---------------------------- MODULE BundleExport ----------------------------
(* `dialf export`: the folder's files and the configuration become one zip  *)
(* that must work on another machine: references inside job scripts and the *)
(* configuration's auto-answer jobs are rewritten, files from outside the   *)
(* folder are pulled in under names of their own.  A path is a sequence of  *)
(* components; the contents of a file are its references.                   *)
EXTENDS Integers, Sequences, FiniteSets, TLC

CONSTANTS Folder,    \* paths that a file of the folder may have
          Abroad,    \* files outside it: names whose last component is a base
          Base,      \* their base names: [Abroad -> component]
          Yaml,      \* those of both that have a YAML extension
          HiddenDir, \* components that begin with a dot
          Number,    \* numbers of config.autoanswer
          Setup      \* what there is to export, see SetupOK

Nowhere == <<>>             \* a reference to a file that does not exist
Recordings == "recordings"  \* RECORDING_DIR_NAMES
ConfigYaml == <<"config.yaml">>

Files == Folder \cup Abroad
\* No reference, not a job, or one audio.play: how it is written, what it means.
NoRef == [form |-> "none", to |-> Nowhere]
NotAJob == [form |-> "not a job", to |-> Nowhere]
Ref(form, to) == [form |-> form, to |-> to]

\* exist: which files; refs: the contents of each; auto: number -> job (or
\* Nowhere: the job is missing; ConfigYaml stands for `null`, answer only);
\* recordDir: the configured directory inside the folder, <<>> for elsewhere.
SetupOK(s) ==
  /\ s.exist \subseteq Files
  /\ \A f \in s.exist : s.refs[f].to \in s.exist \cup {Nowhere}
  /\ \A n \in Number : s.auto[n] \in s.exist \cup {Nowhere, ConfigYaml}

\* The n-th name that is tried for a file of that base name.
Copy(base, n) == IF n = 0 THEN base ELSE ToString(n) \o "-" \o base

\* Paths in the folder are relative to it and plain; a number in front of a
\* name makes another of it.
ASSUME ExportAssumption ==
  /\ \A s \in Setup : SetupOK(s)
  /\ IsFiniteSet(Files) /\ Folder \cap Abroad = {}
  /\ Nowhere \notin Files /\ ConfigYaml \notin Abroad
  /\ \A f \in Folder : /\ f \in Seq({f[i] : i \in DOMAIN f})
                       /\ \A i \in DOMAIN f : f[i] # ".."
  /\ \A f \in Abroad : \A n \in 0 .. Cardinality(Files) :
       /\ Copy(Base[f], n) # ".."
       /\ \A m \in 0 .. n - 1 : Copy(Base[f], m) # Copy(Base[f], n)

VARIABLES
  setup,   \* the machine that exports
  export,  \* how far it is: files and numbers left, who has been warned of
  entries, \* zip name -> what it holds: the file, and its references now
  pulled,  \* file from outside -> its zip name
  conf     \* number -> what the bundled configuration says

exportVars == <<setup, export, entries, pulled, conf>>

EmptyMap == [x \in {} |-> x]
With(f, x, v) == [y \in DOMAIN f \cup {x} |-> IF y = x THEN v ELSE f[y]]

NoSetup == [exist |-> {}, refs |-> EmptyMap, auto |-> EmptyMap,
            recordDir |-> <<>>]

ExportInit ==
  /\ setup = NoSetup
  /\ export = [pc |-> "idle", files |-> {}, numbers |-> Number,
               warned |-> {}, missing |-> {}]
  /\ entries = EmptyMap /\ pulled = EmptyMap
  /\ conf = [n \in Number |-> <<>>]
-----------------------------------------------------------------------------
(* Paths in the zip.                                                        *)

Parent(path) == IF path = <<>> THEN <<>> ELSE SubSeq(path, 1, Len(path) - 1)

FromTheRoot(base, target) == target

\* relative_zip_path: up to the common directory, then down.
RelativeZipPath(base, target) ==
  LET limit  == IF Len(base) < Len(target) THEN Len(base) ELSE Len(target)
      common == CHOOSE c \in 0 .. limit :
                  /\ SubSeq(base, 1, c) = SubSeq(target, 1, c)
                  /\ c < limit => base[c + 1] # target[c + 1]
  IN [j \in 1 .. Len(base) - common |-> ".."]
       \o SubSeq(target, common + 1, Len(target))

\* pull_external: the first name that is free.
Numbered(under, base, n) == <<under, Copy(base, n)>>
PullName(under, base, taken) ==
  LET n == CHOOSE n \in 0 .. Cardinality(taken) :
             /\ Numbered(under, base, n) \notin taken
             /\ \A m \in 0 .. n - 1 : Numbered(under, base, m) \in taken
  IN Numbered(under, base, n)

\* As a step from one pair of tables to the next, with the name.
PullExternal(file, under, t) ==
  IF file \in DOMAIN t.pulled THEN [t EXCEPT !.name = t.pulled[file]]
  ELSE LET name == PullName(under, Base[file], DOMAIN t.entries)
       IN [name |-> name,
           entries |-> With(t.entries, name,
                            [file |-> file, ref |-> setup.refs[file]]),
           pulled |-> With(t.pulled, file, name)]

-----------------------------------------------------------------------------
Inside(f) == f \in Folder
Under(path, dir) == dir # <<>> /\ Len(dir) < Len(path)
                      /\ SubSeq(path, 1, Len(dir)) = dir
Excluded(path) == Under(path, <<Recordings>>) \/ Under(path, setup.recordDir)
Hidden(path) == \E i \in 1 .. Len(path) : path[i] \in HiddenDir
Ships(f) == Inside(f) /\ ~Excluded(f) /\ ~Hidden(f)

\* `dialf export` on a machine as it is.
ExportBegins(s) ==
  /\ export.pc = "idle"
  /\ setup' = s
  /\ export' = [export EXCEPT !.pc = "walk"]
  /\ UNCHANGED <<entries, pulled, conf>>

\* walk, and the names of its files reserved; the folder's own config.yaml is
\* replaced by the one that is generated.
Walk ==
  /\ export.pc = "walk"
  /\ LET files == {f \in setup.exist : Ships(f)} \ {ConfigYaml} IN
       /\ entries' = [f \in files |-> [file |-> f, ref |-> setup.refs[f]]]
       /\ export' = [export EXCEPT !.pc = "scripts", !.files = files \cap Yaml]
  /\ UNCHANGED <<setup, pulled, conf>>

Tables(name) == [name |-> name, entries |-> entries, pulled |-> pulled]

\* The reference of a script, seen from its place in the zip.
Relink(name, target) == [form |-> "zip",
                         to |-> RelativeZipPath(Parent(name), target)]

\* normalize_script: one script of the folder.
NormalizeScript(f) ==
  /\ export.pc = "scripts" /\ f \in export.files
  /\ LET ref == setup.refs[f]
         left == [export EXCEPT !.files = @ \ {f}]
         warn == [left EXCEPT !.warned = @ \cup {f}]
     IN \/ /\ ref \in {NoRef, NotAJob}
           /\ export' = left /\ UNCHANGED <<entries, pulled>>
        \/ /\ ref.form \in {"rel", "abs"} /\ ref.to = Nowhere
           /\ export' = warn /\ UNCHANGED <<entries, pulled>>
        \/ /\ ref.form \in {"rel", "abs"} /\ ref.to # Nowhere
           /\ Inside(ref.to) /\ ~Ships(ref.to)
           /\ export' = warn /\ UNCHANGED <<entries, pulled>>
        \/ /\ ref.form = "rel" /\ Ships(ref.to)
           /\ export' = left /\ UNCHANGED <<entries, pulled>>
        \/ /\ ref.form = "abs" /\ Ships(ref.to)
           /\ export' = left
           /\ entries' = With(entries, f, [file |-> f, ref |-> Relink(f, ref.to)])
           /\ UNCHANGED pulled
        \/ /\ ref.form \in {"rel", "abs"} /\ ref.to \in Abroad
           /\ export' = left
           /\ LET t == PullExternal(ref.to, "samples", Tables(<<>>)) IN
                /\ entries' = With(t.entries, f,
                                   [file |-> f, ref |-> Relink(f, t.name)])
                /\ pulled' = t.pulled
  /\ UNCHANGED <<setup, conf>>

ScriptsDone ==
  /\ export.pc = "scripts" /\ export.files = {}
  /\ export' = [export EXCEPT !.pc = "config"]
  /\ UNCHANGED <<setup, entries, pulled, conf>>

\* A job from outside, and what it plays, from its new place under scripts/.
\* (normalize_out_of_tree_job; whatever it refers to in the folder is taken to
\* be in the zip.)
PullJob(job) ==
  LET t == PullExternal(job, "scripts", Tables(<<>>))
      ref == setup.refs[job]
      u == IF ref.to \in Abroad THEN PullExternal(ref.to, "samples", t)
           ELSE [t EXCEPT !.name = ref.to]
  IN IF ref.form = "none" \/ ref.to = Nowhere THEN t
     ELSE [name |-> t.name, pulled |-> u.pulled,
           entries |-> With(u.entries, t.name,
                            [file |-> job, ref |-> Relink(t.name, u.name)])]

\* An auto-answer job: kept, named by its place in the zip, or pulled in.
ConfigNumber(n) ==
  /\ export.pc = "config" /\ n \in export.numbers
  /\ LET job == setup.auto[n]
         left == [export EXCEPT !.numbers = @ \ {n}]
     IN \/ /\ job = ConfigYaml
           /\ export' = left /\ UNCHANGED <<entries, pulled, conf>>
        \/ /\ job = Nowhere
           /\ export' = [left EXCEPT !.missing = @ \cup {n}]
           /\ UNCHANGED <<entries, pulled, conf>>
        \/ /\ job # ConfigYaml /\ Inside(job)
           /\ export' = left
           /\ conf' = [conf EXCEPT ![n] = job]
           /\ UNCHANGED <<entries, pulled>>
        \/ /\ job \in Abroad /\ setup.refs[job] = NotAJob
           /\ export' = [export EXCEPT !.pc = "failed"]
           /\ UNCHANGED <<entries, pulled, conf>>
        \/ /\ job \in Abroad /\ setup.refs[job] # NotAJob
           /\ export' = left
           /\ LET t == PullJob(job) IN
                /\ entries' = t.entries /\ pulled' = t.pulled
                /\ conf' = [conf EXCEPT ![n] = t.name]
  /\ UNCHANGED setup

\* config.yaml goes in, and the zip is written.
WriteZip ==
  /\ export.pc = "config" /\ export.numbers = {}
  /\ export' = [export EXCEPT !.pc = "written"]
  /\ entries' = With(entries, ConfigYaml, [file |-> ConfigYaml, ref |-> NotAJob])
  /\ UNCHANGED <<setup, pulled, conf>>

ExportNext ==
  \/ (\E s \in Setup : ExportBegins(s)) \/ Walk
  \/ (\E f \in Folder : NormalizeScript(f)) \/ ScriptsDone
  \/ (\E n \in Number : ConfigNumber(n)) \/ WriteZip

ExportSpec == ExportInit /\ [][ExportNext]_exportVars
-----------------------------------------------------------------------------
\* The bundle where it is imported: a reference read from its script's place.
Normal(path) ==
  LET at[i \in 0 .. Len(path)] ==
        IF i = 0 THEN <<>>
        ELSE IF path[i] = ".." THEN Parent(at[i - 1])
        ELSE Append(at[i - 1], path[i])
  IN at[Len(path)]
Plays(name) ==
  LET ref == entries[name].ref IN
  IF ref.form = "zip" THEN Normal(Parent(name) \o ref.to)
  ELSE IF ref.form = "rel" THEN ref.to ELSE <<>>

Holds(name, file) == name \in DOMAIN entries /\ entries[name].file = file
Played(f) == setup.refs[f].to

\* "Self-contained": every job that the bundle carries plays there what it
\* played here, and every auto-answer number runs the job it ran here, unless
\* export said otherwise: also after names have collided, a file has been
\* pulled in twice, or a script was written with absolute paths (export,
\* normalize_script, pull_external, relative_zip_path).  Files that export
\* leaves out are a separate matter, NothingSilent.
RoundTrip ==
  export.pc = "written" =>
    /\ \A name \in DOMAIN entries :
         LET f == entries[name].file IN
           f # ConfigYaml /\ setup.refs[f].form \in {"rel", "abs"}
             /\ f \notin export.warned /\ (Inside(f) => f \in Yaml)
             /\ Played(f) \in {g \in Files : Ships(g) \/ g \in Abroad}
             /\ (Inside(f) \/ \E n \in Number : setup.auto[n] = f)
           => Holds(Plays(name), Played(f))
    /\ \A n \in Number :
         LET job == setup.auto[n] IN
           job \in Abroad \/ (job # ConfigYaml /\ Ships(job))
             => Holds(conf[n], job)

\* No file stands in for another: what the folder ships is there under its own
\* name, whatever was pulled in has one name (the names reserved first).
NoClobber ==
  export.pc = "written" =>
    /\ \A f \in setup.exist : Ships(f) /\ f # ConfigYaml => Holds(f, f)
    /\ \A f \in DOMAIN pulled : Holds(pulled[f], f)
    /\ \A name \in DOMAIN entries : entries[name].file \in Abroad =>
         name = pulled[entries[name].file]

\* A bundle means on the other machine what the folder meant on this one.
BundleTravels == RoundTrip /\ NoClobber

\* "That must not pass silently": nothing the bundle refers to is left out of
\* it without a warning.
NothingSilent ==
  export.pc = "written" =>
    \A n \in Number :
      setup.auto[n] \in setup.exist /\ n \notin export.missing
        /\ setup.auto[n] # ConfigYaml
        => conf[n] \in DOMAIN entries
=============================================================================
