---------------------------- MODULE BundleImport ----------------------------
(***************************************************************************)
(* `dialf import` (bundle.rs, hostcheck.rs): a bundle, as a folder or as a *)
(* zip extracted flat into the current folder, replaces this machine's     *)
(* configuration.  The import may die at any point, the owner may edit the *)
(* configuration while its questions are on the screen, and it is run      *)
(* again on whatever an earlier run left behind.                           *)
(*                                                                         *)
(* A file is its content: a configuration (its shared key, and how YAML    *)
(* types it), a job, anything else, or nothing: a file that was created    *)
(* and not written to parses as a configuration of defaults, and as a job  *)
(* of no steps.  Paths inside a zip are their directory, a sequence of     *)
(* segments, and a name.                                                   *)
(***************************************************************************)
EXTENDS Integers, FiniteSets, Sequences, SequencesExt, FiniteSetsExt

CONSTANTS
    RealKey,     \* shared keys other than the placeholder `change-me`
    NumberKey,   \* those of digits only: YAML types them, unquoted, as numbers
    YamlName,    \* the names of files ending in .yaml
    Archive,     \* what a zip may be: a sequence of [dir, name, what]
    MaxImport,   \* bound: how often the command is run
    MaxEdit,     \* bound: how often the owner edits the configuration
    MaxSecond    \* bound: distinct seconds in which backups are made

Placeholder == "change-me"
Key == RealKey \cup {Placeholder}

\* What a file may hold; "torn" is a file whose writing was cut short, so that
\* nothing can be said of it.
ConfigFile(k, form) == [kind |-> "config", key |-> k, form |-> form]
Forms(k) == {"text"} \cup (IF k \in NumberKey THEN {"number"} ELSE {})
JobFile   == [kind |-> "job"]
OtherFile == [kind |-> "other"]
Empty     == [kind |-> "empty"]
Torn      == [kind |-> "torn"]
Absent    == [kind |-> "absent"]

\* What a zip holds, one entry of each path at most: the reader keeps its
\* entries by their path.
Entry == [dir : Seq(STRING), name : STRING,
          what : UNION {{ConfigFile(k, f) : f \in Forms(k)} : k \in Key}
                   \cup {JobFile, OtherFile}]
ASSUME ArchiveAssumption ==
    /\ Archive \subseteq Seq(Entry)
    /\ \A z \in Archive : \A i, j \in DOMAIN z :
         z[i].dir = z[j].dir /\ z[i].name = z[j].name => i = j
    /\ MaxImport \in Nat

VARIABLES
    folder,   \* the current folder: name -> content
    dest,     \* the installed configuration: [kind], or with its key and version
    backups,  \* <<second, suffix>> -> the copy made under that name
    run,      \* the import under way
    second,   \* the wall clock the backup names are stamped with
    version,  \* configurations written so far: each whole one is told apart
    imports, edits,   \* counters of the bounds
    kept,     \* versions an import must not lose: installed, not edited away
    paired,   \* the key the phone is paired with, or Placeholder
    excused   \* why the pairing was given up, or "no": see KeyKept

importVars ==
    <<folder, dest, backups, run, second, version, imports, edits, kept,
      paired, excused>>

Idle == [at |-> "idle"]
Name == UNION {{e.name : e \in ToSet(z)} : z \in Archive}

IsThere(file) == file.kind # "absent"
Readable(c) == c.kind = "config"

-----------------------------------------------------------------------------
(* The archive.                                                            *)

\* Archiver noise, which is not part of the bundle.
IsZipJunk(e) == (e.dir # <<>> /\ Head(e.dir) = "__MACOSX") \/ e.name = ".DS_Store"

\* The entry of the shallowest config.yaml, the first of those in the archive's
\* order.
ConfigEntries(z) ==
    {i \in DOMAIN z : z[i].name = "config.yaml" /\ ~IsZipJunk(z[i])}
Shallowest(z) ==
    CHOOSE i \in ConfigEntries(z) : \A j \in ConfigEntries(z) :
        \/ Len(z[i].dir) < Len(z[j].dir)
        \/ Len(z[i].dir) = Len(z[j].dir) /\ i =< j
StripPrefix(z) == z[Shallowest(z)].dir

\* What is extracted, in the archive's order: the entries below that directory,
\* flat names only here.
Plan(z) == {i \in DOMAIN z : z[i].dir = StripPrefix(z) /\ ~IsZipJunk(z[i])}

-----------------------------------------------------------------------------
Present == {n \in Name : IsThere(folder[n])}

ImportZipOver(z, override, terminal) ==
    /\ run = Idle /\ imports < MaxImport
    /\ imports' = imports + 1
    /\ IF ConfigEntries(z) = {}
       THEN run' = Idle
       ELSE run' = [at |-> "extract", zip |-> z, todo |-> Plan(z), open |-> FALSE,
                    override |-> override, terminal |-> terminal]
    /\ UNCHANGED <<folder, dest, backups, second, version, edits, kept, paired,
                   excused>>

\* `dialf import <zip>`: every target is planned before anything is written,
\* and one that exists aborts the command.
ImportZip(z, override, terminal) ==
    /\ run = Idle /\ imports < MaxImport
    /\ imports' = imports + 1
    /\ IF ConfigEntries(z) = {} \/ \E i \in Plan(z) : IsThere(folder[z[i].name])
       THEN run' = Idle
       ELSE run' = [at |-> "extract", zip |-> z, todo |-> Plan(z), open |-> FALSE,
                    override |-> override, terminal |-> terminal]
    /\ UNCHANGED <<folder, dest, backups, second, version, edits, kept, paired,
                   excused>>

\* File::create of the next target, then its content.
Extract ==
    /\ run.at = "extract" /\ run.todo # {}
    /\ LET i == Min(run.todo)
           e == run.zip[i]
       IN  IF run.open
           THEN /\ folder' = [folder EXCEPT ![e.name] = e.what]
                /\ run' = [run EXCEPT !.open = FALSE, !.todo = @ \ {i}]
           ELSE /\ folder' = [folder EXCEPT ![e.name] = Empty]
                /\ run' = [run EXCEPT !.open = TRUE]
    /\ UNCHANGED <<dest, backups, second, version, imports, edits, kept, paired,
                   excused>>

Extracted ==
    /\ run.at = "extract" /\ run.todo = {}
    /\ run' = [at |-> "check", override |-> run.override, terminal |-> run.terminal]
    /\ UNCHANGED <<folder, dest, backups, second, version, imports, edits, kept,
                   paired, excused>>

\* `dialf import .`: the folder as it is.
ImportFolder(override, terminal) ==
    /\ run = Idle /\ imports < MaxImport
    /\ imports' = imports + 1
    /\ run' = [at |-> "check", override |-> override, terminal |-> terminal]
    /\ UNCHANGED <<folder, dest, backups, second, version, edits, kept, paired,
                   excused>>

\* A bundle is a config.yaml that parses, be it empty, and at least one other
\* file that parses as a job; an existing configuration is replaced with
\* --override, or on a yes at the terminal.
IsJob(n) == folder[n] = JobFile \/ (folder[n] = Empty /\ n \in YamlName)
Bundled == /\ "config.yaml" \in Name
           /\ folder["config.yaml"].kind \in {"config", "empty"}
           /\ \E n \in Present \ {"config.yaml"} : IsJob(n)

Check ==
    /\ run.at = "check"
    /\ \E yes \in BOOLEAN :
         run' = IF Bundled /\ (IsThere(dest) => (run.override \/ (run.terminal /\ yes)))
                THEN [at |-> "key", terminal |-> run.terminal]
                ELSE Idle
    /\ UNCHANGED <<folder, dest, backups, second, version, imports, edits, kept,
                   paired, excused>>

\* A key as the import reads it (Value::as_str): one that YAML types as a number
\* is none, and an empty configuration has none.  Placeholder stands for none.
AsStr(c) == IF Readable(c) /\ c.form # "number" THEN c.key ELSE Placeholder

\* The key of the configuration to be replaced.
ExistingKey == AsStr(dest)

ReadKey ==
    /\ run.at = "key"
    /\ run' = [at |-> "ask", mine |-> ExistingKey, terminal |-> run.terminal,
               number |-> Readable(dest) /\ dest.form = "number"]
    /\ UNCHANGED <<folder, dest, backups, second, version, imports, edits, kept,
                   paired, excused>>

\* check_shared_key: Enter keeps this machine's key, Tab takes the bundle's
\* when it differs, anything typed beats both.
Answers(mine, imported) ==
    {"enter", "typed"}
      \cup (IF mine # Placeholder /\ imported \notin {mine, Placeholder}
              THEN {"tab"} ELSE {})

Chosen(answer, mine, imported, typed) ==
    CASE answer = "tab"   -> imported
      [] answer = "typed" -> typed
      [] answer = "enter" -> IF mine # Placeholder THEN mine ELSE imported

\* The key of the bundle's configuration as it is, and with another key written
\* to it: to a mapping, which an empty file is not (set_top_level_str).
Brought(c) == IF c = Empty THEN [key |-> Placeholder, form |-> "text"]
              ELSE [key |-> c.key, form |-> c.form]
WithKey(c, k) == IF c = Empty THEN Brought(c) ELSE [key |-> k, form |-> "text"]

\* At the terminal; a placeholder never replaces what the bundle holds.
AskedKey(c, mine, answer, typed) ==
    LET k == Chosen(answer, mine, AsStr(c), typed)
    IN  IF k \in {Placeholder, AsStr(c)} THEN Brought(c) ELSE WithKey(c, k)

\* Without one the machine's key is kept.
UnaskedKey(c, mine) ==
    IF mine \in {Placeholder, Brought(c).key} THEN Brought(c) ELSE WithKey(c, mine)

Excuse(c) == IF run.number THEN "number" ELSE IF c = Empty THEN "empty" ELSE "no"

\* What is about to be installed, and whether the key was to be kept.
Ask ==
    /\ run.at = "ask"
    /\ LET c == folder["config.yaml"]
       IN  IF run.terminal
           THEN \E answer \in Answers(run.mine, AsStr(c)), typed \in Key :
                  run' = [at |-> "backup", excuse |-> Excuse(c),
                          key |-> AskedKey(c, run.mine, answer, typed),
                          kept |-> answer = "enter"]
           ELSE run' = [at |-> "backup", excuse |-> Excuse(c),
                        key |-> UnaskedKey(c, run.mine), kept |-> TRUE]
    /\ UNCHANGED <<folder, dest, backups, second, version, imports, edits, kept,
                   paired, excused>>

StampOnly == <<second, 1>>

\* The copy gets a name nobody has used: the second, then a suffix.
FreeName ==
    LET taken == {n \in 1 .. MaxImport : <<second, n>> \in DOMAIN backups}
    IN  <<second, CHOOSE n \in 1 .. MaxImport + 1 :
                    n \notin taken /\ \A m \in 1 .. n - 1 : m \in taken>>

Put(f, x, v) == [y \in DOMAIN f \cup {x} |-> IF y = x THEN v ELSE f[y]]

\* The import goes on with what was chosen.
GoOn(at) == [at |-> at, key |-> run.key, kept |-> run.kept, excuse |-> run.excuse]

Backup ==
    /\ run.at = "backup"
    /\ IF IsThere(dest)
       THEN /\ backups' = Put(backups, FreeName, Torn)
            /\ run' = [at |-> "copy", name |-> FreeName, key |-> run.key,
                       kept |-> run.kept, excuse |-> run.excuse]
       ELSE /\ run' = GoOn("write")
            /\ UNCHANGED backups
    /\ UNCHANGED <<folder, dest, second, version, imports, edits, kept, paired,
                   excused>>

Copied ==
    /\ run.at = "copy"
    /\ backups' = [backups EXCEPT ![run.name] = dest]
    /\ run' = GoOn("write")
    /\ UNCHANGED <<folder, dest, second, version, imports, edits, kept, paired,
                   excused>>

\* std::fs::write truncates the file before it holds the new text.
Truncate ==
    /\ run.at = "write"
    /\ dest' = Torn
    /\ run' = GoOn("fill")
    /\ UNCHANGED <<folder, backups, second, version, imports, edits, kept, paired,
                   excused>>

Install(k) ==
    /\ version' = version + 1
    /\ dest' = [kind |-> "config", key |-> k.key, form |-> k.form,
                version |-> version + 1]

Fill ==
    /\ run.at = "fill"
    /\ Install(run.key)
    /\ kept' = kept \cup {version + 1}
    /\ IF run.kept /\ paired # Placeholder
       THEN /\ excused' = IF run.excuse = "no" THEN excused ELSE run.excuse
            /\ UNCHANGED paired
       ELSE paired' = run.key.key /\ UNCHANGED excused
    /\ run' = Idle
    /\ UNCHANGED <<folder, backups, second, imports, edits>>

\* What there may be of a file that was being extracted: nothing, a part, of a
\* configuration one that parses and does not come to the key.
Cuts(what) ==
    {Empty, Torn} \cup (IF what.kind = "config"
                       THEN {ConfigFile(Placeholder, "text")} ELSE {})

\* The command is killed; what it was writing stays as it is.
Die ==
    /\ run # Idle
    /\ run' = Idle
    /\ IF run.at = "extract" /\ run.open
       THEN LET e == run.zip[Min(run.todo)]
            IN  \E c \in Cuts(e.what) : folder' = [folder EXCEPT ![e.name] = c]
       ELSE UNCHANGED folder
    /\ excused' = IF dest = Torn THEN "torn" ELSE excused
    /\ UNCHANGED <<dest, backups, second, version, imports, edits, kept, paired>>

\* The owner writes the configuration, before the import or while it asks, the
\* key in quotes or not.
Edit(k, form) ==
    /\ run.at \in {"idle", "ask"} /\ edits < MaxEdit
    /\ edits' = edits + 1
    /\ Install([key |-> k, form |-> form])
    /\ kept' = (kept \ (IF Readable(dest) THEN {dest.version} ELSE {})) \cup {version + 1}
    /\ paired' = k
    /\ excused' = IF run.at = "ask" THEN "asked" ELSE "no"
    /\ UNCHANGED <<folder, backups, run, second, imports>>

\* The owner empties the folder, as the refusal to overwrite asks for.
CleanUp ==
    /\ run = Idle /\ Present # {}
    /\ folder' = [n \in Name |-> Absent]
    /\ UNCHANGED <<dest, backups, run, second, version, imports, edits, kept,
                   paired, excused>>

SecondPasses ==
    /\ second < MaxSecond
    /\ second' = second + 1
    /\ UNCHANGED <<folder, dest, backups, run, version, imports, edits, kept,
                   paired, excused>>

ImportInit ==
    /\ folder = [n \in Name |-> Absent]
    /\ dest = Absent /\ backups = << >> /\ run = Idle
    /\ second = 0 /\ version = 0 /\ imports = 0 /\ edits = 0
    /\ kept = {} /\ paired = Placeholder /\ excused = "no"

ImportNext ==
    \/ \E z \in Archive, o, t \in BOOLEAN : ImportZip(z, o, t)
    \/ \E o, t \in BOOLEAN : ImportFolder(o, t)
    \/ Extract \/ Extracted \/ Check \/ ReadKey \/ Ask
    \/ Backup \/ Copied \/ Truncate \/ Fill
    \/ Die \/ (\E k \in Key : \E f \in Forms(k) : Edit(k, f)) \/ CleanUp \/ SecondPasses

ImportSpec == ImportInit /\ [][ImportNext]_importVars

-----------------------------------------------------------------------------
\* Nothing this machine had is lost: every configuration that was installed,
\* and that its owner did not edit away, is still in place or in a backup,
\* wherever the import was killed and however often it was run again (the
\* backup before the write, under a name of its own: import_impl).
OriginalKept ==
    \A v \in kept :
        \/ Readable(dest) /\ dest.version = v
        \/ \E b \in DOMAIN backups : Readable(backups[b]) /\ backups[b].version = v

\* A phone stays paired ("a replaced config keeps its key", import_impl): as
\* long as nobody asks for another key, a replaced configuration keeps its key,
\* whatever the bundles bring and wherever an import was killed.  Four cases are
\* excused: "torn", the configuration's own writing was cut short; "asked", it
\* was edited after the import had read the key it will write; and two the code
\* overlooks: "number", the key stands unquoted and YAML types it as a number,
\* which as_str does not read; and "empty", the bundle's config.yaml was left
\* empty by an extraction that was killed, and no key can be written to it.
KeyKept ==
    Readable(dest) /\ paired # Placeholder /\ excused = "no" => dest.key = paired

\* What they leave out, which the code does not keep.
PairingKept == Readable(dest) /\ paired # Placeholder => dest.key = paired

\* An import loses no configuration, and unpairs no phone but in those cases.
ImportKeeps == OriginalKept /\ KeyKept

\* Extraction adds files and changes none: the only file an import rewrites is
\* the one it has just created itself (extract_bundle_zip's plan).
NothingOverwritten ==
    [][\A n \in Name :
          (IsThere(folder[n]) /\ IsThere(folder'[n]) /\ folder'[n] # folder[n])
             => run.at = "extract" /\ run.open /\ n = run.zip[Min(run.todo)].name]_importVars
=============================================================================
