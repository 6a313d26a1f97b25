------------------------------ MODULE HostCheck -----------------------------
(***************************************************************************)
(* The host precheck of `dialf import` (hostcheck.rs): the audio section   *)
(* of an imported configuration is fitted to this machine, its devices,    *)
(* the sound tools its commands name and the driver they name it with.     *)
(* With a terminal every fix is asked for; without one the safe rewrites   *)
(* are applied.                                                            *)
(*                                                                         *)
(* A tool is [dir, base]; dir "" is a bare name, looked up along PATH.  A  *)
(* pinned command is its tool, the audio driver it gives sox and the       *)
(* device it names.                                                        *)
(***************************************************************************)
EXTENDS Integers, Sequences, SequencesExt, FiniteSets

CONSTANTS
    Machine,   \* [linux, path, devices, pm]: OS, directories of PATH in order,
               \* the [name, input, output] detected, a package manager we drive
    Imported,  \* audio sections: [capture_device, playback_device,
               \* capture_cmd, playback_cmd], each possibly Unset or NoCmd
    Installed0,\* the tools present at first: functions [dir, base] -> rank
    BrewDir,   \* where the package manager puts a tool
    NgRank     \* what `sox --version` must rank at to be sox_ng, BestSox

Unset == "unset"
NoCmd == [pinned |-> FALSE]
Cmds == <<"capture_cmd", "playback_cmd">>
Devices == <<"capture_device", "playback_device">>

PinnedCmd == [pinned : {TRUE}, tool : [dir : STRING, base : STRING],
              driver : STRING, dev : STRING]

ASSUME HostAssumption ==
    /\ \A m \in Machine : m.path \in Seq(STRING)
    /\ \A a \in Imported : /\ DOMAIN a = ToSet(Devices) \cup ToSet(Cmds)
                          /\ \A i \in 1 .. 2 : a[Cmds[i]] \in {NoCmd} \cup PinnedCmd
    /\ \A t \in Installed0 : \A x \in DOMAIN t : x.dir # "" /\ t[x] \in Nat
    /\ BrewDir # "" /\ NgRank \in Nat

VARIABLES
    machine, audio,   \* this machine and the section as it stands
    tools,            \* tool -> rank of what it answers to --version (0: not sox)
    check,            \* the step the check is at, and what it still has to do
    before,           \* the section and the tools the check started from
    declined,         \* the owner refused a fix, or an install did not help
    swapBroke         \* sox was uninstalled and sox_ng could not be installed

hostVars == <<machine, audio, tools, check, before, declined, swapBroke>>
-----------------------------------------------------------------------------
IsSox(base) == base \in {"sox", "sox_ng"}
Absolute(t) == t.dir # ""
OnPath(base) == {d \in ToSet(machine.path) : [dir |-> d, base |-> base] \in DOMAIN tools}
Exists(t) == IF Absolute(t) THEN t \in DOMAIN tools ELSE OnPath(t.base) # {}

\* Along PATH, sox_ng's name before the plain one in each directory; only a
\* strictly better answer to --version displaces an earlier hit.
SoxAt(i) == [dir |-> machine.path[(i + 1) \div 2],
             base |-> IF i % 2 = 1 THEN "sox_ng" ELSE "sox"]
SoxOnPath == {i \in 1 .. 2 * Len(machine.path) : SoxAt(i) \in DOMAIN tools}
BestSox ==
    SoxAt(CHOOSE i \in SoxOnPath : \A j \in SoxOnPath :
              /\ tools[SoxAt(j)] =< tools[SoxAt(i)]
              /\ j < i => tools[SoxAt(j)] < tools[SoxAt(i)])

\* The first on PATH, by that very name.
Which(base) ==
    [dir |-> machine.path[CHOOSE i \in DOMAIN machine.path :
                 /\ machine.path[i] \in OnPath(base)
                 /\ \A j \in 1 .. i - 1 : machine.path[j] \notin OnPath(base)],
     base |-> base]

Findable(base) == IF IsSox(base) THEN SoxOnPath # {} ELSE OnPath(base) # {}
FindTool(base) == IF IsSox(base) THEN BestSox ELSE Which(base)

Pinned(a, key) == a[key] # NoCmd
Runs(a, key, present) ==
    Pinned(a, key) /\ (Absolute(a[key].tool) => a[key].tool \in present)

\* package_for: what a package manager can bring.
Packaged(base) == base \in {"sox", "arecord"}

-----------------------------------------------------------------------------
Step(at) == check.at = at
Goto(at) == check' = [check EXCEPT !.at = at]
NoChange == UNCHANGED <<machine, before>>

Begin(m, a, t, terminal) ==
    /\ Step("idle")
    /\ machine' = m /\ audio' = a /\ tools' = t
    /\ before' = [audio |-> a, present |-> DOMAIN t]
    /\ check' = [at |-> "driver", terminal |-> terminal, renames |-> <<>>]
    /\ declined' = FALSE /\ swapBroke' = FALSE

\* rewrite_linux_sox_commands: `-t coreaudio` becomes `-t alsa` on Linux.
Driver ==
    /\ Step("driver")
    /\ audio' = [key \in DOMAIN audio |->
                   IF /\ machine.linux /\ key \in ToSet(Cmds) /\ Pinned(audio, key)
                      /\ IsSox(audio[key].tool.base)
                      /\ audio[key].driver = "coreaudio"
                   THEN [audio[key] EXCEPT !.driver = "alsa"]
                   ELSE audio[key]]
    /\ Goto(IF check.terminal THEN "capture_device" ELSE "capture_cmd")
    /\ UNCHANGED <<tools, declined, swapBroke>> /\ NoChange

\* A device that is here in its direction stays; for another the owner picks one
\* of those detected, types a name, or keeps it.
Usable(key) ==
    {d.name : d \in {d \in machine.devices :
                       IF key = "capture_device" THEN d.input ELSE d.output}}
Device(key, next) ==
    /\ Step(key)
    /\ \/ Goto(next) /\ UNCHANGED audio       \* here, none to offer, or kept
       \/ /\ audio[key] \notin Usable(key) \cup {Unset} /\ Usable(key) # {}
          /\ \E new \in Usable(key) \cup {"typed"} :
               /\ audio' = [audio EXCEPT ![key] = new]
               /\ check' = [check EXCEPT !.at = next,
                                         !.renames = Append(@, <<audio[key], new>>)]
    /\ UNCHANGED <<tools, declined, swapBroke>> /\ NoChange

\* The renames are applied in turn, to either command.
Renamed(dev) ==
    FoldLeft(LAMBDA d, r : IF d = r[1] THEN r[2] ELSE d, dev, check.renames)

Bare(t) == [dir |-> "", base |-> t.base]

\* ensure_tool at a terminal: what argv[0] becomes, how the tools change and
\* whether the owner declined what would have fixed it.
Ensured(t) ==
    IF Exists(t) THEN {[tool |-> t, tools |-> tools, declined |-> FALSE]}
    ELSE IF Findable(t.base)
    THEN {[tool |-> FindTool(t.base), tools |-> tools, declined |-> FALSE],
          [tool |-> t, tools |-> tools, declined |-> TRUE]}
    ELSE LET landed == [dir |-> BrewDir, base |-> t.base]
         IN  {[tool |-> Bare(t), tools |-> tools, declined |-> FALSE]}
               \cup (IF machine.pm /\ Packaged(t.base)
                     THEN {[tool |-> IF landed = t THEN t
                                     ELSE IF BrewDir \in ToSet(machine.path)
                                     THEN landed ELSE Bare(t),
                            tools |-> [x \in DOMAIN tools \cup {landed} |->
                                         IF x = landed THEN 1 ELSE tools[x]],
                            declined |-> FALSE]}
                     ELSE {})

RewrittenIfFound(t) ==
    IF ~Absolute(t) \/ Exists(t) \/ ~Findable(t.base) THEN t ELSE FindTool(t.base)

\* rewrite_unusable_tool_paths, without a terminal.
Rewritten(t) ==
    IF ~Absolute(t) \/ Exists(t) THEN t
    ELSE IF Findable(t.base) THEN FindTool(t.base) ELSE Bare(t)

Command(key, next) ==
    /\ Step(key)
    /\ \/ ~Pinned(audio, key) /\ UNCHANGED <<audio, tools, declined>>
       \/ /\ Pinned(audio, key) /\ check.terminal
          /\ \E e \in Ensured(audio[key].tool) :
               /\ audio' = [audio EXCEPT ![key].tool = e.tool,
                                         ![key].dev = Renamed(@)]
               /\ tools' = e.tools
               /\ declined' = (declined \/ e.declined)
       \/ /\ Pinned(audio, key) /\ ~check.terminal
          /\ audio' = [audio EXCEPT ![key].tool = Rewritten(@)]
          /\ UNCHANGED <<tools, declined>>
    /\ Goto(next)
    /\ UNCHANGED swapBroke /\ NoChange

\* A direction without a pinned command needs some tool the daemon will find; one
\* install is offered for whatever is missing.
AutoTool == IF machine.linux THEN "arecord" ELSE "sox"
MissingTool ==
    /\ Step("missing")
    /\ \/ UNCHANGED tools
       \/ /\ check.terminal /\ machine.pm /\ OnPath(AutoTool) = {}
          /\ \E i \in 1 .. 2 : ~Pinned(audio, Cmds[i])
          /\ LET landed == [dir |-> BrewDir, base |-> AutoTool]
             IN  tools' = [x \in DOMAIN tools \cup {landed} |->
                             IF x = landed THEN 1 ELSE tools[x]]
    /\ Goto("sox")
    /\ UNCHANGED <<audio, declined, swapBroke>> /\ NoChange

\* SoxCheck: the sox the section runs, the first pinned one, and whether a
\* device it names is a card that is listed as two halves.
ConfiguredSox ==
    LET pinned == {i \in 1 .. 2 : Pinned(audio, Cmds[i]) /\ IsSox(audio[Cmds[i]].tool.base)}
    IN  IF pinned # {}
        THEN audio[Cmds[CHOOSE i \in pinned : \A j \in pinned : i =< j]].tool
        ELSE IF ~machine.linux /\ SoxOnPath # {}
                /\ \E i \in 1 .. 2 : ~Pinned(audio, Cmds[i])
        THEN BestSox ELSE Bare([base |-> "none"])
Rank(t) == IF Absolute(t) THEN (IF t \in DOMAIN tools THEN tools[t] ELSE 0)
           ELSE IF OnPath(t.base) # {} THEN tools[Which(t.base)] ELSE 0

Named == {audio[Devices[i]] : i \in 1 .. 2}
           \cup {audio[k].dev : k \in {k \in ToSet(Cmds) : Pinned(audio, k)
                                         /\ audio[k].driver = "coreaudio"}}
Split(name) == \E a, b \in machine.devices :
    /\ a.name = name /\ b.name = name
    /\ a.input /\ ~a.output /\ b.output /\ ~b.input
SoxProblem == /\ IsSox(ConfiguredSox.base) /\ Rank(ConfiguredSox) < NgRank
              /\ \E name \in Named : Split(name)

Ng == SoxOnPath # {} /\ tools[BestSox] >= NgRank

\* Nothing to fix, no terminal to ask at, or the owner declines.
SoxFine ==
    /\ Step("sox")
    /\ Goto("done")
    /\ UNCHANGED <<audio, tools, declined, swapBroke>> /\ NoChange

UseSoxNg ==
    /\ Step("sox") /\ check.terminal /\ SoxProblem
    /\ Ng /\ BestSox # ConfiguredSox
    /\ audio' = [key \in DOMAIN audio |->
                   IF key \in ToSet(Cmds) /\ Pinned(audio, key)
                        /\ audio[key].tool = ConfiguredSox
                   THEN [audio[key] EXCEPT !.tool = BestSox] ELSE audio[key]]
    /\ Goto("done")
    /\ UNCHANGED <<tools, declined, swapBroke>> /\ NoChange

\* `brew uninstall sox`, then `brew install sox_ng`: the second may fail after
\* the first has taken sox away.
SwapSox ==
    /\ Step("sox") /\ check.terminal /\ SoxProblem
    /\ ~Ng /\ ~machine.linux /\ machine.pm
    /\ LET brewed == [dir |-> BrewDir, base |-> "sox"]
           gone == [t \in DOMAIN tools \ {brewed} |-> tools[t]]
       IN  \/ UNCHANGED <<tools, swapBroke>>            \* the uninstall failed
           \/ /\ brewed \in DOMAIN tools
              /\ tools' = gone /\ swapBroke' = TRUE
           \/ /\ brewed \in DOMAIN tools
              /\ tools' = [tools EXCEPT ![brewed] = NgRank]
              /\ UNCHANGED swapBroke
    /\ Goto("done")
    /\ UNCHANGED <<audio, declined>> /\ NoChange

\* The configuration is installed; another import begins with another bundle.
HostInit ==
    /\ machine = Unset /\ audio = Unset /\ tools = Unset /\ before = Unset
    /\ check = [at |-> "idle"] /\ declined = FALSE /\ swapBroke = FALSE

Finish ==
    /\ Step("done")
    /\ machine' = Unset /\ audio' = Unset /\ tools' = Unset /\ before' = Unset
    /\ check' = [at |-> "idle"] /\ declined' = FALSE /\ swapBroke' = FALSE

HostNext ==
    \/ \E m \in Machine, a \in Imported, t \in Installed0, y \in BOOLEAN :
          Begin(m, a, t, y)
    \/ Driver
    \/ Device("capture_device", "playback_device")
    \/ Device("playback_device", "capture_cmd")
    \/ Command("capture_cmd", "playback_cmd") \/ Command("playback_cmd", "missing")
    \/ MissingTool \/ SoxFine \/ UseSoxNg \/ SwapSox \/ Finish

HostSpec == HostInit /\ [][HostNext]_hostVars

-----------------------------------------------------------------------------
\* An imported command can run here, now or as soon as its tool is installed:
\* its tool is present or a bare name, sox is not left with the other system's
\* driver, and a command whose tool was here before the check still has one.
\* Excused are a fix the owner refused and a sox that was uninstalled although
\* its successor could not be installed (rewrite_unusable_tool_paths: "cannot
\* work on this machine", fallback_to_basename, ensure_tool, offer_sox_ng).
CommandsFit ==
    Step("done") /\ ~declined /\ ~swapBroke =>
        \A i \in 1 .. 2 : Pinned(audio, Cmds[i]) =>
            LET c == audio[Cmds[i]]
            IN  /\ Absolute(c.tool) => c.tool \in DOMAIN tools
                /\ machine.linux /\ IsSox(c.tool.base) => c.driver # "coreaudio"
                /\ before.audio[Cmds[i]].tool \in before.present => Exists(c.tool)
=============================================================================
