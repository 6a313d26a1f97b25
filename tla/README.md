# DialF: specification and proofs

DialF drives a phone call from a computer: an Android app holds the phone, a
daemon (`dialfd`) on the host plays and records through a sound card, and jobs
(YAML scripts) dial, wait, play, listen and hang up. App and daemon are joined
by one WebSocket that breaks whenever the phone dozes, roams or restarts. Most
of what is hard in this program comes from that: which socket is current, what
a call state means that arrived on another one, and who hangs up a call whose
driver has gone.

Around that core stand the clients that ask things of the daemon (who answers
calls, what a phone's inbox holds, which devices are shared), the app's search
for its daemon, the recording of both legs of a call, and the moving of an
installation from one machine to another.

The modules here model these parts in TLA+, TLC checks small instances of them,
and TLAPS proves for all instances that the daemon's connection layer implements the
command service it promises, and the invariants of crash recovery, of the jobs and of
most of the parts around them. Paths
below are under `src/server/crates/dialf/src/` unless they start with `app/`
(then `src/app/android/app/src/main/kotlin/build/agora/dialf_phone/`).

## 1. Inventory

| component | source | state | operations | modelled in |
|---|---|---|---|---|
| hub | `hub.rs` | current connection of each device (generation, queue of 64 frames, ack waiters, cancel) | register, unregister, drop_device, resolve_ack, command, fire | `Hub` |
| phone server | `transport/phone_server.rs` | per socket: local variables of `handle_conn`; per device: registry record, `instances` | accept, hello, register, upsert, read, close, reaper | `PhoneServer` |
| calls in the daemon | `transport/phone_server.rs`, `registry.rs`, `daemon.rs` | `current_call`, marker files, `pending_orphans`, `job_abort` | call_state frame, relaunch, crash and restart | `CallTrack` |
| calls on the phone | `app/Dialf.kt`, `DialfInCallService.kt`, `Telecom.kt` | ids given to calls, calls tracked | onCallAdded, onStateChanged, onCallRemoved, dial, answer, hangup | `CallTrack` |
| the app's socket | `app/ConnForegroundService.kt` | `ws`, process instance, heartbeat | connect, onOpen (hello, re-report), dropped, forceReconnect, command dispatch | `PhoneServer`, `CallTrack` |
| jobs | `daemon.rs`, `jobs/runner.rs`, `phone.rs`, `trigger_autoanswer` | `card_busy`, `job_cancel`, `job_force`, `job_abort`; per job its step and its view of the call | job.run, job.cancel, auto-answer, each kind of step | `JobControl` |
| serve session, overrides | `transport/control_server.rs`, `daemon.rs` | overrides by number and token, serve slot, runtime map, event stream | autoanswer.serve, override.set, override.clear, resolve_inbound | `Overrides` |
| request/reply slots | `daemon.rs` 793-910, `phone_server.rs` | SMS, call-log and SIM caches, MMI and voicemail slots | drop, fire, poll or sleep, record, answer | `Requests` |
| the app's search for its daemon | `app/ConnForegroundService.kt`, `DaemonCandidates.kt`, receivers, `MainActivity.kt` | socket and its stage, candidates, those rejected or unreachable, retry timer, search window, alarms, settings | discover, resolve, connect, open, drop, fail over, liveness, revive | `AppLink` |
| adb link | `adb_link.rs`, `app/ConnForegroundService.kt`, `AdbEndpoint.kt` | the app's reading of its adb port; per device busy, back-off, status | report, check, disconnect, connect, verify, tell | `AdbLink` |
| device sharing, its life | `share/server.rs`, `daemon.rs` | slot, listeners, accept and forward loops, cancel permit, connections | start, stop, expire, accept, handshake, splice | `Share` |
| device sharing, its policy | `share/mod.rs`, `adb.rs`, `daemon.rs` | settings, targets, forward ports; one request of a peer | merge, resolve, decide, gate, filter | `SharePolicy` |
| recording | `audio/record.rs`, `engine.rs` | rx and tx files, frame clock, `vad_active`, bounded detector channel | read, write, store, send; play, begin and end a turn, finish | `Recorder` |
| waiting for speech | `audio/vad.rs`, `engine.rs` | TurnDetector, pending samples, onset | read, push a hop, stall, cancel | `TurnDetector` |
| capture clock | `audio/capture_clock.rs`, `record.rs`, `tool_detect.rs` | first and last chunk, frames, silence | observe, drift, finish, probe | `CaptureWatch` |
| resamplers | `audio/resample.rs` | phase, window, position, carried sample | process a chunk | `Resampler` |
| export | `bundle.rs` | zip entries, names taken, files pulled in, configuration | walk, normalise scripts, rewrite numbers, write | `BundleExport` |
| import | `bundle.rs`, `hostcheck.rs` | folder, installed configuration, backups | extract, check, read key, ask, back up, write, be killed | `BundleImport` |
| host check | `hostcheck.rs`, `tool_detect.rs` | audio section, tools present | driver, devices, commands, missing tool, sox_ng | `HostCheck` |
| discovery | `transport/discovery.rs`, `daemon.rs` | advertiser processes and whose child they are, the Advert of each daemon | reap, spawn, confirm, report, stop, die | `Discovery` |
| reachability advice | `reachability.rs`, `main.rs` | the host's firewall and its rule lists, findings, the steps told | choose, read line by line, judge, group | `Firewall` |
| job schema, protocol types, configuration, service, CLI, UI, packaging | remaining files | files, child processes | I/O and formatting | not modelled |

How they interact: the phone's events travel up one socket, whose handler
updates registry, markers and hub in separate critical sections. Jobs run on
threads of their own; they see the call only by polling the registry and act on
it only through `Hub::command`; their audio runs on a capture thread and the job's
own, joined by a frame clock, a flag and a bounded channel. Control clients and ringing phones compete for
one sound card. The marker files are the one thing that survives the daemon.

What makes each part correct:

* hub: a command gets at most one answer, its own, and always returns;
* phone server: every socket that registers is current or on its way out, and the
  device record follows the current one;
* calls: the daemon's picture of the call catches up with the phone's, and a call
  left behind by a crash, and no other, is hung up;
* jobs: one job holds the card, ends, gives it back, and leaves no call standing
  that it was responsible for;
* overrides: a number is answered by the live session that asked for it, else by
  the runtime map, else by the configuration, whoever came and went before;
* requests: a reply is the answer to this request and not to an earlier one, and a
  request that has its slot to itself gives up only if no answer has come;
* search: with a working daemon in reach the app is connected to it in the end, unless it
  is left without an attempt, or with daemons that do not answer, in ways that are named;
* adb link: the app reports its own port, and what is shown settles to the truth;
* sharing: a share exposes what was asked for to every request that names a serial or
  leaves the choice to one device, closes by itself, and its status is true;
* discovery: a start tells what earlier daemons left behind to end, as far as it may signal
  it, and nobody else's advertiser, and `server.info` tells what is advertised;
* reachability: what is told to be blocked is blocked, and every fix is told once;
* audio: rx and tx stay on one timeline, a wait ends on the right hop for the right
  reason, and does end while a recording goes on, a loss is reported and a healthy card is
  not, chunking is irrelevant;
* moving: a bundle means on the other machine what the folder meant on this one, an
  import loses no configuration, and no pairing but in four named cases, and an imported
  command can run here.

The 40 hazards that weigh most are listed, line by line, under `hazards` in
`PROJECT.json`, each with the property that covers it or the reason why none does;
the smaller ones are in section 7.

## 2. Modules

```
CommandService          abstract: a command is sent, performed, answered
     ^  refinement (ServiceProofs)
    Hub  <---  PhoneServer            every step of PhoneServer is a Hub step
     |              |
HubProofs <- ServiceProofs <- PhoneServerProofs

CallTrack  <---  JobControl           (sockets as in PhoneServer, coarser)
     |                  |
CallTrackProofs <- JobProofs

Overrides   Requests  AdbLink  Share  SharePolicy  Discovery  Firewall
     |   \_______________________|______________________________/    in MCControl
OverridesProofs  ----------> ControlProofs

AppLink  Recorder  TurnDetector  CaptureWatch  Resampler
   \________\___________|___________/___________/                 in MCMachine
                  MachineProofs
   /_________________|_______________\
BundleExport    BundleImport     HostCheck
```

**CommandService** is what a caller of `Hub::command` may count on: the phone
performs a command at most once, and the caller is told the phone's answer to
*this* command or that there was none.

**Hub** follows `hub.rs` statement by statement where a lock is released in
between: `Hub::command` looks up the connection, inserts its waiter, sends
(waiting for room), awaits the answer or the timeout, and removes the waiter, as
separate actions, interleaved with `register`, `unregister`, `drop_device`, the
writer task, the network and the phone. A superseded connection keeps its own
queue and waiter table, as the `Arc`s in the code do.

**PhoneServer** extends Hub. `handle_conn` is one process per socket, with
`stage` as its program counter; registering and upserting, and unregistering
and removing the record, are separate steps as in the code. The reaper scans
and drops in two steps. The phone opens sockets, relaunches, sends heartbeats,
gives up a silent link. Time is the flag `fresh` (younger than 90 s).

**CallTrack** has the phone's call table and the frames it sends, and the
daemon's handling of them: record, markers, orphans, relaunch, answers. Its
sockets are those of PhoneServer with fewer steps. Frames, records and markers
carry, beside the id that the code compares, the call they are really about
(`of`), which no guard reads; `marked` records the calls a marker has been
written for. Both exist for the properties only. A `call_state` frame is handled
in one step; in the code the card is read twice in it, which makes a difference
only to a job that starts between the two reads and adopts the call.

**JobControl** extends CallTrack with the jobs: who takes the card, clears the
flags, runs which step, polls what, and ends how. A job's script is a constant.
Steps that do nothing to a call (audio, waits, logs, SMS) are `"other"`: they
take their time and may fail. That they come to an end is an assumption here: of waits for
speech it is the question of TurnDetector, and a wait without a recording session does
not while the capture tool hangs. A command is what CommandService says of one.
`drove` and `stopped` are history: calls a job's own commands placed or answered,
jobs told to stop while they held the card.

**Overrides** is one process per control connection that serves: it takes the
slot, registers number by number, subscribes, streams, notices that the client has
gone, clears by token and drops the slot, as separate steps; `override.set` and
`override.clear` hold one lock and are one step each. `Resolve` is
`resolve_inbound`.

**Requests** has two kinds of request for one device: those that drop a slot, fire
and poll it, and those that fire, sleep and read a cache. The phone works on what it
was asked and answers in its own time; the link may break. Each frame carries the
request that caused it (`of`), which the code does not know and no guard reads.

**AppLink** keeps the fields of the service object in one record, and each method
that other methods call is an operator from one such record to the next, so that a
callback is one step, as on the main thread. What runs on other threads (a socket's
callbacks up to their post, a socket that was given up) are steps of their own. Times
are abstract: a timer is pending or not, a mark is there or has expired. What surrounds the
app and does not change is one constant of a run, `scene`: of what nature each daemon is
(ours, with another key, one that never answers, one whose address makes no URL or cannot be
dialled), whether an address is saved, whether NSD takes a search, and whether the system
lets the app start its service from the background. A discovered address that cannot be
dialled never becomes a candidate, as `DaemonCandidates.add` drops it; a malformed one
does. `connect` makes no socket for either, and `connectNextCandidate` returns true all the
same. `slip` is history: what the last attempt was lost to.

**AdbLink** follows one phone's port from adbd's advert over the app's NSD callbacks
and the heartbeat to the daemon's check, which is split where it waits for the adb
server, and back to the status that `devices.list` shows; the outcome of a check is
told after `busy` has been cleared, as in the code, so that outcomes may overtake
each other.

**Share** numbers the attempts to start a share. Accept loop, forward loops,
connections, `share.start` and `share.stop` interleave; the permit of their one
`Notify` is modelled, since a connection or a forward loop may take it instead of the
accept loop. **SharePolicy** is the other half: what a request and the configuration
make of a share, and what the gate makes of an adb request. The requests are told apart as
`decide` tells them apart: those that name a serial, those that ask for any device or name
none, lists, what is refused, and what is forwarded unread, such as requests by transport
id (which counts as the server's business) or by bus (`host-usb:`, `host-local:`).

**Discovery** has the daemons of one host and the advertiser processes they spawn, each
with the process it is a child of. A start lists the orphans of init, sends
each a SIGTERM, spawns, and waits for the word that the advert is established; an advertiser may
fall silent, speak or die at any of these points, and a daemon may die without its end,
which leaves its child to init. What an advertiser says reaches the daemon through a
thread of its own. The result of `kill` is ignored: a signal reaches the advertisers of the
same user, or all if the daemon runs as root (`MaySignal`), and who is `told` to end does so
in its own time or never. **Firewall** reads the rule list that is in force line by line: the
first that settles the port does, lines about other ports, interfaces or chains are
passed over, and the policy decides at the end; findings are then grouped by their fix.

**Recorder** has the capture thread and the job thread of `DuplexSession`, split at
every access to what they share. Samples are counted and chunks numbered, and the
channel's frames carry the chunk that the resampler had seen before.
**TurnDetector** is the detector under both its loops, with the VAD's verdicts as the
environment's choice; its properties are stated over the recorded verdicts alone. A wait
reads the recording session's channel, which times out, or, if nothing is recorded, the
capture tool itself, and then blocks in the read: a tool that hangs (`capture = "mute"`)
keeps such a wait from its stall limit and from the cancel flag (`Blocked`).
**CaptureWatch** lets a card make frames at its true rate while a tool holds them back
or loses them. **Resampler** keeps, instead of an output sample's value, what input
positions it is made of; the outputs of a chunk are written in closed form, from the phase
or position before it and its length, where the code loops over samples. Positions are exact fractions of the output rate, where the
code has a double.

**BundleExport** treats a path as a sequence of components and a file as its
references; `Normal` follows a path step by step, as a function of how far it has come,
and `Copy` is the n-th name tried for a file. **BundleImport** may be killed between any two writes and run again on
what it left; a zip is a sequence of entries, of which the plan picks by index, and a
configuration is its key, whether YAML reads that as text or as a number, and a version. A
file whose writing was cut short may be empty, and an empty one parses: as a job of no
steps, or as a configuration of defaults to which `set_top_level_str` writes no key. **HostCheck** is the chain of
checks on an imported audio section.

The `MC*` modules give the constants their values. Definitions named as mutants
stand before the definition they alter: each is a plausible slip in the code
that the corresponding property must catch.

**MCControl and MCMachine** put parts side by side that share no variable and no
message: seven around the control socket and the start of the daemon, and eight that run on the app's side, in the
audio of a job, and when an installation is moved. Their initial states choose one
`part`, and only that part takes steps, so that each part is explored exactly as if it
ran alone and the state spaces add up instead of multiplying. Each part's fairness is
asked while it runs; a property of another part holds of it as in its initial state.

## 3. Runs

| run | question | bounds | result |
|---|---|---|---|
| `hub_calls` | do waiters ever leak, does the hub implement the command service? | 2 sockets, 2 commands, queue and wire of 1 | holds |
| `phone_liveness` | is a registered socket current or cancelled, and the current one attended; do superseded sockets close, do ghosts disappear? | 2 sockets, 2 processes, reaper | holds |
| `phone_commands` | are all steps of the server steps of the hub, and does every command return? | 1 socket, 2 commands, queue of 1 | holds |
| `phone_teardown` | does an old socket's teardown spare the new record? | 2 sockets | **violated** |
| `track_recovery` | does a marker last as long as it is needed, does the daemon come to know of a call, and is a crashed daemon's call hung up? | `MCRecovery`: 1 call, 4 sockets, 1 crash, 1 link failure; or 2 sockets, 2 processes, a control client | holds |
| `track_manual` | is a manual call spared by crash recovery? | 2 calls, one after the other, app relaunch, crash | **violated** |
| `job_safety` | is the card held by one job, and is a job cancelled only on purpose? | 2 jobs, relaunch, then a call | holds |
| `job_ends` | does every job end and release the card, and is an answered call hung up when its script fails? | 1 job, 1 call, link lost for good, 1 crash | holds |
| `job_abandon` | does a cancelled job take its call down? | 1 job, link holds | **violated** |
| `job_ended` | is a call over when the job says so? | 1 job, 1 link failure | **violated** |
| `control` | `MCControl`: overrides, requests, adb link, sharing and its policy, discovery, firewall | see below | holds |
| `machine` | `MCMachine`: the app's search, recording, waits, capture clock, resamplers, export, import, host check | see below | holds |

What `control` and `machine` ask, part by part, and on what instance:

| part | properties | instance |
|---|---|---|
| `Overrides` | `ServeRight`, `SessionEnds` | 2 sessions, 2 numbers, 2 handlers, an entry that does not validate, a channel of 1 event (so that a session lags), 2 events |
| `Requests` | `AnswerIsNew`, `GivesUpOnlyUnanswered` | 2 requests of a polled kind or of two cached ones, 2 polls, a cache of 1, 1 break of the link |
| `AdbLink` | `PortIsOwn`, `AdbStatusSettles` | 2 ports (one it moves to), back-off up to 3 units, 2 changes of phone, link, pairing or adb server |
| `Share` | `StatusIsTrue`, `ClosesByItself` | 2 attempts, 2 forward ports of which another program holds one, with and without expiry and key, 1 peer |
| `SharePolicy` | `PolicyRight` | 3 devices, every kind of request to the gate, 72 requests to share over zero, plain, adjacent, reversed and too long port specs |
| `Discovery` | `ReapRight`, `AdvertRight` | 2 daemons of which one is root's, 2 kinds of responder, 2 advertisers, deaths at any point, orphans that ignore the signal |
| `Firewall` | `FirewallRight` | NixOS, ufw and iptables hosts, rule lists of up to 3 lines of 9 kinds, with and without mDNS trouble |
| `AppLink` | `AlwaysTrying`, `AppFindsItsDaemon` | ours beside a daemon of every other nature, discovered, with 1 mishap of network, user or system (an outage of the network beside a malformed address), or not allowed to start from the background; a search that NSD refuses; a saved address of every nature, with 2 mishaps; 1 resolve retry, 1 doubling of the back-off |
| `Recorder` | `OneTimeline`, `TurnsAreClean`, `AudioReturns` | 2 channels, reads of 2 and 3 samples, a channel of 1 frame, 3 reads, 2 prompts or waits |
| `TurnDetector` | `TurnsRight`, `AudioReturns` | waits of up to 4 hops, some no whole number of hops, every sequence of verdicts; two without a recording session |
| `CaptureWatch` | `CaptureTold` | cards at half, right and double rate, a tool that holds back or loses what they make, 8 ticks |
| `Resampler` | `ChunkingIrrelevant` | six ratios, chunks of 0, 1, 2 and 4, streams of up to 9 samples |
| `BundleExport` | `BundleTravels` | 5 files inside, 3 outside of which two have one name, every way they refer to each other |
| `BundleImport` | `ImportKeeps`, `NothingOverwritten` | 4 zips, 2 keys of which one may stand as a number, 2 imports, 1 edit, 2 seconds, death at any point with any part of a file written |
| `HostCheck` | `CommandsFit` | Linux and macOS, with and without package manager and terminal, a card in one piece or two, 4 sets of tools |

**Why these bounds.** Nothing in the hub, the registry or the markers relates two
devices, so one device shows every interleaving; the card and the flags are
shared between devices, and a job that needs no phone stands for one that drives
another. Two sockets are one supersession. `track_recovery` has four, for the
first connection, a crash, a link failure and one socket more that an old one's
late registration takes down; where even they run out (`Spent`) its properties
ask for nothing. Its second instance, which its `mishap` chooses in the initial state,
has relaunches and commands instead, two frames under way at most, and nothing asked of
fairness; both at once exceed what can be explored. It has one crash: that `PendingOnDisk` survives any number of them is
proved (`Remembered`). Two calls suffice wherever one is mistaken for another. Queues
of length one are full as soon as a frame is written. `QueueCap`, `WireCap`,
`MaxInstance`, `MaxBeat`, `MaxProcess`, `MaxBlip`, `MaxCrash` and the other `Max*`
constants are bounds of the instances, not of the program (the program's queue holds 64 frames). A serve
session needs one rival, a reply one other request to be mistaken for, a share one
predecessor. Windows, hops, ratios and ticks are scaled down until every comparison
of the code goes both ways and meets its equality. Two runs
also carry a state constraint: `track_manual` looks at calls one after the other,
`job_safety` at a call that comes after a relaunch that comes during a job; both
with at most two frames on their way up a socket. The symmetry of `hub_calls` and
`job_safety` exchanges jobs, commands or sockets that differ only by name.
Deadlock is not checked: each of these systems may come to rest (all calls over,
all bounded events spent, a finished recording).

**Scripts.** `job_ends`, `job_abandon` and `job_ended` run a job that dials, waits
and hangs up, and an auto-answered one; `job_safety` has scripts of one step at
most, since what it asks is decided between jobs and not within one.

**Fairness.** Weak fairness of the steps the runtime takes by itself: tasks of
the daemon that are ready run (tokio), a path that is up delivers, the app
handles what arrives and reconnects when it has no socket (its retry timer never
stops), Telecom reports a call's changes and ends a call it was asked to
disconnect, timers expire (`ACK_TIMEOUT`, the wait's deadline, the reaper's
interval, TCP's own). No fairness of anything a user, the far end or the network
decides: calls coming in, being picked up or ended, jobs started or cancelled,
relaunches, failures. In `AppLink` it is asked of NSD's callbacks, OkHttp's outcomes,
the main thread, the retry timer and a network that comes back, and of the alarm where the
system lets it start the service; in `AdbLink`
of the app's callbacks, the reports and the daemon's check; in `Share` of loops,
handshakes with their time-out, and expiry; in `Recorder` of the capture thread, which
needs no cooperation of the tool once it has been killed; in `TurnDetector` of the
loop, whose stall limit stands in for a capture that delivers nothing, where there is a
recording session to read from. Weak fairness suffices but for two timers of `AppLink`: the
end of a search (`WindowEnds`) and the expiry of a mark (`Expire`) are guarded by what they
are longer than, so that they are enabled again and again and not throughout, and strong
fairness says that a clock that runs meanwhile gets there.

**Times that AppLink takes for granted.** A search (20 s) is longer than a handshake begun
before it (OkHttp's time-outs) and than the end of a drop (`Settled`); a mark (60 s, 10
minutes) outlasts a search and the way from one candidate to the next (`Expire`); the
back-off at its cap (30 or 120 s) outlasts a search and the attempt it ends with
(`TimerFires`). A task posted by a drop before a search ends runs before that end. On a
path that is up our daemon acks often enough not to be taken for dead (`Silence`).

## 4. What the violated runs show

Each of them checks something a comment of the repository says, quoted under
`findings`.

* `phone_teardown`: `unregister` and `registry.remove` are two critical sections,
  so an old socket may remove the record its successor has just written.
* `track_manual`: the app's call ids start again with each process, so a marker
  may come to name a manual call, which the restarted daemon hangs up.
* `job_abandon`: a hang-up that overtakes `onCallAdded` is refused and taken for
  success; the call of the cancelled job goes on.
* `job_ended`: a link that closes cleanly looks like the end of the call to the
  job in progress.

## 5. Proofs

All proofs are checked by TLAPS down to the last leaf, for every value of the
constants: devices, sockets and commands, scripts, rule lists, ports, rates and
capacities. They rest on the named assumptions of
the modules (`ConnAssumption`, `HangupAssumption`, `TrackConstants` and so on): constants are of
the right kind, and a non-value is not a value.

**The connection layer.**

* `HubInvariant`: `HubTypeOK` and `WaiterInv` always hold of the hub. WaiterInv
  (no waiter without a caller that waits for it) is not inductive: the step that
  inserts a waiter needs to know that its command has not been answered, which
  the conjunct `Unanswered` of `HubInv` adds. One lemma per group of actions.
* `HubImplementsService`: the hub implements CommandService, under the mapping by which
  a command is sent once its frame is in a queue, performed once the phone has handled
  it, and answered once its caller returns. `ServiceInv` adds to HubInv what the mapping
  needs: a frame of a command is in one place at most, in a queue, on a wire or with the
  phone; an ack exists only of a command the phone has handled, and lies only where the
  waiter of that command can be told. A step of the hub then maps to one of the service
  or to a stutter, one lemma per step; a lost connection is the service's loss.
* `ServerImplementsHub`: the phone server's specification implies the hub's:
  every step of handlers, reaper and phones is, on the hub's variables, a hub
  step or a stutter. It needs that a handler past registration has made its
  channel (`ChannelMade`), part of the invariant `ServerInv`. With it `Typing`
  (`[]TypeOK`) and everything proved of the hub hold of the server.
* `ServerImplementsService`: by the two together, so does the phone server.
* `Served`: a socket that has registered is current, or its cancel is pending, or
  its handler is past the `select!`. The step to watch is `Register`, which
  takes the table entry away from one socket and leaves it a permit.
* `Current`: the socket in a device's table entry has a handler that has yet to
  unregister it: nothing but a registration puts a socket there, and a handler
  leaves the stages that guard it only through `unregister`.

**Calls and jobs.**

* `TrackTyping`: `[]TrackTypeOK` of the calls. Types alone are not inductive: that
  a phone reports only states with a name needs `Tracking`, that a call with an
  id has begun and has not been removed; `onCallRemoved` keeps it by forgetting
  the id in the step that removes the call.
* `Remembered`: `[]PendingOnDisk`. Only `Reconcile` and `Crash` touch the marker
  files and the pending entries; a crash makes them equal, and every way to write
  a marker takes the pending entry first. It needs no types, only that both
  tables have one entry for each device (`MarkInv`).
* `JobTyping`: `[]JobTypeOK`, for any scripts and any number of jobs. A job's steps
  are steps of the calls too, so the proof cites the lemmas of `CallTrackProofs` for
  them and adds the runs (`TypeInv`).
* `OneCardOneJob`: `[]CardHeld`. Whoever takes the card finds it free, and a free card
  means that nobody runs (`CardIsBusy`, `OneBusy`); so the newcomer is alone.
* `NoJobCancelledForAnother`: `[]CancelledOnPurpose`. The flags outlive the job they
  were raised against. The invariant needed is `Heeds`: a flag that is up while a job is
  in a state that looks at it was raised while this job held the card. It holds because
  a job lowers the flags before the first such state (`ResetFlags`, and `Load` for an
  auto-answered job, which looks only at `abort`: `AutoAnswered`), and because of
  `OneBusy` nobody else lowers or heeds them meanwhile. The converse is not claimed:
  between taking the card and lowering the flags a job forgets an order to stop.

**What control clients drive, and the start of the daemon.**

* `Serve`: `[]ServeRight` of the serve sessions. It is not inductive: that a streaming
  session answers its numbers needs that, from the start of its registration, each number
  is either still to do or in the table as its own (`Registered`), and an entry counts as
  one only because the token of whoever holds the slot is never the mark of an empty
  entry (`Tokens`). The invariant `OverridesInv` joins both to the types and
  `ServeRight`; there is one lemma for each step. `OverridesTyping` is the type part.
* `AnswersAreNew` and `GivesUpRightly` of Requests. What makes an answer new is where a
  request can be: `OnePlace` says that a request that is still awaited has one frame at
  most, on its way down, with the telephony or on its way up, and that a request that
  has been recorded has none. `SlotIsNew` follows: what lies in a slot is news to
  whoever polls it, because each polled request empties the slot first and only requests
  that had not been answered by then can still fill it.
* `ReportsItsOwnPort` of AdbLink (`WatchShape`): what NSD has found and not lost is among
  what is advertised, and what the app reports is among what it has found from an address
  of its own. It needs that NSD reports a failed search only before it has found
  anything, as the model now says and NSD does.
* `SharesOnlyWhatIsShared` of SharePolicy (`PolicyInv`): merging, resolving, binding and
  the gate are functions of the settings; the invariant carries what each stage of a
  request has established to the next, so that what is refused at the end has not been
  shared at the start. It speaks of the requests that `decide` reads; those it forwards
  unread (`Unread`) are excluded by name, see section 6.
* `StatusTellsTrue` of Share (`ShareInv`): the count of a share is the cardinality of the
  connections being served on it (`Counted`, for any finite number of peers), and a share
  in the slot runs while its port is open. Needed beside it: the slot is empty while a
  share is started, and who stops a share stops one that has left the slot (`SlotShape`).
* `DiscoveryTyping`, `ReapsOrphansOnly` and `AdvertStands` of Discovery (`DiscoveryInv`):
  a daemon has one child at most and only while it is advertised or starts to be
  (`OwnChild`), what is on the list to be signalled, or has been, has no daemon and never
  will have one again (`ReapShape`), and a cause that is named is the last word of a child that has
  gone (`CauseShape`).
* `NoWolfIsCried` of Firewall (`FirewallInv`): whatever has been read and passed over has
  not let a new phone in (`VerdictShape`, over the lines read so far), so that a port told
  to be blocked is one no line admits; and the steps told so far are exactly the first
  `n` findings, each fix once (`Grouped`). Rule lists may have any length.

**The app's side and the audio of a job.**

* `RecorderTyping`, `OneTimelineHolds` and `TurnsStayClean` of Recorder (`RecorderInv`).
  The timeline is arithmetic over whole frames: what is written is the largest multiple of
  the frame that has been delivered, the rest is carried. `TurnsAreClean` needs chunks to
  be counted by what is written, and `OneStale`: between the end of one turn and the
  beginning of the next the capture thread can send one chunk at most, the one it had
  already found `vad_active` for.
* `KeepsTrying` of AppLink (`LinkInv`), for every scene: any daemons of any nature, with a
  saved address or none. Every method leaves a running service with something that will go
  on (`Tried`: a search, a timer, a socket), or says that its attempt was of an address that
  cannot be used. Where searches are made, `Covered` says why a late `onOpen` does no harm:
  as long as there is a socket given up before its handshake, or the end of a drop that the
  main thread has overtaken, a search is under way, and it outlasts both. Where none are
  made (a saved address, or NSD that refuses), the late `onOpen` is the second of the two exceptions.
* `TurnsEndRight`: `[]TurnsRight` of TurnDetector. What the property says of all verdicts
  at once is related to the detector's counters by `Trail`: the run counted is the longest
  one at the end of the verdicts, and does not reach below the first onset. From it
  `Listening` (no onset yet, or an onset and how long it has been silent since) is carried
  from hop to hop. A wait for the start needs less (`Awaiting`): once it lingers, what the
  detector does no longer matters, even if it has finished; before that the window closes
  no later than the detector's limit, because one rounds down what the other rounds up.
  `OverGrows` says that what has been decided of earlier hops stays decided.
* `WhatIsLostIsTold` of CaptureWatch (`WatchInv`): `Conserved` says that what the card has
  made since measuring began has been counted, is held back by the tool, or is lost, as
  of now and as of the last chunk. What may be said then depends on how the tool's jitter
  compares with what is reported: `ToleranceAssumption` asks that a tool holds back less
  than `REPORT_MIN` ("so buffering jitter never trips it", `audio/capture_clock.rs`), and
  less than the probe's tolerance of a measurement, and that a card at another rate is off
  by more than both, as 44.1 kHz is from 48. `WatchTyping` is the type part.
* `ImportLosesNothing` (`[]ImportKeeps`) and `ImportOnlyAdds` (`NothingOverwritten`) of
  BundleImport (`ImportInv`), with no bound on when it is killed or how often it is run
  again. What is needed at each stage of the script: the configuration about to be
  replaced is in a backup before the write begins (`BackupShape`), under a name that is
  free because no suffix exceeds the number of imports that came to theirs; the key that
  was read is still the phone's when it is written (`KeyShape`), but in the four cases that
  `excused` tells apart (a torn write, an edit meanwhile, a key that YAML reads as a number,
  a bundle whose configuration is empty); a configuration cut short says so or is being filled (`DestShape`);
  and what is still to be extracted is not in the folder, but for the one file that the
  import has created and not yet filled (`Extracting`). The last rests on a zip naming no
  path twice (`ArchiveAssumption`), as the reader keeps its entries by their path.

* `ChunksDoNotMatter`: `[]ChunkingIrrelevant` of Resampler (`ResamplerInv`), for any
  rates, taps and lengths of chunks. The invariant says in closed form what a stream of so
  many samples has yielded: the decimator's phase is the rest of the length, a linear
  resampler's position is where the next output lies, measured from the carried sample.
  That a chunk yields exactly what lies between two such states is arithmetic of whole
  numbers and of fractions over the output rate.
* `BundlesTravel`: `[]BundleTravels` of BundleExport (`ExportInv`), for any folder, any
  files outside it and whatever refers to what. `Tabled` says what the zip's tables hold at
  any time: what ships under its own name, what was pulled in under one name of its own,
  outside the folder's. `ScriptsKept` and `NumbersKept` say of what has been worked off
  that it is linked (`Linked`) or warned of; both outlast later steps because a name that
  is given never changes its file. Three lemmas carry it: among as many names as there are
  entries and one more, one is free (`FreshName`, by the pigeonhole principle); pulling a
  file in keeps what was there (`PullsIn`); and a relative path taken from where it was
  made leads to its target (`RelativeLeads`: up to a common beginning, which exists by
  `CommonIs`, and down again, followed component by component).
  `ExportAssumption` has what it needs of names: files have paths without "..", and the
  names tried for one file differ from each other.
* `ImportedCommandsFit`: `[]CommandsFit` of HostCheck (`HostInv`). The checks come one
  after the other and each may rewrite a command or install a tool; `Fitting` says of each
  command what the stages behind it have settled, and that no later stage undoes it. That
  the search of the path finds the best sox there is, and the first of equals, is a fact
  about sequences of any length (`FirstBest`), proved with the least index that nothing
  beats. `HostAssumption` asks that a path is a sequence of directories and that an imported
  command is a name or an absolute path.

**Types of the control side.** `ControlTyping` (`[]ControlTypeOK`) is composed: each
part's own type theorem holds in the whole because the whole's steps are, on the part's
variables, steps of the part (`PartsAre`). Beside `OverridesTyping`, `DiscoveryTyping` and
Firewall's (part of `FirewallInv`), these are

* `RequestsTyping` (`CacheShape`): an inbox is cut to its last entries by the step that
  adds one, so it never outgrows its cap, whatever a phone sends;
* `AdbLinkTyping` (`AdbTyped`): the back-off doubles up to its limit and starts again;
* `ShareTyping` (`LedgerShape`): attempts are numbered in the order in which they are made, and
  everything that names one names one that was made.

SharePolicy has no type invariant; its state is typed within `PolicyInv`. In the same way
the properties proved of the parts hold of the whole (`ControlKeepsPromises`).

**Model-checked only.** Liveness under fairness (`CallReturns`, `SupersededCloses`,
`GhostReaped`, `OrphanEnds`, `CallKnown`, `JobEnds`, `NotStranded`, `SessionEnds`,
`AdbStatusSettles`, `ClosesByItself`, `AppFindsItsDaemon`, `AudioReturns`) is out of the
prover's reach. Every safety invariant that a passing run checks, and every action
property, is proved.

## 6. What the code does not keep

The statements here are written down in the modules beside the properties that hold, and
are not checked by a run, as the code violates each of them. The first three take a comment
at its word:

* `Share!NoStrayListener`: "Forward-port listeners, stopped with the share"
  (`share/server.rs:43`). When a later forward port cannot be bound, the start fails, but
  the loops of the earlier ones go on until the share would have expired, and for ever
  if it had no expiry.
* `CaptureWatch!AllLossIsTold`: "Seconds of the run that rx has no audio for"
  (`audio/record.rs:62`). What is lost after the last chunk that arrived is not counted.
* `BundleExport!NothingSilent`: content that the bundle will not carry "must not pass
  silently" (`bundle.rs:364`). The code says so, and warns, where a script refers to a
  sample; an auto-answer job that the walk leaves out (below a recordings directory or a
  hidden one) is referred to by the bundled configuration without a warning.

The others are properties of section 3 without their exceptions; on the same
instances TLC has a counterexample to each of them, so the exceptions are needed:

* `SharePolicy!NeverUnshared`: no request opens a device that is not shared, which
  `share/adb.rs:17-18` says of `transport-any` (elsewhere "would make `--target` advisory
  rather than enforced"), and for that it holds. Requests by transport id
  (`host:transport-id:N` begins with `transport`, which is taken for the server's business)
  or by bus are forwarded unread, and so is a bare `host:` request when several devices are
  shared and only another one is attached. `PolicyRight` excludes these kinds by name.
* `Discovery!DecoysGone`: an orphaned advertiser "keeps advertising a dead endpoint
  forever, luring phones away". A start sends it SIGTERM and ignores the outcome
  (`transport/discovery.rs:231`): one of root's stays when a user's daemon starts, and one
  that takes its time is still there when the new one is advertised. `ReapRight` says that
  all have been told that may be.
* `AppLink!NeverStranded`: a running service has an attempt under way. Two ways out of that: an
  address that cannot be used counts as an attempt (`connect` returns without a socket,
  `connectNextCandidate` returns true, and the end of a drop then sets no timer, as a saved
  address sets none either); and where no search is made (a saved address, or a phone whose NSD
  refuses) a socket given up, whose `onOpen` comes late, cancels the reconnect timer
  (`app/ConnForegroundService.kt:585`). The app then makes no attempt until something else
  wakes it. `AlwaysTrying` proves that these are all.
* `AppLink!NothingKeepsItAway`: with ours in reach the app ends up connected. Beside the two
  ways above there is `Missed`: a search that has found only daemons that never answer is
  not made again, as the last candidate is retried at once after each failure
  (`DaemonCandidates.next` falls back to it). `AppFindsItsDaemon` excuses these.
* `TurnDetector!NeverBlocked`: a wait comes to an end. Without a recording session
  (`record_dir` unset) the wait reads the capture tool directly, and while that hangs the
  wait, its limits and the cancellation of its job hang with it, although cancelled waits
  are meant to end promptly; the comment on the stall limit says as much ("blocking sources
  are unaffected", `audio/engine.rs:417-418`). `AudioReturns` excuses exactly this.
* `BundleImport!PairingKept`: "a replaced config keeps its key, so the paired phone stays
  paired" (`bundle.rs:609-610`). Not if the key stands unquoted and YAML reads it as a
  number, since `as_str` is then `None` (`bundle.rs:581-585`); not if the bundle's
  `config.yaml` is the empty file that a killed extraction has left, which parses and to
  which no key is written (`hostcheck.rs:925-927`); and not after a torn write or an edit
  made while the questions are on the screen. `ImportKeeps` excuses these four.

## 7. Not modelled, and smaller hazards

Not modelled: parsing and validation of YAML and of wire frames (pure data), the bytes of
the share's handshake and its client, values of samples and WAV files, child processes
and host probing, the arguments of the mDNS responders, configuration
files, service managers, the command line, the user interface and packaging. They are I/O
and formatting without concurrent state. Of Firewall's source, the application firewall of
macOS, the advice about a loopback bind and the wording of fixes are left out; of
Discovery's, the reuse of a process id between `ps` and `kill`, and hosts where an orphan
goes to another process than 1. Of the modelled parts, `audio.play` and
`audio.record` take the card as a job does and are left out of JobControl; time stamps of
outcomes and call summaries are not kept.

Hazards beside those in `PROJECT.json`:

* In the models, with no property to judge them: the reaper drops by device id what an
  earlier scan found stale, and may hit a phone that has come back (`ReapScan`,
  `ReapDrop`); `ws` is set before the socket opens, so that a call state may precede hello
  (`Tell`, `RejectFirst`); a command that names an ended call falls back to another one
  (`Chosen`); `job_abort` is one flag for all phones (`JobHello`); a relaunch between
  taking the card and clearing that flag is forgotten; the job file of an auto-answer is
  loaded after the call has been answered (`LoadFails`); list operations return the cache
  after 800 ms, whatever has come (`ReadList`), and a repeated `sms.list` fills the inbox
  with duplicates (`LastOf`); two clients that poll one slot may take each other's reply;
  a connection in its handshake when the share stops is served afterwards; a start during
  a stop finds no predecessor (`StopDone`); NSD that refuses to search for adb is not
  asked again (`NsdFails`); the one-shot restart does not look at `enabled` (`Restart`);
  `brew uninstall` may succeed and `brew install` fail (`SwapSox`); renames are applied in
  turn (`Renamed`).
* Of discovery: `report` does not wait for the thread that relays the advertiser's words,
  so that the cause of a failure may be missed (`tail` in Discovery); a daemon that is
  killed by a signal leaves its advertiser to init until the next start (`Dies`); a bind
  address that cannot be used fails the start before anything is reaped.
* Of reachability: a rule with a state match or a jump to a chain of the user's is passed
  over, so that a port it opens is told to be blocked; so is one behind an nftables or
  firewalld list that cannot be read, contrary to `reachability.rs:10-12`. `FirewallRight`
  asks for no false alarm where the list can be read (NixOS, ufw, iptables). "Only on"
  names the interfaces a rule lets in, also where the phone's is one of them.
* Beyond the bounds: two overlapping calls on one phone share one `current_call`, and
  `wait_for_answer` reads it whatever call it names.
* Covered by the same properties as the hazards listed: a hello of an older socket after
  that of a newer one (`CallKnown`); a serve client that leaves while it registers or
  lags (`SessionEnds`); a stop that comes when no loop is parked (`ClosesByItself`); a
  status shown over a later one (`AdbStatusSettles`); callbacks of a socket that was given
  up (`AlwaysTrying`, `AppFindsItsDaemon`); a capture that delivers nothing while time-outs
  are counted in hops (`AudioReturns`, with a recording session).
