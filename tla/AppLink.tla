------------------------------ MODULE AppLink ------------------------------
(* How the phone app keeps a link to its daemon: ConnForegroundService      *)
(* finds daemons by NSD, resolves them one at a time, tries candidates      *)
(* (DaemonCandidates), sets aside those that reject the shared key or never *)
(* answer, and reconnects when the link dies; receivers and alarms revive   *)
(* the service.  The service's fields are one record, `app`; a method that  *)
(* others call is an operator from one such record to the next.  Times are  *)
(* abstract: a timer is pending or not, a mark is there or has expired.     *)
EXTENDS Integers, Sequences, SequencesExt, FiniteSets

CONSTANTS Daemon,         \* what is advertised as _dialfd._tcp on the LAN
          None,
          Scenes,         \* what may surround the app
          ResolveRetries, \* RESOLVE_RETRIES
          Doublings       \* of reconnectDelayMs, up to its cap

\* A daemon is ours, has another key, or never answers; or its address is one
\* that no URL can be made of, or none that can be dialled (wsUrl).
Natures == {"ours", "foreign", "dead", "malformed", "undialable"}

Scene == [nature : [Daemon -> Natures],
          server : Daemon \cup {None}, \* the saved address, or None: discover
          search : BOOLEAN,            \* NSD takes a search
          exempt : BOOLEAN,            \* starts from the background are allowed
          flaky : BOOLEAN,             \* bound: the network may fail
          mishaps : Nat]               \* bound: failures, wakes, user actions

ASSUME AppLinkAssumption ==
  /\ None \notin Daemon /\ None \notin [key : BOOLEAN, never : Daemon \cup {None}]
  /\ Scenes \subseteq Scene
  /\ ResolveRetries \in Nat /\ Doublings \in Nat

VARIABLES
  scene,    \* what stays as it is throughout a run
  app,      \* the fields of the service object
  dropping, \* dropped() has passed its check and not yet cleared `ws`: "no",
            \* "checked", or "overtaken" by the main thread
  stale,    \* abandoned sockets that may still complete their handshake
  live,     \* the current socket's path works
  net,      \* the phone has a network
  prefs,    \* enabled, keep_running
  alarm,    \* the keep-alive tick is armed
  restart,  \* the one-shot restart is armed (scheduleRestart)
  mishaps

appLinkVars == <<scene, app, dropping, stale, live, net, prefs, alarm, restart,
                 mishaps>>

\* A service that is not running: a new object has everything as it was born.
NewApp ==
  [running |-> FALSE, ws |-> None, stage |-> "none", connecting |-> None,
   keyFail |-> FALSE, posted |-> None, timer |-> FALSE, window |-> FALSE,
   lock |-> FALSE, told |-> {}, queue |-> <<>>, resolving |-> None, retry |-> {},
   attempts |-> [d \in Daemon |-> 0], found |-> <<>>, rejected |-> {},
   unreachable |-> {}, heard |-> "fresh", acks |-> FALSE, beat |-> FALSE,
   backoff |-> 0,   \* timers set in a row; `timer` is the last of them
   slip |-> "none"] \* history: what an attempt was last lost to

AppLinkInit ==
  /\ scene \in Scenes
  /\ app = NewApp
  /\ dropping = "no"
  /\ stale = {}
  /\ live = FALSE
  /\ net = TRUE
  /\ prefs = [enabled |-> TRUE, keep |-> TRUE]
  /\ alarm = TRUE
  /\ restart = FALSE
  /\ mishaps = 0

Mishap == mishaps < scene.mishaps /\ mishaps' = mishaps + 1
-----------------------------------------------------------------------------
(* Methods.                                                                 *)

FirstCandidate(a) == IF a.found # <<>> THEN Head(a.found) ELSE None

\* DaemonCandidates.next: the first that has neither rejected the key nor just
\* failed to connect; if there is none, the first that has not rejected it.
Best(a) ==
  LET eligible == {i \in DOMAIN a.found : a.found[i] \notin a.rejected}
      healthy  == {i \in eligible : a.found[i] \notin a.unreachable}
  IN IF healthy # {} THEN healthy ELSE eligible

NextCandidate(a) == IF Best(a) = {} THEN None ELSE a.found[Min(Best(a))]

\* connect: never a second socket; and none for an address that cannot be used.
Connect(a, d) ==
  IF ~a.running \/ a.ws # None THEN a
  ELSE CASE scene.nature[d] = "undialable" -> [a EXCEPT !.slip = "address"]
         [] scene.nature[d] = "malformed" ->
              [a EXCEPT !.slip = "address", !.unreachable = @ \cup {d}]
         [] OTHER -> [a EXCEPT !.connecting = d, !.ws = d, !.stage = "opening",
                               !.slip = "none"]

\* What connectNextCandidate returns: there was a candidate, not a socket.
CanTry(a) == a.running /\ a.ws = None /\ NextCandidate(a) # None

TryNext(a) == IF CanTry(a) THEN Connect(a, NextCandidate(a)) ELSE a

StopDiscovery(a) == [a EXCEPT !.window = FALSE, !.lock = FALSE]

ScheduleReconnect(a) ==
  IF a.running
  THEN [a EXCEPT !.timer = TRUE, !.slip = "none",
                 !.backoff = IF @ > Doublings THEN @ ELSE @ + 1]
  ELSE a

\* discoverServices may throw: then there is no search, but another attempt.
StartDiscovery(a) ==
  LET b == [a EXCEPT !.told = {}, !.found = <<>>, !.queue = <<>>,
                     !.attempts = [d \in Daemon |-> 0]]
  IN IF scene.search
     THEN [b EXCEPT !.window = TRUE, !.lock = TRUE, !.slip = "none"]
     ELSE ScheduleReconnect(StopDiscovery(b))

ConnectOrDiscover(a) ==
  IF ~a.running THEN a
  ELSE IF scene.server # None THEN Connect(a, scene.server)
  ELSE StartDiscovery(a)

\* The socket is closed and forgotten in one go, whatever becomes of it.
ForceReconnect(a) ==
  ConnectOrDiscover([a EXCEPT !.ws = None, !.stage = "none", !.beat = FALSE,
                              !.timer = FALSE, !.backoff = 0])

\* A socket given up before its handshake may still open.
Abandoned(a) == IF a.stage = "opening" THEN stale \cup {a.ws} ELSE stale

Overtake == dropping' = IF dropping = "checked" THEN "overtaken" ELSE dropping

\* onStartCommand
Start(a) == IF a.running THEN a
            ELSE ConnectOrDiscover([NewApp EXCEPT !.running = TRUE])

\* pumpResolve: one at a time.
Pump(a) ==
  IF a.resolving # None \/ ~a.running \/ a.queue = <<>> THEN a
  ELSE [a EXCEPT !.resolving = Head(a.queue), !.queue = Tail(a.queue)]

Enqueue(a, d) == Pump([a EXCEPT !.queue = Append(@, d)])

environment == <<scene, net, prefs, alarm, restart>>
-----------------------------------------------------------------------------
(* Discovery: NSD's callbacks, each handled on the main thread.             *)

ServiceFound(d) ==
  /\ app.window /\ net /\ d \notin app.told
  /\ app' = Enqueue([app EXCEPT !.told = @ \cup {d}], d)
  /\ UNCHANGED <<dropping, stale, live, environment, mishaps>>

\* The daemon is a candidate now if it can be dialled (add), and the best of the
\* candidates is tried if there is no socket.
Resolved ==
  /\ app.resolving # None
  /\ LET d == app.resolving
         old == Contains(app.found, d) \/ scene.nature[d] = "undialable"
         a == [app EXCEPT !.resolving = None,
                          !.found = IF old THEN @ ELSE Append(@, d)]
     IN app' = Pump(TryNext(a))
  /\ UNCHANGED <<dropping, stale, live, environment, mishaps>>

\* Lost to another resolve: retried a little later, a few times.
ResolveFails ==
  /\ app.resolving # None /\ Mishap
  /\ LET d == app.resolving
         n == app.attempts[d] + 1
         a == [app EXCEPT !.resolving = None, !.attempts[d] = n,
                 !.retry = IF n <= ResolveRetries THEN @ \cup {d} ELSE @]
     IN app' = Pump(a)
  /\ UNCHANGED <<dropping, stale, live, environment>>

RetryResolve(d) ==
  /\ d \in app.retry
  /\ app' = Enqueue([app EXCEPT !.retry = @ \ {d}], d)
  /\ UNCHANGED <<dropping, stale, live, environment, mishaps>>

EndWindowOnly == app' = StopDiscovery(app)

EndWindow ==
  LET a == StopDiscovery(app) IN
    app' = IF a.ws = None THEN ScheduleReconnect(a) ELSE a

\* 20 s are over.  By then a handshake begun before the search has come to its
\* end (OkHttp's time-outs are shorter), and so has a drop ...
Settled == stale = {} /\ dropping = "no"

\* ... and every daemon has announced itself and been resolved, and what a drop
\* posted to the main thread before has run ...
WindowEnds ==
  /\ app.window /\ Settled /\ app.posted = None
  /\ net => app.told = Daemon
  /\ app.queue = <<>> /\ app.resolving = None /\ app.retry = {}
  /\ EndWindow
  /\ UNCHANGED <<dropping, stale, live, environment, mishaps>>

\* ... unless it is one of those days.
WindowCutShort ==
  /\ app.window /\ Settled /\ Mishap
  /\ EndWindow
  /\ UNCHANGED <<dropping, stale, live, environment>>

\* A search, a handshake, or the end of a drop.
Busy == \/ app.window \/ app.stage = "opening"
        \/ dropping # "no" \/ app.posted # None

\* reconnectRunnable.  At its cap the back-off is longer than a search and the
\* attempt it ends with: 30 or 120 s, against 20 s and OkHttp's time-outs.
TimerFires ==
  /\ app.timer
  /\ app.backoff > Doublings => ~Busy
  /\ app' = ConnectOrDiscover([app EXCEPT !.timer = FALSE])
  /\ UNCHANGED <<dropping, stale, live, environment, mishaps>>

\* A mark runs out: 10 minutes, or 60 s, which neither a search outlasts nor
\* the way from one candidate's failure to the next, nor a handshake with it.
Expire(d) ==
  /\ ~app.window /\ app.stage # "closing" /\ dropping = "no"
  /\ app.posted = None /\ ~(app.stage = "opening" /\ app.ws = d)
  /\ \/ d \in app.rejected /\ app' = [app EXCEPT !.rejected = @ \ {d}]
     \/ d \in app.unreachable /\ app' = [app EXCEPT !.unreachable = @ \ {d}]
  /\ UNCHANGED <<dropping, stale, live, environment, mishaps>>

-----------------------------------------------------------------------------
(* The socket's callbacks, on OkHttp's threads.                             *)

\* onOpen does not ask whether the socket is the current one.
Opened(a, d) ==
  [a EXCEPT !.heard = "fresh", !.acks = FALSE, !.beat = TRUE, !.timer = FALSE,
            !.backoff = 0, !.connecting = None, !.unreachable = @ \ {d}]

Opens ==
  /\ app.stage = "opening" /\ net /\ scene.nature[app.ws] # "dead"
  /\ app' = [Opened(app, app.ws) EXCEPT !.stage = "open"]
  /\ live' = TRUE
  /\ UNCHANGED <<dropping, stale, environment, mishaps>>

\* The same of a socket that is not: the timer it cancels is not its own.
OpenedLate(a, d) ==
  [Opened(a, d) EXCEPT !.slip = IF a.timer THEN "late" ELSE @]

\* An abandoned socket opens all the same, or fails and is ignored; a foreign
\* daemon may get its close code across first.
StaleEnds(d) ==
  /\ d \in stale
  /\ stale' = stale \ {d}
  /\ \/ UNCHANGED app
     \/ scene.nature[d] # "dead" /\ app' = OpenedLate(app, d)
     \/ /\ scene.nature[d] = "foreign"
        /\ app' = [OpenedLate(app, d) EXCEPT !.rejected = @ \cup {d},
                                             !.keyFail = TRUE]
  /\ UNCHANGED <<dropping, live, environment, mishaps>>

\* onClosing with the code of a wrong key, before the socket is done.
KeyRejected ==
  /\ app.stage = "open" /\ scene.nature[app.ws] = "foreign"
  /\ app' = [app EXCEPT !.stage = "closing", !.keyFail = TRUE,
                        !.rejected = @ \cup {app.ws}]
  /\ UNCHANGED <<dropping, stale, live, environment, mishaps>>

\* onClosed and onFailure: the handshake timed out, the daemon closed, or the
\* pings found the path dead.  dropped() looks whether the socket is the
\* current one ...
Drops ==
  /\ app.ws # None /\ dropping = "no"
  /\ \/ app.stage = "opening" /\ (~net \/ scene.nature[app.ws] = "dead")
     \/ app.stage = "closing"
     \/ app.stage = "open" /\ ~live
  /\ dropping' = "checked"
  /\ UNCHANGED <<app, stale, live, environment, mishaps>>

\* The same for a link that just breaks.
Blip ==
  /\ app.stage \in {"opening", "open"} /\ dropping = "no" /\ Mishap
  /\ dropping' = "checked"
  /\ UNCHANGED <<app, stale, live, environment>>

\* ... and then clears `ws`, which the main thread may have set anew, takes
\* the two notes about it, and posts the rest.
Dropped ==
  /\ dropping # "no"
  /\ dropping' = "no"
  /\ app' = [app EXCEPT
       !.ws = None, !.stage = "none", !.beat = FALSE, !.keyFail = FALSE,
       !.connecting = None,
       !.posted = [key |-> app.keyFail, never |-> app.connecting]]
  /\ stale' = IF dropping = "overtaken" THEN Abandoned(app) ELSE stale
  /\ UNCHANGED <<live, environment, mishaps>>

\* The posted task: a daemon that failed is marked, and the next one tried, or
\* the back-off waits.
AfterDrop ==
  /\ app.posted # None
  /\ LET p == app.posted
         a == [app EXCEPT !.posted = None,
                 !.unreachable = IF p.never # None THEN @ \cup {p.never} ELSE @]
     IN app' = IF (p.key \/ p.never # None) /\ CanTry(a) THEN TryNext(a)
               ELSE ScheduleReconnect(a)
  /\ UNCHANGED <<dropping, stale, live, environment, mishaps>>

\* Our daemon acks the heartbeats; one that is dead or asleep falls silent, which
\* is asked only of one that has acked.
HeartbeatAck ==
  /\ app.stage = "open" /\ live /\ scene.nature[app.ws] = "ours"
  /\ app' = [app EXCEPT !.heard = "fresh", !.acks = TRUE]
  /\ UNCHANGED <<dropping, stale, live, environment, mishaps>>

Silence ==
  /\ app.stage = "open" /\ app.acks
  /\ \/ app.heard = "fresh" /\ app' = [app EXCEPT !.heard = "quiet"]
     \/ app.heard = "quiet" /\ ~live /\ app' = [app EXCEPT !.heard = "dead"]
  /\ UNCHANGED <<dropping, stale, live, environment, mishaps>>

\* The heartbeat runs while there is a socket; silence past the limit means
\* that the link is dead.
Heartbeat ==
  /\ app.beat
  /\ \/ /\ app.ws = None
        /\ app' = [app EXCEPT !.beat = FALSE]
        /\ UNCHANGED <<dropping, stale>>
     \/ /\ app.ws # None /\ app.acks /\ app.heard = "dead"
        /\ app' = ForceReconnect(app)
        /\ stale' = Abandoned(app)
        /\ Overtake
  /\ UNCHANGED <<live, environment, mishaps>>

-----------------------------------------------------------------------------
(* The phone: network, screen, power, calls; service, user and system.      *)

\* The socket stays as it is, but its path is gone for good.
NetworkLost ==
  /\ net /\ scene.flaky /\ Mishap
  /\ net' = FALSE
  /\ live' = FALSE
  /\ UNCHANGED <<scene, app, dropping, stale, prefs, alarm, restart>>

\* onAvailable: reconnect if there is no socket, or a silent one.
NetworkBack ==
  /\ ~net
  /\ net' = TRUE
  /\ LET silent == app.ws # None /\ app.acks /\ app.heard = "dead"
         again  == app.running /\ (app.ws = None \/ silent)
     IN /\ app' = IF again THEN ForceReconnect(app) ELSE app
        /\ IF again THEN stale' = Abandoned(app) /\ Overtake
           ELSE UNCHANGED <<stale, dropping>>
  /\ UNCHANGED <<scene, live, prefs, alarm, restart, mishaps>>

\* verifyLink: on waking, on power, on an incoming call.
Wake ==
  /\ app.running /\ Mishap
  /\ app.ws = None \/ (app.acks /\ app.heard # "fresh")
  /\ app' = ForceReconnect(app)
  /\ stale' = Abandoned(app)
  /\ Overtake
  /\ UNCHANGED <<live, environment>>

\* onDestroy and the death of the process: nothing of the service is left.
Gone == dropping' = "no" /\ stale' = {} /\ live' = FALSE

StartService ==
  /\ app' = Start(app)
  /\ UNCHANGED <<dropping, stale, live>>

\* A start from the background that the system does not allow: nothing happens.
StartRefused == ~scene.exempt /\ UNCHANGED <<app, dropping, stale, live>>

UserStarts ==
  /\ Mishap
  /\ prefs' = [prefs EXCEPT !.enabled = TRUE]
  /\ StartService
  /\ alarm' = TRUE
  /\ UNCHANGED <<scene, net, restart>>

UserStops ==
  /\ Mishap
  /\ prefs' = [prefs EXCEPT !.enabled = FALSE]
  /\ app' = NewApp /\ Gone
  /\ UNCHANGED <<scene, net, alarm, restart>>

\* setKeepRunning: switched on, it starts an enabled service.
UserKeeps(keep) ==
  /\ keep # prefs.keep /\ Mishap
  /\ prefs' = [prefs EXCEPT !.keep = keep]
  /\ IF keep /\ prefs.enabled THEN StartService /\ alarm' = TRUE
     ELSE UNCHANGED <<app, dropping, stale, live, alarm>>
  /\ UNCHANGED <<scene, net, restart>>

\* The system ends the service: with notice (onTimeout), which arms a restart,
\* or without.
Killed ==
  /\ app.running /\ Mishap
  /\ app' = NewApp /\ Gone
  /\ restart' \in {restart, restart \/ prefs.keep}
  /\ UNCHANGED <<scene, net, prefs, alarm>>

\* Alarms do not survive a reboot; BootReceiver starts what is enabled.
Reboot ==
  /\ Mishap
  /\ Gone
  /\ LET on == prefs.enabled /\ prefs.keep IN
       /\ app' = IF on THEN Start(NewApp) ELSE NewApp
       /\ alarm' = on
  /\ restart' = FALSE
  /\ UNCHANGED <<scene, net, prefs>>

\* KeepAliveReceiver: the chain of alarms goes on only while it is wanted, and
\* whether or not the start succeeds.
Tick ==
  /\ alarm
  /\ IF prefs.enabled /\ prefs.keep
     THEN (StartService \/ StartRefused) /\ UNCHANGED alarm
     ELSE alarm' = FALSE /\ UNCHANGED <<app, dropping, stale, live>>
  /\ UNCHANGED <<scene, net, prefs, restart, mishaps>>

\* The one-shot restart asks nothing.
Restart ==
  /\ restart
  /\ restart' = FALSE
  /\ \/ StartService /\ alarm' = TRUE
     \/ StartRefused /\ UNCHANGED alarm
  /\ UNCHANGED <<scene, net, prefs, mishaps>>

-----------------------------------------------------------------------------
AppLinkNext ==
  \/ \E d \in Daemon :
       ServiceFound(d) \/ RetryResolve(d) \/ StaleEnds(d) \/ Expire(d)
  \/ Resolved \/ ResolveFails \/ WindowEnds \/ WindowCutShort \/ TimerFires
  \/ Opens \/ KeyRejected \/ Drops \/ Blip \/ Dropped \/ AfterDrop
  \/ HeartbeatAck \/ Silence \/ Heartbeat
  \/ NetworkLost \/ NetworkBack \/ Wake
  \/ UserStarts \/ UserStops \/ \E keep \in BOOLEAN : UserKeeps(keep)
  \/ Killed \/ Reboot \/ Restart \/ Tick

AppLinkSpec == AppLinkInit /\ [][AppLinkNext]_appLinkVars

\* NSD announces and resolves, OkHttp's sockets open, close and fail, and the main
\* thread handles what is posted; what is pending of a kind does not wait for ever.
Search == Resolved \/ \E d \in Daemon : ServiceFound(d) \/ RetryResolve(d)
Sockets == Opens \/ KeyRejected \/ Drops \/ Dropped \/ AfterDrop

\* Timers and alarms go off; that an alarm starts a service is not said of a phone
\* that may refuse it.  A mark runs out, and a search ends, whatever happens
\* meanwhile.
FairAppLinkSpec ==
  /\ AppLinkSpec
  /\ WF_appLinkVars(Search) /\ WF_appLinkVars(Sockets)
  /\ WF_appLinkVars(\E d \in Daemon : StaleEnds(d))
  /\ WF_appLinkVars(NetworkBack) /\ WF_appLinkVars(TimerFires)
  /\ WF_appLinkVars(scene.exempt /\ Tick)
  /\ SF_appLinkVars(WindowEnds)
  /\ \A d \in Daemon : SF_appLinkVars(Expire(d))
-----------------------------------------------------------------------------
App == [running : BOOLEAN, ws : Daemon \cup {None},
        stage : {"none", "opening", "open", "closing"},
        connecting : Daemon \cup {None}, keyFail : BOOLEAN,
        posted : {None} \cup [key : BOOLEAN, never : Daemon \cup {None}],
        timer : BOOLEAN, window : BOOLEAN, lock : BOOLEAN,
        told : SUBSET Daemon, queue : Seq(Daemon),
        resolving : Daemon \cup {None}, retry : SUBSET Daemon,
        attempts : [Daemon -> Nat], found : Seq(Daemon),
        rejected : SUBSET Daemon, unreachable : SUBSET Daemon,
        heard : {"fresh", "quiet", "dead"}, acks : BOOLEAN, beat : BOOLEAN,
        backoff : Nat, slip : {"none", "address", "late"}]

AppLinkTypeOK ==
  /\ scene \in Scene
  /\ app \in App
  /\ dropping \in {"no", "checked", "overtaken"}
  /\ stale \subseteq Daemon
  /\ live \in BOOLEAN /\ net \in BOOLEAN
  /\ prefs \in [enabled : BOOLEAN, keep : BOOLEAN]
  /\ alarm \in BOOLEAN /\ restart \in BOOLEAN /\ mishaps \in Nat

Searches == scene.server = None /\ scene.search

\* A running service without a socket, and nothing under way that would make one:
\* no search, no reconnect timer, no drop whose end is still to come.
Stranded ==
  /\ app.running /\ app.ws = None
  /\ ~app.window /\ ~app.timer /\ app.posted = None /\ dropping = "no"

\* A running service is never left without an attempt, whatever the callbacks
\* clear for each other (onOpen, dropped, forceReconnect), but in two ways: the
\* last attempt was of an address that cannot be used, which counts as a try
\* (connect, connectNextCandidate); or, where no search is made, an abandoned
\* socket that opens after all has cancelled the timer.
AlwaysTrying ==
  Stranded => app.slip = "address" \/ (app.slip = "late" /\ ~Searches)

\* AlwaysTrying without its exceptions, which the code does not keep.
NeverStranded == ~Stranded

Connected == app.stage = "open" /\ scene.nature[app.ws] = "ours"

\* The saved daemon is ours, or there is one of ours to be found.
WithinReach ==
  IF scene.server # None THEN scene.nature[scene.server] = "ours"
  ELSE scene.search /\ \E d \in Daemon : scene.nature[d] = "ours"

\* The search is over and has missed ours, but found one that never answers: as
\* the last candidate left it is tried again at once, and nothing searches anew.
Missed ==
  LET Kinds == {scene.nature[app.found[i]] : i \in DOMAIN app.found}
  IN ~app.window /\ "dead" \in Kinds /\ "ours" \notin Kinds

\* Once mishaps cease, the app is connected to its daemon in the end, and stays
\* so, past candidates that reject the key, never answer or cannot be dialled,
\* unless it is left without an attempt as AlwaysTrying says, or with candidates
\* that do not answer; and a service that the user wants running comes back,
\* where alarms may start it.
FindsItsDaemon ==
  /\ WithinReach /\ <>[]app.running => <>[](Connected \/ Stranded \/ Missed)
  /\ scene.exempt /\ <>[](prefs.enabled /\ prefs.keep /\ alarm)
       => <>[]app.running

\* FindsItsDaemon without its exceptions, which the code does not keep.
NothingKeepsItAway == WithinReach /\ <>[]app.running => <>[]Connected
=============================================================================
