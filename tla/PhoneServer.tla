---------------------------- MODULE PhoneServer ----------------------------
(***************************************************************************)
(* The phone WebSocket server (transport/phone_server.rs) over the hub and *)
(* the device registry, with the sockets a phone opens to it.              *)
(*                                                                         *)
(* Each accepted socket has a handler task (handle_conn) whose steps other *)
(* handlers, the reaper and command callers interleave with: the hub's     *)
(* table and the registry have a lock each, and no lock spans both.  The   *)
(* registry is modelled as to who is in it and whether it was heard of     *)
(* lately; calls and the other frames of handle_phone_msg are elsewhere.   *)
(*                                                                         *)
(* The phone side is the socket handling of ConnForegroundService.kt: one  *)
(* current socket `ws`, replaced when it dies or when the app stops        *)
(* trusting it, and a new app process after a crash.                       *)
(***************************************************************************)
EXTENDS Hub

CONSTANTS HangupOf,      \* the Hangup each handler may fire
          MaxInstance,   \* bound: app processes per phone
          MaxBeat        \* bound: heartbeats per phone

ASSUME ConnOrder == Conn \subseteq Nat   \* numbered as they are accepted
ASSUME HangupAssumption ==
  /\ HangupOf \in [Conn -> Fire]
  /\ \A s, t \in Conn : HangupOf[s] = HangupOf[t] => s = t
ASSUME BoundAssumption == MaxInstance \in Nat \ {0} /\ MaxBeat \in Nat

VARIABLES
  stage,      \* how far each socket's handler has got
  aborting,   \* its `aborting`: an app relaunch met a busy sound card
  instances,  \* DaemonState::instances: last instance_id of each device (0: none)
  rec,        \* registry: the socket that wrote each device's record
  fresh,      \* last_seen_ms is within STALE_AFTER_MS
  reaped,     \* ids the reaper removed and has still to drop
  link,       \* network: "down" before use, "up", or "dead" (half-open)
  phoneEnd,   \* the phone's end of each socket
  beat,       \* a heartbeat of the phone is on its way
  beats,      \* how many each phone has sent
  ws,         \* ConnForegroundService.ws
  process,    \* INSTANCE_ID of the app process running now
  helloFrom   \* the process each socket said hello from

handlerVars == <<stage, aborting, instances>>
regVars     == <<rec, fresh, reaped>>
phoneVars   == <<link, phoneEnd, beat, beats, ws, process, helloFrom>>
vars        == <<hubVars, handlerVars, regVars, phoneVars>>

Stage == {"unused", "accepted", "hello", "registered", "recorded", "reading",
          "leaving", "unregistered", "finishing", "closed"}

TypeOK ==
  /\ HubTypeOK
  /\ stage \in [Conn -> Stage]
  /\ aborting \in [Conn -> BOOLEAN]
  /\ instances \in [Device -> 0..MaxInstance]
  /\ rec \in [Device -> Conn \cup {NoConn}]
  /\ fresh \in [Device -> BOOLEAN]
  /\ reaped \subseteq Device
  /\ link \in [Conn -> {"down", "up", "dead"}]
  /\ phoneEnd \in [Conn -> {"none", "open", "closed", "gone"}]
  /\ beat \in [Conn -> BOOLEAN]
  /\ beats \in [Device -> 0..MaxBeat]
  /\ ws \in [Device -> Conn \cup {NoConn}]
  /\ process \in [Device -> 1..MaxInstance]
  /\ helloFrom \in [Conn -> 0..MaxInstance]

Init ==
  /\ HubInit
  /\ \A s \in Conn : target[HangupOf[s]] = DeviceOf[s]
  /\ stage = [s \in Conn |-> "unused"]
  /\ aborting = [s \in Conn |-> FALSE]
  /\ instances = [d \in Device |-> 0]
  /\ rec = [d \in Device |-> NoConn]
  /\ fresh = [d \in Device |-> FALSE]
  /\ reaped = {}
  /\ link = [s \in Conn |-> "down"]
  /\ phoneEnd = [s \in Conn |-> "none"]
  /\ beat = [s \in Conn |-> FALSE]
  /\ beats = [d \in Device |-> 0]
  /\ ws = [d \in Device |-> NoConn]
  /\ process = [d \in Device |-> 1]
  /\ helloFrom = [s \in Conn |-> 0]

Goto(s, next) == stage' = [stage EXCEPT ![s] = next]
-----------------------------------------------------------------------------
(* handle_conn.                                                            *)

\* The hello names the app process.  A relaunch while some job holds the card
\* (whose, this handler does not ask) aborts it.
IsRelaunch(d, i) == instances[d] # 0 /\ instances[d] # i

Hello(s) ==
  LET d == DeviceOf[s]
  IN /\ stage[s] = "accepted" /\ link[s] = "up"
     /\ Goto(s, "hello")
     /\ instances' = [instances EXCEPT ![d] = helloFrom[s]]
     /\ \E cardBusy \in BOOLEAN :
          aborting' = [aborting EXCEPT ![s] = IsRelaunch(d, helloFrom[s]) /\ cardBusy]
     /\ UNCHANGED <<hubVars, regVars, phoneVars>>

\* A bad key, another first frame, or a close before hello.
RejectHello(s) ==
  /\ stage[s] = "accepted" /\ link[s] = "up"
  /\ Goto(s, "closed")
  /\ UNCHANGED <<hubVars, aborting, instances, regVars, phoneVars>>

DoRegister(s) ==
  /\ stage[s] = "hello"
  /\ Register(s)
  /\ Goto(s, "registered")
  /\ UNCHANGED <<aborting, instances, regVars, phoneVars>>

Upsert(s) ==
  /\ stage[s] = "registered"
  /\ rec' = [rec EXCEPT ![DeviceOf[s]] = s]
  /\ fresh' = [fresh EXCEPT ![DeviceOf[s]] = TRUE]
  /\ Goto(s, IF aborting[s] THEN "recorded" ELSE "reading")
  /\ UNCHANGED <<hubVars, aborting, instances, reaped, phoneVars>>

\* `hub.fire(.., Hangup)` after an abort, awaited before the socket is read.
FireHangup(s) ==
  /\ stage[s] = "recorded"
  /\ CallStep(HangupOf[s])
  /\ UNCHANGED <<handlerVars, regVars, phoneVars>>

StartReading(s) ==
  /\ stage[s] = "recorded" /\ pc[HangupOf[s]] = "done"
  /\ Goto(s, "reading")
  /\ UNCHANGED <<hubVars, aborting, instances, regVars, phoneVars>>

\* The reader loop: a heartbeat touches the device's record, if there is one,
\* and is acknowledged on the device's current connection.
ReadBeat(s) ==
  LET d == DeviceOf[s]
  IN /\ stage[s] = "reading" /\ beat[s]
     /\ beat' = [beat EXCEPT ![s] = FALSE]
     /\ fresh' = [fresh EXCEPT ![d] = @ \/ rec[d] # NoConn]
     /\ SendFrame(d)
     /\ UNCHANGED <<handlerVars, rec, reaped, link, phoneEnd, beats, ws, process,
                    helloFrom>>

ReadAnswer(s) ==
  /\ stage[s] = "reading"
  /\ ResolveAck(s)
  /\ UNCHANGED <<handlerVars, regVars, phoneVars>>

\* The select! ends: a close frame, a read error, or the cancel permit.
EndOfStream(s) == \/ link[s] = "up" /\ phoneEnd[s] \in {"closed", "gone"}
                  \/ link[s] = "dead"

\* Mutant: a read error leaves the handler before its cleanup.
StopReadingEarly(s) ==
  /\ stage[s] = "reading"
  /\ EndOfStream(s)
  /\ Goto(s, "finishing")
  /\ UNCHANGED <<hubVars, aborting, instances, regVars, phoneVars>>

StopReading(s) ==
  /\ stage[s] = "reading"
  /\ EndOfStream(s)
  /\ Goto(s, "leaving")
  /\ UNCHANGED <<hubVars, aborting, instances, regVars, phoneVars>>

Cancelled(s) ==
  /\ stage[s] = "reading"
  /\ TakePermit(s)
  /\ Goto(s, "leaving")
  /\ UNCHANGED <<aborting, instances, regVars, phoneVars>>

DoUnregister(s) ==
  /\ stage[s] = "leaving"
  /\ Unregister(s)
  /\ Goto(s, IF IsCurrent(s) THEN "unregistered" ELSE "finishing")
  /\ UNCHANGED <<aborting, instances, regVars, phoneVars>>

RemoveRecord(s) ==
  /\ stage[s] = "unregistered"
  /\ rec' = [rec EXCEPT ![DeviceOf[s]] = NoConn]
  /\ fresh' = [fresh EXCEPT ![DeviceOf[s]] = FALSE]
  /\ Goto(s, "finishing")
  /\ UNCHANGED <<hubVars, aborting, instances, reaped, phoneVars>>

\* Mutant: the waiters go with the connection, unanswered.
FinishForgetting(s) ==
  /\ stage[s] = "finishing"
  /\ Goto(s, "closed")
  /\ acks' = [acks EXCEPT ![s] = {}]
  /\ UNCHANGED <<conns, chan, rx, permit, callVars, netVars,
                 aborting, instances, regVars, phoneVars>>

\* writer.abort(); dropping both halves closes the socket.
Finish(s) ==
  /\ stage[s] = "finishing"
  /\ Goto(s, "closed")
  /\ CloseSocket(s)
  /\ beat' = [beat EXCEPT ![s] = FALSE]
  /\ UNCHANGED <<aborting, instances, regVars, link, phoneEnd, beats, ws,
                 process, helloFrom>>

\* The writer task runs beside the reader; a failed write ends it.
Spawned(s) == stage[s] \in {"reading", "leaving", "unregistered", "finishing"}

Write(s) ==
  /\ Spawned(s)
  /\ WriterTake(s)
  /\ UNCHANGED <<handlerVars, regVars, phoneVars>>

WriteFails(s) ==
  /\ Spawned(s)
  /\ link[s] = "dead" \/ phoneEnd[s] = "gone"
  /\ CloseRx(s)
  /\ UNCHANGED <<handlerVars, regVars, phoneVars>>
-----------------------------------------------------------------------------
(* reap_stale.                                                             *)

GoStale(d) ==
  /\ rec[d] # NoConn /\ fresh[d]
  /\ fresh' = [fresh EXCEPT ![d] = FALSE]
  /\ UNCHANGED <<hubVars, handlerVars, rec, reaped, phoneVars>>

\* Mutant: only devices with a connection are looked at.
StaleConnected == {d \in Device : rec[d] # NoConn /\ ~fresh[d] /\ conns[d] # NoConn}

Stale == {d \in Device : rec[d] # NoConn /\ ~fresh[d]}

ReapScan ==
  /\ reaped = {} /\ Stale # {}
  /\ reaped' = Stale
  /\ rec' = [d \in Device |-> IF d \in Stale THEN NoConn ELSE rec[d]]
  /\ UNCHANGED <<hubVars, handlerVars, fresh, phoneVars>>

ReapDrop(d) ==
  /\ d \in reaped
  /\ reaped' = reaped \ {d}
  /\ DropDevice(d)
  /\ UNCHANGED <<handlerVars, rec, fresh, phoneVars>>
-----------------------------------------------------------------------------
(* The phone and the network.                                              *)

\* Never a second socket while one is current.
Unused(d) == {s \in Conn : DeviceOf[s] = d /\ stage[s] = "unused"}

Connect(d) ==
  /\ ws[d] = NoConn
  /\ \E s \in Unused(d) :
       /\ \A t \in Unused(d) : s <= t
       /\ ws' = [ws EXCEPT ![d] = s]
       /\ link' = [link EXCEPT ![s] = "up"]
       /\ phoneEnd' = [phoneEnd EXCEPT ![s] = "open"]
       /\ helloFrom' = [helloFrom EXCEPT ![s] = process[d]]
       /\ Goto(s, "accepted")
  /\ UNCHANGED <<hubVars, aborting, instances, regVars, beat, beats, process>>

SendBeat(s) ==
  /\ ws[DeviceOf[s]] = s /\ link[s] = "up" /\ ~beat[s]
  /\ beats[DeviceOf[s]] < MaxBeat
  /\ beat' = [beat EXCEPT ![s] = TRUE]
  /\ beats' = [beats EXCEPT ![DeviceOf[s]] = @ + 1]
  /\ UNCHANGED <<hubVars, handlerVars, regVars, link, phoneEnd, ws, process,
                 helloFrom>>

\* Liveness timeout, network back, wake-up or ring: close and start over.
ForceReconnect(d) ==
  /\ ws[d] # NoConn
  /\ phoneEnd' = [phoneEnd EXCEPT ![ws[d]] = "closed"]
  /\ ws' = [ws EXCEPT ![d] = NoConn]
  /\ UNCHANGED <<hubVars, handlerVars, regVars, link, beat, beats, process,
                 helloFrom>>

\* onClosed or onFailure of the current socket; of another one it is ignored.
Dropped(s) ==
  /\ ws[DeviceOf[s]] = s
  /\ link[s] = "dead" \/ stage[s] = "closed"
  /\ phoneEnd' = [phoneEnd EXCEPT ![s] = "gone"]
  /\ ws' = [ws EXCEPT ![DeviceOf[s]] = NoConn]
  /\ LoseDown({s})
  /\ UNCHANGED <<handlerVars, regVars, link, beat, beats, process, helloFrom>>

\* The app process dies with its sockets, and is started again.
Relaunch(d) ==
  /\ process[d] < MaxInstance
  /\ process' = [process EXCEPT ![d] = @ + 1]
  /\ ws' = [ws EXCEPT ![d] = NoConn]
  /\ LET mine == {s \in Conn : DeviceOf[s] = d /\ phoneEnd[s] # "none"}
     IN /\ phoneEnd' = [s \in Conn |-> IF s \in mine THEN "gone" ELSE phoneEnd[s]]
        /\ LoseDown(mine)
  /\ UNCHANGED <<handlerVars, regVars, link, beat, beats, helloFrom>>

\* The app still hears a socket it has closed until the daemon closes it, but
\* can no longer send on it.
Handle(s) ==
  /\ link[s] = "up" /\ phoneEnd[s] \in {"open", "closed"}
  /\ PhoneHandle(s, phoneEnd[s] = "open")
  /\ UNCHANGED <<handlerVars, regVars, phoneVars>>

\* The path is lost without a word to either end.  (Once the daemon has closed
\* the socket, losing the path or its FIN comes to the same for the phone.)
Break(s) ==
  /\ link[s] = "up" /\ stage[s] # "closed"
  /\ link' = [link EXCEPT ![s] = "dead"]
  /\ beat' = [beat EXCEPT ![s] = FALSE]
  /\ Lose(s)
  /\ UNCHANGED <<handlerVars, regVars, phoneEnd, beats, ws, process, helloFrom>>

\* A caller of Hub::command.
Call(c) ==
  /\ CallStep(c)
  /\ UNCHANGED <<handlerVars, regVars, phoneVars>>

Handler(s) ==
  \/ Hello(s) \/ RejectHello(s) \/ DoRegister(s) \/ Upsert(s) \/ FireHangup(s)
  \/ StartReading(s) \/ ReadBeat(s) \/ ReadAnswer(s) \/ StopReading(s)
  \/ Cancelled(s) \/ DoUnregister(s) \/ RemoveRecord(s) \/ Finish(s)

Next ==
  \/ \E s \in Conn : \/ Handler(s) \/ Write(s) \/ WriteFails(s) \/ Handle(s)
                     \/ SendBeat(s) \/ Dropped(s) \/ Break(s)
  \/ \E d \in Device : \/ GoStale(d) \/ ReapDrop(d) \/ Connect(d)
                       \/ ForceReconnect(d) \/ Relaunch(d)
  \/ ReapScan
  \/ \E c \in Command : Call(c)

Spec == Init /\ [][Next]_vars

\* Fairness.  Tasks of the runtime take their enabled steps; a path that is up
\* carries its frames; the kernel gives up on a dead path that holds unsent
\* data; a phone that nothing is read from is in time found stale; the app
\* reconnects.  A half-open socket need never fail, and no call need be made.
Step(s) ==
  \/ Hello(s) \/ DoRegister(s) \/ Upsert(s) \/ FireHangup(s) \/ StartReading(s)
  \/ ReadBeat(s) \/ ReadAnswer(s) \/ (link[s] = "up" /\ StopReading(s))
  \/ Cancelled(s) \/ DoUnregister(s) \/ RemoveRecord(s) \/ Finish(s)

Silent(d) == \A s \in Conn :
  DeviceOf[s] = d => ~(stage[s] = "reading" /\ (beat[s] \/ (ws[d] = s /\ link[s] = "up")))

Fairness ==
  /\ \A s \in Conn : /\ WF_vars(Step(s)) /\ WF_vars(Write(s)) /\ WF_vars(Handle(s))
                     /\ WF_vars(wire[s] # <<>> /\ WriteFails(s)) /\ WF_vars(Dropped(s))
  /\ \A d \in Device : /\ WF_vars(Silent(d) /\ GoStale(d)) /\ WF_vars(ReapDrop(d))
                       /\ WF_vars(Connect(d))
  /\ WF_vars(ReapScan)
  /\ \A c \in Command : WF_vars(pc[c] # "idle" /\ Call(c))

FairSpec == Spec /\ Fairness
-----------------------------------------------------------------------------
(* Properties.                                                             *)

\* A registered socket either is its device's connection or has been told to
\* close: a handler that is neither would read for ever on a socket the hub
\* has forgotten, and such connections would pile up.
Attached(s) == stage[s] \in {"registered", "recorded", "reading"}

ServedOrCancelled ==
  \A s \in Conn : Attached(s) => conns[DeviceOf[s]] = s \/ permit[s]

\* The hub's entry is always a socket whose handler has yet to unregister it,
\* so no command can be sent to a connection nobody will ever tear down.
CurrentIsHandled ==
  \A d \in Device : conns[d] # NoConn =>
    /\ DeviceOf[conns[d]] = d
    /\ Attached(conns[d]) \/ stage[conns[d]] = "leaving"

\* The reason a socket's teardown is keyed by its generation: handle_conn says
\* "our own teardown can't clobber a newer connection" (phone_server.rs:132).
\* A record may go only by its own socket's teardown or by the reaper.
TeardownSparesNewer ==
  [][\A d \in Device : rec[d] # NoConn /\ rec'[d] = NoConn =>
       \/ stage[rec[d]] = "unregistered" /\ stage'[rec[d]] = "finishing"
       \/ d \in reaped' \ reaped]_vars

\* "so this socket closes instead of lingering half-open": once the hub has
\* another connection for the device, or none, an older reader ends for good.
SupersededCloses ==
  \A s \in Conn : (stage[s] = "reading" /\ conns[DeviceOf[s]] # s) ~> (stage[s] = "closed")

\* A record without a connection (left by a drop between registering and
\* recording) does not stay: the reaper takes it or the phone comes back.
GhostReaped ==
  \A d \in Device : (rec[d] # NoConn /\ conns[d] = NoConn)
                     ~> (rec[d] = NoConn \/ conns[d] # NoConn)

\* Every call of Hub::command comes back, though the send that comes before the
\* timeout waits without one for a queue that may be full on a dead path.
CallReturns == \A c \in Command : (pc[c] # "idle") ~> (pc[c] = "done")
=============================================================================
