----------------------------- MODULE CallTrack -----------------------------
(***************************************************************************)
(* Calls as the daemon sees them: the phone's call table and the           *)
(* call_state frames it reports (Dialf.kt, DialfInCallService.kt), and     *)
(* what the daemon makes of them (handle_phone_msg and handle_conn in      *)
(* transport/phone_server.rs): the registry's current_call, auto-answer,   *)
(* and the markers by which a restarted daemon hangs up what a crashed one *)
(* left behind.                                                            *)
(*                                                                         *)
(* The sockets are those of PhoneServer.tla, coarser: registering and      *)
(* recording are one step, so are unregistering and removing the record,   *)
(* and a half-open socket is one the phone has left.  Who holds the card   *)
(* and sends commands is left open here; JobControl.tla says it.           *)
(***************************************************************************)
EXTENDS Naturals, Sequences

CONSTANTS Device, Conn, DeviceOf, NoConn,
          Call, PhoneOf, NoCall,  \* calls, and the phone each is on
          AutoAnswer,    \* how a ringing number may be handled
          Asker,         \* jobs and control clients, who wait for an ack
          JobsRun,       \* whether anything takes the card
          QueueCap,      \* bound: commands on their way on one socket
          MaxProcess,    \* bound: app processes per phone
          MaxBlip,       \* bound: sockets the phones give up
          MaxCrash       \* bound: daemon crashes

ASSUME TrackConstants ==
  /\ Conn \subseteq Nat   \* numbered as they are opened
  /\ DeviceOf \in [Conn -> Device] /\ NoConn \notin Conn
  /\ PhoneOf \in [Call -> Device] /\ NoCall \notin Call
  /\ AutoAnswer \subseteq {"none", "answer", "job"}
  /\ JobsRun \in BOOLEAN
  /\ {QueueCap, MaxProcess, MaxBlip, MaxCrash} \subseteq Nat

VARIABLES
  \* the phones
  state,      \* what Telecom says of each call
  idOf,       \* Dialf.callToId: the app's id for each call it tracks (0: none)
  seq,        \* Dialf.seq: ids this process has given
  process,    \* INSTANCE_ID
  ws,         \* ConnForegroundService.ws
  hung,       \* calls the app has asked Telecom to disconnect
  \* the sockets
  up,         \* frames on their way to the daemon
  down,       \* commands on their way to the phone
  gone,       \* the phone has left the socket
  stage,      \* how far its handler has got
  helloFrom,  \* the process that said hello on it (0: not yet)
  prior,      \* the handler's prior_call
  aborting,   \* the handler's aborting
  \* the daemon
  conn,       \* Hub::conns
  reg,        \* registry: each device's current_call, if it has a record
  instances,  \* last instance_id of each device (0: none)
  marker,     \* the marker files; they outlive the daemon
  orphans,    \* pending_orphans
  card,       \* card_busy
  abort,      \* job_abort
  \* bounds and history
  blips, crashes,
  marked      \* calls a marker has been written for

phoneVars  == <<state, idOf, seq, process, ws, hung>>
sockVars   == <<up, down, gone, stage, helloFrom, prior, aborting>>
daemonVars == <<conn, reg, instances, marker, orphans, card, abort>>
histVars   == <<blips, crashes, marked>>
trackVars  == <<phoneVars, sockVars, daemonVars, histVars>>

\* Frames and records carry the call they are really about (`of`), which no
\* code reads: the properties do.
Live == {"ringing", "dialing", "active"}
Report == [id : Nat, st : Live \cup {"ended"}, of : Call]
Mark == [id : Nat, of : Call \cup {NoCall}]
Cmd == [op : {"dial", "answer", "hangup"}, id : Nat, of : Call \cup {NoCall},
        by : Asker \cup {"auto", "abort", "orphan", "cleanup"}]
Ack == [st : {"ack", "refused"}, by : Asker]

Greeting == [id |-> 0, st |-> "hello", of |-> NoCall]
Idle     == [id |-> 0, st |-> "none", of |-> NoCall]     \* a record with no call
Absent   == [id |-> 0, st |-> "absent", of |-> NoCall]   \* no record
NoMark   == [id |-> 0, of |-> NoCall]

Frame  == {Greeting} \cup Report \cup Ack
Record == {Idle, Absent} \cup Report

TrackTypeOK ==
  /\ state \in [Call -> Live \cup {"none", "disconnected", "removed"}]
  /\ idOf \in [Call -> Nat] /\ seq \in [Device -> Nat]
  /\ process \in [Device -> Nat] /\ ws \in [Device -> Conn \cup {NoConn}]
  /\ hung \subseteq Call
  /\ up \in [Conn -> Seq(Frame)] /\ down \in [Conn -> Seq(Cmd)]
  /\ gone \in [Conn -> BOOLEAN]
  /\ stage \in [Conn -> {"unused", "accepted", "hello", "reading", "closed"}]
  /\ helloFrom \in [Conn -> Nat] /\ prior \in [Conn -> Record]
  /\ aborting \in [Conn -> BOOLEAN]
  /\ conn \in [Device -> Conn \cup {NoConn}] /\ reg \in [Device -> Record]
  /\ instances \in [Device -> Nat]
  /\ marker \in [Device -> Mark] /\ orphans \in [Device -> Mark]
  /\ card \in BOOLEAN /\ abort \in BOOLEAN
  /\ blips \in 0..MaxBlip /\ crashes \in 0..MaxCrash /\ marked \subseteq Call

TrackInit ==
  /\ state = [c \in Call |-> "none"] /\ idOf = [c \in Call |-> 0]
  /\ seq = [d \in Device |-> 0] /\ process = [d \in Device |-> 1]
  /\ ws = [d \in Device |-> NoConn] /\ hung = {}
  /\ up = [s \in Conn |-> <<>>] /\ down = [s \in Conn |-> <<>>]
  /\ gone = [s \in Conn |-> FALSE] /\ stage = [s \in Conn |-> "unused"]
  /\ helloFrom = [s \in Conn |-> 0] /\ prior = [s \in Conn |-> Idle]
  /\ aborting = [s \in Conn |-> FALSE]
  /\ conn = [d \in Device |-> NoConn] /\ reg = [d \in Device |-> Absent]
  /\ instances = [d \in Device |-> 0]
  /\ marker = [d \in Device |-> NoMark] /\ orphans = [d \in Device |-> NoMark]
  /\ card = FALSE /\ abort = FALSE
  /\ blips = 0 /\ crashes = 0 /\ marked = {}
-----------------------------------------------------------------------------
(* The phone: calls.                                                       *)

Mine(d) == {c \in Call : PhoneOf[c] = d}
Tracked(d) == {c \in Mine(d) : idOf[c] # 0}

\* ConnForegroundService.send: on `ws`, whether or not it has opened yet (what
\* is sent before that goes out first); nowhere if there is none.
Tell(c, id, st) ==
  LET s == ws[PhoneOf[c]]
  IN up' = IF s = NoConn \/ (s # NoConn /\ stage[s] = "closed") THEN up
           ELSE [up EXCEPT ![s] = Append(@, [id |-> id, st |-> st, of |-> c])]

\* Mutant: a state the protocol has no name for.
ToldRaw(st) == st

\* Dialf.emitCallState's name for a Telecom state.
Told(st) == IF st = "disconnected" THEN "ended" ELSE st

\* A call comes in, or the user dials one.
Begin(c) ==
  /\ state[c] = "none"
  /\ \E st \in {"ringing", "dialing"} : state' = [state EXCEPT ![c] = st]
  /\ UNCHANGED <<idOf, seq, process, ws, hung, sockVars, daemonVars, histVars>>

\* onCallAdded, of a new call or of one that outlived the previous process.
Added(c) ==
  LET d == PhoneOf[c]
  IN /\ state[c] \in Live /\ idOf[c] = 0
     /\ idOf' = [idOf EXCEPT ![c] = seq[d] + 1]
     /\ seq' = [seq EXCEPT ![d] = @ + 1]
     /\ Tell(c, seq[d] + 1, state[c])
     /\ UNCHANGED <<state, process, ws, hung, down, gone, stage, helloFrom,
                    prior, aborting, daemonVars, histVars>>

\* onStateChanged, of a call the app tracks.  Answered here or by the far end;
\* ended by either at any time, and a hang-up is only a request.
Change(c, st) ==
  /\ state[c] \in Live
  /\ state' = [state EXCEPT ![c] = st]
  /\ IF idOf[c] = 0 THEN UNCHANGED up ELSE Tell(c, idOf[c], Told(st))
  /\ UNCHANGED <<idOf, seq, process, ws, hung, down, gone, stage, helloFrom,
                 prior, aborting, daemonVars, histVars>>

PickUp(c) == state[c] # "active" /\ Change(c, "active")
Disconnect(c) == Change(c, "disconnected")

\* onCallRemoved reports the end once more and forgets the call.
Removed(c) ==
  /\ state[c] = "disconnected"
  /\ state' = [state EXCEPT ![c] = "removed"]
  /\ IF idOf[c] = 0 THEN UNCHANGED up ELSE Tell(c, idOf[c], "ended")
  /\ idOf' = [idOf EXCEPT ![c] = 0]
  /\ UNCHANGED <<seq, process, ws, hung, down, gone, stage, helloFrom, prior,
                 aborting, daemonVars, histVars>>

\* Dialf.call: the call with that id or, failing it, any the app tracks.
Chosen(d, id) ==
  LET named == {c \in Tracked(d) : idOf[c] = id}
  IN IF named # {} THEN named ELSE Tracked(d)

\* The next command, with the call it acts on (NoCall: none), and its answer.
\* A dial that Telecom accepts need not become a call.
Answered(s, cmd, st) ==
  up' = IF cmd.by \in Asker THEN [up EXCEPT ![s] = Append(@, [st |-> st, by |-> cmd.by])]
                            ELSE up

Performs(s, c) ==
  LET d == DeviceOf[s]
      cmd == Head(down[s])
  IN /\ ~gone[s] /\ down[s] # <<>>
     /\ down' = [down EXCEPT ![s] = Tail(@)]
     /\ \/ /\ cmd.op = "dial" /\ c \in Mine(d) /\ state[c] = "none"
           /\ state' = [state EXCEPT ![c] = "dialing"]
           /\ Answered(s, cmd, "ack")
           /\ UNCHANGED hung
        \/ /\ cmd.op = "hangup" /\ c \in Chosen(d, cmd.id)
           /\ hung' = hung \cup {c}
           /\ Answered(s, cmd, "ack")
           /\ UNCHANGED state
        \/ /\ \/ cmd.op = "answer" /\ c \in Chosen(d, cmd.id)
              \/ cmd.op = "dial" /\ c = NoCall
           /\ Answered(s, cmd, "ack")
           /\ UNCHANGED <<state, hung>>
        \/ /\ cmd.op # "dial" /\ c = NoCall /\ Chosen(d, cmd.id) = {}
           /\ Answered(s, cmd, "refused")
           /\ UNCHANGED <<state, hung>>
     /\ UNCHANGED <<idOf, seq, process, ws, gone, stage, helloFrom, prior,
                    aborting, daemonVars, histVars>>
-----------------------------------------------------------------------------
(* The phone: sockets.                                                     *)

Unused(d) == {s \in Conn : DeviceOf[s] = d /\ stage[s] = "unused"}

Open(d) ==
  /\ ws[d] = NoConn
  /\ \E s \in Unused(d) :
                     /\ \A t \in Unused(d) : s <= t
                     /\ ws' = [ws EXCEPT ![d] = s]
                     /\ stage' = [stage EXCEPT ![s] = "accepted"]
  /\ UNCHANGED <<state, idOf, seq, process, hung, up, down, gone, helloFrom,
                 prior, aborting, daemonVars, histVars>>

\* Mutant: hello only.
OnOpenSilent(s) ==
  LET d == DeviceOf[s]
  IN /\ ws[d] = s /\ stage[s] = "accepted" /\ helloFrom[s] = 0
     /\ helloFrom' = [helloFrom EXCEPT ![s] = process[d]]
     /\ up' = [up EXCEPT ![s] = Append(@, Greeting)]
     /\ UNCHANGED <<phoneVars, down, gone, stage, prior, aborting, daemonVars,
                    histVars>>

\* Listener.onOpen: hello, then one of the calls the app tracks, if any.
OnOpen(s) ==
  LET d == DeviceOf[s]
      call(c) == [id |-> idOf[c], st |-> Told(state[c]), of |-> c]
  IN /\ ws[d] = s /\ stage[s] = "accepted" /\ helloFrom[s] = 0
     /\ helloFrom' = [helloFrom EXCEPT ![s] = process[d]]
     /\ \/ /\ Tracked(d) = {}
           /\ up' = [up EXCEPT ![s] = Append(@, Greeting)]
        \/ \E c \in Tracked(d) : up' = [up EXCEPT ![s] = @ \o <<Greeting, call(c)>>]
     /\ UNCHANGED <<phoneVars, down, gone, stage, prior, aborting, daemonVars,
                    histVars>>

\* The phone leaves socket s: what it had sent may still arrive, up to a point.
Leave(s) ==
  /\ gone' = [gone EXCEPT ![s] = TRUE]
  /\ down' = [down EXCEPT ![s] = <<>>]
  /\ \E n \in 0..Len(up[s]) : up' = [up EXCEPT ![s] = SubSeq(@, 1, n)]

\* forceReconnect, or a path that dies.
Blip(d) ==
  /\ blips < MaxBlip /\ ws[d] # NoConn
  /\ blips' = blips + 1
  /\ ws' = [ws EXCEPT ![d] = NoConn]
  /\ Leave(ws[d])
  /\ UNCHANGED <<state, idOf, seq, process, hung, stage, helloFrom, prior,
                 aborting, daemonVars, crashes, marked>>

\* dropped(): the daemon has closed the current socket.
Dropped(d) ==
  /\ ws[d] # NoConn /\ stage[ws[d]] = "closed"
  /\ ws' = [ws EXCEPT ![d] = NoConn]
  /\ Leave(ws[d])
  /\ UNCHANGED <<state, idOf, seq, process, hung, stage, helloFrom, prior,
                 aborting, daemonVars, histVars>>

\* A new app process: ids start again, Telecom's calls need not have ended.
Relaunch(d) ==
  /\ process[d] < MaxProcess
  /\ process' = [process EXCEPT ![d] = @ + 1]
  /\ seq' = [seq EXCEPT ![d] = 0]
  /\ idOf' = [c \in Call |-> IF PhoneOf[c] = d THEN 0 ELSE idOf[c]]
  /\ ws' = [ws EXCEPT ![d] = NoConn]
  /\ IF ws[d] = NoConn THEN UNCHANGED <<gone, down, up>> ELSE Leave(ws[d])
  /\ UNCHANGED <<state, hung, stage, helloFrom, prior, aborting, daemonVars,
                 histVars>>
-----------------------------------------------------------------------------
(* The daemon: handle_conn.                                                *)

\* `hub.fire` (and the send of `hub.command`): on the current connection.
Sent(d, cmd, queues) ==
  IF conn[d] = NoConn THEN queues
  ELSE [queues EXCEPT ![conn[d]] = Append(@, cmd)]

NoteRelaunch(d, i) == instances[d] # 0 /\ instances[d] # i

\* A relaunch aborts whatever job holds the card; a plain reconnect keeps the
\* call on record, to be put back at registration.
Hello(s) ==
  LET d == DeviceOf[s]
      relaunched == NoteRelaunch(d, helloFrom[s])
  IN /\ stage[s] = "accepted" /\ up[s] # <<>> /\ Head(up[s]) = Greeting
     /\ up' = [up EXCEPT ![s] = Tail(@)]
     /\ stage' = [stage EXCEPT ![s] = "hello"]
     /\ instances' = [instances EXCEPT ![d] = helloFrom[s]]
     /\ aborting' = [aborting EXCEPT ![s] = relaunched /\ card]
     /\ abort' = (abort \/ (relaunched /\ card))
     /\ prior' = [prior EXCEPT ![s] =
                    IF relaunched \/ reg[d] = Absent THEN Idle ELSE reg[d]]
     /\ UNCHANGED <<phoneVars, down, gone, helloFrom, conn, reg, marker, orphans,
                    card, histVars>>

\* Another first frame ends the connection.
RejectFirst(s) ==
  /\ stage[s] = "accepted" /\ up[s] # <<>> /\ Head(up[s]) # Greeting
  /\ stage' = [stage EXCEPT ![s] = "closed"]
  /\ up' = [up EXCEPT ![s] = <<>>]
  /\ UNCHANGED <<phoneVars, down, gone, helloFrom, prior, aborting, daemonVars,
                 histVars>>

\* Register and upsert, then the hang-up after an abort.
Upsert(s) ==
  LET d == DeviceOf[s]
  IN /\ stage[s] = "hello"
     /\ stage' = [stage EXCEPT ![s] = "reading"]
     /\ conn' = [conn EXCEPT ![d] = s]
     /\ reg' = [reg EXCEPT ![d] = prior[s]]
     /\ down' = IF aborting[s]
                  THEN [down EXCEPT ![s] = Append(@, [op |-> "hangup", id |-> 0,
                                                      of |-> NoCall, by |-> "abort"])]
                  ELSE down
     /\ UNCHANGED <<phoneVars, up, gone, helloFrom, prior, aborting, instances,
                    marker, orphans, card, abort, histVars>>

\* The select! ends: end of stream, or a newer socket has superseded this one.
Close(s) ==
  LET d == DeviceOf[s]
  IN /\ \/ stage[s] \in {"accepted", "reading"} /\ gone[s] /\ up[s] = <<>>
        \/ stage[s] = "reading" /\ conn[d] # s
     /\ stage' = [stage EXCEPT ![s] = "closed"]
     /\ up' = [up EXCEPT ![s] = <<>>]
     /\ IF conn[d] = s
          THEN /\ conn' = [conn EXCEPT ![d] = NoConn]
               /\ reg' = [reg EXCEPT ![d] = Absent]
          ELSE UNCHANGED <<conn, reg>>
     /\ UNCHANGED <<phoneVars, down, gone, helloFrom, prior, aborting, instances,
                    marker, orphans, card, abort, histVars>>
-----------------------------------------------------------------------------
(* The daemon: a call_state frame.                                         *)

\* Mutant: looked at from the wrong side.
IsOrphanDriven(d, f) == orphans[d].id = f.id /\ card

\* A marker from before a crash names this very call and nothing drives it.
IsOrphan(d, f) == orphans[d].id = f.id /\ ~card

\* Mutant: the pending entry is looked up, not taken.
ReconcilePeek(d, f) ==
  /\ marker' = [marker EXCEPT ![d] =
       CASE f.st = "active" /\ card -> [id |-> f.id, of |-> f.of]
         [] f.st = "active" /\ ~card /\ orphans[d] # NoMark -> NoMark
         [] f.st = "ended" -> NoMark
         [] OTHER -> @]
  /\ marked' = IF f.st = "active" /\ card THEN marked \cup {f.of} ELSE marked
  /\ orphans' = IF f.st = "ended" THEN [orphans EXCEPT ![d] = NoMark] ELSE orphans

Reconcile(d, f) ==
  CASE f.st = "active" ->
         /\ orphans' = [orphans EXCEPT ![d] = NoMark]
         /\ marker' = [marker EXCEPT ![d] =
              CASE card -> [id |-> f.id, of |-> f.of]
                [] ~card /\ orphans[d] # NoMark -> NoMark
                [] OTHER -> @]
         /\ marked' = IF card THEN marked \cup {f.of} ELSE marked
    [] f.st = "ended" ->
         /\ orphans' = [orphans EXCEPT ![d] = NoMark]
         /\ marker' = [marker EXCEPT ![d] = NoMark]
         /\ UNCHANGED marked
    [] OTHER -> UNCHANGED <<orphans, marker, marked>>

\* What the frame makes the daemon fire: the orphan's hang-up, or an answer.
Fired(d, f, handler) ==
  CASE f.st = "active" /\ IsOrphan(d, f) ->
         Sent(d, [op |-> "hangup", id |-> f.id, of |-> f.of, by |-> "orphan"], down)
    [] f.st = "ringing" /\ handler = "answer" ->
         Sent(d, [op |-> "answer", id |-> f.id, of |-> f.of, by |-> "auto"], down)
    [] OTHER -> down

\* A ringing number configured for a job takes the card, unless it is taken.
StartsJob(f, handler) == f.st = "ringing" /\ handler = "job" /\ ~card

ReadCall(s, handler) ==
  LET d == DeviceOf[s]
      f == Head(up[s])
  IN /\ stage[s] = "reading" /\ up[s] # <<>> /\ f.st \in Live \cup {"ended"}
     /\ up' = [up EXCEPT ![s] = Tail(@)]
     /\ reg' = [reg EXCEPT ![d] = CASE @ = Absent -> @
                                    [] @ # Absent /\ f.st = "ended" -> Idle
                                    [] OTHER -> f]
     /\ Reconcile(d, f)
     /\ down' = Fired(d, f, handler)
     /\ card' = (card \/ StartsJob(f, handler))
     /\ UNCHANGED <<phoneVars, gone, stage, helloFrom, prior, aborting, conn,
                    instances, abort, blips, crashes>>

\* An answer: it wakes its caller, who is not seen here.
ReadAck(s) ==
  /\ stage[s] = "reading" /\ up[s] # <<>> /\ Head(up[s]).st \in {"ack", "refused"}
  /\ up' = [up EXCEPT ![s] = Tail(@)]
  /\ UNCHANGED <<phoneVars, down, gone, stage, helloFrom, prior, aborting,
                 daemonVars, histVars>>

\* The daemon crashes and starts again; only the marker files are left.
Crash ==
  /\ crashes < MaxCrash
  /\ crashes' = crashes + 1
  /\ stage' = [s \in Conn |-> IF stage[s] = "unused" THEN "unused" ELSE "closed"]
  /\ up' = [s \in Conn |-> <<>>] /\ down' = [s \in Conn |-> <<>>]
  /\ conn' = [d \in Device |-> NoConn] /\ reg' = [d \in Device |-> Absent]
  /\ instances' = [d \in Device |-> 0]
  /\ orphans' = marker
  /\ card' = FALSE /\ abort' = FALSE
  /\ UNCHANGED <<phoneVars, gone, helloFrom, prior, aborting, marker, blips, marked>>
-----------------------------------------------------------------------------
(* Jobs and control clients, as far as calls can tell.                     *)

SetCard(busy) ==
  /\ card' = busy
  /\ UNCHANGED <<phoneVars, sockVars, conn, reg, instances, marker, orphans, abort,
                 histVars>>

ClearAbort ==
  /\ abort /\ abort' = FALSE
  /\ UNCHANGED <<phoneVars, sockVars, conn, reg, instances, marker, orphans, card,
                 histVars>>

\* An asker has one command under way at a time.
Outstanding(who) ==
  \E s \in Conn : \/ \E i \in DOMAIN down[s] : down[s][i].by = who
                 \/ \E i \in DOMAIN up[s] : /\ up[s][i].st \in {"ack", "refused"}
                                             /\ up[s][i].by = who

Command(d, op, f, who) ==
  /\ ~Outstanding(who)
  /\ conn[d] # NoConn /\ Len(down[conn[d]]) < QueueCap
  /\ down' = Sent(d, [op |-> op, id |-> f.id, of |-> f.of, by |-> who], down)
  /\ UNCHANGED <<phoneVars, up, gone, stage, helloFrom, prior, aborting,
                 daemonVars, histVars>>

PhoneNext ==
  \/ \E c \in Call : Begin(c) \/ Added(c) \/ PickUp(c) \/ Disconnect(c) \/ Removed(c)
  \/ \E d \in Device : Open(d) \/ Blip(d) \/ Dropped(d) \/ Relaunch(d)
  \/ \E s \in Conn : OnOpen(s)

ConnNext == \E s \in Conn : Hello(s) \/ RejectFirst(s) \/ Upsert(s) \/ Close(s)

TrackNext ==
  \/ PhoneNext \/ ConnNext \/ Crash \/ ClearAbort
  \/ \E s \in Conn : \/ \E c \in Call \cup {NoCall} : Performs(s, c)
                     \/ \E handler \in AutoAnswer : ReadCall(s, handler)
                     \/ ReadAck(s)
  \/ JobsRun /\ SetCard(~card)
  \/ \E d \in Device : \E op \in {"dial", "answer", "hangup"} :
       \E who \in Asker : Command(d, op, Idle, who)

TrackSpec == TrackInit /\ [][TrackNext]_trackVars

\* Fairness.  The app and the daemon's tasks take their enabled steps and a
\* path that is up carries its frames; the app reconnects; Telecom reports
\* calls, and ends one it was asked to disconnect.  Nobody need pick up, hang
\* up, issue a command or take the card.
TrackFairness ==
  /\ \A d \in Device : WF_trackVars(Open(d)) /\ WF_trackVars(Dropped(d))
  /\ \A s \in Conn :
       /\ WF_trackVars(OnOpen(s))
       /\ WF_trackVars(Hello(s) \/ RejectFirst(s) \/ Upsert(s) \/ Close(s)
                         \/ ReadAck(s) \/ \E handler \in AutoAnswer : ReadCall(s, handler))
       /\ WF_trackVars(\E c \in Call \cup {NoCall} : Performs(s, c))
  /\ \A c \in Call : WF_trackVars(Added(c)) /\ WF_trackVars(c \in hung /\ Disconnect(c))

FairTrackSpec == TrackSpec /\ TrackFairness
-----------------------------------------------------------------------------
(* Properties.                                                             *)

\* A call the daemon has still to reconcile keeps its marker file until it is
\* reconciled, so that a second crash before the phone has come back does not
\* forget it.
PendingOnDisk == \A d \in Device : orphans[d] # NoMark => marker[d] = orphans[d]

\* Bound: a phone without a socket has none left to open.
Spent(d) == ws[d] = NoConn /\ Unused(d) = {}

\* Crash recovery: a call that was up when the daemon died, and that no job has
\* taken over, is in the end hung up, once the link holds and the daemon has
\* done with the sockets that broke or were superseded.
LinkHolds == /\ blips = MaxBlip
             /\ \A s \in Conn : /\ gone[s] => stage[s] = "closed"
                                /\ stage[s] = "reading" => conn[DeviceOf[s]] = s

OrphanHungUp ==
  \A c \in Call : (LinkHolds /\ orphans[PhoneOf[c]].of = c /\ state[c] = "active")
                    ~> (c \in hung \/ state[c] # "active" \/ card \/ Spent(PhoneOf[c]))

\* Whether it or its link dies, the daemon comes to know of a call that stays up.
KnownInTheEnd ==
  \A c \in Call : (state[c] \in Live)
     ~> (reg[PhoneOf[c]].of = c \/ state[c] \notin Live \/ Spent(PhoneOf[c]))

\* "A manual call (no job, card free) is never marked, so it's never touched by
\* cleanup" (phone_server.rs:266-267).
ManualSpared ==
  \A s \in Conn : \A i \in DOMAIN down[s] :
    down[s][i].by = "orphan" => down[s][i].of \in marked
=============================================================================
