-------------------------------- MODULE Hub --------------------------------
(***************************************************************************)
(* The connection hub of the daemon (hub.rs): one entry per device for its *)
(* current socket, the queue of frames waiting to be written to it, the    *)
(* commands waiting for the phone's ack, and the steps of Hub::command and *)
(* Hub::fire, which other tasks interleave with at every lock and await.   *)
(*                                                                         *)
(* A connection (WsConn) is named by an element of Conn, which stands for  *)
(* its `gen`: the code only ever compares generations for equality.        *)
(* DeviceOf[s] is the device the socket said hello for.                    *)
(*                                                                         *)
(* The environment is as free as it can be: any socket may register, leave *)
(* or be dropped at any time, a writer may stop, the phone may answer or   *)
(* refuse, the network may lose what it carries.  PhoneServer.tla puts the *)
(* real connection handler in its place.                                   *)
(*                                                                         *)
(* Atomicity.  `register` inserts under the lock and drains the old waiters*)
(* after it; `unregister` and `drop_device` drain under it.  Each is one   *)
(* action here: the only step that can fall in between is a command adding *)
(* its waiter to the old connection, and it commutes with the insertion.   *)
(***************************************************************************)
EXTENDS Naturals, Sequences

CONSTANTS Device,      \* device ids
          Conn,        \* sockets, each accepted once
          DeviceOf,    \* the device of each socket
          Command,     \* calls of Hub::command
          Fire,        \* calls of Hub::fire
          QueueCap,    \* capacity of a connection's command channel
          WireCap,     \* frames a socket takes before its writer must wait
          NoConn       \* no socket

ASSUME ConnAssumption == /\ DeviceOf \in [Conn -> Device]
                         /\ NoConn \notin Conn
ASSUME CallAssumption == Command \cap Fire = {}
ASSUME CapAssumption == QueueCap \in Nat \ {0} /\ WireCap \in Nat \ {0}

Cmd == Command \cup Fire       \* cmd ids are unique: `seq` is never reset
Beat == "heartbeat_ack"
Frame == [type : {"cmd"}, cmd : Cmd] \cup [type : {Beat}]
Answer == [cmd : Cmd, ok : BOOLEAN]

VARIABLES
  conns,     \* Hub::conns: each device's current connection
  acks,      \* WsConn::acks: the commands waiting on each connection
  chan,      \* the bounded channel behind WsConn::tx
  rx,        \* the channel's receiver, owned by the writer task
  permit,    \* WsConn::cancel: a Notify permit is stored
  pc,        \* how far each call of command or fire has got
  target,    \* the device it was made for
  via,       \* the WsConn it looked up and holds
  reply,     \* the oneshot it waits on
  outcome,   \* what it returned
  wire,      \* frames written to each socket, on their way to the phone
  answers,   \* acks and errors on their way back
  performed  \* how often the phone carried each command out

connVars == <<conns, acks, chan, rx, permit>>
callVars == <<pc, target, via, reply, outcome>>
netVars  == <<wire, answers, performed>>
hubVars  == <<connVars, callVars, netVars>>

PC == {"idle", "found", "inserted", "waiting", "done"}
Reply == {"none", "ok", "refused", "superseded", "disconnected"}
Outcome == (Reply \ {"none"}) \cup
           {"running", "sent", "closed", "timeout", "not_connected"}

HubTypeOK ==
  /\ conns \in [Device -> Conn \cup {NoConn}]
  /\ acks \in [Conn -> SUBSET Command]
  /\ chan \in [Conn -> Seq(Frame)]
  /\ rx \in [Conn -> {"unborn", "open", "closed"}]
  /\ permit \in [Conn -> BOOLEAN]
  /\ pc \in [Cmd -> PC]
  /\ target \in [Cmd -> Device]
  /\ via \in [Cmd -> Conn \cup {NoConn}]
  /\ reply \in [Cmd -> Reply]
  /\ outcome \in [Cmd -> Outcome]
  /\ wire \in [Conn -> Seq(Frame)]
  /\ answers \in [Conn -> Seq(Answer)]
  /\ performed \in [Cmd -> Nat]

HubInit ==
  /\ conns = [d \in Device |-> NoConn]
  /\ acks = [s \in Conn |-> {}]
  /\ chan = [s \in Conn |-> <<>>]
  /\ rx = [s \in Conn |-> "unborn"]
  /\ permit = [s \in Conn |-> FALSE]
  /\ pc = [c \in Cmd |-> "idle"]
  /\ target \in [Cmd -> Device]
  /\ via = [c \in Cmd |-> NoConn]
  /\ reply = [c \in Cmd |-> "none"]
  /\ outcome = [c \in Cmd |-> "running"]
  /\ wire = [s \in Conn |-> <<>>]
  /\ answers = [s \in Conn |-> <<>>]
  /\ performed = [c \in Cmd |-> 0]

-----------------------------------------------------------------------------
(* The connection table.                                                   *)

\* Every waiter of connection s is told why, and forgotten.
Drain(s, why) ==
  /\ acks' = [acks EXCEPT ![s] = {}]
  /\ reply' = [c \in Cmd |-> IF c \in acks[s] THEN why ELSE reply[c]]

\* Mutant: the superseded reader is not told to close.
RegisterSilently(s) ==
  LET d == DeviceOf[s]
  IN /\ rx[s] = "unborn"
     /\ rx' = [rx EXCEPT ![s] = "open"]
     /\ conns' = [conns EXCEPT ![d] = s]
     /\ IF conns[d] = NoConn THEN UNCHANGED <<acks, reply>>
                             ELSE Drain(conns[d], "superseded")
     /\ UNCHANGED <<chan, permit, pc, target, via, outcome, netVars>>

\* Hub::register: s becomes its device's connection; one it supersedes is
\* drained, and its reader told to close.
Register(s) ==
  LET d == DeviceOf[s]
      old == conns[d]
  IN /\ rx[s] = "unborn"
     /\ rx' = [rx EXCEPT ![s] = "open"]
     /\ conns' = [conns EXCEPT ![d] = s]
     /\ \/ /\ old = NoConn
           /\ UNCHANGED <<acks, reply, permit>>
        \/ /\ old # NoConn
           /\ Drain(old, "superseded")
           /\ permit' = [permit EXCEPT ![old] = TRUE]
     /\ UNCHANGED <<chan, pc, target, via, outcome, netVars>>

\* Hub::unregister with s's own generation.
IsCurrent(s) == conns[DeviceOf[s]] = s

Unregister(s) ==
  /\ \/ /\ IsCurrent(s)
        /\ conns' = [conns EXCEPT ![DeviceOf[s]] = NoConn]
        /\ Drain(s, "disconnected")
     \/ /\ ~IsCurrent(s)
        /\ UNCHANGED <<conns, acks, reply>>
  /\ UNCHANGED <<chan, rx, permit, pc, target, via, outcome, netVars>>

\* Hub::drop_device: by device, whatever the generation.
DropDevice(d) ==
  LET s == conns[d]
  IN /\ \/ /\ s # NoConn
           /\ conns' = [conns EXCEPT ![d] = NoConn]
           /\ Drain(s, "disconnected")
           /\ permit' = [permit EXCEPT ![s] = TRUE]
        \/ /\ s = NoConn
           /\ UNCHANGED <<conns, acks, reply, permit>>
     /\ UNCHANGED <<chan, rx, pc, target, via, outcome, netVars>>

\* The reader's `cancel.notified()` consumes the stored permit.
TakePermit(s) ==
  /\ permit[s]
  /\ permit' = [permit EXCEPT ![s] = FALSE]
  /\ UNCHANGED <<conns, acks, chan, rx, callVars, netVars>>

\* Hub::send_frame: try_send on the current connection; dropped when there is
\* none, it is closed or its queue is full.
HasRoom(s) == rx[s] = "open" /\ Len(chan[s]) < QueueCap

Enqueue(s, f) == chan' = [chan EXCEPT ![s] = Append(@, f)]

SendFrame(d) ==
  LET s == conns[d]
  IN /\ IF s # NoConn /\ HasRoom(s) THEN Enqueue(s, [type |-> Beat])
                                     ELSE UNCHANGED chan
     /\ UNCHANGED <<conns, acks, rx, permit, callVars, netVars>>

\* The waiter an answer that names command c is for, on whichever connection
\* its device has now.
Awaited(d, c) == conns[d] # NoConn /\ c \in acks[conns[d]]

\* Mutant: an ack resolves whichever command waits, not the one it names.
ResolveAny(s) ==
  LET a == Head(answers[s])
      d == DeviceOf[s]
  IN /\ answers[s] # <<>> /\ conns[d] # NoConn
     /\ answers' = [answers EXCEPT ![s] = Tail(@)]
     /\ \E c \in acks[conns[d]] :
          /\ acks' = [acks EXCEPT ![conns[d]] = @ \ {c}]
          /\ reply' = [reply EXCEPT ![c] = IF a.ok THEN "ok" ELSE "refused"]
     /\ UNCHANGED <<conns, chan, rx, permit, pc, target, via, outcome,
                    wire, performed>>

\* Hub::resolve_ack, by the reader of socket s.
ResolveAck(s) ==
  LET a == Head(answers[s])
      d == DeviceOf[s]
  IN /\ answers[s] # <<>>
     /\ answers' = [answers EXCEPT ![s] = Tail(@)]
     /\ \/ /\ Awaited(d, a.cmd)
           /\ acks' = [acks EXCEPT ![conns[d]] = @ \ {a.cmd}]
           /\ reply' = [reply EXCEPT ![a.cmd] = IF a.ok THEN "ok" ELSE "refused"]
        \/ /\ ~Awaited(d, a.cmd)
           /\ UNCHANGED <<acks, reply>>
     /\ UNCHANGED <<conns, chan, rx, permit, pc, target, via, outcome,
                    wire, performed>>
-----------------------------------------------------------------------------
(* The steps of Hub::command and Hub::fire.                                *)

Return(c, what) ==
  /\ pc' = [pc EXCEPT ![c] = "done"]
  /\ outcome' = [outcome EXCEPT ![c] = what]

\* Hub::conn.
LookUp(c) ==
  LET s == conns[target[c]]
  IN /\ pc[c] = "idle"
     /\ \/ /\ s = NoConn
           /\ Return(c, "not_connected")
           /\ UNCHANGED via
        \/ /\ s # NoConn
           /\ pc' = [pc EXCEPT ![c] = "found"]
           /\ via' = [via EXCEPT ![c] = s]
           /\ UNCHANGED outcome
     /\ UNCHANGED <<connVars, target, reply, netVars>>

\* `conn.acks.lock().insert(cmd_id, ack_tx)`.
InsertWaiter(c) ==
  /\ pc[c] = "found" /\ c \in Command
  /\ acks' = [acks EXCEPT ![via[c]] = @ \cup {c}]
  /\ pc' = [pc EXCEPT ![c] = "inserted"]
  /\ UNCHANGED <<conns, chan, rx, permit, target, via, reply, outcome, netVars>>

ReadyToSend(c) == \/ pc[c] = "inserted"
                  \/ pc[c] = "found" /\ c \in Fire

\* `conn.tx.send(frame).await`: waits, without a timeout, for room.
Send(c) ==
  /\ ReadyToSend(c)
  /\ HasRoom(via[c])
  /\ Enqueue(via[c], [type |-> "cmd", cmd |-> c])
  /\ \/ /\ c \in Command
        /\ pc' = [pc EXCEPT ![c] = "waiting"]
        /\ UNCHANGED outcome
     \/ /\ c \in Fire
        /\ Return(c, "sent")
  /\ UNCHANGED <<conns, acks, rx, permit, target, via, reply, netVars>>

\* The receiver is gone.
SendFails(c) ==
  /\ ReadyToSend(c)
  /\ rx[via[c]] = "closed"
  /\ acks' = [acks EXCEPT ![via[c]] = @ \ {c}]
  /\ Return(c, "closed")
  /\ UNCHANGED <<conns, chan, rx, permit, target, via, reply, netVars>>

\* Mutant: the oneshot is read whether or not it fired.
AnsweredEarly(c) ==
  /\ pc[c] = "waiting"
  /\ Return(c, reply[c])
  /\ UNCHANGED <<connVars, target, via, reply, netVars>>

\* The oneshot fired; polled before the deadline, so it wins a tie.
Answered(c) ==
  /\ pc[c] = "waiting" /\ reply[c] # "none"
  /\ Return(c, reply[c])
  /\ UNCHANGED <<connVars, target, via, reply, netVars>>

\* Mutants: the waiter outlives its timeout; the ack is awaited without one.
TimeOutOnly(c) ==
  /\ pc[c] = "waiting" /\ reply[c] = "none"
  /\ Return(c, "timeout")
  /\ UNCHANGED <<connVars, target, via, reply, netVars>>

NoTimeOut(c) == FALSE

TimeOut(c) ==
  /\ pc[c] = "waiting" /\ reply[c] = "none"
  /\ acks' = [acks EXCEPT ![via[c]] = @ \ {c}]
  /\ Return(c, "timeout")
  /\ UNCHANGED <<conns, chan, rx, permit, target, via, reply, netVars>>

CallStep(c) == \/ LookUp(c) \/ InsertWaiter(c) \/ Send(c) \/ SendFails(c)
               \/ Answered(c) \/ TimeOut(c)
-----------------------------------------------------------------------------
(* The writer task, the network and the phone.                             *)

\* One frame from the channel to the socket, once the socket takes it.
WriterTake(s) ==
  /\ rx[s] = "open" /\ chan[s] # <<>> /\ Len(wire[s]) < WireCap
  /\ chan' = [chan EXCEPT ![s] = Tail(@)]
  /\ wire' = [wire EXCEPT ![s] = Append(@, Head(chan[s]))]
  /\ UNCHANGED <<conns, acks, rx, permit, callVars, answers, performed>>

\* The writer task ends (a failed write): what is still queued is lost, and
\* senders see a closed channel.
CloseRx(s) ==
  /\ rx[s] = "open"
  /\ rx' = [rx EXCEPT ![s] = "closed"]
  /\ chan' = [chan EXCEPT ![s] = <<>>]
  /\ UNCHANGED <<conns, acks, permit, callVars, netVars>>

\* `writer.abort()` and the end of the handler: what was not read is lost too,
\* and a cancel nobody waited for.
CloseSocket(s) ==
  /\ rx' = [rx EXCEPT ![s] = "closed"]
  /\ permit' = [permit EXCEPT ![s] = FALSE]
  /\ chan' = [chan EXCEPT ![s] = <<>>]
  /\ answers' = [answers EXCEPT ![s] = <<>>]
  /\ UNCHANGED <<conns, acks, callVars, wire, performed>>

\* The app handles the next frame, on whichever of its sockets it came, and
\* answers a command on that same socket; `heard`: the answer could be sent.
PhoneHandle(s, heard) ==
  /\ wire[s] # <<>>
  /\ wire' = [wire EXCEPT ![s] = Tail(@)]
  /\ LET f == Head(wire[s])
     IN \/ /\ f.type = "cmd"
           /\ \E ok \in BOOLEAN :
                /\ performed' = IF ok THEN [performed EXCEPT ![f.cmd] = @ + 1]
                                      ELSE performed
                /\ answers' = IF heard
                                THEN [answers EXCEPT ![s] =
                                        Append(@, [cmd |-> f.cmd, ok |-> ok])]
                                ELSE answers
        \/ /\ f.type = Beat
           /\ UNCHANGED <<performed, answers>>
  /\ UNCHANGED <<connVars, callVars>>

\* What the sockets in S carry towards the phone is lost.
LoseDown(S) ==
  /\ wire' = [s \in Conn |-> IF s \in S THEN <<>> ELSE wire[s]]
  /\ UNCHANGED <<connVars, callVars, answers, performed>>

\* The link of socket s goes dead with everything it carries.
Lose(s) ==
  /\ wire' = [wire EXCEPT ![s] = <<>>]
  /\ answers' = [answers EXCEPT ![s] = <<>>]
  /\ UNCHANGED <<connVars, callVars, performed>>

HubNext ==
  \/ \E s \in Conn : \/ Register(s) \/ Unregister(s) \/ TakePermit(s)
                     \/ ResolveAck(s) \/ WriterTake(s) \/ CloseRx(s)
                     \/ Lose(s) \/ \E heard \in BOOLEAN : PhoneHandle(s, heard)
                     \/ rx[s] # "unborn" /\ CloseSocket(s)
  \/ \E d \in Device : DropDevice(d) \/ SendFrame(d)
  \/ \E S \in SUBSET Conn : LoseDown(S)
  \/ \E c \in Cmd : CallStep(c)

HubSpec == HubInit /\ [][HubNext]_hubVars
-----------------------------------------------------------------------------
(* Properties.                                                             *)

\* No call's waiter outlives the call or its answer: whichever of ack, drain,
\* send failure and timeout comes first, the command is in the table of the
\* connection it looked up exactly as long as its caller still needs it there
\* (a waiter left behind by a lost race would leak one entry per command).
WaiterInv ==
  \A s \in Conn : \A c \in acks[s] :
    /\ via[c] = s
    /\ pc[c] \in {"inserted", "waiting"}
    /\ reply[c] = "none"

\* The hub implements the command service: at most one performance, "ok" only
\* after it, and never one after the caller was told the command did not go out.
StatusOf(c) ==
  CASE pc[c] = "idle" -> "idle"
    [] pc[c] \in {"found", "inserted", "waiting"} -> "pending"
    [] outcome[c] \in {"ok", "sent"} -> outcome[c]
    [] outcome[c] \in {"closed", "not_connected"} -> "rejected"
    [] OTHER -> "failed"

Service == INSTANCE CommandService
             WITH status <- [c \in Cmd |-> StatusOf(c)], performed <- performed

HubRefinesService == Service!SvcSpec
=============================================================================
