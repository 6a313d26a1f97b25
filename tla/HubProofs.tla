----------------------------- MODULE HubProofs -----------------------------
(***************************************************************************)
(* Proofs about the hub: its type invariant, and that no waiter outlives   *)
(* the call it belongs to.  WaiterInv is not inductive by itself: a step   *)
(* that inserts a waiter needs to know that its command has no answer yet, *)
(* which Unanswered adds.                                                  *)
(***************************************************************************)
EXTENDS Hub, TLAPS

\* A command that has not put its waiter in the table cannot have been told
\* anything.
Unanswered == \A c \in Cmd : pc[c] \in {"idle", "found"} => reply[c] = "none"

HubInv == HubTypeOK /\ WaiterInv /\ Unanswered

\* What the actions below unfold to, to the primed variables.
USE DEF connVars, callVars, netVars, hubVars

-----------------------------------------------------------------------------

\* A heartbeat answer is a frame.
LEMMA FrameType == /\ [type |-> Beat] \in Frame
                   /\ \A c \in Cmd : [type |-> "cmd", cmd |-> c] \in Frame
                   /\ \A f \in Frame : f.type = "cmd" => f.cmd \in Cmd
  BY DEF Frame, Beat

\* Draining a connection keeps the types of what it changes.
LEMMA DrainType ==
  ASSUME HubTypeOK, NEW s \in Conn, NEW why \in Reply, Drain(s, why)
  PROVE  /\ acks' \in [Conn -> SUBSET Command]
         /\ reply' \in [Cmd -> Reply]
  BY DEF HubTypeOK, Drain

\* So does queueing a frame.
LEMMA EnqueueType ==
  ASSUME HubTypeOK, NEW s, NEW f \in Frame, Enqueue(s, f)
  PROVE  chan' \in [Conn -> Seq(Frame)]
  <1>1. ASSUME NEW t \in Conn
        PROVE  Append(chan[t], f) \in Seq(Frame)
    BY DEF HubTypeOK
  <1> QED
    BY <1>1 DEF HubTypeOK, Enqueue

\* Nobody is connected, nothing is under way.
LEMMA HubInitType == HubInit => HubTypeOK
  BY DEF HubInit, HubTypeOK, PC, Reply, Outcome, Cmd

\* Steps of one connection: register, unregister, writer, close.
LEMMA ConnTyping ==
  ASSUME HubTypeOK, NEW s \in Conn,
         Register(s) \/ Unregister(s) \/ TakePermit(s) \/ WriterTake(s)
           \/ CloseRx(s) \/ CloseSocket(s) \/ Lose(s)
  PROVE  HubTypeOK'
  <1> USE ConnAssumption, DrainType
  <1>1. CASE Register(s)
    <2>1. DeviceOf[s] \in Device /\ conns[DeviceOf[s]] \in Conn \cup {NoConn}
      BY DEF HubTypeOK
    <2>2. acks' \in [Conn -> SUBSET Command] /\ reply' \in [Cmd -> Reply]
      BY <1>1, <2>1 DEF Register, HubTypeOK, Reply
    <2> QED
      BY <1>1, <2>1, <2>2 DEF Register, HubTypeOK
  <1>2. CASE Unregister(s)
    <2>1. acks' \in [Conn -> SUBSET Command] /\ reply' \in [Cmd -> Reply]
      BY <1>2 DEF Unregister, HubTypeOK, Reply
    <2> QED
      BY <1>2, <2>1 DEF Unregister, HubTypeOK
  <1>3. CASE TakePermit(s)
    BY <1>3 DEF TakePermit, HubTypeOK
  <1>4. CASE WriterTake(s)
    BY <1>4 DEF WriterTake, HubTypeOK
  <1>5. CASE CloseRx(s)
    BY <1>5 DEF CloseRx, HubTypeOK
  <1>6. CASE CloseSocket(s)
    BY <1>6 DEF CloseSocket, HubTypeOK
  <1>7. CASE Lose(s)
    BY <1>7 DEF Lose, HubTypeOK
  <1> QED
    BY <1>1, <1>2, <1>3, <1>4, <1>5, <1>6, <1>7

\* An ack that resolves its waiter, or none.
LEMMA AnswerTyping ==
  ASSUME HubTypeOK, NEW s \in Conn,
         ResolveAck(s) \/ \E heard \in BOOLEAN : PhoneHandle(s, heard)
  PROVE  HubTypeOK'
  <1> USE ConnAssumption, FrameType
  <1>1. CASE ResolveAck(s)
    <2>1. PICK a \in Answer : a = Head(answers[s])
      BY <1>1 DEF ResolveAck, HubTypeOK
    <2>2. a.cmd \in Cmd /\ conns[DeviceOf[s]] \in Conn \cup {NoConn}
      BY <2>1 DEF Answer, HubTypeOK
    <2>3. answers' \in [Conn -> Seq(Answer)]
      BY <1>1 DEF ResolveAck, HubTypeOK
    <2>4. acks' \in [Conn -> SUBSET Command] /\ reply' \in [Cmd -> Reply]
      <3>1. CASE Awaited(DeviceOf[s], a.cmd)
        <4>1. /\ conns[DeviceOf[s]] \in Conn
              /\ acks' = [acks EXCEPT ![conns[DeviceOf[s]]] = @ \ {a.cmd}]
              /\ reply' = [reply EXCEPT ![a.cmd] = IF a.ok THEN "ok" ELSE "refused"]
          BY <1>1, <2>1, <2>2, <3>1 DEF ResolveAck, Awaited
        <4>2. acks' \in [Conn -> SUBSET Command]
          BY <4>1 DEF HubTypeOK
        <4>3. reply' \in [Cmd -> Reply]
          BY <4>1 DEF HubTypeOK, Reply
        <4> QED
          BY <4>2, <4>3
      <3>2. CASE ~Awaited(DeviceOf[s], a.cmd)
        BY <1>1, <2>1, <3>2 DEF ResolveAck, HubTypeOK
      <3> QED
        BY <3>1, <3>2
    <2> QED
      BY <1>1, <2>3, <2>4 DEF ResolveAck, HubTypeOK
  <1>2. ASSUME NEW heard \in BOOLEAN, PhoneHandle(s, heard)
        PROVE  HubTypeOK'
    <2>1. PICK f \in Frame : f = Head(wire[s])
      BY <1>2 DEF PhoneHandle, HubTypeOK
    <2>2. wire' \in [Conn -> Seq(Frame)]
      BY <1>2 DEF PhoneHandle, HubTypeOK
    <2>3. CASE f.type = "cmd"
      <3>1. PICK ok \in BOOLEAN :
              /\ performed' = IF ok THEN [performed EXCEPT ![f.cmd] = @ + 1]
                                    ELSE performed
              /\ answers' = IF heard
                              THEN [answers EXCEPT ![s] =
                                      Append(@, [cmd |-> f.cmd, ok |-> ok])]
                              ELSE answers
        BY <1>2, <2>1, <2>3 DEF PhoneHandle, Beat
      <3>2. f.cmd \in Cmd /\ [cmd |-> f.cmd, ok |-> ok] \in Answer
        BY <2>3 DEF Answer
      <3>3. performed' \in [Cmd -> Nat]
        BY <3>1, <3>2 DEF HubTypeOK
      <3>4. Append(answers[s], [cmd |-> f.cmd, ok |-> ok]) \in Seq(Answer)
        BY <3>2 DEF HubTypeOK
      <3>5. answers' \in [Conn -> Seq(Answer)]
        BY <3>1, <3>4 DEF HubTypeOK
      <3> QED
        BY <1>2, <2>2, <3>3, <3>5 DEF PhoneHandle, HubTypeOK
    <2>4. CASE f.type = Beat
      BY <1>2, <2>1, <2>2, <2>4 DEF PhoneHandle, HubTypeOK, Beat
    <2> QED
      BY <1>2, <2>1, <2>3, <2>4 DEF PhoneHandle
  <1> QED
    BY <1>1, <1>2

\* Drops by device, and frames nobody waits for (send_frame).
LEMMA DeviceTyping ==
  ASSUME HubTypeOK, NEW d \in Device, DropDevice(d) \/ SendFrame(d)
  PROVE  HubTypeOK'
  <1>1. conns[d] \in Conn \cup {NoConn}
    BY DEF HubTypeOK
  <1>2. CASE DropDevice(d)
    <2>1. acks' \in [Conn -> SUBSET Command] /\ reply' \in [Cmd -> Reply]
      BY <1>1, <1>2, DrainType DEF DropDevice, HubTypeOK, Reply
    <2> QED
      BY <1>1, <1>2, <2>1 DEF DropDevice, HubTypeOK
  <1>3. CASE SendFrame(d)
    <2>1. chan' \in [Conn -> Seq(Frame)]
      BY <1>1, <1>3, FrameType, EnqueueType DEF SendFrame, HubTypeOK
    <2> QED
      BY <1>3, <2>1 DEF SendFrame, HubTypeOK
  <1> QED
    BY <1>2, <1>3

\* The steps of Hub::command and Hub::fire.
LEMMA CallTyping ==
  ASSUME HubTypeOK, NEW c \in Cmd, CallStep(c)
  PROVE  HubTypeOK'
  <1>1. CASE LookUp(c)
    BY <1>1 DEF LookUp, Return, HubTypeOK, PC, Outcome
  <1>2. CASE InsertWaiter(c)
    BY <1>2 DEF InsertWaiter, HubTypeOK, PC
  <1>3. CASE Send(c)
    <2>1. chan' \in [Conn -> Seq(Frame)]
      BY <1>3, FrameType, EnqueueType DEF Send
    <2> QED
      BY <1>3, <2>1 DEF Send, Return, HubTypeOK, PC, Outcome
  <1>4. CASE SendFails(c)
    BY <1>4 DEF SendFails, Return, HubTypeOK, PC, Outcome
  <1>5. CASE Answered(c)
    BY <1>5 DEF Answered, Return, HubTypeOK, PC, Outcome
  <1>6. CASE TimeOut(c)
    BY <1>6 DEF TimeOut, Return, HubTypeOK, PC, Outcome
  <1> QED
    BY <1>1, <1>2, <1>3, <1>4, <1>5, <1>6 DEF CallStep

-----------------------------------------------------------------------------
(* The steps that leave waiters and replies alone.                         *)

\* Steps that touch neither callers nor waiters.
LEMMA QuietStep ==
  ASSUME WaiterInv, Unanswered, UNCHANGED <<acks, pc, via, reply>>
  PROVE  WaiterInv' /\ Unanswered'
  BY DEF WaiterInv, Unanswered

\* A drain tells exactly the commands it forgets.
LEMMA DrainStep ==
  ASSUME HubInv, NEW s \in Conn, NEW why, Drain(s, why), UNCHANGED <<pc, via>>
  PROVE  WaiterInv' /\ Unanswered'
  <1> USE DEF HubInv, HubTypeOK, WaiterInv, Unanswered, Drain, Cmd
  <1>1. WaiterInv'
    <2> SUFFICES ASSUME NEW t \in Conn, NEW c \in acks'[t]
                 PROVE  via'[c] = t /\ pc'[c] \in {"inserted", "waiting"}
                          /\ reply'[c] = "none"
      OBVIOUS
    <2>1. t # s /\ c \in acks[t] /\ c \in Cmd
      OBVIOUS
    <2>2. via[c] = t /\ c \notin acks[s]
      BY <2>1
    <2> QED
      BY <2>1, <2>2
  <1>2. Unanswered'
    OBVIOUS
  <1> QED
    BY <1>1, <1>2

\* Register, unregister and acks: waiters are drained or resolved, never kept.
LEMMA ConnStep ==
  ASSUME HubInv, NEW s \in Conn,
         Register(s) \/ Unregister(s) \/ TakePermit(s) \/ WriterTake(s)
           \/ CloseRx(s) \/ CloseSocket(s) \/ Lose(s)
           \/ \E heard \in BOOLEAN : PhoneHandle(s, heard)
  PROVE  WaiterInv' /\ Unanswered'
  <1>1. /\ HubTypeOK /\ WaiterInv /\ Unanswered
        /\ DeviceOf[s] \in Device /\ conns[DeviceOf[s]] \in Conn \cup {NoConn}
    BY ConnAssumption DEF HubInv, HubTypeOK
  <1>2. CASE Register(s)
    BY <1>1, <1>2, QuietStep, DrainStep DEF Register
  <1>3. CASE Unregister(s)
    BY <1>1, <1>3, QuietStep, DrainStep DEF Unregister
  <1>4. CASE \/ TakePermit(s) \/ WriterTake(s) \/ CloseRx(s) \/ CloseSocket(s)
             \/ Lose(s) \/ \E heard \in BOOLEAN : PhoneHandle(s, heard)
    BY <1>1, <1>4, QuietStep
      DEF TakePermit, WriterTake, CloseRx, CloseSocket, Lose, PhoneHandle
  <1> QED
    BY <1>2, <1>3, <1>4

\* Drops drain the waiters of the connection they take away.
LEMMA DeviceStep ==
  ASSUME HubInv, NEW d \in Device, DropDevice(d) \/ SendFrame(d)
  PROVE  WaiterInv' /\ Unanswered'
  <1>1. HubTypeOK /\ WaiterInv /\ Unanswered /\ conns[d] \in Conn \cup {NoConn}
    BY DEF HubInv, HubTypeOK
  <1>2. CASE DropDevice(d)
    BY <1>1, <1>2, QuietStep, DrainStep DEF DropDevice
  <1>3. CASE SendFrame(d)
    BY <1>1, <1>3, QuietStep DEF SendFrame
  <1> QED
    BY <1>2, <1>3

\* The answered command leaves the table in the step that answers it.
LEMMA AnswerStep ==
  ASSUME HubInv, NEW s \in Conn, ResolveAck(s)
  PROVE  WaiterInv' /\ Unanswered'
  <1> DEFINE a == Head(answers[s])
             w == conns[DeviceOf[s]]
  <1>1. UNCHANGED <<pc, via>>
    BY DEF ResolveAck
  <1>2. CASE Awaited(DeviceOf[s], a.cmd)
    <2>1. /\ w \in Conn /\ a.cmd \in acks[w] /\ a.cmd \in Cmd
      BY <1>2, ConnAssumption DEF HubInv, HubTypeOK, Awaited, Cmd
    <2>2. /\ acks' = [acks EXCEPT ![w] = @ \ {a.cmd}]
          /\ reply' = [reply EXCEPT ![a.cmd] = IF a.ok THEN "ok" ELSE "refused"]
      BY <1>2 DEF ResolveAck
    <2> HIDE DEF a, w
    <2>3. pc[a.cmd] \in {"inserted", "waiting"} /\ via[a.cmd] = w
      BY <2>1 DEF HubInv, WaiterInv
    <2>4. WaiterInv'
      <3> SUFFICES ASSUME NEW t \in Conn, NEW c \in acks'[t]
                   PROVE  via'[c] = t /\ pc'[c] \in {"inserted", "waiting"}
                            /\ reply'[c] = "none"
        BY DEF WaiterInv
      <3>1. c \in acks[t] /\ c \in Cmd /\ via[c] = t
        BY <2>1, <2>2 DEF HubInv, HubTypeOK, WaiterInv, Cmd
      <3>2. c # a.cmd
        BY <2>1, <2>2, <2>3, <3>1 DEF HubInv, HubTypeOK
      <3> QED
        BY <1>1, <2>1, <2>2, <3>1, <3>2 DEF HubInv, HubTypeOK, WaiterInv
    <2>5. Unanswered'
      BY <1>1, <2>1, <2>2, <2>3 DEF HubInv, HubTypeOK, Unanswered
    <2> QED
      BY <2>4, <2>5
  <1>3. CASE ~Awaited(DeviceOf[s], a.cmd)
    BY <1>1, <1>3, QuietStep DEF ResolveAck, HubInv
  <1> QED
    BY <1>2, <1>3

\* A step of a call: it moves its own waiter and no other.
LEMMA CallMoves ==
  ASSUME HubInv, NEW c \in Cmd, CallStep(c)
  PROVE  WaiterInv' /\ Unanswered'
  <1> USE DEF HubInv, HubTypeOK, WaiterInv, Unanswered, Return, Cmd
  <1>1. CASE LookUp(c)
    <2>1. pc[c] = "idle" /\ reply[c] = "none" /\ UNCHANGED <<acks, reply>>
      BY <1>1 DEF LookUp
    <2>2. ASSUME NEW b \in Cmd, b # c
          PROVE  pc'[b] = pc[b] /\ via'[b] = via[b]
      BY <1>1, <2>2 DEF LookUp
    <2>3. \A t \in Conn : c \notin acks[t]
      BY <2>1
    <2>4. ASSUME NEW t \in Conn, NEW b \in acks'[t]
          PROVE  via'[b] = t /\ pc'[b] \in {"inserted", "waiting"} /\ reply'[b] = "none"
      <3>1. b \in acks[t] /\ b \in Cmd /\ b # c
        BY <2>1, <2>3
      <3> QED
        BY <2>1, <2>2, <3>1
    <2>5. Unanswered'
      BY <2>1, <2>2
    <2> QED
      BY <2>4, <2>5
  <1>2. CASE InsertWaiter(c)
    <2> SUFFICES WaiterInv'
      BY <1>2 DEF InsertWaiter
    <2> SUFFICES ASSUME NEW t \in Conn, NEW b \in acks'[t]
                 PROVE  via'[b] = t /\ pc'[b] \in {"inserted", "waiting"}
                          /\ reply'[b] = "none"
      OBVIOUS
    <2>1. CASE b = c
      <3>1. c \notin acks[t]
        BY <1>2 DEF InsertWaiter
      <3>2. t = via[c]
        BY <1>2, <2>1, <3>1 DEF InsertWaiter
      <3> QED
        BY <1>2, <2>1, <3>2 DEF InsertWaiter
    <2>2. CASE b # c
      <3>1. b \in acks[t]
        BY <1>2, <2>2 DEF InsertWaiter
      <3> QED
        BY <1>2, <2>2, <3>1 DEF InsertWaiter
    <2> QED
      BY <2>1, <2>2
  <1>3. CASE Send(c)
    <2>1. PICK q \in {"waiting", "done"} :
            /\ pc' = [pc EXCEPT ![c] = q]
            /\ q = "done" => c \in Fire
            /\ UNCHANGED <<acks, via, reply>>
      BY <1>3 DEF Send
    <2>2. \A b \in Cmd : pc'[b] = IF b = c THEN q ELSE pc[b]
      BY <2>1
    <2>3. Unanswered'
      BY <2>1, <2>2
    <2>4. q = "done" => \A t \in Conn : c \notin acks[t]
      BY <2>1, CallAssumption
    <2>5. ASSUME NEW t \in Conn, NEW b \in acks'[t]
          PROVE  via'[b] = t /\ pc'[b] \in {"inserted", "waiting"} /\ reply'[b] = "none"
      BY <2>1, <2>2, <2>4
    <2> QED
      BY <2>3, <2>5
  <1>4. CASE SendFails(c)
    <2>1. /\ acks' = [acks EXCEPT ![via[c]] = @ \ {c}]
          /\ pc' = [pc EXCEPT ![c] = "done"]
          /\ UNCHANGED <<via, reply>>
      BY <1>4 DEF SendFails
    <2>2. ASSUME NEW t \in Conn, NEW b \in acks'[t]
          PROVE  b \in acks[t] /\ b # c
      BY <2>1
    <2>3. WaiterInv'
      BY <2>1, <2>2
    <2>4. \A b \in Cmd : pc'[b] = IF b = c THEN "done" ELSE pc[b]
      BY <2>1
    <2>5. Unanswered'
      BY <2>1, <2>4
    <2> QED
      BY <2>3, <2>5
  <1>5. CASE Answered(c)
    BY <1>5 DEF Answered
  <1>6. CASE TimeOut(c)
    BY <1>6 DEF TimeOut
  <1> QED
    BY <1>1, <1>2, <1>3, <1>4, <1>5, <1>6 DEF CallStep

\* What a hub step does, the invariant survives; PhoneServerProofs cites this
\* for the hub's part of every step of the server.
LEMMA HubStep ==
  ASSUME HubInv, [HubNext]_hubVars
  PROVE  HubInv'
  <1> USE DEF HubInv
  <1>1. CASE HubNext
    <2>1. ASSUME NEW s \in Conn,
                 \/ Register(s) \/ Unregister(s) \/ TakePermit(s) \/ ResolveAck(s)
                 \/ WriterTake(s) \/ CloseRx(s) \/ Lose(s) \/ CloseSocket(s)
                 \/ \E heard \in BOOLEAN : PhoneHandle(s, heard)
          PROVE  HubInv'
      BY <2>1, ConnTyping, AnswerTyping, ConnStep, AnswerStep
    <2>2. ASSUME NEW d \in Device, DropDevice(d) \/ SendFrame(d)
          PROVE  HubInv'
      BY <2>2, DeviceTyping, DeviceStep
    <2>3. ASSUME NEW S \in SUBSET Conn, LoseDown(S)
          PROVE  HubInv'
      <3>1. HubTypeOK'
        BY <2>3 DEF LoseDown, HubTypeOK
      <3> QED
        BY <2>3, <3>1, QuietStep DEF LoseDown
    <2>4. ASSUME NEW c \in Cmd, CallStep(c)
          PROVE  HubInv'
      BY <2>4, CallTyping, CallMoves
    <2> QED
      BY <1>1, <2>1, <2>2, <2>3, <2>4 DEF HubNext
  <1>2. CASE UNCHANGED hubVars
    <2>1. HubTypeOK'
      BY <1>2 DEF HubTypeOK
    <2> QED
      BY <1>2, <2>1, QuietStep
  <1> QED
    BY <1>1, <1>2

\* No waiter, no caller.
LEMMA HubInitInv == HubInit => HubInv
  BY HubInitType DEF HubInit, HubInv, WaiterInv, Unanswered

\* Hub (hub.rs) is well typed and keeps a command in a connection's table of
\* waiting acks exactly while its caller still waits for that connection: no
\* order of answers, drains, failures and timeouts leaves a waiter behind, for
\* any number of devices, sockets and commands and any queue length.
THEOREM HubInvariant == HubSpec => [](HubTypeOK /\ WaiterInv)
  <1>1. HubInit => HubInv
    BY HubInitInv
  <1>2. HubInv /\ [HubNext]_hubVars => HubInv'
    BY HubStep
  <1>3. HubInv => HubTypeOK /\ WaiterInv
    BY DEF HubInv
  <1> QED
    BY <1>1, <1>2, <1>3, PTL DEF HubSpec
=============================================================================
