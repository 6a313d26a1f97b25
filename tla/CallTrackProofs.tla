-------------------------- MODULE CallTrackProofs --------------------------
(***************************************************************************)
(* Proofs about the calls: the type invariant, and that a call the daemon  *)
(* has still to reconcile keeps its marker.  The types need one fact that  *)
(* is not about types: a call the app has given an id to has begun and has *)
(* not been removed (Tracking), so that every state it reports has a name  *)
(* in the protocol.                                                        *)
(***************************************************************************)
EXTENDS CallTrack, TLAPS, SequenceTheorems

Tracking == \A c \in Call : idOf[c] # 0 => state[c] \in Live \cup {"disconnected"}

TrackInv == TrackTypeOK /\ Tracking

USE DEF phoneVars, sockVars, daemonVars, histVars, trackVars

-----------------------------------------------------------------------------
(* Frames, commands and queues.                                            *)

\* The named frames, records and marks are of their kinds.
LEMMA ConstantFrames == /\ Greeting \in Frame /\ Idle \in Record /\ Absent \in Record
                        /\ NoMark \in Mark
  BY DEF Frame, Record, NoMark, Mark

\* Queues: what Append, Tail, concatenation and a prefix leave a sequence of.
LEMMA Queues ==
  ASSUME NEW S, NEW q \in Seq(S)
  PROVE  /\ \A e \in S : Append(q, e) \in Seq(S)
         /\ \A e, f \in S : q \o <<e, f>> \in Seq(S)
         /\ q # <<>> => Head(q) \in S /\ Tail(q) \in Seq(S)
         /\ \A n \in 0..Len(q) : SubSeq(q, 1, n) \in Seq(S)
  <1>1. \A n \in 0..Len(q) : SubSeq(q, 1, n) \in Seq(S)
    <2>1. SUFFICES ASSUME NEW n \in 0..Len(q) PROVE SubSeq(q, 1, n) \in Seq(S)
      OBVIOUS
    <2>2. \A i \in 1..n : q[i] \in S
      OBVIOUS
    <2> QED
      BY <2>2
  <1> QED
    BY <1>1

\* A phone's report of one of its calls is a frame.
LEMMA TellType ==
  ASSUME TrackTypeOK, NEW c \in Call, NEW id \in Nat, NEW st \in Live \cup {"ended"}, Tell(c, id, st)
  PROVE  up' \in [Conn -> Seq(Frame)]
  <1> DEFINE f == [id |-> id, st |-> st, of |-> c]
  <1>1. f \in Frame
    BY DEF Frame, Report
  <1>2. \A s \in Conn : Append(up[s], f) \in Seq(Frame)
    BY <1>1, Queues DEF TrackTypeOK
  <1> QED
    BY <1>2, TrackConstants DEF Tell, TrackTypeOK

\* A socket the phone leaves keeps frames of the right kind.
LEMMA LeaveType ==
  ASSUME TrackTypeOK, NEW s \in Conn, Leave(s)
  PROVE  /\ gone' \in [Conn -> BOOLEAN]
         /\ down' \in [Conn -> Seq(Cmd)]
         /\ up' \in [Conn -> Seq(Frame)]
  <1>1. up' \in [Conn -> Seq(Frame)]
    <2>1. PICK n \in 0..Len(up[s]) : up' = [up EXCEPT ![s] = SubSeq(@, 1, n)]
      BY DEF Leave
    <2>2. SubSeq(up[s], 1, n) \in Seq(Frame)
      BY Queues DEF TrackTypeOK
    <2> QED
      BY <2>1, <2>2 DEF TrackTypeOK
  <1> QED
    BY <1>1 DEF Leave, TrackTypeOK

\* A command put on a queue keeps it a queue of commands.
LEMMA SentType ==
  ASSUME TrackTypeOK, NEW d, NEW cmd \in Cmd
  PROVE  Sent(d, cmd, down) \in [Conn -> Seq(Cmd)]
  <1>1. \A s \in Conn : Append(down[s], cmd) \in Seq(Cmd)
    BY Queues DEF TrackTypeOK
  <1> QED
    BY <1>1 DEF Sent, TrackTypeOK

\* The frame a handler reads.
LEMMA HeadType ==
  ASSUME TrackTypeOK, NEW s \in Conn, up[s] # <<>>
  PROVE  /\ Head(up[s]) \in Frame
         /\ Tail(up[s]) \in Seq(Frame)
         /\ Head(up[s]).st \in Live \cup {"ended"} => Head(up[s]) \in Report
  BY Queues DEF TrackTypeOK, Frame, Greeting, Ack, Live

-----------------------------------------------------------------------------
(* Init.                                                                   *)

\* Nothing has happened, and nothing is tracked.
LEMMA InitType == TrackInit => TrackInv
  <1> SUFFICES ASSUME TrackInit PROVE TrackInv
    OBVIOUS
  <1> USE TrackConstants, ConstantFrames DEF TrackInit
  <1>1. <<>> \in Seq(Frame) /\ <<>> \in Seq(Cmd)
    OBVIOUS
  <1>2. Tracking
    BY DEF Tracking
  <1>3. /\ state \in [Call -> Live \cup {"none", "disconnected", "removed"}]
        /\ blips \in 0..MaxBlip /\ crashes \in 0..MaxCrash
    OBVIOUS
  <1>4. TrackTypeOK
    BY <1>1, <1>3 DEF TrackTypeOK
  <1> QED
    BY <1>2, <1>4 DEF TrackInv

-----------------------------------------------------------------------------
(* The phone.                                                              *)

\* What Telecom and the call service do (DialfInCallService).
LEMMA CallTyping ==
  ASSUME TrackInv, NEW c \in Call,
         Begin(c) \/ Added(c) \/ PickUp(c) \/ Disconnect(c) \/ Removed(c)
  PROVE  TrackInv'
  <1> USE TrackConstants DEF TrackInv, Live
  <1>1. CASE Begin(c)
    <2>1. state' \in [Call -> Live \cup {"none", "disconnected", "removed"}]
      BY <1>1 DEF Begin, TrackTypeOK
    <2>2. TrackTypeOK'
      BY <1>1, <2>1 DEF Begin, TrackTypeOK
    <2>3. Tracking'
      BY <1>1 DEF Begin, TrackTypeOK, Tracking
    <2> QED
      BY <2>2, <2>3
  <1>2. CASE Added(c)
    <2>1. up' \in [Conn -> Seq(Frame)]
      <3>1. seq[PhoneOf[c]] + 1 \in Nat
        BY DEF TrackTypeOK
      <3> QED
        BY <1>2, <3>1, TellType DEF Added
    <2>2. TrackTypeOK'
      <3>1. seq[PhoneOf[c]] + 1 \in Nat
        BY DEF TrackTypeOK
      <3>2. idOf' \in [Call -> Nat]
        BY <1>2, <3>1 DEF Added, TrackTypeOK
      <3>3. seq' \in [Device -> Nat]
        BY <1>2, <3>1 DEF Added, TrackTypeOK
      <3> QED
        BY <1>2, <2>1, <3>2, <3>3 DEF Added, TrackTypeOK
    <2>3. Tracking'
      BY <1>2 DEF Added, TrackTypeOK, Tracking
    <2> QED
      BY <2>2, <2>3
  <1>3. ASSUME NEW st \in {"active", "disconnected"}, Change(c, st)
        PROVE  TrackInv'
    <2>1. up' \in [Conn -> Seq(Frame)]
      <3>1. CASE idOf[c] = 0
        BY <1>3, <3>1 DEF Change, TrackTypeOK
      <3>2. CASE idOf[c] # 0
        BY <1>3, <3>2, TellType DEF Change, TrackTypeOK, Told, Live
      <3> QED
        BY <3>1, <3>2
    <2> QED
      BY <1>3, <2>1 DEF Change, TrackTypeOK, Tracking
  <1>4. CASE Removed(c)
    <2>1. up' \in [Conn -> Seq(Frame)]
      <3>1. CASE idOf[c] = 0
        BY <1>4, <3>1 DEF Removed, TrackTypeOK
      <3>2. CASE idOf[c] # 0
        BY <1>4, <3>2, TellType DEF Removed, TrackTypeOK, Live
      <3> QED
        BY <3>1, <3>2
    <2> QED
      BY <1>4, <2>1 DEF Removed, TrackTypeOK, Tracking
  <1> QED
    BY <1>1, <1>2, <1>3, <1>4 DEF PickUp, Disconnect

\* Hello and the re-report of a call the app tracks.
LEMMA OnOpenTyping ==
  ASSUME TrackInv, NEW s \in Conn, OnOpen(s)
  PROVE  TrackInv'
  <1> DEFINE d == DeviceOf[s]
  <1>1. up' \in [Conn -> Seq(Frame)]
    <2>1. CASE up' = [up EXCEPT ![s] = Append(@, Greeting)]
      BY <2>1, Queues, ConstantFrames DEF TrackInv, TrackTypeOK
    <2>2. ASSUME NEW c \in Tracked(d),
                 up' = [up EXCEPT ![s] = @ \o <<Greeting, [id |-> idOf[c],
                                                st |-> Told(state[c]), of |-> c]>>]
          PROVE  up' \in [Conn -> Seq(Frame)]
      <3>1. [id |-> idOf[c], st |-> Told(state[c]), of |-> c] \in Frame
        BY DEF TrackInv, TrackTypeOK, Tracking, Tracked, Mine, Told, Frame, Report, Live
      <3> QED
        BY <2>2, <3>1, Queues, ConstantFrames DEF TrackInv, TrackTypeOK
    <2> QED
      BY <2>1, <2>2 DEF OnOpen
  <1> QED
    BY <1>1, TrackConstants DEF OnOpen, TrackInv, TrackTypeOK, Tracking

\* Sockets come and go, and so does the app.
LEMMA LinkTyping ==
  ASSUME TrackInv, NEW d \in Device, Open(d) \/ Blip(d) \/ Dropped(d) \/ Relaunch(d)
  PROVE  TrackInv'
  <1> USE TrackConstants DEF TrackInv
  <1>1. CASE Open(d)
    <2>1. PICK s \in Conn : /\ ws' = [ws EXCEPT ![d] = s]
                            /\ stage' = [stage EXCEPT ![s] = "accepted"]
      BY <1>1 DEF Open, Unused
    <2>2. TrackTypeOK'
      BY <1>1, <2>1 DEF Open, TrackTypeOK
    <2> QED
      BY <1>1, <2>2 DEF Open, Tracking
  <1>2. CASE Blip(d)
    <2>1. ws[d] \in Conn
      BY <1>2 DEF Blip, TrackTypeOK
    <2> QED
      <3>1. /\ gone' \in [Conn -> BOOLEAN]
            /\ down' \in [Conn -> Seq(Cmd)]
            /\ up' \in [Conn -> Seq(Frame)]
        BY <1>2, <2>1, LeaveType DEF Blip
      <3>2. blips' \in 0..MaxBlip
        BY <1>2 DEF Blip, TrackTypeOK
      <3> QED
        BY <1>2, <3>1, <3>2 DEF Blip, TrackTypeOK, Tracking
  <1>3. CASE Dropped(d)
    <2>1. ws[d] \in Conn
      BY <1>3 DEF Dropped, TrackTypeOK
    <2> QED
      BY <1>3, <2>1, LeaveType DEF Dropped, TrackTypeOK, Tracking
  <1>4. CASE Relaunch(d)
    <2>1. /\ gone' \in [Conn -> BOOLEAN]
          /\ down' \in [Conn -> Seq(Cmd)]
          /\ up' \in [Conn -> Seq(Frame)]
      <3>1. CASE ws[d] = NoConn
        BY <1>4, <3>1 DEF Relaunch, TrackTypeOK
      <3>2. CASE ws[d] # NoConn
        BY <1>4, <3>2, LeaveType DEF Relaunch, TrackTypeOK
      <3> QED
        BY <3>1, <3>2
    <2> QED
      <3>1. TrackTypeOK'
        <4>1. idOf' \in [Call -> Nat]
          BY <1>4 DEF Relaunch, TrackTypeOK
        <4>2. /\ seq' \in [Device -> Nat] /\ process' \in [Device -> Nat]
              /\ ws' \in [Device -> Conn \cup {NoConn}]
          BY <1>4 DEF Relaunch, TrackTypeOK
        <4> QED
          BY <1>4, <2>1, <4>1, <4>2 DEF Relaunch, TrackTypeOK
      <3>2. Tracking'
        BY <1>4 DEF Relaunch, TrackTypeOK, Tracking
      <3> QED
        BY <3>1, <3>2
  <1> QED
    BY <1>1, <1>2, <1>3, <1>4

\* A command the phone performs or refuses.
LEMMA PerformsTyping ==
  ASSUME TrackInv, NEW s \in Conn, NEW c \in Call \cup {NoCall}, Performs(s, c)
  PROVE  TrackInv'
  <1> USE TrackConstants DEF TrackInv
  <1>1. Head(down[s]) \in Cmd /\ Tail(down[s]) \in Seq(Cmd)
    BY Queues DEF Performs, TrackTypeOK
  <1>2. ASSUME NEW st \in {"ack", "refused"}, Answered(s, Head(down[s]), st)
        PROVE  up' \in [Conn -> Seq(Frame)]
    <2>1. CASE Head(down[s]).by \in Asker
      <3>1. [st |-> st, by |-> Head(down[s]).by] \in Frame
        BY <2>1 DEF Frame, Ack
      <3> QED
        BY <1>2, <2>1, <3>1, Queues DEF Answered, TrackTypeOK
    <2>2. CASE Head(down[s]).by \notin Asker
      BY <1>2, <2>2 DEF Answered, TrackTypeOK
    <2> QED
      BY <2>1, <2>2
  <1>3. up' \in [Conn -> Seq(Frame)]
    BY <1>2 DEF Performs
  <1>4. hung' \subseteq Call
    BY DEF Performs, TrackTypeOK, Chosen, Tracked, Mine
  <1>5. /\ state' \in [Call -> Live \cup {"none", "disconnected", "removed"}]
        /\ \A k \in Call : state'[k] = state[k] \/ state'[k] = "dialing"
    BY DEF Performs, TrackTypeOK, Live, Mine
  <1> QED
    BY <1>1, <1>3, <1>4, <1>5 DEF Performs, TrackTypeOK, Tracking, Live

\* All steps of the phone on its own.
LEMMA PhoneTyping == TrackInv /\ PhoneNext => TrackInv'
  BY CallTyping, LinkTyping, OnOpenTyping DEF PhoneNext

-----------------------------------------------------------------------------
(* The daemon.                                                             *)

\* handle_conn from hello to its end.
LEMMA ConnTyping == TrackInv /\ ConnNext => TrackInv'
  <1> SUFFICES ASSUME TrackInv, NEW s \in Conn,
                      Hello(s) \/ RejectFirst(s) \/ Upsert(s) \/ Close(s)
               PROVE  TrackInv'
    BY DEF ConnNext
  <1> USE TrackConstants, ConstantFrames DEF TrackInv
  <1>0. DeviceOf[s] \in Device
    OBVIOUS
  <1>1. CASE Hello(s)
    <2>1. Tail(up[s]) \in Seq(Frame)
      BY <1>1, HeadType DEF Hello
    <2> QED
      BY <1>0, <1>1, <2>1 DEF Hello, TrackTypeOK, Tracking
  <1>2. CASE RejectFirst(s)
    <2>1. up' \in [Conn -> Seq(Frame)]
      BY <1>2 DEF RejectFirst, TrackTypeOK
    <2> QED
      BY <1>2, <2>1 DEF RejectFirst, TrackTypeOK, Tracking
  <1>3. CASE Upsert(s)
    <2>1. [op |-> "hangup", id |-> 0, of |-> NoCall, by |-> "abort"] \in Cmd
      BY DEF Cmd
    <2>2. down' \in [Conn -> Seq(Cmd)]
      BY <1>3, <2>1, Queues DEF Upsert, TrackTypeOK
    <2> QED
      BY <1>0, <1>3, <2>2 DEF Upsert, TrackTypeOK, Tracking
  <1>4. CASE Close(s)
    <2>1. up' \in [Conn -> Seq(Frame)]
      BY <1>4 DEF Close, TrackTypeOK
    <2>2. /\ conn' \in [Device -> Conn \cup {NoConn}]
          /\ reg' \in [Device -> Record]
      <3>1. CASE conn[DeviceOf[s]] = s
        <4>1. /\ conn' = [conn EXCEPT ![DeviceOf[s]] = NoConn]
              /\ reg' = [reg EXCEPT ![DeviceOf[s]] = Absent]
          BY <1>4, <3>1 DEF Close
        <4> QED
          BY <1>0, <4>1 DEF TrackTypeOK
      <3>2. CASE conn[DeviceOf[s]] # s
        BY <1>4, <3>2 DEF Close, TrackTypeOK
      <3> QED
        BY <3>1, <3>2
    <2> QED
      BY <1>4, <2>1, <2>2 DEF Close, TrackTypeOK, Tracking
  <1> QED
    BY <1>1, <1>2, <1>3, <1>4

\* The markers, one way or the other.
LEMMA ReconcileType ==
  ASSUME TrackTypeOK, NEW d \in Device, NEW f \in Report, Reconcile(d, f)
  PROVE  /\ marker' \in [Device -> Mark] /\ orphans' \in [Device -> Mark]
         /\ marked' \subseteq Call
  <1>1. [id |-> f.id, of |-> f.of] \in Mark /\ f.of \in Call
    BY DEF Report, Mark
  <1>2. CASE f.st = "active"
    <2>1. orphans' = [orphans EXCEPT ![d] = NoMark] /\ marked' \subseteq Call
      BY <1>1, <1>2 DEF Reconcile, TrackTypeOK
    <2>2. PICK m \in Mark : marker' = [marker EXCEPT ![d] = m]
      BY <1>1, <1>2, ConstantFrames DEF Reconcile, TrackTypeOK
    <2> QED
      BY <2>1, <2>2, ConstantFrames DEF TrackTypeOK
  <1>3. CASE f.st = "ended"
    <2>1. /\ orphans' = [orphans EXCEPT ![d] = NoMark]
          /\ marker' = [marker EXCEPT ![d] = NoMark]
          /\ marked' = marked
      BY <1>3 DEF Reconcile
    <2> QED
      BY <2>1, ConstantFrames DEF TrackTypeOK
  <1>4. CASE f.st \notin {"active", "ended"}
    BY <1>4 DEF Reconcile, TrackTypeOK
  <1> QED
    BY <1>2, <1>3, <1>4

\* What a frame makes the daemon fire goes on the device's own queue.
LEMMA FiredType ==
  ASSUME TrackTypeOK, NEW d \in Device, NEW f \in Report, NEW handler
  PROVE  Fired(d, f, handler) \in [Conn -> Seq(Cmd)]
  <1>1. /\ [op |-> "hangup", id |-> f.id, of |-> f.of, by |-> "orphan"] \in Cmd
        /\ [op |-> "answer", id |-> f.id, of |-> f.of, by |-> "auto"] \in Cmd
    BY DEF Report, Cmd
  <1>2. down \in [Conn -> Seq(Cmd)]
    BY DEF TrackTypeOK
  <1>3. CASE f.st = "active" /\ IsOrphan(d, f)
    BY <1>1, <1>3, SentType DEF Fired
  <1>4. CASE ~(f.st = "active" /\ IsOrphan(d, f)) /\ f.st = "ringing" /\ handler = "answer"
    BY <1>1, <1>4, SentType DEF Fired
  <1>5. CASE ~(f.st = "active" /\ IsOrphan(d, f)) /\ ~(f.st = "ringing" /\ handler = "answer")
    BY <1>2, <1>5 DEF Fired
  <1> QED
    BY <1>3, <1>4, <1>5

\* A frame read by handle_phone_msg.
LEMMA ReadTyping ==
  ASSUME TrackInv, NEW s \in Conn,
         ReadAck(s) \/ \E handler \in AutoAnswer : ReadCall(s, handler)
  PROVE  TrackInv'
  <1> USE TrackConstants DEF TrackInv
  <1>1. CASE ReadAck(s)
    <2>1. Tail(up[s]) \in Seq(Frame)
      BY <1>1, HeadType DEF ReadAck
    <2> QED
      BY <1>1, <2>1 DEF ReadAck, TrackTypeOK, Tracking
  <1>2. ASSUME NEW handler \in AutoAnswer, ReadCall(s, handler)
        PROVE  TrackInv'
    <2> DEFINE d == DeviceOf[s]
               f == Head(up[s])
    <2>1. d \in Device /\ f \in Report /\ Tail(up[s]) \in Seq(Frame)
      BY <1>2, HeadType DEF ReadCall
    <2>2. /\ marker' \in [Device -> Mark] /\ orphans' \in [Device -> Mark]
          /\ marked' \subseteq Call
      BY <1>2, <2>1, ReconcileType DEF ReadCall
    <2>3. down' \in [Conn -> Seq(Cmd)]
      BY <1>2, <2>1, FiredType DEF ReadCall
    <2>4. reg' \in [Device -> Record]
      <3>1. PICK r \in Record : reg' = [reg EXCEPT ![d] = r]
        <4>1. f \in Record /\ Idle \in Record /\ reg[d] \in Record
          BY <2>1, ConstantFrames DEF Record, TrackTypeOK
        <4> QED
          BY <1>2, <4>1 DEF ReadCall
      <3> QED
        BY <2>1, <3>1 DEF TrackTypeOK
    <2>5. up' \in [Conn -> Seq(Frame)] /\ card' \in BOOLEAN
      BY <1>2, <2>1 DEF ReadCall, TrackTypeOK, StartsJob
    <2> QED
      BY <1>2, <2>2, <2>3, <2>4, <2>5 DEF ReadCall, TrackTypeOK, Tracking
  <1> QED
    BY <1>1, <1>2

\* The daemon is started anew.
LEMMA CrashTyping == TrackInv /\ Crash => TrackInv'
  <1> SUFFICES ASSUME TrackInv, Crash PROVE TrackInv'
    OBVIOUS
  <1> USE TrackConstants, ConstantFrames DEF TrackInv
  <1>1. up' \in [Conn -> Seq(Frame)] /\ down' \in [Conn -> Seq(Cmd)]
    BY DEF Crash
  <1>2. stage' \in [Conn -> {"unused", "accepted", "hello", "reading", "closed"}]
    BY DEF Crash
  <1>3. /\ conn' \in [Device -> Conn \cup {NoConn}] /\ reg' \in [Device -> Record]
        /\ instances' \in [Device -> Nat] /\ crashes' \in 0..MaxCrash
    BY DEF Crash, TrackTypeOK
  <1> QED
    BY <1>1, <1>2, <1>3 DEF Crash, TrackTypeOK, Tracking

\* A command that a job or client sends.
LEMMA CommandTyping ==
  ASSUME TrackInv, NEW d, NEW op \in {"dial", "answer", "hangup"},
         NEW f \in Record, NEW who \in Asker, Command(d, op, f, who)
  PROVE  TrackInv'
  <1> USE TrackConstants DEF TrackInv
  <1>1. [op |-> op, id |-> f.id, of |-> f.of, by |-> who] \in Cmd
    BY DEF Cmd, Record, Report, Idle, Absent
  <1>2. down' \in [Conn -> Seq(Cmd)]
    BY <1>1, SentType DEF Command
  <1> QED
    BY <1>2 DEF Command, TrackTypeOK, Tracking

-----------------------------------------------------------------------------
(* The step, and the theorem.                                              *)

\* Every step keeps the types and the tracking of calls.
LEMMA TrackStep == TrackInv /\ [TrackNext]_trackVars => TrackInv'
  <1> SUFFICES ASSUME TrackInv, [TrackNext]_trackVars PROVE TrackInv'
    OBVIOUS
  <1>1. CASE ClearAbort \/ SetCard(~card)
    BY <1>1 DEF ClearAbort, SetCard, TrackInv, TrackTypeOK, Tracking
  <1>2. CASE UNCHANGED trackVars
    BY <1>2 DEF TrackInv, TrackTypeOK, Tracking
  <1> QED
    BY <1>1, <1>2, PhoneTyping, ConnTyping, ReadTyping, CrashTyping, PerformsTyping,
       CommandTyping, ConstantFrames DEF TrackNext

\* Phones, sockets and daemon stay in their types: a phone sends no call state
\* without a name, the daemon no command without one (emitCallState, fire).
THEOREM TrackTyping == TrackSpec => []TrackTypeOK
  <1>1. TrackInv => TrackTypeOK
    BY DEF TrackInv
  <1> QED
    BY <1>1, InitType, TrackStep, PTL DEF TrackSpec

-----------------------------------------------------------------------------
(* Crash recovery: PendingOnDisk.  It needs no types: beside it the         *)
(* invariant says only that the two tables have one entry for each device.  *)

MarkInv == /\ marker = [d \in Device |-> marker[d]]
           /\ orphans = [d \in Device |-> orphans[d]]
           /\ PendingOnDisk

\* Whatever a call_state frame says, the tables change together.
LEMMA ReconcileMark ==
  ASSUME MarkInv, NEW d \in Device, NEW f, Reconcile(d, f)
  PROVE  MarkInv'
  <1> USE DEF MarkInv, PendingOnDisk
  <1>1. CASE f.st = "active"
    <2>1. orphans' = [orphans EXCEPT ![d] = NoMark]
      BY <1>1 DEF Reconcile
    <2>2. PICK m : marker' = [marker EXCEPT ![d] = m]
      BY <1>1 DEF Reconcile
    <2> QED
      BY <2>1, <2>2
  <1>2. CASE f.st = "ended"
    <2>1. /\ orphans' = [orphans EXCEPT ![d] = NoMark]
          /\ marker' = [marker EXCEPT ![d] = NoMark]
      BY <1>2 DEF Reconcile
    <2> QED
      BY <2>1
  <1>3. CASE f.st \notin {"active", "ended"}
    BY <1>3 DEF Reconcile
  <1> QED
    BY <1>1, <1>2, <1>3

\* Every step keeps the pending entries on disk.
LEMMA MarkStep == MarkInv /\ [TrackNext]_trackVars => MarkInv'
  <1> SUFFICES ASSUME MarkInv, [TrackNext]_trackVars PROVE MarkInv'
    OBVIOUS
  <1>1. CASE UNCHANGED <<marker, orphans>>
    BY <1>1 DEF MarkInv, PendingOnDisk
  <1>2. CASE PhoneNext
    <2>1. UNCHANGED <<marker, orphans>>
      BY <1>2 DEF PhoneNext, Begin, Added, PickUp, Disconnect, Change, Removed, Open,
                  Blip, Dropped, Relaunch, OnOpen
    <2> QED
      BY <1>1, <2>1
  <1>3. CASE ConnNext
    <2>1. UNCHANGED <<marker, orphans>>
      BY <1>3 DEF ConnNext, Hello, RejectFirst, Upsert, Close
    <2> QED
      BY <1>1, <2>1
  <1>4. CASE Crash
    BY <1>4 DEF Crash, MarkInv, PendingOnDisk
  <1>5. ASSUME NEW s \in Conn, NEW handler \in AutoAnswer, ReadCall(s, handler)
        PROVE  MarkInv'
    BY <1>5, ReconcileMark, TrackConstants DEF ReadCall
  <1>6. ASSUME NEW s \in Conn, NEW c \in Call \cup {NoCall}, Performs(s, c)
        PROVE  MarkInv'
    BY <1>6, <1>1 DEF Performs
  <1>7. ASSUME NEW s \in Conn, ReadAck(s)
        PROVE  MarkInv'
    BY <1>7, <1>1 DEF ReadAck
  <1>8. CASE ClearAbort \/ SetCard(~card)
    BY <1>8, <1>1 DEF ClearAbort, SetCard
  <1>9. ASSUME NEW d \in Device, NEW op \in {"dial", "answer", "hangup"},
               NEW who \in Asker, Command(d, op, Idle, who)
        PROVE  MarkInv'
    BY <1>9, <1>1 DEF Command
  <1>10. CASE UNCHANGED trackVars
    BY <1>10, <1>1
  <1> QED
    BY <1>2, <1>3, <1>4, <1>5, <1>6, <1>7, <1>8, <1>9, <1>10 DEF TrackNext

\* A call still to be reconciled keeps its marker file, for any phones, sockets
\* and calls, and however often the daemon crashes (Reconcile, Crash).
THEOREM Remembered == TrackSpec => []PendingOnDisk
  <1>1. TrackInit => MarkInv
    BY DEF TrackInit, MarkInv, PendingOnDisk
  <1>2. MarkInv => PendingOnDisk
    BY DEF MarkInv
  <1> QED
    BY <1>1, <1>2, MarkStep, PTL DEF TrackSpec
=============================================================================
