--------------------------- MODULE ServiceProofs ---------------------------
(***************************************************************************)
(* The hub implements the command service.  What makes a command be        *)
(* performed at most once is where its one frame can be: nowhere before    *)
(* the send, then in the queue or on the wire of the one connection its    *)
(* caller looked up, then with the phone.  PathInv says so; TruthInv says  *)
(* that "ok" comes only from a performance.  Both together are inductive,  *)
(* and each step of the hub is then a step of CommandService or none.      *)
(***************************************************************************)
EXTENDS HubProofs, SequenceTheorems

\* What is on its way to the phone on each connection, oldest first.
Pipe == [s \in Conn |-> wire[s] \o chan[s]]

\* The commands whose callers have handed their frame to the queue.
Given == {c \in Cmd : \/ pc[c] = "waiting"
                      \/ pc[c] = "done" /\ outcome[c] \notin {"closed", "not_connected"}}

\* The frames of commands, the others being heartbeat answers.
CmdFrame == {f \in Frame : f.type = "cmd"}

\* A frame under way is its command's only one, and not performed yet.
PathInv ==
  \A s \in Conn : \A i \in 1..Len(Pipe[s]) :
    Pipe[s][i] \in CmdFrame =>
      /\ Pipe[s][i].cmd \in Given
      /\ via[Pipe[s][i].cmd] = s
      /\ performed[Pipe[s][i].cmd] = 0
      /\ \A j \in 1..Len(Pipe[s]) : Pipe[s][j] = Pipe[s][i] => j = i

\* Whoever says "ok" of a command knows that the phone performed it.
Performed == {c \in Cmd : performed[c] = 1}

TruthInv ==
  /\ \A c \in Cmd : performed[c] \in {0, 1}
  /\ Performed \subseteq Given
  /\ \A s \in Conn : \A i \in 1..Len(answers[s]) :
       answers[s][i].ok => answers[s][i].cmd \in Performed
  /\ \A c \in Cmd : reply[c] = "ok" => c \in Performed
  /\ \A c \in Cmd : pc[c] = "done" /\ outcome[c] = "ok" => c \in Performed

\* A call that goes on holds the connection it looked up, and has no outcome.
HoldInv == \A c \in Cmd : /\ pc[c] \in {"found", "inserted", "waiting"} => via[c] \in Conn
                          /\ pc[c] # "done" => outcome[c] = "running"

ServiceInv == HubInv /\ HoldInv /\ PathInv /\ TruthInv

USE DEF connVars, callVars, netVars, hubVars

-----------------------------------------------------------------------------
(* The pipe of a connection.                                               *)

\* The wire's frames come first, then the queue's.
LEMMA PipeShape ==
  ASSUME HubTypeOK, NEW s \in Conn
  PROVE  /\ Pipe[s] \in Seq(Frame)
         /\ Len(Pipe[s]) = Len(wire[s]) + Len(chan[s])
         /\ \A i \in 1..Len(Pipe[s]) :
              Pipe[s][i] = IF i <= Len(wire[s]) THEN wire[s][i]
                                                ELSE chan[s][i - Len(wire[s])]
  <1>1. wire[s] \in Seq(Frame) /\ chan[s] \in Seq(Frame)
    BY DEF HubTypeOK
  <1>2. Pipe[s] = wire[s] \o chan[s]
    BY DEF Pipe
  <1>3. wire[s] \o chan[s] \in Seq(Frame)
    BY <1>1, ConcatProperties
  <1>4. Len(wire[s] \o chan[s]) = Len(wire[s]) + Len(chan[s])
    BY <1>1, ConcatProperties
  <1>5. \A i \in 1..Len(wire[s]) + Len(chan[s]) :
          (wire[s] \o chan[s])[i] = IF i <= Len(wire[s]) THEN wire[s][i]
                                                       ELSE chan[s][i - Len(wire[s])]
    BY <1>1, ConcatProperties
  <1> QED
    BY <1>2, <1>3, <1>4, <1>5

\* Sequence r is q without its first n frames and perhaps some at the end.
Cut(q, r, n) == \A i \in 1..Len(r) : i + n \in 1..Len(q) /\ r[i] = q[i + n]

\* The second part of a concatenation is what is left without the first.
LEMMA CutFirst ==
  ASSUME NEW q \in Seq(Frame), NEW r \in Seq(Frame)
  PROVE  Len(q) \in Nat /\ Cut(q \o r, r, Len(q))
  <1>1. Len(q) \in Nat /\ Len(r) \in Nat /\ Len(q \o r) = Len(q) + Len(r)
    BY ConcatProperties
  <1> SUFFICES ASSUME NEW i \in 1..Len(r)
               PROVE  i + Len(q) \in 1..Len(q \o r) /\ r[i] = (q \o r)[i + Len(q)]
    BY <1>1 DEF Cut
  <1> QED
    BY <1>1

\* What is left when the first frame is taken.
LEMMA CutHead ==
  ASSUME NEW q \in Seq(Frame), NEW r \in Seq(Frame), q # <<>>
  PROVE  /\ Cut(q \o r, Tail(q) \o r, 1)
         /\ Head(q) \in Frame /\ Head(q) = (q \o r)[1] /\ 1 \in 1..Len(q \o r)
  <1>1. /\ Tail(q) \in Seq(Frame) /\ Len(q) \in Nat \ {0} /\ Len(r) \in Nat
        /\ Len(Tail(q)) = Len(q) - 1
        /\ \A i \in 1..Len(Tail(q)) : Tail(q)[i] = q[i + 1]
    OBVIOUS
  <1>2. Len(q \o r) = Len(q) + Len(r) /\ Len(Tail(q) \o r) = Len(q) - 1 + Len(r)
    BY <1>1
  <1>3. Head(q) \in Frame /\ Head(q) = (q \o r)[1] /\ 1 \in 1..Len(q \o r)
    BY <1>1, <1>2
  <1> SUFFICES ASSUME NEW i \in 1..Len(Tail(q) \o r)
               PROVE  i + 1 \in 1..Len(q \o r) /\ (Tail(q) \o r)[i] = (q \o r)[i + 1]
    BY <1>3 DEF Cut
  <1> QED
    BY <1>1, <1>2

\* Taking frames out of pipes puts none of them in a second place.
LEMMA CutPath ==
  ASSUME ServiceInv, HubTypeOK',
         \A s \in Conn : \E n \in Nat : Cut(Pipe[s], Pipe'[s], n),
         \A s \in Conn : \A i \in 1..Len(Pipe'[s]) :
           Pipe'[s][i] \in CmdFrame =>
             LET c == Pipe'[s][i].cmd
             IN c \in Given /\ performed[c] = 0 =>
                  c \in Given' /\ via'[c] = via[c] /\ performed'[c] = 0
  PROVE  PathInv'
  <1> SUFFICES ASSUME NEW s \in Conn, NEW i \in 1..Len(Pipe'[s]), Pipe'[s][i] \in CmdFrame
               PROVE  /\ Pipe'[s][i].cmd \in Given'
                      /\ via'[Pipe'[s][i].cmd] = s
                      /\ performed'[Pipe'[s][i].cmd] = 0
                      /\ \A j \in 1..Len(Pipe'[s]) : Pipe'[s][j] = Pipe'[s][i] => j = i
    BY DEF PathInv, CmdFrame, Frame
  <1>1. PICK n \in Nat : Cut(Pipe[s], Pipe'[s], n)
    OBVIOUS
  <1>2. i + n \in 1..Len(Pipe[s]) /\ Pipe'[s][i] = Pipe[s][i + n]
    BY <1>1 DEF Cut
  <1>3. /\ Pipe[s][i + n].cmd \in Given
        /\ via[Pipe[s][i + n].cmd] = s
        /\ performed[Pipe[s][i + n].cmd] = 0
        /\ \A j \in 1..Len(Pipe[s]) : Pipe[s][j] = Pipe[s][i + n] => j = i + n
    BY <1>2 DEF ServiceInv, PathInv
  <1>4. ASSUME NEW j \in 1..Len(Pipe'[s]), Pipe'[s][j] = Pipe'[s][i]
        PROVE  j = i
    <2>1. j + n \in 1..Len(Pipe[s]) /\ Pipe[s][j + n] = Pipe[s][i + n]
      BY <1>1, <1>2, <1>4 DEF Cut
    <2>2. j + n = i + n
      BY <1>3, <2>1
    <2> QED
      BY <2>2
  <1> QED
    BY <1>2, <1>3, <1>4

\* Appending to the second part of a concatenation appends to the whole.
LEMMA AppendLast ==
  ASSUME NEW q \in Seq(Frame), NEW r \in Seq(Frame), NEW e \in Frame
  PROVE  q \o Append(r, e) = Append(q \o r, e)
  OBVIOUS

\* A frame that moves from the second part to the first leaves the whole as it
\* is; an empty part adds nothing.
LEMMA MoveAcross ==
  ASSUME NEW q \in Seq(Frame), NEW r \in Seq(Frame)
  PROVE  /\ q \o <<>> = q
         /\ <<>> \o r = r
         /\ r # <<>> => Append(q, Head(r)) \o Tail(r) = q \o r
  <1>1. q \o <<>> = q
    OBVIOUS
  <1>2. <<>> \o r = r
    OBVIOUS
  <1>3. r # <<>> => Append(q, Head(r)) \o Tail(r) = q \o r
    OBVIOUS
  <1> QED
    BY <1>1, <1>2, <1>3

\* Nor does queueing one more: a heartbeat answer, or the frame of a command
\* that had none.
LEMMA QueuePath ==
  ASSUME ServiceInv, HubTypeOK', NEW s \in Conn, NEW f \in Frame, Enqueue(s, f),
         UNCHANGED <<wire, performed, via>>, Given \subseteq Given',
         f \in CmdFrame => f.cmd \in Given' \ Given /\ via[f.cmd] = s
  PROVE  PathInv'
  <1>1. HubTypeOK /\ chan[s] \in Seq(Frame) /\ wire[s] \in Seq(Frame)
    BY DEF ServiceInv, HubInv, HubTypeOK
  <1>2. chan'[s] = Append(chan[s], f) /\ \A t \in Conn : t # s => chan'[t] = chan[t]
    BY <1>1 DEF Enqueue, HubTypeOK
  <1>3. \A t \in Conn : t # s => Pipe'[t] = Pipe[t]
    BY <1>2 DEF Pipe
  <1>4. Pipe'[s] = Append(Pipe[s], f) /\ Pipe[s] \in Seq(Frame)
    <2>1. Pipe[s] = wire[s] \o chan[s] /\ Pipe'[s] = wire[s] \o Append(chan[s], f)
      BY <1>2 DEF Pipe
    <2>2. wire[s] \o Append(chan[s], f) = Append(wire[s] \o chan[s], f)
      BY <1>1, AppendLast
    <2>3. Pipe[s] \in Seq(Frame)
      BY <1>1, PipeShape
    <2> QED
      BY <2>1, <2>2, <2>3
  <1>5. /\ Len(Pipe'[s]) = Len(Pipe[s]) + 1
        /\ Len(Pipe[s]) \in Nat
        /\ Pipe'[s][Len(Pipe[s]) + 1] = f
        /\ \A i \in 1..Len(Pipe[s]) : Pipe'[s][i] = Pipe[s][i]
    BY <1>4, AppendProperties, LenProperties
  <1>6. f \in CmdFrame => /\ performed[f.cmd] = 0
                          /\ \A i \in 1..Len(Pipe[s]) : Pipe[s][i] # f
    BY FrameType DEF ServiceInv, PathInv, TruthInv, Performed, CmdFrame
  <1> SUFFICES ASSUME NEW t \in Conn, NEW i \in 1..Len(Pipe'[t]), Pipe'[t][i] \in CmdFrame
               PROVE  /\ Pipe'[t][i].cmd \in Given'
                      /\ via'[Pipe'[t][i].cmd] = t
                      /\ performed'[Pipe'[t][i].cmd] = 0
                      /\ \A j \in 1..Len(Pipe'[t]) : Pipe'[t][j] = Pipe'[t][i] => j = i
    BY DEF PathInv, CmdFrame, Frame
  <1>7. CASE t # s
    BY <1>3, <1>7 DEF ServiceInv, PathInv
  <1>8. CASE t = s /\ i \in 1..Len(Pipe[s])
    <2>1. /\ Pipe[s][i].cmd \in Given
          /\ via[Pipe[s][i].cmd] = s
          /\ performed[Pipe[s][i].cmd] = 0
          /\ \A j \in 1..Len(Pipe[s]) : Pipe[s][j] = Pipe[s][i] => j = i
      BY <1>5, <1>8 DEF ServiceInv, PathInv
    <2> QED
      BY <1>5, <1>6, <1>8, <2>1
  <1>9. CASE t = s /\ i = Len(Pipe[s]) + 1
    BY <1>5, <1>6, <1>9
  <1> QED
    BY <1>5, <1>7, <1>8, <1>9

\* A step in which the phone performs nothing keeps every "ok" true.
LEMMA QuietTruth ==
  ASSUME ServiceInv, HubTypeOK', UNCHANGED performed, Given \subseteq Given',
         \A s \in Conn : \A i \in 1..Len(answers'[s]) :
           \E j \in 1..Len(answers[s]) : answers'[s][i] = answers[s][j],
         \A c \in Cmd : reply'[c] = "ok" => c \in Performed,
         \A c \in Cmd : pc'[c] = "done" /\ outcome'[c] = "ok" => c \in Performed
  PROVE  TruthInv'
  <1>1. Performed' = Performed
    BY DEF Performed
  <1>2. ASSUME NEW s \in Conn, NEW i \in 1..Len(answers'[s]), answers'[s][i].ok
        PROVE  answers'[s][i].cmd \in Performed
    BY <1>2 DEF ServiceInv, TruthInv
  <1> QED
    BY <1>1, <1>2 DEF ServiceInv, TruthInv

\* Where the callers, their answers and the pipes stay as they are, so does
\* all of it.
LEMMA StillStep ==
  ASSUME ServiceInv, HubTypeOK', UNCHANGED <<pc, via, outcome, performed>>
  PROVE  /\ UNCHANGED <<wire, chan>> => PathInv'
         /\ UNCHANGED <<answers, reply>> => TruthInv'
  <1>1. UNCHANGED <<Given, Performed>>
    BY DEF Given, Performed
  <1>2. UNCHANGED <<wire, chan>> => UNCHANGED Pipe
    BY DEF Pipe
  <1> QED
    BY <1>1, <1>2 DEF ServiceInv, PathInv, TruthInv

-----------------------------------------------------------------------------
(* The invariant is inductive.                                             *)

\* Told why it was drained, a command is not told "ok".
LEMMA DrainTruth ==
  ASSUME ServiceInv, HubTypeOK', NEW s \in Conn, NEW why, why # "ok", Drain(s, why),
         UNCHANGED <<pc, via, outcome, performed, answers>>
  PROVE  TruthInv'
  <1>1. Given' = Given
    BY DEF Given
  <1>2. \A c \in Cmd : reply'[c] = "ok" => c \in Performed
    BY DEF Drain, ServiceInv, TruthInv
  <1> QED
    BY <1>1, <1>2, QuietTruth DEF ServiceInv, TruthInv

\* The table's steps touch no pipe and make no "ok".
LEMMA TableKeeps ==
  ASSUME ServiceInv, HubTypeOK',
         \/ \E s \in Conn : Register(s) \/ Unregister(s) \/ TakePermit(s)
         \/ \E d \in Device : DropDevice(d)
  PROVE  PathInv' /\ TruthInv'
  <1>1. UNCHANGED <<wire, chan, pc, via, outcome, performed, answers>>
    BY DEF Register, Unregister, TakePermit, DropDevice
  <1>2. CASE UNCHANGED reply
    BY <1>1, <1>2, StillStep
  <1>3. ASSUME NEW s \in Conn, Register(s) \/ Unregister(s), ~UNCHANGED reply
        PROVE  TruthInv'
    <2>1. conns[DeviceOf[s]] \in Conn \cup {NoConn}
      BY ConnAssumption DEF ServiceInv, HubInv, HubTypeOK
    <2> QED
      BY <1>1, <1>3, <2>1, DrainTruth DEF Register, Unregister
  <1>4. ASSUME NEW d \in Device, DropDevice(d), ~UNCHANGED reply
        PROVE  TruthInv'
    <2>1. conns[d] \in Conn \cup {NoConn}
      BY DEF ServiceInv, HubInv, HubTypeOK
    <2> QED
      BY <1>1, <1>4, <2>1, DrainTruth DEF DropDevice
  <1>5. \A s \in Conn : TakePermit(s) => UNCHANGED reply
    BY DEF TakePermit
  <1> QED
    BY <1>1, <1>2, <1>3, <1>4, <1>5, StillStep

\* An ack is taken off the answers; its caller learns what it says.
LEMMA AckKeeps ==
  ASSUME ServiceInv, HubTypeOK', NEW s \in Conn, ResolveAck(s)
  PROVE  PathInv' /\ TruthInv'
  <1>1. UNCHANGED <<wire, chan, pc, via, outcome, performed>> /\ Given' = Given
    BY DEF ResolveAck, Given
  <1>2. answers[s] \in Seq(Answer) /\ answers[s] # <<>>
    BY DEF ResolveAck, ServiceInv, HubInv, HubTypeOK
  <1>3. ASSUME NEW t \in Conn, NEW i \in 1..Len(answers'[t])
        PROVE  \E j \in 1..Len(answers[t]) : answers'[t][i] = answers[t][j]
    <2>1. CASE t # s
      BY <2>1 DEF ResolveAck, ServiceInv, HubInv, HubTypeOK
    <2>2. CASE t = s
      <3>1. answers'[s] = Tail(answers[s])
        BY DEF ResolveAck, ServiceInv, HubInv, HubTypeOK
      <3>2. i + 1 \in 1..Len(answers[s]) /\ answers'[s][i] = answers[s][i + 1]
        BY <1>2, <2>2, <3>1, HeadTailProperties
      <3> QED
        BY <2>2, <3>2
    <2> QED
      BY <2>1, <2>2
  <1>4. ASSUME NEW c \in Cmd, reply'[c] = "ok"
        PROVE  c \in Performed
    <2>1. CASE reply[c] = "ok"
      BY <2>1 DEF ServiceInv, TruthInv
    <2>2. CASE reply[c] # "ok"
      <3>1. Head(answers[s]) = answers[s][1] /\ 1 \in 1..Len(answers[s])
        BY <1>2
      <3>2. c = answers[s][1].cmd /\ answers[s][1].ok
        BY <1>4, <2>2, <3>1 DEF ResolveAck, ServiceInv, HubInv, HubTypeOK
      <3> QED
        BY <3>1, <3>2 DEF ServiceInv, TruthInv
    <2> QED
      BY <2>1, <2>2
  <1> QED
    BY <1>1, <1>3, <1>4, QuietTruth, StillStep DEF ServiceInv, TruthInv

\* A heartbeat answer joins the queue, or is dropped.
LEMMA BeatKeeps ==
  ASSUME ServiceInv, HubTypeOK', NEW d \in Device, SendFrame(d)
  PROVE  PathInv' /\ TruthInv'
  <1>1. conns[d] \in Conn \cup {NoConn}
    BY DEF ServiceInv, HubInv, HubTypeOK
  <1>2. UNCHANGED <<wire, pc, via, outcome, performed, answers, reply>> /\ Given' = Given
    BY DEF SendFrame, Given
  <1>3. [type |-> Beat] \in Frame /\ [type |-> Beat] \notin CmdFrame
    BY FrameType DEF CmdFrame, Beat
  <1>4. PathInv'
    BY <1>1, <1>2, <1>3, QueuePath, StillStep DEF SendFrame
  <1> QED
    BY <1>2, <1>4, StillStep

\* The steps of a call before its frame is queued, and after: the frame is
\* queued once.
LEMMA CallKeeps ==
  ASSUME ServiceInv, HubTypeOK', NEW c \in Cmd, CallStep(c)
  PROVE  PathInv' /\ TruthInv'
  <1>1. HubTypeOK /\ UNCHANGED <<wire, answers, reply, performed>>
    BY DEF ServiceInv, HubInv, CallStep, LookUp, InsertWaiter, Send, SendFails,
           Answered, TimeOut
  <1>2. \A t \in Conn : \A i \in 1..Len(answers'[t]) :
          \E j \in 1..Len(answers[t]) : answers'[t][i] = answers[t][j]
    BY <1>1
  <1>3. \A b \in Cmd : /\ reply'[b] = "ok" => b \in Performed
                       /\ pc[b] = "done" /\ outcome[b] = "ok" => b \in Performed
    BY <1>1 DEF ServiceInv, TruthInv
  <1>4. \A b \in Cmd : b # c => pc'[b] = pc[b] /\ outcome'[b] = outcome[b]
    BY <1>1 DEF CallStep, LookUp, InsertWaiter, Send, SendFails, Answered, TimeOut,
                Return, HubTypeOK
  <1>5. pc'[c] = "done" /\ outcome'[c] = "ok" => c \in Performed
    BY <1>1, <1>3 DEF CallStep, LookUp, InsertWaiter, Send, SendFails, Answered, TimeOut,
                      Return, HubTypeOK
  <1>6. Given \subseteq Given'
    <2>1. c \in Given => c \in Given'
      <3>1. CASE pc[c] \in {"idle", "found", "inserted", "done"}
        BY <1>1, <3>1 DEF Given, CallStep, LookUp, InsertWaiter, Send, SendFails,
                          ReadyToSend, Answered, TimeOut, Return, HubTypeOK
      <3>2. CASE pc[c] = "waiting" /\ Answered(c)
        BY <1>1, <3>2 DEF Given, Answered, Return, HubTypeOK, Reply
      <3>3. CASE pc[c] = "waiting" /\ TimeOut(c)
        BY <1>1, <3>3 DEF Given, TimeOut, Return, HubTypeOK
      <3>4. pc[c] \in PC
        BY <1>1 DEF HubTypeOK
      <3> QED
        BY <3>1, <3>2, <3>3, <3>4
          DEF PC, CallStep, LookUp, InsertWaiter, Send, SendFails, ReadyToSend
    <2> QED
      BY <1>4, <2>1 DEF Given
  <1>7. TruthInv'
    BY <1>1, <1>2, <1>3, <1>4, <1>5, <1>6, QuietTruth
  <1>8. CASE Send(c)
    <2>1. c \notin Given
      BY <1>8 DEF Send, ReadyToSend, Given
    <2>2. c \in Given'
      BY <1>1, <1>8 DEF Send, Return, Given, HubTypeOK
    <2>3. \A f \in CmdFrame : f = [type |-> "cmd", cmd |-> c] => f.cmd = c
      OBVIOUS
    <2>4. via[c] \in Conn
      BY <1>8 DEF Send, ReadyToSend, ServiceInv, HoldInv
    <2> QED
      BY <1>1, <1>6, <1>7, <1>8, <2>1, <2>2, <2>3, <2>4, FrameType, QueuePath DEF Send
  <1>9. CASE ~Send(c)
    <2>1. UNCHANGED Pipe
      BY <1>1, <1>9 DEF Pipe, CallStep, LookUp, InsertWaiter, SendFails, Answered, TimeOut
    <2>2. \A s \in Conn : Cut(Pipe[s], Pipe'[s], 0)
      BY <1>1, <2>1, PipeShape DEF Cut
    <2>3. \A b \in Given : via'[b] = via[b]
      BY <1>1, <1>9 DEF Given, CallStep, LookUp, InsertWaiter, SendFails, Answered, TimeOut,
                        HubTypeOK
    <2> QED
      BY <1>1, <1>6, <1>7, <2>2, <2>3, CutPath
  <1> QED
    BY <1>8, <1>9

\* A call holds a connection from the lookup on.
LEMMA HoldKeeps ==
  ASSUME ServiceInv, NEW c \in Cmd, CallStep(c)
  PROVE  HoldInv'
  <1>1. HubTypeOK /\ conns[target[c]] \in Conn \cup {NoConn}
    BY DEF ServiceInv, HubInv, HubTypeOK
  <1>2. \A b \in Cmd : b # c => pc'[b] = pc[b] /\ via'[b] = via[b] /\ outcome'[b] = outcome[b]
    BY <1>1 DEF CallStep, LookUp, InsertWaiter, Send, SendFails, Answered, TimeOut,
                Return, HubTypeOK
  <1>3. CASE LookUp(c)
    BY <1>1, <1>2, <1>3 DEF LookUp, Return, ServiceInv, HoldInv, HubTypeOK
  <1>4. CASE InsertWaiter(c)
    BY <1>1, <1>2, <1>4 DEF InsertWaiter, ServiceInv, HoldInv, HubTypeOK
  <1>6. CASE Send(c)
    <2>1. pc[c] \in {"found", "inserted"} /\ via'[c] = via[c]
      BY <1>1, <1>6 DEF Send, ReadyToSend
    <2>2. \/ pc'[c] = "waiting" /\ outcome'[c] = outcome[c]
          \/ pc'[c] = "done"
      BY <1>1, <1>6 DEF Send, Return, HubTypeOK
    <2> QED
      BY <1>2, <2>1, <2>2 DEF ServiceInv, HoldInv
  <1>5. CASE SendFails(c) \/ Answered(c) \/ TimeOut(c)
    BY <1>1, <1>2, <1>5
      DEF SendFails, Answered, TimeOut, Return, ServiceInv, HoldInv, HubTypeOK
  <1> QED
    BY <1>3, <1>4, <1>5, <1>6 DEF CallStep

\* The writer moves a frame along; what fails or closes takes frames away.
LEMMA WriterKeeps ==
  ASSUME ServiceInv, HubTypeOK', NEW s \in Conn,
         WriterTake(s) \/ CloseRx(s) \/ CloseSocket(s) \/ Lose(s)
  PROVE  PathInv' /\ TruthInv'
  <1>1. /\ UNCHANGED <<pc, via, outcome, performed, reply>> /\ Given' = Given
        /\ HubTypeOK
        /\ \A t \in Conn : t # s => Pipe'[t] = Pipe[t]
    BY DEF WriterTake, CloseRx, CloseSocket, Lose, Given, Pipe, ServiceInv, HubInv, HubTypeOK
  <1>2. \A t \in Conn : \A i \in 1..Len(answers'[t]) :
          \E j \in 1..Len(answers[t]) : answers'[t][i] = answers[t][j]
    <2>1. \A t \in Conn : answers'[t] = answers[t] \/ answers'[t] = <<>>
      BY <1>1 DEF WriterTake, CloseRx, CloseSocket, Lose, HubTypeOK
    <2> QED
      BY <2>1
  <1>3. \A b \in Cmd : /\ reply'[b] = "ok" => b \in Performed
                       /\ pc'[b] = "done" /\ outcome'[b] = "ok" => b \in Performed
    BY <1>1 DEF ServiceInv, TruthInv
  <1>4. TruthInv'
    BY <1>1, <1>2, <1>3, QuietTruth
  <1> DEFINE q == wire[s]
             r == chan[s]
  <1>5. q \in Seq(Frame) /\ r \in Seq(Frame) /\ Len(q) \in Nat /\ Len(r) \in Nat
    BY <1>1 DEF HubTypeOK
  <1>10. /\ Len(Pipe[s]) = Len(q) + Len(r)
        /\ \A i \in 1..Len(Pipe[s]) :
             Pipe[s][i] = IF i <= Len(q) THEN q[i] ELSE r[i - Len(q)]
    BY <1>1, PipeShape
  <1> HIDE DEF q, r
  <1>6. \E n \in Nat : Cut(Pipe[s], Pipe'[s], n)
    <2>1. CASE WriterTake(s)
      <3>1. /\ chan'[s] = Tail(r) /\ wire'[s] = Append(q, Head(r)) /\ r # <<>>
        BY <1>1, <2>1 DEF WriterTake, HubTypeOK, q, r
      <3>2. Append(q, Head(r)) \o Tail(r) = q \o r
        BY <1>5, <3>1, MoveAcross
      <3>3. Pipe'[s] = Pipe[s]
        BY <3>1, <3>2 DEF Pipe, q, r
      <3>4. Cut(Pipe[s], Pipe'[s], 0)
        BY <1>1, <3>3, PipeShape DEF Cut
      <3> QED
        BY <3>4
    <2>2. CASE CloseRx(s) \/ CloseSocket(s)
      <3>1. chan'[s] = <<>> /\ wire'[s] = q
        BY <1>1, <2>2 DEF CloseRx, CloseSocket, HubTypeOK, q
      <3>2. Pipe'[s] = q
        BY <1>5, <3>1, MoveAcross DEF Pipe
      <3>3. Cut(Pipe[s], Pipe'[s], 0)
        BY <1>5, <1>10, <3>2 DEF Cut
      <3> QED
        BY <3>3
    <2>3. CASE Lose(s)
      <3>1. wire'[s] = <<>> /\ chan'[s] = r
        BY <1>1, <2>3 DEF Lose, HubTypeOK, r
      <3>2. Pipe'[s] = r
        BY <1>5, <3>1, MoveAcross DEF Pipe
      <3>3. Pipe[s] = q \o r
        BY DEF Pipe, q, r
      <3>4. Len(q) \in Nat /\ Cut(Pipe[s], Pipe'[s], Len(q))
        BY <1>5, <3>2, <3>3, CutFirst
      <3> QED
        BY <3>4
    <2> QED
      BY <2>1, <2>2, <2>3
  <1>7. \A t \in Conn : t # s => Cut(Pipe[t], Pipe'[t], 0)
    BY <1>1, PipeShape DEF Cut
  <1>8. \A t \in Conn : \E n \in Nat : Cut(Pipe[t], Pipe'[t], n)
    BY <1>6, <1>7
  <1>9. PathInv'
    BY <1>1, <1>8, CutPath
  <1> QED
    BY <1>4, <1>9

\* So does a path that loses what it carries towards the phone.
LEMMA LossKeeps ==
  ASSUME ServiceInv, HubTypeOK', NEW S, LoseDown(S)
  PROVE  PathInv' /\ TruthInv'
  <1>1. UNCHANGED <<pc, via, outcome, performed, answers, reply>> /\ Given' = Given /\ HubTypeOK
    BY DEF LoseDown, Given, ServiceInv, HubInv
  <1>2. ASSUME NEW t \in Conn
        PROVE  \E n \in Nat : Cut(Pipe[t], Pipe'[t], n)
    <2>1. wire[t] \in Seq(Frame) /\ chan[t] \in Seq(Frame) /\ Pipe[t] = wire[t] \o chan[t]
      BY <1>1 DEF HubTypeOK, Pipe
    <2>2. CASE t \in S
      <3>1. Pipe'[t] = <<>> \o chan[t]
        BY <2>2 DEF LoseDown, Pipe
      <3>2. Len(wire[t]) \in Nat /\ Cut(Pipe[t], Pipe'[t], Len(wire[t]))
        BY <2>1, <3>1, MoveAcross, CutFirst
      <3> QED
        BY <3>2
    <2>3. CASE t \notin S
      <3>1. Pipe'[t] = Pipe[t]
        BY <2>3 DEF LoseDown, Pipe
      <3>2. Cut(Pipe[t], Pipe'[t], 0)
        BY <1>1, <3>1, PipeShape DEF Cut
      <3> QED
        BY <3>2
    <2> QED
      BY <2>2, <2>3
  <1>3. PathInv'
    BY <1>1, <1>2, CutPath
  <1> QED
    BY <1>1, <1>3, StillStep

\* The phone carries a command out: its frame was the only one, so nothing of
\* it is left under way.
LEMMA PhoneKeeps ==
  ASSUME ServiceInv, HubTypeOK', NEW s \in Conn, NEW heard \in BOOLEAN, PhoneHandle(s, heard)
  PROVE  PathInv' /\ TruthInv'
  <1> DEFINE f == Head(wire[s])
  <1>1. /\ UNCHANGED <<pc, via, outcome, reply, chan>> /\ Given' = Given /\ HubTypeOK
        /\ wire[s] \in Seq(Frame) /\ wire[s] # <<>> /\ chan[s] \in Seq(Frame)
    BY DEF PhoneHandle, Given, ServiceInv, HubInv, HubTypeOK
  <1>2. f \in Frame /\ f = Pipe[s][1] /\ 1 \in 1..Len(Pipe[s])
    <2>1. Pipe[s] = wire[s] \o chan[s]
      BY DEF Pipe
    <2> QED
      BY <1>1, <2>1, CutHead
  <1>3. f \in CmdFrame => /\ f.cmd \in Given /\ via[f.cmd] = s /\ performed[f.cmd] = 0
                          /\ \A j \in 1..Len(Pipe[s]) : Pipe[s][j] = f => j = 1
    BY <1>2 DEF ServiceInv, PathInv
  <1>4. Cut(Pipe[s], Pipe'[s], 1) /\ \A t \in Conn : t # s => Pipe'[t] = Pipe[t]
    <2>1. wire'[s] = Tail(wire[s]) /\ \A t \in Conn : t # s => wire'[t] = wire[t]
      BY <1>1 DEF PhoneHandle, HubTypeOK
    <2>2. Pipe[s] = wire[s] \o chan[s] /\ Pipe'[s] = Tail(wire[s]) \o chan[s]
      BY <1>1, <2>1 DEF Pipe
    <2>3. Cut(wire[s] \o chan[s], Tail(wire[s]) \o chan[s], 1)
      BY <1>1, CutHead
    <2> QED
      BY <1>1, <2>1, <2>2, <2>3 DEF Pipe
  <1>7. \/ UNCHANGED <<performed, answers>>
        \/ /\ f.type = "cmd"
           /\ \E ok \in BOOLEAN :
                /\ performed' = IF ok THEN [performed EXCEPT ![f.cmd] = @ + 1] ELSE performed
                /\ \/ UNCHANGED answers
                   \/ answers' = [answers EXCEPT ![s] =
                                     Append(@, [cmd |-> f.cmd, ok |-> ok])]
    BY DEF PhoneHandle
  <1>5. \A c \in Cmd : performed'[c] = performed[c] \/ (f \in CmdFrame /\ c = f.cmd /\ performed'[c] = 1)
    <2>1. f \in CmdFrame => f.cmd \in Cmd
      BY <1>2, FrameType DEF CmdFrame
    <2>2. CASE UNCHANGED performed
      BY <2>2
    <2>3. CASE f.type = "cmd" /\ performed' = [performed EXCEPT ![f.cmd] = @ + 1]
      BY <1>1, <1>2, <1>3, <2>1, <2>3 DEF CmdFrame, HubTypeOK
    <2> QED
      BY <1>7, <2>2, <2>3
  <1>6. PathInv'
    <2>1. \A t \in Conn : \E n \in Nat : Cut(Pipe[t], Pipe'[t], n)
      <3>1. \A t \in Conn : t # s => Cut(Pipe[t], Pipe'[t], 0)
        BY <1>1, <1>4, PipeShape DEF Cut
      <3> QED
        BY <1>4, <3>1
    <2>2. ASSUME NEW t \in Conn, NEW i \in 1..Len(Pipe'[t]), Pipe'[t][i] \in CmdFrame
          PROVE  performed'[Pipe'[t][i].cmd] = performed[Pipe'[t][i].cmd]
      <3>1. Pipe'[t][i].cmd \in Cmd
        BY <2>2, FrameType DEF CmdFrame
      <3>2. CASE t = s
        <4>1. i + 1 \in 1..Len(Pipe[s]) /\ Pipe'[s][i] = Pipe[s][i + 1]
          BY <1>4, <3>2 DEF Cut
        <4>2. f \in CmdFrame => Pipe[s][i + 1] # f
          BY <1>3, <4>1
        <4>3. f \in CmdFrame => f.cmd # Pipe'[s][i].cmd
          BY <2>2, <3>2, <4>1, <4>2 DEF CmdFrame, Frame, Beat
        <4> QED
          BY <1>5, <3>1, <3>2, <4>3
      <3>3. CASE t # s
        <4>1. i \in 1..Len(Pipe[t]) /\ Pipe'[t][i] = Pipe[t][i]
          BY <1>4, <3>3
        <4>2. via[Pipe'[t][i].cmd] = t
          BY <2>2, <4>1 DEF ServiceInv, PathInv
        <4> QED
          BY <1>3, <1>5, <3>1, <3>3, <4>2
      <3> QED
        BY <3>2, <3>3
    <2> QED
      BY <1>1, <2>1, <2>2, CutPath
  <1>8. TruthInv'
    <2>1. Performed \subseteq Performed'
      BY <1>5, <1>3 DEF Performed
    <2>2. (\A c \in Cmd : performed'[c] \in {0, 1}) /\ Performed' \subseteq Given'
      BY <1>1, <1>3, <1>5 DEF ServiceInv, TruthInv, Performed
    <2>3. ASSUME NEW t \in Conn, NEW i \in 1..Len(answers'[t]), answers'[t][i].ok
          PROVE  answers'[t][i].cmd \in Performed'
      <3>1. CASE i \in 1..Len(answers[t]) /\ answers'[t][i] = answers[t][i]
        BY <2>1, <2>3, <3>1 DEF ServiceInv, TruthInv
      <3>2. CASE ~(i \in 1..Len(answers[t]) /\ answers'[t][i] = answers[t][i])
        <4>1. PICK ok \in BOOLEAN :
                /\ f.type = "cmd"
                /\ performed' = IF ok THEN [performed EXCEPT ![f.cmd] = @ + 1] ELSE performed
                /\ answers' = [answers EXCEPT ![s] = Append(@, [cmd |-> f.cmd, ok |-> ok])]
          BY <1>7, <3>2
        <4>2. f.cmd \in Cmd /\ f \in CmdFrame
          BY <1>2, <4>1, FrameType DEF CmdFrame
        <4> HIDE DEF f
        <4>3. answers[s] \in Seq(Answer) /\ [cmd |-> f.cmd, ok |-> ok] \in Answer
          BY <1>1, <4>2 DEF HubTypeOK, Answer
        <4>4. t = s /\ answers'[s] = Append(answers[s], [cmd |-> f.cmd, ok |-> ok])
          BY <1>1, <3>2, <4>1 DEF HubTypeOK
        <4>5. i = Len(answers[s]) + 1 /\ answers'[s][i] = [cmd |-> f.cmd, ok |-> ok]
          BY <3>2, <4>3, <4>4
        <4>6. ok
          BY <2>3, <4>4, <4>5
        <4>7. performed'[f.cmd] = 1
          BY <1>1, <1>3, <4>1, <4>2, <4>6 DEF HubTypeOK
        <4> QED
          BY <4>2, <4>4, <4>5, <4>7 DEF Performed
      <3> QED
        BY <3>1, <3>2
    <2> QED
      BY <1>1, <2>1, <2>2, <2>3 DEF ServiceInv, TruthInv
  <1> QED
    BY <1>6, <1>8

\* Nothing is under way when the daemon starts.
LEMMA ServiceInit == HubInit => ServiceInv
  <1> SUFFICES ASSUME HubInit
               PROVE  ServiceInv
    OBVIOUS
  <1>1. HubInv
    BY HubInitInv
  <1>2. HoldInv
    BY DEF HubInit, HoldInv
  <1>3. \A s \in Conn : Pipe[s] = <<>>
    BY DEF HubInit, Pipe
  <1>4. PathInv
    BY <1>3 DEF PathInv
  <1>5. Performed = {}
    BY DEF HubInit, Performed
  <1>6. TruthInv
    BY <1>5 DEF HubInit, TruthInv, Given
  <1> QED
    BY <1>1, <1>2, <1>4, <1>6 DEF ServiceInv

\* Every step of the hub keeps the invariant.
LEMMA ServiceStep ==
  ASSUME ServiceInv, [HubNext]_hubVars
  PROVE  ServiceInv'
  <1>1. HubInv' /\ HubTypeOK'
    BY HubStep DEF ServiceInv, HubInv
  <1>2. HoldInv'
    <2>1. CASE UNCHANGED <<pc, via, outcome>>
      BY <2>1 DEF ServiceInv, HoldInv
    <2>2. ASSUME NEW c \in Cmd, CallStep(c)
          PROVE  HoldInv'
      BY <2>2, HoldKeeps
    <2>3. CASE HubNext /\ ~\E c \in Cmd : CallStep(c)
      BY <2>1, <2>3 DEF HubNext, Register, Unregister, TakePermit, ResolveAck, WriterTake,
                        CloseRx, CloseSocket, Lose, PhoneHandle, DropDevice, SendFrame, LoseDown
    <2> QED
      BY <2>1, <2>2, <2>3
  <1>3. PathInv' /\ TruthInv'
    <2>1. CASE UNCHANGED hubVars
      BY <1>1, <2>1, StillStep
    <2>2. CASE HubNext
      BY <1>1, <2>2, TableKeeps, AckKeeps, BeatKeeps, CallKeeps, WriterKeeps, LossKeeps,
         PhoneKeeps DEF HubNext
    <2> QED
      BY <2>1, <2>2
  <1> QED
    BY <1>1, <1>2, <1>3 DEF ServiceInv

-----------------------------------------------------------------------------
(* The steps of the hub as steps of the service.                           *)

\* What the caller of each command knows.
Known == [c \in Cmd |-> StatusOf(c)]

\* It is a function of how far the call has got and of what it returned.
KnownInv ==
  \A c \in Cmd :
    /\ pc[c] = "idle" => Known[c] = "idle"
    /\ pc[c] \in {"found", "inserted", "waiting"} => Known[c] = "pending"
    /\ pc[c] = "done" =>
         /\ outcome[c] \in {"ok", "sent"} => Known[c] = outcome[c]
         /\ outcome[c] \in {"closed", "not_connected"} => Known[c] = "rejected"
         /\ outcome[c] \notin {"ok", "sent", "closed", "not_connected"} => Known[c] = "failed"

\* It follows from what a call holds at each stage.
LEMMA KnownIs == HoldInv => KnownInv
  <1> SUFFICES ASSUME HoldInv, NEW c \in Cmd
               PROVE  /\ pc[c] = "idle" => Known[c] = "idle"
                      /\ pc[c] \in {"found", "inserted", "waiting"} => Known[c] = "pending"
                      /\ pc[c] = "done" =>
                           /\ outcome[c] \in {"ok", "sent"} => Known[c] = outcome[c]
                           /\ outcome[c] \in {"closed", "not_connected"} => Known[c] = "rejected"
                           /\ outcome[c] \notin {"ok", "sent", "closed", "not_connected"} =>
                                Known[c] = "failed"
    BY DEF KnownInv
  <1>1. Known[c] = StatusOf(c)
    BY DEF Known
  <1>2. pc[c] = "idle" => StatusOf(c) = "idle"
    BY DEF StatusOf, HoldInv
  <1>3. pc[c] \in {"found", "inserted", "waiting"} => StatusOf(c) = "pending"
    BY DEF StatusOf, HoldInv
  <1>4. ASSUME pc[c] = "done", outcome[c] \in {"ok", "sent"}
        PROVE  StatusOf(c) = outcome[c]
    BY <1>4 DEF StatusOf
  <1>5. ASSUME pc[c] = "done", outcome[c] \in {"closed", "not_connected"}
        PROVE  StatusOf(c) = "rejected"
    BY <1>5 DEF StatusOf
  <1>6. ASSUME pc[c] = "done", outcome[c] \notin {"ok", "sent", "closed", "not_connected"}
        PROVE  StatusOf(c) = "failed"
    BY <1>6 DEF StatusOf
  <1> QED
    BY <1>1, <1>2, <1>3, <1>4, <1>5, <1>6

\* In the next state too.
LEMMA KnownNext == HoldInv' => KnownInv'
  BY KnownIs, PTL

\* A step that moves no caller and performs nothing is no step of the service.
LEMMA Stutters ==
  ASSUME UNCHANGED <<pc, outcome, performed>>
  PROVE  UNCHANGED <<Known, performed>>
  BY DEF Known, StatusOf

\* A step of a call changes what its own caller knows and nobody else.
LEMMA KnownMoves ==
  ASSUME HubTypeOK, NEW c \in Cmd, CallStep(c)
  PROVE  Known' = [Known EXCEPT ![c] = Known'[c]] /\ UNCHANGED performed
  <1>1. \A b \in Cmd : b # c => pc'[b] = pc[b] /\ outcome'[b] = outcome[b]
    BY DEF CallStep, LookUp, InsertWaiter, Send, SendFails, Answered, TimeOut,
           Return, HubTypeOK
  <1>2. \A b \in Cmd : b # c => Known'[b] = Known[b]
    BY <1>1 DEF Known, StatusOf
  <1>3. UNCHANGED performed
    BY DEF CallStep, LookUp, InsertWaiter, Send, SendFails, Answered, TimeOut
  <1> QED
    BY <1>2, <1>3 DEF Known

\* LookUp submits or rejects; a send that nobody waits for hands off; a failed
\* send rejects; an answer or a timeout ends the call; the rest moves nothing.
LEMMA CallIsService ==
  ASSUME ServiceInv, NEW c \in Cmd, CallStep(c)
  PROVE  [Service!SvcNext]_(Service!svcVars)
  <1>0. KnownInv /\ KnownInv'
    BY HoldKeeps, KnownIs, KnownNext DEF ServiceInv
  <1>1. HubTypeOK /\ Known' = [Known EXCEPT ![c] = Known'[c]] /\ UNCHANGED performed
    BY KnownMoves DEF ServiceInv, HubInv
  <1>2. c \in Given \/ performed[c] = 0
    BY DEF ServiceInv, TruthInv, Performed
  <1>3. CASE LookUp(c)
    <2>1. pc[c] = "idle" /\ Known[c] = "idle" /\ performed[c] = 0
      BY <1>0, <1>2, <1>3 DEF LookUp, Given, KnownInv
    <2>2. \/ Known'[c] = "rejected"
          \/ Known'[c] = "pending"
      BY <1>0, <1>1, <1>3 DEF LookUp, Return, HubTypeOK, KnownInv
    <2> QED
      BY <1>1, <2>1, <2>2 DEF Service!SvcNext, Service!Submit, Service!Reject, Known
  <1>4. CASE InsertWaiter(c)
    <2>1. Known[c] = "pending" /\ Known'[c] = "pending"
      BY <1>0, <1>1, <1>4 DEF InsertWaiter, HubTypeOK, KnownInv
    <2> QED
      BY <1>1, <2>1 DEF Service!svcVars, Known
  <1>5. CASE Send(c)
    <2>1. Known[c] = "pending"
      BY <1>0, <1>5 DEF Send, ReadyToSend, KnownInv
    <2>2. Known'[c] = "pending" \/ Known'[c] = "sent"
      BY <1>0, <1>1, <1>5 DEF Send, Return, HubTypeOK, KnownInv
    <2> QED
      BY <1>1, <2>1, <2>2 DEF Service!SvcNext, Service!HandOff, Service!svcVars, Known
  <1>6. CASE SendFails(c)
    <2>1. Known[c] = "pending" /\ performed[c] = 0
      BY <1>0, <1>2, <1>6 DEF SendFails, ReadyToSend, Given, KnownInv
    <2>2. Known'[c] = "rejected"
      BY <1>0, <1>1, <1>6 DEF SendFails, Return, HubTypeOK, KnownInv
    <2> QED
      BY <1>1, <2>1, <2>2 DEF Service!SvcNext, Service!Reject, Known
  <1>7. CASE Answered(c)
    <2>1. Known[c] = "pending" /\ (reply[c] = "ok" => performed[c] = 1)
      BY <1>0, <1>7 DEF Answered, KnownInv, ServiceInv, TruthInv, Performed
    <2>2. \/ Known'[c] = "ok" /\ reply[c] = "ok"
          \/ Known'[c] = "failed"
      BY <1>0, <1>1, <1>7 DEF Answered, Return, HubTypeOK, KnownInv, Reply
    <2> QED
      BY <1>1, <2>1, <2>2 DEF Service!SvcNext, Service!Succeed, Service!Fail, Known
  <1>8. CASE TimeOut(c)
    <2>1. Known[c] = "pending" /\ Known'[c] = "failed"
      BY <1>0, <1>1, <1>8 DEF TimeOut, Return, HubTypeOK, KnownInv
    <2> QED
      BY <1>1, <2>1 DEF Service!SvcNext, Service!Fail, Known
  <1> QED
    BY <1>3, <1>4, <1>5, <1>6, <1>7, <1>8 DEF CallStep

\* The phone performs a command that is pending, handed off or given up.
LEMMA PhoneIsService ==
  ASSUME ServiceInv, NEW s \in Conn, NEW heard \in BOOLEAN, PhoneHandle(s, heard)
  PROVE  [Service!SvcNext]_(Service!svcVars)
  <1> DEFINE f == Head(wire[s])
  <1>1. UNCHANGED <<pc, outcome>> /\ UNCHANGED Known
    BY DEF PhoneHandle, Known, StatusOf
  <1>2. HubTypeOK /\ wire[s] \in Seq(Frame) /\ wire[s] # <<>> /\ chan[s] \in Seq(Frame)
    BY DEF PhoneHandle, ServiceInv, HubInv, HubTypeOK
  <1>3. f \in Frame /\ f = Pipe[s][1] /\ 1 \in 1..Len(Pipe[s])
    <2>1. Pipe[s] = wire[s] \o chan[s]
      BY DEF Pipe
    <2> QED
      BY <1>2, <2>1, CutHead
  <1>4. CASE UNCHANGED performed
    BY <1>1, <1>4 DEF Service!svcVars, Known
  <1>5. CASE f.type = "cmd" /\ performed' = [performed EXCEPT ![f.cmd] = @ + 1]
    <2>1. f \in CmdFrame /\ f.cmd \in Cmd
      BY <1>3, <1>5, FrameType DEF CmdFrame
    <2>2. f.cmd \in Given /\ performed[f.cmd] = 0
      BY <1>3, <2>1 DEF ServiceInv, PathInv
    <2>3. performed' = [performed EXCEPT ![f.cmd] = 1]
      BY <1>2, <1>5, <2>1, <2>2 DEF HubTypeOK
    <2> HIDE DEF f
    <2>4. Known[f.cmd] \in {"pending", "sent", "failed"}
      BY <2>1, <2>2, KnownIs DEF Given, KnownInv, ServiceInv, TruthInv, Performed
    <2> QED
      BY <1>1, <2>1, <2>2, <2>3, <2>4 DEF Service!SvcNext, Service!Perform, Known
  <1>6. \/ UNCHANGED performed
        \/ f.type = "cmd" /\ performed' = [performed EXCEPT ![f.cmd] = @ + 1]
    BY DEF PhoneHandle
  <1> QED
    BY <1>4, <1>5, <1>6

\* The hub (hub.rs) implements the command service: for any number of devices,
\* sockets and commands and any queue lengths, and whatever is lost, dropped or
\* superseded, a command is performed at most once, "ok" is reported only after
\* it, and one that the caller is told did not go out is never performed.
THEOREM HubImplementsService == HubSpec => HubRefinesService
  <1>1. HubInit => ServiceInv /\ Service!SvcInit
    BY ServiceInit DEF HubInit, Service!SvcInit, StatusOf
  <1>2. ServiceInv /\ [HubNext]_hubVars => ServiceInv'
    BY ServiceStep
  <1>3. ServiceInv /\ [HubNext]_hubVars => [Service!SvcNext]_(Service!svcVars)
    <2> SUFFICES ASSUME ServiceInv, [HubNext]_hubVars
                 PROVE  [Service!SvcNext]_(Service!svcVars)
      OBVIOUS
    <2>1. CASE UNCHANGED <<pc, outcome, performed>>
      BY <2>1, Stutters DEF Service!svcVars, Known
    <2>2. ASSUME NEW c \in Cmd, CallStep(c)
          PROVE  [Service!SvcNext]_(Service!svcVars)
      BY <2>2, CallIsService
    <2>3. ASSUME NEW s \in Conn, NEW heard \in BOOLEAN, PhoneHandle(s, heard)
          PROVE  [Service!SvcNext]_(Service!svcVars)
      BY <2>3, PhoneIsService
    <2>4. ASSUME HubNext, ~\E c \in Cmd : CallStep(c),
                 ~\E s \in Conn, heard \in BOOLEAN : PhoneHandle(s, heard)
          PROVE  UNCHANGED <<pc, outcome, performed>>
      BY <2>4 DEF HubNext, Register, Unregister, TakePermit, ResolveAck, WriterTake,
                  CloseRx, CloseSocket, Lose, DropDevice, SendFrame, LoseDown
    <2> QED
      BY <2>1, <2>2, <2>3, <2>4
  <1> QED
    BY <1>1, <1>2, <1>3, PTL DEF HubSpec, HubRefinesService, Service!SvcSpec
=============================================================================
