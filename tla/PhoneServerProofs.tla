------------------------- MODULE PhoneServerProofs -------------------------
(***************************************************************************)
(* Proofs about the phone server.  First, every step of the server and the *)
(* phone is, for the hub, a step of its specification: what HubProofs      *)
(* shows of the hub holds of it here.  Then, with the hub's variables      *)
(* known to be well typed, the two invariants that tie each handler's      *)
(* progress to the hub's table.                                            *)
(***************************************************************************)
EXTENDS PhoneServer, ServiceProofs

\* A handler that has registered has made its channel, so that the end of the
\* handler closes a channel there is.
Opened == {"registered", "recorded", "reading", "leaving", "unregistered", "finishing"}

ChannelMade == \A s \in Conn : stage[s] \in Opened => rx[s] # "unborn"

\* The handler's and the phone's own variables have their types.
OwnTypeOK ==
  /\ stage \in [Conn -> Stage]
  /\ aborting \in [Conn -> BOOLEAN]
  /\ instances \in [Device -> 0..MaxInstance]
  /\ rec \in [Device -> Conn \cup {NoConn}]
  /\ fresh \in [Device -> BOOLEAN]
  /\ reaped \subseteq Device
  /\ link \in [Conn -> {"down", "up", "dead"}]
  /\ phoneEnd \in [Conn -> {"none", "open", "closed", "gone"}]
  /\ beat \in [Conn -> BOOLEAN]
  /\ beats \in [Device -> 0..MaxBeat]
  /\ ws \in [Device -> Conn \cup {NoConn}]
  /\ process \in [Device -> 1..MaxInstance]
  /\ helloFrom \in [Conn -> 0..MaxInstance]

ServerInv == HubInv /\ OwnTypeOK /\ ChannelMade

\* The invariant contains the types.
LEMMA ServerInvTypeOK == ServerInv => TypeOK
  BY DEF ServerInv, OwnTypeOK, HubInv, TypeOK

USE DEF connVars, callVars, netVars, hubVars, handlerVars, regVars, phoneVars, vars

-----------------------------------------------------------------------------

\* Each step of handle_conn is a step of the hub or none.
LEMMA HandlerIsHub ==
  ASSUME ServerInv, NEW s \in Conn, Handler(s)
  PROVE  [HubNext]_hubVars
  <1>1. HangupOf[s] \in Cmd /\ DeviceOf[s] \in Device
    BY HangupAssumption, ConnAssumption DEF Cmd
  <1>2. CASE Finish(s)
    BY <1>2 DEF Finish, ServerInv, ChannelMade, Opened, HubNext
  <1>3. CASE Hello(s) \/ RejectHello(s) \/ Upsert(s) \/ StartReading(s)
               \/ StopReading(s) \/ RemoveRecord(s)
    BY <1>3 DEF Hello, RejectHello, Upsert, StartReading, StopReading, RemoveRecord
  <1>4. CASE DoRegister(s) \/ ReadAnswer(s) \/ Cancelled(s) \/ DoUnregister(s)
    BY <1>4 DEF DoRegister, ReadAnswer, Cancelled, DoUnregister, HubNext
  <1>5. CASE FireHangup(s) \/ ReadBeat(s)
    BY <1>1, <1>5 DEF FireHangup, ReadBeat, HubNext
  <1> QED
    BY <1>2, <1>3, <1>4, <1>5 DEF Handler

\* So is each step of writer, phones, network, reaper and callers.
LEMMA OtherIsHub ==
  ASSUME Next, ~ \E s \in Conn : Handler(s)
  PROVE  [HubNext]_hubVars
  <1>1. ASSUME NEW s \in Conn,
               Write(s) \/ WriteFails(s) \/ Handle(s) \/ SendBeat(s)
                 \/ Dropped(s) \/ Break(s)
        PROVE  [HubNext]_hubVars
    <2>1. {s} \in SUBSET Conn /\ (phoneEnd[s] = "open") \in BOOLEAN
      OBVIOUS
    <2> QED
      BY <1>1, <2>1 DEF Write, WriteFails, Handle, SendBeat, Dropped, Break, HubNext
  <1>2. ASSUME NEW d \in Device,
               GoStale(d) \/ ReapDrop(d) \/ Connect(d) \/ ForceReconnect(d) \/ Relaunch(d)
        PROVE  [HubNext]_hubVars
    <2>1. {s \in Conn : DeviceOf[s] = d /\ phoneEnd[s] # "none"} \in SUBSET Conn
      OBVIOUS
    <2>2. CASE Relaunch(d)
      BY <2>1, <2>2 DEF Relaunch, HubNext
    <2> QED
      BY <1>2, <2>2 DEF GoStale, ReapDrop, Connect, ForceReconnect, HubNext
  <1>3. CASE ReapScan
    BY <1>3 DEF ReapScan
  <1>4. ASSUME NEW c \in Command, Call(c)
        PROVE  [HubNext]_hubVars
    BY <1>4 DEF Call, HubNext, Cmd
  <1> QED
    BY <1>1, <1>2, <1>3, <1>4 DEF Next

\* So is every step of the phone server.
LEMMA ServerIsHub ==
  ASSUME ServerInv, [Next]_vars
  PROVE  [HubNext]_hubVars
  BY HandlerIsHub, OtherIsHub

-----------------------------------------------------------------------------

\* The types of what a handler changes beside the hub.
LEMMA HandlerOwnType ==
  ASSUME ServerInv, NEW s \in Conn, Handler(s)
  PROVE  OwnTypeOK'
  <1> USE DEF Goto, Stage, OwnTypeOK
  <1>1. OwnTypeOK /\ DeviceOf[s] \in Device
    BY ConnAssumption DEF ServerInv
  <1>2. CASE Hello(s)
    BY <1>1, <1>2 DEF Hello
  <1>3. CASE RejectHello(s) \/ DoRegister(s) \/ FireHangup(s) \/ StartReading(s)
               \/ StopReading(s) \/ ReadAnswer(s) \/ Cancelled(s) \/ DoUnregister(s)
    BY <1>1, <1>3
      DEF RejectHello, DoRegister, FireHangup, StartReading, StopReading,
          ReadAnswer, Cancelled, DoUnregister
  <1>4. CASE Upsert(s)
    BY <1>1, <1>4 DEF Upsert
  <1>5. CASE ReadBeat(s)
    BY <1>1, <1>5 DEF ReadBeat
  <1>6. CASE RemoveRecord(s)
    BY <1>1, <1>6 DEF RemoveRecord
  <1>7. CASE Finish(s)
    BY <1>1, <1>7 DEF Finish
  <1> QED
    BY <1>2, <1>3, <1>4, <1>5, <1>6, <1>7 DEF Handler

\* The types of what the other steps change beside the hub.
LEMMA OtherOwnType ==
  ASSUME OwnTypeOK, Next, ~ \E s \in Conn : Handler(s)
  PROVE  OwnTypeOK'
  <1> USE BoundAssumption, ConnAssumption DEF OwnTypeOK
  <1>1. ASSUME NEW s \in Conn,
               Write(s) \/ WriteFails(s) \/ Handle(s) \/ SendBeat(s)
                 \/ Dropped(s) \/ Break(s)
        PROVE  OwnTypeOK'
    <2>1. CASE Write(s) \/ WriteFails(s) \/ Handle(s)
      BY <2>1 DEF Write, WriteFails, Handle
    <2>2. CASE SendBeat(s)
      BY <2>2 DEF SendBeat
    <2>3. CASE Dropped(s)
      BY <2>3 DEF Dropped
    <2>4. CASE Break(s)
      BY <2>4 DEF Break
    <2> QED
      BY <1>1, <2>1, <2>2, <2>3, <2>4
  <1>2. ASSUME NEW d \in Device,
               GoStale(d) \/ ReapDrop(d) \/ Connect(d) \/ ForceReconnect(d) \/ Relaunch(d)
        PROVE  OwnTypeOK'
    <2>1. CASE GoStale(d)
      BY <2>1 DEF GoStale
    <2>2. CASE ReapDrop(d)
      BY <2>2 DEF ReapDrop
    <2>3. CASE Connect(d)
      BY <2>3 DEF Connect, Unused, Goto, Stage
    <2>4. CASE ForceReconnect(d)
      BY <2>4 DEF ForceReconnect
    <2>5. CASE Relaunch(d)
      BY <2>5 DEF Relaunch
    <2> QED
      BY <1>2, <2>1, <2>2, <2>3, <2>4, <2>5
  <1>3. CASE ReapScan
    BY <1>3 DEF ReapScan, Stale
  <1>4. ASSUME NEW c \in Command, Call(c)
        PROVE  OwnTypeOK'
    BY <1>4 DEF Call
  <1> QED
    BY <1>1, <1>2, <1>3, <1>4 DEF Next

-----------------------------------------------------------------------------

\* A channel once made is never unmade.
LEMMA RxStays ==
  ASSUME HubTypeOK, [HubNext]_hubVars, NEW s \in Conn, rx[s] # "unborn"
  PROVE  rx'[s] # "unborn"
  <1>1. rx \in [Conn -> {"unborn", "open", "closed"}]
    BY DEF HubTypeOK
  <1>2. ASSUME NEW t \in Conn, Register(t) \/ CloseRx(t) \/ CloseSocket(t)
        PROVE  rx'[s] # "unborn"
    BY <1>1, <1>2 DEF Register, CloseRx, CloseSocket
  <1>3. ASSUME NEW t \in Conn,
               \/ Unregister(t) \/ TakePermit(t) \/ ResolveAck(t) \/ WriterTake(t)
               \/ Lose(t) \/ \E heard \in BOOLEAN : PhoneHandle(t, heard)
        PROVE  UNCHANGED rx
    BY <1>3 DEF Unregister, TakePermit, ResolveAck, WriterTake, Lose, PhoneHandle
  <1>4. ASSUME NEW d \in Device, DropDevice(d) \/ SendFrame(d)
        PROVE  UNCHANGED rx
    BY <1>4 DEF DropDevice, SendFrame
  <1>5. ASSUME NEW S \in SUBSET Conn, LoseDown(S)
        PROVE  UNCHANGED rx
    BY <1>5 DEF LoseDown
  <1>6. ASSUME NEW c \in Cmd, CallStep(c)
        PROVE  UNCHANGED rx
    <2>1. CASE LookUp(c) \/ InsertWaiter(c) \/ Send(c)
      BY <2>1 DEF LookUp, InsertWaiter, Send
    <2>2. CASE SendFails(c) \/ Answered(c) \/ TimeOut(c)
      BY <2>2 DEF SendFails, Answered, TimeOut
    <2> QED
      BY <1>6, <2>1, <2>2 DEF CallStep
  <1>7. CASE HubNext
    BY <1>2, <1>3, <1>4, <1>5, <1>6, <1>7 DEF HubNext
  <1>8. CASE UNCHANGED hubVars
    BY <1>8
  <1> QED
    BY <1>7, <1>8

\* A handler's progress is its own: no other step moves it, but the connecting
\* phone that starts it.
LEMMA StageMoves ==
  ASSUME OwnTypeOK, [Next]_vars, NEW t \in Conn, stage'[t] # stage[t]
  PROVE  Handler(t) \/ (stage[t] = "unused" /\ stage'[t] = "accepted")
  <1> USE DEF OwnTypeOK, Goto
  <1>1. ASSUME NEW s \in Conn, Handler(s), s # t
        PROVE  FALSE
    BY <1>1 DEF Handler, Hello, RejectHello, DoRegister, Upsert, FireHangup, StartReading,
                ReadBeat, ReadAnswer, StopReading, Cancelled, DoUnregister, RemoveRecord,
                Finish
  <1>2. ASSUME NEW s \in Conn, Write(s) \/ WriteFails(s) \/ Handle(s) \/ SendBeat(s)
                                 \/ Dropped(s) \/ Break(s)
        PROVE  FALSE
    BY <1>2 DEF Write, WriteFails, Handle, SendBeat, Dropped, Break
  <1>3. ASSUME NEW d \in Device, GoStale(d) \/ ReapDrop(d) \/ ForceReconnect(d) \/ Relaunch(d)
        PROVE  FALSE
    BY <1>3 DEF GoStale, ReapDrop, ForceReconnect, Relaunch
  <1>4. ASSUME NEW d \in Device, Connect(d)
        PROVE  stage[t] = "unused" /\ stage'[t] = "accepted"
    BY <1>4 DEF Connect, Unused
  <1>5. ~ ReapScan /\ ~ \E c \in Command : Call(c)
    BY DEF ReapScan, Call
  <1> QED
    BY <1>1, <1>2, <1>3, <1>4, <1>5 DEF Next

\* A handler opens only by registering.
LEMMA StageOpens ==
  ASSUME OwnTypeOK, [Next]_vars, NEW t \in Conn,
         stage'[t] \in Opened, stage[t] \notin Opened
  PROVE  DoRegister(t)
  <1>1. Handler(t)
    BY StageMoves DEF Opened
  <1> QED
    BY <1>1 DEF Handler, Hello, RejectHello, Upsert, FireHangup, StartReading,
                ReadBeat, ReadAnswer, StopReading, Cancelled, DoUnregister, RemoveRecord,
                Finish, Goto, OwnTypeOK, Opened

\* Every step keeps the invariant.
LEMMA ServerStep ==
  ASSUME ServerInv, [Next]_vars
  PROVE  ServerInv'
  <1>1. HubInv'
    BY ServerIsHub, HubStep DEF ServerInv
  <1>2. OwnTypeOK'
    <2>1. CASE UNCHANGED vars
      BY <2>1 DEF ServerInv, OwnTypeOK
    <2> QED
      BY <2>1, HandlerOwnType, OtherOwnType DEF ServerInv
  <1>3. ChannelMade'
    <2> SUFFICES ASSUME NEW t \in Conn, stage'[t] \in Opened
                 PROVE  rx'[t] # "unborn"
      BY DEF ChannelMade
    <2>1. CASE stage[t] \in Opened
      BY <2>1, ServerIsHub, RxStays DEF ServerInv, HubInv, ChannelMade
    <2>2. CASE stage[t] \notin Opened
      <3>1. DoRegister(t)
        BY <2>2, StageOpens DEF ServerInv
      <3> QED
        BY <3>1 DEF DoRegister, Register, ServerInv, HubInv, HubTypeOK
    <2> QED
      BY <2>1, <2>2
  <1> QED
    BY <1>1, <1>2, <1>3 DEF ServerInv

\* It holds before the first socket is opened.
LEMMA ServerInit == Init => ServerInv
  <1> SUFFICES ASSUME Init PROVE ServerInv
    OBVIOUS
  <1>1. HubInv
    BY HubInitInv DEF Init
  <1>2. OwnTypeOK /\ ChannelMade
    BY BoundAssumption DEF Init, OwnTypeOK, ChannelMade, Opened, Stage
  <1> QED
    BY <1>1, <1>2 DEF ServerInv

\* The server (phone_server.rs) is well typed.
THEOREM Typing == Spec => []TypeOK
  <1>1. ServerInv => TypeOK
    BY ServerInvTypeOK
  <1> QED
    BY <1>1, ServerInit, ServerStep, PTL DEF Spec

\* Whatever connection handlers, reaper and phone do is a behaviour of the hub's
\* specification: the most general environment of Hub leaves out nothing that
\* the real one does.
THEOREM ServerImplementsHub == Spec => HubSpec
  <1>1. Init => HubInit
    BY DEF Init
  <1>2. ServerInv /\ [Next]_vars => [HubNext]_hubVars
    BY ServerIsHub
  <1> QED
    BY <1>1, <1>2, ServerInit, ServerStep, PTL DEF Spec, HubSpec

\* And so it keeps the service's promises to the daemon's callers, whatever the
\* phone's sockets, the reaper and the network do: a command is performed at most
\* once, "ok" follows the performance, and a rejected command is never performed.
THEOREM ServerImplementsService == Spec => HubRefinesService
  BY ServerImplementsHub, HubImplementsService, PTL

-----------------------------------------------------------------------------
(* Who is current, and who has been told to close.                         *)

\* What a step may do to the table and the permits, told by who does it: only
\* a registration makes a connection current, and what stops being current is
\* cancelled, or is unregistered by its own handler.
LEMMA TableMoves ==
  ASSUME ServerInv, [Next]_vars
  PROVE  \/ \E s \in Conn : DoRegister(s)
         \/ \E s \in Conn : DoUnregister(s)
         \/ \E s \in Conn : Cancelled(s)
         \/ \E s \in Conn : Finish(s)
         \/ \E d \in Device : ReapDrop(d)
         \/ UNCHANGED <<conns, permit>>
  <1>1. ASSUME NEW s \in Conn, Handler(s), ~ DoRegister(s), ~ DoUnregister(s),
               ~ Cancelled(s), ~ Finish(s)
        PROVE  UNCHANGED <<conns, permit>>
    <2>1. CASE Hello(s) \/ RejectHello(s) \/ Upsert(s) \/ StartReading(s)
                 \/ StopReading(s) \/ RemoveRecord(s)
      BY <2>1 DEF Hello, RejectHello, Upsert, StartReading, StopReading, RemoveRecord
    <2>2. CASE FireHangup(s)
      BY <2>2 DEF FireHangup, CallStep, LookUp, InsertWaiter, Send, SendFails,
                  Answered, TimeOut
    <2>3. CASE ReadBeat(s) \/ ReadAnswer(s)
      BY <2>3 DEF ReadBeat, ReadAnswer, SendFrame, ResolveAck
    <2> QED
      BY <1>1, <2>1, <2>2, <2>3 DEF Handler
  <1>2. ASSUME NEW s \in Conn, Write(s) \/ WriteFails(s) \/ Handle(s) \/ SendBeat(s)
                                 \/ Dropped(s) \/ Break(s)
        PROVE  UNCHANGED <<conns, permit>>
    BY <1>2 DEF Write, WriteFails, Handle, SendBeat, Dropped, Break,
                WriterTake, CloseRx, PhoneHandle, LoseDown, Lose
  <1>3. ASSUME NEW d \in Device, GoStale(d) \/ Connect(d) \/ ForceReconnect(d) \/ Relaunch(d)
        PROVE  UNCHANGED <<conns, permit>>
    BY <1>3 DEF GoStale, Connect, ForceReconnect, Relaunch, LoseDown
  <1>4. CASE ReapScan
    BY <1>4 DEF ReapScan
  <1>5. ASSUME NEW c \in Command, Call(c)
        PROVE  UNCHANGED <<conns, permit>>
    BY <1>5 DEF Call, CallStep, LookUp, InsertWaiter, Send, SendFails, Answered, TimeOut
  <1> QED
    BY <1>1, <1>2, <1>3, <1>4, <1>5 DEF Next

\* Joining or leaving the attached handlers.
LEMMA Attaches ==
  ASSUME OwnTypeOK, [Next]_vars, NEW t \in Conn, Attached(t)', ~ Attached(t)
  PROVE  DoRegister(t)
  <1>1. CASE stage[t] \in Opened
    <2>1. stage[t] \in {"leaving", "unregistered", "finishing"} /\ Handler(t)
      BY <1>1, StageMoves DEF Attached, Opened
    <2> QED
      BY <2>1 DEF Handler, Hello, RejectHello, Upsert, FireHangup, StartReading,
                  ReadBeat, ReadAnswer, StopReading, Cancelled, DoUnregister,
                  RemoveRecord, Finish, Goto, OwnTypeOK, Attached
  <1>2. CASE stage[t] \notin Opened
    BY <1>2, StageOpens DEF Attached, Opened
  <1> QED
    BY <1>1, <1>2

\* Whoever loses the table entry has been told to close.
LEMMA ServedStep ==
  ASSUME ServerInv, ServedOrCancelled, [Next]_vars
  PROVE  ServedOrCancelled'
  <1> USE ConnAssumption DEF ServerInv, HubInv, HubTypeOK, OwnTypeOK, ServedOrCancelled
  <1> SUFFICES ASSUME NEW t \in Conn, Attached(t)'
               PROVE  conns'[DeviceOf[t]] = t \/ permit'[t]
    OBVIOUS
  <1>1. CASE DoRegister(t)
    BY <1>1 DEF DoRegister, Register
  <1>2. CASE ~ DoRegister(t)
    <2>1. Attached(t) /\ (conns[DeviceOf[t]] = t \/ permit[t])
      BY <1>2, Attaches
    <2>2. ASSUME NEW s \in Conn, DoRegister(s)
          PROVE  conns'[DeviceOf[t]] = t \/ permit'[t]
      <3> DEFINE e == DeviceOf[s]
      <3>1. /\ s # t /\ e \in Device /\ conns[e] \in Conn \cup {NoConn}
            /\ conns' = [conns EXCEPT ![e] = s]
            /\ conns[e] # NoConn => permit' = [permit EXCEPT ![conns[e]] = TRUE]
            /\ conns[e] = NoConn => permit' = permit
        BY <1>2, <2>2 DEF DoRegister, Register
      <3>2. CASE conns[DeviceOf[t]] = t
        BY <3>1, <3>2
      <3>3. CASE permit[t]
        BY <3>1, <3>3
      <3> QED
        BY <2>1, <3>2, <3>3
    <2>3. ASSUME NEW s \in Conn, DoUnregister(s)
          PROVE  conns'[DeviceOf[t]] = t \/ permit'[t]
      <3>1. s # t
        BY <2>1, <2>3 DEF DoUnregister, Attached
      <3> QED
        BY <2>1, <2>3, <3>1 DEF DoUnregister, Unregister, IsCurrent
    <2>4. ASSUME NEW s \in Conn, Cancelled(s) \/ Finish(s)
          PROVE  conns'[DeviceOf[t]] = t \/ permit'[t]
      <3>1. s # t
        BY <2>4 DEF Cancelled, Finish, Attached, Goto
      <3> QED
        BY <2>1, <2>4, <3>1 DEF Cancelled, TakePermit, Finish, CloseSocket
    <2>5. ASSUME NEW d \in Device, ReapDrop(d)
          PROVE  conns'[DeviceOf[t]] = t \/ permit'[t]
      <3>1. conns[d] \in Conn \cup {NoConn}
        OBVIOUS
      <3>2. CASE conns[d] = NoConn
        BY <2>1, <2>5, <3>2 DEF ReapDrop, DropDevice
      <3>3. CASE conns[d] # NoConn
        <4>1. /\ conns' = [conns EXCEPT ![d] = NoConn]
              /\ permit' = [permit EXCEPT ![conns[d]] = TRUE]
          BY <2>5, <3>3 DEF ReapDrop, DropDevice
        <4> QED
          BY <2>1, <3>1, <3>3, <4>1
      <3> QED
        BY <3>2, <3>3
    <2> QED
      BY <2>1, <2>2, <2>3, <2>4, <2>5, TableMoves
  <1> QED
    BY <1>1, <1>2

\* A handler detaches only towards its own unregistering.
LEMMA Detaches ==
  ASSUME OwnTypeOK, [Next]_vars, NEW t \in Conn,
         Attached(t) \/ stage[t] = "leaving", ~ DoUnregister(t)
  PROVE  (Attached(t) \/ stage[t] = "leaving")'
  <1>1. CASE stage'[t] = stage[t]
    BY <1>1 DEF Attached
  <1>2. CASE stage'[t] # stage[t]
    <2>1. Handler(t)
      BY <1>2, StageMoves DEF Attached
    <2> QED
      BY <2>1 DEF Handler, Hello, RejectHello, DoRegister, Upsert, FireHangup,
                  StartReading, ReadBeat, ReadAnswer, StopReading, Cancelled,
                  RemoveRecord, Finish, Goto, OwnTypeOK, Attached
  <1> QED
    BY <1>1, <1>2

\* Whoever has the table entry is still to unregister.
LEMMA CurrentStep ==
  ASSUME ServerInv, CurrentIsHandled, [Next]_vars
  PROVE  CurrentIsHandled'
  <1> USE ConnAssumption DEF ServerInv, HubInv, HubTypeOK, OwnTypeOK, CurrentIsHandled
  <1> SUFFICES ASSUME NEW d \in Device, conns'[d] # NoConn
               PROVE  /\ DeviceOf[conns'[d]] = d
                      /\ (Attached(conns[d]) \/ stage[conns[d]] = "leaving")'
    OBVIOUS
  <1>1. CASE conns'[d] # conns[d]
    <2>1. PICK s \in Conn : DoRegister(s)
      BY <1>1, TableMoves DEF DoUnregister, Unregister, Cancelled, TakePermit, Finish,
                              CloseSocket, ReapDrop, DropDevice
    <2>2. conns'[d] = s /\ DeviceOf[s] = d
      BY <1>1, <2>1 DEF DoRegister, Register
    <2>3. stage'[s] = "registered"
      BY <2>1 DEF DoRegister, Goto
    <2> QED
      BY <2>2, <2>3 DEF Attached
  <1>2. CASE conns'[d] = conns[d]
    <2>1. PICK t \in Conn : t = conns[d] /\ t = conns'[d]
      BY <1>2
    <2>2. DeviceOf[t] = d /\ (Attached(t) \/ stage[t] = "leaving")
      BY <2>1 DEF Attached
    <2>3. ~ DoUnregister(t)
      BY <2>1, <2>2 DEF DoUnregister, Unregister, IsCurrent
    <2>4. (Attached(t) \/ stage[t] = "leaving")'
      BY <2>2, <2>3, Detaches
    <2> QED
      BY <2>1, <2>2, <2>4 DEF Attached
  <1> QED
    BY <1>1, <1>2

\* A registered socket (handle_conn) is its device's connection or has been told
\* to close, for any number of devices, sockets and reconnections: no socket is
\* left with a reader the hub has forgotten.
THEOREM Served == Spec => []ServedOrCancelled
  <1>1. Init => ServedOrCancelled
    BY DEF Init, ServedOrCancelled, Attached
  <1>2. ServerInv /\ ServedOrCancelled /\ [Next]_vars => ServedOrCancelled'
    BY ServedStep
  <1> QED
    BY <1>1, <1>2, ServerInit, ServerStep, PTL DEF Spec

\* The connection commands are sent to always belongs to the device they are for
\* and has a handler that has yet to unregister it.
THEOREM Current == Spec => []CurrentIsHandled
  <1>1. Init => CurrentIsHandled
    BY DEF Init, HubInit, CurrentIsHandled
  <1>2. ServerInv /\ CurrentIsHandled /\ [Next]_vars => CurrentIsHandled'
    BY CurrentStep
  <1> QED
    BY <1>1, <1>2, ServerInit, ServerStep, PTL DEF Spec
=============================================================================
