----------------------------- MODULE JobProofs -----------------------------
(***************************************************************************)
(* Safety of the jobs of JobControl.tla, proved for any phones, sockets,   *)
(* calls, askers, jobs and scripts: their types; one job holds the card    *)
(* (CardHeld); none is cancelled on behalf of another (CancelledOnPurpose).*)
(*                                                                         *)
(* The last rests on the one before.  The flags are shared, so that a flag *)
(* that is up concerns a running job only if it went up while this job     *)
(* held the card (Heeds): each job lowers the flags it looks at before it  *)
(* starts to run, and while it runs nobody else can do so.                 *)
(***************************************************************************)
EXTENDS JobControl, CallTrackProofs, FiniteSetTheorems

(* Types.                                                                  *)

JobTypes == /\ job \in [Job -> Run]
            /\ cancel \in BOOLEAN
            /\ drove \in [Job -> SUBSET Call] /\ stopped \subseteq Job

\* The types of the calls need what CallTrackProofs says of tracked calls.
TypeInv == TrackInv /\ JobTypes

\* A run with a field set to a value of its type is a run.
LEMMA RunFields ==
  ASSUME NEW r \in Run
  PROVE  /\ \A pc \in PC : [r EXCEPT !.pc = pc] \in Run
         /\ \A at \in Nat : [r EXCEPT !.at = at] \in Run
         /\ \A w \in BOOLEAN : /\ [r EXCEPT !.inCall = w] \in Run
                               /\ [r EXCEPT !.sawActive = w] \in Run
                               /\ [r EXCEPT !.seen = w] \in Run
         /\ \A a \in {"none", "ack", "refused", "failed"} : [r EXCEPT !.reply = a] \in Run
         /\ \A o \in {"none", "completed", "cancelled", "call_ended", "error",
                      "no_answer", "load_failed", "killed"} : [r EXCEPT !.outcome = o] \in Run
BY DEF Run

\* The steps that leave the calls alone.
LEMMA LocalTyping ==
  ASSUME TypeInv, NEW j \in Job,
         \/ AnswerReturns(j) \/ LoadFails(j) \/ Skip(j) \/ Other(j) \/ StepFails(j)
         \/ AskReturns(j) \/ AskTimesOut(j) \/ StartWait(j) \/ Poll(j) \/ Deadline(j)
         \/ Abandoned(j) \/ Check(j) \/ Complete(j)
  PROVE  TypeInv'
<1>1. UNCHANGED trackVars /\ UNCHANGED <<cancel, drove, stopped>>
  BY DEF AnswerReturns, LoadFails, Skip, Other, StepFails, AskReturns, AskTimesOut,
         StartWait, Poll, Deadline, Abandoned, Check, Complete, Local
<1>2. TrackInv'
  BY <1>1, TrackStep DEF TypeInv
<1>3. job' \in [Job -> Run]
  <2> USE DEF TypeInv, JobTypes
  <2>0. /\ job[j] \in Run /\ job[j].at \in Nat /\ job[j].sawActive \in BOOLEAN
        /\ {"running", "ending", "cleaning", "loading", "polling", "checking"} \subseteq PC
    BY DEF Run, PC
  <2>1. CASE AnswerReturns(j)
    BY <2>0, <2>1, RunFields DEF AnswerReturns
  <2>2. CASE LoadFails(j)
    BY <2>0, <2>2, RunFields DEF LoadFails, Failed
  <2>3. CASE Skip(j)
    BY <2>3 DEF Skip, Run
  <2>4. CASE Other(j)
    BY <2>0, <2>4, RunFields DEF Other, Move
  <2>5. CASE StepFails(j)
    BY <2>0, <2>5, RunFields DEF StepFails, Failed
  <2>6. CASE AskReturns(j)
    BY <2>6 DEF AskReturns, Failed, Run, PC
  <2>7. CASE AskTimesOut(j)
    BY <2>0, <2>7, RunFields DEF AskTimesOut
  <2>8. CASE StartWait(j)
    BY <2>0, <2>8, RunFields DEF StartWait
  <2>9. CASE Poll(j)
    <3>1. CASE job' = [job EXCEPT ![j].seen = TRUE]
      BY <2>0, <3>1, RunFields
    <3>2. CASE Move(j, "checking")
      BY <2>0, <3>2, RunFields DEF Move
    <3>3. CASE Failed(j, "no_answer")
      BY <2>0, <3>3, RunFields DEF Failed
    <3> QED
      BY <2>9, <3>1, <3>2, <3>3 DEF Poll
  <2>10. CASE Deadline(j)
    BY <2>0, <2>10, RunFields DEF Deadline, Failed
  <2>11. CASE Abandoned(j)
    BY <2>0, <2>11, RunFields DEF Abandoned, Failed
  <2>12. CASE Check(j)
    <3>1. ASSUME NEW why \in {"cancelled", "call_ended"}, Stop(j, why)
          PROVE  job' \in [Job -> Run]
      BY <2>0, <3>1, RunFields DEF Stop
    <3>2. CASE /\ ~IsCancelled(j) /\ ~CallEnded(j)
               /\ job' = [job EXCEPT ![j].pc = "running", ![j].at = @ + 1,
                            ![j].sawActive = @ \/ (job[j].inCall
                                                     /\ CallState(job[j].dev) = "active")]
      <4> DEFINE saw == job[j].sawActive \/ (job[j].inCall /\ CallState(job[j].dev) = "active")
                 r1 == [job[j] EXCEPT !.pc = "running"]
                 r2 == [r1 EXCEPT !.at = job[j].at + 1]
                 r3 == [r2 EXCEPT !.sawActive = saw]
      <4>1. r1 \in Run
        BY <2>0, RunFields
      <4>2. r2 \in Run
        <5>1. job[j].at + 1 \in Nat
          BY <2>0
        <5> HIDE DEF r1
        <5> QED
          BY <4>1, <5>1, RunFields
      <4>3. r3 \in Run
        BY <2>0, <4>2, RunFields
      <4>4. job' = [job EXCEPT ![j] = r3]
        BY <3>2
      <4> QED
        BY <4>3, <4>4
    <3> QED
      BY <2>12, <3>1, <3>2 DEF Check
  <2>13. CASE Complete(j)
    BY <2>0, <2>13, RunFields DEF Complete, Stop
  <2> QED
    BY <2>1, <2>2, <2>3, <2>4, <2>5, <2>6, <2>7, <2>8, <2>9, <2>10, <2>11, <2>12, <2>13
<1> QED
  BY <1>1, <1>2, <1>3 DEF TypeInv, JobTypes

\* Commands: the call an auto-answered job answers is one on record.
LEMMA CommandsTyping ==
  ASSUME TypeInv, NEW j \in Job,
         \/ AnswerCall(j) \/ Abandon(j)
         \/ \E step \in {"dial", "answer", "hangup"} : Ask(j, step)
  PROVE  TypeInv'
<1> USE DEF TypeInv
<1>1. j \in Asker
  BY JobConstants
<1>2. job[j] \in Run /\ job[j].call \in Record
  BY DEF JobTypes, Run
<1>3. {"answering", "asking", "abandoning", "ending", "cleaning"} \subseteq PC
  BY DEF PC
<1>4. CASE AnswerCall(j)
  <2>1. TrackInv'
    BY <1>1, <1>2, <1>4, CommandTyping, TrackStep DEF AnswerCall
  <2>2. job' \in [Job -> Run]
    <3>1. CASE Move(j, "answering")
      BY <1>2, <1>3, <3>1, RunFields DEF Move, JobTypes
    <3>2. CASE job' = [job EXCEPT ![j].pc = "ending", ![j].outcome = "error"]
      BY <1>2, <1>3, <3>2, RunFields DEF JobTypes
    <3> QED
      BY <1>4, <3>1, <3>2 DEF AnswerCall
  <2> QED
    BY <1>4, <2>1, <2>2 DEF AnswerCall, JobTypes
<1>5. CASE Abandon(j)
  <2>1. TrackInv'
    BY <1>1, <1>5, CommandTyping, ConstantFrames, TrackStep DEF Abandon
  <2>2. job' \in [Job -> Run]
    <3>1. CASE Failed(j, "error")
      BY <1>2, <1>3, <3>1, RunFields DEF Failed, JobTypes
    <3>2. CASE job' = [Watching(j, FALSE) EXCEPT ![j].pc = "abandoning"]
      BY <1>2, <1>3, <3>2, RunFields DEF Watching, JobTypes
    <3> QED
      BY <1>5, <3>1, <3>2 DEF Abandon
  <2> QED
    BY <1>5, <2>1, <2>2 DEF Abandon, JobTypes
<1>6. CASE \E step \in {"dial", "answer", "hangup"} : Ask(j, step)
  <2>1. TrackInv'
    BY <1>1, <1>6, CommandTyping, ConstantFrames DEF Ask
  <2>2. PICK watch \in BOOLEAN : job' = [Watching(j, watch) EXCEPT ![j].pc = "asking"]
    BY <1>6 DEF Ask
  <2>3. job' \in [Job -> Run]
    BY <1>2, <1>3, <2>2, RunFields DEF Watching, JobTypes
  <2> QED
    BY <1>6, <2>1, <2>3 DEF Ask, JobTypes
<1> QED
  BY <1>4, <1>5, <1>6

\* Steps that touch the card, the flags or a queue.
LEMMA CardTyping ==
  ASSUME TypeInv, NEW j \in Job,
         ResetFlags(j) \/ Load(j) \/ Release(j) \/ CleanUp(j) \/ RunJob(j)
  PROVE  TypeInv'
<1> USE DEF TypeInv
<1>1. job[j] \in Run /\ {"running", "done", "ending", "acquired"} \subseteq PC
  BY DEF JobTypes, PC
<1>2. CASE ResetFlags(j) \/ Load(j)
  <2>1. TrackInv'
    BY <1>2 DEF ResetFlags, Load, TrackInv, TrackTypeOK, Tracking,
       phoneVars, sockVars, daemonVars, histVars
  <2>2. CASE ResetFlags(j)
    BY <1>1, <2>1, <2>2, RunFields DEF ResetFlags, Move, JobTypes
  <2>3. CASE Load(j)
    BY <1>1, <2>1, <2>3, RunFields DEF Load, JobTypes
  <2> QED
    BY <1>2, <2>2, <2>3
<1>3. CASE Release(j)
  <2>1. TrackInv'
    BY <1>3 DEF Release, SetCard, TrackInv, TrackTypeOK, Tracking,
       phoneVars, sockVars, daemonVars, histVars
  <2> QED
    BY <1>1, <1>3, <2>1, RunFields DEF Release, JobTypes
<1>4. CASE CleanUp(j)
  <2>1. down' \in [Conn -> Seq(Cmd)]
    <3>1. [op |-> "hangup", id |-> 0, of |-> NoCall, by |-> "cleanup"] \in Cmd
      BY DEF Cmd
    <3> QED
      BY <1>4, <3>1, SentType DEF CleanUp, TrackInv
  <2>2. TrackInv'
    BY <1>4, <2>1 DEF CleanUp, TrackInv, TrackTypeOK, Tracking,
       phoneVars, sockVars, daemonVars, histVars
  <2> QED
    BY <1>1, <1>4, <2>2, RunFields DEF CleanUp, Move, JobTypes
<1>5. CASE RunJob(j)
  <2>1. PICK kind \in Kind, d \in Device \cup {NoDev} : Acquire(j, kind, d)
    BY <1>5 DEF RunJob, Kind
  <2>2. TrackInv'
    BY <2>1 DEF Acquire, SetCard, TrackInv, TrackTypeOK, Tracking,
       phoneVars, sockVars, daemonVars, histVars
  <2>3. [New EXCEPT !.pc = "acquired", !.kind = kind, !.dev = d] \in Run
    BY <1>1, ConstantFrames DEF New, Run
  <2> QED
    BY <2>1, <2>2, <2>3 DEF Acquire, JobTypes
<1> QED
  BY <1>2, <1>3, <1>4, <1>5

\* What the readers do to the jobs.
LEMMA ReaderTyping ==
  ASSUME TypeInv, NEW s \in Conn, Reader(s)
  PROVE  TypeInv'
<1> USE DEF TypeInv
<1>1. TrackInv'
  BY ConnTyping, ReadTyping DEF Reader, JobHello, JobUpsert, JobClose, JobAck, ReadState,
     ConnNext
<1>2. ASSUME NEW d, Drain(d) PROVE job' \in [Job -> Run]
  <2>1. \A j \in Job : [job[j] EXCEPT !.reply = "failed"] \in Run
    BY RunFields DEF JobTypes
  <2> QED
    BY <1>2, <2>1 DEF Drain, JobTypes
<1>3. CASE JobHello(s) \/ (RejectFirst(s) /\ UNCHANGED jobVars)
  BY <1>1, <1>3 DEF JobHello, jobVars, JobTypes, Busy
<1>4. CASE JobUpsert(s) \/ JobClose(s)
  BY <1>1, <1>2, <1>4 DEF JobUpsert, JobClose, JobTypes
<1>5. CASE JobAck(s)
  <2>1. \A a \in {"ack", "refused"} : \A j \in Job : [job[j] EXCEPT !.reply = a] \in Run
    BY RunFields DEF JobTypes
  <2> QED
    BY <1>1, <1>5, <2>1 DEF JobAck, ReadAck, JobTypes
<1>6. ASSUME NEW handler \in AutoAnswer, ReadState(s, handler) PROVE TypeInv'
  <2>1. Head(up[s]) \in Record /\ DeviceOf[s] \in Device
    BY <1>6, HeadType, TrackConstants DEF ReadState, ReadCall, Record, TrackInv
  <2>2. [New EXCEPT !.pc = "picked", !.kind = "auto", !.dev = DeviceOf[s],
                    !.call = Head(up[s])] \in Run
    BY <2>1 DEF New, Run, PC, Kind
  <2> QED
    BY <1>1, <1>6, <2>2 DEF ReadState, JobTypes
<1> QED
  BY <1>3, <1>4, <1>5, <1>6 DEF Reader

\* Every step keeps the types.
LEMMA NextTyping == TypeInv /\ [Next]_vars => TypeInv'
<1> SUFFICES ASSUME TypeInv, [Next]_vars PROVE TypeInv'
  OBVIOUS
<1> USE DEF TypeInv
<1>1. CASE PhoneNext /\ UNCHANGED jobVars
  BY <1>1, PhoneTyping DEF jobVars, JobTypes
<1>2. CASE JobCrash
  <2>1. \A j \in Job : [job[j] EXCEPT !.pc = "done", !.outcome = "killed"] \in Run
    BY RunFields DEF JobTypes, PC
  <2> QED
    BY <1>2, <2>1, CrashTyping DEF JobCrash, JobTypes
<1>3. CASE JobCancel
  BY <1>3, TrackStep DEF JobCancel, JobTypes, Busy
<1>4. ASSUME NEW s \in Conn, NEW c \in Call \cup {NoCall}, JobPerforms(s, c) PROVE TypeInv'
  <2>1. TrackInv'
    BY <1>4, PerformsTyping DEF JobPerforms
  <2>2. drove' \in [Job -> SUBSET Call]
    BY <1>4 DEF JobPerforms, JobTypes
  <2> QED
    BY <1>4, <2>1, <2>2 DEF JobPerforms, JobTypes
<1>5. ASSUME NEW j \in Job, Work(j) PROVE TypeInv'
  BY <1>5, LocalTyping, CommandsTyping, CardTyping DEF Work
<1>6. CASE UNCHANGED vars
  BY <1>6, TrackStep DEF vars, jobVars, JobTypes
<1> QED
  BY <1>1, <1>2, <1>3, <1>4, <1>5, <1>6, ReaderTyping, CardTyping DEF Next

\* The jobs' records stay in their types, and the calls beside them: whatever
\* answers, drains and frames reach a job in whatever order, it is in a state
\* the runner knows and ends for a reason it can report.
THEOREM JobTyping == Spec => []JobTypeOK
<1>1. Init => TypeInv
  <2> SUFFICES ASSUME Init PROVE TypeInv
    OBVIOUS
  <2>1. New \in Run
    BY ConstantFrames DEF New, Run, PC, Kind
  <2> QED
    BY <2>1, InitType DEF Init, TypeInv, JobTypes
<1>2. TypeInv => JobTypeOK
  BY DEF TypeInv, JobTypes, JobTypeOK, TrackInv
<1> QED
  BY <1>1, <1>2, NextTyping, PTL DEF Spec

-----------------------------------------------------------------------------
(* The card and the flags: the invariant.                                 *)

\* Once the flags are reset, a job looks at them; before that, an auto-answered
\* job answers and loads.
Heeding == {"running", "asking", "polling", "checking", "abandoning"}
AutoOnly == {"picked", "answering", "loading"}

\* What this proof needs of types: functions and records have their domains.
HasFields(r) == /\ "pc" \in DOMAIN r
                /\ "kind" \in DOMAIN r
                /\ "outcome" \in DOMAIN r
Shapes == /\ job = [j \in Job |-> job[j]]
          /\ \A j \in Job : HasFields(job[j])
          /\ aborting = [s \in Conn |-> aborting[s]]

\* The flag is up exactly while a job holds the card, and one job does.
CardIsBusy == card <=> \E j \in Job : j \in Busy
OneBusy == \A i, j \in Job : i \in Busy /\ j \in Busy => i = j

AutoAnswered == \A j \in Job : job[j].pc \in AutoOnly => job[j].kind = "auto"

\* A flag that a running job would heed was raised against it.
Heeds == \A j \in Job : job[j].pc \in Heeding /\ IsCancelled(j) => j \in stopped

JobInv == /\ Shapes
          /\ CardIsBusy
          /\ OneBusy
          /\ AutoAnswered
          /\ Heeds
          /\ CancelledOnPurpose

-----------------------------------------------------------------------------
(* Most steps touch the jobs in one of two ways.                           *)

\* Job k keeps what the invariant looks at.
Keeps(k) == /\ HasFields(job'[k])
            /\ job'[k].pc = job[k].pc
            /\ job'[k].kind = job[k].kind
            /\ job'[k].outcome = job[k].outcome

JobIsFunction == job' = [j \in Job |-> job'[j]]

\* The flags, and who holds the card, stay.
FlagsStay == UNCHANGED <<card, abort, cancel, stopped, aborting>>

\* Job j goes on, holding the card, and looks at the flags before it reports
\* itself cancelled.
Continues(j) ==
  /\ JobIsFunction
  /\ HasFields(job'[j])
  /\ \A k \in Job : k # j => Keeps(k)
  /\ job[j].pc \notin {"idle", "done"} /\ job'[j].pc \notin {"idle", "done"}
  /\ job'[j].kind = job[j].kind
  /\ job'[j].pc \in Heeding => job[j].pc \in Heeding
  /\ job'[j].pc \in AutoOnly => job[j].pc \in AutoOnly
  /\ \/ job'[j].outcome # "cancelled"
     \/ job'[j].outcome = job[j].outcome
     \/ job[j].pc \in Heeding /\ IsCancelled(j)
  /\ FlagsStay

\* A step that no job takes, or that brings one its reply.
LEMMA AllKeep ==
  ASSUME JobInv, JobIsFunction, \A k \in Job : Keeps(k), FlagsStay
  PROVE  JobInv'
BY DEF JobInv, Shapes, CardIsBusy, OneBusy, AutoAnswered, Heeds,
       CancelledOnPurpose, Keeps, JobIsFunction, FlagsStay, Busy, IsCancelled

\* A step of a job that holds the card and goes on holding it.
LEMMA OneContinues ==
  ASSUME JobInv, NEW j \in Job, Continues(j)
  PROVE  JobInv'
<1> USE DEF Continues, JobInv
<1>1. Shapes'
  BY DEF Shapes, Keeps, JobIsFunction, FlagsStay
<1>2. CardIsBusy' /\ OneBusy'
  BY DEF CardIsBusy, OneBusy, Keeps, FlagsStay, Busy
<1>3. AutoAnswered'
  BY DEF AutoAnswered, Keeps
<1>4. Heeds'
  BY DEF Heeds, Keeps, FlagsStay, IsCancelled
<1>5. CancelledOnPurpose'
  BY DEF CancelledOnPurpose, Heeds, Keeps, FlagsStay
<1> QED
  BY <1>1, <1>2, <1>3, <1>4, <1>5
-----------------------------------------------------------------------------
(* Init.                                                                   *)

\* No job has started, and no flag is up.
LEMMA InitJob == Init => JobInv
<1> SUFFICES ASSUME Init PROVE JobInv
  OBVIOUS
<1>1. Shapes
  BY DEF Init, TrackInit, New, Shapes, HasFields
<1>2. CardIsBusy /\ OneBusy
  BY DEF Init, TrackInit, New, CardIsBusy, OneBusy, Busy
<1>3. AutoAnswered /\ Heeds /\ CancelledOnPurpose
  BY DEF Init, New, AutoAnswered, Heeds, CancelledOnPurpose, AutoOnly, Heeding
<1> QED
  BY <1>1, <1>2, <1>3 DEF JobInv

-----------------------------------------------------------------------------
(* What a running job does.                                                *)

\* The steps of the runner and of a job's task that go on holding the card and
\* leave the flags alone, up to the one that reports how the job ended.
Goes(j) ==
  \/ AnswerCall(j) \/ AnswerReturns(j) \/ LoadFails(j)
  \/ Skip(j) \/ (\E step \in {"dial", "answer", "hangup"} : Ask(j, step))
  \/ Other(j) \/ StepFails(j) \/ AskReturns(j)
  \/ StartWait(j) \/ Poll(j) \/ Deadline(j) \/ Abandon(j) \/ Abandoned(j)
  \/ Check(j) \/ Complete(j) \/ CleanUp(j)

\* Each of them is a step of a job that goes on.
LEMMA GoesContinues ==
  ASSUME JobInv, NEW j \in Job, Goes(j)
  PROVE  Continues(j)
<1> USE DEF JobInv, Shapes, HasFields, Keeps, JobIsFunction, FlagsStay, Continues,
            Heeding, AutoOnly, trackVars, daemonVars, sockVars, Local, Move
<1>1. CASE AnswerCall(j)
  BY <1>1 DEF AnswerCall, Command
<1>2. CASE AnswerReturns(j)
  BY <1>2 DEF AnswerReturns
<1>3. CASE LoadFails(j)
  BY <1>3 DEF LoadFails, Failed
<1>4. CASE Skip(j)
  BY <1>4 DEF Skip, At
<1>5. CASE \E step \in {"dial", "answer", "hangup"} : Ask(j, step)
  <2>1. PICK watch \in BOOLEAN : job' = [Watching(j, watch) EXCEPT ![j].pc = "asking"]
    BY <1>5 DEF Ask
  <2>2. job' = [job EXCEPT ![j] = [[[job[j] EXCEPT !.inCall = watch]
                                      EXCEPT !.sawActive = FALSE] EXCEPT !.pc = "asking"]]
    BY <2>1 DEF Watching
  <2>3. /\ HasFields(job'[j]) /\ job'[j].pc = "asking"
        /\ job'[j].kind = job[j].kind /\ job'[j].outcome = job[j].outcome
    BY <2>2
  <2>4. job[j].pc = "running" /\ FlagsStay
    BY <1>5 DEF Ask, At, Command
  <2> QED
    BY <2>2, <2>3, <2>4
<1>6. CASE Other(j)
  BY <1>6 DEF Other, At
<1>7. CASE StepFails(j)
  BY <1>7 DEF StepFails, Failed, At
<1>8. CASE AskReturns(j)
  BY <1>8 DEF AskReturns, Failed
<1>9. CASE StartWait(j)
  BY <1>9 DEF StartWait, At
<1>10. CASE Poll(j)
  BY <1>10 DEF Poll, Failed
<1>11. CASE Deadline(j)
  BY <1>11 DEF Deadline, Failed
<1>12. CASE Abandon(j)
  BY <1>12 DEF Abandon, Failed, Watching, Command
<1>13. CASE Abandoned(j)
  BY <1>13 DEF Abandoned, Failed
<1>14. CASE Check(j)
  BY <1>14 DEF Check, Stop
<1>15. CASE Complete(j)
  BY <1>15 DEF Complete, Stop
<1>16. CASE CleanUp(j)
  BY <1>16 DEF CleanUp
<1> QED
  BY <1>1, <1>2, <1>3, <1>4, <1>5, <1>6, <1>7, <1>8, <1>9, <1>10, <1>11,
     <1>12, <1>13, <1>14, <1>15, <1>16 DEF Goes

\* A fresh run lowers both flags before it looks at them, and nobody else is
\* running to miss them.
LEMMA ResetFlagsStep ==
  ASSUME JobInv, NEW j \in Job, ResetFlags(j) \/ Load(j)
  PROVE  JobInv'
<1> USE DEF JobInv, Shapes, Heeding, AutoOnly
<1>1. /\ \A k \in Job : k # j => job'[k] = job[k]
      /\ HasFields(job'[j])
      /\ job[j].pc \in {"acquired", "loading"} /\ job'[j].pc = "running"
      /\ job'[j].kind = job[j].kind /\ job'[j].outcome = job[j].outcome
      /\ UNCHANGED <<card, stopped, aborting>>
  BY DEF ResetFlags, Load, Move, HasFields, sockVars
<1>2. Shapes'
  BY <1>1 DEF ResetFlags, Load, Move
<1>3. CardIsBusy' /\ OneBusy'
  BY <1>1 DEF CardIsBusy, OneBusy, Busy
<1>4. AutoAnswered' /\ CancelledOnPurpose'
  BY <1>1 DEF AutoAnswered, CancelledOnPurpose
<1>5. Heeds'
  <2>1. \A k \in Job : k # j => job'[k].pc \notin Heeding
    BY <1>1 DEF OneBusy, Busy
  <2>2. ~IsCancelled(j)'
    BY <1>1 DEF ResetFlags, Load, AutoAnswered, IsCancelled
  <2> QED
    BY <2>1, <2>2 DEF Heeds
<1> QED
  BY <1>2, <1>3, <1>4, <1>5

-----------------------------------------------------------------------------
(* Who takes the card and who lets go of it.                               *)

\* Job j takes a free card; it has not looked at the flags.
Takes(j) == /\ job[j].pc = "idle" /\ ~card /\ card'
            /\ JobIsFunction /\ HasFields(job'[j])
            /\ \A k \in Job : k # j => job'[k] = job[k]
            /\ \/ job'[j].pc = "acquired"
               \/ job'[j].pc = "picked" /\ job'[j].kind = "auto"
            /\ job'[j].outcome = "none"
            /\ UNCHANGED <<abort, cancel, stopped, aborting>>

\* The card is free only when nobody runs: whoever takes it is alone.
LEMMA TakesStep ==
  ASSUME JobInv, NEW j \in Job, Takes(j)
  PROVE  JobInv'
<1> USE DEF JobInv, Takes
<1>1. \A k \in Job : job[k].pc \in {"idle", "done"}
  BY DEF CardIsBusy, Busy
<1>2. Shapes'
  BY DEF Shapes, JobIsFunction
<1>3. CardIsBusy' /\ OneBusy'
  BY <1>1 DEF CardIsBusy, OneBusy, Busy
<1>4. AutoAnswered' /\ Heeds' /\ CancelledOnPurpose'
  BY <1>1 DEF AutoAnswered, Heeds, CancelledOnPurpose, Heeding, AutoOnly
<1> QED
  BY <1>2, <1>3, <1>4

\* job.run takes the card.
LEMMA RunJobTakes ==
  ASSUME JobInv, NEW j \in Job, RunJob(j)
  PROVE  Takes(j)
<1>1. PICK kind \in Kind, d \in Device \cup {NoDev} : Acquire(j, kind, d)
  BY DEF RunJob, Kind
<1> QED
  BY <1>1 DEF Acquire, Free, SetCard, Takes, New, JobInv, Shapes, HasFields,
              JobIsFunction, sockVars

\* A call_state frame starts an auto-answered job, or changes no job and nothing
\* about the card.
LEMMA ReadStateStep ==
  ASSUME JobInv, NEW s \in Conn, NEW handler, ReadState(s, handler)
  PROVE  JobInv'
<1>1. /\ card' = (card \/ StartsJob(Head(up[s]), handler))
      /\ UNCHANGED <<abort, aborting, cancel, stopped>>
  BY DEF ReadState, ReadCall
<1>2. CASE StartsJob(Head(up[s]), handler)
  <2>1. PICK j \in Job :
          /\ Free(j)
          /\ job' = [job EXCEPT ![j] = [New EXCEPT !.pc = "picked", !.kind = "auto",
                                          !.dev = DeviceOf[s], !.call = Head(up[s])]]
    BY <1>2 DEF ReadState
  <2>2. Takes(j)
    BY <1>1, <1>2, <2>1 DEF Free, Takes, New, JobInv, Shapes, HasFields, JobIsFunction
  <2> QED
    BY <2>2, TakesStep
<1>3. CASE ~StartsJob(Head(up[s]), handler)
  <2>1. job' = job /\ (card' <=> card)
    BY <1>1, <1>3 DEF ReadState
  <2> QED
    BY <1>1, <2>1 DEF JobInv, Shapes, CardIsBusy, OneBusy, AutoAnswered, Heeds,
                      CancelledOnPurpose, Busy, IsCancelled
<1> QED
  BY <1>2, <1>3

\* The card guard drops: the job that held it was alone.
LEMMA ReleaseStep ==
  ASSUME JobInv, NEW j \in Job, Release(j)
  PROVE  JobInv'
<1> USE DEF JobInv, Release, SetCard
<1>1. /\ \A k \in Job : k # j => job'[k] = job[k]
      /\ HasFields(job'[j])
      /\ job[j].pc = "ending" /\ job'[j].pc = "done"
      /\ job'[j].outcome = job[j].outcome
      /\ ~card' /\ UNCHANGED <<abort, cancel, stopped, aborting>>
  BY DEF Shapes, HasFields, sockVars
<1>2. \A k \in Job : job'[k].pc \in {"idle", "done"}
  BY <1>1 DEF OneBusy, Busy
<1>3. Shapes'
  BY <1>1 DEF Shapes
<1>4. CardIsBusy' /\ OneBusy'
  BY <1>1, <1>2 DEF CardIsBusy, OneBusy, Busy
<1>5. AutoAnswered' /\ Heeds' /\ CancelledOnPurpose'
  BY <1>1, <1>2 DEF AutoAnswered, Heeds, CancelledOnPurpose, Heeding, AutoOnly
<1> QED
  BY <1>3, <1>4, <1>5

\* A crash frees the card and kills its holder.
LEMMA CrashStep == JobInv /\ JobCrash => JobInv'
<1> SUFFICES ASSUME JobInv, JobCrash PROVE JobInv'
  OBVIOUS
<1> USE DEF JobInv
<1>1. ~card' /\ ~abort' /\ ~cancel' /\ UNCHANGED <<stopped, aborting>>
  BY DEF JobCrash, Crash
<1>2. \A k \in Job : /\ HasFields(job'[k])
                     /\ job'[k].pc \in {"idle", "done"}
                     /\ job'[k].outcome \in {job[k].outcome, "killed"}
  BY DEF JobCrash, Busy, Shapes, HasFields
<1>3. Shapes'
  BY <1>1, <1>2 DEF JobCrash, Shapes
<1>4. CardIsBusy' /\ OneBusy'
  BY <1>1, <1>2 DEF CardIsBusy, OneBusy, Busy
<1>5. AutoAnswered' /\ Heeds' /\ CancelledOnPurpose'
  BY <1>1, <1>2 DEF AutoAnswered, Heeds, CancelledOnPurpose, Heeding, AutoOnly
<1> QED
  BY <1>3, <1>4, <1>5

-----------------------------------------------------------------------------
(* Who raises a flag.                                                      *)

\* job.cancel, and a relaunch heard while the card is held, tell the job that
\* holds it; a hello that raises nothing tells nobody.
LEMMA RaisesStep ==
  ASSUME JobInv, JobCancel \/ \E s \in Conn : JobHello(s)
  PROVE  JobInv'
<1> USE DEF JobInv
<1>1. job' = job /\ card' = card /\ stopped \subseteq stopped'
  BY DEF JobCancel, JobHello, Hello, trackVars, daemonVars
<1>2. Shapes'
  BY <1>1 DEF Shapes, JobCancel, JobHello, Hello, trackVars, sockVars
<1>3. CardIsBusy' /\ OneBusy' /\ AutoAnswered' /\ CancelledOnPurpose'
  BY <1>1 DEF CardIsBusy, OneBusy, AutoAnswered, CancelledOnPurpose, Busy
<1>4. Heeds'
  <2>1. \/ Busy \subseteq stopped'
        \/ (abort' <=> abort) /\ cancel' = cancel
    <3>1. CASE JobCancel
      BY <3>1 DEF JobCancel
    <3>2. CASE \E s \in Conn : JobHello(s)
      <4>1. PICK s \in Conn : JobHello(s)
        BY <3>2
      <4>2. aborting'[s] <=> NoteRelaunch(DeviceOf[s], helloFrom[s]) /\ card
        BY <4>1 DEF JobHello, Hello, Shapes
      <4>3. CASE aborting'[s]
        BY <4>1, <4>3 DEF JobHello
      <4>4. CASE ~aborting'[s]
        BY <4>1, <4>2, <4>4 DEF JobHello, Hello
      <4> QED
        BY <4>3, <4>4
    <3> QED
      BY <3>1, <3>2
  <2> QED
    BY <1>1, <2>1 DEF Heeds, Busy, Heeding, IsCancelled
<1> QED
  BY <1>2, <1>3, <1>4

-----------------------------------------------------------------------------
(* Steps that bring a job no more than a reply.                            *)

\* The hub tells those who wait on a connection that it has dropped.
LEMMA DrainKeeps ==
  ASSUME JobInv, NEW d, Drain(d)
  PROVE  JobIsFunction /\ \A k \in Job : Keeps(k)
BY DEF Drain, JobInv, Shapes, HasFields, Keeps, JobIsFunction

\* What the readers, the phones and the clock do otherwise.
LEMMA QuietStep ==
  ASSUME JobInv,
         \/ PhoneNext /\ UNCHANGED jobVars
         \/ \E s \in Conn : \/ RejectFirst(s) /\ UNCHANGED jobVars
                            \/ JobUpsert(s) \/ JobClose(s) \/ JobAck(s)
                            \/ \E c \in Call \cup {NoCall} : JobPerforms(s, c)
         \/ \E j \in Job : AskTimesOut(j)
         \/ UNCHANGED vars
  PROVE  JobInv'
<1> DEFINE Quiet == JobIsFunction /\ FlagsStay /\ \A k \in Job : Keeps(k)
<1>1. Shapes
  BY DEF JobInv
<1> USE DEF FlagsStay, trackVars, daemonVars, sockVars, jobVars
<1>2. ASSUME job' = job PROVE JobIsFunction /\ \A k \in Job : Keeps(k)
  BY <1>1, <1>2 DEF JobIsFunction, Keeps, Shapes, HasFields
<1>3. CASE PhoneNext /\ UNCHANGED jobVars
  <2>1. UNCHANGED <<card, abort, aborting>>
    BY <1>3 DEF PhoneNext, Begin, Added, PickUp, Disconnect, Change, Removed,
                Open, Blip, Dropped, Relaunch, OnOpen
  <2> QED
    BY <1>2, <1>3, <2>1, AllKeep
<1>4. ASSUME NEW s \in Conn, RejectFirst(s) /\ UNCHANGED jobVars PROVE JobInv'
  BY <1>2, <1>4, AllKeep DEF RejectFirst
<1>5. ASSUME NEW s \in Conn, JobUpsert(s) PROVE JobInv'
  BY <1>5, DrainKeeps, AllKeep DEF JobUpsert, Upsert
<1>6. ASSUME NEW s \in Conn, JobClose(s) PROVE JobInv'
  BY <1>2, <1>6, DrainKeeps, AllKeep DEF JobClose, Close
<1>7. ASSUME NEW s \in Conn, JobAck(s) PROVE JobInv'
  <2>1. FlagsStay
    BY <1>7 DEF JobAck, ReadAck
  <2>2. JobIsFunction /\ \A k \in Job : Keeps(k)
    BY <1>1, <1>7 DEF JobAck, Shapes, HasFields, Keeps, JobIsFunction
  <2> QED
    BY <2>1, <2>2, AllKeep
<1>8. ASSUME NEW s \in Conn, NEW c \in Call \cup {NoCall}, JobPerforms(s, c) PROVE JobInv'
  BY <1>2, <1>8, AllKeep DEF JobPerforms, Performs
<1>9. ASSUME NEW j \in Job, AskTimesOut(j) PROVE JobInv'
  <2>1. FlagsStay
    BY <1>9 DEF AskTimesOut, Local
  <2>2. JobIsFunction /\ \A k \in Job : Keeps(k)
    BY <1>1, <1>9 DEF AskTimesOut, Shapes, HasFields, Keeps, JobIsFunction
  <2> QED
    BY <2>1, <2>2, AllKeep
<1>10. CASE UNCHANGED vars
  BY <1>2, <1>10, AllKeep DEF vars
<1> QED
  BY <1>3, <1>4, <1>5, <1>6, <1>7, <1>8, <1>9, <1>10

-----------------------------------------------------------------------------
(* The theorems.                                                           *)

\* Every step keeps the invariant.
LEMMA NextJob == JobInv /\ [Next]_vars => JobInv'
<1> SUFFICES ASSUME JobInv, [Next]_vars PROVE JobInv'
  OBVIOUS
<1>1. CASE (PhoneNext /\ UNCHANGED jobVars) \/ UNCHANGED vars
  BY <1>1, QuietStep
<1>2. CASE JobCrash
  BY <1>2, CrashStep
<1>3. CASE JobCancel
  BY <1>3, RaisesStep
<1>4. ASSUME NEW s \in Conn, Reader(s) PROVE JobInv'
  BY <1>4, RaisesStep, QuietStep, ReadStateStep DEF Reader
<1>5. ASSUME NEW s \in Conn, NEW c \in Call \cup {NoCall}, JobPerforms(s, c) PROVE JobInv'
  BY <1>5, QuietStep
<1>6. ASSUME NEW j \in Job, RunJob(j) PROVE JobInv'
  BY <1>6, RunJobTakes, TakesStep
<1>7. ASSUME NEW j \in Job, Work(j) PROVE JobInv'
  <2>1. Goes(j) \/ ResetFlags(j) \/ Load(j) \/ AskTimesOut(j) \/ Release(j)
    BY <1>7 DEF Work, Goes
  <2>2. CASE Goes(j)
    BY <2>2, GoesContinues, OneContinues
  <2>3. CASE ResetFlags(j) \/ Load(j)
    BY <2>3, ResetFlagsStep
  <2>4. CASE AskTimesOut(j)
    BY <2>4, QuietStep
  <2>5. CASE Release(j)
    BY <2>5, ReleaseStep
  <2> QED
    BY <2>1, <2>2, <2>3, <2>4, <2>5
<1> QED
  BY <1>1, <1>2, <1>3, <1>4, <1>5, <1>6, <1>7 DEF Next

\* The invariant, of every state.
LEMMA JobInvariant == Spec => []JobInv
<1> QED
  BY InitJob, NextJob, PTL DEF Spec

\* One job holds the card.
LEMMA HeldByOne == JobInv => CardHeld
<1> SUFFICES ASSUME JobInv PROVE CardHeld
  OBVIOUS
<1>1. card <=> Busy # {}
  BY DEF JobInv, CardIsBusy, Busy
<1>2. Cardinality(Busy) <= 1
  <2>1. CASE Busy = {}
    BY <2>1, FS_EmptySet
  <2>2. CASE Busy # {}
    <3>1. PICK j \in Job : Busy = {j}
      BY <2>2 DEF JobInv, OneBusy, Busy
    <3>2. Cardinality({j}) = 1
      BY FS_Singleton
    <3> QED
      BY <3>1, <3>2
  <2> QED
    BY <2>1, <2>2
<1> QED
  BY <1>1, <1>2 DEF CardHeld

\* "One sound card, one call or recording at a time" (acquire_card and its
\* guard, daemon.rs): however job.run and auto-answer race for the card, and
\* whenever the daemon crashes, its flag is up exactly while one job runs.
THEOREM OneCardOneJob == Spec => []CardHeld
<1> QED
  BY JobInvariant, HeldByOne, PTL

\* The cancel and abort flags are shared by every job (job_cancel, job_abort);
\* yet a job reports itself cancelled only when it was told to stop while it
\* held the card.
THEOREM NoJobCancelledForAnother == Spec => []CancelledOnPurpose
<1>1. JobInv => CancelledOnPurpose
  BY DEF JobInv
<1> QED
  BY <1>1, JobInvariant, PTL
=============================================================================
