----------------------------- MODULE JobControl -----------------------------
(***************************************************************************)
(* Jobs over the calls of CallTrack.tla: the sound card (acquire_card and  *)
(* its guard), job.run and job.cancel (daemon.rs), auto-answered jobs      *)
(* (trigger_autoanswer in transport/phone_server.rs), the step runner      *)
(* (jobs/runner.rs) and what its steps do with the phone (PhoneJobIo in    *)
(* phone.rs).                                                              *)
(*                                                                         *)
(* A job runs on a thread of its own and sees the call only through the    *)
(* registry, which the readers of CallTrack.tla update meanwhile.  A       *)
(* command is what CommandService.tla says of one: it returns with its     *)
(* answer, or fails at any time before, and may be performed even so.      *)
(* Other steps (playing, listening, waiting, logging, an SMS) take their   *)
(* time and may fail.  `job_force` only cuts them short, so it is one with *)
(* job_cancel.                                                             *)
(***************************************************************************)
EXTENDS CallTrack, FiniteSets

CONSTANTS Job,      \* runs of a job
          NoDev,    \* the device of a job that needs no phone ("local")
          Script    \* the steps of each kind of job

Kind == {"run", "auto", "local"}
Step == {"dial", "wait_answered", "answer", "hangup", "other"}

ASSUME JobConstants ==
  /\ Job \subseteq Asker /\ NoDev \notin Device
  /\ Script \in [Kind -> Seq(Step)]

VARIABLES
  job,       \* the runs
  cancel,    \* job_cancel and job_force
  \* history
  drove,     \* the calls each job has placed or answered
  stopped    \* jobs that were told to stop while they held the card

jobVars == <<job, cancel, drove, stopped>>
vars    == <<trackVars, jobVars>>

PC == {"idle", "acquired", "picked", "answering", "loading", "running", "asking",
       "polling", "checking", "abandoning", "cleaning", "ending", "done"}

New == [pc |-> "idle", kind |-> "run", dev |-> NoDev, at |-> 1, call |-> Idle,
        inCall |-> FALSE, sawActive |-> FALSE, seen |-> FALSE, reply |-> "none",
        outcome |-> "none"]

Run == [pc : PC, kind : Kind, dev : Device \cup {NoDev}, at : Nat, call : Record,
        inCall : BOOLEAN, sawActive : BOOLEAN, seen : BOOLEAN,
        reply : {"none", "ack", "refused", "failed"},
        outcome : {"none", "completed", "cancelled", "call_ended", "error",
                   "no_answer", "load_failed", "killed"}]

JobTypeOK ==
  /\ TrackTypeOK
  /\ job \in [Job -> Run]
  /\ cancel \in BOOLEAN
  /\ drove \in [Job -> SUBSET Call] /\ stopped \subseteq Job

Init ==
  /\ TrackInit
  /\ job = [j \in Job |-> New]
  /\ cancel = FALSE
  /\ drove = [j \in Job |-> {}] /\ stopped = {}

\* Jobs that hold the card.
Busy == {j \in Job : job[j].pc \notin {"idle", "done"}}

Awaiting(j) == job[j].pc \in {"answering", "asking", "abandoning"} /\ job[j].reply = "none"

\* The hub tells those who wait on a connection it drops.
Drain(d) ==
  job' = [j \in Job |-> IF Awaiting(j) /\ job[j].dev = d
                          THEN [job[j] EXCEPT !.reply = "failed"] ELSE job[j]]

\* The job's own part of the steps that follow: nothing but `job` changes.
Local == UNCHANGED <<trackVars, cancel, drove, stopped>>

Move(j, pc) == job' = [job EXCEPT ![j].pc = pc]
-----------------------------------------------------------------------------
(* Starting a job.                                                         *)

\* Mutant: whoever comes takes the card.
FreeAnyway(j) == job[j].pc = "idle"

Free(j) == job[j].pc = "idle" /\ ~card

\* job.run: resolve the device, unless no step needs one, and take the card.
Acquire(j, kind, d) ==
  /\ Free(j)
  /\ job' = [job EXCEPT ![j] = [New EXCEPT !.pc = "acquired", !.kind = kind, !.dev = d]]
  /\ SetCard(TRUE)
  /\ UNCHANGED <<cancel, drove, stopped>>

RunJob(j) == \/ \E d \in Device : reg[d] # Absent /\ Acquire(j, "run", d)
             \/ Acquire(j, "local", NoDev)

\* "Fresh run: clear any stale cancel/force/abort from a prior job".
ResetFlags(j) ==
  /\ job[j].pc = "acquired"
  /\ cancel' = FALSE /\ abort' = FALSE
  /\ Move(j, "running")
  /\ UNCHANGED <<phoneVars, sockVars, conn, reg, instances, marker, orphans, card,
                 histVars, drove, stopped>>

\* A call_state frame; trigger_autoanswer may start a job for it.
ReadState(s, handler) ==
  /\ ReadCall(s, handler)
  /\ \/ /\ StartsJob(Head(up[s]), handler)
        /\ \E j \in Job :
             /\ Free(j)
             /\ job' = [job EXCEPT ![j] = [New EXCEPT !.pc = "picked", !.kind = "auto",
                                             !.dev = DeviceOf[s], !.call = Head(up[s])]]
     \/ /\ ~StartsJob(Head(up[s]), handler)
        /\ UNCHANGED job
  /\ UNCHANGED <<cancel, drove, stopped>>

\* Its task answers the call, then loads the script.
AnswerCall(j) ==
  /\ job[j].pc = "picked"
  /\ \/ /\ Command(job[j].dev, "answer", job[j].call, j)
        /\ Move(j, "answering")
     \/ /\ conn[job[j].dev] = NoConn
        /\ job' = [job EXCEPT ![j].pc = "ending", ![j].outcome = "error"]
        /\ UNCHANGED trackVars
  /\ UNCHANGED <<cancel, drove, stopped>>

\* A failure ends the job; of an auto-answered one that has got past the
\* answer, not before its call has been hung up.
Failed(j, why) ==
  job' = [job EXCEPT ![j].pc = IF job[j].kind = "auto" THEN "cleaning" ELSE "ending",
                     ![j].outcome = why]

AnswerReturns(j) ==
  /\ job[j].pc = "answering" /\ job[j].reply # "none"
  /\ job' = [job EXCEPT ![j].pc = IF job[j].reply = "ack" THEN "loading" ELSE "ending",
                        ![j].reply = "none",
                        ![j].outcome = IF job[j].reply = "ack" THEN "none" ELSE "error"]
  /\ Local

LoadFails(j) ==
  /\ job[j].pc = "loading"
  /\ Failed(j, "load_failed")
  /\ Local

\* Mutant: the abort of a job before this one still stands.
LoadStale(j) ==
  /\ job[j].pc = "loading"
  /\ job' = [job EXCEPT ![j].pc = "running", ![j].inCall = TRUE]
  /\ Local

\* "Clear any stale abort from a prior job first", then run.
Load(j) ==
  /\ job[j].pc = "loading"
  /\ abort' = FALSE
  /\ job' = [job EXCEPT ![j].pc = "running", ![j].inCall = TRUE]
  /\ UNCHANGED <<phoneVars, sockVars, conn, reg, instances, marker, orphans, card,
                 histVars, cancel, drove, stopped>>
-----------------------------------------------------------------------------
(* The runner: run_job, run_step and PhoneJobIo.                           *)

Over(j) == job[j].at > Len(Script[job[j].kind])
Doing(j) == Script[job[j].kind][job[j].at]
At(j, step) == job[j].pc = "running" /\ ~Over(j) /\ Doing(j) = step

\* The call of an auto-answered job is set up: such steps are skipped.
Skip(j) ==
  /\ job[j].kind = "auto"
  /\ \E step \in {"dial", "wait_answered", "answer"} : At(j, step)
  /\ job' = [job EXCEPT ![j].at = @ + 1]
  /\ Local

\* dial and answer watch the call that follows; hangup stops watching.
Watching(j, watch) == [job EXCEPT ![j].inCall = watch, ![j].sawActive = FALSE]

Ask(j, step) ==
  /\ At(j, step)
  /\ job[j].kind = "auto" => step = "hangup"
  /\ Command(job[j].dev, step, Idle, j)
  /\ job' = [Watching(j, step # "hangup") EXCEPT ![j].pc = "asking"]
  /\ UNCHANGED <<cancel, drove, stopped>>

Other(j) == At(j, "other") /\ Move(j, "checking") /\ Local

\* A step fails: an audio error, or a command to a phone that has gone; or the
\* recording cannot even be started.
StepFails(j) ==
  /\ \/ At(j, "other")
     \/ job[j].pc = "running" /\ job[j].at = 1
     \/ /\ \E step \in {"dial", "answer", "hangup"} :
             At(j, step) /\ (job[j].kind = "auto" => step = "hangup")
        /\ conn[job[j].dev] = NoConn
  /\ Failed(j, "error")
  /\ Local

\* The answer to it: "no call to hang up" is as good as a hang-up.
Succeeded(j) == \/ job[j].reply = "ack"
                \/ job[j].reply = "refused" /\ Doing(j) = "hangup"

AskReturns(j) ==
  /\ job[j].pc = "asking" /\ job[j].reply # "none"
  /\ \/ /\ Succeeded(j)
        /\ job' = [job EXCEPT ![j].pc = "checking", ![j].reply = "none"]
     \/ /\ ~Succeeded(j)
        /\ Failed(j, "error")
  /\ Local

\* No answer within ACK_TIMEOUT.
AskTimesOut(j) ==
  /\ Awaiting(j)
  /\ job' = [job EXCEPT ![j].reply = "failed"]
  /\ Local

\* wait_for_answer.  The loop's three looks: at the flags, at the registry, at
\* the clock.
StartWait(j) ==
  /\ At(j, "wait_answered") /\ job[j].kind # "auto"
  /\ job' = [job EXCEPT ![j].pc = "polling", ![j].seen = FALSE]
  /\ Local

IsCancelled(j) == abort \/ (cancel /\ job[j].kind # "auto")

CallState(d) == IF d = NoDev THEN "none" ELSE reg[d].st

Poll(j) ==
  LET st == CallState(job[j].dev)
  IN /\ job[j].pc = "polling" /\ ~IsCancelled(j)
     /\ \/ /\ st = "active"
           /\ Move(j, "checking")
        \/ /\ st \in {"ringing", "dialing"}
           /\ job' = [job EXCEPT ![j].seen = TRUE]
        \/ /\ st \in {"none", "absent"} /\ job[j].seen
           /\ Failed(j, "no_answer")
     /\ Local

\* Mutant: the clock is looked at only once a call has been seen.
DeadlineOnceSeen(j) ==
  /\ job[j].pc = "polling" /\ ~IsCancelled(j) /\ job[j].seen
  /\ CallState(job[j].dev) # "active"
  /\ Failed(j, "no_answer")
  /\ Local

Deadline(j) ==
  /\ job[j].pc = "polling" /\ ~IsCancelled(j)
  /\ CallState(job[j].dev) # "active"
  /\ Failed(j, "no_answer")
  /\ Local

\* Cancelled while it waits: hang up, then fail.
Abandon(j) ==
  /\ job[j].pc = "polling" /\ IsCancelled(j)
  /\ \/ /\ Command(job[j].dev, "hangup", Idle, j)
        /\ job' = [Watching(j, FALSE) EXCEPT ![j].pc = "abandoning"]
     \/ /\ conn[job[j].dev] = NoConn
        /\ Failed(j, "error")
        /\ UNCHANGED trackVars
  /\ UNCHANGED <<cancel, drove, stopped>>

Abandoned(j) ==
  /\ job[j].pc = "abandoning" /\ job[j].reply # "none"
  /\ Failed(j, "error")
  /\ Local

\* After each step: cancelled?  has the call ended (call_ended_decision)?
Stop(j, why) == job' = [job EXCEPT ![j].pc = "ending", ![j].outcome = why]

CallEnded(j) == /\ job[j].inCall /\ job[j].sawActive
                /\ CallState(job[j].dev) \in {"none", "absent"}

Check(j) ==
  /\ job[j].pc = "checking"
  /\ \/ IsCancelled(j) /\ Stop(j, "cancelled")
     \/ ~IsCancelled(j) /\ CallEnded(j) /\ Stop(j, "call_ended")
     \/ /\ ~IsCancelled(j) /\ ~CallEnded(j)
        /\ job' = [job EXCEPT ![j].pc = "running", ![j].at = @ + 1,
                     ![j].sawActive = @ \/ (job[j].inCall
                                              /\ CallState(job[j].dev) = "active")]
  /\ Local

Complete(j) == job[j].pc = "running" /\ Over(j) /\ Stop(j, "completed") /\ Local
-----------------------------------------------------------------------------
(* Ending a job.                                                           *)

\* Mutant: nobody hangs up.
CleanUpNothing(j) == job[j].pc = "cleaning" /\ Move(j, "ending") /\ Local

\* trigger_autoanswer's hang-up after a failed load or run, fired.
CleanUp(j) ==
  LET d == job[j].dev
  IN /\ job[j].pc = "cleaning"
     /\ down' = Sent(d, [op |-> "hangup", id |-> 0, of |-> NoCall, by |-> "cleanup"], down)
     /\ Move(j, "ending")
     /\ UNCHANGED <<phoneVars, up, gone, stage, helloFrom, prior, aborting, daemonVars,
                    histVars, cancel, drove, stopped>>

\* CardGuard::drop.
Release(j) ==
  /\ job[j].pc = "ending"
  /\ job' = [job EXCEPT ![j].pc = "done"]
  /\ SetCard(FALSE)
  /\ UNCHANGED <<cancel, drove, stopped>>

\* job.cancel, whatever is running.
JobCancel ==
  /\ ~cancel /\ cancel' = TRUE
  /\ stopped' = stopped \cup Busy
  /\ UNCHANGED <<trackVars, job, drove>>
-----------------------------------------------------------------------------
(* The steps of CallTrack.tla, with what they do to the jobs.              *)

JobHello(s) ==
  /\ Hello(s)
  /\ stopped' = IF aborting'[s] THEN stopped \cup Busy ELSE stopped
  /\ UNCHANGED <<job, cancel, drove>>

JobUpsert(s) ==
  /\ Upsert(s)
  /\ Drain(DeviceOf[s])
  /\ UNCHANGED <<cancel, drove, stopped>>

JobClose(s) ==
  /\ Close(s)
  /\ IF conn[DeviceOf[s]] = s THEN Drain(DeviceOf[s]) ELSE UNCHANGED job
  /\ UNCHANGED <<cancel, drove, stopped>>

\* resolve_ack: the answer reaches the job that waits for it.
JobAck(s) ==
  LET a == Head(up[s])
  IN /\ ReadAck(s)
     /\ job' = IF a.by \in Job /\ Awaiting(a.by)
                 THEN [job EXCEPT ![a.by].reply = a.st] ELSE job
     /\ UNCHANGED <<cancel, drove, stopped>>

JobPerforms(s, c) ==
  LET cmd == Head(down[s])
  IN /\ Performs(s, c)
     /\ drove' = IF cmd.by \in Job /\ cmd.op \in {"dial", "answer"} /\ c # NoCall
                   THEN [drove EXCEPT ![cmd.by] = @ \cup {c}] ELSE drove
     /\ UNCHANGED <<job, cancel, stopped>>

JobCrash ==
  /\ Crash
  /\ job' = [j \in Job |-> IF j \in Busy
                             THEN [job[j] EXCEPT !.pc = "done", !.outcome = "killed"]
                             ELSE job[j]]
  /\ cancel' = FALSE
  /\ UNCHANGED <<drove, stopped>>

Work(j) ==
  \/ ResetFlags(j) \/ AnswerCall(j) \/ AnswerReturns(j) \/ LoadFails(j) \/ Load(j)
  \/ Skip(j) \/ (\E step \in {"dial", "answer", "hangup"} : Ask(j, step))
  \/ Other(j) \/ StepFails(j) \/ AskReturns(j) \/ AskTimesOut(j)
  \/ StartWait(j) \/ Poll(j) \/ Deadline(j) \/ Abandon(j) \/ Abandoned(j)
  \/ Check(j) \/ Complete(j) \/ CleanUp(j) \/ Release(j)

Reader(s) ==
  \/ JobHello(s) \/ (RejectFirst(s) /\ UNCHANGED jobVars) \/ JobUpsert(s) \/ JobClose(s)
  \/ JobAck(s) \/ \E handler \in AutoAnswer : ReadState(s, handler)

Next ==
  \/ PhoneNext /\ UNCHANGED jobVars
  \/ JobCrash \/ JobCancel
  \/ \E s \in Conn : Reader(s) \/ \E c \in Call \cup {NoCall} : JobPerforms(s, c)
  \/ \E j \in Job : RunJob(j) \/ Work(j)

Spec == Init /\ [][Next]_vars

\* Fairness: as in CallTrack.tla, and jobs go on (their steps end, commands
\* and waits time out).  Nobody need start or cancel a job.
Fairness ==
  /\ \A d \in Device : WF_vars(Open(d) /\ UNCHANGED jobVars)
                       /\ WF_vars(Dropped(d) /\ UNCHANGED jobVars)
  /\ \A s \in Conn : /\ WF_vars(OnOpen(s) /\ UNCHANGED jobVars)
                     /\ WF_vars(Reader(s))
                     /\ WF_vars(\E c \in Call \cup {NoCall} : JobPerforms(s, c))
  /\ \A c \in Call : /\ WF_vars(Added(c) /\ UNCHANGED jobVars)
                     /\ WF_vars(c \in hung /\ Disconnect(c) /\ UNCHANGED jobVars)
  /\ \A j \in Job : WF_vars(Work(j)) /\ WF_vars(Deadline(j))

FairSpec == Spec /\ Fairness
-----------------------------------------------------------------------------
(* Properties.                                                             *)

\* "One sound card, one call or recording at a time" (daemon.rs): the flag is
\* up exactly while a job holds it, and one job at most does.
CardHeld == /\ card <=> Busy # {}
            /\ Cardinality(Busy) <= 1

\* The flags are shared by all jobs, but a job reports itself cancelled only if
\* it was told to stop while it held the card, never for another's sake.
CancelledOnPurpose == \A j \in Job : job[j].outcome = "cancelled" => j \in stopped

\* Whatever phone and network do, a job ends and lets go of the card.
JobEnds == \A j \in Job : (job[j].pc # "idle") ~> (job[j].pc = "done")

\* An auto-answered call whose script fails is not left standing ("hang up,
\* don't strand the caller", phone_server.rs:435) while its phone is there to
\* be told.
NotStranded ==
  \A j \in Job : \A c \in Call :
    (job[j].pc = "cleaning" /\ c \in drove[j] /\ state[c] = "active")
      ~> (c \in hung \/ state[c] # "active" \/ conn[PhoneOf[c]] = NoConn)

\* A job cancelled before its call is answered abandons the call ("Hang up
\* explicitly, because the runner skips the job's own call.hangup once a job is
\* cancelled", phone.rs:243-245).
AbandonedHungUp ==
  \A j \in Job : \A c \in Call :
    (job[j].pc = "abandoning" /\ c \in drove[j] /\ state[c] \in Live)
      ~> (c \in hung \/ state[c] \notin Live)

\* A job that stops because "the far end hung up" runs against "a call that no
\* longer exists" (runner.rs:189-190).
EndedMeansEnded ==
  \A j \in Job : job[j].outcome = "call_ended" => \A c \in drove[j] : state[c] \notin Live
=============================================================================
