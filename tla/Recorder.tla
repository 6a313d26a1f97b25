------------------------------ MODULE Recorder ------------------------------
(* A duplex recording (DuplexSession): the capture thread that writes rx    *)
(* and feeds the turn detector, against the job thread that plays prompts   *)
(* into tx, waits for turns and finishes.  A chunk is what a read of the    *)
(* capture tool adds to rx, numbered; samples are counted, not kept; a      *)
(* frame is one sample of each channel.                                     *)
EXTENDS Integers, Sequences, FiniteSets

CONSTANTS Channels,  \* of the capture
          ReadSize,  \* how many samples one read may return
          Bound,     \* VAD_CHANNEL_BOUND
          PromptLen, \* frames of a prompt
          MaxRead, MaxStep \* bounds: reads; prompts and waits

ASSUME RecorderAssumption ==
  /\ Channels \in Nat \ {0} /\ ReadSize \subseteq Nat \ {0}
  /\ Bound \in Nat \ {0} /\ PromptLen \in Nat
  /\ MaxRead \in Nat /\ MaxStep \in Nat

VARIABLES
  cap,     \* the capture thread: where it is, and its locals
  rx,      \* samples in rx.wav
  clock,   \* rx_len: the frame clock that the job thread reads
  active,  \* vad_active
  chan,    \* the channel of frames to the detector
  tx,      \* samples in tx.wav, the counter tx_len, and where prompts lie
  rjob,    \* the job thread
  tool,    \* the capture tool: "runs", "mute" (no data, no end) or "gone"
  given    \* samples that the tool has delivered

recorderVars == <<cap, rx, clock, active, chan, tx, rjob, tool, given>>

RecorderInit ==
  /\ cap = [pc |-> "read", k |-> 0, n |-> 0, carry |-> 0, total |-> 0,
            wasActive |-> FALSE, last |-> 0]
  /\ rx = 0 /\ clock = 0
  /\ active = FALSE /\ chan = <<>>
  /\ tx = [samples |-> 0, len |-> 0, prompts |-> <<>>]
  /\ rjob = [pc |-> "opening", steps |-> 0, began |-> 0, stale |-> 0]
  /\ tool = "runs" /\ given = 0
-----------------------------------------------------------------------------
(* The capture thread.                                                      *)

Read(n) ==
  /\ cap.pc = "read" /\ tool = "runs" /\ cap.k < MaxRead
  /\ given' = given + n
  /\ cap' = [cap EXCEPT !.pc = "write", !.n = n]
  /\ UNCHANGED <<rx, clock, active, chan, tx, rjob, tool>>

\* The tool has ended or was killed: the channel is closed with the thread.
Eof ==
  /\ cap.pc = "read" /\ tool = "gone"
  /\ cap' = [cap EXCEPT !.pc = "ended"]
  /\ UNCHANGED <<rx, clock, active, chan, tx, rjob, tool, given>>

\* Only whole frames are written; what is left of one is carried over.
Whole(samples) == (samples \div Channels) * Channels

WriteAll ==
  /\ cap.pc = "write"
  /\ rx' = rx + cap.n
  /\ cap' = [cap EXCEPT !.pc = "store", !.k = @ + 1,
                         !.total = @ + cap.n \div Channels]
  /\ UNCHANGED <<clock, active, chan, tx, rjob, tool, given>>

Write ==
  /\ cap.pc = "write"
  /\ LET direct == cap.carry = 0 /\ cap.n % Channels = 0
         chunk  == IF direct THEN cap.n ELSE Whole(cap.carry + cap.n)
     IN /\ rx' = rx + chunk
        /\ cap' = [cap EXCEPT
             !.pc = IF chunk = 0 THEN "read" ELSE "store",
             !.k = IF chunk = 0 THEN @ ELSE @ + 1,
             !.carry = IF direct THEN @ ELSE @ + cap.n - chunk,
             !.total = @ + chunk \div Channels]
  /\ UNCHANGED <<clock, active, chan, tx, rjob, tool, given>>

Store ==
  /\ cap.pc = "store"
  /\ clock' = cap.total
  /\ cap' = [cap EXCEPT !.pc = "look"]
  /\ UNCHANGED <<rx, active, chan, tx, rjob, tool, given>>

ResampledOn(c) == [c EXCEPT !.wasActive = active]

\* The flag is looked at once for each chunk.  A new turn begins with a new
\* resampler: it has not seen what was captured in between.
Resampled(c) == [c EXCEPT !.wasActive = active,
                          !.last = IF active /\ ~c.wasActive THEN 0 ELSE @]

Look4Turn ==
  /\ cap.pc = "look"
  /\ cap' = [Resampled(cap) EXCEPT !.pc = IF active THEN "send" ELSE "read"]
  /\ UNCHANGED <<rx, clock, active, chan, tx, rjob, tool, given>>

SendAlways ==
  /\ cap.pc = "send"
  /\ chan' = Append(chan, [n |-> cap.k, after |-> cap.last])
  /\ cap' = [cap EXCEPT !.pc = "read", !.last = cap.k]
  /\ UNCHANGED <<rx, clock, active, tx, rjob, tool, given>>

\* try_send: never waits, a full channel drops the frame; a short chunk may
\* not make one.  (`after` is the chunk that the resampler had seen before.)
TrySend ==
  /\ cap.pc = "send"
  /\ \/ Len(chan) < Bound
        /\ chan' = Append(chan, [n |-> cap.k, after |-> cap.last])
     \/ UNCHANGED chan
  /\ cap' = [cap EXCEPT !.pc = "read", !.last = cap.k]
  /\ UNCHANGED <<rx, clock, active, tx, rjob, tool, given>>

-----------------------------------------------------------------------------
(* The job thread.                                                          *)

Larger(a, b) == IF a >= b THEN a ELSE b

\* start_duplex returns with the first frames.
DuplexOpened ==
  /\ rjob.pc = "opening" /\ clock > 0
  /\ rjob' = [rjob EXCEPT !.pc = "between"]
  /\ UNCHANGED <<cap, rx, clock, active, chan, tx, tool, given>>

\* play_file: push_tx anchors the prompt at the clock, after what is there.
Play ==
  /\ rjob.pc = "between" /\ rjob.steps < MaxStep
  /\ LET at == Larger(tx.len, clock)
         pad == IF clock <= tx.len THEN 0 ELSE (clock - tx.len) * Channels
     IN tx' = [samples |-> tx.samples + pad + PromptLen * Channels,
               len |-> at + PromptLen,
               prompts |-> Append(tx.prompts, [at |-> at, heard |-> clock])]
  /\ rjob' = [rjob EXCEPT !.steps = @ + 1]
  /\ UNCHANGED <<cap, rx, clock, active, chan, tool, given>>

\* vad_begin: drop what is left over, then arm.
Drain ==
  /\ rjob.pc = "between" /\ rjob.steps < MaxStep
  /\ chan' = <<>>
  /\ rjob' = [rjob EXCEPT !.pc = "drained", !.steps = @ + 1]
  /\ UNCHANGED <<cap, rx, clock, active, tx, tool, given>>

\* (`began` is the first chunk for which the flag has yet to be looked at.)
Arm ==
  /\ rjob.pc = "drained"
  /\ active' = TRUE
  /\ rjob' = [rjob EXCEPT !.pc = "listen", !.stale = 0,
       !.began = IF cap.pc \in {"store", "look"} THEN cap.k ELSE cap.k + 1]
  /\ UNCHANGED <<cap, rx, clock, chan, tx, tool, given>>

\* A frame is heard; the turn goes on or, with this frame, is over.
Hear ==
  /\ rjob.pc = "listen" /\ chan # <<>>
  /\ chan' = Tail(chan)
  /\ \E over \in BOOLEAN :
       rjob' = [rjob EXCEPT
         !.stale = IF Head(chan).n < rjob.began THEN @ + 1 ELSE @,
         !.pc = IF over THEN "disarm" ELSE @]
  /\ UNCHANGED <<cap, rx, clock, active, tx, tool, given>>

\* No frame: the capture has ended or stalls, or the job is cancelled.
HearNothing ==
  /\ rjob.pc = "listen" /\ chan = <<>>
  /\ rjob' = [rjob EXCEPT !.pc = "disarm"]
  /\ UNCHANGED <<cap, rx, clock, active, chan, tx, tool, given>>

\* vad_end
Disarm ==
  /\ rjob.pc = "disarm"
  /\ active' = FALSE
  /\ rjob' = [rjob EXCEPT !.pc = "between"]
  /\ UNCHANGED <<cap, rx, clock, chan, tx, tool, given>>

\* finish, at the end of the job or when the first frames stay away: the tool
\* is killed, the thread joined ...
Finish2 ==
  /\ rjob.pc = "between" \/ (rjob.pc = "opening" /\ clock = 0)
  /\ active' = FALSE
  /\ tool' = "gone"
  /\ rjob' = [rjob EXCEPT !.pc = "finishing"]
  /\ UNCHANGED <<cap, rx, clock, chan, tx, given>>

\* ... and the shorter leg padded, both counted in frames.
PadTo(have, want) == IF want <= have THEN 0 ELSE (want - have) * Channels

Join ==
  /\ rjob.pc = "finishing" /\ cap.pc = "ended"
  /\ LET total == Larger(cap.total, tx.len) IN
       /\ rx' = rx + PadTo(cap.total, total)
       /\ tx' = [tx EXCEPT !.samples = @ + PadTo(tx.len, total)]
  /\ rjob' = [rjob EXCEPT !.pc = "done"]
  /\ UNCHANGED <<cap, clock, active, chan, tool, given>>

\* The tool ends, or goes on without delivering anything.
ToolFails ==
  /\ tool = "runs"
  /\ tool' \in {"mute", "gone"}
  /\ UNCHANGED <<cap, rx, clock, active, chan, tx, rjob, given>>

CaptureStep == Eof \/ Write \/ Store \/ Look4Turn \/ TrySend

RecorderNext ==
  \/ (\E n \in ReadSize : Read(n)) \/ Eof \/ Write \/ Store \/ Look4Turn
  \/ TrySend \/ DuplexOpened \/ Play \/ Drain \/ Arm \/ Hear \/ HearNothing
  \/ Disarm \/ Finish2 \/ Join \/ ToolFails

RecorderSpec == RecorderInit /\ [][RecorderNext]_recorderVars
FairRecorderSpec ==
  /\ RecorderSpec
  /\ WF_recorderVars(CaptureStep) /\ WF_recorderVars(Join)
-----------------------------------------------------------------------------
RecorderTypeOK ==
  /\ cap \in [pc : {"read", "write", "store", "look", "send", "ended"},
              k : 0 .. MaxRead, n : Nat, carry : 0 .. Channels - 1,
              total : Nat, wasActive : BOOLEAN, last : Nat]
  /\ rx \in Nat /\ clock \in Nat /\ given \in Nat /\ active \in BOOLEAN
  /\ chan \in Seq([n : Nat, after : Nat]) /\ Len(chan) <= Bound
  /\ tx \in [samples : Nat, len : Nat, prompts : Seq([at : Nat, heard : Nat])]
  /\ rjob \in [pc : {"opening", "between", "drained", "listen", "disarm",
                     "finishing", "done"},
               steps : 0 .. MaxStep, began : Nat, stale : Nat]
  /\ tool \in {"runs", "mute", "gone"}

\* One timeline: rx holds every whole frame that was delivered and no half one
\* ("a half frame would swap the channels of every frame after it"), the clock
\* never runs ahead of it, no prompt lies before the moment it was played nor
\* over the one before, and at the end both legs have the same length
\* (DuplexSession::start, push_tx, finish).
OneTimeline ==
  /\ cap.pc # "write" /\ rjob.pc # "done" =>
       rx = Whole(given) /\ rx + cap.carry = given
  /\ clock * Channels <= rx
  /\ \A i \in 1 .. Len(tx.prompts) :
       LET before == IF i = 1 THEN 0 ELSE tx.prompts[i - 1].at + PromptLen
       IN tx.prompts[i].at = Larger(tx.prompts[i].heard, before)
  /\ rjob.pc # "done" => tx.samples = tx.len * Channels
  /\ rjob.pc = "done" => tx.samples = rx

\* What the detector gets is one piece of audio: the resampler never joins two
\* chunks across a gap, and at most one chunk that was meant for the turn before
\* (under way when that one ended) is taken for part of it (the reset of `rs`,
\* vad_begin).
TurnsAreClean ==
  /\ \A i \in 1 .. Len(chan) : chan[i].after \in {0, chan[i].n - 1}
  /\ rjob.pc = "listen" =>
       rjob.stale + Cardinality({i \in 1 .. Len(chan) :
                                   chan[i].n < rjob.began}) <= 1

\* finish() never hangs, whatever the detector left in the channel: the capture
\* thread does not wait for a reader that has gone (try_send, `unblock`).
FinishReturns == rjob.pc = "finishing" ~> rjob.pc = "done"
=============================================================================
