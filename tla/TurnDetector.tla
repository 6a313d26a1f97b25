---------------------------- MODULE TurnDetector ----------------------------
(* Waiting for the far end to speak: the detector of a turn (TurnDetector)  *)
(* under its two loops, which read a capture, frame it into hops and stop   *)
(* at the end of a turn (run_wait_for_speech), or while the far end is      *)
(* still talking (run_wait_for_speech_start).  With a recording session     *)
(* they read what its capture thread passes on, and look up when nothing    *)
(* comes; without one, the default, they read the capture tool itself, and  *)
(* a read returns when the tool writes or closes its pipe.  The VAD's       *)
(* verdict on a hop is the environment's choice.                            *)
EXTENDS Integers, Sequences, FiniteSets, FiniteSetsExt

CONSTANTS HopMs, HopLen, \* one hop, in milliseconds and in samples
          ReadLen,       \* how many samples one read may return
          WaitKind,      \* [mode, session, silence, timeout, onset, linger]: is
                         \* there a recording session, and the windows in ms
          Forever        \* u64::MAX

ASSUME TurnAssumption ==
  /\ HopMs \in Nat \ {0} /\ HopLen \in Nat \ {0}
  /\ ReadLen \subseteq Nat \ {0}
  /\ Forever \in Nat
  /\ WaitKind # {}
  /\ WaitKind \subseteq [mode : {"turn", "start"}, session : BOOLEAN,
                         silence : Nat, timeout : Nat, onset : Nat, linger : Nat]

VARIABLES
  detector, \* the fields of TurnDetector, and the event of the last hop
  waiter,   \* the loop: its request, `pending`, `onset_at`, what it returns
  verdicts, \* history: the VAD's verdicts on the hops it was given
  capture,  \* the source: "live", "mute" (no frames, no end) or "ended"
  cancel    \* the job has been cancelled

turnVars == <<detector, waiter, verdicts, capture, cancel>>

AtLeastOne(n) == IF n = 0 THEN 1 ELSE n
MsToHops(ms) == (ms + HopMs - 1) \div HopMs

\* TurnDetector::new; for a start, only the onset matters.
NewDetector(w) ==
  [silence |-> IF w.mode = "turn" THEN MsToHops(w.silence) ELSE Forever,
   timeout |-> MsToHops(w.timeout),
   onset   |-> AtLeastOne(MsToHops(w.onset)),
   started |-> FALSE, voicedRun |-> 0, silenceRun |-> 0, elapsed |-> 0,
   finished |-> FALSE, event |-> "none"]

NoWait == [kind |-> CHOOSE w \in WaitKind : TRUE, pending |-> 0, onsetAt |-> -1,
           result |-> "not begun"]

TurnInit ==
  /\ detector = NewDetector(NoWait.kind)
  /\ waiter = NoWait
  /\ verdicts = <<>> /\ capture = "live" /\ cancel = FALSE
-----------------------------------------------------------------------------
(* TurnDetector::push: at most one event for a hop.                         *)

Ended(d, why) == [d EXCEPT !.finished = TRUE, !.event = why]
Capped(d) == IF d.elapsed >= d.timeout THEN Ended(d, "timeout") ELSE d

PushBeforeSum(d, voiced) ==
  LET run == IF voiced THEN d.voicedRun + 1 ELSE d.voicedRun IN
  IF run >= d.onset
    THEN [d EXCEPT !.voicedRun = run, !.started = TRUE, !.event = "started"]
    ELSE Capped([d EXCEPT !.voicedRun = run])

\* Before the onset: a run of voiced hops, and one that is not resets it.
PushBefore(d, voiced) ==
  LET run == IF voiced THEN d.voicedRun + 1 ELSE 0 IN
  IF run >= d.onset
    THEN [d EXCEPT !.voicedRun = run, !.started = TRUE, !.event = "started"]
    ELSE Capped([d EXCEPT !.voicedRun = run])

PushAfter(d, voiced) ==
  LET run == IF voiced THEN 0 ELSE d.silenceRun + 1
      e   == [d EXCEPT !.silenceRun = run]
  IN IF ~voiced /\ run >= d.silence THEN Ended(e, "silence") ELSE Capped(e)

Push(d, voiced) ==
  LET e == [d EXCEPT !.event = "none", !.elapsed = @ + 1] IN
  IF d.finished THEN [d EXCEPT !.event = "none"]
  ELSE IF d.started THEN PushAfter(e, voiced) ELSE PushBefore(e, voiced)

-----------------------------------------------------------------------------
(* The loops.                                                               *)

BeginWait(w) ==
  /\ waiter = NoWait
  /\ waiter' = [NoWait EXCEPT !.kind = w, !.result = "none"]
  /\ detector' = NewDetector(w)
  /\ UNCHANGED <<verdicts, capture, cancel>>

Waits == waiter.result = "none"
NeedsMore == Waits /\ waiter.pending < HopLen
\* The tool writes nothing: with a session a read comes back empty-handed,
\* without one it does not come back.
Blocked == ~waiter.kind.session /\ capture = "mute"
Return(w, r) == [w EXCEPT !.result = r]
HeardOnset(w) == IF w.onsetAt >= 0 THEN "true" ELSE "false"

\* The next samples; what is short of a hop stays pending.
ReadMore(n) ==
  /\ NeedsMore /\ ~cancel /\ capture = "live"
  /\ waiter' = [waiter EXCEPT !.pending = @ + n]
  /\ UNCHANGED <<detector, verdicts, capture, cancel>>

\* Cancelled, or at the end of the capture; looked up between two reads.
StopsEarly ==
  /\ NeedsMore /\ ~Blocked
  /\ cancel \/ capture = "ended"
  /\ waiter' = Return(waiter, IF waiter.kind.mode = "turn" THEN "end of stream"
                              ELSE HeardOnset(waiter))
  /\ detector' = IF waiter.kind.mode = "turn" /\ ~cancel /\ ~detector.finished
                   THEN Ended(detector, "end of stream") ELSE detector
  /\ UNCHANGED <<verdicts, capture, cancel>>

StallsOnceHeard ==
  /\ NeedsMore /\ ~cancel /\ capture = "mute" /\ ~Blocked /\ verdicts # <<>>
  /\ waiter' = Return(waiter, "stalled")
  /\ UNCHANGED <<detector, verdicts, capture, cancel>>

\* No frame for stall_limit: an error, for a read that comes back to see it.
Stalls ==
  /\ NeedsMore /\ ~cancel /\ capture = "mute" /\ ~Blocked
  /\ waiter' = Return(waiter, "stalled")
  /\ UNCHANGED <<detector, verdicts, capture, cancel>>

\* A hop of a wait for the end of a turn.
TurnHop(w, d) == IF d.event \in {"silence", "timeout"} THEN Return(w, d.event)
                 ELSE w

\* A hop of a wait for its start: both windows are counted in hops.
StartHop(w, d) ==
  LET seen == Len(verdicts) + 1
      at == IF d.event = "started" /\ w.onsetAt < 0 THEN seen - 1 ELSE w.onsetAt
      v  == [w EXCEPT !.onsetAt = at]
  IN IF at >= 0 /\ seen - at >= w.kind.linger \div HopMs THEN Return(v, "true")
     ELSE IF at < 0 /\ seen >= w.kind.timeout \div HopMs THEN Return(v, "false")
     ELSE v

PushHop(voiced) ==
  /\ Waits /\ waiter.pending >= HopLen
  /\ detector' = Push(detector, voiced)
  /\ verdicts' = Append(verdicts, voiced)
  /\ LET w == [waiter EXCEPT !.pending = @ - HopLen] IN
       waiter' = IF w.kind.mode = "turn" THEN TurnHop(w, detector')
                 ELSE StartHop(w, detector')
  /\ UNCHANGED <<capture, cancel>>

\* The capture tool stalls or ends, or ends after a stall; the job is cancelled.
CaptureFails ==
  /\ Waits /\ capture # "ended"
  /\ capture' \in {"mute", "ended"} \ {capture}
  /\ UNCHANGED <<detector, waiter, verdicts, cancel>>

CancelJob ==
  /\ Waits /\ ~cancel
  /\ cancel' = TRUE
  /\ UNCHANGED <<detector, waiter, verdicts, capture>>

LoopStep ==
  \/ \E n \in ReadLen : ReadMore(n)
  \/ StopsEarly \/ Stalls
  \/ \E voiced \in BOOLEAN : PushHop(voiced)

TurnNext ==
  \/ (\E w \in WaitKind : BeginWait(w))
  \/ (\E n \in ReadLen : ReadMore(n)) \/ StopsEarly \/ Stalls
  \/ (\E voiced \in BOOLEAN : PushHop(voiced))
  \/ CaptureFails \/ CancelJob

TurnSpec == TurnInit /\ [][TurnNext]_turnVars
FairTurnSpec == TurnSpec /\ WF_turnVars(LoopStep)
-----------------------------------------------------------------------------
TurnTypeOK ==
  /\ detector \in [silence : Nat, timeout : Nat, onset : Nat \ {0},
                   started : BOOLEAN, voicedRun : Nat, silenceRun : Nat,
                   elapsed : Nat, finished : BOOLEAN,
                   event : {"none", "started", "silence", "timeout",
                            "end of stream"}]
  /\ waiter \in [kind : WaitKind, pending : Nat, onsetAt : Nat \cup {-1},
                 result : {"not begun", "none", "true", "false", "stalled",
                           "silence", "timeout", "end of stream"}]
  /\ verdicts \in Seq(BOOLEAN)
  /\ capture \in {"live", "mute", "ended"} /\ cancel \in BOOLEAN

(* What the waits promise, said of the verdicts alone.                      *)

AllAre(v, from, to) == \A j \in from .. to : verdicts[j] = v
Onsets == LET o == AtLeastOne(MsToHops(waiter.kind.onset)) IN
  {i \in o .. Len(verdicts) : AllAre(TRUE, i - o + 1, i)}
Onset == Min(Onsets)

SilentAt(i) == LET s == AtLeastOne(MsToHops(waiter.kind.silence)) IN
  Onsets # {} /\ i - s >= Onset /\ AllAre(FALSE, i - s + 1, i)
LateAt(i) == i >= MsToHops(waiter.kind.timeout) /\ (Onsets = {} \/ i # Onset)

\* A turn is over with the first hop that completes the required silence after
\* an onset (a continuous voiced run; isolated noise does not start a turn),
\* or else reaches the limit - not on the very hop of the onset - and for no
\* other reason while frames arrive (TurnDetector::push).
TurnEndsRight ==
  waiter.kind.mode = "turn" =>
    LET over == {i \in 1 .. Len(verdicts) : SilentAt(i) \/ LateAt(i)} IN
      IF waiter.result \in {"silence", "timeout"}
        THEN /\ over = {Len(verdicts)}
             /\ waiter.result = "silence" <=> SilentAt(Len(verdicts))
        ELSE over = {}

\* The barge-in primitive returns while the far end is still speaking: true
\* with the hop that ends the lingering after the onset, false with the hop
\* that ends the window when no onset was heard in it; cut short, it says
\* whether there was one (run_wait_for_speech_start).
StartsRight ==
  waiter.kind.mode = "start" =>
    LET linger == AtLeastOne(waiter.kind.linger \div HopMs)
        window == AtLeastOne(waiter.kind.timeout \div HopMs)
        due == {i \in 1 .. Len(verdicts) :
                  IF Onsets # {} /\ (Onset <= i \/ Onset <= window)
                    THEN i >= Onset + linger - 1 ELSE i >= window}
    IN /\ waiter.result \in {"true", "false"} => due \subseteq {Len(verdicts)}
       /\ waiter.result \in {"none", "stalled"} => due = {}
       /\ waiter.result = "true" => Onsets # {}
       /\ waiter.result = "false" => Onsets = {}

\* Either wait ends on the right hop, for the right reason.
TurnsRight == TurnEndsRight /\ StartsRight

\* A wait always returns: by its verdicts, by its limit, because the job is
\* cancelled, or, when the frames that advance the limit stay away, by the guard
\* against a dead capture.  The guard is a recording session's: without one the
\* wait is as dead as the capture tool is mute (the comment on stall_limit,
\* "blocking sources are unaffected"), and only then.
WaitReturns == Waits ~> ~Waits \/ Blocked

\* What that leaves out, which the code does not keep: a capture tool that hangs
\* holds a wait without a session, the cancellation of its job included.
NeverBlocked == Waits ~> ~Waits
=============================================================================
