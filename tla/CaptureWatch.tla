---------------------------- MODULE CaptureWatch ----------------------------
(* What a capture delivers against the time that passes: CaptureClock as a  *)
(* recording uses it to notice audio that never arrived, and as the startup *)
(* probe uses it to measure the rate of the card; and SilenceWatch.  Time   *)
(* is in ticks; the card makes `rate` frames in each, the tool buffers some *)
(* and may lose some.                                                       *)
EXTENDS Integers

CONSTANTS FrameRate,       \* audio.sample_rate, in frames per tick
          TrueRate,        \* what cards make of it
          Settle, ReportMin, ShareDen,   \* SETTLE, REPORT_MIN, 1/REPORT_SHARE
          Measure, ToleranceDen,         \* MEASURE, 1/RATE_TOLERANCE
          SilentMin, SilentWarnAfter,    \* as in record.rs, in ticks
          Buffer,          \* bound: frames that the tool may hold back
          MaxTick          \* bound

ASSUME WatchAssumption ==
  /\ FrameRate \in Nat \ {0} /\ TrueRate \subseteq Nat \ {0}
  /\ \A n \in {Settle, SilentWarnAfter, Buffer, MaxTick} : n \in Nat
  /\ \A n \in {ReportMin, ShareDen, Measure, ToleranceDen, SilentMin} :
       n \in Nat \ {0}

Size(n) == IF n < 0 THEN -n ELSE n

\* What a healthy tool holds back is less than what is reported, and what it can
\* hide of the frames of a measurement less than the tolerance; a card at
\* another rate is further off than both.
ASSUME ToleranceAssumption ==
  /\ Buffer + FrameRate <= ReportMin * FrameRate
  /\ (Buffer + FrameRate) * ToleranceDen <= FrameRate * Measure
  /\ \A r \in TrueRate \ {FrameRate} :
       (Buffer + r) * ToleranceDen
         <= (Size(r - FrameRate) * ToleranceDen - FrameRate) * Measure

VARIABLES
  now,     \* the clock on the wall
  card,    \* what it makes and the tool holds back, and (history) has lost
  cclock,  \* CaptureClock
  silence, \* SilenceWatch
  watcher  \* "record" or "probe": what it has said, what it ends with

watchVars == <<now, card, cclock, silence, watcher>>

Never == -1

Card(r) == [rate |-> r, held |-> 0, lost |-> 0, missing |-> 0, base |-> 0]
Watcher(m) == [mode |-> m, drift |-> "none", result |-> "none",
               silent |-> FALSE]

WatchInit ==
  /\ now = 0
  /\ card = Card(FrameRate)
  /\ cclock = [first |-> Never, from |-> Never, last |-> Never, frames |-> 0]
  /\ silence = [frames |-> 0, loud |-> FALSE, warned |-> FALSE]
  /\ watcher = Watcher("idle")
-----------------------------------------------------------------------------
(* CaptureClock.  (Frames, not seconds: both sides times the rate.)         *)

ObserveAtOnce(c, t, frames) ==
  LET first == IF c.first = Never THEN t ELSE c.first
  IN [first |-> first, from |-> first, last |-> t, frames |-> c.frames + frames]

ObserveAt(c, t, frames) ==
  LET first == IF c.first = Never THEN t ELSE c.first
      d == [c EXCEPT !.first = first, !.last = t]
  IN IF c.from # Never THEN [d EXCEPT !.frames = @ + frames]
     ELSE IF t - first >= Settle THEN [d EXCEPT !.from = t]
     ELSE d

Elapsed(c) == IF c.from = Never THEN 0 ELSE c.last - c.from
Drift(c) == Elapsed(c) * FrameRate - c.frames

Reportable(c) ==
  /\ Size(Drift(c)) >= ReportMin * FrameRate
  /\ Size(Drift(c)) * ShareDen > Elapsed(c) * FrameRate

\* rate(), rate_drifts: nothing measured is no rate.
Measured(c) == Elapsed(c) > 0 /\ c.frames > 0
RateDrifts(c) ==
  Size(c.frames - FrameRate * Elapsed(c)) * ToleranceDen
    > FrameRate * Elapsed(c)

(* SilenceWatch.                                                            *)

IsSilent(s) == s.frames > 0 /\ ~s.loud
SilentOverall(s) == s.frames >= SilentMin * FrameRate /\ IsSilent(s)

ObserveSound(s, frames, loud) ==
  LET t == [s EXCEPT !.loud = @ \/ loud, !.frames = @ + frames]
  IN [t EXCEPT !.warned = @ \/ (t.frames >= SilentWarnAfter * FrameRate
                                  /\ IsSilent(t))]

-----------------------------------------------------------------------------
Watching == watcher.mode # "idle" /\ watcher.result = "none"

\* A recording or a probe begins, on a card that runs at this rate.
BeginWatch(mode, rate) ==
  /\ watcher.mode = "idle"
  /\ watcher' = Watcher(mode)
  /\ card' = Card(rate)
  /\ UNCHANGED <<now, cclock, silence>>

\* A chunk arrives: part of what is held back, or all of it.
Chunk(n, loud) ==
  /\ Watching /\ n \in 1 .. card.held
  /\ watcher.mode = "probe" => Elapsed(cclock) < Measure
  /\ cclock' = ObserveAt(cclock, now, n)
  /\ LET begins == cclock.from = Never /\ cclock'.from # Never
         left == card.held - n
         base == IF begins THEN left ELSE card.base
         lost == IF begins THEN 0 ELSE card.lost
     IN card' = [card EXCEPT !.held = left, !.base = base, !.lost = lost,
                             !.missing = IF cclock'.from = Never THEN 0
                                         ELSE lost + left - base]
  /\ IF watcher.mode = "record"
       THEN /\ silence' = ObserveSound(silence, n, loud)
            /\ watcher' = [watcher EXCEPT !.drift =
                 IF @ = "none" /\ Reportable(cclock')
                   THEN IF Drift(cclock') > 0 THEN "lost" ELSE "fast"
                   ELSE @]
       ELSE UNCHANGED <<silence, watcher>>
  /\ UNCHANGED now

\* finish: what the recording says of itself.
FinishRecording ==
  /\ Watching /\ watcher.mode = "record"
  /\ watcher' = [watcher EXCEPT
       !.result = IF Reportable(cclock) /\ Drift(cclock) > 0 THEN "lost"
                  ELSE "complete",
       !.silent = SilentOverall(silence)]
  /\ UNCHANGED <<now, card, cclock, silence>>

\* measure_source_rate and classify_probe.
ProbeEnds ==
  /\ Watching /\ watcher.mode = "probe" /\ Elapsed(cclock) >= Measure
  /\ watcher' = [watcher EXCEPT !.result =
       IF ~Measured(cclock) THEN "failed"
       ELSE IF RateDrifts(cclock) THEN "mismatch" ELSE "ok"]
  /\ UNCHANGED <<now, card, cclock, silence>>

\* The tool exits, or cannot run at all.
ProbeFails ==
  /\ Watching /\ watcher.mode = "probe" /\ Elapsed(cclock) < Measure
  /\ watcher' = [watcher EXCEPT !.result = "failed"]
  /\ UNCHANGED <<now, card, cclock, silence>>

\* Time passes; the frames made meanwhile are held back, or lost with it all.
TimePassing(keep) ==
  /\ Watching /\ now < MaxTick
  /\ now' = now + 1
  /\ card' = IF keep THEN [card EXCEPT !.held = @ + card.rate]
             ELSE [card EXCEPT !.lost = @ + card.rate]
  /\ keep => card.held <= Buffer
  /\ UNCHANGED <<cclock, silence, watcher>>

WatchNext ==
  \/ (\E mode \in {"record", "probe"}, rate \in TrueRate : BeginWatch(mode, rate))
  \/ (\E n \in 1 .. Buffer + card.rate, loud \in BOOLEAN : Chunk(n, loud))
  \/ FinishRecording \/ ProbeEnds \/ ProbeFails
  \/ \E keep \in BOOLEAN : TimePassing(keep)

WatchSpec == WatchInit /\ [][WatchNext]_watchVars
-----------------------------------------------------------------------------
WatchTypeOK ==
  /\ now \in 0 .. MaxTick
  /\ card \in [rate : Nat, held : Nat, lost : Nat, missing : Int,
               base : Nat]
  /\ cclock \in [first : Nat \cup {Never}, from : Nat \cup {Never},
                 last : Nat \cup {Never}, frames : Nat]
  /\ silence \in [frames : Nat, loud : BOOLEAN, warned : BOOLEAN]
  /\ watcher \in [mode : {"idle", "record", "probe"},
                  drift : {"none", "lost", "fast"},
                  result : {"none", "lost", "complete", "failed", "mismatch",
                            "ok"},
                  silent : BOOLEAN]

RightRate == card.rate = FrameRate

\* What a recording reports as lost is what the tool has lost by the last chunk
\* that came, give or take what it holds back: a card at the right rate that
\* loses nothing is never reported, however bursty its delivery, during the
\* recording or at its end (SETTLE, REPORT_MIN); a loss that such a chunk shows
\* is.  What is lost after it is not seen: see AllLossIsTold.
LossIsTold ==
  /\ RightRate => Drift(cclock) = card.missing
  /\ RightRate /\ card.lost = 0 => watcher.drift = "none" /\ watcher.result # "lost"
  /\ watcher.mode = "record" /\ watcher.result = "complete" =>
       ~(card.missing >= ReportMin * FrameRate
           /\ card.missing * ShareDen > Elapsed(cclock) * FrameRate /\ RightRate)

\* The probe tells a card at another rate from one at the configured rate, if
\* nothing is lost while it measures.
ProbeTellsRate ==
  watcher.mode = "probe" /\ card.lost = 0 =>
    /\ watcher.result = "ok" => RightRate
    /\ watcher.result = "mismatch" => ~RightRate

\* The one clock serves both of its users.
CaptureTold == LossIsTold /\ ProbeTellsRate

\* "Seconds of the run that rx has no audio for": whatever the tool has lost
\* since measuring began is part of the report (RecordOutput::rx_lost_s).
AllLossIsTold ==
  watcher.mode = "record" /\ RightRate /\ cclock.from # Never
    /\ card.lost - card.base >= ReportMin * FrameRate
    /\ card.lost * ShareDen > (now - cclock.from) * FrameRate
    => watcher.result # "complete"
=============================================================================
