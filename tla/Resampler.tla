----------------------------- MODULE Resampler -----------------------------
(* The streaming resamplers (audio::resample): a pass-through, an integer   *)
(* decimator behind a low-pass window, and linear interpolation for the     *)
(* other ratios.  What an output sample is made of is kept, not its value:  *)
(* the input positions and the fraction between them.  Positions are exact  *)
(* fractions of the output rate.                                            *)
EXTENDS Integers, Sequences, FiniteSets

CONSTANTS RatePair,  \* [src, dst]
          Taps,      \* taps of the low-pass (65)
          ChunkLen,  \* lengths of the chunks it is fed, 0 included
          MaxInput   \* bound: samples of a stream

ASSUME ResamplerAssumption ==
  /\ RatePair \subseteq [src : Nat \ {0}, dst : Nat \ {0}]
  /\ Taps \in Nat \ {0} /\ ChunkLen \subseteq Nat /\ MaxInput \in Nat

VARIABLES
  rs,   \* the resampler: its kind and its fields
  out   \* what it has put out

resamplerVars == <<rs, out>>

\* Resampler::new: the decimator only for downsampling by a whole number.
KindFor(r) ==
  IF r.src = r.dst THEN "passthrough"
  ELSE IF r.src > r.dst /\ r.src % r.dst = 0 THEN "decimate" ELSE "linear"

\* `fed` counts the input (`consumed`); the decimator's window is the span of
\* inputs it holds and begins with Taps - 1 zeros; `pos` is in units of 1/dst.
NewResampler(r) ==
  [kind |-> KindFor(r), src |-> r.src, dst |-> r.dst, fed |-> 0, phase |-> 0,
   window |-> Taps - 1, pos |-> 0, last |-> -1, skipped |-> FALSE]

ResamplerInit == rs = NewResampler([src |-> 1, dst |-> 1]) /\ out = <<>>
-----------------------------------------------------------------------------
Plain(i) == [lo |-> i, hi |-> i, part |-> 0]

Through(n) ==
  /\ out' = out \o [j \in 1 .. n |-> Plain(rs.fed + j - 1)]
  /\ rs' = [rs EXCEPT !.fed = @ + n]

\* Decimator::process: counting from the inputs it had taken since its last
\* output, every factor-th input makes one, of the window that ends there.  A full
\* window is convolved; one that is not full would pass the sample through.
DecimateFrom(phase, n) ==
  LET factor == rs.src \div rs.dst
      at(k) == k * factor - phase       \* the input, from 1, that makes output k
      sample(k) ==
        LET i == rs.fed + at(k) - 1
        IN  IF rs.window + at(k) >= Taps
            THEN [lo |-> i - Taps + 1, hi |-> i, part |-> 0] ELSE Plain(i)
  IN /\ out' = out \o [k \in 1 .. (phase + n) \div factor |-> sample(k)]
     /\ rs' = [rs EXCEPT !.fed = @ + n, !.phase = (phase + n) % factor,
                         !.window = IF @ + n < Taps THEN @ + n ELSE Taps]

DecimateAfresh(n) == DecimateFrom(0, n)
Decimate(n) == DecimateFrom(rs.phase, n)

\* LinearResampler::process.  The output positions whose two neighbours are in
\* this chunk; the one before its first sample is `last`.
Linear(n) ==
  IF n = 0 THEN UNCHANGED resamplerVars
  ELSE
    LET base == rs.fed
        at(k) == rs.pos + k * rs.src
        rel(k) == at(k) \div rs.dst - base
        K == {k \in 0 .. n * rs.dst : rel(k) + 1 < n}
        sample(k) ==
          [lo |-> IF rel(k) < 0 THEN IF rs.last >= 0 THEN rs.last ELSE base
                  ELSE base + rel(k),
           hi |-> base + rel(k) + 1,
           part |-> at(k) % rs.dst]
        made == Cardinality(K)
    IN /\ out' = out \o [j \in 1 .. made |-> sample(j - 1)]
       /\ rs' = [rs EXCEPT !.fed = base + n, !.last = base + n - 1,
                           !.pos = at(made),
                           !.skipped = @ \/ \E k \in K : rel(k) < -1]

Process(n) ==
  /\ n \in ChunkLen /\ rs.fed + n <= MaxInput
  /\ CASE rs.kind = "passthrough" -> Through(n)
       [] rs.kind = "decimate" -> Decimate(n)
       [] rs.kind = "linear" -> Linear(n)

\* A new stream.
NewStream(r) == rs' = NewResampler(r) /\ out' = <<>>

ResamplerNext ==
  \/ \E r \in RatePair : NewStream(r)
  \/ \E n \in ChunkLen : Process(n)

ResamplerSpec == ResamplerInit /\ [][ResamplerNext]_resamplerVars
-----------------------------------------------------------------------------
\* What the k-th output (from 0) of the whole stream is made of.
OutputOf(k) ==
  CASE rs.kind = "passthrough" -> Plain(k)
    [] rs.kind = "decimate" ->
         LET i == (k + 1) * (rs.src \div rs.dst) - 1
         IN [lo |-> i - Taps + 1, hi |-> i, part |-> 0]
    [] rs.kind = "linear" ->
         [lo |-> (k * rs.src) \div rs.dst, hi |-> (k * rs.src) \div rs.dst + 1,
          part |-> (k * rs.src) % rs.dst]

\* "Stateful so they can be fed arbitrary-length chunks": how the stream was
\* cut makes no difference to what comes out, and whatever could come out has;
\* the interpolator never skips ("Shouldn't happen") nor misses the carried
\* sample, and the decimator's window is never short of full.
ChunkingIrrelevant ==
  /\ ~rs.skipped
  /\ \A k \in 1 .. Len(out) : out[k] = OutputOf(k - 1)
  /\ OutputOf(Len(out)).hi >= rs.fed
=============================================================================
