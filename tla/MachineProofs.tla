--------------------------- MODULE MachineProofs ---------------------------
(* What is proved of the parts that MCMachine explores, for every value of  *)
(* the constants: the two threads of a recording (Recorder), the app's      *)
(* search for its daemon (AppLink), the waits for the far end to speak      *)
(* (TurnDetector), the watch over a capture's clock (CaptureWatch), the     *)
(* export of a bundle (BundleExport) and its import (BundleImport), the     *)
(* resamplers (Resampler) and the host precheck of an import (HostCheck).   *)
EXTENDS AppLink, Recorder, TurnDetector, CaptureWatch, BundleExport,
        BundleImport, Resampler, HostCheck,
        FiniteSetTheorems, SequenceTheorems, WellFoundedInduction, TLAPS

\* A set of natural numbers that is not empty has its least.
LEMMA LeastIn ==
  ASSUME NEW S \in SUBSET Nat, S # {}
  PROVE  Min(S) \in S /\ \A x \in S : Min(S) <= x
<1>1. PICK x \in S : \A y \in S : ~ <<y, x>> \in OpToRel(<, Nat)
  BY NatLessThanWellFounded, WFMin, Zenon
<1>2. \A y \in S : x <= y
  <2> SUFFICES ASSUME NEW y \in S, y < x PROVE FALSE
    OBVIOUS
  <2>1. <<y, x>> \in OpToRel(<, Nat)
    BY DEF OpToRel
  <2> QED BY <1>1, <2>1
<1> QED BY <1>2, Zenon DEF Min

-----------------------------------------------------------------------------
(* Whole frames.                                                            *)

\* Every number of samples is so many whole frames and a rest.
LEMMA Frames ==
  ASSUME NEW n \in Nat
  PROVE  \E q \in Nat, r \in 0 .. Channels - 1 :
           /\ n = q * Channels + r /\ q * Channels \in Nat
           /\ n \div Channels = q /\ n % Channels = r
           /\ Whole(n) = q * Channels
<1> USE RecorderAssumption
<1> DEFINE q == n \div Channels
           r == n % Channels
<1>1. q \in Nat /\ r \in 0 .. Channels - 1
  OBVIOUS
<1>2. r = n - Channels * q
  BY SMTT(60)
<1> HIDE DEF q, r
<1>3. Channels * q = q * Channels /\ q * Channels \in Nat
  BY <1>1
<1>4. n = q * Channels + r
  BY <1>1, <1>2, <1>3
<1>5. q = n \div Channels /\ r = n % Channels
  BY DEF q, r
<1> QED BY <1>1, <1>3, <1>4, <1>5 DEF Whole

\* A multiple of the frame size and a rest shorter than a frame: what is whole
\* of them is the multiple.
LEMMA WholeOf ==
  ASSUME NEW q \in Nat, NEW r \in 0 .. Channels - 1
  PROVE  /\ q * Channels \in Nat
         /\ (q * Channels + r) \div Channels = q
         /\ Whole(q * Channels + r) = q * Channels
<1>1. Channels \in Nat \ {0}
  BY RecorderAssumption
<1>2. q * Channels \in Nat
  BY <1>1
<1>3. (q * Channels + r) \div Channels = q
  BY <1>1, <1>2
<1> QED BY <1>2, <1>3 DEF Whole

\* Frames after one another: their samples add up.
LEMMA AddFrames ==
  ASSUME NEW a \in Nat, NEW b \in Nat
  PROVE  /\ a * Channels \in Nat /\ b * Channels \in Nat
         /\ (a + b) * Channels = a * Channels + b * Channels
         /\ a <= b => a * Channels <= b * Channels
<1>1. Channels \in Nat \ {0}
  BY RecorderAssumption
<1>2. a * Channels \in Nat /\ b * Channels \in Nat
  BY <1>1
<1>3. (a + b) * Channels = a * Channels + b * Channels
  BY <1>1
<1>4. a <= b => a * Channels <= b * Channels
  BY <1>1
<1> QED BY <1>2, <1>3, <1>4

-----------------------------------------------------------------------------
(* The invariant.                                                           *)

\* Both legs are counted in whole frames; the clock lags behind rx.
Timeline ==
  /\ rjob.pc # "done" =>
       /\ rx = cap.total * Channels
       /\ given = rx + cap.carry + (IF cap.pc = "write" THEN cap.n ELSE 0)
       /\ tx.samples = tx.len * Channels
  /\ clock <= cap.total /\ cap.total * Channels <= rx
  /\ rjob.pc = "done" => cap.pc = "ended" /\ tx.samples = rx
  /\ cap.pc = "write" => cap.k < MaxRead

\* Each prompt begins where the one before ends, or later; tx ends with the
\* last one.
Prompts ==
  /\ tx.len = IF tx.prompts = <<>> THEN 0
              ELSE tx.prompts[Len(tx.prompts)].at + PromptLen
  /\ \A i \in 1 .. Len(tx.prompts) :
       tx.prompts[i].at =
         Larger(tx.prompts[i].heard,
                IF i = 1 THEN 0 ELSE tx.prompts[i - 1].at + PromptLen)

\* What the resampler has seen last, at each stage of the chunk in hand.
Resampling ==
  /\ active <=> rjob.pc \in {"listen", "disarm"}
  /\ cap.wasActive =>
       /\ cap.pc \in {"read", "write"} => cap.last = cap.k
       /\ cap.pc \in {"store", "look"} => cap.last = cap.k - 1
  /\ cap.pc = "send" => cap.last \in {0, cap.k - 1}
  /\ \A i \in 1 .. Len(chan) : chan[i].after \in {0, chan[i].n - 1}

\* After the drain at most one frame comes of a chunk whose flag was looked at
\* before; it comes first, and everything behind it is of this turn.
OneStale ==
  /\ rjob.pc = "drained" =>
       /\ Len(chan) <= 1
       /\ cap.pc = "send" => chan = <<>>
  /\ rjob.pc = "listen" =>
       /\ cap.pc = "send" =>
            \/ rjob.began <= cap.k
            \/ rjob.began = cap.k + 1 /\ chan = <<>> /\ rjob.stale = 0
       /\ cap.pc \in {"read", "write"} => rjob.began <= cap.k + 1
       /\ cap.pc \in {"store", "look"} => rjob.began <= cap.k
       /\ \A i \in 2 .. Len(chan) : rjob.began <= chan[i].n
       /\ \/ rjob.stale = 0
          \/ /\ rjob.stale = 1
             /\ \A i \in 1 .. Len(chan) : rjob.began <= chan[i].n

RecorderInv == RecorderTypeOK /\ Timeline /\ Prompts /\ Resampling /\ OneStale

\* The types of the fields, one by one.
Cap == [pc : {"read", "write", "store", "look", "send", "ended"},
        k : 0 .. MaxRead, n : Nat, carry : 0 .. Channels - 1, total : Nat,
        wasActive : BOOLEAN, last : Nat]
Frame == [n : Nat, after : Nat]
Prompt == [at : Nat, heard : Nat]
Rjob == [pc : {"opening", "between", "drained", "listen", "disarm",
               "finishing", "done"},
         steps : 0 .. MaxStep, began : Nat, stale : Nat]
Fields ==
  /\ cap \in Cap /\ cap.k \in 0 .. MaxRead /\ cap.n \in Nat
  /\ cap.carry \in 0 .. Channels - 1 /\ cap.total \in Nat /\ cap.last \in Nat
  /\ cap.wasActive \in BOOLEAN
  /\ rx \in Nat /\ clock \in Nat /\ given \in Nat
  /\ tx.samples \in Nat /\ tx.len \in Nat /\ tx.prompts \in Seq(Prompt)
  /\ rjob \in Rjob /\ rjob.steps \in 0 .. MaxStep
  /\ rjob.began \in Nat /\ rjob.stale \in Nat
  /\ chan \in Seq(Frame) /\ Len(chan) \in Nat

LEMMA TypeIsFields == RecorderTypeOK => Fields
<1> SUFFICES ASSUME RecorderTypeOK PROVE Fields
  OBVIOUS
<1>1. cap \in Cap /\ rjob \in Rjob /\ chan \in Seq(Frame)
      /\ rx \in Nat /\ clock \in Nat /\ given \in Nat
      /\ tx \in [samples : Nat, len : Nat, prompts : Seq(Prompt)]
  BY DEF RecorderTypeOK, Cap, Rjob, Frame, Prompt
<1>2. /\ cap.k \in 0 .. MaxRead /\ cap.n \in Nat
      /\ cap.carry \in 0 .. Channels - 1 /\ cap.total \in Nat /\ cap.last \in Nat
      /\ cap.wasActive \in BOOLEAN
  BY <1>1 DEF Cap
<1>3. rjob.steps \in 0 .. MaxStep /\ rjob.began \in Nat /\ rjob.stale \in Nat
  BY <1>1 DEF Rjob
<1>4. Len(chan) \in Nat
  BY <1>1, LenProperties
<1>5. tx.samples \in Nat /\ tx.len \in Nat /\ tx.prompts \in Seq(Prompt)
  BY <1>1
<1> QED BY <1>1, <1>2, <1>3, <1>4, <1>5 DEF Fields

\* It holds before the first read.
LEMMA RecorderStart == RecorderInit => RecorderInv
<1> SUFFICES ASSUME RecorderInit PROVE RecorderInv
  OBVIOUS
<1> USE RecorderAssumption DEF RecorderInit
<1>1. RecorderTypeOK
  <2>1. 0 \in 0 .. MaxRead /\ 0 \in 0 .. Channels - 1 /\ 0 \in 0 .. MaxStep
    OBVIOUS
  <2>2. <<>> \in Seq(Frame) /\ <<>> \in Seq(Prompt) /\ Len(<<>>) = 0
    BY EmptySeq
  <2>3. cap \in Cap /\ rjob \in Rjob
    BY <2>1 DEF Cap, Rjob
  <2>4. tx \in [samples : Nat, len : Nat, prompts : Seq(Prompt)]
    BY <2>2
  <2>5. chan \in Seq(Frame) /\ Len(chan) <= Bound
    BY <2>2
  <2> QED BY <2>3, <2>4, <2>5 DEF RecorderTypeOK, Cap, Rjob, Frame, Prompt
<1>2. Timeline
  <2>1. 0 * Channels = 0
    OBVIOUS
  <2> QED BY <2>1 DEF Timeline
<1>3. Prompts
  BY DEF Prompts
<1>4. Resampling /\ OneStale
  BY DEF Resampling, OneStale
<1> QED BY <1>1, <1>2, <1>3, <1>4 DEF RecorderInv

\* The capture thread reads and writes whole frames, and stores the clock.
LEMMA WriteKeeps == RecorderInv /\ Write => RecorderInv'
<1> SUFFICES ASSUME RecorderInv, Write PROVE RecorderInv'
  OBVIOUS
<1> USE RecorderAssumption
<1>1. /\ RecorderTypeOK /\ Timeline /\ Prompts /\ Resampling /\ OneStale
      /\ Fields /\ cap.pc = "write"
  BY TypeIsFields DEF Write, RecorderInv
<1>0. /\ cap.n \in Nat /\ cap.carry \in 0 .. Channels - 1 /\ cap.total \in Nat
      /\ cap.k \in 0 .. MaxRead /\ rx \in Nat /\ clock \in Nat /\ given \in Nat
      /\ cap \in Cap
  BY <1>1 DEF Fields
<1> DEFINE sum == cap.carry + cap.n
           direct == cap.carry = 0 /\ cap.n % Channels = 0
           chunk == IF direct THEN cap.n ELSE Whole(sum)
           old == cap.total * Channels
<1>2. sum \in Nat /\ (direct => sum = cap.n /\ sum % Channels = 0)
  BY <1>0
<1>3. PICK q \in Nat, r \in 0 .. Channels - 1 :
        /\ sum = q * Channels + r /\ q * Channels \in Nat
        /\ sum % Channels = r /\ Whole(sum) = q * Channels
  <2> HIDE DEF sum
  <2> QED BY <1>2, Frames
<1> DEFINE m == q * Channels
<1>4. sum = m + r /\ m \in Nat /\ (direct => r = 0) /\ chunk = m
  <2>1. sum = m + r /\ m \in Nat /\ Whole(sum) = m /\ (direct => r = 0)
    BY <1>2, <1>3
  <2> HIDE DEF m
  <2>2. CASE direct
    BY <2>1, <2>2, <1>2
  <2>3. CASE ~direct
    BY <2>1, <2>3
  <2> QED BY <2>1, <2>2, <2>3
<1>5. m \div Channels = q
  <2>1. (q * Channels + 0) \div Channels = q
    BY WholeOf
  <2> QED BY <2>1, <1>4
<1>6. (cap.total + q) * Channels = old + m /\ old \in Nat
  BY <1>0, <1>3, AddFrames
<1>7. /\ rx' = rx + m
      /\ cap' = [cap EXCEPT !.pc = IF m = 0 THEN "read" ELSE "store",
                            !.k = IF m = 0 THEN @ ELSE @ + 1,
                            !.carry = r, !.total = @ + q]
      /\ UNCHANGED <<clock, active, chan, tx, rjob, tool, given>>
  <2>1. direct => cap.carry = r
    BY <1>4
  <2>2. ~direct => cap.carry + cap.n - chunk = r
    <3> HIDE DEF m, chunk
    <3>1. chunk = m /\ m \in Nat /\ cap.carry + cap.n = m + r
      BY <1>4
    <3> QED BY <1>0, <3>1
  <2>3. cap.total + chunk \div Channels = cap.total + q
    BY <1>4, <1>5
  <2> HIDE DEF m
  <2>4. /\ rx' = rx + chunk
        /\ cap' = [cap EXCEPT
                     !.pc = IF chunk = 0 THEN "read" ELSE "store",
                     !.k = IF chunk = 0 THEN @ ELSE @ + 1,
                     !.carry = IF direct THEN @ ELSE @ + cap.n - chunk,
                     !.total = @ + chunk \div Channels]
        /\ UNCHANGED <<clock, active, chan, tx, rjob, tool, given>>
    BY DEF Write
  <2> HIDE DEF chunk, direct
  <2> QED BY <1>4, <2>1, <2>2, <2>3, <2>4
<1>8. sum = cap.carry + cap.n /\ old = cap.total * Channels
  OBVIOUS
<1> HIDE DEF sum, direct, chunk, m, old
<1>9. cap.k < MaxRead /\ rjob.pc # "done" /\ rx = old /\ clock <= cap.total
      /\ given = rx + sum /\ tx.samples = tx.len * Channels
  <2>1. given = rx + cap.carry + cap.n
    BY <1>1 DEF Timeline
  <2>2. rx + cap.carry + cap.n = rx + sum
    BY <1>0, <1>8
  <2> QED BY <1>1, <1>8, <2>1, <2>2 DEF Timeline
<1>10. RecorderTypeOK'
  <2>1. cap.k + 1 \in 0 .. MaxRead /\ cap.total + q \in Nat
    BY <1>0, <1>9
  <2>2. cap' \in Cap
    BY <1>0, <1>7, <2>1 DEF Cap
  <2>3. rx' \in Nat
    BY <1>0, <1>4, <1>7
  <2> QED BY <1>1, <2>2, <2>3, <1>7 DEF RecorderTypeOK, Cap
<1>11. cap'.total = cap.total + q /\ cap'.carry = r /\ cap'.pc \in {"read", "store"}
       /\ cap'.k = (IF cap'.pc = "store" THEN cap.k + 1 ELSE cap.k)
       /\ cap'.last = cap.last /\ cap'.wasActive = cap.wasActive
  BY <1>0, <1>7 DEF Cap
<1>12. Timeline'
  <2>1. rx' = old + m /\ given = rx' + r /\ clock <= cap.total + q
    BY <1>0, <1>4, <1>6, <1>7, <1>9
  <2>2. cap'.total * Channels = rx' /\ given' = rx' + cap'.carry
    BY <2>1, <1>6, <1>7, <1>11
  <2>3. cap'.total * Channels <= rx'
    BY <2>2, <2>1, <1>4, <1>6
  <2>4. given' = rx' + cap'.carry + 0
    BY <2>1, <2>2, <1>4, <1>6, <1>11
  <2> QED BY <2>1, <2>2, <2>3, <2>4, <1>7, <1>9, <1>11 DEF Timeline
<1>13. Prompts'
  BY <1>1, <1>7 DEF Prompts
<1>14. Resampling' /\ OneStale'
  BY <1>1, <1>7, <1>11 DEF Resampling, OneStale, Fields
<1> QED BY <1>10, <1>12, <1>13, <1>14 DEF RecorderInv

LEMMA ReadKeeps ==
  ASSUME RecorderInv, NEW n \in ReadSize, Read(n) PROVE RecorderInv'
<1>1. /\ RecorderTypeOK /\ Timeline /\ Prompts /\ Resampling /\ OneStale
      /\ Fields /\ cap.pc = "read" /\ cap.k < MaxRead
      /\ given' = given + n /\ cap' = [cap EXCEPT !.pc = "write", !.n = n]
      /\ UNCHANGED <<rx, clock, active, chan, tx, rjob, tool>>
  BY TypeIsFields DEF Read, RecorderInv
<1>2. n \in Nat
  BY RecorderAssumption
<1>3. /\ cap \in Cap /\ cap.carry \in 0 .. Channels - 1
      /\ rx \in Nat /\ given \in Nat
  BY <1>1 DEF Fields
<1>4. /\ cap' \in Cap /\ cap'.pc = "write" /\ cap'.n = n /\ cap'.k = cap.k
      /\ cap'.carry = cap.carry /\ cap'.total = cap.total
      /\ cap'.last = cap.last /\ cap'.wasActive = cap.wasActive
  BY <1>1, <1>2, <1>3 DEF Cap
<1>5. RecorderTypeOK'
  <2>1. given' \in Nat
    BY <1>1, <1>2, <1>3
  <2> QED BY <1>1, <1>4, <2>1 DEF RecorderTypeOK, Cap
<1>6. Timeline'
  <2>1. rjob.pc # "done"
    BY <1>1 DEF Timeline
  <2>2. given = rx + cap.carry + 0
    BY <1>1, <2>1 DEF Timeline
  <2>3. given' = rx + cap.carry + n
    BY <2>2, <1>1, <1>2, <1>3, RecorderAssumption
  <2> QED BY <1>1, <1>4, <2>1, <2>3 DEF Timeline
<1>7. Prompts'
  BY <1>1 DEF Prompts
<1>8. Resampling' /\ OneStale'
  BY <1>1, <1>4 DEF Resampling, OneStale
<1> QED BY <1>5, <1>6, <1>7, <1>8 DEF RecorderInv

\* What moves the capture thread on without a sample: its end, the clock.
LEMMA EofKeeps == RecorderInv /\ Eof => RecorderInv'
<1> SUFFICES ASSUME RecorderInv, Eof PROVE RecorderInv'
  OBVIOUS
<1>1. /\ RecorderTypeOK /\ Timeline /\ Prompts /\ Resampling /\ OneStale
      /\ Fields /\ cap.pc = "read" /\ cap' = [cap EXCEPT !.pc = "ended"]
      /\ UNCHANGED <<rx, clock, active, chan, tx, rjob, tool, given>>
  BY TypeIsFields DEF Eof, RecorderInv
<1>2. cap \in Cap
  BY <1>1 DEF Fields
<1>3. /\ cap' \in Cap /\ cap'.pc = "ended" /\ cap'.n = cap.n /\ cap'.k = cap.k
      /\ cap'.carry = cap.carry /\ cap'.total = cap.total
      /\ cap'.last = cap.last /\ cap'.wasActive = cap.wasActive
  BY <1>1, <1>2 DEF Cap
<1>4. RecorderTypeOK'
  BY <1>1, <1>3 DEF RecorderTypeOK, Cap
<1>5. Timeline'
  BY <1>1, <1>3 DEF Timeline
<1>6. Prompts'
  BY <1>1 DEF Prompts
<1>7. Resampling' /\ OneStale'
  BY <1>1, <1>3 DEF Resampling, OneStale
<1> QED BY <1>4, <1>5, <1>6, <1>7 DEF RecorderInv

LEMMA StoreKeeps == RecorderInv /\ Store => RecorderInv'
<1> SUFFICES ASSUME RecorderInv, Store PROVE RecorderInv'
  OBVIOUS
<1>1. /\ RecorderTypeOK /\ Timeline /\ Prompts /\ Resampling /\ OneStale
      /\ Fields /\ cap.pc = "store" /\ clock' = cap.total
      /\ cap' = [cap EXCEPT !.pc = "look"]
      /\ UNCHANGED <<rx, active, chan, tx, rjob, tool, given>>
  BY TypeIsFields DEF Store, RecorderInv
<1>2. cap \in Cap /\ cap.total \in Nat
  BY <1>1 DEF Fields
<1>3. /\ cap' \in Cap /\ cap'.pc = "look" /\ cap'.n = cap.n /\ cap'.k = cap.k
      /\ cap'.carry = cap.carry /\ cap'.total = cap.total
      /\ cap'.last = cap.last /\ cap'.wasActive = cap.wasActive
  BY <1>1, <1>2 DEF Cap
<1>4. RecorderTypeOK'
  BY <1>1, <1>2, <1>3 DEF RecorderTypeOK, Cap
<1>5. Timeline'
  <2>1. clock' <= cap'.total
    BY <1>1, <1>2, <1>3
  <2> QED BY <1>1, <1>3, <2>1 DEF Timeline
<1>6. Prompts'
  BY <1>1 DEF Prompts
<1>7. Resampling' /\ OneStale'
  BY <1>1, <1>3 DEF Resampling, OneStale
<1> QED BY <1>4, <1>5, <1>6, <1>7 DEF RecorderInv

\* The flag is looked at: a turn that is new to the resampler finds it empty.
LEMMA LookKeeps == RecorderInv /\ Look4Turn => RecorderInv'
<1> SUFFICES ASSUME RecorderInv, Look4Turn PROVE RecorderInv'
  OBVIOUS
<1>1. /\ RecorderTypeOK /\ Timeline /\ Prompts /\ Resampling /\ OneStale
      /\ Fields /\ cap.pc = "look"
      /\ cap' = [Resampled(cap) EXCEPT !.pc = IF active THEN "send" ELSE "read"]
      /\ UNCHANGED <<rx, clock, active, chan, tx, rjob, tool, given>>
  BY TypeIsFields DEF Look4Turn, RecorderInv
<1>2. cap \in Cap /\ active \in BOOLEAN
  BY <1>1 DEF Fields, RecorderTypeOK
<1>3. /\ cap' \in Cap /\ cap'.pc = (IF active THEN "send" ELSE "read")
      /\ cap'.n = cap.n /\ cap'.k = cap.k
      /\ cap'.carry = cap.carry /\ cap'.total = cap.total
      /\ cap'.last = (IF active /\ ~cap.wasActive THEN 0 ELSE cap.last)
      /\ cap'.wasActive = active
  BY <1>1, <1>2 DEF Cap, Resampled
<1>4. RecorderTypeOK'
  BY <1>1, <1>3 DEF RecorderTypeOK, Cap
<1>5. Timeline'
  BY <1>1, <1>3 DEF Timeline
<1>6. Prompts'
  BY <1>1 DEF Prompts
<1>7. Resampling'
  <2>1. CASE active
    BY <1>1, <1>3, <2>1 DEF Resampling
  <2>2. CASE ~active
    BY <1>1, <1>3, <2>2 DEF Resampling
  <2> QED BY <2>1, <2>2
<1>8. OneStale'
  <2>1. CASE active
    <3>1. rjob.pc # "drained"
      BY <1>1, <2>1 DEF Resampling
    <3> QED BY <1>1, <1>3, <2>1, <3>1 DEF OneStale
  <2>2. CASE ~active
    <3>1. rjob.pc # "listen"
      BY <1>1, <2>2 DEF Resampling
    <3> QED BY <1>1, <1>3, <2>2, <3>1 DEF OneStale
  <2> QED BY <2>1, <2>2
<1> QED BY <1>4, <1>5, <1>6, <1>7, <1>8 DEF RecorderInv

\* A frame of the chunk in hand goes into the channel, or none does.
LEMMA TrySendKeeps == RecorderInv /\ TrySend => RecorderInv'
<1> SUFFICES ASSUME RecorderInv, TrySend PROVE RecorderInv'
  OBVIOUS
<1> DEFINE new == [n |-> cap.k, after |-> cap.last]
<1>1. /\ RecorderTypeOK /\ Timeline /\ Prompts /\ Resampling /\ OneStale
      /\ Fields /\ cap.pc = "send"
      /\ cap' = [cap EXCEPT !.pc = "read", !.last = cap.k]
      /\ \/ Len(chan) < Bound /\ chan' = Append(chan, new)
         \/ UNCHANGED chan
      /\ UNCHANGED <<rx, clock, active, tx, rjob, tool, given>>
  BY TypeIsFields DEF TrySend, RecorderInv
<1>2. /\ cap \in Cap /\ cap.k \in 0 .. MaxRead /\ cap.last \in Nat
      /\ chan \in Seq(Frame) /\ Len(chan) \in Nat /\ Len(chan) <= Bound
      /\ rjob.began \in Nat
  BY <1>1 DEF Fields, RecorderTypeOK
<1>3. /\ cap' \in Cap /\ cap'.pc = "read" /\ cap'.n = cap.n /\ cap'.k = cap.k
      /\ cap'.carry = cap.carry /\ cap'.total = cap.total
      /\ cap'.last = cap.k /\ cap'.wasActive = cap.wasActive
  <2>1. cap.k \in Nat
    BY <1>2, RecorderAssumption
  <2> QED BY <1>1, <1>2, <2>1 DEF Cap
<1>4. new \in Frame /\ new.n = cap.k /\ new.after = cap.last
  BY <1>2, RecorderAssumption DEF Frame
<1> HIDE DEF new
<1>5. /\ Append(chan, new) \in Seq(Frame)
      /\ Len(Append(chan, new)) = Len(chan) + 1
      /\ \A i \in 1 .. Len(chan) : Append(chan, new)[i] = chan[i]
      /\ Append(chan, new)[Len(chan) + 1] = new
  BY <1>2, <1>4, AppendProperties
<1>6. /\ chan' \in Seq(Frame) /\ Len(chan') <= Bound
      /\ Len(chan') \in {Len(chan), Len(chan) + 1}
      /\ \A i \in 1 .. Len(chan') :
           \/ i \in 1 .. Len(chan) /\ chan'[i] = chan[i]
           \/ i = Len(chan) + 1 /\ chan'[i] = new
  <2>1. CASE UNCHANGED chan
    BY <1>2, <2>1
  <2>2. CASE Len(chan) < Bound /\ chan' = Append(chan, new)
    <3>1. Len(chan') <= Bound
      BY <1>2, <1>5, <2>2, RecorderAssumption
    <3>2. \A i \in 1 .. Len(chan) + 1 : i \in 1 .. Len(chan) \/ i = Len(chan) + 1
      BY <1>2
    <3> QED BY <1>5, <2>2, <3>1, <3>2
  <2> QED BY <1>1, <2>1, <2>2
<1>7. RecorderTypeOK'
  BY <1>1, <1>3, <1>6 DEF RecorderTypeOK, Cap, Frame
<1>8. Timeline'
  BY <1>1, <1>3 DEF Timeline
<1>9. Prompts'
  BY <1>1 DEF Prompts
<1>10. Resampling'
  <2>1. new.after \in {0, new.n - 1}
    BY <1>1, <1>4 DEF Resampling
  <2>2. \A i \in 1 .. Len(chan') : chan'[i].after \in {0, chan'[i].n - 1}
    BY <1>1, <1>6, <2>1 DEF Resampling
  <2> QED BY <1>1, <1>3, <2>2 DEF Resampling
<1>11. OneStale'
  <2>1. CASE rjob.pc = "drained"
    <3>1. chan = <<>> /\ Len(chan) = 0
      BY <1>1, <2>1, EmptySeq DEF OneStale
    <3>2. Len(chan') <= 1
      BY <1>6, <3>1
    <3> QED BY <1>1, <1>3, <2>1, <3>2 DEF OneStale
  <2>2. CASE rjob.pc = "listen"
    <3>1. rjob.began <= cap.k + 1
      <4>1. rjob.began <= cap.k \/ rjob.began = cap.k + 1
        BY <1>1, <2>2 DEF OneStale
      <4> QED BY <1>2, <4>1
    <3>2. CASE rjob.began <= cap.k
      <4>1. \A i \in 2 .. Len(chan') : rjob.began <= chan'[i].n
        <5> TAKE i \in 2 .. Len(chan')
        <5>1. i \in 1 .. Len(chan') /\ (i \in 1 .. Len(chan) => i \in 2 .. Len(chan))
          BY <1>2, <1>6
        <5>2. CASE i \in 1 .. Len(chan) /\ chan'[i] = chan[i]
          BY <1>1, <2>2, <5>1, <5>2 DEF OneStale
        <5>3. CASE chan'[i] = new
          BY <1>4, <3>2, <5>3
        <5> QED BY <1>6, <5>1, <5>2, <5>3
      <4>2. \/ rjob.stale = 0
            \/ /\ rjob.stale = 1
               /\ \A i \in 1 .. Len(chan') : rjob.began <= chan'[i].n
        <5>1. CASE rjob.stale = 0
          BY <5>1
        <5>2. CASE /\ rjob.stale = 1
                   /\ \A i \in 1 .. Len(chan) : rjob.began <= chan[i].n
          BY <1>4, <1>6, <3>2, <5>2
        <5> QED BY <1>1, <2>2, <5>1, <5>2 DEF OneStale
      <4> QED BY <1>1, <1>3, <2>2, <3>1, <4>1, <4>2 DEF OneStale
    <3>3. CASE ~(rjob.began <= cap.k)
      <4>1. chan = <<>> /\ rjob.stale = 0 /\ Len(chan) = 0
        BY <1>1, <2>2, <3>3, EmptySeq DEF OneStale
      <4>2. 2 .. Len(chan') = {}
        BY <1>6, <4>1
      <4> QED BY <1>1, <1>3, <2>2, <3>1, <4>1, <4>2 DEF OneStale
    <3> QED BY <3>2, <3>3
  <2>3. CASE rjob.pc \notin {"drained", "listen"}
    BY <1>1, <2>3 DEF OneStale
  <2> QED BY <2>1, <2>2, <2>3
<1> QED BY <1>7, <1>8, <1>9, <1>10, <1>11 DEF RecorderInv

-----------------------------------------------------------------------------
(* The steps of the job thread.                                             *)

\* A step that only moves the job thread, to a state in which no turn is heard.
LEMMA JobMovesKeeps ==
  ASSUME RecorderInv, NEW p \in {"between", "disarm"},
         rjob' = [rjob EXCEPT !.pc = p], rjob.pc # "done",
         active' <=> p = "disarm",
         UNCHANGED <<cap, rx, clock, chan, tx, tool, given>>
  PROVE  RecorderInv'
<1>1. /\ RecorderTypeOK /\ Timeline /\ Prompts /\ Resampling /\ OneStale /\ Fields
  BY TypeIsFields DEF RecorderInv
<1>2. rjob \in Rjob
  BY <1>1 DEF Fields
<1>3. rjob' \in Rjob /\ rjob'.pc = p
  BY <1>2 DEF Rjob
<1>4. RecorderTypeOK'
  BY <1>1, <1>3 DEF RecorderTypeOK, Rjob
<1>5. Timeline' /\ Prompts'
  BY <1>1, <1>3 DEF Timeline, Prompts
<1>6. Resampling' /\ OneStale'
  BY <1>1, <1>3 DEF Resampling, OneStale
<1> QED BY <1>4, <1>5, <1>6 DEF RecorderInv

LEMMA QuietStepKeeps ==
  ASSUME RecorderInv, DuplexOpened \/ HearNothing \/ Disarm PROVE RecorderInv'
<1>1. active \in BOOLEAN /\ (active <=> rjob.pc \in {"listen", "disarm"})
  BY DEF RecorderInv, RecorderTypeOK, Resampling
<1>2. CASE DuplexOpened
  BY <1>1, <1>2, JobMovesKeeps DEF DuplexOpened
<1>3. CASE HearNothing
  BY <1>1, <1>3, JobMovesKeeps DEF HearNothing
<1>4. CASE Disarm
  BY <1>1, <1>4, JobMovesKeeps DEF Disarm
<1> QED BY <1>2, <1>3, <1>4

LEMMA DrainKeeps == RecorderInv /\ Drain => RecorderInv'
<1> SUFFICES ASSUME RecorderInv, Drain PROVE RecorderInv'
  OBVIOUS
<1>1. /\ RecorderTypeOK /\ Timeline /\ Prompts /\ Resampling /\ OneStale
      /\ Fields /\ rjob.pc = "between" /\ rjob.steps < MaxStep
      /\ chan' = <<>>
      /\ rjob' = [rjob EXCEPT !.pc = "drained", !.steps = @ + 1]
      /\ UNCHANGED <<cap, rx, clock, active, tx, tool, given>>
  BY TypeIsFields DEF Drain, RecorderInv
<1>2. rjob \in Rjob /\ rjob.steps + 1 \in 0 .. MaxStep
  <2>1. rjob \in Rjob /\ rjob.steps \in 0 .. MaxStep
    BY <1>1 DEF Fields
  <2> QED BY <1>1, <2>1, RecorderAssumption
<1>3. rjob' \in Rjob /\ rjob'.pc = "drained"
  BY <1>1, <1>2 DEF Rjob
<1>4. chan' \in Seq(Frame) /\ Len(chan') = 0
  BY <1>1, EmptySeq
<1>5. RecorderTypeOK'
  BY <1>1, <1>3, <1>4, RecorderAssumption DEF RecorderTypeOK, Rjob, Frame
<1>6. Timeline' /\ Prompts'
  BY <1>1, <1>3 DEF Timeline, Prompts
<1>7. Resampling' /\ OneStale'
  BY <1>1, <1>3, <1>4 DEF Resampling, OneStale
<1> QED BY <1>5, <1>6, <1>7 DEF RecorderInv

LEMMA ArmKeeps == RecorderInv /\ Arm => RecorderInv'
<1> SUFFICES ASSUME RecorderInv, Arm PROVE RecorderInv'
  OBVIOUS
<1> DEFINE began == IF cap.pc \in {"store", "look"} THEN cap.k ELSE cap.k + 1
<1>1. /\ RecorderTypeOK /\ Timeline /\ Prompts /\ Resampling /\ OneStale
      /\ Fields /\ rjob.pc = "drained" /\ active' = TRUE
      /\ rjob' = [rjob EXCEPT !.pc = "listen", !.stale = 0, !.began = began]
      /\ UNCHANGED <<cap, rx, clock, chan, tx, tool, given>>
  BY TypeIsFields DEF Arm, RecorderInv
<1>2. rjob \in Rjob /\ cap.k \in Nat /\ Len(chan) \in Nat
  <2>1. rjob \in Rjob /\ cap.k \in 0 .. MaxRead /\ Len(chan) \in Nat
    BY <1>1 DEF Fields
  <2> QED BY <2>1, RecorderAssumption
<1>3. began \in Nat
  BY <1>2
<1>4. rjob' \in Rjob /\ rjob'.pc = "listen" /\ rjob'.stale = 0
      /\ rjob'.began = began
  BY <1>1, <1>2, <1>3 DEF Rjob
<1>5. RecorderTypeOK'
  BY <1>1, <1>4 DEF RecorderTypeOK, Rjob
<1>6. Timeline' /\ Prompts'
  BY <1>1, <1>4 DEF Timeline, Prompts
<1>7. Resampling'
  BY <1>1, <1>4 DEF Resampling
<1>8. OneStale'
  <2>1. 2 .. Len(chan) = {} /\ (cap.pc = "send" => chan = <<>>)
    BY <1>1, <1>2 DEF OneStale
  <2>2. /\ cap.pc = "send" => began = cap.k + 1
        /\ cap.pc \in {"read", "write"} => began <= cap.k + 1
        /\ cap.pc \in {"store", "look"} => began <= cap.k
    BY <1>2
  <2> HIDE DEF began
  <2> QED BY <1>1, <1>4, <2>1, <2>2 DEF OneStale
<1> QED BY <1>5, <1>6, <1>7, <1>8 DEF RecorderInv

\* A frame is heard: only the first can be of an earlier turn.
LEMMA HearKeeps == RecorderInv /\ Hear => RecorderInv'
<1> SUFFICES ASSUME RecorderInv, Hear PROVE RecorderInv'
  OBVIOUS
<1>1. /\ RecorderTypeOK /\ Timeline /\ Prompts /\ Resampling /\ OneStale
      /\ Fields /\ rjob.pc = "listen" /\ chan # <<>> /\ chan' = Tail(chan)
      /\ UNCHANGED <<cap, rx, clock, active, tx, tool, given>>
  BY TypeIsFields DEF Hear, RecorderInv
<1>2. PICK over \in BOOLEAN :
        rjob' = [rjob EXCEPT
          !.stale = IF Head(chan).n < rjob.began THEN @ + 1 ELSE @,
          !.pc = IF over THEN "disarm" ELSE @]
  BY DEF Hear
<1>3. /\ rjob \in Rjob /\ chan \in Seq(Frame) /\ Len(chan) \in Nat
      /\ rjob.began \in Nat /\ rjob.stale \in Nat /\ Len(chan) <= Bound
      /\ cap.k \in Nat
  BY <1>1, RecorderAssumption DEF Fields, RecorderTypeOK
<1>4. /\ rjob' \in Rjob /\ rjob'.pc \in {"listen", "disarm"}
      /\ rjob'.began = rjob.began
      /\ rjob'.stale = (IF Head(chan).n < rjob.began THEN rjob.stale + 1
                        ELSE rjob.stale)
  <2>1. rjob.stale + 1 \in Nat
    BY <1>3
  <2> QED BY <1>1, <1>2, <1>3, <2>1 DEF Rjob
<1>5. /\ Tail(chan) \in Seq(Frame) /\ Len(Tail(chan)) = Len(chan) - 1
      /\ Head(chan) = chan[1] /\ chan[1] \in Frame
      /\ \A i \in 1 .. Len(Tail(chan)) : Tail(chan)[i] = chan[i + 1]
  BY <1>1, <1>3, HeadTailProperties
<1>6. \A i \in 1 .. Len(chan') :
        i + 1 \in 2 .. Len(chan) /\ chan'[i] = chan[i + 1]
  BY <1>1, <1>3, <1>5
<1>7. Len(chan) >= 1 /\ Len(chan') \in Nat /\ Len(chan') = Len(chan) - 1
  BY <1>1, <1>3, <1>5, EmptySeq
<1>8. RecorderTypeOK'
  <2>1. chan' \in Seq(Frame) /\ Len(chan') <= Bound
    BY <1>1, <1>3, <1>5, <1>7, RecorderAssumption
  <2> QED BY <1>1, <1>4, <2>1 DEF RecorderTypeOK, Rjob, Frame
<1>9. Timeline' /\ Prompts'
  BY <1>1, <1>4 DEF Timeline, Prompts
<1>10. Resampling'
  <2>1. \A i \in 1 .. Len(chan') : chan'[i].after \in {0, chan'[i].n - 1}
    <3> TAKE i \in 1 .. Len(chan')
    <3>1. i + 1 \in 1 .. Len(chan) /\ chan'[i] = chan[i + 1]
      BY <1>3, <1>6
    <3> QED BY <1>1, <3>1 DEF Resampling
  <2> QED BY <1>1, <1>4, <2>1 DEF Resampling
<1>11. \A i \in 1 .. Len(chan') : rjob.began <= chan'[i].n
  <2> TAKE i \in 1 .. Len(chan')
  <2> QED BY <1>1, <1>6 DEF OneStale
<1>12. OneStale'
  <2>1. \A i \in 2 .. Len(chan') : rjob.began <= chan'[i].n
    <3> TAKE i \in 2 .. Len(chan')
    <3>1. i \in 1 .. Len(chan')
      BY <1>7
    <3> QED BY <1>11, <3>1
  <2>2. rjob'.stale = 0 \/ rjob'.stale = 1
    <3>1. CASE rjob.stale = 0
      BY <1>4, <3>1
    <3>2. CASE /\ rjob.stale = 1
               /\ \A i \in 1 .. Len(chan) : rjob.began <= chan[i].n
      <4>1. 1 \in 1 .. Len(chan)
        BY <1>3, <1>7
      <4>2. chan[1].n \in Nat
        BY <1>5 DEF Frame
      <4>3. rjob.began <= chan[1].n
        BY <3>2, <4>1
      <4>4. ~(Head(chan).n < rjob.began)
        BY <1>3, <1>5, <4>2, <4>3
      <4> QED BY <1>4, <3>2, <4>4
    <3> QED BY <1>1, <3>1, <3>2 DEF OneStale
  <2>3. cap.pc = "send" => rjob.began <= cap.k
    BY <1>1 DEF OneStale
  <2>4. /\ cap.pc \in {"read", "write"} => rjob.began <= cap.k + 1
        /\ cap.pc \in {"store", "look"} => rjob.began <= cap.k
    BY <1>1 DEF OneStale
  <2> QED BY <1>1, <1>4, <1>11, <2>1, <2>2, <2>3, <2>4 DEF OneStale
<1> QED BY <1>8, <1>9, <1>10, <1>12 DEF RecorderInv

\* Silence up to a later frame: as many samples as are missing.
LEMMA Padded ==
  ASSUME NEW a \in Nat, NEW b \in Nat, a <= b
  PROVE  PadTo(a, b) \in Nat /\ a * Channels + PadTo(a, b) = b * Channels
<1>1. b - a \in Nat /\ b = a + (b - a)
  OBVIOUS
<1>2. /\ a * Channels \in Nat /\ (b - a) * Channels \in Nat
      /\ (a + (b - a)) * Channels = a * Channels + (b - a) * Channels
  BY <1>1, AddFrames
<1>3. CASE b = a
  BY <1>2, <1>3 DEF PadTo
<1>4. CASE b # a
  <2>1. PadTo(a, b) = (b - a) * Channels
    BY <1>4 DEF PadTo
  <2> QED BY <1>1, <1>2, <2>1
<1> QED BY <1>3, <1>4

\* A prompt is anchored at the clock, or after the prompt before it.
LEMMA PlayKeeps == RecorderInv /\ Play => RecorderInv'
<1> SUFFICES ASSUME RecorderInv, Play PROVE RecorderInv'
  OBVIOUS
<1> DEFINE at  == Larger(tx.len, clock)
           pad == IF clock <= tx.len THEN 0 ELSE (clock - tx.len) * Channels
           new == [at |-> at, heard |-> clock]
           L   == Len(tx.prompts)
<1>1. /\ RecorderTypeOK /\ Timeline /\ Prompts /\ Resampling /\ OneStale
      /\ Fields /\ rjob.pc = "between" /\ rjob.steps < MaxStep
      /\ tx' = [samples |-> tx.samples + pad + PromptLen * Channels,
                len |-> at + PromptLen, prompts |-> Append(tx.prompts, new)]
      /\ rjob' = [rjob EXCEPT !.steps = @ + 1]
      /\ UNCHANGED <<cap, rx, clock, active, chan, tool, given>>
  BY TypeIsFields DEF Play, RecorderInv
<1>2. /\ rjob \in Rjob /\ rjob.steps \in 0 .. MaxStep /\ clock \in Nat
      /\ tx.samples \in Nat /\ tx.len \in Nat /\ tx.prompts \in Seq(Prompt)
      /\ PromptLen \in Nat
  BY <1>1, RecorderAssumption DEF Fields
<1>3. rjob' \in Rjob /\ rjob'.pc = "between"
  <2>1. rjob.steps < MaxStep /\ rjob.steps \in 0 .. MaxStep
    BY <1>1, <1>2
  <2>2. rjob.steps + 1 \in 0 .. MaxStep
    BY <2>1, RecorderAssumption
  <2> QED BY <1>1, <1>2, <2>2 DEF Rjob
<1>4. at \in Nat /\ at = Larger(clock, tx.len)
  BY <1>2 DEF Larger
<1>5. pad \in Nat /\ tx.len * Channels + pad = at * Channels
  <2>1. CASE clock <= tx.len
    <3>1. at = tx.len /\ pad = 0
      BY <1>2, <2>1 DEF Larger
    <3>2. tx.len * Channels \in Nat
      BY <1>2, AddFrames
    <3> QED BY <3>1, <3>2
  <2>2. CASE ~(clock <= tx.len)
    <3>1. at = clock /\ tx.len <= clock /\ pad = PadTo(tx.len, clock)
      BY <1>2, <2>2 DEF Larger, PadTo
    <3> QED BY <1>2, <3>1, Padded
  <2> QED BY <2>1, <2>2
<1>6. new \in Prompt /\ new.at = at /\ new.heard = clock
  BY <1>2, <1>4 DEF Prompt
<1> HIDE DEF at, pad, new
<1>7. /\ L \in Nat /\ (L = 0 <=> tx.prompts = <<>>)
      /\ tx'.prompts \in Seq(Prompt) /\ Len(tx'.prompts) = L + 1
      /\ \A i \in 1 .. L : tx'.prompts[i] = tx.prompts[i]
      /\ tx'.prompts[L + 1] = new
  <2>1. L \in Nat /\ (L = 0 <=> tx.prompts = <<>>)
    BY <1>2, LenProperties, EmptySeq
  <2>2. tx'.prompts = Append(tx.prompts, new)
    BY <1>1
  <2> QED BY <1>2, <1>6, <2>1, <2>2, AppendProperties
<1>8. /\ tx'.samples = tx.samples + pad + PromptLen * Channels
      /\ tx'.len = at + PromptLen
  BY <1>1
<1>9. PromptLen * Channels \in Nat /\ tx.len * Channels \in Nat
      /\ at * Channels \in Nat
      /\ (at + PromptLen) * Channels = at * Channels + PromptLen * Channels
  BY <1>2, <1>4, AddFrames
<1>10. RecorderTypeOK'
  <2>1. tx.samples + pad + PromptLen * Channels \in Nat /\ at + PromptLen \in Nat
    <3> DEFINE s == PromptLen * Channels
    <3>1. s \in Nat
      BY <1>9
    <3> HIDE DEF s
    <3>2. tx.samples \in Nat /\ pad \in Nat /\ at \in Nat /\ PromptLen \in Nat
      BY <1>2, <1>4, <1>5, RecorderAssumption
    <3>3. tx.samples + pad + s \in Nat /\ at + PromptLen \in Nat
      BY <3>1, <3>2
    <3> QED BY <3>3 DEF s
  <2>2. Append(tx.prompts, new) \in Seq(Prompt)
    BY <1>2, <1>6, AppendProperties
  <2>3. tx' \in [samples : Nat, len : Nat, prompts : Seq(Prompt)]
    BY <1>1, <2>1, <2>2
  <2> QED BY <1>1, <1>3, <2>3 DEF RecorderTypeOK, Rjob, Prompt
<1>11. Timeline'
  <2>1. tx.samples = tx.len * Channels
    BY <1>1 DEF Timeline
  <2>2. tx'.samples = tx'.len * Channels
    <3>1. tx'.samples = at * Channels + PromptLen * Channels
      BY <1>5, <1>8, <2>1
    <3> QED BY <1>8, <1>9, <3>1
  <2> QED BY <1>1, <1>3, <2>2 DEF Timeline
<1>12. Prompts'
  <2>1. tx'.prompts # <<>>
    BY <1>7, EmptySeq
  <2>2. tx'.prompts[Len(tx'.prompts)].at + PromptLen = tx'.len
    BY <1>6, <1>7, <1>8
  <2>3. ASSUME NEW i \in 1 .. L + 1
        PROVE  tx'.prompts[i].at =
                 Larger(tx'.prompts[i].heard,
                        IF i = 1 THEN 0 ELSE tx'.prompts[i - 1].at + PromptLen)
    <3>1. CASE i \in 1 .. L
      <4>1. i # 1 => i - 1 \in 1 .. L
        BY <1>7, <3>1
      <4>2. /\ tx'.prompts[i] = tx.prompts[i]
            /\ i # 1 => tx'.prompts[i - 1] = tx.prompts[i - 1]
        BY <1>7, <3>1, <4>1
      <4>3. tx.prompts[i].at =
              Larger(tx.prompts[i].heard,
                     IF i = 1 THEN 0 ELSE tx.prompts[i - 1].at + PromptLen)
        BY <1>1, <3>1 DEF Prompts
      <4> QED BY <4>2, <4>3
    <3>2. CASE i = L + 1
      <4>1. tx'.prompts[i].at = at /\ tx'.prompts[i].heard = clock
        BY <1>6, <1>7, <3>2
      <4>2. tx.len = IF i = 1 THEN 0 ELSE tx'.prompts[i - 1].at + PromptLen
        <5>1. CASE L = 0
          <6>1. tx.prompts = <<>> /\ i = 1
            BY <1>7, <3>2, <5>1
          <6> QED BY <1>1, <6>1 DEF Prompts
        <5>2. CASE L # 0
          <6>1. tx.prompts # <<>> /\ i # 1 /\ i - 1 = L /\ L \in 1 .. L
            BY <1>7, <3>2, <5>2
          <6>2. tx'.prompts[i - 1] = tx.prompts[L]
            BY <1>7, <6>1
          <6> QED BY <1>1, <6>1, <6>2 DEF Prompts
        <5> QED BY <5>1, <5>2
      <4> QED BY <1>4, <4>1, <4>2
    <3>3. i \in 1 .. L \/ i = L + 1
      BY <1>7
    <3> QED BY <3>1, <3>2, <3>3
  <2>4. \A i \in 1 .. Len(tx'.prompts) :
          tx'.prompts[i].at =
            Larger(tx'.prompts[i].heard,
                   IF i = 1 THEN 0 ELSE tx'.prompts[i - 1].at + PromptLen)
    BY <1>7, <2>3
  <2>5. PromptLen' = PromptLen
    OBVIOUS
  <2> QED BY <2>1, <2>2, <2>4, <2>5 DEF Prompts, Larger
<1>13. Resampling' /\ OneStale'
  BY <1>1, <1>3 DEF Resampling, OneStale
<1> QED BY <1>10, <1>11, <1>12, <1>13 DEF RecorderInv

LEMMA FinishKeeps == RecorderInv /\ Finish2 => RecorderInv'
<1> SUFFICES ASSUME RecorderInv, Finish2 PROVE RecorderInv'
  OBVIOUS
<1>1. /\ RecorderTypeOK /\ Timeline /\ Prompts /\ Resampling /\ OneStale
      /\ Fields /\ rjob.pc \in {"between", "opening"}
      /\ active' = FALSE /\ tool' = "gone"
      /\ rjob' = [rjob EXCEPT !.pc = "finishing"]
      /\ UNCHANGED <<cap, rx, clock, chan, tx, given>>
  BY TypeIsFields DEF Finish2, RecorderInv
<1>2. rjob \in Rjob
  BY <1>1 DEF Fields
<1>3. rjob' \in Rjob /\ rjob'.pc = "finishing"
  BY <1>1, <1>2 DEF Rjob
<1>4. RecorderTypeOK'
  BY <1>1, <1>3 DEF RecorderTypeOK, Rjob
<1>5. Timeline' /\ Prompts'
  BY <1>1, <1>3 DEF Timeline, Prompts
<1>6. Resampling' /\ OneStale'
  BY <1>1, <1>3 DEF Resampling, OneStale
<1> QED BY <1>4, <1>5, <1>6 DEF RecorderInv

\* At the end both legs are as long as the longer one.
LEMMA JoinKeeps == RecorderInv /\ Join => RecorderInv'
<1> SUFFICES ASSUME RecorderInv, Join PROVE RecorderInv'
  OBVIOUS
<1> DEFINE total == Larger(cap.total, tx.len)
<1>1. /\ RecorderTypeOK /\ Timeline /\ Prompts /\ Resampling /\ OneStale
      /\ Fields /\ rjob.pc = "finishing" /\ cap.pc = "ended"
      /\ rx' = rx + PadTo(cap.total, total)
      /\ tx' = [tx EXCEPT !.samples = @ + PadTo(tx.len, total)]
      /\ rjob' = [rjob EXCEPT !.pc = "done"]
      /\ UNCHANGED <<cap, clock, active, chan, tool, given>>
  BY TypeIsFields DEF Join, RecorderInv
<1>2. /\ rjob \in Rjob /\ cap.total \in Nat /\ tx.len \in Nat /\ clock \in Nat
      /\ tx.samples \in Nat
      /\ tx \in [samples : Nat, len : Nat, prompts : Seq(Prompt)]
  BY <1>1 DEF Fields, RecorderTypeOK, Prompt
<1>3. total \in Nat /\ cap.total <= total /\ tx.len <= total
  BY <1>2 DEF Larger
<1> HIDE DEF total
<1>4. /\ PadTo(cap.total, total) \in Nat /\ PadTo(tx.len, total) \in Nat
      /\ cap.total * Channels + PadTo(cap.total, total) = total * Channels
      /\ tx.len * Channels + PadTo(tx.len, total) = total * Channels
  BY <1>2, <1>3, Padded
<1>5. total * Channels \in Nat /\ cap.total * Channels <= total * Channels
  BY <1>2, <1>3, AddFrames
<1>6. rx = cap.total * Channels /\ tx.samples = tx.len * Channels
      /\ clock <= cap.total
  BY <1>1 DEF Timeline
<1>7. rx' = total * Channels /\ tx.samples + PadTo(tx.len, total) = total * Channels
  BY <1>1, <1>4, <1>6
<1>8. rjob' \in Rjob /\ rjob'.pc = "done"
  BY <1>1, <1>2 DEF Rjob
<1>9. /\ tx' \in [samples : Nat, len : Nat, prompts : Seq(Prompt)]
      /\ tx'.samples = total * Channels /\ tx'.len = tx.len
      /\ tx'.prompts = tx.prompts
  <2> DEFINE s == tx.samples + PadTo(tx.len, total)
  <2>1. tx' = [tx EXCEPT !.samples = s] /\ s \in Nat
    BY <1>1, <1>5, <1>7
  <2>2. s = total * Channels
    BY <1>7
  <2> HIDE DEF s
  <2> QED BY <1>2, <2>1, <2>2
<1>10. RecorderTypeOK'
  <2>1. rx' \in Nat
    BY <1>5, <1>7
  <2> QED BY <1>1, <1>8, <1>9, <2>1 DEF RecorderTypeOK, Rjob, Prompt
<1>11. Timeline'
  BY <1>1, <1>5, <1>6, <1>7, <1>8, <1>9 DEF Timeline
<1>12. Prompts'
  BY <1>1, <1>9 DEF Prompts
<1>13. Resampling' /\ OneStale'
  BY <1>1, <1>8 DEF Resampling, OneStale
<1> QED BY <1>10, <1>11, <1>12, <1>13 DEF RecorderInv

\* Every step of the two threads and of the capture tool keeps the invariant.
LEMMA RecorderStep == RecorderInv /\ [RecorderNext]_recorderVars => RecorderInv'
<1> SUFFICES ASSUME RecorderInv, [RecorderNext]_recorderVars PROVE RecorderInv'
  OBVIOUS
<1>1. CASE \E n \in ReadSize : Read(n)
  BY <1>1, ReadKeeps
<1>2. CASE Eof \/ Write \/ Store \/ Look4Turn \/ TrySend
  BY <1>2, EofKeeps, WriteKeeps, StoreKeeps, LookKeeps, TrySendKeeps
<1>3. CASE DuplexOpened \/ HearNothing \/ Disarm
  BY <1>3, QuietStepKeeps
<1>4. CASE Play \/ Drain \/ Arm \/ Hear \/ Finish2 \/ Join
  BY <1>4, PlayKeeps, DrainKeeps, ArmKeeps, HearKeeps, FinishKeeps, JoinKeeps
<1>5. CASE ToolFails
  <2>1. tool' \in {"runs", "mute", "gone"}
    BY <1>5 DEF ToolFails
  <2>2. UNCHANGED <<cap, rx, clock, active, chan, tx, rjob, given>>
    BY <1>5 DEF ToolFails
  <2>3. RecorderTypeOK'
    BY <2>1, <2>2 DEF RecorderInv, RecorderTypeOK
  <2>4. Timeline'
    BY <2>2 DEF RecorderInv, Timeline
  <2>5. Prompts' /\ Resampling' /\ OneStale'
    BY <2>2 DEF RecorderInv, Prompts, Resampling, OneStale
  <2> QED BY <2>3, <2>4, <2>5 DEF RecorderInv
<1>6. CASE UNCHANGED recorderVars
  <2>1. RecorderTypeOK'
    BY <1>6 DEF recorderVars, RecorderInv, RecorderTypeOK
  <2>2. Timeline'
    BY <1>6 DEF recorderVars, RecorderInv, Timeline
  <2>3. Prompts' /\ Resampling' /\ OneStale'
    BY <1>6 DEF recorderVars, RecorderInv, Prompts, Resampling, OneStale
  <2> QED BY <2>1, <2>2, <2>3 DEF RecorderInv
<1> QED BY <1>1, <1>2, <1>3, <1>4, <1>5, <1>6 DEF RecorderNext

LEMMA RecorderAlways == RecorderSpec => []RecorderInv
<1> QED BY RecorderStart, RecorderStep, PTL DEF RecorderSpec

-----------------------------------------------------------------------------
(* What follows.                                                            *)

\* Samples, frames, chunks and prompts are counted, the channel is bounded
\* (VAD_CHANNEL_BOUND) and what waits for its frame to be complete is less
\* than a frame (`carry`).
THEOREM RecorderTyping == RecorderSpec => []RecorderTypeOK
<1>1. RecorderInv => RecorderTypeOK
  BY DEF RecorderInv
<1> QED BY <1>1, RecorderAlways, PTL

\* One timeline for both legs, whatever the tool delivers in one read and
\* whenever the prompts are played: rx is every whole frame delivered, and
\* at the end tx is as long (DuplexSession::start, push_tx, finish).
THEOREM OneTimelineHolds == RecorderSpec => []OneTimeline
<1>1. ASSUME RecorderInv PROVE OneTimeline
  <2>1. Timeline /\ Prompts /\ Fields
    BY <1>1, TypeIsFields DEF RecorderInv
  <2>2. /\ cap.carry \in 0 .. Channels - 1 /\ cap.total \in Nat /\ rx \in Nat
        /\ clock \in Nat
    BY <2>1 DEF Fields
  <2>3. ASSUME cap.pc # "write", rjob.pc # "done"
        PROVE  rx = Whole(given) /\ rx + cap.carry = given
    <3>1. rx = cap.total * Channels /\ given = rx + cap.carry + 0
      BY <2>1, <2>3 DEF Timeline
    <3>2. rx + cap.carry = given
      BY <2>2, <3>1, RecorderAssumption
    <3>3. Whole(cap.total * Channels + cap.carry) = cap.total * Channels
      BY <2>2, WholeOf
    <3> QED BY <3>1, <3>2, <3>3
  <2>4. clock * Channels <= rx
    <3>1. clock <= cap.total /\ cap.total * Channels <= rx
      BY <2>1 DEF Timeline
    <3>2. /\ clock * Channels \in Nat /\ cap.total * Channels \in Nat
          /\ clock * Channels <= cap.total * Channels
      BY <2>2, <3>1, AddFrames
    <3> QED BY <2>2, <3>1, <3>2
  <2>5. \A i \in 1 .. Len(tx.prompts) :
          LET till == IF i = 1 THEN 0 ELSE tx.prompts[i - 1].at + PromptLen
          IN tx.prompts[i].at = Larger(tx.prompts[i].heard, till)
    BY <2>1 DEF Prompts
  <2>6. /\ rjob.pc # "done" => tx.samples = tx.len * Channels
        /\ rjob.pc = "done" => tx.samples = rx
    BY <2>1 DEF Timeline
  <2> QED BY <2>3, <2>4, <2>5, <2>6 DEF OneTimeline
<1> QED BY <1>1, RecorderAlways, PTL

\* What a turn hears is one piece of audio, but for one frame at most that
\* was under way when the turn before it ended (vad_begin, the reset of `rs`).
THEOREM TurnsStayClean == RecorderSpec => []TurnsAreClean
<1>1. ASSUME RecorderInv PROVE TurnsAreClean
  <2>1. Resampling /\ OneStale /\ Fields
    BY <1>1, TypeIsFields DEF RecorderInv
  <2>2. \A i \in 1 .. Len(chan) : chan[i].after \in {0, chan[i].n - 1}
    BY <2>1 DEF Resampling
  <2> DEFINE old == {i \in 1 .. Len(chan) : chan[i].n < rjob.began}
  <2>3. ASSUME rjob.pc = "listen" PROVE rjob.stale + Cardinality(old) <= 1
    <3>1. /\ Len(chan) \in Nat /\ rjob.began \in Nat
          /\ \A i \in 1 .. Len(chan) : chan[i].n \in Nat
      <4>1. chan \in Seq(Frame) /\ Len(chan) \in Nat /\ rjob.began \in Nat
        BY <2>1 DEF Fields
      <4>2. \A i \in 1 .. Len(chan) : chan[i] \in Frame
        BY <4>1, ElementOfSeq
      <4> QED BY <4>1, <4>2 DEF Frame
    <3>2. \A i \in 2 .. Len(chan) : rjob.began <= chan[i].n
      BY <2>1, <2>3 DEF OneStale
    <3>3. old \subseteq {1}
      <4> SUFFICES ASSUME NEW i \in old PROVE i = 1
        OBVIOUS
      <4>1. i \in 1 .. Len(chan) /\ chan[i].n < rjob.began
        OBVIOUS
      <4>2. i \notin 2 .. Len(chan)
        BY <3>1, <3>2, <4>1
      <4> QED BY <3>1, <4>1, <4>2
    <3>4. IsFiniteSet({1}) /\ Cardinality({1}) = 1
      BY FS_Singleton
    <3>5. Cardinality(old) \in Nat /\ Cardinality(old) <= 1
      BY <3>3, <3>4, FS_Subset, FS_CardinalityType
    <3>6. CASE rjob.stale = 0
      BY <3>5, <3>6
    <3>7. CASE /\ rjob.stale = 1
               /\ \A i \in 1 .. Len(chan) : rjob.began <= chan[i].n
      <4>1. old = {}
        BY <3>1, <3>7
      <4>2. Cardinality(old) = 0
        BY <4>1, FS_EmptySet
      <4> QED BY <3>7, <4>2
    <3> QED BY <2>1, <2>3, <3>6, <3>7 DEF OneStale
  <2> QED BY <2>2, <2>3 DEF TurnsAreClean
<1> QED BY <1>1, RecorderAlways, PTL
-----------------------------------------------------------------------------
(* AppLink.                                                                 *)

\* A socket is in a stage, and only a running service has one.
Socket(a) == (a.ws = None <=> a.stage = "none") /\ (a.ws # None => a.running)

\* What lets a search begun before outlast handshakes and drops: a socket that
\* was abandoned, or a drop overtaken by the main thread, has made the search.
Covered == Searches /\ (stale # {} \/ dropping = "overtaken") => app.window

\* An attempt is under way, or was made of an address that cannot be used.
Tried(a) == a.window \/ a.timer \/ a.ws # None \/ a.slip = "address"

LinkInv == AppLinkTypeOK /\ Socket(app) /\ Covered /\ AlwaysTrying

\* Where a step of the service leaves what its attempts hang on.
Same(a, b) ==
  /\ b.running = a.running /\ b.ws = a.ws /\ b.stage = a.stage
  /\ b.window = a.window /\ b.timer = a.timer /\ b.posted = a.posted
  /\ b.slip = a.slip

LEMMA NewAppIs == NewApp \in App /\ Socket(NewApp) /\ ~NewApp.running
  BY AppLinkAssumption DEF NewApp, App, Socket

LEMMA NextIs == ASSUME NEW a \in App PROVE NextCandidate(a) \in Daemon \cup {None}
<1>1. a.found \in Seq(Daemon)
  BY DEF App
<1>2. Best(a) \subseteq DOMAIN a.found
  BY DEF Best
<1>3. DOMAIN a.found \subseteq Nat /\ \A i \in DOMAIN a.found : a.found[i] \in Daemon
  BY <1>1, LenProperties, ElementOfSeq
<1>4. CASE Best(a) # {}
  <2>1. Min(Best(a)) \in Best(a)
    BY <1>2, <1>3, <1>4, LeastIn
  <2> QED BY <1>2, <1>3, <1>4, <2>1 DEF NextCandidate
<1> QED BY <1>4 DEF NextCandidate

\* connect: a socket, or an address that cannot be used.
LEMMA ConnectIs ==
  ASSUME NEW a \in App, Socket(a), NEW d \in Daemon
  PROVE  LET b == Connect(a, d) IN
           /\ b \in App /\ Socket(b) /\ b.running = a.running
           /\ b.window = a.window /\ b.timer = a.timer /\ b.posted = a.posted
           /\ a.ws # None => b.ws # None
           /\ a.running => b.ws # None \/ b.slip = "address"
<1>1. CASE ~a.running \/ a.ws # None
  BY <1>1 DEF Connect, Socket
<1>2. CASE a.running /\ a.ws = None /\ scene.nature[d] = "undialable"
  <2> DEFINE b == [a EXCEPT !.slip = "address"]
  <2>1. Connect(a, d) = b
    BY <1>2 DEF Connect
  <2>2. b \in App
    BY ZenonT(60) DEF App
  <2>3. /\ b.ws = a.ws /\ b.stage = a.stage /\ b.running = a.running
        /\ b.window = a.window /\ b.timer = a.timer /\ b.posted = a.posted
        /\ b.slip = "address"
    BY DEF App
  <2> HIDE DEF b
  <2> QED BY <1>2, <2>1, <2>2, <2>3 DEF Socket
<1>3. CASE a.running /\ a.ws = None /\ scene.nature[d] = "malformed"
  <2> DEFINE s == a.unreachable \cup {d}
             b == [a EXCEPT !.slip = "address", !.unreachable = s]
  <2>1. Connect(a, d) = b
    BY <1>3 DEF Connect
  <2>4. s \in SUBSET Daemon
    BY DEF App
  <2> HIDE DEF s
  <2>2. b \in App
    BY <2>4, ZenonT(60) DEF App
  <2>3. /\ b.ws = a.ws /\ b.stage = a.stage /\ b.running = a.running
        /\ b.window = a.window /\ b.timer = a.timer /\ b.posted = a.posted
        /\ b.slip = "address"
    BY DEF App
  <2> HIDE DEF b
  <2> QED BY <1>3, <2>1, <2>2, <2>3 DEF Socket
<1>4. CASE /\ a.running /\ a.ws = None
           /\ scene.nature[d] \notin {"undialable", "malformed"}
  <2> DEFINE b == [a EXCEPT !.connecting = d, !.ws = d, !.stage = "opening",
                            !.slip = "none"]
  <2>1. Connect(a, d) = b
    BY <1>4 DEF Connect
  <2>2. b \in App
    <3>1. d \in Daemon \cup {None}
      OBVIOUS
    <3> QED BY <3>1, ZenonT(60) DEF App
  <2>3. /\ b.ws = d /\ b.stage = "opening" /\ b.running = a.running
        /\ b.window = a.window /\ b.timer = a.timer /\ b.posted = a.posted
    BY DEF App
  <2> HIDE DEF b
  <2> QED BY <1>4, <2>1, <2>2, <2>3, AppLinkAssumption DEF Socket
<1> QED BY <1>1, <1>2, <1>3, <1>4

\* connectNextCandidate: an attempt, if there is a candidate.
LEMMA TryNextIs ==
  ASSUME NEW a \in App, Socket(a)
  PROVE  LET b == TryNext(a) IN
           /\ b \in App /\ Socket(b) /\ b.running = a.running
           /\ b.window = a.window /\ b.timer = a.timer /\ b.posted = a.posted
           /\ a.ws # None => b.ws # None
           /\ CanTry(a) => b.ws # None \/ b.slip = "address"
           /\ ~CanTry(a) => b = a
<1> DEFINE d == NextCandidate(a)
<1>1. CASE CanTry(a)
  <2>1. d \in Daemon /\ a.running /\ a.ws = None
    BY <1>1, NextIs DEF CanTry
  <2>2. TryNext(a) = Connect(a, d)
    BY <1>1 DEF TryNext
  <2> HIDE DEF d
  <2> DEFINE b == TryNext(a)
  <2>3. /\ b \in App /\ Socket(b) /\ b.running = a.running
        /\ b.window = a.window /\ b.timer = a.timer /\ b.posted = a.posted
        /\ b.ws # None \/ b.slip = "address"
    <3> DEFINE e == Connect(a, d)
    <3>1. /\ e \in App /\ Socket(e) /\ e.running = a.running
          /\ e.window = a.window /\ e.timer = a.timer /\ e.posted = a.posted
          /\ e.ws # None \/ e.slip = "address"
      BY <2>1, ConnectIs
    <3> QED BY <2>2, <3>1
  <2> QED BY <1>1, <2>1, <2>3
<1>2. CASE ~CanTry(a)
  BY <1>2 DEF TryNext, Socket
<1> QED BY <1>1, <1>2

\* The timer of the next attempt, for a service that runs.
LEMMA ScheduleIs ==
  ASSUME NEW a \in App
  PROVE  LET b == ScheduleReconnect(a) IN
           /\ b \in App /\ b.running = a.running /\ b.ws = a.ws
           /\ b.stage = a.stage /\ b.window = a.window /\ b.posted = a.posted
           /\ a.running => b.timer
<1> DEFINE n == IF a.backoff > Doublings THEN a.backoff ELSE a.backoff + 1
           b == [a EXCEPT !.timer = TRUE, !.slip = "none", !.backoff = n]
<1>1. n \in Nat
  <2>1. a.backoff \in Nat
    BY DEF App
  <2> QED BY <2>1, AppLinkAssumption
<1>2. a.running => ScheduleReconnect(a) = b
  BY DEF ScheduleReconnect, App
<1> HIDE DEF n
<1>3. b \in App
  BY <1>1, ZenonT(60) DEF App
<1>4. /\ b.running = a.running /\ b.ws = a.ws /\ b.posted = a.posted
      /\ b.stage = a.stage /\ b.window = a.window /\ b.timer
  BY DEF App
<1> HIDE DEF b
<1> QED BY <1>2, <1>3, <1>4 DEF ScheduleReconnect

\* startDiscovery: a search, or the timer.
LEMMA StartDiscoveryIs ==
  ASSUME NEW a \in App, a.running
  PROVE  LET b == StartDiscovery(a) IN
           /\ b \in App /\ b.running = a.running /\ b.ws = a.ws
           /\ b.stage = a.stage /\ b.posted = a.posted
           /\ scene.search => b.window
           /\ b.window \/ b.timer
<1> DEFINE zero == [d \in Daemon |-> 0]
           c == [a EXCEPT !.told = {}, !.found = <<>>, !.queue = <<>>,
                          !.attempts = zero]
           b == [c EXCEPT !.window = TRUE, !.lock = TRUE, !.slip = "none"]
           e == [c EXCEPT !.window = FALSE, !.lock = FALSE]
<1>1. StartDiscovery(a) = IF scene.search THEN b ELSE ScheduleReconnect(e)
  BY DEF StartDiscovery, StopDiscovery
<1>2. c \in App
  <2>1. zero \in [Daemon -> Nat] /\ <<>> \in Seq(Daemon) /\ {} \in SUBSET Daemon
    BY EmptySeq
  <2> HIDE DEF zero
  <2> QED BY <2>1, ZenonT(60) DEF App
<1>3. /\ c.running = a.running /\ c.ws = a.ws /\ c.stage = a.stage
      /\ c.posted = a.posted
  BY DEF App
<1> HIDE DEF c
<1>4. b \in App
  BY <1>2, ZenonT(60) DEF App
<1>5. e \in App
  BY <1>2, ZenonT(60) DEF App
<1>6. /\ b.running = c.running /\ b.ws = c.ws /\ b.stage = c.stage
      /\ b.posted = c.posted /\ b.window
      /\ e.running = c.running /\ e.ws = c.ws /\ e.stage = c.stage
      /\ e.posted = c.posted
  BY <1>2 DEF App
<1> HIDE DEF b, e
<1> QED BY <1>1, <1>3, <1>4, <1>5, <1>6, ScheduleIs

LEMMA SceneIs ==
  ASSUME LinkInv
  PROVE  scene \in Scene /\ scene.server \in Daemon \cup {None}
  BY DEF LinkInv, AppLinkTypeOK, Scene

\* connectOrDiscover: the saved address, or a search.
LEMMA ConnectOrDiscoverIs ==
  ASSUME NEW a \in App, Socket(a), scene.server \in Daemon \cup {None}
  PROVE  LET b == ConnectOrDiscover(a) IN
           /\ b \in App /\ Socket(b) /\ b.running = a.running
           /\ Searches /\ (a.window \/ a.running) => b.window
           /\ a.ws # None => b.ws # None
           /\ b.posted = a.posted
           /\ a.running => Tried(b)
<1>1. CASE ~a.running
  BY <1>1 DEF ConnectOrDiscover
<1>2. CASE a.running /\ scene.server # None
  <2>1. ConnectOrDiscover(a) = Connect(a, scene.server)
    BY <1>2 DEF ConnectOrDiscover
  <2> DEFINE b == Connect(a, scene.server)
  <2>2. scene.server \in Daemon
    BY <1>2
  <2>3. /\ b \in App /\ Socket(b) /\ b.running = a.running
        /\ b.posted = a.posted
        /\ a.ws # None => b.ws # None
        /\ b.ws # None \/ b.slip = "address"
    BY <1>2, <2>2, ConnectIs
  <2>4. Tried(b) /\ ~Searches
    <3> HIDE DEF b
    <3> QED BY <1>2, <2>3 DEF Tried, Searches
  <2> QED BY <2>1, <2>3, <2>4
<1>3. CASE a.running /\ scene.server = None
  <2>1. ConnectOrDiscover(a) = StartDiscovery(a)
    BY <1>3 DEF ConnectOrDiscover
  <2> QED BY <1>3, <2>1, StartDiscoveryIs DEF Searches, Socket, Tried
<1> QED BY <1>1, <1>2, <1>3

\* forceReconnect: the socket gone, and a new attempt.
LEMMA ForceReconnectIs ==
  ASSUME NEW a \in App, a.running, scene.server \in Daemon \cup {None}
  PROVE  LET b == ForceReconnect(a) IN
           /\ b \in App /\ Socket(b) /\ Tried(b)
           /\ Searches => b.window
<1> DEFINE c == [a EXCEPT !.ws = None, !.stage = "none", !.beat = FALSE,
                          !.timer = FALSE, !.backoff = 0]
<1>1. c \in App
  <2>1. 0 \in Nat
    OBVIOUS
  <2> QED BY <2>1, ZenonT(60) DEF App
<1>4. c.ws = None /\ c.stage = "none" /\ c.running
  BY DEF App
<1>2. ForceReconnect(a) = ConnectOrDiscover(c)
  BY DEF ForceReconnect
<1> HIDE DEF c
<1>3. Socket(c)
  BY <1>4 DEF Socket
<1> QED BY <1>1, <1>2, <1>3, <1>4, ConnectOrDiscoverIs

\* onStartCommand: nothing new, or an attempt.
LEMMA StartIs ==
  ASSUME NEW a \in App, scene.server \in Daemon \cup {None}
  PROVE  /\ a.running => Start(a) = a
         /\ ~a.running => /\ Start(a) \in App /\ Socket(Start(a))
                          /\ Tried(Start(a))
                          /\ Searches => Start(a).window
<1> DEFINE c == [NewApp EXCEPT !.running = TRUE]
<1>1. c \in App /\ Socket(c) /\ c.running
  <2>1. NewApp \in App /\ Socket(NewApp) /\ NewApp.ws = None
    BY NewAppIs DEF NewApp
  <2>2. c \in App
    <3>1. ASSUME NEW n \in App PROVE [n EXCEPT !.running = TRUE] \in App
      BY ZenonT(60) DEF App
    <3> QED BY <2>1, <3>1
  <2>3. c.running /\ c.ws = NewApp.ws /\ c.stage = NewApp.stage
    BY <2>1 DEF App
  <2> HIDE DEF c
  <2> QED BY <2>1, <2>2, <2>3 DEF Socket
<1>2. ~a.running => Start(a) = ConnectOrDiscover(c)
  BY DEF Start
<1>3. a.running => Start(a) = a
  BY DEF Start
<1> HIDE DEF c
<1> QED BY <1>1, <1>2, <1>3, ConnectOrDiscoverIs

\* pumpResolve touches the queue only.
LEMMA PumpIs ==
  ASSUME NEW a \in App PROVE Pump(a) \in App /\ Same(a, Pump(a))
<1>1. CASE a.resolving # None \/ ~a.running \/ a.queue = <<>>
  BY <1>1 DEF Pump, Same
<1>2. CASE ~(a.resolving # None \/ ~a.running \/ a.queue = <<>>)
  <2> DEFINE d == Head(a.queue)
             q == Tail(a.queue)
             b == [a EXCEPT !.resolving = d, !.queue = q]
  <2>1. a.queue \in Seq(Daemon) /\ a.queue # <<>>
    BY <1>2 DEF App
  <2>2. d \in Daemon /\ q \in Seq(Daemon)
    BY <2>1, HeadTailProperties
  <2>3. Pump(a) = b
    BY <1>2 DEF Pump
  <2> HIDE DEF d, q
  <2>4. b \in App
    <3>1. d \in Daemon \cup {None}
      BY <2>2
    <3> QED BY <2>2, <3>1, ZenonT(60) DEF App
  <2>5. Same(a, b)
    BY DEF App, Same
  <2> HIDE DEF b
  <2> QED BY <2>3, <2>4, <2>5
<1> QED BY <1>1, <1>2

LEMMA EnqueueIs ==
  ASSUME NEW a \in App, NEW d \in Daemon
  PROVE  Enqueue(a, d) \in App /\ Same(a, Enqueue(a, d))
<1> DEFINE q == Append(a.queue, d)
           b == [a EXCEPT !.queue = q]
<1>1. q \in Seq(Daemon)
  <2>1. a.queue \in Seq(Daemon)
    BY DEF App
  <2> QED BY <2>1, AppendProperties
<1>2. Enqueue(a, d) = Pump(b)
  BY DEF Enqueue
<1> HIDE DEF q
<1>3. b \in App
  BY <1>1, ZenonT(60) DEF App
<1>4. Same(a, b)
  BY DEF App, Same
<1> HIDE DEF b
<1> QED BY <1>2, <1>3, <1>4, PumpIs DEF Same

-----------------------------------------------------------------------------
\* A step that leaves socket, search, timer and posted task as they are.
LEMMA SameKeeps ==
  ASSUME LinkInv, app' \in App, Same(app, app'),
         UNCHANGED <<scene, dropping, stale, live, net, prefs, alarm, restart>>,
         mishaps' \in Nat
  PROVE  LinkInv'
  BY DEF LinkInv, AppLinkTypeOK, Socket, Same, Covered, AlwaysTrying,
     Stranded, Searches

\* A step that does not touch the service, nor ends a drop.
LEMMA AsideKeeps ==
  ASSUME LinkInv, UNCHANGED <<scene, app, stale>>,
         dropping' = dropping \/ dropping' = "checked",
         live' \in BOOLEAN, net' \in BOOLEAN,
         prefs' \in [enabled : BOOLEAN, keep : BOOLEAN],
         alarm' \in BOOLEAN, restart' \in BOOLEAN, mishaps' \in Nat
  PROVE  LinkInv'
<1>1. AppLinkTypeOK'
  BY DEF LinkInv, AppLinkTypeOK
<1>2. Socket(app')
  BY DEF LinkInv
<1>3. Covered' /\ AlwaysTrying'
  BY DEF LinkInv, Covered, AlwaysTrying, Stranded, Searches
<1> QED BY <1>1, <1>2, <1>3 DEF LinkInv

\* A step with a new attempt, by a search if there are searches.
LEMMA TriedKeeps ==
  ASSUME LinkInv, app' \in App, Socket(app'), Tried(app'),
         Searches => app'.window, UNCHANGED scene,
         dropping' \in {"no", "checked", "overtaken"}, stale' \subseteq Daemon,
         live' \in BOOLEAN, net' \in BOOLEAN,
         prefs' \in [enabled : BOOLEAN, keep : BOOLEAN],
         alarm' \in BOOLEAN, restart' \in BOOLEAN, mishaps' \in Nat
  PROVE  LinkInv'
  BY DEF LinkInv, AppLinkTypeOK, Socket, Covered, AlwaysTrying, Stranded,
         Searches, Tried

\* onStartCommand
LEMMA StartKeeps ==
  ASSUME LinkInv, StartService, UNCHANGED scene, net' \in BOOLEAN,
         prefs' \in [enabled : BOOLEAN, keep : BOOLEAN],
         alarm' \in BOOLEAN, restart' \in BOOLEAN, mishaps' \in Nat
  PROVE  LinkInv'
<1>1. /\ app' = Start(app) /\ app \in App
      /\ UNCHANGED <<dropping, stale, live>>
      /\ dropping \in {"no", "checked", "overtaken"} /\ stale \subseteq Daemon
      /\ live \in BOOLEAN
  BY DEF StartService, LinkInv, AppLinkTypeOK
<1>2. CASE app.running
  <2>1. app' = app
    BY <1>1, <1>2, SceneIs, StartIs
  <2> QED BY <1>1, <2>1, AsideKeeps
<1>3. CASE ~app.running
  <2>1. /\ app' \in App /\ Socket(app') /\ Tried(app')
        /\ Searches => app'.window
    BY <1>1, <1>3, SceneIs, StartIs
  <2> QED BY <1>1, <2>1, TriedKeeps
<1> QED BY <1>2, <1>3

\* The end of the service, or of its process.
LEMMA GoneKeeps ==
  ASSUME LinkInv, app' = NewApp, Gone, UNCHANGED scene, net' \in BOOLEAN,
         prefs' \in [enabled : BOOLEAN, keep : BOOLEAN],
         alarm' \in BOOLEAN, restart' \in BOOLEAN, mishaps' \in Nat
  PROVE  LinkInv'
<1>1. app' \in App /\ Socket(app') /\ ~app'.running
  BY NewAppIs
<1>2. dropping' = "no" /\ stale' = {} /\ live' = FALSE
  BY DEF Gone
<1> QED BY <1>1, <1>2 DEF LinkInv, AppLinkTypeOK, Covered, AlwaysTrying, Stranded

LEMMA Types ==
  ASSUME LinkInv
  PROVE  /\ scene \in Scene /\ app \in App /\ Socket(app)
         /\ dropping \in {"no", "checked", "overtaken"} /\ stale \subseteq Daemon
         /\ live \in BOOLEAN /\ net \in BOOLEAN
         /\ prefs \in [enabled : BOOLEAN, keep : BOOLEAN]
         /\ alarm \in BOOLEAN /\ restart \in BOOLEAN /\ mishaps \in Nat
         /\ mishaps + 1 \in Nat
  BY DEF LinkInv, AppLinkTypeOK

\* An abandoned socket is a daemon's.
LEMMA AbandonedIs ==
  ASSUME LinkInv PROVE Abandoned(app) \subseteq Daemon
<1>1. app.stage = "opening" => app.ws \in Daemon
  BY Types DEF Socket, App
<1> QED BY <1>1, Types DEF Abandoned
-----------------------------------------------------------------------------
LEMMA LinkStart == AppLinkInit => LinkInv
<1> SUFFICES ASSUME AppLinkInit PROVE LinkInv
  OBVIOUS
<1>1. app \in App /\ Socket(app) /\ ~app.running
  BY NewAppIs DEF AppLinkInit
<1>2. AppLinkTypeOK
  <2>1. scene \in Scene /\ mishaps \in Nat
    BY AppLinkAssumption DEF AppLinkInit
  <2>2. prefs \in [enabled : BOOLEAN, keep : BOOLEAN]
    BY DEF AppLinkInit
  <2>3. /\ dropping \in {"no", "checked", "overtaken"} /\ stale \subseteq Daemon
        /\ live \in BOOLEAN /\ net \in BOOLEAN /\ alarm \in BOOLEAN
        /\ restart \in BOOLEAN
    BY DEF AppLinkInit
  <2> QED BY <1>1, <2>1, <2>2, <2>3 DEF AppLinkTypeOK
<1>3. Covered /\ AlwaysTrying
  BY <1>1 DEF AppLinkInit, Covered, AlwaysTrying, Stranded
<1> QED BY <1>1, <1>2, <1>3 DEF LinkInv

LEMMA ServiceFoundKeeps ==
  ASSUME LinkInv, NEW d \in Daemon, ServiceFound(d) PROVE LinkInv'
<1> DEFINE s == app.told \cup {d}
           a == [app EXCEPT !.told = s]
<1>1. a \in App /\ Same(app, a)
  <2>1. app \in App
    BY Types
  <2>2. s \in SUBSET Daemon
    BY <2>1 DEF App
  <2> HIDE DEF s
  <2>3. a \in App
    BY <2>1, <2>2, ZenonT(60) DEF App
  <2>4. Same(app, a)
    BY <2>1 DEF App, Same
  <2> QED BY <2>3, <2>4
<1>2. app' = Enqueue(a, d)
      /\ UNCHANGED <<scene, dropping, stale, live, net, prefs, alarm, restart, mishaps>>
  BY DEF ServiceFound, environment
<1> HIDE DEF a
<1>3. app' \in App /\ Same(app, app')
  BY <1>1, <1>2, EnqueueIs DEF Same
<1> QED BY <1>2, <1>3, Types, SameKeeps

LEMMA RetryKeeps ==
  ASSUME LinkInv, NEW d \in Daemon, RetryResolve(d) PROVE LinkInv'
<1> DEFINE s == app.retry \ {d}
           a == [app EXCEPT !.retry = s]
<1>1. a \in App /\ Same(app, a)
  <2>1. app \in App
    BY Types
  <2>2. s \in SUBSET Daemon
    BY <2>1 DEF App
  <2> HIDE DEF s
  <2>3. a \in App
    BY <2>1, <2>2, ZenonT(60) DEF App
  <2>4. Same(app, a)
    BY <2>1 DEF App, Same
  <2> QED BY <2>3, <2>4
<1>2. app' = Enqueue(a, d)
      /\ UNCHANGED <<scene, dropping, stale, live, net, prefs, alarm, restart, mishaps>>
  BY DEF RetryResolve, environment
<1> HIDE DEF a
<1>3. app' \in App /\ Same(app, app')
  BY <1>1, <1>2, EnqueueIs DEF Same
<1> QED BY <1>2, <1>3, Types, SameKeeps

LEMMA ResolveFailsKeeps == LinkInv /\ ResolveFails => LinkInv'
<1> SUFFICES ASSUME LinkInv, ResolveFails PROVE LinkInv'
  OBVIOUS
<1> DEFINE d == app.resolving
           n == app.attempts[d] + 1
           r == IF n <= ResolveRetries THEN app.retry \cup {d} ELSE app.retry
           a == [app EXCEPT !.resolving = None, !.attempts[d] = n, !.retry = r]
<1>1. /\ d # None /\ mishaps' = mishaps + 1 /\ app' = Pump(a)
      /\ UNCHANGED <<scene, dropping, stale, live, net, prefs, alarm, restart>>
  BY DEF ResolveFails, Mishap, environment
<1>2. d \in Daemon /\ app.attempts \in [Daemon -> Nat] /\ app.retry \subseteq Daemon
  BY <1>1, Types DEF App
<1>3. n \in Nat /\ r \subseteq Daemon
  BY <1>2
<1> HIDE DEF r, n, d
<1>4. a \in App /\ Same(app, a)
  <2> DEFINE t == [app.attempts EXCEPT ![d] = n]
  <2>1. app \in App
    BY Types
  <2>2. t \in [Daemon -> Nat] /\ r \in SUBSET Daemon /\ None \in Daemon \cup {None}
    BY <1>2, <1>3
  <2>3. a = [app EXCEPT !.resolving = None, !.attempts = t, !.retry = r]
    BY <2>1 DEF App
  <2> HIDE DEF t
  <2>4. a \in App
    BY <2>1, <2>2, <2>3, ZenonT(60) DEF App
  <2>5. Same(app, a)
    BY <2>1, <2>3 DEF App, Same
  <2> QED BY <2>4, <2>5
<1> HIDE DEF a
<1>5. app' \in App /\ Same(app, app')
  BY <1>1, <1>4, PumpIs DEF Same
<1> QED BY <1>1, <1>5, Types, SameKeeps

\* A daemon that has been resolved is tried if there is no socket.
LEMMA ResolvedKeeps == LinkInv /\ Resolved => LinkInv'
<1> SUFFICES ASSUME LinkInv, Resolved PROVE LinkInv'
  OBVIOUS
<1> DEFINE d == app.resolving
           old == Contains(app.found, d) \/ scene.nature[d] = "undialable"
           f == IF old THEN app.found ELSE Append(app.found, d)
           a == [app EXCEPT !.resolving = None, !.found = f]
           b == TryNext(a)
<1>1. /\ d # None /\ app' = Pump(b)
      /\ UNCHANGED <<scene, dropping, stale, live, net, prefs, alarm, restart, mishaps>>
  BY DEF Resolved, environment
<1>2. f \in Seq(Daemon)
  <2>1. d \in Daemon /\ app.found \in Seq(Daemon)
    BY <1>1, Types DEF App
  <2> QED BY <2>1, AppendProperties
<1> HIDE DEF f, d
<1>3. a \in App /\ Same(app, a)
  <2>1. app \in App
    BY Types
  <2>2. a \in App
    BY <1>2, <2>1, ZenonT(60) DEF App
  <2>3. Same(app, a)
    BY <2>1 DEF App, Same
  <2> QED BY <2>2, <2>3
<1>4. Socket(a)
  BY <1>3, Types DEF Socket, Same
<1> HIDE DEF a
<1>5. /\ b \in App /\ Socket(b) /\ b.running = a.running
      /\ b.window = a.window /\ b.timer = a.timer /\ b.posted = a.posted
      /\ a.ws # None => b.ws # None
      /\ b.ws # None \/ b.slip \in {"address", a.slip}
  BY <1>3, <1>4, TryNextIs
<1> HIDE DEF b
<1>6. app' \in App /\ Same(b, app')
  BY <1>1, <1>5, PumpIs
<1>7. /\ Socket(app') /\ app'.running = app.running /\ app'.window = app.window
      /\ app'.timer = app.timer /\ app'.posted = app.posted
      /\ app.ws # None => app'.ws # None
      /\ app'.ws # None \/ app'.slip \in {"address", app.slip}
  BY <1>3, <1>5, <1>6 DEF Same, Socket
<1> QED BY <1>1, <1>6, <1>7 DEF LinkInv, AppLinkTypeOK, Covered, AlwaysTrying,
     Stranded, Searches

\* The search ends: with a socket, or with the timer of the next attempt.
LEMMA EndWindowKeeps ==
  ASSUME LinkInv, EndWindow, Settled, mishaps' \in Nat,
         UNCHANGED <<scene, dropping, stale, live, net, prefs, alarm, restart>>
  PROVE  LinkInv'
<1> DEFINE a == StopDiscovery(app)
<1>1. /\ a \in App /\ a.ws = app.ws /\ a.stage = app.stage
      /\ a.running = app.running
  <2>1. app \in App
    BY Types
  <2>2. a \in App
    BY <2>1, Zenon DEF StopDiscovery, App
  <2>3. a.ws = app.ws /\ a.stage = app.stage /\ a.running = app.running
    BY <2>1 DEF StopDiscovery, App
  <2> QED BY <2>2, <2>3
<1>2. app' = IF a.ws = None THEN ScheduleReconnect(a) ELSE a
  BY DEF EndWindow
<1> HIDE DEF a
<1>3. /\ app' \in App /\ app'.ws = app.ws /\ app'.stage = app.stage
      /\ app'.running = app.running
      /\ app.ws = None /\ app.running => app'.timer
  BY <1>1, <1>2, ScheduleIs
<1>4. Socket(app')
  BY <1>3, Types DEF Socket
<1>5. stale' = {} /\ dropping' = "no"
  BY DEF Settled
<1> QED BY <1>3, <1>4, <1>5 DEF LinkInv, AppLinkTypeOK, Covered, AlwaysTrying,
     Stranded, Searches

LEMMA TimerKeeps == ASSUME LinkInv, TimerFires PROVE LinkInv'
<1> DEFINE a == [app EXCEPT !.timer = FALSE]
<1>1. /\ a \in App /\ a.running = app.running /\ a.window = app.window
      /\ a.ws = app.ws /\ a.stage = app.stage
  <2>1. app \in App
    BY Types
  <2>2. a \in App
    BY <2>1, ZenonT(60) DEF App
  <2>3. /\ a.running = app.running /\ a.window = app.window
        /\ a.ws = app.ws /\ a.stage = app.stage
    BY <2>1 DEF App
  <2> QED BY <2>2, <2>3
<1>2. app' = ConnectOrDiscover(a)
      /\ UNCHANGED <<scene, dropping, stale, live, net, prefs, alarm, restart, mishaps>>
  BY DEF TimerFires, environment
<1> HIDE DEF a
<1>4. Socket(a)
  BY <1>1, Types DEF Socket
<1>3. /\ app' \in App /\ Socket(app') /\ app'.running = app.running
      /\ Searches /\ (app.window \/ app.running) => app'.window
      /\ app.running => Tried(app')
  BY <1>1, <1>2, <1>4, SceneIs, ConnectOrDiscoverIs
<1> QED BY <1>2, <1>3 DEF LinkInv, AppLinkTypeOK, Covered, AlwaysTrying,
     Stranded, Searches, Tried

LEMMA ExpireKeeps == ASSUME LinkInv, NEW d \in Daemon, Expire(d) PROVE LinkInv'
<1>1. \/ app' = [app EXCEPT !.rejected = @ \ {d}]
      \/ app' = [app EXCEPT !.unreachable = @ \ {d}]
  BY DEF Expire
<1>2. app' \in App /\ Same(app, app')
  <2>1. CASE app' = [app EXCEPT !.rejected = @ \ {d}]
    <3> DEFINE s == app.rejected \ {d}
    <3>1. app \in App
      BY Types
    <3>2. s \in SUBSET Daemon /\ app' = [app EXCEPT !.rejected = s]
      BY <2>1, <3>1 DEF App
    <3> HIDE DEF s
    <3>3. app' \in App
      BY <3>1, <3>2, ZenonT(60) DEF App
    <3>4. Same(app, app')
      BY <3>1, <3>2 DEF App, Same
    <3> QED BY <3>3, <3>4
  <2>2. CASE app' = [app EXCEPT !.unreachable = @ \ {d}]
    <3> DEFINE s == app.unreachable \ {d}
    <3>1. app \in App
      BY Types
    <3>2. s \in SUBSET Daemon /\ app' = [app EXCEPT !.unreachable = s]
      BY <2>2, <3>1 DEF App
    <3> HIDE DEF s
    <3>3. app' \in App
      BY <3>1, <3>2, ZenonT(60) DEF App
    <3>4. Same(app, app')
      BY <3>1, <3>2 DEF App, Same
    <3> QED BY <3>3, <3>4
  <2> QED BY <1>1, <2>1, <2>2
<1>3. UNCHANGED <<scene, dropping, stale, live, net, prefs, alarm, restart, mishaps>>
  BY DEF Expire, environment
<1> QED BY <1>2, <1>3, Types, SameKeeps

\* What onOpen clears is not missed where there is a socket, or a search.
LEMMA OpenedIs ==
  ASSUME NEW a \in App, NEW d \in Daemon
  PROVE  LET b == Opened(a, d) IN
           /\ b \in App /\ b.running = a.running /\ b.ws = a.ws
           /\ b.stage = a.stage /\ b.window = a.window /\ b.posted = a.posted
           /\ b.slip = a.slip
<1> DEFINE s == a.unreachable \ {d}
           b == [a EXCEPT !.heard = "fresh", !.acks = FALSE, !.beat = TRUE,
                          !.timer = FALSE, !.backoff = 0, !.connecting = None,
                          !.unreachable = s]
<1>1. Opened(a, d) = b
  BY DEF Opened
<1>2. s \in SUBSET Daemon
  BY DEF App
<1> HIDE DEF s
<1>3. b \in App
  <2>1. 0 \in Nat
    OBVIOUS
  <2> QED BY <1>2, <2>1, ZenonT(60) DEF App
<1>4. /\ b.running = a.running /\ b.ws = a.ws /\ b.stage = a.stage
      /\ b.window = a.window /\ b.posted = a.posted /\ b.slip = a.slip
  BY DEF App
<1> HIDE DEF b
<1> QED BY <1>1, <1>3, <1>4

LEMMA OpensKeeps == LinkInv /\ Opens => LinkInv'
<1> SUFFICES ASSUME LinkInv, Opens PROVE LinkInv'
  OBVIOUS
<1> DEFINE a == Opened(app, app.ws)
<1>1. /\ app.ws # None /\ app.running /\ app.ws \in Daemon
      /\ app' = [a EXCEPT !.stage = "open"] /\ live' = TRUE
      /\ UNCHANGED <<scene, dropping, stale, net, prefs, alarm, restart, mishaps>>
  BY Types DEF Opens, Socket, App, environment
<1>2. /\ a \in App /\ a.running = app.running /\ a.ws = app.ws
      /\ a.window = app.window
  BY <1>1, Types, OpenedIs
<1> HIDE DEF a
<1>3. app' \in App
  BY <1>1, <1>2, ZenonT(60) DEF App
<1>4. /\ app'.running /\ app'.ws = app.ws
      /\ app'.stage = "open" /\ app'.window = app.window
  BY <1>1, <1>2 DEF App
<1> QED BY <1>1, <1>3, <1>4 DEF LinkInv, AppLinkTypeOK, Socket, Covered, AlwaysTrying,
     Stranded, Searches

\* What onOpen clears of another socket is noted.
LEMMA OpenedLateIs ==
  ASSUME NEW a \in App, NEW d \in Daemon
  PROVE  LET b == OpenedLate(a, d) IN
           /\ b \in App /\ b.running = a.running /\ b.ws = a.ws
           /\ b.stage = a.stage /\ b.window = a.window /\ b.posted = a.posted
           /\ b.slip = IF a.timer THEN "late" ELSE a.slip
<1> DEFINE c == Opened(a, d)
           l == IF a.timer THEN "late" ELSE c.slip
           b == [c EXCEPT !.slip = l]
<1>1. OpenedLate(a, d) = b
  BY DEF OpenedLate
<1>2. /\ c \in App /\ c.running = a.running /\ c.ws = a.ws
      /\ c.stage = a.stage /\ c.window = a.window /\ c.posted = a.posted
      /\ c.slip = a.slip
  BY OpenedIs
<1> HIDE DEF c
<1>3. l \in {"none", "address", "late"}
  BY <1>2 DEF App
<1>4. l = IF a.timer THEN "late" ELSE a.slip
  BY <1>2
<1> HIDE DEF l
<1>5. b \in App
  BY <1>2, <1>3, ZenonT(60) DEF App
<1>6. /\ b.running = c.running /\ b.ws = c.ws /\ b.stage = c.stage
      /\ b.window = c.window /\ b.posted = c.posted /\ b.slip = l
  BY <1>2 DEF App
<1> HIDE DEF b
<1> QED BY <1>1, <1>2, <1>4, <1>5, <1>6

LEMMA StaleKeeps == ASSUME LinkInv, NEW d \in Daemon, StaleEnds(d) PROVE LinkInv'
<1> DEFINE a == OpenedLate(app, d)
           s == a.rejected \cup {d}
           b == [a EXCEPT !.rejected = s, !.keyFail = TRUE]
<1>1. /\ d \in stale /\ stale' = stale \ {d}
      /\ UNCHANGED <<scene, dropping, live, net, prefs, alarm, restart, mishaps>>
      /\ app' = app \/ app' = a \/ app' = b
  BY DEF StaleEnds, environment
<1>2. /\ a \in App /\ a.running = app.running /\ a.ws = app.ws
      /\ a.stage = app.stage /\ a.window = app.window /\ a.posted = app.posted
      /\ a.slip = IF app.timer THEN "late" ELSE app.slip
  BY Types, OpenedLateIs
<1> HIDE DEF a
<1>3. /\ b \in App /\ b.running = a.running /\ b.ws = a.ws
      /\ b.stage = a.stage /\ b.window = a.window /\ b.posted = a.posted
      /\ b.slip = a.slip
  <2>1. s \in SUBSET Daemon
    BY <1>2 DEF App
  <2> HIDE DEF s
  <2>2. b \in App
    BY <1>2, <2>1, ZenonT(60) DEF App
  <2>3. /\ b.running = a.running /\ b.ws = a.ws
        /\ b.stage = a.stage /\ b.window = a.window /\ b.posted = a.posted
        /\ b.slip = a.slip
    BY <1>2 DEF App
  <2> QED BY <2>2, <2>3
<1> HIDE DEF b
<1>4. /\ app' \in App /\ Socket(app') /\ app'.window = app.window
      /\ app'.running = app.running /\ app'.ws = app.ws
      /\ app'.posted = app.posted
      /\ app' = app \/ app'.slip = IF app.timer THEN "late" ELSE app.slip
  BY <1>1, <1>2, <1>3, Types DEF Socket
<1>5. Covered'
  BY <1>1, <1>4 DEF LinkInv, Covered, Searches
<1>6. AlwaysTrying'
  <2>1. CASE Searches
    <3>1. app.window
      BY <1>1, <2>1 DEF LinkInv, Covered
    <3> QED BY <1>4, <3>1 DEF AlwaysTrying, Stranded
  <2>2. CASE ~Searches
    BY <1>1, <1>4, <2>2 DEF LinkInv, AlwaysTrying, Stranded, Searches
  <2> QED BY <2>1, <2>2
<1>7. AppLinkTypeOK'
  <2>1. stale' \subseteq Daemon
    BY <1>1, Types
  <2> QED BY <1>1, <1>4, <2>1 DEF LinkInv, AppLinkTypeOK
<1> QED BY <1>4, <1>5, <1>6, <1>7 DEF LinkInv

LEMMA KeyRejectedKeeps == LinkInv /\ KeyRejected => LinkInv'
<1> SUFFICES ASSUME LinkInv, KeyRejected PROVE LinkInv'
  OBVIOUS
<1> DEFINE s == app.rejected \cup {app.ws}
<1>1. /\ app.stage = "open" /\ app.ws \in Daemon /\ app.running
      /\ app.ws # None
      /\ app' = [app EXCEPT !.stage = "closing", !.keyFail = TRUE,
                            !.rejected = s]
      /\ UNCHANGED <<scene, dropping, stale, live, net, prefs, alarm, restart, mishaps>>
  BY Types DEF KeyRejected, Socket, App, environment
<1>2. /\ app' \in App /\ app'.running /\ app'.ws = app.ws
      /\ app'.stage = "closing" /\ app'.window = app.window
  <2>1. app \in App
    BY Types
  <2>2. s \in SUBSET Daemon
    BY <1>1, <2>1 DEF App
  <2> HIDE DEF s
  <2>3. app' \in App
    BY <1>1, <2>1, <2>2, ZenonT(60) DEF App
  <2>4. /\ app'.running /\ app'.ws = app.ws
        /\ app'.stage = "closing" /\ app'.window = app.window
    BY <1>1, <2>1 DEF App
  <2> QED BY <2>3, <2>4
<1> QED BY <1>1, <1>2 DEF LinkInv, AppLinkTypeOK, Socket, Covered, AlwaysTrying,
     Stranded, Searches

\* dropped(): the socket is forgotten, and the rest posted.
LEMMA DroppedKeeps == LinkInv /\ Dropped => LinkInv'
<1> SUFFICES ASSUME LinkInv, Dropped PROVE LinkInv'
  OBVIOUS
<1> DEFINE p == [key |-> app.keyFail, never |-> app.connecting]
<1>1. /\ dropping # "no" /\ dropping' = "no"
      /\ app' = [app EXCEPT !.ws = None, !.stage = "none", !.beat = FALSE,
                    !.keyFail = FALSE, !.connecting = None, !.posted = p]
      /\ stale' = IF dropping = "overtaken" THEN Abandoned(app) ELSE stale
      /\ UNCHANGED <<scene, live, net, prefs, alarm, restart, mishaps>>
  BY DEF Dropped, environment
<1>2. p \in [key : BOOLEAN, never : Daemon \cup {None}] /\ p # None
  BY Types, AppLinkAssumption DEF App
<1> HIDE DEF p
<1>3. /\ app' \in App /\ app'.ws = None /\ app'.stage = "none"
      /\ app'.posted # None /\ app'.window = app.window
  <2>1. app \in App
    BY Types
  <2>2. app' \in App
    <3>1. p \in {None} \cup [key : BOOLEAN, never : Daemon \cup {None}]
      BY <1>2
    <3>2. app' = [app EXCEPT !.ws = None, !.stage = "none", !.beat = FALSE,
                      !.keyFail = FALSE, !.connecting = None, !.posted = p]
      BY <1>1
    <3> QED BY <2>1, <3>1, <3>2, ZenonT(60) DEF App
  <2>3. /\ app'.ws = None /\ app'.stage = "none"
        /\ app'.posted # None /\ app'.window = app.window
    BY <1>1, <1>2, <2>1 DEF App
  <2> QED BY <2>2, <2>3
<1>4. stale' \subseteq Daemon /\ (Searches /\ stale' # {} => app'.window)
  BY <1>1, <1>3, Types, AbandonedIs DEF LinkInv, Covered
<1> QED BY <1>1, <1>3, <1>4 DEF LinkInv, AppLinkTypeOK, Socket, Covered, AlwaysTrying,
     Stranded, Searches

\* The posted task makes a socket, or sets the timer.
LEMMA AfterDropKeeps == LinkInv /\ AfterDrop => LinkInv'
<1> SUFFICES ASSUME LinkInv, AfterDrop PROVE LinkInv'
  OBVIOUS
<1> DEFINE p == app.posted
           u == IF p.never # None THEN app.unreachable \cup {p.never}
                ELSE app.unreachable
           a == [app EXCEPT !.posted = None, !.unreachable = u]
<1>1. /\ p # None
      /\ app' = IF (p.key \/ p.never # None) /\ CanTry(a) THEN TryNext(a)
                ELSE ScheduleReconnect(a)
      /\ UNCHANGED <<scene, dropping, stale, live, net, prefs, alarm, restart, mishaps>>
  BY DEF AfterDrop, environment
<1>2. u \subseteq Daemon
  <2>1. p \in [key : BOOLEAN, never : Daemon \cup {None}]
        /\ app.unreachable \subseteq Daemon
    BY <1>1, Types DEF App
  <2> QED BY <2>1
<1> HIDE DEF u, p
<1>3. /\ a \in App /\ a.running = app.running /\ a.ws = app.ws
      /\ a.stage = app.stage /\ a.window = app.window
  <2>1. app \in App
    BY Types
  <2>2. a \in App
    <3>1. u \in SUBSET Daemon
      BY <1>2
    <3> QED BY <2>1, <3>1, ZenonT(60) DEF App
  <2>3. /\ a.running = app.running /\ a.ws = app.ws
        /\ a.stage = app.stage /\ a.window = app.window
    BY <2>1 DEF App
  <2> QED BY <2>2, <2>3
<1>4. Socket(a)
  BY <1>3, Types DEF Socket
<1> HIDE DEF a
<1>5. /\ app' \in App /\ Socket(app') /\ app'.window = app.window
      /\ app'.running /\ app'.ws = None => app'.timer \/ app'.slip = "address"
  <2>1. CASE CanTry(a) /\ app' = TryNext(a)
    BY <1>3, <1>4, <2>1, TryNextIs
  <2>2. CASE app' = ScheduleReconnect(a)
    BY <1>3, <1>4, <2>2, ScheduleIs DEF Socket
  <2> QED BY <1>1, <2>1, <2>2
<1> QED BY <1>1, <1>5 DEF LinkInv, AppLinkTypeOK, Covered, AlwaysTrying,
     Stranded, Searches

\* The heartbeat ends, or finds the link dead.
LEMMA HeartbeatKeeps == ASSUME LinkInv, Heartbeat PROVE LinkInv'
<1>1. UNCHANGED <<scene, live, net, prefs, alarm, restart, mishaps>>
  BY DEF Heartbeat, environment
<1>2. CASE app' = [app EXCEPT !.beat = FALSE] /\ UNCHANGED <<dropping, stale>>
  <2>1. app' \in App /\ Same(app, app')
    <3>1. app \in App
      BY Types
    <3>2. app' \in App
      BY <1>2, <3>1, ZenonT(60) DEF App
    <3>3. Same(app, app')
      BY <1>2, <3>1 DEF App, Same
    <3> QED BY <3>2, <3>3
  <2> QED BY <1>1, <1>2, <2>1, Types, SameKeeps
<1>3. CASE /\ app.ws # None /\ app' = ForceReconnect(app)
           /\ stale' = Abandoned(app) /\ Overtake
  <2>1. app.running
    BY <1>3, Types DEF Socket
  <2>2. /\ app' \in App /\ Socket(app') /\ Tried(app')
        /\ Searches => app'.window
    BY <1>3, <2>1, Types, SceneIs, ForceReconnectIs
  <2>3. dropping' \in {"no", "checked", "overtaken"} /\ stale' \subseteq Daemon
    BY <1>3, Types, AbandonedIs DEF Overtake
  <2> QED BY <1>1, <2>2, <2>3, Types, TriedKeeps
<1> QED BY <1>2, <1>3 DEF Heartbeat

LEMMA NetworkBackKeeps == ASSUME LinkInv, NetworkBack PROVE LinkInv'
<1>1. net' = TRUE /\ UNCHANGED <<scene, live, prefs, alarm, restart, mishaps>>
  BY DEF NetworkBack
<1>2. CASE UNCHANGED <<app, stale, dropping>>
  BY <1>1, <1>2, Types, AsideKeeps
<1>3. CASE /\ app.running /\ app' = ForceReconnect(app)
           /\ stale' = Abandoned(app) /\ Overtake
  <2>1. /\ app' \in App /\ Socket(app') /\ Tried(app')
        /\ Searches => app'.window
    BY <1>3, Types, SceneIs, ForceReconnectIs
  <2>2. dropping' \in {"no", "checked", "overtaken"} /\ stale' \subseteq Daemon
    BY <1>3, Types, AbandonedIs DEF Overtake
  <2> QED BY <1>1, <2>1, <2>2, Types, TriedKeeps
<1> QED BY <1>2, <1>3 DEF NetworkBack

LEMMA WakeKeeps == ASSUME LinkInv, Wake PROVE LinkInv'
<1>1. /\ app.running /\ app' = ForceReconnect(app) /\ mishaps' = mishaps + 1
      /\ stale' = Abandoned(app) /\ Overtake
      /\ UNCHANGED <<scene, live, net, prefs, alarm, restart>>
  BY DEF Wake, Mishap, environment
<1>2. /\ app' \in App /\ Socket(app') /\ Tried(app')
      /\ Searches => app'.window
  BY <1>1, Types, SceneIs, ForceReconnectIs
<1>3. dropping' \in {"no", "checked", "overtaken"} /\ stale' \subseteq Daemon
  BY <1>1, Types, AbandonedIs DEF Overtake
<1> QED BY <1>1, <1>2, <1>3, Types, TriedKeeps

\* Acks and silence are only noted.
LEMMA HeardKeeps == LinkInv /\ (HeartbeatAck \/ Silence) => LinkInv'
<1> SUFFICES ASSUME LinkInv, HeartbeatAck \/ Silence PROVE LinkInv'
  OBVIOUS
<1>1. /\ \/ app' = [app EXCEPT !.heard = "fresh", !.acks = TRUE]
         \/ \E h \in {"quiet", "dead"} : app' = [app EXCEPT !.heard = h]
      /\ UNCHANGED <<scene, dropping, stale, live, net, prefs, alarm, restart, mishaps>>
  BY DEF HeartbeatAck, Silence, environment
<1>2. app' \in App /\ Same(app, app')
  <2>1. app \in App
    BY Types
  <2>2. CASE app' = [app EXCEPT !.heard = "fresh", !.acks = TRUE]
    <3>1. app' \in App
      BY <2>1, <2>2, ZenonT(60) DEF App
    <3>2. Same(app, app')
      BY <2>1, <2>2 DEF App, Same
    <3> QED BY <3>1, <3>2
  <2>3. ASSUME NEW h \in {"quiet", "dead"}, app' = [app EXCEPT !.heard = h]
        PROVE  app' \in App /\ Same(app, app')
    <3>1. h \in {"fresh", "quiet", "dead"}
      BY <2>3
    <3>2. app' \in App
      BY <2>1, <2>3, <3>1, ZenonT(60) DEF App
    <3>3. Same(app, app')
      BY <2>1, <2>3 DEF App, Same
    <3> QED BY <3>2, <3>3
  <2> QED BY <1>1, <2>2, <2>3
<1> QED BY <1>1, <1>2, Types, SameKeeps

\* What happens around the service.
LEMMA AroundKeeps ==
  LinkInv /\ (Drops \/ Blip \/ NetworkLost \/ UNCHANGED appLinkVars) => LinkInv'
<1> SUFFICES ASSUME LinkInv,
                    Drops \/ Blip \/ NetworkLost \/ UNCHANGED appLinkVars
             PROVE  LinkInv'
  OBVIOUS
<1>1. /\ UNCHANGED <<app, stale>>
      /\ dropping' = dropping \/ dropping' = "checked"
      /\ live' \in {live, FALSE} /\ net' \in {net, FALSE}
      /\ UNCHANGED <<scene, prefs, alarm, restart>>
      /\ mishaps' \in {mishaps, mishaps + 1}
  BY DEF Drops, Blip, NetworkLost, Mishap, environment, appLinkVars
<1> QED BY <1>1, Types, AsideKeeps

\* The service is started, stopped and ended, by the user and by the system.
LEMMA LifeKeeps ==
  ASSUME LinkInv,
         \/ UserStarts \/ UserStops \/ (\E keep \in BOOLEAN : UserKeeps(keep))
         \/ Killed \/ Reboot \/ Restart \/ Tick
  PROVE  LinkInv'
<1>1. CASE UserStarts
  <2>1. /\ StartService /\ alarm' = TRUE /\ UNCHANGED <<scene, net, restart>>
        /\ mishaps' = mishaps + 1 /\ prefs' = [prefs EXCEPT !.enabled = TRUE]
    BY <1>1 DEF UserStarts, Mishap
  <2> QED BY <2>1, Types, StartKeeps
<1>2. CASE UserStops
  <2>1. /\ app' = NewApp /\ Gone /\ UNCHANGED <<scene, net, alarm, restart>>
        /\ mishaps' = mishaps + 1 /\ prefs' = [prefs EXCEPT !.enabled = FALSE]
    BY <1>2 DEF UserStops, Mishap
  <2> QED BY <2>1, Types, GoneKeeps
<1>3. ASSUME NEW keep \in BOOLEAN, UserKeeps(keep) PROVE LinkInv'
  <2>1. /\ UNCHANGED <<scene, net, restart>>
        /\ mishaps' = mishaps + 1 /\ prefs' = [prefs EXCEPT !.keep = keep]
        /\ \/ StartService /\ alarm' = TRUE
           \/ UNCHANGED <<app, dropping, stale, live, alarm>>
    BY <1>3 DEF UserKeeps, Mishap
  <2>2. prefs' \in [enabled : BOOLEAN, keep : BOOLEAN]
    BY <2>1, Types
  <2> QED BY <2>1, <2>2, Types, StartKeeps, AsideKeeps
<1>4. CASE Killed
  <2>1. /\ app' = NewApp /\ Gone /\ UNCHANGED <<scene, net, prefs, alarm>>
        /\ mishaps' = mishaps + 1 /\ restart' \in {restart, restart \/ prefs.keep}
    BY <1>4 DEF Killed, Mishap
  <2>2. restart' \in BOOLEAN
    BY <2>1, Types
  <2> QED BY <2>1, <2>2, Types, GoneKeeps
<1>5. CASE Reboot
  <2>1. /\ Gone /\ restart' = FALSE /\ UNCHANGED <<scene, net, prefs>>
        /\ mishaps' = mishaps + 1 /\ alarm' \in BOOLEAN
        /\ app' = NewApp \/ app' = Start(NewApp)
    BY <1>5, Types DEF Reboot, Mishap
  <2>2. CASE app' = NewApp
    BY <2>1, <2>2, Types, GoneKeeps
  <2>3. CASE app' = Start(NewApp)
    <3>1. /\ app' \in App /\ Socket(app') /\ Tried(app')
          /\ Searches => app'.window
      BY <2>3, NewAppIs, SceneIs, StartIs
    <3>2. /\ dropping' \in {"no", "checked", "overtaken"}
          /\ stale' \subseteq Daemon /\ live' \in BOOLEAN
      BY <2>1 DEF Gone
    <3> QED BY <2>1, <3>1, <3>2, Types, TriedKeeps
  <2> QED BY <2>1, <2>2, <2>3
<1>6. CASE Restart
  <2>1. /\ restart' = FALSE
        /\ \/ StartService /\ alarm' = TRUE
           \/ UNCHANGED <<app, dropping, stale, live, alarm>>
        /\ UNCHANGED <<scene, net, prefs, mishaps>>
    BY <1>6 DEF Restart, StartRefused
  <2> QED BY <2>1, Types, StartKeeps, AsideKeeps
<1>7. CASE Tick
  <2>1. /\ UNCHANGED <<scene, net, prefs, restart, mishaps>>
        /\ \/ StartService /\ UNCHANGED alarm
           \/ alarm' \in {alarm, FALSE} /\ UNCHANGED <<app, dropping, stale, live>>
    BY <1>7 DEF Tick, StartRefused
  <2> QED BY <2>1, Types, StartKeeps, AsideKeeps
<1> QED BY <1>1, <1>2, <1>3, <1>4, <1>5, <1>6, <1>7

LEMMA LinkStep ==
  LinkInv /\ [AppLinkNext]_appLinkVars => LinkInv'
<1> SUFFICES ASSUME LinkInv, [AppLinkNext]_appLinkVars PROVE LinkInv'
  OBVIOUS
<1>1. ASSUME NEW d \in Daemon,
             ServiceFound(d) \/ RetryResolve(d) \/ StaleEnds(d) \/ Expire(d)
      PROVE  LinkInv'
  BY <1>1, ServiceFoundKeeps, RetryKeeps, StaleKeeps, ExpireKeeps
<1>2. CASE Resolved \/ ResolveFails \/ TimerFires
  BY <1>2, ResolvedKeeps, ResolveFailsKeeps, TimerKeeps
<1>3. CASE WindowEnds \/ WindowCutShort
  <2>1. /\ EndWindow /\ Settled /\ mishaps' \in {mishaps, mishaps + 1}
        /\ UNCHANGED <<scene, dropping, stale, live, net, prefs, alarm, restart>>
    BY <1>3 DEF WindowEnds, WindowCutShort, Mishap, environment
  <2> QED BY <2>1, Types, EndWindowKeeps
<1>4. CASE Opens \/ KeyRejected \/ Dropped \/ AfterDrop
  BY <1>4, OpensKeeps, KeyRejectedKeeps, DroppedKeeps, AfterDropKeeps
<1>5. CASE HeartbeatAck \/ Silence \/ Heartbeat \/ NetworkBack \/ Wake
  BY <1>5, HeardKeeps, HeartbeatKeeps, NetworkBackKeeps, WakeKeeps
<1>6. CASE Drops \/ Blip \/ NetworkLost \/ UNCHANGED appLinkVars
  BY <1>6, AroundKeeps
<1>7. CASE \/ UserStarts \/ UserStops \/ (\E keep \in BOOLEAN : UserKeeps(keep))
           \/ Killed \/ Reboot \/ Restart \/ Tick
  BY <1>7, LifeKeeps
<1> QED BY <1>1, <1>2, <1>3, <1>4, <1>5, <1>6, <1>7 DEF AppLinkNext

\* A running service is never left without an attempt but in the two ways that
\* AlwaysTrying names (onOpen, dropped, forceReconnect, connect), for every LAN and
\* saved address.
THEOREM KeepsTrying == AppLinkSpec => []AlwaysTrying
<1>1. LinkInv /\ [AppLinkNext]_appLinkVars => LinkInv'
  BY LinkStep
<1>2. AppLinkSpec => []LinkInv
  BY LinkStart, <1>1, PTL DEF AppLinkSpec
<1>3. LinkInv => AlwaysTrying
  BY DEF LinkInv
<1> QED BY <1>2, <1>3, PTL

-----------------------------------------------------------------------------
(* Runs of equal verdicts.                                                  *)

Run(q, b, from, to) == \A j \in from .. to : q[j] = b

\* The last n of q are b, and n cannot be more without going below what follows
\* the first `low`.
Trail(q, b, low, n) ==
  /\ n \in 0 .. Len(q) - low
  /\ Run(q, b, Len(q) - n + 1, Len(q))
  /\ n = Len(q) - low \/ q[Len(q) - n] # b

LEMMA Appended ==
  ASSUME NEW q \in Seq(BOOLEAN), NEW b \in BOOLEAN
  PROVE  /\ Append(q, b) \in Seq(BOOLEAN) /\ Len(q) \in Nat
         /\ Len(Append(q, b)) = Len(q) + 1 /\ Append(q, b)[Len(q) + 1] = b
         /\ \A j \in 1 .. Len(q) : Append(q, b)[j] = q[j]
OBVIOUS

LEMMA TrailGrows ==
  ASSUME NEW q \in Seq(BOOLEAN), NEW b \in BOOLEAN, NEW c \in BOOLEAN,
         NEW low \in 0 .. Len(q), NEW n \in Nat, Trail(q, c, low, n)
  PROVE  Trail(Append(q, b), c, low, IF b = c THEN n + 1 ELSE 0)
<1> DEFINE r == Append(q, b)
           L == Len(q)
<1>1. /\ r \in Seq(BOOLEAN) /\ Len(r) = L + 1 /\ r[L + 1] = b /\ L \in Nat
      /\ \A j \in 1 .. L : r[j] = q[j]
  BY Appended
<1>2. /\ n \in 0 .. L - low /\ \A j \in L - n + 1 .. L : q[j] = c
      /\ n = L - low \/ q[L - n] # c
  BY DEF Trail, Run
<1> HIDE DEF r, L
<1>3. CASE b = c
  <2>1. \A j \in (L + 1) - (n + 1) + 1 .. L + 1 : r[j] = c
    BY <1>1, <1>2, <1>3
  <2>2. n + 1 = L + 1 - low \/ r[(L + 1) - (n + 1)] # c
    BY <1>1, <1>2
  <2> QED BY <1>1, <1>2, <1>3, <2>1, <2>2 DEF Trail, Run, r
<1>4. CASE b # c
  <2>1. \A j \in (L + 1) - 0 + 1 .. L + 1 : r[j] = c
    BY <1>1
  <2>2. r[L + 1 - 0] # c /\ 0 \in 0 .. L + 1 - low
    BY <1>1, <1>2, <1>4
  <2> QED BY <1>1, <1>4, <2>1, <2>2 DEF Trail, Run, r
<1> QED BY <1>3, <1>4

\* The last k are equal just if the run is that long.
LEMMA TrailTells ==
  ASSUME NEW q \in Seq(BOOLEAN), NEW c \in BOOLEAN, NEW low \in 0 .. Len(q),
         NEW n \in Nat, Trail(q, c, low, n), NEW k \in Nat \ {0}
  PROVE  k <= n <=> k <= Len(q) - low /\ Run(q, c, Len(q) - k + 1, Len(q))
<1> DEFINE L == Len(q)
<1>1. /\ n \in 0 .. L - low /\ \A j \in L - n + 1 .. L : q[j] = c
      /\ n = L - low \/ q[L - n] # c
      /\ L \in Nat
  BY DEF Trail, Run
<1> HIDE DEF L
<1>2. ASSUME k <= n PROVE k <= L - low /\ Run(q, c, L - k + 1, L)
  BY <1>1, <1>2 DEF Run
<1>3. ASSUME k <= L - low, Run(q, c, L - k + 1, L), k > n PROVE FALSE
  <2>1. n # L - low /\ L - n \in L - k + 1 .. L
    BY <1>1, <1>3
  <2> QED BY <1>1, <1>3, <2>1 DEF Run
<1>4. k <= n \/ k > n
  BY <1>1
<1> QED BY <1>2, <1>3, <1>4 DEF L

-----------------------------------------------------------------------------
(* Onsets, and when a turn is over.                                         *)

OnsetsIn(q, o) == {i \in o .. Len(q) : Run(q, TRUE, i - o + 1, i)}
SilentIn(q, o, s, i) ==
  OnsetsIn(q, o) # {} /\ i - s >= Min(OnsetsIn(q, o)) /\ Run(q, FALSE, i - s + 1, i)
LateIn(q, o, t, i) == i >= t /\ (OnsetsIn(q, o) = {} \/ i # Min(OnsetsIn(q, o)))
OverIn(q, o, s, t) ==
  {i \in 1 .. Len(q) : SilentIn(q, o, s, i) \/ LateIn(q, o, t, i)}

\* The last of q's hops ends an onset.
OnsetEnds(q, o) == o <= Len(q) /\ Run(q, TRUE, Len(q) - o + 1, Len(q))

LEMMA OnsetsGrow ==
  ASSUME NEW q \in Seq(BOOLEAN), NEW b \in BOOLEAN, NEW o \in Nat \ {0}
  PROVE  /\ OnsetsIn(q, o) \in SUBSET (1 .. Len(q))
         /\ OnsetsIn(Append(q, b), o) = OnsetsIn(q, o) \cup
              (IF OnsetEnds(Append(q, b), o) THEN {Len(q) + 1} ELSE {})
<1> DEFINE r == Append(q, b)
           L == Len(q)
<1>1. /\ Len(r) = L + 1 /\ L \in Nat
      /\ \A j \in 1 .. L : r[j] = q[j]
  BY Appended
<1> HIDE DEF r, L
<1>2. OnsetsIn(q, o) \in SUBSET (1 .. L)
  <2>1. OnsetsIn(q, o) \subseteq o .. L
    BY DEF OnsetsIn, L
  <2>2. o .. L \subseteq 1 .. L
    BY <1>1
  <2> QED BY <2>1, <2>2
<1>3. ASSUME NEW i \in o .. L
      PROVE  Run(r, TRUE, i - o + 1, i) <=> Run(q, TRUE, i - o + 1, i)
  <2>1. \A j \in i - o + 1 .. i : j \in 1 .. L
    BY <1>1
  <2> QED BY <1>1, <2>1 DEF Run
<1>4. \A i : i \in OnsetsIn(r, o) <=>
        \/ i \in OnsetsIn(q, o)
        \/ i = L + 1 /\ o <= L + 1 /\ Run(r, TRUE, (L + 1) - o + 1, L + 1)
  <2> TAKE i
  <2>1. i \in o .. L + 1 <=> i \in o .. L \/ (i = L + 1 /\ o <= L + 1)
    BY <1>1
  <2>2. i \in OnsetsIn(r, o) <=> i \in o .. L + 1 /\ Run(r, TRUE, i - o + 1, i)
    BY <1>1 DEF OnsetsIn
  <2>3. i \in OnsetsIn(q, o) <=> i \in o .. L /\ Run(q, TRUE, i - o + 1, i)
    BY DEF OnsetsIn, L
  <2>4. CASE i \in o .. L
    <3>1. i # L + 1
      BY <1>1, <2>4
    <3>2. Run(r, TRUE, i - o + 1, i) <=> Run(q, TRUE, i - o + 1, i)
      BY <1>3, <2>4
    <3> QED BY <2>1, <2>2, <2>3, <2>4, <3>1, <3>2, Zenon
  <2>5. CASE i = L + 1
    <3>1. i \notin o .. L
      BY <1>1, <2>5
    <3>2. Run(r, TRUE, i - o + 1, i) = Run(r, TRUE, (L + 1) - o + 1, L + 1)
      BY <2>5
    <3> QED BY <2>1, <2>2, <2>3, <2>5, <3>1, <3>2, Zenon
  <2>6. CASE i \notin o .. L /\ i # L + 1
    BY <2>1, <2>2, <2>3, <2>6, Zenon
  <2> QED BY <2>4, <2>5, <2>6
<1>5. OnsetEnds(r, o) <=> o <= L + 1 /\ Run(r, TRUE, (L + 1) - o + 1, L + 1)
  BY <1>1 DEF OnsetEnds
<1>6. \A i : i \in OnsetsIn(r, o) <=>
        i \in OnsetsIn(q, o) \cup (IF OnsetEnds(r, o) THEN {L + 1} ELSE {})
  BY <1>4, <1>5, Zenon
<1> QED BY <1>2, <1>6 DEF r, L

\* The first onset stays the first.
LEMMA FirstOnset ==
  ASSUME NEW S, NEW L \in Nat, S \in SUBSET (1 .. L)
  PROVE  /\ S # {} => Min(S) \in S /\ Min(S \cup {L + 1}) = Min(S)
         /\ Min({L + 1}) = L + 1
<1>1. Min({L + 1}) = L + 1
  BY LeastIn
<1>2. ASSUME S # {} PROVE Min(S) \in S /\ Min(S \cup {L + 1}) = Min(S)
  <2> DEFINE U == S \cup {L + 1}
  <2>1. Min(S) \in S /\ Min(U) \in U
    BY <1>2, LeastIn
  <2>2. \A x \in S : x \in Nat /\ x < L + 1
    OBVIOUS
  <2>3. \A x \in S : Min(S) <= x
    BY LeastIn, <1>2
  <2>4. \A x \in U : Min(U) <= x
    BY LeastIn, <1>2
  <2> DEFINE u == Min(U)
             v == Min(S)
  <2>5. v \in Nat /\ v < L + 1 /\ u <= v
    BY <2>1, <2>2, <2>4
  <2>6. u \in S \/ u = L + 1
    BY <2>1
  <2>7. u \in Nat
    <3> HIDE DEF u
    <3>1. u \in S => u \in Nat
      BY <2>2
    <3>2. L + 1 \in Nat
      OBVIOUS
    <3> QED BY <2>6, <3>1, <3>2, Zenon
  <2>8. u \in S => v <= u
    BY <2>3
  <2> HIDE DEF u, v, U
  <2>9. u = v
    BY <2>5, <2>6, <2>7, <2>8
  <2> QED BY <2>1, <2>9 DEF u, v, U
<1> QED BY <1>1, <1>2

\* What has been decided stays decided; the new hop may be one to stop at.
LEMMA OverGrows ==
  ASSUME NEW q \in Seq(BOOLEAN), NEW b \in BOOLEAN, NEW o \in Nat \ {0},
         NEW s \in Nat \ {0}, NEW t \in Nat, OverIn(q, o, s, t) = {}
  PROVE  OverIn(Append(q, b), o, s, t) =
           IF \/ SilentIn(Append(q, b), o, s, Len(q) + 1)
              \/ LateIn(Append(q, b), o, t, Len(q) + 1)
             THEN {Len(q) + 1} ELSE {}
<1> DEFINE r == Append(q, b)
           L == Len(q)
           S == OnsetsIn(q, o)
           N == OnsetsIn(r, o)
<1>1. /\ Len(r) = L + 1 /\ L \in Nat /\ \A j \in 1 .. L : r[j] = q[j]
  BY Appended
<1>2. S \in SUBSET (1 .. L) /\ (N = S \/ N = S \cup {L + 1})
  <2>1. /\ S \in SUBSET (1 .. L)
        /\ N = S \cup (IF OnsetEnds(r, o) THEN {L + 1} ELSE {})
    BY OnsetsGrow, Zenon
  <2> HIDE DEF S, N
  <2> QED BY <2>1
<1> HIDE DEF r, L
<1>3. /\ S # {} => Min(S) \in S /\ Min(S \cup {L + 1}) = Min(S)
      /\ Min({L + 1}) = L + 1
  BY <1>1, <1>2, FirstOnset
<1>4. ASSUME NEW i \in 1 .. L
      PROVE  ~SilentIn(r, o, s, i) /\ ~LateIn(r, o, t, i)
  <2>1. ~SilentIn(q, o, s, i) /\ ~LateIn(q, o, t, i)
    BY <1>4 DEF OverIn, L
  <2>2. Run(r, FALSE, i - s + 1, i) /\ i - s >= 1 => Run(q, FALSE, i - s + 1, i)
    BY <1>1 DEF Run
  <2>3. CASE S # {}
    <3> HIDE DEF S, N
    <3>1. Min(N) = Min(S) /\ N # {} /\ Min(S) \in Nat /\ Min(S) >= 1
      <4>1. Min(S) \in 1 .. L
        BY <1>2, <1>3, <2>3
      <4>2. Min(N) = Min(S) /\ N # {}
        BY <1>2, <1>3, <2>3, Zenon
      <4> QED BY <1>1, <4>1, <4>2
    <3>2. i - s >= Min(S) => i - s >= 1
      BY <1>1, <3>1
    <3> QED BY <2>1, <2>2, <2>3, <3>1, <3>2 DEF SilentIn, LateIn, S, N
  <2>4. CASE S = {}
    <3>1. ~(i >= t)
      BY <2>1, <2>4 DEF LateIn
    <3>2. CASE N = {}
      BY <3>1, <3>2 DEF SilentIn, LateIn
    <3>3. CASE N # {}
      <4>1. Min(N) = L + 1
        <5>1. N = {L + 1}
          BY <1>2, <2>4, <3>3
        <5> QED BY <1>3, <5>1
      <4>2. ~(i - s >= L + 1)
        BY <1>1
      <4> QED BY <3>1, <4>1, <4>2 DEF SilentIn, LateIn
    <3> QED BY <3>2, <3>3
  <2> QED BY <2>3, <2>4
<1>5. \A i : i \in OverIn(r, o, s, t) <=>
        i = L + 1 /\ (SilentIn(r, o, s, L + 1) \/ LateIn(r, o, t, L + 1))
  <2> TAKE i
  <2>1. i \in 1 .. L + 1 <=> i \in 1 .. L \/ i = L + 1
    BY <1>1
  <2>2. i \in OverIn(r, o, s, t) <=>
          i \in 1 .. L + 1 /\ (SilentIn(r, o, s, i) \/ LateIn(r, o, t, i))
    BY <1>1 DEF OverIn
  <2> QED BY <1>4, <2>1, <2>2, Zenon
<1>6. OverIn(r, o, s, t) =
        IF SilentIn(r, o, s, L + 1) \/ LateIn(r, o, t, L + 1) THEN {L + 1} ELSE {}
  BY <1>5
<1> QED BY <1>6 DEF r, L

-----------------------------------------------------------------------------
(* A hop, as the detector takes it.                                         *)

Det == [silence : Nat, timeout : Nat, onset : Nat \ {0},
        started : BOOLEAN, voicedRun : Nat, silenceRun : Nat,
        elapsed : Nat, finished : BOOLEAN,
        event : {"none", "started", "silence", "timeout", "end of stream"}]

\* What the hop makes of d, with the limit still to be applied.
Limited(f, n, t) == IF n >= t THEN f.finished /\ f.event = "timeout"
                    ELSE ~f.finished /\ f.event = "none"

LEMMA CappedRight ==
  ASSUME NEW g \in Det, ~g.finished, g.event = "none"
  PROVE  /\ Capped(g) \in Det /\ Capped(g).onset = g.onset
         /\ Capped(g).silence = g.silence /\ Capped(g).timeout = g.timeout
         /\ Capped(g).elapsed = g.elapsed /\ Capped(g).started = g.started
         /\ Capped(g).voicedRun = g.voicedRun
         /\ Capped(g).silenceRun = g.silenceRun
         /\ Limited(Capped(g), g.elapsed, g.timeout)
<1>1. CASE g.elapsed >= g.timeout
  BY <1>1 DEF Capped, Ended, Det, Limited
<1>2. CASE ~(g.elapsed >= g.timeout)
  BY <1>2 DEF Capped, Limited
<1> QED BY <1>1, <1>2

\* The detector f after a hop whose verdict is v.
Hop(f, d, v) ==
  /\ f \in Det /\ f.onset = d.onset /\ f.silence = d.silence
  /\ f.timeout = d.timeout /\ f.elapsed = d.elapsed + 1
  /\ d.started =>
       /\ f.started
       /\ f.silenceRun = (IF v THEN 0 ELSE d.silenceRun + 1)
       /\ IF ~v /\ f.silenceRun >= d.silence
            THEN f.finished /\ f.event = "silence"
            ELSE Limited(f, d.elapsed + 1, d.timeout)
  /\ ~d.started =>
       /\ f.silenceRun = d.silenceRun
       /\ f.voicedRun = (IF v THEN d.voicedRun + 1 ELSE 0)
       /\ IF f.voicedRun >= d.onset
            THEN f.started /\ ~f.finished /\ f.event = "started"
            ELSE ~f.started /\ Limited(f, d.elapsed + 1, d.timeout)

LEMMA Pushed ==
  ASSUME NEW d \in Det, NEW v \in BOOLEAN, ~d.finished
  PROVE  Hop(Push(d, v), d, v)
<1> DEFINE n == d.elapsed + 1
           e == [d EXCEPT !.event = "none", !.elapsed = n]
           f == Push(d, v)
<1>1. n \in Nat /\ d.silenceRun \in Nat /\ d.voicedRun \in Nat
  <2>1. d.elapsed \in Nat /\ d.silenceRun \in Nat /\ d.voicedRun \in Nat
    BY Zenon DEF Det
  <2> QED BY <2>1
<1> HIDE DEF n
<1>2. e \in Det
  BY <1>1, Zenon DEF Det
<1>3. /\ e.event = "none" /\ e.elapsed = n
      /\ e.onset = d.onset /\ e.silence = d.silence /\ e.timeout = d.timeout
      /\ e.started = d.started /\ e.voicedRun = d.voicedRun
      /\ e.silenceRun = d.silenceRun /\ ~e.finished
  BY <1>1 DEF Det
<1>4. f = IF d.started THEN PushAfter(e, v) ELSE PushBefore(e, v)
  BY <1>3 DEF Push, n
<1> HIDE DEF e, f
<1>5. CASE d.started
  <2> DEFINE many == IF v THEN 0 ELSE d.silenceRun + 1
             g == [e EXCEPT !.silenceRun = many]
  <2>1. many \in Nat
    BY <1>1
  <2>2. f = IF ~v /\ many >= d.silence THEN Ended(g, "silence") ELSE Capped(g)
    BY <1>3, <1>4, <1>5 DEF PushAfter
  <2> HIDE DEF many
  <2>3. /\ g \in Det /\ g.onset = d.onset /\ g.silence = d.silence
        /\ g.timeout = d.timeout /\ g.elapsed = n /\ g.started = d.started
        /\ g.silenceRun = many /\ ~g.finished /\ g.event = "none"
    BY <1>2, <1>3, <2>1 DEF Det
  <2> HIDE DEF g
  <2>4. CASE ~v /\ many >= d.silence
    <3>1. f = Ended(g, "silence")
      BY <2>2, <2>4
    <3>2. /\ f \in Det /\ f.onset = g.onset /\ f.silence = g.silence
          /\ f.timeout = g.timeout /\ f.elapsed = g.elapsed /\ f.started = g.started
          /\ f.silenceRun = g.silenceRun /\ f.finished /\ f.event = "silence"
      BY <2>3, <3>1 DEF Ended, Det
    <3> QED BY <1>5, <2>3, <2>4, <3>2 DEF Hop, f, many, n
  <2>5. CASE ~(~v /\ many >= d.silence)
    <3>1. f = Capped(g)
      BY <2>2, <2>5
    <3>2. /\ f \in Det /\ f.onset = g.onset /\ f.silence = g.silence
          /\ f.timeout = g.timeout /\ f.elapsed = g.elapsed /\ f.started = g.started
          /\ f.silenceRun = g.silenceRun /\ Limited(f, g.elapsed, g.timeout)
      BY <2>3, <3>1, CappedRight
    <3> QED BY <1>5, <2>3, <2>5, <3>2 DEF Hop, f, many, n
  <2> QED BY <2>4, <2>5
<1>6. CASE ~d.started
  <2> DEFINE many == IF v THEN d.voicedRun + 1 ELSE 0
             g == [e EXCEPT !.voicedRun = many]
             h == [e EXCEPT !.voicedRun = many, !.started = TRUE, !.event = "started"]
  <2>1. many \in Nat
    BY <1>1
  <2>2. f = IF many >= d.onset THEN h ELSE Capped(g)
    BY <1>3, <1>4, <1>6 DEF PushBefore
  <2> HIDE DEF many
  <2>3. /\ g \in Det /\ g.onset = d.onset /\ g.silence = d.silence
        /\ g.timeout = d.timeout /\ g.elapsed = n /\ g.started = d.started
        /\ g.voicedRun = many /\ g.silenceRun = d.silenceRun /\ ~g.finished
        /\ g.event = "none"
    BY <1>2, <1>3, <2>1 DEF Det
  <2>4. /\ h \in Det /\ h.onset = d.onset /\ h.silence = d.silence
        /\ h.timeout = d.timeout /\ h.elapsed = n /\ h.started
        /\ h.voicedRun = many /\ h.silenceRun = d.silenceRun /\ ~h.finished
        /\ h.event = "started"
    BY <1>2, <1>3, <2>1 DEF Det
  <2> HIDE DEF g, h
  <2>5. CASE many >= d.onset
    <3>1. f = h
      BY <2>2, <2>5
    <3> QED BY <1>6, <2>4, <2>5, <3>1 DEF Hop, f, many, n
  <2>6. CASE ~(many >= d.onset)
    <3>1. f = Capped(g)
      BY <2>2, <2>6
    <3>2. /\ f \in Det /\ f.onset = g.onset /\ f.silence = g.silence
          /\ f.timeout = g.timeout /\ f.elapsed = g.elapsed /\ f.started = g.started
          /\ f.voicedRun = g.voicedRun
          /\ f.silenceRun = g.silenceRun /\ Limited(f, g.elapsed, g.timeout)
      BY <2>3, <3>1, CappedRight
    <3> QED BY <1>6, <2>3, <2>6, <3>2 DEF Hop, f, many, n
  <2> QED BY <2>5, <2>6
<1> QED BY <1>5, <1>6 DEF f

-----------------------------------------------------------------------------
(* The detector has heard what there is to hear.                            *)

\* No onset yet: the detector counts how long it has been voiced.
Deaf(d, q) ==
  /\ OnsetsIn(q, d.onset) = {}
  /\ Trail(q, TRUE, 0, d.voicedRun) /\ d.voicedRun < d.onset /\ d.silenceRun = 0

\* A turn that is not over: after the onset, how long it has been silent.
Listening(d, q) ==
  /\ ~d.finished /\ d.elapsed = Len(q)
  /\ ~d.started => Deaf(d, q)
  /\ d.started => /\ OnsetsIn(q, d.onset) # {}
                  /\ Trail(q, FALSE, Min(OnsetsIn(q, d.onset)), d.silenceRun)

\* The detector hears an onset just when there is one.
LEMMA OnsetHeard ==
  ASSUME NEW q \in Seq(BOOLEAN), NEW v \in BOOLEAN, NEW d \in Det, NEW f,
         Hop(f, d, v), ~d.started, Deaf(d, q)
  PROVE  /\ OnsetsIn(Append(q, v), d.onset) =
              IF f.voicedRun >= d.onset THEN {Len(q) + 1} ELSE {}
         /\ f.voicedRun < d.onset => Deaf(f, Append(q, v))
<1> DEFINE r == Append(q, v)
           n == d.voicedRun
           m == f.voicedRun
           o == d.onset
<1>1. /\ n \in Nat /\ o \in Nat \ {0} /\ m = (IF v THEN n + 1 ELSE 0)
      /\ f.onset = o /\ f.silenceRun = d.silenceRun
  BY DEF Hop, Det
<1>2. r \in Seq(BOOLEAN) /\ Len(r) = Len(q) + 1 /\ Len(q) \in Nat
  BY Appended
<1>3. Trail(q, TRUE, 0, n) /\ OnsetsIn(q, o) = {} /\ d.silenceRun = 0
  BY DEF Deaf
<1>4. Trail(r, TRUE, 0, IF v = TRUE THEN n + 1 ELSE 0)
  <2>1. 0 \in 0 .. Len(q)
    BY <1>2
  <2> QED BY <1>1, <1>3, <2>1, TrailGrows
<1>5. Trail(r, TRUE, 0, m) /\ m \in Nat
  <2> DEFINE x == IF v = TRUE THEN n + 1 ELSE 0
  <2>1. m = x /\ x \in Nat
    BY <1>1
  <2>2. Trail(r, TRUE, 0, x)
    BY <1>4
  <2> HIDE DEF m, r, x
  <2> QED BY <2>1, <2>2, Zenon
<1> HIDE DEF r, n, m, o
<1>6. o <= m <=> o <= Len(r) /\ Run(r, TRUE, Len(r) - o + 1, Len(r))
  <2>1. 0 \in 0 .. Len(r) /\ Len(r) - 0 = Len(r)
    BY <1>2
  <2>2. o <= m <=> o <= Len(r) - 0 /\ Run(r, TRUE, Len(r) - o + 1, Len(r))
    BY <1>1, <1>2, <1>5, <2>1, TrailTells
  <2> QED BY <2>1, <2>2, Zenon
<1>7. OnsetEnds(r, o) <=> m >= o
  <2>1. o <= m <=> m >= o
    BY <1>1, <1>5
  <2> QED BY <1>6, <2>1, Zenon DEF OnsetEnds
<1>8. OnsetsIn(r, o) = OnsetsIn(q, o) \cup
        (IF OnsetEnds(r, o) THEN {Len(q) + 1} ELSE {})
  BY <1>1, OnsetsGrow, Zenon DEF r
<1>9. OnsetsIn(r, o) = IF m >= o THEN {Len(q) + 1} ELSE {}
  BY <1>3, <1>7, <1>8
<1>10. ASSUME m < o PROVE Deaf(f, r)
  <2>1. ~(m >= o)
    BY <1>1, <1>5, <1>10
  <2>2. OnsetsIn(r, o) = {}
    BY <1>9, <2>1
  <2> QED BY <1>1, <1>3, <1>5, <1>10, <2>2 DEF Deaf, m
<1> QED BY <1>9, <1>10 DEF r, m, o

\* The first onset stays where it was.
LEMMA OnsetStays ==
  ASSUME NEW q \in Seq(BOOLEAN), NEW v \in BOOLEAN, NEW o \in Nat \ {0},
         OnsetsIn(q, o) # {}
  PROVE  /\ Min(OnsetsIn(q, o)) \in 1 .. Len(q)
         /\ OnsetsIn(Append(q, v), o) # {}
         /\ Min(OnsetsIn(Append(q, v), o)) = Min(OnsetsIn(q, o))
<1> DEFINE S == OnsetsIn(q, o)
           N == OnsetsIn(Append(q, v), o)
<1>1. /\ S \in SUBSET (1 .. Len(q))
      /\ N = S \cup (IF OnsetEnds(Append(q, v), o) THEN {Len(q) + 1} ELSE {})
  BY OnsetsGrow, Zenon
<1>2. Len(q) \in Nat /\ S # {}
  BY Appended
<1> HIDE DEF S, N
<1>3. N = S \/ N = S \cup {Len(q) + 1}
  BY <1>1
<1>4. Min(S) \in S /\ Min(S \cup {Len(q) + 1}) = Min(S)
  BY <1>1, <1>2, FirstOnset
<1>5. N # {} /\ Min(N) = Min(S) /\ Min(S) \in 1 .. Len(q)
  BY <1>1, <1>2, <1>3, <1>4, Zenon
<1> QED BY <1>5 DEF S, N

\* A hop of a wait for the end of a turn: its event is the right one.
HopEnds(f, d, q, v, s) ==
  IF f.event \in {"silence", "timeout"}
    THEN /\ OverIn(Append(q, v), d.onset, s, d.timeout) = {Len(q) + 1}
         /\ f.event = "silence" <=> SilentIn(Append(q, v), d.onset, s, Len(q) + 1)
    ELSE /\ OverIn(Append(q, v), d.onset, s, d.timeout) = {}
         /\ Listening(f, Append(q, v))

LEMMA TurnHopRight ==
  ASSUME NEW q \in Seq(BOOLEAN), NEW v \in BOOLEAN, NEW d \in Det, NEW f,
         Hop(f, d, v), Listening(d, q), NEW s, s = AtLeastOne(d.silence),
         OverIn(q, d.onset, s, d.timeout) = {}
  PROVE  HopEnds(f, d, q, v, s)
<1> DEFINE r == Append(q, v)
           L == Len(q)
           o == d.onset
           t == d.timeout
           N == OnsetsIn(r, o)
           silent == SilentIn(r, o, s, L + 1)
           late == LateIn(r, o, t, L + 1)
<1>1. /\ s \in Nat \ {0} /\ o \in Nat \ {0} /\ t \in Nat
      /\ s = IF d.silence = 0 THEN 1 ELSE d.silence
      /\ d.silence \in Nat
  <2>1. d.silence \in Nat /\ d.onset \in Nat \ {0} /\ d.timeout \in Nat
    BY Zenon DEF Det
  <2> QED BY <2>1 DEF AtLeastOne
<1>2. r \in Seq(BOOLEAN) /\ Len(r) = L + 1 /\ L \in Nat
  BY Appended
<1>3. OverIn(r, o, s, t) = IF silent \/ late THEN {L + 1} ELSE {}
  BY <1>1, OverGrows
<1>4. /\ f \in Det /\ f.onset = o /\ f.elapsed = L + 1 /\ d.elapsed + 1 = L + 1
      /\ d.finished = FALSE
  <2>1. d.finished \in BOOLEAN
    BY DEF Det
  <2> QED BY <2>1 DEF Hop, Listening
<1>5. CASE d.started
  <2> DEFINE p == Min(OnsetsIn(q, o))
             n == d.silenceRun
             m == f.silenceRun
  <2>1. /\ OnsetsIn(q, o) # {} /\ Trail(q, FALSE, p, n) /\ n \in Nat
        /\ f.started /\ m = (IF v THEN 0 ELSE n + 1)
        /\ IF ~v /\ m >= d.silence
             THEN f.finished /\ f.event = "silence"
             ELSE Limited(f, L + 1, t)
    BY <1>4, <1>5 DEF Listening, Hop, Det
  <2>2. p \in 1 .. L /\ N # {} /\ Min(N) = p
    BY <1>1, <2>1, OnsetStays
  <2> HIDE DEF p, N, r, L, n, m, silent, late
  <2>3. Trail(r, FALSE, p, m) /\ m \in Nat
    <3>1. p \in 0 .. Len(q)
      BY <1>2, <2>2 DEF L
    <3>2. Trail(Append(q, v), FALSE, p, IF v = FALSE THEN n + 1 ELSE 0)
      BY <2>1, <3>1, TrailGrows
    <3>3. m = (IF v = FALSE THEN n + 1 ELSE 0) /\ m \in Nat
      BY <2>1
    <3> QED BY <3>2, <3>3 DEF r
  <2>4. s <= m <=> s <= Len(r) - p /\ Run(r, FALSE, Len(r) - s + 1, Len(r))
    <3>1. p \in 0 .. Len(r)
      BY <1>2, <2>2
    <3> QED BY <1>1, <1>2, <2>3, <3>1, TrailTells
  <2>5. silent <=> s <= m
    <3>1. (L + 1) - s >= p <=> s <= (L + 1) - p
      BY <1>1, <1>2, <2>2
    <3>2. silent <=> (L + 1) - s >= p /\ Run(r, FALSE, (L + 1) - s + 1, L + 1)
      <4>1. silent <=> /\ N # {} /\ (L + 1) - s >= Min(N)
                       /\ Run(r, FALSE, (L + 1) - s + 1, L + 1)
        BY Zenon DEF silent, SilentIn, N
      <4>2. (L + 1) - s >= Min(N) <=> (L + 1) - s >= p
        BY <2>2
      <4> QED BY <2>2, <4>1, <4>2, Zenon
    <3>3. s <= m <=> s <= (L + 1) - p /\ Run(r, FALSE, (L + 1) - s + 1, L + 1)
      <4>1. Run(r, FALSE, Len(r) - s + 1, Len(r)) =
              Run(r, FALSE, (L + 1) - s + 1, L + 1)
        BY <1>2
      <4>2. s <= Len(r) - p <=> s <= (L + 1) - p
        BY <1>2
      <4> QED BY <2>4, <4>1, <4>2, Zenon
    <3> QED BY <3>1, <3>2, <3>3, Zenon
  <2>6. late <=> L + 1 >= t
    <3>1. L + 1 # p
      BY <1>2, <2>2
    <3> QED BY <2>2, <3>1 DEF late, LateIn, N
  <2>7. s <= m <=> ~v /\ m >= d.silence
    BY <1>1, <2>1, <2>3
  <2>8. CASE s <= m
    BY <1>3, <2>1, <2>5, <2>7, <2>8 DEF silent, r, L, o, t, HopEnds
  <2>9. CASE ~(s <= m) /\ L + 1 >= t
    <3>1. f.event = "timeout"
      BY <2>1, <2>7, <2>9 DEF Limited
    <3> QED BY <1>3, <2>5, <2>6, <2>9, <3>1 DEF silent, r, L, o, t, HopEnds
  <2>10. CASE ~(s <= m) /\ ~(L + 1 >= t)
    <3>1. f.event = "none" /\ ~f.finished
      BY <2>1, <2>7, <2>10 DEF Limited
    <3>2. OverIn(r, o, s, t) = {}
      BY <1>3, <2>5, <2>6, <2>10
    <3>3. Listening(f, r)
      BY <1>2, <1>4, <2>1, <2>2, <2>3, <3>1 DEF Listening, N, m
    <3> QED BY <3>1, <3>2, <3>3 DEF r, o, t, HopEnds
  <2> QED BY <2>8, <2>9, <2>10
<1>6. CASE ~d.started
  <2> DEFINE m == f.voicedRun
  <2>1. /\ Deaf(d, q) /\ m \in Nat
        /\ IF m >= o THEN f.started /\ ~f.finished /\ f.event = "started"
           ELSE ~f.started /\ Limited(f, L + 1, t)
    BY <1>4, <1>6 DEF Listening, Hop, Det
  <2>2. /\ N = IF m >= o THEN {L + 1} ELSE {}
        /\ m < o => Deaf(f, r)
    BY <1>6, <2>1, OnsetHeard
  <2> HIDE DEF N, r, L, m, silent, late
  <2>3. CASE m >= o
    <3>1. N = {L + 1} /\ Min(N) = L + 1
      BY <1>2, <2>2, <2>3, FirstOnset
    <3>2. ~((L + 1) - s >= L + 1)
      BY <1>1, <1>2
    <3>3. ~silent /\ ~late
      <4>1. /\ silent => (L + 1) - s >= Min(N)
            /\ late => L + 1 # Min(N) \/ N = {}
        BY Zenon DEF silent, late, SilentIn, LateIn, N
      <4>2. ~((L + 1) - s >= Min(N))
        BY <3>1, <3>2
      <4>3. N # {} /\ L + 1 = Min(N)
        BY <3>1
      <4> QED BY <4>1, <4>2, <4>3, Zenon
    <3>4. f.silenceRun = 0
      BY <1>6, <2>1 DEF Hop, Deaf
    <3>5. Trail(r, FALSE, L + 1, 0)
      <4>1. \A j \in (L + 1) - 0 + 1 .. L + 1 : r[j] = FALSE
        BY <1>2
      <4> QED BY <1>2, <4>1 DEF Trail, Run
    <3>6. Listening(f, r)
      BY <1>2, <1>4, <2>1, <2>3, <3>1, <3>4, <3>5 DEF Listening, N
    <3> QED BY <1>3, <2>1, <2>3, <3>3, <3>6 DEF r, o, t, HopEnds
  <2>4. CASE ~(m >= o)
    <3>1. m < o /\ N = {}
      BY <1>1, <2>1, <2>2, <2>4
    <3>2. ~silent /\ (late <=> L + 1 >= t)
      BY <3>1 DEF silent, late, SilentIn, LateIn, N
    <3>3. CASE L + 1 >= t
      <4>1. f.event = "timeout"
        BY <2>1, <2>4, <3>3 DEF Limited
      <4> QED BY <1>3, <3>2, <3>3, <4>1 DEF silent, r, L, o, t, HopEnds
    <3>4. CASE ~(L + 1 >= t)
      <4>1. f.event = "none" /\ ~f.finished
        BY <2>1, <2>4, <3>4 DEF Limited
      <4>2. Listening(f, r)
        BY <1>2, <1>4, <2>1, <2>2, <2>4, <3>1, <4>1 DEF Listening
      <4> QED BY <1>3, <3>2, <3>4, <4>1, <4>2 DEF r, o, t, HopEnds
    <3> QED BY <3>3, <3>4
  <2> QED BY <2>3, <2>4
<1> QED BY <1>5, <1>6

-----------------------------------------------------------------------------
(* A hop of a wait for the start of a turn.                                 *)

DueIn(q, o, k, W) ==
  {i \in 1 .. Len(q) :
     IF OnsetsIn(q, o) # {} /\ (Min(OnsetsIn(q, o)) <= i \/ Min(OnsetsIn(q, o)) <= W)
       THEN i >= Min(OnsetsIn(q, o)) + k - 1 ELSE i >= W}

\* The wait still waits: for the onset, or for the end of the lingering.
Awaiting(d, at, q, k, W) ==
  IF at < 0 THEN /\ ~d.started /\ ~d.finished /\ d.elapsed = Len(q)
                 /\ Deaf(d, q) /\ Len(q) < W
  ELSE /\ OnsetsIn(q, d.onset) # {} /\ Min(OnsetsIn(q, d.onset)) = at + 1
       /\ at + 1 <= W /\ Len(q) < at + k

\* Before the onset; u and x are the lingering and the window, in whole hops.
FirstHop(f, d, q, v, u, x) ==
  LET r == Append(q, v)
        n == Len(q) + 1
        due == DueIn(r, d.onset, AtLeastOne(u), AtLeastOne(x))
    IN IF f.event = "started"
         THEN /\ OnsetsIn(r, d.onset) # {}
              /\ IF 1 >= u THEN due = {n} ELSE
                   due = {} /\ Awaiting(f, Len(q), r, AtLeastOne(u), AtLeastOne(x))
         ELSE /\ OnsetsIn(r, d.onset) = {}
              /\ IF n >= x THEN due = {n} ELSE
                   due = {} /\ Awaiting(f, -1, r, AtLeastOne(u), AtLeastOne(x))

LEMMA FirstHopsRight ==
  ASSUME NEW q \in Seq(BOOLEAN), NEW v \in BOOLEAN, NEW d \in Det, NEW f,
         NEW u \in Nat, NEW x \in Nat, x <= d.timeout,
         Awaiting(d, -1, q, AtLeastOne(u), AtLeastOne(x)), Hop(f, d, v)
  PROVE  FirstHop(f, d, q, v, u, x)
<1> DEFINE r == Append(q, v)
           L == Len(q)
           o == d.onset
           N == OnsetsIn(r, o)
           k == AtLeastOne(u)
           W == AtLeastOne(x)
           m == f.voicedRun
           due == DueIn(r, o, k, W)
<1>1. /\ ~d.started /\ ~d.finished /\ d.elapsed = L /\ Deaf(d, q) /\ L < W
  BY DEF Awaiting
<1>2. r \in Seq(BOOLEAN) /\ Len(r) = L + 1 /\ L \in Nat
  BY Appended
<1>3. /\ k \in Nat \ {0} /\ W \in Nat \ {0} /\ (1 >= u <=> k = 1)
      /\ \A n \in Nat \ {0} : n >= x <=> n >= W
  BY DEF AtLeastOne
<1>4. N = (IF m >= o THEN {L + 1} ELSE {}) /\ (m < o => Deaf(f, r))
  BY <1>1, OnsetHeard
<1>5. /\ m \in Nat /\ o \in Nat /\ d.timeout \in Nat /\ f.onset = o
      /\ f.elapsed = L + 1
      /\ IF m >= o THEN f.started /\ ~f.finished /\ f.event = "started"
         ELSE ~f.started /\ Limited(f, L + 1, d.timeout)
  BY <1>1 DEF Hop, Det
<1> HIDE DEF r, L, o, N, k, W, m
<1>6. \A i : i \in due <=>
        /\ i \in 1 .. L + 1
        /\ IF N # {} /\ (Min(N) <= i \/ Min(N) <= W) THEN i >= Min(N) + k - 1
           ELSE i >= W
  BY <1>2 DEF DueIn, N
<1>7. CASE m >= o
  <2>1. N = {L + 1} /\ Min(N) = L + 1
    BY <1>2, <1>4, <1>7, FirstOnset
  <2>2. \A i : i \in due <=> i \in 1 .. L + 1 /\ i >= L + 1 + k - 1
    BY <1>1, <1>2, <1>3, <1>6, <2>1
  <2>3. IF k = 1 THEN due = {L + 1} ELSE due = {}
    BY <1>2, <1>3, <2>2
  <2>4. k # 1 => Awaiting(f, L, r, k, W)
    <3>1. ~(L < 0) /\ L + 1 <= W
      BY <1>1, <1>2, <1>3
    <3>2. k # 1 => L + 1 < L + k
      BY <1>2, <1>3
    <3> QED BY <1>2, <1>5, <2>1, <3>1, <3>2 DEF Awaiting, N
  <2> QED BY <1>3, <1>5, <1>7, <2>1, <2>3, <2>4 DEF r, L, o, N, k, W, FirstHop
<1>8. CASE ~(m >= o)
  <2>1. N = {} /\ Deaf(f, r) /\ ~f.started /\ Limited(f, L + 1, d.timeout)
    BY <1>4, <1>5, <1>8
  <2>2. \A i : i \in due <=> i \in 1 .. L + 1 /\ i >= W
    BY <1>6, <2>1
  <2>3. IF L + 1 >= W THEN due = {L + 1} ELSE due = {}
    BY <1>1, <1>2, <1>3, <2>2
  <2>4. f.event # "started"
    BY <2>1 DEF Limited
  <2>5. L + 1 >= x <=> L + 1 >= W
    BY <1>2, <1>3
  <2>6. ASSUME ~(L + 1 >= W) PROVE Awaiting(f, -1, r, k, W)
    <3>1. ~(L + 1 >= d.timeout) /\ L + 1 < W /\ -1 < 0
      BY <1>2, <1>3, <1>5, <2>5, <2>6
    <3>2. ~f.finished
      BY <2>1, <3>1 DEF Limited
    <3> QED BY <1>2, <1>5, <2>1, <3>1, <3>2 DEF Awaiting
  <2> QED BY <2>1, <2>3, <2>4, <2>5, <2>6 DEF r, L, o, N, k, W, FirstHop
<1> QED BY <1>7, <1>8

\* After it.
LaterHop(f, d, q, v, at, u, x) ==
  LET r == Append(q, v)
        n == Len(q) + 1
        due == DueIn(r, d.onset, AtLeastOne(u), AtLeastOne(x))
    IN /\ OnsetsIn(r, d.onset) # {}
       /\ IF n - at >= u THEN due = {n} ELSE
            due = {} /\ Awaiting(f, at, r, AtLeastOne(u), AtLeastOne(x))

LEMMA LingeringRight ==
  ASSUME NEW q \in Seq(BOOLEAN), NEW v \in BOOLEAN, NEW d \in Det, NEW f,
         f.onset = d.onset, NEW at \in Nat, NEW u \in Nat, NEW x \in Nat,
         Awaiting(d, at, q, AtLeastOne(u), AtLeastOne(x))
  PROVE  LaterHop(f, d, q, v, at, u, x)
<1> DEFINE r == Append(q, v)
           L == Len(q)
           o == d.onset
           N == OnsetsIn(r, o)
           k == AtLeastOne(u)
           W == AtLeastOne(x)
           due == DueIn(r, o, k, W)
<1>1. /\ ~(at < 0) /\ OnsetsIn(q, o) # {} /\ Min(OnsetsIn(q, o)) = at + 1
      /\ at + 1 <= W /\ L < at + k
  BY DEF Awaiting
<1>2. r \in Seq(BOOLEAN) /\ Len(r) = L + 1 /\ L \in Nat /\ o \in Nat \ {0}
  BY Appended DEF Det
<1>3. k \in Nat \ {0} /\ W \in Nat \ {0} /\ k = IF u = 0 THEN 1 ELSE u
  BY DEF AtLeastOne
<1>4. N # {} /\ Min(N) = at + 1 /\ at + 1 \in 1 .. L
  BY <1>1, <1>2, OnsetStays
<1> HIDE DEF r, L, o, N, k, W
<1>5. \A i : i \in due <=>
        /\ i \in 1 .. L + 1
        /\ IF N # {} /\ (Min(N) <= i \/ Min(N) <= W) THEN i >= Min(N) + k - 1
           ELSE i >= W
  BY <1>2 DEF DueIn, N
<1>6. \A i : i \in due <=> i \in 1 .. L + 1 /\ i >= at + k
  BY <1>1, <1>2, <1>3, <1>4, <1>5
<1>7. IF L + 1 >= at + k THEN due = {L + 1} ELSE due = {}
  BY <1>1, <1>2, <1>3, <1>6
<1>8. (L + 1) - at >= u <=> L + 1 >= at + k
  BY <1>2, <1>3, <1>4
<1>9. ~(L + 1 >= at + k) => Awaiting(f, at, r, k, W)
  <2>1. ~(L + 1 >= at + k) => L + 1 < at + k
    BY <1>2, <1>3
  <2> QED BY <1>1, <1>2, <1>4, <2>1 DEF Awaiting, N, o
<1> QED BY <1>4, <1>7, <1>8, <1>9 DEF r, L, o, N, k, W, LaterHop

-----------------------------------------------------------------------------
(* Either wait ends on the right hop, for the right reason.                 *)

Onsetting(w) == AtLeastOne(MsToHops(w.onset))
Silencing(w) == AtLeastOne(MsToHops(w.silence))
Lasting(w) == MsToHops(w.timeout)
Lingering(w) == AtLeastOne(w.linger \div HopMs)
Windowing(w) == AtLeastOne(w.timeout \div HopMs)

\* TurnsRight, said of the verdicts q and the result r of the wait w.
TurnEnds(q, w, r) ==
  IF r \in {"silence", "timeout"}
    THEN /\ OverIn(q, Onsetting(w), Silencing(w), Lasting(w)) = {Len(q)}
         /\ r = "silence" <=> SilentIn(q, Onsetting(w), Silencing(w), Len(q))
    ELSE OverIn(q, Onsetting(w), Silencing(w), Lasting(w)) = {}

StartEnds(q, w, r) ==
  /\ r \in {"true", "false"} =>
       DueIn(q, Onsetting(w), Lingering(w), Windowing(w)) \subseteq {Len(q)}
  /\ r \in {"none", "stalled"} =>
       DueIn(q, Onsetting(w), Lingering(w), Windowing(w)) = {}
  /\ r = "true" => OnsetsIn(q, Onsetting(w)) # {}
  /\ r = "false" => OnsetsIn(q, Onsetting(w)) = {}

Ends(q, w, r) == IF w.mode = "turn" THEN TurnEnds(q, w, r)
                 ELSE StartEnds(q, w, r)

\* What a wait that has not returned knows.
Hearing(d, w, q) ==
  IF w.kind.mode = "turn" THEN Listening(d, q)
  ELSE Awaiting(d, w.onsetAt, q, Lingering(w.kind), Windowing(w.kind))

Fitted(d, w) ==
  /\ d.onset = Onsetting(w) /\ d.timeout = Lasting(w)
  /\ w.mode = "turn" => d.silence = MsToHops(w.silence)

TurnInv ==
  /\ TurnTypeOK
  /\ Fitted(detector, waiter.kind)
  /\ waiter.result = "not begun" =>
       waiter = NoWait /\ verdicts = <<>> /\ detector = NewDetector(waiter.kind)
  /\ waiter.result = "none" => Hearing(detector, waiter, verdicts)
  /\ Ends(verdicts, waiter.kind, waiter.result)

Waiter == [kind : WaitKind, pending : Nat, onsetAt : Nat \cup {-1},
           result : {"not begun", "none", "true", "false", "stalled",
                     "silence", "timeout", "end of stream"}]

LEMMA WholeHops ==
  ASSUME NEW a \in Nat, NEW h \in Nat \ {0}
  PROVE  /\ a \div h \in Nat /\ (a + h - 1) \div h \in Nat
         /\ a \div h <= (a + h - 1) \div h
<1>1. a + h - 1 \in Nat /\ a <= a + h - 1
  OBVIOUS
<1>2. \A x \in Nat : x \div h \in Nat
  OBVIOUS
<1>3. \A x, y \in Nat : x <= y => x \div h <= y \div h
  OBVIOUS
<1> QED BY <1>1, <1>2, <1>3

LEMMA KindShape ==
  ASSUME NEW w \in WaitKind
  PROVE  /\ w.mode \in {"turn", "start"}
         /\ Onsetting(w) \in Nat \ {0} /\ Silencing(w) \in Nat \ {0}
         /\ Lasting(w) \in Nat /\ MsToHops(w.silence) \in Nat
         /\ w.linger \div HopMs \in Nat /\ w.timeout \div HopMs \in Nat
         /\ w.timeout \div HopMs <= Lasting(w)
<1>1. /\ w.mode \in {"turn", "start"} /\ w.silence \in Nat /\ w.timeout \in Nat
      /\ w.onset \in Nat /\ w.linger \in Nat
  BY TurnAssumption
<1>2. HopMs \in Nat \ {0}
  BY TurnAssumption
<1>3. MsToHops(w.silence) \in Nat /\ MsToHops(w.onset) \in Nat
  BY <1>1, <1>2, WholeHops DEF MsToHops
<1>4. /\ Lasting(w) \in Nat /\ w.timeout \div HopMs \in Nat
      /\ w.timeout \div HopMs <= Lasting(w) /\ w.linger \div HopMs \in Nat
  BY <1>1, <1>2, WholeHops DEF MsToHops, Lasting
<1>5. \A n \in Nat : AtLeastOne(n) \in Nat \ {0}
  BY DEF AtLeastOne
<1>6. Onsetting(w) \in Nat \ {0} /\ Silencing(w) \in Nat \ {0}
  BY <1>3, <1>5 DEF Onsetting, Silencing
<1> QED BY <1>1, <1>3, <1>4, <1>6

LEMMA KindIsOne == NoWait.kind \in WaitKind /\ NoWait \in Waiter
<1>1. (CHOOSE w \in WaitKind : TRUE) \in WaitKind
  BY TurnAssumption
<1>2. NoWait.kind = (CHOOSE w \in WaitKind : TRUE) /\ NoWait.pending = 0
      /\ NoWait.onsetAt = -1 /\ NoWait.result = "not begun"
  BY DEF NoWait
<1> QED BY <1>1, <1>2 DEF NoWait, Waiter

\* A wait begins deaf.
LEMMA FreshDetector ==
  ASSUME NEW w \in WaitKind
  PROVE  /\ NewDetector(w) \in Det /\ Fitted(NewDetector(w), w)
         /\ ~NewDetector(w).started /\ ~NewDetector(w).finished
         /\ NewDetector(w).elapsed = 0 /\ NewDetector(w).voicedRun = 0
         /\ NewDetector(w).silenceRun = 0
<1> DEFINE a == IF w.mode = "turn" THEN MsToHops(w.silence) ELSE Forever
<1>1. a \in Nat /\ Lasting(w) \in Nat /\ Onsetting(w) \in Nat \ {0}
  BY KindShape, TurnAssumption
<1>2. NewDetector(w) =
        [silence |-> a, timeout |-> Lasting(w), onset |-> Onsetting(w),
         started |-> FALSE, voicedRun |-> 0, silenceRun |-> 0, elapsed |-> 0,
         finished |-> FALSE, event |-> "none"]
  BY Zenon DEF NewDetector, Lasting, Onsetting
<1>3. w.mode = "turn" => a = MsToHops(w.silence)
  OBVIOUS
<1> HIDE DEF a
<1>4. /\ NewDetector(w) \in Det /\ ~NewDetector(w).started
      /\ ~NewDetector(w).finished /\ NewDetector(w).elapsed = 0
      /\ NewDetector(w).voicedRun = 0 /\ NewDetector(w).silenceRun = 0
      /\ NewDetector(w).onset = Onsetting(w) /\ NewDetector(w).timeout = Lasting(w)
      /\ NewDetector(w).silence = a
  BY <1>1, <1>2 DEF Det
<1> QED BY <1>3, <1>4 DEF Fitted

LEMMA NothingIn ==
  ASSUME NEW q, Len(q) = 0, NEW o \in Nat \ {0}
  PROVE  /\ OnsetsIn(q, o) = {} /\ Trail(q, TRUE, 0, 0)
         /\ \A s, t, k, x : OverIn(q, o, s, t) = {} /\ DueIn(q, o, k, x) = {}
<1>1. o .. Len(q) = {} /\ 1 .. Len(q) = {}
  OBVIOUS
<1>2. OnsetsIn(q, o) = {}
  BY <1>1 DEF OnsetsIn
<1>3. Trail(q, TRUE, 0, 0)
  BY DEF Trail, Run
<1>4. \A s, t, k, x : OverIn(q, o, s, t) = {} /\ DueIn(q, o, k, x) = {}
  BY <1>1 DEF OverIn, DueIn
<1> QED BY <1>2, <1>3, <1>4

LEMMA NothingHeard ==
  ASSUME NEW o \in Nat \ {0}
  PROVE  /\ OnsetsIn(<<>>, o) = {} /\ Trail(<<>>, TRUE, 0, 0)
         /\ \A s, t, k, x : OverIn(<<>>, o, s, t) = {} /\ DueIn(<<>>, o, k, x) = {}
<1> DEFINE q == <<>>
<1>1. Len(q) = 0
  OBVIOUS
<1> HIDE DEF q
<1> QED BY <1>1, NothingIn DEF q

LEMMA WaitBegins ==
  ASSUME NEW w \in WaitKind
  PROVE  /\ Hearing(NewDetector(w), [NoWait EXCEPT !.kind = w, !.result = "none"], <<>>)
         /\ Ends(<<>>, w, "none") /\ Ends(<<>>, w, "not begun")
<1> DEFINE d == NewDetector(w)
           n == [NoWait EXCEPT !.kind = w, !.result = "none"]
           W == Windowing(w)
           k == Lingering(w)
<1>1. /\ d \in Det /\ ~d.started /\ ~d.finished /\ d.elapsed = 0
      /\ d.voicedRun = 0 /\ d.silenceRun = 0
      /\ d.onset \in Nat \ {0}
  <2>1. d \in Det
    BY FreshDetector
  <2>2. d.onset \in Nat \ {0}
    BY <2>1, Zenon DEF Det
  <2> QED BY <2>1, <2>2, FreshDetector
<1>2. n.kind = w /\ n.onsetAt = -1
  BY DEF NoWait
<1>3. /\ OnsetsIn(<<>>, d.onset) = {} /\ Trail(<<>>, TRUE, 0, 0)
  BY <1>1, NothingHeard
<1>4. Deaf(d, <<>>) /\ Len(<<>>) = 0
  <2>1. 0 < d.onset
    BY <1>1
  <2> HIDE DEF d
  <2> QED BY <1>1, <1>3, <2>1 DEF Deaf
<1>5. Listening(d, <<>>)
  BY <1>1, <1>4 DEF Listening
<1>6. Awaiting(d, -1, <<>>, k, W)
  <2>1. 0 < W /\ -1 < 0
    BY KindShape DEF Windowing, AtLeastOne
  <2> HIDE DEF d
  <2> QED BY <1>1, <1>4, <2>1 DEF Awaiting
<1>7. \A s, t, j, x : /\ OverIn(<<>>, Onsetting(w), s, t) = {}
                      /\ DueIn(<<>>, Onsetting(w), j, x) = {}
  BY KindShape, NothingHeard
<1>8. Ends(<<>>, w, "none") /\ Ends(<<>>, w, "not begun")
  BY <1>7 DEF Ends, TurnEnds, StartEnds
<1>9. Hearing(d, n, <<>>)
  <2> HIDE DEF d, n
  <2>1. IF n.kind.mode = "turn" THEN Listening(d, <<>>)
        ELSE Awaiting(d, n.onsetAt, <<>>, Lingering(n.kind), Windowing(n.kind))
    BY <1>2, <1>5, <1>6
  <2> QED BY <2>1 DEF Hearing
<1> QED BY <1>8, <1>9

LEMMA TurnTyped ==
  TurnTypeOK <=> /\ detector \in Det /\ waiter \in Waiter
                 /\ verdicts \in Seq(BOOLEAN)
                 /\ capture \in {"live", "mute", "ended"} /\ cancel \in BOOLEAN
BY Zenon DEF TurnTypeOK, Det, Waiter

LEMMA TurnTypedNext ==
  TurnTypeOK' <=> /\ detector' \in Det /\ waiter' \in Waiter
                  /\ verdicts' \in Seq(BOOLEAN)
                  /\ capture' \in {"live", "mute", "ended"} /\ cancel' \in BOOLEAN
BY Zenon DEF TurnTypeOK, Det, Waiter

\* What is said of a wait that has not begun, and of one that has.
Standing(d, w, q) ==
  /\ Fitted(d, w.kind)
  /\ w.result = "not begun" =>
       w = NoWait /\ q = <<>> /\ d = NewDetector(w.kind)
  /\ w.result = "none" => Hearing(d, w, q)
  /\ Ends(q, w.kind, w.result)

LEMMA TurnInvIs == TurnInv <=> TurnTypeOK /\ Standing(detector, waiter, verdicts)
BY Zenon DEF TurnInv, Standing

LEMMA TurnInvIsNext ==
  TurnInv' <=> TurnTypeOK' /\ Standing(detector', waiter', verdicts')
BY Zenon DEF TurnInv, Standing

\* A change of the waiter's result, or of what is pending.
LEMMA WaiterStays ==
  ASSUME NEW w \in Waiter, NEW r \in {"true", "false", "stalled", "silence",
                                      "timeout", "end of stream"}
  PROVE  /\ Return(w, r) \in Waiter /\ Return(w, r).kind = w.kind
         /\ Return(w, r).result = r
BY DEF Return, Waiter

LEMMA TurnStarts ==
  ASSUME TurnInit
  PROVE  TurnInv
<1>1. NoWait.kind \in WaitKind /\ NoWait \in Waiter /\ NoWait.result = "not begun"
  BY KindIsOne DEF NoWait
<1>2. /\ detector = NewDetector(NoWait.kind) /\ waiter = NoWait
      /\ verdicts = <<>> /\ capture = "live" /\ cancel = FALSE
  BY DEF TurnInit
<1>3. NewDetector(NoWait.kind) \in Det /\ Fitted(NewDetector(NoWait.kind), NoWait.kind)
  BY <1>1, FreshDetector
<1>4. Ends(<<>>, NoWait.kind, "not begun")
  BY <1>1, WaitBegins
<1>5. Standing(NewDetector(NoWait.kind), NoWait, <<>>)
  BY <1>1, <1>3, <1>4 DEF Standing
<1>6. Standing(detector, waiter, verdicts)
  BY <1>2, <1>5, Zenon
<1>7. TurnTypeOK
  <2>1. <<>> \in Seq(BOOLEAN)
    OBVIOUS
  <2> QED BY <1>1, <1>2, <1>3, <2>1, TurnTyped
<1> QED BY <1>6, <1>7, TurnInvIs

LEMMA BeginStep ==
  ASSUME TurnInv, NEW w \in WaitKind, BeginWait(w)
  PROVE  TurnInv'
<1> DEFINE n == [NoWait EXCEPT !.kind = w, !.result = "none"]
<1>1. /\ waiter = NoWait /\ waiter' = n /\ detector' = NewDetector(w)
      /\ verdicts' = verdicts /\ capture' = capture /\ cancel' = cancel
  BY DEF BeginWait
<1>2. TurnTypeOK /\ Standing(detector, waiter, verdicts)
  BY TurnInvIs
<1>3. verdicts = <<>>
  <2>1. NoWait.result = "not begun"
    BY DEF NoWait
  <2> QED BY <1>1, <1>2, <2>1 DEF Standing
<1>4. n \in Waiter /\ n.kind = w /\ n.result = "none"
  <2>1. NoWait \in Waiter
    BY KindIsOne
  <2> QED BY <2>1 DEF Waiter
<1>5. Hearing(NewDetector(w), n, <<>>) /\ Ends(<<>>, w, "none")
  BY WaitBegins
<1>6. NewDetector(w) \in Det /\ Fitted(NewDetector(w), w)
  BY FreshDetector
<1> HIDE DEF n
<1>7. Standing(NewDetector(w), n, <<>>)
  BY <1>4, <1>5, <1>6 DEF Standing
<1>8. Standing(detector', waiter', verdicts')
  BY <1>1, <1>3, <1>7, Zenon
<1>9. TurnTypeOK'
  <2>1. /\ verdicts \in Seq(BOOLEAN)
        /\ capture \in {"live", "mute", "ended"} /\ cancel \in BOOLEAN
    BY <1>2, TurnTyped
  <2> QED BY <1>1, <1>4, <1>6, <2>1, TurnTypedNext, Zenon
<1> QED BY <1>8, <1>9, TurnInvIsNext

LEMMA ReadStep ==
  ASSUME TurnInv, NEW n \in ReadLen, ReadMore(n)
  PROVE  TurnInv'
<1> DEFINE x == [waiter EXCEPT !.pending = @ + n]
<1>1. /\ waiter' = x /\ waiter.result = "none" /\ detector' = detector
      /\ verdicts' = verdicts /\ capture' = capture /\ cancel' = cancel
  BY DEF ReadMore, NeedsMore, Waits
<1>2. /\ TurnTypeOK /\ Standing(detector, waiter, verdicts)
      /\ detector \in Det /\ waiter \in Waiter
      /\ verdicts \in Seq(BOOLEAN)
      /\ capture \in {"live", "mute", "ended"} /\ cancel \in BOOLEAN
  BY TurnInvIs, TurnTyped
<1>3. /\ x \in Waiter /\ x.kind = waiter.kind /\ x.result = waiter.result
      /\ x.onsetAt = waiter.onsetAt
  <2> DEFINE p == waiter.pending + n
  <2>1. p \in Nat
    <3>1. n \in Nat
      BY TurnAssumption
    <3>2. waiter.pending \in Nat
      BY <1>2, Zenon DEF Waiter
    <3> QED BY <3>1, <3>2
  <2>2. x = [waiter EXCEPT !.pending = p]
    OBVIOUS
  <2> HIDE DEF p, x
  <2> QED BY <1>2, <2>1, <2>2 DEF Waiter
<1> HIDE DEF x
<1>4. Standing(detector, x, verdicts)
  BY <1>1, <1>2, <1>3 DEF Standing, Hearing
<1>5. Standing(detector', waiter', verdicts')
  BY <1>1, <1>4, Zenon
<1>6. TurnTypeOK'
  BY <1>1, <1>2, <1>3, TurnTypedNext, Zenon
<1> QED BY <1>5, <1>6, TurnInvIsNext

LEMMA NotNegative ==
  ASSUME NEW a \in Nat \cup {-1}
  PROVE  (a >= 0) <=> ~(a < 0)
OBVIOUS

\* A wait that is cut short has decided nothing that it should not have.
LEMMA CutShort ==
  ASSUME NEW d \in Det, NEW w \in Waiter, NEW q, NEW e, NEW r,
         w.result = "none", Standing(d, w, q), Fitted(e, w.kind),
         \/ r = "stalled"
         \/ r = "end of stream" /\ w.kind.mode = "turn"
         \/ r = HeardOnset(w) /\ w.kind.mode # "turn"
  PROVE  Standing(e, Return(w, r), q) /\ Return(w, r) \in Waiter
<1>1. Hearing(d, w, q) /\ Ends(q, w.kind, "none") /\ Fitted(d, w.kind)
  BY DEF Standing
<1>2. r \in {"true", "false", "stalled", "silence", "timeout", "end of stream"}
  BY DEF HeardOnset
<1>3. /\ Return(w, r) \in Waiter /\ Return(w, r).kind = w.kind
      /\ Return(w, r).result = r
  BY <1>2, WaiterStays
<1>4. Ends(q, w.kind, r)
  <2>1. CASE w.kind.mode = "turn"
    BY <1>1, <2>1 DEF Ends, TurnEnds, HeardOnset
  <2>2. CASE w.kind.mode # "turn"
    <3>1. /\ r = "true" => ~(w.onsetAt < 0)
          /\ r = "false" => w.onsetAt < 0
          /\ r \in {"true", "false", "stalled"}
      <4>1. w.onsetAt \in Nat \cup {-1}
        BY DEF Waiter
      <4>2. (w.onsetAt >= 0) <=> ~(w.onsetAt < 0)
        BY <4>1, NotNegative, Zenon
      <4>3. r = "stalled" \/ r = HeardOnset(w)
        BY <2>2
      <4>4. HeardOnset(w) = IF ~(w.onsetAt < 0) THEN "true" ELSE "false"
        BY <4>2 DEF HeardOnset
      <4> QED BY <4>3, <4>4
    <3>2. IF w.onsetAt < 0 THEN OnsetsIn(q, Onsetting(w.kind)) = {}
          ELSE OnsetsIn(q, Onsetting(w.kind)) # {}
      <4>1. d.onset = Onsetting(w.kind)
        BY <1>1 DEF Fitted
      <4> QED BY <1>1, <2>2, <4>1 DEF Hearing, Awaiting, Deaf
    <3>3. DueIn(q, Onsetting(w.kind), Lingering(w.kind), Windowing(w.kind)) = {}
      BY <1>1, <2>2 DEF Ends, StartEnds
    <3>4. StartEnds(q, w.kind, r)
      BY <3>1, <3>2, <3>3 DEF StartEnds
    <3> QED BY <2>2, <3>4 DEF Ends
  <2> QED BY <2>1, <2>2
<1>5. r # "not begun" /\ r # "none"
  BY <1>2
<1> QED BY <1>3, <1>4, <1>5 DEF Standing

LEMMA StopStep ==
  ASSUME TurnInv, StopsEarly
  PROVE  TurnInv'
<1> DEFINE r == IF waiter.kind.mode = "turn" THEN "end of stream" ELSE HeardOnset(waiter)
<1>1. /\ waiter.result = "none" /\ waiter' = Return(waiter, r)
      /\ detector' = Ended(detector, "end of stream") \/ detector' = detector
      /\ verdicts' = verdicts /\ capture' = capture /\ cancel' = cancel
  BY DEF StopsEarly, NeedsMore, Waits
<1>2. /\ TurnTypeOK /\ Standing(detector, waiter, verdicts)
      /\ detector \in Det /\ waiter \in Waiter
      /\ verdicts \in Seq(BOOLEAN)
      /\ capture \in {"live", "mute", "ended"} /\ cancel \in BOOLEAN
  BY TurnInvIs, TurnTyped
<1>3. detector' \in Det /\ Fitted(detector', waiter.kind)
  <2>1. Fitted(detector, waiter.kind)
    BY <1>2 DEF Standing
  <2>2. CASE detector' = detector
    BY <1>2, <2>1, <2>2
  <2>3. CASE detector' = Ended(detector, "end of stream")
    <3>1. /\ detector' \in Det /\ detector'.onset = detector.onset
          /\ detector'.timeout = detector.timeout
          /\ detector'.silence = detector.silence
      BY <1>2, <2>3 DEF Ended, Det
    <3> QED BY <2>1, <3>1 DEF Fitted
  <2> QED BY <1>1, <2>2, <2>3
<1>4. \/ r = "end of stream" /\ waiter.kind.mode = "turn"
      \/ r = HeardOnset(waiter) /\ waiter.kind.mode # "turn"
  OBVIOUS
<1> HIDE DEF r
<1>5. Standing(detector', Return(waiter, r), verdicts) /\ Return(waiter, r) \in Waiter
  BY <1>1, <1>2, <1>3, <1>4, CutShort
<1>6. Standing(detector', waiter', verdicts')
  BY <1>1, <1>5, Zenon
<1>7. TurnTypeOK'
  BY <1>1, <1>2, <1>3, <1>5, TurnTypedNext, Zenon
<1> QED BY <1>6, <1>7, TurnInvIsNext

LEMMA StallStep ==
  ASSUME TurnInv, Stalls
  PROVE  TurnInv'
<1>1. /\ waiter.result = "none" /\ waiter' = Return(waiter, "stalled")
      /\ detector' = detector
      /\ verdicts' = verdicts /\ capture' = capture /\ cancel' = cancel
  BY DEF Stalls, NeedsMore, Waits
<1>2. /\ TurnTypeOK /\ Standing(detector, waiter, verdicts)
      /\ detector \in Det /\ waiter \in Waiter
      /\ verdicts \in Seq(BOOLEAN)
      /\ capture \in {"live", "mute", "ended"} /\ cancel \in BOOLEAN
  BY TurnInvIs, TurnTyped
<1>3. Fitted(detector, waiter.kind)
  BY <1>2 DEF Standing
<1>4. /\ Standing(detector, Return(waiter, "stalled"), verdicts)
      /\ Return(waiter, "stalled") \in Waiter
  BY <1>1, <1>2, <1>3, CutShort
<1>5. Standing(detector', waiter', verdicts')
  BY <1>1, <1>4, Zenon
<1>6. TurnTypeOK'
  BY <1>1, <1>2, <1>4, TurnTypedNext, Zenon
<1> QED BY <1>5, <1>6, TurnInvIsNext

LEMMA SameSilencing ==
  ASSUME NEW w \in WaitKind
  PROVE  Silencing(w) = AtLeastOne(MsToHops(w.silence))
BY Zenon DEF Silencing

\* A hop of a wait for the end of a turn.
LEMMA TurnPush ==
  ASSUME NEW d \in Det, NEW w \in Waiter, NEW q \in Seq(BOOLEAN),
         NEW v \in BOOLEAN, w.result = "none", w.kind.mode = "turn",
         Standing(d, w, q), NEW f, Hop(f, d, v)
  PROVE  Standing(f, TurnHop(w, f), Append(q, v)) /\ TurnHop(w, f) \in Waiter
<1> DEFINE o == Onsetting(w.kind)
           s == Silencing(w.kind)
           t == Lasting(w.kind)
           r == Append(q, v)
           x == TurnHop(w, f)
<1>1. /\ d.onset = o /\ d.timeout = t /\ s = AtLeastOne(d.silence)
      /\ Fitted(d, w.kind)
  <2>1. Fitted(d, w.kind)
    BY DEF Standing
  <2>2. w.kind \in WaitKind
    BY DEF Waiter
  <2> QED BY <2>1, <2>2, SameSilencing DEF Fitted
<1>2. Listening(d, q) /\ OverIn(q, d.onset, s, d.timeout) = {}
  <2>1. Hearing(d, w, q) /\ Ends(q, w.kind, "none")
    BY DEF Standing
  <2>2. Listening(d, q)
    BY <2>1 DEF Hearing
  <2>3. OverIn(q, o, s, t) = {}
    BY <2>1 DEF Ends, TurnEnds
  <2> QED BY <1>1, <2>2, <2>3
<1>3. Len(r) = Len(q) + 1
  BY Appended
<1> HIDE DEF s
<1>4. IF f.event \in {"silence", "timeout"}
        THEN /\ OverIn(r, o, s, t) = {Len(r)}
             /\ f.event = "silence" <=> SilentIn(r, o, s, Len(r))
        ELSE OverIn(r, o, s, t) = {} /\ Listening(f, r)
  <2>1. IF f.event \in {"silence", "timeout"}
          THEN /\ OverIn(r, d.onset, s, d.timeout) = {Len(q) + 1}
               /\ f.event = "silence" <=> SilentIn(r, d.onset, s, Len(q) + 1)
          ELSE OverIn(r, d.onset, s, d.timeout) = {} /\ Listening(f, r)
    <3>1. HopEnds(f, d, q, v, s)
      BY <1>1, <1>2, TurnHopRight
    <3> QED BY <3>1, Zenon DEF HopEnds, r
  <2> HIDE DEF o, t, r
  <2> QED BY <1>1, <1>3, <2>1
<1>5. Fitted(f, w.kind)
  BY <1>1 DEF Hop, Fitted
<1> HIDE DEF o, t, r, x
<1>6. CASE f.event \in {"silence", "timeout"}
  <2>1. x = Return(w, f.event)
    BY <1>6 DEF x, TurnHop
  <2>2. x \in Waiter /\ x.kind = w.kind /\ x.result = f.event
    <3>1. f.event \in {"true", "false", "stalled", "silence", "timeout", "end of stream"}
      BY <1>6
    <3> QED BY <2>1, <3>1, WaiterStays
  <2>3. TurnEnds(r, w.kind, f.event)
    BY <1>4, <1>6 DEF TurnEnds, o, s, t
  <2>4. Ends(r, w.kind, f.event)
    BY <2>3 DEF Ends
  <2>5. f.event # "not begun" /\ f.event # "none"
    BY <1>6
  <2>6. Standing(f, x, r)
    BY <1>5, <2>2, <2>4, <2>5 DEF Standing
  <2> QED BY <2>2, <2>6 DEF x, r
<1>7. CASE f.event \notin {"silence", "timeout"}
  <2>1. x = w
    BY <1>7 DEF x, TurnHop
  <2>2. Ends(r, w.kind, "none")
    BY <1>4, <1>7 DEF Ends, TurnEnds, o, s, t
  <2>3. Hearing(f, w, r)
    BY <1>4, <1>7 DEF Hearing
  <2>4. Standing(f, w, r)
    BY <1>5, <2>2, <2>3 DEF Standing
  <2> QED BY <2>1, <2>4 DEF x, r
<1> QED BY <1>6, <1>7

\* A hop of a wait for the start of one.
LEMMA StartPush ==
  ASSUME NEW d \in Det, NEW w \in Waiter, NEW q \in Seq(BOOLEAN),
         NEW v \in BOOLEAN, w.result = "none", w.kind.mode # "turn",
         Standing(d, w, q), NEW f, f.onset = d.onset, f.timeout = d.timeout,
         w.onsetAt < 0 => Hop(f, d, v), q = verdicts
  PROVE  Standing(f, StartHop(w, f), Append(q, v)) /\ StartHop(w, f) \in Waiter
<1> DEFINE o == Onsetting(w.kind)
           u == w.kind.linger \div HopMs
           c == w.kind.timeout \div HopMs
           k == AtLeastOne(u)
           W == AtLeastOne(c)
           r == Append(q, v)
           n == Len(q) + 1
           at == IF f.event = "started" /\ w.onsetAt < 0 THEN n - 1 ELSE w.onsetAt
           x == [w EXCEPT !.onsetAt = at]
           due == DueIn(r, d.onset, k, W)
<1>1. /\ d.onset = o /\ Fitted(d, w.kind) /\ Fitted(f, w.kind)
      /\ Awaiting(d, w.onsetAt, q, k, W)
  <2>1. Fitted(d, w.kind) /\ Hearing(d, w, q)
    BY DEF Standing
  <2>2. d.onset = o /\ Fitted(f, w.kind)
    BY <2>1 DEF Fitted
  <2>3. Awaiting(d, w.onsetAt, q, Lingering(w.kind), Windowing(w.kind))
    BY <2>1 DEF Hearing
  <2> QED BY <2>1, <2>2, <2>3, Zenon DEF Lingering, Windowing
<1>2. /\ u \in Nat /\ c \in Nat /\ c <= d.timeout
  <2>1. w.kind \in WaitKind
    BY DEF Waiter
  <2>2. d.timeout = Lasting(w.kind)
    BY <1>1 DEF Fitted
  <2> QED BY <2>1, <2>2, KindShape
<1>3. Len(q) \in Nat /\ n - 1 = Len(q) /\ w.onsetAt \in Nat \cup {-1}
  <2>1. Len(q) \in Nat
    OBVIOUS
  <2>2. w.onsetAt \in Nat \cup {-1}
    BY Zenon DEF Waiter
  <2> QED BY <2>1, <2>2
<1>4. /\ x \in Waiter /\ x.kind = w.kind /\ x.result = "none" /\ x.onsetAt = at
      /\ at \in Nat \cup {-1}
  <2>1. at \in Nat \cup {-1}
    BY <1>3
  <2> HIDE DEF at
  <2> QED BY <2>1 DEF Waiter
<1>5. StartHop(w, f) =
        IF at >= 0 /\ n - at >= u THEN Return(x, "true")
        ELSE IF at < 0 /\ n >= c THEN Return(x, "false") ELSE x
  BY <1>4, Zenon DEF StartHop
<1>6. (at >= 0) <=> ~(at < 0)
  BY <1>4, NotNegative
\* What the wait knows of the new hop.
<1>7. /\ at < 0 <=> OnsetsIn(r, o) = {}
      /\ at >= 0 => IF n - at >= u THEN due = {n} ELSE
                      due = {} /\ Awaiting(f, at, r, k, W)
      /\ at < 0 => IF n >= c THEN due = {n} ELSE
                     due = {} /\ Awaiting(f, at, r, k, W)
  <2>1. CASE w.onsetAt < 0
    <3>1. w.onsetAt = -1 /\ Hop(f, d, v)
      BY <1>3, <2>1
    <3>2. IF f.event = "started"
            THEN /\ OnsetsIn(r, o) # {}
                 /\ IF 1 >= u THEN due = {n} ELSE
                      due = {} /\ Awaiting(f, Len(q), r, k, W)
            ELSE /\ OnsetsIn(r, o) = {}
                 /\ IF n >= c THEN due = {n} ELSE
                      due = {} /\ Awaiting(f, -1, r, k, W)
      <4>1. Awaiting(d, -1, q, k, W)
        BY <1>1, <3>1
      <4>2. FirstHop(f, d, q, v, u, c)
        <5> HIDE DEF u, c
        <5> QED BY <1>2, <3>1, <4>1, FirstHopsRight DEF k, W
      <4> HIDE DEF u, c, o
      <4>3. IF f.event = "started"
              THEN /\ OnsetsIn(r, d.onset) # {}
                   /\ IF 1 >= u THEN due = {n} ELSE
                        due = {} /\ Awaiting(f, Len(q), r, k, W)
              ELSE /\ OnsetsIn(r, d.onset) = {}
                   /\ IF n >= c THEN due = {n} ELSE
                        due = {} /\ Awaiting(f, -1, r, k, W)
        BY <4>2, Zenon DEF FirstHop
      <4> QED BY <1>1, <4>3, Zenon
    <3>3. CASE f.event = "started"
      <4>1. at = Len(q) /\ n - Len(q) = 1 /\ ~(Len(q) < 0)
        BY <1>3, <2>1, <3>3
      <4> HIDE DEF at, n, due, r, o
      <4> QED BY <3>2, <3>3, <4>1
    <3>4. CASE f.event # "started"
      <4>1. at = -1 /\ -1 < 0 /\ ~(-1 >= 0)
        BY <3>1, <3>4
      <4> HIDE DEF at, n, due, r, o
      <4> QED BY <3>2, <3>4, <4>1
    <3> QED BY <3>3, <3>4
  <2>2. CASE ~(w.onsetAt < 0)
    <3>1. at = w.onsetAt /\ at \in Nat
      BY <1>3, <2>2
    <3>2. /\ OnsetsIn(r, o) # {}
          /\ IF n - at >= u THEN due = {n} ELSE
               due = {} /\ Awaiting(f, at, r, k, W)
      <4>1. Awaiting(d, at, q, k, W)
        BY <1>1, <3>1
      <4> HIDE DEF at
      <4>2. LaterHop(f, d, q, v, at, u, c)
        <5> HIDE DEF u, c
        <5> QED BY <1>2, <3>1, <4>1, LingeringRight DEF k, W
      <4> HIDE DEF u, c, o
      <4>3. /\ OnsetsIn(r, d.onset) # {}
            /\ IF n - at >= u THEN due = {n} ELSE
                 due = {} /\ Awaiting(f, at, r, k, W)
        BY <4>2, Zenon DEF LaterHop
      <4> QED BY <1>1, <4>3, Zenon
    <3>3. ~(at < 0)
      BY <2>2, <3>1
    <3> HIDE DEF at
    <3> QED BY <3>2, <3>3
  <2> QED BY <2>1, <2>2
<1>8. n = Len(r) /\ due = DueIn(r, o, Lingering(w.kind), Windowing(w.kind))
  <2>1. n = Len(r)
    BY Appended
  <2> QED BY <1>1, <2>1, Zenon DEF Lingering, Windowing
<1> DEFINE y == StartHop(w, f)
<1> HIDE DEF o, u, c, k, W, r, n, at, x, due, y
<1>9. CASE at >= 0 /\ n - at >= u
  <2>1. y = Return(x, "true")
    BY <1>5, <1>9 DEF y
  <2>2. y \in Waiter /\ y.kind = w.kind /\ y.result = "true"
    BY <1>4, <2>1, WaiterStays
  <2>3. due = {n} /\ OnsetsIn(r, o) # {}
    BY <1>6, <1>7, <1>9
  <2>4. StartEnds(r, w.kind, "true")
    BY <1>8, <2>3 DEF StartEnds, o
  <2>5. Ends(r, w.kind, "true")
    BY <2>4 DEF Ends
  <2>6. Standing(f, y, r)
    BY <1>1, <2>2, <2>5 DEF Standing
  <2> QED BY <2>2, <2>6 DEF y, r
<1>10. CASE at < 0 /\ n >= c
  <2>1. y = Return(x, "false")
    BY <1>5, <1>6, <1>10 DEF y
  <2>2. y \in Waiter /\ y.kind = w.kind /\ y.result = "false"
    BY <1>4, <2>1, WaiterStays
  <2>3. due = {n} /\ OnsetsIn(r, o) = {}
    BY <1>7, <1>10
  <2>4. StartEnds(r, w.kind, "false")
    BY <1>8, <2>3 DEF StartEnds, o
  <2>5. Ends(r, w.kind, "false")
    BY <2>4 DEF Ends
  <2>6. Standing(f, y, r)
    BY <1>1, <2>2, <2>5 DEF Standing
  <2> QED BY <2>2, <2>6 DEF y, r
<1>11. CASE ~(at >= 0 /\ n - at >= u) /\ ~(at < 0 /\ n >= c)
  <2>1. y = x
    BY <1>5, <1>11 DEF y
  <2>2. due = {} /\ Awaiting(f, at, r, k, W)
    BY <1>6, <1>7, <1>11
  <2>3. StartEnds(r, w.kind, "none")
    <3>1. DueIn(r, Onsetting(w.kind), Lingering(w.kind), Windowing(w.kind)) = {}
      BY <1>8, <2>2 DEF o
    <3> QED BY <3>1 DEF StartEnds
  <2>4. Ends(r, w.kind, "none")
    BY <2>3 DEF Ends
  <2>5. Hearing(f, x, r)
    <3>1. Awaiting(f, x.onsetAt, r, Lingering(x.kind), Windowing(x.kind))
      BY <1>4, <2>2, Zenon DEF Lingering, Windowing, k, W, u, c
    <3>2. x.kind.mode # "turn"
      BY <1>4
    <3> QED BY <3>1, <3>2 DEF Hearing
  <2>6. Standing(f, x, r)
    BY <1>1, <1>4, <2>4, <2>5 DEF Standing
  <2> QED BY <1>4, <2>1, <2>6 DEF y, r
<1> QED BY <1>9, <1>10, <1>11

\* A detector that has finished stands still, which only a wait that lingers
\* does not mind.
LEMMA PushStays ==
  ASSUME NEW d \in Det, NEW v \in BOOLEAN
  PROVE  /\ Push(d, v) \in Det /\ Push(d, v).onset = d.onset
         /\ Push(d, v).timeout = d.timeout
         /\ Push(d, v).silence = d.silence
<1>1. d.finished \in BOOLEAN
  BY DEF Det
<1>2. CASE d.finished
  BY <1>2 DEF Push, Det
<1>3. CASE ~d.finished
  <2>1. Hop(Push(d, v), d, v)
    BY <1>3, Pushed
  <2> QED BY <2>1 DEF Hop
<1> QED BY <1>1, <1>2, <1>3

LEMMA HopStep ==
  ASSUME TurnInv, NEW v \in BOOLEAN, PushHop(v)
  PROVE  TurnInv'
<1> DEFINE w == [waiter EXCEPT !.pending = @ - HopLen]
           f == Push(detector, v)
<1>1. /\ waiter.result = "none" /\ waiter.pending >= HopLen
      /\ detector' = f /\ verdicts' = Append(verdicts, v)
      /\ waiter' = (IF w.kind.mode = "turn" THEN TurnHop(w, detector')
                    ELSE StartHop(w, detector'))
      /\ capture' = capture /\ cancel' = cancel
  BY DEF PushHop, Waits
<1>2. /\ TurnTypeOK /\ Standing(detector, waiter, verdicts)
      /\ detector \in Det /\ waiter \in Waiter
      /\ verdicts \in Seq(BOOLEAN)
      /\ capture \in {"live", "mute", "ended"} /\ cancel \in BOOLEAN
  BY TurnInvIs, TurnTyped
<1>3. /\ w \in Waiter /\ w.kind = waiter.kind /\ w.result = "none"
      /\ w.onsetAt = waiter.onsetAt
  <2> DEFINE p == waiter.pending - HopLen
  <2>1. p \in Nat
    <3>1. HopLen \in Nat
      BY TurnAssumption
    <3>2. waiter.pending \in Nat
      BY <1>2, Zenon DEF Waiter
    <3> QED BY <1>1, <3>1, <3>2
  <2>2. w = [waiter EXCEPT !.pending = p]
    OBVIOUS
  <2> HIDE DEF p, w
  <2> QED BY <1>1, <1>2, <2>1, <2>2 DEF Waiter
<1>4. /\ f \in Det /\ f.onset = detector.onset /\ f.timeout = detector.timeout
  BY <1>2, PushStays
<1>5. detector.finished = FALSE => Hop(f, detector, v)
  BY <1>2, Pushed
<1>6. Append(verdicts, v) \in Seq(BOOLEAN)
  BY <1>2, Appended
<1> HIDE DEF w, f
<1>7. Standing(detector, w, verdicts)
  BY <1>1, <1>2, <1>3 DEF Standing, Hearing
<1>8. CASE w.kind.mode = "turn"
  <2>1. detector.finished = FALSE
    <3>1. Hearing(detector, w, verdicts)
      BY <1>3, <1>7 DEF Standing
    <3>2. detector.finished \in BOOLEAN
      BY <1>2 DEF Det
    <3> QED BY <1>8, <3>1, <3>2 DEF Hearing, Listening
  <2>2. /\ Standing(f, TurnHop(w, f), Append(verdicts, v))
        /\ TurnHop(w, f) \in Waiter
    BY <1>2, <1>3, <1>5, <1>7, <1>8, <2>1, TurnPush
  <2>3. waiter' = TurnHop(w, f)
    BY <1>1, <1>8
  <2>4. Standing(detector', waiter', verdicts')
    BY <1>1, <2>2, <2>3, Zenon
  <2>5. TurnTypeOK'
    BY <1>1, <1>2, <1>4, <1>6, <2>2, <2>3, TurnTypedNext, Zenon
  <2> QED BY <2>4, <2>5, TurnInvIsNext
<1>9. CASE w.kind.mode # "turn"
  <2>1. w.onsetAt < 0 => Hop(f, detector, v)
    <3>1. Hearing(detector, w, verdicts)
      BY <1>3, <1>7 DEF Standing
    <3>2. detector.finished \in BOOLEAN
      BY <1>2 DEF Det
    <3> QED BY <1>5, <1>9, <3>1, <3>2 DEF Hearing, Awaiting
  <2>2. /\ Standing(f, StartHop(w, f), Append(verdicts, v))
        /\ StartHop(w, f) \in Waiter
    BY <1>2, <1>3, <1>4, <1>7, <1>9, <2>1, StartPush
  <2>3. waiter' = StartHop(w, f)
    BY <1>1, <1>9
  <2>4. Standing(detector', waiter', verdicts')
    BY <1>1, <2>2, <2>3, Zenon
  <2>5. TurnTypeOK'
    BY <1>1, <1>2, <1>4, <1>6, <2>2, <2>3, TurnTypedNext, Zenon
  <2> QED BY <2>4, <2>5, TurnInvIsNext
<1> QED BY <1>8, <1>9

\* Nothing else touches a wait.
LEMMA TurnRest ==
  ASSUME TurnInv, CaptureFails \/ CancelJob \/ UNCHANGED turnVars
  PROVE  TurnInv'
<1>1. /\ detector' = detector /\ waiter' = waiter /\ verdicts' = verdicts
  BY DEF CaptureFails, CancelJob, turnVars
<1>2. TurnTypeOK /\ Standing(detector, waiter, verdicts)
  BY TurnInvIs
<1>3. Standing(detector', waiter', verdicts')
  BY <1>1, <1>2, Zenon
<1>4. TurnTypeOK'
  <2>1. capture' \in {"live", "mute", "ended"} /\ cancel' \in BOOLEAN
    BY <1>2, TurnTyped DEF CaptureFails, CancelJob, turnVars
  <2> QED BY <1>1, <1>2, <2>1, TurnTyped, TurnTypedNext, Zenon
<1> QED BY <1>3, <1>4, TurnInvIsNext

LEMMA TurnInvariant == TurnSpec => []TurnInv
<1>1. TurnInit => TurnInv
  BY TurnStarts
<1>2. TurnInv /\ [TurnNext]_turnVars => TurnInv'
  <2> SUFFICES ASSUME TurnInv, TurnNext \/ UNCHANGED turnVars
               PROVE  TurnInv'
    OBVIOUS
  <2>1. CASE \E w \in WaitKind : BeginWait(w)
    BY <2>1, BeginStep
  <2>2. CASE \E n \in ReadLen : ReadMore(n)
    BY <2>2, ReadStep
  <2>3. CASE StopsEarly
    BY <2>3, StopStep
  <2>4. CASE Stalls
    BY <2>4, StallStep
  <2>5. CASE \E v \in BOOLEAN : PushHop(v)
    BY <2>5, HopStep
  <2>6. CASE CaptureFails \/ CancelJob \/ UNCHANGED turnVars
    BY <2>6, TurnRest
  <2> QED BY <2>1, <2>2, <2>3, <2>4, <2>5, <2>6 DEF TurnNext
<1> QED BY <1>1, <1>2, PTL DEF TurnSpec

\* What Ends says of the wait is what TurnsRight says of it.
LEMMA EndsRight ==
  ASSUME Ends(verdicts, waiter.kind, waiter.result)
  PROVE  TurnsRight
<1> DEFINE w == waiter.kind
           q == verdicts
           o == Onsetting(w)
           s == Silencing(w)
           t == Lasting(w)
<1>1. Onsets = OnsetsIn(q, o)
  <2>1. \A i : AllAre(TRUE, i - o + 1, i) <=> Run(q, TRUE, i - o + 1, i)
    BY Zenon DEF AllAre, Run
  <2>2. Onsets = {i \in o .. Len(q) : AllAre(TRUE, i - o + 1, i)}
    BY Zenon DEF Onsets, Onsetting
  <2> HIDE DEF o, q
  <2> QED BY <2>1, <2>2 DEF OnsetsIn
<1>2. Onset = Min(OnsetsIn(q, o))
  BY <1>1, Zenon DEF Onset
<1>3. \A i : SilentAt(i) <=> SilentIn(q, o, s, i)
  <2>1. \A i : AllAre(FALSE, i - s + 1, i) <=> Run(q, FALSE, i - s + 1, i)
    BY Zenon DEF AllAre, Run
  <2>2. \A i : SilentAt(i) <=> /\ Onsets # {} /\ i - s >= Onset
                               /\ AllAre(FALSE, i - s + 1, i)
    BY Zenon DEF SilentAt, Silencing
  <2> HIDE DEF o, q, s
  <2> QED BY <1>1, <1>2, <2>1, <2>2, Zenon DEF SilentIn
<1>4. \A i : LateAt(i) <=> LateIn(q, o, t, i)
  <2>1. \A i : LateAt(i) <=> i >= t /\ (Onsets = {} \/ i # Onset)
    BY Zenon DEF LateAt, Lasting
  <2> HIDE DEF o, q, t
  <2> QED BY <1>1, <1>2, <2>1, Zenon DEF LateIn
<1>5. {i \in 1 .. Len(q) : SilentAt(i) \/ LateAt(i)} = OverIn(q, o, s, t)
  <2> HIDE DEF o, q, s, t
  <2> QED BY <1>3, <1>4 DEF OverIn
<1>6. TurnEndsRight
  <2> SUFFICES ASSUME w.mode = "turn"
               PROVE  LET over == {i \in 1 .. Len(verdicts) : SilentAt(i) \/ LateAt(i)} IN
                        IF waiter.result \in {"silence", "timeout"}
                          THEN /\ over = {Len(verdicts)}
                               /\ waiter.result = "silence" <=> SilentAt(Len(verdicts))
                          ELSE over = {}
    BY Zenon DEF TurnEndsRight
  <2>1. TurnEnds(q, w, waiter.result)
    BY DEF Ends
  <2> HIDE DEF q, w
  <2>2. IF waiter.result \in {"silence", "timeout"}
          THEN /\ OverIn(q, o, s, t) = {Len(q)}
               /\ waiter.result = "silence" <=> SilentIn(q, o, s, Len(q))
          ELSE OverIn(q, o, s, t) = {}
    BY <2>1, Zenon DEF TurnEnds
  <2> HIDE DEF o, s, t
  <2> QED BY <1>3, <1>5, <2>2 DEF q
<1>7. StartsRight
  <2> DEFINE k == Lingering(w)
             W == Windowing(w)
             due == {i \in 1 .. Len(verdicts) :
                       IF Onsets # {} /\ (Onset <= i \/ Onset <= W)
                         THEN i >= Onset + k - 1 ELSE i >= W}
  <2>1. due = DueIn(q, o, k, W)
    <3> HIDE DEF o, k, W
    <3> QED BY <1>1, <1>2 DEF DueIn
  <2> SUFFICES ASSUME w.mode = "start"
      PROVE  /\ waiter.result \in {"true", "false"} => due \subseteq {Len(verdicts)}
             /\ waiter.result \in {"none", "stalled"} => due = {}
             /\ waiter.result = "true" => Onsets # {}
             /\ waiter.result = "false" => Onsets = {}
    BY Zenon DEF StartsRight, Lingering, Windowing
  <2>2. StartEnds(q, w, waiter.result)
    BY DEF Ends
  <2> HIDE DEF due
  <2> QED BY <1>1, <2>1, <2>2, Zenon DEF StartEnds
<1> QED BY <1>6, <1>7 DEF TurnsRight

\* A wait for the far end to speak ends on the right hop and for the right
\* reason (TurnDetector::push, run_wait_for_speech, run_wait_for_speech_start):
\* a turn with the first hop that completes the silence after an onset or
\* reaches the limit, a start with the hop that ends its lingering or its
\* window, whatever the verdicts, the reads, the stalls and the cancellation.
THEOREM TurnsEndRight == TurnSpec => []TurnsRight
<1>1. TurnInv => TurnsRight
  BY EndsRight DEF TurnInv
<1> QED BY <1>1, TurnInvariant, PTL

-----------------------------------------------------------------------------
(* What a capture delivers.                                                 *)

CardRec == [rate : Nat, held : Nat, lost : Nat, missing : Int, base : Nat]
ClockRec == [first : Nat \cup {Never}, from : Nat \cup {Never},
             last : Nat \cup {Never}, frames : Nat]
WatcherRec == [mode : {"idle", "record", "probe"},
               drift : {"none", "lost", "fast"},
               result : {"none", "lost", "complete", "failed", "mismatch", "ok"},
               silent : BOOLEAN]

\* The tool never holds back more than its buffer and one tick's frames, and
\* time is in order.
CardShape(k, c, t) ==
  /\ k \in CardRec /\ c \in ClockRec /\ t \in Nat
  /\ k.rate \in TrueRate \cup {FrameRate}
  /\ k.held <= Buffer + k.rate /\ k.base < Buffer + k.rate
  /\ c.last <= t /\ c.from <= c.last

\* No frame gets lost unseen: what the card has made since measuring began has
\* been counted, is held back, or is lost; as of now, and as of the last chunk.
\* Before that nothing is counted.
Conserved(k, c, t) ==
  IF c.from = Never THEN c.frames = 0 /\ k.missing = 0
  ELSE /\ k.rate * (t - c.from) = c.frames + k.held - k.base + k.lost
       /\ k.rate * (c.last - c.from) = c.frames + k.missing
       /\ k.lost = 0 => Size(k.missing) < Buffer + k.rate

\* Nothing is measured before a watch begins, and nothing said before anything
\* is measured.
Unheard(w, c) ==
  /\ w.mode = "idle" => c.from = Never
  /\ c.from = Never => w.drift = "none" /\ w.result \in {"none", "complete", "failed"}

WatchInv ==
  /\ WatchTypeOK
  /\ CardShape(card, cclock, now) /\ Conserved(card, cclock, now)
  /\ Unheard(watcher, cclock) /\ CaptureTold

LEMMA Times ==
  ASSUME NEW a \in Int, NEW b \in Int, NEW c \in Nat, a <= b
  PROVE  a * c \in Int /\ b * c \in Int /\ a * c <= b * c
OBVIOUS

LEMMA OneMore ==
  ASSUME NEW a \in Nat, NEW x \in Int
  PROVE  a * (x + 1) = a * x + a /\ a * x \in Int
OBVIOUS

\* At the right rate the drift is what is missing, and if nothing has been lost,
\* nothing is reported.
LEMMA DriftIsMissing ==
  ASSUME NEW k, NEW c, NEW t, CardShape(k, c, t), Conserved(k, c, t),
         k.rate = FrameRate
  PROVE  Drift(c) = k.missing /\ (k.lost = 0 => ~Reportable(c))
<1> DEFINE r == ReportMin * FrameRate
           e == Elapsed(c)
<1>1. FrameRate \in Nat \ {0} /\ ReportMin \in Nat \ {0} /\ Buffer \in Nat
  BY WatchAssumption
<1>2. r \in Nat \ {0} /\ Buffer + FrameRate <= r
  BY <1>1, ToleranceAssumption
<1>3. c \in ClockRec /\ k \in CardRec
  BY DEF CardShape
<1>4. Drift(c) = k.missing
  <2>1. CASE c.from = Never
    BY <1>1, <2>1 DEF Conserved, Drift, Elapsed
  <2>2. CASE c.from # Never
    <3>1. c.last - c.from \in Int
      BY <1>3, <2>2 DEF ClockRec, Never
    <3>2. FrameRate * (c.last - c.from) = (c.last - c.from) * FrameRate
      BY <1>1, <3>1
    <3>3. FrameRate * (c.last - c.from) = c.frames + k.missing
      BY <2>2 DEF Conserved
    <3>4. Drift(c) = (c.last - c.from) * FrameRate - c.frames
      BY <2>2 DEF Drift, Elapsed
    <3> QED BY <1>3, <3>2, <3>3, <3>4 DEF ClockRec, CardRec
  <2> QED BY <2>1, <2>2
<1>5. k.missing \in Int
  BY <1>3 DEF CardRec
<1>6. ASSUME k.lost = 0 PROVE Size(k.missing) < r
  <2>1. CASE c.from = Never
    BY <1>2, <2>1 DEF Conserved, Size
  <2>2. CASE c.from # Never
    <3>1. Size(k.missing) < Buffer + FrameRate
      BY <1>6, <2>2 DEF Conserved
    <3>2. Size(k.missing) \in Int
      BY <1>5 DEF Size
    <3> HIDE DEF r
    <3> QED BY <1>1, <1>2, <3>1, <3>2
  <2> QED BY <2>1, <2>2
<1>7. Size(k.missing) \in Int
  BY <1>5 DEF Size
<1>8. k.lost = 0 => ~(Size(Drift(c)) >= r)
  <2> HIDE DEF r
  <2> QED BY <1>2, <1>4, <1>6, <1>7
<1> QED BY <1>4, <1>8 DEF Reportable

\* What the probe measures is off just if the card is.
LEMMA RateIsTold ==
  ASSUME NEW k, NEW c, NEW t, CardShape(k, c, t), Conserved(k, c, t),
         Elapsed(c) >= Measure, k.lost = 0
  PROVE  RateDrifts(c) <=> k.rate # FrameRate
<1> DEFINE F == FrameRate
           R == k.rate
           T == ToleranceDen
           B == Buffer
           M == Measure
           e == Elapsed(c)
           m == k.missing
           fe == F * e
           d == c.frames - fe
<1>1. /\ F \in Nat \ {0} /\ T \in Nat \ {0} /\ M \in Nat \ {0} /\ B \in Nat
      /\ R \in Nat \ {0} /\ m \in Int /\ c.frames \in Nat
  BY WatchAssumption DEF CardShape, CardRec, ClockRec
<1>2. c.from # Never
  BY <1>1 DEF Elapsed
<1>3. e \in Nat /\ e >= M /\ e = c.last - c.from
  BY <1>1, <1>2 DEF Elapsed, CardShape, ClockRec, Never
<1>4. R * e = c.frames + m /\ Size(m) < B + R
  BY <1>2, <1>3 DEF Conserved
<1>5. RateDrifts(c) <=> Size(d) * T > fe
  BY DEF RateDrifts
<1>6. /\ (B + F) * T <= F * M
      /\ R # F => (B + R) * T <= (Size(R - F) * T - F) * M
  BY ToleranceAssumption DEF CardShape
<1> HIDE DEF F, R, T, B, M, e, m
<1>7. fe \in Nat /\ R * e \in Nat /\ d \in Int
  BY <1>1, <1>3
<1>8. CASE R = F
  <2>1. d = -m
    BY <1>1, <1>4, <1>7, <1>8
  <2>2. Size(d) \in Nat /\ Size(d) <= B + F
    <3> HIDE DEF d
    <3> QED BY <1>1, <1>4, <1>8, <2>1 DEF Size
  <2>3. Size(d) * T <= (B + F) * T
    <3> HIDE DEF d
    <3> QED BY <1>1, <2>2, Times
  <2>4. F * M <= fe
    BY <1>1, <1>3
  <2>5. Size(d) * T \in Int /\ (B + F) * T \in Int /\ F * M \in Int
    <3> HIDE DEF d
    <3> QED BY <1>1, <2>2
  <2>6. ~(Size(d) * T > fe)
    <3> DEFINE x == Size(d) * T
               y == (B + F) * T
               z == F * M
    <3>1. x <= y /\ y <= z /\ z <= fe
      BY <2>3, <1>6, <2>4
    <3> HIDE DEF x, y, z, fe
    <3>2. x \in Int /\ y \in Int /\ z \in Int /\ fe \in Int
      BY <2>5, <1>7 DEF x, y, z
    <3>3. ~(x > fe)
      BY <3>1, <3>2
    <3> QED BY <3>3 DEF x, fe
  <2> QED BY <1>5, <1>8, <2>6 DEF F, R
<1>9. CASE R # F
  <2> DEFINE g == Size(R - F)
             h == g * T - F
  <2>1. g \in Nat \ {0} /\ g * T \in Nat /\ h \in Int
    BY <1>1, <1>9 DEF Size
  <2>2. (B + R) * T <= h * M /\ (B + R) * T \in Nat \ {0} /\ h * M \in Int
    <3>1. (B + R) * T <= h * M
      BY <1>6, <1>9
    <3> HIDE DEF h
    <3> QED BY <1>1, <2>1, <3>1
  <2>3. h >= 1
    <3> HIDE DEF h
    <3>1. h <= 0 => h * M <= 0
      BY <1>1, <2>1
    <3> QED BY <2>1, <2>2, <3>1
  <2>4. h * M <= h * e /\ h * e \in Int
    <3> HIDE DEF h
    <3>1. h \in Nat
      BY <2>1, <2>3
    <3>2. M * h <= e * h
      BY <1>1, <1>3, <3>1, Times
    <3> QED BY <1>1, <1>3, <3>1, <3>2
  <2>5. Size(d) >= g * e - (B + R) + 1 /\ Size(d) \in Nat /\ g * e \in Nat
    <3>1. d = (R - F) * e - m
      BY <1>1, <1>3, <1>4, <1>7
    <3>2. g * e \in Nat /\ ((R - F) * e = g * e \/ (R - F) * e = -(g * e))
      BY <1>1, <1>3, <2>1 DEF Size
    <3> HIDE DEF d, g
    <3>3. d \in Int
      BY <1>7 DEF d
    <3> QED BY <1>1, <1>4, <3>1, <3>2, <3>3 DEF Size
  <2>6. Size(d) * T >= (g * e - (B + R) + 1) * T
    <3> HIDE DEF d, g
    <3> QED BY <1>1, <2>5, Times
  <2>7. (g * e - (B + R) + 1) * T = h * e + fe - (B + R) * T + T
    <3> HIDE DEF g
    <3> QED BY <1>1, <1>3, <2>1, <2>5
  <2>8. Size(d) * T > fe
    <3> DEFINE x == Size(d) * T
               y == (B + R) * T
               z == h * M
               u == h * e
    <3>1. x >= u + fe - y + T /\ y <= z /\ z <= u
      BY <2>2, <2>4, <2>6, <2>7
    <3>2. x \in Int /\ y \in Int /\ z \in Int /\ u \in Int /\ fe \in Int
      <4> HIDE DEF d, h
      <4> QED BY <1>1, <1>7, <2>2, <2>4, <2>5
    <3> HIDE DEF x, y, z, u, fe
    <3>3. x > fe
      BY <1>1, <3>1, <3>2
    <3> QED BY <3>3 DEF x, fe
  <2> QED BY <1>5, <1>9, <2>8 DEF F, R
<1> QED BY <1>8, <1>9

\* Nothing measured, nothing to report.
LEMMA NothingMeasured ==
  ASSUME NEW c, c.from = Never, c.frames = 0
  PROVE  Drift(c) = 0 /\ ~Reportable(c)
<1> DEFINE r == ReportMin * FrameRate
<1>1. r \in Nat \ {0} /\ FrameRate \in Nat
  BY WatchAssumption
<1>2. Drift(c) = 0
  BY <1>1 DEF Drift, Elapsed
<1> HIDE DEF r
<1>3. Size(Drift(c)) < r
  BY <1>1, <1>2 DEF Size
<1>4. Size(Drift(c)) = 0
  BY <1>2 DEF Size
<1> QED BY <1>1, <1>2, <1>4 DEF Reportable, r

\* What the clock makes of a chunk: it counts it, begins with it, or lets it
\* pass while the capture settles.
Counts(b, c, t, n) ==
  /\ b \in ClockRec /\ b.last = t
  /\ \/ c.from # Never /\ b.from = c.from /\ b.frames = c.frames + n
     \/ c.from = Never /\ b.from = t /\ b.frames = c.frames
     \/ c.from = Never /\ b.from = Never /\ b.frames = c.frames

LEMMA Observed ==
  ASSUME NEW c \in ClockRec, NEW t \in Nat, NEW n \in Nat
  PROVE  Counts(ObserveAt(c, t, n), c, t, n)
<1> DEFINE f == IF c.first = Never THEN t ELSE c.first
           d == [c EXCEPT !.first = f, !.last = t]
<1>1. /\ d \in ClockRec /\ d.last = t /\ d.from = c.from /\ d.frames = c.frames
      /\ f \in Nat
  BY DEF ClockRec
<1>2. ObserveAt(c, t, n) = IF c.from # Never THEN [d EXCEPT !.frames = @ + n]
                           ELSE IF t - f >= Settle THEN [d EXCEPT !.from = t]
                           ELSE d
  BY DEF ObserveAt
<1> HIDE DEF d, f
<1>3. CASE c.from # Never
  BY <1>1, <1>2, <1>3 DEF ClockRec, Counts
<1>4. CASE c.from = Never
  BY <1>1, <1>2, <1>4 DEF ClockRec, Counts
<1> QED BY <1>3, <1>4

LEMMA WatchBegins == WatchInit => WatchInv
<1> SUFFICES ASSUME WatchInit PROVE WatchInv
  OBVIOUS
<1> USE WatchAssumption DEF WatchInit, Card, Watcher, Never
<1>1. WatchTypeOK
  BY DEF WatchTypeOK
<1>2. /\ CardShape(card, cclock, now) /\ Conserved(card, cclock, now)
      /\ Unheard(watcher, cclock)
  BY DEF CardShape, CardRec, ClockRec, Conserved, Unheard
<1>3. CaptureTold
  BY DEF CaptureTold, LossIsTold, ProbeTellsRate, RightRate, Drift, Elapsed
<1> QED BY <1>1, <1>2, <1>3 DEF WatchInv

\* A watch begins on a card that has made nothing yet.
LEMMA BeginWatchStep ==
  ASSUME WatchInv, NEW mode \in {"record", "probe"}, NEW rate \in TrueRate,
         BeginWatch(mode, rate)
  PROVE  WatchInv'
<1> USE DEF WatchInv, BeginWatch
<1>1. /\ card' = Card(rate) /\ watcher' = Watcher(mode)
      /\ UNCHANGED <<now, cclock, silence>> /\ cclock.from = Never
  BY DEF Unheard
<1>2. WatchTypeOK'
  BY <1>1, WatchAssumption DEF WatchTypeOK, Card, Watcher
<1>3. CardShape(card', cclock', now') /\ Conserved(card', cclock', now')
  BY <1>1, WatchAssumption DEF CardShape, CardRec, ClockRec, Conserved, Card
<1>4. Unheard(watcher', cclock')
  BY <1>1 DEF Unheard, Watcher
<1>5. Drift(cclock') = 0 /\ card'.missing = 0
  BY <1>1, NothingMeasured DEF Conserved, Card
<1>6. CaptureTold'
  BY <1>1, <1>5 DEF CaptureTold, LossIsTold, ProbeTellsRate, Watcher
<1> QED BY <1>2, <1>3, <1>4, <1>6

LEMMA ChunkStep ==
  ASSUME WatchInv, NEW n \in 1 .. Buffer + card.rate, NEW loud \in BOOLEAN,
         Chunk(n, loud)
  PROVE  WatchInv'
<1> DEFINE left == card.held - n
           begins == cclock.from = Never /\ cclock'.from # Never
<1>1. /\ WatchTypeOK /\ CardShape(card, cclock, now)
      /\ Conserved(card, cclock, now) /\ Unheard(watcher, cclock) /\ CaptureTold
  BY DEF WatchInv
<1>2. /\ cclock' = ObserveAt(cclock, now, n) /\ now' = now
      /\ n \in 1 .. card.held /\ watcher.result = "none"
      /\ watcher.mode # "idle"
      /\ card' = [card EXCEPT
           !.held = left, !.base = IF begins THEN left ELSE card.base,
           !.lost = IF begins THEN 0 ELSE card.lost,
           !.missing = IF cclock'.from = Never THEN 0
                       ELSE (IF begins THEN 0 ELSE card.lost) + left
                              - (IF begins THEN left ELSE card.base)]
  BY DEF Chunk, Watching
<1>3. /\ card \in CardRec /\ cclock \in ClockRec /\ now \in Nat /\ Buffer \in Nat
      /\ card.rate \in Nat \ {0}
  BY <1>1, WatchAssumption DEF CardShape, CardRec
<1>4. n \in Nat /\ left \in Nat /\ left < Buffer + card.rate
  BY <1>1, <1>2, <1>3 DEF CardShape, CardRec
<1> HIDE DEF left
<1>5. /\ cclock' \in ClockRec /\ cclock'.last = now
      /\ \/ /\ cclock.from # Never /\ cclock'.from = cclock.from
            /\ cclock'.frames = cclock.frames + n
         \/ /\ cclock.from = Never /\ cclock'.from = now
            /\ cclock'.frames = cclock.frames
         \/ /\ cclock.from = Never /\ cclock'.from = Never
            /\ cclock'.frames = cclock.frames
  <2>1. cclock' = ObserveAt(cclock, now, n)
    BY <1>2
  <2>2. Counts(cclock', cclock, now, n)
    BY <1>3, <1>4, <2>1, Observed, Zenon
  <2> QED BY <2>2 DEF Counts
<1>6. /\ card'.rate = card.rate /\ card'.held = left
      /\ card'.base = (IF begins THEN left ELSE card.base)
      /\ card'.lost = (IF begins THEN 0 ELSE card.lost)
      /\ card'.missing = (IF cclock'.from = Never THEN 0
                          ELSE card'.lost + left - card'.base)
  BY <1>2, <1>3 DEF CardRec
<1> HIDE DEF begins
<1>7. card' \in CardRec
  <2> DEFINE b == IF begins THEN left ELSE card.base
             l == IF begins THEN 0 ELSE card.lost
             m == IF cclock'.from = Never THEN 0 ELSE l + left - b
  <2>1. b \in Nat /\ l \in Nat
    BY <1>3, <1>4 DEF CardRec
  <2> HIDE DEF b, l
  <2>2. m \in Int
    BY <1>4, <2>1
  <2> HIDE DEF m
  <2>3. card' = [card EXCEPT !.held = left, !.base = b, !.lost = l, !.missing = m]
    BY <1>2 DEF b, l, m
  <2> QED BY <1>3, <1>4, <2>1, <2>2, <2>3 DEF CardRec
<1>8. CardShape(card', cclock', now')
  BY <1>1, <1>2, <1>3, <1>4, <1>5, <1>6, <1>7 DEF CardShape, ClockRec, Never
<1>9. Conserved(card', cclock', now')
  <2>1. CASE cclock.from # Never
    <3>1. /\ ~begins /\ card'.lost = card.lost /\ card'.base = card.base
          /\ cclock'.from # Never
      BY <1>5, <1>6, <2>1 DEF begins
    <3>2. card'.missing = card.lost + left - card.base
      BY <1>6, <3>1
    <3>3. card.rate * (now - cclock.from)
            = cclock.frames + card.held - card.base + card.lost
      BY <1>1, <2>1 DEF Conserved
    <3>4. /\ cclock'.frames = cclock.frames + n /\ card.held = left + n
          /\ cclock'.from = cclock.from
      BY <1>2, <1>3, <1>5, <2>1 DEF left, CardRec
    <3>5. /\ card.lost \in Nat /\ card.base \in Nat /\ cclock.frames \in Nat
          /\ card.base < Buffer + card.rate
      BY <1>1, <1>3 DEF CardRec, ClockRec, CardShape
    <3> DEFINE p == card.rate * (now - cclock.from)
    <3>6. p = cclock'.frames + left - card.base + card.lost
      BY <1>4, <3>3, <3>4, <3>5
    <3>7. p = cclock'.frames + card'.missing
      <4> HIDE DEF p
      <4> QED BY <1>4, <3>2, <3>4, <3>5, <3>6
    <3>8. card.lost = 0 => Size(card'.missing) < Buffer + card.rate
      BY <1>3, <1>4, <3>2, <3>5 DEF Size
    <3> QED BY <1>2, <1>5, <1>6, <3>1, <3>4, <3>6, <3>7, <3>8 DEF Conserved
  <2>2. CASE cclock.from = Never /\ cclock'.from = now
    <3>1. now # Never
      BY <1>3 DEF Never
    <3>2. /\ card'.lost = 0 /\ card'.base = left /\ card'.missing = 0
      BY <1>4, <1>6, <2>2, <3>1 DEF begins
    <3>3. cclock'.frames = 0
      BY <1>1, <1>5, <2>2, <3>1 DEF Conserved
    <3>4. card.rate * (now - now) = 0
      BY <1>3
    <3>5. 0 + left - left + 0 = 0 /\ Size(0) < Buffer + card.rate
      BY <1>3, <1>4 DEF Size
    <3> QED BY <1>2, <1>5, <1>6, <2>2, <3>1, <3>2, <3>3, <3>4, <3>5 DEF Conserved
  <2>3. CASE cclock.from = Never /\ cclock'.from = Never
    BY <1>1, <1>5, <1>6, <2>3, <1>3 DEF Conserved, Never
  <2> QED BY <1>5, <2>1, <2>2, <2>3
<1>10. cclock'.from = Never => ~Reportable(cclock')
  BY <1>9, NothingMeasured DEF Conserved
<1>11. /\ watcher' \in WatcherRec /\ watcher'.result = "none"
       /\ watcher'.mode = watcher.mode
       /\ watcher'.drift # watcher.drift => Reportable(cclock')
       /\ silence' \in [frames : Nat, loud : BOOLEAN, warned : BOOLEAN]
  <2>1. /\ watcher \in WatcherRec
        /\ silence \in [frames : Nat, loud : BOOLEAN, warned : BOOLEAN]
    BY <1>1 DEF WatchTypeOK, WatcherRec
  <2>2. CASE watcher.mode = "record"
    <3>1. silence' = ObserveSound(silence, n, loud)
      BY <2>2 DEF Chunk
    <3>2. silence' \in [frames : Nat, loud : BOOLEAN, warned : BOOLEAN]
      <4> DEFINE Sound == [frames : Nat, loud : BOOLEAN, warned : BOOLEAN]
                 f == silence.frames + n
                 l == silence.loud \/ loud
                 t == [silence EXCEPT !.loud = l, !.frames = f]
                 v == t.warned \/ (t.frames >= SilentWarnAfter * FrameRate
                                     /\ IsSilent(t))
      <4>1. f \in Nat /\ l \in BOOLEAN
        BY <1>4, <2>1
      <4> HIDE DEF f, l
      <4>2. t \in Sound
        BY <2>1, <4>1
      <4>3. silence' = [t EXCEPT !.warned = v]
        BY <3>1 DEF ObserveSound, f, l
      <4>4. v \in BOOLEAN
        OBVIOUS
      <4> HIDE DEF t, v
      <4> QED BY <4>2, <4>3, <4>4
    <3>3. watcher' = [watcher EXCEPT !.drift =
                 IF @ = "none" /\ Reportable(cclock')
                   THEN IF Drift(cclock') > 0 THEN "lost" ELSE "fast"
                   ELSE @]
      BY <2>2 DEF Chunk
    <3> QED BY <1>2, <2>1, <3>2, <3>3 DEF WatcherRec
  <2>3. CASE watcher.mode # "record"
    BY <1>2, <2>1, <2>3 DEF Chunk
  <2> QED BY <2>2, <2>3
<1>12. cclock'.from = Never => cclock.from = Never
  BY <1>5
<1>13. Unheard(watcher', cclock')
  BY <1>1, <1>2, <1>10, <1>11, <1>12 DEF Unheard
<1>14. CaptureTold'
  <2>1. card'.rate = FrameRate =>
          Drift(cclock') = card'.missing /\ (card'.lost = 0 => ~Reportable(cclock'))
    BY <1>8, <1>9, DriftIsMissing
  <2>2. card'.rate = FrameRate /\ card'.lost = 0 => watcher.drift = "none"
    <3>1. CASE begins
      BY <1>1, <3>1 DEF Unheard, begins
    <3>2. CASE ~begins
      BY <1>1, <1>6, <3>2 DEF CaptureTold, LossIsTold, RightRate
    <3> QED BY <3>1, <3>2
  <2> QED BY <1>11, <2>1, <2>2
          DEF CaptureTold, LossIsTold, ProbeTellsRate, RightRate
<1>15. WatchTypeOK'
  BY <1>1, <1>2, <1>5, <1>7, <1>11 DEF WatchTypeOK, CardRec, ClockRec, WatcherRec
<1> QED BY <1>8, <1>9, <1>13, <1>14, <1>15 DEF WatchInv

\* A tick's frames are held back or lost.
LEMMA TimePassingStep ==
  ASSUME WatchInv, NEW keep \in BOOLEAN, TimePassing(keep)
  PROVE  WatchInv'
<1>1. /\ WatchTypeOK /\ CardShape(card, cclock, now)
      /\ Conserved(card, cclock, now) /\ Unheard(watcher, cclock) /\ CaptureTold
  BY DEF WatchInv
<1>2. /\ now < MaxTick /\ now' = now + 1 /\ watcher.result = "none"
      /\ card' = IF keep THEN [card EXCEPT !.held = @ + card.rate]
                 ELSE [card EXCEPT !.lost = @ + card.rate]
      /\ keep => card.held <= Buffer
      /\ UNCHANGED <<cclock, silence, watcher>>
  BY DEF TimePassing, Watching
<1>3. /\ card \in CardRec /\ cclock \in ClockRec /\ now \in Nat /\ Buffer \in Nat
      /\ card.rate \in Nat \ {0}
  BY <1>1, WatchAssumption DEF CardShape, CardRec
<1>4. /\ card' \in CardRec /\ card'.rate = card.rate /\ card'.base = card.base
      /\ card'.missing = card.missing
      /\ card'.held + card'.lost = card.held + card.lost + card.rate
      /\ card'.lost = 0 => card.lost = 0
      /\ card'.held <= Buffer + card.rate
  <2>1. CASE keep
    BY <1>2, <1>3, <2>1 DEF CardRec
  <2>2. CASE ~keep
    BY <1>1, <1>2, <1>3, <2>2 DEF CardRec, CardShape
  <2> QED BY <2>1, <2>2
<1>5. CardShape(card', cclock', now')
  BY <1>1, <1>2, <1>3, <1>4 DEF CardShape, ClockRec, Never
<1>6. Conserved(card', cclock', now')
  <2>1. CASE cclock.from = Never
    BY <1>1, <1>2, <1>4, <2>1 DEF Conserved
  <2>2. CASE cclock.from # Never
    <3> DEFINE x == now - cclock.from
               p == card.rate * x
    <3>1. x \in Int /\ now + 1 - cclock.from = x + 1
      BY <1>3, <2>2 DEF ClockRec, Never
    <3>2. p = cclock.frames + card.held - card.base + card.lost
      BY <1>1, <2>2 DEF Conserved
    <3>3. card.rate * (x + 1) = p + card.rate /\ p \in Int
      <4> HIDE DEF x
      <4> QED BY <1>3, <3>1, OneMore
    <3>4. p + card.rate = cclock.frames + card'.held - card'.base + card'.lost
      <4> HIDE DEF p
      <4> QED BY <1>3, <1>4, <3>2, <3>3 DEF CardRec, ClockRec
    <3> HIDE DEF p, x
    <3>5. card'.rate * (now' - cclock'.from)
            = cclock'.frames + card'.held - card'.base + card'.lost
      <4>1. now' - cclock'.from = x + 1 /\ cclock' = cclock
        <5>1. now' = now + 1 /\ cclock' = cclock
          BY <1>2
        <5>2. now \in Int /\ cclock.from \in Int /\ cclock'.from = cclock.from
          BY <1>3, <2>2, <5>1 DEF ClockRec, Never
        <5>3. now' - cclock.from = x + 1
          BY <3>1, <5>1, <5>2
        <5> QED BY <5>1, <5>2, <5>3, Zenon
      <4> QED BY <1>4, <3>3, <3>4, <4>1, Zenon
    <3> QED BY <1>1, <1>2, <1>4, <2>2, <3>5 DEF Conserved
  <2> QED BY <2>1, <2>2
<1>7. Unheard(watcher', cclock')
  BY <1>1, <1>2
<1>8. CaptureTold'
  BY <1>1, <1>2, <1>4
  DEF CaptureTold, LossIsTold, ProbeTellsRate, RightRate, Drift, Elapsed
<1>9. WatchTypeOK'
  BY <1>1, <1>2, <1>4, WatchAssumption DEF WatchTypeOK, CardRec
<1> QED BY <1>5, <1>6, <1>7, <1>8, <1>9 DEF WatchInv

\* What a recording says at its end is what the clock says.
LEMMA FinishRecordingStep ==
  ASSUME WatchInv, FinishRecording
  PROVE  WatchInv'
<1>1. /\ WatchTypeOK /\ CardShape(card, cclock, now)
      /\ Conserved(card, cclock, now) /\ Unheard(watcher, cclock) /\ CaptureTold
  BY DEF WatchInv
<1> DEFINE r == IF Reportable(cclock) /\ Drift(cclock) > 0 THEN "lost"
                ELSE "complete"
<1>2. /\ watcher' = [watcher EXCEPT !.result = r, !.silent = SilentOverall(silence)]
      /\ UNCHANGED <<now, card, cclock, silence>> /\ watcher.mode = "record"
  BY DEF FinishRecording
<1>3. watcher \in WatcherRec
  BY <1>1 DEF WatchTypeOK, WatcherRec
<1>4. SilentOverall(silence) \in BOOLEAN
  BY DEF SilentOverall, IsSilent
<1>5. r \in {"lost", "complete"}
  OBVIOUS
<1> HIDE DEF r
<1>6. /\ watcher' \in WatcherRec /\ watcher'.result = r /\ watcher'.mode = "record"
      /\ watcher'.drift = watcher.drift
  BY <1>2, <1>3, <1>4, <1>5 DEF WatcherRec
<1>7. Unheard(watcher', cclock')
  BY <1>1, <1>2, <1>6, NothingMeasured DEF Unheard, Conserved, r
<1>8. card.rate = FrameRate =>
        Drift(cclock) = card.missing /\ (card.lost = 0 => ~Reportable(cclock))
  BY <1>1, DriftIsMissing
<1>9. card.missing \in Int /\ ReportMin * FrameRate \in Nat \ {0}
  BY <1>1, WatchAssumption DEF CardShape, CardRec
<1>10. card.rate = FrameRate /\ r = "complete" =>
         ~(card.missing >= ReportMin * FrameRate
             /\ card.missing * ShareDen > Elapsed(cclock) * FrameRate)
  <2> DEFINE x == ReportMin * FrameRate
  <2> SUFFICES ASSUME card.rate = FrameRate, card.missing >= x,
                      card.missing * ShareDen > Elapsed(cclock) * FrameRate
               PROVE  r = "lost"
    BY <1>5
  <2> HIDE DEF x
  <2>1. x \in Nat \ {0}
    BY <1>9 DEF x
  <2>2. card.missing > 0 /\ Size(card.missing) = card.missing
    BY <1>9, <2>1 DEF Size
  <2>3. Drift(cclock) = card.missing
    BY <1>8
  <2> QED BY <2>2, <2>3 DEF r, Reportable, x
<1>11. CaptureTold'
  <2>1. (RightRate => Drift(cclock) = card.missing)'
    BY <1>2, <1>8 DEF RightRate, Drift, Elapsed
  <2>2. (RightRate /\ card.lost = 0 => watcher.drift = "none" /\ watcher.result # "lost")'
    BY <1>1, <1>2, <1>6, <1>8 DEF CaptureTold, LossIsTold, RightRate, r
  <2> QED BY <1>2, <1>6, <1>10, <2>1, <2>2
          DEF CaptureTold, LossIsTold, ProbeTellsRate, RightRate, Elapsed
<1>12. WatchTypeOK'
  BY <1>1, <1>2, <1>6 DEF WatchTypeOK, WatcherRec
<1> QED BY <1>1, <1>2, <1>7, <1>11, <1>12 DEF WatchInv

LEMMA ProbeStep ==
  ASSUME WatchInv, ProbeEnds \/ ProbeFails
  PROVE  WatchInv'
<1>1. /\ WatchTypeOK /\ CardShape(card, cclock, now)
      /\ Conserved(card, cclock, now) /\ Unheard(watcher, cclock) /\ CaptureTold
  BY DEF WatchInv
<1>2. PICK r \in {"failed", "mismatch", "ok"} :
        /\ watcher' = [watcher EXCEPT !.result = r]
        /\ r # "failed" => /\ Elapsed(cclock) >= Measure
                           /\ r = "mismatch" <=> RateDrifts(cclock)
  BY DEF ProbeEnds, ProbeFails
<1>3. UNCHANGED <<now, card, cclock, silence>> /\ watcher.mode = "probe"
  BY DEF ProbeEnds, ProbeFails
<1>4. watcher \in WatcherRec
  BY <1>1 DEF WatchTypeOK, WatcherRec
<1>5. /\ watcher' \in WatcherRec /\ watcher'.result = r /\ watcher'.mode = "probe"
      /\ watcher'.drift = watcher.drift
  BY <1>2, <1>3, <1>4 DEF WatcherRec
<1>6. Unheard(watcher', cclock')
  <2>1. cclock.from = Never => ~(Elapsed(cclock) >= Measure)
    BY WatchAssumption DEF Elapsed
  <2> QED BY <1>1, <1>2, <1>3, <1>5, <2>1 DEF Unheard
<1>7. r # "failed" /\ card.lost = 0 => (r = "mismatch" <=> card.rate # FrameRate)
  BY <1>1, <1>2, RateIsTold
<1>8. CaptureTold'
  BY <1>1, <1>3, <1>5, <1>7
  DEF CaptureTold, LossIsTold, ProbeTellsRate, RightRate, Drift, Elapsed
<1>9. WatchTypeOK'
  BY <1>1, <1>3, <1>5 DEF WatchTypeOK, WatcherRec
<1> QED BY <1>1, <1>3, <1>6, <1>8, <1>9 DEF WatchInv

LEMMA WatchInvariant == WatchSpec => []WatchInv
<1>1. WatchInv /\ [WatchNext]_watchVars => WatchInv'
  <2> SUFFICES ASSUME WatchInv, [WatchNext]_watchVars PROVE WatchInv'
    OBVIOUS
  <2>1. CASE \E mode \in {"record", "probe"}, rate \in TrueRate :
               BeginWatch(mode, rate)
    BY <2>1, BeginWatchStep
  <2>2. CASE \E n \in 1 .. Buffer + card.rate, loud \in BOOLEAN : Chunk(n, loud)
    BY <2>2, ChunkStep
  <2>3. CASE FinishRecording
    BY <2>3, FinishRecordingStep
  <2>4. CASE ProbeEnds \/ ProbeFails
    BY <2>4, ProbeStep
  <2>5. CASE \E keep \in BOOLEAN : TimePassing(keep)
    BY <2>5, TimePassingStep
  <2>6. CASE UNCHANGED watchVars
    <3>1. UNCHANGED <<now, card, cclock, silence, watcher>>
      BY <2>6 DEF watchVars
    <3>2. WatchTypeOK' /\ CardShape(card', cclock', now')
      BY <3>1 DEF WatchInv, WatchTypeOK
    <3>3. Conserved(card', cclock', now') /\ Unheard(watcher', cclock')
      BY <3>1 DEF WatchInv
    <3>4. CaptureTold'
      BY <3>1 DEF WatchInv, CaptureTold, LossIsTold, ProbeTellsRate, RightRate,
         Drift, Elapsed
    <3> QED BY <3>2, <3>3, <3>4 DEF WatchInv
  <2> QED BY <2>1, <2>2, <2>3, <2>4, <2>5, <2>6 DEF WatchNext
<1> QED BY WatchBegins, <1>1, PTL DEF WatchSpec

\* Whatever the rates, the chunks and the losses: a recording reports what the
\* tool has lost up to the last chunk that came, and nothing it has not, and the
\* probe tells a card at another rate (CaptureClock).
THEOREM WhatIsLostIsTold == WatchSpec => []CaptureTold
<1>1. WatchInv => CaptureTold
  BY DEF WatchInv
<1> QED BY WatchInvariant, <1>1, PTL

\* Types of the capture clock, the silence watch and what they watch.
THEOREM WatchTyping == WatchSpec => []WatchTypeOK
<1>1. WatchInv => WatchTypeOK
  BY DEF WatchInv
<1> QED BY WatchInvariant, <1>1, PTL

-----------------------------------------------------------------------------
(* The import of a bundle.                                                  *)

ExtractRun == [at : {"extract"}, zip : Archive, todo : SUBSET Nat,
               open : BOOLEAN, override : BOOLEAN, terminal : BOOLEAN]

\* A file still to be extracted is not in the folder, but the one that has
\* been created and not been filled yet.
Extracting ==
  /\ DOMAIN folder = Name
  /\ run.at = "extract" =>
       /\ run \in ExtractRun /\ run.todo \subseteq Plan(run.zip)
       /\ run.open => run.todo # {}
       /\ \A i \in run.todo :
            IsThere(folder[run.zip[i].name]) => run.open /\ i = Min(run.todo)

\* An import that has not come to its backup yet.
Before == run.at \in {"extract", "check", "key", "ask", "backup"}

\* Backups have a suffix of at most the imports that have come to theirs, and
\* the one under way is about to be filled.
BackupShape ==
  /\ imports \in 0 .. MaxImport
  /\ Before => imports >= 1
  /\ \A s : \A n \in Nat : <<s, n>> \in DOMAIN backups =>
       n <= (IF Before THEN imports - 1 ELSE imports)
  /\ run.at = "copy" => run.name \in DOMAIN backups /\ backups[run.name] = Torn
  /\ run.at = "write" /\ IsThere(dest) =>
       \E b \in DOMAIN backups : backups[b] = dest

\* The configuration is cut short while it is written, or was by an import that
\* died; once there is one, there always is.
DestShape ==
  /\ dest.kind \in {"absent", "config", "torn"}
  /\ dest.kind = "torn" => dest = Torn
  /\ dest.kind = "torn" => excused # "no" \/ run.at = "fill"
  /\ run.at = "fill" => dest.kind = "torn"
  /\ dest.kind = "absent" => paired = Placeholder

\* The key read, and then the key chosen by Enter, is the phone's, unless it is
\* a number or the bundle's configuration is empty.
Chose == run.at \in {"backup", "copy", "write", "fill"}
KeyShape ==
  paired # Placeholder /\ excused = "no" =>
    /\ run.at = "ask" => run.mine = paired \/ run.number
    /\ Chose /\ run.kept => run.key.key = paired \/ run.excuse # "no"

ImportInv ==
  Extracting /\ BackupShape /\ DestShape /\ KeyShape /\ OriginalKept /\ KeyKept

LEMMA ImportBegins == ImportInit => ImportInv
<1> SUFFICES ASSUME ImportInit PROVE ImportInv
  OBVIOUS
<1> USE DEF ImportInit, Idle, Absent
<1>1. Extracting /\ DestShape /\ KeyShape
  BY DEF Extracting, DestShape, KeyShape, Chose
<1>2. BackupShape
  BY ArchiveAssumption DEF BackupShape, Before
<1> QED BY <1>1, <1>2 DEF ImportInv, OriginalKept, KeyKept, Readable

\* The entries of a zip that are extracted have names of their own.
LEMMA PlanNames ==
  ASSUME NEW z \in Archive
  PROVE  /\ Plan(z) \in SUBSET Nat
         /\ \A i \in Plan(z) : z[i].name \in Name
         /\ \A i, j \in Plan(z) : z[i].name = z[j].name => i = j
<1>1. z \in Seq(Entry)
  BY ArchiveAssumption
<1>2. DOMAIN z = 1 .. Len(z) /\ Len(z) \in Nat
  BY <1>1
<1>3. Plan(z) \subseteq DOMAIN z
  BY DEF Plan
<1>4. \A i \in DOMAIN z : z[i].name \in Name
  BY DEF Name, ToSet
<1>5. \A i, j \in Plan(z) : z[i].name = z[j].name => i = j
  BY ArchiveAssumption, <1>3 DEF Plan
<1> QED BY <1>2, <1>3, <1>4, <1>5

\* The least number without a backup of this second is none too many.
LEMMA FreeNameIsFree ==
  ASSUME BackupShape, run.at = "backup"
  PROVE  /\ FreeName \notin DOMAIN backups
         /\ \E n \in 1 .. imports : FreeName = <<second, n>>
<1> DEFINE taken == {n \in 1 .. MaxImport : <<second, n>> \in DOMAIN backups}
           free == {n \in 1 .. MaxImport + 1 : n \notin taken}
           P(n) == n \notin taken /\ \A m \in 1 .. n - 1 : m \in taken
<1>1. imports \in 1 .. MaxImport /\ MaxImport \in Nat
  BY ArchiveAssumption DEF BackupShape, Before
<1>2. <<second, imports>> \notin DOMAIN backups
  BY <1>1 DEF BackupShape, Before
<1>3. imports \in free /\ free \in SUBSET Nat
  BY <1>1, <1>2
<1>4. PICK x \in free : \A y \in free : ~ <<y, x>> \in OpToRel(<, Nat)
  BY <1>3, NatLessThanWellFounded, WFMin, Zenon
<1>5. \A y \in free : x <= y
  <2> SUFFICES ASSUME NEW y \in free, y < x PROVE FALSE
    BY <1>3
  <2>1. <<y, x>> \in OpToRel(<, Nat)
    BY <1>3 DEF OpToRel
  <2> QED BY <1>4, <2>1
<1>6. \A m \in 1 .. x - 1 : m \in taken
  BY <1>5, <1>1
<1>7. x \in 1 .. MaxImport + 1 /\ P(x)
  BY <1>6
<1> DEFINE c == CHOOSE n \in 1 .. MaxImport + 1 : P(n)
<1>8. c \in 1 .. MaxImport + 1 /\ P(c)
  BY <1>7, Zenon
<1>9. FreeName = <<second, c>>
  BY DEF FreeName
<1> HIDE DEF c
<1>10. c <= imports
  BY <1>8, <1>1, <1>2
<1>11. c \in 1 .. imports /\ c \in 1 .. MaxImport
  BY <1>8, <1>10, <1>1
<1>12. <<second, c>> \notin DOMAIN backups
  BY <1>8, <1>11
<1> QED BY <1>9, <1>11, <1>12

LEMMA ImportZipStep ==
  ASSUME ImportInv, NEW z \in Archive, NEW o \in BOOLEAN, NEW t \in BOOLEAN,
         ImportZip(z, o, t)
  PROVE  ImportInv'
<1> USE DEF ImportInv, ImportZip
<1>1. CASE run' = Idle
  <2>1. Extracting' /\ KeyShape' /\ DestShape'
    BY <1>1 DEF Extracting, KeyShape, DestShape, Idle, Chose
  <2>2. BackupShape'
    BY <1>1, ArchiveAssumption DEF BackupShape, Before, Idle
  <2> QED BY <2>1, <2>2 DEF OriginalKept, KeyKept
<1>2. CASE run' # Idle
  <2>1. /\ run' = [at |-> "extract", zip |-> z, todo |-> Plan(z), open |-> FALSE,
                   override |-> o, terminal |-> t]
        /\ \A i \in Plan(z) : ~IsThere(folder[z[i].name])
    BY <1>2
  <2>2. Extracting'
    BY <2>1, PlanNames DEF Extracting, ExtractRun
  <2>3. BackupShape'
    BY <2>1, ArchiveAssumption DEF BackupShape, Before, Idle
  <2>4. KeyShape' /\ DestShape'
    BY <2>1 DEF KeyShape, DestShape, Idle, Chose
  <2> QED BY <2>2, <2>3, <2>4 DEF OriginalKept, KeyKept
<1> QED BY <1>1, <1>2

LEMMA ImportFolderStep ==
  ASSUME ImportInv, NEW o \in BOOLEAN, NEW t \in BOOLEAN, ImportFolder(o, t)
  PROVE  ImportInv'
<1> USE DEF ImportInv, ImportFolder
<1>1. Extracting' /\ KeyShape' /\ DestShape'
  BY DEF Extracting, KeyShape, DestShape, Idle, Chose
<1>2. BackupShape'
  BY ArchiveAssumption DEF BackupShape, Before, Idle
<1> QED BY <1>1, <1>2 DEF OriginalKept, KeyKept

\* The one file extraction writes to, and what is left to extract.
LEMMA ExtractStep ==
  ASSUME ImportInv, Extract
  PROVE  /\ ImportInv'
         /\ \A n \in Name :
              (IsThere(folder[n]) /\ IsThere(folder'[n]) /\ folder'[n] # folder[n])
                => run.at = "extract" /\ run.open
                     /\ n = run.zip[Min(run.todo)].name
<1> DEFINE i == Min(run.todo)
           z == run.zip
           e == z[i]
<1>1. /\ run \in ExtractRun /\ run.todo # {} /\ run.todo \subseteq Plan(z)
      /\ \A j \in run.todo : IsThere(folder[z[j].name]) => run.open /\ j = i
      /\ DOMAIN folder = Name /\ run.at = "extract"
  BY DEF ImportInv, Extracting, Extract
<1>2. /\ z \in Archive /\ Plan(z) \in SUBSET Nat
      /\ \A j \in Plan(z) : z[j].name \in Name
      /\ \A j, k \in Plan(z) : z[j].name = z[k].name => j = k
  BY <1>1, PlanNames DEF ExtractRun
<1>3. i \in run.todo
  BY <1>1, <1>2, LeastIn
<1>4. UNCHANGED <<dest, backups, second, version, imports, edits, kept, paired,
                  excused>>
  BY DEF Extract
<1>5. IF run.open
        THEN /\ folder' = [folder EXCEPT ![e.name] = e.what]
             /\ run' = [run EXCEPT !.open = FALSE, !.todo = @ \ {i}]
        ELSE /\ folder' = [folder EXCEPT ![e.name] = Empty]
             /\ run' = [run EXCEPT !.open = TRUE]
  BY DEF Extract
<1> HIDE DEF i, z
<1>6. /\ run' \in ExtractRun /\ run'.zip = z
      /\ IF run.open THEN run'.todo = run.todo \ {i} /\ run'.open = FALSE
         ELSE run'.todo = run.todo /\ run'.open = TRUE
  <2>1. run.todo \ {i} \in SUBSET Nat
    BY <1>1 DEF ExtractRun
  <2>2. CASE run.open
    <3>1. run' = [run EXCEPT !.open = FALSE, !.todo = run.todo \ {i}]
      BY <1>1, <1>5, <2>2 DEF ExtractRun
    <3> QED BY <1>1, <2>1, <2>2, <3>1 DEF ExtractRun, z
  <2>3. CASE ~run.open
    BY <1>1, <1>5, <2>3 DEF ExtractRun, z
  <2> QED BY <2>2, <2>3
<1>7. DOMAIN folder' = Name /\ \A n \in Name \ {e.name} : folder'[n] = folder[n]
  BY <1>1, <1>5
<1>8. \A j \in run'.todo : j # i => ~IsThere(folder'[z[j].name])
  <2> SUFFICES ASSUME NEW j \in run'.todo, j # i
               PROVE  ~IsThere(folder'[z[j].name])
    OBVIOUS
  <2>1. j \in run.todo /\ j \in Plan(z) /\ i \in Plan(z)
    BY <1>1, <1>3, <1>6
  <2>2. z[j].name # e.name /\ z[j].name \in Name
    BY <1>2, <2>1
  <2> QED BY <1>1, <1>7, <2>1, <2>2
<1>9. Extracting'
  <2>1. CASE run.open
    BY <1>1, <1>6, <1>7, <1>8, <2>1 DEF Extracting
  <2>2. CASE ~run.open
    <3>1. run'.todo = run.todo /\ run'.open
      BY <1>6, <2>2
    <3>2. Min(run'.todo) = i
      BY <3>1 DEF i
    <3> QED BY <1>1, <1>3, <1>6, <1>7, <1>8, <3>1, <3>2 DEF Extracting
  <2> QED BY <2>1, <2>2
<1>10. run'.at = "extract"
  BY <1>6 DEF ExtractRun
<1>11. BackupShape' /\ DestShape' /\ KeyShape' /\ OriginalKept' /\ KeyKept'
  BY <1>1, <1>4, <1>10
  DEF ImportInv, BackupShape, Before, DestShape, KeyShape, OriginalKept, KeyKept, Chose
<1>12. ASSUME NEW n \in Name,
              IsThere(folder[n]) /\ IsThere(folder'[n]) /\ folder'[n] # folder[n]
       PROVE  run.open /\ n = e.name
  BY <1>1, <1>3, <1>7, <1>12
<1> QED BY <1>1, <1>9, <1>11, <1>12 DEF ImportInv, i, z

LEMMA ExtractedStep == ASSUME ImportInv, Extracted PROVE ImportInv'
<1> USE DEF ImportInv, Extracted
<1>1. Extracting' /\ KeyShape' /\ DestShape'
  BY DEF Extracting, KeyShape, DestShape, Idle, Chose
<1>2. BackupShape'
  BY DEF BackupShape, Before, Idle
<1> QED BY <1>1, <1>2 DEF OriginalKept, KeyKept

LEMMA CheckStep == ASSUME ImportInv, Check PROVE ImportInv'
<1> USE DEF ImportInv, Check
<1>1. run' = Idle \/ run' = [at |-> "key", terminal |-> run.terminal]
  OBVIOUS
<1>2. Extracting' /\ KeyShape' /\ DestShape'
  BY <1>1 DEF Extracting, KeyShape, DestShape, Idle, Chose
<1>3. BackupShape'
  BY <1>1 DEF BackupShape, Before, Idle
<1> QED BY <1>2, <1>3 DEF OriginalKept, KeyKept

\* A key that is read is the phone's, unless the configuration is in pieces.
LEMMA ReadKeyStep == ASSUME ImportInv, ReadKey PROVE ImportInv'
<1> USE DEF ImportInv, ReadKey
<1>1. Extracting' /\ DestShape'
  BY DEF Extracting, DestShape
<1>2. KeyShape'
  BY DEF KeyShape, DestShape, KeyKept, ExistingKey, AsStr, Readable, Chose
<1>3. BackupShape'
  BY DEF BackupShape, Before
<1> QED BY <1>1, <1>2, <1>3 DEF OriginalKept, KeyKept

\* Enter keeps a key that was read, where it can be written.
LEMMA EnterKeeps ==
  ASSUME NEW c, NEW mine, mine # Placeholder, c # Empty, NEW typed,
         NEW answer, answer = "enter"
  PROVE  AskedKey(c, mine, answer, typed).key = mine
<1>1. Chosen(answer, mine, AsStr(c), typed) = mine
  BY DEF Chosen
<1>2. Brought(c).key = c.key /\ WithKey(c, mine).key = mine
  BY DEF Brought, WithKey
<1>3. mine = AsStr(c) => c.key = mine
  BY DEF AsStr
<1> QED BY <1>1, <1>2, <1>3 DEF AskedKey

\* So does an import that cannot ask.
LEMMA UnaskedKeeps ==
  ASSUME NEW c, NEW mine, mine # Placeholder, c # Empty
  PROVE  UnaskedKey(c, mine).key = mine
  BY DEF UnaskedKey, Brought, WithKey

LEMMA AskStep == ASSUME ImportInv, Ask PROVE ImportInv'
<1> USE DEF ImportInv
<1> DEFINE c == folder["config.yaml"]
<1>1. run.at = "ask" /\ UNCHANGED <<folder, dest, backups, second, version, imports,
                                    edits, kept, paired, excused>>
  BY DEF Ask
<1>2. /\ run'.at = "backup" /\ run'.excuse = Excuse(c)
      /\ run'.kept =>
           \/ run'.key = UnaskedKey(c, run.mine)
           \/ \E answer, typed : answer = "enter"
                /\ run'.key = AskedKey(c, run.mine, answer, typed)
  <2>1. CASE run.terminal
    <3>1. PICK answer \in Answers(run.mine, AsStr(c)), typed \in Key :
            run' = [at |-> "backup", excuse |-> Excuse(c),
                    key |-> AskedKey(c, run.mine, answer, typed),
                    kept |-> answer = "enter"]
      BY <2>1 DEF Ask
    <3> HIDE DEF c
    <3> QED BY <3>1
  <2>2. CASE ~run.terminal
    <3>1. run' = [at |-> "backup", excuse |-> Excuse(c),
                  key |-> UnaskedKey(c, run.mine), kept |-> TRUE]
      BY <2>2 DEF Ask
    <3> HIDE DEF c
    <3> QED BY <3>1
  <2> QED BY <2>1, <2>2
<1> HIDE DEF c
<1>3. run'.kept /\ run.mine # Placeholder => run'.key.key = run.mine \/ c = Empty
  <2> SUFFICES ASSUME run'.kept, run.mine # Placeholder, c # Empty
               PROVE  run'.key.key = run.mine
    OBVIOUS
  <2> HIDE DEF ImportInv
  <2>1. CASE run'.key = UnaskedKey(c, run.mine)
    <3>1. UnaskedKey(c, run.mine).key = run.mine
      BY UnaskedKeeps
    <3> QED BY <2>1, <3>1
  <2>2. ASSUME NEW answer, NEW typed, answer = "enter",
               run'.key = AskedKey(c, run.mine, answer, typed)
        PROVE  run'.key.key = run.mine
    <3>1. AskedKey(c, run.mine, answer, typed).key = run.mine
      BY <2>2, EnterKeeps
    <3> QED BY <2>2, <3>1
  <2> QED BY <1>2, <2>1, <2>2
<1>4. run.number \/ c = Empty => run'.excuse # "no"
  BY <1>2 DEF Excuse
<1>5. Extracting' /\ DestShape'
  BY <1>1, <1>2 DEF Extracting, DestShape
<1>6. KeyShape'
  BY <1>1, <1>2, <1>3, <1>4 DEF KeyShape, Chose
<1>7. BackupShape'
  BY <1>1, <1>2 DEF BackupShape, Before
<1> QED BY <1>1, <1>5, <1>6, <1>7 DEF OriginalKept, KeyKept

LEMMA BackupStep == ASSUME ImportInv, Backup PROVE ImportInv'
<1> USE DEF ImportInv
<1>1. run.at = "backup" /\ UNCHANGED <<folder, dest, second, version, imports, edits,
                                       kept, paired, excused>>
  BY DEF Backup
<1>2. CASE ~IsThere(dest)
  <2>1. /\ backups' = backups
        /\ run' = [at |-> "write", key |-> run.key, kept |-> run.kept,
                   excuse |-> run.excuse]
    BY <1>2 DEF Backup, GoOn
  <2>2. Extracting' /\ DestShape' /\ KeyShape'
    BY <1>1, <2>1 DEF Extracting, DestShape, KeyShape, Chose
  <2>3. BackupShape'
    BY <1>1, <1>2, <2>1 DEF BackupShape, Before, IsThere
  <2> QED BY <1>1, <2>1, <2>2, <2>3 DEF OriginalKept, KeyKept
<1>3. CASE IsThere(dest)
  <2>1. /\ backups' = Put(backups, FreeName, Torn)
        /\ run' = [at |-> "copy", name |-> FreeName, key |-> run.key,
                   kept |-> run.kept, excuse |-> run.excuse]
    BY <1>3 DEF Backup
  <2>2. PICK n \in 1 .. imports : FreeName = <<second, n>>
    BY <1>1, FreeNameIsFree
  <2>3. /\ DOMAIN backups' = DOMAIN backups \cup {FreeName}
        /\ backups'[FreeName] = Torn
        /\ \A b \in DOMAIN backups : backups'[b] = backups[b]
    BY <1>1, <2>1, FreeNameIsFree DEF Put
  <2>4. Extracting' /\ DestShape' /\ KeyShape'
    BY <1>1, <2>1 DEF Extracting, DestShape, KeyShape, Chose
  <2>5. imports' = imports /\ imports \in Nat /\ imports >= 1
    BY <1>1 DEF BackupShape, Before
  <2>6. ASSUME NEW s, NEW m \in Nat, <<s, m>> \in DOMAIN backups' PROVE m <= imports
    <3>1. CASE <<s, m>> = FreeName
      BY <2>2, <3>1
    <3>2. CASE <<s, m>> \in DOMAIN backups
      <4>1. m <= imports - 1
        BY <1>1, <3>2 DEF BackupShape, Before
      <4> QED BY <4>1, <2>5
    <3> QED BY <2>3, <2>6, <3>1, <3>2
  <2>7. BackupShape'
    BY <1>1, <2>1, <2>3, <2>5, <2>6 DEF BackupShape, Before
  <2>8. OriginalKept'
    BY <1>1, <2>3 DEF OriginalKept
  <2> QED BY <1>1, <2>4, <2>7, <2>8 DEF KeyKept
<1> QED BY <1>2, <1>3

LEMMA CopiedStep == ASSUME ImportInv, Copied PROVE ImportInv'
<1> USE DEF ImportInv
<1>1. /\ run.at = "copy"
      /\ backups' = [backups EXCEPT ![run.name] = dest]
      /\ run' = [at |-> "write", key |-> run.key, kept |-> run.kept,
                 excuse |-> run.excuse]
      /\ UNCHANGED <<folder, dest, second, version, imports, edits, kept, paired,
                     excused>>
  BY DEF Copied, GoOn
<1>2. run.name \in DOMAIN backups /\ backups[run.name] = Torn
  BY <1>1 DEF BackupShape
<1>3. /\ DOMAIN backups' = DOMAIN backups /\ backups'[run.name] = dest
      /\ \A b \in DOMAIN backups \ {run.name} : backups'[b] = backups[b]
  BY <1>1, <1>2
<1>4. Extracting' /\ DestShape' /\ KeyShape'
  BY <1>1 DEF Extracting, DestShape, KeyShape, Chose
<1>5. BackupShape'
  BY <1>1, <1>2, <1>3 DEF BackupShape, Before
<1>6. ~Readable(Torn)
  BY DEF Readable, Torn
<1>7. OriginalKept'
  BY <1>1, <1>2, <1>3, <1>6 DEF OriginalKept
<1> QED BY <1>1, <1>4, <1>5, <1>7 DEF KeyKept

\* What is cut short here has its backup.
LEMMA TruncateStep == ASSUME ImportInv, Truncate PROVE ImportInv'
<1> USE DEF ImportInv
<1>1. /\ run.at = "write" /\ dest' = Torn
      /\ run' = [at |-> "fill", key |-> run.key, kept |-> run.kept,
                 excuse |-> run.excuse]
      /\ UNCHANGED <<folder, backups, second, version, imports, edits, kept, paired,
                     excused>>
  BY DEF Truncate, GoOn
<1>2. Extracting' /\ DestShape' /\ KeyShape'
  BY <1>1 DEF Extracting, DestShape, KeyShape, Torn, Chose
<1>3. BackupShape'
  BY <1>1 DEF BackupShape, Before
<1>4. Readable(dest) => \E b \in DOMAIN backups : backups[b] = dest
  BY <1>1 DEF BackupShape, Readable, IsThere
<1>5. OriginalKept'
  BY <1>1, <1>4 DEF OriginalKept
<1>6. KeyKept'
  BY <1>1 DEF KeyKept, Readable, Torn
<1> QED BY <1>2, <1>3, <1>5, <1>6

LEMMA FillStep == ASSUME ImportInv, Fill PROVE ImportInv'
<1> USE DEF ImportInv
<1>1. /\ run.at = "fill" /\ run' = Idle
      /\ dest' = [kind |-> "config", key |-> run.key.key, form |-> run.key.form,
                  version |-> version + 1]
      /\ kept' = kept \cup {version + 1}
      /\ IF run.kept /\ paired # Placeholder
           THEN paired' = paired
                  /\ excused' = IF run.excuse = "no" THEN excused ELSE run.excuse
           ELSE paired' = run.key.key /\ excused' = excused
      /\ UNCHANGED <<folder, backups, second, imports, edits>>
  BY DEF Fill, Install
<1>2. Extracting' /\ DestShape' /\ KeyShape'
  BY <1>1 DEF Extracting, DestShape, KeyShape, Chose, Idle
<1>3. BackupShape'
  BY <1>1 DEF BackupShape, Before, Idle
<1>4. ~Readable(dest) /\ Readable(dest') /\ dest'.version = version + 1
  BY <1>1 DEF DestShape, Readable
<1>5. OriginalKept'
  BY <1>1, <1>4 DEF OriginalKept
<1>6. KeyKept'
  BY <1>1 DEF KeyKept, KeyShape, Chose, Readable
<1> QED BY <1>2, <1>3, <1>5, <1>6

LEMMA DieStep ==
  ASSUME ImportInv, Die
  PROVE  /\ ImportInv'
         /\ \A n \in Name : folder'[n] # folder[n] =>
              run.at = "extract" /\ run.open /\ n = run.zip[Min(run.todo)].name
<1> USE DEF ImportInv
<1>1. /\ run' = Idle /\ excused' = IF dest = Torn THEN "torn" ELSE excused
      /\ UNCHANGED <<dest, backups, second, version, imports, edits, kept, paired>>
  BY DEF Die
<1> DEFINE name == run.zip[Min(run.todo)].name
<1>2. \/ folder' = folder
      \/ /\ run.at = "extract" /\ run.open
         /\ \E c : folder' = [folder EXCEPT ![name] = c]
  BY DEF Die
<1> HIDE DEF name
<1>3. /\ DOMAIN folder' = DOMAIN folder
      /\ \A n \in Name : folder'[n] # folder[n] =>
           run.at = "extract" /\ run.open /\ n = name
  BY <1>2 DEF Extracting
<1>4. Extracting' /\ KeyShape'
  BY <1>1, <1>3 DEF Extracting, KeyShape, Chose, Idle
<1>5. DestShape'
  BY <1>1 DEF DestShape, Idle, Torn
<1>6. BackupShape'
  BY <1>1 DEF BackupShape, Before, Idle
<1>7. OriginalKept' /\ KeyKept'
  BY <1>1 DEF OriginalKept, KeyKept, DestShape
<1> QED BY <1>3, <1>4, <1>5, <1>6, <1>7 DEF name

LEMMA EditStep ==
  ASSUME ImportInv, NEW k \in Key, NEW f \in Forms(k), Edit(k, f)
  PROVE  ImportInv'
<1> USE DEF ImportInv
<1>1. /\ run.at \in {"idle", "ask"}
      /\ dest' = [kind |-> "config", key |-> k, form |-> f, version |-> version + 1]
      /\ kept' = (kept \ (IF Readable(dest) THEN {dest.version} ELSE {}))
                   \cup {version + 1}
      /\ paired' = k /\ excused' = IF run.at = "ask" THEN "asked" ELSE "no"
      /\ UNCHANGED <<folder, backups, run, second, imports>>
  BY DEF Edit, Install
<1>2. Extracting' /\ DestShape' /\ KeyShape'
  BY <1>1 DEF Extracting, DestShape, KeyShape, Chose
<1>3. BackupShape'
  BY <1>1 DEF BackupShape, Before
<1>4. Readable(dest') /\ dest'.version = version + 1
  BY <1>1 DEF Readable
<1>5. OriginalKept'
  BY <1>1, <1>4 DEF OriginalKept
<1>6. KeyKept'
  BY <1>1 DEF KeyKept
<1> QED BY <1>2, <1>3, <1>5, <1>6

LEMMA CleanUpStep == ASSUME ImportInv, CleanUp PROVE ImportInv'
<1> USE DEF ImportInv, CleanUp
<1>1. Extracting' /\ KeyShape' /\ DestShape'
  BY DEF Extracting, KeyShape, DestShape, Idle, Chose
<1>2. BackupShape'
  BY DEF BackupShape, Before
<1> QED BY <1>1, <1>2 DEF OriginalKept, KeyKept

\* The wall clock, or nothing at all.
LEMMA ClockStep ==
  ASSUME ImportInv, SecondPasses \/ UNCHANGED importVars
  PROVE  ImportInv'
<1>1. UNCHANGED <<folder, dest, backups, run, imports, kept, paired, excused>>
  BY DEF SecondPasses, importVars
<1>2. Extracting' /\ KeyShape' /\ DestShape'
  BY <1>1 DEF ImportInv, Extracting, KeyShape, DestShape, Chose
<1>3. BackupShape'
  BY <1>1 DEF ImportInv, BackupShape, Before
<1> QED BY <1>1, <1>2, <1>3 DEF ImportInv, OriginalKept, KeyKept

LEMMA ImportInvariant == ImportSpec => []ImportInv
<1>1. ImportInv /\ [ImportNext]_importVars => ImportInv'
  <2> SUFFICES ASSUME ImportInv, [ImportNext]_importVars PROVE ImportInv'
    OBVIOUS
  <2>1. CASE \E z \in Archive, o, t \in BOOLEAN : ImportZip(z, o, t)
    BY <2>1, ImportZipStep
  <2>2. CASE \E o, t \in BOOLEAN : ImportFolder(o, t)
    BY <2>2, ImportFolderStep
  <2>3. CASE Extract
    BY <2>3, ExtractStep
  <2>4. CASE Extracted \/ Check \/ ReadKey \/ Ask
    BY <2>4, ExtractedStep, CheckStep, ReadKeyStep, AskStep
  <2>5. CASE Backup \/ Copied \/ Truncate \/ Fill
    BY <2>5, BackupStep, CopiedStep, TruncateStep, FillStep
  <2>6. CASE Die
    BY <2>6, DieStep
  <2>7. CASE \E k \in Key : \E f \in Forms(k) : Edit(k, f)
    BY <2>7, EditStep
  <2>8. CASE CleanUp
    BY <2>8, CleanUpStep
  <2>9. CASE SecondPasses \/ UNCHANGED importVars
    BY <2>9, ClockStep
  <2> QED BY <2>1, <2>2, <2>3, <2>4, <2>5, <2>6, <2>7, <2>8, <2>9 DEF ImportNext
<1> QED BY ImportBegins, <1>1, PTL DEF ImportSpec

\* However often an import is killed and run again, and whatever is edited in
\* between: no configuration is lost, and no phone unpaired but for a key that
\* YAML types as a number, a bundle whose configuration a killed extraction left
\* empty, a write cut short and an edit while the import asks (import_impl).
THEOREM ImportLosesNothing == ImportSpec => []ImportKeeps
<1>1. ImportInv => ImportKeeps
  BY DEF ImportInv, ImportKeeps
<1> QED BY ImportInvariant, <1>1, PTL

\* An import changes no file of the folder that it has not just created
\* (extract_bundle_zip).
THEOREM ImportOnlyAdds == ImportSpec => NothingOverwritten
<1> DEFINE Added == \A n \in Name :
             (IsThere(folder[n]) /\ IsThere(folder'[n]) /\ folder'[n] # folder[n])
               => run.at = "extract" /\ run.open
                    /\ n = run.zip[Min(run.todo)].name
<1>1. ImportInv /\ [ImportNext]_importVars => [Added]_importVars
  <2> SUFFICES ASSUME ImportInv, ImportNext PROVE Added
    OBVIOUS
  <2>1. CASE Extract
    BY <2>1, ExtractStep
  <2>2. CASE CleanUp
    BY <2>2 DEF CleanUp, IsThere, Absent
  <2>3. CASE Die
    BY <2>3, DieStep
  <2>4. CASE ~Extract /\ ~CleanUp /\ ~Die
    <3>1. folder' = folder
      BY <2>4 DEF ImportNext, ImportZip, ImportFolder, Extracted, Check, ReadKey, Ask,
         Backup, Copied, Truncate, Fill, Edit, SecondPasses
    <3> QED BY <3>1
  <2> QED BY <2>1, <2>2, <2>3, <2>4
<1> QED BY ImportInvariant, <1>1, PTL DEF ImportSpec, NothingOverwritten

-----------------------------------------------------------------------------
(* Resampling: what comes out does not depend on how the stream is cut.     *)

OutSample == [lo : Int, hi : Int, part : Int]
Streams ==
  [kind : {"passthrough", "decimate", "linear"}, src : Nat \ {0}, dst : Nat \ {0},
   fed : Nat, phase : Nat, window : Int, pos : Nat, last : Int, skipped : BOOLEAN]

Factor == rs.src \div rs.dst

\* Where each kind of resampler stands between two chunks.
PassesOn == Len(out) = rs.fed
Decimating ==
  /\ Factor \in Nat \ {0}
  /\ rs.fed = Len(out) * Factor + rs.phase /\ rs.phase < Factor
  /\ rs.window \in {Taps - 1, Taps}
Interpolating ==
  /\ rs.pos = Len(out) * rs.src
  /\ rs.last = rs.fed - 1
  /\ rs.pos \div rs.dst + 1 >= rs.fed

ResamplerInv ==
  /\ rs \in Streams /\ out \in Seq(OutSample)
  /\ rs.kind = "passthrough" => PassesOn
  /\ rs.kind = "decimate" => Decimating
  /\ rs.kind = "linear" => Interpolating
  /\ ~rs.skipped
  /\ \A k \in 1 .. Len(out) : out[k] = OutputOf(k - 1)

\* What a whole quotient and its rest are.
LEMMA Quotient ==
  ASSUME NEW a \in Nat, NEW b \in Nat \ {0}
  PROVE  /\ a \div b \in Nat /\ a % b \in 0 .. b - 1
         /\ (a \div b) * b \in Nat
         /\ a = (a \div b) * b + (a % b)
<1> DEFINE q == a \div b
           r == a % b
<1>1. q \in Nat /\ r \in 0 .. b - 1
  OBVIOUS
<1>2. r = a - b * q
  BY SMTT(60)
<1> HIDE DEF q, r
<1>3. b * q = q * b /\ q * b \in Nat
  BY <1>1
<1>4. a = q * b + r
  BY <1>1, <1>2, <1>3
<1> QED BY <1>1, <1>3, <1>4, Zenon DEF q, r

\* A sequence of samples continued.
LEMMA Continued ==
  ASSUME NEW q \in Seq(OutSample), NEW c \in Nat, NEW g \in [1 .. c -> OutSample]
  PROVE  /\ q \o g \in Seq(OutSample) /\ Len(q \o g) = Len(q) + c
         /\ \A k \in 1 .. Len(q) : (q \o g)[k] = q[k]
         /\ \A j \in 1 .. c : (q \o g)[Len(q) + j] = g[j]
<1>1. g \in Seq(OutSample) /\ Len(g) = c
  OBVIOUS
<1> HIDE DEF OutSample
<1>2. q \o g \in Seq(OutSample) /\ Len(q \o g) = Len(q) + c
  BY <1>1
<1> QED BY <1>1, <1>2

\* The invariant of a longer output, from what is new in it.
LEMMA Grown ==
  ASSUME ResamplerInv, NEW c \in Nat, NEW g \in [1 .. c -> OutSample],
         out' = out \o g, rs'.kind = rs.kind, rs'.src = rs.src, rs'.dst = rs.dst,
         \A j \in 1 .. c : g[j] = OutputOf(Len(out) + j - 1)
  PROVE  /\ out' \in Seq(OutSample) /\ Len(out') = Len(out) + c
         /\ \A k \in 1 .. Len(out') : out'[k] = OutputOf(k - 1)'
<1>1. out \in Seq(OutSample) /\ Len(out) \in Nat
  BY DEF ResamplerInv
<1>2. \A x : OutputOf(x)' = OutputOf(x)
  BY DEF OutputOf, Plain
<1>3. /\ out' \in Seq(OutSample) /\ Len(out') = Len(out) + c
      /\ \A k \in 1 .. Len(out) : out'[k] = out[k]
      /\ \A j \in 1 .. c : out'[Len(out) + j] = g[j]
  BY <1>1, Continued
<1>4. ASSUME NEW k \in 1 .. Len(out')
      PROVE  out'[k] = OutputOf(k - 1)
  <2>1. CASE k <= Len(out)
    <3>1. k \in 1 .. Len(out)
      BY <1>1, <1>3, <1>4, <2>1
    <3> QED BY <3>1, <1>3 DEF ResamplerInv
  <2>2. CASE k > Len(out)
    <3>1. k - Len(out) \in 1 .. c /\ Len(out) + (k - Len(out)) = k
      BY <1>1, <1>3, <1>4, <2>2
    <3>2. /\ out'[Len(out) + (k - Len(out))] = g[k - Len(out)]
          /\ g[k - Len(out)] = OutputOf(Len(out) + (k - Len(out)) - 1)
      BY <1>3, <3>1
    <3> QED BY <3>1, <3>2
  <2> QED BY <1>1, <1>3, <1>4, <2>1, <2>2
<1> QED BY <1>2, <1>3, <1>4

LEMMA StreamBegins ==
  ASSUME NEW r \in [src : Nat \ {0}, dst : Nat \ {0}],
         rs = NewResampler(r), out = <<>>
  PROVE  ResamplerInv
<1>1. Taps \in Nat \ {0}
  BY ResamplerAssumption
<1>2. r.src \in Nat \ {0} /\ r.dst \in Nat \ {0}
  OBVIOUS
<1>3. /\ rs \in Streams /\ ~rs.skipped
      /\ rs.kind = KindFor(r) /\ rs.src = r.src /\ rs.dst = r.dst
      /\ rs.fed = 0 /\ rs.phase = 0 /\ rs.window = Taps - 1
      /\ rs.pos = 0 /\ rs.last = -1
  BY <1>1, <1>2 DEF NewResampler, Streams, KindFor
<1>4. out \in Seq(OutSample) /\ Len(out) = 0
  OBVIOUS
<1>5. PassesOn
  BY <1>3, <1>4 DEF PassesOn
<1>6. ASSUME rs.kind = "decimate" PROVE Decimating
  <2>1. r.src > r.dst
    BY <1>3, <1>6 DEF KindFor
  <2>2. Factor \in Nat \ {0}
    <3> DEFINE q == r.src \div r.dst
    <3>1. q \in Nat /\ r.src = q * r.dst + (r.src % r.dst) /\ r.src % r.dst \in 0 .. r.dst - 1
      BY <1>2, Quotient
    <3>2. q # 0
      <4> SUFFICES ASSUME q = 0 PROVE FALSE
        OBVIOUS
      <4>1. q * r.dst = 0
        BY <1>2
      <4> HIDE DEF q
      <4> QED BY <3>1, <4>1, <2>1, <1>2
    <3> QED BY <3>1, <3>2, <1>3 DEF Factor
  <2>3. \A f \in Nat : 0 * f = 0
    OBVIOUS
  <2>4. Len(out) * Factor = 0
    BY <1>4, <2>2, <2>3
  <2>5. rs.fed = Len(out) * Factor + rs.phase
    <3>1. 0 = 0 + 0
      OBVIOUS
    <3> QED BY <1>3, <2>4, <3>1, Zenon
  <2>6. rs.phase < Factor
    BY <1>3, <2>2
  <2> QED BY <1>1, <1>3, <2>2, <2>5, <2>6 DEF Decimating
<1>7. Interpolating
  <2>1. Len(out) * rs.src = 0
    BY <1>2, <1>3, <1>4
  <2>2. 0 \div rs.dst = 0
    BY <1>2, <1>3
  <2> QED BY <1>3, <2>1, <2>2 DEF Interpolating
<1>8. \A k \in 1 .. Len(out) : out[k] = OutputOf(k - 1)
  BY <1>4
<1> QED BY <1>3, <1>4, <1>5, <1>6, <1>7, <1>8 DEF ResamplerInv

LEMMA NextStreamBegins ==
  ASSUME NEW r \in [src : Nat \ {0}, dst : Nat \ {0}]
  PROVE  (rs = NewResampler(r) /\ out = <<>> => ResamplerInv)'
<1>1. rs = NewResampler(r) /\ out = <<>> => ResamplerInv
  BY StreamBegins
<1> QED BY <1>1, PTL

LEMMA ThroughStep ==
  ASSUME ResamplerInv, rs.kind = "passthrough", NEW n \in Nat, Through(n)
  PROVE  ResamplerInv'
<1> DEFINE g == [j \in 1 .. n |-> Plain(rs.fed + j - 1)]
<1>1. /\ rs \in Streams /\ out \in Seq(OutSample) /\ Len(out) = rs.fed
      /\ ~rs.skipped
  BY DEF ResamplerInv, PassesOn
<1>2. rs.fed \in Nat
  BY <1>1 DEF Streams
<1>3. g \in [1 .. n -> OutSample]
  BY <1>2 DEF Plain, OutSample
<1>4. /\ rs' \in Streams /\ rs'.fed = rs.fed + n
      /\ rs'.kind = rs.kind /\ rs'.src = rs.src /\ rs'.dst = rs.dst
      /\ rs'.skipped = rs.skipped
  <2>1. rs' = [rs EXCEPT !.fed = rs.fed + n]
    BY DEF Through
  <2>2. rs.fed + n \in Nat
    BY <1>2
  <2>3. rs' \in Streams
    BY <1>1, <2>1, <2>2 DEF Streams
  <2> QED BY <1>1, <2>1, <2>3 DEF Streams
<1>5. \A j \in 1 .. n : g[j] = OutputOf(Len(out) + j - 1)
  BY <1>1 DEF OutputOf
<1>6. out' = out \o g
  BY DEF Through
<1> HIDE DEF g
<1>7. /\ out' \in Seq(OutSample) /\ Len(out') = Len(out) + n
      /\ \A k \in 1 .. Len(out') : out'[k] = OutputOf(k - 1)'
  BY <1>3, <1>4, <1>5, <1>6, Grown
<1>8. PassesOn'
  BY <1>1, <1>4, <1>7 DEF PassesOn
<1> QED BY <1>1, <1>4, <1>7, <1>8 DEF ResamplerInv

\* m * f of the input has gone into outputs and `phase` has not; n more come.
TakenUpTo(m, f, phase, n, c, rest) ==
  /\ c \in Nat /\ rest \in 0 .. f - 1
  /\ m * f + phase + n = (m + c) * f + rest
  /\ \A k \in 1 .. c : /\ k * f \in Nat /\ k * f >= f
                      /\ m * f + k * f = (m + k) * f

LEMMA Decimated ==
  ASSUME NEW m \in Nat, NEW f \in Nat \ {0}, NEW phase \in 0 .. f - 1, NEW n \in Nat
  PROVE  TakenUpTo(m, f, phase, n, (phase + n) \div f, (phase + n) % f)
<1> DEFINE c == (phase + n) \div f
           rest == (phase + n) % f
<1>1. phase + n \in Nat
  OBVIOUS
<1>2. c \in Nat /\ rest \in 0 .. f - 1 /\ c * f \in Nat /\ phase + n = c * f + rest
  BY <1>1, Quotient
<1> HIDE DEF c, rest
<1>3. \A k \in Nat : m * f + k * f = (m + k) * f
  BY SMTT(30)
<1>4. \A k \in Nat \ {0} : k * f \in Nat /\ k * f >= f
  BY SMTT(30)
<1>5. m * f \in Nat /\ m * f + c * f = (m + c) * f
  BY <1>2, <1>3
<1>6. m * f + phase + n = (m + c) * f + rest
  BY <1>2, <1>5
<1>7. \A k \in 1 .. c : k \in Nat \ {0}
  BY <1>2
<1>8. \A k \in 1 .. c : /\ k * f \in Nat /\ k * f >= f
                       /\ m * f + k * f = (m + k) * f
  BY <1>3, <1>4, <1>7
<1> QED BY <1>2, <1>6, <1>8, Zenon DEF c, rest, TakenUpTo

LEMMA DecimateStep ==
  ASSUME ResamplerInv, rs.kind = "decimate", NEW n \in Nat, Decimate(n)
  PROVE  ResamplerInv'
<1> DEFINE f == Factor
           m == Len(out)
           c == (rs.phase + n) \div f
           rest == (rs.phase + n) % f
           at(k) == k * f - rs.phase
           i(k) == rs.fed + at(k) - 1
           sample(k) == IF rs.window + at(k) >= Taps
                        THEN [lo |-> i(k) - Taps + 1, hi |-> i(k), part |-> 0]
                        ELSE Plain(i(k))
           g == [k \in 1 .. c |-> sample(k)]
<1>1. /\ rs \in Streams /\ out \in Seq(OutSample) /\ ~rs.skipped
      /\ f \in Nat \ {0} /\ rs.fed = m * f + rs.phase /\ rs.phase < f
      /\ rs.window \in {Taps - 1, Taps} /\ m \in Nat
  BY DEF ResamplerInv, Decimating
<1>2. rs.fed \in Nat /\ rs.phase \in 0 .. f - 1 /\ rs.phase \in Nat
  <2>1. rs.fed \in Nat /\ rs.phase \in Nat
    BY <1>1 DEF Streams
  <2> QED BY <1>1, <2>1
<1>3. Taps \in Nat \ {0}
  BY ResamplerAssumption
<1>4. out' = out \o g
  BY DEF Decimate, DecimateFrom, Factor
<1>5. rs' = [rs EXCEPT !.fed = @ + n, !.phase = rest,
                       !.window = IF @ + n < Taps THEN @ + n ELSE Taps]
  BY DEF Decimate, DecimateFrom, Factor
<1>6. \A k : OutputOf(k) = [lo |-> ((k + 1) * f - 1) - Taps + 1,
                            hi |-> (k + 1) * f - 1, part |-> 0]
  BY DEF OutputOf, Factor
<1>f. Factor' = (rs'.src \div rs'.dst)
  BY DEF Factor
<1> HIDE DEF f
<1>t. TakenUpTo(m, f, rs.phase, n, c, rest)
  BY <1>1, <1>2, Decimated
<1>7. /\ c \in Nat /\ rest \in 0 .. f - 1
      /\ m * f + rs.phase + n = (m + c) * f + rest
      /\ \A k \in 1 .. c : /\ k * f \in Nat /\ k * f >= f
                          /\ m * f + k * f = (m + k) * f
  BY <1>t, Zenon DEF TakenUpTo
<1> HIDE DEF c, rest
<1>8. ASSUME NEW k \in 1 .. c
      PROVE  sample(k) \in OutSample /\ sample(k) = OutputOf(m + k - 1)
  <2> DEFINE p == k * f
             q == m * f
  <2>1. p \in Nat /\ p >= f /\ q + p = (m + k) * f /\ rs.fed = q + rs.phase
    BY <1>1, <1>7
  <2>2. q \in Nat
    BY <1>1
  <2>3. (m + k - 1) + 1 = m + k
    BY <1>1, <1>7
  <2> HIDE DEF p, q
  <2>4. at(k) = p - rs.phase
    BY DEF p
  <2>5. at(k) \in Nat \ {0} /\ i(k) = (q + p) - 1 /\ i(k) \in Int
    <3> DEFINE a == at(k)
               h == rs.phase
               b == rs.fed
    <3>1. /\ a = p - h /\ b = q + h /\ h < f /\ p >= f
          /\ p \in Nat /\ q \in Nat /\ h \in Nat /\ f \in Nat
      BY <1>1, <1>2, <2>1, <2>2, <2>4
    <3>2. i(k) = b + a - 1
      OBVIOUS
    <3> HIDE DEF a, b, h, at
    <3>3. a \in Nat \ {0} /\ b + a - 1 = (q + p) - 1
      BY <3>1
    <3>4. (q + p) - 1 \in Int
      BY <3>1
    <3> QED BY <3>2, <3>3, <3>4 DEF a, b
  <2> HIDE DEF at, i
  <2>6. rs.window + at(k) >= Taps
    BY <1>1, <1>3, <2>5
  <2>7. sample(k) = [lo |-> i(k) - Taps + 1, hi |-> i(k), part |-> 0]
    BY <2>6
  <2>8. OutputOf(m + k - 1) = [lo |-> ((m + k) * f - 1) - Taps + 1,
                               hi |-> (m + k) * f - 1, part |-> 0]
    BY <1>6, <2>3
  <2>9. i(k) = (m + k) * f - 1
    BY <2>1, <2>5
  <2>10. sample(k) \in OutSample
    BY <1>3, <2>5, <2>7 DEF OutSample
  <2> HIDE DEF sample
  <2> QED BY <2>7, <2>8, <2>9, <2>10
<1> HIDE DEF sample
<1>9. g \in [1 .. c -> OutSample] /\ \A k \in 1 .. c : g[k] = OutputOf(Len(out) + k - 1)
  BY <1>8
<1> HIDE DEF g
<1>10. /\ rs' \in Streams /\ rs'.fed = rs.fed + n /\ rs'.phase = rest
       /\ rs'.window = (IF rs.window + n < Taps THEN rs.window + n ELSE Taps)
       /\ rs'.kind = rs.kind /\ rs'.src = rs.src /\ rs'.dst = rs.dst
       /\ rs'.skipped = rs.skipped
  <2> DEFINE w == IF rs.window + n < Taps THEN rs.window + n ELSE Taps
             e == rs.fed + n
  <2>1. rest \in Nat /\ e \in Nat /\ w \in Int
    BY <1>1, <1>2, <1>3, <1>7
  <2>2. rs' = [rs EXCEPT !.fed = e, !.phase = rest, !.window = w]
    BY <1>5
  <2> HIDE DEF w, e
  <2>3. rs' \in Streams
    BY <1>1, <2>1, <2>2 DEF Streams
  <2>4. /\ rs'.fed = e /\ rs'.phase = rest /\ rs'.window = w
        /\ rs'.kind = rs.kind /\ rs'.src = rs.src /\ rs'.dst = rs.dst
        /\ rs'.skipped = rs.skipped
    BY <1>1, <2>2, <2>3 DEF Streams
  <2> QED BY <2>3, <2>4 DEF w, e
<1>11. /\ out' \in Seq(OutSample) /\ Len(out') = m + c
       /\ \A k \in 1 .. Len(out') : out'[k] = OutputOf(k - 1)'
  BY <1>4, <1>7, <1>9, <1>10, Grown
<1>12. Decimating'
  <2>1. Factor' = f
    BY <1>f, <1>10 DEF f, Factor
  <2>2. rs'.fed = (m + c) * f + rest
    BY <1>1, <1>2, <1>7, <1>10
  <2>3. rs'.window \in {Taps - 1, Taps}
    BY <1>1, <1>3, <1>10
  <2> QED BY <1>1, <1>7, <1>10, <1>11, <2>1, <2>2, <2>3 DEF Decimating
<1> QED BY <1>1, <1>10, <1>11, <1>12 DEF ResamplerInv

\* Output k from position `pos` on needs the inputs at its position, a quotient,
\* and after it: K is what a chunk of n inputs that begins at `base` allows.
Offset(pos, s, d, base, k) == (pos + k * s) \div d - base

Reaches(pos, s, d, base, n, K, c) ==
  /\ c \in Nat /\ K = 0 .. c - 1
  /\ Offset(pos, s, d, base, c) + 1 >= n
  /\ \A k \in Nat : /\ Offset(pos, s, d, base, k) \in Int
                    /\ Offset(pos, s, d, base, k) >= -1
                    /\ base = 0 => Offset(pos, s, d, base, k) >= 0

LEMMA LinearReach ==
  ASSUME NEW pos \in Nat, NEW s \in Nat \ {0}, NEW d \in Nat \ {0},
         NEW base \in Nat, NEW n \in Nat \ {0}, pos \div d + 1 >= base,
         NEW K, K = {k \in 0 .. n * d : Offset(pos, s, d, base, k) + 1 < n}
  PROVE  Reaches(pos, s, d, base, n, K, Cardinality(K))
<1> DEFINE at(k) == pos + k * s
           rel(k) == Offset(pos, s, d, base, k)
           N == n * d
           Full == {k \in Nat : rel(k) + 1 >= n}
           c == Min(Full)
<1>1. N \in Nat
  OBVIOUS
<1>2. \A k \in Nat : k * s \in Nat /\ k * s >= k
  BY SMTT(30)
<1>3. \A j, k \in Nat : j <= k => j * s <= k * s
  BY SMTT(30)
<1>4. \A x, y \in Nat : x <= y => x \div d <= y \div d
  OBVIOUS
<1>5. \A x \in Nat : x \div d \in Nat
  OBVIOUS
<1>6. \A k \in Nat : rel(k) \in Int /\ rel(k) = at(k) \div d - base
  BY <1>2, <1>5 DEF Offset
<1>7. \A j, k \in Nat : j <= k => rel(j) <= rel(k)
  <2> SUFFICES ASSUME NEW j \in Nat, NEW k \in Nat, j <= k PROVE rel(j) <= rel(k)
    OBVIOUS
  <2>1. at(j) \in Nat /\ at(k) \in Nat /\ at(j) <= at(k)
    BY <1>2, <1>3
  <2> HIDE DEF at
  <2>2. at(j) \div d <= at(k) \div d /\ at(j) \div d \in Nat /\ at(k) \div d \in Nat
    BY <1>4, <1>5, <2>1
  <2> HIDE DEF rel
  <2> QED BY <1>6, <2>2
<1>8. rel(0) >= -1 /\ (base = 0 => rel(0) >= 0)
  <2>1. at(0) = pos
    <3>1. 0 * s = 0
      OBVIOUS
    <3> QED BY <3>1
  <2>2. pos \div d \in Nat
    BY <1>5
  <2>3. rel(0) = pos \div d - base
    BY <2>1 DEF Offset
  <2> HIDE DEF rel
  <2> QED BY <2>2, <2>3
<1>9. N \in Full
  <2>1. N * s \in Nat /\ N <= N * s
    BY <1>1, <1>2
  <2>2. (pos + N) \div d = pos \div d + n
    BY SMTT(60)
  <2>3. pos + N \in Nat /\ at(N) \in Nat /\ pos + N <= at(N)
    BY <1>1, <2>1
  <2>4. (pos + N) \div d <= at(N) \div d
    BY <1>4, <2>3
  <2>5. rel(N) = at(N) \div d - base
    BY <1>1, <1>6
  <2>6. pos \div d \in Nat /\ at(N) \div d \in Nat
    BY <1>5, <2>3
  <2> HIDE DEF at
  <2>7. rel(N) + 1 >= n
    <3> DEFINE y == at(N) \div d
               x == pos \div d
    <3>1. x + n <= y /\ x \in Nat /\ y \in Nat /\ rel(N) = y - base /\ x + 1 >= base
      BY <2>2, <2>4, <2>5, <2>6
    <3> HIDE DEF x, y, rel
    <3> QED BY <3>1
  <2> HIDE DEF rel, N
  <2> QED BY <1>1, <2>7
<1>10. c \in Full /\ \A k \in Full : c <= k
  <2> HIDE DEF rel, N
  <2>1. Full \subseteq Nat /\ Full # {}
    BY <1>9
  <2> HIDE DEF Full
  <2> QED BY <2>1, LeastIn
<1>11. c \in Nat /\ rel(c) + 1 >= n /\ c <= N
  BY <1>9, <1>10
<1>12. \A k \in Nat : rel(k) + 1 < n <=> k < c
  <2> HIDE DEF rel, N, c
  <2> SUFFICES ASSUME NEW k \in Nat PROVE rel(k) + 1 < n <=> k < c
    OBVIOUS
  <2>1. rel(k) \in Int /\ rel(c) \in Int
    BY <1>6, <1>11
  <2>2. CASE k < c
    <3>1. k \notin Full
      BY <1>10, <1>11, <2>2
    <3> QED BY <2>1, <2>2, <3>1
  <2>3. CASE c <= k
    <3>1. rel(c) <= rel(k)
      BY <1>7, <1>11, <2>3
    <3> QED BY <1>11, <2>1, <2>3, <3>1
  <2> QED BY <1>11, <2>2, <2>3
<1>13. K = 0 .. c - 1
  <2>1. K = {k \in 0 .. N : rel(k) + 1 < n}
    OBVIOUS
  <2> HIDE DEF rel, N, c
  <2> QED BY <1>1, <1>11, <1>12, <2>1
<1>14. Cardinality(K) = c
  <2> HIDE DEF c
  <2>1. Cardinality(0 .. c - 1) = IF 0 > c - 1 THEN 0 ELSE c - 1 - 0 + 1
    BY <1>11, FS_Interval
  <2>2. (IF 0 > c - 1 THEN 0 ELSE c - 1 - 0 + 1) = c
    BY <1>11
  <2> QED BY <1>13, <2>1, <2>2, Zenon
<1>15. \A k \in Nat : rel(k) \in Int /\ rel(k) >= -1 /\ (base = 0 => rel(k) >= 0)
  <2> HIDE DEF rel
  <2> SUFFICES ASSUME NEW k \in Nat
               PROVE  rel(k) \in Int /\ rel(k) >= -1 /\ (base = 0 => rel(k) >= 0)
    OBVIOUS
  <2>1. rel(k) \in Int /\ rel(0) \in Int /\ rel(0) <= rel(k)
    BY <1>6, <1>7
  <2> QED BY <1>8, <2>1
<1> HIDE DEF c
<1>16. /\ Cardinality(K) \in Nat /\ K = 0 .. Cardinality(K) - 1
       /\ rel(Cardinality(K)) + 1 >= n
  BY <1>11, <1>13, <1>14
<1> QED BY <1>15, <1>16, Zenon DEF Reaches

LEMMA LinearStep ==
  ASSUME ResamplerInv, rs.kind = "linear", NEW n \in Nat, Linear(n)
  PROVE  ResamplerInv'
<1>z. CASE n = 0
  <2>1. UNCHANGED <<rs, out>>
    BY <1>z DEF Linear, resamplerVars
  <2> QED BY <2>1 DEF ResamplerInv, PassesOn, Decimating, Interpolating, Factor,
                      OutputOf, Plain, Streams
<1>n. CASE n # 0
  <2> DEFINE base == rs.fed
             m == Len(out)
             s == rs.src
             d == rs.dst
             at(k) == rs.pos + k * s
             rel(k) == at(k) \div d - base
             K == {k \in 0 .. n * d : rel(k) + 1 < n}
             c == Cardinality(K)
             sample(k) ==
               [lo |-> IF rel(k) < 0 THEN IF rs.last >= 0 THEN rs.last ELSE base
                       ELSE base + rel(k),
                hi |-> base + rel(k) + 1,
                part |-> at(k) % d]
             g == [j \in 1 .. c |-> sample(j - 1)]
  <2>1. /\ rs \in Streams /\ out \in Seq(OutSample) /\ ~rs.skipped
        /\ rs.pos = m * s /\ rs.last = base - 1 /\ rs.pos \div d + 1 >= base
        /\ m \in Nat
    BY DEF ResamplerInv, Interpolating
  <2>2. base \in Nat /\ rs.pos \in Nat /\ s \in Nat \ {0} /\ d \in Nat \ {0}
    BY <2>1 DEF Streams
  <2>3. n \in Nat \ {0}
    BY <1>n
  <2>4. /\ out' = out \o g
        /\ rs' = [rs EXCEPT !.fed = base + n, !.last = base + n - 1, !.pos = at(c),
                            !.skipped = @ \/ \E k \in K : rel(k) < -1]
    BY <1>n, Zenon DEF Linear
  <2>5. \A k : rel(k) = Offset(rs.pos, s, d, base, k)
    BY Zenon DEF Offset
  <2>6. K = {k \in 0 .. n * d : Offset(rs.pos, s, d, base, k) + 1 < n}
    BY Zenon DEF Offset
  <2> HIDE DEF K
  <2>7. /\ c \in Nat /\ K = 0 .. c - 1 /\ rel(c) + 1 >= n
        /\ \A k \in Nat : rel(k) \in Int /\ rel(k) >= -1 /\ (base = 0 => rel(k) >= 0)
    <3>1. Reaches(rs.pos, s, d, base, n, K, c)
      <4> HIDE DEF base, s, d
      <4>1. rs.pos \div d + 1 >= base
        BY <2>1
      <4> QED BY <2>2, <2>3, <2>6, <4>1, LinearReach
    <3> QED BY <2>5, <3>1, Zenon DEF Reaches
  <2> HIDE DEF c
  <2>8. \A k \in Nat : /\ at(k) \in Nat /\ at(k) = (m + k) * s
                      /\ at(k) \div d \in Nat /\ at(k) % d \in Nat
    <3> HIDE DEF m, s, d
    <3> SUFFICES ASSUME NEW k \in Nat
                 PROVE  /\ at(k) \in Nat /\ at(k) = (m + k) * s
                        /\ at(k) \div d \in Nat /\ at(k) % d \in Nat
      OBVIOUS
    <3>1. m * s + k * s = (m + k) * s /\ k * s \in Nat
      BY <2>1, <2>2
    <3>2. at(k) \in Nat /\ at(k) = (m + k) * s
      BY <2>1, <2>2, <3>1
    <3> HIDE DEF at
    <3> QED BY <2>2, <3>2
  <2>9. \A k : OutputOf(k) = [lo |-> (k * s) \div d, hi |-> (k * s) \div d + 1,
                              part |-> (k * s) % d]
    BY DEF OutputOf
  <2>10. ASSUME NEW k \in Nat
         PROVE  sample(k) \in OutSample /\ sample(k) = OutputOf(m + k)
    <3> DEFINE q == at(k) \div d
               lo == IF rel(k) < 0 THEN IF rs.last >= 0 THEN rs.last ELSE base
                     ELSE base + rel(k)
    <3>1. q \in Nat /\ rel(k) = q - base /\ rel(k) >= -1 /\ (base = 0 => rel(k) >= 0)
      BY <2>7, <2>8
    <3>2. at(k) % d \in Nat /\ OutputOf(m + k) = [lo |-> q, hi |-> q + 1, part |-> at(k) % d]
      BY <2>8, <2>9
    <3>3. lo = q /\ base + rel(k) + 1 = q + 1
      <4> HIDE DEF q, rel, base
      <4> QED BY <2>1, <2>2, <3>1
    <3>4. sample(k) = [lo |-> lo, hi |-> base + rel(k) + 1, part |-> at(k) % d]
      OBVIOUS
    <3> HIDE DEF lo, q, rel, at, sample
    <3>5. sample(k) = [lo |-> q, hi |-> q + 1, part |-> at(k) % d]
      BY <3>3, <3>4
    <3> QED BY <3>1, <3>2, <3>5 DEF OutSample
  <2> HIDE DEF sample
  <2>11. g \in [1 .. c -> OutSample] /\ \A j \in 1 .. c : g[j] = OutputOf(m + j - 1)
    <3>1. \A j \in 1 .. c : j - 1 \in Nat /\ m + (j - 1) = m + j - 1
      BY <2>1, <2>7
    <3>2. \A j \in 1 .. c : sample(j - 1) \in OutSample /\ sample(j - 1) = OutputOf(m + j - 1)
      BY <2>10, <3>1
    <3> QED BY <3>2
  <2> HIDE DEF g
  <2>12. /\ rs' \in Streams /\ rs'.fed = base + n /\ rs'.last = base + n - 1
         /\ rs'.pos = at(c) /\ ~rs'.skipped
         /\ rs'.kind = rs.kind /\ rs'.src = rs.src /\ rs'.dst = rs.dst
    <3> DEFINE e == base + n
               l == base + n - 1
               p == at(c)
               z == rs.skipped \/ \E k \in K : rel(k) < -1
    <3>1. e \in Nat /\ l \in Int /\ p \in Nat
      <4>1. c \in Nat
        BY <2>7
      <4>2. p \in Nat
        BY <2>8, <4>1
      <4> QED BY <2>2, <2>3, <4>2
    <3>2. z = FALSE
      <4> HIDE DEF rel
      <4> QED BY <2>1, <2>7
    <3>3. rs' = [rs EXCEPT !.fed = e, !.last = l, !.pos = p, !.skipped = z]
      BY <2>4
    <3> HIDE DEF e, l, p, z
    <3>4. rs' = [rs EXCEPT !.fed = e, !.last = l, !.pos = p, !.skipped = FALSE]
      BY <3>2, <3>3
    <3>5. rs' \in Streams
      BY <2>1, <3>1, <3>4 DEF Streams
    <3>6. /\ rs'.fed = e /\ rs'.last = l /\ rs'.pos = p /\ ~rs'.skipped
          /\ rs'.kind = rs.kind /\ rs'.src = rs.src /\ rs'.dst = rs.dst
      BY <2>1, <3>4 DEF Streams
    <3> QED BY <3>5, <3>6 DEF e, l, p
  <2>13. /\ out' \in Seq(OutSample) /\ Len(out') = m + c
         /\ \A k \in 1 .. Len(out') : out'[k] = OutputOf(k - 1)'
    BY <2>4, <2>7, <2>11, <2>12, Grown
  <2>14. Interpolating'
    <3>1. rs'.pos = (m + c) * s
      BY <2>7, <2>8, <2>12
    <3>2. rs'.pos \div d + 1 >= base + n
      <4>1. at(c) \div d \in Nat /\ rel(c) = at(c) \div d - base /\ rel(c) + 1 >= n
        BY <2>7, <2>8
      <4> DEFINE q == at(c) \div d
      <4> HIDE DEF q, rel, base
      <4>2. q + 1 >= base + n
        BY <2>2, <2>3, <4>1 DEF q
      <4> QED BY <2>12, <4>2 DEF q
    <3>3. rs'.pos = Len(out') * rs'.src
      BY <2>12, <2>13, <3>1, Zenon
    <3>4. rs'.last = rs'.fed - 1
      BY <2>2, <2>3, <2>12
    <3>5. rs'.pos \div rs'.dst + 1 >= rs'.fed
      BY <2>12, <3>2, Zenon
    <3> QED BY <3>3, <3>4, <3>5, Zenon DEF Interpolating
  <2> QED BY <1>n, <2>12, <2>13, <2>14 DEF ResamplerInv
<1> QED BY <1>z, <1>n

LEMMA ResamplerStep == ResamplerInv /\ [ResamplerNext]_resamplerVars => ResamplerInv'
<1> SUFFICES ASSUME ResamplerInv, [ResamplerNext]_resamplerVars PROVE ResamplerInv'
  OBVIOUS
<1>1. ASSUME NEW r \in RatePair, NewStream(r) PROVE ResamplerInv'
  <2>1. r \in [src : Nat \ {0}, dst : Nat \ {0}]
    BY ResamplerAssumption
  <2>2. (rs = NewResampler(r) /\ out = <<>> => ResamplerInv)'
    BY <2>1, NextStreamBegins
  <2> QED BY <1>1, <2>2 DEF NewStream, NewResampler
<1>2. ASSUME NEW n \in ChunkLen, Process(n) PROVE ResamplerInv'
  <2>1. n \in Nat
    BY ResamplerAssumption
  <2>2. rs.kind \in {"passthrough", "decimate", "linear"}
    BY DEF ResamplerInv, Streams
  <2>3. CASE rs.kind = "passthrough"
    BY <1>2, <2>1, <2>3, ThroughStep DEF Process
  <2>4. CASE rs.kind = "decimate"
    BY <1>2, <2>1, <2>4, DecimateStep DEF Process
  <2>5. CASE rs.kind = "linear"
    BY <1>2, <2>1, <2>5, LinearStep DEF Process
  <2> QED BY <2>2, <2>3, <2>4, <2>5
<1>3. CASE UNCHANGED resamplerVars
  BY <1>3 DEF resamplerVars, ResamplerInv, PassesOn, Decimating, Interpolating, Factor,
              OutputOf, Plain, Streams
<1> QED BY <1>1, <1>2, <1>3 DEF ResamplerNext

\* What could come out has come out, seen from where the resampler stands.
LEMMA NothingWithheld == ResamplerInv => ChunkingIrrelevant
<1> SUFFICES ASSUME ResamplerInv PROVE OutputOf(Len(out)).hi >= rs.fed
  BY DEF ResamplerInv, ChunkingIrrelevant
<1> DEFINE m == Len(out)
<1>1. m \in Nat /\ rs.fed \in Nat /\ rs.phase \in Nat
      /\ rs.kind \in {"passthrough", "decimate", "linear"}
  BY DEF ResamplerInv, Streams
<1>2. CASE rs.kind = "passthrough"
  BY <1>1, <1>2 DEF ResamplerInv, PassesOn, OutputOf, Plain
<1>3. CASE rs.kind = "decimate"
  <2> DEFINE f == Factor
  <2>1. f \in Nat \ {0} /\ rs.fed = m * f + rs.phase /\ rs.phase < f
    BY <1>3 DEF ResamplerInv, Decimating
  <2>2. OutputOf(m).hi = (m + 1) * f - 1
    BY <1>3 DEF OutputOf, Factor
  <2> HIDE DEF f, m
  <2>3. (m + 1) * f = m * f + f /\ m * f \in Nat
    BY <1>1, <2>1
  <2> QED BY <1>1, <2>1, <2>2, <2>3 DEF m
<1>4. CASE rs.kind = "linear"
  BY <1>4 DEF ResamplerInv, Interpolating, OutputOf
<1> QED BY <1>1, <1>2, <1>3, <1>4

\* How a stream is cut into chunks makes no difference to what comes out of it
\* (audio::resample, Resampler::process).
THEOREM ChunksDoNotMatter == ResamplerSpec => []ChunkingIrrelevant
<1>1. ResamplerInit => ResamplerInv
  <2> SUFFICES ASSUME ResamplerInit PROVE ResamplerInv
    OBVIOUS
  <2>1. [src |-> 1, dst |-> 1] \in [src : Nat \ {0}, dst : Nat \ {0}]
    OBVIOUS
  <2> QED BY <2>1, StreamBegins DEF ResamplerInit
<1>2. QED BY <1>1, ResamplerStep, NothingWithheld, PTL DEF ResamplerSpec

-----------------------------------------------------------------------------
(* The host precheck of an import.                                          *)

Stages == {"idle", "driver", "capture_device", "playback_device", "capture_cmd",
           "playback_cmd", "missing", "sox", "done"}
CmdKey == {"capture_cmd", "playback_cmd"}
AudioKey == {"capture_device", "playback_device"} \cup CmdKey
\* The steps after the one that fits a command.
After(key) == {"missing", "sox", "done"}
                \cup (IF key = "capture_cmd" THEN {"playback_cmd"} ELSE {})

Shaped(c) == /\ {"pinned", "tool", "driver"} \subseteq DOMAIN c
             /\ c.pinned = TRUE

HostShape ==
  /\ "at" \in DOMAIN check /\ check.at \in Stages
  /\ declined \in BOOLEAN /\ swapBroke \in BOOLEAN
  /\ check.at # "idle" =>
       /\ machine \in Machine
       /\ DOMAIN audio = AudioKey
       /\ \A key \in CmdKey : audio[key] = NoCmd \/ Shaped(audio[key])
       /\ \A t \in DOMAIN tools : Absolute(t) /\ tools[t] \in Nat
       /\ \A t \in before.present : Absolute(t)
       /\ ~swapBroke => before.present \subseteq DOMAIN tools

\* A pinned command on its way: the driver's step is over, its own is to come or
\* is over.
Fitting(key) ==
  Pinned(audio, key) =>
    /\ check.at # "driver" /\ machine.linux /\ IsSox(audio[key].tool.base) =>
         audio[key].driver # "coreaudio"
    /\ check.at \notin After(key) => audio[key].tool = before.audio[key].tool
    /\ check.at \in After(key) /\ ~declined /\ ~swapBroke =>
         /\ Absolute(audio[key].tool) => audio[key].tool \in DOMAIN tools
         /\ before.audio[key].tool \in before.present => Absolute(audio[key].tool)

HostInv == HostShape /\ (check.at # "idle" => \A key \in CmdKey : Fitting(key))

\* Among finitely many places the first that nothing beats: there is one.
FirstBest(H, f, i) ==
  i \in H /\ \A j \in H : f[j] =< f[i] /\ (j < i => f[j] < f[i])

LEMMA SomeFirstBest ==
  ASSUME NEW n \in Nat, NEW H \in SUBSET (1 .. n), H # {},
         NEW f, \A i \in H : f[i] \in Nat
  PROVE  \E i : FirstBest(H, f, i)
<1> DEFINE Up(m) == {i \in H : i <= m}
           Bad == {m \in 0 .. n : Up(m) # {} /\ ~\E i : FirstBest(Up(m), f, i)}
<1>i. \A i \in H : i \in Nat /\ 1 <= i /\ i <= n
  OBVIOUS
<1>1. Bad = {}
  <2> SUFFICES ASSUME Bad # {} PROVE FALSE
    OBVIOUS
  <2> DEFINE m == Min(Bad)
  <2>1. Bad \in SUBSET Nat
    OBVIOUS
  <2>2. m \in Bad /\ \A x \in Bad : m <= x
    <3> HIDE DEF Bad
    <3> QED BY <2>1, LeastIn
  <2> HIDE DEF m
  <2>3. m \in 0 .. n /\ Up(m) # {} /\ ~\E i : FirstBest(Up(m), f, i)
    BY <2>2
  <2>4. m - 1 \in 0 .. n /\ m \in 1 .. n
    <3>1. PICK i \in H : i <= m
      BY <2>3
    <3>2. 1 <= i /\ i \in Nat /\ m \in 0 .. n
      BY <1>i, <2>3
    <3> QED BY <3>1, <3>2
  <2>5. m - 1 \notin Bad
    <3> HIDE DEF Bad
    <3>1. ~(m <= m - 1)
      BY <2>4
    <3> QED BY <2>2, <3>1
  <2>6. Up(m) \subseteq Up(m - 1) \cup {m} /\ Up(m - 1) \subseteq Up(m)
    <3>1. \A i \in Nat : i <= m <=> (i <= m - 1 \/ i = m)
      BY <2>4
    <3> QED BY <1>i, <3>1
  <2>7. \A i \in Up(m) : i \in Nat /\ f[i] \in Nat
    OBVIOUS
  <2>8. \A i \in Up(m - 1) : i < m
    BY <2>4
  <2>9. CASE Up(m - 1) = {}
    <3>1. Up(m) = {m}
      BY <2>3, <2>6, <2>9
    <3> HIDE DEF Up
    <3>2. FirstBest(Up(m), f, m)
      BY <2>7, <3>1 DEF FirstBest
    <3> QED BY <2>3, <3>2
  <2>10. CASE Up(m - 1) # {}
    <3>1. PICK i : FirstBest(Up(m - 1), f, i)
      BY <2>4, <2>5, <2>10
    <3> HIDE DEF Up
    <3>2. i \in Up(m - 1) /\ i \in Up(m) /\ i < m /\ i \in Nat /\ f[i] \in Nat
      BY <2>6, <2>7, <2>8, <3>1 DEF FirstBest
    <3>3. CASE m \in Up(m) /\ f[m] > f[i]
      <4>1. \A j \in Up(m) : f[j] =< f[m] /\ (j < m => f[j] < f[m])
        <5> SUFFICES ASSUME NEW j \in Up(m) PROVE f[j] =< f[m] /\ (j < m => f[j] < f[m])
          OBVIOUS
        <5>1. f[j] \in Nat /\ f[m] \in Nat /\ m \in Nat
          BY <2>7, <3>3
        <5>2. CASE j = m
          BY <5>1, <5>2
        <5>3. CASE j \in Up(m - 1)
          BY <3>1, <3>2, <3>3, <5>1, <5>3 DEF FirstBest
        <5> QED BY <2>6, <5>2, <5>3
      <4> QED BY <2>3, <3>3, <4>1 DEF FirstBest
    <3>4. CASE ~(m \in Up(m) /\ f[m] > f[i])
      <4>1. \A j \in Up(m) : f[j] =< f[i] /\ (j < i => f[j] < f[i])
        <5> SUFFICES ASSUME NEW j \in Up(m) PROVE f[j] =< f[i] /\ (j < i => f[j] < f[i])
          OBVIOUS
        <5>1. f[j] \in Nat /\ j \in Nat
          BY <2>7
        <5>2. CASE j = m
          BY <2>4, <3>2, <3>4, <5>1, <5>2
        <5>3. CASE j \in Up(m - 1)
          BY <3>1, <3>2, <5>1, <5>3 DEF FirstBest
        <5> QED BY <2>6, <5>2, <5>3
      <4> QED BY <2>3, <3>2, <4>1 DEF FirstBest
    <3> QED BY <3>3, <3>4
  <2> QED BY <2>9, <2>10
<1>2. Up(n) = H
  BY <1>i
<1>3. n \in 0 .. n
  OBVIOUS
<1> HIDE DEF Up
<1> QED BY <1>1, <1>2, <1>3

\* What is found is on this machine, under a name of the same family.
Found(base) == FindTool(base) \in DOMAIN tools /\ (IsSox(FindTool(base).base) <=> IsSox(base))

LEMMA BestSoxIs ==
  ASSUME HostShape, check.at # "idle", SoxOnPath # {}
  PROVE  BestSox \in DOMAIN tools /\ IsSox(BestSox.base)
<1>1. machine \in Machine /\ machine.path \in Seq(STRING)
      /\ \A t \in DOMAIN tools : tools[t] \in Nat
  BY HostAssumption DEF HostShape
<1> DEFINE n == 2 * Len(machine.path)
           f == [i \in SoxOnPath |-> tools[SoxAt(i)]]
           Beats(i) == \A j \in SoxOnPath :
             /\ tools[SoxAt(j)] =< tools[SoxAt(i)]
             /\ j < i => tools[SoxAt(j)] < tools[SoxAt(i)]
           b == CHOOSE i \in SoxOnPath : Beats(i)
<1>2. n \in Nat
  BY <1>1
<1>3. SoxOnPath \in SUBSET (1 .. n) /\ \A i \in SoxOnPath : SoxAt(i) \in DOMAIN tools
  BY DEF SoxOnPath
<1>4. \A i \in SoxOnPath : f[i] \in Nat
  BY <1>1, <1>3
<1>5. PICK i : FirstBest(SoxOnPath, f, i)
  <2> HIDE DEF n, f
  <2> QED BY <1>2, <1>3, <1>4, SomeFirstBest
<1>6. i \in SoxOnPath /\ Beats(i)
  <2>1. i \in SoxOnPath /\ \A j \in SoxOnPath : f[j] = tools[SoxAt(j)]
    BY <1>5 DEF FirstBest
  <2> HIDE DEF f
  <2> QED BY <1>5, <2>1 DEF FirstBest
<1>7. BestSox = SoxAt(b)
  BY DEF BestSox
<1> HIDE DEF Beats
<1>8. b \in SoxOnPath
  BY <1>6, Zenon
<1> HIDE DEF b
<1>9. SoxAt(b).base \in {"sox", "sox_ng"}
  BY DEF SoxAt
<1> QED BY <1>3, <1>7, <1>8, <1>9 DEF IsSox

LEMMA WhichIs ==
  ASSUME HostShape, check.at # "idle", NEW base, OnPath(base) # {}
  PROVE  Which(base) \in DOMAIN tools /\ Which(base).base = base
<1>1. machine.path \in Seq(STRING)
  BY HostAssumption DEF HostShape
<1> DEFINE S == {i \in DOMAIN machine.path : machine.path[i] \in OnPath(base)}
           First(i) == /\ machine.path[i] \in OnPath(base)
                       /\ \A j \in 1 .. i - 1 : machine.path[j] \notin OnPath(base)
           k == CHOOSE i \in DOMAIN machine.path : First(i)
<1>2. S \subseteq Nat /\ DOMAIN machine.path = 1 .. Len(machine.path)
      /\ Len(machine.path) \in Nat
  BY <1>1
<1>3. S # {}
  BY DEF OnPath, ToSet
<1>4. Min(S) \in S /\ \A x \in S : Min(S) <= x
  <2> HIDE DEF S
  <2> QED BY <1>2, <1>3, LeastIn
<1>5. Min(S) \in DOMAIN machine.path /\ First(Min(S))
  <2> DEFINE m == Min(S)
  <2> HIDE DEF m
  <2>1. m \in S /\ \A x \in S : m <= x
    BY <1>4 DEF m
  <2>2. m \in DOMAIN machine.path /\ machine.path[m] \in OnPath(base)
    BY <2>1
  <2>3. ASSUME NEW j \in 1 .. m - 1 PROVE machine.path[j] \notin OnPath(base)
    <3>1. j \in DOMAIN machine.path /\ m \in Nat /\ ~(m <= j)
      BY <1>2, <2>2
    <3> QED BY <2>1, <3>1
  <2> QED BY <2>2, <2>3 DEF m
<1> HIDE DEF S, First
<1>6. First(k)
  BY <1>5, Zenon
<1>7. Which(base) = [dir |-> machine.path[k], base |-> base]
  BY Zenon DEF Which, First
<1> HIDE DEF k
<1>8. machine.path[k] \in OnPath(base)
  BY <1>6 DEF First
<1>9. [dir |-> machine.path[k], base |-> base] \in DOMAIN tools
  BY <1>8, Zenon DEF OnPath
<1> QED BY <1>7, <1>9

LEMMA FoundIs ==
  ASSUME HostShape, check.at # "idle", NEW base, Findable(base)
  PROVE  Found(base)
<1>1. CASE IsSox(base)
  BY <1>1, BestSoxIs DEF Findable, FindTool, Found
<1>2. CASE ~IsSox(base)
  <2>1. Which(base) \in DOMAIN tools /\ Which(base).base = base
    BY <1>2, WhichIs DEF Findable
  <2> QED BY <1>2, <2>1 DEF Findable, FindTool, Found
<1> QED BY <1>1, <1>2

\* A step that leaves the machine, the declined fixes and what was there alone
\* keeps a command that it does not touch.
Later(at, next) ==
  CASE at = "driver" -> next \in {"capture_device", "capture_cmd"}
    [] at = "capture_device" -> next = "playback_device"
    [] at = "playback_device" -> next = "capture_cmd"
    [] at = "capture_cmd" -> next = "playback_cmd"
    [] at = "playback_cmd" -> next = "missing"
    [] at = "missing" -> next = "sox"
    [] at = "sox" -> next = "done"
    [] OTHER -> FALSE

\* What every step from "driver" to "done" leaves as it is, and does not lose.
Carries ==
  /\ machine' = machine /\ before' = before
  /\ "at" \in DOMAIN check' /\ Later(check.at, check'.at)
  /\ DOMAIN audio' = AudioKey
  /\ \A key \in CmdKey :
       /\ Pinned(audio, key) => Shaped(audio'[key])
       /\ ~Pinned(audio, key) => audio'[key] = NoCmd
  /\ \A t \in DOMAIN tools' : Absolute(t) /\ tools'[t] \in Nat
  /\ DOMAIN tools \subseteq DOMAIN tools' \/ swapBroke'
  /\ (declined => declined') /\ (swapBroke => swapBroke')
  /\ declined' \in BOOLEAN /\ swapBroke' \in BOOLEAN

Untouched(key) == /\ audio'[key].tool = audio[key].tool
             /\ audio'[key].driver = audio[key].driver

LEMMA CarriesShape ==
  ASSUME HostShape, check.at # "idle", Carries
  PROVE  HostShape' /\ check'.at # "idle"
<1>1. check'.at \in Stages /\ check'.at # "idle"
  BY DEF Carries, Later, Stages, HostShape
<1>2. \A key \in CmdKey : audio'[key] = NoCmd \/ Shaped(audio'[key])
  BY DEF Carries
<1>3. (\A key \in CmdKey : audio[key] = NoCmd \/ Shaped(audio[key]))'
  BY <1>2 DEF Shaped
<1>4. machine' \in Machine /\ \A t \in before'.present : Absolute(t)
  BY DEF Carries, HostShape
<1>5. ~swapBroke' => before'.present \subseteq DOMAIN tools'
  BY DEF Carries, HostShape
<1> QED BY <1>1, <1>3, <1>4, <1>5 DEF Carries, HostShape

LEMMA PinnedStays ==
  ASSUME HostShape, Carries, NEW key \in CmdKey
  PROVE  Pinned(audio', key) <=> Pinned(audio, key)
<1>1. Shaped(audio'[key]) => audio'[key] # NoCmd
  BY DEF Shaped, NoCmd
<1> QED BY <1>1 DEF Carries, Pinned

LEMMA SameFits ==
  ASSUME HostShape, check.at # "idle", Carries, NEW key \in CmdKey, Fitting(key),
         Pinned(audio, key) => Untouched(key),
         check.at # "driver", check.at # key
  PROVE  Fitting(key)'
<1> SUFFICES ASSUME Pinned(audio', key) PROVE Fitting(key)'
  BY DEF Fitting, Pinned
<1>1. Pinned(audio, key) /\ Untouched(key)
  BY PinnedStays
<1>2. check'.at \in After(key) <=> check.at \in After(key)
  BY DEF Carries, Later, After, CmdKey, HostShape, Stages
<1>3. audio'[key].tool = audio[key].tool /\ audio'[key].driver = audio[key].driver
  BY <1>1 DEF Untouched
<1>4. (audio[key].tool \in DOMAIN tools => audio[key].tool \in DOMAIN tools') \/ swapBroke'
  BY DEF Carries
<1>5. machine' = machine /\ before' = before /\ (declined => declined') /\ (swapBroke => swapBroke')
  BY DEF Carries
<1>6. /\ machine.linux /\ IsSox(audio[key].tool.base) => audio[key].driver # "coreaudio"
      /\ check.at \notin After(key) => audio[key].tool = before.audio[key].tool
      /\ check.at \in After(key) /\ ~declined /\ ~swapBroke =>
           /\ Absolute(audio[key].tool) => audio[key].tool \in DOMAIN tools
           /\ before.audio[key].tool \in before.present => Absolute(audio[key].tool)
  BY <1>1 DEF Fitting
<1> QED BY <1>2, <1>3, <1>4, <1>5, <1>6, Zenon DEF Fitting, Absolute

\* The steps of the check.
LEMMA CheckBegins ==
  ASSUME NEW m \in Machine, NEW a \in Imported, NEW t \in Installed0, NEW y \in BOOLEAN,
         Begin(m, a, t, y)
  PROVE  HostInv'
<1>1. /\ machine' = m /\ audio' = a /\ tools' = t
      /\ before' = [audio |-> a, present |-> DOMAIN t]
      /\ check' = [at |-> "driver", terminal |-> y, renames |-> <<>>]
      /\ declined' = FALSE /\ swapBroke' = FALSE
  BY DEF Begin
<1>2. /\ DOMAIN a = AudioKey
      /\ \A key \in CmdKey : a[key] \in {NoCmd} \cup PinnedCmd
  <2>1. ToSet(Devices) \cup ToSet(Cmds) = AudioKey
    BY DEF ToSet, Devices, Cmds, AudioKey, CmdKey
  <2>2. Cmds[1] = "capture_cmd" /\ Cmds[2] = "playback_cmd" /\ 1 \in 1 .. 2 /\ 2 \in 1 .. 2
    BY DEF Cmds
  <2> QED BY <2>1, <2>2, HostAssumption DEF CmdKey
<1>t. \A x \in DOMAIN t : Absolute(x) /\ t[x] \in Nat
  BY HostAssumption DEF Absolute
<1>3. \A key \in CmdKey : audio'[key] = NoCmd \/ Shaped(audio'[key])
  BY <1>1, <1>2 DEF PinnedCmd, Shaped
<1>4. HostShape'
  BY <1>1, <1>2, <1>3, <1>t DEF HostShape, Stages, Shaped
<1>5. ASSUME NEW key \in CmdKey PROVE Fitting(key)'
  BY <1>1 DEF Fitting, After, CmdKey
<1> QED BY <1>4, <1>5 DEF HostInv

\* The shape of a step that goes on to `next`.
LEMMA OnTo ==
  ASSUME HostShape, NEW at, NEW next, Step(at), Goto(next), Later(at, next)
  PROVE  "at" \in DOMAIN check' /\ check'.at = next /\ check.at = at
         /\ Later(check.at, check'.at)
BY DEF HostShape, Step, Goto

LEMMA DriverStep ==
  ASSUME HostInv, Driver
  PROVE  HostInv'
<1>1. HostShape /\ Step("driver") /\ check.at = "driver" /\ check.at # "idle"
      /\ \A key \in CmdKey : Fitting(key)
  BY DEF HostInv, Driver, Step
<1> DEFINE next == IF check.terminal THEN "capture_device" ELSE "capture_cmd"
<1>2. /\ "at" \in DOMAIN check' /\ check'.at = next /\ Later(check.at, check'.at)
  <2>1. Later("driver", next)
    BY DEF Later
  <2> QED BY <1>1, <2>1, OnTo DEF Driver
<1>3. \A key \in CmdKey :
        audio'[key] = IF machine.linux /\ Pinned(audio, key)
                           /\ IsSox(audio[key].tool.base)
                           /\ audio[key].driver = "coreaudio"
                      THEN [audio[key] EXCEPT !.driver = "alsa"] ELSE audio[key]
  <2>1. \A key \in CmdKey : key \in ToSet(Cmds) /\ key \in DOMAIN audio
    <3>1. Cmds[1] = "capture_cmd" /\ Cmds[2] = "playback_cmd" /\ DOMAIN Cmds = 1 .. 2
      BY DEF Cmds
    <3> QED BY <1>1, <3>1 DEF CmdKey, AudioKey, HostShape, ToSet
  <2> QED BY <2>1 DEF Driver
<1>4. DOMAIN audio' = AudioKey
  BY <1>1 DEF Driver, HostShape
<1>5. UNCHANGED <<machine, tools, before, declined, swapBroke>>
  BY DEF Driver, NoChange
<1>6. ASSUME NEW key \in CmdKey, Pinned(audio, key)
      PROVE  /\ Shaped(audio'[key]) /\ audio'[key].tool = audio[key].tool
             /\ machine.linux /\ IsSox(audio'[key].tool.base) =>
                  audio'[key].driver # "coreaudio"
  <2>1. Shaped(audio[key])
    BY <1>1, <1>6 DEF HostShape, Pinned
  <2> DEFINE c == audio[key]
             e == [c EXCEPT !.driver = "alsa"]
  <2>2. DOMAIN e = DOMAIN c /\ e.driver = "alsa" /\ e.tool = c.tool /\ e.pinned = c.pinned
    BY <2>1 DEF Shaped
  <2>3. audio'[key] = e \/ audio'[key] = c
    BY <1>3
  <2>4. audio'[key] = c => ~(machine.linux /\ IsSox(c.tool.base) /\ c.driver = "coreaudio")
    <3> SUFFICES ASSUME audio'[key] = c, machine.linux, IsSox(c.tool.base),
                        c.driver = "coreaudio"
                 PROVE  FALSE
      OBVIOUS
    <3>1. audio'[key] = e
      BY <1>3, <1>6
    <3> QED BY <2>2, <3>1
  <2> HIDE DEF c, e
  <2> QED BY <2>1, <2>2, <2>3, <2>4 DEF Shaped, c
<1>7. ASSUME NEW key \in CmdKey, ~Pinned(audio, key) PROVE audio'[key] = NoCmd
  BY <1>3, <1>7 DEF Pinned
<1>8. Carries
  BY <1>1, <1>2, <1>4, <1>5, <1>6, <1>7 DEF Carries, HostShape
<1>9. HostShape' /\ check'.at # "idle"
  BY <1>1, <1>8, CarriesShape
<1>10. ASSUME NEW key \in CmdKey PROVE Fitting(key)'
  <2> SUFFICES ASSUME Pinned(audio', key) PROVE Fitting(key)'
    BY DEF Fitting, Pinned
  <2>1. Pinned(audio, key)
    BY <1>1, <1>8, PinnedStays
  <2>2. check.at \notin After(key) /\ check'.at \notin After(key)
    BY <1>1, <1>2 DEF After, CmdKey
  <2>3. audio[key].tool = before.audio[key].tool
    BY <1>1, <2>1, <2>2 DEF Fitting
  <2> QED BY <1>5, <1>6, <2>1, <2>2, <2>3 DEF Fitting
<1> QED BY <1>9, <1>10 DEF HostInv

\* A step that touches no command.
LEMMA NoCommandTouched ==
  ASSUME HostInv, check.at # "idle", check.at # "driver", Carries,
         check.at \notin CmdKey,
         \A key \in CmdKey : Pinned(audio, key) => Untouched(key)
  PROVE  HostInv'
<1>1. HostShape /\ \A key \in CmdKey : Fitting(key)
  BY DEF HostInv
<1>2. HostShape' /\ check'.at # "idle"
  BY <1>1, CarriesShape
<1>3. ASSUME NEW key \in CmdKey PROVE Fitting(key)'
  BY <1>1, SameFits
<1> QED BY <1>2, <1>3 DEF HostInv

LEMMA DeviceStep ==
  ASSUME HostInv,
         NEW key \in {"capture_device", "playback_device"}, NEW next,
         <<key, next>> \in {<<"capture_device", "playback_device">>,
                           <<"playback_device", "capture_cmd">>},
         Device(key, next)
  PROVE  HostInv'
<1>1. HostShape /\ check.at = key /\ check.at # "idle" /\ "at" \in DOMAIN check
  BY DEF HostInv, HostShape, Device, Step
<1>2. Later(key, next)
  BY DEF Later
<1>3. UNCHANGED <<machine, tools, before, declined, swapBroke>>
  BY DEF Device, NoChange
<1>4. "at" \in DOMAIN check' /\ check'.at = next
  <2>1. CASE Goto(next)
    BY <1>1, <2>1 DEF Goto
  <2>2. ASSUME NEW new, check' = [check EXCEPT !.at = next,
                                  !.renames = Append(@, <<audio[key], new>>)]
        PROVE  "at" \in DOMAIN check' /\ check'.at = next
    BY <1>1, <2>2
  <2> QED BY <2>1, <2>2 DEF Device
<1>5. DOMAIN audio' = AudioKey /\ \A k \in CmdKey : audio'[k] = audio[k]
  <2>1. DOMAIN audio = AudioKey
    BY <1>1 DEF HostShape
  <2>2. ASSUME NEW new, audio' = [audio EXCEPT ![key] = new]
        PROVE  DOMAIN audio' = AudioKey /\ \A k \in CmdKey : audio'[k] = audio[k]
    BY <2>1, <2>2 DEF CmdKey, AudioKey
  <2> QED BY <2>1, <2>2 DEF Device
<1>6. Carries
  BY <1>1, <1>2, <1>3, <1>4, <1>5 DEF Carries, HostShape, Pinned
<1>7. \A k \in CmdKey : Untouched(k)
  BY <1>5 DEF Untouched
<1> QED BY <1>1, <1>6, <1>7, NoCommandTouched DEF CmdKey

LEMMA Installs ==
  ASSUME HostShape, check.at # "idle", NEW base,
         NEW landed, landed = [dir |-> BrewDir, base |-> base],
         tools' = [x \in DOMAIN tools \cup {landed} |->
                     IF x = landed THEN 1 ELSE tools[x]]
  PROVE  /\ \A t \in DOMAIN tools' : Absolute(t) /\ tools'[t] \in Nat
         /\ DOMAIN tools' = DOMAIN tools \cup {landed}
<1>1. Absolute(landed)
  BY HostAssumption DEF Absolute
<1> QED BY <1>1 DEF HostShape

LEMMA MissingToolStep ==
  ASSUME HostInv, MissingTool
  PROVE  HostInv'
<1>1. HostShape /\ check.at = "missing" /\ check.at # "idle" /\ "at" \in DOMAIN check
  BY DEF HostInv, HostShape, MissingTool, Step
<1>2. Later("missing", "sox")
  BY DEF Later
<1>3. UNCHANGED <<audio, machine, before, declined, swapBroke>>
  BY DEF MissingTool, NoChange
<1>4. "at" \in DOMAIN check' /\ check'.at = "sox"
  BY <1>1 DEF Goto, MissingTool
<1>5. /\ \A t \in DOMAIN tools' : Absolute(t) /\ tools'[t] \in Nat
      /\ DOMAIN tools \subseteq DOMAIN tools'
  <2>1. CASE UNCHANGED tools
    BY <1>1, <2>1 DEF HostShape
  <2>2. CASE ~UNCHANGED tools
    <3> DEFINE landed == [dir |-> BrewDir, base |-> AutoTool]
    <3>1. tools' = [x \in DOMAIN tools \cup {landed} |->
                      IF x = landed THEN 1 ELSE tools[x]]
      BY <2>2 DEF MissingTool
    <3> HIDE DEF landed
    <3>3. landed = [dir |-> BrewDir, base |-> AutoTool]
      BY DEF landed
    <3> QED BY <1>1, <3>1, <3>3, Installs
  <2> QED BY <2>1, <2>2
<1>6. Carries
  BY <1>1, <1>2, <1>3, <1>4, <1>5 DEF Carries, HostShape, Pinned
<1>7. \A k \in CmdKey : Untouched(k)
  BY <1>3 DEF Untouched
<1> QED BY <1>1, <1>6, <1>7, NoCommandTouched DEF CmdKey

LEMMA SoxFineStep ==
  ASSUME HostInv, SoxFine
  PROVE  HostInv'
<1>1. HostShape /\ check.at = "sox" /\ check.at # "idle" /\ "at" \in DOMAIN check
  BY DEF HostInv, HostShape, SoxFine, Step
<1>2. Later("sox", "done")
  BY DEF Later
<1>3. UNCHANGED <<audio, tools, machine, before, declined, swapBroke>>
  BY DEF SoxFine, NoChange
<1>4. "at" \in DOMAIN check' /\ check'.at = "done"
  BY <1>1 DEF Goto, SoxFine
<1>6. Carries
  BY <1>1, <1>2, <1>3, <1>4 DEF Carries, HostShape, Pinned
<1>7. \A k \in CmdKey : Untouched(k)
  BY <1>3 DEF Untouched
<1> QED BY <1>1, <1>6, <1>7, NoCommandTouched DEF CmdKey

\* What a command's own step makes of its tool, whichever way it goes.
FitsHere(t, u, new, refused) ==
  /\ IsSox(u.base) <=> IsSox(t.base)
  /\ \A x \in DOMAIN new : Absolute(x) /\ new[x] \in Nat
  /\ DOMAIN tools \subseteq DOMAIN new
  /\ ~refused => /\ Absolute(u) => u \in DOMAIN new
                 /\ t \in DOMAIN tools => Absolute(u)

LEMMA EnsuredFits ==
  ASSUME HostShape, check.at # "idle", NEW t, NEW e \in Ensured(t)
  PROVE  e.declined \in BOOLEAN /\ FitsHere(t, e.tool, e.tools, e.declined)
<1>0. /\ \A x \in DOMAIN tools : Absolute(x) /\ tools[x] \in Nat
      /\ \A x \in DOMAIN tools : Absolute(x)
  BY DEF HostShape
<1>1. CASE Exists(t)
  <2>1. e = [tool |-> t, tools |-> tools, declined |-> FALSE]
    BY <1>1 DEF Ensured
  <2> QED BY <1>0, <1>1, <2>1 DEF FitsHere, Exists
<1>n. ~Exists(t) => t \notin DOMAIN tools
  BY <1>0 DEF Exists
<1>2. CASE ~Exists(t) /\ Findable(t.base)
  <2>1. \/ e = [tool |-> FindTool(t.base), tools |-> tools, declined |-> FALSE]
        \/ e = [tool |-> t, tools |-> tools, declined |-> TRUE]
    BY <1>2 DEF Ensured
  <2>2. Found(t.base)
    BY <1>2, FoundIs
  <2>3. CASE e = [tool |-> FindTool(t.base), tools |-> tools, declined |-> FALSE]
    BY <1>0, <1>n, <1>2, <2>2, <2>3 DEF FitsHere, Found
  <2>4. CASE e = [tool |-> t, tools |-> tools, declined |-> TRUE]
    BY <1>0, <2>4 DEF FitsHere
  <2> QED BY <2>1, <2>3, <2>4
<1>3. CASE ~Exists(t) /\ ~Findable(t.base)
  <2>t. t \notin DOMAIN tools
    BY <1>n, <1>3
  <2> DEFINE landed == [dir |-> BrewDir, base |-> t.base]
             more == [x \in DOMAIN tools \cup {landed} |->
                        IF x = landed THEN 1 ELSE tools[x]]
             place == IF landed = t THEN t
                      ELSE IF BrewDir \in ToSet(machine.path) THEN landed ELSE Bare(t)
  <2>1. CASE e = [tool |-> Bare(t), tools |-> tools, declined |-> FALSE]
    <3>1. Bare(t).base = t.base /\ ~Absolute(Bare(t))
      BY DEF Bare, Absolute
    <3> QED BY <1>0, <2>t, <2>1, <3>1 DEF FitsHere
  <2>2. CASE e = [tool |-> place, tools |-> more, declined |-> FALSE]
    <3>1. Absolute(landed)
      BY HostAssumption DEF Absolute
    <3>2. /\ \A x \in DOMAIN more : Absolute(x) /\ more[x] \in Nat
          /\ DOMAIN tools \subseteq DOMAIN more /\ landed \in DOMAIN more
      BY <1>0, <3>1
    <3>3. place.base = t.base /\ (Absolute(place) => place = landed)
      <4>1. landed.base = t.base
        OBVIOUS
      <4>2. Bare(t).base = t.base /\ ~Absolute(Bare(t))
        BY DEF Bare, Absolute
      <4> HIDE DEF landed
      <4> QED BY <4>1, <4>2
    <3> HIDE DEF landed, more, place
    <3>4. e.tool = place /\ e.tools = more /\ e.declined = FALSE
      BY <2>2
    <3>5. IsSox(place.base) <=> IsSox(t.base)
      BY <3>3
    <3>6. Absolute(place) => place \in DOMAIN more
      BY <3>2, <3>3
    <3> QED BY <2>t, <3>2, <3>4, <3>5, <3>6 DEF FitsHere
  <2>3. \/ e = [tool |-> Bare(t), tools |-> tools, declined |-> FALSE]
        \/ e = [tool |-> place, tools |-> more, declined |-> FALSE]
    BY <1>3, Zenon DEF Ensured
  <2> QED BY <2>1, <2>2, <2>3
<1> QED BY <1>1, <1>2, <1>3

LEMMA RewrittenFits ==
  ASSUME HostShape, check.at # "idle", NEW t
  PROVE  FitsHere(t, Rewritten(t), tools, FALSE)
<1>0. /\ \A x \in DOMAIN tools : Absolute(x) /\ tools[x] \in Nat
      /\ \A x \in DOMAIN tools : Absolute(x)
  BY DEF HostShape
<1>1. CASE ~Absolute(t) \/ Exists(t)
  BY <1>0, <1>1 DEF Rewritten, FitsHere, Exists
<1>2. CASE Absolute(t) /\ ~Exists(t) /\ Findable(t.base)
  <2>1. Found(t.base)
    BY <1>2, FoundIs
  <2> QED BY <1>0, <1>2, <2>1 DEF Rewritten, FitsHere, Found
<1>3. CASE Absolute(t) /\ ~Exists(t) /\ ~Findable(t.base)
  <2>1. Bare(t).base = t.base /\ ~Absolute(Bare(t)) /\ t \notin DOMAIN tools
    BY <1>3 DEF Bare, Absolute, Exists
  <2> QED BY <1>0, <1>3, <2>1 DEF Rewritten, FitsHere
<1> QED BY <1>1, <1>2, <1>3

CommandDone(key) ==
  /\ DOMAIN audio' = AudioKey /\ declined' \in BOOLEAN
  /\ \A k \in CmdKey \ {key} : audio'[k] = audio[k]
  /\ declined => declined'
  /\ \A x \in DOMAIN tools' : Absolute(x) /\ tools'[x] \in Nat
  /\ DOMAIN tools \subseteq DOMAIN tools'
  /\ ~Pinned(audio, key) => audio'[key] = NoCmd
  /\ Pinned(audio, key) =>
       /\ Shaped(audio'[key]) /\ audio'[key].driver = audio[key].driver
       /\ FitsHere(audio[key].tool, audio'[key].tool, tools', declined')

LEMMA CommandStep ==
  ASSUME HostInv, NEW key \in CmdKey, NEW next,
         <<key, next>> \in {<<"capture_cmd", "playback_cmd">>, <<"playback_cmd", "missing">>},
         Command(key, next)
  PROVE  HostInv'
<1>1. /\ HostShape /\ check.at = key /\ check.at # "idle" /\ check.at # "driver"
      /\ \A k \in CmdKey : Fitting(k)
  BY DEF HostInv, Command, Step, CmdKey
<1>2. /\ "at" \in DOMAIN check' /\ check'.at = next /\ Later(check.at, check'.at)
  <2>1. Later(key, next)
    BY DEF Later
  <2> QED BY <1>1, <2>1, OnTo DEF Command
<1>3. UNCHANGED <<machine, before, swapBroke>>
  BY DEF Command, NoChange
<1>4. key \in AudioKey /\ DOMAIN audio = AudioKey
      /\ declined \in BOOLEAN /\ swapBroke \in BOOLEAN
  BY <1>1 DEF AudioKey, HostShape
<1>5. CommandDone(key)
  <2>1. CASE ~Pinned(audio, key) /\ UNCHANGED <<audio, tools, declined>>
    BY <1>1, <1>4, <2>1 DEF HostShape, Pinned, CommandDone
  <2>2. ASSUME Pinned(audio, key), NEW e \in Ensured(audio[key].tool), NEW dev,
               audio' = [audio EXCEPT ![key].tool = e.tool, ![key].dev = dev],
               tools' = e.tools, declined' = (declined \/ e.declined)
        PROVE  CommandDone(key)
    <3>1. Shaped(audio[key])
      BY <1>1, <2>2 DEF HostShape, Pinned
    <3> DEFINE c == audio[key]
               d == [[c EXCEPT !.tool = e.tool] EXCEPT !.dev = dev]
    <3>2. audio' = [audio EXCEPT ![key] = d]
      BY <1>4, <2>2
    <3>3. /\ DOMAIN d = DOMAIN c /\ d.tool = e.tool /\ d.driver = c.driver
          /\ d.pinned = c.pinned
      BY <3>1 DEF Shaped
    <3> HIDE DEF d
    <3>4. DOMAIN audio' = AudioKey /\ audio'[key] = d
          /\ \A k \in CmdKey \ {key} : audio'[k] = audio[k]
      BY <1>4, <3>2 DEF CmdKey, AudioKey
    <3>5. e.declined \in BOOLEAN /\ FitsHere(audio[key].tool, e.tool, e.tools, e.declined)
      BY <1>1, EnsuredFits
    <3>6. FitsHere(audio[key].tool, e.tool, tools', declined')
      BY <2>2, <3>5, Zenon DEF FitsHere
    <3>7. Shaped(d)
      BY <3>1, <3>3 DEF Shaped
    <3>8. /\ \A x \in DOMAIN tools' : Absolute(x) /\ tools'[x] \in Nat
          /\ DOMAIN tools \subseteq DOMAIN tools'
      BY <3>6, Zenon DEF FitsHere
    <3>9. declined' \in BOOLEAN /\ (declined => declined')
      BY <2>2
    <3> HIDE DEF c
    <3> QED BY <2>2, <3>3, <3>4, <3>6, <3>7, <3>8, <3>9 DEF c, CommandDone
  <2>3. ASSUME Pinned(audio, key),
               audio' = [audio EXCEPT ![key].tool = Rewritten(@)],
               UNCHANGED <<tools, declined>>
        PROVE  CommandDone(key)
    <3>1. Shaped(audio[key])
      BY <1>1, <2>3 DEF HostShape, Pinned
    <3> DEFINE c == audio[key]
               u == Rewritten(c.tool)
               d == [c EXCEPT !.tool = u]
    <3>2. audio' = [audio EXCEPT ![key] = d]
      BY <1>4, <2>3
    <3> HIDE DEF u
    <3>3. /\ DOMAIN d = DOMAIN c /\ d.tool = u /\ d.driver = c.driver
          /\ d.pinned = c.pinned
      BY <3>1 DEF Shaped
    <3> HIDE DEF d
    <3>4. DOMAIN audio' = AudioKey /\ audio'[key] = d
          /\ \A k \in CmdKey \ {key} : audio'[k] = audio[k]
      BY <1>4, <3>2 DEF CmdKey, AudioKey
    <3>5. FitsHere(audio[key].tool, u, tools, FALSE)
      BY <1>1, RewrittenFits DEF u
    <3>6. FitsHere(audio[key].tool, u, tools', declined')
      BY <2>3, <3>5, Zenon DEF FitsHere
    <3>7. Shaped(d)
      BY <3>1, <3>3 DEF Shaped
    <3>8. /\ \A x \in DOMAIN tools' : Absolute(x) /\ tools'[x] \in Nat
          /\ DOMAIN tools \subseteq DOMAIN tools'
      BY <3>6, Zenon DEF FitsHere
    <3>9. declined' \in BOOLEAN /\ (declined => declined')
      BY <1>4, <2>3
    <3> HIDE DEF c
    <3> QED BY <2>3, <3>3, <3>4, <3>6, <3>7, <3>8, <3>9 DEF c, CommandDone
  <2> QED BY <2>1, <2>2, <2>3, Zenon DEF Command
<1>6. Carries
  <2>1. \A k \in CmdKey : (Pinned(audio, k) => Shaped(audio'[k]))
                         /\ (~Pinned(audio, k) => audio'[k] = NoCmd)
    BY <1>1, <1>5 DEF HostShape, Pinned, CommandDone
  <2> QED BY <1>2, <1>3, <1>4, <1>5, <2>1 DEF Carries, CommandDone
<1>7. HostShape' /\ check'.at # "idle"
  BY <1>1, <1>6, CarriesShape
<1>8. ASSUME NEW k \in CmdKey, k # key PROVE Fitting(k)'
  <2>1. Untouched(k)
    BY <1>5, <1>8 DEF Untouched, CommandDone
  <2> QED BY <1>1, <1>6, <1>8, <2>1, SameFits
<1>9. Fitting(key)'
  <2> SUFFICES ASSUME Pinned(audio', key) PROVE Fitting(key)'
    BY DEF Fitting, Pinned
  <2>1. Pinned(audio, key)
    BY <1>1, <1>6, PinnedStays
  <2>2. check.at \notin After(key) /\ check'.at \in After(key)
    BY <1>1, <1>2 DEF After, CmdKey
  <2>3. /\ audio[key].tool = before.audio[key].tool
        /\ machine.linux /\ IsSox(audio[key].tool.base) => audio[key].driver # "coreaudio"
    BY <1>1, <2>1, <2>2 DEF Fitting
  <2>4. ~swapBroke => before.present \subseteq DOMAIN tools
    BY <1>1 DEF HostShape
  <2>5. audio'[key].driver = audio[key].driver
        /\ FitsHere(audio[key].tool, audio'[key].tool, tools', declined')
    BY <1>5, <2>1 DEF CommandDone
  <2>6. machine.linux /\ IsSox(audio'[key].tool.base) => audio'[key].driver # "coreaudio"
    BY <2>3, <2>5 DEF FitsHere
  <2>7. ~declined' /\ ~swapBroke =>
          /\ Absolute(audio'[key].tool) => audio'[key].tool \in DOMAIN tools'
          /\ before.audio[key].tool \in before.present => Absolute(audio'[key].tool)
    BY <2>3, <2>4, <2>5 DEF FitsHere
  <2> QED BY <1>3, <2>2, <2>6, <2>7, Zenon DEF Fitting, Absolute
<1> QED BY <1>7, <1>8, <1>9 DEF HostInv

\* The sox that the section runs is replaced where it is named.
LEMMA UseSoxNgStep ==
  ASSUME HostInv, UseSoxNg
  PROVE  HostInv'
<1>1. /\ HostShape /\ check.at = "sox" /\ check.at # "idle"
      /\ \A k \in CmdKey : Fitting(k)
  BY DEF HostInv, UseSoxNg, Step
<1>2. /\ "at" \in DOMAIN check' /\ check'.at = "done" /\ Later(check.at, check'.at)
  <2>1. Later("sox", "done")
    BY DEF Later
  <2> QED BY <1>1, <2>1, OnTo DEF UseSoxNg
<1>3. UNCHANGED <<machine, before, tools, declined, swapBroke>>
  BY DEF UseSoxNg, NoChange
<1>4. IsSox(ConfiguredSox.base) /\ SoxOnPath # {}
  BY DEF UseSoxNg, SoxProblem, Ng
<1>5. BestSox \in DOMAIN tools /\ IsSox(BestSox.base) /\ Absolute(BestSox)
  <2>1. BestSox \in DOMAIN tools /\ IsSox(BestSox.base)
    BY <1>1, <1>4, BestSoxIs
  <2> QED BY <1>1, <2>1 DEF HostShape
<1>6. DOMAIN audio = AudioKey /\ \A k \in CmdKey : k \in AudioKey
  BY <1>1 DEF HostShape, AudioKey
<1>7. \A key \in CmdKey :
        audio'[key] = IF Pinned(audio, key) /\ audio[key].tool = ConfiguredSox
                      THEN [audio[key] EXCEPT !.tool = BestSox] ELSE audio[key]
  <2>1. \A key \in CmdKey : key \in ToSet(Cmds)
    <3>1. Cmds[1] = "capture_cmd" /\ Cmds[2] = "playback_cmd" /\ DOMAIN Cmds = 1 .. 2
      BY DEF Cmds
    <3> QED BY <3>1 DEF CmdKey, ToSet
  <2> QED BY <1>6, <2>1 DEF UseSoxNg
<1>8. DOMAIN audio' = AudioKey
  BY <1>6 DEF UseSoxNg
<1>9. ASSUME NEW key \in CmdKey, Pinned(audio, key)
      PROVE  /\ Shaped(audio'[key]) /\ audio'[key].driver = audio[key].driver
             /\ \/ audio'[key].tool = audio[key].tool
                \/ audio'[key].tool = BestSox /\ IsSox(audio[key].tool.base)
  <2>1. Shaped(audio[key])
    BY <1>1, <1>9 DEF HostShape, Pinned
  <2> DEFINE c == audio[key]
             e == [c EXCEPT !.tool = BestSox]
  <2>2. DOMAIN e = DOMAIN c /\ e.tool = BestSox /\ e.driver = c.driver /\ e.pinned = c.pinned
    BY <2>1 DEF Shaped
  <2>3. CASE audio[key].tool = ConfiguredSox
    <3>1. audio'[key] = e
      BY <1>7, <1>9, <2>3
    <3> HIDE DEF e
    <3> QED BY <1>4, <2>1, <2>2, <2>3, <3>1 DEF Shaped
  <2>4. CASE audio[key].tool # ConfiguredSox
    <3>1. audio'[key] = audio[key]
      BY <1>7, <2>4
    <3> QED BY <2>1, <3>1
  <2> QED BY <2>3, <2>4
<1>10. ASSUME NEW key \in CmdKey, ~Pinned(audio, key) PROVE audio'[key] = NoCmd
  BY <1>7, <1>10 DEF Pinned
<1>11. Carries
  BY <1>1, <1>2, <1>3, <1>8, <1>9, <1>10 DEF Carries, HostShape
<1>12. HostShape' /\ check'.at # "idle"
  BY <1>1, <1>11, CarriesShape
<1>13. ASSUME NEW key \in CmdKey PROVE Fitting(key)'
  <2> SUFFICES ASSUME Pinned(audio', key) PROVE Fitting(key)'
    BY DEF Fitting, Pinned
  <2>1. Pinned(audio, key)
    BY <1>1, <1>11, PinnedStays
  <2>2. check.at \in After(key) /\ check'.at \in After(key)
    BY <1>1, <1>2 DEF After
  <2>3. Fitting(key)
    BY <1>1
  <2>4. CASE audio'[key].tool = audio[key].tool
    BY <1>1, <1>3, <1>9, <2>1, <2>2, <2>3, <2>4 DEF Fitting, Absolute
  <2>5. CASE audio'[key].tool = BestSox /\ IsSox(audio[key].tool.base)
    BY <1>1, <1>3, <1>5, <1>9, <2>1, <2>2, <2>3, <2>5 DEF Fitting, Absolute
  <2> QED BY <1>9, <2>1, <2>4, <2>5
<1> QED BY <1>12, <1>13 DEF HostInv

LEMMA SwapSoxStep ==
  ASSUME HostInv, SwapSox
  PROVE  HostInv'
<1>1. HostShape /\ check.at = "sox" /\ check.at # "idle"
  BY DEF HostInv, HostShape, SwapSox, Step
<1>2. /\ "at" \in DOMAIN check' /\ check'.at = "done" /\ Later(check.at, check'.at)
  <2>1. Later("sox", "done")
    BY DEF Later
  <2> QED BY <1>1, <2>1, OnTo DEF SwapSox
<1>3. UNCHANGED <<audio, machine, before, declined>>
  BY DEF SwapSox, NoChange
<1>4. /\ \A t \in DOMAIN tools' : Absolute(t) /\ tools'[t] \in Nat
      /\ DOMAIN tools \subseteq DOMAIN tools' \/ swapBroke'
      /\ (swapBroke => swapBroke') /\ swapBroke' \in BOOLEAN
  <2> DEFINE brewed == [dir |-> BrewDir, base |-> "sox"]
  <2>0. /\ \A t \in DOMAIN tools : Absolute(t) /\ tools[t] \in Nat
        /\ swapBroke \in BOOLEAN /\ NgRank \in Nat
    BY <1>1, HostAssumption DEF HostShape
  <2>1. CASE UNCHANGED <<tools, swapBroke>>
    BY <2>0, <2>1
  <2>2. CASE tools' = [t \in DOMAIN tools \ {brewed} |-> tools[t]] /\ swapBroke' = TRUE
    <3> HIDE DEF brewed
    <3> QED BY <2>0, <2>2
  <2>3. CASE tools' = [tools EXCEPT ![brewed] = NgRank] /\ UNCHANGED swapBroke
    <3> HIDE DEF brewed
    <3> QED BY <2>0, <2>3
  <2> QED BY <2>1, <2>2, <2>3, Zenon DEF SwapSox
<1>6. Carries
  BY <1>1, <1>2, <1>3, <1>4 DEF Carries, HostShape, Pinned
<1>7. \A k \in CmdKey : Untouched(k)
  BY <1>3 DEF Untouched
<1> QED BY <1>1, <1>6, <1>7, NoCommandTouched DEF CmdKey

LEMMA HostInvariant == HostSpec => []HostInv
<1>1. HostInit => HostInv
  <2> SUFFICES ASSUME HostInit PROVE HostInv
    OBVIOUS
  <2>1. check = [at |-> "idle"] /\ declined = FALSE /\ swapBroke = FALSE
    BY DEF HostInit
  <2>2. "at" \in DOMAIN check /\ check.at = "idle"
    BY <2>1
  <2> QED BY <2>1, <2>2 DEF HostInv, HostShape, Stages
<1>2. HostInv /\ [HostNext]_hostVars => HostInv'
  <2> SUFFICES ASSUME HostInv, [HostNext]_hostVars PROVE HostInv'
    OBVIOUS
  <2>1. ASSUME NEW m \in Machine, NEW a \in Imported, NEW t \in Installed0,
               NEW y \in BOOLEAN, Begin(m, a, t, y)
        PROVE  HostInv'
    BY <2>1, CheckBegins
  <2>2. CASE Device("capture_device", "playback_device")
    BY <2>2, DeviceStep
  <2>3. CASE Device("playback_device", "capture_cmd")
    BY <2>3, DeviceStep
  <2>4. CASE Command("capture_cmd", "playback_cmd")
    BY <2>4, CommandStep DEF CmdKey
  <2>5. CASE Command("playback_cmd", "missing")
    BY <2>5, CommandStep DEF CmdKey
  <2>6. CASE Finish
    BY <2>6 DEF Finish, HostInv, HostShape, Stages
  <2>7. CASE UNCHANGED hostVars
    <3>1. UNCHANGED <<machine, audio, tools, check, before, declined, swapBroke>>
      BY <2>7, Zenon DEF hostVars
    <3> QED BY <3>1, Zenon DEF HostInv, HostShape, Fitting, Pinned, Shaped, After, Absolute
  <2> QED BY <2>1, <2>2, <2>3, <2>4, <2>5, <2>6, <2>7, DriverStep, MissingToolStep,
             SoxFineStep, UseSoxNgStep, SwapSoxStep DEF HostNext
<1> QED BY <1>1, <1>2, PTL DEF HostSpec

\* An imported command can run on this machine when the check is done, unless its
\* owner refused what would fix it (hostcheck.rs, run_with).
THEOREM ImportedCommandsFit == HostSpec => []CommandsFit
<1>1. HostInv => CommandsFit
  <2> SUFFICES ASSUME HostInv, Step("done"), ~declined, ~swapBroke,
                      NEW i \in 1 .. 2, Pinned(audio, Cmds[i])
               PROVE  LET c == audio[Cmds[i]]
                      IN  /\ Absolute(c.tool) => c.tool \in DOMAIN tools
                          /\ machine.linux /\ IsSox(c.tool.base) => c.driver # "coreaudio"
                          /\ before.audio[Cmds[i]].tool \in before.present => Exists(c.tool)
    BY Zenon DEF CommandsFit
  <2>1. Cmds[i] \in CmdKey
    BY DEF Cmds, CmdKey
  <2> DEFINE key == Cmds[i]
  <2> HIDE DEF key
  <2>2. check.at = "done" /\ check.at # "idle" /\ check.at # "driver" /\ check.at \in After(key)
    BY DEF Step, After
  <2>3. Fitting(key)
    BY <2>1, <2>2 DEF HostInv, key
  <2>4. Pinned(audio, key)
    BY DEF key
  <2>5. /\ Absolute(audio[key].tool) => audio[key].tool \in DOMAIN tools
        /\ machine.linux /\ IsSox(audio[key].tool.base) => audio[key].driver # "coreaudio"
        /\ before.audio[key].tool \in before.present => Absolute(audio[key].tool)
    BY <2>2, <2>3, <2>4, Zenon DEF Fitting
  <2> QED BY <2>5, Zenon DEF Exists, key
<1> QED BY <1>1, HostInvariant, PTL

-----------------------------------------------------------------------------
(* BundleExport.                                                            *)

\* The first so many components of a path, one more and one less.
LEMMA PathOneMore ==
  ASSUME NEW C, NEW s \in Seq(C), NEW n \in 1 .. Len(s)
  PROVE  Append(SubSeq(s, 1, n - 1), s[n]) = SubSeq(s, 1, n)
<1>1. Len(s) \in Nat /\ s[n] \in C /\ \A i \in 1 .. Len(s) : s[i] \in C
  BY LenProperties, ElementOfSeq
<1>2. SubSeq(s, 1, n) = SubSeq(s, 1, n - 1) \o <<s[n]>>
  <2>1. 1 \in 1 .. Len(s) /\ n \in 1 .. Len(s)
    BY <1>1
  <2> QED BY <2>1, SubSeqRecursiveSecond
<1>3. SubSeq(s, 1, n - 1) \in Seq(C)
  <2>1. 1 \in Int /\ n - 1 \in Int /\ \A i \in 1 .. n - 1 : s[i] \in C
    BY <1>1
  <2> QED BY <2>1, SubSeqProperties
<1>4. Append(SubSeq(s, 1, n - 1), s[n]) = SubSeq(s, 1, n - 1) \o <<s[n]>>
  BY <1>1, <1>3, AppendIsConcat
<1> QED BY <1>2, <1>4

LEMMA PathOneLess ==
  ASSUME NEW C, NEW s \in Seq(C), NEW n \in 1 .. Len(s)
  PROVE  Parent(SubSeq(s, 1, n)) = SubSeq(s, 1, n - 1)
<1>1. Len(s) \in Nat /\ \A i \in 1 .. Len(s) : s[i] \in C
  BY LenProperties, ElementOfSeq
<1>2. SubSeq(s, 1, n) \in Seq(C) /\ Len(SubSeq(s, 1, n)) = n
  <2>1. 1 \in Int /\ n \in Int /\ 1 <= n /\ \A i \in 1 .. n : s[i] \in C
    BY <1>1
  <2>2. Len(SubSeq(s, 1, n)) = n - 1 + 1 /\ SubSeq(s, 1, n) \in Seq(C)
    BY <2>1, SubSeqProperties
  <2> QED BY <2>1, <2>2
<1>3. SubSeq(s, 1, n) # <<>>
  BY <1>2, EmptySeq
<1>4. Parent(SubSeq(s, 1, n)) = SubSeq(SubSeq(s, 1, n), 1, n - 1)
  BY <1>2, <1>3 DEF Parent
<1>5. CASE n = 1
  BY <1>4, <1>5, SubSeqEmpty
<1>6. CASE n # 1
  <2>1. 1 \in 1 .. Len(s) /\ 1 \in 1 .. (n - 1) + 1 /\ n - 1 \in 1 .. (n - 1) + 1
    BY <1>1, <1>6
  <2>2. SubSeq(SubSeq(s, 1, n), 1, n - 1) = SubSeq(s, 1 + 1 - 1, 1 + (n - 1) - 1)
    BY <2>1, SubSeqOfSubSeq
  <2>3. 1 + 1 - 1 = 1 /\ 1 + (n - 1) - 1 = n - 1
    BY <2>1
  <2> QED BY <1>4, <2>2, <2>3
<1> QED BY <1>5, <1>6

\* How far a path has come after each of its components.
Goes(path, at) ==
  at = [i \in 0 .. Len(path) |->
          IF i = 0 THEN <<>>
          ELSE IF path[i] = ".." THEN Parent(at[i - 1])
          ELSE Append(at[i - 1], path[i])]

\* There is one way to go along a path, and Normal goes it.
LEMMA NormalIs ==
  ASSUME NEW path, Len(path) \in Nat, NEW at, Goes(path, at)
  PROVE  Normal(path) = at[Len(path)]
<1> DEFINE w == CHOOSE w : Goes(path, w)
<1>1. Normal(path) = w[Len(path)]
  BY DEF Normal, Goes
<1>2. Goes(path, w)
  BY Zenon
<1> HIDE DEF w
<1> DEFINE Off == {i \in 0 .. Len(path) : w[i] # at[i]}
<1>3. CASE Off = {}
  BY <1>1, <1>3
<1>4. CASE Off # {}
  <2> DEFINE i == Min(Off)
  <2>1. i \in Off /\ \A j \in Off : i <= j
    <3>1. Off \in SUBSET Nat
      OBVIOUS
    <3> HIDE DEF Off
    <3> QED BY <1>4, <3>1, LeastIn
  <2> HIDE DEF i
  <2>2. i \in 0 .. Len(path) /\ w[i] # at[i]
    BY <2>1
  <2>3. i # 0
    BY <1>2, <2>2 DEF Goes
  <2>4. i - 1 \in 0 .. Len(path) /\ i - 1 < i
    BY <2>2, <2>3
  <2>5. w[i - 1] = at[i - 1]
    BY <2>1, <2>2, <2>4
  <2>6. w[i] = IF path[i] = ".." THEN Parent(w[i - 1]) ELSE Append(w[i - 1], path[i])
    BY <1>2, <2>2, <2>3 DEF Goes
  <2>7. at[i] = IF path[i] = ".." THEN Parent(at[i - 1]) ELSE Append(at[i - 1], path[i])
    BY <2>2, <2>3 DEF Goes
  <2> QED BY <2>2, <2>5, <2>6, <2>7
<1> QED BY <1>3, <1>4

\* Two paths have a longest common beginning.
Agree(base, target, c) ==
  /\ SubSeq(base, 1, c) = SubSeq(target, 1, c)
  /\ c < Len(base) /\ c < Len(target) => base[c + 1] # target[c + 1]

LEMMA CommonIs ==
  ASSUME NEW C, NEW base \in Seq(C), NEW target \in Seq(C)
  PROVE  \E c \in Nat : /\ c <= Len(base) /\ c <= Len(target)
                        /\ Agree(base, target, c)
<1> DEFINE n == IF Len(base) < Len(target) THEN Len(base) ELSE Len(target)
           Apart == {c \in 0 .. n : SubSeq(base, 1, c) # SubSeq(target, 1, c)}
<1>1. Len(base) \in Nat /\ Len(target) \in Nat
  BY LenProperties
<1>2. n \in Nat /\ n <= Len(base) /\ n <= Len(target)
      /\ (n = Len(base) \/ n = Len(target))
  BY <1>1
<1> HIDE DEF n
<1>3. CASE Apart = {}
  <2>1. SubSeq(base, 1, n) = SubSeq(target, 1, n)
    BY <1>2, <1>3
  <2> QED BY <1>1, <1>2, <2>1 DEF Agree
<1>4. CASE Apart # {}
  <2> DEFINE m == Min(Apart)
  <2>1. m \in Apart /\ \A j \in Apart : m <= j
    <3>1. Apart \in SUBSET Nat
      BY <1>2
    <3> HIDE DEF Apart
    <3> QED BY <1>4, <3>1, LeastIn
  <2> HIDE DEF m
  <2>2. m \in 0 .. n /\ SubSeq(base, 1, m) # SubSeq(target, 1, m)
    BY <2>1
  <2>3. SubSeq(base, 1, 0) = <<>> /\ SubSeq(target, 1, 0) = <<>>
    BY SubSeqEmpty
  <2>4. m # 0
    BY <2>2, <2>3
  <2>5. m - 1 \in 0 .. n /\ m - 1 < m /\ m - 1 < n /\ m - 1 + 1 = m
        /\ m \in 1 .. Len(base) /\ m \in 1 .. Len(target)
    BY <1>1, <1>2, <2>2, <2>4
  <2>6. SubSeq(base, 1, m - 1) = SubSeq(target, 1, m - 1)
    BY <2>1, <2>2, <2>5
  <2>7. base[m] # target[m]
    <3>1. /\ Append(SubSeq(base, 1, m - 1), base[m]) = SubSeq(base, 1, m)
          /\ Append(SubSeq(target, 1, m - 1), target[m]) = SubSeq(target, 1, m)
      BY <2>5, PathOneMore
    <3> QED BY <2>2, <2>6, <3>1
  <2> DEFINE d == m - 1
  <2>8. d \in Nat /\ d + 1 = m /\ d <= Len(base) /\ d <= Len(target)
    BY <1>1, <1>2, <2>5
  <2>9. SubSeq(base, 1, d) = SubSeq(target, 1, d)
    BY <2>6
  <2> HIDE DEF d
  <2> QED BY <2>7, <2>8, <2>9 DEF Agree
<1> QED BY <1>3, <1>4

\* A relative path that is taken from where it is meant to be leads where it
\* is meant to lead (relative_zip_path).
LEMMA RelativeLeads ==
  ASSUME NEW C, NEW base \in Seq(C), NEW target \in Seq(C),
         \A i \in 1 .. Len(base) : base[i] # "..",
         \A i \in 1 .. Len(target) : target[i] # ".."
  PROVE  Normal(base \o RelativeZipPath(base, target)) = target
<1> DEFINE B == Len(base)
           T == Len(target)
           limit == IF B < T THEN B ELSE T
           Fits(c) == /\ SubSeq(base, 1, c) = SubSeq(target, 1, c)
                      /\ c < limit => base[c + 1] # target[c + 1]
           c == CHOOSE c \in 0 .. limit : Fits(c)
           up == [j \in 1 .. B - c |-> ".."]
           down == SubSeq(target, c + 1, T)
           way == up \o down
           path == base \o way
           at == [i \in 0 .. Len(path) |->
                    IF i <= B THEN SubSeq(base, 1, i)
                    ELSE IF i <= B + (B - c) THEN SubSeq(base, 1, B - (i - B))
                    ELSE SubSeq(target, 1, c + (i - (B + (B - c))))]
           D == C \cup {".."}
<1>1. RelativeZipPath(base, target) = way
  BY DEF RelativeZipPath
<1>2. B \in Nat /\ T \in Nat /\ Len(base) = B /\ Len(target) = T
      /\ (\A i \in 1 .. B : base[i] \in C) /\ (\A i \in 1 .. T : target[i] \in C)
  BY LenProperties, ElementOfSeq
<1>3. c \in 0 .. limit /\ Fits(c)
  <2>1. \E d \in 0 .. limit : Fits(d)
    <3>1. PICK d \in Nat : d <= B /\ d <= T /\ Agree(base, target, d)
      BY CommonIs
    <3>2. d \in 0 .. limit
      BY <1>2, <3>1
    <3>3. Fits(d)
      BY <1>2, <3>1, <3>2 DEF Agree
    <3> HIDE DEF Fits
    <3> QED BY <3>2, <3>3
  <2> HIDE DEF Fits, limit
  <2> QED BY <2>1, Zenon
<1> HIDE DEF c
<1>4. c \in Nat /\ c <= B /\ c <= T
  BY <1>2, <1>3
<1>c. SubSeq(base, 1, c) = SubSeq(target, 1, c)
  BY <1>3
<1> HIDE DEF B, T, limit, Fits
<1>t. /\ \A i \in 1 .. B : base[i] # ".."
      /\ \A i \in 1 .. T : target[i] # ".."
  BY <1>2
<1>5. /\ base \in Seq(D) /\ up \in Seq(D) /\ Len(up) = B - c
      /\ \A j \in 1 .. B - c : up[j] = ".."
  <2>1. base \in Seq(D)
    BY SeqMonotonic
  <2>2. B - c \in Nat
    BY <1>2, <1>4
  <2> QED BY <2>1, <2>2
<1>6. /\ down \in Seq(D) /\ Len(down) = T - c
      /\ \A j \in 1 .. T - c : down[j] = target[c + j]
  <2>1. c + 1 \in Int /\ T \in Int /\ \A i \in c + 1 .. T : target[i] \in D
    BY <1>2, <1>4
  <2>2. down \in Seq(D) /\ Len(down) = (IF c + 1 <= T THEN (T - (c + 1)) + 1 ELSE 0)
        /\ \A j \in 1 .. (T - (c + 1)) + 1 : down[j] = target[((c + 1) + j) - 1]
    <3> HIDE DEF D
    <3> QED BY <2>1, SubSeqProperties
  <2>3. (T - (c + 1)) + 1 = T - c /\ (~(c + 1 <= T) => T - c = 0)
    BY <1>2, <1>4
  <2>4. \A j \in 1 .. T - c : ((c + 1) + j) - 1 = c + j
    BY <1>2, <1>4
  <2> HIDE DEF down, D
  <2>5. \A j \in 1 .. T - c : down[j] = target[((c + 1) + j) - 1]
    BY <2>2, <2>3
  <2> QED BY <2>2, <2>3, <2>4, <2>5
<1> HIDE DEF up, down, D
<1>7. /\ way \in Seq(D) /\ Len(way) = (B - c) + (T - c)
      /\ \A i \in 1 .. (B - c) + (T - c) :
           way[i] = IF i <= B - c THEN up[i] ELSE down[i - (B - c)]
  <2>1. /\ way \in Seq(D) /\ Len(way) = Len(up) + Len(down)
        /\ \A i \in 1 .. Len(up) + Len(down) :
             way[i] = IF i <= Len(up) THEN up[i] ELSE down[i - Len(up)]
    BY <1>5, <1>6, ConcatProperties
  <2> HIDE DEF way
  <2> QED BY <1>5, <1>6, <2>1
<1> HIDE DEF way
<1>8. /\ Len(path) = B + ((B - c) + (T - c))
      /\ \A i \in 1 .. B + ((B - c) + (T - c)) :
           path[i] = IF i <= B THEN base[i] ELSE way[i - B]
  <2>1. /\ Len(path) = Len(base) + Len(way)
        /\ \A i \in 1 .. Len(base) + Len(way) :
             path[i] = IF i <= Len(base) THEN base[i] ELSE way[i - Len(base)]
    BY <1>5, <1>7, ConcatProperties
  <2> HIDE DEF path
  <2> QED BY <1>2, <1>7, <2>1
<1> HIDE DEF path
<1> DEFINE u == B - c
           N == B + (u + (T - c))
<1>9. u \in Nat /\ N \in Nat /\ B + u <= N /\ N - (B + u) = T - c /\ Len(path) = N
      /\ B - u = c /\ T - c \in Nat
  BY <1>2, <1>4, <1>8
<1>10. \A i \in 0 .. N :
         at[i] = IF i <= B THEN SubSeq(base, 1, i)
                 ELSE IF i <= B + u THEN SubSeq(base, 1, B - (i - B))
                 ELSE SubSeq(target, 1, c + (i - (B + u)))
  BY <1>9
<1>11. at[0] = <<>>
  BY <1>2, <1>9, <1>10, SubSeqEmpty
<1>12. \A i \in 1 .. N :
         at[i] = IF path[i] = ".." THEN Parent(at[i - 1]) ELSE Append(at[i - 1], path[i])
  <2> SUFFICES ASSUME NEW i \in 1 .. N
               PROVE  at[i] = IF path[i] = ".." THEN Parent(at[i - 1])
                              ELSE Append(at[i - 1], path[i])
    OBVIOUS
  <2> HIDE DEF at
  <2>0. i \in 0 .. N /\ i - 1 \in 0 .. N
    BY <1>9
  <2>1. CASE i <= B
    <3>1. i \in 1 .. B /\ path[i] = base[i] /\ path[i] # ".." /\ i - 1 <= B
      BY <1>2, <1>t, <1>8, <1>9, <2>1
    <3>2. at[i] = SubSeq(base, 1, i) /\ at[i - 1] = SubSeq(base, 1, i - 1)
      BY <1>10, <2>0, <2>1, <3>1
    <3>3. Append(SubSeq(base, 1, i - 1), base[i]) = SubSeq(base, 1, i)
      BY <1>2, <3>1, PathOneMore
    <3> QED BY <3>1, <3>2, <3>3
  <2>2. CASE B < i /\ i <= B + u
    <3>1. i - B \in 1 .. u /\ i - B <= B - c /\ ~(i <= B)
          /\ i - B \in 1 .. (B - c) + (T - c)
      BY <1>2, <1>4, <1>9, <2>2
    <3>2. path[i] = way[i - B]
      BY <1>8, <1>9, <3>1
    <3>3. way[i - B] = up[i - B]
      BY <1>7, <3>1
    <3>4. path[i] = ".."
      BY <1>5, <3>1, <3>2, <3>3
    <3> DEFINE k == B - (i - B)
    <3>5. k \in Nat /\ k + 1 \in 1 .. B
      BY <1>2, <1>4, <1>9, <2>2
    <3>6. at[i] = SubSeq(base, 1, k)
      BY <1>10, <2>0, <2>2, <3>1
    <3>7. at[i - 1] = SubSeq(base, 1, k + 1)
      <4>1. CASE i - 1 <= B
        <5>1. i - 1 = B /\ k + 1 = B
          BY <1>2, <1>4, <1>9, <2>2, <4>1
        <5> QED BY <1>10, <2>0, <4>1, <5>1
      <4>2. CASE ~(i - 1 <= B)
        <5>1. i - 1 <= B + u /\ B - (i - 1 - B) = k + 1
          BY <1>2, <1>4, <1>9, <2>2
        <5> HIDE DEF k
        <5> QED BY <1>10, <2>0, <4>2, <5>1
      <4> QED BY <4>1, <4>2
    <3> HIDE DEF k
    <3>8. \A m \in 1 .. Len(base) : Parent(SubSeq(base, 1, m)) = SubSeq(base, 1, m - 1)
      BY PathOneLess
    <3> DEFINE m == k + 1
    <3>m. m \in 1 .. Len(base) /\ m - 1 = k
      BY <1>2, <3>5
    <3>9. Parent(SubSeq(base, 1, k + 1)) = SubSeq(base, 1, k)
      <4> HIDE DEF m
      <4>1. Parent(SubSeq(base, 1, m)) = SubSeq(base, 1, m - 1)
        BY <3>m, <3>8
      <4> QED BY <3>m, <4>1 DEF m
    <3> QED BY <3>4, <3>6, <3>7, <3>9
  <2>3. CASE B + u < i
    <3> DEFINE k == i - (B + u)
    <3>1. /\ c + k \in 1 .. T /\ k \in 1 .. T - c /\ i - B - u = k
          /\ i - B \in 1 .. (B - c) + (T - c) /\ ~(i - B <= B - c)
          /\ i - B - (B - c) = k /\ ~(i <= B) /\ ~(i <= B + u)
      BY <1>2, <1>4, <1>9, <2>3
    <3>2. path[i] = way[i - B]
      BY <1>8, <1>9, <3>1
    <3>3. way[i - B] = down[k]
      <4> HIDE DEF k
      <4> QED BY <1>7, <3>1
    <3> HIDE DEF k
    <3>4. path[i] = target[c + k] /\ path[i] # ".."
      BY <1>t, <1>6, <3>1, <3>2, <3>3
    <3>5. at[i] = SubSeq(target, 1, c + k)
      BY <1>10, <2>0, <3>1 DEF k
    <3>6. at[i - 1] = SubSeq(target, 1, (c + k) - 1)
      <4>1. CASE i - 1 = B + u
        <5>1. k = 1 /\ (c + k) - 1 = c /\ B - (i - 1 - B) = c
          BY <1>2, <1>4, <1>9, <4>1 DEF k
        <5>2. CASE i - 1 <= B
          <6>1. i - 1 = c /\ i - 1 = B
            BY <1>2, <1>4, <1>9, <4>1, <5>2
          <6>2. at[i - 1] = SubSeq(base, 1, c)
            BY <1>10, <2>0, <5>2, <6>1
          <6> QED BY <1>c, <5>1, <6>2
        <5>3. CASE ~(i - 1 <= B)
          <6>1. i - 1 <= B + u
            BY <1>9, <4>1
          <6>2. at[i - 1] = SubSeq(base, 1, c)
            BY <1>10, <2>0, <5>1, <5>3, <6>1
          <6> QED BY <1>c, <5>1, <6>2
        <5> QED BY <5>2, <5>3
      <4>2. CASE i - 1 # B + u
        <5>1. /\ ~(i - 1 <= B) /\ ~(i - 1 <= B + u)
              /\ c + (i - 1 - (B + u)) = (c + k) - 1
          BY <1>2, <1>4, <1>9, <2>3, <4>2 DEF k
        <5> QED BY <1>10, <2>0, <5>1
      <4> QED BY <4>1, <4>2
    <3>7. \A m \in 1 .. Len(target) :
            Append(SubSeq(target, 1, m - 1), target[m]) = SubSeq(target, 1, m)
      BY PathOneMore
    <3>8. Append(SubSeq(target, 1, (c + k) - 1), target[c + k]) = SubSeq(target, 1, c + k)
      BY <1>2, <3>1, <3>7
    <3> QED BY <3>4, <3>5, <3>6, <3>8
  <2> QED BY <1>2, <1>9, <2>0, <2>1, <2>2, <2>3
<1>13. Goes(path, at)
  <2>1. \A i \in 0 .. N : at[i] = IF i = 0 THEN <<>>
                                  ELSE IF path[i] = ".." THEN Parent(at[i - 1])
                                  ELSE Append(at[i - 1], path[i])
    <3>1. \A i \in 0 .. N : i = 0 \/ i \in 1 .. N
      BY <1>9
    <3> HIDE DEF at, N
    <3> QED BY <1>11, <1>12, <3>1
  <2>2. at = [i \in 0 .. N |-> at[i]]
    BY <1>9
  <2> HIDE DEF at, N
  <2> QED BY <1>9, <2>1, <2>2 DEF Goes
<1>14. at[N] = target
  <2>1. N \in 0 .. N
    BY <1>9
  <2>2. CASE N <= B
    <3>1. N = B /\ B = c /\ T = c
      BY <1>2, <1>4, <1>9, <2>2
    <3>2. at[N] = SubSeq(base, 1, N)
      <4> HIDE DEF at, N
      <4> QED BY <1>10, <2>1, <2>2
    <3>4. N = c
      BY <3>1
    <3>5. at[N] = SubSeq(base, 1, c)
      <4> HIDE DEF at, N
      <4> QED BY <3>2, <3>4
    <3>3. SubSeq(target, 1, c) = target
      BY <1>2, <3>1, SubSeqFull
    <3> QED BY <1>2, <1>c, <3>5, <3>3
  <2>3. CASE ~(N <= B) /\ N <= B + u
    <3>1. N = B + u /\ T = c /\ B - (N - B) = c
      BY <1>2, <1>4, <1>9, <2>3
    <3>2. at[N] = SubSeq(base, 1, c)
      BY <1>10, <2>1, <2>3, <3>1
    <3>3. SubSeq(target, 1, c) = target
      BY <1>2, <3>1, SubSeqFull
    <3> QED BY <1>2, <1>c, <3>2, <3>3
  <2>4. CASE ~(N <= B) /\ ~(N <= B + u)
    <3>1. c + (N - (B + u)) = T
      BY <1>2, <1>4, <1>9
    <3>2. at[N] = SubSeq(target, 1, T)
      BY <1>10, <2>1, <2>4, <3>1
    <3> QED BY <1>2, <3>2, SubSeqFull
  <2> QED BY <2>2, <2>3, <2>4
<1>15. Normal(path) = at[Len(path)]
  <2> HIDE DEF at
  <2> QED BY <1>9, <1>13, NormalIs
<1> QED BY <1>1, <1>9, <1>14, <1>15 DEF path


\* What the folder ships.
Shipped == {f \in setup.exist : Ships(f)} \ {ConfigYaml}

\* A name under scripts/ or samples/.
Pulled(name) ==
  /\ name = <<name[1], name[2]>>
  /\ name[1] \in {"scripts", "samples"} /\ name[2] # ".."

\* The tables while the zip is put together: the files that ship, each under
\* its own name, and those pulled in, each under the name it was given.
Tabled(e, p) ==
  /\ DOMAIN e = Shipped \cup {p[g] : g \in DOMAIN p}
  /\ \A f \in Shipped : e[f].file = f
  /\ DOMAIN p \subseteq Abroad
  /\ \A g \in DOMAIN p : e[p[g]].file = g /\ Pulled(p[g])

\* A job that plays a file.
IsPlay(f) == setup.refs[f].form \in {"rel", "abs"}

\* The entry of that name holds f with what it plays found from there.
Linked(e, p, name, f) ==
  LET g == Played(f) IN
  /\ g \in Abroad =>
       g \in DOMAIN p /\ e[name].ref = Relink(name, p[g])
  /\ Ships(g) =>
       \/ e[name].ref = Relink(name, g)
       \/ e[name].ref = setup.refs[f] /\ setup.refs[f].form = "rel"

\* With so many scripts to go: those are as they were, the others are linked or
\* warned of.
ScriptsKept(e, p, files, warned) ==
  /\ files \subseteq Shipped
  /\ \A f \in files : e[f].ref = setup.refs[f]
  /\ \A f \in (Shipped \cap Yaml) \ files :
       IsPlay(f) => f \in warned \/ Linked(e, p, f, f)

\* With so many numbers to go: the others' jobs are where the configuration
\* says, and those from outside are linked.
NumbersKept(e, p, numbers, c) ==
  \A n \in Number \ numbers :
    LET job == setup.auto[n] IN
    /\ job \in Folder /\ job # ConfigYaml => c[n] = job
    /\ job \in Abroad =>
         /\ job \in DOMAIN p /\ c[n] = p[job]
         /\ IsPlay(job) => Linked(e, p, p[job], job)

ExportTyped ==
  /\ export \in [pc : {"idle", "walk", "scripts", "config", "written", "failed"},
                 files : SUBSET Folder, numbers : SUBSET Number,
                 warned : SUBSET Folder, missing : SUBSET Number]
  /\ export.pc # "idle" => setup \in Setup
  /\ DOMAIN conf = Number

\* What holds between any two steps of an export.
ExportInv ==
  /\ ExportTyped
  /\ export.pc \in {"idle", "walk"} =>
       DOMAIN entries = {} /\ DOMAIN pulled = {}
  /\ export.pc \in {"idle", "walk", "scripts"} => export.numbers = Number
  /\ export.pc \in {"scripts", "config"} =>
       /\ Tabled(entries, pulled)
       /\ ScriptsKept(entries, pulled, export.files, export.warned)
       /\ NumbersKept(entries, pulled, export.numbers, conf)
  /\ export.pc = "config" => export.files = {}

-----------------------------------------------------------------------------
\* One table goes on as the other: nothing it holds is lost or changed.
Extends(a, b) == DOMAIN a \subseteq DOMAIN b /\ \A x \in DOMAIN a : b[x] = a[x]

LEMMA WithExtends ==
  ASSUME NEW f, NEW x, NEW v, x \notin DOMAIN f
  PROVE  Extends(f, With(f, x, v))
BY DEF With, Extends

\* Among as many names as there are files and one more, one is free.
LEMMA FreshName ==
  ASSUME NEW e, NEW p, Tabled(e, p), NEW g \in Abroad,
         NEW under \in {"scripts", "samples"}
  PROVE  /\ PullName(under, Base[g], DOMAIN e) \notin DOMAIN e
         /\ Pulled(PullName(under, Base[g], DOMAIN e))
<1> DEFINE taken == DOMAIN e
           K == Cardinality(taken)
           nm == [n \in 0 .. K |-> Numbered(under, Base[g], n)]
           Free == {n \in 0 .. K : nm[n] \notin taken}
<1>1. /\ IsFiniteSet(taken) /\ K <= Cardinality(Files) /\ K \in Nat
      /\ Cardinality(Files) \in Nat
  <2> DEFINE of == [x \in taken |-> e[x].file]
  <2>1. of \in Injection(taken, Files)
    <3>1. ASSUME NEW x \in taken
          PROVE  \/ x \in Shipped /\ of[x] = x /\ of[x] \in Folder
                 \/ \E h \in DOMAIN p : x = p[h] /\ of[x] = h /\ of[x] \in Abroad
      BY DEF Tabled, Shipped, Ships, Inside
    <3>2. of \in [taken -> Files]
      BY <3>1 DEF Files
    <3>3. \A x, y \in taken : of[x] = of[y] => x = y
      <4> HIDE DEF of, taken
      <4> QED BY <3>1, ExportAssumption
    <3> HIDE DEF of
    <3> QED BY <3>2, <3>3 DEF Injection, IsInjective
  <2> HIDE DEF of
  <2>2. IsFiniteSet(Files)
    BY ExportAssumption
  <2> QED BY <2>1, <2>2, FS_Injection, FS_CardinalityType
<1>2. /\ \A n \in 0 .. K : Copy(Base[g], n) # ".."
      /\ \A m, n \in 0 .. K : m < n => Copy(Base[g], m) # Copy(Base[g], n)
  <2>1. \A n \in 0 .. K : n \in 0 .. Cardinality(Files)
    BY <1>1
  <2>2. \A m, n \in 0 .. K : m < n => m \in 0 .. n - 1
    BY <1>1
  <2> HIDE DEF K
  <2> QED BY <2>1, <2>2, ExportAssumption
<1> HIDE DEF K, taken
<1>3. \A m, n \in 0 .. K : m # n => nm[m] # nm[n]
  <2>1. \A m, n \in 0 .. K : m # n => Copy(Base[g], m) # Copy(Base[g], n)
    <3>1. \A m, n \in 0 .. K : m # n => m < n \/ n < m
      BY <1>1
    <3> QED BY <1>2, <3>1
  <2> QED BY <2>1 DEF Numbered
<1>4. Free # {}
  <2> SUFFICES ASSUME Free = {} PROVE FALSE
    OBVIOUS
  <2>1. nm \in [0 .. K -> taken]
    OBVIOUS
  <2>2. IsFiniteSet(0 .. K) /\ Cardinality(0 .. K) = K + 1
    <3>1. 0 \in Int /\ K \in Int /\ ~(0 > K) /\ (K - 0) + 1 = K + 1
      BY <1>1
    <3>2. IsFiniteSet(0 .. K) /\ Cardinality(0 .. K) = (K - 0) + 1
      BY <3>1, FS_Interval
    <3> QED BY <3>1, <3>2
  <2>3. K = Cardinality(taken) /\ K < Cardinality(0 .. K)
    BY <1>1, <2>2 DEF K
  <2> HIDE DEF nm, Free
  <2>4. \E m, n \in 0 .. K : m # n /\ nm[m] = nm[n]
    BY <1>1, <2>1, <2>2, <2>3, FS_PigeonHole
  <2> QED BY <1>3, <2>4
<1>5. \E n \in 0 .. K : /\ nm[n] \notin taken
                        /\ \A m \in 0 .. n - 1 : nm[m] \in taken
  <2>1. Free \in SUBSET Nat
    BY <1>1
  <2>2. Min(Free) \in Free /\ \A m \in Free : Min(Free) <= m
    <3> HIDE DEF Free
    <3> QED BY <1>4, <2>1, LeastIn
  <2> DEFINE n == Min(Free)
  <2>3. n \in Free /\ \A m \in Free : n <= m
    BY <2>2
  <2> HIDE DEF n
  <2>4. n \in 0 .. K /\ nm[n] \notin taken
    BY <2>3
  <2>5. ASSUME NEW m \in 0 .. n - 1 PROVE nm[m] \in taken
    <3>1. m \in 0 .. K /\ ~(n <= m)
      BY <1>1, <2>4
    <3> HIDE DEF nm
    <3> QED BY <2>3, <3>1
  <2> QED BY <2>4, <2>5
<1> DEFINE Right(n) == /\ Numbered(under, Base[g], n) \notin taken
                       /\ \A m \in 0 .. n - 1 : Numbered(under, Base[g], m) \in taken
           pick == CHOOSE n \in 0 .. K : Right(n)
<1>6. \E n \in 0 .. K : Right(n)
  <2>1. PICK n \in 0 .. K : nm[n] \notin taken /\ \A m \in 0 .. n - 1 : nm[m] \in taken
    BY <1>5
  <2>2. \A m \in 0 .. n - 1 : m \in 0 .. K
    BY <1>1
  <2> QED BY <2>1, <2>2
<1>7. pick \in 0 .. K /\ Right(pick)
  <2> HIDE DEF Right
  <2> QED BY <1>6, Zenon
<1>8. PullName(under, Base[g], DOMAIN e) = Numbered(under, Base[g], pick)
  BY DEF PullName, taken, K
<1> HIDE DEF pick
<1>9. Pulled(Numbered(under, Base[g], pick))
  BY <1>2, <1>7 DEF Pulled, Numbered
<1> QED BY <1>7, <1>8, <1>9 DEF taken

\* A file from outside has its name, and nothing else has changed.
LEMMA PullsIn ==
  ASSUME NEW e, NEW p, NEW name, Tabled(e, p), NEW g \in Abroad,
         NEW under \in {"scripts", "samples"}, NEW u,
         u = PullExternal(g, under, [name |-> name, entries |-> e, pulled |-> p])
  PROVE  /\ Tabled(u.entries, u.pulled)
         /\ g \in DOMAIN u.pulled /\ u.name = u.pulled[g]
         /\ Extends(e, u.entries) /\ Extends(p, u.pulled)
         /\ u = [name |-> u.name, entries |-> u.entries, pulled |-> u.pulled]
<1>1. CASE g \in DOMAIN p
  <2>1. u = [name |-> p[g], entries |-> e, pulled |-> p]
    BY <1>1 DEF PullExternal
  <2> QED BY <1>1, <2>1 DEF Extends
<1>2. CASE g \notin DOMAIN p
  <2> DEFINE new == PullName(under, Base[g], DOMAIN e)
             v == [file |-> g, ref |-> setup.refs[g]]
  <2>1. u = [name |-> new, entries |-> With(e, new, v), pulled |-> With(p, g, new)]
    BY <1>2 DEF PullExternal
  <2>2. new \notin DOMAIN e /\ Pulled(new)
    BY FreshName
  <2>3. v.file = g
    OBVIOUS
  <2> HIDE DEF new, v
  <2> DEFINE E == With(e, new, v)  P == With(p, g, new)
  <2>4. /\ DOMAIN E = DOMAIN e \cup {new} /\ E[new] = v
        /\ \A y \in DOMAIN e : E[y] = e[y]
    BY <2>2 DEF With
  <2>5. /\ DOMAIN P = DOMAIN p \cup {g} /\ P[g] = new
        /\ \A y \in DOMAIN p : P[y] = p[y]
    BY <1>2 DEF With
  <2>6. Extends(e, E) /\ Extends(p, P)
    BY <2>4, <2>5 DEF Extends
  <2> HIDE DEF E, P
  <2>7. Tabled(E, P)
    <3>1. DOMAIN E = Shipped \cup {P[h] : h \in DOMAIN P}
      <4>1. {P[h] : h \in DOMAIN P} = {p[h] : h \in DOMAIN p} \cup {new}
        BY <2>5
      <4> QED BY <2>4, <4>1 DEF Tabled
    <3>2. \A f \in Shipped : E[f].file = f
      BY <2>4 DEF Tabled
    <3>3. DOMAIN P \subseteq Abroad
      BY <2>5 DEF Tabled
    <3>4. ASSUME NEW h \in DOMAIN P PROVE E[P[h]].file = h /\ Pulled(P[h])
      <4>1. CASE h = g
        BY <2>2, <2>3, <2>4, <2>5, <4>1
      <4>2. CASE h # g
        <5>1. h \in DOMAIN p /\ P[h] = p[h] /\ p[h] \in DOMAIN e
          BY <2>5, <4>2 DEF Tabled
        <5> QED BY <2>4, <5>1 DEF Tabled
      <4> QED BY <4>1, <4>2
    <3> QED BY <3>1, <3>2, <3>3, <3>4 DEF Tabled
  <2>8. u = [name |-> new, entries |-> E, pulled |-> P]
    BY <2>1 DEF E, P
  <2> QED BY <2>5, <2>6, <2>7, <2>8
<1> QED BY <1>1, <1>2

\* A file that is rewritten stays the file of its name.
LEMMA Rewrites ==
  ASSUME NEW e, NEW p, Tabled(e, p), NEW name \in DOMAIN e, NEW ref
  PROVE  Tabled(With(e, name, [file |-> e[name].file, ref |-> ref]), p)
<1> DEFINE v == [file |-> e[name].file, ref |-> ref]
           E == With(e, name, v)
<1>1. v.file = e[name].file
  OBVIOUS
<1> HIDE DEF v
<1>2. DOMAIN E = DOMAIN e /\ \A y \in DOMAIN e : E[y].file = e[y].file
  BY <1>1 DEF With
<1> HIDE DEF E
<1>3. \A f \in Shipped : f \in DOMAIN e
  BY DEF Tabled
<1>4. \A g \in DOMAIN p : p[g] \in DOMAIN e
  BY DEF Tabled
<1> QED BY <1>2, <1>3, <1>4 DEF Tabled, E, v

\* Different files have different names.
LEMMA NamesDiffer ==
  ASSUME NEW e, NEW p, Tabled(e, p)
  PROVE  /\ \A f \in Shipped, g \in DOMAIN p : f # p[g]
         /\ \A g, h \in DOMAIN p : g # h => p[g] # p[h]
<1>1. \A f \in Shipped : f \in Folder
  BY DEF Shipped, Ships, Inside
<1> QED BY <1>1, ExportAssumption DEF Tabled

\* What a script was given stays right while its entry stays.
LEMMA LinkedStays ==
  ASSUME NEW e, NEW p, NEW E, NEW P, NEW name, NEW f,
         Linked(e, p, name, f), Extends(p, P), E[name] = e[name]
  PROVE  Linked(E, P, name, f)
BY DEF Linked, Extends

\* A path without ups: one of the folder, or a name given to a file.
NoUps(x) == x \in Seq({x[i] : i \in DOMAIN x}) /\ \A i \in DOMAIN x : x[i] # ".."

LEMMA PlainPaths ==
  ASSUME NEW x, x \in Folder \/ Pulled(x)
  PROVE  NoUps(x)
<1>1. CASE x \in Folder
  BY <1>1, ExportAssumption DEF NoUps
<1>2. CASE Pulled(x)
  <2> DEFINE a == x[1]  b == x[2]
  <2>1. x = <<a, b>> /\ a \in {"scripts", "samples"} /\ b # ".."
    BY <1>2 DEF Pulled
  <2> HIDE DEF a, b
  <2>2. DOMAIN x = {1, 2} /\ x[1] = a /\ x[2] = b
    BY <2>1
  <2>3. a # ".."
    BY <2>1
  <2>4. x \in Seq({x[i] : i \in DOMAIN x})
    <3>1. {x[i] : i \in DOMAIN x} = {a, b}
      BY <2>2
    <3> QED BY <2>1, <3>1
  <2> QED BY <2>1, <2>2, <2>3, <2>4 DEF NoUps
<1> QED BY <1>1, <1>2

\* A reference that was rewritten for its script's place leads to its target.
LEMMA RelinkLeads ==
  ASSUME NEW name, NEW target, NoUps(name), NoUps(target)
  PROVE  Normal(Parent(name) \o Relink(name, target).to) = target
<1> DEFINE C == {name[i] : i \in DOMAIN name}
           D == {target[i] : i \in DOMAIN target}
           base == Parent(name)
           E == C \cup D
<1>1. name \in Seq(C) /\ target \in Seq(D) /\ Len(name) \in Nat
      /\ DOMAIN name = 1 .. Len(name) /\ DOMAIN target = 1 .. Len(target)
  BY LenProperties DEF NoUps
<1>2. /\ \A i \in 1 .. Len(target) : target[i] # ".."
      /\ \A i \in 1 .. Len(name) : name[i] # ".."
  BY <1>1 DEF NoUps
<1>3. base \in Seq(C) /\ \A i \in 1 .. Len(base) : base[i] # ".."
  <2> HIDE DEF C, D, E
  <2>1. CASE name = <<>>
    <3>1. base = <<>> /\ Len(base) = 0
      BY <2>1 DEF Parent
    <3> QED BY <3>1
  <2>2. CASE name # <<>>
    <3> DEFINE n == Len(name) - 1
    <3>0. Len(name) # 0
      BY <1>1, <2>2, EmptySeq
    <3>1. base = SubSeq(name, 1, n) /\ n \in Nat /\ n <= Len(name)
      BY <1>1, <2>2, <3>0 DEF Parent
    <3> HIDE DEF n, base
    <3>2. 1 \in Int /\ n \in Int /\ \A i \in 1 .. n : name[i] \in C
      <4>1. \A i \in 1 .. n : i \in 1 .. Len(name)
        BY <1>1, <3>1
      <4> QED BY <1>1, <3>1, <4>1, ElementOfSeq
    <3>3. /\ base \in Seq(C)
          /\ Len(base) = IF 1 <= n THEN (n - 1) + 1 ELSE 0
          /\ \A i \in 1 .. (n - 1) + 1 : base[i] = name[(1 + i) - 1]
      BY <3>1, <3>2, SubSeqProperties
    <3>4. \A i \in 1 .. Len(base) : i \in 1 .. (n - 1) + 1 /\ (1 + i) - 1 = i
                                    /\ i \in 1 .. Len(name)
      BY <1>1, <3>1, <3>3
    <3> QED BY <1>2, <3>3, <3>4
  <2> QED BY <2>1, <2>2
<1>4. base \in Seq(E) /\ target \in Seq(E)
  <2>1. C \subseteq E /\ D \subseteq E
    OBVIOUS
  <2> HIDE DEF C, D, E, base
  <2> QED BY <1>1, <1>3, <2>1, SeqMonotonic
<1> HIDE DEF C, D, E, base
<1>5. Normal(base \o RelativeZipPath(base, target)) = target
  BY <1>2, <1>3, <1>4, RelativeLeads
<1> QED BY <1>5 DEF Relink, base


\* What is shipped, and what is meant, stay while the machine does.
LEMMA SameSetup ==
  ASSUME setup' = setup
  PROVE  /\ Shipped' = Shipped
         /\ \A f : Played(f)' = Played(f) /\ IsPlay(f)' = IsPlay(f)
         /\ \A f : Ships(f)' = Ships(f)
         /\ \A e, p, name, f : Linked(e, p, name, f)' = Linked(e, p, name, f)
<1>1. \A f : Ships(f)' = Ships(f)
  BY DEF Ships, Inside, Excluded, Hidden
<1>2. \A f : Played(f)' = Played(f) /\ IsPlay(f)' = IsPlay(f)
  BY DEF Played, IsPlay
<1>3. Shipped' = Shipped
  BY <1>1 DEF Shipped
<1>4. \A e, p, name, f : Linked(e, p, name, f)' = Linked(e, p, name, f)
  BY <1>1, <1>2 DEF Linked
<1> QED BY <1>1, <1>2, <1>3, <1>4

\* A script that is done, and the others as they were.
LEMMA ScriptDone ==
  ASSUME NEW e, NEW p, NEW files, NEW warned, ScriptsKept(e, p, files, warned),
         NEW E, NEW P, NEW f, NEW W, warned \subseteq W, Extends(p, P),
         \A h \in Shipped : h # f => E[h] = e[h],
         IsPlay(f) => f \in W \/ Linked(E, P, f, f)
  PROVE  ScriptsKept(E, P, files \ {f}, W)
<1>1. \A h \in files \ {f} : E[h].ref = setup.refs[h]
  BY DEF ScriptsKept
<1>2. ASSUME NEW h \in (Shipped \cap Yaml) \ (files \ {f}), IsPlay(h)
      PROVE  h \in W \/ Linked(E, P, h, h)
  <2>1. CASE h = f
    BY <1>2, <2>1
  <2>2. CASE h # f
    <3>1. h \in warned \/ Linked(e, p, h, h)
      BY <1>2, <2>2 DEF ScriptsKept
    <3>2. E[h] = e[h]
      BY <1>2, <2>2
    <3> QED BY <3>1, <3>2, LinkedStays
  <2> QED BY <2>1, <2>2
<1> QED BY <1>1, <1>2 DEF ScriptsKept

\* normalize_script: the script plays there what it plays here, or export has
\* warned of it.
LEMMA ExportScript ==
  ASSUME ExportInv, NEW f \in Folder, NormalizeScript(f)
  PROVE  ExportInv'
<1>1. /\ export.pc = "scripts" /\ f \in export.files /\ setup \in Setup
      /\ Tabled(entries, pulled) /\ export.numbers = Number
      /\ ScriptsKept(entries, pulled, export.files, export.warned)
      /\ ExportTyped /\ f \in Shipped
  BY DEF ExportInv, NormalizeScript, ExportTyped, ScriptsKept
<1>2. setup' = setup /\ conf' = conf
  BY DEF NormalizeScript
<1>s. /\ f \in DOMAIN entries /\ entries[f].file = f
      /\ entries[f].ref = setup.refs[f]
      /\ \A h \in Shipped : h \in DOMAIN entries
  BY <1>1 DEF Tabled, ScriptsKept
<1> DEFINE ref == setup.refs[f]
           Done(E, P, W) ==
             /\ export' = [export EXCEPT !.files = @ \ {f}, !.warned = W]
             /\ W \subseteq Folder /\ export.warned \subseteq W
             /\ entries' = E /\ pulled' = P
             /\ Tabled(E, P) /\ Extends(pulled, P)
             /\ \A h \in Shipped : h # f => E[h] = entries[h]
             /\ IsPlay(f) => f \in W \/ Linked(E, P, f, f)
<1>3. SUFFICES ASSUME NEW E, NEW P, NEW W, Done(E, P, W) PROVE ExportInv'
  <2>1. \E E, P, W : Done(E, P, W)
    <3>w. export.warned \subseteq Folder
      BY <1>1 DEF ExportTyped
    <3>e. Tabled(entries, pulled) /\ Extends(pulled, pulled)
      BY <1>1 DEF Extends
    <3>l. /\ [export EXCEPT !.files = @ \ {f}]
             = [export EXCEPT !.files = @ \ {f}, !.warned = export.warned]
          /\ [[export EXCEPT !.files = @ \ {f}] EXCEPT !.warned = @ \cup {f}]
             = [export EXCEPT !.files = @ \ {f}, !.warned = export.warned \cup {f}]
      BY <1>1 DEF ExportTyped
    <3>1. CASE /\ ref \in {NoRef, NotAJob}
               /\ export' = [export EXCEPT !.files = @ \ {f}]
               /\ UNCHANGED <<entries, pulled>>
      <4>1. ~IsPlay(f)
        <5>1. ref.form = "none" \/ ref.form = "not a job"
          <6>1. ref = NoRef \/ ref = NotAJob
            BY <3>1
          <6> HIDE DEF ref, Done
          <6>2. NoRef.form = "none" /\ NotAJob.form = "not a job"
            BY DEF NoRef, NotAJob
          <6> QED BY <6>1, <6>2
        <5> QED BY <5>1 DEF IsPlay
      <4>2. Done(entries, pulled, export.warned)
        BY <3>1, <3>w, <3>e, <3>l, <4>1
      <4> QED BY <4>2
    <3>2. CASE /\ export' = [[export EXCEPT !.files = @ \ {f}]
                               EXCEPT !.warned = @ \cup {f}]
               /\ UNCHANGED <<entries, pulled>>
      <4>1. Done(entries, pulled, export.warned \cup {f})
        BY <3>2, <3>w, <3>e, <3>l
      <4> QED BY <4>1
    <3>3. CASE /\ ref.form = "rel" /\ Ships(ref.to)
               /\ export' = [export EXCEPT !.files = @ \ {f}]
               /\ UNCHANGED <<entries, pulled>>
      <4>1. Linked(entries, pulled, f, f)
        <5>1. Played(f) \in Folder /\ Played(f) \notin Abroad
          BY <3>3, ExportAssumption DEF Played, Ships, Inside
        <5> QED BY <1>s, <3>3, <5>1 DEF Linked
      <4>2. Done(entries, pulled, export.warned)
        BY <3>3, <3>w, <3>e, <3>l, <4>1
      <4> QED BY <4>2
    <3>4. CASE /\ ref.form = "abs" /\ Ships(ref.to)
               /\ export' = [export EXCEPT !.files = @ \ {f}]
               /\ entries' = With(entries, f, [file |-> f, ref |-> Relink(f, ref.to)])
               /\ UNCHANGED pulled
      <4> DEFINE v == [file |-> f, ref |-> Relink(f, ref.to)]
                 E == With(entries, f, v)
      <4>1. Tabled(E, pulled)
        <5>1. E = With(entries, f, [file |-> entries[f].file, ref |-> Relink(f, ref.to)])
          BY <1>s
        <5> HIDE DEF E
        <5> QED BY <1>1, <1>s, <5>1, Rewrites
      <4>2. v.ref = Relink(f, ref.to)
        OBVIOUS
      <4> HIDE DEF v
      <4>3. E[f] = v /\ \A h \in Shipped : h # f => E[h] = entries[h]
        BY <1>s DEF With
      <4> HIDE DEF E
      <4>4. Linked(E, pulled, f, f)
        <5>1. Played(f) \in Folder /\ Played(f) \notin Abroad
          BY <3>4, ExportAssumption DEF Played, Ships, Inside
        <5>2. E[f].ref = Relink(f, Played(f))
          BY <4>2, <4>3 DEF Played
        <5> QED BY <5>1, <5>2 DEF Linked
      <4>5. entries' = E /\ pulled' = pulled
        BY <3>4 DEF E, v
      <4>6. Done(E, pulled, export.warned)
        BY <3>4, <3>w, <3>e, <3>l, <4>1, <4>3, <4>4, <4>5
      <4> QED BY <4>6
    <3>5. CASE /\ ref.to \in Abroad
               /\ export' = [export EXCEPT !.files = @ \ {f}]
               /\ LET t == PullExternal(ref.to, "samples", Tables(<<>>)) IN
                    /\ entries' = With(t.entries, f,
                                       [file |-> f, ref |-> Relink(f, t.name)])
                    /\ pulled' = t.pulled
      <4> DEFINE t == PullExternal(ref.to, "samples", Tables(<<>>))
                 P == t.pulled
                 v == [file |-> f, ref |-> Relink(f, t.name)]
                 E == With(t.entries, f, v)
      <4>1. /\ Tabled(t.entries, P) /\ ref.to \in DOMAIN P /\ t.name = P[ref.to]
            /\ Extends(entries, t.entries) /\ Extends(pulled, P)
        <5>1. t = PullExternal(ref.to, "samples",
                    [name |-> <<>>, entries |-> entries, pulled |-> pulled])
          BY DEF Tables
        <5>2. ref.to \in Abroad /\ "samples" \in {"scripts", "samples"}
          BY <3>5
        <5> DEFINE g == ref.to  under == "samples"  none == <<>>
        <5>3. t = PullExternal(g, under,
                    [name |-> none, entries |-> entries, pulled |-> pulled])
          BY <5>1
        <5>4. g \in Abroad /\ under \in {"scripts", "samples"}
          BY <5>2
        <5>5. g = ref.to
          OBVIOUS
        <5> HIDE DEF t, g, under, none, P, E, v, Done
        <5>6. /\ Tabled(t.entries, t.pulled)
              /\ g \in DOMAIN t.pulled /\ t.name = t.pulled[g]
              /\ Extends(entries, t.entries) /\ Extends(pulled, t.pulled)
          <6>1. Tabled(entries, pulled)
            BY <1>1
          <6> QED BY <6>1, <5>3, <5>4, PullsIn
        <5> QED BY <5>5, <5>6 DEF P
      <4>0. entries' = E /\ pulled' = P
        BY <3>5
      <4> HIDE DEF t
      <4>2. /\ f \in DOMAIN t.entries /\ t.entries[f].file = f
            /\ \A h \in Shipped : h \in DOMAIN t.entries /\ t.entries[h] = entries[h]
        BY <1>s, <1>1, <4>1 DEF Extends
      <4> HIDE DEF P
      <4>3. Tabled(E, P)
        <5>1. E = With(t.entries, f,
                       [file |-> t.entries[f].file, ref |-> Relink(f, t.name)])
          BY <4>2
        <5> HIDE DEF E
        <5> QED BY <4>1, <4>2, <5>1, Rewrites
      <4>4. v.ref = Relink(f, t.name)
        OBVIOUS
      <4> HIDE DEF v
      <4>5. E[f] = v /\ \A h \in Shipped : h # f => E[h] = entries[h]
        BY <4>2 DEF With
      <4> HIDE DEF E
      <4>6. Linked(E, P, f, f)
        <5>1. Played(f) \in Abroad /\ Played(f) \in DOMAIN P
          BY <3>5, <4>1 DEF Played
        <5>2. E[f].ref = Relink(f, P[Played(f)])
          BY <4>1, <4>4, <4>5 DEF Played
        <5>3. ~Ships(Played(f))
          BY <5>1, ExportAssumption DEF Ships, Inside
        <5> QED BY <5>1, <5>2, <5>3 DEF Linked
      <4>7. Done(E, P, export.warned)
        BY <3>5, <3>w, <3>l, <4>0, <4>1, <4>3, <4>5, <4>6
      <4> QED BY <4>7
    <3> HIDE DEF Done
    <3> QED
      <4>1. NormalizeScript(f)
        OBVIOUS
      <4> QED BY <4>1, <3>1, <3>2, <3>3, <3>4, <3>5 DEF NormalizeScript
  <2> HIDE DEF Done
  <2> QED BY <1>3, <2>1
<1>4. Done(E, P, W)
  BY <1>3
<1>5. ScriptsKept(E, P, export.files \ {f}, W)
  BY <1>1, <1>4, ScriptDone
<1>6. /\ export'.pc = "scripts" /\ export'.files = export.files \ {f}
      /\ export'.numbers = Number /\ export'.warned = W
      /\ ExportTyped'
  BY <1>1, <1>2, <1>4 DEF ExportTyped
<1> HIDE DEF Done, ref
<1>7. entries' = E /\ pulled' = P /\ Tabled(E, P)
  BY <1>4 DEF Done
<1>8. /\ Tabled(entries, pulled)'
      /\ ScriptsKept(entries, pulled, export.files, export.warned)'
  <2>1. Tabled(entries, pulled)'
    BY <1>2, <1>7, SameSetup DEF Tabled
  <2>2. Shipped' = Shipped /\ \A h : IsPlay(h)' = IsPlay(h)
    BY <1>2, SameSetup
  <2>3. \A h : Linked(entries, pulled, h, h)' = Linked(E, P, h, h)
    <3>1. \A h : Ships(h)' = Ships(h) /\ Played(h)' = Played(h)
      BY <1>2, SameSetup
    <3> QED BY <1>2, <1>7, <3>1 DEF Linked
  <2>4. ScriptsKept(entries, pulled, export.files, export.warned)'
    BY <1>2, <1>5, <1>6, <1>7, <2>2, <2>3 DEF ScriptsKept
  <2> QED BY <2>1, <2>4
<1>9. NumbersKept(entries, pulled, export.numbers, conf)'
  BY <1>6 DEF NumbersKept
<1> QED BY <1>6, <1>8, <1>9 DEF ExportInv


\* What a job plays: pulled in as a sample, or where it is.
LEMMA SamplePulled ==
  ASSUME NEW a, NEW g, NEW u, Tabled(a.entries, a.pulled),
         a = [name |-> a.name, entries |-> a.entries, pulled |-> a.pulled],
         u = IF g \in Abroad THEN PullExternal(g, "samples", a)
             ELSE [a EXCEPT !.name = g]
  PROVE  /\ Tabled(u.entries, u.pulled)
         /\ Extends(a.entries, u.entries) /\ Extends(a.pulled, u.pulled)
         /\ g \in Abroad => g \in DOMAIN u.pulled /\ u.name = u.pulled[g]
         /\ g \notin Abroad => u.name = g
<1>1. CASE g \in Abroad
  <2> DEFINE samples == "samples"
  <2>1. u = PullExternal(g, samples, [name |-> a.name, entries |-> a.entries,
                                      pulled |-> a.pulled])
    BY <1>1
  <2>2. samples \in {"scripts", "samples"}
    OBVIOUS
  <2> HIDE DEF samples
  <2> QED BY <1>1, <2>1, <2>2, PullsIn
<1>2. CASE g \notin Abroad
  <2>1. u.name = g /\ u.entries = a.entries /\ u.pulled = a.pulled
    BY <1>2
  <2> QED BY <1>2, <2>1 DEF Extends
<1> QED BY <1>1, <1>2

\* normalize_out_of_tree_job: a job from outside has its name, plays there what
\* it plays here, and no other file's entry has changed.
LEMMA JobPulled ==
  ASSUME Tabled(entries, pulled), NEW job \in Abroad, NEW t, t = PullJob(job)
  PROVE  /\ Tabled(t.entries, t.pulled) /\ Extends(pulled, t.pulled)
         /\ job \in DOMAIN t.pulled /\ t.name = t.pulled[job]
         /\ \A x \in DOMAIN entries :
              entries[x].file # job => t.entries[x] = entries[x]
         /\ IsPlay(job) => Linked(t.entries, t.pulled, t.name, job)
<1> DEFINE ref == setup.refs[job]
           none == <<>>
           scripts == "scripts"
           samples == "samples"
           a == PullExternal(job, "scripts", Tables(<<>>))
           u == IF ref.to \in Abroad THEN PullExternal(ref.to, "samples", a)
                ELSE [a EXCEPT !.name = ref.to]
           v == [file |-> job, ref |-> Relink(a.name, u.name)]
<1>1. /\ Tabled(a.entries, a.pulled) /\ job \in DOMAIN a.pulled
      /\ a.name = a.pulled[job]
      /\ Extends(entries, a.entries) /\ Extends(pulled, a.pulled)
      /\ a = [name |-> a.name, entries |-> a.entries, pulled |-> a.pulled]
  <2>1. a = PullExternal(job, scripts,
                         [name |-> none, entries |-> entries, pulled |-> pulled])
    BY DEF Tables
  <2>2. scripts \in {"scripts", "samples"}
    OBVIOUS
  <2> HIDE DEF a, none, scripts, u, v, ref
  <2> QED BY <2>1, <2>2, PullsIn
<1>2. t = IF ref.form = "none" \/ ref.to = Nowhere THEN a
          ELSE [name |-> a.name, pulled |-> u.pulled,
                entries |-> With(u.entries, a.name, v)]
  BY Zenon DEF PullJob
<1>3. /\ Tabled(u.entries, u.pulled)
      /\ Extends(a.entries, u.entries) /\ Extends(a.pulled, u.pulled)
      /\ ref.to \in Abroad => ref.to \in DOMAIN u.pulled /\ u.name = u.pulled[ref.to]
      /\ ref.to \notin Abroad => u.name = ref.to
  <2> DEFINE g == ref.to
  <2>1. g = ref.to
        /\ u = IF g \in Abroad THEN PullExternal(g, "samples", a)
              ELSE [a EXCEPT !.name = g]
    OBVIOUS
  <2> HIDE DEF a, u, v, g, ref
  <2> QED BY <1>1, <2>1, SamplePulled
<1>4. CASE ref.form = "none" \/ ref.to = Nowhere
  <2>1. t = a
    BY <1>2, <1>4
  <2>2. \A x \in DOMAIN entries : a.entries[x] = entries[x]
    BY <1>1 DEF Extends
  <2>3. IsPlay(job) => Linked(t.entries, t.pulled, t.name, job)
    <3>1. ref.form = "none" => ~IsPlay(job)
      BY DEF IsPlay
    <3>2. ASSUME ref.to = Nowhere PROVE Linked(t.entries, t.pulled, t.name, job)
      <4>1. Played(job) \notin Folder /\ Played(job) \notin Abroad
        BY <3>2, ExportAssumption DEF Played, Files
      <4> QED BY <4>1 DEF Linked, Ships, Inside
    <3> QED BY <1>4, <3>1, <3>2
  <2> HIDE DEF a, u, v
  <2> QED BY <1>1, <2>1, <2>2, <2>3
<1>5. CASE ~(ref.form = "none" \/ ref.to = Nowhere)
  <2> DEFINE E == With(u.entries, a.name, v)
             P == u.pulled
             nm == a.name
  <2>1. t = [name |-> nm, pulled |-> P, entries |-> E]
    BY <1>2, <1>5
  <2>2. t.name = nm /\ t.pulled = P /\ t.entries = E
    <3> HIDE DEF nm, P, E
    <3> QED BY <2>1
  <2>3. /\ nm \in DOMAIN u.entries /\ u.entries[nm].file = job
        /\ job \in DOMAIN P /\ nm = P[job] /\ Extends(pulled, P)
        /\ \A x \in DOMAIN entries : x \in DOMAIN u.entries /\ u.entries[x] = entries[x]
    <3> HIDE DEF a, u, v, ref
    <3>1. job \in DOMAIN P /\ nm = P[job] /\ Extends(pulled, P)
      BY <1>1, <1>3 DEF Extends
    <3>2. nm \in DOMAIN u.entries /\ u.entries[nm].file = job
      BY <1>3, <3>1 DEF Tabled
    <3>3. \A x \in DOMAIN entries : x \in DOMAIN u.entries /\ u.entries[x] = entries[x]
      BY <1>1, <1>3 DEF Extends
    <3> QED BY <3>1, <3>2, <3>3
  <2>4. v = [file |-> job, ref |-> Relink(nm, u.name)] /\ v.file = job
        /\ v.ref = Relink(nm, u.name)
    OBVIOUS
  <2>5. Tabled(E, P)
    <3> DEFINE r == Relink(nm, u.name)
    <3>1. E = With(u.entries, nm, [file |-> u.entries[nm].file, ref |-> r])
      BY <2>3, <2>4
    <3> HIDE DEF E, P, nm, r, a, u, v, ref
    <3> QED BY <1>3, <2>3, <3>1, Rewrites DEF P
  <2> HIDE DEF v
  <2>6. E[nm] = v /\ \A x \in DOMAIN u.entries : x # nm => E[x] = u.entries[x]
    BY DEF With
  <2> HIDE DEF a, u, E, P, nm
  <2>7. \A x \in DOMAIN entries : entries[x].file # job => E[x] = entries[x]
    BY <2>3, <2>6
  <2>8. Linked(E, P, nm, job)
    <3>1. ref.to = Played(job) /\ E[nm].ref = Relink(nm, u.name)
      BY <2>4, <2>6 DEF Played
    <3>2. Ships(Played(job)) => Played(job) \notin Abroad
      BY ExportAssumption DEF Ships, Inside
    <3> HIDE DEF ref
    <3> QED BY <1>3, <3>1, <3>2 DEF Linked, P
  <2> QED BY <2>2, <2>3, <2>5, <2>7, <2>8
<1> QED BY <1>4, <1>5

\* An auto-answer number runs there what it ran here.
LEMMA ExportNumber ==
  ASSUME ExportInv, NEW n \in Number, ConfigNumber(n)
  PROVE  ExportInv'
<1>1. /\ export.pc = "config" /\ n \in export.numbers /\ setup \in Setup
      /\ Tabled(entries, pulled) /\ export.files = {}
      /\ ScriptsKept(entries, pulled, {}, export.warned)
      /\ NumbersKept(entries, pulled, export.numbers, conf)
      /\ ExportTyped
  BY DEF ExportInv, ConfigNumber, ExportTyped
<1>2. setup' = setup
  BY DEF ConfigNumber
<1> DEFINE job == setup.auto[n]
           Done(E, P, c, M) ==
             /\ export' = [export EXCEPT !.numbers = @ \ {n}, !.missing = M]
             /\ M \subseteq Number /\ DOMAIN c = Number
             /\ entries' = E /\ pulled' = P /\ conf' = c
             /\ Tabled(E, P) /\ Extends(pulled, P)
             /\ \A x \in DOMAIN entries :
                  entries[x].file # job \/ job \notin Abroad => E[x] = entries[x]
             /\ \A m \in Number : m # n => c[m] = conf[m]
             /\ job \in Folder /\ job # ConfigYaml => c[n] = job
             /\ job \in Abroad =>
                  /\ job \in DOMAIN P /\ c[n] = P[job]
                  /\ IsPlay(job) => Linked(E, P, P[job], job)
<1>3. CASE \E E, P, c, M : Done(E, P, c, M)
  <2> HIDE DEF Done
  <2>1. PICK E, P, c, M : Done(E, P, c, M)
    BY <1>3
  <2>2. Done(E, P, c, M)
    BY <2>1
  <2> USE DEF Done
  <2>3. /\ export'.pc = "config" /\ export'.files = {}
        /\ export'.numbers = export.numbers \ {n}
        /\ export'.warned = export.warned /\ ExportTyped'
    BY <1>1, <1>2, <2>2 DEF ExportTyped
  <2>4. Shipped' = Shipped /\ \A h : IsPlay(h)' = IsPlay(h)
    BY <1>2, SameSetup
  <2>5. \A x, h : Linked(entries, pulled, x, h)' = Linked(E, P, x, h)
    <3>1. \A h : Ships(h)' = Ships(h) /\ Played(h)' = Played(h)
      BY <1>2, SameSetup
    <3>2. entries' = E /\ pulled' = P
      BY <2>2
    <3> HIDE DEF Done
    <3> QED BY <1>2, <3>1, <3>2 DEF Linked
  <2>6. Tabled(entries, pulled)'
    <3>1. entries' = E /\ pulled' = P /\ Tabled(E, P)
      BY <2>2
    <3> HIDE DEF Done
    <3> QED BY <2>4, <3>1 DEF Tabled
  <2>7. ScriptsKept(entries, pulled, export.files, export.warned)'
    <3>1. ASSUME NEW f \in Shipped \cap Yaml, IsPlay(f)
          PROVE  f \in export.warned \/ Linked(E, P, f, f)
      <4>1. f \in export.warned \/ Linked(entries, pulled, f, f)
        BY <1>1, <3>1 DEF ScriptsKept
      <4>2. E[f] = entries[f]
        <5>1. f \in DOMAIN entries /\ entries[f].file = f /\ f \in Folder
          BY <1>1, <3>1 DEF Tabled, Shipped, Ships, Inside
        <5>2. entries[f].file # job \/ job \notin Abroad
          BY <5>1, ExportAssumption
        <5> QED BY <2>2, <5>1, <5>2
      <4>3. Extends(pulled, P)
        BY <2>2
      <4> HIDE DEF Done, job
      <4> QED BY <4>1, <4>2, <4>3, LinkedStays
    <3> HIDE DEF Done
    <3> QED BY <2>3, <2>4, <2>5, <3>1 DEF ScriptsKept
  <2>8. NumbersKept(entries, pulled, export.numbers, conf)'
    <3>1. ASSUME NEW m \in Number \ (export.numbers \ {n})
          PROVE  /\ setup.auto[m] \in Folder /\ setup.auto[m] # ConfigYaml
                      => c[m] = setup.auto[m]
                 /\ setup.auto[m] \in Abroad =>
                      /\ setup.auto[m] \in DOMAIN P /\ c[m] = P[setup.auto[m]]
                      /\ IsPlay(setup.auto[m])
                           => Linked(E, P, P[setup.auto[m]], setup.auto[m])
      <4>1. CASE m = n
        BY <2>2, <4>1
      <4>2. CASE m # n
        <5> DEFINE j == setup.auto[m]
        <5>1. /\ j \in Folder /\ j # ConfigYaml => conf[m] = j
              /\ j \in Abroad => /\ j \in DOMAIN pulled /\ conf[m] = pulled[j]
                                 /\ IsPlay(j) => Linked(entries, pulled, pulled[j], j)
          <6>1. m \in Number \ export.numbers
            BY <4>2
          <6> HIDE DEF Done
          <6> QED BY <1>1, <6>1 DEF NumbersKept
        <5>2. c[m] = conf[m] /\ Extends(pulled, P)
          BY <2>2, <4>2
        <5>3. ASSUME j \in Abroad
              PROVE  j \in DOMAIN P /\ P[j] = pulled[j] /\ j \in DOMAIN pulled
          <6> HIDE DEF Done, job
          <6> QED BY <5>1, <5>2, <5>3 DEF Extends
        <5>4. ASSUME j \in Abroad, IsPlay(j) PROVE Linked(E, P, P[j], j)
          <6>1. CASE j = job
            BY <2>2, <5>4, <6>1
          <6>2. CASE j # job
            <7>1. pulled[j] \in DOMAIN entries /\ entries[pulled[j]].file = j
              <8> HIDE DEF Done, job, j
              <8> QED BY <1>1, <5>3, <5>4 DEF Tabled
            <7>2. E[pulled[j]] = entries[pulled[j]]
              BY <2>2, <6>2, <7>1
            <7>3. Linked(entries, pulled, pulled[j], j)
              <8> HIDE DEF Done, job, j
              <8> QED BY <5>1, <5>4
            <7>4. Linked(E, P, pulled[j], j)
              <8> HIDE DEF Done, job, j
              <8> QED BY <5>2, <7>2, <7>3, LinkedStays
            <7>5. P[j] = pulled[j]
              <8> HIDE DEF Done, job, j
              <8> QED BY <5>3, <5>4
            <7> HIDE DEF Done, job, j
            <7> QED BY <7>4, <7>5
          <6> QED BY <6>1, <6>2
        <5> HIDE DEF Done, job
        <5> QED BY <5>1, <5>2, <5>3, <5>4
      <4> QED BY <4>1, <4>2
    <3>2. conf' = c /\ pulled' = P
      BY <2>2
    <3> HIDE DEF Done, job
    <3> QED BY <1>2, <2>3, <2>4, <2>5, <3>1, <3>2 DEF NumbersKept
  <2> HIDE DEF Done, job
  <2> QED BY <2>3, <2>6, <2>7, <2>8 DEF ExportInv
<1>4. CASE export' = [export EXCEPT !.pc = "failed"] /\ UNCHANGED conf
  <2>1. export'.pc = "failed" /\ ExportTyped'
    BY <1>1, <1>2, <1>4 DEF ExportTyped
  <2> QED BY <2>1 DEF ExportInv
<1>5. ConfigNumber(n)
  OBVIOUS
<1>m. export.missing \subseteq Number /\ DOMAIN conf = Number
  BY <1>1 DEF ExportTyped
<1>e. Tabled(entries, pulled) /\ Extends(pulled, pulled)
  BY <1>1 DEF Extends
<1>l. /\ [export EXCEPT !.numbers = @ \ {n}]
         = [export EXCEPT !.numbers = @ \ {n}, !.missing = export.missing]
      /\ [[export EXCEPT !.numbers = @ \ {n}] EXCEPT !.missing = @ \cup {n}]
         = [export EXCEPT !.numbers = @ \ {n}, !.missing = export.missing \cup {n}]
  BY <1>1 DEF ExportTyped
<1>6. CASE /\ job = ConfigYaml
           /\ export' = [export EXCEPT !.numbers = @ \ {n}]
           /\ UNCHANGED <<entries, pulled, conf>>
  <2>1. job \notin Abroad
    BY <1>6, ExportAssumption
  <2>2. Done(entries, pulled, conf, export.missing)
    BY <1>6, <1>m, <1>e, <1>l, <2>1
  <2> QED BY <1>3, <2>2
<1>7. CASE /\ job = Nowhere
           /\ export' = [[export EXCEPT !.numbers = @ \ {n}]
                           EXCEPT !.missing = @ \cup {n}]
           /\ UNCHANGED <<entries, pulled, conf>>
  <2>1. job \notin Abroad /\ job \notin Folder
    BY <1>7, ExportAssumption DEF Files
  <2>2. Done(entries, pulled, conf, export.missing \cup {n})
    BY <1>7, <1>m, <1>e, <1>l, <2>1
  <2> QED BY <1>3, <2>2
<1>8. CASE /\ job # ConfigYaml /\ Inside(job)
           /\ export' = [export EXCEPT !.numbers = @ \ {n}]
           /\ conf' = [conf EXCEPT ![n] = job]
           /\ UNCHANGED <<entries, pulled>>
  <2>1. job \notin Abroad
    BY <1>8, ExportAssumption DEF Inside
  <2> DEFINE c == [conf EXCEPT ![n] = job]
  <2>2. c[n] = job /\ DOMAIN c = Number /\ \A m \in Number : m # n => c[m] = conf[m]
    BY <1>m
  <2>3. conf' = c
    BY <1>8
  <2> HIDE DEF c
  <2>4. Done(entries, pulled, c, export.missing)
    BY <1>8, <1>m, <1>e, <1>l, <2>1, <2>2, <2>3
  <2> QED BY <1>3, <2>4
<1>9. CASE /\ job \in Abroad
           /\ export' = [export EXCEPT !.numbers = @ \ {n}]
           /\ LET t == PullJob(job) IN
                /\ entries' = t.entries /\ pulled' = t.pulled
                /\ conf' = [conf EXCEPT ![n] = t.name]
  <2> DEFINE t == PullJob(job)
             c == [conf EXCEPT ![n] = t.name]
  <2>1. /\ Tabled(t.entries, t.pulled) /\ Extends(pulled, t.pulled)
        /\ job \in DOMAIN t.pulled /\ t.name = t.pulled[job]
        /\ \A x \in DOMAIN entries :
             entries[x].file # job => t.entries[x] = entries[x]
        /\ IsPlay(job) => Linked(t.entries, t.pulled, t.name, job)
    <3> DEFINE g == job
    <3>1. t = PullJob(g) /\ g \in Abroad /\ g = job
      BY <1>9
    <3> HIDE DEF t, g, c, Done, job
    <3>2. /\ Tabled(t.entries, t.pulled) /\ Extends(pulled, t.pulled)
          /\ g \in DOMAIN t.pulled /\ t.name = t.pulled[g]
          /\ \A x \in DOMAIN entries :
               entries[x].file # g => t.entries[x] = entries[x]
          /\ IsPlay(g) => Linked(t.entries, t.pulled, t.name, g)
      BY <1>1, <3>1, JobPulled
    <3> QED BY <3>1, <3>2
  <2>2. c[n] = t.name /\ DOMAIN c = Number /\ \A m \in Number : m # n => c[m] = conf[m]
    <3> HIDE DEF t
    <3> QED BY <1>m
  <2>3. conf' = c /\ entries' = t.entries /\ pulled' = t.pulled
    BY <1>9
  <2>4. job \notin Folder
    BY <1>9, ExportAssumption
  <2> HIDE DEF t, c
  <2>5. Done(t.entries, t.pulled, c, export.missing)
    BY <1>9, <1>m, <1>l, <2>1, <2>2, <2>3, <2>4
  <2> QED BY <1>3, <2>5
<1> HIDE DEF Done
<1> QED BY <1>4, <1>5, <1>6, <1>7, <1>8, <1>9 DEF ConfigNumber


\* Nothing is promised yet.
LEMMA ExportStarts ==
  ASSUME ExportInit
  PROVE  ExportInv /\ BundleTravels
<1>1. export = [pc |-> "idle", files |-> {}, numbers |-> Number,
                warned |-> {}, missing |-> {}]
  BY DEF ExportInit
<1>2. ExportTyped
  BY <1>1 DEF ExportTyped, ExportInit
<1>3. DOMAIN entries = {} /\ DOMAIN pulled = {}
  BY DEF ExportInit, EmptyMap
<1>4. export.pc = "idle" /\ export.numbers = Number
  BY <1>1
<1> QED BY <1>2, <1>3, <1>4 DEF ExportInv, BundleTravels, RoundTrip, NoClobber

\* An export begins with empty tables.
LEMMA ExportBegun ==
  ASSUME ExportInv, NEW s \in Setup, ExportBegins(s)
  PROVE  ExportInv'
<1>1. /\ export.pc = "idle" /\ export.numbers = Number
      /\ DOMAIN entries = {} /\ DOMAIN pulled = {}
      /\ ExportTyped
  BY DEF ExportInv, ExportBegins
<1>2. export'.pc = "walk" /\ export'.numbers = Number /\ ExportTyped'
  BY <1>1 DEF ExportBegins, ExportTyped
<1>3. DOMAIN entries' = {} /\ DOMAIN pulled' = {}
  BY <1>1 DEF ExportBegins
<1> QED BY <1>2, <1>3 DEF ExportInv

\* walk: what ships is there, each file under its own name.
LEMMA ExportWalked ==
  ASSUME ExportInv, Walk
  PROVE  ExportInv'
<1>1. /\ export.pc = "walk" /\ export.numbers = Number /\ DOMAIN pulled = {}
      /\ ExportTyped
  BY DEF ExportInv, Walk
<1>2. /\ setup' = setup /\ pulled' = pulled /\ conf' = conf
      /\ export' = [export EXCEPT !.pc = "scripts", !.files = Shipped \cap Yaml]
      /\ entries' = [f \in Shipped |-> [file |-> f, ref |-> setup.refs[f]]]
  BY DEF Walk, Shipped
<1>3. Shipped \subseteq Folder /\ Shipped' = Shipped
  BY <1>2, SameSetup DEF Shipped, Ships, Inside
<1>4. /\ export'.pc = "scripts" /\ export'.numbers = Number
      /\ export'.files = Shipped \cap Yaml /\ ExportTyped'
  BY <1>1, <1>2, <1>3 DEF ExportTyped
<1>5. /\ DOMAIN entries' = Shipped /\ DOMAIN pulled' = {}
      /\ \A f \in Shipped : entries'[f].file = f /\ entries'[f].ref = setup.refs[f]
  BY <1>1, <1>2
<1>6. Tabled(entries, pulled)'
  BY <1>3, <1>5 DEF Tabled
<1>7. ScriptsKept(entries, pulled, export.files, export.warned)'
  BY <1>2, <1>3, <1>4, <1>5 DEF ScriptsKept
<1>8. NumbersKept(entries, pulled, export.numbers, conf)'
  BY <1>4 DEF NumbersKept
<1> QED BY <1>4, <1>6, <1>7, <1>8 DEF ExportInv

\* An action that leaves the machine and the tables alone.
LEMMA TablesStay ==
  ASSUME UNCHANGED <<setup, entries, pulled, conf>>, Tabled(entries, pulled),
         NEW F, NEW W, NEW N,
         ScriptsKept(entries, pulled, F, W), NumbersKept(entries, pulled, N, conf),
         export'.files = F, export'.warned = W, export'.numbers = N
  PROVE  /\ Tabled(entries, pulled)'
         /\ ScriptsKept(entries, pulled, export.files, export.warned)'
         /\ NumbersKept(entries, pulled, export.numbers, conf)'
<1>1. /\ Shipped' = Shipped
      /\ \A f : Played(f)' = Played(f) /\ IsPlay(f)' = IsPlay(f)
      /\ \A f : Ships(f)' = Ships(f)
  BY SameSetup
<1>2. \A x, f : Linked(entries, pulled, x, f)' = Linked(entries, pulled, x, f)
  BY <1>1 DEF Linked
<1>3. Tabled(entries, pulled)'
  BY <1>1 DEF Tabled
<1>4. ScriptsKept(entries, pulled, export.files, export.warned)'
  BY <1>1, <1>2 DEF ScriptsKept
<1>5. NumbersKept(entries, pulled, export.numbers, conf)'
  BY <1>1, <1>2 DEF NumbersKept
<1> QED BY <1>3, <1>4, <1>5

\* All scripts are done.
LEMMA ExportScripted ==
  ASSUME ExportInv, ScriptsDone
  PROVE  ExportInv'
<1>1. /\ export.pc = "scripts" /\ export.files = {}
      /\ Tabled(entries, pulled)
      /\ ScriptsKept(entries, pulled, export.files, export.warned)
      /\ NumbersKept(entries, pulled, export.numbers, conf)
      /\ ExportTyped
  BY DEF ExportInv, ScriptsDone
<1>2. /\ UNCHANGED <<setup, entries, pulled, conf>>
      /\ export' = [export EXCEPT !.pc = "config"]
  BY DEF ScriptsDone
<1>3. /\ export'.pc = "config" /\ export'.files = export.files
      /\ export'.warned = export.warned /\ export'.numbers = export.numbers
      /\ ExportTyped'
  BY <1>1, <1>2 DEF ExportTyped
<1>4. /\ Tabled(entries, pulled)'
      /\ ScriptsKept(entries, pulled, export.files, export.warned)'
      /\ NumbersKept(entries, pulled, export.numbers, conf)'
  BY <1>1, <1>2, <1>3, TablesStay
<1> QED BY <1>1, <1>3, <1>4 DEF ExportInv

\* The zip is written: what the tables promise is what it does elsewhere.
LEMMA ExportWritten ==
  ASSUME ExportInv, WriteZip
  PROVE  ExportInv' /\ BundleTravels'
<1>1. /\ export.pc = "config" /\ export.numbers = {} /\ export.files = {}
      /\ Tabled(entries, pulled) /\ setup \in Setup
      /\ ScriptsKept(entries, pulled, {}, export.warned)
      /\ NumbersKept(entries, pulled, {}, conf)
      /\ ExportTyped
  BY DEF ExportInv, WriteZip, ExportTyped
<1> DEFINE v == [file |-> ConfigYaml, ref |-> NotAJob]
           E == With(entries, ConfigYaml, v)
<1>2. /\ UNCHANGED <<setup, pulled, conf>> /\ entries' = E
      /\ export' = [export EXCEPT !.pc = "written"]
  BY DEF WriteZip
<1>3. /\ export'.pc = "written" /\ export'.warned = export.warned /\ ExportTyped'
  BY <1>1, <1>2 DEF ExportTyped
<1>4. ConfigYaml \notin DOMAIN entries
  <2>1. \A x : Pulled(x) => x # ConfigYaml
    <3>1. Len(ConfigYaml) = 1
      BY DEF ConfigYaml
    <3>2. \A a, b : Len(<<a, b>>) = 2
      OBVIOUS
    <3>3. ASSUME NEW x, Pulled(x) PROVE Len(x) = 2
      <4> DEFINE a == x[1]  b == x[2]
      <4>1. x = <<a, b>>
        BY <3>3 DEF Pulled
      <4> HIDE DEF a, b
      <4> QED BY <3>2, <4>1
    <3> QED BY <3>1, <3>3
  <2> QED BY <1>1, <2>1 DEF Tabled, Shipped
<1>5. /\ DOMAIN E = DOMAIN entries \cup {ConfigYaml}
      /\ E[ConfigYaml].file = ConfigYaml
      /\ \A x \in DOMAIN entries : E[x] = entries[x]
  <2>1. v.file = ConfigYaml
    OBVIOUS
  <2> HIDE DEF v
  <2> QED BY <1>4, <2>1 DEF With
<1> HIDE DEF E
<1>6. /\ Shipped' = Shipped
      /\ \A f : Played(f)' = Played(f) /\ IsPlay(f)' = IsPlay(f)
      /\ \A f : Ships(f)' = Ships(f)
  BY <1>2, SameSetup
<1>s. SetupOK(setup)
  BY <1>1, ExportAssumption
<1>7. \A f : Ships(f) /\ (f \in setup.exist \/ f = ConfigYaml) => f \in DOMAIN E /\ E[f].file = f
  BY <1>1, <1>5 DEF Shipped, Tabled
<1>8. \A g \in DOMAIN pulled : pulled[g] \in DOMAIN E /\ E[pulled[g]].file = g
  BY <1>1, <1>5 DEF Tabled
<1>9. NoClobber'
  <2>1. ASSUME NEW f \in setup.exist, Ships(f) PROVE f \in DOMAIN E /\ E[f].file = f
    BY <1>7, <2>1
  <2>2. ASSUME NEW x \in DOMAIN E, E[x].file \in Abroad PROVE x = pulled[E[x].file]
    <3>1. x # ConfigYaml
      BY <1>5, <2>2, ExportAssumption
    <3>2. x \in DOMAIN entries /\ E[x] = entries[x]
      BY <1>5, <3>1
    <3>3. x \notin Shipped
      <4>1. \A f \in Shipped : f \in Folder /\ entries[f].file = f
        BY <1>1 DEF Tabled, Shipped, Ships, Inside
      <4> QED BY <2>2, <3>2, <4>1, ExportAssumption
    <3>4. PICK g \in DOMAIN pulled : x = pulled[g]
      BY <1>1, <3>2, <3>3 DEF Tabled
    <3> QED BY <1>8, <3>4
  <2> QED BY <1>2, <1>6, <1>8, <2>1, <2>2 DEF NoClobber, Holds
<1>10. ASSUME NEW name \in DOMAIN E, NEW f, f = E[name].file, f # ConfigYaml,
              IsPlay(f), f \notin export.warned, Inside(f) => f \in Yaml,
              Ships(Played(f)) \/ Played(f) \in Abroad,
              Inside(f) \/ \E n \in Number : setup.auto[n] = f
       PROVE  Holds(Plays(name), Played(f))'
  <2> DEFINE g == Played(f)
             ref == E[name].ref
  <2>1. name \in DOMAIN entries /\ E[name] = entries[name]
    BY <1>5, <1>10
  <2>2. /\ Linked(entries, pulled, name, f) /\ (name \in Folder \/ Pulled(name))
        /\ f \in setup.exist
    <3>1. CASE name \in Shipped
      <4>1. f = name /\ f \in Folder
        BY <1>1, <1>10, <2>1, <3>1 DEF Tabled, Shipped, Ships, Inside
      <4>2. f \in Yaml
        BY <1>10, <4>1 DEF Inside
      <4>3. f \in setup.exist
        BY <3>1, <4>1 DEF Shipped
      <4> QED BY <1>1, <1>10, <3>1, <4>1, <4>2, <4>3 DEF ScriptsKept
    <3>2. CASE name \notin Shipped
      <4>1. PICK h \in DOMAIN pulled : name = pulled[h]
        BY <1>1, <2>1, <3>2 DEF Tabled
      <4>2. f = h /\ f \in Abroad /\ Pulled(name)
        BY <1>1, <1>10, <2>1, <4>1 DEF Tabled
      <4>3. PICK n \in Number : setup.auto[n] = f
        BY <1>10, <4>2, ExportAssumption DEF Inside
      <4>4. f \in setup.exist
        BY <1>s, <1>10, <4>2, <4>3, ExportAssumption DEF SetupOK, Files
      <4> QED BY <1>1, <1>10, <4>1, <4>2, <4>3, <4>4 DEF NumbersKept
    <3> QED BY <3>1, <3>2
  <2>3. NoUps(name)
    BY <2>2, PlainPaths
  <2>4. entries'[name] = E[name] /\ Played(f)' = g
    BY <1>2, <1>6
  <2>5. CASE g \in Abroad
    <3>1. g \in DOMAIN pulled /\ ref = Relink(name, pulled[g])
      BY <2>1, <2>2, <2>5 DEF Linked
    <3>2. NoUps(pulled[g])
      BY <1>1, <3>1, PlainPaths DEF Tabled
    <3>3. Normal(Parent(name) \o Relink(name, pulled[g]).to) = pulled[g]
      BY <2>3, <3>2, RelinkLeads
    <3>4. Relink(name, pulled[g]).form = "zip"
      BY DEF Relink
    <3>5. Plays(name)' = pulled[g]
      <4> HIDE DEF g
      <4> QED BY <2>4, <3>1, <3>3, <3>4 DEF Plays
    <3> HIDE DEF g, ref
    <3> QED BY <1>2, <1>8, <2>4, <3>1, <3>5 DEF Holds
  <2>6. CASE Ships(g)
    <3>1. g \in Folder /\ (g \in setup.exist)
      <4>1. g \in Folder
        BY <2>6 DEF Ships, Inside
      <4> QED BY <1>s, <2>2, <4>1, ExportAssumption DEF SetupOK, Played, Files
    <3>2. g \in DOMAIN E /\ E[g].file = g /\ NoUps(g)
      BY <1>7, <2>6, <3>1, PlainPaths
    <3>3. Plays(name)' = g
      <4>1. CASE ref = Relink(name, g)
        <5>1. Normal(Parent(name) \o Relink(name, g).to) = g
          BY <2>3, <3>2, RelinkLeads
        <5>2. Relink(name, g).form = "zip"
          BY DEF Relink
        <5> HIDE DEF g
        <5> QED BY <2>4, <4>1, <5>1, <5>2 DEF Plays
      <4>2. CASE ref = setup.refs[f] /\ setup.refs[f].form = "rel"
        <5>1. ref.form = "rel" /\ ref.to = g
          BY <4>2 DEF Played
        <5> HIDE DEF g
        <5> QED BY <2>4, <5>1 DEF Plays
      <4> QED BY <2>1, <2>2, <2>6, <4>1, <4>2 DEF Linked
    <3> HIDE DEF g, ref
    <3> QED BY <1>2, <2>4, <3>2, <3>3 DEF Holds
  <2> QED BY <1>10, <2>5, <2>6
<1>11. ASSUME NEW n \in Number, NEW job, job = setup.auto[n],
              job \in Abroad \/ (job # ConfigYaml /\ Ships(job))
       PROVE  Holds(conf[n], job)'
  <2>1. CASE job \in Abroad
    <3>1. job \in DOMAIN pulled /\ conf[n] = pulled[job]
      BY <1>1, <1>11, <2>1 DEF NumbersKept
    <3> QED BY <1>2, <1>8, <3>1 DEF Holds
  <2>2. CASE job # ConfigYaml /\ Ships(job)
    <3>1. job \in Folder
      BY <2>2 DEF Ships, Inside
    <3>2. conf[n] = job
      BY <1>1, <1>11, <2>2, <3>1 DEF NumbersKept
    <3>3. job \in setup.exist
      BY <1>s, <1>11, <2>2, <3>1, ExportAssumption DEF SetupOK, Files
    <3> QED BY <1>2, <1>7, <2>2, <3>2, <3>3 DEF Holds
  <2> QED BY <1>11, <2>1, <2>2
<1>12. RoundTrip'
  <2>1. \A f : Inside(f)' = Inside(f) /\ IsPlay(f) = (setup.refs[f].form \in {"rel", "abs"})
    BY DEF Inside, IsPlay
  <2>2. ASSUME NEW name \in DOMAIN entries', NEW f, f = entries'[name].file,
               f # ConfigYaml, setup'.refs[f].form \in {"rel", "abs"},
               f \notin export'.warned, Inside(f)' => f \in Yaml,
               Played(f)' \in {g \in Files : Ships(g)' \/ g \in Abroad},
               Inside(f)' \/ \E n \in Number : setup'.auto[n] = f
        PROVE  Holds(Plays(name), Played(f))'
    <3>1. name \in DOMAIN E /\ f = E[name].file /\ f \notin export.warned
      BY <1>2, <1>3, <2>2
    <3>2. IsPlay(f) /\ (Ships(Played(f)) \/ Played(f) \in Abroad)
      <4>1. Played(f)' = Played(f) /\ \A g : Ships(g)' = Ships(g)
        BY <1>6
      <4> QED BY <1>2, <2>1, <2>2, <4>1
    <3>3. Inside(f) \/ \E n \in Number : setup.auto[n] = f
      BY <1>2, <2>1, <2>2
    <3>4. Inside(f) => f \in Yaml
      BY <2>1, <2>2
    <3> QED BY <1>10, <2>2, <3>1, <3>2, <3>3, <3>4
  <2>3. ASSUME NEW n \in Number, NEW job, job = setup'.auto[n],
               job \in Abroad \/ (job # ConfigYaml /\ Ships(job)')
        PROVE  Holds(conf[n], job)'
    <3>1. job = setup.auto[n] /\ (job \in Abroad \/ (job # ConfigYaml /\ Ships(job)))
      BY <1>2, <1>6, <2>3
    <3> QED BY <1>11, <3>1
  <2> QED BY <2>2, <2>3 DEF RoundTrip
<1> QED BY <1>3, <1>9, <1>12 DEF ExportInv, BundleTravels

\* A step of nothing.
LEMMA ExportStays ==
  ASSUME ExportInv, BundleTravels, UNCHANGED exportVars
  PROVE  ExportInv' /\ BundleTravels'
<1>1. UNCHANGED <<setup, export, entries, pulled, conf>>
  BY DEF exportVars
<1>2. /\ Shipped' = Shipped
      /\ \A f : Played(f)' = Played(f) /\ IsPlay(f)' = IsPlay(f)
      /\ \A f : Ships(f)' = Ships(f)
  BY <1>1, SameSetup
<1>3. BundleTravels'
  <2>1. \A name, f : Holds(name, f)' = Holds(name, f)
    BY <1>1 DEF Holds
  <2>2. \A name : Plays(name)' = Plays(name)
    BY <1>1 DEF Plays
  <2>3. RoundTrip'
    BY <1>1, <1>2, <2>1, <2>2 DEF RoundTrip, BundleTravels, Inside
  <2>4. NoClobber'
    BY <1>1, <1>2, <2>1 DEF NoClobber, BundleTravels
  <2> QED BY <2>3, <2>4 DEF BundleTravels
<1>4. ExportTyped'
  BY <1>1 DEF ExportInv, ExportTyped
<1>5. export.pc \in {"scripts", "config"} =>
        /\ Tabled(entries, pulled)'
        /\ ScriptsKept(entries, pulled, export.files, export.warned)'
        /\ NumbersKept(entries, pulled, export.numbers, conf)'
  BY <1>1, TablesStay DEF ExportInv
<1> QED BY <1>1, <1>3, <1>4, <1>5 DEF ExportInv

\* "Self-contained": every job that the bundle carries plays there what it
\* played here, every auto-answer number runs the job it ran here, and no file
\* stands in for another, whatever names collided, whatever was pulled in
\* twice, however a script wrote its references (export, normalize_script,
\* pull_external, relative_zip_path).
THEOREM BundlesTravel == ExportSpec => []BundleTravels
<1>1. ExportInit => ExportInv /\ BundleTravels
  BY ExportStarts
<1>2. ExportInv /\ BundleTravels /\ [ExportNext]_exportVars
        => ExportInv' /\ BundleTravels'
  <2> SUFFICES ASSUME ExportInv, BundleTravels, [ExportNext]_exportVars
               PROVE  ExportInv' /\ BundleTravels'
    OBVIOUS
  <2>0. export'.pc # "written" => BundleTravels'
    BY DEF BundleTravels, RoundTrip, NoClobber
  <2>t. ExportTyped
    BY DEF ExportInv
  <2>1. ASSUME NEW s \in Setup, ExportBegins(s) PROVE ExportInv' /\ BundleTravels'
    <3>1. export'.pc = "walk"
      BY <2>1, <2>t DEF ExportBegins, ExportTyped
    <3> QED BY <2>0, <2>1, <3>1, ExportBegun
  <2>2. ASSUME Walk PROVE ExportInv' /\ BundleTravels'
    <3>1. export'.pc = "scripts"
      <4>1. \E F : export' = [export EXCEPT !.pc = "scripts", !.files = F]
        BY <2>2 DEF Walk
      <4> QED BY <2>t, <4>1 DEF ExportTyped
    <3> QED BY <2>0, <2>2, <3>1, ExportWalked
  <2>3. ASSUME NEW f \in Folder, NormalizeScript(f) PROVE ExportInv' /\ BundleTravels'
    <3>1. export'.pc # "written"
      BY <2>3, <2>t DEF NormalizeScript, ExportTyped
    <3> QED BY <2>0, <2>3, <3>1, ExportScript
  <2>4. ASSUME ScriptsDone PROVE ExportInv' /\ BundleTravels'
    <3>1. export'.pc = "config"
      BY <2>4, <2>t DEF ScriptsDone, ExportTyped
    <3> QED BY <2>0, <2>4, <3>1, ExportScripted
  <2>5. ASSUME NEW n \in Number, ConfigNumber(n) PROVE ExportInv' /\ BundleTravels'
    <3>1. export'.pc # "written"
      BY <2>5, <2>t DEF ConfigNumber, ExportTyped
    <3> QED BY <2>0, <2>5, <3>1, ExportNumber
  <2>6. CASE WriteZip
    BY <2>6, ExportWritten
  <2>7. CASE UNCHANGED exportVars
    BY <2>7, ExportStays
  <2> QED BY <2>1, <2>2, <2>3, <2>4, <2>5, <2>6, <2>7 DEF ExportNext
<1> QED BY <1>1, <1>2, PTL DEF ExportSpec
=============================================================================
