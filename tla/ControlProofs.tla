--------------------------- MODULE ControlProofs ---------------------------
(* What is proved, for every value of the constants, of the parts that      *)
(* MCControl checks on small instances: how the daemon is advertised        *)
(* (Discovery) and why no phone has come (Firewall), requests that are      *)
(* answered by a frame of their own (Requests), wireless adb (AdbLink) and  *)
(* the sharing of devices (SharePolicy, Share); and, at the end, of all of  *)
(* them together, with who answers a call (OverridesProofs).                *)
EXTENDS MCControl, OverridesProofs, SequenceTheorems, FiniteSetTheorems

-----------------------------------------------------------------------------
(* Discovery.                                                               *)

\* What a daemon's start and advertisement have come to.
StartShape(d) ==
  /\ dialfd[d].pc # "kill" => dialfd[d].todo = {}
  /\ dialfd[d].pc = "up" => dialfd[d].advert \in {"active", "loopback", "failed"}
  /\ dialfd[d].pc # "up" => dialfd[d].advert = "none" /\ dialfd[d].problem = "none"
  /\ (dialfd[d].pc = "confirm" \/ dialfd[d].advert = "active") =>
       dialfd[d].child # 0
  /\ dialfd[d].child <= spawned

\* A daemon's processes: one, and only while it is advertised or starts to be.
OwnChild(d) ==
  \A p \in Advertiser : parent[p] = d =>
    /\ dialfd[d].child = p
    /\ dialfd[d].pc = "confirm" \/ dialfd[d].advert = "active"

\* What is to be reaped has no daemon, and never will have one again; what
\* this start may signal is still to be, or has been.
Abandoned(p) == parent[p] \in {"init", "gone"}
ReapShape(d) ==
  /\ \A p \in dialfd[d].todo \cup told : Abandoned(p)
  /\ \A p \in strays[d] : parent[p] = "init"
  /\ dialfd[d].pc = "kill" => \A p \in strays[d] :
       MaySignal(d, p) => p \in dialfd[d].todo \cup told
  /\ dialfd[d].pc \in {"spawn", "confirm", "up"} => \A p \in strays[d] :
       MaySignal(d, p) => p \in told

\* Who has not gone has said nothing; the tail is what was said, or lags.
WordsShape ==
  \A p \in Advertiser :
    /\ p > spawned <=> parent[p] = "none"
    /\ parent[p] # "gone" => said[p] = "nothing"
    /\ tail[p] \in {"nothing", said[p]}

\* A cause that is named is what the daemon's last advertiser said.
CauseShape(d) ==
  dialfd[d].problem \in Cause =>
    /\ dialfd[d].advert = "failed"
    /\ dialfd[d].child \in Advertiser
    /\ parent[dialfd[d].child] = "gone"
    /\ said[dialfd[d].child] = dialfd[d].problem

DiscoveryInv ==
  /\ DiscoveryTypeOK
  /\ WordsShape
  /\ \A d \in Daemon : StartShape(d) /\ OwnChild(d) /\ ReapShape(d) /\ CauseShape(d)

\* It holds before any daemon is started.
LEMMA DiscoveryStart == DiscoveryInit => DiscoveryInv
  BY DiscoveryAssumption
  DEF DiscoveryInit, DiscoveryInv, DiscoveryTypeOK, Dialfd, Stage, WordsShape,
      StartShape, OwnChild, ReapShape, CauseShape, Advertiser, Running, Cause,
      Abandoned, Down

\* Every step keeps the invariant.
LEMMA DiscoveryStep ==
  DiscoveryInv /\ [DiscoveryNext]_discoveryVars => DiscoveryInv'
<1> SUFFICES ASSUME DiscoveryInv, [DiscoveryNext]_discoveryVars
             PROVE  DiscoveryInv'
  OBVIOUS
<1> USE DiscoveryAssumption
    DEF DiscoveryInv, DiscoveryTypeOK, Advertiser, Down, Failed, Active, pipes,
        processes, MaySignal
<1>1. ASSUME NEW e \in Daemon, NEW bind \in {"lan", "loopback", "bad"},
             Launch(e, bind)
      PROVE  DiscoveryInv'
  <2>1. DiscoveryTypeOK'
    <3>1. Down \in Dialfd
      BY DEF Dialfd, Stage
    <3>2. ASSUME NEW s \in Dialfd
          PROVE  /\ [s EXCEPT !.pc = "reap", !.bind = bind] \in Dialfd
                 /\ [s EXCEPT !.bind = bind] \in Dialfd
                 /\ Failed(s, "bind") \in Dialfd
      <4>1. [s EXCEPT !.pc = "reap", !.bind = bind] \in Dialfd
        BY <3>2, <1>1 DEF Dialfd, Stage
      <4>2. [s EXCEPT !.bind = bind] \in Dialfd
        BY <3>2, <1>1 DEF Dialfd, Stage
      <4>3. Failed(s, "bind") \in Dialfd
        BY <3>2 DEF Dialfd, Stage
      <4> QED BY <4>1, <4>2, <4>3
    <3>3. /\ [Down EXCEPT !.pc = "reap", !.bind = bind] \in Dialfd
          /\ Failed([Down EXCEPT !.bind = bind], "bind") \in Dialfd
      <4> HIDE DEF Down, Failed
      <4> QED BY <3>1, <3>2
    <3> QED BY <1>1, <3>3 DEF Launch, Orphans
  <2>2. WordsShape'
    BY <1>1 DEF Launch, WordsShape, Running
  <2>3. (\A d \in Daemon : StartShape(d))'
    BY <1>1 DEF Launch, StartShape, Dialfd
  <2>4. (\A d \in Daemon : OwnChild(d))'
    BY <1>1 DEF Launch, OwnChild, StartShape
  <2>5. (\A d \in Daemon : ReapShape(d))'
    BY <1>1 DEF Launch, ReapShape, StartShape, WordsShape, Abandoned, Running,
      Orphans
  <2>6. (\A d \in Daemon : CauseShape(d))'
    BY <1>1 DEF Launch, CauseShape, StartShape, WordsShape, Running, Cause,
      CauseOf
  <2> QED BY <2>1, <2>2, <2>3, <2>4, <2>5, <2>6
<1>2. ASSUME NEW e \in Daemon,
             ListOrphans(e)
      PROVE  DiscoveryInv'
  <2>1. DiscoveryTypeOK'
    <3>1. dialfd[e] \in Dialfd
      OBVIOUS
    <3>2. /\ dialfd'[e] \in Dialfd
          /\ dialfd' = [dialfd EXCEPT ![e] = dialfd'[e]]
      BY <1>2, <3>1 DEF ListOrphans, Dialfd, Orphans, Cause, CauseOf, Stage
    <3> QED BY <1>2, <3>2 DEF ListOrphans
  <2>2. WordsShape'
    BY <1>2 DEF ListOrphans, WordsShape, Running
  <2>3. (\A d \in Daemon : StartShape(d))'
    BY <1>2 DEF ListOrphans, StartShape, Dialfd
  <2>4. (\A d \in Daemon : OwnChild(d))'
    BY <1>2 DEF ListOrphans, OwnChild, StartShape
  <2>5. (\A d \in Daemon : ReapShape(d))'
    BY <1>2 DEF ListOrphans, ReapShape, StartShape, WordsShape, Abandoned,
      Running, Orphans
  <2>6. (\A d \in Daemon : CauseShape(d))'
    BY <1>2 DEF ListOrphans, CauseShape, StartShape, WordsShape, Running,
      Cause, CauseOf
  <2> QED BY <2>1, <2>2, <2>3, <2>4, <2>5, <2>6
<1>3. ASSUME NEW e \in Daemon,
             ListFails(e)
      PROVE  DiscoveryInv'
  <2>1. DiscoveryTypeOK'
    <3>1. dialfd[e] \in Dialfd
      OBVIOUS
    <3>2. /\ dialfd'[e] \in Dialfd
          /\ dialfd' = [dialfd EXCEPT ![e] = dialfd'[e]]
      BY <1>3, <3>1 DEF ListFails, Dialfd, Orphans, Cause, CauseOf, Stage
    <3> QED BY <1>3, <3>2 DEF ListFails
  <2>2. WordsShape'
    BY <1>3 DEF ListFails, WordsShape, Running
  <2>3. (\A d \in Daemon : StartShape(d))'
    BY <1>3 DEF ListFails, StartShape, Dialfd
  <2>4. (\A d \in Daemon : OwnChild(d))'
    BY <1>3 DEF ListFails, OwnChild, StartShape
  <2>5. (\A d \in Daemon : ReapShape(d))'
    BY <1>3 DEF ListFails, ReapShape, StartShape, WordsShape, Abandoned,
      Running, Orphans
  <2>6. (\A d \in Daemon : CauseShape(d))'
    BY <1>3 DEF ListFails, CauseShape, StartShape, WordsShape, Running, Cause,
      CauseOf
  <2> QED BY <2>1, <2>2, <2>3, <2>4, <2>5, <2>6
<1>4. ASSUME NEW e \in Daemon, NEW q \in Advertiser,
             KillOrphan(e, q)
      PROVE  DiscoveryInv'
  <2>1. DiscoveryTypeOK'
    <3>1. dialfd[e] \in Dialfd
      OBVIOUS
    <3>2. /\ dialfd'[e] \in Dialfd
          /\ dialfd' = [dialfd EXCEPT ![e] = dialfd'[e]]
      BY <1>4, <3>1 DEF KillOrphan, Dialfd, Orphans, Cause, CauseOf, Stage
    <3> QED BY <1>4, <3>2 DEF KillOrphan
  <2>2. WordsShape'
    <3>1. Abandoned(q)
      BY <1>4 DEF KillOrphan, ReapShape
    <3> QED BY <1>4, <3>1 DEF KillOrphan, WordsShape, Running, Abandoned
  <2>3. (\A d \in Daemon : StartShape(d))'
    BY <1>4 DEF KillOrphan, StartShape, Dialfd
  <2>4. (\A d \in Daemon : OwnChild(d))'
    BY <1>4 DEF KillOrphan, OwnChild, StartShape
  <2>5. (\A d \in Daemon : ReapShape(d))'
    BY <1>4 DEF KillOrphan, ReapShape, StartShape, WordsShape, Abandoned,
      Running, Orphans
  <2>6. (\A d \in Daemon : CauseShape(d))'
    BY <1>4 DEF KillOrphan, CauseShape, StartShape, WordsShape, Running,
      Cause, CauseOf
  <2> QED BY <2>1, <2>2, <2>3, <2>4, <2>5, <2>6
<1>5. ASSUME NEW e \in Daemon,
             Reaped(e)
      PROVE  DiscoveryInv'
  <2>1. DiscoveryTypeOK'
    <3>1. dialfd[e] \in Dialfd
      OBVIOUS
    <3>2. /\ dialfd'[e] \in Dialfd
          /\ dialfd' = [dialfd EXCEPT ![e] = dialfd'[e]]
      BY <1>5, <3>1 DEF Reaped, Dialfd, Orphans, Cause, CauseOf, Stage
    <3> QED BY <1>5, <3>2 DEF Reaped
  <2>2. WordsShape'
    BY <1>5 DEF Reaped, WordsShape, Running
  <2>3. (\A d \in Daemon : StartShape(d))'
    BY <1>5 DEF Reaped, StartShape, Dialfd
  <2>4. (\A d \in Daemon : OwnChild(d))'
    <3>1. /\ parent' = parent
          /\ \A d \in Daemon : d # e => dialfd'[d] = dialfd[d]
          /\ dialfd[e].pc = "kill"
      BY <1>5 DEF Reaped
    <3>2. \A p \in Advertiser : parent[p] # e
      BY <3>1 DEF OwnChild, StartShape
    <3> QED BY <3>1, <3>2 DEF OwnChild
  <2>5. (\A d \in Daemon : ReapShape(d))'
    BY <1>5 DEF Reaped, ReapShape, StartShape, WordsShape, Abandoned, Running,
      Orphans
  <2>6. (\A d \in Daemon : CauseShape(d))'
    BY <1>5 DEF Reaped, CauseShape, StartShape, WordsShape, Running, Cause,
      CauseOf
  <2> QED BY <2>1, <2>2, <2>3, <2>4, <2>5, <2>6
<1>6. ASSUME NEW e \in Daemon,
             SpawnFails(e)
      PROVE  DiscoveryInv'
  <2>1. DiscoveryTypeOK'
    <3>1. dialfd[e] \in Dialfd
      OBVIOUS
    <3>2. /\ dialfd'[e] \in Dialfd
          /\ dialfd' = [dialfd EXCEPT ![e] = dialfd'[e]]
      BY <1>6, <3>1 DEF SpawnFails, Dialfd, Orphans, Cause, CauseOf, Stage
    <3> QED BY <1>6, <3>2 DEF SpawnFails
  <2>2. WordsShape'
    BY <1>6 DEF SpawnFails, WordsShape, Running
  <2>3. (\A d \in Daemon : StartShape(d))'
    BY <1>6 DEF SpawnFails, StartShape, Dialfd
  <2>4. (\A d \in Daemon : OwnChild(d))'
    BY <1>6 DEF SpawnFails, OwnChild, StartShape
  <2>5. (\A d \in Daemon : ReapShape(d))'
    BY <1>6 DEF SpawnFails, ReapShape, StartShape, WordsShape, Abandoned,
      Running, Orphans
  <2>6. (\A d \in Daemon : CauseShape(d))'
    BY <1>6 DEF SpawnFails, CauseShape, StartShape, WordsShape, Running,
      Cause, CauseOf
  <2> QED BY <2>1, <2>2, <2>3, <2>4, <2>5, <2>6
<1>7. ASSUME NEW e \in Daemon, NEW r \in Responder,
             Spawn(e, r)
      PROVE  DiscoveryInv'
  <2>1. DiscoveryTypeOK'
    <3>1. dialfd[e] \in Dialfd /\ spawned + 1 \in Advertiser
      BY <1>7 DEF Spawn
    <3>2. [dialfd[e] EXCEPT !.child = spawned + 1] \in Dialfd
      <4>1. dialfd[e] \in Dialfd /\ spawned + 1 \in 0 .. MaxAdvert
        BY <3>1
      <4> HIDE DEF Advertiser
      <4> QED BY <4>1 DEF Dialfd
    <3>3. /\ Active([dialfd[e] EXCEPT !.child = spawned + 1]) \in Dialfd
          /\ [dialfd[e] EXCEPT !.pc = "confirm", !.child = spawned + 1] \in Dialfd
      BY <3>1, <3>2 DEF Dialfd, Stage
    <3>4. spawned' \in 0 .. MaxAdvert
      BY <1>7 DEF Spawn
    <3>5. /\ parent' \in [Advertiser -> Daemon \cup {"none", "init", "gone"}]
          /\ via' \in [Advertiser -> Responder \cup {"none"}]
      BY <1>7, <3>1 DEF Spawn
    <3>6. dialfd' \in [Daemon -> Dialfd]
      BY <1>7, <3>3 DEF Spawn
    <3> QED BY <1>7, <3>4, <3>5, <3>6 DEF Spawn
  <2>2. WordsShape'
    <3>1. spawned + 1 \in Advertiser /\ parent[spawned + 1] = "none"
      BY <1>7 DEF Spawn, WordsShape
    <3>2. e \in Daemon /\ spawned' = spawned + 1 /\ said' = said /\ tail' = tail
      BY <1>7 DEF Spawn
    <3>3. \A p \in Advertiser :
            parent'[p] = IF p = spawned + 1 THEN e ELSE parent[p]
      BY <1>7 DEF Spawn
    <3>4. said[spawned + 1] = "nothing" /\ tail[spawned + 1] = "nothing"
      BY <3>1 DEF WordsShape
    <3> QED BY <3>1, <3>2, <3>3, <3>4 DEF WordsShape, Running
  <2>3. (\A d \in Daemon : StartShape(d))'
    BY <1>7 DEF Spawn, StartShape, Dialfd
  <2>4. (\A d \in Daemon : OwnChild(d))'
    BY <1>7 DEF Spawn, OwnChild, StartShape
  <2>5. (\A d \in Daemon : ReapShape(d))'
    <3>1. spawned + 1 \in Advertiser /\ parent[spawned + 1] = "none"
      BY <1>7 DEF Spawn, WordsShape
    <3>2. \A d \in Daemon :
            spawned + 1 \notin dialfd[d].todo \cup strays[d] \cup told
      BY <3>1 DEF ReapShape, Abandoned
    <3>3. \A p \in Advertiser : p # spawned + 1 =>
            parent'[p] = parent[p] /\ owner'[p] = owner[p]
      BY <1>7 DEF Spawn
    <3>4. ASSUME NEW d \in Daemon PROVE ReapShape(d)'
      <4>1. /\ strays'[d] = strays[d] /\ strays[d] \subseteq Advertiser
            /\ dialfd'[d].todo = dialfd[d].todo
            /\ dialfd[d].todo \subseteq Advertiser
            /\ dialfd'[d].pc = "kill" => dialfd[d].pc = "kill"
            /\ dialfd'[d].pc \in {"spawn", "confirm", "up"} =>
                 dialfd[d].pc \in {"spawn", "confirm", "up"}
            /\ told' = told
        BY <1>7 DEF Spawn, Dialfd
      <4>2. /\ dialfd[d].todo \cup strays[d] \cup told \subseteq Advertiser
            /\ spawned + 1 \notin dialfd[d].todo \cup strays[d] \cup told
        BY <3>2, <4>1
      <4>3. \A p \in dialfd[d].todo \cup strays[d] \cup told :
              parent'[p] = parent[p] /\ owner'[p] = owner[p]
        BY <3>3, <4>2
      <4> QED BY <4>1, <4>3 DEF ReapShape, Abandoned
    <3> QED BY <3>4
  <2>6. (\A d \in Daemon : CauseShape(d))'
    <3>1. spawned + 1 \in Advertiser /\ parent[spawned + 1] = "none"
      BY <1>7 DEF Spawn, WordsShape
    <3>2. dialfd'[e].problem \notin Cause
      <4>1. dialfd[e].problem = "none" /\ dialfd[e] \in Dialfd
        BY <1>7 DEF Spawn, StartShape
      <4>2. dialfd'[e].problem = dialfd[e].problem
        BY <1>7, <4>1 DEF Spawn, Active, Dialfd
      <4> QED BY <4>1, <4>2 DEF Cause
    <3>3. ASSUME NEW d \in Daemon, d # e PROVE CauseShape(d)'
      BY <1>7, <3>1, <3>3 DEF Spawn, CauseShape
    <3> QED BY <3>2, <3>3 DEF CauseShape
  <2> QED BY <2>1, <2>2, <2>3, <2>4, <2>5, <2>6
<1>8. ASSUME NEW e \in Daemon,
             Confirmed(e)
      PROVE  DiscoveryInv'
  <2>1. DiscoveryTypeOK'
    <3>1. dialfd[e] \in Dialfd
      OBVIOUS
    <3>2. /\ dialfd'[e] \in Dialfd
          /\ dialfd' = [dialfd EXCEPT ![e] = dialfd'[e]]
      BY <1>8, <3>1 DEF Confirmed, Dialfd, Orphans, Cause, CauseOf, Stage
    <3> QED BY <1>8, <3>2 DEF Confirmed
  <2>2. WordsShape'
    BY <1>8 DEF Confirmed, WordsShape, Running
  <2>3. (\A d \in Daemon : StartShape(d))'
    BY <1>8 DEF Confirmed, StartShape, Dialfd
  <2>4. (\A d \in Daemon : OwnChild(d))'
    BY <1>8 DEF Confirmed, OwnChild, StartShape
  <2>5. (\A d \in Daemon : ReapShape(d))'
    BY <1>8 DEF Confirmed, ReapShape, StartShape, WordsShape, Abandoned,
      Running, Orphans
  <2>6. (\A d \in Daemon : CauseShape(d))'
    BY <1>8 DEF Confirmed, CauseShape, StartShape, WordsShape, Running, Cause,
      CauseOf
  <2> QED BY <2>1, <2>2, <2>3, <2>4, <2>5, <2>6
<1>9. ASSUME NEW e \in Daemon,
             ConfirmEnds(e)
      PROVE  DiscoveryInv'
  <2>1. DiscoveryTypeOK'
    <3>1. dialfd[e] \in Dialfd
      OBVIOUS
    <3>2. /\ dialfd'[e] \in Dialfd
          /\ dialfd' = [dialfd EXCEPT ![e] = dialfd'[e]]
      BY <1>9, <3>1 DEF ConfirmEnds, Dialfd, Orphans, Cause, CauseOf, Stage
    <3> QED BY <1>9, <3>2 DEF ConfirmEnds
  <2>2. WordsShape'
    BY <1>9 DEF ConfirmEnds, WordsShape, Running
  <2>3. (\A d \in Daemon : StartShape(d))'
    BY <1>9 DEF ConfirmEnds, StartShape, Dialfd
  <2>4. (\A d \in Daemon : OwnChild(d))'
    <3>1. \A p \in Advertiser : parent[p] # e
      BY <1>9 DEF ConfirmEnds, OwnChild, Running
    <3> QED BY <1>9, <3>1 DEF ConfirmEnds, OwnChild
  <2>5. (\A d \in Daemon : ReapShape(d))'
    BY <1>9 DEF ConfirmEnds, ReapShape, StartShape, WordsShape, Abandoned,
      Running, Orphans
  <2>6. (\A d \in Daemon : CauseShape(d))'
    <3>1. dialfd[e].child \in Advertiser /\ parent[dialfd[e].child] = "gone"
      BY <1>9 DEF ConfirmEnds, StartShape, Running, WordsShape, Dialfd
    <3> QED
      BY <1>9, <3>1 DEF ConfirmEnds, CauseShape, StartShape, Cause, CauseOf
  <2> QED BY <2>1, <2>2, <2>3, <2>4, <2>5, <2>6
<1>10. ASSUME NEW e \in Daemon,
             ReportExit(e)
      PROVE  DiscoveryInv'
  <2>1. DiscoveryTypeOK'
    <3>1. dialfd[e] \in Dialfd
      OBVIOUS
    <3>2. /\ dialfd'[e] \in Dialfd
          /\ dialfd' = [dialfd EXCEPT ![e] = dialfd'[e]]
      BY <1>10, <3>1 DEF ReportExit, Dialfd, Orphans, Cause, CauseOf, Stage
    <3> QED BY <1>10, <3>2 DEF ReportExit
  <2>2. WordsShape'
    BY <1>10 DEF ReportExit, WordsShape, Running
  <2>3. (\A d \in Daemon : StartShape(d))'
    BY <1>10 DEF ReportExit, StartShape, Dialfd
  <2>4. (\A d \in Daemon : OwnChild(d))'
    <3>1. \A p \in Advertiser : parent[p] # e
      BY <1>10 DEF ReportExit, OwnChild, Running
    <3> QED BY <1>10, <3>1 DEF ReportExit, OwnChild
  <2>5. (\A d \in Daemon : ReapShape(d))'
    BY <1>10 DEF ReportExit, ReapShape, StartShape, WordsShape, Abandoned,
      Running, Orphans
  <2>6. (\A d \in Daemon : CauseShape(d))'
    <3>1. dialfd[e].child \in Advertiser /\ parent[dialfd[e].child] = "gone"
      BY <1>10 DEF ReportExit, StartShape, Running, WordsShape, Dialfd
    <3>2. tail[dialfd[e].child] \in Cause =>
            said[dialfd[e].child] = tail[dialfd[e].child]
      BY <3>1 DEF WordsShape, Cause
    <3> QED
      BY <1>10, <3>1, <3>2
      DEF ReportExit, CauseShape, StartShape, Cause, CauseOf
  <2> QED BY <2>1, <2>2, <2>3, <2>4, <2>5, <2>6
<1>11. ASSUME NEW e \in Daemon,
             Stops(e)
      PROVE  DiscoveryInv'
  <2>1. DiscoveryTypeOK'
    <3>1. dialfd[e] \in Dialfd
      OBVIOUS
    <3>2. /\ dialfd'[e] \in Dialfd
          /\ dialfd' = [dialfd EXCEPT ![e] = dialfd'[e]]
      BY <1>11, <3>1 DEF Stops, Dialfd, Orphans, Cause, CauseOf, Stage
    <3> QED BY <1>11, <3>2 DEF Stops
  <2>2. WordsShape'
    BY <1>11 DEF Stops, WordsShape, Running
  <2>3. (\A d \in Daemon : StartShape(d))'
    BY <1>11 DEF Stops, StartShape, Dialfd
  <2>4. (\A d \in Daemon : OwnChild(d))'
    BY <1>11 DEF Stops, OwnChild, StartShape
  <2>5. (\A d \in Daemon : ReapShape(d))'
    <3>1. \A p \in Advertiser : Abandoned(p) => parent'[p] = parent[p]
      BY <1>11 DEF Stops, Abandoned
    <3>2. ASSUME NEW d \in Daemon PROVE ReapShape(d)'
      <4>1. /\ strays' = [strays EXCEPT ![e] = {}] /\ strays[d] \subseteq Advertiser
            /\ dialfd[d].todo \subseteq Advertiser
            /\ told' = told
            /\ \A p \in strays[d] : parent[p] = "init" /\ owner'[p] = owner[p]
        BY <1>11, DiscoveryAssumption DEF Stops, Dialfd, ReapShape
      <4>2. ReapShape(d)
        OBVIOUS
      <4>3. CASE d = e
        <5>1. /\ dialfd'[d].todo = {} /\ dialfd'[d].pc = "down"
              /\ strays'[d] = {}
          BY <1>11, <4>1, <4>3 DEF Stops
        <5> QED BY <3>1, <4>1, <4>2, <5>1 DEF ReapShape, Abandoned
      <4>4. CASE d # e
        <5>1. dialfd'[d] = dialfd[d] /\ strays'[d] = strays[d]
          BY <1>11, <4>1, <4>4 DEF Stops
        <5>2. \A p \in strays[d] :
                Abandoned(p) /\ (MaySignal(d, p)' <=> MaySignal(d, p))
          BY <4>1, <4>2 DEF ReapShape, Abandoned
        <5> QED BY <3>1, <4>1, <4>2, <5>1, <5>2 DEF ReapShape, Abandoned
      <4> QED BY <4>3, <4>4
    <3> QED BY <3>2
  <2>6. (\A d \in Daemon : CauseShape(d))'
    BY <1>11 DEF Stops, CauseShape, StartShape, WordsShape, Running, Cause,
      CauseOf
  <2> QED BY <2>1, <2>2, <2>3, <2>4, <2>5, <2>6
<1>12. ASSUME NEW e \in Daemon,
             Dies(e)
      PROVE  DiscoveryInv'
  <2>1. DiscoveryTypeOK'
    <3>1. dialfd[e] \in Dialfd
      OBVIOUS
    <3>2. /\ dialfd'[e] \in Dialfd
          /\ dialfd' = [dialfd EXCEPT ![e] = dialfd'[e]]
      BY <1>12, <3>1 DEF Dies, Dialfd, Orphans, Cause, CauseOf, Stage
    <3> QED BY <1>12, <3>2 DEF Dies
  <2>2. WordsShape'
    BY <1>12 DEF Dies, WordsShape, Running
  <2>3. (\A d \in Daemon : StartShape(d))'
    BY <1>12 DEF Dies, StartShape, Dialfd
  <2>4. (\A d \in Daemon : OwnChild(d))'
    BY <1>12 DEF Dies, OwnChild, StartShape
  <2>5. (\A d \in Daemon : ReapShape(d))'
    <3>1. \A p \in Advertiser : Abandoned(p) => parent'[p] = parent[p]
      BY <1>12 DEF Dies, Abandoned
    <3>2. ASSUME NEW d \in Daemon PROVE ReapShape(d)'
      <4>1. /\ strays' = [strays EXCEPT ![e] = {}] /\ strays[d] \subseteq Advertiser
            /\ dialfd[d].todo \subseteq Advertiser
            /\ told' = told
            /\ \A p \in strays[d] : parent[p] = "init" /\ owner'[p] = owner[p]
        BY <1>12, DiscoveryAssumption DEF Dies, Dialfd, ReapShape
      <4>2. ReapShape(d)
        OBVIOUS
      <4>3. CASE d = e
        <5>1. /\ dialfd'[d].todo = {} /\ dialfd'[d].pc = "down"
              /\ strays'[d] = {}
          BY <1>12, <4>1, <4>3 DEF Dies
        <5> QED BY <3>1, <4>1, <4>2, <5>1 DEF ReapShape, Abandoned
      <4>4. CASE d # e
        <5>1. dialfd'[d] = dialfd[d] /\ strays'[d] = strays[d]
          BY <1>12, <4>1, <4>4 DEF Dies
        <5>2. \A p \in strays[d] :
                Abandoned(p) /\ (MaySignal(d, p)' <=> MaySignal(d, p))
          BY <4>1, <4>2 DEF ReapShape, Abandoned
        <5> QED BY <3>1, <4>1, <4>2, <5>1, <5>2 DEF ReapShape, Abandoned
      <4> QED BY <4>3, <4>4
    <3> QED BY <3>2
  <2>6. (\A d \in Daemon : CauseShape(d))'
    BY <1>12 DEF Dies, CauseShape, StartShape, WordsShape, Running, Cause,
      CauseOf
  <2> QED BY <2>1, <2>2, <2>3, <2>4, <2>5, <2>6
<1>13. ASSUME NEW e \in Daemon,
             Relay(e)
      PROVE  DiscoveryInv'
  <2>1. DiscoveryTypeOK'
    BY <1>13 DEF Relay
  <2>2. WordsShape'
    BY <1>13 DEF Relay, WordsShape, Running
  <2>3. (\A d \in Daemon : StartShape(d))'
    BY <1>13 DEF Relay, StartShape, Dialfd
  <2>4. (\A d \in Daemon : OwnChild(d))'
    BY <1>13 DEF Relay, OwnChild, StartShape
  <2>5. (\A d \in Daemon : ReapShape(d))'
    BY <1>13 DEF Relay, ReapShape, StartShape, WordsShape, Abandoned, Running,
      Orphans
  <2>6. (\A d \in Daemon : CauseShape(d))'
    BY <1>13 DEF Relay, CauseShape, StartShape, WordsShape, Running, Cause,
      CauseOf
  <2> QED BY <2>1, <2>2, <2>3, <2>4, <2>5, <2>6
<1>14. ASSUME NEW q \in Advertiser,
             Established(q)
      PROVE  DiscoveryInv'
  <2>1. DiscoveryTypeOK'
    BY <1>14 DEF Established
  <2>2. WordsShape'
    BY <1>14 DEF Established, WordsShape, Running
  <2>3. (\A d \in Daemon : StartShape(d))'
    BY <1>14 DEF Established, StartShape, Dialfd
  <2>4. (\A d \in Daemon : OwnChild(d))'
    BY <1>14 DEF Established, OwnChild, StartShape
  <2>5. (\A d \in Daemon : ReapShape(d))'
    BY <1>14 DEF Established, ReapShape, StartShape, WordsShape, Abandoned,
      Running, Orphans
  <2>6. (\A d \in Daemon : CauseShape(d))'
    BY <1>14 DEF Established, CauseShape, StartShape, WordsShape, Running,
      Cause, CauseOf
  <2> QED BY <2>1, <2>2, <2>3, <2>4, <2>5, <2>6
<1>15. ASSUME NEW q \in Advertiser, NEW words \in Words,
             AdvertiserExits(q, words)
      PROVE  DiscoveryInv'
  <2>1. DiscoveryTypeOK'
    BY <1>15 DEF AdvertiserExits
  <2>2. WordsShape'
    BY <1>15 DEF AdvertiserExits, WordsShape, Running
  <2>3. (\A d \in Daemon : StartShape(d))'
    BY <1>15 DEF AdvertiserExits, StartShape, Dialfd
  <2>4. (\A d \in Daemon : OwnChild(d))'
    BY <1>15 DEF AdvertiserExits, OwnChild, StartShape
  <2>5. (\A d \in Daemon : ReapShape(d))'
    BY <1>15 DEF AdvertiserExits, ReapShape, StartShape, WordsShape,
      Abandoned, Running, Orphans
  <2>6. (\A d \in Daemon : CauseShape(d))'
    BY <1>15 DEF AdvertiserExits, CauseShape, StartShape, WordsShape, Running,
      Cause, CauseOf
  <2> QED BY <2>1, <2>2, <2>3, <2>4, <2>5, <2>6
<1>16. CASE UNCHANGED discoveryVars
  <2>1. DiscoveryTypeOK'
    BY <1>16 DEF discoveryVars
  <2>2. WordsShape'
    BY <1>16 DEF discoveryVars, WordsShape, Running
  <2>3. (\A d \in Daemon : StartShape(d))'
    BY <1>16 DEF discoveryVars, StartShape
  <2>4. (\A d \in Daemon : OwnChild(d))'
    BY <1>16 DEF discoveryVars, OwnChild
  <2>5. (\A d \in Daemon : ReapShape(d))'
    BY <1>16 DEF discoveryVars, ReapShape, Abandoned
  <2>6. (\A d \in Daemon : CauseShape(d))'
    BY <1>16 DEF discoveryVars, CauseShape
  <2> QED BY <2>1, <2>2, <2>3, <2>4, <2>5, <2>6
<1> QED
  BY <1>1, <1>2, <1>3, <1>4, <1>5, <1>6, <1>7, <1>8, <1>9, <1>10, <1>11,
    <1>12, <1>13, <1>14, <1>15, <1>16 DEF DiscoveryNext

\* The daemon's processes, its start and its Advert stay in their sets.
THEOREM DiscoveryTyping == DiscoverySpec => []DiscoveryTypeOK
<1>1. DiscoverySpec => []DiscoveryInv
  BY DiscoveryStart, DiscoveryStep, PTL DEF DiscoverySpec
<1>2. DiscoveryInv => DiscoveryTypeOK
  BY DEF DiscoveryInv
<1> QED BY <1>1, <1>2, PTL

\* reap_stale_advertisers tells every orphan that it may signal to end, and no
\* daemon's own advertiser.
THEOREM ReapsOrphansOnly == DiscoverySpec => []ReapRight
<1>1. DiscoverySpec => []DiscoveryInv
  BY DiscoveryStart, DiscoveryStep, PTL DEF DiscoverySpec
<1>2. ASSUME DiscoveryInv PROVE ReapRight
  <2>1. SparesTheHealthy
    BY <1>2, DiscoveryAssumption
    DEF DiscoveryInv, ReapShape, Abandoned, SparesTheHealthy
  <2>2. DecoysReaped
    BY <1>2 DEF DiscoveryInv, ReapShape, DecoysReaped, Orphans
  <2> QED BY <2>1, <2>2 DEF ReapRight
<1> QED BY <1>1, <1>2, PTL

\* What server.info says of the advertisement stands until a restart.
THEOREM AdvertStands == DiscoverySpec => []AdvertRight
<1>1. DiscoverySpec => []DiscoveryInv
  BY DiscoveryStart, DiscoveryStep, PTL DEF DiscoverySpec
<1>2. ASSUME DiscoveryInv PROVE AdvertRight
  <2>1. ASSUME NEW d \in Daemon, NEW p \in Advertiser, parent[p] = d
        PROVE  /\ dialfd[d].advert \notin {"loopback", "failed"}
               /\ dialfd[d].child = p
    <3>1. StartShape(d) /\ OwnChild(d)
      BY <1>2 DEF DiscoveryInv
    <3> QED BY <2>1, <3>1 DEF StartShape, OwnChild
  <2>2. ASSUME NEW d \in Daemon, dialfd[d].problem \in Cause
        PROVE  said[dialfd[d].child] = dialfd[d].problem
    BY <1>2, <2>2 DEF DiscoveryInv, CauseShape
  <2> QED BY <2>1, <2>2 DEF AdvertRight
<1> QED BY <1>1, <1>2, PTL
-----------------------------------------------------------------------------
(* Firewall.                                                                *)

\* What a verdict that blocks says of every line that has been read.
NotLetIn(l, q, on) ==
  /\ ~OpensToAll(l, q)
  /\ Opens(l, q) => l.iface \in on \cup {Lo}

ScanShape ==
  /\ fwHost \in Host
  /\ scan.check \notin Checked => scan.line = 1
  /\ scan.check = "idle" => verdict = [q \in Checked |-> Unknown]
  /\ Reading => \A i \in 1 .. scan.line - 1 :
       NotLetIn(fwHost.lines[i], scan.check, scan.on)

VerdictShape ==
  (Firewall \in Scanned /\ fwHost.readable) =>
    \A q \in Checked : verdict[q].open \in {"no", "only"} =>
      /\ \A i \in DOMAIN fwHost.lines :
           NotLetIn(fwHost.lines[i], q, verdict[q].on)
      /\ verdict[q].open = "no" => verdict[q].on = {}

\* How many findings group_by_fix has come to: they are in the report, as they
\* are, and nothing else is.
All == Found(verdict["udp"])
Grouped ==
  {n \in 0 .. Len(All) :
     /\ Len(findings) = Len(All) - n
     /\ \A i \in 1 .. Len(findings) : findings[i] = All[n + i]
     /\ \A i \in 1 .. n : \E k \in DOMAIN report :
          \E j \in DOMAIN report[k].problems :
            All[i] = Finding(report[k].problems[j], report[k].fix)
     /\ \A k \in DOMAIN report : \A j \in DOMAIN report[k].problems :
          \E i \in 1 .. n :
            All[i] = Finding(report[k].problems[j], report[k].fix)}

Fixes == {"allowedTCPPorts", "services.avahi"} \cup Checked \cup MdnsFault
Problems == Checked \cup {"mdns"}
Findings == [problem : Problems, fix : Fixes]
Steps == [problems : Seq(Problems), fix : Fixes]

ReportShape ==
  /\ findings \in Seq(Findings)
  /\ report \in Seq(Steps)
  /\ \A k, m \in DOMAIN report : k # m => report[k].fix # report[m].fix
  /\ \A k \in DOMAIN report : \A j, m \in DOMAIN report[k].problems :
       j # m => report[k].problems[j] # report[k].problems[m]
  /\ scan.check # "done" => findings = <<>> /\ report = <<>>
  /\ scan.check = "done" => Grouped # {}

FirewallInv == FirewallTypeOK /\ ScanShape /\ VerdictShape /\ ReportShape

\* The rule lists are sequences of lines.
LEMMA LinesAre == FirewallInv => fwHost.lines \in Seq(Line)
  BY FirewallAssumption DEF FirewallInv, ScanShape

\* Findings put one after the other: each has a problem of its own.
LEMMA ThreeFindings ==
  ASSUME NEW a \in Seq(Findings), NEW b \in Seq(Findings), NEW c \in Seq(Findings),
         Len(a) <= 1, Len(b) <= 1, Len(c) <= 1,
         \A i \in DOMAIN a : a[i].problem = "mdns",
         \A i \in DOMAIN b : b[i].problem = "tcp",
         \A i \in DOMAIN c : c[i].problem = "udp"
  PROVE  /\ a \o b \o c \in Seq(Findings)
         /\ \A i, j \in DOMAIN (a \o b \o c) :
              i # j => (a \o b \o c)[i].problem # (a \o b \o c)[j].problem
<1> DEFINE ab == a \o b
           abc == ab \o c
<1>1. ab \in Seq(Findings) /\ abc \in Seq(Findings)
  OBVIOUS
<1>2. /\ Len(ab) = Len(a) + Len(b) /\ Len(abc) = Len(ab) + Len(c)
      /\ DOMAIN a = 1 .. Len(a) /\ DOMAIN b = 1 .. Len(b)
      /\ DOMAIN c = 1 .. Len(c) /\ DOMAIN abc = 1 .. Len(abc)
      /\ Len(a) \in Nat /\ Len(b) \in Nat /\ Len(c) \in Nat
  BY <1>1
<1>3. \A i \in 1 .. Len(ab) :
        ab[i].problem = IF i <= Len(a) THEN "mdns" ELSE "tcp"
  BY <1>2, ConcatProperties
<1>4. \A i \in 1 .. Len(abc) : abc[i] = IF i <= Len(ab) THEN ab[i]
                                        ELSE c[i - Len(ab)]
  BY <1>1, ConcatProperties
<1>5. \A i \in 1 .. Len(abc) :
        abc[i].problem = IF i <= Len(a) THEN "mdns"
                         ELSE IF i <= Len(a) + Len(b) THEN "tcp" ELSE "udp"
  <2> TAKE i \in 1 .. Len(abc)
  <2>1. CASE i <= Len(ab)
    BY <1>2, <1>3, <1>4, <2>1
  <2>2. CASE i > Len(ab)
    <3>1. i - Len(ab) \in DOMAIN c
      BY <1>2, <2>2
    <3> QED BY <1>2, <1>4, <2>2, <3>1
  <2> QED BY <1>2, <2>1, <2>2
<1> HIDE DEF ab, abc
<1>6. \A i, j \in DOMAIN abc : i # j => abc[i].problem # abc[j].problem
  BY <1>2, <1>5
<1> QED BY <1>1, <1>6 DEF ab, abc

\* What is found is a sequence of findings, each of another problem.
LEMMA FoundShape ==
  ASSUME FirewallInv, NEW open
  PROVE  /\ Found(open) \in Seq(Findings)
         /\ \A i, j \in DOMAIN Found(open) :
              i # j => Found(open)[i].problem # Found(open)[j].problem
<1>1. /\ MdnsFinding \in Seq(Findings) /\ Len(MdnsFinding) <= 1
      /\ \A i \in DOMAIN MdnsFinding : MdnsFinding[i].problem = "mdns"
  <2>1. CASE mdns = "fine"
    BY <2>1 DEF MdnsFinding
  <2>2. CASE mdns # "fine"
    <3> DEFINE f == Finding("mdns",
                            IF fwHost.nixos /\ mdns \in {"install", "down"}
                              THEN "services.avahi" ELSE mdns)
    <3>1. f \in Findings /\ f.problem = "mdns"
      BY <2>2 DEF FirewallInv, FirewallTypeOK, Finding, Findings, Fixes, Problems
    <3>2. MdnsFinding = <<f>>
      BY <2>2 DEF MdnsFinding
    <3> HIDE DEF f
    <3> QED BY <3>1, <3>2
  <2> QED BY <2>1, <2>2
<1>2. ASSUME NEW q \in Checked, NEW o
      PROVE  /\ BlockedFinding(q, o) \in Seq(Findings)
             /\ Len(BlockedFinding(q, o)) <= 1
             /\ \A i \in DOMAIN BlockedFinding(q, o) :
                  BlockedFinding(q, o)[i].problem = q
  <2> DEFINE f == Finding(q, FixOf(q))
  <2>1. f \in Findings /\ f.problem = q
    BY <1>2 DEF FixOf, Finding, Findings, Fixes, Problems, Checked
  <2>2. CASE o.open = "yes"
    BY <2>2 DEF BlockedFinding
  <2>3. CASE o.open # "yes"
    <3>1. BlockedFinding(q, o) = <<f>>
      BY <2>3 DEF BlockedFinding
    <3> HIDE DEF f
    <3> QED BY <2>1, <3>1
  <2> QED BY <2>2, <2>3
<1>3. /\ BlockedFinding("tcp", verdict["tcp"]) \in Seq(Findings)
      /\ Len(BlockedFinding("tcp", verdict["tcp"])) <= 1
      /\ \A i \in DOMAIN BlockedFinding("tcp", verdict["tcp"]) :
           BlockedFinding("tcp", verdict["tcp"])[i].problem = "tcp"
  BY <1>2 DEF Checked
<1>4. /\ BlockedFinding("udp", open) \in Seq(Findings)
      /\ Len(BlockedFinding("udp", open)) <= 1
      /\ \A i \in DOMAIN BlockedFinding("udp", open) :
           BlockedFinding("udp", open)[i].problem = "udp"
  BY <1>2 DEF Checked
<1> QED BY <1>1, <1>3, <1>4, ThreeFindings DEF Found

\* It holds before anything is asked.
LEMMA FirewallStart == FirewallInit => FirewallInv
<1> SUFFICES ASSUME FirewallInit PROVE FirewallInv
  OBVIOUS
<1> USE FirewallAssumption
    DEF FirewallInit, Unknown, Checked, Reading
<1>1. FirewallTypeOK
  BY DEF FirewallTypeOK
<1>2. ScanShape
  <2>1. fwHost \in Host
    OBVIOUS
  <2> QED BY <2>1 DEF ScanShape
<1>3. VerdictShape
  BY DEF VerdictShape
<1>4. ReportShape
  <2>1. findings \in Seq(Findings) /\ report \in Seq(Steps)
    OBVIOUS
  <2> QED BY <2>1 DEF ReportShape
<1> QED BY <1>1, <1>2, <1>3, <1>4 DEF FirewallInv

\* A verdict keeps the invariant if it fits the lines: a port's last one makes
\* the findings, of which none is grouped yet.
LEMMA ConcludeKeeps ==
  ASSUME FirewallInv, scan.check \in Checked, NEW o, Conclude(o),
         o \in [open : {"yes", "no", "only", "unknown"}, on : SUBSET Iface],
         (Firewall \in Scanned /\ fwHost.readable /\ o.open \in {"no", "only"}) =>
           /\ \A i \in DOMAIN fwHost.lines :
                NotLetIn(fwHost.lines[i], scan.check, o.on)
           /\ o.open = "no" => o.on = {}
  PROVE  FirewallInv'
<1> DEFINE q == scan.check
<1>1. /\ verdict' = [verdict EXCEPT ![q] = o] /\ scan'.line = 1 /\ scan'.on = {}
      /\ fwHost' = fwHost /\ mdns' = mdns /\ report' = report
      /\ scan'.check = IF q = "tcp" THEN "udp" ELSE "done"
      /\ findings' = IF q = "udp" THEN Found(o) ELSE findings
      /\ scan' \in [check : {"udp", "done"}, line : {1}, on : {{}}]
  BY DEF Conclude
<1>2. FirewallTypeOK'
  BY <1>1 DEF FirewallInv, FirewallTypeOK, Checked
<1>3. ScanShape'
  <2>1. fwHost' \in Host /\ scan'.check # "idle" /\ scan'.line = 1
    BY <1>1 DEF FirewallInv, ScanShape
  <2> QED BY <2>1 DEF ScanShape
<1>4. VerdictShape'
  <2>1. Firewall' = Firewall
    BY <1>1 DEF Firewall
  <2>2. \A r \in Checked : verdict'[r] = IF r = q THEN o ELSE verdict[r]
    BY <1>1 DEF FirewallInv, FirewallTypeOK
  <2> QED BY <1>1, <2>1, <2>2 DEF FirewallInv, VerdictShape
<1>5. ReportShape'
  <2>1. CASE q = "tcp"
    BY <1>1, <2>1 DEF FirewallInv, ReportShape
  <2>2. CASE q = "udp"
    <3>1. findings = <<>> /\ report = <<>>
      BY <2>2 DEF FirewallInv, ReportShape
    <3>2. All' = Found(o)
      BY <1>1, <2>2
      DEF All, Found, MdnsFinding, BlockedFinding, FixOf, Firewall, FirewallInv,
          FirewallTypeOK, Checked
    <3>3. Found(o) \in Seq(Findings)
      BY FoundShape
    <3>4. 0 \in Grouped'
      BY <1>1, <2>2, <3>1, <3>2, <3>3 DEF Grouped
    <3> QED BY <1>1, <2>2, <3>1, <3>3, <3>4 DEF ReportShape, FirewallInv
  <2> QED BY <2>1, <2>2 DEF Checked
<1> QED BY <1>2, <1>3, <1>4, <1>5 DEF FirewallInv

\* So does a step to the next line that has no verdict yet.
LEMMA LineKeeps ==
  ASSUME FirewallInv, Reading, NEW on \in SUBSET (Iface \ {Lo}), NextLine(on),
         scan.on \subseteq on, NotLetIn(Here, scan.check, on)
  PROVE  FirewallInv'
<1>0. /\ scan \in [check : Checked \cup {"idle", "done"}, line : Nat \ {0},
                   on : SUBSET (Iface \ {Lo})]
      /\ scan' = [scan EXCEPT !.line = @ + 1, !.on = on]
  BY DEF FirewallInv, FirewallTypeOK, NextLine
<1>6. /\ scan'.check = scan.check /\ scan'.line = scan.line + 1 /\ scan'.on = on
      /\ scan' \in [check : Checked \cup {"idle", "done"}, line : Nat \ {0},
                    on : SUBSET (Iface \ {Lo})]
  <2> DEFINE C == Checked \cup {"idle", "done"}
             O == SUBSET (Iface \ {Lo})
  <2>1. scan \in [check : C, line : Nat \ {0}, on : O] /\ on \in O
    BY <1>0
  <2> HIDE DEF C, O
  <2>2. scan' \in [check : C, line : Nat \ {0}, on : O]
    <3>1. scan.check \in C /\ scan.line + 1 \in Nat \ {0}
      BY <2>1
    <3>2. scan' = [check |-> scan.check, line |-> scan.line + 1, on |-> on]
      BY <1>0, <2>1
    <3> QED BY <2>1, <3>1, <3>2
  <2>3. scan'.check = scan.check /\ scan'.line = scan.line + 1 /\ scan'.on = on
    BY <1>0, <2>1
  <2> QED BY <2>2, <2>3 DEF C, O
<1>7. UNCHANGED <<fwHost, mdns, verdict, findings, report>>
  BY DEF NextLine
<1>1. scan'.check = scan.check /\ scan'.line = scan.line + 1 /\ scan'.on = on
  BY <1>6
<1>2. FirewallTypeOK'
  BY <1>6, <1>7 DEF FirewallInv, FirewallTypeOK
<1>3. ScanShape'
  <2>1. \A i \in 1 .. scan'.line - 1 : NotLetIn(fwHost.lines[i], scan.check, on)
    BY <1>1
    DEF FirewallInv, FirewallTypeOK, ScanShape, NotLetIn, Here
  <2> QED BY <1>1, <1>7, <2>1 DEF FirewallInv, ScanShape, Reading, Checked, Firewall
<1>4. VerdictShape'
  BY <1>7 DEF FirewallInv, VerdictShape, Firewall
<1>5. ReportShape'
  BY <1>1, <1>7 DEF FirewallInv, ReportShape, Reading, Checked
<1> QED BY <1>2, <1>3, <1>4, <1>5 DEF FirewallInv

\* And so does the next finding: its fix gets a step, or one that has it.
LEMMA GroupKeeps == FirewallInv /\ Group => FirewallInv'
<1> SUFFICES ASSUME FirewallInv, Group PROVE FirewallInv'
  OBVIOUS
<1> DEFINE f == Head(findings)
           p == f.problem
<1>1. /\ findings \in Seq(Findings) /\ findings # <<>>
      /\ report \in Seq(Steps) /\ scan.check = "done"
      /\ findings' = Tail(findings)
      /\ UNCHANGED <<fwHost, mdns, scan, verdict>>
  BY DEF Group, FirewallInv, ReportShape
<1>2. f \in Findings /\ f = Finding(p, f.fix) /\ p \in Problems /\ f.fix \in Fixes
  <2>1. f \in Findings
    BY <1>1
  <2> HIDE DEF f
  <2> QED BY <2>1 DEF Findings, Finding
<1>3. All' = All /\ Firewall' = Firewall
  BY <1>1 DEF All, Found, MdnsFinding, BlockedFinding, FixOf, Firewall
<1>4. PICK n \in Grouped : TRUE
  BY <1>1 DEF FirewallInv, ReportShape
<1>5. /\ n \in 0 .. Len(All) /\ Len(findings) = Len(All) - n
      /\ \A i \in 1 .. Len(findings) : findings[i] = All[n + i]
  BY DEF Grouped
<1>6. /\ All \in Seq(Findings) /\ n + 1 \in 1 .. Len(All) /\ All[n + 1] = f
      /\ Len(Tail(findings)) = Len(All) - (n + 1)
      /\ \A i \in 1 .. Len(Tail(findings)) : Tail(findings)[i] = All[n + 1 + i]
  <2>1. All \in Seq(Findings) /\ Len(findings) \in Nat \ {0} /\ Len(All) \in Nat
    BY <1>1, FoundShape DEF All
  <2>2. f = findings[1] /\ Len(Tail(findings)) = Len(findings) - 1
        /\ \A i \in 1 .. Len(findings) - 1 : Tail(findings)[i] = findings[i + 1]
    BY <1>1, <2>1
  <2> HIDE DEF f
  <2> QED BY <1>5, <2>1, <2>2
<1> HIDE DEF f, p
\* What is told of the findings before this one; its problem is not told yet.
<1>7. /\ \A i \in 1 .. n : \E k \in DOMAIN report :
           \E j \in DOMAIN report[k].problems :
             All[i] = Finding(report[k].problems[j], report[k].fix)
      /\ \A k \in DOMAIN report : \A j \in DOMAIN report[k].problems :
           \E i \in 1 .. n :
             All[i] = Finding(report[k].problems[j], report[k].fix)
  BY DEF Grouped
<1>8. \A k \in DOMAIN report : \A j \in DOMAIN report[k].problems :
        report[k].problems[j] # p
  <2>1. \A i, j \in DOMAIN All : i # j => All[i].problem # All[j].problem
    BY FoundShape DEF All
  <2>2. \A i \in 1 .. n : All[i].problem # p
    BY <1>2, <1>5, <1>6, <2>1 DEF p
  <2> TAKE k \in DOMAIN report
  <2> TAKE j \in DOMAIN report[k].problems
  <2>3. PICK i \in 1 .. n :
          All[i] = Finding(report[k].problems[j], report[k].fix)
    BY <1>7
  <2>4. All[i].problem = report[k].problems[j]
    BY <2>3 DEF Finding
  <2> QED BY <2>2, <2>4
<1>11. /\ n + 1 \in 0 .. Len(All') /\ Len(findings') = Len(All') - (n + 1)
       /\ \A i \in 1 .. Len(findings') : findings'[i] = All'[n + 1 + i]
  BY <1>1, <1>3, <1>5, <1>6
<1>9. CASE \E k \in DOMAIN report : report[k].fix = f.fix /\ AddToStep(f, k)
  <2>1. PICK k \in DOMAIN report : report[k].fix = f.fix /\ AddToStep(f, k)
    BY <1>9
  <2> DEFINE ps == report[k].problems
  <2>2. /\ ps \in Seq(Problems) /\ report[k] \in Steps
        /\ report' = [report EXCEPT ![k].problems = Append(ps, p)]
    <3>1. report[k] \in Steps
      BY <1>1, <2>1
    <3>2. ps \in Seq(Problems)
      BY <3>1 DEF Steps
    <3>3. report' = [report EXCEPT ![k].problems = Append(ps, p)]
      BY <2>1 DEF AddToStep, p
    <3> QED BY <3>1, <3>2, <3>3
  <2>3. /\ Append(ps, p) \in Seq(Problems)
        /\ DOMAIN Append(ps, p) = 1 .. Len(ps) + 1 /\ DOMAIN ps = 1 .. Len(ps)
        /\ Append(ps, p)[Len(ps) + 1] = p /\ Len(ps) \in Nat
        /\ \A j \in DOMAIN ps : Append(ps, p)[j] = ps[j]
    BY <1>2, <2>2, AppendProperties
  <2>4. /\ DOMAIN report' = DOMAIN report
        /\ \A m \in DOMAIN report : report'[m].fix = report[m].fix
        /\ \A m \in DOMAIN report : m # k => report'[m] = report[m]
        /\ report'[k].problems = Append(ps, p)
    BY <1>1, <2>1, <2>2 DEF Steps
  <2>5. report' \in Seq(Steps)
    <3>1. [report[k] EXCEPT !.problems = Append(ps, p)] \in Steps
      BY <2>2, <2>3 DEF Steps
    <3> QED BY <1>1, <2>1, <2>2, <3>1
  <2> HIDE DEF ps
  <2>6. \A m \in DOMAIN report' : \A i, j \in DOMAIN report'[m].problems :
          i # j => report'[m].problems[i] # report'[m].problems[j]
    <3>1. ASSUME NEW i \in DOMAIN Append(ps, p), NEW j \in DOMAIN Append(ps, p),
                 i # j
          PROVE  Append(ps, p)[i] # Append(ps, p)[j]
      <4>1. /\ \A a, b \in DOMAIN ps : a # b => ps[a] # ps[b]
            /\ \A a \in DOMAIN ps : ps[a] # p
        BY <1>8, <2>1 DEF FirewallInv, ReportShape, ps
      <4>2. \A a \in DOMAIN Append(ps, p) : a \in DOMAIN ps \/ a = Len(ps) + 1
        BY <2>3
      <4> QED BY <2>3, <3>1, <4>1, <4>2
    <3> TAKE m \in DOMAIN report'
    <3>2. CASE m = k
      BY <2>4, <3>1, <3>2
    <3>3. CASE m # k
      BY <2>4, <3>3 DEF FirewallInv, ReportShape
    <3> QED BY <3>2, <3>3
  <2>7. n + 1 \in Grouped'
    <3>1. \A i \in 1 .. n + 1 : \E m \in DOMAIN report' :
            \E j \in DOMAIN report'[m].problems :
              All[i] = Finding(report'[m].problems[j], report'[m].fix)
      <4>1. ASSUME NEW i \in 1 .. n
            PROVE  \E m \in DOMAIN report' : \E j \in DOMAIN report'[m].problems :
                     All[i] = Finding(report'[m].problems[j], report'[m].fix)
        <5>1. PICK m \in DOMAIN report : \E j \in DOMAIN report[m].problems :
                All[i] = Finding(report[m].problems[j], report[m].fix)
          BY <1>7
        <5>2. PICK j \in DOMAIN report[m].problems :
                All[i] = Finding(report[m].problems[j], report[m].fix)
          BY <5>1
        <5>3. j \in DOMAIN report'[m].problems
              /\ report'[m].problems[j] = report[m].problems[j]
          BY <2>3, <2>4 DEF ps
        <5> QED BY <2>4, <5>2, <5>3
      <4>2. All[n + 1] = Finding(report'[k].problems[Len(ps) + 1], report'[k].fix)
            /\ Len(ps) + 1 \in DOMAIN report'[k].problems
        BY <1>2, <1>6, <2>1, <2>3, <2>4
      <4> TAKE i \in 1 .. n + 1
      <4>3. CASE i = n + 1
        BY <2>1, <2>4, <4>2, <4>3
      <4>4. CASE i # n + 1
        <5>1. i \in 1 .. n
          BY <1>5, <4>4
        <5> QED BY <4>1, <5>1
      <4> QED BY <4>3, <4>4
    <3>2. ASSUME NEW m \in DOMAIN report', NEW j \in DOMAIN report'[m].problems
          PROVE  \E i \in 1 .. n + 1 :
                   All[i] = Finding(report'[m].problems[j], report'[m].fix)
      <4>1. CASE m = k /\ j = Len(ps) + 1
        <5>1. All[n + 1] = Finding(report'[m].problems[j], report'[m].fix)
          BY <1>2, <1>6, <2>1, <2>3, <2>4, <4>1
        <5>2. n + 1 \in 1 .. n + 1
          BY <1>5
        <5> QED BY <5>1, <5>2
      <4>2. CASE ~(m = k /\ j = Len(ps) + 1)
        <5>1. m \in DOMAIN report /\ j \in DOMAIN report[m].problems
              /\ report'[m].problems[j] = report[m].problems[j]
          BY <2>3, <2>4, <4>2 DEF ps
        <5>2. PICK i \in 1 .. n :
                All[i] = Finding(report[m].problems[j], report[m].fix)
          BY <1>7, <5>1
        <5>3. i \in 1 .. n + 1
          BY <1>5
        <5>4. report'[m].fix = report[m].fix
          BY <2>4, <5>1
        <5> QED BY <5>1, <5>2, <5>3, <5>4
      <4> QED BY <4>1, <4>2
    <3>3. /\ \A i \in 1 .. n + 1 : \E m \in DOMAIN report' :
               \E j \in DOMAIN report'[m].problems :
                 All'[i] = Finding(report'[m].problems[j], report'[m].fix)
          /\ \A m \in DOMAIN report' : \A j \in DOMAIN report'[m].problems :
               \E i \in 1 .. n + 1 :
                 All'[i] = Finding(report'[m].problems[j], report'[m].fix)
      BY <1>3, <3>1, <3>2
    <3> QED BY <1>11, <3>3 DEF Grouped
  <2>8. ReportShape'
    <3>1. Tail(findings) \in Seq(Findings)
      BY <1>1
    <3>2. \A m, i \in DOMAIN report' : m # i => report'[m].fix # report'[i].fix
      BY <2>4 DEF FirewallInv, ReportShape
    <3> QED BY <1>1, <2>5, <2>6, <2>7, <3>1, <3>2 DEF ReportShape
  <2> QED
    BY <1>1, <1>3, <2>8
    DEF FirewallInv, FirewallTypeOK, ScanShape, VerdictShape, Reading, Checked
<1>10. CASE /\ \A k \in DOMAIN report : report[k].fix # f.fix
            /\ report' = Append(report, [problems |-> <<f.problem>>, fix |-> f.fix])
  <2> DEFINE s == [problems |-> <<p>>, fix |-> f.fix]
  <2>1. s \in Steps /\ s.problems = <<p>> /\ s.fix = f.fix
    BY <1>2 DEF Steps
  <2>2. report' = Append(report, s)
    BY <1>10 DEF p
  <2> HIDE DEF s
  <2>3. /\ report' \in Seq(Steps) /\ Len(report) \in Nat
        /\ DOMAIN report = 1 .. Len(report)
        /\ DOMAIN report' = 1 .. Len(report) + 1
        /\ report'[Len(report) + 1] = s
        /\ \A m \in DOMAIN report : report'[m] = report[m]
    BY <1>1, <2>1, <2>2, AppendProperties
  <2>4. \A m, i \in DOMAIN report' : m # i => report'[m].fix # report'[i].fix
    BY <1>10, <2>1, <2>3 DEF FirewallInv, ReportShape
  <2>5. \A m \in DOMAIN report' : \A i, j \in DOMAIN report'[m].problems :
          i # j => report'[m].problems[i] # report'[m].problems[j]
    BY <2>1, <2>3 DEF FirewallInv, ReportShape
  <2>6. n + 1 \in Grouped'
    <3>1. 1 \in DOMAIN s.problems /\ All[n + 1] = Finding(s.problems[1], s.fix)
          /\ DOMAIN s.problems = {1}
      BY <1>2, <1>6, <2>1
    <3>2. ASSUME NEW i \in 1 .. n + 1
          PROVE  \E m \in DOMAIN report' : \E j \in DOMAIN report'[m].problems :
                   All[i] = Finding(report'[m].problems[j], report'[m].fix)
      <4>1. CASE i = n + 1
        BY <2>3, <3>1, <4>1
      <4>2. CASE i # n + 1
        <5>1. i \in 1 .. n
          BY <1>5, <4>2
        <5>2. PICK m \in DOMAIN report : \E j \in DOMAIN report[m].problems :
                All[i] = Finding(report[m].problems[j], report[m].fix)
          BY <1>7, <5>1
        <5> QED BY <2>3, <5>2
      <4> QED BY <4>1, <4>2
    <3>3. ASSUME NEW m \in DOMAIN report', NEW j \in DOMAIN report'[m].problems
          PROVE  \E i \in 1 .. n + 1 :
                   All[i] = Finding(report'[m].problems[j], report'[m].fix)
      <4>1. CASE m = Len(report) + 1
        BY <1>5, <2>3, <3>1, <4>1
      <4>2. CASE m # Len(report) + 1
        <5>1. m \in DOMAIN report /\ report'[m] = report[m]
          BY <2>3, <4>2
        <5>2. PICK i \in 1 .. n :
                All[i] = Finding(report[m].problems[j], report[m].fix)
          BY <1>7, <5>1
        <5>3. i \in 1 .. n + 1
          BY <1>5
        <5> QED BY <5>1, <5>2, <5>3
      <4> QED BY <4>1, <4>2
    <3>4. /\ \A i \in 1 .. n + 1 : \E m \in DOMAIN report' :
               \E j \in DOMAIN report'[m].problems :
                 All'[i] = Finding(report'[m].problems[j], report'[m].fix)
          /\ \A m \in DOMAIN report' : \A j \in DOMAIN report'[m].problems :
               \E i \in 1 .. n + 1 :
                 All'[i] = Finding(report'[m].problems[j], report'[m].fix)
      BY <1>3, <3>2, <3>3
    <3> QED BY <1>11, <3>4 DEF Grouped
  <2>7. ReportShape'
    <3>1. Tail(findings) \in Seq(Findings)
      BY <1>1
    <3> QED BY <1>1, <2>3, <2>4, <2>5, <2>6, <3>1 DEF ReportShape
  <2> QED
    BY <1>1, <1>3, <2>7
    DEF FirewallInv, FirewallTypeOK, ScanShape, VerdictShape, Reading, Checked
<1> QED BY <1>9, <1>10 DEF Group, f

\* Every step keeps the invariant.
LEMMA FirewallStep == FirewallInv /\ [FirewallNext]_firewallVars => FirewallInv'
<1> SUFFICES ASSUME FirewallInv, [FirewallNext]_firewallVars
             PROVE  FirewallInv'
  OBVIOUS
<1> DEFINE Opening == [open : {"yes", "no", "only", "unknown"}, on : SUBSET Iface]
<1>1. /\ fwHost.lines \in Seq(Line) /\ scan.on \in SUBSET (Iface \ {Lo})
      /\ scan.line \in Nat \ {0} /\ scan.check \in Checked \cup {"idle", "done"}
      /\ Len(fwHost.lines) \in Nat /\ DOMAIN fwHost.lines = 1 .. Len(fwHost.lines)
  BY LinesAre DEF FirewallInv, FirewallTypeOK
<1>2. CASE Explain
  <2>1. /\ scan'.check = "tcp" /\ scan'.line = 1 /\ scan.check = "idle"
        /\ fwHost' \in Host /\ mdns' \in MdnsFault \cup {"fine"}
        /\ verdict' = verdict /\ findings' = findings /\ report' = report
        /\ verdict = [q \in Checked |-> Unknown]
    BY <1>2 DEF Explain, FirewallInv, FirewallTypeOK, ScanShape, Checked
  <2>2. FirewallTypeOK'
    BY <1>2, <2>1 DEF Explain, FirewallInv, FirewallTypeOK, Checked
  <2>3. ScanShape'
    BY <2>1 DEF ScanShape, Checked
  <2>4. VerdictShape'
    BY <2>1 DEF VerdictShape, Unknown
  <2>5. ReportShape'
    BY <2>1 DEF FirewallInv, ReportShape
  <2> QED BY <2>2, <2>3, <2>4, <2>5 DEF FirewallInv
<1>3. CASE AcceptLine
  <2>1. Yes \in Opening /\ Yes.open = "yes"
    BY DEF Yes
  <2> QED BY <1>3, <2>1, ConcludeKeeps DEF AcceptLine, Reading
<1>4. CASE IfaceLine
  <2>1. /\ scan.line \in DOMAIN fwHost.lines /\ Here \in Line
        /\ Here.iface # AnyIface /\ Here.iface # Lo
    BY <1>1, <1>4 DEF IfaceLine, More, Here, OpensToAll
  <2>2. scan.on \cup {Here.iface} \in SUBSET (Iface \ {Lo})
    BY <1>1, <2>1 DEF Line
  <2>3. NotLetIn(Here, scan.check, scan.on \cup {Here.iface})
    BY <1>4 DEF IfaceLine, NotLetIn
  <2> QED BY <1>4, <2>2, <2>3, LineKeeps DEF IfaceLine
<1>5. CASE OtherLine
  <2>1. NotLetIn(Here, scan.check, scan.on)
    BY <1>5 DEF OtherLine, NotLetIn
  <2> QED BY <1>1, <1>5, <2>1, LineKeeps DEF OtherLine
<1>6. CASE LinesEnd
  <2> DEFINE o == IF scan.on = {} THEN No ELSE OnlyOn(scan.on)
  <2>1. o \in Opening /\ o.on = scan.on /\ (o.open = "no" => o.on = {})
    BY <1>1 DEF No, OnlyOn
  <2>2. \A i \in DOMAIN fwHost.lines :
          NotLetIn(fwHost.lines[i], scan.check, scan.on)
    <3>1. \A i \in DOMAIN fwHost.lines : i \in 1 .. scan.line - 1
      BY <1>1, <1>6 DEF LinesEnd, More
    <3> QED BY <1>6, <3>1 DEF LinesEnd, FirewallInv, ScanShape
  <2>3. Conclude(o) /\ scan.check \in Checked
    BY <1>6 DEF LinesEnd, Reading
  <2> HIDE DEF o
  <2> QED BY <2>1, <2>2, <2>3, ConcludeKeeps
<1>7. ASSUME NotRead \/ AskFirewalld \/ ReadNft \/ NoFirewall PROVE FirewallInv'
  <2>1. Yes \in Opening /\ No \in Opening /\ Unknown \in Opening
    BY DEF Yes, No, Unknown
  <2>2. NftOpen(fwHost.lines, scan.check) \in {Yes, No}
    BY DEF NftOpen
  <2>3. PICK o \in {Yes, No, Unknown} : Conclude(o) /\ scan.check \in Checked
          /\ ((Firewall \in Scanned /\ fwHost.readable) => o = Unknown)
    BY <1>7, <2>2
    DEF NotRead, AskFirewalld, ReadNft, NoFirewall, Scanned
  <2>4. o \in Opening /\ (o = Unknown => o.open = "unknown")
    BY <2>1, <2>3 DEF Unknown
  <2> QED BY <2>3, <2>4, ConcludeKeeps
<1>8. CASE Group
  BY <1>8, GroupKeeps
<1>9. CASE UNCHANGED firewallVars
  <2>1. All' = All /\ Firewall' = Firewall
    BY <1>9
    DEF firewallVars, All, Found, MdnsFinding, BlockedFinding, FixOf, Firewall
  <2>2. UNCHANGED <<fwHost, mdns, scan, verdict, findings, report>>
    BY <1>9 DEF firewallVars
  <2>3. Grouped' = Grouped
    BY <2>1, <2>2 DEF Grouped
  <2>4. FirewallTypeOK' /\ ScanShape' /\ VerdictShape'
    BY <2>1, <2>2 DEF FirewallInv, FirewallTypeOK, ScanShape, VerdictShape, Reading
  <2>5. ReportShape'
    BY <2>2, <2>3 DEF FirewallInv, ReportShape
  <2> QED BY <2>4, <2>5 DEF FirewallInv
<1> QED
  BY <1>2, <1>3, <1>4, <1>5, <1>6, <1>7, <1>8, <1>9 DEF FirewallNext

\* A block that is told is one: the rules let no phone in where they are said
\* not to; and every fix is told once, with all and only what was found.
THEOREM NoWolfIsCried == FirewallSpec => []FirewallRight
<1>1. FirewallSpec => []FirewallInv
  BY FirewallStart, FirewallStep, PTL DEF FirewallSpec
<1>2. ASSUME FirewallInv PROVE FirewallRight
  <2>1. NoFalseAlarm
    <3>1. ASSUME NEW q \in Checked, Firewall \in Scanned, fwHost.readable,
                 verdict[q].open \in {"no", "only"},
                 NEW n \in Iface \ ({Lo} \cup verdict[q].on)
          PROVE  ~Admits(fwHost.lines, n, q)
      <4>1. \A i \in DOMAIN fwHost.lines :
              NotLetIn(fwHost.lines[i], q, verdict[q].on)
        BY <1>2, <3>1 DEF FirewallInv, VerdictShape
      <4>2. \A i \in DOMAIN fwHost.lines :
              ~(Decides(fwHost.lines[i], n, q) /\ fwHost.lines[i].verb = "accept")
        BY <3>1, <4>1 DEF NotLetIn, OpensToAll, Opens, Decides
      <4>3. \A i \in DOMAIN fwHost.lines :
              ~(/\ fwHost.lines[i].kind = "policy" /\ fwHost.lines[i].ours
                /\ fwHost.lines[i].verb = "accept")
        BY <4>1 DEF NotLetIn, OpensToAll
      <4> QED BY <4>2, <4>3 DEF Admits
    <3>2. ASSUME Firewall \in Scanned, fwHost.readable, NEW q \in Checked,
                 verdict[q].open = "no"
          PROVE  verdict[q].on = {}
      BY <1>2, <3>2 DEF FirewallInv, VerdictShape
    <3> QED BY <3>1, <3>2 DEF NoFalseAlarm
  <2>2. FixesOnce
    <3>1. /\ \A k, m \in DOMAIN report : k # m => report[k].fix # report[m].fix
          /\ \A k \in DOMAIN report : \A j, m \in DOMAIN report[k].problems :
               j # m => report[k].problems[j] # report[k].problems[m]
      BY <1>2 DEF FirewallInv, ReportShape
    <3>2. ASSUME scan.check = "done", findings = <<>>
          PROVE  /\ \A i \in DOMAIN All : \E k \in DOMAIN report :
                      \E j \in DOMAIN report[k].problems :
                        All[i] = Finding(report[k].problems[j], report[k].fix)
                 /\ \A k \in DOMAIN report : \A j \in DOMAIN report[k].problems :
                      \E i \in DOMAIN All :
                        All[i] = Finding(report[k].problems[j], report[k].fix)
      <4>1. PICK n \in Grouped : TRUE
        BY <1>2, <3>2 DEF FirewallInv, ReportShape
      <4>2. All \in Seq(Findings)
        BY <1>2, FoundShape DEF All
      <4>3. Len(findings) = Len(All) - n /\ n \in 0 .. Len(All)
        BY <4>1 DEF Grouped
      <4>4. DOMAIN All = 1 .. n
        <5>1. Len(findings) = 0
          BY <3>2
        <5> QED BY <4>2, <4>3, <5>1
      <4> QED BY <4>1, <4>4 DEF Grouped
    <3> QED BY <3>1, <3>2 DEF FixesOnce, All
  <2> QED BY <2>1, <2>2 DEF FirewallRight
<1> QED BY <1>1, <1>2, PTL

-----------------------------------------------------------------------------
(* Requests.                                                                *)

\* Requests as they are, before and after they have a kind.
AnyKind == Kinds \cup {Fresh.kind}
Reply == Client \cup {NoReply}
Request == [pc : {"idle", "fire", "poll", "sleep", "answered", "timedout"},
            kind : AnyKind, polls : Nat, result : Reply,
            before : SUBSET Client, alone : BOOLEAN]
RequestShape ==
  /\ req \in [Client -> Request]
  /\ slot \in [SlotKind -> Reply] /\ seen \subseteq Client
  /\ down \in Seq(Frames) /\ up \in Seq(Frames) /\ work \in [Frames -> Nat]
  /\ \A c \in Client :
       req[c].pc \in {"fire", "poll"} => req[c].kind \in SlotKind

\* A request that has been sent and not been answered, of the kind it has.
Awaited(f) ==
  /\ f.of \notin seen
  /\ req[f.of].pc \notin {"idle", "fire"} /\ req[f.of].kind = f.kind

\* Every request is in one place at most: on its way, with the phone, on its
\* way back, or recorded.
OnePlace ==
  /\ \A i \in 1 .. Len(down) : Awaited(down[i])
  /\ \A i \in 1 .. Len(up) : Awaited(up[i])
  /\ \A f \in Frames : work[f] > 0 => Awaited(f)
  /\ \A i, j \in 1 .. Len(down) : down[i].of = down[j].of => i = j
  /\ \A i, j \in 1 .. Len(up) : up[i].of = up[j].of => i = j
  /\ \A i \in 1 .. Len(down), j \in 1 .. Len(up) : down[i].of # up[j].of
  /\ \A f \in Frames : work[f] > 0 =>
       /\ \A i \in 1 .. Len(down) : down[i].of # f.of
       /\ \A i \in 1 .. Len(up) : up[i].of # f.of
  /\ \A c \in seen : req[c].pc \notin {"idle", "fire"}

\* What lies in a slot is news to whoever polls it, and a request that has
\* the slot to itself finds its own reply there.
SlotIsNew ==
  \A c \in Client :
    /\ req[c].before \subseteq seen
    /\ req[c].result # NoReply => req[c].result \notin req[c].before
    /\ Polls(c) => slot[req[c].kind] = NoReply
                     \/ slot[req[c].kind] \notin req[c].before
    /\ req[c].pc = "poll" /\ req[c].alone /\ c \in seen =>
         slot[req[c].kind] # NoReply

RequestsInv == RequestShape /\ OnePlace /\ SlotIsNew

\* The requests other than c are as they were, but for `alone`.
OthersStay(c) ==
  \A o \in Client \ {c} :
    /\ req'[o].pc = req[o].pc /\ req'[o].kind = req[o].kind
    /\ req'[o].before = req[o].before /\ req'[o].result = req[o].result
    /\ req'[o].alone => req[o].alone

LEMMA HandlerFields ==
  ASSUME RequestShape, NEW c \in Client
  PROVE  /\ req[c] \in Request /\ req[c].polls \in Nat /\ req[c].result \in Reply
         /\ req[c].before \subseteq Client /\ req[c].alone \in BOOLEAN
         /\ req[c].pc \in {"idle", "fire", "poll", "sleep", "answered", "timedout"}
<1>1. req[c] \in Request
  BY DEF RequestShape
<1> QED BY <1>1 DEF Request

LEMMA RequestsStart == RequestsInit => RequestsInv
<1> SUFFICES ASSUME RequestsInit PROVE RequestsInv
  OBVIOUS
<1> USE RequestsAssumption DEF RequestsInit
<1>1. Fresh \in Request /\ Fresh.pc = "idle" /\ Fresh.result = NoReply
      /\ Fresh.before = {}
  BY DEF Fresh, Request, AnyKind, Reply
<1>2. \A c \in Client : req[c] = Fresh
  OBVIOUS
<1>3. <<>> \in Seq(Frames) /\ Len(<<>>) = 0
  BY EmptySeq
<1> HIDE DEF RequestsInit
<1>4. RequestShape
  BY <1>1, <1>2, <1>3 DEF RequestShape, RequestsInit, Reply
<1>5. OnePlace
  BY <1>1, <1>2, <1>3 DEF OnePlace, RequestsInit
<1>6. SlotIsNew
  BY <1>1, <1>2 DEF SlotIsNew, Polls, RequestsInit
<1> QED BY <1>4, <1>5, <1>6 DEF RequestsInv

\* The slot is emptied, and those that poll it no longer have it to themselves.
LEMMA DropKeeps ==
  ASSUME RequestsInv, NEW c \in Client, NEW k \in SlotKind, Drop(c, k)
  PROVE  RequestsInv'
<1> DEFINE others == {o \in Client : Polls(o) /\ req[o].kind = k}
           fresh == [Fresh EXCEPT !.pc = "fire", !.kind = k,
                                  !.before = seen, !.alone = others = {}]
<1>1. /\ RequestShape /\ OnePlace /\ SlotIsNew /\ req[c].pc = "idle"
      /\ slot' = [slot EXCEPT ![k] = NoReply]
      /\ req' = [o \in Client |->
                  IF o = c THEN fresh
                  ELSE IF o \in others THEN [req[o] EXCEPT !.alone = FALSE]
                  ELSE req[o]]
      /\ UNCHANGED <<down, work, up, seen>>
  BY DEF Drop, RequestsInv
<1>2. /\ fresh \in Request /\ fresh.pc = "fire" /\ fresh.kind = k
      /\ fresh.before = seen /\ fresh.result = NoReply
  <2>1. k \in AnyKind /\ (others = {}) \in BOOLEAN /\ seen \subseteq Client
    BY <1>1 DEF AnyKind, Kinds, RequestShape
  <2> HIDE DEF others
  <2> QED BY <2>1 DEF Fresh, Request, Reply
<1>3. req'[c] = fresh
  BY <1>1
<1>4. ASSUME NEW o \in Client, o # c
      PROVE  /\ req'[o] \in Request
             /\ req'[o].pc = req[o].pc /\ req'[o].kind = req[o].kind
             /\ req'[o].before = req[o].before /\ req'[o].result = req[o].result
             /\ req'[o].alone => req[o].alone
             /\ req[o].pc = "poll" /\ req[o].kind = k => ~req'[o].alone
  <2>1. req[o] \in Request
    BY <1>1, HandlerFields
  <2>2. CASE o \in others
    <3>1. req'[o] = [req[o] EXCEPT !.alone = FALSE]
      BY <1>1, <1>4, <2>2
    <3> HIDE DEF others
    <3> QED BY <2>1, <3>1 DEF Request
  <2>3. CASE o \notin others
    <3>1. req'[o] = req[o]
      BY <1>1, <1>4, <2>3
    <3>2. req[o].pc = "poll" => req[o].kind # k
      BY <2>3, <1>1 DEF Polls, RequestShape
    <3> QED BY <2>1, <3>1, <3>2
  <2> QED BY <2>2, <2>3
<1> HIDE DEF fresh, others
<1>5. RequestShape'
  <2>1. req' \in [Client -> Request]
    <3>1. \A o \in Client : req'[o] \in Request
      BY <1>2, <1>3, <1>4
    <3>2. req' = [o \in Client |-> req'[o]]
      BY <1>1
    <3> QED BY <3>1, <3>2
  <2>2. slot' \in [SlotKind -> Reply]
    BY <1>1 DEF RequestShape, Reply
  <2>3. \A o \in Client : req'[o].pc \in {"fire", "poll"} => req'[o].kind \in SlotKind
    BY <1>1, <1>2, <1>3, <1>4 DEF RequestShape
  <2> QED BY <1>1, <2>1, <2>2, <2>3 DEF RequestShape
<1>6. \A f \in Frames : Awaited(f) => Awaited(f)'
  <2> TAKE f \in Frames
  <2>1. f.of \in Client
    BY DEF Frames
  <2> QED BY <1>1, <1>4, <2>1 DEF Awaited
<1>7. OnePlace'
  <2>1. (\A i \in 1 .. Len(down) : down[i] \in Frames)
        /\ (\A i \in 1 .. Len(up) : up[i] \in Frames)
    BY <1>1, ElementOfSeq DEF RequestShape
  <2>2. \A o \in seen : req'[o].pc \notin {"idle", "fire"}
    <3> TAKE o \in seen
    <3>1. o \in Client /\ o # c
      BY <1>1 DEF RequestShape, OnePlace
    <3> QED BY <1>1, <1>4, <3>1 DEF OnePlace
  <2>3. /\ \A i \in 1 .. Len(down) : Awaited(down[i])'
        /\ \A i \in 1 .. Len(up) : Awaited(up[i])'
        /\ \A f \in Frames : work[f] > 0 => Awaited(f)'
    BY <1>1, <1>6, <2>1 DEF OnePlace, Awaited
  <2> QED BY <1>1, <2>2, <2>3 DEF OnePlace, Awaited
<1>8. SlotIsNew'
  <2> SUFFICES ASSUME NEW o \in Client
               PROVE  /\ req'[o].before \subseteq seen
                      /\ req'[o].result # NoReply =>
                           req'[o].result \notin req'[o].before
                      /\ req'[o].pc \in {"fire", "poll"} /\ req'[o].kind \in SlotKind =>
                           slot'[req'[o].kind] = NoReply
                             \/ slot'[req'[o].kind] \notin req'[o].before
                      /\ req'[o].pc = "poll" /\ req'[o].alone /\ o \in seen =>
                           slot'[req'[o].kind] # NoReply
    BY <1>1 DEF SlotIsNew, Polls
  <2>1. slot \in [SlotKind -> Reply] /\ slot'[k] = NoReply
        /\ \A l \in SlotKind : l # k => slot'[l] = slot[l]
    BY <1>1 DEF RequestShape
  <2>2. CASE o = c
    BY <1>2, <1>3, <2>1, <2>2
  <2>3. CASE o # c
    <3>1. /\ req'[o].pc = req[o].pc /\ req'[o].kind = req[o].kind
          /\ req'[o].before = req[o].before /\ req'[o].result = req[o].result
          /\ req'[o].alone => req[o].alone
          /\ req[o].pc = "poll" /\ req[o].kind = k => ~req'[o].alone
      BY <1>4, <2>3
    <3>2. req[o].pc = "poll" => req[o].kind \in SlotKind
      BY <1>1 DEF RequestShape
    <3>3. /\ req[o].before \subseteq seen
          /\ req[o].result # NoReply => req[o].result \notin req[o].before
          /\ req[o].pc \in {"fire", "poll"} /\ req[o].kind \in SlotKind =>
               slot[req[o].kind] = NoReply \/ slot[req[o].kind] \notin req[o].before
          /\ req[o].pc = "poll" /\ req[o].alone /\ o \in seen =>
               slot[req[o].kind] # NoReply
      BY <1>1 DEF SlotIsNew, Polls
    <3> QED BY <2>1, <3>1, <3>2, <3>3
  <2> QED BY <2>2, <2>3
<1> QED BY <1>5, <1>7, <1>8 DEF RequestsInv

\* Where the elements of a longer and of a shorter queue come from.
LEMMA Appended ==
  ASSUME NEW S, NEW s \in Seq(S), NEW e \in S
  PROVE  /\ Append(s, e) \in Seq(S) /\ Len(s) \in Nat
         /\ Len(Append(s, e)) = Len(s) + 1
         /\ \A i \in 1 .. Len(s) : s[i] \in S
         /\ \A i \in 1 .. Len(Append(s, e)) :
              \/ i \in 1 .. Len(s) /\ Append(s, e)[i] = s[i]
              \/ i = Len(s) + 1 /\ Append(s, e)[i] = e
<1>1. Len(s) \in Nat /\ \A i \in 1 .. Len(s) : s[i] \in S
  BY LenProperties, ElementOfSeq
<1>2. /\ Append(s, e) \in Seq(S) /\ Len(Append(s, e)) = Len(s) + 1
      /\ \A i \in 1 .. Len(s) : Append(s, e)[i] = s[i]
      /\ Append(s, e)[Len(s) + 1] = e
  BY AppendProperties
<1>3. \A i \in 1 .. Len(s) + 1 : i \in 1 .. Len(s) \/ i = Len(s) + 1
  BY <1>1
<1> QED BY <1>1, <1>2, <1>3

LEMMA Shortened ==
  ASSUME NEW S, NEW s \in Seq(S), s # <<>>
  PROVE  /\ Tail(s) \in Seq(S) /\ Len(s) \in Nat /\ Head(s) \in S
         /\ 1 \in 1 .. Len(s) /\ Head(s) = s[1]
         /\ \A i \in 1 .. Len(s) : s[i] \in S
         /\ \A i \in 1 .. Len(Tail(s)) :
              i + 1 \in 1 .. Len(s) /\ i + 1 # 1 /\ Tail(s)[i] = s[i + 1]
<1>1. Len(s) \in Nat /\ \A i \in 1 .. Len(s) : s[i] \in S
  BY LenProperties, ElementOfSeq
<1>2. Len(s) # 0
  BY EmptySeq
<1>3. /\ Tail(s) \in Seq(S) /\ Len(Tail(s)) = Len(s) - 1 /\ Head(s) \in S
      /\ \A i \in 1 .. Len(Tail(s)) : Tail(s)[i] = s[i + 1]
  BY HeadTailProperties
<1>4. \A i \in 1 .. Len(s) - 1 : i + 1 \in 1 .. Len(s) /\ i + 1 # 1
  BY <1>1
<1>5. 1 \in 1 .. Len(s) /\ Head(s) = s[1]
  BY <1>1, <1>2
<1> QED BY <1>1, <1>3, <1>4, <1>5

\* The same after a step.
StillAwaited(f) ==
  /\ f.of \notin seen'
  /\ req'[f.of].pc \notin {"idle", "fire"} /\ req'[f.of].kind = f.kind

\* A request is sent that was nowhere yet.
LEMMA SendKeeps ==
  ASSUME RequestsInv, NEW c \in Client, NEW k \in Kinds,
         req[c].pc \in {"idle", "fire"}, Fire(c, k),
         req'[c].pc \in {"poll", "sleep"}, req'[c].kind = k,
         \A o \in Client \ {c} : req'[o] = req[o],
         UNCHANGED <<work, up, seen>>
  PROVE  down' \in Seq(Frames) /\ OnePlace'
<1> DEFINE new == [kind |-> k, of |-> c]
<1>1. RequestShape /\ OnePlace /\ c \notin seen
  BY DEF RequestsInv, OnePlace
<1>2. new \in Frames /\ new.kind = k /\ new.of = c
  BY DEF Frames
<1>3. /\ down \in Seq(Frames) /\ up \in Seq(Frames)
      /\ \A i \in 1 .. Len(up) : up[i] \in Frames
      /\ \A i \in 1 .. Len(down) : down[i] \in Frames
  BY <1>1, ElementOfSeq DEF RequestShape
<1>4. \A f \in Frames : f.of \in Client
  BY DEF Frames
<1>5. \A f \in Frames : Awaited(f) => f.of # c /\ StillAwaited(f)
  BY <1>1, <1>4 DEF Awaited, StillAwaited
<1>6. StillAwaited(new)
  BY <1>1, <1>2 DEF StillAwaited
<1>7. down' = down \/ down' = Append(down, new)
  BY DEF Fire
<1> HIDE DEF new
<1>8. /\ down' \in Seq(Frames) /\ Len(down) \in Nat
      /\ \A i \in 1 .. Len(down') :
           \/ i \in 1 .. Len(down) /\ down'[i] = down[i]
           \/ i = Len(down) + 1 /\ down'[i] = new
  <2>1. CASE down' = down
    <3>1. Len(down) \in Nat
      BY <1>3, LenProperties
    <3> QED BY <1>3, <2>1, <3>1
  <2>2. CASE down' = Append(down, new)
    <3> DEFINE longer == Append(down, new)
    <3>1. /\ longer \in Seq(Frames) /\ Len(down) \in Nat
          /\ \A i \in 1 .. Len(longer) :
               \/ i \in 1 .. Len(down) /\ longer[i] = down[i]
               \/ i = Len(down) + 1 /\ longer[i] = new
      BY <1>2, <1>3, Appended
    <3>2. down' = longer
      BY <2>2
    <3> HIDE DEF longer
    <3> QED BY <3>1, <3>2
  <2> QED BY <1>7, <2>1, <2>2
<1>9. /\ \A i \in 1 .. Len(down) : StillAwaited(down[i]) /\ down[i].of # c
      /\ \A i \in 1 .. Len(up) : StillAwaited(up[i]) /\ up[i].of # c
      /\ \A f \in Frames : work[f] > 0 => StillAwaited(f) /\ f.of # c
  BY <1>1, <1>3, <1>5 DEF OnePlace
<1>10. \A i \in 1 .. Len(down') : StillAwaited(down'[i])
  BY <1>6, <1>8, <1>9
<1>11. \A i, j \in 1 .. Len(down') : down'[i].of = down'[j].of => i = j
  <2> SUFFICES ASSUME NEW i \in 1 .. Len(down'), NEW j \in 1 .. Len(down'),
                      down'[i].of = down'[j].of
               PROVE  i = j
    OBVIOUS
  <2>1. CASE i \in 1 .. Len(down) /\ j \in 1 .. Len(down)
    <3>1. down'[i] = down[i] /\ down'[j] = down[j]
      BY <1>8, <2>1
    <3> QED BY <1>1, <2>1, <3>1 DEF OnePlace
  <2>2. CASE i \notin 1 .. Len(down) /\ j \notin 1 .. Len(down)
    BY <1>8, <2>2
  <2>3. CASE i \in 1 .. Len(down) /\ j \notin 1 .. Len(down)
    BY <1>2, <1>8, <1>9, <2>3
  <2>4. CASE i \notin 1 .. Len(down) /\ j \in 1 .. Len(down)
    BY <1>2, <1>8, <1>9, <2>4
  <2> QED BY <2>1, <2>2, <2>3, <2>4
<1>12. /\ \A i \in 1 .. Len(down'), j \in 1 .. Len(up) : down'[i].of # up[j].of
       /\ \A f \in Frames : work[f] > 0 =>
            \A i \in 1 .. Len(down') : down'[i].of # f.of
  <2>1. \A i \in 1 .. Len(down') :
          down'[i].of = c \/ (i \in 1 .. Len(down) /\ down'[i] = down[i])
    BY <1>2, <1>8
  <2>2. \A i \in 1 .. Len(down'), j \in 1 .. Len(up) : down'[i].of # up[j].of
    BY <1>1, <1>9, <2>1 DEF OnePlace
  <2>3. \A f \in Frames : work[f] > 0 =>
          \A i \in 1 .. Len(down') : down'[i].of # f.of
    BY <1>1, <1>9, <2>1 DEF OnePlace
  <2> QED BY <2>2, <2>3
<1>13. \A o \in seen : req'[o].pc \notin {"idle", "fire"}
  BY <1>1 DEF OnePlace, RequestShape
<1>14. up' = up /\ work' = work /\ seen' = seen
  OBVIOUS
<1>15. OnePlace'
  <2>1. \A i \in 1 .. Len(up) : StillAwaited(up[i])
    BY <1>9
  <2>2. \A f \in Frames : work[f] > 0 => StillAwaited(f)
    BY <1>9
  <2> QED BY <1>1, <1>10, <1>11, <1>12, <1>13, <1>14, <2>1, <2>2
          DEF OnePlace, Awaited, StillAwaited
<1> QED BY <1>8, <1>15

LEMMA AskKeeps ==
  ASSUME RequestsInv, NEW c \in Client, Ask(c) PROVE RequestsInv'
<1>1. /\ RequestShape /\ OnePlace /\ SlotIsNew /\ req[c].pc = "fire"
      /\ Fire(c, req[c].kind) /\ req' = [req EXCEPT ![c].pc = "poll"]
      /\ UNCHANGED <<slot, work, up, seen>>
  BY DEF Ask, RequestsInv
<1>2. req[c].kind \in SlotKind /\ req[c].kind \in Kinds /\ c \notin seen
  BY <1>1 DEF RequestShape, Kinds, OnePlace
<1>3. /\ req' \in [Client -> Request] /\ req'[c].pc = "poll"
      /\ req'[c].kind = req[c].kind /\ req'[c].before = req[c].before
      /\ req'[c].result = req[c].result /\ req'[c].alone = req[c].alone
      /\ \A o \in Client \ {c} : req'[o] = req[o]
  BY <1>1 DEF RequestShape, Request
<1>4. down' \in Seq(Frames) /\ OnePlace'
  BY <1>1, <1>2, <1>3, SendKeeps
<1>5. RequestShape'
  BY <1>1, <1>2, <1>3, <1>4 DEF RequestShape
<1>6. SlotIsNew'
  <2> SUFFICES ASSUME NEW o \in Client
               PROVE  /\ req'[o].before \subseteq seen
                      /\ req'[o].result # NoReply =>
                           req'[o].result \notin req'[o].before
                      /\ req'[o].pc \in {"fire", "poll"} /\ req'[o].kind \in SlotKind =>
                           slot[req'[o].kind] = NoReply
                             \/ slot[req'[o].kind] \notin req'[o].before
                      /\ req'[o].pc = "poll" /\ req'[o].alone /\ o \in seen =>
                           slot[req'[o].kind] # NoReply
    BY <1>1 DEF SlotIsNew, Polls
  <2>1. CASE o = c
    BY <1>1, <1>2, <1>3, <2>1 DEF SlotIsNew, Polls
  <2>2. CASE o # c
    BY <1>1, <1>3, <2>2 DEF SlotIsNew, Polls
  <2> QED BY <2>1, <2>2
<1> QED BY <1>4, <1>5, <1>6 DEF RequestsInv

LEMMA AskListKeeps ==
  ASSUME RequestsInv, NEW c \in Client, NEW k \in ListKind, AskList(c, k)
  PROVE  RequestsInv'
<1>1. /\ RequestShape /\ OnePlace /\ SlotIsNew /\ req[c].pc = "idle"
      /\ Fire(c, k) /\ req' = [req EXCEPT ![c].pc = "sleep", ![c].kind = k]
      /\ UNCHANGED <<slot, work, up, seen>>
  BY DEF AskList, RequestsInv
<1>2. k \in Kinds /\ k \in AnyKind
  BY DEF Kinds, AnyKind
<1>3. /\ req' \in [Client -> Request] /\ req'[c].pc = "sleep"
      /\ req'[c].kind = k /\ req'[c].before = req[c].before
      /\ req'[c].result = req[c].result
      /\ \A o \in Client \ {c} : req'[o] = req[o]
  <2>1. req \in [Client -> Request]
    BY <1>1 DEF RequestShape
  <2>2. req' = [req EXCEPT ![c] = [req[c] EXCEPT !.pc = "sleep", !.kind = k]]
    BY <1>1, <2>1
  <2>3. [req[c] EXCEPT !.pc = "sleep", !.kind = k] \in Request
    <3>1. req[c] \in Request
      BY <2>1
    <3> QED BY <1>2, <3>1 DEF Request
  <2>4. req'[c] = [req[c] EXCEPT !.pc = "sleep", !.kind = k]
    BY <2>1, <2>2
  <2>5. req[c] \in Request
    BY <2>1
  <2>6. /\ req'[c].pc = "sleep" /\ req'[c].kind = k
        /\ req'[c].before = req[c].before /\ req'[c].result = req[c].result
    BY <2>4, <2>5 DEF Request
  <2> QED BY <2>1, <2>2, <2>3, <2>6
<1>4. down' \in Seq(Frames) /\ OnePlace'
  BY <1>1, <1>2, <1>3, SendKeeps
<1>5. RequestShape'
  BY <1>1, <1>3, <1>4 DEF RequestShape
<1>6. SlotIsNew'
  <2> SUFFICES ASSUME NEW o \in Client
               PROVE  /\ req'[o].before \subseteq seen
                      /\ req'[o].result # NoReply =>
                           req'[o].result \notin req'[o].before
                      /\ req'[o].pc \in {"fire", "poll"} /\ req'[o].kind \in SlotKind =>
                           slot[req'[o].kind] = NoReply
                             \/ slot[req'[o].kind] \notin req'[o].before
                      /\ req'[o].pc = "poll" /\ req'[o].alone /\ o \in seen =>
                           slot[req'[o].kind] # NoReply
    BY <1>1 DEF SlotIsNew, Polls
  <2>1. CASE o = c
    BY <1>1, <1>3, <2>1 DEF SlotIsNew
  <2>2. CASE o # c
    BY <1>1, <1>3, <2>2 DEF SlotIsNew, Polls
  <2> QED BY <2>1, <2>2
<1> QED BY <1>4, <1>5, <1>6 DEF RequestsInv

\* A step of a handler that waits.
LEMMA WaitKeeps ==
  ASSUME RequestsInv, NEW c \in Client, NEW h \in Request,
         req' = [req EXCEPT ![c] = h], req[c].pc \in {"poll", "sleep"},
         h.kind = req[c].kind, h.before = req[c].before,
         h.pc \in {"poll", "answered", "timedout"},
         h.pc = "poll" => req[c].pc = "poll" /\ h.alone = req[c].alone,
         h.result # NoReply => h.result \notin h.before,
         UNCHANGED <<slot, down, work, up, seen>>
  PROVE  RequestsInv'
<1>1. RequestShape /\ OnePlace /\ SlotIsNew
  BY DEF RequestsInv
<1>2. /\ req' \in [Client -> Request] /\ req'[c] = h
      /\ \A o \in Client \ {c} : req'[o] = req[o]
  BY <1>1 DEF RequestShape
<1>3. RequestShape'
  BY <1>1, <1>2 DEF RequestShape
<1>4. \A f \in Frames : Awaited(f) => StillAwaited(f)
  <2> TAKE f \in Frames
  <2>1. f.of \in Client
    BY DEF Frames
  <2> QED BY <1>2, <2>1 DEF Awaited, StillAwaited
<1>5. (\A i \in 1 .. Len(down) : down[i] \in Frames)
      /\ (\A i \in 1 .. Len(up) : up[i] \in Frames)
  BY <1>1, ElementOfSeq DEF RequestShape
<1>6. OnePlace'
  <2>1. /\ \A i \in 1 .. Len(down) : StillAwaited(down[i])
        /\ \A i \in 1 .. Len(up) : StillAwaited(up[i])
        /\ \A f \in Frames : work[f] > 0 => StillAwaited(f)
    BY <1>1, <1>4, <1>5 DEF OnePlace
  <2>2. \A o \in seen : req'[o].pc \notin {"idle", "fire"}
    BY <1>1, <1>2 DEF OnePlace, RequestShape
  <2> QED BY <1>1, <2>1, <2>2 DEF OnePlace, Awaited, StillAwaited
<1>7. SlotIsNew'
  <2> SUFFICES ASSUME NEW o \in Client
               PROVE  /\ req'[o].before \subseteq seen
                      /\ req'[o].result # NoReply =>
                           req'[o].result \notin req'[o].before
                      /\ req'[o].pc \in {"fire", "poll"} /\ req'[o].kind \in SlotKind =>
                           slot[req'[o].kind] = NoReply
                             \/ slot[req'[o].kind] \notin req'[o].before
                      /\ req'[o].pc = "poll" /\ req'[o].alone /\ o \in seen =>
                           slot[req'[o].kind] # NoReply
    BY DEF SlotIsNew, Polls
  <2>1. CASE o = c
    BY <1>1, <1>2, <2>1 DEF SlotIsNew, Polls
  <2>2. CASE o # c
    BY <1>1, <1>2, <2>2 DEF SlotIsNew, Polls
  <2> QED BY <2>1, <2>2
<1> QED BY <1>3, <1>6, <1>7 DEF RequestsInv

LEMMA PollKeeps ==
  ASSUME RequestsInv, NEW c \in Client, Poll(c) PROVE RequestsInv'
<1> DEFINE found == slot[req[c].kind]
           last  == req[c].polls + 1 = MaxPoll
           h == [req[c] EXCEPT
                   !.polls = @ + 1, !.result = found,
                   !.pc = IF found # NoReply THEN "answered"
                          ELSE IF last THEN "timedout" ELSE @]
<1>1. /\ RequestShape /\ SlotIsNew /\ req[c].pc = "poll"
      /\ req[c] \in Request /\ req[c].polls \in Nat
  BY HandlerFields DEF Poll, RequestsInv
<1>2. req[c].kind \in SlotKind /\ found \in Reply
  BY <1>1 DEF RequestShape
<1>3. req' = [req EXCEPT ![c] = h] /\ UNCHANGED <<slot, down, work, up, seen>>
  BY <1>1 DEF Poll, RequestShape
<1>4. found # NoReply => found \notin req[c].before
  BY <1>1, <1>2 DEF SlotIsNew, Polls
<1>5. /\ h \in Request /\ h.kind = req[c].kind /\ h.before = req[c].before
      /\ h.pc \in {"poll", "answered", "timedout"} /\ h.alone = req[c].alone
      /\ h.result = found
  <2> DEFINE n == req[c].polls + 1
             next == IF found # NoReply THEN "answered"
                     ELSE IF last THEN "timedout" ELSE "poll"
  <2>1. n \in Nat
    BY <1>1
  <2>2. next \in {"poll", "answered", "timedout"}
    OBVIOUS
  <2>3. h = [req[c] EXCEPT !.polls = n, !.result = found, !.pc = next]
    BY <1>1 DEF Request
  <2> HIDE DEF h, n, next, found, last
  <2> QED BY <1>1, <1>2, <2>1, <2>2, <2>3 DEF Request
<1> HIDE DEF h
<1> QED BY <1>1, <1>3, <1>4, <1>5, WaitKeeps

LEMMA ReadListKeeps ==
  ASSUME RequestsInv, NEW c \in Client, ReadList(c) PROVE RequestsInv'
<1> DEFINE h == [req[c] EXCEPT !.pc = "answered"]
<1>1. /\ RequestShape /\ SlotIsNew /\ req[c].pc = "sleep" /\ req[c] \in Request
  BY HandlerFields DEF ReadList, RequestsInv
<1>2. req' = [req EXCEPT ![c] = h] /\ UNCHANGED <<slot, down, work, up, seen>>
  BY <1>1 DEF ReadList, RequestShape
<1>3. /\ h \in Request /\ h.kind = req[c].kind /\ h.before = req[c].before
      /\ h.pc = "answered" /\ h.result = req[c].result
  BY <1>1 DEF Request
<1>4. h.result # NoReply => h.result \notin h.before
  BY <1>1, <1>3 DEF SlotIsNew
<1> HIDE DEF h
<1> QED BY <1>1, <1>2, <1>3, <1>4, WaitKeeps

\* A reply is recorded: the request was awaited, so that it is news to all.
LEMMA RecordKeeps == RequestsInv /\ Record => RequestsInv'
<1> SUFFICES ASSUME RequestsInv, Record PROVE RequestsInv'
  OBVIOUS
<1> DEFINE f == Head(up)
<1>1. /\ RequestShape /\ OnePlace /\ SlotIsNew /\ up # <<>> /\ up' = Tail(up)
      /\ slot' = IF f.kind \in SlotKind THEN [slot EXCEPT ![f.kind] = f.of]
                 ELSE slot
      /\ seen' = seen \cup {f.of}
      /\ UNCHANGED <<req, down, work>>
  BY DEF Record, RequestsInv
<1>2. /\ Tail(up) \in Seq(Frames) /\ f \in Frames
      /\ 1 \in 1 .. Len(up) /\ f = up[1]
      /\ \A i \in 1 .. Len(up) : up[i] \in Frames
      /\ \A i \in 1 .. Len(Tail(up)) :
           i + 1 \in 1 .. Len(up) /\ i + 1 # 1 /\ Tail(up)[i] = up[i + 1]
  BY <1>1, Shortened DEF RequestShape
<1>3. f.of \in Client /\ Awaited(f)
  BY <1>1, <1>2 DEF OnePlace, Frames
<1> HIDE DEF f
<1>4. RequestShape'
  <2>1. slot' \in [SlotKind -> Reply]
    BY <1>1, <1>3 DEF RequestShape, Reply
  <2>2. seen' \subseteq Client
    BY <1>1, <1>3 DEF RequestShape
  <2> QED BY <1>1, <1>2, <2>1, <2>2 DEF RequestShape
<1>5. OnePlace'
  <2>1. /\ \A i \in 1 .. Len(down) : down[i].of # f.of
        /\ \A i \in 1 .. Len(Tail(up)) : Tail(up)[i].of # f.of
        /\ \A g \in Frames : work[g] > 0 => g.of # f.of
    BY <1>1, <1>2 DEF OnePlace
  <2>2. /\ \A i \in 1 .. Len(down) : Awaited(down[i])
        /\ \A i \in 1 .. Len(Tail(up)) : Awaited(Tail(up)[i])
        /\ \A g \in Frames : work[g] > 0 => Awaited(g)
    BY <1>1, <1>2 DEF OnePlace
  <2>3. /\ \A i \in 1 .. Len(down) : StillAwaited(down[i])
        /\ \A i \in 1 .. Len(Tail(up)) : StillAwaited(Tail(up)[i])
        /\ \A g \in Frames : work[g] > 0 => StillAwaited(g)
    BY <1>1, <2>1, <2>2 DEF Awaited, StillAwaited
  <2>4. \A i, j \in 1 .. Len(Tail(up)) : Tail(up)[i].of = Tail(up)[j].of => i = j
    <3> SUFFICES ASSUME NEW i \in 1 .. Len(Tail(up)), NEW j \in 1 .. Len(Tail(up)),
                        Tail(up)[i].of = Tail(up)[j].of
                 PROVE  i = j
      OBVIOUS
    <3>1. i + 1 = j + 1
      BY <1>1, <1>2 DEF OnePlace
    <3>2. i \in Int /\ j \in Int
      OBVIOUS
    <3> QED BY <3>1, <3>2
  <2>5. /\ \A i \in 1 .. Len(down), j \in 1 .. Len(Tail(up)) :
             down[i].of # Tail(up)[j].of
        /\ \A g \in Frames : work[g] > 0 =>
             \A i \in 1 .. Len(Tail(up)) : Tail(up)[i].of # g.of
    BY <1>1, <1>2 DEF OnePlace
  <2>6. \A o \in seen' : req[o].pc \notin {"idle", "fire"}
    BY <1>1, <1>3 DEF OnePlace, Awaited
  <2>7. up' = Tail(up) /\ down' = down /\ work' = work /\ req' = req
    BY <1>1
  <2> QED BY <1>1, <2>3, <2>4, <2>5, <2>6, <2>7 DEF OnePlace, Awaited, StillAwaited
<1>6. SlotIsNew'
  <2> SUFFICES ASSUME NEW o \in Client
               PROVE  /\ req[o].before \subseteq seen'
                      /\ req[o].result # NoReply => req[o].result \notin req[o].before
                      /\ req[o].pc \in {"fire", "poll"} /\ req[o].kind \in SlotKind =>
                           slot'[req[o].kind] = NoReply
                             \/ slot'[req[o].kind] \notin req[o].before
                      /\ req[o].pc = "poll" /\ req[o].alone /\ o \in seen' =>
                           slot'[req[o].kind] # NoReply
    BY <1>1 DEF SlotIsNew, Polls
  <2>1. /\ req[o].before \subseteq seen
        /\ req[o].result # NoReply => req[o].result \notin req[o].before
        /\ req[o].pc \in {"fire", "poll"} /\ req[o].kind \in SlotKind =>
             slot[req[o].kind] = NoReply \/ slot[req[o].kind] \notin req[o].before
        /\ req[o].pc = "poll" /\ req[o].alone /\ o \in seen =>
             slot[req[o].kind] # NoReply
        /\ req[o].pc = "poll" => req[o].kind \in SlotKind
    BY <1>1 DEF SlotIsNew, Polls, RequestShape
  <2>2. f.of \notin req[o].before /\ f.of # NoReply
    BY <1>3, <2>1, RequestsAssumption DEF Awaited
  <2>3. \A k \in SlotKind : slot'[k] = IF k = f.kind THEN f.of ELSE slot[k]
    BY <1>1 DEF RequestShape
  <2>4. o = f.of => req[o].kind = f.kind
    BY <1>3 DEF Awaited
  <2> QED BY <1>1, <2>1, <2>2, <2>3, <2>4
<1> QED BY <1>4, <1>5, <1>6 DEF RequestsInv

\* The phone takes a command: what was on its way down is with its telephony,
\* or on its way up.
LEMMA HandleKeeps == RequestsInv /\ Handle => RequestsInv'
<1> SUFFICES ASSUME RequestsInv, Handle PROVE RequestsInv'
  OBVIOUS
<1> DEFINE f == Head(down)
<1>1. /\ RequestShape /\ OnePlace /\ SlotIsNew /\ down # <<>>
      /\ down' = Tail(down)
      /\ IF f.kind \in ListKind
           THEN up' = Append(up, f) /\ UNCHANGED work
           ELSE work' = [work EXCEPT ![f] = Codes[f.kind]] /\ UNCHANGED up
      /\ UNCHANGED <<slot, req, seen>>
  BY DEF Handle, RequestsInv
<1>2. /\ Tail(down) \in Seq(Frames) /\ f \in Frames
      /\ 1 \in 1 .. Len(down) /\ f = down[1]
      /\ \A i \in 1 .. Len(down) : down[i] \in Frames
      /\ \A i \in 1 .. Len(Tail(down)) :
           i + 1 \in 1 .. Len(down) /\ i + 1 # 1 /\ Tail(down)[i] = down[i + 1]
  BY <1>1, Shortened DEF RequestShape
<1>3. Awaited(f) /\ f.kind \in Kinds
  BY <1>1, <1>2 DEF OnePlace, Frames
<1>4. /\ up \in Seq(Frames) /\ work \in [Frames -> Nat]
      /\ \A i \in 1 .. Len(up) : up[i] \in Frames
  BY <1>1, ElementOfSeq DEF RequestShape
<1> HIDE DEF f
<1>5. /\ \A i \in 1 .. Len(Tail(down)) : Awaited(Tail(down)[i])
      /\ \A i, j \in 1 .. Len(Tail(down)) :
           Tail(down)[i].of = Tail(down)[j].of => i = j
      /\ \A i \in 1 .. Len(Tail(down)), j \in 1 .. Len(up) :
           Tail(down)[i].of # up[j].of
      /\ \A g \in Frames : work[g] > 0 =>
           \A i \in 1 .. Len(Tail(down)) : Tail(down)[i].of # g.of
      /\ \A i \in 1 .. Len(Tail(down)) : Tail(down)[i].of # f.of
      /\ \A i \in 1 .. Len(up) : up[i].of # f.of
      /\ \A g \in Frames : work[g] > 0 => g.of # f.of
  <2>1. \A i, j \in 1 .. Len(Tail(down)) :
          Tail(down)[i].of = Tail(down)[j].of => i = j
    <3> SUFFICES ASSUME NEW i \in 1 .. Len(Tail(down)),
                        NEW j \in 1 .. Len(Tail(down)),
                        Tail(down)[i].of = Tail(down)[j].of
                 PROVE  i = j
      OBVIOUS
    <3>1. i + 1 = j + 1
      BY <1>1, <1>2 DEF OnePlace
    <3>2. i \in Int /\ j \in Int
      OBVIOUS
    <3> QED BY <3>1, <3>2
  <2>2. /\ \A i \in 1 .. Len(Tail(down)) : Awaited(Tail(down)[i])
        /\ \A i \in 1 .. Len(Tail(down)), j \in 1 .. Len(up) :
             Tail(down)[i].of # up[j].of
    BY <1>1, <1>2 DEF OnePlace
  <2>3. \A g \in Frames : work[g] > 0 =>
          \A i \in 1 .. Len(Tail(down)) : Tail(down)[i].of # g.of
    BY <1>1, <1>2 DEF OnePlace
  <2>4. \A i \in 1 .. Len(Tail(down)) : Tail(down)[i].of # f.of
    BY <1>1, <1>2 DEF OnePlace
  <2>5. /\ \A i \in 1 .. Len(up) : up[i].of # f.of
        /\ \A g \in Frames : work[g] > 0 => g.of # f.of
    BY <1>1, <1>2 DEF OnePlace
  <2> QED BY <2>1, <2>2, <2>3, <2>4, <2>5
<1>6. /\ up' \in Seq(Frames) /\ work' \in [Frames -> Nat]
      /\ \A i \in 1 .. Len(up') :
           \/ i \in 1 .. Len(up) /\ up'[i] = up[i]
           \/ i = Len(up) + 1 /\ up'[i] = f /\ work' = work
      /\ \A g \in Frames : work'[g] > 0 =>
           work[g] > 0 \/ (g = f /\ up' = up)
      /\ Len(up) \in Nat
  <2>1. CASE f.kind \in ListKind
    <3> DEFINE longer == Append(up, f)
    <3>1. up' = longer /\ work' = work
      BY <1>1, <2>1
    <3>2. /\ longer \in Seq(Frames) /\ Len(up) \in Nat
          /\ \A i \in 1 .. Len(longer) :
               \/ i \in 1 .. Len(up) /\ longer[i] = up[i]
               \/ i = Len(up) + 1 /\ longer[i] = f
      BY <1>2, <1>4, Appended
    <3> HIDE DEF longer
    <3>3. \A i \in 1 .. Len(up') :
            \/ i \in 1 .. Len(up) /\ up'[i] = up[i]
            \/ i = Len(up) + 1 /\ up'[i] = f /\ work' = work
      BY <3>1, <3>2
    <3>4. work' \in [Frames -> Nat] /\ \A g \in Frames : work'[g] > 0 => work[g] > 0
      BY <1>4, <3>1
    <3>5. \A g \in Frames : work'[g] > 0 => work[g] > 0 \/ (g = f /\ up' = up)
      BY <3>4, Zenon
    <3>6. up' \in Seq(Frames) /\ Len(up) \in Nat
      BY <3>1, <3>2
    <3> QED BY <3>3, <3>4, <3>5, <3>6, Zenon
  <2>2. CASE f.kind \notin ListKind
    <3>1. Codes[f.kind] \in Nat
      BY <1>3, <2>2, RequestsAssumption DEF Kinds
    <3>2. Len(up) \in Nat
      BY <1>4, LenProperties
    <3> QED BY <1>1, <1>2, <1>4, <2>2, <3>1, <3>2
  <2> QED BY <2>1, <2>2
<1>7. OnePlace'
  <2>1. \A i \in 1 .. Len(up') : Awaited(up'[i])
    BY <1>1, <1>3, <1>6 DEF OnePlace
  <2>2. \A g \in Frames : work'[g] > 0 => Awaited(g)
    BY <1>1, <1>3, <1>6 DEF OnePlace
  <2>3. \A i, j \in 1 .. Len(up') : up'[i].of = up'[j].of => i = j
    <3> SUFFICES ASSUME NEW i \in 1 .. Len(up'), NEW j \in 1 .. Len(up'),
                        up'[i].of = up'[j].of
                 PROVE  i = j
      OBVIOUS
    <3> QED BY <1>1, <1>5, <1>6 DEF OnePlace
  <2>4. \A i \in 1 .. Len(Tail(down)), j \in 1 .. Len(up') :
          Tail(down)[i].of # up'[j].of
    BY <1>5, <1>6
  <2>5. \A g \in Frames : work'[g] > 0 =>
          /\ \A i \in 1 .. Len(Tail(down)) : Tail(down)[i].of # g.of
          /\ \A i \in 1 .. Len(up') : up'[i].of # g.of
    BY <1>1, <1>5, <1>6 DEF OnePlace
  <2>6. down' = Tail(down) /\ req' = req /\ seen' = seen
    BY <1>1
  <2> DEFINE shorter == Tail(down)
  <2>7. /\ \A i \in 1 .. Len(shorter) : Awaited(shorter[i])
        /\ \A i, j \in 1 .. Len(shorter) : shorter[i].of = shorter[j].of => i = j
        /\ \A i \in 1 .. Len(shorter), j \in 1 .. Len(up') :
             shorter[i].of # up'[j].of
        /\ \A g \in Frames : work'[g] > 0 =>
             /\ \A i \in 1 .. Len(shorter) : shorter[i].of # g.of
             /\ \A i \in 1 .. Len(up') : up'[i].of # g.of
    BY <1>5, <2>4, <2>5
  <2>8. down' = shorter
    BY <2>6
  <2> HIDE DEF shorter
  <2>9. \A o \in seen' : req'[o].pc \notin {"idle", "fire"}
    BY <1>1, <2>6 DEF OnePlace
  <2>10. /\ \A i \in 1 .. Len(down') : Awaited(down'[i])
         /\ \A i, j \in 1 .. Len(down') : down'[i].of = down'[j].of => i = j
         /\ \A i \in 1 .. Len(down'), j \in 1 .. Len(up') :
              down'[i].of # up'[j].of
         /\ \A g \in Frames : work'[g] > 0 =>
              /\ \A i \in 1 .. Len(down') : down'[i].of # g.of
              /\ \A i \in 1 .. Len(up') : up'[i].of # g.of
    BY <2>7, <2>8
  <2>11. /\ \A i \in 1 .. Len(down') : StillAwaited(down'[i])
         /\ \A i \in 1 .. Len(up') : StillAwaited(up'[i])
         /\ \A g \in Frames : work'[g] > 0 => StillAwaited(g)
    BY <2>1, <2>2, <2>6, <2>10 DEF Awaited, StillAwaited
  <2> QED BY <2>3, <2>9, <2>10, <2>11 DEF OnePlace, Awaited, StillAwaited
<1>8. RequestShape' /\ SlotIsNew'
  BY <1>1, <1>2, <1>6 DEF RequestShape, SlotIsNew, Polls
<1> QED BY <1>7, <1>8 DEF RequestsInv

\* The network answers a code; after the last one the frame is on its way up.
LEMMA NetworkKeeps ==
  ASSUME RequestsInv, NEW f \in Frames, NetworkAnswers(f) PROVE RequestsInv'
<1>1. /\ RequestShape /\ OnePlace /\ SlotIsNew /\ work[f] > 0
      /\ work' = [work EXCEPT ![f] = work[f] - 1]
      /\ up' = IF work[f] = 1 THEN Append(up, f) ELSE up
      /\ UNCHANGED <<slot, req, down, seen>>
  BY DEF NetworkAnswers, RequestsInv, RequestShape
<1>2. /\ up \in Seq(Frames) /\ work \in [Frames -> Nat] /\ work[f] \in Nat
      /\ \A i \in 1 .. Len(up) : up[i] \in Frames
  BY <1>1, ElementOfSeq DEF RequestShape
<1>3. /\ Awaited(f)
      /\ \A i \in 1 .. Len(down) : down[i].of # f.of
      /\ \A i \in 1 .. Len(up) : up[i].of # f.of
      /\ \A g \in Frames : work[g] > 0 /\ g # f => g.of # f.of
  <2>1. \A g \in Frames : work[g] > 0 /\ g.of = f.of => g = f
    BY <1>1 DEF OnePlace, Awaited, Frames
  <2> QED BY <1>1, <2>1 DEF OnePlace
<1>4. /\ work' \in [Frames -> Nat] /\ work'[f] = work[f] - 1
      /\ \A g \in Frames : work'[g] > 0 => work[g] > 0
  BY <1>1, <1>2
<1>5. /\ up' \in Seq(Frames) /\ Len(up) \in Nat
      /\ \A i \in 1 .. Len(up') :
           \/ i \in 1 .. Len(up) /\ up'[i] = up[i]
           \/ i = Len(up) + 1 /\ up'[i] = f /\ work'[f] = 0
  <2>1. CASE work[f] = 1
    BY <1>1, <1>2, <1>4, <2>1, Appended
  <2>2. CASE work[f] # 1
    <3>1. Len(up) \in Nat
      BY <1>2, LenProperties
    <3> QED BY <1>1, <1>2, <2>2, <3>1
  <2> QED BY <2>1, <2>2
<1>6. OnePlace'
  <2>1. \A i \in 1 .. Len(up') : Awaited(up'[i])
    BY <1>1, <1>3, <1>5 DEF OnePlace
  <2>2. \A g \in Frames : work'[g] > 0 => Awaited(g)
    BY <1>1, <1>4 DEF OnePlace
  <2>3. \A i, j \in 1 .. Len(up') : up'[i].of = up'[j].of => i = j
    <3> SUFFICES ASSUME NEW i \in 1 .. Len(up'), NEW j \in 1 .. Len(up'),
                        up'[i].of = up'[j].of
                 PROVE  i = j
      OBVIOUS
    <3> QED BY <1>1, <1>3, <1>5 DEF OnePlace
  <2>4. \A i \in 1 .. Len(down), j \in 1 .. Len(up') : down[i].of # up'[j].of
    BY <1>1, <1>3, <1>5 DEF OnePlace
  <2>5. \A g \in Frames : work'[g] > 0 =>
          /\ \A i \in 1 .. Len(down) : down[i].of # g.of
          /\ \A i \in 1 .. Len(up') : up'[i].of # g.of
    <3> SUFFICES ASSUME NEW g \in Frames, work'[g] > 0
                 PROVE  /\ \A i \in 1 .. Len(down) : down[i].of # g.of
                        /\ \A i \in 1 .. Len(up') : up'[i].of # g.of
      OBVIOUS
    <3>1. work[g] > 0
      BY <1>4
    <3>2. work'[f] = 0 => g # f
      OBVIOUS
    <3> QED BY <1>1, <1>3, <1>5, <3>1, <3>2 DEF OnePlace
  <2>6. down' = down /\ req' = req /\ seen' = seen
    BY <1>1
  <2> QED BY <1>1, <2>1, <2>2, <2>3, <2>4, <2>5, <2>6 DEF OnePlace, Awaited
<1>7. RequestShape' /\ SlotIsNew'
  BY <1>1, <1>4, <1>5 DEF RequestShape, SlotIsNew, Polls
<1> QED BY <1>6, <1>7 DEF RequestsInv

\* What the connection carried is gone.
LEMMA BreakKeeps == RequestsInv /\ Break => RequestsInv'
<1> SUFFICES ASSUME RequestsInv, Break PROVE RequestsInv'
  OBVIOUS
<1>1. /\ RequestShape /\ OnePlace /\ SlotIsNew
      /\ down' = <<>> /\ up' = <<>> /\ work' = [f \in Frames |-> 0]
      /\ UNCHANGED <<slot, req, seen>>
  BY DEF Break, RequestsInv
<1>2. <<>> \in Seq(Frames) /\ Len(<<>>) = 0
  BY EmptySeq
<1>3. RequestShape' /\ SlotIsNew'
  BY <1>1, <1>2 DEF RequestShape, SlotIsNew, Polls
<1>4. /\ \A i \in 1 .. Len(down') : FALSE
      /\ \A i \in 1 .. Len(up') : FALSE
      /\ \A f \in Frames : ~(work'[f] > 0)
  BY <1>1, <1>2
<1>5. OnePlace'
  BY <1>1, <1>4 DEF OnePlace
<1> QED BY <1>3, <1>5 DEF RequestsInv

LEMMA RequestsStep == RequestsInv /\ [RequestsNext]_requestsVars => RequestsInv'
<1> SUFFICES ASSUME RequestsInv, [RequestsNext]_requestsVars PROVE RequestsInv'
  OBVIOUS
<1>1. ASSUME NEW c \in Client, NEW k \in SlotKind, Drop(c, k) PROVE RequestsInv'
  BY <1>1, DropKeeps
<1>2. ASSUME NEW c \in Client, NEW k \in ListKind, AskList(c, k) PROVE RequestsInv'
  BY <1>2, AskListKeeps
<1>3. ASSUME NEW c \in Client, HandlerStep(c) PROVE RequestsInv'
  BY <1>3, AskKeeps, PollKeeps, ReadListKeeps DEF HandlerStep
<1>4. CASE Reconnect \/ UNCHANGED requestsVars
  <2>1. UNCHANGED <<slot, req, down, up, work, seen>>
    BY <1>4 DEF Reconnect, requestsVars
  <2>2. RequestShape'
    BY <2>1 DEF RequestsInv, RequestShape
  <2>3. OnePlace'
    BY <2>1 DEF RequestsInv, OnePlace, Awaited
  <2>4. SlotIsNew'
    BY <2>1 DEF RequestsInv, SlotIsNew, Polls
  <2> QED BY <2>2, <2>3, <2>4 DEF RequestsInv
<1> QED BY <1>1, <1>2, <1>3, <1>4, RecordKeeps, HandleKeeps, BreakKeeps,
           NetworkKeeps DEF RequestsNext

\* What a request answers with arrived after it began (`remove` at the start
\* of ControlOp::Mmi and ControlOp::VoicemailSet).
THEOREM AnswersAreNew == RequestsSpec => []AnswerIsNew
<1>1. RequestsInv => AnswerIsNew
  BY DEF RequestsInv, SlotIsNew, AnswerIsNew
<1> QED BY RequestsStart, RequestsStep, <1>1, PTL DEF RequestsSpec

\* Only a poll gives up, one that found the slot empty; to a request that had
\* the slot to itself that means that no reply was recorded.
THEOREM GivesUpRightly == RequestsSpec => GivesUpOnlyUnanswered
<1> DEFINE Rightly == \A c \in Client :
             req'[c].pc = "timedout" /\ req[c].pc = "poll" /\ req[c].alone
               => c \notin seen
<1>1. ASSUME RequestsInv, RequestsNext PROVE Rightly
  <2> SUFFICES ASSUME NEW c \in Client, req'[c].pc = "timedout",
                      req[c].pc = "poll", req[c].alone
               PROVE  c \notin seen
    OBVIOUS
  <2>1. req \in [Client -> Request] /\ req[c].kind \in SlotKind
    BY <1>1 DEF RequestsInv, RequestShape
  <2>2. CASE Poll(c)
    <3>1. req'[c].pc = IF slot[req[c].kind] # NoReply THEN "answered"
                       ELSE IF req[c].polls + 1 = MaxPoll THEN "timedout"
                       ELSE req[c].pc
      <4>1. req[c] \in Request
        BY <2>1
      <4> QED BY <2>1, <2>2, <4>1 DEF Poll, Request
    <3>2. slot[req[c].kind] = NoReply
      BY <3>1
    <3> QED BY <1>1, <3>2 DEF RequestsInv, SlotIsNew
  <2>3. CASE ~Poll(c)
    <3>1. req'[c].pc = req[c].pc
      <4>1. ASSUME NEW o \in Client, NEW k \in SlotKind, Drop(o, k)
            PROVE  req'[c].pc = req[c].pc
        BY <2>1, <4>1 DEF Drop, Request
      <4>2. ASSUME NEW o \in Client, NEW k \in ListKind, AskList(o, k)
            PROVE  req'[c].pc = req[c].pc
        BY <2>1, <4>2 DEF AskList, Request
      <4>3. ASSUME NEW o \in Client, HandlerStep(o)
            PROVE  req'[c].pc = req[c].pc
        BY <2>1, <2>3, <4>3 DEF HandlerStep, Ask, Poll, ReadList, Request
      <4>4. ASSUME Record \/ Handle \/ Break \/ Reconnect
                   \/ \E f \in Frames : NetworkAnswers(f)
            PROVE  req'[c].pc = req[c].pc
        BY <4>4 DEF Record, Handle, Break, Reconnect, NetworkAnswers
      <4> QED BY <1>1, <4>1, <4>2, <4>3, <4>4 DEF RequestsNext
    <3> QED BY <3>1
  <2> QED BY <2>2, <2>3
<1>2. ASSUME UNCHANGED requestsVars PROVE Rightly
  BY <1>2 DEF requestsVars
<1>3. RequestsInv /\ [RequestsNext]_requestsVars => [Rightly]_requestsVars
  BY <1>1, <1>2
<1> QED BY RequestsStart, RequestsStep, <1>3, PTL
        DEF RequestsSpec, GivesUpOnlyUnanswered

-----------------------------------------------------------------------------
(* AdbLink.                                                                 *)

\* What the app watches, has seen and reports: a port it reports is the one
\* its watch has seen last, and a watch is part of a search that is on.
WatchShape ==
  /\ adb \in [enabled : BOOLEAN, port : Port \cup {None}, own : BOOLEAN,
              disc : BOOLEAN, told : BOOLEAN, watch : BOOLEAN,
              seen : Port \cup {None}, failed : BOOLEAN]
  /\ adb.disc => adb.enabled
  /\ adb.watch => adb.disc
  /\ adb.seen # None => adb.watch /\ adb.own
  /\ adb.port # None => adb.port = adb.seen

\* Looking at the setting keeps it: a search that starts afresh has seen and
\* reports nothing.
LEMMA RefreshKeeps ==
  ASSUME WatchShape, adb' = RefreshAdb(adb) PROVE WatchShape'
<1> DEFINE b == IF adb.enabled THEN adb ELSE SetAdb(adb, TRUE, None)
<1>1. CASE ~wifi
  BY <1>1 DEF WatchShape, RefreshAdb, SetAdb, StopAdbDiscovery
<1>2. CASE wifi /\ b.disc
  <2>1. adb' = b
    BY <1>2 DEF RefreshAdb
  <2> QED BY <2>1, <1>2 DEF WatchShape, SetAdb
<1>3. CASE wifi /\ ~b.disc
  <2>1. adb' = [StopAdbDiscovery(b) EXCEPT !.disc = TRUE]
    BY <1>3 DEF RefreshAdb
  <2>2. /\ b \in [enabled : BOOLEAN, port : Port \cup {None}, own : BOOLEAN,
                  disc : BOOLEAN, told : BOOLEAN, watch : BOOLEAN,
                  seen : Port \cup {None}, failed : BOOLEAN]
        /\ b.enabled /\ b.port = None
    BY <1>3 DEF WatchShape, SetAdb
  <2> HIDE DEF b
  <2> QED BY <2>1, <2>2 DEF WatchShape, StopAdbDiscovery
<1> QED BY <1>1, <1>2, <1>3

LEMMA WatchStarts == AdbLinkInit => WatchShape
  BY DEF AdbLinkInit, WatchShape

LEMMA WatchKeeps == WatchShape /\ [AdbLinkNext]_adbLinkVars => WatchShape'
<1> SUFFICES ASSUME WatchShape, [AdbLinkNext]_adbLinkVars PROVE WatchShape'
  OBVIOUS
<1>1. CASE SettingChanged \/ Relink
  BY <1>1, RefreshKeeps DEF SettingChanged, Relink
<1>2. CASE FoundAdb
  BY <1>2 DEF FoundAdb, WatchShape
<1>3. CASE LostAdb
  BY <1>3 DEF LostAdb, WatchShape, SetAdb
<1>4. CASE NsdFails
  BY <1>4 DEF NsdFails, WatchShape
<1>5. ASSUME NEW p \in Port, AdbResolved("own", p) PROVE WatchShape'
  BY <1>5, AdbLinkAssumption
  DEF AdbResolved, OnAdbResolved, PickOwn, SetAdb, WatchShape
<1>6. ASSUME NEW p \in Port, AdbResolved("other", p) PROVE WatchShape'
  BY <1>6 DEF AdbResolved, OnAdbResolved, PickOwn, WatchShape
<1>7. ASSUME UNCHANGED adb PROVE WatchShape'
  BY <1>7 DEF WatchShape
<1>8. CASE \/ ReportPort \/ Unlink
           \/ OnReport \/ Look \/ DisconnectOld \/ ShowConnecting
           \/ RunConnect \/ Verify \/ Finish \/ (\E s \in telling : Tell(s))
           \/ TimePasses \/ Pairing \/ AdbItself
           \/ (\E on \in BOOLEAN, p \in Port \cup {None} : AdbdMoves(on, p))
           \/ UNCHANGED adbLinkVars
  BY <1>7, <1>8
  DEF ReportPort, Unlink, OnReport, Look, DisconnectOld, ShowConnecting,
      RunConnect, Verify, Finish, Tell, TimePasses, Pairing, AdbItself,
      AdbdMoves, phoneVars, adbLinkVars
<1> QED BY <1>1, <1>2, <1>3, <1>4, <1>5, <1>6, <1>8 DEF AdbLinkNext

\* The port an app reports, once it has heard what there is to hear, is the
\* one its own adbd listens on (startAdbDiscovery, onServiceLost, pickOwn).
THEOREM ReportsItsOwnPort == AdbLinkSpec => []PortIsOwn
<1>1. WatchShape => PortIsOwn
  BY DEF WatchShape, PortIsOwn, CaughtUp
<1> QED BY WatchStarts, WatchKeeps, <1>1, PTL DEF AdbLinkSpec

-----------------------------------------------------------------------------
(* SharePolicy.                                                             *)

\* The device of a share of one is shared.
LEMMA TheOneIsIn == ASSUME NEW t, OnlyOne(t) PROVE TheOne(t) \in t
<1>1. t # {}
  BY FS_EmptySet DEF OnlyOne
<1> QED BY <1>1 DEF TheOne

\* What a share and a connection to it are, and why a peer is refused: never
\* for naming no device when one is shared.
Serial == Device \cup {Nobody}
Targets == {Everything} \cup SUBSET Device
PeerState == [pc : {"idle", "asked", "refused", "listed", "failed", "streams",
                    "answered"},
              kind : RequestKinds, serial : Serial, targets : Targets,
              stream : Serial, list : SUBSET Device, payload : SUBSET Device]
PolicyInv ==
  /\ peer \in PeerState /\ attached \subseteq Device
  /\ policy.on => policy.targets \in Targets
  /\ PolicyRight
  /\ peer.pc = "refused" => ~(peer.kind \in Unqualified /\ OnlyOne(peer.targets))

\* What the gate decides on: of an unqualified request with one device shared,
\* that device; of others, what they name if it is shared.
LEMMA DecideShares ==
  ASSUME NEW kind \in RequestKinds, NEW d \in Serial, NEW t \in Targets
  PROVE  LET decision == Decide(kind, d, t) IN
         /\ decision.serial \in Serial /\ decision.kind \in RequestKinds
         /\ decision.do \in {"reject", "filter", "forward"}
         /\ decision.do # "forward" => decision.kind \notin ForDevice
         /\ decision.do = "forward" /\ decision.kind \in Qualified =>
              Allows(t, decision.serial)
         /\ decision.do = "forward" /\ decision.kind \in ForDevice \ Qualified =>
              t = Everything \/ Unread(kind, t)
         /\ kind \in Unqualified /\ OnlyOne(t) =>
              /\ decision.do = "forward" /\ decision.kind \in Qualified
              /\ decision.serial = TheOne(t)
<1> DEFINE decision == Decide(kind, d, t)
<1> USE DEF ForDevice
<1>1. OnlyOne(t) => TheOne(t) \in t /\ TheOne(t) \in Serial /\ t # Everything
  BY TheOneIsIn DEF OnlyOne, Targets, Serial
<1>2. CASE kind \in Blocked
  <2>1. decision = Reject
    BY <1>2 DEF Decide, Blocked, Lists, Qualified
  <2>2. kind \notin Unqualified
    BY <1>2 DEF Blocked, Unqualified
  <2> QED BY <2>1, <2>2
          DEF Reject, Serial, RequestKinds, Qualified, Unqualified, ById, ByBus
<1>3. CASE kind \in Lists
  <2>1. kind \notin Blocked /\ kind \notin Unqualified
    BY <1>3 DEF Blocked, Lists, Unqualified
  <2>2. decision = [Forward(kind, Nobody) EXCEPT !.do = "filter"]
    BY <1>3, <2>1 DEF Decide, Lists, Qualified
  <2>3. kind \notin ForDevice
    BY <1>3 DEF Lists, Qualified, Unqualified, ById, ByBus
  <2> QED BY <1>3, <2>1, <2>2, <2>3 DEF Forward, Serial, RequestKinds
<1>4. CASE kind \in Qualified
  BY <1>4 DEF Decide, Forward, Reject, Serial, Blocked, Lists, Unqualified,
              Qualified, ById, ByBus, RequestKinds, Allows
<1>5. CASE kind \in Unqualified
  <2>1. CASE kind = "any"
    BY <1>1, <2>1 DEF Decide, Forward, Reject, Serial, Blocked, Lists, Unqualified,
                      Qualified, ById, ByBus, RequestKinds, Allows
  <2>2. CASE kind = "bare"
    BY <1>1, <2>2 DEF Decide, Forward, Serial, Blocked, Lists, Unqualified,
                      Qualified, ById, ByBus, RequestKinds, Allows, Unread
  <2> QED BY <1>5, <2>1, <2>2 DEF Unqualified
<1>6. CASE kind \in ById \cup ByBus \cup {"server"}
  <2>1. decision = Forward(kind, d) /\ kind \notin Qualified \cup Unqualified
    BY <1>6 DEF Decide, Blocked, Lists, Qualified, Unqualified, ById, ByBus
  <2>2. kind \in ForDevice => Unread(kind, t)
    BY <1>6, <2>1 DEF Qualified, Unqualified, ById, ByBus, Unread
  <2> QED BY <2>1, <2>2 DEF Forward
<1> QED BY <1>2, <1>3, <1>4, <1>5, <1>6 DEF RequestKinds

\* Whom the adb server connects: a device that was named is that device.
LEMMA ReachedIs ==
  ASSUME attached \subseteq Device, NEW kind, NEW d \in Serial,
         NEW got \in Reached(kind, d)
  PROVE  /\ got \in Serial
         /\ kind \in Qualified /\ got # Nobody => got = d
         /\ kind \in Qualified /\ d \in attached => got = d
<1>1. CASE kind \in Qualified \cup ById
  <2>1. kind \notin ByBus \cup {"any"}
    BY <1>1 DEF Qualified, ById, ByBus
  <2>2. Reached(kind, d) = IF d \in attached THEN {d} ELSE {Nobody}
    BY <1>1, <2>1 DEF Reached
  <2> QED BY <1>1, <2>2 DEF Serial
<1>2. CASE kind \in ByBus \cup {"any"}
  <2>1. kind \notin Qualified \cup ById
    BY <1>2 DEF Qualified, ById, ByBus
  <2>2. Reached(kind, d) = attached \cup {Nobody}
    BY <1>2, <2>1 DEF Reached
  <2> QED BY <1>2, <2>1, <2>2 DEF Serial
<1>3. CASE kind \notin Qualified \cup ById \cup ByBus \cup {"any"}
  <2>1. Reached(kind, d) =
          IF Cardinality(attached) = 1 THEN attached ELSE {Nobody}
    BY <1>3 DEF Reached
  <2> QED BY <1>3, <2>1 DEF Serial
<1> QED BY <1>1, <1>2, <1>3

\* A request over the configuration.
LEMMA MergedShape ==
  ASSUME NEW asked \in ShareRequests
  PROVE  LET cfg == Merge(asked) IN
         /\ cfg.all \in BOOLEAN /\ cfg.targets \in SUBSET Device
         /\ cfg.specs \in SUBSET [lo : Nat, hi : Nat]
         /\ asked.targets # {} /\ ~asked.all =>
              ~cfg.all /\ cfg.targets = asked.targets
         /\ cfg.all => asked.all \/ (asked.targets = {} /\ ShareSettings.all)
<1>1. asked \in ShareConfig /\ ShareSettings \in ShareConfig
  BY SharePolicyAssumption
<1> QED BY <1>1 DEF Merge, ShareConfig

\* What start_share makes of a request is what the request asked for.
LEMMA StartShares ==
  ASSUME NEW asked \in ShareRequests, StartShare(asked) PROVE SharesWhatWasAsked'
<1> DEFINE cfg == Merge(asked)
           ports == Expand(cfg.specs)
           bind == BindAddress(cfg)
<1>2. /\ cfg.all \in BOOLEAN /\ cfg.targets \in SUBSET Device
      /\ cfg.specs \in SUBSET [lo : Nat, hi : Nat]
      /\ asked.targets # {} /\ ~asked.all => ~cfg.all /\ cfg.targets = asked.targets
      /\ cfg.all => asked.all \/ (asked.targets = {} /\ ShareSettings.all)
  BY MergedShape
<1>3. Resolves(cfg)
  BY DEF StartShare
<1>4. policy' = [on |-> TRUE,
                 targets |-> IF cfg.all THEN Everything ELSE cfg.targets,
                 ports |-> ports, bind |-> bind, asked |-> asked]
  BY DEF StartShare
<1>5. /\ bind.port \notin ports /\ cfg.all # (cfg.targets # {})
      /\ cfg.specs # {} => ~bind.loopback
      /\ \A s \in cfg.specs : ValidSpec(s)
  BY <1>3 DEF Resolves
<1> HIDE DEF cfg
<1>6. 0 \notin ports /\ (ports # {} => cfg.specs # {})
  <2>1. \A s \in cfg.specs : s.lo \in Nat /\ s.lo # 0 /\ s.hi \in Nat
    BY <1>2, <1>5 DEF ValidSpec
  <2>2. \A s \in cfg.specs : 0 \notin s.lo .. s.hi
    BY <2>1
  <2> QED BY <2>2 DEF Expand
<1> HIDE DEF ports, bind
<1>7. policy'.targets = Everything => cfg.all
  BY <1>2, <1>4, SharePolicyAssumption
<1>8. policy'.targets # {}
  BY <1>2, <1>4, <1>5, SharePolicyAssumption
<1>9. asked.targets # {} /\ ~asked.all => policy'.targets = asked.targets
  BY <1>2, <1>4
<1>10. /\ policy'.asked = asked /\ policy'.ports = ports /\ policy'.bind = bind
  BY <1>4
<1> QED BY <1>2, <1>5, <1>6, <1>7, <1>8, <1>9, <1>10 DEF SharesWhatWasAsked

\* What the gate lets a request reach is shared, and a request that names no
\* device reaches the one that is.
LEMMA GateKeeps == PolicyInv /\ Gate => PolicyInv'
<1> SUFFICES ASSUME PolicyInv, Gate PROVE PolicyInv'
  OBVIOUS
<1> DEFINE decision == Decide(peer.kind, peer.serial, peer.targets)
<1>1. /\ peer \in PeerState /\ attached \subseteq Device
      /\ peer.kind \in RequestKinds /\ peer.serial \in Serial
      /\ peer.targets \in Targets /\ UNCHANGED <<attached, policy>>
      /\ peer.pc = "asked"
  BY DEF PolicyInv, PeerState, Gate
<1>2. /\ SharesWhatWasAsked' /\ policy' = policy
      /\ policy.on => policy.targets \in Targets
  BY DEF PolicyInv, PolicyRight, SharesWhatWasAsked, Gate
<1>3. /\ decision.serial \in Serial /\ decision.kind \in RequestKinds
      /\ decision.do \in {"reject", "filter", "forward"}
      /\ decision.do # "forward" => decision.kind \notin ForDevice
      /\ decision.do = "forward" /\ decision.kind \in Qualified =>
           Allows(peer.targets, decision.serial)
      /\ decision.do = "forward" /\ decision.kind \in ForDevice \ Qualified =>
           peer.targets = Everything \/ Unread(peer.kind, peer.targets)
      /\ peer.kind \in Unqualified /\ OnlyOne(peer.targets) =>
           /\ decision.do = "forward" /\ decision.kind \in Qualified
           /\ decision.serial = TheOne(peer.targets)
  BY <1>1, DecideShares
<1>4. PICK got \in Reached(decision.kind, decision.serial) :
        peer' = CASE decision.do = "reject" -> [peer EXCEPT !.pc = "refused"]
                  [] decision.do = "filter" ->
                       [peer EXCEPT !.pc = "listed", !.payload = attached,
                                    !.list = Filter(attached, peer.targets)]
                  [] decision.kind \in ForDevice ->
                       [peer EXCEPT
                         !.pc = IF got = Nobody THEN "failed" ELSE "streams",
                         !.stream = got]
                  [] OTHER -> [peer EXCEPT !.pc = "answered"]
  BY DEF Gate
<1>5. /\ got \in Serial
      /\ decision.kind \in Qualified /\ got # Nobody => got = decision.serial
      /\ decision.kind \in Qualified /\ decision.serial \in attached =>
           got = decision.serial
  BY <1>1, <1>3, ReachedIs
<1>6. OnlyOne(peer.targets) => TheOne(peer.targets) \in peer.targets
  BY TheOneIsIn
<1> HIDE DEF decision
<1> SUFFICES /\ peer' \in PeerState /\ SharedOnly' /\ UnqualifiedWorks'
             /\ peer'.pc = "refused" =>
                  ~(peer'.kind \in Unqualified /\ OnlyOne(peer'.targets))
  BY <1>1, <1>2 DEF PolicyInv, PolicyRight
<1>7. CASE decision.do = "reject"
  <2>1. peer' = [peer EXCEPT !.pc = "refused"]
    BY <1>3, <1>4, <1>7
  <2>2. /\ peer' \in PeerState /\ peer'.pc = "refused"
        /\ peer'.kind = peer.kind /\ peer'.targets = peer.targets
    BY <1>1, <2>1 DEF PeerState
  <2> QED BY <1>3, <1>7, <2>2 DEF SharedOnly, UnqualifiedWorks
<1>8. CASE decision.do = "filter"
  <2> DEFINE list == Filter(attached, peer.targets)
  <2>1. peer' = [peer EXCEPT !.pc = "listed", !.payload = attached, !.list = list]
    BY <1>3, <1>4, <1>8
  <2>2. list \subseteq Device
        /\ list = {d \in attached : peer.targets = Everything \/ d \in peer.targets}
    BY <1>1 DEF Filter, Allows
  <2> HIDE DEF list
  <2>3. /\ peer' \in PeerState /\ peer'.pc = "listed" /\ peer'.payload = attached
        /\ peer'.list = list /\ peer'.targets = peer.targets
    BY <1>1, <2>1, <2>2 DEF PeerState
  <2> QED BY <2>2, <2>3 DEF SharedOnly, UnqualifiedWorks
<1>9. CASE decision.do = "forward" /\ decision.kind \in ForDevice
  <2> DEFINE pc == IF got = Nobody THEN "failed" ELSE "streams"
  <2>1. peer' = [peer EXCEPT !.pc = pc, !.stream = got]
    BY <1>4, <1>9
  <2>2. pc \in {"failed", "streams"} /\ (pc = "failed" <=> got = Nobody)
    OBVIOUS
  <2> HIDE DEF pc
  <2>3. /\ peer' \in PeerState /\ peer'.pc = pc /\ peer'.kind = peer.kind
        /\ peer'.stream = got /\ peer'.targets = peer.targets
    BY <1>1, <1>3, <1>5, <2>1, <2>2 DEF PeerState
  <2>4. SharedOnly'
    <3>1. ASSUME got # Nobody
          PROVE  Unread(peer.kind, peer.targets) \/ Allows(peer.targets, got)
      BY <1>3, <1>5, <1>9, <3>1 DEF Allows
    <3> QED BY <2>2, <2>3, <3>1 DEF SharedOnly
  <2>5. UnqualifiedWorks'
    <3> SUFFICES ASSUME peer.kind \in Unqualified, OnlyOne(peer.targets),
                        peer.targets \subseteq attached
                 PROVE  got # Nobody
      BY <1>1, <2>2, <2>3 DEF UnqualifiedWorks
    <3>1. got = TheOne(peer.targets) /\ got \in Device
      BY <1>1, <1>3, <1>5, <1>6
    <3> QED BY <3>1, SharePolicyAssumption
  <2> QED BY <2>2, <2>3, <2>4, <2>5
<1>10. CASE decision.do = "forward" /\ decision.kind \notin ForDevice
  <2>1. peer' = [peer EXCEPT !.pc = "answered"]
    BY <1>4, <1>10
  <2>2. peer' \in PeerState /\ peer'.pc = "answered"
    BY <1>1, <2>1 DEF PeerState
  <2> QED BY <2>2 DEF SharedOnly, UnqualifiedWorks
<1> QED BY <1>3, <1>7, <1>8, <1>9, <1>10

\* The policy from end to end: what was asked for is what is shared; a peer that
\* names a serial, asks for any device, or names none when one is shared, reaches
\* what is shared and nothing else; and it reaches the one that is shared without
\* naming it (start_share, decide, filter_device_list).
THEOREM SharesOnlyWhatIsShared == PolicySpec => []PolicyRight
<1>1. PolicyInit => PolicyInv
  BY DEF PolicyInit, PolicyInv, PolicyRight, SharesWhatWasAsked, SharedOnly,
         UnqualifiedWorks, NotSharing, NoPeer, Unqualified, PeerState, Serial,
         Targets, RequestKinds
<1>2. PolicyInv /\ [PolicyNext]_policyVars => PolicyInv'
  <2> SUFFICES ASSUME PolicyInv, [PolicyNext]_policyVars PROVE PolicyInv'
    OBVIOUS
  <2> DEFINE RefusedRightly ==
        peer.pc = "refused" =>
          ~(peer.kind \in Unqualified /\ OnlyOne(peer.targets))
  <2>1. /\ SharesWhatWasAsked /\ SharedOnly /\ UnqualifiedWorks /\ RefusedRightly
        /\ peer \in PeerState /\ attached \subseteq Device
        /\ policy.on => policy.targets \in Targets
    BY DEF PolicyRight, PolicyInv
  <2>2. ASSUME UNCHANGED policy
        PROVE  /\ SharesWhatWasAsked'
               /\ policy'.on => policy'.targets \in Targets
    BY <2>1, <2>2 DEF SharesWhatWasAsked
  <2>3. ASSUME UNCHANGED <<attached, peer>>
        PROVE  /\ SharedOnly' /\ UnqualifiedWorks' /\ RefusedRightly'
               /\ peer' \in PeerState /\ attached' \subseteq Device
    BY <2>1, <2>3 DEF SharedOnly, UnqualifiedWorks
  <2>4. ASSUME peer'.pc \in {"idle", "asked"}
        PROVE  SharedOnly' /\ UnqualifiedWorks' /\ RefusedRightly'
    BY <2>4 DEF SharedOnly, UnqualifiedWorks
  <2>5. ASSUME NEW asked \in ShareRequests, StartShare(asked) PROVE PolicyInv'
    <3>1. policy'.targets \in Targets
      BY <2>5, MergedShape DEF StartShare, Targets, ShareConfig
    <3> QED BY <2>3, <2>5, <3>1, StartShares DEF PolicyInv, PolicyRight, StartShare
  <2>6. CASE StopShare
    BY <2>3, <2>6
    DEF PolicyInv, PolicyRight, StopShare, NotSharing, SharesWhatWasAsked
  <2>7. ASSUME NEW kind \in RequestKinds, NEW d \in Device \cup {Nobody},
               SendRequest(kind, d)
        PROVE  PolicyInv'
    <3>1. /\ peer' = [NoPeer EXCEPT !.pc = "asked", !.kind = kind, !.serial = d,
                                    !.targets = policy.targets]
          /\ policy.targets \in Targets /\ UNCHANGED <<attached, policy>>
      BY <2>1, <2>7 DEF SendRequest
    <3>2. peer' \in PeerState /\ peer'.pc = "asked"
      BY <3>1 DEF NoPeer, PeerState, Serial
    <3> QED BY <2>1, <2>2, <2>4, <3>1, <3>2 DEF PolicyInv, PolicyRight
  <2>8. CASE Gate
    BY <2>8, GateKeeps
  <2>9. CASE RelayList
    <3> DEFINE listed == Filter(attached, peer.targets)
    <3>1. /\ peer' = [peer EXCEPT !.payload = attached, !.list = listed]
          /\ peer.pc = "listed" /\ UNCHANGED <<attached, policy>>
      BY <2>9 DEF RelayList
    <3>2. listed \subseteq Device
          /\ listed = {d \in attached : peer.targets = Everything \/ d \in peer.targets}
      BY <2>1 DEF Filter, Allows
    <3> HIDE DEF listed
    <3>3. /\ peer' \in PeerState /\ peer'.pc = "listed"
          /\ peer'.payload = attached /\ peer'.list = listed
          /\ peer'.targets = peer.targets
      BY <2>1, <3>1, <3>2 DEF PeerState
    <3> QED BY <2>1, <2>2, <3>1, <3>2, <3>3
            DEF PolicyInv, PolicyRight, SharedOnly, UnqualifiedWorks
  <2>10. CASE EndPeer
    <3>1. peer' = NoPeer /\ NoPeer \in PeerState /\ NoPeer.pc = "idle"
          /\ UNCHANGED <<attached, policy>>
      BY <2>10 DEF EndPeer, NoPeer, PeerState, Serial, Targets, RequestKinds
    <3> QED BY <2>1, <2>2, <2>4, <3>1 DEF PolicyInv, PolicyRight
  <2>11. ASSUME NEW d \in Device, Plug(d) PROVE PolicyInv'
    <3>1. attached' \subseteq Device /\ UNCHANGED policy
      BY <2>1, <2>11 DEF Plug
    <3>2. CASE peer.pc \in {"failed", "streams"}
      <4>1. peer' = NoPeer /\ NoPeer \in PeerState /\ NoPeer.pc = "idle"
        BY <2>11, <3>2 DEF Plug, NoPeer, PeerState, Serial, Targets, RequestKinds
      <4> QED BY <2>2, <2>4, <3>1, <4>1 DEF PolicyInv, PolicyRight
    <3>3. CASE peer.pc \notin {"failed", "streams"}
      <4>1. peer' = peer
        BY <2>11, <3>3 DEF Plug
      <4>2. SharedOnly' /\ UnqualifiedWorks'
        BY <2>1, <3>3, <4>1 DEF SharedOnly, UnqualifiedWorks
      <4> QED BY <2>1, <2>2, <3>1, <4>1, <4>2 DEF PolicyInv, PolicyRight
    <3> QED BY <3>2, <3>3
  <2>12. CASE UNCHANGED policyVars
    BY <2>1, <2>2, <2>3, <2>12 DEF PolicyInv, PolicyRight, policyVars
  <2> QED BY <2>5, <2>6, <2>7, <2>8, <2>9, <2>10, <2>11, <2>12 DEF PolicyNext
<1>3. PolicyInv => PolicyRight
  BY DEF PolicyInv
<1> QED BY <1>1, <1>2, <1>3, PTL DEF PolicySpec

-----------------------------------------------------------------------------
(* Share.                                                                   *)

ShareState == [exp : BOOLEAN, auth : BOOLEAN, want : SUBSET ForwardPort,
               main : {"open", "closed"}, permit : BOOLEAN, live : BOOLEAN,
               loop : {"none", "parked", "busy", "aborted", "ended"},
               fwd : [ForwardPort -> {"none", "open", "aborted", "closed"}],
               active : Nat]
ConnState == [pc : {"idle", "hello", "upstream", "splice", "ending", "closed"},
              of : Nat]
Served == {"upstream", "splice", "ending"}
Engaged(g) == {c \in Peer : conn[c].of = g /\ conn[c].pc \in Served}

ShareShape ==
  /\ shares \in Seq(ShareState)
  /\ conn \in [Peer -> ConnState]
  /\ \A c \in Peer : /\ conn[c].of <= Last
                     /\ conn[c].pc # "idle" => conn[c].of \in 1 .. Last
  /\ shareSlot \in 0 .. Last /\ stopper \in 0 .. Last
  /\ starter \in [pc : {"idle", "stopping", "bind", "forwards"},
                  kind : ShareKind \cup {NoStart.kind}, old : 0 .. Last,
                  had : BOOLEAN]
  /\ starter.pc # "idle" => starter.kind \in ShareKind
  /\ starter.pc = "stopping" => starter.old \in 1 .. Last

\* An accept loop that takes connections has its port, and is announced as
\* live; one that has ended has given its port back.
LoopTells(s) ==
  /\ s.loop \in {"parked", "busy"} => s.main = "open" /\ s.live
  /\ s.loop = "ended" => s.main = "closed"

\* The share of the slot takes connections, or has closed by itself.
Settled(s) == s.loop \in {"parked", "busy"} \/ (s.loop = "ended" /\ ~s.live)

\* While a share is started the slot is empty, and who stops one stops another.
SlotShape ==
  /\ starter.pc # "idle" => shareSlot = 0
  /\ starter.pc = "forwards" =>
       /\ stopper < Last
       /\ shares[Last].loop = "none" /\ shares[Last].main = "open"
  /\ shareSlot # 0 => shareSlot # stopper /\ Settled(shares[shareSlot])

Counted ==
  \A g \in 1 .. Last :
    /\ IsFiniteSet(Engaged(g))
    /\ shares[g].active = Cardinality(Engaged(g))

LoopsShape == \A g \in 1 .. Last : LoopTells(shares[g])
ShareInv == ShareShape /\ LoopsShape /\ SlotShape /\ Counted

\* What an update of one share leaves.
LEMMA Updated ==
  ASSUME shares \in Seq(ShareState), NEW g \in 1 .. Last, NEW s \in ShareState,
         Update(g, s)
  PROVE  /\ shares' \in Seq(ShareState) /\ Len(shares) \in Nat
         /\ Len(shares') = Len(shares)
         /\ \A h \in 1 .. Last : shares'[h] = IF h = g THEN s ELSE shares[h]
         /\ \A h \in 1 .. Last : shares[h] \in ShareState
<1>1. shares' = [shares EXCEPT ![g] = s]
  BY DEF Update
<1>2. Len(shares) \in Nat /\ \A h \in 1 .. Last : shares[h] \in ShareState
  BY LenProperties, ElementOfSeq DEF Last
<1> QED BY <1>1, <1>2, ExceptSeq DEF Last

\* A step of one share, with the slot and its locks left alone.
LEMMA LoopsKeep ==
  ASSUME ShareInv, NEW g \in 1 .. Last, NEW s \in ShareState, Update(g, s),
         LoopTells(s), shareSlot = g => Settled(s),
         starter.pc = "forwards" /\ g = Last => s.loop = "none" /\ s.main = "open",
         UNCHANGED <<shareSlot, starter>>, stopper' \in {0, stopper}
  PROVE  LoopsShape' /\ SlotShape'
<1>1. /\ ShareShape /\ LoopsShape /\ SlotShape
  BY DEF ShareInv
<1>2. /\ Len(shares') = Len(shares) /\ Len(shares) \in Nat
      /\ \A h \in 1 .. Last : shares'[h] = IF h = g THEN s ELSE shares[h]
  BY <1>1, Updated DEF ShareShape
<1>3. LoopsShape'
  BY <1>1, <1>2 DEF LoopsShape, LoopTells, Last
<1>4. SlotShape'
  <2>1. Last' = Last /\ Last \in Nat /\ shareSlot \in 0 .. Last
        /\ stopper \in 0 .. Last
    BY <1>1, <1>2 DEF Last, ShareShape
  <2>2. ASSUME starter.pc = "forwards"
        PROVE  /\ stopper' < Last
               /\ shares'[Last].loop = "none" /\ shares'[Last].main = "open"
    BY <1>1, <1>2, <2>1, <2>2 DEF SlotShape
  <2>3. ASSUME shareSlot # 0
        PROVE  /\ shareSlot # stopper'
               /\ Settled(shares'[shareSlot])
    BY <1>1, <1>2, <2>1, <2>3 DEF SlotShape
  <2> QED BY <1>1, <2>1, <2>2, <2>3 DEF SlotShape, Settled
<1> QED BY <1>3, <1>4

\* No connection begins or ends to be served.
LEMMA CountKeeps ==
  ASSUME Counted, Len(shares') = Len(shares),
         \A h \in 1 .. Last : shares'[h].active = shares[h].active,
         \A c \in Peer :
           /\ conn'[c].pc \in Served <=> conn[c].pc \in Served
           /\ conn[c].pc \in Served => conn'[c].of = conn[c].of
  PROVE  Counted'
<1> DEFINE After(g) == {c \in Peer : conn'[c].of = g /\ conn'[c].pc \in Served}
<1>1. \A g : After(g) = Engaged(g)
  BY DEF Engaged
<1>2. \A g \in 1 .. Last : /\ IsFiniteSet(After(g))
                           /\ shares'[g].active = Cardinality(After(g))
  BY <1>1 DEF Counted
<1>3. Last' = Last
  BY DEF Last
<1> QED BY <1>2, <1>3 DEF Counted, Engaged

\* The connections after a step: each where it can be, for the share it is for.
ConnsStay ==
  /\ conn' \in [Peer -> ConnState]
  /\ \A c \in Peer :
       \/ conn'[c] = conn[c]
       \/ conn'[c].of = conn[c].of /\ conn[c].pc # "idle"
       \/ conn'[c].of \in 1 .. Last
\* No connection begins or ends to be served.
ServiceStays ==
  \A c \in Peer :
    /\ conn'[c].pc \in Served <=> conn[c].pc \in Served
    /\ conn[c].pc \in Served => conn'[c].of = conn[c].of

LEMMA ShapeKeeps ==
  ASSUME ShareShape, shares' \in Seq(ShareState), Len(shares') = Len(shares),
         ConnsStay, UNCHANGED <<shareSlot, starter>>, stopper' \in {0, stopper}
  PROVE  ShareShape'
<1>1. Last' = Last /\ Last \in Nat
  BY LenProperties DEF Last, ShareShape
<1>2. \A c \in Peer : /\ conn'[c].of <= Last
                      /\ conn'[c].pc # "idle" => conn'[c].of \in 1 .. Last
  <2> TAKE c \in Peer
  <2>1. /\ conn[c].of <= Last
        /\ conn[c].pc # "idle" => conn[c].of \in 1 .. Last
    BY DEF ShareShape
  <2>2. \/ conn'[c] = conn[c]
        \/ conn'[c].of = conn[c].of /\ conn[c].pc # "idle"
        \/ conn'[c].of \in 1 .. Last
    BY DEF ConnsStay
  <2> QED BY <1>1, <2>1, <2>2
<1>3. conn' \in [Peer -> ConnState]
  BY DEF ConnsStay
<1> QED BY <1>1, <1>2, <1>3 DEF ShareShape

\* A step of one share that serves no connection more and none less.
LEMMA ShareKeeps ==
  ASSUME ShareInv, NEW g \in 1 .. Last, NEW s \in ShareState, Update(g, s),
         LoopTells(s), shareSlot = g => Settled(s),
         starter.pc = "forwards" /\ g = Last => s.loop = "none" /\ s.main = "open",
         s.active = shares[g].active, ConnsStay, ServiceStays,
         UNCHANGED <<shareSlot, starter>>, stopper' \in {0, stopper}
  PROVE  ShareInv'
<1>1. LoopsShape' /\ SlotShape'
  BY LoopsKeep
<1>2. ShareShape /\ Counted
  BY DEF ShareInv
<1>3. /\ shares' \in Seq(ShareState) /\ Len(shares') = Len(shares)
      /\ \A h \in 1 .. Last : shares'[h].active = shares[h].active
  BY <1>2, Updated DEF ShareShape
<1>4. ShareShape'
  BY <1>2, <1>3, ShapeKeeps
<1>5. Counted'
  BY <1>2, <1>3, CountKeeps DEF ServiceStays
<1> QED BY <1>1, <1>4, <1>5 DEF ShareInv

\* What is known of a share.
LEMMA ShareIs ==
  ASSUME ShareInv, NEW g \in 1 .. Last
  PROVE  /\ shares[g] \in ShareState /\ LoopTells(shares[g])
         /\ shareSlot = g => Settled(shares[g])
         /\ starter.pc = "forwards" /\ g = Last =>
              shares[g].loop = "none" /\ shares[g].main = "open"
         /\ Last \in Nat
<1>1. Last \in Nat
  BY LenProperties DEF ShareInv, ShareShape, Last
<1>2. g # 0
  BY <1>1
<1> QED BY <1>1, <1>2, ElementOfSeq
        DEF ShareInv, ShareShape, LoopsShape, SlotShape, Last

\* A step that moves one connection.
LEMMA ConnMoves ==
  ASSUME ShareShape, NEW c \in Peer, NEW pc, conn[c].pc # "idle",
         conn' = [conn EXCEPT ![c].pc = pc],
         pc \in {"hello", "upstream", "splice", "ending", "closed"}
  PROVE  /\ ConnsStay /\ conn[c] \in ConnState /\ conn[c].of \in 1 .. Last
         /\ conn'[c].pc = pc /\ conn'[c].of = conn[c].of
         /\ \A o \in Peer \ {c} : conn'[o] = conn[o]
         /\ (pc \in Served <=> conn[c].pc \in Served) => ServiceStays
<1>1. conn \in [Peer -> ConnState] /\ conn[c] \in ConnState
      /\ conn[c].of \in 1 .. Last
  BY DEF ShareShape
<1>2. conn' = [conn EXCEPT ![c] = [conn[c] EXCEPT !.pc = pc]]
  BY <1>1
<1>3. [conn[c] EXCEPT !.pc = pc] \in ConnState
  BY <1>1 DEF ConnState
<1>4. /\ conn' \in [Peer -> ConnState]
      /\ conn'[c].pc = pc /\ conn'[c].of = conn[c].of
      /\ \A o \in Peer \ {c} : conn'[o] = conn[o]
  BY <1>1, <1>2, <1>3 DEF ConnState
<1>5. ConnsStay
  BY <1>4 DEF ConnsStay
<1> QED BY <1>1, <1>4, <1>5 DEF ServiceStays

LEMMA AcceptKeeps ==
  ASSUME ShareInv, NEW c \in Peer, NEW g \in 1 .. Last, AcceptConn(c, g)
  PROVE  ShareInv'
<1> DEFINE s == [shares[g] EXCEPT !.loop = "busy"]
<1>1. /\ shares[g] \in ShareState /\ LoopTells(shares[g])
      /\ starter.pc = "forwards" /\ g = Last =>
           shares[g].loop = "none" /\ shares[g].main = "open"
      /\ Last \in Nat /\ shares[g].loop = "parked"
  BY ShareIs DEF AcceptConn
<1>2. /\ s \in ShareState /\ s.loop = "busy" /\ s.main = shares[g].main
      /\ s.live = shares[g].live /\ s.active = shares[g].active
  BY <1>1 DEF ShareState
<1>3. /\ Update(g, s) /\ UNCHANGED <<shareSlot, starter, stopper>>
      /\ conn[c].pc = "idle"
      /\ conn' = [conn EXCEPT ![c] = [pc |-> "hello", of |-> g]]
  BY DEF AcceptConn
<1> HIDE DEF s
<1>4. LoopTells(s) /\ Settled(s)
  BY <1>1, <1>2 DEF LoopTells, Settled
<1>5. conn \in [Peer -> ConnState]
  BY DEF ShareInv, ShareShape
<1>6. [pc |-> "hello", of |-> g] \in ConnState
  BY <1>1 DEF ConnState
<1>7. /\ conn' \in [Peer -> ConnState] /\ conn'[c].pc = "hello" /\ conn'[c].of = g
      /\ \A o \in Peer \ {c} : conn'[o] = conn[o]
  BY <1>3, <1>5, <1>6
<1>8. ConnsStay /\ ServiceStays
  BY <1>3, <1>7 DEF ConnsStay, ServiceStays, Served
<1> QED BY <1>1, <1>2, <1>3, <1>4, <1>8, ShareKeeps

\* Closing an accept loop.
LEMMA Closed ==
  ASSUME NEW s \in ShareState
  PROVE  /\ Close(s) \in ShareState /\ Close(s).loop = "ended"
         /\ Close(s).active = s.active
         /\ LoopTells(Close(s)) /\ Settled(Close(s))
<1>1. /\ Close(s) \in ShareState /\ Close(s).loop = "ended"
      /\ Close(s).main = "closed" /\ Close(s).live = FALSE
      /\ Close(s).active = s.active
  BY DEF Close, ShareState
<1> QED BY <1>1 DEF LoopTells, Settled

LEMMA ParkKeeps ==
  ASSUME ShareInv, NEW g \in 1 .. Last, Park(g) PROVE ShareInv'
<1> DEFINE s == IF shares[g].permit
                  THEN Close([shares[g] EXCEPT !.permit = FALSE])
                  ELSE [shares[g] EXCEPT !.loop = "parked"]
<1>1. /\ shares[g] \in ShareState /\ LoopTells(shares[g])
      /\ starter.pc = "forwards" /\ g = Last => shares[g].loop = "none"
      /\ shares[g].loop = "busy"
  BY ShareIs DEF Park
<1>2. /\ Update(g, s) /\ UNCHANGED <<shareSlot, starter, stopper, conn>>
  BY DEF Park
<1>3. ConnsStay /\ ServiceStays
  BY <1>2 DEF ShareInv, ShareShape, ConnsStay, ServiceStays
<1>4. s \in ShareState /\ s.active = shares[g].active /\ LoopTells(s) /\ Settled(s)
  <2>1. CASE shares[g].permit
    <3> DEFINE t == [shares[g] EXCEPT !.permit = FALSE]
    <3>1. t \in ShareState /\ t.active = shares[g].active
      BY <1>1 DEF ShareState
    <3>2. s = Close(t)
      BY <2>1
    <3> HIDE DEF s, t
    <3> QED BY <3>1, <3>2, Closed
  <2>2. CASE ~shares[g].permit
    <3>1. s = [shares[g] EXCEPT !.loop = "parked"]
      BY <2>2
    <3> HIDE DEF s
    <3>2. /\ s \in ShareState /\ s.active = shares[g].active /\ s.loop = "parked"
          /\ s.main = shares[g].main /\ s.live = shares[g].live
      BY <1>1, <3>1 DEF ShareState
    <3> QED BY <1>1, <3>2 DEF LoopTells, Settled
  <2> QED BY <2>1, <2>2
<1> HIDE DEF s
<1> QED BY <1>1, <1>2, <1>3, <1>4, ShareKeeps

\* A connection passes the handshake, and is served from then on.
LEMMA HandshakeKeeps ==
  ASSUME ShareInv, NEW c \in Peer, NEW ok \in BOOLEAN, Handshake(c, ok)
  PROVE  ShareInv'
<1> DEFINE g == conn[c].of
<1>1. /\ ShareShape /\ Counted /\ conn[c].pc = "hello"
      /\ UNCHANGED <<shareSlot, starter, stopper>> /\ g \in 1 .. Last
  BY DEF ShareInv, ShareShape, Handshake
<1>2. /\ shares[g] \in ShareState /\ LoopTells(shares[g])
      /\ shareSlot = g => Settled(shares[g])
      /\ starter.pc = "forwards" /\ g = Last =>
           shares[g].loop = "none" /\ shares[g].main = "open"
      /\ Last \in Nat
  BY <1>1, ShareIs
<1>3. CASE ok
  <2> DEFINE s == [shares[g] EXCEPT !.active = @ + 1]
             After(h) == {o \in Peer : conn'[o].of = h /\ conn'[o].pc \in Served}
  <2>1. Update(g, s) /\ conn' = [conn EXCEPT ![c].pc = "upstream"]
    BY <1>3 DEF Handshake
  <2>2. /\ ConnsStay /\ conn'[c].pc = "upstream" /\ conn'[c].of = g
        /\ \A o \in Peer \ {c} : conn'[o] = conn[o]
    BY <1>1, <2>1, ConnMoves
  <2>3. /\ s \in ShareState /\ s.active = shares[g].active + 1
        /\ s.loop = shares[g].loop /\ s.main = shares[g].main
        /\ s.live = shares[g].live
    BY <1>2 DEF ShareState
  <2> HIDE DEF s
  <2>4. LoopTells(s) /\ (shareSlot = g => Settled(s))
    BY <1>2, <2>3 DEF LoopTells, Settled
  <2>5. LoopsShape' /\ SlotShape'
    BY <1>1, <1>2, <2>1, <2>3, <2>4, LoopsKeep
  <2>6. /\ shares' \in Seq(ShareState) /\ Len(shares') = Len(shares)
        /\ \A h \in 1 .. Last : shares'[h] = IF h = g THEN s ELSE shares[h]
    BY <1>1, <2>1, <2>3, Updated DEF ShareShape
  <2>7. ShareShape'
    BY <1>1, <2>2, <2>6, ShapeKeeps
  <2>8. After(g) = Engaged(g) \cup {c} /\ c \notin Engaged(g)
    BY <1>1, <2>2 DEF Engaged, Served
  <2>9. \A h : h # g => After(h) = Engaged(h)
    BY <1>1, <2>2 DEF Engaged, Served
  <2> HIDE DEF After
  <2>10. /\ IsFiniteSet(Engaged(g))
         /\ shares[g].active = Cardinality(Engaged(g))
    BY <1>1 DEF Counted
  <2>11. IsFiniteSet(After(g)) /\ Cardinality(After(g)) = s.active
    BY <2>3, <2>8, <2>10, FS_AddElement
  <2>12. \A h \in 1 .. Last : /\ IsFiniteSet(After(h))
                              /\ shares'[h].active = Cardinality(After(h))
    BY <1>1, <2>6, <2>9, <2>11 DEF Counted
  <2>13. Last' = Last
    BY <2>6 DEF Last
  <2>14. Counted'
    BY <2>12, <2>13 DEF Counted, Engaged, After
  <2> QED BY <2>5, <2>7, <2>14 DEF ShareInv
<1>4. CASE ~ok
  <2>1. conn' = [conn EXCEPT ![c].pc = "closed"] /\ UNCHANGED shares
    BY <1>4 DEF Handshake
  <2>2. ConnsStay /\ ServiceStays
    BY <1>1, <2>1, ConnMoves DEF Served
  <2>3. Update(g, shares[g])
    BY <1>1, <2>1, LenProperties DEF Update, ShareShape, Last
  <2> QED BY <1>1, <1>2, <2>2, <2>3, ShareKeeps
<1> QED BY <1>3, <1>4

LEMMA EndConnKeeps ==
  ASSUME ShareInv, NEW c \in Peer, EndConn(c) PROVE ShareInv'
<1> DEFINE g == conn[c].of
           s == [shares[g] EXCEPT !.active = @ - 1]
           After(h) == {o \in Peer : conn'[o].of = h /\ conn'[o].pc \in Served}
<1>1. /\ ShareShape /\ Counted /\ conn[c].pc = "ending"
      /\ UNCHANGED <<shareSlot, starter, stopper>> /\ g \in 1 .. Last
      /\ Update(g, s) /\ conn' = [conn EXCEPT ![c].pc = "closed"]
  BY DEF ShareInv, ShareShape, EndConn
<1>2. /\ shares[g] \in ShareState /\ LoopTells(shares[g])
      /\ shareSlot = g => Settled(shares[g])
      /\ starter.pc = "forwards" /\ g = Last =>
           shares[g].loop = "none" /\ shares[g].main = "open"
      /\ Last \in Nat
  BY <1>1, ShareIs
<1>3. /\ ConnsStay /\ conn'[c].pc = "closed" /\ conn'[c].of = g
      /\ \A o \in Peer \ {c} : conn'[o] = conn[o]
  BY <1>1, ConnMoves
<1>4. After(g) = Engaged(g) \ {c} /\ c \in Engaged(g)
  BY <1>1, <1>3 DEF Engaged, Served
<1>5. \A h : h # g => After(h) = Engaged(h)
  BY <1>1, <1>3 DEF Engaged, Served
<1> HIDE DEF After
<1>6. /\ IsFiniteSet(Engaged(g)) /\ shares[g].active = Cardinality(Engaged(g))
  BY <1>1 DEF Counted
<1>7. /\ IsFiniteSet(After(g)) /\ Cardinality(After(g)) = shares[g].active - 1
      /\ Cardinality(After(g)) \in Nat
  BY <1>4, <1>6, FS_RemoveElement, FS_CardinalityType
<1>8. /\ s \in ShareState /\ s.active = shares[g].active - 1
      /\ s.loop = shares[g].loop /\ s.main = shares[g].main
      /\ s.live = shares[g].live
  BY <1>2, <1>7 DEF ShareState
<1> HIDE DEF s
<1>9. LoopTells(s) /\ (shareSlot = g => Settled(s))
  BY <1>2, <1>8 DEF LoopTells, Settled
<1>10. LoopsShape' /\ SlotShape'
  BY <1>1, <1>2, <1>8, <1>9, LoopsKeep
<1>11. /\ shares' \in Seq(ShareState) /\ Len(shares') = Len(shares)
       /\ \A h \in 1 .. Last : shares'[h] = IF h = g THEN s ELSE shares[h]
  BY <1>1, <1>8, Updated DEF ShareShape
<1>12. ShareShape'
  BY <1>1, <1>3, <1>11, ShapeKeeps
<1>13. \A h \in 1 .. Last : /\ IsFiniteSet(After(h))
                            /\ shares'[h].active = Cardinality(After(h))
  BY <1>1, <1>5, <1>7, <1>8, <1>11 DEF Counted
<1>14. Last' = Last
  BY <1>11 DEF Last
<1>15. Counted'
  BY <1>13, <1>14 DEF Counted, Engaged, After
<1> QED BY <1>10, <1>12, <1>15 DEF ShareInv

LEMMA ConnectKeeps ==
  ASSUME ShareInv, NEW c \in Peer, NEW ok \in BOOLEAN, ConnectUpstream(c, ok)
  PROVE  ShareInv'
<1> DEFINE g == conn[c].of
           cancelled == ok /\ shares[g].permit
           pc == IF ok /\ ~cancelled THEN "splice" ELSE "ending"
           s == [shares[g] EXCEPT !.permit = @ /\ ~cancelled]
<1>1. /\ ShareShape /\ conn[c].pc = "upstream"
      /\ UNCHANGED <<shareSlot, starter, stopper>> /\ g \in 1 .. Last
      /\ Update(g, s) /\ conn' = [conn EXCEPT ![c].pc = pc]
      /\ pc \in {"splice", "ending"}
  BY DEF ShareInv, ShareShape, ConnectUpstream
<1>2. /\ shares[g] \in ShareState /\ LoopTells(shares[g])
      /\ shareSlot = g => Settled(shares[g])
      /\ starter.pc = "forwards" /\ g = Last =>
           shares[g].loop = "none" /\ shares[g].main = "open"
  BY <1>1, ShareIs
<1>3. /\ s \in ShareState /\ s.active = shares[g].active
      /\ s.loop = shares[g].loop /\ s.main = shares[g].main
      /\ s.live = shares[g].live
  BY <1>2 DEF ShareState
<1> HIDE DEF s, pc
<1>4. LoopTells(s) /\ (shareSlot = g => Settled(s))
  BY <1>2, <1>3 DEF LoopTells, Settled
<1>5. ConnsStay /\ ServiceStays
  BY <1>1, ConnMoves DEF Served
<1> QED BY <1>1, <1>2, <1>3, <1>4, <1>5, ShareKeeps

LEMMA HangUpKeeps ==
  ASSUME ShareInv, NEW c \in Peer, HangUp(c) PROVE ShareInv'
<1> DEFINE g == conn[c].of
<1>1. /\ ShareShape /\ conn[c].pc = "splice" /\ g \in 1 .. Last
      /\ UNCHANGED <<shareSlot, starter, stopper, shares>>
      /\ conn' = [conn EXCEPT ![c].pc = "ending"]
  BY DEF ShareInv, ShareShape, HangUp
<1>2. /\ shares[g] \in ShareState /\ LoopTells(shares[g])
      /\ shareSlot = g => Settled(shares[g])
      /\ starter.pc = "forwards" /\ g = Last =>
           shares[g].loop = "none" /\ shares[g].main = "open"
  BY <1>1, ShareIs
<1>3. ConnsStay /\ ServiceStays
  BY <1>1, ConnMoves DEF Served
<1>4. Update(g, shares[g])
  BY <1>1, LenProperties DEF Update, ShareShape, Last
<1> QED BY <1>1, <1>2, <1>3, <1>4, ShareKeeps

\* notify_waiters ends copies; what is ended is served until it has ended.
LEMMA WokenStays ==
  ASSUME ShareShape, NEW g, Woken(g) PROVE ConnsStay /\ ServiceStays
<1>1. conn \in [Peer -> ConnState]
  BY DEF ShareShape
<1>2. ASSUME NEW c \in Peer
      PROVE  /\ conn'[c] \in ConnState /\ conn'[c].of = conn[c].of
             /\ conn'[c] = conn[c] \/ conn[c].pc # "idle"
             /\ conn'[c].pc \in Served <=> conn[c].pc \in Served
  <2>1. conn[c] \in ConnState
    BY <1>1
  <2>2. CASE conn[c].of = g /\ conn[c].pc = "splice"
    <3>1. conn'[c] = [conn[c] EXCEPT !.pc = "ending"]
      BY <2>2 DEF Woken
    <3> QED BY <2>1, <2>2, <3>1 DEF ConnState, Served
  <2>3. CASE ~(conn[c].of = g /\ conn[c].pc = "splice")
    <3>1. conn'[c] = conn[c]
      BY <2>3 DEF Woken
    <3> QED BY <2>1, <3>1
  <2> QED BY <2>2, <2>3
<1>3. conn' \in [Peer -> ConnState]
  <2>1. conn' = [c \in Peer |-> conn'[c]]
    BY DEF Woken
  <2> QED BY <1>2, <2>1
<1> QED BY <1>2, <1>3 DEF ConnsStay, ServiceStays

LEMMA ExpireKeeps ==
  ASSUME ShareInv, NEW g \in 1 .. Last, Expire(g) PROVE ShareInv'
<1> DEFINE t == WakeForwards(shares[g])
<1>1. /\ shares[g] \in ShareState
      /\ starter.pc = "forwards" /\ g = Last => shares[g].loop = "none"
      /\ shares[g].loop = "parked"
  BY ShareIs DEF Expire
<1>2. /\ Update(g, Close(t)) /\ UNCHANGED <<shareSlot, starter, stopper>>
      /\ Woken(g) /\ ShareShape
  BY DEF Expire, ShareInv
<1>3. t \in ShareState /\ t.active = shares[g].active
  <2> DEFINE fwd == [p \in ForwardPort |->
                IF shares[g].fwd[p] = "open" THEN "closed" ELSE shares[g].fwd[p]]
  <2>1. t = [shares[g] EXCEPT !.fwd = fwd]
    BY <1>1 DEF WakeForwards, ShareState
  <2>2. fwd \in [ForwardPort -> {"none", "open", "aborted", "closed"}]
    BY <1>1 DEF ShareState
  <2> HIDE DEF t, fwd
  <2> QED BY <1>1, <2>1, <2>2 DEF ShareState
<1> HIDE DEF t
<1>4. /\ Close(t) \in ShareState /\ Close(t).active = shares[g].active
      /\ LoopTells(Close(t)) /\ Settled(Close(t))
  BY <1>3, Closed
<1>5. ConnsStay /\ ServiceStays
  BY <1>2, WokenStays
<1> HIDE DEF Close
<1> QED BY <1>1, <1>2, <1>4, <1>5, ShareKeeps

\* A forward port closes, or an accept loop that was aborted lets go.
LEMMA PortKeeps ==
  ASSUME ShareInv, NEW g \in 1 .. Last, NEW p \in ForwardPort,
         Update(g, [shares[g] EXCEPT !.fwd[p] = "closed"]),
         UNCHANGED <<shareSlot, starter, stopper, conn>>
  PROVE  ShareInv'
<1> DEFINE s == [shares[g] EXCEPT !.fwd[p] = "closed"]
<1>1. /\ shares[g] \in ShareState /\ LoopTells(shares[g])
      /\ shareSlot = g => Settled(shares[g])
      /\ starter.pc = "forwards" /\ g = Last =>
           shares[g].loop = "none" /\ shares[g].main = "open"
  BY ShareIs
<1>2. /\ s \in ShareState /\ s.active = shares[g].active
      /\ s.loop = shares[g].loop /\ s.main = shares[g].main
      /\ s.live = shares[g].live
  BY <1>1 DEF ShareState
<1> HIDE DEF s
<1>3. LoopTells(s) /\ (shareSlot = g => Settled(s))
  BY <1>1, <1>2 DEF LoopTells, Settled
<1>4. ConnsStay /\ ServiceStays
  BY DEF ShareInv, ShareShape, ConnsStay, ServiceStays
<1>5. Update(g, s)
  BY DEF s
<1> QED BY <1>1, <1>2, <1>3, <1>4, <1>5, ShareKeeps

LEMMA AbortKeeps ==
  ASSUME ShareInv, NEW g \in 1 .. Last, Aborts(g) PROVE ShareInv'
<1>1. ASSUME NEW p \in ForwardPort, 
             Update(g, [shares[g] EXCEPT !.fwd[p] = "closed"]),
             UNCHANGED <<shareSlot, starter, stopper, conn>>
      PROVE  ShareInv'
  BY <1>1, PortKeeps
<1>2. ASSUME shares[g].loop = "aborted",
             Update(g, [shares[g] EXCEPT !.loop = "ended", !.main = "closed"]),
             UNCHANGED <<shareSlot, starter, stopper, conn>>
      PROVE  ShareInv'
  <2> DEFINE s == [shares[g] EXCEPT !.loop = "ended", !.main = "closed"]
  <2>1. /\ shares[g] \in ShareState
        /\ shareSlot = g => Settled(shares[g])
        /\ starter.pc = "forwards" /\ g = Last => shares[g].loop = "none"
    BY ShareIs
  <2>2. shareSlot # g
    BY <1>2, <2>1 DEF Settled
  <2>3. /\ s \in ShareState /\ s.active = shares[g].active
        /\ s.loop = "ended" /\ s.main = "closed"
    BY <2>1 DEF ShareState
  <2>4. Update(g, s)
    BY <1>2
  <2> HIDE DEF s
  <2>5. LoopTells(s)
    BY <2>3 DEF LoopTells
  <2>6. ConnsStay /\ ServiceStays
    BY <1>2 DEF ShareInv, ShareShape, ConnsStay, ServiceStays
  <2> QED BY <1>2, <2>1, <2>2, <2>3, <2>4, <2>5, <2>6, ShareKeeps
<1> QED BY <1>1, <1>2 DEF Aborts

\* A loop that is given up is aborted: not that of the slot, and not that of a
\* share being started.
LEMMA GiveUpKeeps ==
  ASSUME ShareInv, NEW g \in 1 .. Last, GiveUp(g), shareSlot # g,
         ~(starter.pc = "forwards" /\ g = Last),
         UNCHANGED <<shareSlot, starter, conn>>, stopper' \in {0, stopper}
  PROVE  ShareInv'
<1> DEFINE s == [shares[g] EXCEPT !.loop = "aborted"]
<1>1. shares[g] \in ShareState
  BY ShareIs
<1>2. s \in ShareState /\ s.active = shares[g].active /\ s.loop = "aborted"
  BY <1>1 DEF ShareState
<1>3. Update(g, s)
  BY DEF GiveUp
<1> HIDE DEF s
<1>4. LoopTells(s)
  BY <1>2 DEF LoopTells
<1>5. ConnsStay /\ ServiceStays
  BY DEF ShareInv, ShareShape, ConnsStay, ServiceStays
<1> QED BY <1>2, <1>3, <1>4, <1>5, ShareKeeps

LEMMA StopDoneKeeps == ShareInv /\ StopDone => ShareInv'
<1> SUFFICES ASSUME ShareInv, StopDone PROVE ShareInv'
  OBVIOUS
<1>1. /\ stopper # 0 /\ stopper' = 0 /\ UNCHANGED <<shareSlot, starter, conn>>
      /\ ShareShape /\ SlotShape
  BY DEF StopDone, ShareInv
<1>2. stopper \in 1 .. Last /\ Last \in Nat
  BY <1>1, LenProperties DEF ShareShape, Last
<1>3. shareSlot # stopper /\ ~(starter.pc = "forwards" /\ stopper = Last)
  BY <1>1, <1>2 DEF SlotShape
<1>4. CASE GiveUp(stopper)
  BY <1>1, <1>2, <1>3, <1>4, GiveUpKeeps
<1>5. CASE UNCHANGED shares
  <2>1. /\ shares[stopper] \in ShareState /\ LoopTells(shares[stopper])
    BY <1>2, ShareIs
  <2>2. Update(stopper, shares[stopper])
    BY <1>1, <1>2, <1>5, LenProperties DEF Update, ShareShape, Last
  <2>3. ConnsStay /\ ServiceStays
    BY <1>1 DEF ShareShape, ConnsStay, ServiceStays
  <2> QED BY <1>1, <1>2, <1>3, <2>1, <2>2, <2>3, ShareKeeps
<1> QED BY <1>4, <1>5 DEF StopDone

\* The starter moves on with the shares as they are, or the slot is emptied.
LEMMA StarterKeeps ==
  ASSUME ShareInv, UNCHANGED <<shares, conn>>,
         shareSlot' \in {0, shareSlot}, stopper' \in {0, stopper},
         starter' \in [pc : {"idle", "stopping", "bind", "forwards"},
                       kind : ShareKind \cup {NoStart.kind}, old : 0 .. Last,
                       had : BOOLEAN],
         starter'.pc # "idle" => starter'.kind \in ShareKind /\ shareSlot' = 0,
         starter'.pc # "forwards",
         starter'.pc = "stopping" => starter'.old \in 1 .. Last
  PROVE  ShareInv'
<1>1. /\ ShareShape /\ LoopsShape /\ SlotShape /\ Counted /\ Last \in Nat
      /\ Last' = Last
  BY LenProperties DEF ShareInv, ShareShape, Last
<1>2. ShareShape'
  BY <1>1 DEF ShareShape
<1>3. SlotShape'
  BY <1>1 DEF SlotShape, ShareShape, Settled
<1>4. LoopsShape' /\ Counted'
  BY <1>1 DEF LoopsShape, LoopTells, Counted, Engaged
<1> QED BY <1>2, <1>3, <1>4 DEF ShareInv

\* A share is told to stop, and the slot emptied.
LEMMA SignalKeeps ==
  ASSUME ShareInv, starter.pc = "idle", shareSlot # 0, Signal(shareSlot),
         shareSlot' = 0, stopper' \in {stopper, shareSlot},
         starter' \in [pc : {"idle", "stopping"}, kind : ShareKind \cup {NoStart.kind},
                       old : 0 .. Last, had : BOOLEAN],
         starter'.pc = "stopping" =>
           starter'.kind \in ShareKind /\ starter'.old \in 1 .. Last
  PROVE  ShareInv'
<1> DEFINE g == shareSlot
           t == WakeLoop(shares[g])
           fwd == [p \in ForwardPort |->
                     IF t.fwd[p] = "open" THEN "aborted" ELSE t.fwd[p]]
           s == [t EXCEPT !.permit = TRUE, !.fwd = fwd]
<1>1. /\ ShareShape /\ LoopsShape /\ SlotShape /\ Counted /\ Last \in Nat
      /\ g \in 1 .. Last
  BY LenProperties DEF ShareInv, ShareShape, Last
<1>2. shares[g] \in ShareState /\ LoopTells(shares[g])
  BY <1>1, ShareIs
<1>3. t \in ShareState /\ LoopTells(t) /\ t.active = shares[g].active
  BY <1>2, Closed DEF WakeLoop
<1>4. Update(g, s) /\ Woken(g)
  BY <1>3 DEF Signal, ShareState
<1> HIDE DEF t
<1>5. fwd \in [ForwardPort -> {"none", "open", "aborted", "closed"}]
  BY <1>3 DEF ShareState
<1> HIDE DEF fwd
<1>6. /\ s \in ShareState /\ s.active = shares[g].active
      /\ s.loop = t.loop /\ s.main = t.main /\ s.live = t.live
  BY <1>3, <1>5 DEF ShareState
<1> HIDE DEF s
<1>7. LoopTells(s)
  BY <1>3, <1>6 DEF LoopTells
<1>8. ConnsStay /\ ServiceStays
  BY <1>1, <1>4, WokenStays
<1>9. /\ shares' \in Seq(ShareState) /\ Len(shares') = Len(shares)
      /\ \A h \in 1 .. Last : shares'[h] = IF h = g THEN s ELSE shares[h]
  BY <1>1, <1>4, <1>6, Updated DEF ShareShape
<1>10. Last' = Last
  BY <1>9 DEF Last
<1>11. LoopsShape'
  BY <1>1, <1>7, <1>9, <1>10 DEF LoopsShape, LoopTells
<1>12. Counted'
  BY <1>1, <1>6, <1>8, <1>9, CountKeeps DEF ServiceStays
<1>13. SlotShape'
  BY DEF SlotShape
<1>14. ShareShape'
  <2>1. \A c \in Peer : /\ conn'[c].of <= Last
                        /\ conn'[c].pc # "idle" => conn'[c].of \in 1 .. Last
    <3> TAKE c \in Peer
    <3>1. /\ conn[c].of <= Last
          /\ conn[c].pc # "idle" => conn[c].of \in 1 .. Last
      BY <1>1 DEF ShareShape
    <3>2. \/ conn'[c] = conn[c]
          \/ conn'[c].of = conn[c].of /\ conn[c].pc # "idle"
          \/ conn'[c].of \in 1 .. Last
      BY <1>8 DEF ConnsStay
    <3> QED BY <1>1, <3>1, <3>2
  <2>2. conn' \in [Peer -> ConnState]
    BY <1>8 DEF ConnsStay
  <2>3. shareSlot' \in 0 .. Last /\ stopper' \in 0 .. Last
    BY <1>1 DEF ShareShape
  <2>4. /\ starter' \in [pc : {"idle", "stopping", "bind", "forwards"},
                         kind : ShareKind \cup {NoStart.kind}, old : 0 .. Last,
                         had : BOOLEAN]
        /\ starter'.pc # "idle" => starter'.pc = "stopping"
    OBVIOUS
  <2> QED BY <1>1, <1>9, <1>10, <2>1, <2>2, <2>3, <2>4 DEF ShareShape
<1> QED BY <1>11, <1>12, <1>13, <1>14 DEF ShareInv

\* What the starter can come to.
Starters == [pc : {"idle", "stopping", "bind", "forwards"},
             kind : ShareKind \cup {NoStart.kind}, old : 0 .. Last,
             had : BOOLEAN]
LEMMA StarterIs ==
  ASSUME ShareInv
  PROVE  /\ starter \in Starters /\ NoStart \in Starters /\ NoStart.pc = "idle"
         /\ starter.pc # "idle" => starter.kind \in ShareKind /\ shareSlot = 0
         /\ starter.pc = "stopping" => starter.old \in 1 .. Last
         /\ Last \in Nat
<1>1. ShareShape /\ SlotShape
  BY DEF ShareInv
<1>2. Last \in Nat
  BY <1>1, LenProperties DEF ShareShape, Last
<1> QED BY <1>1, <1>2 DEF Starters, ShareShape, SlotShape, NoStart

LEMMA StartKeeps ==
  ASSUME ShareInv, NEW kind \in ShareKind, Start(kind) PROVE ShareInv'
<1>1. /\ starter.pc = "idle" /\ shareSlot' = 0 /\ UNCHANGED stopper
      /\ Last \in Nat /\ shareSlot \in 0 .. Last
  BY StarterIs DEF Start, Unlocked, ShareInv, ShareShape
<1>2. CASE shareSlot # 0
  <2>1. /\ Signal(shareSlot)
        /\ starter' = [pc |-> "stopping", kind |-> kind, old |-> shareSlot,
                       had |-> TRUE]
    BY <1>2 DEF Start
  <2> QED BY <1>1, <1>2, <2>1, SignalKeeps
<1>3. CASE shareSlot = 0
  <2>1. /\ starter' = [pc |-> "bind", kind |-> kind, old |-> 0, had |-> FALSE]
        /\ UNCHANGED <<shares, conn>>
    BY <1>3 DEF Start
  <2> QED BY <1>1, <2>1, StarterKeeps
<1> QED BY <1>2, <1>3

LEMMA ShareStopKeeps == ShareInv /\ ShareStop => ShareInv'
<1> SUFFICES ASSUME ShareInv, ShareStop PROVE ShareInv'
  OBVIOUS
<1>1. /\ starter.pc = "idle" /\ shareSlot # 0 /\ stopper = 0 /\ shareSlot' = 0
      /\ UNCHANGED starter /\ starter \in Starters /\ Last \in Nat
  BY StarterIs DEF ShareStop, Unlocked
<1>2. CASE shares[shareSlot].live
  <2>1. Signal(shareSlot) /\ stopper' = shareSlot
    BY <1>2 DEF ShareStop
  <2>2. starter' \in [pc : {"idle", "stopping"},
                      kind : ShareKind \cup {NoStart.kind},
                      old : 0 .. Last, had : BOOLEAN]
    BY <1>1 DEF Starters
  <2> QED BY <1>1, <2>1, <2>2, SignalKeeps
<1>3. CASE ~shares[shareSlot].live
  <2>1. UNCHANGED <<shares, conn, stopper>>
    BY <1>3 DEF ShareStop
  <2> QED BY <1>1, <2>1, StarterKeeps DEF Starters
<1> QED BY <1>2, <1>3

\* A step of the starter and of one share, with nothing in the slot.
LEMMA LoopAndStarterKeep ==
  ASSUME ShareInv, NEW g \in 1 .. Last, NEW s \in ShareState, Update(g, s),
         LoopTells(s), s.active = shares[g].active,
         shareSlot = 0, UNCHANGED <<shareSlot, stopper, conn>>,
         starter' \in Starters, starter'.pc \in {"idle", "bind"},
         starter'.pc = "bind" => starter'.kind \in ShareKind
  PROVE  ShareInv'
<1>1. /\ ShareShape /\ LoopsShape /\ Counted
  BY DEF ShareInv
<1>2. /\ shares' \in Seq(ShareState) /\ Len(shares') = Len(shares)
      /\ \A h \in 1 .. Last : shares'[h] = IF h = g THEN s ELSE shares[h]
  BY <1>1, Updated DEF ShareShape
<1>3. Last' = Last
  BY <1>2 DEF Last
<1>4. LoopsShape'
  BY <1>1, <1>2, <1>3 DEF LoopsShape, LoopTells
<1>5. Counted'
  BY <1>1, <1>2, CountKeeps
<1>6. SlotShape'
  BY DEF SlotShape
<1>7. ShareShape'
  BY <1>1, <1>2, <1>3 DEF ShareShape, Starters
<1> QED BY <1>4, <1>5, <1>6, <1>7 DEF ShareInv

LEMMA StartStoppedKeeps == ShareInv /\ StartStopped => ShareInv'
<1> SUFFICES ASSUME ShareInv, StartStopped PROVE ShareInv'
  OBVIOUS
<1> DEFINE next == [starter EXCEPT !.pc = "bind"]
<1>1. /\ starter.pc = "stopping" /\ starter' = next
      /\ UNCHANGED <<shareSlot, stopper, conn>>
      /\ starter \in Starters /\ starter.kind \in ShareKind /\ shareSlot = 0
      /\ starter.old \in 1 .. Last /\ Last \in Nat
  BY StarterIs DEF StartStopped
<1>2. next \in Starters /\ next.pc = "bind" /\ next.kind \in ShareKind
  BY <1>1 DEF Starters
<1> HIDE DEF next
<1>3. CASE UNCHANGED shares
  BY <1>1, <1>2, <1>3, StarterKeeps DEF Starters
<1>4. CASE GiveUp(starter.old)
  <2> DEFINE g == starter.old
             s == [shares[g] EXCEPT !.loop = "aborted"]
  <2>1. /\ ShareShape /\ LoopsShape /\ Counted /\ shares[g] \in ShareState
    BY <1>1, ShareIs DEF ShareInv
  <2>2. s \in ShareState /\ s.active = shares[g].active /\ s.loop = "aborted"
    BY <2>1 DEF ShareState
  <2>3. Update(g, s)
    BY <1>4 DEF GiveUp
  <2> HIDE DEF s
  <2>4. LoopTells(s)
    BY <2>2 DEF LoopTells
  <2> QED BY <1>1, <1>2, <2>2, <2>3, <2>4, LoopAndStarterKeep
<1> QED BY <1>3, <1>4 DEF StartStopped

\* An attempt fails, and is made again or given up.
LEMMA FailedStarter ==
  ASSUME ShareInv, starter.pc # "idle", BindFailed
  PROVE  /\ starter' \in Starters /\ starter'.pc \in {"idle", "bind"}
         /\ starter'.pc = "bind" => starter'.kind \in ShareKind
         /\ shareSlot = 0
<1>1. starter \in Starters /\ starter.kind \in ShareKind /\ shareSlot = 0
      /\ NoStart \in Starters /\ NoStart.pc = "idle"
  BY StarterIs
<1>2. CASE starter' = NoStart
  BY <1>1, <1>2
<1>3. CASE starter' = [starter EXCEPT !.pc = "bind"]
  BY <1>1, <1>3 DEF Starters
<1> QED BY <1>1, <1>2, <1>3 DEF BindFailed

\* A new share is bound: nobody is served by it yet.
LEMMA BoundKeeps ==
  ASSUME ShareInv, starter.pc = "bind",
         shares' = Append(shares, Attempt(starter.kind)),
         starter' = [starter EXCEPT !.pc = "forwards"],
         UNCHANGED <<shareSlot, stopper, conn>>
  PROVE  ShareInv'
<1> DEFINE new == Attempt(starter.kind)
<1>1. /\ ShareShape /\ LoopsShape /\ Counted /\ Last \in Nat
      /\ starter \in Starters /\ starter.kind \in ShareKind /\ shareSlot = 0
  BY StarterIs DEF ShareInv
<1>2. /\ new \in ShareState /\ new.loop = "none" /\ new.main = "open"
      /\ new.active = 0
  BY <1>1, ShareAssumption DEF Attempt, ShareState
<1> HIDE DEF new
<1>3. /\ shares' \in Seq(ShareState) /\ Len(shares') = Len(shares) + 1
      /\ \A g \in 1 .. Last : shares'[g] = shares[g]
      /\ shares'[Last + 1] = new
  <2>1. shares' = Append(shares, new)
    BY DEF new
  <2> QED BY <1>1, <1>2, <2>1, AppendProperties DEF ShareShape, Last
<1>4. Last' = Last + 1
  BY <1>3 DEF Last
<1>5. \A g \in 1 .. Last + 1 : g \in 1 .. Last \/ g = Last + 1
  BY <1>1
<1>6. LoopsShape'
  <2>1. LoopTells(new)
    BY <1>2 DEF LoopTells
  <2>2. \A g \in 1 .. Last + 1 : LoopTells(shares'[g])
    BY <1>1, <1>3, <1>5, <2>1 DEF LoopsShape
  <2> QED BY <1>4, <2>2 DEF LoopsShape, LoopTells
<1>7. SlotShape'
  <2>1. starter'.pc = "forwards"
    BY <1>1 DEF Starters
  <2>2. stopper < Last + 1
    BY <1>1 DEF ShareShape
  <2> QED BY <1>1, <1>2, <1>3, <1>4, <2>1, <2>2 DEF SlotShape
<1>8. Counted'
  <2>1. Engaged(Last + 1) = {}
    <3>1. \A c \in Peer : conn[c].of # Last + 1
      BY <1>1 DEF ShareShape, ConnState
    <3> QED BY <3>1 DEF Engaged
  <2>2. IsFiniteSet(Engaged(Last + 1)) /\ Cardinality(Engaged(Last + 1)) = 0
    BY <2>1, FS_EmptySet
  <2>3. \A g \in 1 .. Last + 1 : /\ IsFiniteSet(Engaged(g))
                                 /\ shares'[g].active = Cardinality(Engaged(g))
    BY <1>1, <1>2, <1>3, <1>5, <2>2 DEF Counted
  <2> QED BY <1>4, <2>3 DEF Counted, Engaged
<1>9. ShareShape'
  <2>1. /\ starter'.pc = "forwards" /\ starter'.kind \in ShareKind
        /\ starter' \in [pc : {"idle", "stopping", "bind", "forwards"},
                         kind : ShareKind \cup {NoStart.kind}, old : 0 .. Last + 1,
                         had : BOOLEAN]
    BY <1>1 DEF Starters
  <2>2. \A c \in Peer : /\ conn[c].of <= Last + 1
                        /\ conn[c].pc # "idle" => conn[c].of \in 1 .. Last + 1
    BY <1>1 DEF ShareShape, ConnState
  <2>3. shareSlot \in 0 .. Last + 1 /\ stopper \in 0 .. Last + 1
    BY <1>1 DEF ShareShape
  <2> QED BY <1>1, <1>3, <1>4, <2>1, <2>2, <2>3 DEF ShareShape
<1> QED BY <1>6, <1>7, <1>8, <1>9 DEF ShareInv

LEMMA BindKeeps == ShareInv /\ Bind => ShareInv'
<1> SUFFICES ASSUME ShareInv, Bind PROVE ShareInv'
  OBVIOUS
<1>1. starter.pc = "bind" /\ UNCHANGED <<shareSlot, stopper, conn>>
  BY DEF Bind
<1>2. CASE /\ shares' = Append(shares, Attempt(starter.kind))
           /\ starter' = [starter EXCEPT !.pc = "forwards"]
  BY <1>1, <1>2, BoundKeeps
<1>3. CASE BindFailed /\ UNCHANGED shares
  <2>1. /\ starter' \in Starters /\ starter'.pc \in {"idle", "bind"}
        /\ starter'.pc = "bind" => starter'.kind \in ShareKind
        /\ shareSlot = 0
    BY <1>1, <1>3, FailedStarter
  <2> QED BY <1>1, <1>3, <2>1, StarterKeeps DEF Starters
<1> QED BY <1>2, <1>3 DEF Bind

LEMMA BindForwardKeeps == ShareInv /\ BindForward => ShareInv'
<1> SUFFICES ASSUME ShareInv, BindForward PROVE ShareInv'
  OBVIOUS
<1>1. /\ starter.pc = "forwards" /\ UNCHANGED <<shareSlot, stopper, conn>>
      /\ ShareShape /\ SlotShape /\ Last \in Nat /\ shareSlot = 0
  BY StarterIs DEF BindForward, ShareInv
<1>2. Last \in 1 .. Last
  BY <1>1 DEF SlotShape, ShareShape
<1>3. /\ shares[Last] \in ShareState /\ LoopTells(shares[Last])
      /\ shares[Last].loop = "none" /\ shares[Last].main = "open"
  BY <1>1, <1>2, ShareIs
<1>4. ASSUME NEW p, Update(Last, [shares[Last] EXCEPT !.fwd[p] = "open"]),
             UNCHANGED starter
      PROVE  ShareInv'
  <2> DEFINE s == [shares[Last] EXCEPT !.fwd[p] = "open"]
  <2>1. [shares[Last].fwd EXCEPT ![p] = "open"]
          \in [ForwardPort -> {"none", "open", "aborted", "closed"}]
    BY <1>3 DEF ShareState
  <2>2. s = [shares[Last] EXCEPT !.fwd = [shares[Last].fwd EXCEPT ![p] = "open"]]
    BY <1>3 DEF ShareState
  <2>3. Update(Last, s)
    BY <1>4
  <2> HIDE DEF s
  <2>4. /\ s \in ShareState /\ s.active = shares[Last].active
        /\ s.loop = "none" /\ s.main = "open"
    BY <1>3, <2>1, <2>2 DEF ShareState
  <2>5. LoopTells(s)
    BY <2>4 DEF LoopTells
  <2>6. ConnsStay /\ ServiceStays
    BY <1>1 DEF ShareShape, ConnsStay, ServiceStays
  <2> QED BY <1>1, <1>2, <1>4, <2>3, <2>4, <2>5, <2>6, ShareKeeps
<1>5. ASSUME Update(Last, [shares[Last] EXCEPT !.main = "closed",
                                               !.loop = "ended"]),
             BindFailed
      PROVE  ShareInv'
  <2> DEFINE s == [shares[Last] EXCEPT !.main = "closed", !.loop = "ended"]
  <2>1. /\ s \in ShareState /\ s.active = shares[Last].active
        /\ s.loop = "ended" /\ s.main = "closed"
    BY <1>3 DEF ShareState
  <2>2. Update(Last, s)
    BY <1>5
  <2> HIDE DEF s
  <2>3. LoopTells(s)
    BY <2>1 DEF LoopTells
  <2>4. /\ starter' \in Starters /\ starter'.pc \in {"idle", "bind"}
        /\ starter'.pc = "bind" => starter'.kind \in ShareKind
    BY <1>1, <1>5, FailedStarter
  <2> QED BY <1>1, <1>2, <2>1, <2>2, <2>3, <2>4, LoopAndStarterKeep
<1> QED BY <1>4, <1>5 DEF BindForward

\* The slot is filled with a share that takes connections.
LEMMA StartDoneKeeps == ShareInv /\ StartDone => ShareInv'
<1> SUFFICES ASSUME ShareInv, StartDone PROVE ShareInv'
  OBVIOUS
<1> DEFINE s == [shares[Last] EXCEPT !.loop = "parked", !.live = TRUE]
<1>1. /\ starter.pc = "forwards" /\ UNCHANGED <<stopper, conn>>
      /\ ShareShape /\ LoopsShape /\ SlotShape /\ Counted /\ Last \in Nat
      /\ shareSlot' = Last /\ starter' = NoStart /\ Update(Last, s)
      /\ NoStart \in Starters /\ NoStart.pc = "idle"
  BY StarterIs DEF StartDone, ShareInv
<1>2. Last \in 1 .. Last /\ stopper < Last
  BY <1>1 DEF SlotShape, ShareShape
<1>3. shares[Last] \in ShareState /\ shares[Last].main = "open"
  BY <1>1, <1>2, ShareIs
<1>4. /\ s \in ShareState /\ s.active = shares[Last].active
      /\ s.loop = "parked" /\ s.main = "open" /\ s.live
  BY <1>3 DEF ShareState
<1> HIDE DEF s
<1>5. LoopTells(s) /\ Settled(s)
  BY <1>4 DEF LoopTells, Settled
<1>6. /\ shares' \in Seq(ShareState) /\ Len(shares') = Len(shares)
      /\ \A h \in 1 .. Last : shares'[h] = IF h = Last THEN s ELSE shares[h]
  BY <1>1, <1>2, <1>4, Updated DEF ShareShape
<1>7. Last' = Last
  BY <1>6 DEF Last
<1>8. LoopsShape'
  BY <1>1, <1>5, <1>6, <1>7 DEF LoopsShape, LoopTells
<1>9. Counted'
  BY <1>1, <1>4, <1>6, CountKeeps
<1>10. SlotShape'
  BY <1>1, <1>2, <1>5, <1>6, <1>7 DEF SlotShape, Settled, ShareShape
<1>11. ShareShape'
  BY <1>1, <1>2, <1>6, <1>7 DEF ShareShape, Starters
<1> QED BY <1>8, <1>9, <1>10, <1>11 DEF ShareInv

LEMMA ShareStarts == ShareInit => ShareInv
<1> SUFFICES ASSUME ShareInit PROVE ShareInv
  OBVIOUS
<1>1. /\ shares = <<>> /\ shares \in Seq(ShareState) /\ Last = 0
      /\ conn = [c \in Peer |-> NoConn] /\ shareSlot = 0 /\ stopper = 0
      /\ starter = NoStart
  BY EmptySeq DEF ShareInit, Last
<1>2. ShareShape
  BY <1>1 DEF ShareShape, NoConn, NoStart, ConnState
<1>3. LoopsShape /\ SlotShape /\ Counted
  BY <1>1 DEF LoopsShape, SlotShape, Counted, NoStart
<1> QED BY <1>2, <1>3 DEF ShareInv

LEMMA ShareStep == ShareInv /\ [ShareNext]_shareVars => ShareInv'
<1> SUFFICES ASSUME ShareInv, [ShareNext]_shareVars PROVE ShareInv'
  OBVIOUS
<1>1. ASSUME NEW c \in Peer, NEW ok \in BOOLEAN,
             Handshake(c, ok) \/ ConnectUpstream(c, ok)
      PROVE  ShareInv'
  BY <1>1, HandshakeKeeps, ConnectKeeps
<1>2. ASSUME NEW c \in Peer, HangUp(c) \/ EndConn(c) PROVE ShareInv'
  BY <1>2, HangUpKeeps, EndConnKeeps
<1>3. ASSUME UNCHANGED <<shareSlot, shares, starter, stopper, conn>>
      PROVE  ShareInv'
  BY <1>3 DEF ShareInv, ShareShape, LoopsShape, SlotShape, Counted, LoopTells,
              Settled, Engaged, Last
<1>4. ASSUME NEW c \in Peer, CloseTunnel(c) PROVE ShareInv'
  BY <1>3, <1>4 DEF CloseTunnel
<1>5. ASSUME NEW c \in Peer, NEW g \in 1 .. Last, NEW p \in ForwardPort,
             OpenTunnel(c, g, p)
      PROVE  ShareInv'
  BY <1>3, <1>5 DEF OpenTunnel
<1>6. ASSUME NEW c \in Peer, NEW g \in 1 .. Last, AcceptConn(c, g) PROVE ShareInv'
  BY <1>6, AcceptKeeps
<1>7. ASSUME NEW g \in 1 .. Last, Park(g) \/ Expire(g) \/ Aborts(g) PROVE ShareInv'
  BY <1>7, ParkKeeps, ExpireKeeps, AbortKeeps
<1>8. ASSUME NEW g \in 1 .. Last, NEW p \in ForwardPort, ForwardExpires(g, p)
      PROVE  ShareInv'
  BY <1>8, PortKeeps DEF ForwardExpires
<1>9. ASSUME NEW kind \in ShareKind, Start(kind) PROVE ShareInv'
  BY <1>9, StartKeeps
<1>10. CASE StartStopped \/ Bind \/ BindForward \/ StartDone \/ ShareStop \/ StopDone
  BY <1>10, StartStoppedKeeps, BindKeeps, BindForwardKeeps, StartDoneKeeps,
     ShareStopKeeps, StopDoneKeeps
<1>11. CASE UNCHANGED shareVars
  BY <1>3, <1>11 DEF shareVars
<1> QED BY <1>1, <1>2, <1>4, <1>5, <1>6, <1>7, <1>8, <1>9, <1>10, <1>11
        DEF ShareNext

\* What share.status tells of the slot is true: a share is running exactly
\* while its port is open, and its active connections are those being served
\* (is_live, active_connections).
THEOREM StatusTellsTrue == ShareSpec => []StatusIsTrue
<1>1. ShareInv => StatusIsTrue
  <2> SUFFICES ASSUME ShareInv PROVE StatusIsTrue
    OBVIOUS
  <2>1. shareSlot # 0 =>
          (shares[shareSlot].live <=> shares[shareSlot].main = "open")
    <3> SUFFICES ASSUME shareSlot # 0
                 PROVE  shares[shareSlot].live <=> shares[shareSlot].main = "open"
      OBVIOUS
    <3>1. shareSlot \in 1 .. Last
      BY StarterIs DEF ShareInv, ShareShape
    <3>2. /\ LoopTells(shares[shareSlot]) /\ Settled(shares[shareSlot])
      BY <3>1, ShareIs
    <3> QED BY <3>2 DEF LoopTells, Settled
  <2>2. \A g \in 1 .. Last :
          shares[g].active = Cardinality({c \in Peer :
            conn[c].of = g /\ conn[c].pc \in {"upstream", "splice", "ending"}})
    BY DEF ShareInv, Counted, Engaged, Served
  <2> QED BY <2>1, <2>2 DEF StatusIsTrue
<1> QED BY ShareStarts, ShareStep, <1>1, PTL DEF ShareSpec

-----------------------------------------------------------------------------
(* The types of the parts, and of all of them together.                     *)

\* The caches hold requests, and the inbox no more than it has room for.
CacheShape ==
  cache \in [ListKind -> Seq(Client)] /\ \A k \in ListKind : Len(cache[k]) <= InboxCap

\* What is kept of a list is part of it, and fits.
LEMMA LastOfFits ==
  ASSUME NEW S, NEW s \in Seq(S), NEW n \in Nat
  PROVE  LastOf(s, n) \in Seq(S) /\ Len(LastOf(s, n)) <= n
<1>1. Len(s) \in Nat
  BY LenProperties
<1>2. CASE Len(s) > n
  <2>1. /\ Len(s) - n + 1 \in 1 .. Len(s) + 1 /\ Len(s) \in Len(s) - n .. Len(s)
        /\ Len(s) - n + 1 \in Int /\ Len(s) - (Len(s) - n + 1) + 1 = n
    BY <1>1, <1>2
  <2>2. SubSeq(s, Len(s) - n + 1, Len(s)) \in Seq(S)
        /\ Len(SubSeq(s, Len(s) - n + 1, Len(s))) = n
    BY <1>1, <1>2, <2>1
  <2> QED BY <1>2, <2>2 DEF LastOf
<1>3. CASE ~(Len(s) > n)
  BY <1>1, <1>3 DEF LastOf
<1> QED BY <1>2, <1>3

LEMMA CacheKeeps ==
  ASSUME RequestShape, CacheShape, Record PROVE CacheShape'
<1> DEFINE f == Head(up)
           in == IF f.kind = "sms" THEN LastOf(Append(cache[f.kind], f.of), InboxCap)
                 ELSE <<f.of>>
<1>1. f \in Frames /\ f.of \in Client
  BY Shortened DEF RequestShape, Record, Frames
<1>2. cache' = IF f.kind \notin ListKind THEN cache ELSE [cache EXCEPT ![f.kind] = in]
  BY DEF Record
<1>3. ASSUME f.kind \in ListKind PROVE in \in Seq(Client) /\ Len(in) <= InboxCap
  <2>1. CASE f.kind = "sms"
    <3>1. Append(cache[f.kind], f.of) \in Seq(Client) /\ InboxCap \in Nat
      BY <1>1, <1>3, AppendProperties, RequestsAssumption DEF CacheShape
    <3> HIDE DEF f
    <3> QED BY <2>1, <3>1, LastOfFits
  <2>2. CASE f.kind # "sms"
    <3> HIDE DEF f
    <3> QED BY <1>1, <2>2, RequestsAssumption
  <2> QED BY <2>1, <2>2
<1> HIDE DEF f, in
<1> QED BY <1>2, <1>3 DEF CacheShape

\* The state of requests, caches and slots keeps its types, and no inbox
\* outgrows its cap (record_sms and its kin).
THEOREM RequestsTyping == RequestsSpec => []RequestsTypeOK
<1>1. RequestsInit => CacheShape
  BY EmptySeq, RequestsAssumption DEF RequestsInit, CacheShape
<1>2. RequestsInv /\ CacheShape /\ [RequestsNext]_requestsVars => CacheShape'
  <2> SUFFICES ASSUME RequestsInv, CacheShape, [RequestsNext]_requestsVars
               PROVE  CacheShape'
    OBVIOUS
  <2>1. CASE Record
    BY <2>1, CacheKeeps DEF RequestsInv
  <2>2. CASE UNCHANGED cache
    BY <2>2 DEF CacheShape
  <2>3. [RequestsNext]_requestsVars /\ ~Record => UNCHANGED cache
    BY DEF RequestsNext, requestsVars, Drop, AskList, HandlerStep, Ask, Poll,
           ReadList, Handle, Break, Reconnect, NetworkAnswers
  <2> QED BY <2>1, <2>2, <2>3
<1>3. RequestsInv /\ CacheShape /\ breaks \in Nat /\ linked \in BOOLEAN => RequestsTypeOK
  <2>1. Request = [pc : {"idle", "fire", "poll", "sleep", "answered", "timedout"},
                   kind : Kinds, polls : Nat, result : Client \cup {NoReply},
                   before : SUBSET Client, alone : BOOLEAN]
    <3>1. Fresh.kind \in Kinds
      BY RequestsAssumption DEF Fresh, Kinds
    <3> QED BY <3>1 DEF Request, AnyKind, Reply
  <2> QED BY <2>1 DEF RequestsInv, RequestShape, CacheShape, RequestsTypeOK, Reply
<1>4. RequestsInit => breaks \in Nat /\ linked \in BOOLEAN
  BY DEF RequestsInit
<1>5. (breaks \in Nat /\ linked \in BOOLEAN) /\ [RequestsNext]_requestsVars
        => (breaks \in Nat /\ linked \in BOOLEAN)'
  <2> SUFFICES ASSUME breaks \in Nat, linked \in BOOLEAN,
                      [RequestsNext]_requestsVars
               PROVE  breaks' \in Nat /\ linked' \in BOOLEAN
    OBVIOUS
  <2>1. CASE Break
    <3>1. breaks' \in Nat
      BY <2>1 DEF Break
    <3>2. linked' = FALSE
      BY <2>1, Zenon DEF Break
    <3> QED BY <3>1, <3>2, Zenon
  <2>2. CASE Reconnect
    BY <2>2 DEF Reconnect
  <2>3. [RequestsNext]_requestsVars /\ ~Break /\ ~Reconnect
          => UNCHANGED <<breaks, linked>>
    BY DEF RequestsNext, requestsVars, Drop, AskList, HandlerStep, Ask, Poll,
           ReadList, Record, Handle, NetworkAnswers
  <2> QED BY <2>1, <2>2, <2>3
<1> QED BY RequestsStart, RequestsStep, <1>1, <1>2, <1>3, <1>4, <1>5, PTL
        DEF RequestsSpec

-----------------------------------------------------------------------------
\* Wireless adb: what is shown, told and driven.
DriveShape == [pc : {"idle", "look", "disconnect", "show", "connect", "verify",
                     "done"},
               ep : Port \cup {None}, previous : Port \cup {None},
               may : BOOLEAN, outcome : StatusSet]
LinkShape == [ep : Port \cup {None}, delay : 1 .. MaxRetry, wait : 0 .. MaxRetry]
ServerShape == [Port \cup {Mdns} -> {"absent", "device", "offline", "unauthorized"}]
AdbReport == [wifi : BOOLEAN, port : Port \cup {None}]

PhoneTyped == /\ wifi \in BOOLEAN /\ paired \in BOOLEAN
              /\ adbd \in Port \cup {None} /\ server \in ServerShape
              /\ changes \in Nat
WireTyped == wire \in Seq(AdbReport)
DaemonTyped == /\ busy \in BOOLEAN /\ shown \in StatusSet /\ telling \subseteq StatusSet
               /\ link \in LinkShape /\ drive \in DriveShape
AdbTyped == WatchShape /\ PhoneTyped /\ WireTyped /\ DaemonTyped

LEMMA AdbTypedIs == AdbTyped => AdbLinkTypeOK
  BY DEF AdbTyped, WatchShape, PhoneTyped, WireTyped, DaemonTyped, AdbLinkTypeOK,
         DriveShape, LinkShape, ServerShape, AdbReport

LEMMA Statuses ==
  /\ NoRecord \in StatusSet
  /\ \A p \in Port \cup {None} :
       /\ Status("none", p) \in StatusSet /\ Status("off", p) \in StatusSet
       /\ Status("available", p) \in StatusSet /\ Status("connecting", p) \in StatusSet
       /\ Status("connected", p) \in StatusSet /\ Status("error", p) \in StatusSet
       /\ Status("needs pairing", p) \in StatusSet
       /\ Status("adb not found", p) \in StatusSet
  BY DEF NoRecord, Status, StatusSet

LEMMA AdbStarts == AdbLinkInit => PhoneTyped /\ WireTyped /\ DaemonTyped
<1> SUFFICES ASSUME AdbLinkInit PROVE PhoneTyped /\ WireTyped /\ DaemonTyped
  OBVIOUS
<1>1. PhoneTyped
  BY DEF AdbLinkInit, PhoneTyped, ServerShape
<1>2. WireTyped
  BY EmptySeq DEF AdbLinkInit, WireTyped
<1>3. DaemonTyped
  <2>1. MaxRetry \in Nat /\ 1 <= MaxRetry
    BY AdbLinkAssumption
  <2>2. link \in LinkShape
    <3>1. 1 \in 1 .. MaxRetry /\ 0 \in 0 .. MaxRetry
      BY <2>1
    <3> QED BY <3>1 DEF AdbLinkInit, LinkShape
  <2>3. NoDrive \in DriveShape
    BY Statuses DEF DriveShape, NoDrive
  <2> QED BY <2>2, <2>3, Statuses DEF AdbLinkInit, DaemonTyped
<1> QED BY <1>1, <1>2, <1>3

\* What a phone reports is a report.
LEMMA PokesAre ==
  ASSUME WatchShape, WatchShape', WireTyped
  PROVE  Report(adb') \in AdbReport /\ Poke(adb') \in Seq(AdbReport)
<1>1. Report(adb') \in AdbReport
  BY DEF WatchShape, Report, AdbReport
<1> QED BY <1>1, AppendProperties DEF Poke, WireTyped

LEMMA PhoneKeeps ==
  ASSUME AdbTyped, [AdbLinkNext]_adbLinkVars PROVE PhoneTyped'
<1> USE DEF AdbTyped
<1>1. CASE UNCHANGED <<wifi, paired, adbd, server, changes>>
  BY <1>1 DEF PhoneTyped
<1>2. ASSUME Change \/ UNCHANGED changes PROVE changes' \in Nat
  BY <1>2 DEF Change, PhoneTyped
<1>3. CASE NsdFails \/ Unlink \/ Look \/ Verify
  <2>1. UNCHANGED <<wifi, paired, adbd, server>> /\ (Change \/ UNCHANGED changes)
    BY <1>3 DEF NsdFails, Unlink, Look, Verify, phoneVars
  <2> QED BY <1>2, <2>1 DEF PhoneTyped
<1>4. CASE DisconnectOld
  BY <1>4 DEF DisconnectOld, phoneVars, PhoneTyped, ServerShape
<1>5. CASE RunConnect
  <2>1. /\ UNCHANGED <<wifi, paired, adbd>> /\ (Change \/ UNCHANGED changes)
        /\ server' = [server EXCEPT ![drive.ep] = "device"] \/ server' = server
    BY <1>5 DEF RunConnect, phoneVars
  <2> QED BY <1>2, <2>1 DEF PhoneTyped, ServerShape
<1>6. ASSUME NEW on \in BOOLEAN, NEW p \in Port \cup {None}, AdbdMoves(on, p)
      PROVE  PhoneTyped'
  <2>1. Gone(adbd) \in ServerShape
    BY DEF Gone, PhoneTyped, ServerShape
  <2>2. wifi' = on /\ adbd' = p /\ server' \in {Gone(adbd), server}
        /\ UNCHANGED paired /\ Change
    BY <1>6 DEF AdbdMoves
  <2> QED BY <1>2, <2>1, <2>2 DEF PhoneTyped
<1>7. CASE Pairing
  BY <1>2, <1>7 DEF Pairing, phoneVars, PhoneTyped, ServerShape
<1>8. CASE AdbItself
  BY <1>2, <1>8 DEF AdbItself, phoneVars, PhoneTyped, ServerShape
<1>9. CASE \/ SettingChanged \/ FoundAdb \/ LostAdb
           \/ (\E host \in {"own", "other"}, p \in Port : AdbResolved(host, p))
           \/ ReportPort \/ Relink \/ OnReport \/ ShowConnecting \/ Finish
           \/ (\E s \in telling : Tell(s)) \/ TimePasses \/ UNCHANGED adbLinkVars
  <2>1. UNCHANGED <<wifi, paired, adbd, server, changes>>
    BY <1>9 DEF SettingChanged, FoundAdb, LostAdb, AdbResolved, ReportPort, Relink,
                OnReport, ShowConnecting, Finish, Tell, TimePasses, adbLinkVars,
                phoneVars
  <2> QED BY <1>1, <2>1
<1> QED BY <1>3, <1>4, <1>5, <1>6, <1>7, <1>8, <1>9 DEF AdbLinkNext

LEMMA WireKeeps ==
  ASSUME AdbTyped, WatchShape', [AdbLinkNext]_adbLinkVars PROVE WireTyped'
<1> USE DEF AdbTyped
<1>1. Report(adb) \in AdbReport
  BY DEF WatchShape, Report, AdbReport
<1>2. CASE wire' \in {<<>>, wire}
  BY <1>2, EmptySeq DEF WireTyped
<1>3. CASE wire' \in {Poke(adb'), <<Report(adb')>>, <<Report(adb)>>}
  <2>1. Report(adb') \in AdbReport /\ Poke(adb') \in Seq(AdbReport)
    BY PokesAre
  <2>2. <<Report(adb')>> \in Seq(AdbReport) /\ <<Report(adb)>> \in Seq(AdbReport)
    <3> HIDE DEF AdbTyped
    <3> QED BY <1>1, <2>1
  <2> QED BY <1>3, <2>1, <2>2, Zenon DEF WireTyped
<1>4. CASE OnReport
  BY <1>4, Shortened DEF OnReport, WireTyped
<1>5. [AdbLinkNext]_adbLinkVars /\ ~OnReport =>
        wire' \in {<<>>, wire} \/ wire' \in {Poke(adb'), <<Report(adb')>>, <<Report(adb)>>}
  BY DEF AdbLinkNext, SettingChanged, FoundAdb, LostAdb, NsdFails, AdbResolved,
         ReportPort, Unlink, Relink, Look, DisconnectOld, ShowConnecting,
         RunConnect, Verify, Finish, Tell, TimePasses, AdbdMoves, Pairing,
         AdbItself, adbLinkVars, phoneVars, linkVars
<1> QED BY <1>2, <1>3, <1>4, <1>5

LEMMA DaemonKeeps ==
  ASSUME AdbTyped, [AdbLinkNext]_adbLinkVars PROVE DaemonTyped'
<1> USE DEF AdbTyped
<1>1. /\ busy \in BOOLEAN /\ shown \in StatusSet /\ telling \subseteq StatusSet
      /\ link \in LinkShape /\ drive \in DriveShape
      /\ link.ep \in Port \cup {None} /\ drive.ep \in Port \cup {None}
      /\ drive.outcome \in StatusSet
  BY DEF DaemonTyped, LinkShape, DriveShape
<1>2. ASSUME NEW s \in StatusSet, SetStatus(s) PROVE shown' \in StatusSet
  BY <1>2, Statuses DEF SetStatus
<1>3. NoDrive \in DriveShape
  BY Statuses DEF NoDrive, DriveShape
<1>4. MaxRetry \in Nat /\ 1 \in 1 .. MaxRetry /\ 0 \in 0 .. MaxRetry
  BY AdbLinkAssumption
<1>5. link.delay \in 1 .. MaxRetry /\ link.wait \in 0 .. MaxRetry
  BY <1>1 DEF LinkShape
<1>6. CASE UNCHANGED <<shown, linkVars>>
  BY <1>6 DEF DaemonTyped, linkVars
<1>7. ASSUME Unlink \/ Relink PROVE DaemonTyped'
  <2>1. shown' \in StatusSet /\ UNCHANGED linkVars
    BY <1>7, Statuses DEF Unlink, Relink
  <2> QED BY <2>1 DEF DaemonTyped, linkVars
<1>8. ASSUME OnReport PROVE DaemonTyped'
  <2> DEFINE r == Head(wire)
             changed == link.ep # r.port
  <2>1. r \in AdbReport /\ r.port \in Port \cup {None}
    <3>1. wire # <<>> /\ wire \in Seq(AdbReport)
      BY <1>8 DEF OnReport, WireTyped
    <3>2. r \in AdbReport
      BY <3>1, Shortened
    <3> QED BY <3>2 DEF AdbReport
  <2>2. CASE SetStatus(Status("off", None)) /\ UNCHANGED linkVars
    BY <1>2, <2>2, Statuses DEF DaemonTyped, linkVars
  <2>3. CASE /\ link' = IF changed THEN [ep |-> r.port, delay |-> 1, wait |-> 0]
                        ELSE link
             /\ busy' = TRUE
             /\ drive' = [pc |-> "look", ep |-> r.port,
                          previous |-> IF changed THEN link.ep ELSE None,
                          may |-> changed \/ link.wait = 0,
                          outcome |-> NoRecord]
             /\ SetStatus(IF shown.ep # r.port THEN Status("available", r.port)
                          ELSE shown)
             /\ UNCHANGED telling
    <3> HIDE DEF r
    <3>1. [ep |-> r.port, delay |-> 1, wait |-> 0] \in LinkShape
      BY <2>1, AdbLinkAssumption DEF LinkShape
    <3>2. drive' \in DriveShape
      BY <1>1, <2>1, <2>3, Statuses DEF DriveShape
    <3>3. shown' \in StatusSet
      BY <1>1, <1>2, <2>1, <2>3, Statuses
    <3> QED BY <1>1, <2>3, <3>1, <3>2, <3>3 DEF DaemonTyped
  <2>4. \/ SetStatus(Status("off", None)) /\ UNCHANGED linkVars
        \/ UNCHANGED <<shown, linkVars>>
        \/ /\ link' = IF changed THEN [ep |-> r.port, delay |-> 1, wait |-> 0]
                      ELSE link
           /\ busy' = TRUE
           /\ drive' = [pc |-> "look", ep |-> r.port,
                        previous |-> IF changed THEN link.ep ELSE None,
                        may |-> changed \/ link.wait = 0,
                        outcome |-> NoRecord]
           /\ SetStatus(IF shown.ep # r.port THEN Status("available", r.port)
                        ELSE shown)
           /\ UNCHANGED telling
    BY <1>8 DEF OnReport
  <2> HIDE DEF r, changed
  <2> QED BY <1>6, <2>2, <2>3, <2>4
<1>9. ASSUME NEW pc \in {"disconnect", "show", "connect", "verify"}, ThenDo(pc)
      PROVE  drive' \in DriveShape
  BY <1>1, <1>9 DEF ThenDo, DriveShape
<1>10. ASSUME NEW s \in StatusSet, Concludes(s) PROVE drive' \in DriveShape
  BY <1>1, <1>10 DEF Concludes, DriveShape
<1>11. ASSUME Look \/ DisconnectOld \/ RunConnect \/ Verify PROVE DaemonTyped'
  <2>1. UNCHANGED <<shown, link, busy, telling>>
    BY <1>11 DEF Look, DisconnectOld, RunConnect, Verify
  <2>2. \/ \E pc \in {"disconnect", "show", "connect", "verify"} : ThenDo(pc)
        \/ \E s \in StatusSet : Concludes(s)
    <3>1. CASE Look
      BY <1>1, <3>1, Statuses DEF Look, StillWaiting
    <3>2. CASE DisconnectOld
      BY <3>2 DEF DisconnectOld
    <3>3. CASE RunConnect
      BY <1>1, <3>3, Statuses DEF RunConnect
    <3>4. CASE Verify
      BY <1>1, <3>4, Statuses DEF Verify
    <3> QED BY <1>11, <3>1, <3>2, <3>3, <3>4
  <2> QED BY <1>1, <1>9, <1>10, <2>1, <2>2 DEF DaemonTyped
<1>12. ASSUME ShowConnecting PROVE DaemonTyped'
  <2>1. drive' \in DriveShape
    BY <1>9, <1>12 DEF ShowConnecting
  <2>2. shown' \in StatusSet
    BY <1>1, <1>2, <1>12, Statuses DEF ShowConnecting
  <2> QED BY <1>1, <1>12, <2>1, <2>2 DEF ShowConnecting, DaemonTyped
<1>13. ASSUME Finish PROVE DaemonTyped'
  <2>1. Ready(link) \in LinkShape
    BY <1>1, <1>4, <1>5 DEF Ready, LinkShape
  <2>2. BackedOff(link) \in LinkShape
    <3> DEFINE d == IF 2 * link.delay < MaxRetry THEN 2 * link.delay ELSE MaxRetry
    <3>1. d \in 1 .. MaxRetry /\ link.delay \in 0 .. MaxRetry
      BY <1>4, <1>5
    <3>2. BackedOff(link) = [link EXCEPT !.wait = link.delay, !.delay = d]
      BY DEF BackedOff
    <3> HIDE DEF d
    <3> QED BY <1>1, <3>1, <3>2 DEF LinkShape
  <2>3. link' \in {link, Ready(link), BackedOff(link)}
    BY <1>13 DEF Finish
  <2>4. telling' \subseteq StatusSet
    BY <1>1, <1>13 DEF Finish
  <2> QED BY <1>1, <1>3, <1>13, <2>1, <2>2, <2>3, <2>4 DEF Finish, DaemonTyped
<1>14. ASSUME NEW s \in telling, Tell(s) PROVE DaemonTyped'
  BY <1>1, <1>2, <1>14 DEF Tell, DaemonTyped
<1>15. ASSUME TimePasses PROVE DaemonTyped'
  <2>1. link' \in LinkShape
    <3>1. link' = [link EXCEPT !.wait = link.wait - 1]
          /\ link.wait - 1 \in 0 .. MaxRetry
      BY <1>15, <1>4, <1>5 DEF TimePasses
    <3> HIDE DEF AdbTyped
    <3> QED BY <1>1, <3>1 DEF LinkShape
  <2> QED BY <1>1, <1>15, <2>1 DEF TimePasses, DaemonTyped
<1>16. CASE \/ SettingChanged \/ FoundAdb \/ LostAdb \/ NsdFails
            \/ (\E host \in {"own", "other"}, p \in Port : AdbResolved(host, p))
            \/ ReportPort \/ Pairing \/ AdbItself \/ UNCHANGED adbLinkVars
            \/ (\E on \in BOOLEAN, p \in Port \cup {None} : AdbdMoves(on, p))
  <2>1. UNCHANGED <<shown, linkVars>>
    BY <1>16 DEF SettingChanged, FoundAdb, LostAdb, NsdFails, AdbResolved,
                 ReportPort, Pairing, AdbItself, AdbdMoves, adbLinkVars, linkVars
  <2> QED BY <1>6, <2>1
<1> QED BY <1>7, <1>8, <1>11, <1>12, <1>13, <1>14, <1>15, <1>16 DEF AdbLinkNext

\* The state of wireless adb keeps its types: the back-off its limit
\* (MAX_RETRY), and what is shown one of the states there are.
THEOREM AdbLinkTyping == AdbLinkSpec => []AdbLinkTypeOK
<1>1. AdbLinkInit => AdbTyped
  BY AdbStarts, WatchStarts DEF AdbTyped
<1>2. AdbTyped /\ [AdbLinkNext]_adbLinkVars => AdbTyped'
  BY WatchKeeps, PhoneKeeps, WireKeeps, DaemonKeeps DEF AdbTyped
<1> QED BY <1>1, <1>2, AdbTypedIs, PTL DEF AdbLinkSpec

-----------------------------------------------------------------------------
\* Sharing: who has passed the handshake of each attempt, and what goes
\* through its forward ports.
LedgerShape ==
  /\ authed \in Seq(SUBSET Peer) /\ Len(authed) = Last /\ Last <= MaxShare
  /\ tunnel \in [Peer -> 0 .. Last]

LEMMA ShareTyped == ShareInv /\ LedgerShape => ShareTypeOK
<1> SUFFICES ASSUME ShareInv, LedgerShape PROVE ShareTypeOK
  OBVIOUS
<1>1. \A g \in 1 .. Last : shares[g] \in ShareState /\ authed[g] \subseteq Peer
  BY ElementOfSeq DEF ShareInv, ShareShape, LedgerShape, Last
<1>2. conn \in [Peer -> [pc : {"idle", "hello", "upstream", "splice", "ending",
                               "closed"}, of : 0 .. Last]]
  <2>1. conn \in [Peer -> ConnState] /\ \A c \in Peer : conn[c].of <= Last
    BY DEF ShareInv, ShareShape
  <2>2. Last \in Nat
    BY LenProperties DEF ShareInv, ShareShape, Last
  <2>3. ASSUME NEW c \in Peer PROVE conn[c] \in [pc : {"idle", "hello", "upstream", "splice", "ending",
                               "closed"}, of : 0 .. Last]
    <3>1. conn[c] \in ConnState /\ conn[c].of <= Last
      BY <2>1
    <3> QED BY <2>2, <3>1 DEF ConnState
  <2> QED BY <2>1, <2>3
<1>3. starter \in [pc : {"idle", "stopping", "bind", "forwards"},
                   kind : ShareKind, old : 0 .. Last, had : BOOLEAN]
  <2>1. NoStart.kind \in ShareKind
    BY ShareAssumption DEF NoStart
  <2> QED BY <2>1 DEF ShareInv, ShareShape
<1> QED BY <1>1, <1>2, <1>3 DEF ShareInv, ShareShape, LedgerShape, ShareTypeOK, ShareState

\* A step that adds no attempt.
LEMMA LastStays ==
  ASSUME ShareInv, ShareInv', DOMAIN shares' = DOMAIN shares PROVE Last' = Last
<1>1. /\ Len(shares) \in Nat /\ Len(shares') \in Nat
      /\ DOMAIN shares = 1 .. Len(shares) /\ DOMAIN shares' = 1 .. Len(shares')
  BY LenProperties DEF ShareInv, ShareShape
<1> QED BY <1>1 DEF Last

LEMMA LedgerKeeps ==
  ASSUME ShareInv, ShareInv', LedgerShape, [ShareNext]_shareVars PROVE LedgerShape'
<1>1. /\ authed \in Seq(SUBSET Peer) /\ Len(authed) = Last /\ Last <= MaxShare
      /\ tunnel \in [Peer -> 0 .. Last] /\ Last \in Nat
  BY LenProperties DEF LedgerShape, ShareInv, ShareShape, Last
<1>2. ASSUME DOMAIN shares' = DOMAIN shares, UNCHANGED <<authed, tunnel>>
      PROVE  LedgerShape'
  <2>1. Last' = Last
    BY <1>2, LastStays
  <2> QED BY <1>1, <1>2, <2>1 DEF LedgerShape
<1>3. ASSUME NEW c \in Peer, NEW ok \in BOOLEAN, Handshake(c, ok)
      PROVE  LedgerShape'
  <2> DEFINE g == conn[c].of
  <2>1. g \in 1 .. Last
    BY <1>3 DEF Handshake, ShareInv, ShareShape
  <2>2. authed' = authed \/ authed' = [authed EXCEPT ![g] = authed[g] \cup {c}]
    BY <1>3 DEF Handshake
  <2>3. tunnel' = tunnel /\ DOMAIN shares' = DOMAIN shares
    BY <1>3 DEF Handshake, Update
  <2>4. Last' = Last
    BY <2>3, LastStays
  <2> HIDE DEF g
  <2>5. authed[g] \cup {c} \in SUBSET Peer
    BY <1>1, <2>1, ElementOfSeq
  <2>6. authed' \in Seq(SUBSET Peer) /\ Len(authed') = Len(authed)
    BY <1>1, <2>1, <2>2, <2>5, ExceptSeq
  <2> QED BY <1>1, <2>3, <2>4, <2>6 DEF LedgerShape
<1>4. ASSUME NEW c \in Peer, CloseTunnel(c) PROVE LedgerShape'
  <2>1. /\ tunnel' = [tunnel EXCEPT ![c] = 0] /\ authed' = authed /\ shares' = shares
    BY <1>4 DEF CloseTunnel
  <2> QED BY <1>1, <2>1 DEF LedgerShape, Last
<1>5. ASSUME NEW c \in Peer, NEW g \in 1 .. Last, NEW p \in ForwardPort,
             OpenTunnel(c, g, p)
      PROVE  LedgerShape'
  <2>1. tunnel' = [tunnel EXCEPT ![c] = g] /\ authed' = authed /\ shares' = shares
    BY <1>5 DEF OpenTunnel
  <2> QED BY <1>1, <2>1 DEF LedgerShape, Last
<1>6. CASE Bind
  <2>1. CASE /\ PortFree /\ Last < MaxShare
             /\ shares' = Append(shares, Attempt(starter.kind))
             /\ authed' = Append(authed, {})
    <3>1. Last' = Last + 1
      BY <2>1, AppendProperties DEF Last, ShareInv, ShareShape
    <3>2. authed' \in Seq(SUBSET Peer) /\ Len(authed') = Last + 1
      <4>1. {} \in SUBSET Peer
        OBVIOUS
      <4> QED BY <1>1, <2>1, <4>1, AppendProperties
    <3>3. tunnel' = tunnel /\ Last + 1 <= MaxShare
      BY <1>1, <1>6, <2>1, ShareAssumption DEF Bind
    <3>4. tunnel' \in [Peer -> 0 .. Last + 1]
      BY <1>1, <3>3
    <3> QED BY <3>1, <3>2, <3>3, <3>4 DEF LedgerShape
  <2>2. CASE UNCHANGED <<shares, authed>>
    BY <1>2, <1>6, <2>2 DEF Bind
  <2> QED BY <1>6, <2>1, <2>2 DEF Bind
<1>7. ASSUME NEW kind \in ShareKind, Start(kind) PROVE LedgerShape'
  BY <1>2, <1>7 DEF Start, Signal, Update
<1>8. ASSUME StartStopped \/ BindForward \/ StartDone \/ ShareStop \/ StopDone
             \/ UNCHANGED shareVars
      PROVE  LedgerShape'
  <2>1. DOMAIN shares' = DOMAIN shares /\ UNCHANGED <<authed, tunnel>>
    BY <1>8 DEF StartStopped, BindForward, StartDone, ShareStop, StopDone, GiveUp,
                Signal, Update, shareVars
  <2> QED BY <1>2, <2>1
<1>9. ASSUME NEW c \in Peer,
             \/ \E ok \in BOOLEAN : ConnectUpstream(c, ok)
             \/ HangUp(c) \/ EndConn(c)
             \/ \E g \in 1 .. Last : AcceptConn(c, g)
      PROVE  LedgerShape'
  BY <1>2, <1>9 DEF ConnectUpstream, HangUp, EndConn, AcceptConn, Update
<1>10. ASSUME NEW g \in 1 .. Last,
              \/ Park(g) \/ Expire(g) \/ Aborts(g)
              \/ \E p \in ForwardPort : ForwardExpires(g, p)
       PROVE  LedgerShape'
  BY <1>2, <1>10 DEF Park, Expire, Aborts, ForwardExpires, Update
<1> QED BY <1>3, <1>4, <1>5, <1>6, <1>7, <1>8, <1>9, <1>10 DEF ShareNext

\* The state of a share keeps its types: an attempt, a peer that has passed
\* and a tunnel each belong to an attempt that was made.
THEOREM ShareTyping == ShareSpec => []ShareTypeOK
<1>1. ShareInit => LedgerShape
  <2> SUFFICES ASSUME ShareInit PROVE LedgerShape
    OBVIOUS
  <2>1. shares = <<>> /\ authed = <<>> /\ Last = 0 /\ <<>> \in Seq(SUBSET Peer)
        /\ tunnel = [c \in Peer |-> 0]
    BY EmptySeq DEF ShareInit, Last
  <2> QED BY <2>1, ShareAssumption DEF LedgerShape, Last
<1>2. ShareInv /\ ShareInv' /\ LedgerShape /\ [ShareNext]_shareVars => LedgerShape'
  BY LedgerKeeps
<1> QED BY ShareStarts, ShareStep, <1>1, <1>2, ShareTyped, PTL DEF ShareSpec

-----------------------------------------------------------------------------
(* All of what control clients ask, seen from one behaviour.                *)

\* A behaviour of all the parts is one of each, whichever of them runs.
LEMMA PartsAre ==
  ControlSpec => /\ OverridesSpec /\ RequestsSpec /\ AdbLinkSpec /\ ShareSpec
                 /\ PolicySpec /\ DiscoverySpec /\ FirewallSpec
<1>1. ControlInit => /\ OverridesInit /\ RequestsInit /\ AdbLinkInit /\ ShareInit
                     /\ PolicyInit /\ DiscoveryInit /\ FirewallInit
  BY DEF ControlInit
<1>2. [ControlNext]_mcVars =>
        /\ [OverridesNext]_overridesVars /\ [RequestsNext]_requestsVars
        /\ [AdbLinkNext]_adbLinkVars /\ [ShareNext]_shareVars
        /\ [PolicyNext]_policyVars /\ [DiscoveryNext]_discoveryVars
        /\ [FirewallNext]_firewallVars
  BY DEF ControlNext, mcVars, reachVars
<1> QED BY <1>1, <1>2, PTL
        DEF ControlSpec, OverridesSpec, RequestsSpec, AdbLinkSpec, ShareSpec,
            PolicySpec, DiscoverySpec, FirewallSpec

LEMMA FirewallTyping == FirewallSpec => []FirewallTypeOK
<1>1. FirewallInv => FirewallTypeOK
  BY DEF FirewallInv
<1> QED BY FirewallStart, FirewallStep, <1>1, PTL DEF FirewallSpec

\* The whole of it keeps its types.
THEOREM ControlTyping == ControlSpec => []ControlTypeOK
  BY PartsAre, OverridesTyping, RequestsTyping, AdbLinkTyping, ShareTyping,
     DiscoveryTyping, FirewallTyping, PTL DEF ControlTypeOK

\* The parts share nothing, so that what is promised of each is kept by the
\* whole.
THEOREM ControlKeepsPromises ==
  ControlSpec => /\ [](/\ ServeRight /\ AnswerIsNew /\ PortIsOwn /\ StatusIsTrue
                       /\ PolicyRight /\ ReapRight /\ AdvertRight /\ FirewallRight)
                 /\ GivesUpOnlyUnanswered
  BY PartsAre, Serve, AnswersAreNew, ReportsItsOwnPort, StatusTellsTrue,
     SharesOnlyWhatIsShared, ReapsOrphansOnly, AdvertStands, NoWolfIsCried,
     GivesUpRightly, PTL
=============================================================================
