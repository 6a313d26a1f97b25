----------------------------- MODULE MCRecovery -----------------------------
(* Two instances of one run.  Either the daemon may crash and the link fail, *)
(* and everything fair happens; or the app may be relaunched and a control   *)
(* client then issues commands, over two sockets with two frames under way,  *)
(* with nothing asked of fairness.  All of it together exceeds what can be   *)
(* explored.                                                                 *)
EXTENDS MCCallTrack

VARIABLE mishap

mcVars == <<mishap, trackVars>>

MCTrackInit == mishap \in {"link", "app"} /\ TrackInit

\* A new command of the client.
Issued(s) ==
  /\ Len(down'[s]) > Len(down[s])
  /\ down'[s][Len(down'[s])].by = cli

MCTrackNext ==
  /\ UNCHANGED mishap
  /\ TrackNext
  /\ mishap = "link" => UNCHANGED process
  /\ mishap = "app" => /\ UNCHANGED <<blips, crashes>>
                       /\ Len(up'[1]) + Len(up'[2]) + Len(down'[1]) <= 2
                       /\ stage'[3] = "unused" /\ stage'[4] = "unused"
  /\ (\E s \in Conn : Issued(s)) => mishap = "app" /\ process[d1] = MaxProcess

\* TrackFairness, asked where the link may fail.
MCTrackFairness ==
  /\ \A d \in Device : /\ WF_trackVars(mishap = "link" /\ Open(d))
                       /\ WF_trackVars(mishap = "link" /\ Dropped(d))
  /\ \A s \in Conn :
       /\ WF_trackVars(mishap = "link" /\ OnOpen(s))
       /\ WF_trackVars(mishap = "link" /\
            (Hello(s) \/ RejectFirst(s) \/ Upsert(s) \/ Close(s) \/ ReadAck(s)
               \/ \E handler \in AutoAnswer : ReadCall(s, handler)))
       /\ WF_trackVars(mishap = "link" /\
            \E c \in Call \cup {NoCall} : Performs(s, c))
  /\ \A c \in Call : /\ WF_trackVars(mishap = "link" /\ Added(c))
                     /\ WF_trackVars(mishap = "link" /\
                          c \in hung /\ Disconnect(c))

MCTrackSpec == MCTrackInit /\ [][MCTrackNext]_mcVars /\ MCTrackFairness

\* Where the link fails: a crashed daemon's call is hung up (Reconcile) ...
OrphanEnds == mishap = "link" => OrphanHungUp

\* ... and the daemon comes to know of a call (OnOpen, Upsert).
CallKnown == mishap = "link" => KnownInTheEnd
=============================================================================
