---------------------------- MODULE MCJobControl ----------------------------
(* JobControl on small instances: one phone, one call, one or two jobs.     *)
EXTENDS JobControl, TLC

CONSTANTS d1, k1, j1, j2

MCDeviceOf == [s \in Conn |-> d1]
MCPhoneOf == [c \in Call |-> d1]

\* Jobs are told apart by nothing but their names.
Symmetry == Permutations(Job)

\* A job, which the app's relaunch may stop; then a call comes in.
JobThenCall ==
  /\ process[d1] = 2 => \E j \in Job : job[j].pc # "idle"
  /\ state[k1] # "none" => process[d1] = 2 /\ \E j \in Job : job[j].pc = "done"
  /\ \A s \in Conn : Len(up[s]) <= 2 /\ Len(down[s]) <= 1

\* Each kind's steps, as short as the question allows.
MCScript == [run   |-> <<"dial", "wait_answered", "hangup">>,
             auto  |-> <<"answer", "other", "hangup">>,
             local |-> <<"other">>]

MCShort == [run |-> <<>>, auto |-> <<"other">>, local |-> <<"other">>]
=============================================================================
