---------------------------- MODULE MCCallTrack ----------------------------
(* CallTrack on small instances: one phone, with one or two calls.          *)
EXTENDS CallTrack

CONSTANTS d1, k1, k2, cli

MCDeviceOf == [s \in Conn |-> d1]
MCPhoneOf == [c \in Call |-> d1]

\* The second call begins when the first is over, and the link does not lag.
OneAfterTheOther ==
  /\ state[k2] # "none" => state[k1] = "removed"
  /\ \A s \in Conn : Len(up[s]) <= 2
=============================================================================
