------------------------------- MODULE MCHub -------------------------------
(* Hub on a small instance: two devices would only multiply one device's    *)
(* behaviours (nothing in the hub relates two devices), so one device with  *)
(* two sockets, which is one supersession or one drop and return.           *)
EXTENDS Hub, TLC

CONSTANTS d1, s1, s2, c1, c2

\* Sockets, and commands of one kind, differ in nothing but their names.
Symm == Permutations(Conn) \cup Permutations(Command)

MCDeviceOf == [s \in Conn |-> d1]
=============================================================================
