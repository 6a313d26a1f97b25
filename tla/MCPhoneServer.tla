--------------------------- MODULE MCPhoneServer ---------------------------
(* PhoneServer on small instances: one device (nothing in these tables      *)
(* relates two), and as many sockets as the phone may open in a row.        *)
EXTENDS PhoneServer

CONSTANTS d1, c1, c2, h1, h2

MCDeviceOf == [s \in Conn |-> d1]
MCHangupOf == [s \in Conn |-> CASE s = 1 -> h1 [] s = 2 -> h2]
=============================================================================
