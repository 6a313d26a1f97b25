--------------------------- MODULE CommandService ---------------------------
(***************************************************************************)
(* What the hub promises the daemon's callers about one command, with no   *)
(* sockets, queues or locks in it: a command that is submitted is          *)
(* performed by the phone at most once; the caller is told "ok" only for a *)
(* command the phone has performed; a command the caller is told was       *)
(* "rejected" never reaches the phone; one that "failed" may still be      *)
(* performed later (a timeout says nothing of what the phone does).        *)
(* Hub.tla implements this (HubRefinesService).                            *)
(***************************************************************************)
EXTENDS Naturals

CONSTANT Cmd                    \* the commands callers submit

VARIABLES status,               \* what the caller of each command knows
          performed             \* how often the phone carried it out

svcVars == <<status, performed>>

Status == {"idle", "pending", "ok", "sent", "failed", "rejected"}

SvcInit == /\ status = [c \in Cmd |-> "idle"]
           /\ performed = [c \in Cmd |-> 0]

Submit(c) == /\ status[c] = "idle"
             /\ status' = [status EXCEPT ![c] = "pending"]
             /\ UNCHANGED performed

\* The phone carries the command out, possibly after its caller gave up.
Perform(c) == /\ status[c] \in {"pending", "sent", "failed"}
              /\ performed[c] = 0
              /\ performed' = [performed EXCEPT ![c] = 1]
              /\ UNCHANGED status

Succeed(c) == /\ status[c] = "pending"
              /\ performed[c] = 1
              /\ status' = [status EXCEPT ![c] = "ok"]
              /\ UNCHANGED performed

\* Handed to the connection, with nobody waiting for the answer.
HandOff(c) == /\ status[c] = "pending"
              /\ status' = [status EXCEPT ![c] = "sent"]
              /\ UNCHANGED performed

Fail(c) == /\ status[c] = "pending"
           /\ status' = [status EXCEPT ![c] = "failed"]
           /\ UNCHANGED performed

Reject(c) == /\ status[c] \in {"idle", "pending"}
             /\ performed[c] = 0
             /\ status' = [status EXCEPT ![c] = "rejected"]
             /\ UNCHANGED performed

SvcNext == \E c \in Cmd : \/ Submit(c) \/ Perform(c) \/ Succeed(c)
                          \/ HandOff(c) \/ Fail(c) \/ Reject(c)

SvcSpec == SvcInit /\ [][SvcNext]_svcVars
=============================================================================
