------------------------------ MODULE Requests ------------------------------
(* Requests to a phone that are answered by a frame of their own and not by *)
(* the command's ack: sms.list, call.list and sims.list send the command,   *)
(* wait 800 ms and return what the daemon has recorded; mmi and voicemail   *)
(* empty a slot, send the command and poll the slot until it is filled.     *)
(* One device: its caches and slots are all that requests share.  A frame   *)
(* carries the request that caused it (`of`), which the code does not know. *)
EXTENDS Integers, Sequences

CONSTANTS Client,    \* control requests, each made once
          SlotKind,  \* {"mmi", "voicemail"}: requests that poll a slot
          ListKind,  \* {"sms", "calls", "sims"}: requests that read a cache
          NoReply,
          Codes,     \* network round trips of a request: 1, or up to 3
          InboxCap,  \* INBOX_CAP
          MaxPoll,   \* bound: polls before the time-out (30 and 60 in the code)
          MaxBreak   \* bound: times the link breaks

ASSUME RequestsAssumption ==
  /\ SlotKind \cap ListKind = {} /\ SlotKind # {}
  /\ NoReply \notin Client
  /\ Codes \in [SlotKind -> Nat \ {0}]
  /\ InboxCap \in Nat \ {0} /\ MaxPoll \in Nat \ {0} /\ MaxBreak \in Nat

VARIABLES
  slot,    \* mmi_results, voicemail_results of the device
  cache,   \* inbox, call_log, sims of the device: the requests that filled it
  req,     \* request -> where its handler is
  linked,  \* the phone has a current connection
  down,    \* commands on their way to the phone
  work,    \* what the phone's telephony has been asked: round trips left
  up,      \* frames on their way to the daemon
  seen,    \* history: replies that have been recorded
  breaks

requestsVars == <<slot, cache, req, linked, down, work, up, seen, breaks>>

Kinds == SlotKind \cup ListKind
Frames == [kind : Kinds, of : Client]
Fresh == [pc |-> "idle", kind |-> CHOOSE k \in Kinds : TRUE, polls |-> 0,
          result |-> NoReply, before |-> {}, alone |-> TRUE]

RequestsInit ==
  /\ slot = [k \in SlotKind |-> NoReply]
  /\ cache = [k \in ListKind |-> <<>>]
  /\ req = [c \in Client |-> Fresh]
  /\ linked = TRUE
  /\ down = <<>>
  /\ work = [f \in Frames |-> 0]
  /\ up = <<>>
  /\ seen = {}
  /\ breaks = 0

Polls(c) == req[c].pc \in {"fire", "poll"} /\ req[c].kind \in SlotKind

\* Send, and let a failure pass: the wait runs its course anyway.
Fire(c, k) ==
  down' = IF linked THEN Append(down, [kind |-> k, of |-> c]) ELSE down

-----------------------------------------------------------------------------
(* The handlers of the daemon.                                              *)

DropNothing(c, k) ==
  /\ req[c].pc = "idle"
  /\ req' = [req EXCEPT ![c] = [Fresh EXCEPT !.pc = "fire", !.kind = k,
                                             !.before = seen]]
  /\ UNCHANGED <<slot, cache, linked, down, work, up, seen, breaks>>

\* mmi, voicemail.set: the stale reply is dropped first.  (A request that is
\* polling the same slot is no longer alone with it, and neither is this one.)
Drop(c, k) ==
  /\ req[c].pc = "idle"
  /\ slot' = [slot EXCEPT ![k] = NoReply]
  /\ LET others == {o \in Client : Polls(o) /\ req[o].kind = k} IN
       req' = [o \in Client |->
         IF o = c THEN [Fresh EXCEPT !.pc = "fire", !.kind = k,
                                     !.before = seen, !.alone = others = {}]
         ELSE IF o \in others THEN [req[o] EXCEPT !.alone = FALSE]
         ELSE req[o]]
  /\ UNCHANGED <<cache, linked, down, work, up, seen, breaks>>

Ask(c) ==
  /\ req[c].pc = "fire"
  /\ Fire(c, req[c].kind)
  /\ req' = [req EXCEPT ![c].pc = "poll"]
  /\ UNCHANGED <<slot, cache, linked, work, up, seen, breaks>>

PollThenGiveUp(c) ==
  /\ req[c].pc = "poll"
  /\ LET found == slot[req[c].kind]
         last  == req[c].polls + 1 = MaxPoll
     IN req' = [req EXCEPT
          ![c].polls = @ + 1,
          ![c].result = IF last THEN NoReply ELSE found,
          ![c].pc = IF last THEN "timedout"
                    ELSE IF found # NoReply THEN "answered" ELSE @]
  /\ UNCHANGED <<slot, cache, linked, down, work, up, seen, breaks>>

\* Every 500 ms, so many times: the first reply found is the answer.
Poll(c) ==
  /\ req[c].pc = "poll"
  /\ LET found == slot[req[c].kind]
         last  == req[c].polls + 1 = MaxPoll
     IN req' = [req EXCEPT
          ![c].polls = @ + 1,
          ![c].result = found,
          ![c].pc = IF found # NoReply THEN "answered"
                    ELSE IF last THEN "timedout" ELSE @]
  /\ UNCHANGED <<slot, cache, linked, down, work, up, seen, breaks>>

\* sms.list, call.list, sims.list.
AskList(c, k) ==
  /\ req[c].pc = "idle"
  /\ Fire(c, k)
  /\ req' = [req EXCEPT ![c].pc = "sleep", ![c].kind = k]
  /\ UNCHANGED <<slot, cache, linked, work, up, seen, breaks>>

ReadList(c) ==
  /\ req[c].pc = "sleep"
  /\ req' = [req EXCEPT ![c].pc = "answered"]
  /\ UNCHANGED <<slot, cache, linked, down, work, up, seen, breaks>>

LastOf(s, n) == IF Len(s) > n THEN SubSeq(s, Len(s) - n + 1, Len(s)) ELSE s

\* The reader loop records a frame: replaced, or appended to the inbox.
Record ==
  /\ up # <<>>
  /\ up' = Tail(up)
  /\ LET f == Head(up) IN
       /\ slot' = IF f.kind \in SlotKind THEN [slot EXCEPT ![f.kind] = f.of]
                  ELSE slot
       /\ cache' = IF f.kind \notin ListKind THEN cache
                   ELSE [cache EXCEPT ![f.kind] =
                     IF f.kind = "sms" THEN LastOf(Append(@, f.of), InboxCap)
                     ELSE <<f.of>>]
       /\ seen' = seen \cup {f.of}
  /\ UNCHANGED <<req, linked, down, work, breaks>>

-----------------------------------------------------------------------------
(* The phone: lists are sent at once, codes go to the network one by one.   *)

Handle ==
  /\ down # <<>>
  /\ down' = Tail(down)
  /\ LET f == Head(down) IN
       IF f.kind \in ListKind
         THEN up' = Append(up, f) /\ UNCHANGED work
         ELSE work' = [work EXCEPT ![f] = Codes[f.kind]] /\ UNCHANGED up
  /\ UNCHANGED <<slot, cache, req, linked, seen, breaks>>

\* The network answers a code; after the last one the result is sent, on the
\* socket the command came on.
NetworkAnswers(f) ==
  /\ work[f] > 0
  /\ work' = [work EXCEPT ![f] = @ - 1]
  /\ up' = IF work[f] = 1 THEN Append(up, f) ELSE up
  /\ UNCHANGED <<slot, cache, req, linked, down, seen, breaks>>

\* The connection breaks: what was on its way is lost, and so is the result
\* of what the phone is still working on.
Break ==
  /\ linked /\ breaks < MaxBreak
  /\ linked' = FALSE
  /\ breaks' = breaks + 1
  /\ down' = <<>> /\ up' = <<>>
  /\ work' = [f \in Frames |-> 0]
  /\ UNCHANGED <<slot, cache, req, seen>>

Reconnect ==
  /\ ~linked
  /\ linked' = TRUE
  /\ UNCHANGED <<slot, cache, req, down, work, up, seen, breaks>>

HandlerStep(c) == Ask(c) \/ Poll(c) \/ ReadList(c)

RequestsNext ==
  \/ \E c \in Client :
       \/ \E k \in SlotKind : Drop(c, k)
       \/ \E k \in ListKind : AskList(c, k)
       \/ HandlerStep(c)
  \/ Record \/ Handle \/ Break \/ Reconnect
  \/ \E f \in Frames : NetworkAnswers(f)

RequestsSpec == RequestsInit /\ [][RequestsNext]_requestsVars
-----------------------------------------------------------------------------
RequestsTypeOK ==
  /\ slot \in [SlotKind -> Client \cup {NoReply}]
  /\ cache \in [ListKind -> Seq(Client)]
  /\ \A k \in ListKind : Len(cache[k]) <= InboxCap
  /\ req \in [Client -> [pc : {"idle", "fire", "poll", "sleep", "answered",
                               "timedout"},
                         kind : Kinds, polls : Nat,
                         result : Client \cup {NoReply},
                         before : SUBSET Client, alone : BOOLEAN]]
  /\ linked \in BOOLEAN /\ breaks \in Nat
  /\ down \in Seq(Frames) /\ up \in Seq(Frames)
  /\ work \in [Frames -> Nat]
  /\ seen \subseteq Client

\* "Drop any stale reply": what a request answers with arrived after it began,
\* whatever was left in the slot by requests that gave up (the removal that
\* ControlOp::Mmi and VoicemailSet start with).
AnswerIsNew ==
  \A c \in Client : req[c].result # NoReply => req[c].result \notin req[c].before

\* A request that had the slot to itself gives up only if no reply to it was
\* recorded in time: nobody else empties the slot, and the last poll comes
\* after the last wait.
GivesUpOnlyUnanswered ==
  [][\A c \in Client :
       req'[c].pc = "timedout" /\ req[c].pc = "poll" /\ req[c].alone
         => c \notin seen]_requestsVars
=============================================================================
