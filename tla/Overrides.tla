----------------------------- MODULE Overrides -----------------------------
(* Who answers an inbound call: the serve session (`dialf run --autoanswer`)*)
(* that is connected now, else the runtime override (override.set), else    *)
(* config.autoanswer.  One process per control connection that asks to      *)
(* serve; the other control requests are one step each, as they hold one    *)
(* lock.  Job files and their contents are abstracted to handlers, phone    *)
(* numbers to model values, an event line to its position in the stream.    *)
EXTENDS Integers, FiniteSets

CONSTANTS Session,     \* control connections that send autoanswer.serve
          Number,      \* phone numbers
          Handler,     \* what a runtime override or the config may say of one
          BadHandler,  \* an entry that validation refuses
          Silent,      \* the answer "let it ring"
          NoMap,       \* no runtime override
          Config,      \* config.autoanswer: [Number -> Handler \cup {Silent}]
          EventCap,    \* EVENT_CHANNEL_CAP
          MaxEvent     \* bound: event lines emitted

ASSUME OverridesAssumption ==
  /\ Handler \cap (Session \cup {BadHandler, Silent}) = {}
  /\ Silent \notin Session
  /\ Config \in [Number -> Handler \cup {Silent}]
  /\ NoMap \notin [Number -> Handler \cup {Silent}]
  /\ EventCap \in Nat \ {0}
  /\ MaxEvent \in Nat

VARIABLES
  serveBusy,  \* the serve slot
  serveToken, \* the next registration token
  overrides,  \* number -> entry: the token it bears, the job (its session)
  runtime,    \* runtime_overrides.autoanswer
  client,     \* connection -> how far serve_autoanswer has come
  gone,       \* connections whose client has closed its end
  emitted     \* event lines broadcast so far

overridesVars ==
  <<serveBusy, serveToken, overrides, runtime, client, gone, emitted>>

NoToken == 0
NoEntry == [token |-> NoToken, job |-> Silent]
Idle == [pc |-> "idle", token |-> NoToken, numbers |-> {}, todo |-> {},
         rx |-> 0]

OverridesInit ==
  /\ serveBusy = FALSE
  /\ serveToken = 1
  /\ overrides = [n \in Number |-> NoEntry]
  /\ runtime = NoMap
  /\ client = [s \in Session |-> Idle]
  /\ gone = {}
  /\ emitted = 0

\* Broadcast a line: whoever is subscribed will be owed it.
Emit == emitted' = IF emitted < MaxEvent THEN emitted + 1 ELSE emitted

-----------------------------------------------------------------------------
(* autoanswer.serve, a connection of its own.                               *)

\* The slot is taken: the client is told so, and nothing is registered.
Refuse(s) ==
  /\ client[s].pc = "idle" /\ serveBusy
  /\ client' = [client EXCEPT ![s].pc = "refused"]
  /\ UNCHANGED <<serveBusy, serveToken, overrides, runtime, gone, emitted>>

AcceptAnyway(s, ns) ==
  /\ client[s].pc = "idle"
  /\ serveBusy' = TRUE
  /\ serveToken' = serveToken + 1
  /\ client' = [client EXCEPT ![s] =
       [Idle EXCEPT !.pc = "registering", !.token = serveToken,
                    !.numbers = ns, !.todo = ns]]
  /\ UNCHANGED <<overrides, runtime, gone, emitted>>

Accept(s, ns) ==
  /\ client[s].pc = "idle" /\ ~serveBusy
  /\ serveBusy' = TRUE
  /\ serveToken' = serveToken + 1
  /\ client' = [client EXCEPT ![s] =
       [Idle EXCEPT !.pc = "registering", !.token = serveToken,
                    !.numbers = ns, !.todo = ns]]
  /\ UNCHANGED <<overrides, runtime, gone, emitted>>

\* One lock of the table for each number.
Register(s, n) ==
  /\ client[s].pc = "registering" /\ n \in client[s].todo
  /\ overrides' = [overrides EXCEPT ![n] =
       [token |-> client[s].token, job |-> s]]
  /\ client' = [client EXCEPT ![s].todo = @ \ {n}]
  /\ UNCHANGED <<serveBusy, serveToken, runtime, gone, emitted>>

\* Subscribed to what is emitted from here on; the confirmation is written,
\* or fails because the client has left already.
Subscribe(s) ==
  /\ client[s].pc = "registering" /\ client[s].todo = {}
  /\ client' = [client EXCEPT
       ![s].rx = emitted,
       ![s].pc = IF s \in gone THEN "clearing" ELSE "streaming"]
  /\ UNCHANGED <<serveBusy, serveToken, overrides, runtime, gone, emitted>>

\* The next line; a receiver that lags skips to the oldest line still held.
Deliver(s) ==
  /\ client[s].pc = "streaming" /\ client[s].rx < emitted
  /\ \/ /\ emitted - client[s].rx > EventCap
        /\ client' = [client EXCEPT ![s].rx = emitted - EventCap]
     \/ /\ emitted - client[s].rx <= EventCap
        /\ client' = [client EXCEPT
             ![s].rx = @ + 1,
             ![s].pc = IF s \in gone THEN "clearing" ELSE @]
  /\ UNCHANGED <<serveBusy, serveToken, overrides, runtime, gone, emitted>>

NoticeOnLine(s) ==
  /\ client[s].pc = "streaming" /\ s \in gone /\ client[s].rx < emitted
  /\ client' = [client EXCEPT ![s].pc = "clearing"]
  /\ UNCHANGED <<serveBusy, serveToken, overrides, runtime, gone, emitted>>

\* next_line() ends: the client has disconnected.
Notice(s) ==
  /\ client[s].pc = "streaming" /\ s \in gone
  /\ client' = [client EXCEPT ![s].pc = "clearing"]
  /\ UNCHANGED <<serveBusy, serveToken, overrides, runtime, gone, emitted>>

ClearOverrides(s) ==
  /\ client[s].pc = "clearing"
  /\ overrides' = [n \in Number |->
       IF overrides[n].token = client[s].token THEN NoEntry ELSE overrides[n]]
  /\ client' = [client EXCEPT ![s].pc = "leaving"]
  /\ UNCHANGED <<serveBusy, serveToken, runtime, gone, emitted>>

\* The guard of the slot is dropped on return, after the table is cleared.
DropSlot(s) ==
  /\ client[s].pc = "leaving"
  /\ serveBusy' = FALSE
  /\ client' = [client EXCEPT ![s].pc = "closed"]
  /\ UNCHANGED <<serveToken, overrides, runtime, gone, emitted>>

Disconnect(s) ==
  /\ client[s].pc \in {"registering", "streaming"} /\ s \notin gone
  /\ gone' = gone \cup {s}
  /\ UNCHANGED <<serveBusy, serveToken, overrides, runtime, client, emitted>>

-----------------------------------------------------------------------------
(* Requests of one step, and what else emits.                               *)

\* All or nothing: one bad entry refuses the whole request.
Valid(map) == \A n \in Number : map[n] # BadHandler

\* override.set: the map replaces the one before it.
OverrideSet(map) ==
  /\ Valid(map)
  /\ runtime' = map
  /\ Emit
  /\ UNCHANGED <<serveBusy, serveToken, overrides, client, gone>>

\* override.clear of the auto-answer map, or of everything.
OverrideClear ==
  /\ runtime' = NoMap
  /\ Emit
  /\ UNCHANGED <<serveBusy, serveToken, overrides, client, gone>>

\* Something happens on a phone and is told to the sessions.
Event ==
  /\ emitted < MaxEvent
  /\ Emit
  /\ UNCHANGED <<serveBusy, serveToken, overrides, runtime, client, gone>>

\* resolve_inbound: whose job an inbound call of this number gets.
Resolve(n) ==
  IF overrides[n] # NoEntry THEN overrides[n].job
  ELSE IF runtime # NoMap THEN runtime[n]
  ELSE Config[n]

RequestedMaps == [Number -> Handler \cup {Silent, BadHandler}]

ServeStep(s) ==
  \/ \E n \in Number : Register(s, n)
  \/ Subscribe(s) \/ Deliver(s) \/ Notice(s)
  \/ ClearOverrides(s) \/ DropSlot(s)

OverridesNext ==
  \/ \E s \in Session :
       \/ Refuse(s)
       \/ \E ns \in SUBSET Number : Accept(s, ns)
       \/ ServeStep(s)
       \/ Disconnect(s)
  \/ \E map \in RequestedMaps : OverrideSet(map)
  \/ OverrideClear
  \/ Event

OverridesSpec == OverridesInit /\ [][OverridesNext]_overridesVars
FairOverridesSpec ==
  OverridesSpec /\ \A s \in Session : WF_overridesVars(ServeStep(s))
-----------------------------------------------------------------------------
Serving(s) == client[s].pc \in {"registering", "streaming", "clearing"}
Holding(s) == Serving(s) \/ client[s].pc = "leaving"

OverridesTypeOK ==
  /\ serveBusy \in BOOLEAN
  /\ serveToken \in Nat \ {0}
  /\ overrides \in [Number -> [token : Nat, job : Session \cup {Silent}]]
  /\ runtime \in [Number -> Handler \cup {Silent}] \cup {NoMap}
  /\ client \in [Session -> [pc : {"idle", "refused", "registering",
                                   "streaming", "clearing", "leaving",
                                   "closed"},
                             token : Nat, numbers : SUBSET Number,
                             todo : SUBSET Number, rx : Nat]]
  /\ gone \subseteq Session
  /\ emitted \in Nat

\* "Tied to this connection, no state outlives it": every entry of the table
\* is there for the one connection that holds the slot, which has yet to clear
\* it (serve_autoanswer, clear_overrides).
OneOwner ==
  \A n \in Number : overrides[n] # NoEntry =>
    LET s == overrides[n].job IN
      /\ s \in Session
      /\ Serving(s)
      /\ n \in client[s].numbers
      /\ overrides[n].token = client[s].token

\* One serve session at a time, and the slot is held exactly for its length
\* (acquire_serve, ServeGuard).
OneSession ==
  /\ \A s, t \in Session : Holding(s) /\ Holding(t) => s = t
  /\ serveBusy <=> \E s \in Session : Holding(s)

\* Precedence, serve > runtime > config: while a session streams, its numbers
\* are its own, and a number no session has asked for is answered by the
\* runtime map if there is one (a number that it does not list rings), and by
\* the config if there is none, whatever sessions came and went before.
Precedence ==
  \A n \in Number :
    /\ \A s \in Session :
         client[s].pc = "streaming" /\ n \in client[s].numbers
           => Resolve(n) = s
    /\ (\A s \in Session : Serving(s) => n \notin client[s].numbers)
         => Resolve(n) = IF runtime = NoMap THEN Config[n] ELSE runtime[n]

\* Serve sessions come one at a time, own what they register, and leave what
\* was there before (serve_autoanswer, resolve_inbound).
ServeRight == OneOwner /\ OneSession /\ Precedence

\* A client that has left is forgotten: its numbers go back and the slot is
\* given to the next (the select! of serve_autoanswer).
SessionEnds == \A s \in Session : s \in gone ~> client[s].pc = "closed"
=============================================================================
