-------------------------- MODULE OverridesProofs --------------------------
(***************************************************************************)
(* Proofs about who answers a call, for any number of serve sessions,      *)
(* phone numbers and handlers, and any configuration.  ServeRight is not   *)
(* inductive: a session's claim to its numbers rests on its token being    *)
(* its own (Tokens) and on what it has registered so far still being in    *)
(* the table (Registered).                                                 *)
(***************************************************************************)
EXTENDS Overrides, TLAPS

\* Tokens start at 1, so that an entry is never taken for none.
Tokens == \A s \in Session : Holding(s) => client[s].token # NoToken

\* What a session has asked for and no longer has to do is in the table, and
\* when it streams it has nothing left to do.
Registered ==
  \A s \in Session :
    /\ client[s].pc = "streaming" => client[s].todo = {}
    /\ client[s].pc \in {"registering", "streaming"} =>
         /\ client[s].todo \subseteq client[s].numbers
         /\ \A n \in client[s].numbers \ client[s].todo :
              overrides[n] = [token |-> client[s].token, job |-> s]

OverridesInv ==
  OverridesTypeOK /\ OneOwner /\ OneSession /\ Tokens /\ Registered

-----------------------------------------------------------------------------
\* An entry with a token is an entry, and none is the one without.
LEMMA Entries ==
  /\ \A j : \A t \in Nat : t # NoToken => [token |-> t, job |-> j] # NoEntry
  /\ NoEntry \in [token : Nat, job : Session \cup {Silent}]
  <1>1. \A j : \A t \in Nat : t # NoToken => [token |-> t, job |-> j] # NoEntry
    <2> TAKE j
    <2> TAKE t \in Nat
    <2>1. [token |-> t, job |-> j].token = t /\ NoEntry.token = NoToken
      BY DEF NoEntry
    <2> QED BY <2>1
  <1>2. NoEntry \in [token : Nat, job : Session \cup {Silent}]
    BY DEF NoEntry, NoToken
  <1> QED BY <1>1, <1>2

\* The map that override.set installs holds only what may be answered.
LEMMA ValidMaps ==
  ASSUME NEW map \in RequestedMaps, Valid(map)
  PROVE  map \in [Number -> Handler \cup {Silent}]
  BY DEF RequestedMaps, Valid

-----------------------------------------------------------------------------
\* Types: one step per action.
LEMMA TypeStep ==
  ASSUME OverridesTypeOK, OverridesNext PROVE OverridesTypeOK'
  <1> USE DEF OverridesTypeOK
  <1>1. ASSUME NEW s \in Session, Refuse(s) PROVE OverridesTypeOK'
    BY <1>1 DEF Refuse
  <1>2. ASSUME NEW s \in Session, NEW ns \in SUBSET Number, Accept(s, ns)
        PROVE  OverridesTypeOK'
    <2>1. client' = [client EXCEPT ![s] =
                       [pc |-> "registering", token |-> serveToken,
                        numbers |-> ns, todo |-> ns, rx |-> 0]]
      <3>1. client'[s] = [pc |-> "registering", token |-> serveToken,
                          numbers |-> ns, todo |-> ns, rx |-> 0]
        BY <1>2 DEF Accept, Idle
      <3>2. client' = [client EXCEPT ![s] = client'[s]]
        BY <1>2 DEF Accept
      <3> QED BY <3>1, <3>2
    <2>2. serveBusy' = TRUE /\ serveToken' = serveToken + 1
      BY <1>2 DEF Accept
    <2>3. UNCHANGED <<overrides, runtime, gone, emitted>>
      BY <1>2 DEF Accept
    <2>4. serveToken \in Nat /\ serveToken + 1 \in Nat \ {0}
      OBVIOUS
    <2> QED BY <2>1, <2>2, <2>3, <2>4
  <1>3. ASSUME NEW s \in Session, NEW n \in Number, Register(s, n)
        PROVE  OverridesTypeOK'
    BY <1>3 DEF Register
  <1>4. ASSUME NEW s \in Session, Subscribe(s) PROVE OverridesTypeOK'
    BY <1>4 DEF Subscribe
  <1>5. ASSUME NEW s \in Session, Deliver(s) PROVE OverridesTypeOK'
    <2>1. /\ EventCap \in Nat /\ client[s].rx \in Nat /\ emitted \in Nat
          /\ client[s].rx < emitted
      BY <1>5, OverridesAssumption DEF Deliver
    <2>2. UNCHANGED <<serveBusy, serveToken, overrides, runtime, gone, emitted>>
      BY <1>5 DEF Deliver
    <2>3. CASE /\ emitted - client[s].rx > EventCap
               /\ client' = [client EXCEPT ![s].rx = emitted - EventCap]
      <3>1. emitted - EventCap \in Nat
        BY <2>1, <2>3
      <3> QED BY <2>2, <2>3, <3>1
    <2>4. CASE client' = [client EXCEPT ![s].rx = @ + 1,
                            ![s].pc = IF s \in gone THEN "clearing" ELSE @]
      <3>1. client[s].rx + 1 \in Nat
        BY <2>1
      <3>2. CASE s \in gone
        <4>1. client' = [client EXCEPT ![s].rx = @ + 1, ![s].pc = "clearing"]
          BY <2>4, <3>2
        <4> QED BY <2>2, <3>1, <4>1
      <3>3. CASE s \notin gone
        <4>1. client' = [client EXCEPT ![s].rx = @ + 1, ![s].pc = @]
          BY <2>4, <3>3
        <4> QED BY <2>2, <3>1, <4>1
      <3> QED BY <3>2, <3>3
    <2> QED BY <1>5, <2>3, <2>4 DEF Deliver
  <1>6. ASSUME NEW s \in Session, Notice(s) PROVE OverridesTypeOK'
    BY <1>6 DEF Notice
  <1>7. ASSUME NEW s \in Session, ClearOverrides(s) PROVE OverridesTypeOK'
    BY <1>7, Entries DEF ClearOverrides
  <1>8. ASSUME NEW s \in Session, DropSlot(s) PROVE OverridesTypeOK'
    BY <1>8 DEF DropSlot
  <1>9. ASSUME NEW s \in Session, Disconnect(s) PROVE OverridesTypeOK'
    BY <1>9 DEF Disconnect
  <1>10. ASSUME NEW map \in RequestedMaps, OverrideSet(map)
         PROVE  OverridesTypeOK'
    <2>1. map \in [Number -> Handler \cup {Silent}]
      BY <1>10, ValidMaps DEF OverrideSet
    <2> QED BY <1>10, <2>1 DEF OverrideSet, Emit
  <1>11. CASE OverrideClear
    BY <1>11 DEF OverrideClear, Emit
  <1>12. CASE Event
    BY <1>12 DEF Event, Emit
  <1> QED
    BY <1>1, <1>2, <1>3, <1>4, <1>5, <1>6, <1>7, <1>8, <1>9, <1>10, <1>11, <1>12
       DEF OverridesNext, ServeStep

-----------------------------------------------------------------------------
\* While the slot is free the table is empty: no entry has an owner.
LEMMA FreeSlot ==
  ASSUME OverridesInv, ~serveBusy
  PROVE  /\ \A s \in Session : ~Holding(s)
         /\ \A n \in Number : overrides[n] = NoEntry
  BY DEF OverridesInv, OneOwner, OneSession, Holding

\* A session takes the slot: it is the only one, and its token is not 0.
LEMMA AcceptStep ==
  ASSUME OverridesInv, OverridesTypeOK', NEW s \in Session,
         NEW ns \in SUBSET Number, Accept(s, ns)
  PROVE  OverridesInv'
  <1>1. /\ \A t \in Session : ~Holding(t)
        /\ \A n \in Number : overrides[n] = NoEntry
    BY FreeSlot DEF Accept
  <1>2. /\ client'[s] = [pc |-> "registering", token |-> serveToken,
                         numbers |-> ns, todo |-> ns, rx |-> 0]
        /\ \A t \in Session \ {s} : client'[t] = client[t]
    BY DEF Accept, OverridesInv, OverridesTypeOK, Idle
  <1>3. \A t \in Session : Holding(t)' <=> t = s
    BY <1>1, <1>2 DEF Holding, Serving
  <1>4. OneOwner'
    BY <1>1 DEF OneOwner, Accept, NoEntry
  <1>5. OneSession'
    BY <1>3 DEF OneSession, Accept
  <1>6. Tokens'
    BY <1>2, <1>3 DEF Tokens, OverridesInv, OverridesTypeOK, NoToken
  <1>7. Registered'
    <2> SUFFICES ASSUME NEW t \in Session,
                        client'[t].pc \in {"registering", "streaming"}
                 PROVE  /\ client'[t].pc = "streaming" => client'[t].todo = {}
                        /\ client'[t].todo \subseteq client'[t].numbers
                        /\ client'[t].numbers \ client'[t].todo = {}
      BY DEF Registered
    <2>1. t = s
      BY <1>3 DEF Holding, Serving
    <2> QED BY <1>2, <2>1
  <1> QED BY <1>4, <1>5, <1>6, <1>7 DEF OverridesInv

\* A number goes into the table: it was nobody else's.
LEMMA RegisterStep ==
  ASSUME OverridesInv, OverridesTypeOK', NEW s \in Session,
         NEW n \in Number, Register(s, n)
  PROVE  OverridesInv'
  <1>1. /\ client'[s] = [client[s] EXCEPT !.todo = @ \ {n}]
        /\ \A t \in Session \ {s} : client'[t] = client[t]
        /\ client[s].pc = "registering" /\ n \in client[s].todo
        /\ serveBusy' = serveBusy
    BY DEF Register, OverridesInv, OverridesTypeOK
  <1>2. \A t \in Session : /\ client'[t].pc = client[t].pc
                           /\ client'[t].token = client[t].token
                           /\ client'[t].numbers = client[t].numbers
    BY <1>1 DEF OverridesInv, OverridesTypeOK
  <1>3. /\ overrides'[n] = [token |-> client[s].token, job |-> s]
        /\ \A k \in Number \ {n} : overrides'[k] = overrides[k]
    BY DEF Register, OverridesInv, OverridesTypeOK
  <1>4. \A t \in Session : /\ Holding(t)' <=> Holding(t)
                           /\ Serving(t)' <=> Serving(t)
    BY <1>2 DEF Holding, Serving
  <1>5. Holding(s)
    BY <1>1 DEF Holding, Serving
  <1>6. OneOwner'
    <2> SUFFICES ASSUME NEW k \in Number, overrides'[k] # NoEntry
                 PROVE  /\ overrides'[k].job \in Session
                        /\ Serving(overrides[k].job)'
                        /\ k \in client'[overrides'[k].job].numbers
                        /\ overrides'[k].token = client'[overrides'[k].job].token
      BY DEF OneOwner
    <2>1. CASE k = n
      <3>1. n \in client[s].numbers
        BY <1>1 DEF OverridesInv, Registered
      <3> QED BY <1>1, <1>2, <1>3, <1>4, <2>1, <3>1 DEF Serving
    <2>2. CASE k # n
      <3>1. overrides'[k] = overrides[k] /\ overrides[k] # NoEntry
        BY <1>3, <2>2
      <3> QED BY <1>2, <1>4, <3>1 DEF OverridesInv, OneOwner, Serving
    <2> QED BY <2>1, <2>2
  <1>7. OneSession'
    BY <1>1, <1>4 DEF OverridesInv, OneSession
  <1>8. Tokens'
    BY <1>2, <1>4 DEF OverridesInv, Tokens
  <1>9. Registered'
    <2> SUFFICES ASSUME NEW t \in Session,
                        client'[t].pc \in {"registering", "streaming"}
                 PROVE  /\ client'[t].pc = "streaming" => client'[t].todo = {}
                        /\ client'[t].todo \subseteq client'[t].numbers
                        /\ \A k \in client'[t].numbers \ client'[t].todo :
                             overrides'[k] = [token |-> client'[t].token,
                                              job |-> t]
      BY DEF Registered, OverridesTypeOK
    <2>1. t = s
      BY <1>2, <1>5 DEF OverridesInv, OneSession, Holding, Serving
    <2>2. /\ client'[s].pc = "registering"
          /\ client'[s].todo = client[s].todo \ {n}
          /\ client'[s].numbers = client[s].numbers
          /\ client'[s].token = client[s].token
          /\ client[s].todo \subseteq client[s].numbers
          /\ client[s].numbers \subseteq Number
      BY <1>1, <1>2 DEF OverridesInv, OverridesTypeOK, Registered
    <2>3. \A k \in client[s].numbers \ client[s].todo :
            overrides[k] = [token |-> client[s].token, job |-> s]
      BY <1>1 DEF OverridesInv, Registered
    <2> QED BY <1>3, <2>1, <2>2, <2>3
  <1> QED BY <1>6, <1>7, <1>8, <1>9 DEF OverridesInv

\* A serving session goes on: nothing it owns changes.
LEMMA GoOnStep ==
  ASSUME OverridesInv, OverridesTypeOK', NEW s \in Session,
         UNCHANGED <<serveBusy, overrides>>,
         \A t \in Session \ {s} : client'[t] = client[t],
         /\ client'[s].token = client[s].token
         /\ client'[s].numbers = client[s].numbers
         /\ client'[s].todo = client[s].todo,
         \/ Serving(s) /\ client'[s].pc = "clearing"
         \/ /\ client[s].pc \in {"registering", "streaming"}
            /\ client[s].todo = {} /\ client'[s].pc = "streaming"
  PROVE  OverridesInv'
  <1>1. \A t \in Session : /\ Holding(t)' <=> Holding(t)
                           /\ Serving(t)' <=> Serving(t)
                           /\ client'[t].token = client[t].token
                           /\ client'[t].numbers = client[t].numbers
                           /\ client'[t].todo = client[t].todo
    BY DEF Holding, Serving
  <1>2. OneOwner'
    BY <1>1 DEF OverridesInv, OneOwner
  <1>3. OneSession'
    BY <1>1 DEF OverridesInv, OneSession
  <1>4. Tokens'
    BY <1>1 DEF OverridesInv, Tokens
  <1>5. Registered'
    BY <1>1 DEF OverridesInv, Registered
  <1> QED BY <1>2, <1>3, <1>4, <1>5 DEF OverridesInv

\* The table is cleared: every entry was this session's.
LEMMA ClearStep ==
  ASSUME OverridesInv, OverridesTypeOK', NEW s \in Session, ClearOverrides(s)
  PROVE  OverridesInv'
  <1>1. /\ client[s].pc = "clearing" /\ client'[s] = [client[s] EXCEPT !.pc = "leaving"]
        /\ \A t \in Session \ {s} : client'[t] = client[t]
        /\ serveBusy' = serveBusy
    BY DEF ClearOverrides, OverridesInv, OverridesTypeOK
  <1>2. Holding(s) /\ Serving(s)
    BY <1>1 DEF Holding, Serving
  <1>3. \A n \in Number : overrides'[n] = NoEntry
    <2> TAKE n \in Number
    <2>1. overrides[n] = NoEntry \/ overrides[n].token = client[s].token
      BY <1>2 DEF OverridesInv, OneOwner, OneSession, Holding
    <2> QED BY <2>1 DEF ClearOverrides
  <1>4. client'[s].pc = "leaving" /\ client'[s].token = client[s].token
    BY <1>1 DEF OverridesInv, OverridesTypeOK
  <1>5. \A t \in Session : /\ Holding(t)' <=> Holding(t)
                           /\ client'[t].token = client[t].token
    BY <1>1, <1>2, <1>4 DEF Holding, Serving
  <1>6. OneOwner'
    BY <1>3 DEF OneOwner, NoEntry
  <1>7. OneSession'
    BY <1>1, <1>5 DEF OverridesInv, OneSession
  <1>8. Tokens'
    BY <1>5 DEF OverridesInv, Tokens
  <1>9. Registered'
    <2>1. \A t \in Session : client'[t].pc \notin {"registering", "streaming"}
      BY <1>2, <1>4, <1>5 DEF OverridesInv, OneSession, Holding, Serving
    <2> QED BY <2>1 DEF Registered
  <1> QED BY <1>6, <1>7, <1>8, <1>9 DEF OverridesInv

\* The slot is given back: nobody else holds it.
LEMMA DropStep ==
  ASSUME OverridesInv, OverridesTypeOK', NEW s \in Session, DropSlot(s)
  PROVE  OverridesInv'
  <1>1. /\ client[s].pc = "leaving" /\ client'[s].pc = "closed"
        /\ \A t \in Session \ {s} : client'[t] = client[t]
        /\ serveBusy' = FALSE /\ overrides' = overrides
    BY DEF DropSlot, OverridesInv, OverridesTypeOK
  <1>2. Holding(s) /\ ~Serving(s)
    BY <1>1 DEF Holding, Serving
  <1>3. \A t \in Session : ~Holding(t)'
    <2> TAKE t \in Session
    <2>1. CASE t = s
      BY <1>1, <2>1 DEF Holding, Serving
    <2>2. CASE t # s
      <3>1. ~Holding(t)
        BY <1>2, <2>2 DEF OverridesInv, OneSession
      <3> QED BY <1>1, <2>2, <3>1 DEF Holding, Serving
    <2> QED BY <2>1, <2>2
  <1>4. \A n \in Number : overrides[n] = NoEntry
    BY <1>2 DEF OverridesInv, OneOwner, OneSession, Holding
  <1>5. OneOwner'
    BY <1>1, <1>4 DEF OneOwner, NoEntry
  <1>6. OneSession'
    BY <1>1, <1>3 DEF OneSession
  <1>7. Tokens'
    BY <1>3 DEF Tokens
  <1>8. Registered'
    <2>1. \A t \in Session : client'[t].pc \notin {"registering", "streaming"}
      BY <1>3 DEF Holding, Serving
    <2> QED BY <2>1 DEF Registered
  <1> QED BY <1>5, <1>6, <1>7, <1>8 DEF OverridesInv

\* Steps that touch neither the table, nor the slot, nor a session that holds it.
LEMMA ElsewhereStep ==
  ASSUME OverridesInv, OverridesTypeOK', UNCHANGED <<serveBusy, overrides>>,
         \A t \in Session :
           \/ client'[t] = client[t]
           \/ client[t].pc = "idle" /\ client'[t].pc = "refused"
           \/ client[t].pc = "streaming" /\ client'[t] = [client[t] EXCEPT !.rx = client'[t].rx]
  PROVE  OverridesInv'
  <1>1. \A t \in Session :
          /\ Holding(t)' <=> Holding(t)
          /\ Serving(t)' <=> Serving(t)
          /\ Holding(t) => /\ client'[t].pc = client[t].pc
                           /\ client'[t].token = client[t].token
                           /\ client'[t].numbers = client[t].numbers
                           /\ client'[t].todo = client[t].todo
    BY DEF Holding, Serving, OverridesInv, OverridesTypeOK
  <1>2. OneOwner'
    BY <1>1 DEF OverridesInv, OneOwner, Holding
  <1>3. OneSession'
    BY <1>1 DEF OverridesInv, OneSession
  <1>4. Tokens'
    BY <1>1 DEF OverridesInv, Tokens
  <1>5. Registered'
    <2>1. \A t \in Session : client'[t].pc \in {"registering", "streaming"} =>
            Holding(t)
      BY <1>1 DEF Holding, Serving
    <2> QED BY <1>1, <2>1 DEF OverridesInv, Registered
  <1> QED BY <1>2, <1>3, <1>4, <1>5 DEF OverridesInv

-----------------------------------------------------------------------------
LEMMA InvInit == ASSUME OverridesInit PROVE OverridesInv
  <1>1. OverridesTypeOK
    <2>1. overrides \in [Number -> [token : Nat, job : Session \cup {Silent}]]
      BY Entries DEF OverridesInit
    <2>2. client \in [Session -> [pc : {"idle", "refused", "registering",
                                       "streaming", "clearing", "leaving",
                                       "closed"},
                                 token : Nat, numbers : SUBSET Number,
                                 todo : SUBSET Number, rx : Nat]]
      <3>1. Idle = [pc |-> "idle", token |-> 0, numbers |-> {}, todo |-> {},
                    rx |-> 0]
        BY DEF Idle, NoToken
      <3>2. client = [s \in Session |-> Idle]
        BY DEF OverridesInit
      <3> QED BY <3>1, <3>2
    <2>3. serveBusy \in BOOLEAN /\ gone \subseteq Session
      BY DEF OverridesInit
    <2>4. serveToken \in Nat \ {0} /\ emitted \in Nat
      BY DEF OverridesInit
    <2>5. runtime \in [Number -> Handler \cup {Silent}] \cup {NoMap}
      BY DEF OverridesInit
    <2> QED BY <2>1, <2>2, <2>3, <2>4, <2>5 DEF OverridesTypeOK
  <1>2. \A s \in Session : client[s].pc = "idle"
    BY DEF OverridesInit, Idle
  <1>3. OneOwner
    BY DEF OverridesInit, OneOwner
  <1>4. OneSession /\ Tokens /\ Registered
    BY <1>2 DEF OverridesInit, OneSession, Tokens, Registered, Holding, Serving
  <1> QED BY <1>1, <1>3, <1>4 DEF OverridesInv

\* The invariant is inductive: one step per action.
LEMMA InvStep ==
  ASSUME OverridesInv, [OverridesNext]_overridesVars PROVE OverridesInv'
  <1>1. CASE UNCHANGED overridesVars
    BY <1>1 DEF overridesVars, OverridesInv, OverridesTypeOK, OneOwner,
                OneSession, Tokens, Registered, Holding, Serving
  <1>2. CASE OverridesNext
    <2> USE <1>2
    <2>1. OverridesTypeOK'
      BY TypeStep DEF OverridesInv
    <2>2. ASSUME NEW s \in Session, Refuse(s) PROVE OverridesInv'
      BY <2>1, <2>2, ElsewhereStep DEF Refuse, OverridesInv, OverridesTypeOK
    <2>3. ASSUME NEW s \in Session, NEW ns \in SUBSET Number, Accept(s, ns)
          PROVE  OverridesInv'
      BY <2>1, <2>3, AcceptStep
    <2>4. ASSUME NEW s \in Session, NEW n \in Number, Register(s, n)
          PROVE  OverridesInv'
      BY <2>1, <2>4, RegisterStep
    <2>5. ASSUME NEW s \in Session, Subscribe(s) PROVE OverridesInv'
      <3>1. /\ UNCHANGED <<serveBusy, overrides>>
            /\ \A t \in Session \ {s} : client'[t] = client[t]
            /\ client'[s] = [client[s] EXCEPT !.rx = emitted,
                 !.pc = IF s \in gone THEN "clearing" ELSE "streaming"]
            /\ client[s].pc = "registering" /\ client[s].todo = {}
        BY <2>5 DEF Subscribe, OverridesInv, OverridesTypeOK
      <3>2. /\ client'[s].token = client[s].token
            /\ client'[s].numbers = client[s].numbers
            /\ client'[s].todo = client[s].todo
            /\ client'[s].pc = "clearing" \/ client'[s].pc = "streaming"
        BY <3>1 DEF OverridesInv, OverridesTypeOK
      <3> QED BY <2>1, <3>1, <3>2, GoOnStep DEF Serving
    <2>6. ASSUME NEW s \in Session, Deliver(s) PROVE OverridesInv'
      <3>1. CASE client' = [client EXCEPT ![s].rx = emitted - EventCap]
        BY <2>1, <2>6, <3>1, ElsewhereStep DEF Deliver, OverridesInv, OverridesTypeOK
      <3>2. CASE client' = [client EXCEPT ![s].rx = @ + 1,
                             ![s].pc = IF s \in gone THEN "clearing" ELSE @]
        <4>1. /\ UNCHANGED <<serveBusy, overrides>>
              /\ \A t \in Session \ {s} : client'[t] = client[t]
              /\ client[s].pc = "streaming"
              /\ client'[s].token = client[s].token
              /\ client'[s].numbers = client[s].numbers
              /\ client'[s].todo = client[s].todo
              /\ client'[s].pc = "clearing" \/ client'[s].pc = "streaming"
          BY <2>6, <3>2 DEF Deliver, OverridesInv, OverridesTypeOK
        <4>2. client[s].todo = {}
          BY <4>1 DEF OverridesInv, Registered
        <4> QED BY <2>1, <4>1, <4>2, GoOnStep DEF Serving
      <3> QED BY <2>6, <3>1, <3>2 DEF Deliver
    <2>7. ASSUME NEW s \in Session, Notice(s) PROVE OverridesInv'
      <3>1. /\ UNCHANGED <<serveBusy, overrides>>
            /\ \A t \in Session \ {s} : client'[t] = client[t]
            /\ client'[s] = [client[s] EXCEPT !.pc = "clearing"]
            /\ client[s].pc = "streaming"
        BY <2>7 DEF Notice, OverridesInv, OverridesTypeOK
      <3>2. /\ client'[s].token = client[s].token
            /\ client'[s].numbers = client[s].numbers
            /\ client'[s].todo = client[s].todo
            /\ client'[s].pc = "clearing"
        BY <3>1 DEF OverridesInv, OverridesTypeOK
      <3> QED BY <2>1, <3>1, <3>2, GoOnStep DEF Serving
    <2>8. ASSUME NEW s \in Session, ClearOverrides(s) PROVE OverridesInv'
      BY <2>1, <2>8, ClearStep
    <2>9. ASSUME NEW s \in Session, DropSlot(s) PROVE OverridesInv'
      BY <2>1, <2>9, DropStep
    <2>10. ASSUME NEW s \in Session, Disconnect(s) PROVE OverridesInv'
      BY <2>1, <2>10, ElsewhereStep DEF Disconnect
    <2>11. ASSUME NEW map \in RequestedMaps, OverrideSet(map) PROVE OverridesInv'
      BY <2>1, <2>11, ElsewhereStep DEF OverrideSet
    <2>12. CASE OverrideClear
      BY <2>1, <2>12, ElsewhereStep DEF OverrideClear
    <2>13. CASE Event
      BY <2>1, <2>13, ElsewhereStep DEF Event
    <2> QED
      BY <2>2, <2>3, <2>4, <2>5, <2>6, <2>7, <2>8, <2>9, <2>10, <2>11, <2>12, <2>13
         DEF OverridesNext, ServeStep
  <1> QED BY <1>1, <1>2

\* Precedence follows: what streams is registered, and what nobody serves has
\* no entry.
LEMMA PrecedenceHolds == ASSUME OverridesInv PROVE Precedence
  <1> SUFFICES ASSUME NEW n \in Number PROVE
        /\ \A s \in Session :
             client[s].pc = "streaming" /\ n \in client[s].numbers => Resolve(n) = s
        /\ (\A s \in Session : Serving(s) => n \notin client[s].numbers)
             => Resolve(n) = IF runtime = NoMap THEN Config[n] ELSE runtime[n]
    BY DEF Precedence
  <1>1. ASSUME NEW s \in Session, client[s].pc = "streaming",
               n \in client[s].numbers
        PROVE  Resolve(n) = s
    <2>1. overrides[n] = [token |-> client[s].token, job |-> s]
      BY <1>1 DEF OverridesInv, Registered
    <2>2. client[s].token \in Nat /\ client[s].token # NoToken
      BY <1>1 DEF OverridesInv, OverridesTypeOK, Tokens, Holding, Serving
    <2>3. overrides[n] # NoEntry
      BY <2>1, <2>2, Entries
    <2> QED BY <2>1, <2>3 DEF Resolve
  <1>2. ASSUME \A s \in Session : Serving(s) => n \notin client[s].numbers
        PROVE  Resolve(n) = IF runtime = NoMap THEN Config[n] ELSE runtime[n]
    <2>1. overrides[n] = NoEntry
      BY <1>2 DEF OverridesInv, OneOwner
    <2> QED BY <2>1 DEF Resolve
  <1> QED BY <1>1, <1>2

\* In every behaviour of the serve sessions and the override requests, sessions
\* come one at a time, own exactly what they register, and leave the runtime
\* map and the configuration as they were (serve_autoanswer, resolve_inbound).
THEOREM Serve == OverridesSpec => []ServeRight
  <1>1. OverridesInit => OverridesInv
    BY InvInit
  <1>2. OverridesInv /\ [OverridesNext]_overridesVars => OverridesInv'
    BY InvStep
  <1>3. OverridesInv => ServeRight
    BY PrecedenceHolds DEF OverridesInv, ServeRight
  <1> QED BY <1>1, <1>2, <1>3, PTL DEF OverridesSpec

\* And their state keeps its types.
THEOREM OverridesTyping == OverridesSpec => []OverridesTypeOK
  <1>1. OverridesInit => OverridesInv
    BY InvInit
  <1>2. OverridesInv /\ [OverridesNext]_overridesVars => OverridesInv'
    BY InvStep
  <1>3. OverridesInv => OverridesTypeOK
    BY DEF OverridesInv
  <1> QED BY <1>1, <1>2, <1>3, PTL DEF OverridesSpec
=============================================================================
