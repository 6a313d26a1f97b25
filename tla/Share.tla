------------------------------- MODULE Share -------------------------------
(* Sharing the adb server: share.start, share.stop and the expiry of a      *)
(* share against its accept loop, the loops of its forward ports and the    *)
(* connections it serves.  A `start` attempt that binds the share's port is *)
(* numbered; the slot DaemonState.share holds one that has succeeded.  One  *)
(* Notify, `cancel`, is shared by the accept loop and the connections: its  *)
(* permit is modelled, as it goes to whoever asks first.                    *)
EXTENDS Integers, Sequences, FiniteSets, FiniteSetsExt

CONSTANTS Peer,        \* connections to a share, each made once
          ForwardPort, \* ports that a share may forward
          InUse,       \* those that another program holds
          ShareKind,   \* what is asked: [exp, auth, want]
          MaxShare     \* bound: attempts

ASSUME ShareAssumption ==
  /\ InUse \subseteq ForwardPort
  /\ ShareKind \subseteq [exp : BOOLEAN, auth : BOOLEAN,
                          want : SUBSET ForwardPort]
  /\ ShareKind # {} /\ MaxShare \in Nat

VARIABLES
  shareSlot,    \* DaemonState.share: the number of a share, or 0
  shares,  \* number -> attempt
  starter, \* the share.start that holds the lock of the slot
  stopper, \* a share.stop: it has emptied the slot and lets go of the lock
  conn,    \* connection -> how far serve_conn is, for which share
  tunnel,  \* connection -> the share whose forward port it goes through, or 0
  authed   \* number -> peers that have passed the handshake

shareVars == <<shareSlot, shares, starter, stopper, conn, tunnel, authed>>

Attempt(kind) ==
  [exp |-> kind.exp, auth |-> kind.auth, want |-> kind.want,
   main |-> "open", loop |-> "none", permit |-> FALSE, live |-> FALSE,
   fwd |-> [p \in ForwardPort |-> "none"], active |-> 0]
NoStart == [pc |-> "idle", kind |-> CHOOSE k \in ShareKind : TRUE,
            old |-> 0, had |-> FALSE]
NoConn == [pc |-> "idle", of |-> 0]

ShareInit ==
  /\ shareSlot = 0 /\ shares = <<>>
  /\ starter = NoStart /\ stopper = 0
  /\ conn = [c \in Peer |-> NoConn]
  /\ tunnel = [c \in Peer |-> 0]
  /\ authed = <<>>

Update(g, s) == shares' = [shares EXCEPT ![g] = s]
Last == Len(shares)
-----------------------------------------------------------------------------
(* The accept loop and the connections.                                     *)

\* The loop is at its select!: it takes a connection and spawns its task.
AcceptConn(c, g) ==
  /\ conn[c].pc = "idle"
  /\ shares[g].loop = "parked"
  /\ conn' = [conn EXCEPT ![c] = [pc |-> "hello", of |-> g]]
  /\ Update(g, [shares[g] EXCEPT !.loop = "busy"])
  /\ UNCHANGED <<shareSlot, starter, stopper, tunnel, authed>>

CloseUntold(s) == [s EXCEPT !.loop = "ended", !.main = "closed"]

Close(s) == [s EXCEPT !.loop = "ended", !.main = "closed", !.live = FALSE]

\* Back at the select!: a permit left by stop ends the loop.
Park(g) ==
  /\ shares[g].loop = "busy"
  /\ Update(g, IF shares[g].permit
                 THEN Close([shares[g] EXCEPT !.permit = FALSE])
                 ELSE [shares[g] EXCEPT !.loop = "parked"])
  /\ UNCHANGED <<shareSlot, starter, stopper, conn, tunnel, authed>>

\* authenticate, or decline_handshake on an open share, and its time-out.
Handshake(c, ok) ==
  /\ conn[c].pc = "hello"
  /\ LET g == conn[c].of IN
       IF ok
         THEN /\ conn' = [conn EXCEPT ![c].pc = "upstream"]
              /\ authed' = [authed EXCEPT ![g] = @ \cup {c}]
              /\ Update(g, [shares[g] EXCEPT !.active = @ + 1])
         ELSE /\ conn' = [conn EXCEPT ![c].pc = "closed"]
              /\ UNCHANGED <<authed, shares>>
  /\ UNCHANGED <<shareSlot, starter, stopper, tunnel>>

\* splice: the upstream is connected, or refuses; then pump asks for the
\* cancellation, which finds the permit that was left for the loop.
ConnectUpstream(c, ok) ==
  /\ conn[c].pc = "upstream"
  /\ LET g == conn[c].of
         cancelled == ok /\ shares[g].permit IN
       /\ conn' = [conn EXCEPT ![c].pc =
            IF ok /\ ~cancelled THEN "splice" ELSE "ending"]
       /\ Update(g, [shares[g] EXCEPT !.permit = @ /\ ~cancelled])
  /\ UNCHANGED <<shareSlot, starter, stopper, tunnel, authed>>

\* Either side hangs up.
HangUp(c) ==
  /\ conn[c].pc = "splice"
  /\ conn' = [conn EXCEPT ![c].pc = "ending"]
  /\ UNCHANGED <<shareSlot, shares, starter, stopper, tunnel, authed>>

EndConn(c) ==
  /\ conn[c].pc = "ending"
  /\ conn' = [conn EXCEPT ![c].pc = "closed"]
  /\ LET g == conn[c].of IN Update(g, [shares[g] EXCEPT !.active = @ - 1])
  /\ UNCHANGED <<shareSlot, starter, stopper, tunnel, authed>>

\* A forward port lets in who has passed the handshake; what it then copies is
\* a task that nothing but its ends stops.
OpenTunnel(c, g, p) ==
  /\ tunnel[c] = 0
  /\ shares[g].fwd[p] = "open"
  /\ shares[g].auth => c \in authed[g]
  /\ tunnel' = [tunnel EXCEPT ![c] = g]
  /\ UNCHANGED <<shareSlot, shares, starter, stopper, conn, authed>>

CloseTunnel(c) ==
  /\ tunnel[c] # 0
  /\ tunnel' = [tunnel EXCEPT ![c] = 0]
  /\ UNCHANGED <<shareSlot, shares, starter, stopper, conn, authed>>

\* notify_waiters: whoever waits at this moment.
Woken(g) == conn' = [c \in Peer |->
  IF conn[c].of = g /\ conn[c].pc = "splice"
    THEN [conn[c] EXCEPT !.pc = "ending"] ELSE conn[c]]
WakeLoop(s) == IF s.loop = "parked" THEN Close(s) ELSE s
WakeForwards(s) == [s EXCEPT !.fwd =
  [p \in ForwardPort |-> IF @[p] = "open" THEN "closed" ELSE @[p]]]

\* The deadline of the accept loop: the door closes and the room is cleared.
Expire(g) ==
  /\ shares[g].exp /\ shares[g].loop = "parked"
  /\ Woken(g)
  /\ Update(g, Close(WakeForwards(shares[g])))
  /\ UNCHANGED <<shareSlot, starter, stopper, tunnel, authed>>

ForwardExpiresInUse(g, p) ==
  /\ shares[g].exp /\ shares[g].fwd[p] = "open" /\ shares[g].live
  /\ Update(g, [shares[g] EXCEPT !.fwd[p] = "closed"])
  /\ UNCHANGED <<shareSlot, starter, stopper, conn, tunnel, authed>>

\* A forward loop has a deadline of its own.
ForwardExpires(g, p) ==
  /\ shares[g].exp /\ shares[g].fwd[p] = "open"
  /\ Update(g, [shares[g] EXCEPT !.fwd[p] = "closed"])
  /\ UNCHANGED <<shareSlot, starter, stopper, conn, tunnel, authed>>

\* A task that was aborted lets go of its listener a moment later.
Aborts(g) ==
  \/ /\ \E p \in ForwardPort :
          /\ shares[g].fwd[p] = "aborted"
          /\ Update(g, [shares[g] EXCEPT !.fwd[p] = "closed"])
     /\ UNCHANGED <<shareSlot, starter, stopper, conn, tunnel, authed>>
  \/ /\ shares[g].loop = "aborted"
     /\ Update(g, [shares[g] EXCEPT !.loop = "ended", !.main = "closed"])
     /\ UNCHANGED <<shareSlot, starter, stopper, conn, tunnel, authed>>

-----------------------------------------------------------------------------
(* ShareHandle::stop, in two steps: the signals; then the wait for the loop. *)

Signal(g) ==
  /\ Woken(g)
  /\ Update(g, [WakeLoop(shares[g]) EXCEPT
       !.permit = TRUE,
       !.fwd = [p \in ForwardPort |->
                  IF @[p] = "open" THEN "aborted" ELSE @[p]]])

Stopped(g) == shares[g].loop = "ended"

\* SHUTDOWN_GRACE is over: the loop is aborted.
GiveUp(g) ==
  /\ ~Stopped(g)
  /\ Update(g, [shares[g] EXCEPT !.loop = "aborted"])

-----------------------------------------------------------------------------
(* share.start, which holds the lock of the slot from here to its end.      *)

Unlocked == starter.pc = "idle"

Start(kind) ==
  /\ Unlocked /\ Last < MaxShare
  /\ shareSlot' = 0
  /\ IF shareSlot # 0
       THEN /\ Signal(shareSlot)
            /\ starter' = [pc |-> "stopping", kind |-> kind, old |-> shareSlot,
                           had |-> TRUE]
       ELSE /\ starter' = [pc |-> "bind", kind |-> kind, old |-> 0,
                           had |-> FALSE]
            /\ UNCHANGED <<shares, conn>>
  /\ UNCHANGED <<stopper, tunnel, authed>>

StartStopped ==
  /\ starter.pc = "stopping"
  /\ starter' = [starter EXCEPT !.pc = "bind"]
  /\ \/ Stopped(starter.old) /\ UNCHANGED shares
     \/ GiveUp(starter.old)
  /\ UNCHANGED <<shareSlot, stopper, conn, tunnel, authed>>

PortFree == \A g \in 1 .. Last : shares[g].main = "closed"
ForwardFree(p) ==
  p \notin InUse /\ \A g \in 1 .. Last : shares[g].fwd[p] \notin {"open", "aborted"}

\* bind_share: an address in use is tried again for a while after a share of
\* our own has been stopped.
BindFailed ==
  \/ /\ starter.had /\ Last < MaxShare
     /\ starter' = [starter EXCEPT !.pc = "bind"]
  \/ starter' = NoStart

Bind ==
  /\ starter.pc = "bind"
  /\ \/ /\ PortFree /\ Last < MaxShare
        /\ shares' = Append(shares, Attempt(starter.kind))
        /\ authed' = Append(authed, {})
        /\ starter' = [starter EXCEPT !.pc = "forwards"]
     \/ /\ ~PortFree
        /\ BindFailed
        /\ UNCHANGED <<shares, authed>>
  /\ UNCHANGED <<shareSlot, stopper, conn, tunnel>>

\* start: the forward ports, one after the other.  If one is taken the share's
\* own listener is dropped with the error; the loops spawned before are not.
BindForward ==
  /\ starter.pc = "forwards"
  /\ LET left == {p \in shares[Last].want : shares[Last].fwd[p] = "none"} IN
       /\ left # {}
       /\ LET p == Min(left) IN
            \/ /\ ForwardFree(p)
               /\ Update(Last, [shares[Last] EXCEPT !.fwd[p] = "open"])
               /\ UNCHANGED starter
            \/ /\ ~ForwardFree(p)
               /\ Update(Last, [shares[Last] EXCEPT !.main = "closed",
                                                    !.loop = "ended"])
               /\ BindFailed
  /\ UNCHANGED <<shareSlot, stopper, conn, tunnel, authed>>

\* Every port is bound: the accept loop is spawned, the slot filled.
StartDone ==
  /\ starter.pc = "forwards"
  /\ \A p \in shares[Last].want : shares[Last].fwd[p] # "none"
  /\ Update(Last, [shares[Last] EXCEPT !.loop = "parked", !.live = TRUE])
  /\ shareSlot' = Last
  /\ starter' = NoStart
  /\ UNCHANGED <<stopper, conn, tunnel, authed>>

\* share.stop: a share that has expired is dropped as it is.
ShareStop ==
  /\ Unlocked /\ shareSlot # 0 /\ stopper = 0
  /\ shareSlot' = 0
  /\ IF shares[shareSlot].live THEN Signal(shareSlot) /\ stopper' = shareSlot
     ELSE UNCHANGED <<shares, conn, stopper>>
  /\ UNCHANGED <<starter, tunnel, authed>>

StopDone ==
  /\ stopper # 0
  /\ stopper' = 0
  /\ \/ Stopped(stopper) /\ UNCHANGED shares
     \/ GiveUp(stopper)
  /\ UNCHANGED <<shareSlot, starter, conn, tunnel, authed>>

-----------------------------------------------------------------------------
StartStep == StartStopped \/ Bind \/ BindForward \/ StartDone
ConnStep(c) ==
  \/ \E ok \in BOOLEAN : Handshake(c, ok) \/ ConnectUpstream(c, ok)
  \/ EndConn(c)

ShareNext ==
  \/ (\E kind \in ShareKind : Start(kind)) \/ StartStopped \/ Bind
  \/ BindForward \/ StartDone \/ ShareStop \/ StopDone
  \/ \E c \in Peer :
       \/ \E ok \in BOOLEAN : Handshake(c, ok) \/ ConnectUpstream(c, ok)
       \/ HangUp(c) \/ EndConn(c) \/ CloseTunnel(c)
       \/ \E g \in 1 .. Last :
            AcceptConn(c, g) \/ \E p \in ForwardPort : OpenTunnel(c, g, p)
  \/ \E g \in 1 .. Last :
       \/ Park(g) \/ Expire(g) \/ Aborts(g)
       \/ \E p \in ForwardPort : ForwardExpires(g, p)

ShareSpec == ShareInit /\ [][ShareNext]_shareVars

FairShareSpec ==
  /\ ShareSpec
  /\ WF_shareVars(StartStep) /\ WF_shareVars(StopDone)
  /\ \A c \in Peer : WF_shareVars(ConnStep(c))
  /\ \A g \in 1 .. MaxShare :
       /\ WF_shareVars(g <= Last /\ Park(g))
       /\ WF_shareVars(g <= Last /\ Expire(g))
       /\ WF_shareVars(g <= Last /\ Aborts(g))
       /\ \A p \in ForwardPort : WF_shareVars(g <= Last /\ ForwardExpires(g, p))
-----------------------------------------------------------------------------
ShareTypeOK ==
  /\ shareSlot \in 0 .. Last /\ stopper \in 0 .. Last
  /\ Last <= MaxShare /\ Len(authed) = Last
  /\ \A g \in 1 .. Last :
       /\ shares[g] \in
            [exp : BOOLEAN, auth : BOOLEAN, want : SUBSET ForwardPort,
             main : {"open", "closed"}, permit : BOOLEAN, live : BOOLEAN,
             loop : {"none", "parked", "busy", "aborted", "ended"},
             fwd : [ForwardPort -> {"none", "open", "aborted", "closed"}],
             active : Nat]
       /\ authed[g] \subseteq Peer
  /\ starter \in [pc : {"idle", "stopping", "bind", "forwards"},
                  kind : ShareKind, old : 0 .. Last, had : BOOLEAN]
  /\ conn \in [Peer -> [pc : {"idle", "hello", "upstream", "splice",
                              "ending", "closed"}, of : 0 .. Last]]
  /\ tunnel \in [Peer -> 0 .. Last]

\* What share.status tells of the slot is true: a share is running exactly
\* while its port is open, and its active connections are those being served
\* (is_live, active_connections).
StatusIsTrue ==
  /\ shareSlot # 0 => (shares[shareSlot].live <=> shares[shareSlot].main = "open")
  /\ \A g \in 1 .. Last :
       shares[g].active = Cardinality({c \in Peer :
         conn[c].of = g /\ conn[c].pc \in {"upstream", "splice", "ending"}})

\* A share that is to expire closes by itself, whether stopped, replaced, or
\* left over by an attempt that failed: none of its listeners stays open, and
\* the lock of the slot is given back (accept_loop, forward_loop, stop).
ClosesByItself ==
  /\ \A g \in 1 .. MaxShare :
       (g <= Last /\ shares[g].exp)
         ~> (g <= Last /\ shares[g].main = "closed"
               /\ \A p \in ForwardPort : shares[g].fwd[p] # "open")
  /\ starter.pc # "idle" ~> starter.pc = "idle"

\* "Forward-port listeners, stopped with the share": a forward port listens
\* only for the share in the slot, or one being started.
NoStrayListener ==
  Unlocked => \A g \in 1 .. Last, p \in ForwardPort :
    shares[g].fwd[p] = "open" => g = shareSlot
=============================================================================
