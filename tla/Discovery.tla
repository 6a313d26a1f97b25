----------------------------- MODULE Discovery -----------------------------
(* How a daemon is advertised on the LAN: by a process of the OS's mDNS     *)
(* responder (dns-sd, avahi-publish), spawned once at the start of the      *)
(* daemon and killed when the daemon drops it.  A daemon that dies without  *)
(* the drop leaves its advertiser to init, still advertising; the next      *)
(* start of any daemon on the host tells such orphans to end, as far as it  *)
(* may signal them: nobody looks whether they do.  A process is known by    *)
(* the order in which it was spawned, as its pid while it is alive.         *)
EXTENDS Integers

CONSTANTS Daemon,    \* the daemons of this host: the system's and the users'
          Root,      \* those that run as root; the others are of a user each
          Responder, \* what the host has of {"dns-sd", "avahi-publish"}
          Words,     \* what an advertiser may say as it goes
          MaxAdvert  \* bound: advertisers spawned

ASSUME DiscoveryAssumption ==
  /\ \A d \in Daemon : d \notin {"none", "init", "gone"}
  /\ Root \subseteq Daemon
  /\ Responder \subseteq {"dns-sd", "avahi-publish"}
  /\ "nothing" \in Words /\ MaxAdvert \in Nat

VARIABLES
  spawned,     \* advertisers spawned so far
  parent,      \* advertiser -> its daemon, or "init", or "none", "gone"
  owner,       \* running advertiser -> the daemon as whose user it runs
  told,        \* running advertisers that a reaping has sent a SIGTERM
  established, \* avahi-publish has written "Established"
  via,         \* advertiser -> the responder it is of
  said,        \* what an advertiser wrote on stderr as it went
  tail,        \* stderr_tail: what the relay thread has read of that
  dialfd,      \* daemon -> its start and its Advert
  strays       \* history: daemon -> the orphans that were there when it started
               \* and still run

discoveryVars ==
  <<spawned, parent, owner, told, established, via, said, tail, dialfd, strays>>

Advertiser == 1 .. MaxAdvert
Cause == {"down", "denied"}  \* "Daemon not running", "Not permitted"
Stage == {"down", "reap", "kill", "spawn", "confirm", "up"}

\* `child` outlives the process: a failed advert's cause is its last words.
Down == [pc |-> "down", todo |-> {}, child |-> 0, bind |-> "lan",
         advert |-> "none", problem |-> "none"]
Failed(s, problem) ==
  [s EXCEPT !.pc = "up", !.advert = "failed", !.problem = problem]
Active(s) == [s EXCEPT !.pc = "up", !.advert = "active"]

Orphans == {p \in Advertiser : parent[p] = "init"}
Running(p) == parent[p] \in Daemon \cup {"init"}

\* kill(2): root may signal all, a user its own processes.
MaySignal(d, p) == d \in Root \/ owner[p] = d

DiscoveryInit ==
  /\ spawned = 0
  /\ parent = [p \in Advertiser |-> "none"]
  /\ owner = [p \in Advertiser |-> "none"]
  /\ told = {}
  /\ established = [p \in Advertiser |-> FALSE]
  /\ via = [p \in Advertiser |-> "none"]
  /\ said = [p \in Advertiser |-> "nothing"]
  /\ tail = [p \in Advertiser |-> "nothing"]
  /\ dialfd = [d \in Daemon |-> Down]
  /\ strays = [d \in Daemon |-> {}]

pipes == <<established, said, tail>>
processes == <<spawned, parent, owner, told, via>>
-----------------------------------------------------------------------------
(* discovery::start.                                                        *)

\* A ws_bind that does not parse fails before anything else is done.
Launch(d, bind) ==
  /\ dialfd[d].pc = "down"
  /\ dialfd' = [dialfd EXCEPT ![d] =
       IF bind = "bad" THEN Failed([Down EXCEPT !.bind = bind], "bind")
                       ELSE [Down EXCEPT !.pc = "reap", !.bind = bind]]
  /\ strays' = [strays EXCEPT ![d] = IF bind = "bad" THEN {} ELSE Orphans]
  /\ UNCHANGED <<processes, pipes>>

ListAdvertisers(d) ==
  /\ dialfd[d].pc = "reap"
  /\ dialfd' = [dialfd EXCEPT ![d].pc = "kill",
                              ![d].todo = {p \in Advertiser : Running(p)}]
  /\ UNCHANGED <<processes, pipes, strays>>

\* reap_stale_advertisers: `ps`, then a SIGTERM for each that it listed.
ListOrphans(d) ==
  /\ dialfd[d].pc = "reap"
  /\ dialfd' = [dialfd EXCEPT ![d].pc = "kill", ![d].todo = Orphans]
  /\ UNCHANGED <<processes, pipes, strays>>

\* Without a `ps` that runs nothing is reaped: it is a best effort.
ListFails(d) ==
  /\ dialfd[d].pc = "reap"
  /\ dialfd' = [dialfd EXCEPT ![d].pc = "kill"]
  /\ strays' = [strays EXCEPT ![d] = {}]
  /\ UNCHANGED <<processes, pipes>>

\* What becomes of the SIGTERM is not asked: one that may not signal p goes on,
\* and p ends when it gets to it (AdvertiserExits), if ever.
KillOrphan(d, p) ==
  /\ dialfd[d].pc = "kill" /\ p \in dialfd[d].todo
  /\ dialfd' = [dialfd EXCEPT ![d].todo = @ \ {p}]
  /\ told' = IF Running(p) /\ MaySignal(d, p) THEN told \cup {p} ELSE told
  /\ UNCHANGED <<spawned, parent, owner, via, pipes, strays>>

\* Reaping comes first even for a daemon that will not advertise.
Reaped(d) ==
  /\ dialfd[d].pc = "kill" /\ dialfd[d].todo = {}
  /\ dialfd' = [dialfd EXCEPT ![d] =
       IF @.bind = "loopback"
         THEN [@ EXCEPT !.pc = "up", !.advert = "loopback"]
         ELSE [@ EXCEPT !.pc = "spawn"]]
  /\ UNCHANGED <<processes, pipes, strays>>

SpawnFails(d) ==
  /\ dialfd[d].pc = "spawn"
  /\ dialfd' = [dialfd EXCEPT ![d] = Failed(@, "install")]
  /\ UNCHANGED <<processes, pipes, strays>>

\* dns-sd says nothing that is waited for.
Spawn(d, r) ==
  /\ dialfd[d].pc = "spawn" /\ spawned < MaxAdvert
  /\ spawned' = spawned + 1
  /\ parent' = [parent EXCEPT ![spawned + 1] = d]
  /\ owner' = [owner EXCEPT ![spawned + 1] = d]
  /\ via' = [via EXCEPT ![spawned + 1] = r]
  /\ dialfd' = [dialfd EXCEPT ![d] =
       IF r = "dns-sd" THEN Active([@ EXCEPT !.child = spawned + 1])
                       ELSE [@ EXCEPT !.pc = "confirm", !.child = spawned + 1]]
  /\ UNCHANGED <<told, pipes, strays>>

ConfirmedOrGivenUp(d) ==
  /\ dialfd[d].pc = "confirm"
  /\ dialfd' = [dialfd EXCEPT ![d] =
       IF established[@.child] THEN Active(@) ELSE Failed(@, "other")]
  /\ UNCHANGED <<processes, pipes, strays>>

\* The wait for "Established" ends with it, or with CONFIRM_WAIT over.
Confirmed(d) ==
  /\ dialfd[d].pc = "confirm"
  /\ dialfd' = [dialfd EXCEPT ![d] = Active(@)]
  /\ UNCHANGED <<processes, pipes, strays>>

\* avahi_cause: two causes are known by their wording.
CauseOf(words) == IF words \in Cause THEN words ELSE "other"

\* stdout ended first: the relay thread is joined, then the cause is read.
ConfirmEnds(d) ==
  LET p == dialfd[d].child IN
  /\ dialfd[d].pc = "confirm" /\ ~Running(p) /\ ~established[p]
  /\ tail' = [tail EXCEPT ![p] = said[p]]
  /\ dialfd' = [dialfd EXCEPT ![d] = Failed(@, CauseOf(said[p]))]
  /\ UNCHANGED <<processes, established, said, strays>>
-----------------------------------------------------------------------------
(* server.info, and the end of the daemon.                                  *)

\* Advert::report on an advertiser that has exited; the relay thread may not
\* have read its last words yet.
ReportExit(d) ==
  LET p == dialfd[d].child IN
  /\ dialfd[d].pc = "up" /\ dialfd[d].advert = "active" /\ ~Running(p)
  /\ dialfd' = [dialfd EXCEPT ![d] =
       Failed(@, IF via[p] = "avahi-publish" THEN CauseOf(tail[p]) ELSE "exited")]
  /\ UNCHANGED <<processes, pipes, strays>>

\* The daemon returns (a port is taken): the drop kills the advertiser.
Stops(d) ==
  /\ dialfd[d].pc = "up"
  /\ parent' = [p \in Advertiser |-> IF parent[p] = d THEN "gone" ELSE parent[p]]
  /\ owner' = [p \in Advertiser |-> IF parent[p] = d THEN "none" ELSE owner[p]]
  /\ dialfd' = [dialfd EXCEPT ![d] = Down]
  /\ strays' = [strays EXCEPT ![d] = {}]
  /\ UNCHANGED <<spawned, told, via, pipes>>

\* It dies by a signal (the daemon handles none): the advertiser lives on.
Dies(d) ==
  /\ dialfd[d].pc # "down"
  /\ parent' = [p \in Advertiser |-> IF parent[p] = d THEN "init" ELSE parent[p]]
  /\ dialfd' = [dialfd EXCEPT ![d] = Down]
  /\ strays' = [strays EXCEPT ![d] = {}]
  /\ UNCHANGED <<spawned, owner, told, via, pipes>>
-----------------------------------------------------------------------------
(* The advertiser, and the thread that relays its stderr.                   *)

Established(p) ==
  /\ via[p] = "avahi-publish" /\ Running(p) /\ ~established[p]
  /\ established' = [established EXCEPT ![p] = TRUE]
  /\ UNCHANGED <<processes, said, tail, dialfd, strays>>

\* The responder stops or refuses the service; one that was told to end does.
AdvertiserExits(p, words) ==
  /\ Running(p)
  /\ parent' = [parent EXCEPT ![p] = "gone"]
  /\ said' = [said EXCEPT ![p] = words]
  /\ told' = told \ {p}
  /\ owner' = [owner EXCEPT ![p] = "none"]
  /\ strays' = [d \in Daemon |-> strays[d] \ {p}]
  /\ UNCHANGED <<spawned, via, established, tail, dialfd>>

Relay(d) ==
  LET p == dialfd[d].child IN
  /\ dialfd[d].pc \in {"confirm", "up"} /\ p # 0 /\ via[p] = "avahi-publish"
  /\ tail[p] # said[p]
  /\ tail' = [tail EXCEPT ![p] = said[p]]
  /\ UNCHANGED <<processes, established, said, dialfd, strays>>

DiscoveryNext ==
  \/ \E d \in Daemon :
       \/ \E bind \in {"lan", "loopback", "bad"} : Launch(d, bind)
       \/ ListOrphans(d) \/ ListFails(d)
       \/ \E p \in Advertiser : KillOrphan(d, p)
       \/ Reaped(d) \/ SpawnFails(d)
       \/ \E r \in Responder : Spawn(d, r)
       \/ Confirmed(d) \/ ConfirmEnds(d)
       \/ ReportExit(d) \/ Stops(d) \/ Dies(d) \/ Relay(d)
  \/ \E p \in Advertiser :
       \/ Established(p)
       \/ \E words \in Words : AdvertiserExits(p, words)

DiscoverySpec == DiscoveryInit /\ [][DiscoveryNext]_discoveryVars
-----------------------------------------------------------------------------
Dialfd ==
  [pc : Stage, todo : SUBSET Advertiser, child : 0 .. MaxAdvert,
   bind : {"lan", "loopback", "bad"},
   advert : {"none", "active", "loopback", "failed"},
   problem : Cause \cup {"none", "other", "bind", "install", "exited"}]

\* Every variable stays in its declared set.
DiscoveryTypeOK ==
  /\ spawned \in 0 .. MaxAdvert
  /\ parent \in [Advertiser -> Daemon \cup {"none", "init", "gone"}]
  /\ owner \in [Advertiser -> Daemon \cup {"none"}]
  /\ told \subseteq Advertiser
  /\ established \in [Advertiser -> BOOLEAN]
  /\ via \in [Advertiser -> Responder \cup {"none"}]
  /\ said \in [Advertiser -> Words]
  /\ tail \in [Advertiser -> Words]
  /\ dialfd \in [Daemon -> Dialfd]
  /\ strays \in [Daemon -> SUBSET Advertiser]

\* A healthy daemon's advertiser is never touched (reap_stale_advertisers):
\* what a start is about to signal, or has been signalled, no daemon is the
\* parent of any more.
SparesTheHealthy ==
  /\ \A d \in Daemon : \A p \in dialfd[d].todo : parent[p] \notin Daemon
  /\ \A p \in told : parent[p] \notin Daemon

\* Of the advertisers that were orphans when a daemon started, each that still
\* runs past the reaping has been told to end, unless it is another user's and
\* out of this daemon's reach; also if the daemon itself is not advertised
\* (start, "even when we won't advertise ourselves").
DecoysReaped ==
  \A d \in Daemon : dialfd[d].pc \in {"spawn", "confirm", "up"} =>
    \A p \in strays[d] : MaySignal(d, p) => p \in told

\* The reaping tells all the orphans it may, and only orphans, to end.
ReapRight == SparesTheHealthy /\ DecoysReaped

\* An orphan "keeps advertising a dead endpoint forever, luring phones away
\* from live daemons" (reap_stale_advertisers), unless a start ends that.  It
\* does not always: an orphan of root's stays when a user's daemon starts, as
\* the failure of `kill` is ignored, and one that was told may take its time.
DecoysGone ==
  \A d \in Daemon : dialfd[d].pc \in {"spawn", "confirm", "up"} =>
    strays[d] = {}

\* What server.info says of a daemon stands (Advert, report): one that is not
\* advertised, or whose advertisement failed, has no advertiser running until
\* it is restarted, one that is has no second one, and a cause that is named
\* is what this daemon's own advertiser said.
AdvertRight ==
  \A d \in Daemon :
    /\ \A p \in Advertiser : parent[p] = d =>
         /\ dialfd[d].advert \notin {"loopback", "failed"}
         /\ dialfd[d].child = p
    /\ dialfd[d].problem \in Cause =>
         said[dialfd[d].child] = dialfd[d].problem
=============================================================================
