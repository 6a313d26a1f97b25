------------------------------ MODULE AdbLink ------------------------------
(* Wireless adb, for one phone (links are kept per device and share         *)
(* nothing).  The app watches its own advert and reports the port on its    *)
(* heartbeats; the daemon looks the phone up in this host's adb server and, *)
(* if the configuration says so, connects it.  Endpoints are ports, as the  *)
(* address stays; time is counted in units of the first back-off.           *)
EXTENDS Integers, Sequences

CONSTANTS Port, None,
          AutoConnect, \* adb_share.autoconnect
          AdbFound,    \* resolve_adb finds the program
          MaxRetry,    \* MAX_RETRY over FIRST_RETRY
          MaxChange    \* bound: what happens to the phone, the link and adb

ASSUME AdbLinkAssumption ==
  /\ None \notin Port
  /\ AutoConnect \in BOOLEAN /\ AdbFound \in BOOLEAN
  /\ MaxRetry \in Nat \ {0} /\ MaxChange \in Nat

VARIABLES
  wifi,    \* the setting adb_wifi_enabled
  adbd,    \* the port that is advertised and listens, or None
  adb,     \* the app: what it has read and found, and its NSD callbacks
  wire,    \* heartbeat reports on their way
  shown,   \* DeviceInfo.adb: a status, or NoRecord without a registry record
  link,    \* Link: endpoint and back-off
  busy,    \* Link.busy
  drive,   \* the spawned check
  telling, \* outcomes of checks that have cleared busy and not yet been shown
  server,  \* the host's adb server: state of each serial
  paired,  \* this host's key is known to the phone
  changes

adbLinkVars == <<wifi, adbd, adb, wire, shown, link, busy, drive, telling,
                 server, paired, changes>>

phoneVars == <<wifi, adbd, adb>>
linkVars == <<link, busy, drive, telling>>

Mdns == "mdns"  \* the serial adb gives a phone that it connected by itself
Serials(p) == {p, Mdns}
NoRecord == [state |-> "no record", ep |-> None]
Status(state, p) == [state |-> state, ep |-> p]
NoDrive == [pc |-> "idle", ep |-> None, previous |-> None, may |-> FALSE,
            outcome |-> NoRecord]

AdbLinkInit ==
  /\ wifi = FALSE /\ adbd = None
  /\ adb = [enabled |-> FALSE, port |-> None, own |-> FALSE, disc |-> FALSE,
            told |-> FALSE, watch |-> FALSE, seen |-> None, failed |-> FALSE]
  /\ wire = <<>>
  /\ shown = Status("none", None)
  /\ link = [ep |-> None, delay |-> 1, wait |-> 0]
  /\ busy = FALSE /\ drive = NoDrive /\ telling = {}
  /\ server = [s \in Port \cup {Mdns} |-> "absent"]
  /\ paired = TRUE
  /\ changes = 0

Change == changes < MaxChange /\ changes' = changes + 1
-----------------------------------------------------------------------------
(* The app.                                                                 *)

Linked == shown # NoRecord
Report(a) == [wifi |-> a.enabled, port |-> a.port]

\* setAdb: news is told at once, if there is a socket.
SetAdb(a, enabled, p) == [a EXCEPT !.enabled = enabled, !.port = p]
Poke(a) == IF Linked /\ Report(a) # Report(adb) THEN Append(wire, Report(a))
           ELSE wire

StopAdbDiscovery(a) ==
  [a EXCEPT !.disc = FALSE, !.told = FALSE, !.watch = FALSE, !.seen = None]

\* refreshAdb: the port is not known anew until it is found anew.
RefreshAdb(a) ==
  IF ~wifi THEN SetAdb(StopAdbDiscovery(a), FALSE, None)
  ELSE LET b == IF a.enabled THEN a ELSE SetAdb(a, TRUE, None)
       IN IF b.disc THEN b ELSE [StopAdbDiscovery(b) EXCEPT !.disc = TRUE]

SettingChanged ==
  /\ adb.enabled # wifi
  /\ adb' = RefreshAdb(adb)
  /\ wire' = Poke(adb')
  /\ UNCHANGED <<wifi, adbd, shown, linkVars, server, paired, changes>>

\* resolveAdb: a watch on the advert, one for each name.
FoundAdb ==
  /\ adb.disc /\ adbd # None /\ ~adb.told
  /\ adb' = [adb EXCEPT !.told = TRUE, !.watch = TRUE]
  /\ UNCHANGED <<wifi, adbd, wire, shown, linkVars, server, paired, changes>>

PickAny(host, p) == p

\* AdbEndpoint.pickOwn: of all phones' services, the one at our own address.
PickOwn(host, p) == IF host = "own" THEN p ELSE None

OnAdbResolved(a, host, p) ==
  IF PickOwn(host, p) = None THEN a
  ELSE LET b == [a EXCEPT !.own = TRUE]
       IN IF b.enabled THEN SetAdb(b, TRUE, p) ELSE b

AdbResolved(host, p) ==
  /\ \/ host = "own" /\ adb.watch /\ adbd = p /\ adb.seen # p
     \/ host = "other" /\ adb.disc
  /\ adb' = [OnAdbResolved(adb, host, p) EXCEPT
               !.seen = IF host = "own" THEN p ELSE @]
  /\ wire' = Poke(adb')
  /\ UNCHANGED <<wifi, adbd, shown, linkVars, server, paired, changes>>

\* onServiceLost, of the search and of the watch.
LostAdb ==
  /\ adbd = None /\ (adb.told \/ adb.seen # None)
  /\ LET a == [adb EXCEPT !.told = FALSE, !.seen = None]
     IN adb' = IF a.own THEN SetAdb(a, a.enabled, None) ELSE a
  /\ wire' = Poke(adb')
  /\ UNCHANGED <<wifi, adbd, shown, linkVars, server, paired, changes>>

\* A search that cannot start is forgotten, before it has found anything; so is
\* a watch, before it has seen anything.  Neither is taken up again before the
\* next setting or connection (or advert).
NsdFails ==
  /\ adb.disc /\ Change
  /\ \/ ~adb.told /\ ~adb.watch
        /\ adb' = [adb EXCEPT !.disc = FALSE, !.failed = TRUE]
     \/ adb.watch /\ adb.seen = None
        /\ adb' = [adb EXCEPT !.watch = FALSE, !.failed = TRUE]
  /\ UNCHANGED <<wifi, adbd, wire, shown, linkVars, server, paired>>

\* Every 30 s.
ReportPort ==
  /\ Linked /\ wire = <<>>
  /\ wire' = <<Report(adb)>>
  /\ UNCHANGED <<phoneVars, shown, linkVars, server, paired, changes>>

Unlink ==
  /\ Linked /\ Change
  /\ shown' = NoRecord /\ wire' = <<>>
  /\ UNCHANGED <<phoneVars, linkVars, server, paired>>

\* hello makes a new registry record; onOpen looks at the setting again.
Relink ==
  /\ ~Linked
  /\ shown' = Status("none", None)
  /\ adb' = RefreshAdb(adb)
  /\ wire' = <<Report(adb')>>
  /\ UNCHANGED <<wifi, adbd, linkVars, server, paired, changes>>

-----------------------------------------------------------------------------
(* The daemon.                                                              *)

\* set_status: nobody to tell without a registry record.
SetStatus(s) == shown' = IF Linked THEN s ELSE NoRecord

\* on_report.  One that comes while a check is running is passed over.
OnReport ==
  /\ wire # <<>>
  /\ wire' = Tail(wire)
  /\ LET r == Head(wire)
         changed == link.ep # r.port
     IN \/ /\ ~r.wifi \/ r.port = None
           /\ SetStatus(Status("off", None))
           /\ UNCHANGED linkVars
        \/ /\ r.wifi /\ r.port # None /\ busy
           /\ UNCHANGED <<shown, linkVars>>
        \/ /\ r.wifi /\ r.port # None /\ ~busy
           /\ link' = IF changed THEN [ep |-> r.port, delay |-> 1, wait |-> 0]
                      ELSE link
           /\ busy' = TRUE
           /\ drive' = [pc |-> "look", ep |-> r.port,
                        previous |-> IF changed THEN link.ep ELSE None,
                        may |-> changed \/ link.wait = 0,
                        outcome |-> NoRecord]
           /\ SetStatus(IF shown.ep # r.port THEN Status("available", r.port)
                        ELSE shown)
           /\ UNCHANGED telling
  /\ UNCHANGED <<phoneVars, server, paired, changes>>

ThenDo(pc) == drive' = [drive EXCEPT !.pc = pc]
Concludes(s) == drive' = [drive EXCEPT !.pc = "done", !.outcome = s]
StillWaiting == NoRecord

\* host_state: of these serials, one that is a device if there is one.
ListedAs(ss) ==
  IF \E s \in ss : server[s] = "device" THEN "device"
  ELSE IF \E s \in ss : server[s] # "absent"
         THEN server[CHOOSE s \in ss : server[s] # "absent"]
         ELSE "absent"

\* drive.  The look may fail or time out, which reads as a phone not listed.
Look ==
  /\ drive.pc = "look"
  /\ \/ /\ ListedAs(Serials(drive.ep)) = "device"
        /\ Concludes(Status("connected", drive.ep))
        /\ UNCHANGED changes
     \/ /\ ListedAs(Serials(drive.ep)) = "unauthorized"
        /\ Concludes(Status("needs pairing", drive.ep))
        /\ UNCHANGED changes
     \/ /\ \/ ListedAs(Serials(drive.ep)) \in {"absent", "offline"}
              /\ UNCHANGED changes
           \/ Change
        /\ IF ~drive.may THEN Concludes(StillWaiting)
           ELSE IF ~AutoConnect THEN Concludes(Status("available", drive.ep))
           ELSE IF ~AdbFound THEN Concludes(Status("adb not found", drive.ep))
           ELSE ThenDo(IF drive.previous # None THEN "disconnect" ELSE "show")
  /\ UNCHANGED <<phoneVars, wire, shown, link, busy, telling, server, paired>>

DisconnectOld ==
  /\ drive.pc = "disconnect"
  /\ server' = [server EXCEPT ![drive.previous] = "absent"]
  /\ ThenDo("show")
  /\ UNCHANGED <<phoneVars, wire, shown, link, busy, telling, paired, changes>>

ShowConnecting ==
  /\ drive.pc = "show"
  /\ SetStatus(Status("connecting", drive.ep))
  /\ ThenDo("connect")
  /\ UNCHANGED <<phoneVars, wire, link, busy, telling, server, paired, changes>>

\* adb connect and classify_connect; it may also time out.
RunConnect ==
  /\ drive.pc = "connect"
  /\ \/ /\ drive.ep = adbd /\ paired
        /\ server' = [server EXCEPT ![drive.ep] = "device"]
        /\ ThenDo("verify")
        /\ UNCHANGED changes
     \/ /\ drive.ep = adbd /\ ~paired
        /\ Concludes(Status("needs pairing", drive.ep))
        /\ UNCHANGED <<server, changes>>
     \/ /\ drive.ep # adbd \/ Change
        /\ Concludes(Status("error", drive.ep))
        /\ UNCHANGED server
        /\ drive.ep # adbd => UNCHANGED changes
  /\ UNCHANGED <<phoneVars, wire, shown, link, busy, telling, paired>>

\* "connected" is believed when the phone is on the list.
Verify ==
  /\ drive.pc = "verify"
  /\ \/ /\ server[drive.ep] = "device"
        /\ Concludes(Status("connected", drive.ep))
        /\ UNCHANGED changes
     \/ /\ \/ server[drive.ep] # "device" /\ UNCHANGED changes
           \/ Change
        /\ Concludes(Status("error", drive.ep))
  /\ UNCHANGED <<phoneVars, wire, shown, link, busy, telling, server, paired>>

BackedOffUncapped(l) == [l EXCEPT !.wait = l.delay, !.delay = 2 * @]

\* Backoff: doubled up to a limit by a failure, forgotten with a success.
BackedOff(l) == [l EXCEPT !.wait = l.delay,
                       !.delay = IF 2 * @ < MaxRetry THEN 2 * @ ELSE MaxRetry]
Ready(l) == [l EXCEPT !.wait = 0, !.delay = 1]

FinishStillBusy ==
  /\ drive.pc = "done"
  /\ LET s == drive.outcome IN
       /\ busy' = (s = StillWaiting)
       /\ link' = IF s = StillWaiting THEN link
                  ELSE IF s.state \in {"connected", "available"}
                         THEN Ready(link) ELSE BackedOff(link)
       /\ telling' = IF s = StillWaiting THEN telling ELSE telling \cup {s}
  /\ drive' = NoDrive
  /\ UNCHANGED <<phoneVars, wire, shown, server, paired, changes>>

\* The check is over under the lock of the links ...
Finish ==
  /\ drive.pc = "done"
  /\ busy' = FALSE
  /\ LET s == drive.outcome IN
       /\ link' = IF s = StillWaiting THEN link
                  ELSE IF s.state \in {"connected", "available"}
                         THEN Ready(link) ELSE BackedOff(link)
       /\ telling' = IF s = StillWaiting THEN telling ELSE telling \cup {s}
  /\ drive' = NoDrive
  /\ UNCHANGED <<phoneVars, wire, shown, server, paired, changes>>

\* ... and told under that of the registry, later.
Tell(s) ==
  /\ s \in telling
  /\ SetStatus(s)
  /\ telling' = telling \ {s}
  /\ UNCHANGED <<phoneVars, wire, link, busy, drive, server, paired, changes>>

TimePasses ==
  /\ link.wait > 0
  /\ link' = [link EXCEPT !.wait = @ - 1]
  /\ UNCHANGED <<phoneVars, wire, shown, busy, drive, telling, server, paired,
                 changes>>

-----------------------------------------------------------------------------
(* The world: the user's switch, adbd, pairing, adb by itself.              *)

Gone(p) == [s \in Port \cup {Mdns} |->
              IF s \in {p, Mdns} /\ server[s] = "device" THEN "offline"
              ELSE server[s]]

\* adbd may stop advertising, and come back on another port, with the setting
\* untouched.
AdbdMoves(on, p) ==
  /\ Change
  /\ (on = wifi => p # adbd) /\ (~on => p = None)
  /\ wifi' = on /\ adbd' = p
  /\ server' = IF adbd # p THEN Gone(adbd) ELSE server
  /\ UNCHANGED <<adb, wire, shown, linkVars, paired>>

Pairing ==
  /\ Change
  /\ paired' = ~paired
  /\ server' = [s \in Port \cup {Mdns} |->
       IF paired /\ server[s] = "device" THEN "unauthorized"
       ELSE IF ~paired /\ server[s] = "unauthorized" THEN "absent"
       ELSE server[s]]
  /\ UNCHANGED <<phoneVars, wire, shown, linkVars>>

AdbItself ==
  /\ Change
  /\ \/ paired /\ adbd # None /\ server' = [server EXCEPT ![Mdns] = "device"]
     \/ \E s \in Port \cup {Mdns} : server' = [server EXCEPT ![s] = "absent"]
  /\ UNCHANGED <<phoneVars, wire, shown, linkVars, paired>>

AppHears == SettingChanged \/ FoundAdb \/ LostAdb
            \/ \E p \in Port : AdbResolved("own", p)
DriveStep == Look \/ DisconnectOld \/ ShowConnecting \/ RunConnect \/ Verify
             \/ Finish
DaemonStep == OnReport \/ DriveStep \/ TimePasses \/ \E s \in telling : Tell(s)

AdbLinkNext ==
  \/ SettingChanged \/ FoundAdb \/ LostAdb \/ NsdFails
  \/ \E host \in {"own", "other"}, p \in Port : AdbResolved(host, p)
  \/ ReportPort \/ Unlink \/ Relink
  \/ OnReport \/ Look \/ DisconnectOld \/ ShowConnecting \/ RunConnect \/ Verify
  \/ Finish \/ (\E s \in telling : Tell(s)) \/ TimePasses
  \/ (\E on \in BOOLEAN, p \in Port \cup {None} : AdbdMoves(on, p))
  \/ Pairing \/ AdbItself

AdbLinkSpec == AdbLinkInit /\ [][AdbLinkNext]_adbLinkVars

FairAdbLinkSpec ==
  /\ AdbLinkSpec
  /\ WF_adbLinkVars(AppHears) /\ WF_adbLinkVars(ReportPort)
  /\ WF_adbLinkVars(Relink) /\ WF_adbLinkVars(OnReport)
  /\ WF_adbLinkVars(DriveStep) /\ WF_adbLinkVars(TimePasses)
  /\ WF_adbLinkVars(\E s \in telling : Tell(s))
-----------------------------------------------------------------------------
StatusSet == [state : {"no record", "none", "off", "available", "connecting",
                       "connected", "needs pairing", "adb not found", "error"},
              ep : Port \cup {None}]

AdbLinkTypeOK ==
  /\ wifi \in BOOLEAN /\ paired \in BOOLEAN /\ busy \in BOOLEAN
  /\ adbd \in Port \cup {None}
  /\ adb \in [enabled : BOOLEAN, port : Port \cup {None}, own : BOOLEAN,
              disc : BOOLEAN, told : BOOLEAN, watch : BOOLEAN,
              seen : Port \cup {None}, failed : BOOLEAN]
  /\ wire \in Seq([wifi : BOOLEAN, port : Port \cup {None}])
  /\ shown \in StatusSet /\ telling \subseteq StatusSet
  /\ link \in [ep : Port \cup {None}, delay : 1 .. MaxRetry,
               wait : 0 .. MaxRetry]
  /\ drive \in [pc : {"idle", "look", "disconnect", "show", "connect",
                      "verify", "done"},
                ep : Port \cup {None}, previous : Port \cup {None},
                may : BOOLEAN, outcome : StatusSet]
  /\ server \in [Port \cup {Mdns} ->
                   {"absent", "device", "offline", "unauthorized"}]
  /\ changes \in Nat

\* The app has caught up with what the phone's adbd does.
CaughtUp ==
  /\ adb.enabled = wifi /\ (adb.told <=> adbd # None) /\ adb.seen = adbd

\* The port an app reports, once it has heard what there is to hear, is the
\* one its own adbd listens on: never a dead one, nor another phone's
\* (startAdbDiscovery, onServiceLost, AdbEndpoint.pickOwn).
PortIsOwn == CaughtUp /\ adb.port # None => adb.port = adbd

\* Whatever checks are under way or stale, what `devices.list` shows settles:
\* "off" once wireless debugging stays off, the connection once the phone,
\* paired, keeps its port - also after failures and back-offs, a changed port,
\* a lost link or a pairing made late.  (NSD must not have failed: hazards.)
StatusSettles ==
  LET On(p) == wifi /\ adbd = p /\ paired /\ ~adb.failed IN
  /\ (<>[](~wifi)) => <>[](shown.state = "off")
  /\ \A p \in Port : (<>[]On(p)) => <>[](shown = Status("connected", p))
=============================================================================
