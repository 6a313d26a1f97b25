---------------------------- MODULE SharePolicy ----------------------------
(* What a share exposes: how share.start makes one from the configuration   *)
(* and the request (start_share, ShareConfig::resolve), and how the gate on *)
(* each connection treats its first request (adb::decide, gate).  A device  *)
(* is its serial, a model value, and no serial continues another after a    *)
(* colon; an adb request is its kind and the device it names, if any, by    *)
(* its serial or by the transport id that the adb server gave it.           *)
EXTENDS Integers, FiniteSets

CONSTANTS Device,         \* serials
          Everything,     \* Targets::All
          Nobody,
          ShareSettings,  \* adb_share of config.yaml: [all, targets, specs, bind]
          ShareRequests,  \* what share.start may ask: the same fields
          DefaultBind,    \* where nothing says otherwise: [loopback, port]
          MaxSpan         \* MAX_FORWARD_SPAN

ShareConfig == [all : BOOLEAN, targets : SUBSET Device,
                specs : SUBSET [lo : Nat, hi : Nat],
                bind : SUBSET [loopback : BOOLEAN, port : Nat]]

ASSUME SharePolicyAssumption ==
  /\ ShareSettings \in ShareConfig /\ ShareRequests \subseteq ShareConfig
  /\ \A t \in SUBSET Device : t # Everything
  /\ Nobody \notin Device
  /\ MaxSpan \in Nat \ {0}

VARIABLES
  attached, \* what the host's adb server has
  policy,   \* the share: targets, ports and where it listens, or not sharing
  peer      \* one connection: its request, and what has come of it

policyVars == <<attached, policy, peer>>

NotSharing == [on |-> FALSE, targets |-> {}, ports |-> {}, bind |-> DefaultBind,
               asked |-> ShareSettings]
NoPeer == [pc |-> "idle", kind |-> "server", serial |-> Nobody,
           targets |-> {}, stream |-> Nobody, list |-> {}, payload |-> {}]

PolicyInit == attached = {} /\ policy = NotSharing /\ peer = NoPeer
-----------------------------------------------------------------------------
(* share.start.                                                             *)

MergeBoth(req) ==
  [all     |-> req.all \/ (req.targets = {} /\ ShareSettings.all),
   targets |-> IF req.all THEN {} ELSE req.targets \cup ShareSettings.targets,
   specs   |-> IF req.specs # {} THEN req.specs ELSE ShareSettings.specs,
   bind    |-> IF req.bind # {} THEN req.bind ELSE ShareSettings.bind]

\* A request that names devices replaces the configured list; likewise ports.
Merge(req) ==
  [all     |-> req.all \/ (req.targets = {} /\ ShareSettings.all),
   targets |-> IF req.all THEN {}
               ELSE IF req.targets # {} THEN req.targets
               ELSE ShareSettings.targets,
   specs   |-> IF req.specs # {} THEN req.specs ELSE ShareSettings.specs,
   bind    |-> IF req.bind # {} THEN req.bind ELSE ShareSettings.bind]

\* parse_port_spec
ValidSpec(s) ==
  s.lo # 0 /\ s.hi # 0 /\ s.lo <= s.hi /\ s.hi - s.lo + 1 <= MaxSpan

Expand(specs) == UNION {s.lo .. s.hi : s \in specs}
BindAddress(cfg) == IF cfg.bind = {} THEN DefaultBind ELSE CHOOSE b \in cfg.bind : TRUE

\* ShareConfig::resolve, resolve_targets: every check that refuses a share.
Resolves(cfg) ==
  /\ cfg.all # (cfg.targets # {})
  /\ \A s \in cfg.specs : ValidSpec(s)
  /\ BindAddress(cfg).port \notin Expand(cfg.specs)
  /\ cfg.specs # {} => ~BindAddress(cfg).loopback

\* Named serials must be attached, if the adb server answers at all.
StartShare(req) ==
  /\ LET cfg == Merge(req) IN
       /\ Resolves(cfg)
       /\ \E answers \in BOOLEAN : answers => cfg.targets \subseteq attached
       /\ policy' = [on |-> TRUE,
                     targets |-> IF cfg.all THEN Everything ELSE cfg.targets,
                     ports |-> Expand(cfg.specs), bind |-> BindAddress(cfg),
                     asked |-> req]
  /\ UNCHANGED <<attached, peer>>

StopShare ==
  /\ policy.on
  /\ policy' = NotSharing
  /\ UNCHANGED <<attached, peer>>

-----------------------------------------------------------------------------
(* The gate.                                                                *)

Allows(t, d) == t = Everything \/ d \in t
OnlyOne(t) == t # Everything /\ Cardinality(t) = 1
TheOne(t) == CHOOSE d \in t : TRUE

Qualified == {"transport", "host-serial"}  \* host:transport:, host-serial:
Unqualified == {"any", "bare"}             \* transport-any; host:<command>
ById == {"transport-id", "host-transport-id"}
ByBus == {"host-usb", "host-local"}
Lists == {"devices", "track"}
Blocked == {"kill", "attach"}
ForDevice == Qualified \cup Unqualified \cup ById \cup ByBus
RequestKinds == ForDevice \cup Lists \cup Blocked \cup {"server"}

\* decide: the request that is forwarded, or a refusal.  A transport id counts
\* as the server's business (is_server_scoped), and what does not begin with
\* `host:` or `host-serial:` is not looked at: both are forwarded as they are.
Forward(kind, d) == [do |-> "forward", kind |-> kind, serial |-> d]
Reject == [do |-> "reject", kind |-> "server", serial |-> Nobody]

Decide(kind, d, t) ==
  CASE kind \in Blocked -> Reject
    [] kind \in Lists -> [Forward(kind, Nobody) EXCEPT !.do = "filter"]
    [] kind \in Qualified -> IF Allows(t, d) THEN Forward(kind, d) ELSE Reject
    [] kind = "any" -> IF t = Everything THEN Forward("any", Nobody)
                       ELSE IF OnlyOne(t) THEN Forward("transport", TheOne(t))
                       ELSE Reject
    [] kind = "bare" -> IF OnlyOne(t) THEN Forward("host-serial", TheOne(t))
                        ELSE Forward("bare", Nobody)
    [] OTHER -> Forward(kind, d)

\* The adb server: the device that is named, if it has it; the one that is on
\* that bus (transport-any may name one, too), if any; or else the only one.
Reached(kind, d) ==
  CASE kind \in Qualified \cup ById -> IF d \in attached THEN {d} ELSE {Nobody}
    [] kind \in ByBus \cup {"any"} -> attached \cup {Nobody}
    [] OTHER -> IF Cardinality(attached) = 1 THEN attached ELSE {Nobody}

\* filter_device_list
Filter(payload, t) == {d \in payload : Allows(t, d)}

SendRequest(kind, d) ==
  /\ policy.on /\ peer.pc = "idle"
  /\ kind \in Qualified \cup ById <=> d # Nobody
  /\ peer' = [NoPeer EXCEPT !.pc = "asked", !.kind = kind, !.serial = d,
                            !.targets = policy.targets]
  /\ UNCHANGED <<attached, policy>>

\* gate: forwarded as decided, then the bytes are relayed - but for a list.
Gate ==
  /\ peer.pc = "asked"
  /\ LET decision == Decide(peer.kind, peer.serial, peer.targets) IN
     \E got \in Reached(decision.kind, decision.serial) :
       peer' = CASE decision.do = "reject" -> [peer EXCEPT !.pc = "refused"]
                 [] decision.do = "filter" ->
                      [peer EXCEPT !.pc = "listed", !.payload = attached,
                                   !.list = Filter(attached, peer.targets)]
                 [] decision.kind \in ForDevice ->
                      [peer EXCEPT
                        !.pc = IF got = Nobody THEN "failed" ELSE "streams",
                        !.stream = got]
                 [] OTHER -> [peer EXCEPT !.pc = "answered"]
  /\ UNCHANGED <<attached, policy>>

\* track-devices goes on: each new list is filtered.
RelayList ==
  /\ peer.pc = "listed" /\ peer.kind = "track" /\ peer.payload # attached
  /\ peer' = [peer EXCEPT !.payload = attached,
                          !.list = Filter(attached, peer.targets)]
  /\ UNCHANGED <<attached, policy>>

EndPeer ==
  /\ peer.pc \notin {"idle", "asked"}
  /\ peer' = NoPeer
  /\ UNCHANGED <<attached, policy>>

Plug(d) ==
  /\ attached' = IF d \in attached THEN attached \ {d} ELSE attached \cup {d}
  /\ peer' = IF peer.pc \in {"failed", "streams"} THEN NoPeer ELSE peer
  /\ UNCHANGED policy

PolicyNext ==
  \/ (\E req \in ShareRequests : StartShare(req)) \/ StopShare
  \/ (\E kind \in RequestKinds, d \in Device \cup {Nobody} : SendRequest(kind, d))
  \/ Gate \/ RelayList \/ EndPeer
  \/ \E d \in Device : Plug(d)

PolicySpec == PolicyInit /\ [][PolicyNext]_policyVars
-----------------------------------------------------------------------------
\* "Share exactly these": a request that names devices gets those and no
\* others, whatever the configuration lists, and only a request or a
\* configuration that says so exposes everything.  No forward port is the
\* share's own or out of range, and none is opened on loopback, where the
\* tunnel itself listens (start_share, resolve).
SharesWhatWasAsked ==
  policy.on =>
    LET req == policy.asked IN
      /\ req.targets # {} /\ ~req.all => policy.targets = req.targets
      /\ policy.targets = Everything =>
           req.all \/ (req.targets = {} /\ ShareSettings.all)
      /\ policy.targets # {}
      /\ policy.bind.port \notin policy.ports /\ 0 \notin policy.ports
      /\ policy.ports # {} => ~policy.bind.loopback

\* What the gate lets through without a look at the device it is for: a
\* transport id, a bus, and, unless one device is shared, a bare `host:`.
Unread(kind, t) == kind \in ById \cup ByBus \/ (kind = "bare" /\ ~OnlyOne(t))

\* A request that names a serial, or asks for any device, or is a bare `host:`
\* when one device is shared, reaches a shared device or none, and the lists
\* that a peer sees hold the shared devices that are attached, all of them and
\* no others (decide, filter_device_list).
SharedOnly ==
  /\ peer.pc = "streams" =>
       Unread(peer.kind, peer.targets) \/ Allows(peer.targets, peer.stream)
  /\ peer.pc = "listed" =>
       peer.list = {d \in peer.payload :
                      peer.targets = Everything \/ d \in peer.targets}

\* No request opens a device that is not shared: what the head of adb.rs says
\* of transport-any (landing elsewhere "would make `--target` advisory rather
\* than enforced"), asked of all.  The code does not keep it for those requests.
NeverUnshared ==
  peer.pc = "streams" => Allows(peer.targets, peer.stream)

\* "What makes `adb -H ... shell` work without `-s`": with one device shared
\* and attached, a request that names none reaches it, however many the host
\* has (the rewriting in decide).
UnqualifiedWorks ==
  peer.kind \in Unqualified /\ OnlyOne(peer.targets)
    /\ peer.targets \subseteq attached
    => peer.pc \notin {"failed", "refused"}

\* The policy from end to end: what was asked for is what is shared; a peer that
\* names a serial, asks for any device, or names none when one is shared, reaches
\* what is shared and nothing else; and it reaches the one that is shared without
\* naming it (start_share, decide, filter_device_list).
PolicyRight == SharesWhatWasAsked /\ SharedOnly /\ UnqualifiedWorks
=============================================================================
