----------------------------- MODULE MCControl -----------------------------
(* What control clients ask of the daemon, on small instances: who answers  *)
(* calls (Overrides), requests that the phone answers with a frame of its   *)
(* own (Requests), wireless adb (AdbLink) and device sharing (Share,        *)
(* SharePolicy), how the daemon is advertised (Discovery) and why no phone  *)
(* finds it (Firewall).  These parts share no variable and no message, so   *)
(* that every behaviour of all of them, seen from one, is a behaviour of    *)
(* that one: each is explored by itself, from an initial state that picks   *)
(* it.                                                                      *)
EXTENDS Overrides, Requests, AdbLink, Share, SharePolicy, Discovery, Firewall,
        TLC

CONSTANTS n1, n2, answer, play, serial1, serial2, serial3

VARIABLE part

\* Overrides.
MCConfig == n1 :> answer @@ n2 :> Silent

\* Requests: one network round trip for every kind.
MCCodes == [k \in SlotKind |-> 1]

\* Share: two that expire and have a key, of which one wants a port that is
\* taken, and one that does neither.
MCShareKind == {[exp |-> TRUE, auth |-> TRUE, want |-> {1}],
                [exp |-> TRUE, auth |-> TRUE, want |-> {1, 2}],
                [exp |-> FALSE, auth |-> FALSE, want |-> {1}]}

\* SharePolicy: specs that are zero, plain, adjacent, reversed and too long.
Spec(lo, hi) == [lo |-> lo, hi |-> hi]
MCSettings == [all |-> FALSE, targets |-> {serial1}, specs |-> {Spec(2, 2)},
               bind |-> {}]
MCDefaultBind == [loopback |-> FALSE, port |-> 1]
MCRequests ==
  [all : BOOLEAN, targets : {{}, {serial2}, {serial1, serial2}},
   specs : {{}, {Spec(0, 1)}, {Spec(1, 2)}, {Spec(2, 3), Spec(3, 4)},
            {Spec(4, 3)}, {Spec(2, 5)}},
   bind : {{}, {[loopback |-> TRUE, port |-> 1]}}]

\* Firewall: rules that let one port or all in, on an interface or on any,
\* that ask for more, that refuse, and those of another chain; and a policy.
Rule(verb, proto, ports, iface) ==
  [kind |-> "rule", ours |-> TRUE, verb |-> verb, cond |-> FALSE,
   proto |-> proto, ports |-> ports, iface |-> iface]
MCLine == {Rule("accept", "tcp", {"tcp"}, AnyIface),
           Rule("accept", "udp", {"udp"}, "wt0"),
           Rule("accept", "any", {"tcp", "udp"}, "wlan0"),
           Rule("accept", "any", AnyPort, Lo),
           Rule("drop", "any", AnyPort, "wt0"),
           Rule("drop", "udp", AnyPort, AnyIface),
           [Rule("accept", "udp", AnyPort, AnyIface) EXCEPT !.cond = TRUE],
           [Rule("accept", "any", AnyPort, AnyIface) EXCEPT !.ours = FALSE],
           [Rule("accept", "any", AnyPort, AnyIface) EXCEPT !.kind = "policy"]}
MCLines == UNION {[1 .. n -> MCLine] : n \in 0 .. 3}
AHost(nixos, units, ufw, firewalld, readable, lines) ==
  [nixos |-> nixos, units |-> units, ufw |-> ufw, firewalld |-> firewalld,
   readable |-> readable, lines |-> lines]
MCFirewalls ==
  {AHost(TRUE, {"firewall"}, FALSE, FALSE, TRUE, s) : s \in MCLines}
    \cup {AHost(n, u, w, f, r, s) :
            n \in BOOLEAN, u \in SUBSET {"firewall", "nftables", "iptables"},
            w \in BOOLEAN, f \in BOOLEAN, r \in BOOLEAN,
            s \in {<<>>, <<Rule("accept", "tcp", {"tcp"}, AnyIface),
                          Rule("drop", "any", AnyPort, AnyIface)>>}}
-----------------------------------------------------------------------------
mcVars == <<part, overridesVars, requestsVars, adbLinkVars, shareVars,
            policyVars, discoveryVars, firewallVars>>
reachVars == <<discoveryVars, firewallVars>>

ControlInit ==
  /\ part \in {"overrides", "requests", "adb", "share", "policy",
               "discovery", "firewall"}
  /\ OverridesInit /\ RequestsInit /\ AdbLinkInit /\ ShareInit /\ PolicyInit
  /\ DiscoveryInit /\ FirewallInit

ControlNext ==
  /\ UNCHANGED part
  /\ \/ /\ part = "overrides" /\ OverridesNext
        /\ UNCHANGED <<requestsVars, adbLinkVars, shareVars, policyVars,
                       reachVars>>
     \/ /\ part = "requests" /\ RequestsNext
        /\ UNCHANGED <<overridesVars, adbLinkVars, shareVars, policyVars,
                       reachVars>>
     \/ /\ part = "adb" /\ AdbLinkNext
        /\ UNCHANGED <<overridesVars, requestsVars, shareVars, policyVars,
                       reachVars>>
     \/ /\ part = "share" /\ ShareNext
        /\ UNCHANGED <<overridesVars, requestsVars, adbLinkVars, policyVars,
                       reachVars>>
     \/ /\ part = "policy" /\ PolicyNext
        /\ UNCHANGED <<overridesVars, requestsVars, adbLinkVars, shareVars,
                       reachVars>>
     \/ /\ part = "discovery" /\ DiscoveryNext
        /\ UNCHANGED <<overridesVars, requestsVars, adbLinkVars, shareVars,
                       policyVars, firewallVars>>
     \/ /\ part = "firewall" /\ FirewallNext
        /\ UNCHANGED <<overridesVars, requestsVars, adbLinkVars, shareVars,
                       policyVars, discoveryVars>>

\* Each part's own fairness, asked of the part that runs.
ControlFairness ==
  /\ \A s \in Session : WF_overridesVars(part = "overrides" /\ ServeStep(s))
  /\ WF_adbLinkVars(part = "adb" /\ AppHears)
  /\ WF_adbLinkVars(part = "adb" /\ ReportPort)
  /\ WF_adbLinkVars(part = "adb" /\ Relink)
  /\ WF_adbLinkVars(part = "adb" /\ OnReport)
  /\ WF_adbLinkVars(part = "adb" /\ DriveStep)
  /\ WF_adbLinkVars(part = "adb" /\ TimePasses)
  /\ WF_adbLinkVars(part = "adb" /\ \E s \in telling : Tell(s))
  /\ WF_shareVars(part = "share" /\ StartStep)
  /\ WF_shareVars(part = "share" /\ StopDone)
  /\ \A p \in Peer : WF_shareVars(part = "share" /\ ConnStep(p))
  /\ \A g \in 1 .. MaxShare :
       /\ WF_shareVars(part = "share" /\ g <= Last /\ Park(g))
       /\ WF_shareVars(part = "share" /\ g <= Last /\ Expire(g))
       /\ WF_shareVars(part = "share" /\ g <= Last /\ Aborts(g))
       /\ \A p \in ForwardPort :
            WF_shareVars(part = "share" /\ g <= Last /\ ForwardExpires(g, p))

ControlSpec == ControlInit /\ [][ControlNext]_mcVars /\ ControlFairness
-----------------------------------------------------------------------------
\* Every part's state stays in its declared sets.
ControlTypeOK ==
  OverridesTypeOK /\ RequestsTypeOK /\ AdbLinkTypeOK /\ ShareTypeOK
  /\ DiscoveryTypeOK /\ FirewallTypeOK

\* What devices.list shows of wireless adb settles (on_report, drive).
AdbStatusSettles == part = "adb" => StatusSettles
=============================================================================
