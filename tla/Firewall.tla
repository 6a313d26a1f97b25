------------------------------ MODULE Firewall ------------------------------
(* Why no phone is connected, as `dialf devices` explains it: the mDNS      *)
(* finding of the daemon and what the host's firewall is known, or likely,  *)
(* to block, each under its fix (reachability.rs).  A rule list is a        *)
(* sequence of lines as the scan tells them apart; the ports are the two    *)
(* that matter, called by their protocols.  A rule that asks for an address *)
(* or a state is taken not to admit a phone by itself, as the code takes it,*)
(* and one that jumps to another chain to come back.                        *)
EXTENDS Integers, Sequences

CONSTANTS Iface, Lo, AnyIface,
          Host,     \* hosts: [nixos, units, ufw, firewalld, readable, lines]
          MdnsFault \* what server.info may say of the advertisement

Checked == {"tcp", "udp"}  \* the WebSocket's port, and UDP 5353
AnyPort == {"any"}
Line == [kind : {"policy", "rule"}, ours : BOOLEAN,
         verb : {"accept", "drop", "other"}, cond : BOOLEAN,
         proto : Checked \cup {"any"},
         ports : SUBSET Checked \cup {AnyPort},
         iface : Iface \cup {AnyIface}]

ASSUME FirewallAssumption ==
  /\ AnyIface \notin Iface /\ Lo \in Iface
  /\ Host # {}
  /\ \A h \in Host : h.lines \in Seq(Line)

VARIABLES
  fwHost,   \* the host that is looked at
  mdns,     \* its daemon's mDNS finding, or "fine"
  scan,     \* what is checked, the next line, only_on
  verdict,  \* check -> Open
  findings, \* those that group_by_fix has not come to
  report    \* the steps that are printed: a fix, and the problems it solves

firewallVars == <<fwHost, mdns, scan, verdict, findings, report>>

Yes == [open |-> "yes", on |-> {}]
No == [open |-> "no", on |-> {}]
Unknown == [open |-> "unknown", on |-> {}]
OnlyOn(ifaces) == [open |-> "only", on |-> ifaces]

\* firewall_findings: the firewall that is taken to be in force.
FirewallOf(h) ==
  IF h.nixos /\ "firewall" \in h.units THEN "nixos"
  ELSE IF h.nixos /\ "nftables" \in h.units THEN "nixos-nft"
  ELSE IF h.ufw THEN "ufw"
  ELSE IF h.firewalld THEN "firewalld"
  ELSE IF "nftables" \in h.units THEN "nftables"
  ELSE IF "iptables" \in h.units THEN "iptables"
  ELSE "none"

\* Those whose rules are an iptables list.
Scanned == {"nixos", "ufw", "iptables"}
Firewall == FirewallOf(fwHost)

FirewallInit ==
  /\ fwHost = (CHOOSE h \in Host : TRUE) /\ mdns = "fine"
  /\ scan = [check |-> "idle", line |-> 1, on |-> {}]
  /\ verdict = [q \in Checked |-> Unknown]
  /\ findings = <<>> /\ report = <<>>

\* explain_no_phones: the firewall is looked at as it is when this is asked.
Explain ==
  /\ scan.check = "idle"
  /\ fwHost' \in Host /\ mdns' \in MdnsFault \cup {"fine"}
  /\ scan' = [scan EXCEPT !.check = "tcp"]
  /\ UNCHANGED <<verdict, findings, report>>
-----------------------------------------------------------------------------
(* Reading the rules: once for each port.                                   *)

\* blocked: an open port is nothing to report.  On NixOS one block of the
\* configuration installs avahi and opens its port.
FixOf(q) == IF Firewall \in {"nixos", "nixos-nft"}
              THEN IF q = "tcp" THEN "allowedTCPPorts" ELSE "services.avahi"
              ELSE q
Finding(problem, fix) == [problem |-> problem, fix |-> fix]
MdnsFinding ==
  IF mdns = "fine" THEN <<>>
  ELSE <<Finding("mdns", IF fwHost.nixos /\ mdns \in {"install", "down"}
                           THEN "services.avahi" ELSE mdns)>>
BlockedFinding(q, open) == IF open.open = "yes" THEN <<>> ELSE <<Finding(q, FixOf(q))>>
Found(open) == MdnsFinding \o BlockedFinding("tcp", verdict["tcp"]) \o BlockedFinding("udp", open)

Conclude(open) ==
  /\ verdict' = [verdict EXCEPT ![scan.check] = open]
  /\ scan' = [check |-> IF scan.check = "tcp" THEN "udp" ELSE "done",
              line |-> 1, on |-> {}]
  /\ findings' = IF scan.check = "udp" THEN Found(open) ELSE findings
  /\ UNCHANGED <<fwHost, mdns, report>>

NextLine(on) ==
  /\ scan' = [scan EXCEPT !.line = @ + 1, !.on = on]
  /\ UNCHANGED <<fwHost, mdns, verdict, findings, report>>

\* iptables_open: the rule names neither port nor protocol, or this one.
Matches(l, q) ==
  /\ l.proto \in {"any", q}
  /\ l.ports = AnyPort \/ q \in l.ports

Opens(l, q) ==
  /\ l.kind = "rule" /\ l.ours /\ l.verb = "accept" /\ ~l.cond
  /\ Matches(l, q)

OpensByRule(l, q) == Opens(l, q) /\ l.iface = AnyIface

OpensToAll(l, q) ==
  \/ l.kind = "policy" /\ l.ours /\ l.verb = "accept"
  \/ Opens(l, q) /\ l.iface = AnyIface

Reading == scan.check \in Checked /\ Firewall \in Scanned /\ fwHost.readable
Here == fwHost.lines[scan.line]
More == scan.line <= Len(fwHost.lines)

AcceptLine ==
  /\ Reading /\ More /\ OpensToAll(Here, scan.check)
  /\ Conclude(Yes)

IfaceLine ==
  /\ Reading /\ More /\ ~OpensToAll(Here, scan.check)
  /\ Opens(Here, scan.check) /\ Here.iface # Lo
  /\ NextLine(scan.on \cup {Here.iface})

OtherLine ==
  /\ Reading /\ More /\ ~OpensToAll(Here, scan.check)
  /\ Opens(Here, scan.check) => Here.iface = Lo
  /\ NextLine(scan.on)

LinesEnd ==
  /\ Reading /\ ~More
  /\ Conclude(IF scan.on = {} THEN No ELSE OnlyOn(scan.on))

\* Rules that cannot be read, and those of NixOS's nftables, which are not.
NotRead ==
  /\ scan.check \in Checked
  /\ \/ Firewall \in Scanned \cup {"nftables"} /\ ~fwHost.readable
     \/ Firewall = "nixos-nft"
  /\ Conclude(Unknown)

\* firewall-cmd lists what the zone lets in; if it says nothing, nothing is.
AskFirewalld ==
  /\ scan.check \in Checked /\ Firewall = "firewalld"
  /\ Conclude(IF fwHost.readable /\ \E i \in DOMAIN fwHost.lines :
                   scan.check \in fwHost.lines[i].ports
                   /\ fwHost.lines[i].proto = scan.check
                THEN Yes ELSE No)

\* nft_open: a line of any chain that accepts the port by its name; without
\* one, whether anything is dropped anywhere.
NftOpen(lines, q) ==
  IF \E i \in DOMAIN lines :
       /\ lines[i].verb = "accept" /\ q \in lines[i].ports
       /\ lines[i].proto \in {"any", q}
  THEN Yes
  ELSE IF \E i \in DOMAIN lines : lines[i].verb = "drop" THEN No ELSE Yes

ReadNft ==
  /\ scan.check \in Checked /\ Firewall = "nftables" /\ fwHost.readable
  /\ Conclude(NftOpen(fwHost.lines, scan.check))

NoFirewall ==
  /\ scan.check \in Checked /\ Firewall = "none"
  /\ Conclude(Yes)
-----------------------------------------------------------------------------
\* group_by_fix, finding by finding: a fix is printed once, where it first
\* came up.
AddToStep(f, k) ==
  report' = [report EXCEPT ![k].problems = Append(@, f.problem)]

Group ==
  LET f == Head(findings) IN
  /\ findings # <<>>
  /\ findings' = Tail(findings)
  /\ \/ \E k \in DOMAIN report : report[k].fix = f.fix /\ AddToStep(f, k)
     \/ /\ \A k \in DOMAIN report : report[k].fix # f.fix
        /\ report' = Append(report, [problems |-> <<f.problem>>, fix |-> f.fix])
  /\ UNCHANGED <<fwHost, mdns, scan, verdict>>

FirewallNext ==
  \/ Explain \/ AcceptLine \/ IfaceLine \/ OtherLine \/ LinesEnd
  \/ NotRead \/ AskFirewalld \/ ReadNft \/ NoFirewall
  \/ Group

FirewallSpec == FirewallInit /\ [][FirewallNext]_firewallVars
-----------------------------------------------------------------------------
\* Every variable stays in its declared set.
FirewallTypeOK ==
  /\ mdns \in MdnsFault \cup {"fine"}
  /\ scan \in [check : Checked \cup {"idle", "done"}, line : Nat \ {0},
               on : SUBSET (Iface \ {Lo})]
  /\ verdict \in [Checked -> [open : {"yes", "no", "only", "unknown"},
                              on : SUBSET Iface]]

\* What the packet filter does with a new phone's packet that comes in on
\* `n`: the first rule that matches decides, or the chain's policy.
Decides(l, n, q) ==
  /\ l.kind = "rule" /\ l.ours /\ l.verb # "other" /\ ~l.cond
  /\ Matches(l, q) /\ l.iface \in {n, AnyIface}
Admits(lines, n, q) ==
  \/ \E i \in DOMAIN lines :
       /\ Decides(lines[i], n, q) /\ lines[i].verb = "accept"
       /\ \A k \in 1 .. i - 1 : ~Decides(lines[k], n, q)
  \/ /\ \A i \in DOMAIN lines : ~Decides(lines[i], n, q)
     /\ \E i \in DOMAIN lines :
          lines[i].kind = "policy" /\ lines[i].ours /\ lines[i].verb = "accept"

\* No wolf is cried (the head of reachability.rs): where a port is told to be
\* blocked, or to be open on some interfaces only, the rules let no phone in
\* on another one; and rules that are not known to be open are not passed over.
NoFalseAlarm ==
  \A q \in Checked : (Firewall \in Scanned /\ fwHost.readable) =>
    /\ verdict[q].open = "no" =>
         \A n \in Iface \ {Lo} : ~Admits(fwHost.lines, n, q)
    /\ verdict[q].open = "only" =>
         \A n \in Iface \ ({Lo} \cup verdict[q].on) : ~Admits(fwHost.lines, n, q)

\* One fix is listed once, with the problems that it solves, and no problem
\* twice; all that was found is told, and nothing else (group_by_fix).
FixesOnce ==
  /\ \A k, m \in DOMAIN report : k # m => report[k].fix # report[m].fix
  /\ \A k \in DOMAIN report : \A j, m \in DOMAIN report[k].problems :
       j # m => report[k].problems[j] # report[k].problems[m]
  /\ (scan.check = "done" /\ findings = <<>>) =>
       LET all == Found(verdict["udp"]) IN
       /\ \A i \in DOMAIN all : \E k \in DOMAIN report :
            \E j \in DOMAIN report[k].problems :
              all[i] = Finding(report[k].problems[j], report[k].fix)
       /\ \A k \in DOMAIN report : \A j \in DOMAIN report[k].problems :
            \E i \in DOMAIN all :
              all[i] = Finding(report[k].problems[j], report[k].fix)

\* What is printed is so, and printed once.
FirewallRight == NoFalseAlarm /\ FixesOnce
=============================================================================
