------------------------------- MODULE Egress -------------------------------
(***************************************************************************)
(* What a container may reach: the rules that each network mode installs   *)
(* in the forward and input chains, evaluated first match first, and the   *)
(* host entries of the configuration and of coi hosts, which open a        *)
(* destination and name it in the container's /etc/hosts while the session *)
(* runs (network/nft_filter.go, egress.go, egress_ports.go, policy.go,     *)
(* dnsblock.go, user_hosts.go, cli/hosts.go).  One container that may be   *)
(* stopped and started again under another configuration; every nft call   *)
(* may fail.  Packets are new connections of the container.                *)
(***************************************************************************)
EXTENDS Naturals, Sequences, FiniteSets, Picking

CONSTANTS Bridge,           \* the gateway: packets to it are input, not forwarded
          Private, Meta, Public,   \* addresses by the range they lie in
          Configs,          \* network configurations a container is launched with
          Mixed,            \* those under which coi hosts runs, and a stopped
                            \* container is started again
          Entries,          \* host entries a caller of coi hosts add may name
          Callers,          \* processes that run coi hosts
          MaxStarts, MaxCommands

VARIABLES network,   \* the configuration of the running session
          phase, plan,   \* where its setup stands, and the commands left
          net,       \* the kernel's rules and sets, and the user block of /etc/hosts
          req,       \* what each caller is about to do
          opened,    \* history: destinations and services host entries opened
          flaws,     \* history: what went wrong since the launch
          starts, commands

evars == <<network, phase, plan, net, req, opened, flaws, starts, commands>>

Addresses == Private \cup Meta \cup Public
L4 == {"dns", "web", "ssh"}                  \* TCP and UDP ports
Services == L4 \cup {"echo", "other"}        \* ping, and any other protocol
Packets == [dst : Addresses \cup {Bridge}, svc : Services]

\* ports = {} stands for none given.
Target == [dst : Addresses, ports : SUBSET L4]
Entry == [dst : Addresses, name : STRING, ports : SUBSET L4]
ConfigType == [mode : {"open", "restricted", "allowlist"}, bridge : BOOLEAN,
               local : BOOLEAN, private : BOOLEAN, meta : BOOLEAN,
               dns : SUBSET Addresses, ports : SUBSET L4,
               literals : SUBSET Target,  \* addresses of allowed_domains
               resolved : SUBSET Target,  \* and what its names resolve to
               hosts : Seq(Entry)]

\* classifyHostIP puts an address in one range; the gateway is told apart.
ASSUME EgressAssumption ==
  /\ Configs \cup Mixed \subseteq ConfigType /\ Entries \subseteq Entry
  /\ Bridge \notin Addresses
  /\ Private \cap Meta = {} /\ Private \cap Public = {} /\ Meta \cap Public = {}

-----------------------------------------------------------------------------
(* Rules and commands.                                                      *)

Rule(dsts, svcs, set, act) == [dsts |-> dsts, svcs |-> svcs, set |-> set, act |-> act]
Accept(dsts, svcs) == Rule(dsts, svcs, "any", "accept")
Reject(dsts, svcs) == Rule(dsts, svcs, "any", "reject")
BootBlock == Rule(Addresses, Services, "boot", "reject")

Command(do, arg) == [do |-> do, arg |-> arg]
Adds(rules) == [i \in DOMAIN rules |-> Command("add", rules[i])]
When(condition, seq) == IF condition THEN seq ELSE <<>>

\* resolvePorts: the entry's own ports, else the cap, else every port.
PortsOf(ports, cap) == IF ports # {} THEN ports ELSE IF cap # {} THEN cap ELSE L4
Scope(ports, cap) == IF ports = {} /\ cap = {} THEN Services ELSE PortsOf(ports, cap)
Tuples(targets, cap) ==
  UNION {[dst : {t.dst}, svc : PortsOf(t.ports, cap)] : t \in targets}
InSets(targets, cap) ==
  When(targets # {}, <<Command("addresses", {t.dst : t \in targets}),
                       Command("tuples", Tuples(targets, cap))>>)

NoNet == [chain |-> <<>>, input |-> FALSE, listed |-> FALSE, addresses |-> {},
          tuples |-> {}, block |-> {}]

\* Removes what belongs to the container's address; the boot block is another's.
Places(chain, rules) == {i \in DOMAIN chain : chain[i] \in rules}
Purged(n) == [NoNet EXCEPT !.chain = Pick(n.chain, Places(n.chain, {BootBlock})),
                           !.block = n.block]

Do(n, c) ==
  CASE c.do = "purge" -> Purged(n)
    [] c.do = "add" -> [n EXCEPT !.chain = Append(@, c.arg)]
    [] c.do = "insert" -> [n EXCEPT !.chain = <<c.arg>> \o @]
    [] c.do = "blockInput" -> [n EXCEPT !.input = TRUE]
    [] c.do = "sets" -> [n EXCEPT !.listed = TRUE]
    [] c.do = "addresses" -> [n EXCEPT !.addresses = @ \cup c.arg]
    [] c.do = "tuples" -> [n EXCEPT !.tuples = @ \cup c.arg]
    [] c.do = "names" -> [n EXCEPT !.block = c.arg]
    [] c.do = "lift" ->
         [n EXCEPT !.chain = Pick(@, DOMAIN @ \ Places(@, {BootBlock}))]
    [] c.do = "none" -> n

\* A caller's commands fail when the sets are gone; no refusal ever succeeds.
CanDo(n, c) == c.do # "refuse" /\ (c.do \in {"addresses", "tuples"} => n.listed)

-----------------------------------------------------------------------------
(* The policies.                                                            *)

Pin(servers) ==
  When(servers # {}, <<Accept(servers, {"dns"}), Reject(Addresses, {"dns"})>>)

LocalNetwork(cap) == <<Accept(Private, Scope({}, cap))>>

\* As if the pin came after the rules for the local network.
RestrictedPinLate(c) ==
  When(c.bridge, <<Accept({Bridge}, Services)>>)
  \o (IF c.local THEN LocalNetwork(c.ports)
      ELSE When(c.private, <<Reject(Private, Services)>>))
  \o Pin(c.dns)
  \o When(c.meta, <<Reject(Meta, Services)>>)
  \o (IF c.ports = {} THEN <<Accept(Addresses, Services)>>
      ELSE <<Accept(Addresses, c.ports), Accept(Addresses, {"echo"}),
             Reject(Addresses, Services)>>)

RestrictedRules(c) ==
  When(c.bridge, <<Accept({Bridge}, Services)>>)
  \o Pin(c.dns)
  \o (IF c.local THEN LocalNetwork(c.ports)
      ELSE When(c.private, <<Reject(Private, Services)>>))
  \o When(c.meta, <<Reject(Meta, Services)>>)
  \o (IF c.ports = {} THEN <<Accept(Addresses, Services)>>
      ELSE <<Accept(Addresses, c.ports), Accept(Addresses, {"echo"}),
             Reject(Addresses, Services)>>)

AllowlistRules(c) ==
  (IF c.local THEN LocalNetwork(c.ports)
   ELSE <<Reject(Private \cup Meta, Services)>>)
  \o <<Rule(Addresses, L4, "tuples", "accept"),
       Rule(Addresses, {"echo"}, "addresses", "accept"),
       Reject(Addresses, Services)>>

AllowlistCommands(c) ==
  <<Command("sets", {})>>
  \o InSets(c.literals, c.ports)
  \o <<Command("add", Reject(Addresses, {"dns"})), Command("blockInput", {})>>
  \o Adds(AllowlistRules(c))
  \o InSets(c.resolved, c.ports)

\* What setupRestricted and setupAllowlist refuse before they touch anything.
Unfit(c) == c.mode = "allowlist"
            /\ (c.literals \cup c.resolved = {} \/ c.dns # {} \/ ~c.bridge)

Policy(c) ==
  IF Unfit(c) THEN <<Command("refuse", {})>>
  ELSE <<Command("purge", {})>>
       \o (CASE c.mode = "open" -> Adds(<<Accept(Addresses \cup {Bridge}, Services)>>)
             [] c.mode = "restricted" -> Adds(RestrictedRules(c))
             [] c.mode = "allowlist" -> AllowlistCommands(c))

-----------------------------------------------------------------------------
(* Host entries.                                                            *)

\* checkHostReachable and checkHostPortsEnforceable.
Reachable(mode, local, e) ==
  /\ e.dst \in Meta => mode = "open"
  /\ e.dst \in Private /\ mode = "allowlist" => local
Enforceable(mode, e) ==
  \/ e.ports = {}
  \/ mode = "restricted" /\ e.dst \in Private
  \/ mode = "allowlist" /\ e.dst \in Public
Admitted(mode, local, e) == Reachable(mode, local, e) /\ Enforceable(mode, e)

\* applyHostFirewall
Opening(mode, e, cap) ==
  CASE mode = "allowlist" /\ e.dst \in Public -> InSets({[dst |-> e.dst, ports |-> e.ports]}, cap)
    [] mode = "restricted" /\ e.dst \in Private ->
         <<Command("insert", Accept({e.dst}, Scope(e.ports, cap)))>>
    [] OTHER -> <<>>

Line(e) == <<e.dst, e.name>>

\* An entry takes two calls at most; "none" is in the place of one not made.
Call(c, i) == LET calls == Opening(c.mode, c.hosts[(i + 1) \div 2], c.ports)
                  n == 2 - (i % 2)
              IN IF n <= Len(calls) THEN calls[n] ELSE Command("none", {})

\* applyUserHosts does nothing when the configuration names no host.
HostCommands(c) ==
  IF \E i \in DOMAIN c.hosts : ~Admitted(c.mode, c.local, c.hosts[i])
  THEN <<Command("refuse", {})>>
  ELSE [i \in 1..2 * Len(c.hosts) |-> Call(c, i)]
       \o When(c.hosts # <<>>, <<Command("names", {Line(c.hosts[i]) : i \in DOMAIN c.hosts})>>)

\* As if the boot block were lifted before the policy is in place.
SetupLiftsEarly(c) == <<Command("lift", {})>> \o Policy(c) \o HostCommands(c)
Setup(c) == Policy(c) \o HostCommands(c) \o <<Command("lift", {})>>

\* What a command that opens a destination to a host entry lets through.
Opens(c) == IF c.do = "insert" THEN [dst : c.arg.dsts, svc : c.arg.svcs]
            ELSE IF c.do = "tuples" THEN c.arg
            ELSE IF c.do = "addresses" THEN [dst : c.arg, svc : {"echo"}] ELSE {}

-----------------------------------------------------------------------------
(* The session.                                                             *)

NoReq == [pc |-> "idle", entry |-> "none", mode |-> "none", cap |-> {}, read |-> {}]

EInit ==
  /\ network \in Configs \cup Mixed
  /\ phase = "setup" /\ plan = Setup(network)
  /\ net = [NoNet EXCEPT !.chain = <<BootBlock>>]
  /\ req = [c \in Callers |-> NoReq]
  /\ opened = {} /\ flaws = {}
  /\ starts = 1 /\ commands = 0

Busy == \E c \in Callers : req[c].pc # "idle"

\* The next command of the setup.
Step ==
  /\ phase = "setup"
  /\ CanDo(net, Head(plan))
  /\ net' = Do(net, Head(plan))
  /\ plan' = Tail(plan)
  /\ phase' = IF plan' = <<>> THEN "up" ELSE "setup"
  /\ UNCHANGED <<network, req, opened, flaws, starts, commands>>

\* It fails, or the address, the gateway or the configuration is unfit: the
\* boot block stays.  Open mode only warns when its rule cannot be added.
StepFails ==
  /\ phase = "setup" /\ Head(plan).do \notin {"purge", "lift", "none"}
  /\ IF network.mode = "open" /\ Head(plan).do = "add"
     THEN plan' = Tail(plan) /\ UNCHANGED phase
     ELSE plan' = <<>> /\ phase' = "failed"
  /\ UNCHANGED <<network, net, req, opened, flaws, starts, commands>>

\* The session ends and the container, a persistent one, stays with its files.
Stop ==
  /\ phase \in {"up", "failed"}
  /\ starts < MaxStarts /\ network \in Mixed
  /\ phase' = "stopped"
  /\ net' = [NoNet EXCEPT !.block = net.block]
  /\ UNCHANGED <<network, plan, req, opened, flaws, starts, commands>>

StartAgain(c) ==
  /\ phase = "stopped"
  /\ network' = c /\ phase' = "setup" /\ plan' = Setup(c)
  /\ net' = [net EXCEPT !.chain = Append(@, BootBlock)]
  /\ opened' = {}
  /\ flaws' = (IF Busy \/ net.chain # <<>> THEN {"crossed"} ELSE {})
              \cup (IF c.hosts = <<>> /\ net.block # {} THEN {"kept"} ELSE {})
  /\ starts' = starts + 1
  /\ UNCHANGED <<req, commands>>

-----------------------------------------------------------------------------
(* coi hosts.                                                               *)

Note(flaw, condition) == IF condition THEN {flaw} ELSE {}

\* As if the caller's configuration were the container's.
DetectedByCaller(cfg, answered) == cfg.mode
\* effectiveContainerMode: what lists the static set, whatever the caller has.
Detected(cfg, answered) == IF net.listed /\ answered THEN "allowlist" ELSE cfg.mode

\* coi hosts add: reads the mode, and refuses what the mode cannot reach.
AddBegins(c, cfg, e, answered) ==
  LET mode == Detected(cfg, answered) IN
  /\ req[c].pc = "idle" /\ commands < MaxCommands /\ network \in Mixed
  /\ phase # "stopped"
  /\ ~answered => net.listed
  /\ commands' = commands + 1
  /\ req' = [req EXCEPT ![c] = IF Admitted(mode, cfg.local, e)
                               THEN [NoReq EXCEPT !.pc = "open", !.entry = e,
                                                 !.mode = mode, !.cap = cfg.ports]
                               ELSE NoReq]
  /\ flaws' = flaws \cup Note("early", phase # "up")
                    \cup Note("blind", ~answered) \cup Note("foreign", cfg # network)
  /\ UNCHANGED <<network, phase, plan, net, opened, starts>>

\* It opens the destination: all n commands, or fewer when one of them fails.
AddOpens(c, n) ==
  LET all == Opening(req[c].mode, req[c].entry, req[c].cap) IN
  /\ req[c].pc = "open"
  /\ n \in 0..Len(all)
  /\ \A i \in 1..n : CanDo(net, all[i])
  /\ net' = CASE n = 0 -> net
               [] n = 1 -> Do(net, all[1])
               [] n = 2 -> Do(Do(net, all[1]), all[2])
  /\ opened' = opened \cup UNION {Opens(all[i]) : i \in 1..n}
  /\ req' = [req EXCEPT ![c] = IF n = Len(all) THEN [@ EXCEPT !.pc = "read"] ELSE NoReq]
  /\ UNCHANGED <<network, phase, plan, flaws, starts, commands>>

AddReads(c) ==
  /\ req[c].pc = "read"
  /\ req' = [req EXCEPT ![c] = IF phase = "stopped" THEN NoReq
                               ELSE [@ EXCEPT !.pc = "write", !.read = net.block]]
  /\ UNCHANGED <<network, phase, plan, net, opened, flaws, starts, commands>>

\* mergeHostEntry, over what was read.
AddWrites(c) ==
  /\ req[c].pc = "write"
  /\ net' = IF phase = "stopped" THEN net
            ELSE [net EXCEPT !.block = req[c].read \cup {Line(req[c].entry)}]
  /\ req' = [req EXCEPT ![c] = NoReq]
  /\ UNCHANGED <<network, phase, plan, opened, flaws, starts, commands>>

\* coi hosts remove drops the names; what was opened stays open.
RemoveReads(c, name) ==
  /\ req[c].pc = "idle" /\ commands < MaxCommands /\ network \in Mixed
  /\ phase # "stopped"
  /\ commands' = commands + 1
  /\ req' = [req EXCEPT ![c] = [NoReq EXCEPT !.pc = "drop",
                                  !.read = {l \in net.block : l[2] # name}]]
  /\ flaws' = flaws \cup Note("early", phase # "up")
  /\ UNCHANGED <<network, phase, plan, net, opened, starts>>

RemoveWrites(c) ==
  /\ req[c].pc = "drop"
  /\ net' = IF phase = "stopped" THEN net ELSE [net EXCEPT !.block = req[c].read]
  /\ req' = [req EXCEPT ![c] = NoReq]
  /\ UNCHANGED <<network, phase, plan, opened, flaws, starts, commands>>

ENext ==
  \/ Step \/ StepFails \/ Stop
  \/ \E c \in Mixed : StartAgain(c)
  \/ \E c \in Callers :
       \/ \E cfg \in Mixed, e \in Entries, a \in BOOLEAN : AddBegins(c, cfg, e, a)
       \/ \E n \in 0..2 : AddOpens(c, n)
       \/ AddReads(c) \/ AddWrites(c)
       \/ \E e \in Entries : RemoveReads(c, e.name)
       \/ RemoveWrites(c)

ESpec == EInit /\ [][ENext]_evars

-----------------------------------------------------------------------------
(* What the kernel does with a packet.                                      *)

Matches(r, p) ==
  /\ p.dst \in r.dsts /\ p.svc \in r.svcs
  /\ r.set = "tuples" => p \in net.tuples
  /\ r.set = "addresses" => p.dst \in net.addresses

\* The first rule that matches decides; the chain accepts what none matches.
\* Packets to the bridge never pass the forward chain.
Passes(p) ==
  IF p.dst = Bridge THEN ~(net.input /\ p.svc = "dns")
  ELSE LET hits == {i \in DOMAIN net.chain : Matches(net.chain[i], p)} IN
       hits = {} \/ net.chain[CHOOSE i \in hits : \A j \in hits : i <= j].act = "accept"

-----------------------------------------------------------------------------
(* What the configuration promises, from its own documentation.             *)

Capped(c, svc) == c.ports = {} \/ svc \in c.ports \cup {"echo"}

Listed(c, p) ==
  \E t \in c.literals \cup c.resolved :
     t.dst = p.dst /\ (p.svc = "echo" \/ p.svc \in PortsOf(t.ports, c.ports))

\* An entry may name ports of its own, which tighten just that destination.
Scoped(c, dst) == \E t \in c.literals \cup c.resolved : t.dst = dst /\ t.ports # {}

Promised(c, p) ==
  CASE c.mode = "open" -> TRUE
    [] c.mode = "restricted" ->
         \/ p.dst = Bridge
         \/ IF p.svc = "dns" /\ c.dns # {} THEN p.dst \in c.dns
            ELSE /\ Capped(c, p.svc)
                 /\ p.dst \in Private => c.local \/ ~c.private
                 /\ p.dst \in Meta => ~c.meta
    [] c.mode = "allowlist" ->
         /\ p.svc # "dns"
         /\ p.dst \in Private => c.local
         /\ p.dst \in Meta => c.local /\ ~c.meta
         /\ \/ p.dst = Bridge
            \/ Listed(c, p)
            \/ p.dst \in Private /\ Capped(c, p.svc) /\ ~Scoped(c, p.dst)

\* Local access, in an allowlist, opens more than is promised: the metadata
\* address when it is listed, whatever block_metadata_endpoint says, and every
\* port of the cap on a local host whose entry names its own ports.
MetadataListed(c, p) ==
  c.mode = "allowlist" /\ c.local /\ c.meta /\ p.dst \in Meta /\ Listed(c, p)
ScopeIgnored(c, p) ==
  /\ c.mode = "allowlist" /\ c.local /\ p.dst \in Private
  /\ Scoped(c, p.dst) /\ Capped(c, p.svc)

\* Ping to the local network of a capped allowlist is promised and not given.
PingToLAN(c, p) ==
  c.mode = "allowlist" /\ c.ports # {} /\ p.dst \in Private /\ p.svc = "echo"

\* What the host entries of the configuration ask for.
AskedBy(c) ==
  UNION {Opens(Call(c, i)) : i \in 1..2 * Len(c.hosts)}

-----------------------------------------------------------------------------
(* Properties.                                                              *)

ETypeOK ==
  /\ network \in ConfigType
  /\ phase \in {"setup", "up", "failed", "stopped"}
  /\ net.addresses \subseteq Addresses /\ net.tuples \subseteq Packets
  /\ opened \subseteq Packets

\* Once a session is up the chains let through exactly what the configuration
\* promises, port caps, resolver pins, order of the rules and the two chains
\* of the DNS block considered, and in addition only what host entries asked
\* for (nft_filter.go: ApplyRestricted, ApplyAllowlist).  Three departures of
\* the code are named: a listed metadata address and a scoped local host that
\* local access opens, and the ping to a capped local network.
Enforced ==
  phase = "up" =>
    \A p \in Packets :
      /\ Passes(p) => \/ Promised(network, p) \/ p \in AskedBy(network) \cup opened
                      \/ MetadataListed(network, p) \/ ScopeIgnored(network, p)
      /\ Promised(network, p) => Passes(p) \/ PingToLAN(network, p)

\* No host entry, of whatever caller, opens the local network or the metadata
\* address of an allowlist container without local access: coi hosts add asks
\* the kernel for the mode (user_hosts.go: effectiveContainerMode).  Not when
\* nft does not answer, nor when the command begins before the launch is done
\* or runs across two sessions.
BoundaryHeld ==
  network.mode = "allowlist" /\ ~network.local /\ flaws \cap {"blind", "early", "crossed"} = {} =>
    \A p \in Packets : p.dst \in Private \cup Meta /\ phase = "up" => ~Passes(p)

\* What user_hosts.go:46-49 says of the allowlist: even with local access on,
\* it installs no accept for the metadata address, so that the address stays
\* unreachable.  A listed name that resolves to it, or a literal, opens it.
MetadataUnreachable ==
  phase = "up" /\ network.mode = "allowlist" =>
    \A p \in Packets : p.dst \in Meta => ~Passes(p)

\* Until the setup has succeeded, and after it failed, the container reaches
\* only what host entries asked for (manager.go: SetupForContainer).
StaysShut ==
  phase \in {"setup", "failed"} /\ "crossed" \notin flaws =>
    \A p \in Packets : p.dst # Bridge /\ Passes(p) => p \in AskedBy(network) \cup opened

=============================================================================
