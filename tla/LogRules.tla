------------------------------- MODULE LogRules -------------------------------
(***************************************************************************)
(* The nft daemons of several sessions (internal/nftmonitor): the LOG      *)
(* rules each inserts for the address of its container and removes at its  *)
(* end, the messages of the kernel those rules cause, and the verdict on   *)
(* what they report.  The rules are the kernel's, shared by every coi      *)
(* process of the host and told apart by the address in their prefix.      *)
(***************************************************************************)
EXTENDS Naturals, FiniteSets, Sequences, SequencesExt, Picking

CONSTANTS
  Daemons,    \* the daemons, one of each session
  Boxes,      \* the containers
  Pairings,   \* which container each daemon watches, one function a world
  Addresses,  \* the addresses leased to containers
  Within,     \* pairs of addresses, the text of the first part of the other's
  Allowed,    \* AllowedCIDRs of the daemons, the targets they hold; {}: no list
  MaxLeases, MaxTroubles  \* bounds

\* The rules of one daemon in the order AddRules inserts them; each goes to
\* the head of the chain.
Kinds == <<"private", "ports", "dns", "all">>

\* Destinations of packets: another private address than the gateway's, the
\* metadata service, a backdoor's port, port 8080, a web server, a name server.
Targets == {"lan", "metadata", "backdoor", "altweb", "web", "dns"}

Free == "none"

ASSUME LogRulesAssumption ==
  /\ Pairings \subseteq [Daemons -> Boxes] /\ Free \notin Addresses
  /\ Within \subseteq Addresses \X Addresses
  /\ \A a \in Addresses : <<a, a>> \in Within
  /\ Allowed \subseteq Targets
  /\ {MaxLeases, MaxTroubles} \subseteq Nat

VARIABLES
  lease,    \* the address of each container, or Free
  chain,    \* the LOG rules of ip filter FORWARD, for each address in order
  watches,  \* the container of each daemon
  daemon,   \* each daemon: what it does, its address, the rules it has yet to
            \* insert or delete and, a history, why it may be without its own
  killing,  \* addresses whose rules a kill under way has yet to remove
  spent     \* bounds: leases, and commands that fail or kill so far

lvars == <<lease, chain, watches, daemon, killing, spent>>

NotYet == [pc |-> "none", ip |-> Free, todo |-> <<>>, excuse |-> "none"]
Ended == [NotYet EXCEPT !.pc = "off"]

LInit ==
  /\ lease = [b \in Boxes |-> Free]
  /\ chain = [ip \in Addresses |-> <<>>]
  /\ watches \in Pairings
  /\ daemon = [d \in Daemons |-> NotYet]
  /\ killing = {}
  /\ spent = [leases |-> 0, troubles |-> 0]

Spend(what, bound) == spent[what] < bound /\ spent' = [spent EXCEPT ![what] = @ + 1]
Set(d, changed) == daemon' = [daemon EXCEPT ![d] = changed]
Of(d) == daemon[d]

\* Everybody who counts on the rules of an address, when somebody else takes
\* them away.
Excused(ip, why) ==
  [d \in Daemons |->
     IF Of(d).ip = ip /\ Of(d).pc \in {"insert", "up"} THEN [Of(d) EXCEPT !.excuse = why]
     ELSE Of(d)]

-----------------------------------------------------------------------------
(* Containers *)

\* A container starts with an address nobody has.
Boot(b) ==
  /\ lease[b] = Free /\ Spend("leases", MaxLeases)
  /\ \E ip \in Addresses \ {lease[other] : other \in Boxes} : lease' = [lease EXCEPT ![b] = ip]
  /\ UNCHANGED <<chain, watches, daemon, killing>>

\* It stops, by itself or killed: coi kill and the responder of a daemon ask
\* for the address, stop the container and only then remove the rules.
Halt(b) ==
  /\ lease[b] # Free
  /\ lease' = [lease EXCEPT ![b] = Free]
  /\ \/ UNCHANGED <<killing, spent>>
     \/ killing' = killing \union {lease[b]} /\ Spend("troubles", MaxTroubles)
  /\ UNCHANGED <<chain, watches, daemon>>

\* CleanupNFTMonitoringRules.
KillRules(ip) ==
  /\ ip \in killing
  /\ killing' = killing \ {ip}
  /\ chain' = [chain EXCEPT ![ip] = <<>>]
  /\ daemon' = Excused(ip, "killed")
  /\ UNCHANGED <<lease, watches, spent>>

-----------------------------------------------------------------------------
(* StartDaemon and AddRules *)

\* The address is asked for once; the journal is opened before the rules.
Start(d) ==
  /\ Of(d).pc = "none" /\ lease[watches[d]] # Free
  /\ Set(d, [Of(d) EXCEPT !.pc = "check", !.ip = lease[watches[d]]])
  /\ UNCHANGED <<lease, chain, watches, killing, spent>>

\* Mutant: the address is looked for, not the prefix that ends with it.
PresentByText(ip) == \E held \in Addresses : <<ip, held>> \in Within /\ chain[held] # <<>>

\* monitorRulesPresentForIP: one rule of the address stands for all of them.
Present(ip) == chain[ip] # <<>>

KindsOf(ip) == {chain[ip][i].kind : i \in DOMAIN chain[ip]}

Found(d) ==
  /\ Present(Of(d).ip)
  /\ Set(d, [Of(d) EXCEPT !.pc = "up",
               !.excuse = IF KindsOf(Of(d).ip) \in {{}, ToSet(Kinds)} THEN @ ELSE "partial"])
  /\ UNCHANGED spent

\* When the chain cannot be listed the rules are inserted anyway.
NotFound(d) ==
  /\ Set(d, [Of(d) EXCEPT !.pc = "insert", !.todo = Kinds])
  /\ \/ ~Present(Of(d).ip) /\ UNCHANGED spent
     \/ Spend("troubles", MaxTroubles)

Check(d) ==
  /\ Of(d).pc = "check"
  /\ Found(d) \/ NotFound(d)
  /\ UNCHANGED <<lease, chain, watches, killing>>

\* addSuspiciousTrafficRule (two rules), addDNSRule, addGeneralTrafficRule.  A
\* failure leaves the daemon unstarted and the rules inserted so far in place.
Insert(d) ==
  /\ Of(d).pc = "insert"
  /\ \/ /\ chain' = [chain EXCEPT ![Of(d).ip] = <<[kind |-> Head(Of(d).todo), by |-> d]>> \o @]
        /\ Set(d, [Of(d) EXCEPT !.todo = Tail(@), !.pc = IF Len(Of(d).todo) = 1 THEN "up" ELSE @])
        /\ UNCHANGED spent
     \/ /\ Spend("troubles", MaxTroubles)
        /\ Set(d, Ended)
        /\ UNCHANGED chain
  /\ UNCHANGED <<lease, watches, killing>>

-----------------------------------------------------------------------------
(* Packets, the messages they cause, the verdict *)

\* What a rule logs.  Those of "all" are limited to a rate; the others are not.
Logs(kind, target) ==
  CASE kind = "private" -> target \in {"lan", "metadata"}
    [] kind = "ports"   -> target = "backdoor"
    [] kind = "dns"     -> target = "dns"
    [] kind = "all"     -> TRUE

\* What "Always log suspicious traffic (no rate limit)" is about.
Alarming == {"lan", "metadata", "backdoor"}

\* NetworkDetector.Analyze, in its order.
Analyze(target) ==
  CASE target = "lan"                           -> "high"
    [] target = "metadata"                      -> "critical"
    [] target \in {"backdoor", "altweb"}        -> "critical"
    [] Allowed # {} /\ target \notin Allowed    -> "high"
    [] target = "dns" /\ target \notin Allowed  -> "warning"
    [] OTHER                                    -> "none"

\* LogReader.Start: the daemon keeps the messages that have its address in the
\* prefix, so they come from its own rules or from others for that address.
Heard(d, target) == \E kind \in KindsOf(Of(d).ip) \ {"all"} : Logs(kind, target)

\* What processEvents makes of a packet to the target.
Verdict(d, target) == IF Heard(d, target) THEN Analyze(target) ELSE "none"

-----------------------------------------------------------------------------
(* Daemon.Stop and RemoveRules *)

\* The process may also be killed: the rules stay.
Crash(d) ==
  /\ Of(d).pc \in {"check", "insert", "up", "delete"} /\ Spend("troubles", MaxTroubles)
  /\ Set(d, Ended)
  /\ UNCHANGED <<lease, chain, watches, killing>>

Tagged(ip) == [i \in DOMAIN chain[ip] |-> [ip |-> ip, rule |-> chain[ip][i]]]

\* Mutant: the rules of an address whose text holds this one go, too.
RulesByText(ip) ==
  FoldSet(LAMBDA held, found : found \o Tagged(held), <<>>,
          {held \in Addresses : <<ip, held>> \in Within})

\* The lines of the chain that hold a prefix with the address.
RulesOf(ip) == Tagged(ip)

Stop(d) ==
  /\ Of(d).pc = "up"
  /\ LET found == RulesOf(Of(d).ip) IN
       Set(d, IF found = <<>> THEN Ended
              ELSE [NotYet EXCEPT !.pc = "delete", !.ip = Of(d).ip, !.todo = found])
  /\ UNCHANGED <<lease, chain, watches, killing, spent>>

\* One delete per handle; the first that fails, as when somebody else removed
\* the rule, ends it.  Whoever else relies on the rules has been robbed.
Delete(d) ==
  /\ Of(d).pc = "delete"
  /\ LET at == Head(Of(d).todo).ip
         rule == Head(Of(d).todo).rule
         done == IF Len(Of(d).todo) = 1 THEN Ended ELSE [Of(d) EXCEPT !.todo = Tail(@)]
     IN
     \/ /\ Contains(chain[at], rule)
        /\ chain' = [chain EXCEPT ![at] = Pick(@, {i \in DOMAIN @ : @[i] # rule})]
        /\ daemon' = [Excused(Of(d).ip, "robbed") EXCEPT ![d] = done]
        /\ UNCHANGED spent
     \/ /\ \/ ~Contains(chain[at], rule) /\ UNCHANGED spent
           \/ Spend("troubles", MaxTroubles)
        /\ Set(d, Ended)
        /\ UNCHANGED chain
  /\ UNCHANGED <<lease, watches, killing>>

LNext ==
  \/ \E b \in Boxes : Boot(b) \/ Halt(b)
  \/ \E ip \in Addresses : KillRules(ip)
  \/ \E d \in Daemons : \/ Start(d) \/ Check(d) \/ Insert(d)
                        \/ Stop(d) \/ Delete(d) \/ Crash(d)

LSpec == LInit /\ [][LNext]_lvars

-----------------------------------------------------------------------------
(* Properties *)

\* Type invariant of the rules and the daemons.
LTypeOK ==
  /\ lease \in [Boxes -> Addresses \union {Free}]
  /\ \A ip \in Addresses : ToSet(chain[ip]) \subseteq [kind: ToSet(Kinds), by: Daemons]
  /\ \A d \in Daemons :
       /\ Of(d).pc \in {"none", "check", "insert", "up", "delete", "off"}
       /\ Of(d).excuse \in {"none", "killed", "partial", "robbed"}
  /\ killing \subseteq Addresses

\* A packet to a private address, to the metadata service or to a backdoor's
\* port is logged and judged "high" or "critical" by every daemon that is up
\* for the container, whatever rules it inserted, found or shared.  Excused are
\* a daemon that found another's incomplete set (AddRules failed half-way), one
\* whose shared rules another session removed (RemoveRules goes by address),
\* and one that got the address of a killed container.
NothingMissed ==
  \A d \in Daemons : Of(d).pc = "up" /\ Of(d).excuse = "none" =>
    \A target \in Alarming : Verdict(d, target) \in {"high", "critical"}
=============================================================================
