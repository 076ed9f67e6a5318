------------------------------ MODULE Firewall ------------------------------
(***************************************************************************)
(* The host firewall over the life of containers: coi sessions             *)
(* (session.Setup, network.Manager.SetupForContainer, session.Cleanup, and *)
(* the phases of coi run), coi kill, coi clean and coi clean --orphans act *)
(* on one shared nft chain, while guests power off, coi processes are      *)
(* killed and DHCP hands the address of a dead container to a new one.     *)
(*                                                                         *)
(* A packet is abstracted to whether the container's network mode permits  *)
(* it ("ok") or not ("bad"), and a rule to the verdict it gives to each.   *)
(* Every nft or incus command is one step.  Rules are found by their       *)
(* comment: coi-<ip>, the policy of the container that holds the address,  *)
(* or coi-boot-<name>, the block that covers its boot.                     *)
(***************************************************************************)
EXTENDS Naturals, Sequences, FiniteSets, FiniteSetsExt, Picking

CONSTANTS
  Containers,  \* container names (one per slot)
  IPs,         \* addresses of the bridge's DHCP pool
  NoIP,        \* no address
  Worlds       \* the settings, faults and commands a behaviour may have

ASSUME FirewallAssumption ==
  /\ NoIP \notin IPs
  /\ \A w \in Worlds :
       /\ w.modes \subseteq {"open", "restricted", "allowlist"}
       /\ w.flow \in {"shell", "run"}
       /\ w.pool \subseteq IPs
       /\ w.persistent \subseteq Containers /\ w.reentered \subseteq Containers
       /\ w.faults \subseteq {"boot", "address", "ip6", "apply", "hosts", "poweroff"}
       /\ w.commands \subseteq {"crash", "kill", "clean", "orphans"}
       /\ w.maxStarts \in Nat

VARIABLES
  world,    \* configuration and environment, fixed in a behaviour
  inst,     \* incus: "absent", "stopped" or "running"
  veth,     \* incus: host-side interface of a running container, else 0
  starts,   \* incus: interface names given out so far (a start gets a new one)
  ip,       \* dnsmasq: the address of a running container, or NoIP
  chain,    \* nft: the rules of "ip coi forward", in order
  ip6,      \* nft: the rules of "ip6 coi forward", as <<name, veth>>
  sess,     \* the coi session process of each container name
  kill,     \* the coi kill process of each container name
  clean,    \* the containers a coi clean process has listed as stopped
  orphans,  \* the coi clean --orphans process
  guard,    \* history: what coi has reported for the container's current boot
  late,     \* history: the processes that held the address of a running
            \* container, or had condemned it, before its guest got the lease
  crossed   \* history: the containers whose rules such a process has touched
            \* since the session purged the address

history == <<late, crossed>>

vars == <<world, inst, veth, starts, ip, chain, ip6, sess, kill, clean, orphans, guard,
          late, crossed>>

\* The parts of the world: the modes sessions are configured with, the command
\* that runs them, the containers configured as persistent and those that
\* sessions enter while they run, the steps that may fail, the other commands
\* in use ("crash": kill -9 of a session), and the bound of container starts.
Modes == world.modes
Flow == world.flow
Pool == world.pool
Persistent == world.persistent
Reentered == world.reentered
Faults == world.faults
Commands == world.commands
MaxStarts == world.maxStarts

Verdicts == {"accept", "drop", "next"}
Packets == {"ok", "bad"}

NoSession == [pc |-> "none", mode |-> "open", ip |-> NoIP]
NoKill == [pc |-> "none", ip |-> NoIP]
NoOrphans == [pc |-> "idle", keys |-> {}, names |-> {}]
NoGuard == [state |-> "none", mode |-> "open"]

Init ==
  /\ world \in Worlds
  /\ inst = [c \in Containers |-> "absent"]
  /\ veth = [c \in Containers |-> 0]
  /\ starts = 0
  /\ ip = [c \in Containers |-> NoIP]
  /\ chain = <<>>
  /\ ip6 = {}
  /\ sess = [c \in Containers |-> NoSession]
  /\ kill = [c \in Containers |-> NoKill]
  /\ clean = {}
  /\ orphans = NoOrphans
  /\ guard = [c \in Containers |-> NoGuard]
  /\ late = [c \in Containers |-> {}]
  /\ crossed = {}

-----------------------------------------------------------------------------
(* The chain *)

IPKey(a) == <<"ip", a>>
BootKey(c) == <<"boot", c>>

Rule(key, v, ok, bad) == [key |-> key, veth |-> v, ok |-> ok, bad |-> bad]

\* The rules a mode installs for an address, in the order they are appended:
\* ApplyRestricted rejects what is private and accepts the rest,
\* ApplyAllowlist accepts what is listed and rejects the rest,
\* EnsureOpenModeRules accepts everything.
PolicyRules(a, mode) ==
  CASE mode = "open" -> <<Rule(IPKey(a), 0, "accept", "accept")>>
    [] mode = "restricted" -> <<Rule(IPKey(a), 0, "next", "drop"),
                                Rule(IPKey(a), 0, "accept", "accept")>>
    [] mode = "allowlist" -> <<Rule(IPKey(a), 0, "accept", "next"),
                               Rule(IPKey(a), 0, "drop", "drop")>>

Keys == {chain[i].key : i \in DOMAIN chain}

\* deleteNFTRulesByComment, when nft answers.
DeleteRules(key) == Pick(chain, {i \in DOMAIN chain : chain[i].key # key})

\* The rule sees the packets of container c.
Matches(r, c) ==
  IF r.key[1] = "boot" THEN veth[c] # 0 /\ r.veth = veth[c]
                       ELSE ip[c] # NoIP /\ r.key[2] = ip[c]

\* What the host does with a packet of c: first match, chain policy accept.
Egress(c, p) ==
  LET hits == {i \in DOMAIN chain : Matches(chain[i], c) /\ chain[i][p] # "next"}
  IN  IF hits = {} THEN "accept" ELSE chain[Min(hits)][p]

-----------------------------------------------------------------------------
(* Incus and the guests *)

\* incus stop --force, or the guest's own poweroff, as seen from the host.
Halt(c, state) ==
  /\ inst' = [inst EXCEPT ![c] = state]
  /\ veth' = [veth EXCEPT ![c] = 0]
  /\ ip' = [ip EXCEPT ![c] = NoIP]
  /\ guard' = [guard EXCEPT ![c] = NoGuard]
  /\ late' = [late EXCEPT ![c] = {}]
  /\ crossed' = crossed \ {c}

\* incus start: the host side of the veth pair gets a new random name.
Start(c, mode) ==
  /\ starts < MaxStarts
  /\ starts' = starts + 1
  /\ inst' = [inst EXCEPT ![c] = "running"]
  /\ veth' = [veth EXCEPT ![c] = starts + 1]
  /\ ip' = [ip EXCEPT ![c] = NoIP]
  /\ guard' = [guard EXCEPT ![c] = [state |-> "booting", mode |-> mode]]
  /\ UNCHANGED history

PowerOff(c) ==
  /\ "poweroff" \in Faults
  /\ inst[c] = "running"
  /\ Halt(c, "stopped")
  /\ UNCHANGED <<starts, chain, ip6, sess, kill, clean, orphans>>

\* The processes that act on an address: sessions and kills that remember it,
\* and a coi clean --orphans that has found it used by no running container.
Sweep == <<"orphans", NoIP>>
Actors == ({"session", "kill"} \X Containers) \cup {Sweep}

Holding(a) ==
  {<<"session", d>> : d \in {d \in Containers : sess[d].ip = a}}
  \cup {<<"kill", d>> : d \in {d \in Containers : kill[d].ip = a}}
  \cup {x \in {Sweep} : orphans.pc = "detected" /\ IPKey(a) \in orphans.keys}

\* The guest gets a lease: any address that no running container holds, one
\* that a coi process still means to act on included.
Dhcp(c) ==
  /\ inst[c] = "running"
  /\ ip[c] = NoIP
  /\ \E a \in Pool :
       /\ \A d \in Containers : ip[d] # a
       /\ ip' = [ip EXCEPT ![c] = a]
       /\ late' = [late EXCEPT ![c] = Holding(a)]
  /\ UNCHANGED <<inst, veth, starts, chain, ip6, sess, kill, clean, orphans,
                 guard, crossed>>

\* A process adds or removes rules of an address: it crosses the containers
\* that got this address after the process had learned it.
Cross(x, a) == {c \in Containers : ip[c] = a /\ x \in late[c]}
Touch(x, a) == crossed' = crossed \cup Cross(x, a) /\ UNCHANGED late

-----------------------------------------------------------------------------
(* Starting a session: session.Setup up to the boot block *)

SessGoto(c, label) == sess' = [sess EXCEPT ![c].pc = label]

\* Setup returned an error: coi shell exits without any teardown, coi run
\* still runs the launch phase's teardown.
SetupFailed(c) ==
  IF Flow = "run" THEN SessGoto(c, "release")
                  ELSE sess' = [sess EXCEPT ![c] = NoSession]

\* A container is created (after a stopped leftover was deleted), or a
\* stopped persistent one is restarted.
Launch(c, mode) ==
  /\ sess[c].pc = "none"
  /\ inst[c] \in {"absent", "stopped"}
  /\ Start(c, mode)
  /\ sess' = [sess EXCEPT ![c] = [pc |-> "boot", mode |-> mode, ip |-> NoIP]]
  /\ UNCHANGED <<chain, ip6, kill, clean, orphans>>

\* coi shell --container or --resume on a container that is running: no start
\* and no boot block.
Reuse(c, mode) ==
  /\ Flow = "shell"
  /\ c \in Reentered
  /\ sess[c].pc = "none"
  /\ inst[c] = "running"
  /\ sess' = [sess EXCEPT ![c] = [pc |-> "address", mode |-> mode, ip |-> NoIP]]
  /\ guard' = [guard EXCEPT ![c] = [state |-> "reused", mode |-> mode]]
  /\ UNCHANGED <<inst, veth, starts, ip, chain, ip6, kill, clean, orphans, history>>

\* Mutant: the boot block is put on the bridge's first interface.
BootBlockWrongVeth(c) ==
  /\ sess[c].pc = "boot"
  /\ veth[c] # 0
  /\ chain' = IF BootKey(c) \in Keys THEN chain
              ELSE Append(chain, Rule(BootKey(c), 1, "drop", "drop"))
  /\ guard' = [guard EXCEPT ![c].state = "blocked"]
  /\ SessGoto(c, "address")
  /\ UNCHANGED <<inst, veth, starts, ip, ip6, kill, clean, orphans, history>>

\* ApplyBootBlockRule: skipped when a rule with this comment is there.
ApplyBootBlockRule(c) ==
  /\ sess[c].pc = "boot"
  /\ ~(Flow = "run" /\ sess[c].mode = "open")
  /\ veth[c] # 0
  /\ chain' = IF BootKey(c) \in Keys THEN chain
              ELSE Append(chain, Rule(BootKey(c), veth[c], "drop", "drop"))
  /\ guard' = [guard EXCEPT ![c].state = "blocked"]
  /\ SessGoto(c, "address")
  /\ UNCHANGED <<inst, veth, starts, ip, ip6, kill, clean, orphans, history>>

\* The rule could not be added, or the veth is gone.  Open mode goes on with
\* a warning; otherwise coi shell stops the container and aborts, and coi run
\* aborts into its teardown.
BootBlockFails(c) ==
  /\ sess[c].pc = "boot"
  /\ ~(Flow = "run" /\ sess[c].mode = "open")
  /\ veth[c] = 0 \/ "boot" \in Faults
  /\ IF sess[c].mode = "open"
       THEN /\ SessGoto(c, "address")
            /\ UNCHANGED <<inst, veth, ip, guard, history>>
       ELSE /\ SetupFailed(c)
            /\ IF Flow = "shell" /\ inst[c] = "running"
                 THEN Halt(c, "stopped")
                 ELSE UNCHANGED <<inst, veth, ip, guard, history>>
  /\ UNCHANGED <<starts, chain, ip6, kill, clean, orphans>>

\* coi run in open mode installs no block and no rules.
RunOpen(c) ==
  /\ sess[c].pc = "boot"
  /\ Flow = "run"
  /\ sess[c].mode = "open"
  /\ SessGoto(c, "up")
  /\ UNCHANGED <<inst, veth, starts, ip, chain, ip6, kill, clean, orphans, guard, history>>

-----------------------------------------------------------------------------
(* network.Manager.SetupForContainer *)

\* GetContainerIP: the address is remembered for the rest of the session.
GetContainerIP(c) ==
  /\ sess[c].pc = "address"
  /\ ip[c] # NoIP
  /\ sess' = [sess EXCEPT ![c].ip = ip[c],
                          ![c].pc = IF sess[c].mode = "open" THEN "purge" ELSE "ip6"]
  /\ UNCHANGED <<inst, veth, starts, ip, chain, ip6, kill, clean, orphans, guard, history>>

\* No address: open mode goes on without rules, the others give up.
NoAddress(c) ==
  /\ sess[c].pc = "address"
  /\ ip[c] = NoIP
  /\ inst[c] # "running" \/ "address" \in Faults
  /\ IF sess[c].mode = "open" THEN SessGoto(c, "hosts") ELSE SetupFailed(c)
  /\ UNCHANGED <<inst, veth, starts, ip, chain, ip6, kill, clean, orphans, guard, history>>

\* ApplyIPv6BlockForContainer: skipped when a rule of this name is there.
ApplyIPv6Block(c) ==
  /\ sess[c].pc = "ip6"
  /\ veth[c] # 0
  /\ ip6' = IF \E r \in ip6 : r[1] = c THEN ip6 ELSE ip6 \cup {<<c, veth[c]>>}
  /\ SessGoto(c, "purge")
  /\ UNCHANGED <<inst, veth, starts, ip, chain, kill, clean, orphans, guard, history>>

IPv6BlockFails(c) ==
  /\ sess[c].pc = "ip6"
  /\ veth[c] = 0 \/ "ip6" \in Faults
  /\ SetupFailed(c)
  /\ UNCHANGED <<inst, veth, starts, ip, chain, ip6, kill, clean, orphans, guard, history>>

\* purgeStaleRulesForIP, before this container's own policy.
PurgeStaleRules(c) ==
  /\ sess[c].pc = "purge"
  /\ chain' = DeleteRules(IPKey(sess[c].ip))
  /\ SessGoto(c, "apply")
  /\ crossed' = (crossed \ {c}) \cup (Cross(<<"session", c>>, sess[c].ip) \ {c})
  /\ UNCHANGED <<inst, veth, starts, ip, ip6, kill, clean, orphans, guard, late>>

\* ApplyRestricted, ApplyAllowlist or EnsureOpenModeRules (which adds its
\* rule only when the address has none).
ApplyPolicy(c) ==
  /\ sess[c].pc = "apply"
  /\ chain' = IF sess[c].mode = "open" /\ IPKey(sess[c].ip) \in Keys
                THEN chain
                ELSE chain \o PolicyRules(sess[c].ip, sess[c].mode)
  /\ Touch(<<"session", c>>, sess[c].ip)
  /\ SessGoto(c, "hosts")
  /\ UNCHANGED <<inst, veth, starts, ip, ip6, kill, clean, orphans, guard>>

\* An nft command of the policy fails: the rules before it stay.
ApplyPolicyFails(c) ==
  /\ sess[c].pc = "apply"
  /\ "apply" \in Faults
  /\ IF sess[c].mode = "open"
       THEN SessGoto(c, "hosts") /\ UNCHANGED <<chain, history>>
       ELSE /\ SetupFailed(c)
            /\ \E n \in 0..1 :
                 chain' = chain \o SubSeq(PolicyRules(sess[c].ip, sess[c].mode), 1, n)
            /\ Touch(<<"session", c>>, sess[c].ip)
  /\ UNCHANGED <<inst, veth, starts, ip, ip6, kill, clean, orphans, guard>>

\* applyUserHosts runs before the boot block is lifted and is fatal.
ApplyUserHosts(c) ==
  /\ sess[c].pc = "hosts"
  /\ SessGoto(c, "lift")
  /\ UNCHANGED <<inst, veth, starts, ip, chain, ip6, kill, clean, orphans, guard, history>>

UserHostsFail(c) ==
  /\ sess[c].pc = "hosts"
  /\ "hosts" \in Faults
  /\ SetupFailed(c)
  /\ UNCHANGED <<inst, veth, starts, ip, chain, ip6, kill, clean, orphans, guard, history>>

\* SetupForContainer returns nil: the policy is reported to be in place, unless
\* open mode went on without the container's address.
Reported(c) ==
  IF inst[c] # "running" THEN guard
  ELSE [guard EXCEPT ![c] = [state |-> IF sess[c].ip = NoIP THEN "unruled" ELSE "policy",
                             mode |-> sess[c].mode]]

\* removeBootBlock.  The container may have been stopped meanwhile.
RemoveBootBlock(c) ==
  /\ sess[c].pc = "lift"
  /\ chain' = DeleteRules(BootKey(c))
  /\ SessGoto(c, "up")
  /\ guard' = Reported(c)
  /\ UNCHANGED <<inst, veth, starts, ip, ip6, kill, clean, orphans, history>>

-----------------------------------------------------------------------------
(* The end of a session: session.Cleanup, or the teardowns of coi run *)

\* Cleanup (coi shell) decides from the container's state; coi run always
\* tears the network down first.  A running container is kept by coi shell,
\* with its rules; a persistent one is kept in any state.
EndSession(c) ==
  /\ sess[c].pc = "up"
  /\ IF Flow = "run"
       THEN SessGoto(c, IF sess[c].mode = "open" THEN "release" ELSE "unrule")
       ELSE IF c \in Persistent \/ inst[c] = "running"
              THEN sess' = [sess EXCEPT ![c] = NoSession]
              ELSE SessGoto(c, "unrule")
  /\ UNCHANGED <<inst, veth, starts, ip, chain, ip6, kill, clean, orphans, guard, history>>

\* Mutant: Teardown stops after the IP-keyed rules.
TeardownForgetsBlocks(c) ==
  /\ sess[c].pc = "unrule"
  /\ chain' = DeleteRules(IPKey(sess[c].ip))
  /\ guard' = [guard EXCEPT ![c].state = IF @ = "policy" THEN "released" ELSE @]
  /\ Touch(<<"session", c>>, sess[c].ip)
  /\ SessGoto(c, "release")
  /\ UNCHANGED <<inst, veth, starts, ip, ip6, kill, clean, orphans>>

\* Manager.Teardown: the rules of the remembered address.  An open-mode
\* session that never learned its address finds none to remove and returns.
TeardownRules(c) ==
  /\ sess[c].pc = "unrule"
  /\ IF sess[c].ip = NoIP
       THEN SessGoto(c, "release") /\ UNCHANGED <<chain, guard, history>>
       ELSE /\ chain' = DeleteRules(IPKey(sess[c].ip))
            /\ guard' = [guard EXCEPT ![c].state =
                           IF @ = "policy" THEN "released" ELSE @]
            /\ Touch(<<"session", c>>, sess[c].ip)
            /\ SessGoto(c, "unblock6")
  /\ UNCHANGED <<inst, veth, starts, ip, ip6, kill, clean, orphans>>

WithoutName(c) == {r \in ip6 : r[1] # c}

TeardownIPv6(c) ==
  /\ sess[c].pc = "unblock6"
  /\ ip6' = WithoutName(c)
  /\ SessGoto(c, "unboot")
  /\ UNCHANGED <<inst, veth, starts, ip, chain, kill, clean, orphans, guard, history>>

TeardownBootBlock(c) ==
  /\ sess[c].pc = "unboot"
  /\ chain' = DeleteRules(BootKey(c))
  /\ SessGoto(c, "release")
  /\ UNCHANGED <<inst, veth, starts, ip, ip6, kill, clean, orphans, guard, history>>

\* The container itself: deleted, or (coi run, persistent) stopped.
ReleaseContainer(c) ==
  /\ sess[c].pc = "release"
  /\ sess' = [sess EXCEPT ![c] = NoSession]
  /\ IF inst[c] = "absent"
       THEN UNCHANGED <<inst, veth, ip, guard, history>>
       ELSE Halt(c, IF c \in Persistent THEN "stopped" ELSE "absent")
  /\ UNCHANGED <<starts, chain, ip6, kill, clean, orphans>>

\* The coi process dies; nothing it set up is undone.
Crash(c) ==
  /\ "crash" \in Commands
  /\ sess[c].pc # "none"
  /\ sess' = [sess EXCEPT ![c] = NoSession]
  /\ UNCHANGED <<inst, veth, starts, ip, chain, ip6, kill, clean, orphans, guard, history>>

-----------------------------------------------------------------------------
(* coi kill (and coi shutdown) <name> *)

KillBegin(c) ==
  /\ "kill" \in Commands
  /\ kill[c].pc = "none"
  /\ inst[c] # "absent"
  /\ kill' = [kill EXCEPT ![c] = [pc |-> "stop", ip |-> ip[c]]]
  /\ UNCHANGED <<inst, veth, starts, ip, chain, ip6, sess, clean, orphans, guard, history>>

KillStop(c) ==
  /\ kill[c].pc = "stop"
  /\ kill' = [kill EXCEPT ![c].pc = "unrule"]
  /\ IF inst[c] = "running" THEN Halt(c, "stopped")
                            ELSE UNCHANGED <<inst, veth, ip, guard, history>>
  /\ UNCHANGED <<starts, chain, ip6, sess, clean, orphans>>

\* cleanupContainerFirewall: the rules of the address, then the IPv6 block.
KillRules(c) ==
  /\ kill[c].pc = "unrule"
  /\ kill' = [kill EXCEPT ![c].pc = "unblock6"]
  /\ IF kill[c].ip = NoIP
       THEN UNCHANGED <<chain, history>>
       ELSE /\ chain' = DeleteRules(IPKey(kill[c].ip))
            /\ Touch(<<"kill", c>>, kill[c].ip)
  /\ UNCHANGED <<inst, veth, starts, ip, ip6, sess, clean, orphans, guard>>

KillIPv6(c) ==
  /\ kill[c].pc = "unblock6"
  /\ kill' = [kill EXCEPT ![c].pc = "delete"]
  /\ ip6' = WithoutName(c)
  /\ UNCHANGED <<inst, veth, starts, ip, chain, sess, clean, orphans, guard, history>>

KillDelete(c) ==
  /\ kill[c].pc = "delete"
  /\ kill' = [kill EXCEPT ![c] = NoKill]
  /\ IF inst[c] = "absent" THEN UNCHANGED <<inst, veth, ip, guard, history>>
                           ELSE Halt(c, "absent")
  /\ UNCHANGED <<starts, chain, ip6, sess, clean, orphans>>

-----------------------------------------------------------------------------
(* coi clean: stopped containers *)

CleanList ==
  /\ "clean" \in Commands
  /\ clean = {}
  /\ clean' = {c \in Containers : inst[c] = "stopped"}
  /\ clean' # {}
  /\ UNCHANGED <<inst, veth, starts, ip, chain, ip6, sess, kill, orphans, guard, history>>

\* After the confirmation: cleanupContainerFirewall(name, "") removes only
\* the IPv6 block, then the container is force-deleted.
CleanDelete(c) ==
  /\ c \in clean
  /\ clean' = clean \ {c}
  /\ ip6' = WithoutName(c)
  /\ IF inst[c] = "absent" THEN UNCHANGED <<inst, veth, ip, guard, history>>
                           ELSE Halt(c, "absent")
  /\ UNCHANGED <<starts, chain, sess, kill, orphans>>

-----------------------------------------------------------------------------
(* coi clean --orphans *)

\* ListCOIFilterRuleIPs and ListCOIIP6RuleContainers: every coi-<key>
\* comment but coi-base, so the boot blocks too.
OrphansList ==
  /\ "orphans" \in Commands
  /\ orphans.pc = "idle"
  /\ orphans' = [pc |-> "listed", keys |-> Keys, names |-> {r[1] : r \in ip6}]
  /\ UNCHANGED <<inst, veth, starts, ip, chain, ip6, sess, kill, clean, guard, history>>

\* Mutant: the running containers' addresses are not excluded.
OrphansKeepAll ==
  /\ orphans.pc = "listed"
  /\ orphans' = [orphans EXCEPT !.pc = "detected"]
  /\ UNCHANGED <<inst, veth, starts, ip, chain, ip6, sess, kill, clean, guard, history>>

\* getRunningContainerIPs and getRunningContainerNames: what is listed and
\* not running is orphaned.  A key is compared with the running addresses.
OrphansDetect ==
  /\ orphans.pc = "listed"
  /\ orphans' = [pc |-> "detected",
                 keys |-> orphans.keys \ {IPKey(ip[c]) : c \in Containers},
                 names |-> {n \in orphans.names : inst[n] # "running"}]
  /\ UNCHANGED <<inst, veth, starts, ip, chain, ip6, sess, kill, clean, guard, history>>

\* After the confirmation the rules are deleted, one key at a time.
OrphansDeleteKey(k) ==
  /\ orphans.pc = "detected"
  /\ k \in orphans.keys
  /\ orphans' = [orphans EXCEPT !.keys = @ \ {k}]
  /\ chain' = DeleteRules(k)
  /\ IF k[1] = "ip" THEN Touch(Sweep, k[2]) ELSE UNCHANGED history
  /\ UNCHANGED <<inst, veth, starts, ip, ip6, sess, kill, clean, guard>>

OrphansDeleteName(n) ==
  /\ orphans.pc = "detected"
  /\ orphans.keys = {}
  /\ n \in orphans.names
  /\ orphans' = [orphans EXCEPT !.names = @ \ {n}]
  /\ ip6' = WithoutName(n)
  /\ UNCHANGED <<inst, veth, starts, ip, chain, sess, kill, clean, guard, history>>

OrphansEnd ==
  /\ orphans.pc = "detected"
  /\ orphans.keys = {} /\ orphans.names = {}
  /\ orphans' = NoOrphans
  /\ UNCHANGED <<inst, veth, starts, ip, chain, ip6, sess, kill, clean, guard, history>>

-----------------------------------------------------------------------------
SessionStep(c) ==
  \/ \E mode \in Modes : Launch(c, mode) \/ Reuse(c, mode)
  \/ ApplyBootBlockRule(c) \/ BootBlockFails(c) \/ RunOpen(c)
  \/ GetContainerIP(c) \/ NoAddress(c)
  \/ ApplyIPv6Block(c) \/ IPv6BlockFails(c)
  \/ PurgeStaleRules(c) \/ ApplyPolicy(c) \/ ApplyPolicyFails(c)
  \/ ApplyUserHosts(c) \/ UserHostsFail(c) \/ RemoveBootBlock(c)
  \/ EndSession(c) \/ TeardownRules(c) \/ TeardownIPv6(c)
  \/ TeardownBootBlock(c) \/ ReleaseContainer(c)

KillStep(c) ==
  KillBegin(c) \/ KillStop(c) \/ KillRules(c) \/ KillIPv6(c) \/ KillDelete(c)

OrphansStep ==
  \/ OrphansList \/ OrphansDetect \/ OrphansEnd
  \/ \E k \in orphans.keys : OrphansDeleteKey(k)
  \/ \E n \in orphans.names : OrphansDeleteName(n)

Next ==
  /\ UNCHANGED world
  /\ \/ \E c \in Containers :
          SessionStep(c) \/ Crash(c) \/ PowerOff(c) \/ Dhcp(c) \/ KillStep(c)
            \/ CleanDelete(c)
     \/ CleanList \/ OrphansStep

Spec == Init /\ [][Next]_vars

-----------------------------------------------------------------------------
(* Properties *)

SessionStates ==
  {"none", "boot", "address", "ip6", "purge", "apply", "hosts", "lift", "up",
   "unrule", "unblock6", "unboot", "release"}

\* Every variable keeps its type; a container has an interface exactly while
\* it runs.
TypeOK ==
  /\ world \in Worlds
  /\ inst \in [Containers -> {"absent", "stopped", "running"}]
  /\ starts \in 0..MaxStarts
  /\ veth \in [Containers -> 0..starts]
  /\ \A c \in Containers : veth[c] # 0 <=> inst[c] = "running"
  /\ ip \in [Containers -> IPs \cup {NoIP}]
  /\ \A i \in DOMAIN chain :
       /\ chain[i].key \in {IPKey(a) : a \in IPs} \cup {BootKey(c) : c \in Containers}
       /\ chain[i].veth \in 0..starts
       /\ chain[i].ok \in Verdicts /\ chain[i].bad \in Verdicts
  /\ ip6 \subseteq Containers \X (1..starts)
  /\ sess \in [Containers -> [pc : SessionStates, mode : Modes \cup {"open"},
                               ip : IPs \cup {NoIP}]]
  /\ kill \in [Containers -> [pc : {"none", "stop", "unrule", "unblock6", "delete"},
                               ip : IPs \cup {NoIP}]]
  /\ clean \subseteq Containers
  /\ orphans.pc \in {"idle", "listed", "detected"}
  /\ guard \in [Containers ->
       [state : {"none", "booting", "blocked", "reused", "policy", "unruled", "released"},
        mode : Modes \cup {"open"}]]
  /\ late \in [Containers -> SUBSET Actors]
  /\ crossed \subseteq Containers

\* What the mode promises for a packet.
Promised(mode, p) == IF p = "bad" /\ mode # "open" THEN "drop" ELSE "accept"

\* From the moment SetupForContainer has returned nil, and as long as the
\* container runs, its traffic gets exactly the verdicts of its mode: a
\* restricted container never inherits a dead predecessor's accept, an open
\* one is never stranded behind a dead predecessor's reject or its own boot
\* block, and no other session, kill or clean takes its rules away.  Only a
\* process that had learned the address before the guest got it (a session, a
\* coi kill or a coi clean --orphans still at work on a container that died)
\* can, and crossed marks the containers it has done that to: the code does
\* not look again at who holds an address before it deletes or adds its rules.
PolicyExact ==
  \A c \in Containers \ crossed, p \in Packets :
    guard[c].state = "policy" /\ ip[c] # NoIP
      => Egress(c, p) = Promised(guard[c].mode, p)

\* In coi run, between the boot block and the end of a setup that restricts the
\* container, and after a setup that failed, nothing leaves the container.
\* (coi shell breaks it: a block that a failed setup left under this name keeps
\* the next one from being installed on the new interface.)
\* ("This closes the network gap between container boot and
\* SetupForContainer installing proper IP-based isolation rules.")
BootWindowClosed ==
  \A c \in Containers, p \in Packets :
    Flow = "run" /\ guard[c].state = "blocked" /\ guard[c].mode # "open"
      /\ ip[c] # NoIP => Egress(c, p) = "drop"

\* With coi run, where no setup step after the boot block fails, every rule in
\* the host's tables belongs to a session in progress.
NoLeftovers ==
  Flow = "run" =>
  /\ \A i \in DOMAIN chain : \E c \in Containers :
       sess[c].pc # "none" /\ chain[i].key \in {IPKey(sess[c].ip), BootKey(c)}
  /\ \A r \in ip6 : sess[r[1]].pc # "none"

=============================================================================
