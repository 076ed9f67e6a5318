------------------------------ MODULE NameSync ------------------------------
(***************************************************************************)
(* Names in allowlist mode (internal/network: manager.go, resolver.go,     *)
(* cache.go, nftset.go, hosts.go).  All DNS of the container is blocked;   *)
(* a coi session resolves the allowed names on the host and puts the       *)
(* answers into two kernel sets (addresses, and address-port pairs) and    *)
(* then into the managed block of the container's /etc/hosts.  While the   *)
(* session lives, its refresher does the same again from time to time.     *)
(*                                                                         *)
(* One container and its address are modelled, with the coi processes that *)
(* manage it one after the other, or, when a running container is entered  *)
(* again (--container, --resume), side by side: each keeps its own record  *)
(* of what it installed.  A name has one port.                             *)
(* Elements are permanent (dynamicElementLifetimeInterval is always 0), so *)
(* there is no time in the module.                                         *)
(***************************************************************************)
EXTENDS Naturals, FiniteSets

CONSTANTS
  Sessions,    \* coi processes
  Names,       \* the hostnames of allowed_domains
  Addrs,       \* the addresses DNS may answer with
  Port,        \* [Names -> port]: the port a name may be reached on
  Persistent,  \* whether the container is persistent
  Ways,        \* how sessions enter it: "create", "restart", "reenter"
  Faults       \* what may fail: "nft", "hosts", "save", "load", "crash"

ASSUME NameSyncAssumption ==
  /\ Persistent \in BOOLEAN
  /\ Ways \subseteq {"create", "restart", "reenter"}
  /\ Faults \subseteq {"nft", "hosts", "save", "load", "crash"}

VARIABLES
  inst,    \* the container: "absent", "stopped" or "running"
  open,    \* its boot block has been lifted
  sets,    \* the rules and sets of its address are in the kernel
  addrs,   \* elements of coi_d_<ip>
  tuples,  \* elements of coi_dp_<ip>
  file,    \* the managed block of its /etc/hosts: [Names -> set of addresses]
  saved,   \* ~/.coi/network-cache/<container>.json, likewise
  sess,    \* the session processes
  emptied,   \* history: the sets were emptied, and the setup that did it is not done
  outdated,  \* history: processes that another's purge found at work
  writer     \* history: the process that wrote the hosts block last

histories == <<emptied, outdated, writer>>
nvars == <<inst, open, sets, addrs, tuples, file, saved, sess, emptied, outdated, writer>>

\* A name to addresses mapping; a name that is missing has none.
Answers == [Names -> SUBSET Addrs]
NoAnswers == [d \in Names |-> {}]

Pairs == Addrs \X {Port[d] : d \in Names}

\* The pairs a name with these addresses needs.
PairsOf(as, d) == as \X {Port[d]}

\* cache: Resolver.cache; seen, seenPairs: NftManager.dynSeen and
\* dynSeenTuples; found: the result of ResolveAll; todo: its names that are
\* still to be synced; name: the name being synced.
NoSession ==
  [pc |-> "none", task |-> "setup", cache |-> NoAnswers, seen |-> {},
   seenPairs |-> {}, found |-> NoAnswers, todo |-> {}, name |-> {}]

NInit ==
  /\ inst = "absent"
  /\ open = FALSE
  /\ sets = FALSE
  /\ addrs = {}
  /\ tuples = {}
  /\ file = NoAnswers
  /\ saved = NoAnswers
  /\ sess = [s \in Sessions |-> NoSession]
  /\ emptied = TRUE /\ outdated = {} /\ writer = {}

Active(s) == sess[s].pc # "none"

\* s took rules and sets away: what the other processes recorded is gone.
Empties(s) ==
  /\ emptied' = TRUE
  /\ outdated' = {t \in Sessions \ {s} : Active(t)}

NGoto(s, label) == sess' = [sess EXCEPT ![s].pc = label]

\* A step of s failed: a setup gives up, a refresh is tried again later.
GiveUp(s) ==
  IF sess[s].task = "setup" THEN sess' = [sess EXCEPT ![s] = NoSession]
                            ELSE NGoto(s, "idle")

-----------------------------------------------------------------------------
(* Entering the container: session.Setup and setupAllowlist *)

\* A created or restarted container has a boot block and, until PurgeRules,
\* nothing of it is reachable anyway: whatever the kernel holds for its new
\* address is left out.
Boot(s) ==
  /\ \A t \in Sessions : ~Active(t)
  /\ inst' = "running"
  /\ open' = FALSE
  /\ sets' = FALSE
  /\ addrs' = {}
  /\ tuples' = {}
  /\ NGoto(s, "purge")
  /\ Empties(s)
  /\ writer' = {}
  /\ UNCHANGED saved

Create(s) ==
  /\ "create" \in Ways
  /\ inst = "absent" \/ (inst = "stopped" /\ ~Persistent)
  /\ Boot(s)
  /\ file' = NoAnswers

Restart(s) ==
  /\ "restart" \in Ways
  /\ inst = "stopped" /\ Persistent
  /\ Boot(s)
  /\ UNCHANGED file

\* No boot block: the container keeps running behind its rules, whatever
\* other processes are doing to it.
Reenter(s) ==
  /\ "reenter" \in Ways
  /\ ~Active(s)
  /\ inst = "running"
  /\ NGoto(s, "purge")
  /\ UNCHANGED <<inst, open, sets, addrs, tuples, file, saved, histories>>

\* purgeStaleRulesForIP: rules, then sets.
PurgeRules(s) ==
  /\ sess[s].pc = "purge"
  /\ sets' = FALSE
  /\ addrs' = {}
  /\ tuples' = {}
  /\ NGoto(s, "rules")
  /\ Empties(s)
  /\ UNCHANGED <<inst, open, file, saved, writer>>

\* ApplyAllowlist, with an NftManager that has seen nothing.
ApplyAllowlist(s) ==
  /\ sess[s].pc = "rules"
  /\ sets' = TRUE
  /\ NGoto(s, "load")
  /\ UNCHANGED <<inst, open, addrs, tuples, file, saved, histories>>

ApplyAllowlistFails(s) ==
  /\ sess[s].pc = "rules"
  /\ "nft" \in Faults
  /\ GiveUp(s)
  /\ UNCHANGED <<inst, open, sets, addrs, tuples, file, saved, histories>>

\* CacheManager.Load; an unreadable file counts as an empty one.
LoadCache(s) ==
  /\ sess[s].pc = "load"
  /\ \E cache \in {saved} \cup (IF "load" \in Faults THEN {NoAnswers} ELSE {}) :
       sess' = [sess EXCEPT ![s].pc = "resolve", ![s].cache = cache]
  /\ UNCHANGED <<inst, open, sets, addrs, tuples, file, saved, histories>>

-----------------------------------------------------------------------------
(* Resolving and syncing: installNames and refreshAllowedIPs *)

\* Mutant: a name that fails to resolve is left out, whatever the cache has.
ResolveWithoutCache(s) ==
  /\ sess[s].pc = "resolve"
  /\ \E found \in Answers :
       IF found = NoAnswers
         THEN GiveUp(s)
         ELSE sess' = [sess EXCEPT ![s].pc = "addrs", ![s].found = found,
                                   ![s].todo = {d \in Names : found[d] # {}}]
  /\ UNCHANGED <<inst, open, sets, addrs, tuples, file, saved, histories>>

\* ResolveAll: a name that fails (answer {}) keeps its cached addresses.
ResolveAll(s) ==
  /\ sess[s].pc = "resolve"
  /\ \E answer \in Answers :
       LET found == [d \in Names |-> IF answer[d] # {} THEN answer[d]
                                                       ELSE sess[s].cache[d]]
       IN  IF found = NoAnswers
             THEN GiveUp(s)
             ELSE sess' = [sess EXCEPT ![s].pc = "addrs", ![s].found = found,
                                       ![s].todo = {d \in Names : found[d] # {}}]
  /\ UNCHANGED <<inst, open, sets, addrs, tuples, file, saved, histories>>

\* The elements of a name that the process has not installed yet.
StaleAddrs(s, d) == sess[s].found[d] \ sess[s].seen
StalePairs(s, d) == PairsOf(sess[s].found[d], d) \ sess[s].seenPairs

\* syncResolved takes the names in any order (a Go map).  An element already
\* seen costs no nft command; the others are recorded when nft has them.
AllowAddrs(s, d) ==
  /\ sess[s].pc = "addrs"
  /\ d \in sess[s].todo
  /\ StaleAddrs(s, d) = {} \/ sets
  /\ addrs' = addrs \cup StaleAddrs(s, d)
  /\ sess' = [sess EXCEPT ![s].pc = "pairs", ![s].name = {d},
                          ![s].seen = @ \cup StaleAddrs(s, d)]
  /\ UNCHANGED <<inst, open, sets, tuples, file, saved, histories>>

AllowPairs(s, d) ==
  /\ sess[s].pc = "pairs"
  /\ sess[s].name = {d}
  /\ StalePairs(s, d) = {} \/ sets
  /\ tuples' = tuples \cup StalePairs(s, d)
  /\ sess' = [sess EXCEPT ![s].pc = IF sess[s].todo = {d} THEN "hosts" ELSE "addrs",
                          ![s].todo = @ \ {d}, ![s].name = {},
                          ![s].seenPairs = @ \cup StalePairs(s, d)]
  /\ UNCHANGED <<inst, open, sets, addrs, file, saved, histories>>

\* Mutant: the elements are recorded although nft did not take them.
AllowFailsRecorded(s, d) ==
  /\ \/ sess[s].pc = "addrs" /\ d \in sess[s].todo /\ StaleAddrs(s, d) # {}
     \/ sess[s].pc = "pairs" /\ sess[s].name = {d} /\ StalePairs(s, d) # {}
  /\ ~sets \/ "nft" \in Faults
  /\ IF sess[s].task = "setup"
       THEN sess' = [sess EXCEPT ![s] = NoSession]
       ELSE sess' = [sess EXCEPT ![s].pc = "idle",
                       ![s].seen = @ \cup sess[s].found[d],
                       ![s].seenPairs = @ \cup PairsOf(sess[s].found[d], d)]
  /\ UNCHANGED <<inst, open, sets, addrs, tuples, file, saved, histories>>

\* nft refuses the elements, or the set is gone.
AllowFails(s, d) ==
  /\ \/ sess[s].pc = "addrs" /\ d \in sess[s].todo /\ StaleAddrs(s, d) # {}
     \/ sess[s].pc = "pairs" /\ sess[s].name = {d} /\ StalePairs(s, d) # {}
  /\ ~sets \/ "nft" \in Faults
  /\ GiveUp(s)
  /\ UNCHANGED <<inst, open, sets, addrs, tuples, file, saved, histories>>

\* WriteAllowlistHosts replaces the managed block.
WriteHosts(s) ==
  /\ sess[s].pc = "hosts"
  /\ inst = "running"
  /\ file' = sess[s].found
  /\ writer' = {s}
  /\ NGoto(s, "save")
  /\ UNCHANGED <<inst, open, sets, addrs, tuples, saved, emptied, outdated>>

WriteHostsFails(s) ==
  /\ sess[s].pc = "hosts"
  /\ inst # "running" \/ "hosts" \in Faults
  /\ GiveUp(s)
  /\ UNCHANGED <<inst, open, sets, addrs, tuples, file, saved, histories>>

\* UpdateCache replaces what the process remembers; a failing Save is only
\* reported.
SaveCache(s) ==
  /\ sess[s].pc = "save"
  /\ sess' = [sess EXCEPT ![s].cache = sess[s].found,
                          ![s].pc = IF sess[s].task = "setup" THEN "lift" ELSE "idle"]
  /\ saved' \in {sess[s].found} \cup (IF "save" \in Faults THEN {saved} ELSE {})
  /\ UNCHANGED <<inst, open, sets, addrs, tuples, file, histories>>

-----------------------------------------------------------------------------
(* The session *)

\* removeBootBlock; the refresher has been started.
LiftBootBlock(s) ==
  /\ sess[s].pc = "lift"
  /\ open' = (inst = "running")
  /\ sess' = [sess EXCEPT ![s].pc = "idle", ![s].task = "refresh"]
  /\ emptied' = (emptied /\ s \in outdated)
  /\ UNCHANGED <<inst, sets, addrs, tuples, file, saved, outdated, writer>>

\* The refresher's timer.
Refresh(s) ==
  /\ sess[s].pc = "idle"
  /\ NGoto(s, "resolve")
  /\ UNCHANGED <<inst, open, sets, addrs, tuples, file, saved, histories>>

\* The session ends, wherever its refresher is.  A container that runs, or is
\* persistent, is kept with its rules; the other is torn down and deleted.
Cleanup(s) ==
  /\ Active(s)
  /\ sess[s].task = "refresh"
  /\ sess' = [sess EXCEPT ![s] = NoSession]
  /\ IF inst = "stopped" /\ ~Persistent
       THEN /\ inst' = "absent"
            /\ sets' = FALSE
            /\ addrs' = {}
            /\ tuples' = {}
            /\ file' = NoAnswers
            /\ Empties(s) /\ writer' = {}
       ELSE UNCHANGED <<inst, sets, addrs, tuples, file, histories>>
  /\ UNCHANGED <<open, saved>>

\* The coi process is killed.
Crash(s) ==
  /\ "crash" \in Faults
  /\ Active(s)
  /\ sess' = [sess EXCEPT ![s] = NoSession]
  /\ UNCHANGED <<inst, open, sets, addrs, tuples, file, saved, histories>>

NPowerOff ==
  /\ inst = "running"
  /\ inst' = "stopped"
  /\ open' = FALSE
  /\ UNCHANGED <<sets, addrs, tuples, file, saved, sess, histories>>

-----------------------------------------------------------------------------
SetupStep(s) ==
  \/ Create(s) \/ Restart(s) \/ Reenter(s)
  \/ PurgeRules(s) \/ ApplyAllowlist(s) \/ ApplyAllowlistFails(s)
  \/ LoadCache(s) \/ LiftBootBlock(s)

SyncStep(s) ==
  \/ Refresh(s) \/ ResolveAll(s)
  \/ \E d \in Names : AllowAddrs(s, d) \/ AllowPairs(s, d) \/ AllowFails(s, d)
  \/ WriteHosts(s) \/ WriteHostsFails(s) \/ SaveCache(s)

NNext ==
  \/ \E s \in Sessions : SetupStep(s) \/ SyncStep(s) \/ Cleanup(s) \/ Crash(s)
  \/ NPowerOff

NSpec == NInit /\ [][NNext]_nvars

-----------------------------------------------------------------------------
(* Properties *)

Labels == {"none", "purge", "rules", "load", "resolve", "addrs", "pairs",
           "hosts", "save", "lift", "idle"}

SessionType ==
  [pc : Labels, task : {"setup", "refresh"}, cache : Answers,
   seen : SUBSET Addrs, seenPairs : SUBSET Pairs, found : Answers,
   todo : SUBSET Names, name : SUBSET Names]

\* Every variable keeps its type, and sets that do not exist have no elements.
NTypeOK ==
  /\ inst \in {"absent", "stopped", "running"}
  /\ open \in BOOLEAN /\ sets \in BOOLEAN /\ emptied \in BOOLEAN
  /\ outdated \subseteq Sessions /\ writer \subseteq Sessions
  /\ addrs \subseteq Addrs /\ tuples \subseteq Pairs
  /\ file \in Answers /\ saved \in Answers
  /\ sess \in [Sessions -> SessionType]
  /\ ~sets => addrs = {} /\ tuples = {}

\* "The firewall and the hosts file are updated together, so they can never
\* disagree" (manager.go:359): whatever processes manage a container that is not
\* boot-blocked, every address its /etc/hosts gives for a name is one the
\* firewall lets it reach, for ping and on the name's port, also after they are
\* gone.  Not from a purge until the setup that made it is done; nor when the
\* block was written by a process that another's purge had found at work, whose
\* record of what it installed (NftManager.dynSeen) is no longer true.
Lockstep ==
  inst = "running" /\ open /\ ~emptied /\ writer \cap outdated = {} =>
    \A d \in Names : file[d] \subseteq addrs /\ PairsOf(file[d], d) \subseteq tuples

\* A refresh never takes a name away that the container could resolve: a name
\* whose lookup fails keeps the addresses it had, unless another process wrote
\* the block in between (manager.go: refreshAllowedIPs).
NamesKept ==
  [][\A s \in Sessions, d \in Names :
       WriteHosts(s) /\ sess[s].task = "refresh" /\ writer = {s} /\ file[d] # {}
         => file'[d] # {}]_nvars

=============================================================================
