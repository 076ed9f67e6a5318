---------------------------- MODULE FirewallProofs ----------------------------
(***************************************************************************)
(* The policy of a container is exact for every number of containers and   *)
(* addresses, whatever fails and whichever commands run beside it; a boot  *)
(* window of coi run is closed, and nothing of it is left in the tables.   *)
(***************************************************************************)
EXTENDS Firewall, PickingProofs

AllModes == {"open", "restricted", "allowlist"}
IPKeys == {IPKey(a) : a \in IPs}
BootKeys == {BootKey(c) : c \in Containers}
AllKeys == IPKeys \cup BootKeys
Rules == [key : AllKeys, veth : Nat, ok : Verdicts, bad : Verdicts]

Jobs == [pc : SessionStates, mode : AllModes, ip : IPs \cup {NoIP}]
Kills == [pc : {"none", "stop", "unrule", "unblock6", "delete"}, ip : IPs \cup {NoIP}]
Scans == [pc : {"idle", "listed", "detected"}, keys : SUBSET AllKeys,
          names : SUBSET Containers]
Guards == [state : {"none", "booting", "blocked", "reused", "policy", "unruled", "released"},
           mode : AllModes]

\* Types, for the steps of the proof.
Typed ==
  /\ world \in Worlds
  /\ inst \in [Containers -> {"absent", "stopped", "running"}]
  /\ starts \in Nat
  /\ veth \in [Containers -> Nat]
  /\ ip \in [Containers -> IPs \cup {NoIP}]
  /\ chain \in Seq(Rules)
  /\ ip6 \subseteq Containers \X Nat
  /\ sess \in [Containers -> Jobs]
  /\ kill \in [Containers -> Kills]
  /\ clean \subseteq Containers
  /\ orphans \in Scans
  /\ guard \in [Containers -> Guards]
  /\ late \in [Containers -> SUBSET Actors]
  /\ crossed \subseteq Containers

\* Interfaces: a running container has one of its own, never used before.
Interfaces ==
  /\ \A c \in Containers : veth[c] # 0 <=> inst[c] = "running"
  /\ \A c \in Containers : veth[c] <= starts
  /\ \A c, d \in Containers : c # d /\ veth[c] # 0 => veth[c] # veth[d]

\* Addresses: nobody has the address that another one has, and a process that
\* remembers it, or has condemned it, has done so since before the lease.
Leases ==
  /\ \A c \in Containers : ip[c] # NoIP => inst[c] = "running"
  /\ \A c, d \in Containers : c # d /\ ip[c] # NoIP => ip[c] # ip[d]
  /\ \A c, d \in Containers : c # d /\ sess[c].ip # NoIP /\ ip[d] = sess[c].ip =>
       <<"session", c>> \in late[d]
  /\ \A c \in Containers : sess[c].ip # NoIP /\ inst[c] = "running" => ip[c] = sess[c].ip
  /\ \A c, d \in Containers :
       kill[c].ip # NoIP /\ ip[d] = kill[c].ip /\ (c # d \/ kill[c].pc # "stop") =>
         <<"kill", c>> \in late[d]
  /\ orphans.pc = "detected" =>
       \A c \in Containers : ip[c] # NoIP /\ IPKey(ip[c]) \in orphans.keys => Sweep \in late[c]

\* Boot blocks: one that drops the packets of a running container has its name.
Blocks ==
  \A i \in DOMAIN chain, c \in Containers : chain[i].key = BootKey(c) =>
    /\ chain[i].veth # 0 /\ chain[i].veth <= starts
    /\ \A d \in Containers : veth[d] = chain[i].veth => d = c

Setup == {"address", "ip6", "purge", "apply", "hosts", "lift"}

\* What is reported of a container goes with what its session does.
Stages ==
  \A c \in Containers :
    /\ sess[c].pc = "boot" => guard[c].state \in {"none", "booting"}
    /\ sess[c].pc \in Setup => guard[c].state # "policy"
    /\ sess[c].pc \in {"none", "boot", "address"} => sess[c].ip = NoIP
    /\ sess[c].pc \in {"ip6", "purge", "apply"} => sess[c].ip # NoIP
    /\ guard[c].state # "none" => inst[c] = "running"
    /\ guard[c].state = "policy" => ip[c] # NoIP

\* The rules of an address, those of others aside, give every packet the
\* verdict the mode promises.
Serves(rules, a, mode) ==
  \A p \in Packets :
    \/ \E i \in DOMAIN rules :
         /\ rules[i].key = IPKey(a) /\ rules[i][p] = Promised(mode, p)
         /\ \A j \in 1..(i - 1) : rules[j].key = IPKey(a) => rules[j][p] = "next"
    \/ /\ Promised(mode, p) = "accept"
       /\ \A i \in DOMAIN rules : rules[i].key = IPKey(a) => rules[i][p] = "next"

Policies ==
  \A c \in Containers :
    /\ guard[c].state = "policy" =>
         /\ c \notin crossed => Serves(chain, ip[c], guard[c].mode)
         /\ \A i \in DOMAIN chain : chain[i].key # BootKey(c) \/ chain[i].veth # veth[c]
    /\ sess[c].pc = "apply" /\ ip[c] = sess[c].ip /\ c \notin crossed =>
         \A i \in DOMAIN chain : chain[i].key # IPKey(sess[c].ip)
    /\ sess[c].pc \in {"hosts", "lift"} /\ sess[c].ip # NoIP /\ ip[c] = sess[c].ip
         /\ c \notin crossed =>
         Serves(chain, sess[c].ip, sess[c].mode)

\* The history is spelled out in every step.
USE DEF history

IInv == Typed /\ Interfaces /\ Leases /\ Blocks /\ Stages /\ Policies

-----------------------------------------------------------------------------
(* The chain *)

\* What a world may configure.
LEMMA WorldFacts ==
  ASSUME world \in Worlds
  PROVE Modes \subseteq AllModes /\ Pool \subseteq IPs
<1>1. world.modes \subseteq {"open", "restricted", "allowlist"} /\ world.pool \subseteq IPs
  BY FirewallAssumption
<1> QED BY <1>1 DEF Modes, Pool, AllModes

\* Comments of nft rules: coi-<ip> and coi-boot-<name> never coincide, and each tells
\* one address or one name.
LEMMA KeysApart ==
  /\ \A a, c : IPKey(a) # BootKey(c)
  /\ \A a, b : IPKey(a) = IPKey(b) => a = b
  /\ \A c, d : BootKey(c) = BootKey(d) => c = d
<1>1. "ip" # "boot"
  OBVIOUS
<1> QED BY <1>1 DEF IPKey, BootKey

\* A deletion leaves the rules of the other keys, in their order.
LEMMA DeleteKeeps ==
  ASSUME chain \in Seq(Rules), NEW key
  PROVE /\ DeleteRules(key) \in Seq(Rules)
        /\ \A n \in DOMAIN DeleteRules(key) :
             /\ DeleteRules(key)[n].key # key
             /\ \E i \in DOMAIN chain : DeleteRules(key)[n] = chain[i]
<1> DEFINE P == {i \in DOMAIN chain : chain[i].key # key}
<1>1. P \in SUBSET DOMAIN chain
  OBVIOUS
<1>2. /\ Pick(chain, P) \in Seq(Rules)
      /\ \A n \in DOMAIN Pick(chain, P) : \E i \in P : Pick(chain, P)[n] = chain[i]
  <2> HIDE DEF P
  <2> QED BY <1>1, PickHolds
<1>3. DeleteRules(key) = Pick(chain, P)
  BY DEF DeleteRules
<1> HIDE DEF P
<1> QED BY <1>2, <1>3 DEF P

\* So the rules that serve another address go on serving it.
LEMMA DeleteServes ==
  ASSUME chain \in Seq(Rules), NEW key, NEW a, NEW mode, key # IPKey(a),
         Serves(chain, a, mode)
  PROVE Serves(DeleteRules(key), a, mode)
<1> DEFINE P == {i \in DOMAIN chain : chain[i].key # key}
           C == Cardinality(P)
           new == DeleteRules(key)
<1>1. P \in SUBSET DOMAIN chain
  OBVIOUS
<1>2. new = Pick(chain, P)
  BY DEF DeleteRules
<1>3. /\ C \in Nat
      /\ \E f \in [1..C -> P] :
             /\ \A n, m \in 1..C : n < m => f[n] < f[m]
             /\ \A i \in P : \E n \in 1..C : f[n] = i
             /\ Pick(chain, P) = [n \in 1..C |-> chain[f[n]]]
  <2> HIDE DEF P
  <2> QED BY <1>1, PickOrder
<1>4. PICK f \in [1..C -> P] :
             /\ \A n, m \in 1..C : n < m => f[n] < f[m]
             /\ \A i \in P : \E n \in 1..C : f[n] = i
             /\ new = [n \in 1..C |-> chain[f[n]]]
  BY <1>2, <1>3
<1> HIDE DEF new, C
<1>5. DOMAIN new = 1..C /\ \A n \in 1..C : f[n] \in P /\ new[n] = chain[f[n]]
  BY <1>4
<1>6. ASSUME NEW p \in Packets
      PROVE \/ \E i \in DOMAIN new :
                 /\ new[i].key = IPKey(a) /\ new[i][p] = Promised(mode, p)
                 /\ \A j \in 1..(i - 1) : new[j].key = IPKey(a) => new[j][p] = "next"
            \/ /\ Promised(mode, p) = "accept"
               /\ \A i \in DOMAIN new : new[i].key = IPKey(a) => new[i][p] = "next"
  <2>1. CASE \E i \in DOMAIN chain :
               /\ chain[i].key = IPKey(a) /\ chain[i][p] = Promised(mode, p)
               /\ \A j \in 1..(i - 1) : chain[j].key = IPKey(a) => chain[j][p] = "next"
    <3>1. PICK i \in DOMAIN chain :
               /\ chain[i].key = IPKey(a) /\ chain[i][p] = Promised(mode, p)
               /\ \A j \in 1..(i - 1) : chain[j].key = IPKey(a) => chain[j][p] = "next"
      BY <2>1
    <3>2. i \in P
      BY <3>1
    <3>3. PICK n \in 1..C : f[n] = i
      BY <1>4, <3>2
    <3>4. ASSUME NEW j \in 1..(n - 1) PROVE new[j].key = IPKey(a) => new[j][p] = "next"
      <4>1. j \in 1..C /\ n \in 1..C /\ j < n
        BY <1>3, <3>3 DEF C
      <4>2. f[j] < i /\ f[j] \in P
        BY <1>4, <1>5, <3>3, <4>1
      <4>3. f[j] \in 1..(i - 1)
        BY <1>1, <4>2
      <4> HIDE DEF P
      <4> QED BY <1>5, <3>1, <4>1, <4>3
    <3> HIDE DEF P
    <3>5. new[n].key = IPKey(a) /\ new[n][p] = Promised(mode, p)
      BY <1>5, <3>1, <3>3
    <3> QED BY <1>5, <3>3, <3>4, <3>5
  <2>2. CASE /\ Promised(mode, p) = "accept"
             /\ \A i \in DOMAIN chain : chain[i].key = IPKey(a) => chain[i][p] = "next"
    <3>1. \A n \in DOMAIN new : f[n] \in DOMAIN chain /\ new[n] = chain[f[n]]
      BY <1>5
    <3> HIDE DEF P
    <3> QED BY <2>2, <3>1
  <2> QED BY <2>1, <2>2 DEF Serves
<1> QED BY <1>6 DEF Serves, new

\* Rules of another key, appended, change nothing.
LEMMA AppendServes ==
  ASSUME chain \in Seq(Rules), NEW rules \in Seq(Rules), NEW a, NEW mode,
         \A i \in DOMAIN rules : rules[i].key # IPKey(a), Serves(chain, a, mode)
  PROVE Serves(chain \o rules, a, mode)
<1> DEFINE new == chain \o rules
           N == Len(chain)
           M == Len(rules)
<1>1. /\ N \in Nat /\ M \in Nat /\ DOMAIN chain = 1..N /\ DOMAIN new = 1..(N + M)
      /\ DOMAIN rules = 1..M
      /\ \A i \in 1..(N + M) : new[i] = IF i <= N THEN chain[i] ELSE rules[i - N]
  OBVIOUS
<1> HIDE DEF new, N, M
<1>2. \A i \in 1..N : i \in 1..(N + M) /\ new[i] = chain[i]
  BY <1>1
<1>3. \A i \in 1..(N + M) : i \notin 1..N => new[i].key # IPKey(a)
  <2>1. \A i \in 1..(N + M) : i \notin 1..N => i - N \in 1..M /\ new[i] = rules[i - N]
    BY <1>1
  <2> QED BY <1>1, <2>1
<1>4. ASSUME NEW p \in Packets
      PROVE \/ \E i \in DOMAIN new :
                 /\ new[i].key = IPKey(a) /\ new[i][p] = Promised(mode, p)
                 /\ \A j \in 1..(i - 1) : new[j].key = IPKey(a) => new[j][p] = "next"
            \/ /\ Promised(mode, p) = "accept"
               /\ \A i \in DOMAIN new : new[i].key = IPKey(a) => new[i][p] = "next"
  <2>1. CASE \E i \in DOMAIN chain :
               /\ chain[i].key = IPKey(a) /\ chain[i][p] = Promised(mode, p)
               /\ \A j \in 1..(i - 1) : chain[j].key = IPKey(a) => chain[j][p] = "next"
    <3>1. PICK i \in 1..N :
               /\ chain[i].key = IPKey(a) /\ chain[i][p] = Promised(mode, p)
               /\ \A j \in 1..(i - 1) : chain[j].key = IPKey(a) => chain[j][p] = "next"
      BY <1>1, <2>1
    <3>2. \A j \in 1..(i - 1) : j \in 1..N
      BY <1>1
    <3> QED BY <1>1, <1>2, <3>1, <3>2
  <2>2. CASE /\ Promised(mode, p) = "accept"
             /\ \A i \in DOMAIN chain : chain[i].key = IPKey(a) => chain[i][p] = "next"
    BY <1>1, <1>2, <1>3, <2>2
  <2> QED BY <2>1, <2>2 DEF Serves
<1> QED BY <1>4 DEF Serves, new

\* Whatever rules an address has, those of a mode are rules of this address.
LEMMA PolicyTyped ==
  ASSUME NEW a \in IPs, NEW mode \in AllModes
  PROVE /\ PolicyRules(a, mode) \in Seq(Rules)
        /\ \A i \in DOMAIN PolicyRules(a, mode) : PolicyRules(a, mode)[i].key = IPKey(a)
<1> DEFINE rules == PolicyRules(a, mode)
<1>0. ASSUME NEW ok \in Verdicts, NEW bad \in Verdicts
      PROVE Rule(IPKey(a), 0, ok, bad) \in Rules
  BY DEF Rule, Rules, AllKeys, IPKeys
<1>1. /\ rules \in Seq(Rules)
      /\ \A i \in DOMAIN rules : rules[i].key = IPKey(a)
  <2>1. {"accept", "drop", "next"} = Verdicts
    BY DEF Verdicts
  <2>2. \A ok, bad : Rule(IPKey(a), 0, ok, bad).key = IPKey(a)
    BY DEF Rule
  <2>3. CASE mode = "open"
    <3>1. rules = <<Rule(IPKey(a), 0, "accept", "accept")>>
      BY <2>3 DEF PolicyRules
    <3> QED BY <1>0, <2>1, <2>2, <3>1
  <2>4. CASE mode = "restricted"
    <3> DEFINE r == Rule(IPKey(a), 0, "next", "drop")
               q == Rule(IPKey(a), 0, "accept", "accept")
    <3>1. rules = <<r, q>>
      BY <2>4 DEF PolicyRules
    <3>2. r \in Rules /\ q \in Rules /\ r.key = IPKey(a) /\ q.key = IPKey(a)
      BY <1>0, <2>1, <2>2
    <3> HIDE DEF r, q, rules
    <3> QED BY <3>1, <3>2
  <2>5. CASE mode = "allowlist"
    <3> DEFINE r == Rule(IPKey(a), 0, "accept", "next")
               q == Rule(IPKey(a), 0, "drop", "drop")
    <3>1. rules = <<r, q>>
      BY <2>5 DEF PolicyRules
    <3>2. r \in Rules /\ q \in Rules /\ r.key = IPKey(a) /\ q.key = IPKey(a)
      BY <1>0, <2>1, <2>2
    <3> HIDE DEF r, q, rules
    <3> QED BY <3>1, <3>2
  <2> QED BY <2>3, <2>4, <2>5 DEF AllModes
<1> QED BY <1>1

\* The rules of a mode serve an address that has no others.
LEMMA PolicyServes ==
  ASSUME chain \in Seq(Rules), NEW a \in IPs, NEW mode \in AllModes,
         \A i \in DOMAIN chain : chain[i].key # IPKey(a)
  PROVE /\ PolicyRules(a, mode) \in Seq(Rules)
        /\ \A i \in DOMAIN PolicyRules(a, mode) : PolicyRules(a, mode)[i].key = IPKey(a)
        /\ Serves(chain \o PolicyRules(a, mode), a, mode)
<1> DEFINE rules == PolicyRules(a, mode)
           new == chain \o rules
           N == Len(chain)
           M == Len(rules)
<1>1. /\ rules \in Seq(Rules)
      /\ \A i \in DOMAIN rules : rules[i].key = IPKey(a)
  BY PolicyTyped
<1>2. mode = "open" => M = 1 /\ rules[1].ok = "accept" /\ rules[1].bad = "accept"
  BY DEF PolicyRules, Rule
<1>3. mode = "restricted" => /\ M = 2 /\ rules[1].ok = "next" /\ rules[1].bad = "drop"
                             /\ rules[2].ok = "accept"
  BY DEF PolicyRules, Rule
<1>4. mode = "allowlist" => /\ M = 2 /\ rules[1].ok = "accept" /\ rules[1].bad = "next"
                            /\ rules[2].bad = "drop"
  BY DEF PolicyRules, Rule
<1> HIDE DEF rules
<1>5. /\ N \in Nat /\ M \in Nat /\ DOMAIN chain = 1..N /\ DOMAIN new = 1..(N + M)
      /\ DOMAIN rules = 1..M
      /\ \A i \in 1..N : new[i] = chain[i]
      /\ \A i \in 1..M : new[N + i] = rules[i]
  BY <1>1
<1> HIDE DEF new, N, M
<1>6. \A j \in 1..N : new[j].key # IPKey(a)
  BY <1>5
<1>7. ASSUME NEW p \in Packets, NEW n \in 1..M, rules[n][p] = Promised(mode, p),
             n = 2 => rules[1][p] = "next", n \in 1..2
      PROVE \E i \in DOMAIN new :
              /\ new[i].key = IPKey(a) /\ new[i][p] = Promised(mode, p)
              /\ \A j \in 1..(i - 1) : new[j].key = IPKey(a) => new[j][p] = "next"
  <2>1. N + n \in DOMAIN new /\ new[N + n] = rules[n] /\ rules[n].key = IPKey(a)
    <3>1. rules[n].key = IPKey(a)
      BY <1>1, <1>5
    <3>2. new[N + n] = rules[n]
      BY <1>5
    <3>3. N + n \in DOMAIN new
      BY <1>5
    <3> QED BY <3>1, <3>2, <3>3
  <2>2. ASSUME NEW j \in 1..((N + n) - 1)
        PROVE new[j].key = IPKey(a) => new[j][p] = "next"
    <3> SUFFICES ASSUME new[j].key = IPKey(a) PROVE new[j][p] = "next"
      OBVIOUS
    <3>1. j \notin 1..N
      BY <1>6
    <3>2. j = N + 1 /\ n = 2
      BY <1>5, <1>7, <3>1
    <3> QED BY <1>5, <1>7, <3>2
  <2>3. new[N + n].key = IPKey(a) /\ new[N + n][p] = Promised(mode, p)
    BY <1>7, <2>1
  <2>4. \A j \in 1..((N + n) - 1) : new[j].key = IPKey(a) => new[j][p] = "next"
    BY <2>2
  <2> DEFINE i == N + n
  <2>5. i \in DOMAIN new
    BY <2>1
  <2>6. /\ new[i].key = IPKey(a) /\ new[i][p] = Promised(mode, p)
        /\ \A j \in 1..(i - 1) : new[j].key = IPKey(a) => new[j][p] = "next"
    BY <2>3, <2>4
  <2> HIDE DEF i
  <2> QED BY <2>5, <2>6
<1>8. ASSUME NEW p \in Packets
      PROVE \E n \in 1..M : /\ rules[n][p] = Promised(mode, p) /\ n \in 1..2
                            /\ n = 2 => rules[1][p] = "next"
  <2>1. CASE mode = "open"
    BY <1>2, <2>1 DEF Packets, Promised
  <2>2. CASE mode = "restricted"
    BY <1>3, <2>2 DEF Packets, Promised
  <2>3. CASE mode = "allowlist"
    BY <1>4, <2>3 DEF Packets, Promised
  <2> QED BY <2>1, <2>2, <2>3 DEF AllModes
<1>9. Serves(new, a, mode)
  BY <1>7, <1>8 DEF Serves
<1> QED BY <1>1, <1>9 DEF new, rules

\* What the steps that change the chain do to it.
LEMMA Deleted ==
  ASSUME Typed, NEW key, chain' = DeleteRules(key)
  PROVE /\ chain' \in Seq(Rules)
        /\ \A n \in DOMAIN chain' :
             chain'[n].key # key /\ \E i \in DOMAIN chain : chain'[n] = chain[i]
        /\ \A a \in IPs, mode \in AllModes :
             key # IPKey(a) /\ Serves(chain, a, mode) => Serves(chain', a, mode)
  BY DeleteKeeps, DeleteServes DEF Typed

\* Rules appended: the old ones first, and other addresses served as before.
LEMMA Appended ==
  ASSUME Typed, NEW rules \in Seq(Rules), chain' = chain \o rules
  PROVE /\ chain' \in Seq(Rules)
        /\ \A n \in DOMAIN chain' : \/ \E i \in DOMAIN chain : chain'[n] = chain[i]
                                    \/ \E i \in DOMAIN rules : chain'[n] = rules[i]
        /\ \A a \in IPs, mode \in AllModes :
             (\A i \in DOMAIN rules : rules[i].key # IPKey(a)) /\ Serves(chain, a, mode)
               => Serves(chain', a, mode)
<1>1. chain \in Seq(Rules)
  BY DEF Typed
<1>2. chain' \in Seq(Rules)
  BY <1>1
<1>3. ASSUME NEW n \in DOMAIN chain'
      PROVE \/ \E i \in DOMAIN chain : chain'[n] = chain[i]
            \/ \E i \in DOMAIN rules : chain'[n] = rules[i]
  <2>1. CASE n <= Len(chain)
    BY <1>1, <2>1
  <2>2. CASE ~(n <= Len(chain))
    <3>1. n - Len(chain) \in DOMAIN rules /\ chain'[n] = rules[n - Len(chain)]
      BY <1>1, <2>2
    <3> QED BY <3>1
  <2> QED BY <2>1, <2>2
<1> QED BY <1>1, <1>2, <1>3, AppendServes

\* The boot block, appended unless the name has one.
LEMMA Blocked ==
  ASSUME IInv, NEW c \in Containers, ApplyBootBlockRule(c)
  PROVE /\ chain' \in Seq(Rules)
        /\ \A n \in DOMAIN chain' :
             \/ \E i \in DOMAIN chain : chain'[n] = chain[i]
             \/ chain'[n].key = BootKey(c) /\ chain'[n].veth = veth[c]
        /\ \A a \in IPs, mode \in AllModes :
             Serves(chain, a, mode) => Serves(chain', a, mode)
<1> DEFINE r == Rule(BootKey(c), veth[c], "drop", "drop")
<1>1. chain \in Seq(Rules)
  BY DEF IInv, Typed
<1>2. CASE BootKey(c) \in Keys
  <2>1. chain' = chain
    BY <1>2 DEF ApplyBootBlockRule
  <2> QED BY <1>1, <2>1
<1>3. CASE BootKey(c) \notin Keys
  <2>1. r \in Rules /\ r.key = BootKey(c) /\ r.veth = veth[c]
    BY DEF IInv, Typed, Rule, Rules, AllKeys, BootKeys, Verdicts
  <2>2. chain' = Append(chain, r)
    BY <1>3 DEF ApplyBootBlockRule
  <2> HIDE DEF r
  <2>3. <<r>> \in Seq(Rules) /\ chain' = chain \o <<r>> /\ \A i \in DOMAIN <<r>> : <<r>>[i] = r
    BY <1>1, <2>1, <2>2
  <2>4. /\ chain' \in Seq(Rules)
        /\ \A n \in DOMAIN chain' : \/ \E i \in DOMAIN chain : chain'[n] = chain[i]
                                    \/ \E i \in DOMAIN <<r>> : chain'[n] = <<r>>[i]
        /\ \A a \in IPs, mode \in AllModes :
             (\A i \in DOMAIN <<r>> : <<r>>[i].key # IPKey(a)) /\ Serves(chain, a, mode)
               => Serves(chain', a, mode)
    BY <2>3, Appended DEF IInv
  <2>5. \A a : r.key # IPKey(a)
    BY <2>1, KeysApart
  <2> QED BY <2>1, <2>3, <2>4, <2>5
<1> QED BY <1>2, <1>3

-----------------------------------------------------------------------------
(* Steps that only move a session on *)

\* A session that goes on, or forgets everything, without touching the chain:
\* it may enter a stage whose conditions it meets already.
LEMMA SessionMoves ==
  ASSUME IInv, NEW c \in Containers, NEW job \in Jobs,
         sess' = [sess EXCEPT ![c] = job], ip6' \subseteq Containers \X Nat,
         UNCHANGED <<world, inst, veth, starts, ip, chain, kill, clean, orphans, guard, late, crossed>>,
         job.ip = NoIP \/ job.ip = sess[c].ip,
         job.pc \notin {"boot", "apply"},
         job.pc \in Setup => guard[c].state # "policy",
         job.pc \in {"none", "address"} => job.ip = NoIP,
         job.pc \in {"ip6", "purge"} => job.ip # NoIP,
         job.pc \in {"hosts", "lift"} =>
           job.ip = NoIP \/ (sess[c].pc \in {"hosts", "lift"} /\ job = [sess[c] EXCEPT !.pc = job.pc])
  PROVE IInv'
<1> USE DEF IInv
<1>0. /\ sess \in [Containers -> Jobs] /\ sess'[c] = job
      /\ \A d \in Containers : d # c => sess'[d] = sess[d]
  BY DEF Typed
<1>1. Typed'
  BY DEF Typed
<1>2. Interfaces'
  BY DEF Interfaces
<1>3. Leases'
  BY <1>0 DEF Leases
<1>4. Blocks'
  BY DEF Blocks
<1>5. Stages'
  BY <1>0 DEF Stages, Setup
<1>6. job.pc \in {"hosts", "lift"} /\ job.ip # NoIP =>
        sess[c].pc \in {"hosts", "lift"} /\ job.ip = sess[c].ip /\ job.mode = sess[c].mode
  BY <1>0 DEF Jobs
<1>7. Policies'
  BY <1>0, <1>6 DEF Policies
<1> QED BY <1>1, <1>2, <1>3, <1>4, <1>5, <1>7

\* A session that changes its state only.
LEMMA JobsFacts ==
  ASSUME Typed, NEW c \in Containers
  PROVE /\ NoSession \in Jobs
        /\ \A label \in SessionStates : [sess[c] EXCEPT !.pc = label] \in Jobs
        /\ \A label \in SessionStates :
             /\ [sess[c] EXCEPT !.pc = label].pc = label
             /\ [sess[c] EXCEPT !.pc = label].ip = sess[c].ip
             /\ [sess[c] EXCEPT !.pc = label].mode = sess[c].mode
        /\ NoSession.pc = "none" /\ NoSession.ip = NoIP
        /\ sess[c] \in Jobs
  BY DEF Typed, Jobs, NoSession, SessionStates, AllModes

\* The ends of a setup that failed.
LEMMA SetupFailedMoves ==
  ASSUME IInv, NEW c \in Containers, SetupFailed(c), ip6' \subseteq Containers \X Nat,
         UNCHANGED <<world, inst, veth, starts, ip, chain, kill, clean, orphans, guard, late, crossed>>
  PROVE IInv'
<1>1. Typed
  BY DEF IInv
<1>2. CASE Flow = "run"
  <2>1. sess' = [sess EXCEPT ![c] = [sess[c] EXCEPT !.pc = "release"]]
    BY <1>1, <1>2 DEF SetupFailed, SessGoto, Typed
  <2> QED BY <1>1, <2>1, JobsFacts, SessionMoves DEF SessionStates, Setup
<1>3. CASE Flow # "run"
  <2>1. sess' = [sess EXCEPT ![c] = NoSession]
    BY <1>3 DEF SetupFailed
  <2> QED BY <1>1, <2>1, JobsFacts, SessionMoves DEF SessionStates, Setup
<1> QED BY <1>2, <1>3

\* A session that goes on to another state, if it meets the state's conditions.
LEMMA GotoMoves ==
  ASSUME IInv, NEW c \in Containers, NEW label \in SessionStates, SessGoto(c, label),
         ip6' \subseteq Containers \X Nat,
         UNCHANGED <<world, inst, veth, starts, ip, chain, kill, clean, orphans, guard, late, crossed>>,
         label \notin {"boot", "apply"},
         label \in Setup => guard[c].state # "policy",
         label \in {"none", "address"} => sess[c].ip = NoIP,
         label \in {"ip6", "purge"} => sess[c].ip # NoIP,
         label \in {"hosts", "lift"} => sess[c].ip = NoIP \/ sess[c].pc \in {"hosts", "lift"}
  PROVE IInv'
<1>1. Typed
  BY DEF IInv
<1> DEFINE job == [sess[c] EXCEPT !.pc = label]
<1>2. sess' = [sess EXCEPT ![c] = job]
  BY <1>1 DEF SessGoto, Typed
<1>3. job \in Jobs /\ job.pc = label /\ job.ip = sess[c].ip
  BY <1>1, JobsFacts
<1>4. job = [sess[c] EXCEPT !.pc = job.pc]
  BY <1>3
<1> HIDE DEF job
<1> QED BY <1>2, <1>3, <1>4, SessionMoves

\* The IPv6 blocks stay what they are.
LEMMA IP6Typed ==
  ASSUME IInv, NEW c \in Containers
  PROVE /\ ip6 \subseteq Containers \X Nat /\ WithoutName(c) \subseteq Containers \X Nat
        /\ ip6 \cup {<<c, veth[c]>>} \subseteq Containers \X Nat
<1>1. ip6 \subseteq Containers \X Nat /\ veth[c] \in Nat
  BY DEF IInv, Typed
<1> QED BY <1>1 DEF WithoutName

\* The rules of the chain, one by one.
LEMMA RuleTypes ==
  ASSUME Typed
  PROVE \A i \in DOMAIN chain :
          chain[i] \in Rules /\ chain[i].key \in AllKeys /\ chain[i].veth \in Nat
<1>1. \A i \in DOMAIN chain : chain[i] \in Rules
  BY DEF Typed
<1> QED BY <1>1 DEF Rules

\* The steps of a session that touch neither the chain nor the container.
LEMMA QuietStepsKeep ==
  ASSUME IInv, UNCHANGED world, NEW c \in Containers,
         \/ RunOpen(c) \/ NoAddress(c) \/ ApplyIPv6Block(c) \/ IPv6BlockFails(c)
         \/ ApplyUserHosts(c) \/ UserHostsFail(c) \/ EndSession(c) \/ TeardownIPv6(c)
         \/ Crash(c)
  PROVE IInv'
<1>1. Stages /\ Typed
  BY DEF IInv
<1>2. ip6 \subseteq Containers \X Nat
  BY IP6Typed
<1>3. CASE RunOpen(c)
  BY <1>2, <1>3, GotoMoves DEF RunOpen, SessionStates, Setup
<1>4. CASE NoAddress(c)
  <2>1. sess[c].pc = "address" /\ sess[c].ip = NoIP /\ guard[c].state # "policy"
    BY <1>1, <1>4 DEF NoAddress, Stages, Setup
  <2>2. CASE sess[c].mode = "open"
    BY <1>2, <1>4, <2>1, <2>2, GotoMoves DEF NoAddress, SessionStates, Setup
  <2>3. CASE sess[c].mode # "open"
    BY <1>2, <1>4, <2>3, SetupFailedMoves DEF NoAddress
  <2> QED BY <2>2, <2>3
<1>5. CASE ApplyIPv6Block(c)
  <2>1. sess[c].pc = "ip6" /\ sess[c].ip # NoIP /\ guard[c].state # "policy"
    BY <1>1, <1>5 DEF ApplyIPv6Block, Stages, Setup
  <2>2. ip6' \subseteq Containers \X Nat
    BY <1>5, IP6Typed DEF ApplyIPv6Block
  <2> QED BY <1>5, <2>1, <2>2, GotoMoves DEF ApplyIPv6Block, SessionStates, Setup
<1>6. CASE IPv6BlockFails(c)
  BY <1>2, <1>6, SetupFailedMoves DEF IPv6BlockFails
<1>7. CASE ApplyUserHosts(c)
  <2>1. sess[c].pc = "hosts" /\ guard[c].state # "policy"
    BY <1>1, <1>7 DEF ApplyUserHosts, Stages, Setup
  <2> QED BY <1>2, <1>7, <2>1, GotoMoves DEF ApplyUserHosts, SessionStates, Setup
<1>8. CASE UserHostsFail(c)
  BY <1>2, <1>8, SetupFailedMoves DEF UserHostsFail
<1>9. CASE EndSession(c)
  <2>1. CASE sess' = [sess EXCEPT ![c] = NoSession]
    BY <1>1, <1>2, <1>9, <2>1, JobsFacts, SessionMoves DEF EndSession, Setup
  <2>2. CASE SessGoto(c, "release") \/ SessGoto(c, "unrule")
    BY <1>2, <1>9, <2>2, GotoMoves DEF EndSession, SessionStates, Setup
  <2> QED BY <1>9, <2>1, <2>2 DEF EndSession
<1>10. CASE TeardownIPv6(c)
  <2>1. ip6' \subseteq Containers \X Nat
    BY <1>10, IP6Typed DEF TeardownIPv6
  <2> QED BY <1>10, <2>1, GotoMoves DEF TeardownIPv6, SessionStates, Setup
<1>11. CASE Crash(c)
  BY <1>1, <1>2, <1>11, JobsFacts, SessionMoves DEF Crash, Setup
<1> QED BY <1>3, <1>4, <1>5, <1>6, <1>7, <1>8, <1>9, <1>10, <1>11

-----------------------------------------------------------------------------
(* Steps that stop a container, and the other commands *)

\* A container stops; its session and its coi kill may move on in the same
\* step.
LEMMA HaltMoves ==
  ASSUME IInv, NEW c \in Containers, NEW state \in {"absent", "stopped"}, Halt(c, state),
         NEW job \in Jobs, sess' = [sess EXCEPT ![c] = job], job = sess[c] \/ job = NoSession,
         NEW k \in Kills, kill' = [kill EXCEPT ![c] = k], k.ip = NoIP \/ k.ip = kill[c].ip,
         ip6' \subseteq Containers \X Nat, clean' \subseteq Containers,
         UNCHANGED <<world, starts, chain, orphans>>
  PROVE IInv'
<1> USE DEF IInv
<1>0. /\ inst \in [Containers -> {"absent", "stopped", "running"}]
      /\ veth \in [Containers -> Nat] /\ ip \in [Containers -> IPs \cup {NoIP}]
      /\ sess \in [Containers -> Jobs] /\ kill \in [Containers -> Kills]
      /\ guard \in [Containers -> Guards] /\ late \in [Containers -> SUBSET Actors]
  BY DEF Typed
<1>1. /\ NoGuard \in Guards /\ NoGuard.state = "none"
      /\ NoSession \in Jobs /\ NoSession.pc = "none" /\ NoSession.ip = NoIP
  BY JobsFacts DEF NoGuard, Guards, AllModes
<1>2. /\ inst'[c] = state /\ veth'[c] = 0 /\ ip'[c] = NoIP /\ guard'[c] = NoGuard
      /\ sess'[c] = job /\ kill'[c] = k /\ late'[c] = {} /\ crossed' = crossed \ {c}
      /\ \A d \in Containers : d # c =>
           /\ inst'[d] = inst[d] /\ veth'[d] = veth[d] /\ ip'[d] = ip[d]
           /\ guard'[d] = guard[d] /\ sess'[d] = sess[d] /\ kill'[d] = kill[d]
           /\ late'[d] = late[d]
  BY <1>0 DEF Halt
<1>3. Typed'
  BY <1>0, <1>1 DEF Typed, Halt
<1>4. Interfaces'
  <2>1. starts \in Nat /\ starts' = starts /\ 0 <= starts /\ state # "running"
    BY DEF Typed
  <2>2. \A d \in Containers : veth'[d] = 0 \/ veth'[d] = veth[d]
    BY <1>2
  <2>3. \A d \in Containers : veth'[d] <= starts'
    BY <2>1, <2>2 DEF Interfaces
  <2>4. \A d \in Containers : veth'[d] # 0 <=> inst'[d] = "running"
    BY <1>2, <2>1 DEF Interfaces
  <2>5. \A d, e \in Containers : d # e /\ veth'[d] # 0 => veth'[d] # veth'[e]
    BY <1>2 DEF Interfaces
  <2> QED BY <2>3, <2>4, <2>5 DEF Interfaces
<1>5. Leases'
  <2>1. /\ \A d \in Containers : ip'[d] # NoIP =>
             d # c /\ ip'[d] = ip[d] /\ inst'[d] = inst[d] /\ late'[d] = late[d]
        /\ \A d \in Containers :
             /\ sess'[d].ip # NoIP => sess'[d].ip = sess[d].ip
             /\ kill'[d].ip # NoIP => kill'[d].ip = kill[d].ip
             /\ d # c => kill'[d] = kill[d]
    BY <1>1, <1>2
  <2>2. \A d \in Containers : ip'[d] # NoIP => inst'[d] = "running"
    BY <2>1 DEF Leases
  <2>3. \A d, e \in Containers : d # e /\ ip'[d] # NoIP => ip'[d] # ip'[e]
    BY <1>2, <2>1 DEF Leases
  <2>4. \A d, e \in Containers : d # e /\ sess'[d].ip # NoIP /\ ip'[e] = sess'[d].ip =>
          <<"session", d>> \in late'[e]
    BY <2>1 DEF Leases
  <2>5. \A d \in Containers : sess'[d].ip # NoIP /\ inst'[d] = "running" => ip'[d] = sess'[d].ip
    BY <1>2, <2>1 DEF Leases
  <2>6. \A d, e \in Containers :
          kill'[d].ip # NoIP /\ ip'[e] = kill'[d].ip /\ (d # e \/ kill'[d].pc # "stop") =>
            <<"kill", d>> \in late'[e]
    BY <2>1 DEF Leases
  <2>7. orphans.pc = "detected" => \A d \in Containers :
          ip'[d] # NoIP /\ IPKey(ip'[d]) \in orphans.keys => Sweep \in late'[d]
    BY <2>1 DEF Leases
  <2> QED BY <2>2, <2>3, <2>4, <2>5, <2>6, <2>7 DEF Leases
<1>6. Blocks'
  BY <1>0, <1>2 DEF Blocks
<1>7. Stages'
  BY <1>0, <1>1, <1>2 DEF Stages, Setup
<1>8. Policies'
  <2>1. /\ guard'[c].state # "policy"
        /\ ip'[c] = sess'[c].ip => sess'[c].pc \notin {"apply"} /\ sess'[c].ip = NoIP
    BY <1>1, <1>2 DEF Stages
  <2>2. \A d \in Containers : d \notin crossed' => d = c \/ d \notin crossed
    BY <1>2
  <2> QED BY <1>1, <1>2, <2>1, <2>2 DEF Policies
<1> QED BY <1>3, <1>4, <1>5, <1>6, <1>7, <1>8

\* A coi kill goes on; it remembers an address nobody else has.
LEMMA KillMoves ==
  ASSUME IInv, NEW c \in Containers, NEW k \in Kills, kill' = [kill EXCEPT ![c] = k],
         k.ip \in {NoIP, kill[c].ip, ip[c]},
         k.ip # NoIP /\ k.pc # "stop" /\ ip[c] = k.ip => <<"kill", c>> \in late[c],
         ip6' \subseteq Containers \X Nat, clean' \subseteq Containers,
         UNCHANGED <<world, inst, veth, starts, ip, chain, sess, orphans, guard, late, crossed>>
  PROVE IInv'
<1> USE DEF IInv
<1>0. kill \in [Containers -> Kills] /\ ip \in [Containers -> IPs \cup {NoIP}]
  BY DEF Typed
<1>1. kill'[c] = k /\ \A d \in Containers : d # c => kill'[d] = kill[d]
  BY <1>0
<1>2. Typed'
  BY <1>0 DEF Typed
<1>3. Leases'
  BY <1>0, <1>1 DEF Leases
<1>4. (Interfaces /\ Blocks /\ Stages /\ Policies)'
  BY DEF Interfaces, Blocks, Stages, Policies
<1> QED BY <1>2, <1>3, <1>4

\* coi clean --orphans goes on; it condemns no address that is in use.
LEMMA OrphansMove ==
  ASSUME IInv, orphans' \in Scans,
         orphans'.pc = "detected" =>
           \A c \in Containers :
             ip[c] # NoIP /\ IPKey(ip[c]) \in orphans'.keys => Sweep \in late[c],
         ip6' \subseteq Containers \X Nat, clean' \subseteq Containers,
         UNCHANGED <<world, inst, veth, starts, ip, chain, sess, kill, guard, late, crossed>>
  PROVE IInv'
<1> USE DEF IInv
<1>1. Typed'
  BY DEF Typed
<1>2. Leases'
  BY DEF Leases
<1>3. (Interfaces /\ Blocks /\ Stages /\ Policies)'
  BY DEF Interfaces, Blocks, Stages, Policies
<1> QED BY <1>1, <1>2, <1>3

\* The steps that stop or delete a container, and those of coi kill and coi clean
\* beside the chain.
LEMMA StopsKeep ==
  ASSUME IInv, UNCHANGED world, NEW c \in Containers,
         \/ BootBlockFails(c) \/ ReleaseContainer(c) \/ PowerOff(c)
         \/ KillBegin(c) \/ KillStop(c) \/ KillIPv6(c) \/ KillDelete(c) \/ CleanDelete(c)
  PROVE IInv'
<1>1. Stages /\ Typed /\ Leases
  BY DEF IInv
<1>2. /\ ip6 \subseteq Containers \X Nat /\ WithoutName(c) \subseteq Containers \X Nat
      /\ clean \subseteq Containers /\ clean \ {c} \subseteq Containers
  BY IP6Typed DEF IInv, Typed
<1>3. /\ sess \in [Containers -> Jobs] /\ kill \in [Containers -> Kills]
      /\ ip \in [Containers -> IPs \cup {NoIP}]
      /\ inst \in [Containers -> {"absent", "stopped", "running"}]
      /\ sess[c] \in Jobs /\ kill[c] \in Kills /\ NoSession \in Jobs /\ NoKill \in Kills
      /\ sess = [sess EXCEPT ![c] = sess[c]] /\ kill = [kill EXCEPT ![c] = kill[c]]
  BY <1>1, JobsFacts DEF Typed, Kills, NoKill
<1>4. ASSUME NEW label \in {"unrule", "unblock6", "delete"}
      PROVE /\ [kill[c] EXCEPT !.pc = label] \in Kills
            /\ [kill[c] EXCEPT !.pc = label].ip = kill[c].ip
            /\ [kill[c] EXCEPT !.pc = label].pc = label
            /\ [kill EXCEPT ![c].pc = label] = [kill EXCEPT ![c] = [kill[c] EXCEPT !.pc = label]]
  BY <1>3 DEF Kills
<1>5. CASE BootBlockFails(c)
  <2>1. sess[c].pc = "boot" /\ guard[c].state # "policy" /\ sess[c].ip = NoIP
    BY <1>1, <1>5 DEF BootBlockFails, Stages
  <2>2. CASE sess[c].mode = "open"
    BY <1>2, <1>5, <2>1, <2>2, GotoMoves DEF BootBlockFails, SessionStates, Setup
  <2>3. CASE sess[c].mode # "open" /\ Flow = "shell" /\ inst[c] = "running"
    <3>1. Halt(c, "stopped") /\ sess' = [sess EXCEPT ![c] = NoSession]
      BY <1>5, <2>3 DEF BootBlockFails, SetupFailed
    <3> QED BY <1>2, <1>3, <1>5, <3>1, HaltMoves DEF BootBlockFails
  <2>4. CASE sess[c].mode # "open" /\ ~(Flow = "shell" /\ inst[c] = "running")
    BY <1>2, <1>5, <2>4, SetupFailedMoves DEF BootBlockFails
  <2> QED BY <2>2, <2>3, <2>4
<1>6. CASE ReleaseContainer(c)
  <2>1. CASE inst[c] = "absent"
    BY <1>1, <1>2, <1>6, <2>1, JobsFacts, SessionMoves DEF ReleaseContainer, Setup
  <2>2. CASE inst[c] # "absent"
    <3>1. PICK state \in {"absent", "stopped"} : Halt(c, state)
      BY <1>6, <2>2 DEF ReleaseContainer
    <3> QED BY <1>2, <1>3, <1>6, <3>1, HaltMoves DEF ReleaseContainer
  <2> QED BY <2>1, <2>2
<1>7. CASE PowerOff(c)
  BY <1>2, <1>3, <1>7, HaltMoves DEF PowerOff
<1>8. CASE KillBegin(c)
  <2> DEFINE k == [pc |-> "stop", ip |-> ip[c]]
  <2>1. k \in Kills /\ k.ip = ip[c] /\ k.pc = "stop"
    BY <1>3 DEF Kills
  <2>2. kill' = [kill EXCEPT ![c] = k]
    BY <1>8 DEF KillBegin
  <2> HIDE DEF k
  <2> QED BY <1>2, <1>8, <2>1, <2>2, KillMoves DEF KillBegin
<1>9. CASE KillStop(c)
  <2> DEFINE k == [kill[c] EXCEPT !.pc = "unrule"]
  <2>1. k \in Kills /\ k.ip = kill[c].ip /\ kill' = [kill EXCEPT ![c] = k]
    BY <1>4, <1>9 DEF KillStop
  <2> HIDE DEF k
  <2>2. CASE inst[c] = "running"
    BY <1>2, <1>3, <1>9, <2>1, <2>2, HaltMoves DEF KillStop
  <2>3. CASE inst[c] # "running"
    <3>1. ip[c] = NoIP
      BY <1>1, <2>3 DEF Leases
    <3> QED BY <1>2, <1>9, <2>1, <2>3, <3>1, KillMoves DEF KillStop
  <2> QED BY <2>2, <2>3
<1>10. CASE KillIPv6(c)
  <2> DEFINE k == [kill[c] EXCEPT !.pc = "delete"]
  <2>1. k \in Kills /\ k.ip = kill[c].ip /\ kill' = [kill EXCEPT ![c] = k]
    BY <1>4, <1>10 DEF KillIPv6
  <2>2. k.ip # NoIP /\ ip[c] = k.ip => <<"kill", c>> \in late[c]
    BY <1>1, <1>10, <2>1 DEF KillIPv6, Leases
  <2> HIDE DEF k
  <2> QED BY <1>2, <1>10, <2>1, <2>2, KillMoves DEF KillIPv6
<1>11. CASE KillDelete(c)
  <2>1. NoKill.ip = NoIP /\ kill' = [kill EXCEPT ![c] = NoKill]
    BY <1>11 DEF KillDelete, NoKill
  <2>2. CASE inst[c] = "absent"
    BY <1>2, <1>3, <1>11, <2>1, <2>2, KillMoves DEF KillDelete
  <2>3. CASE inst[c] # "absent"
    BY <1>2, <1>3, <1>11, <2>1, <2>3, HaltMoves DEF KillDelete
  <2> QED BY <2>2, <2>3
<1>12. CASE CleanDelete(c)
  <2>1. CASE inst[c] = "absent"
    <3>1. kill[c].ip # NoIP /\ kill[c].pc # "stop" /\ ip[c] = kill[c].ip =>
            <<"kill", c>> \in late[c]
      BY <1>1 DEF Leases
    <3> QED BY <1>2, <1>3, <1>12, <2>1, <3>1, KillMoves DEF CleanDelete
  <2>2. CASE inst[c] # "absent"
    BY <1>2, <1>3, <1>12, <2>2, HaltMoves DEF CleanDelete
  <2> QED BY <2>1, <2>2
<1> QED BY <1>5, <1>6, <1>7, <1>8, <1>9, <1>10, <1>11, <1>12

\* coi clean lists; coi clean --orphans lists, compares and deletes IPv6 blocks.
LEMMA ScansKeep ==
  ASSUME IInv, UNCHANGED world,
         \/ CleanList \/ OrphansList \/ OrphansDetect \/ OrphansEnd
         \/ \E n \in orphans.names : OrphansDeleteName(n)
  PROVE IInv'
<1>1. Typed /\ Leases /\ Interfaces
  BY DEF IInv
<1>2. /\ ip6 \subseteq Containers \X Nat /\ clean \subseteq Containers /\ orphans \in Scans
      /\ ip \in [Containers -> IPs \cup {NoIP}] /\ chain \in Seq(Rules)
  BY <1>1 DEF Typed
<1>3. orphans.keys \subseteq AllKeys /\ orphans.names \subseteq Containers
  BY <1>2 DEF Scans
<1>4. CASE CleanList
  <2>1. orphans' = orphans /\ clean' \subseteq Containers
    BY <1>4 DEF CleanList
  <2> QED BY <1>1, <1>2, <1>4, <2>1, OrphansMove DEF CleanList, Leases
<1>5. CASE OrphansList
  <2>0. \A i \in DOMAIN chain : chain[i].key \in AllKeys
    BY <1>1, RuleTypes
  <2>1. Keys \subseteq AllKeys /\ {r[1] : r \in ip6} \subseteq Containers
    BY <1>2, <2>0 DEF Keys
  <2>2. orphans' \in Scans /\ orphans'.pc = "listed"
    BY <1>5, <2>1 DEF OrphansList, Scans
  <2> QED BY <1>2, <1>5, <2>2, OrphansMove DEF OrphansList
<1>6. CASE OrphansDetect
  <2>1. orphans' \in Scans
    BY <1>3, <1>6 DEF OrphansDetect, Scans
  <2>2. \A c \in Containers : IPKey(ip[c]) \notin orphans'.keys
    BY <1>6 DEF OrphansDetect
  <2> QED BY <1>2, <1>6, <2>1, <2>2, OrphansMove DEF OrphansDetect
<1>7. CASE OrphansEnd
  <2>1. orphans' \in Scans /\ orphans'.pc = "idle"
    BY <1>7 DEF OrphansEnd, NoOrphans, Scans
  <2> QED BY <1>2, <1>7, <2>1, OrphansMove DEF OrphansEnd
<1>8. CASE \E n \in orphans.names : OrphansDeleteName(n)
  <2>1. PICK n \in orphans.names : OrphansDeleteName(n)
    BY <1>8
  <2>2. /\ orphans' \in Scans /\ orphans'.keys = orphans.keys /\ orphans'.pc = orphans.pc
    BY <1>2, <1>3, <2>1 DEF OrphansDeleteName, Scans
  <2>3. ip6' \subseteq Containers \X Nat
    BY <1>3, <2>1, IP6Typed DEF OrphansDeleteName
  <2> QED BY <1>1, <1>2, <2>1, <2>2, <2>3, OrphansMove DEF OrphansDeleteName, Leases
<1> QED BY <1>4, <1>5, <1>6, <1>7, <1>8

-----------------------------------------------------------------------------
(* Steps that start or enter a container, or learn its address *)

\* A container is started: a new interface, no address, nothing reported.
LEMMA LaunchKeeps ==
  ASSUME IInv, NEW c \in Containers, NEW mode \in Modes, Launch(c, mode), UNCHANGED world
  PROVE IInv'
<1> USE DEF IInv
<1>0. /\ inst \in [Containers -> {"absent", "stopped", "running"}]
      /\ veth \in [Containers -> Nat] /\ ip \in [Containers -> IPs \cup {NoIP}]
      /\ sess \in [Containers -> Jobs] /\ guard \in [Containers -> Guards]
      /\ starts \in Nat /\ starts' = starts + 1 /\ mode \in AllModes
  BY WorldFacts DEF Typed, Launch, Start
<1> DEFINE job == [pc |-> "boot", mode |-> mode, ip |-> NoIP]
           report == [state |-> "booting", mode |-> mode]
<1>1. job \in Jobs /\ report \in Guards
  BY <1>0 DEF Jobs, Guards, SessionStates
<1>2. /\ inst'[c] = "running" /\ veth'[c] = starts + 1 /\ ip'[c] = NoIP
      /\ guard'[c] = report /\ sess'[c] = job
      /\ \A d \in Containers : d # c =>
           /\ inst'[d] = inst[d] /\ veth'[d] = veth[d] /\ ip'[d] = ip[d]
           /\ guard'[d] = guard[d] /\ sess'[d] = sess[d]
      /\ UNCHANGED <<chain, kill, orphans, late, crossed>>
  BY <1>0 DEF Launch, Start
<1>3. Typed'
  BY <1>0, <1>1 DEF Typed, Launch, Start
<1>4. job.pc = "boot" /\ job.ip = NoIP /\ report.state = "booting"
  OBVIOUS
<1> HIDE DEF job, report
<1>5. Interfaces'
  <2>1. \A d \in Containers : veth[d] \in Nat /\ veth[d] <= starts
    BY <1>0 DEF Interfaces
  <2> QED BY <1>0, <1>2, <2>1 DEF Interfaces
<1>6. Leases'
  BY <1>2, <1>4 DEF Leases
<1>7. Blocks'
  <2> SUFFICES ASSUME NEW i \in DOMAIN chain, NEW b \in Containers, chain[i].key = BootKey(b)
               PROVE /\ chain[i].veth # 0 /\ chain[i].veth <= starts'
                     /\ \A d \in Containers : veth'[d] = chain[i].veth => d = b
    BY DEF Blocks, Launch
  <2>1. chain[i].veth \in Nat
    BY RuleTypes
  <2>2. /\ chain[i].veth # 0 /\ chain[i].veth <= starts
        /\ \A d \in Containers : veth[d] = chain[i].veth => d = b
    BY DEF Blocks
  <2>3. chain[i].veth # starts + 1 /\ chain[i].veth <= starts + 1
    BY <1>0, <2>1, <2>2
  <2> QED BY <1>0, <1>2, <2>2, <2>3
<1>8. Stages'
  BY <1>2, <1>4 DEF Stages, Setup
<1>9. Policies'
  BY <1>2, <1>4 DEF Policies
<1> QED BY <1>3, <1>5, <1>6, <1>7, <1>8, <1>9

\* Steps that change one session and what is reported of its container, but
\* nothing in the host.
LEMMA EntersKeep ==
  ASSUME IInv, UNCHANGED world, NEW c \in Containers,
         \/ \E mode \in Modes : Reuse(c, mode)
         \/ GetContainerIP(c)
  PROVE IInv'
<1> USE DEF IInv
<1>0. /\ sess \in [Containers -> Jobs] /\ guard \in [Containers -> Guards]
      /\ ip \in [Containers -> IPs \cup {NoIP}]
  BY DEF Typed
<1>1. CASE \E mode \in Modes : Reuse(c, mode)
  <2>1. PICK mode \in Modes : Reuse(c, mode)
    BY <1>1
  <2> DEFINE job == [pc |-> "address", mode |-> mode, ip |-> NoIP]
             report == [state |-> "reused", mode |-> mode]
  <2>2. mode \in AllModes
    BY WorldFacts DEF Typed
  <2>3. /\ job \in Jobs /\ report \in Guards /\ report.state = "reused"
        /\ job.pc = "address" /\ job.ip = NoIP
    BY <2>2 DEF Jobs, Guards, SessionStates
  <2>4. /\ sess'[c] = job /\ guard'[c] = report /\ inst[c] = "running"
        /\ \A d \in Containers : d # c => guard'[d] = guard[d] /\ sess'[d] = sess[d]
    BY <1>0, <2>1 DEF Reuse
  <2>5. UNCHANGED <<inst, veth, starts, ip, chain, ip6, kill, clean, orphans, late, crossed>>
    BY <2>1 DEF Reuse
  <2>6. Typed'
    BY <2>1, <2>3, <2>5 DEF Typed, Reuse
  <2> HIDE DEF job, report
  <2>7. (Interfaces /\ Blocks)'
    BY <2>5 DEF Interfaces, Blocks
  <2>8. Leases'
    BY <2>3, <2>4, <2>5 DEF Leases
  <2>9. Stages'
    BY <2>3, <2>4, <2>5 DEF Stages, Setup
  <2>10. Policies'
    BY <2>3, <2>4, <2>5 DEF Policies
  <2> QED BY <2>6, <2>7, <2>8, <2>9, <2>10
<1>2. CASE GetContainerIP(c)
  <2> DEFINE job == [sess[c] EXCEPT !.ip = ip[c],
                       !.pc = IF sess[c].mode = "open" THEN "purge" ELSE "ip6"]
  <2>1. /\ job \in Jobs /\ job.ip = ip[c] /\ job.ip # NoIP /\ job.pc \in {"purge", "ip6"}
    BY <1>0, <1>2 DEF Jobs, SessionStates, GetContainerIP
  <2>2. /\ sess[c].pc = "address" /\ sess' = [sess EXCEPT ![c] = job]
    BY <1>0, <1>2 DEF GetContainerIP
  <2> HIDE DEF job
  <2>3. sess'[c] = job /\ \A d \in Containers : d # c => sess'[d] = sess[d]
    BY <1>0, <2>2
  <2>4. UNCHANGED <<inst, veth, starts, ip, chain, ip6, kill, clean, orphans, guard, late, crossed>>
    BY <1>2 DEF GetContainerIP
  <2>5. Typed'
    BY <2>1, <2>2, <2>4 DEF Typed
  <2>6. (Interfaces /\ Blocks)'
    BY <2>4 DEF Interfaces, Blocks
  <2>7. Leases'
    BY <1>0, <2>1, <2>3, <2>4 DEF Leases
  <2>8. Stages'
    BY <2>1, <2>2, <2>3, <2>4 DEF Stages, Setup
  <2>9. Policies'
    BY <2>1, <2>3, <2>4 DEF Policies
  <2> QED BY <2>5, <2>6, <2>7, <2>8, <2>9
<1> QED BY <1>1, <1>2

\* A lease: of an address that nobody has, late for those who remember it.
LEMMA DhcpKeeps ==
  ASSUME IInv, NEW c \in Containers, Dhcp(c), UNCHANGED world
  PROVE IInv'
<1> USE DEF IInv
<1>0. /\ ip \in [Containers -> IPs \cup {NoIP}] /\ orphans \in Scans
      /\ kill \in [Containers -> Kills] /\ sess \in [Containers -> Jobs]
      /\ late \in [Containers -> SUBSET Actors]
  BY DEF Typed
<1>1. PICK a \in Pool : /\ \A d \in Containers : ip[d] # a
                        /\ ip' = [ip EXCEPT ![c] = a]
                        /\ late' = [late EXCEPT ![c] = Holding(a)]
  BY DEF Dhcp
<1>2. a \in IPs /\ a # NoIP
  BY WorldFacts, FirewallAssumption DEF Typed
<1>3. /\ \A d \in Containers : sess[d].ip = a => <<"session", d>> \in Holding(a)
      /\ \A d \in Containers : kill[d].ip = a => <<"kill", d>> \in Holding(a)
      /\ orphans.pc = "detected" /\ IPKey(a) \in orphans.keys => Sweep \in Holding(a)
      /\ Holding(a) \in SUBSET Actors
  BY DEF Holding, Actors
<1>4. /\ ip'[c] = a /\ late'[c] = Holding(a)
      /\ \A d \in Containers : d # c => ip'[d] = ip[d] /\ late'[d] = late[d]
  BY <1>0, <1>1
<1>5. /\ inst[c] = "running" /\ ip[c] = NoIP
      /\ UNCHANGED <<inst, veth, starts, chain, ip6, sess, kill, clean, orphans, guard,
                     crossed>>
  BY DEF Dhcp
<1>6. Typed'
  BY <1>0, <1>1, <1>2, <1>3, <1>5 DEF Typed
<1>7. (Interfaces /\ Blocks)'
  BY <1>5 DEF Interfaces, Blocks
<1>8. Leases'
  <2>1. \A d \in Containers : ip'[d] # NoIP => inst[d] = "running"
    BY <1>4, <1>5 DEF Leases
  <2>2. \A d, e \in Containers : d # e /\ ip'[d] # NoIP => ip'[d] # ip'[e]
    BY <1>1, <1>4 DEF Leases
  <2>3. \A d, e \in Containers : d # e /\ sess[d].ip # NoIP /\ ip'[e] = sess[d].ip =>
          <<"session", d>> \in late'[e]
    BY <1>3, <1>4 DEF Leases
  <2>4. \A d \in Containers : sess[d].ip # NoIP /\ inst[d] = "running" => ip'[d] = sess[d].ip
    BY <1>4, <1>5 DEF Leases
  <2>5. \A d, e \in Containers :
          kill[d].ip # NoIP /\ ip'[e] = kill[d].ip /\ (d # e \/ kill[d].pc # "stop") =>
            <<"kill", d>> \in late'[e]
    BY <1>3, <1>4 DEF Leases
  <2>6. orphans.pc = "detected" =>
          \A d \in Containers :
            ip'[d] # NoIP /\ IPKey(ip'[d]) \in orphans.keys => Sweep \in late'[d]
    BY <1>3, <1>4 DEF Leases
  <2> QED BY <1>5, <2>1, <2>2, <2>3, <2>4, <2>5, <2>6 DEF Leases
<1>9. Stages'
  BY <1>2, <1>4, <1>5 DEF Stages
<1>10. sess[c].ip = NoIP
  BY <1>5 DEF Leases
<1>11. guard[c].state # "policy"
  BY <1>5 DEF Stages
<1>12. Policies'
  BY <1>2, <1>4, <1>5, <1>10, <1>11 DEF Policies
<1> QED BY <1>6, <1>7, <1>8, <1>9, <1>12

-----------------------------------------------------------------------------
(* Steps that change the chain *)

\* Rules go away; those that serve a container do not.
LEMMA DeletionKeeps ==
  ASSUME IInv, NEW key, chain' = DeleteRules(key),
         NEW c \in Containers, NEW job \in Jobs, sess' = [sess EXCEPT ![c] = job],
         NEW report \in Guards, guard' = [guard EXCEPT ![c] = report],
         kill' \in [Containers -> Kills], orphans' \in Scans,
         UNCHANGED <<world, inst, veth, starts, ip, ip6, clean, late>>, Leases', Stages',
         crossed' \subseteq Containers, crossed \ {c} \subseteq crossed',
         report.state = "policy" =>
           /\ \A i \in DOMAIN chain : chain[i].key = BootKey(c) /\ chain[i].key # key =>
                chain[i].veth # veth[c]
           /\ c \notin crossed' => key # IPKey(ip[c]) /\ Serves(chain, ip[c], report.mode),
         job.pc = "apply" /\ ip[c] = job.ip /\ c \notin crossed' =>
           \A i \in DOMAIN chain : chain[i].key = IPKey(job.ip) => chain[i].key = key,
         job.pc \in {"hosts", "lift"} /\ job.ip # NoIP /\ ip[c] = job.ip /\ c \notin crossed' =>
           key # IPKey(ip[c]) /\ Serves(chain, job.ip, job.mode),
         \A d \in Containers : d # c /\ ip[d] # NoIP /\ d \notin crossed' => key # IPKey(ip[d])
  PROVE IInv'
<1> USE DEF IInv
<1>0. /\ sess \in [Containers -> Jobs] /\ guard \in [Containers -> Guards]
      /\ ip \in [Containers -> IPs \cup {NoIP}]
  BY DEF Typed
<1>1. /\ chain' \in Seq(Rules)
      /\ \A n \in DOMAIN chain' :
           chain'[n].key # key /\ \E i \in DOMAIN chain : chain'[n] = chain[i]
      /\ \A a \in IPs, mode \in AllModes :
           key # IPKey(a) /\ Serves(chain, a, mode) => Serves(chain', a, mode)
  BY Deleted
<1>2. /\ sess'[c] = job /\ guard'[c] = report
      /\ \A d \in Containers : d # c => sess'[d] = sess[d] /\ guard'[d] = guard[d]
  BY <1>0
<1>3. Typed'
  BY <1>0, <1>1 DEF Typed
<1>4. Interfaces'
  BY DEF Interfaces
<1>5. Blocks'
  BY <1>1 DEF Blocks
<1>6. \A d \in Containers : sess'[d].mode \in AllModes /\ guard'[d].mode \in AllModes
  BY <1>0, <1>2 DEF Jobs, Guards
<1>7. ASSUME NEW d \in Containers, guard'[d].state = "policy"
      PROVE /\ d \notin crossed' => Serves(chain', ip'[d], guard'[d].mode)
            /\ \A i \in DOMAIN chain' : chain'[i].key # BootKey(d) \/ chain'[i].veth # veth'[d]
  <2>1. ip[d] \in IPs
    BY <1>0, <1>7 DEF Stages
  <2>2. ip[d] # NoIP
    BY <1>7 DEF Stages
  <2>3. CASE d = c
    BY <1>1, <1>2, <1>6, <1>7, <2>1, <2>3
  <2>4. CASE d # c
    <3>1. /\ d \notin crossed' => key # IPKey(ip[d]) /\ Serves(chain, ip[d], guard[d].mode)
          /\ guard'[d] = guard[d]
      BY <1>2, <1>7, <2>2, <2>4 DEF Policies
    <3>2. \A i \in DOMAIN chain : chain[i].key # BootKey(d) \/ chain[i].veth # veth[d]
      BY <1>2, <1>7, <2>4 DEF Policies
    <3> QED BY <1>1, <1>6, <2>1, <3>1, <3>2
  <2> QED BY <2>3, <2>4
<1>8. ASSUME NEW d \in Containers, sess'[d].pc = "apply", ip'[d] = sess'[d].ip,
             d \notin crossed'
      PROVE \A i \in DOMAIN chain' : chain'[i].key # IPKey(sess'[d].ip)
  <2>1. CASE d = c
    BY <1>1, <1>2, <1>8, <2>1
  <2>2. CASE d # c
    BY <1>1, <1>2, <1>8, <2>2 DEF Policies
  <2> QED BY <2>1, <2>2
<1>9. ASSUME NEW d \in Containers, sess'[d].pc \in {"hosts", "lift"}, sess'[d].ip # NoIP,
             ip'[d] = sess'[d].ip, d \notin crossed'
      PROVE Serves(chain', sess'[d].ip, sess'[d].mode)
  <2>1. sess'[d].ip \in IPs
    BY <1>0, <1>2, <1>9 DEF Jobs
  <2>2. CASE d = c
    BY <1>1, <1>2, <1>6, <1>9, <2>1, <2>2
  <2>3. CASE d # c
    <3>1. /\ Serves(chain, sess[d].ip, sess[d].mode) /\ sess'[d] = sess[d] /\ ip[d] = sess[d].ip
          /\ key # IPKey(ip[d])
      BY <1>2, <1>9, <2>3 DEF Policies
    <3> QED BY <1>1, <1>6, <2>1, <3>1
  <2> QED BY <2>2, <2>3
<1>10. Policies'
  BY <1>7, <1>8, <1>9 DEF Policies
<1> QED BY <1>3, <1>4, <1>5, <1>10

\* The deletions: before a policy, at its end, of a boot block, and by coi kill.
LEMMA DeletesKeep ==
  ASSUME IInv, UNCHANGED world, NEW c \in Containers,
         \/ PurgeStaleRules(c) \/ RemoveBootBlock(c) \/ TeardownRules(c)
         \/ TeardownBootBlock(c) \/ KillRules(c)
  PROVE IInv'
<1> USE DEF IInv
<1>0. /\ sess \in [Containers -> Jobs] /\ guard \in [Containers -> Guards]
      /\ kill \in [Containers -> Kills] /\ orphans \in Scans
      /\ ip \in [Containers -> IPs \cup {NoIP}] /\ sess[c] \in Jobs /\ guard[c] \in Guards
      /\ guard = [guard EXCEPT ![c] = guard[c]] /\ sess = [sess EXCEPT ![c] = sess[c]]
  BY DEF Typed
<1>1. ASSUME NEW label \in SessionStates, SessGoto(c, label)
      PROVE \E job \in Jobs : /\ sess' = [sess EXCEPT ![c] = job]
                              /\ job.pc = label /\ job.ip = sess[c].ip /\ job.mode = sess[c].mode
                              /\ sess'[c] = job /\ \A d \in Containers : d # c => sess'[d] = sess[d]
  <2> DEFINE job == [sess[c] EXCEPT !.pc = label]
  <2>1. sess' = [sess EXCEPT ![c] = job]
    BY <1>0, <1>1 DEF SessGoto
  <2>2. job \in Jobs /\ job.pc = label /\ job.ip = sess[c].ip /\ job.mode = sess[c].mode
    BY JobsFacts
  <2> HIDE DEF job
  <2>3. sess'[c] = job /\ \A d \in Containers : d # c => sess'[d] = sess[d]
    BY <1>0, <2>1
  <2> QED BY <2>1, <2>2, <2>3
<1>2. CASE PurgeStaleRules(c)
  <2>1. PICK job \in Jobs : /\ sess' = [sess EXCEPT ![c] = job]
                            /\ job.pc = "apply" /\ job.ip = sess[c].ip /\ job.mode = sess[c].mode
                            /\ sess'[c] = job /\ \A d \in Containers : d # c => sess'[d] = sess[d]
    BY <1>1, <1>2 DEF PurgeStaleRules, SessionStates
  <2>2. /\ sess[c].pc = "purge" /\ chain' = DeleteRules(IPKey(sess[c].ip))
        /\ crossed' = (crossed \ {c}) \cup (Cross(<<"session", c>>, sess[c].ip) \ {c})
        /\ UNCHANGED <<inst, veth, starts, ip, ip6, kill, clean, orphans, guard, late>>
    BY <1>2 DEF PurgeStaleRules
  <2>3. sess[c].ip # NoIP /\ guard[c].state # "policy"
    BY <2>2 DEF Stages, Setup
  <2>4. Leases'
    BY <2>1, <2>2 DEF Leases
  <2>5. Stages'
    BY <2>1, <2>2, <2>3 DEF Stages, Setup
  <2>6. \A d \in Containers : d # c /\ ip[d] # NoIP /\ d \notin crossed' =>
          IPKey(sess[c].ip) # IPKey(ip[d])
    BY <2>2, <2>3, KeysApart DEF Leases, Cross
  <2>7. crossed' \subseteq Containers /\ crossed \ {c} \subseteq crossed'
    BY <2>2 DEF Cross, Typed
  <2>a. /\ kill' \in [Containers -> Kills] /\ orphans' \in Scans
        /\ UNCHANGED <<world, inst, veth, starts, ip, ip6, clean, late>>
    BY <1>0, <2>2
  <2>b. guard' = [guard EXCEPT ![c] = guard[c]]
    BY <1>0, <2>2
  <2> DEFINE key == IPKey(sess[c].ip)
  <2>c. /\ \A i \in DOMAIN chain : chain[i].key = IPKey(job.ip) => chain[i].key = key
        /\ \A d \in Containers : d # c /\ ip[d] # NoIP /\ d \notin crossed' => key # IPKey(ip[d])
        /\ chain' = DeleteRules(key)
    BY <2>1, <2>2, <2>6
  <2> HIDE DEF key
  <2>d. /\ guard[c] \in Guards /\ job \in Jobs /\ sess' = [sess EXCEPT ![c] = job]
        /\ ~(guard[c].state = "policy") /\ ~(job.pc \in {"hosts", "lift"})
    BY <1>0, <2>1, <2>3
  <2> QED BY <2>4, <2>5, <2>7, <2>a, <2>b, <2>c, <2>d, DeletionKeeps
<1>3. CASE RemoveBootBlock(c)
  <2>1. PICK job \in Jobs : /\ sess' = [sess EXCEPT ![c] = job]
                            /\ job.pc = "up" /\ job.ip = sess[c].ip /\ job.mode = sess[c].mode
                            /\ sess'[c] = job /\ \A d \in Containers : d # c => sess'[d] = sess[d]
    BY <1>1, <1>3 DEF RemoveBootBlock, SessionStates
  <2> DEFINE report == IF inst[c] # "running" THEN guard[c]
                       ELSE [state |-> IF sess[c].ip = NoIP THEN "unruled" ELSE "policy",
                             mode |-> sess[c].mode]
  <2>2. /\ sess[c].pc = "lift" /\ chain' = DeleteRules(BootKey(c))
        /\ guard' = [guard EXCEPT ![c] = report]
        /\ UNCHANGED <<inst, veth, starts, ip, ip6, kill, clean, orphans, late, crossed>>
    BY <1>0, <1>3 DEF RemoveBootBlock, Reported
  <2>3. sess[c].mode \in AllModes /\ guard[c].state # "policy"
    BY <1>0, <2>2 DEF Jobs, Stages, Setup
  <2>4. /\ report \in Guards
        /\ report.state = "policy" => /\ inst[c] = "running" /\ sess[c].ip # NoIP
                                      /\ report.mode = sess[c].mode
        /\ inst[c] # "running" => report = guard[c]
    BY <1>0, <2>3 DEF Guards
  <2> HIDE DEF report
  <2>5. guard'[c] = report /\ \A d \in Containers : d # c => guard'[d] = guard[d]
    BY <1>0, <2>2
  <2>6. Leases'
    BY <2>1, <2>2 DEF Leases
  <2>7. report.state = "policy" =>
          /\ ip[c] = sess[c].ip /\ ip[c] # NoIP
          /\ c \notin crossed' => Serves(chain, ip[c], report.mode)
    BY <2>2, <2>4 DEF Leases, Policies
  <2>8. Stages'
    BY <2>1, <2>2, <2>4, <2>5, <2>7 DEF Stages, Setup
  <2>9. \A a : BootKey(c) # IPKey(a)
    BY KeysApart
  <2>a. /\ kill' \in [Containers -> Kills] /\ orphans' \in Scans
        /\ UNCHANGED <<world, inst, veth, starts, ip, ip6, clean, late>>
    BY <1>0, <2>2
  <2> DEFINE key == BootKey(c)
  <2>c. /\ \A a : key # IPKey(a)
        /\ \A i \in DOMAIN chain : chain[i].key = BootKey(c) /\ chain[i].key # key =>
             chain[i].veth # veth[c]
        /\ chain' = DeleteRules(key)
    BY <2>2, <2>9
  <2> HIDE DEF key
  <2>d. /\ report \in Guards /\ job \in Jobs /\ sess' = [sess EXCEPT ![c] = job]
        /\ guard' = [guard EXCEPT ![c] = report]
        /\ ~(job.pc = "apply") /\ ~(job.pc \in {"hosts", "lift"})
        /\ crossed' \subseteq Containers /\ crossed \ {c} \subseteq crossed'
    BY <2>1, <2>2, <2>4 DEF Typed
  <2> QED BY <2>6, <2>7, <2>8, <2>a, <2>c, <2>d, DeletionKeeps
<1>4. CASE TeardownRules(c) /\ sess[c].ip = NoIP
  <2>1. /\ SessGoto(c, "release")
        /\ UNCHANGED <<chain, guard, inst, veth, starts, ip, ip6, kill, clean, orphans, late,
                       crossed>>
    BY <1>4 DEF TeardownRules
  <2> QED BY <2>1, IP6Typed, GotoMoves DEF SessionStates, Setup
<1>5. CASE TeardownRules(c) /\ sess[c].ip # NoIP
  <2>1. PICK job \in Jobs : /\ sess' = [sess EXCEPT ![c] = job]
                            /\ job.pc = "unblock6" /\ job.ip = sess[c].ip /\ job.mode = sess[c].mode
                            /\ sess'[c] = job /\ \A d \in Containers : d # c => sess'[d] = sess[d]
    BY <1>1, <1>5 DEF TeardownRules, SessionStates
  <2> DEFINE report == [guard[c] EXCEPT !.state = IF @ = "policy" THEN "released" ELSE @]
  <2>2. /\ chain' = DeleteRules(IPKey(sess[c].ip))
        /\ guard' = [guard EXCEPT ![c] = report]
        /\ crossed' = crossed \cup Cross(<<"session", c>>, sess[c].ip)
        /\ UNCHANGED <<inst, veth, starts, ip, ip6, kill, clean, orphans, late>>
    BY <1>0, <1>5 DEF TeardownRules, Touch
  <2>3. /\ report \in Guards /\ report.state # "policy"
        /\ report.state = "none" <=> guard[c].state = "none"
    BY <1>0 DEF Guards
  <2> HIDE DEF report
  <2>4. guard'[c] = report /\ \A d \in Containers : d # c => guard'[d] = guard[d]
    BY <1>0, <2>2
  <2>5. Leases'
    BY <2>1, <2>2 DEF Leases
  <2>6. Stages'
    BY <2>1, <2>2, <2>3, <2>4 DEF Stages, Setup
  <2>7. \A d \in Containers : d # c /\ ip[d] # NoIP /\ d \notin crossed' =>
          IPKey(sess[c].ip) # IPKey(ip[d])
    BY <1>5, <2>2, KeysApart DEF Leases, Cross
  <2>8. crossed' \subseteq Containers /\ crossed \ {c} \subseteq crossed'
    BY <2>2 DEF Cross, Typed
  <2>a. /\ kill' \in [Containers -> Kills] /\ orphans' \in Scans
        /\ UNCHANGED <<world, inst, veth, starts, ip, ip6, clean, late>>
    BY <1>0, <2>2
  <2> DEFINE key == IPKey(sess[c].ip)
  <2>c. /\ \A d \in Containers : d # c /\ ip[d] # NoIP /\ d \notin crossed' => key # IPKey(ip[d])
        /\ chain' = DeleteRules(key)
    BY <2>2, <2>7
  <2> HIDE DEF key
  <2> QED BY <2>1, <2>2, <2>3, <2>5, <2>6, <2>8, <2>a, <2>c, DeletionKeeps
<1>6. CASE TeardownBootBlock(c)
  <2>1. PICK job \in Jobs : /\ sess' = [sess EXCEPT ![c] = job]
                            /\ job.pc = "release" /\ job.ip = sess[c].ip /\ job.mode = sess[c].mode
                            /\ sess'[c] = job /\ \A d \in Containers : d # c => sess'[d] = sess[d]
    BY <1>1, <1>6 DEF TeardownBootBlock, SessionStates
  <2>2. /\ chain' = DeleteRules(BootKey(c))
        /\ UNCHANGED <<inst, veth, starts, ip, ip6, kill, clean, orphans, guard, late, crossed>>
    BY <1>6 DEF TeardownBootBlock
  <2>3. Leases'
    BY <2>1, <2>2 DEF Leases
  <2>4. Stages'
    BY <2>1, <2>2 DEF Stages, Setup
  <2>5. \A a : BootKey(c) # IPKey(a)
    BY KeysApart
  <2>6. guard[c].state = "policy" =>
          /\ c \notin crossed => Serves(chain, ip[c], guard[c].mode)
          /\ \A i \in DOMAIN chain : chain[i].key # BootKey(c) \/ chain[i].veth # veth[c]
    BY DEF Policies
  <2>a. /\ kill' \in [Containers -> Kills] /\ orphans' \in Scans
        /\ UNCHANGED <<world, inst, veth, starts, ip, ip6, clean, late>>
    BY <1>0, <2>2
  <2>b. guard' = [guard EXCEPT ![c] = guard[c]]
    BY <1>0, <2>2
  <2> DEFINE key == BootKey(c)
  <2>c. /\ \A a : key # IPKey(a)
        /\ \A i \in DOMAIN chain : chain[i].key = BootKey(c) /\ chain[i].key # key =>
             chain[i].veth # veth[c]
        /\ chain' = DeleteRules(key)
    BY <2>2, <2>5
  <2> HIDE DEF key
  <2>d. /\ guard[c] \in Guards /\ job \in Jobs /\ sess' = [sess EXCEPT ![c] = job]
        /\ ~(job.pc = "apply") /\ ~(job.pc \in {"hosts", "lift"})
        /\ crossed' = crossed /\ crossed \subseteq Containers
    BY <1>0, <2>1, <2>2 DEF Typed
  <2> QED BY <2>3, <2>4, <2>6, <2>a, <2>b, <2>c, <2>d, DeletionKeeps
<1>7. CASE KillRules(c)
  <2> DEFINE k == [kill[c] EXCEPT !.pc = "unblock6"]
  <2>1. k \in Kills /\ k.ip = kill[c].ip /\ k.pc = "unblock6" /\ kill' = [kill EXCEPT ![c] = k]
    BY <1>0, <1>7 DEF KillRules, Kills
  <2> HIDE DEF k
  <2>3. CASE kill[c].ip = NoIP
    <3>1. UNCHANGED <<inst, veth, starts, ip, chain, ip6, sess, clean, orphans, guard, late,
                      crossed>>
      BY <1>7, <2>3 DEF KillRules
    <3>2. clean' \subseteq Containers /\ ip6' \subseteq Containers \X Nat
      BY <3>1 DEF Typed
    <3> QED BY <2>1, <2>3, <3>1, <3>2, KillMoves
  <2>4. CASE kill[c].ip # NoIP
    <3>1. /\ chain' = DeleteRules(IPKey(kill[c].ip)) /\ kill[c].pc # "stop"
          /\ crossed' = crossed \cup Cross(<<"kill", c>>, kill[c].ip)
          /\ UNCHANGED <<inst, veth, starts, ip, ip6, sess, clean, orphans, guard, late>>
      BY <1>7, <2>4 DEF KillRules, Touch
    <3>2. kill'[c] = k /\ \A d \in Containers : d # c => kill'[d] = kill[d]
      BY <1>0, <2>1
    <3>3. kill' \in [Containers -> Kills]
      BY <1>0, <2>1
    <3>4. Leases'
      BY <2>1, <3>1, <3>2 DEF Leases
    <3>5. Stages'
      BY <3>1 DEF Stages
    <3>6. \A d \in Containers : ip[d] # NoIP /\ d \notin crossed' => IPKey(kill[c].ip) # IPKey(ip[d])
      BY <2>4, <3>1, KeysApart DEF Leases, Cross
    <3>7. guard[c].state = "policy" =>
            /\ c \notin crossed => Serves(chain, ip[c], guard[c].mode)
            /\ \A i \in DOMAIN chain : chain[i].key # BootKey(c) \/ chain[i].veth # veth[c]
      BY DEF Policies, Stages
    <3>8. /\ sess[c].pc = "apply" /\ ip[c] = sess[c].ip /\ c \notin crossed =>
               \A i \in DOMAIN chain : chain[i].key # IPKey(sess[c].ip)
          /\ sess[c].pc \in {"hosts", "lift"} /\ sess[c].ip # NoIP /\ ip[c] = sess[c].ip
               /\ c \notin crossed =>
               Serves(chain, sess[c].ip, sess[c].mode)
      BY DEF Policies
    <3>9. /\ crossed' \subseteq Containers /\ crossed \subseteq crossed'
          /\ guard[c].state = "policy" => ip[c] # NoIP
      BY <3>1 DEF Cross, Typed, Stages
    <3> QED BY <1>0, <3>1, <3>3, <3>4, <3>5, <3>6, <3>7, <3>8, <3>9, DeletionKeeps
  <2> QED BY <2>3, <2>4
<1> QED BY <1>2, <1>3, <1>4, <1>5, <1>6, <1>7

\* A condemned key goes: of the containers in use, it is that of a crossed one.
LEMMA OrphansDeleteKeyKeeps ==
  ASSUME IInv, NEW k \in orphans.keys, OrphansDeleteKey(k), UNCHANGED world
  PROVE IInv'
<1> USE DEF IInv
<1>0. orphans \in Scans /\ ip \in [Containers -> IPs \cup {NoIP}]
  BY DEF Typed
<1>1. /\ orphans.pc = "detected" /\ chain' = DeleteRules(k)
      /\ UNCHANGED <<inst, veth, starts, ip, ip6, sess, kill, clean, guard, late>>
      /\ crossed' = IF k[1] = "ip" THEN crossed \cup Cross(Sweep, k[2]) ELSE crossed
  BY DEF OrphansDeleteKey, Touch
<1>2. orphans' \in Scans /\ orphans'.pc = "detected" /\ orphans'.keys \subseteq orphans.keys
  BY <1>0, <1>1 DEF OrphansDeleteKey, Scans
<1>3. ASSUME NEW d \in Containers, ip[d] # NoIP, d \notin crossed' PROVE k # IPKey(ip[d])
  <2>1. IPKey(ip[d])[1] = "ip" /\ IPKey(ip[d])[2] = ip[d]
    BY DEF IPKey
  <2>2. IPKey(ip[d]) \in orphans.keys => Sweep \in late[d]
    BY <1>1, <1>3 DEF Leases
  <2> QED BY <1>1, <1>3, <2>1, <2>2 DEF Cross
<1>11. crossed' \subseteq Containers /\ crossed \subseteq crossed'
  BY <1>1 DEF Cross, Typed
<1>4. /\ chain' \in Seq(Rules)
      /\ \A n \in DOMAIN chain' :
           chain'[n].key # k /\ \E i \in DOMAIN chain : chain'[n] = chain[i]
      /\ \A a \in IPs, mode \in AllModes :
           k # IPKey(a) /\ Serves(chain, a, mode) => Serves(chain', a, mode)
  BY <1>1, Deleted
<1>5. Typed'
  BY <1>1, <1>2, <1>4, <1>11 DEF Typed
<1>6. (Interfaces /\ Stages)'
  BY <1>1 DEF Interfaces, Stages
<1>7. Leases'
  BY <1>1, <1>2 DEF Leases
<1>8. Blocks'
  BY <1>1, <1>4 DEF Blocks
<1>9. \A d \in Containers : /\ sess[d].mode \in AllModes /\ guard[d].mode \in AllModes
                            /\ ip[d] # NoIP => ip[d] \in IPs
  BY <1>0 DEF Typed, Jobs, Guards
<1>10. Policies'
  <2>1. ASSUME NEW d \in Containers, guard[d].state = "policy"
        PROVE /\ d \notin crossed' => Serves(chain', ip[d], guard[d].mode)
              /\ \A i \in DOMAIN chain' : chain'[i].key # BootKey(d) \/ chain'[i].veth # veth[d]
    BY <1>3, <1>4, <1>9, <1>11, <2>1 DEF Policies, Stages
  <2>2. ASSUME NEW d \in Containers, sess[d].pc = "apply", ip[d] = sess[d].ip, d \notin crossed'
        PROVE \A i \in DOMAIN chain' : chain'[i].key # IPKey(sess[d].ip)
    BY <1>4, <1>11, <2>2 DEF Policies
  <2>3. ASSUME NEW d \in Containers, sess[d].pc \in {"hosts", "lift"}, sess[d].ip # NoIP,
               ip[d] = sess[d].ip, d \notin crossed'
        PROVE Serves(chain', sess[d].ip, sess[d].mode)
    BY <1>3, <1>4, <1>9, <1>11, <2>3 DEF Policies
  <2> QED BY <1>1, <2>1, <2>2, <2>3 DEF Policies
<1> QED BY <1>5, <1>6, <1>7, <1>8, <1>10

\* A block for the interface of one container: nobody else's packets see it.
LEMMA ApplyBootBlockKeeps ==
  ASSUME IInv, NEW c \in Containers, ApplyBootBlockRule(c), UNCHANGED world
  PROVE IInv'
<1> USE DEF IInv
<1>0. /\ sess \in [Containers -> Jobs] /\ guard \in [Containers -> Guards]
      /\ ip \in [Containers -> IPs \cup {NoIP}] /\ veth \in [Containers -> Nat]
  BY DEF Typed
<1>1. /\ chain' \in Seq(Rules)
      /\ \A n \in DOMAIN chain' :
           \/ \E i \in DOMAIN chain : chain'[n] = chain[i]
           \/ chain'[n].key = BootKey(c) /\ chain'[n].veth = veth[c]
      /\ \A a \in IPs, mode \in AllModes :
           Serves(chain, a, mode) => Serves(chain', a, mode)
  BY Blocked
<1> DEFINE job == [sess[c] EXCEPT !.pc = "address"]
           report == [guard[c] EXCEPT !.state = "blocked"]
<1>2. /\ sess[c].pc = "boot" /\ veth[c] # 0
      /\ sess' = [sess EXCEPT ![c] = job] /\ guard' = [guard EXCEPT ![c] = report]
      /\ UNCHANGED <<inst, veth, starts, ip, ip6, kill, clean, orphans, late, crossed>>
  BY <1>0 DEF ApplyBootBlockRule, SessGoto
<1>3. /\ job \in Jobs /\ job.pc = "address" /\ job.ip = sess[c].ip
      /\ report \in Guards /\ report.state = "blocked"
  BY <1>0 DEF Jobs, Guards, SessionStates
<1> HIDE DEF job, report
<1>4. /\ sess'[c] = job /\ guard'[c] = report
      /\ \A d \in Containers : d # c => sess'[d] = sess[d] /\ guard'[d] = guard[d]
  BY <1>0, <1>2
<1>5. Typed'
  BY <1>0, <1>1, <1>2, <1>3 DEF Typed
<1>6. Interfaces'
  BY <1>2 DEF Interfaces
<1>7. Leases'
  BY <1>2, <1>3, <1>4 DEF Leases
<1>8. Blocks'
  <2>1. \A d \in Containers : veth[d] = veth[c] => d = c
    BY <1>2 DEF Interfaces
  <2>2. veth[c] <= starts
    BY DEF Interfaces
  <2>3. \A d \in Containers : BootKey(d) = BootKey(c) => d = c
    BY KeysApart
  <2> QED BY <1>1, <1>2, <2>1, <2>2, <2>3 DEF Blocks
<1>9. inst[c] = "running"
  BY <1>2 DEF Interfaces
<1>10. Stages'
  BY <1>2, <1>3, <1>4, <1>9 DEF Stages, Setup
<1>11. \A d \in Containers : /\ sess[d].mode \in AllModes /\ guard[d].mode \in AllModes
                             /\ ip[d] # NoIP => ip[d] \in IPs
  BY <1>0 DEF Jobs, Guards
<1>12. Policies'
  <2>1. ASSUME NEW d \in Containers, guard'[d].state = "policy"
        PROVE /\ d \notin crossed' => Serves(chain', ip'[d], guard'[d].mode)
              /\ \A i \in DOMAIN chain' : chain'[i].key # BootKey(d) \/ chain'[i].veth # veth'[d]
    <3>1. d # c /\ guard'[d] = guard[d] /\ ip[d] # NoIP
      BY <1>3, <1>4, <2>1 DEF Stages
    <3>2. BootKey(c) # BootKey(d)
      BY <3>1, KeysApart
    <3> QED BY <1>1, <1>2, <1>11, <2>1, <3>1, <3>2 DEF Policies
  <2>2. ASSUME NEW d \in Containers, sess'[d].pc = "apply", ip'[d] = sess'[d].ip,
               d \notin crossed'
        PROVE \A i \in DOMAIN chain' : chain'[i].key # IPKey(sess'[d].ip)
    <3>1. d # c /\ sess'[d] = sess[d]
      BY <1>3, <1>4, <2>2
    <3>2. BootKey(c) # IPKey(sess[d].ip)
      BY KeysApart
    <3> QED BY <1>1, <1>2, <2>2, <3>1, <3>2 DEF Policies
  <2>3. ASSUME NEW d \in Containers, sess'[d].pc \in {"hosts", "lift"}, sess'[d].ip # NoIP,
               ip'[d] = sess'[d].ip, d \notin crossed'
        PROVE Serves(chain', sess'[d].ip, sess'[d].mode)
    <3>1. d # c /\ sess'[d] = sess[d]
      BY <1>3, <1>4, <2>3
    <3> QED BY <1>1, <1>2, <1>11, <2>3, <3>1 DEF Policies
  <2> QED BY <2>1, <2>2, <2>3 DEF Policies
<1> QED BY <1>5, <1>6, <1>7, <1>8, <1>10, <1>12

\* Rules for the address of a session that has purged it: they serve that
\* address as far as they go, and no other one.
LEMMA AppendKeeps ==
  ASSUME IInv, NEW c \in Containers, sess[c].pc = "apply", NEW rules \in Seq(Rules),
         \A i \in DOMAIN rules : rules[i].key = IPKey(sess[c].ip), chain' = chain \o rules,
         NEW job \in Jobs, sess' = [sess EXCEPT ![c] = job],
         job = NoSession \/ (job.pc # "none" /\ job.ip = sess[c].ip /\ job.mode = sess[c].mode),
         job.pc \in {"none", "release", "hosts"},
         job.pc = "hosts" /\ ip[c] = sess[c].ip /\ c \notin crossed' =>
           Serves(chain', sess[c].ip, sess[c].mode),
         crossed' \subseteq Containers, crossed \subseteq crossed',
         \A d \in Containers : d # c /\ ip[d] # NoIP /\ d \notin crossed' =>
           \A i \in DOMAIN rules : rules[i].key # IPKey(ip[d]),
         UNCHANGED <<world, inst, veth, starts, ip, ip6, kill, clean, orphans, guard, late>>
  PROVE IInv'
<1> USE DEF IInv
<1>0. /\ sess \in [Containers -> Jobs] /\ guard \in [Containers -> Guards]
      /\ ip \in [Containers -> IPs \cup {NoIP}]
  BY DEF Typed
<1>1. /\ chain' \in Seq(Rules)
      /\ \A n \in DOMAIN chain' : \/ \E i \in DOMAIN chain : chain'[n] = chain[i]
                                  \/ \E i \in DOMAIN rules : chain'[n] = rules[i]
      /\ \A a \in IPs, mode \in AllModes :
           (\A i \in DOMAIN rules : rules[i].key # IPKey(a)) /\ Serves(chain, a, mode)
             => Serves(chain', a, mode)
  BY Appended
<1>2. sess[c].ip # NoIP /\ guard[c].state # "policy" /\ NoSession.ip = NoIP /\ NoSession.pc = "none"
  BY JobsFacts DEF Stages, Setup
<1>3. sess'[c] = job /\ \A d \in Containers : d # c => sess'[d] = sess[d]
  BY <1>0
<1>4. Typed'
  BY <1>0, <1>1 DEF Typed
<1>5. Interfaces'
  BY DEF Interfaces
<1>6. Leases'
  BY <1>2, <1>3 DEF Leases
<1>7. Blocks'
  <2>1. \A d : BootKey(d) # IPKey(sess[c].ip)
    BY KeysApart
  <2> QED BY <1>1, <2>1 DEF Blocks
<1>8. Stages'
  BY <1>2, <1>3 DEF Stages, Setup
<1>9. \A d \in Containers : /\ sess[d].mode \in AllModes /\ guard[d].mode \in AllModes
                            /\ ip[d] # NoIP => ip[d] \in IPs
                            /\ sess[d].ip # NoIP => sess[d].ip \in IPs
  BY <1>0 DEF Jobs, Guards
<1>10. ASSUME NEW d \in Containers, d # c, ip[d] # NoIP, d \notin crossed'
       PROVE /\ d \notin crossed
             /\ \A i \in DOMAIN rules : rules[i].key # IPKey(ip[d])
  BY <1>10
<1>11. Policies'
  <2>1. ASSUME NEW d \in Containers, guard'[d].state = "policy"
        PROVE /\ d \notin crossed' => Serves(chain', ip'[d], guard'[d].mode)
              /\ \A i \in DOMAIN chain' : chain'[i].key # BootKey(d) \/ chain'[i].veth # veth'[d]
    <3>1. d # c /\ ip[d] # NoIP
      BY <1>2, <2>1 DEF Stages
    <3>2. BootKey(d) # IPKey(sess[c].ip)
      BY KeysApart
    <3> QED BY <1>1, <1>9, <1>10, <2>1, <3>1, <3>2 DEF Policies
  <2>2. ASSUME NEW d \in Containers, sess'[d].pc = "apply", ip'[d] = sess'[d].ip,
               d \notin crossed'
        PROVE \A i \in DOMAIN chain' : chain'[i].key # IPKey(sess'[d].ip)
    <3>1. d # c /\ sess'[d] = sess[d]
      BY <1>3, <2>2
    <3>2. sess[d].ip # NoIP
      BY <2>2, <3>1 DEF Stages
    <3>3. \A i \in DOMAIN chain : chain[i].key # IPKey(sess[d].ip)
      BY <1>10, <2>2, <3>1, <3>2 DEF Policies
    <3>4. \A i \in DOMAIN rules : rules[i].key # IPKey(sess[d].ip)
      BY <1>10, <2>2, <3>1, <3>2
    <3> QED BY <1>1, <3>1, <3>3, <3>4
  <2>3. ASSUME NEW d \in Containers, sess'[d].pc \in {"hosts", "lift"}, sess'[d].ip # NoIP,
               ip'[d] = sess'[d].ip, d \notin crossed'
        PROVE Serves(chain', sess'[d].ip, sess'[d].mode)
    <3>1. CASE d = c
      BY <1>2, <1>3, <2>3, <3>1
    <3>2. CASE d # c
      <4>1. sess'[d] = sess[d] /\ ip[d] = sess[d].ip /\ ip[d] # NoIP
        BY <1>3, <2>3, <3>2
      <4>2. Serves(chain, sess[d].ip, sess[d].mode)
        BY <1>10, <2>3, <3>2, <4>1 DEF Policies
      <4>3. \A i \in DOMAIN rules : rules[i].key # IPKey(sess[d].ip)
        BY <1>10, <2>3, <3>2, <4>1
      <4> QED BY <1>1, <1>9, <4>1, <4>2, <4>3
    <3> QED BY <3>1, <3>2
  <2> QED BY <2>1, <2>2, <2>3 DEF Policies
<1> QED BY <1>4, <1>5, <1>6, <1>7, <1>8, <1>11

\* A policy is installed: it serves the address from then on.
LEMMA ApplyPolicyKeeps ==
  ASSUME IInv, NEW c \in Containers, ApplyPolicy(c), UNCHANGED world
  PROVE IInv'
<1>1. /\ sess[c].pc = "apply" /\ SessGoto(c, "hosts")
      /\ crossed' = crossed \cup Cross(<<"session", c>>, sess[c].ip)
      /\ UNCHANGED <<inst, veth, starts, ip, ip6, kill, clean, orphans, guard, late>>
  BY DEF ApplyPolicy, Touch
<1>2. /\ crossed' \subseteq Containers /\ crossed \subseteq crossed'
      /\ \A d \in Containers : d # c /\ ip[d] # NoIP /\ d \notin crossed' => ip[d] # sess[c].ip
      /\ ip[c] = sess[c].ip /\ c \notin crossed' =>
           \A i \in DOMAIN chain : chain[i].key # IPKey(sess[c].ip)
  BY <1>1 DEF IInv, Policies, Cross, Typed, Leases
<1>3. /\ sess[c].ip \in IPs /\ sess[c].mode \in AllModes /\ chain \in Seq(Rules)
      /\ sess \in [Containers -> Jobs]
  BY <1>1 DEF IInv, Stages, Typed, Jobs
<1> DEFINE all == PolicyRules(sess[c].ip, sess[c].mode)
           job == [sess[c] EXCEPT !.pc = "hosts"]
<1>4. /\ all \in Seq(Rules) /\ \A i \in DOMAIN all : all[i].key = IPKey(sess[c].ip)
      /\ (\A i \in DOMAIN chain : chain[i].key # IPKey(sess[c].ip)) =>
           Serves(chain \o all, sess[c].ip, sess[c].mode)
  BY <1>3, PolicyServes, PolicyTyped
<1>5. PICK rules \in {all, <<>>} : /\ chain' = chain \o rules
                                  /\ (rules = all \/ IPKey(sess[c].ip) \in Keys)
  BY <1>3 DEF ApplyPolicy
<1>6. /\ sess' = [sess EXCEPT ![c] = job]
      /\ job \in Jobs /\ job.pc = "hosts" /\ job.ip = sess[c].ip /\ job.mode = sess[c].mode
  BY <1>1, <1>3 DEF SessGoto, Jobs, SessionStates
<1> HIDE DEF all, job
<1>7. rules \in Seq(Rules) /\ \A i \in DOMAIN rules : rules[i].key = IPKey(sess[c].ip)
  <2>1. CASE rules = all
    BY <1>4, <2>1
  <2>2. CASE rules = <<>>
    BY <2>2
  <2> QED BY <1>5, <2>1, <2>2
<1>8. ip[c] = sess[c].ip /\ c \notin crossed' => Serves(chain', sess[c].ip, sess[c].mode)
  BY <1>2, <1>4, <1>5 DEF Keys
<1>9. \A d \in Containers : d # c /\ ip[d] # NoIP /\ d \notin crossed' =>
        \A i \in DOMAIN rules : rules[i].key # IPKey(ip[d])
  BY <1>2, <1>7, KeysApart
<1>10. /\ job = NoSession \/ (job.pc # "none" /\ job.ip = sess[c].ip /\ job.mode = sess[c].mode)
       /\ job.pc \in {"none", "release", "hosts"}
       /\ UNCHANGED <<world, inst, veth, starts, ip, ip6, kill, clean, orphans, guard, late>>
       /\ chain' = chain \o rules /\ sess[c].pc = "apply"
  BY <1>1, <1>5, <1>6
<1> QED BY <1>2, <1>6, <1>7, <1>8, <1>9, <1>10, AppendKeeps

\* A policy of which only the first rule is installed: its session reports nothing.
LEMMA ApplyPolicyFailsKeeps ==
  ASSUME IInv, NEW c \in Containers, ApplyPolicyFails(c), UNCHANGED world
  PROVE IInv'
<1>1. /\ sess[c].pc = "apply"
      /\ UNCHANGED <<inst, veth, starts, ip, ip6, kill, clean, orphans, guard>>
  BY DEF ApplyPolicyFails
<1>2. ip[c] = sess[c].ip /\ c \notin crossed =>
        \A i \in DOMAIN chain : chain[i].key # IPKey(sess[c].ip)
  BY <1>1 DEF IInv, Policies
<1>3. /\ sess[c].ip \in IPs /\ sess[c].mode \in AllModes /\ chain \in Seq(Rules)
      /\ sess \in [Containers -> Jobs] /\ crossed \subseteq Containers /\ Typed
  BY <1>1 DEF IInv, Stages, Typed, Jobs
<1> DEFINE all == PolicyRules(sess[c].ip, sess[c].mode)
           job == [sess[c] EXCEPT !.pc = "hosts"]
           end == [sess[c] EXCEPT !.pc = "release"]
<1>4. all \in Seq(Rules) /\ \A i \in DOMAIN all : all[i].key = IPKey(sess[c].ip)
  BY <1>3, PolicyTyped
<1>5. /\ job \in Jobs /\ job.pc = "hosts" /\ job.ip = sess[c].ip /\ job.mode = sess[c].mode
      /\ end \in Jobs /\ end.pc = "release" /\ end.ip = sess[c].ip /\ end.mode = sess[c].mode
  BY <1>3 DEF Jobs, SessionStates
<1>6. CASE sess[c].mode = "open"
  <2>1. /\ sess' = [sess EXCEPT ![c] = job] /\ chain' = chain
        /\ late' = late /\ crossed' = crossed
    BY <1>3, <1>6 DEF ApplyPolicyFails, SessGoto
  <2>2. ip[c] = sess[c].ip /\ c \notin crossed' => Serves(chain', sess[c].ip, sess[c].mode)
    BY <1>2, <1>6, <2>1 DEF Serves, Promised
  <2>3. /\ <<>> \in Seq(Rules) /\ chain' = chain \o <<>>
        /\ \A i \in DOMAIN <<>> : <<>>[i].key = IPKey(sess[c].ip)
        /\ \A d \in Containers : \A i \in DOMAIN <<>> : <<>>[i].key # IPKey(ip[d])
        /\ crossed' \subseteq Containers /\ crossed \subseteq crossed'
    BY <1>3, <2>1
  <2> HIDE DEF job
  <2> QED BY <1>1, <1>5, <2>1, <2>2, <2>3, AppendKeeps
<1>7. CASE sess[c].mode # "open"
  <2>1. PICK n \in 0..1 : chain' = chain \o SubSeq(all, 1, n)
    BY <1>7 DEF ApplyPolicyFails
  <2>2. /\ SetupFailed(c) /\ late' = late
        /\ crossed' = crossed \cup Cross(<<"session", c>>, sess[c].ip)
    BY <1>7 DEF ApplyPolicyFails, Touch
  <2> DEFINE rules == SubSeq(all, 1, n)
  <2>3. rules \in Seq(Rules) /\ \A i \in DOMAIN rules : rules[i].key = IPKey(sess[c].ip)
    <3>1. Len(all) >= 1
      BY <1>3 DEF PolicyRules, AllModes
    <3> HIDE DEF all
    <3> QED BY <1>4, <2>1, <3>1
  <2>4. sess' = [sess EXCEPT ![c] = NoSession] \/ sess' = [sess EXCEPT ![c] = end]
    BY <1>3, <2>2 DEF SetupFailed, SessGoto
  <2>5. NoSession \in Jobs /\ NoSession.pc = "none"
    BY <1>3, JobsFacts
  <2>6. /\ crossed' \subseteq Containers /\ crossed \subseteq crossed'
        /\ \A d \in Containers : d # c /\ ip[d] # NoIP /\ d \notin crossed' => ip[d] # sess[c].ip
    BY <1>3, <2>2 DEF Cross, IInv, Leases
  <2> HIDE DEF rules, end
  <2>7. \A d \in Containers : d # c /\ ip[d] # NoIP /\ d \notin crossed' =>
          \A i \in DOMAIN rules : rules[i].key # IPKey(ip[d])
    BY <2>3, <2>6, KeysApart
  <2>8. chain' = chain \o rules
    BY <2>1 DEF rules
  <2>9. PICK new \in {NoSession, end} : sess' = [sess EXCEPT ![c] = new]
    BY <2>4
  <2>10. /\ new \in Jobs /\ new.pc \in {"none", "release"}
         /\ new = NoSession \/ (new.pc # "none" /\ new.ip = sess[c].ip /\ new.mode = sess[c].mode)
         /\ UNCHANGED <<world, inst, veth, starts, ip, ip6, kill, clean, orphans, guard, late>>
    BY <1>1, <1>5, <2>2, <2>5, <2>9
  <2> QED BY <1>1, <2>3, <2>6, <2>7, <2>8, <2>9, <2>10, AppendKeeps
<1> QED BY <1>6, <1>7

-----------------------------------------------------------------------------
(* The invariant and the policy *)

\* Nothing runs and no rule is there when a behaviour starts.
LEMMA InitHolds == Init => IInv
<1> SUFFICES ASSUME Init PROVE IInv
  OBVIOUS
<1>0. /\ world \in Worlds /\ starts = 0 /\ chain = <<>> /\ ip6 = {} /\ clean = {}
      /\ orphans = NoOrphans
      /\ inst = [c \in Containers |-> "absent"] /\ veth = [c \in Containers |-> 0]
      /\ ip = [c \in Containers |-> NoIP] /\ sess = [c \in Containers |-> NoSession]
      /\ kill = [c \in Containers |-> NoKill] /\ guard = [c \in Containers |-> NoGuard]
      /\ late = [c \in Containers |-> {}] /\ crossed = {}
  BY DEF Init
<1>1. /\ NoSession \in Jobs /\ NoSession.pc = "none" /\ NoSession.ip = NoIP
      /\ NoKill \in Kills /\ NoKill.ip = NoIP
      /\ NoGuard \in Guards /\ NoGuard.state = "none"
      /\ NoOrphans \in Scans /\ NoOrphans.pc = "idle"
  BY DEF NoSession, NoKill, NoGuard, NoOrphans, Jobs, Kills, Guards, Scans, SessionStates,
         AllModes
<1>2. chain \in Seq(Rules) /\ DOMAIN chain = {}
  BY <1>0
<1>3. Typed
  BY <1>0, <1>1, <1>2 DEF Typed
<1>4. Interfaces
  BY <1>0 DEF Interfaces
<1>5. Leases
  BY <1>0, <1>1 DEF Leases
<1>6. Blocks
  BY <1>2 DEF Blocks
<1>7. Stages
  BY <1>0, <1>1 DEF Stages, Setup
<1>8. Policies
  BY <1>0, <1>1 DEF Policies
<1> QED BY <1>3, <1>4, <1>5, <1>6, <1>7, <1>8 DEF IInv

\* Every step of the sessions, the other commands, incus and the guests keeps
\* the invariant.
LEMMA NextKeeps == IInv /\ [Next]_vars => IInv'
<1> SUFFICES ASSUME IInv, [Next]_vars PROVE IInv'
  OBVIOUS
<1>1. CASE UNCHANGED vars
  BY <1>1 DEF vars, IInv, Typed, Interfaces, Leases, Blocks, Stages, Policies
<1>2. ASSUME NEW c \in Containers, SessionStep(c), UNCHANGED world PROVE IInv'
  <2>1. ASSUME NEW mode \in Modes, Launch(c, mode) PROVE IInv'
    BY <1>2, <2>1, LaunchKeeps
  <2>2. ASSUME NEW mode \in Modes, Reuse(c, mode) PROVE IInv'
    BY <1>2, <2>2, EntersKeep
  <2>3. CASE ApplyBootBlockRule(c)
    BY <1>2, <2>3, ApplyBootBlockKeeps
  <2>4. CASE GetContainerIP(c)
    BY <1>2, <2>4, EntersKeep
  <2>5. CASE ApplyPolicy(c)
    BY <1>2, <2>5, ApplyPolicyKeeps
  <2>6. CASE ApplyPolicyFails(c)
    BY <1>2, <2>6, ApplyPolicyFailsKeeps
  <2>7. CASE \/ PurgeStaleRules(c) \/ RemoveBootBlock(c) \/ TeardownRules(c)
             \/ TeardownBootBlock(c)
    BY <1>2, <2>7, DeletesKeep
  <2>8. CASE BootBlockFails(c) \/ ReleaseContainer(c)
    BY <1>2, <2>8, StopsKeep
  <2>9. CASE \/ RunOpen(c) \/ NoAddress(c) \/ ApplyIPv6Block(c) \/ IPv6BlockFails(c)
             \/ ApplyUserHosts(c) \/ UserHostsFail(c) \/ EndSession(c) \/ TeardownIPv6(c)
    BY <1>2, <2>9, QuietStepsKeep
  <2> QED BY <1>2, <2>1, <2>2, <2>3, <2>4, <2>5, <2>6, <2>7, <2>8, <2>9 DEF SessionStep
<1>3. ASSUME NEW c \in Containers, UNCHANGED world,
             Crash(c) \/ PowerOff(c) \/ Dhcp(c) \/ KillStep(c) \/ CleanDelete(c)
      PROVE IInv'
  <2>1. CASE Crash(c)
    BY <1>3, <2>1, QuietStepsKeep
  <2>2. CASE Dhcp(c)
    BY <1>3, <2>2, DhcpKeeps
  <2>3. CASE KillRules(c)
    BY <1>3, <2>3, DeletesKeep
  <2>4. CASE \/ PowerOff(c) \/ KillBegin(c) \/ KillStop(c) \/ KillIPv6(c) \/ KillDelete(c)
             \/ CleanDelete(c)
    BY <1>3, <2>4, StopsKeep
  <2> QED BY <1>3, <2>1, <2>2, <2>3, <2>4 DEF KillStep
<1>4. ASSUME CleanList \/ OrphansStep, UNCHANGED world PROVE IInv'
  <2>1. ASSUME NEW k \in orphans.keys, OrphansDeleteKey(k) PROVE IInv'
    BY <1>4, <2>1, OrphansDeleteKeyKeeps
  <2>2. CASE \/ CleanList \/ OrphansList \/ OrphansDetect \/ OrphansEnd
             \/ \E n \in orphans.names : OrphansDeleteName(n)
    BY <1>4, <2>2, ScansKeep
  <2> QED BY <1>4, <2>1, <2>2 DEF OrphansStep
<1> QED BY <1>1, <1>2, <1>3, <1>4 DEF Next

\* The rules that see a container whose policy is reported are those of its
\* address: no boot block has its interface.
LEMMA PolicySeesAddress ==
  ASSUME IInv, NEW c \in Containers, guard[c].state = "policy", ip[c] # NoIP,
         NEW i \in DOMAIN chain
  PROVE Matches(chain[i], c) <=> chain[i].key = IPKey(ip[c])
<1>1. chain[i].key \in AllKeys
  BY RuleTypes DEF IInv
<1>2. CASE chain[i].key \in IPKeys
  BY <1>2 DEF IPKeys, Matches, IPKey
<1>3. CASE chain[i].key \in BootKeys
  <2>1. PICK d \in Containers : chain[i].key = BootKey(d)
    BY <1>3 DEF BootKeys
  <2>2. veth[c] # chain[i].veth
    BY <2>1 DEF IInv, Blocks, Policies
  <2>3. chain[i].key[1] = "boot" /\ chain[i].key # IPKey(ip[c])
    BY <2>1, KeysApart DEF BootKey
  <2> QED BY <2>2, <2>3 DEF Matches
<1> QED BY <1>1, <1>2, <1>3 DEF AllKeys

\* What serves an address is the verdict its packets get.
LEMMA InvExact == IInv => PolicyExact
<1> SUFFICES ASSUME IInv, NEW c \in Containers, NEW p \in Packets,
                    guard[c].state = "policy", ip[c] # NoIP, c \notin crossed
             PROVE Egress(c, p) = Promised(guard[c].mode, p)
  BY DEF PolicyExact
<1> DEFINE hits == {i \in DOMAIN chain : Matches(chain[i], c) /\ chain[i][p] # "next"}
           verdict == Promised(guard[c].mode, p)
<1>1. hits = {i \in DOMAIN chain : chain[i].key = IPKey(ip[c]) /\ chain[i][p] # "next"}
  BY PolicySeesAddress
<1>2. Egress(c, p) = IF hits = {} THEN "accept" ELSE chain[Min(hits)][p]
  BY DEF Egress
<1>3. verdict # "next"
  BY DEF Promised
<1>4. Serves(chain, ip[c], guard[c].mode)
  BY DEF IInv, Policies
<1>5. DOMAIN chain \subseteq Nat \ {0} /\ \A i \in DOMAIN chain : 1..i \subseteq DOMAIN chain
  BY DEF IInv, Typed
<1> HIDE DEF hits
<1>6. CASE \E i \in DOMAIN chain :
             /\ chain[i].key = IPKey(ip[c]) /\ chain[i][p] = verdict
             /\ \A j \in 1..(i - 1) : chain[j].key = IPKey(ip[c]) => chain[j][p] = "next"
  <2>1. PICK i \in DOMAIN chain :
             /\ chain[i].key = IPKey(ip[c]) /\ chain[i][p] = verdict
             /\ \A j \in 1..(i - 1) : chain[j].key = IPKey(ip[c]) => chain[j][p] = "next"
    BY <1>6
  <2> HIDE DEF verdict
  <2>2. i \in hits /\ hits \subseteq Nat
    BY <1>1, <1>3, <1>5, <2>1
  <2>3. \A j \in hits : i <= j
    <3> SUFFICES ASSUME NEW j \in hits, j < i PROVE FALSE
      BY <2>2
    <3>1. j \in 1..(i - 1)
      BY <1>1, <1>5
    <3> QED BY <1>1, <2>1, <3>1
  <2>4. Min(hits) = i
    BY <2>2, <2>3 DEF Min
  <2> QED BY <1>2, <2>1, <2>2, <2>4 DEF verdict
<1>7. CASE /\ verdict = "accept"
           /\ \A i \in DOMAIN chain : chain[i].key = IPKey(ip[c]) => chain[i][p] = "next"
  BY <1>1, <1>2, <1>7
<1> QED BY <1>4, <1>6, <1>7 DEF Serves

\* From the moment SetupForContainer has returned nil until the container
\* stops, or its rules are crossed by a process that had learned its address
\* before it did, its traffic gets exactly the verdicts of its mode: for any number of
\* containers and addresses, whichever setup steps fail, and whichever
\* sessions, kills, cleans and orphan sweeps run beside it.
THEOREM PolicyAlwaysExact == Spec => []PolicyExact
<1>1. Spec => []IInv
  BY InitHolds, NextKeeps, PTL DEF Spec
<1> QED BY <1>1, InvExact, PTL

-----------------------------------------------------------------------------
(* coi run, undisturbed *)

\* Worlds of coi run where no step of the setup after the boot block fails, no
\* guest powers off and no other command runs.
Undisturbed == Flow = "run" /\ Faults \subseteq {"boot"} /\ Commands = {}

\* Sessions only, one for every running container.
Alone ==
  /\ clean = {} /\ orphans.pc = "idle"
  /\ \A c \in Containers : kill[c].pc = "none" /\ kill[c].ip = NoIP
  /\ \A c \in Containers : sess[c].pc # "none" <=> inst[c] = "running"

\* A session that has its policy in the chain; its IPv6 block in the tables.
Ruled(job) == job.pc \in {"hosts", "lift", "unrule"} \/ (job.pc = "up" /\ job.mode # "open")
Blocked6(job) == Ruled(job) \/ job.pc \in {"purge", "apply", "unblock6"}

Known ==
  \A c \in Containers :
    /\ sess[c].pc \in Setup => sess[c].mode # "open"
    /\ Ruled(sess[c]) => sess[c].ip # NoIP

\* The session whose rule it is: every rule has one.
Owns(c, r) ==
  \/ /\ sess[c].pc \in Setup /\ r.key = BootKey(c) /\ r.veth = veth[c]
     /\ r.ok = "drop" /\ r.bad = "drop"
  \/ Ruled(sess[c]) /\ r.key = IPKey(sess[c].ip)

Owned ==
  /\ \A i \in DOMAIN chain : \E c \in Containers : Owns(c, chain[i])
  /\ \A r \in ip6 : Blocked6(sess[r[1]])

\* The block of a boot comes before the rules that would let packets pass.
Shut(rules, c) ==
  \E i \in DOMAIN rules :
    /\ rules[i].key = BootKey(c)
    /\ \A j \in 1..(i - 1) : rules[j].key # IPKey(ip[c])

Closed ==
  \A c \in Containers : guard[c].state = "blocked" => sess[c].pc \in Setup /\ Shut(chain, c)

\* Nobody remembers the address of another one's container.
Apart == crossed = {} /\ \A c \in Containers : late[c] = {}

Orderly == Alone /\ Known /\ Owned /\ Closed

RunInv == Undisturbed => Orderly /\ Apart

\* A deletion of other rules leaves a block in front.
LEMMA DeleteShut ==
  ASSUME chain \in Seq(Rules), NEW key, NEW c, key # BootKey(c), Shut(chain, c)
  PROVE Shut(DeleteRules(key), c)
<1> DEFINE P == {i \in DOMAIN chain : chain[i].key # key}
           C == Cardinality(P)
           new == DeleteRules(key)
<1>1. P \in SUBSET DOMAIN chain
  OBVIOUS
<1>2. new = Pick(chain, P)
  BY DEF DeleteRules
<1>3. /\ C \in Nat
      /\ \E f \in [1..C -> P] :
             /\ \A n, m \in 1..C : n < m => f[n] < f[m]
             /\ \A i \in P : \E n \in 1..C : f[n] = i
             /\ Pick(chain, P) = [n \in 1..C |-> chain[f[n]]]
  <2> HIDE DEF P
  <2> QED BY <1>1, PickOrder
<1>4. PICK f \in [1..C -> P] :
             /\ \A n, m \in 1..C : n < m => f[n] < f[m]
             /\ \A i \in P : \E n \in 1..C : f[n] = i
             /\ new = [n \in 1..C |-> chain[f[n]]]
  BY <1>2, <1>3
<1> HIDE DEF new, C
<1>5. DOMAIN new = 1..C /\ \A n \in 1..C : f[n] \in P /\ new[n] = chain[f[n]]
  BY <1>4
<1>6. PICK i \in DOMAIN chain :
        chain[i].key = BootKey(c) /\ \A j \in 1..(i - 1) : chain[j].key # IPKey(ip[c])
  BY DEF Shut
<1>7. i \in P
  BY <1>6
<1>8. PICK n \in 1..C : f[n] = i
  BY <1>4, <1>7
<1>9. ASSUME NEW j \in 1..(n - 1) PROVE new[j].key # IPKey(ip[c])
  <2>1. j \in 1..C /\ n \in 1..C /\ j < n
    BY <1>3, <1>8 DEF C
  <2>2. f[j] < i /\ f[j] \in P
    BY <1>4, <1>5, <1>8, <2>1
  <2>3. f[j] \in 1..(i - 1)
    BY <1>1, <2>2
  <2> HIDE DEF P
  <2> QED BY <1>5, <1>6, <2>1, <2>3
<1> HIDE DEF P
<1>10. new[n].key = BootKey(c) /\ n \in DOMAIN new
  BY <1>5, <1>6, <1>8
<1>11. Shut(new, c)
  BY <1>9, <1>10 DEF Shut
<1> QED BY <1>11 DEF new

\* So do rules appended to it.
LEMMA AppendShut ==
  ASSUME chain \in Seq(Rules), NEW rules \in Seq(Rules), NEW c, Shut(chain, c)
  PROVE Shut(chain \o rules, c)
<1>1. PICK i \in DOMAIN chain :
        chain[i].key = BootKey(c) /\ \A j \in 1..(i - 1) : chain[j].key # IPKey(ip[c])
  BY DEF Shut
<1> DEFINE new == chain \o rules
<1>2. i \in DOMAIN new /\ \A j \in 1..i : new[j] = chain[j]
  OBVIOUS
<1>3. i \in 1..i /\ \A j \in 1..(i - 1) : j \in 1..i
  OBVIOUS
<1> HIDE DEF new
<1>4. Shut(new, c)
  BY <1>1, <1>2, <1>3 DEF Shut
<1> QED BY <1>4 DEF new

\* A session that goes on without touching the chain.
LEMMA MovesOrderly ==
  ASSUME IInv, Orderly, NEW c \in Containers, NEW job \in Jobs,
         sess' = [sess EXCEPT ![c] = job], sess[c].pc # "none", job.pc # "none",
         UNCHANGED <<inst, veth, ip, chain, kill, clean, orphans, guard>>,
         job.pc \in Setup => job.mode # "open",
         Ruled(job) => job.ip # NoIP,
         sess[c].pc \in Setup => job.pc \in Setup,
         Ruled(sess[c]) => Ruled(job) /\ job.ip = sess[c].ip,
         \A r \in ip6' : r \in ip6 \/ r[1] = c,
         \A r \in ip6' : r[1] = c => Blocked6(job)
  PROVE Orderly'
<1> USE DEF Orderly
<1>1. sess'[c] = job /\ \A d \in Containers : d # c => sess'[d] = sess[d]
  BY DEF IInv, Typed
<1>2. Alone'
  BY <1>1 DEF Alone
<1>3. Known'
  BY <1>1 DEF Known
<1>4. \A d \in Containers, i \in DOMAIN chain : Owns(d, chain[i]) => Owns(d, chain[i])'
  BY <1>1 DEF Owns
<1>5. Owned'
  <2>1. ip6 \subseteq Containers \X Nat
    BY DEF IInv, Typed
  <2>2. \A r \in ip6' : Blocked6(sess'[r[1]])
    BY <1>1, <2>1 DEF Owned
  <2>3. \A i \in DOMAIN chain : \E d \in Containers : Owns(d, chain[i])'
    BY <1>4 DEF Owned
  <2> QED BY <2>2, <2>3 DEF Owned
<1>6. Closed'
  BY <1>1 DEF Closed, Shut
<1> QED BY <1>2, <1>3, <1>5, <1>6

\* A session of coi run goes to another state.
LEMMA RunGotoJob ==
  ASSUME Typed, NEW c \in Containers, NEW label \in SessionStates, SessGoto(c, label)
  PROVE \E job \in Jobs : /\ sess' = [sess EXCEPT ![c] = job]
                          /\ job.pc = label /\ job.ip = sess[c].ip /\ job.mode = sess[c].mode
<1> DEFINE job == [sess[c] EXCEPT !.pc = label]
<1>1. sess' = [sess EXCEPT ![c] = job]
  BY DEF SessGoto, Typed
<1>2. job \in Jobs /\ job.pc = label /\ job.ip = sess[c].ip /\ job.mode = sess[c].mode
  BY JobsFacts
<1> HIDE DEF job
<1> QED BY <1>1, <1>2

\* The steps of coi run that leave the chain alone.
LEMMA RunQuietSteps ==
  ASSUME IInv, Orderly, Undisturbed, NEW c \in Containers,
         \/ BootBlockFails(c) \/ RunOpen(c) \/ GetContainerIP(c) \/ NoAddress(c)
         \/ ApplyIPv6Block(c) \/ IPv6BlockFails(c) \/ ApplyUserHosts(c) \/ UserHostsFail(c)
         \/ EndSession(c) \/ TeardownIPv6(c)
  PROVE Orderly'
<1>1. Typed /\ Interfaces /\ Leases /\ Stages
  BY DEF IInv
<1>2. /\ Alone /\ Known /\ Owned /\ sess[c] \in Jobs /\ sess \in [Containers -> Jobs]
      /\ ip \in [Containers -> IPs \cup {NoIP}] /\ ip6 \subseteq Containers \X Nat
  BY <1>1 DEF Orderly, Typed
<1>3. /\ Flow = "run" /\ Faults \subseteq {"boot"} /\ Commands = {}
      /\ sess[c].pc # "none" => inst[c] = "running" /\ veth[c] # 0
  BY <1>1, <1>2 DEF Undisturbed, Alone, Interfaces
<1>4. CASE BootBlockFails(c)
  <2>1. /\ sess[c].pc = "boot" /\ SessGoto(c, "release")
        /\ UNCHANGED <<inst, veth, ip, chain, ip6, kill, clean, orphans, guard>>
    BY <1>3, <1>4 DEF BootBlockFails, SetupFailed
  <2>2. PICK job \in Jobs : /\ sess' = [sess EXCEPT ![c] = job]
                            /\ job.pc = "release" /\ job.ip = sess[c].ip
                            /\ job.mode = sess[c].mode
    BY <1>1, <2>1, RunGotoJob DEF SessionStates
  <2>3. ~Ruled(job) /\ ~Ruled(sess[c]) /\ job.pc \notin Setup /\ sess[c].pc \notin Setup
    BY <2>1, <2>2 DEF Ruled, Setup
  <2>4. \A r \in ip6 : r[1] # c
    BY <1>2, <2>1 DEF Owned, Blocked6, Ruled
  <2> QED BY <2>1, <2>2, <2>3, <2>4, MovesOrderly
<1>5. CASE RunOpen(c)
  <2>1. /\ sess[c].pc = "boot" /\ sess[c].mode = "open" /\ SessGoto(c, "up")
        /\ UNCHANGED <<inst, veth, ip, chain, ip6, kill, clean, orphans, guard>>
    BY <1>5 DEF RunOpen
  <2>2. PICK job \in Jobs : /\ sess' = [sess EXCEPT ![c] = job]
                            /\ job.pc = "up" /\ job.ip = sess[c].ip /\ job.mode = sess[c].mode
    BY <1>1, <2>1, RunGotoJob DEF SessionStates
  <2>3. ~Ruled(job) /\ ~Ruled(sess[c]) /\ job.pc \notin Setup /\ sess[c].pc \notin Setup
    BY <2>1, <2>2 DEF Ruled, Setup
  <2>4. \A r \in ip6 : r[1] # c
    BY <1>2, <2>1 DEF Owned, Blocked6, Ruled
  <2> QED BY <2>1, <2>2, <2>3, <2>4, MovesOrderly
<1>6. CASE GetContainerIP(c)
  <2> DEFINE job == [pc |-> "ip6", mode |-> sess[c].mode, ip |-> ip[c]]
  <2>1. /\ sess[c].pc = "address" /\ sess[c].mode # "open" /\ ip[c] # NoIP
        /\ UNCHANGED <<inst, veth, ip, chain, ip6, kill, clean, orphans, guard>>
    BY <1>2, <1>6 DEF GetContainerIP, Known, Setup
  <2>2. sess' = [sess EXCEPT ![c] = job]
    BY <1>2, <1>6, <2>1 DEF GetContainerIP, Jobs
  <2>3. job \in Jobs /\ job.pc = "ip6" /\ job.mode # "open"
    BY <1>2, <2>1 DEF Jobs, SessionStates
  <2> HIDE DEF job
  <2>4. ~Ruled(job) /\ ~Ruled(sess[c]) /\ job.pc \in Setup
    BY <2>1, <2>3 DEF Ruled, Setup
  <2>5. \A r \in ip6 : r[1] # c
    BY <1>2, <2>1 DEF Owned, Blocked6, Ruled
  <2> QED BY <2>1, <2>2, <2>3, <2>4, <2>5, MovesOrderly
<1>7. CASE NoAddress(c)
  BY <1>3, <1>7 DEF NoAddress
<1>8. CASE ApplyIPv6Block(c)
  <2>1. /\ sess[c].pc = "ip6" /\ SessGoto(c, "purge")
        /\ \A r \in ip6' : r \in ip6 \/ r[1] = c
        /\ UNCHANGED <<inst, veth, ip, chain, kill, clean, orphans, guard>>
    BY <1>8 DEF ApplyIPv6Block
  <2>2. PICK job \in Jobs : /\ sess' = [sess EXCEPT ![c] = job]
                            /\ job.pc = "purge" /\ job.ip = sess[c].ip
                            /\ job.mode = sess[c].mode
    BY <1>1, <2>1, RunGotoJob DEF SessionStates
  <2>3. /\ ~Ruled(job) /\ ~Ruled(sess[c]) /\ job.pc \in Setup /\ job.mode # "open"
        /\ Blocked6(job)
    BY <1>2, <2>1, <2>2 DEF Ruled, Setup, Known, Blocked6
  <2> QED BY <2>1, <2>2, <2>3, MovesOrderly
<1>9. CASE IPv6BlockFails(c)
  BY <1>3, <1>9 DEF IPv6BlockFails
<1>10. CASE ApplyUserHosts(c)
  <2>1. /\ sess[c].pc = "hosts" /\ SessGoto(c, "lift")
        /\ UNCHANGED <<inst, veth, ip, chain, ip6, kill, clean, orphans, guard>>
    BY <1>10 DEF ApplyUserHosts
  <2>2. PICK job \in Jobs : /\ sess' = [sess EXCEPT ![c] = job]
                            /\ job.pc = "lift" /\ job.ip = sess[c].ip
                            /\ job.mode = sess[c].mode
    BY <1>1, <2>1, RunGotoJob DEF SessionStates
  <2>3. /\ Ruled(job) /\ Ruled(sess[c]) /\ job.pc \in Setup /\ job.mode # "open"
        /\ Blocked6(job) /\ job.ip # NoIP
    BY <1>2, <2>1, <2>2 DEF Ruled, Setup, Known, Blocked6
  <2> QED BY <2>1, <2>2, <2>3, MovesOrderly
<1>11. CASE UserHostsFail(c)
  BY <1>3, <1>11 DEF UserHostsFail
<1>12. CASE EndSession(c)
  <2>1. /\ sess[c].pc = "up"
        /\ SessGoto(c, IF sess[c].mode = "open" THEN "release" ELSE "unrule")
        /\ UNCHANGED <<inst, veth, ip, chain, ip6, kill, clean, orphans, guard>>
    BY <1>3, <1>12 DEF EndSession
  <2>2. PICK job \in Jobs : /\ sess' = [sess EXCEPT ![c] = job]
                            /\ job.pc = (IF sess[c].mode = "open" THEN "release" ELSE "unrule")
                            /\ job.ip = sess[c].ip /\ job.mode = sess[c].mode
    BY <1>1, <2>1, RunGotoJob DEF SessionStates
  <2>3. /\ Ruled(job) <=> Ruled(sess[c])
        /\ sess[c].pc \notin Setup /\ job.pc \notin Setup /\ job.pc # "none"
        /\ Ruled(job) => job.ip # NoIP
        /\ Blocked6(sess[c]) => Blocked6(job)
    BY <1>2, <2>1, <2>2 DEF Ruled, Setup, Known, Blocked6
  <2>4. \A r \in ip6 : r[1] = c => Blocked6(job)
    BY <1>2, <2>3 DEF Owned
  <2> QED BY <2>1, <2>2, <2>3, <2>4, MovesOrderly
<1>13. CASE TeardownIPv6(c)
  <2>1. /\ sess[c].pc = "unblock6" /\ SessGoto(c, "unboot")
        /\ \A r \in ip6' : r \in ip6 /\ r[1] # c
        /\ UNCHANGED <<inst, veth, ip, chain, kill, clean, orphans, guard>>
    BY <1>13 DEF TeardownIPv6, WithoutName
  <2>2. PICK job \in Jobs : /\ sess' = [sess EXCEPT ![c] = job]
                            /\ job.pc = "unboot" /\ job.ip = sess[c].ip
                            /\ job.mode = sess[c].mode
    BY <1>1, <2>1, RunGotoJob DEF SessionStates
  <2>3. ~Ruled(job) /\ ~Ruled(sess[c]) /\ job.pc \notin Setup /\ sess[c].pc \notin Setup
    BY <2>1, <2>2 DEF Ruled, Setup
  <2> QED BY <2>1, <2>2, <2>3, MovesOrderly
<1> QED BY <1>4, <1>5, <1>6, <1>7, <1>8, <1>9, <1>10, <1>11, <1>12, <1>13

\* A container is started: nothing of it is in the tables.
LEMMA RunLaunch ==
  ASSUME IInv, Orderly, NEW c \in Containers, NEW mode \in Modes, Launch(c, mode)
  PROVE Orderly'
<1> USE DEF Orderly
<1>0. /\ inst \in [Containers -> {"absent", "stopped", "running"}]
      /\ veth \in [Containers -> Nat] /\ ip \in [Containers -> IPs \cup {NoIP}]
      /\ sess \in [Containers -> Jobs] /\ guard \in [Containers -> Guards]
      /\ ip6 \subseteq Containers \X Nat
  BY DEF IInv, Typed
<1> DEFINE job == [pc |-> "boot", mode |-> mode, ip |-> NoIP]
           report == [state |-> "booting", mode |-> mode]
<1>1. /\ inst'[c] = "running" /\ sess'[c] = job /\ guard'[c] = report
      /\ \A d \in Containers : d # c => /\ inst'[d] = inst[d] /\ veth'[d] = veth[d]
                                        /\ sess'[d] = sess[d] /\ ip'[d] = ip[d]
                                        /\ guard'[d] = guard[d]
      /\ sess[c].pc = "none" /\ UNCHANGED <<chain, ip6, kill, clean, orphans>>
  BY <1>0 DEF Launch, Start
<1>2. job.pc = "boot" /\ report.state = "booting"
  OBVIOUS
<1> HIDE DEF job, report
<1>3. ~Ruled(job) /\ ~Ruled(sess[c]) /\ ~Blocked6(sess[c]) /\ job.pc \notin Setup
      /\ sess[c].pc \notin Setup
  BY <1>1, <1>2 DEF Ruled, Setup, Blocked6
<1>4. Alone'
  BY <1>1, <1>2 DEF Alone
<1>5. Known'
  BY <1>1, <1>3 DEF Known
<1>6. Owned'
  <2>1. \A d \in Containers, i \in DOMAIN chain : Owns(d, chain[i]) => d # c /\ Owns(d, chain[i])'
    BY <1>1, <1>3 DEF Owns
  <2>2. \A r \in ip6 : Blocked6(sess'[r[1]])
    BY <1>0, <1>1, <1>3 DEF Owned
  <2>3. \A i \in DOMAIN chain : \E d \in Containers : Owns(d, chain[i])'
    BY <2>1 DEF Owned
  <2> QED BY <1>1, <2>2, <2>3 DEF Owned
<1>7. Closed'
  <2> SUFFICES ASSUME NEW d \in Containers, guard'[d].state = "blocked"
               PROVE sess'[d].pc \in Setup /\ Shut(chain, d)'
    BY <1>1 DEF Closed
  <2>1. d # c
    BY <1>1, <1>2
  <2> QED BY <1>1, <2>1 DEF Closed, Shut
<1> QED BY <1>4, <1>5, <1>6, <1>7

\* It is deleted or stopped once its teardown is over.
LEMMA RunRelease ==
  ASSUME IInv, Orderly, NEW c \in Containers, ReleaseContainer(c)
  PROVE Orderly'
<1> USE DEF Orderly
<1>0. /\ inst \in [Containers -> {"absent", "stopped", "running"}]
      /\ veth \in [Containers -> Nat] /\ ip \in [Containers -> IPs \cup {NoIP}]
      /\ sess \in [Containers -> Jobs] /\ guard \in [Containers -> Guards]
      /\ ip6 \subseteq Containers \X Nat
  BY DEF IInv, Typed
<1>1. /\ inst'[c] # "running" /\ sess'[c] = NoSession /\ guard'[c] = NoGuard
      /\ \A d \in Containers : d # c => /\ inst'[d] = inst[d] /\ veth'[d] = veth[d]
                                        /\ sess'[d] = sess[d] /\ ip'[d] = ip[d]
                                        /\ guard'[d] = guard[d]
      /\ sess[c].pc = "release" /\ UNCHANGED <<chain, ip6, kill, clean, orphans>>
  <2>1. sess[c].pc = "release" /\ inst[c] = "running"
    BY DEF ReleaseContainer, Alone
  <2>2. Halt(c, IF c \in Persistent THEN "stopped" ELSE "absent")
    BY <2>1 DEF ReleaseContainer
  <2> QED BY <1>0, <2>1, <2>2 DEF ReleaseContainer, Halt
<1>2. NoSession.pc = "none" /\ NoGuard.state = "none"
  BY DEF NoSession, NoGuard
<1>3. /\ ~Ruled(NoSession) /\ ~Ruled(sess[c]) /\ ~Blocked6(sess[c])
      /\ NoSession.pc \notin Setup /\ sess[c].pc \notin Setup
  BY <1>1, <1>2 DEF Ruled, Setup, Blocked6
<1>4. Alone'
  BY <1>1, <1>2 DEF Alone
<1>5. Known'
  BY <1>1, <1>3 DEF Known
<1>6. Owned'
  <2>1. \A d \in Containers, i \in DOMAIN chain : Owns(d, chain[i]) => d # c /\ Owns(d, chain[i])'
    BY <1>1, <1>3 DEF Owns
  <2>2. \A r \in ip6 : Blocked6(sess'[r[1]])
    BY <1>0, <1>1, <1>3 DEF Owned
  <2>3. \A i \in DOMAIN chain : \E d \in Containers : Owns(d, chain[i])'
    BY <2>1 DEF Owned
  <2> QED BY <1>1, <2>2, <2>3 DEF Owned
<1>7. Closed'
  <2> SUFFICES ASSUME NEW d \in Containers, guard'[d].state = "blocked"
               PROVE sess'[d].pc \in Setup /\ Shut(chain, d)'
    BY <1>1 DEF Closed
  <2>1. d # c
    BY <1>1, <1>2
  <2> QED BY <1>1, <2>1 DEF Closed, Shut
<1> QED BY <1>4, <1>5, <1>6, <1>7

\* A session remembers an address exactly while its container has it.
LEMMA RunLeases ==
  ASSUME IInv, Orderly, NEW c \in Containers, sess[c].ip # NoIP
  PROVE ip[c] = sess[c].ip
<1>1. sess[c].pc # "none" /\ Leases /\ Alone
  BY DEF IInv, Orderly, Stages
<1> QED BY <1>1 DEF Leases, Alone

\* The guest gets its lease: nobody remembers that address, and no rule has it.
LEMMA RunDhcp ==
  ASSUME IInv, Orderly, Apart, NEW c \in Containers, Dhcp(c), UNCHANGED world
  PROVE Orderly' /\ Apart'
<1> USE DEF Orderly
<1>1. ip \in [Containers -> IPs \cup {NoIP}] /\ late \in [Containers -> SUBSET Actors]
  BY DEF IInv, Typed
<1>2. PICK a \in Pool : /\ \A d \in Containers : ip[d] # a
                        /\ ip' = [ip EXCEPT ![c] = a]
                        /\ late' = [late EXCEPT ![c] = Holding(a)]
  BY DEF Dhcp
<1>3. /\ \A d \in Containers : sess[d].ip # a /\ kill[d].ip # a
      /\ UNCHANGED <<inst, veth, starts, chain, ip6, sess, kill, clean, orphans, guard,
                     crossed>>
  <2>1. a # NoIP
    BY WorldFacts, FirewallAssumption DEF IInv, Typed
  <2> QED BY <1>2, <2>1, RunLeases DEF Dhcp, Alone
<1>8. Apart'
  <2>1. Holding(a) = {}
    BY <1>3 DEF Holding, Alone
  <2> QED BY <1>1, <1>2, <1>3, <2>1 DEF Apart
<1>4. (Alone /\ Known)'
  BY <1>3 DEF Alone, Known
<1>5. Owned'
  BY <1>3 DEF Owned, Owns
<1>6. \A i \in DOMAIN chain : chain[i].key # IPKey(a)
  BY <1>3, KeysApart DEF Owned, Owns
<1>7. Closed'
  <2> SUFFICES ASSUME NEW d \in Containers, guard[d].state = "blocked"
               PROVE sess[d].pc \in Setup /\ Shut(chain, d)'
    BY <1>3 DEF Closed
  <2>1. PICK i \in DOMAIN chain : /\ chain[i].key = BootKey(d)
                                  /\ \A j \in 1..(i - 1) : chain[j].key # IPKey(ip[d])
    BY DEF Closed, Shut
  <2>2. ip'[d] = ip[d] \/ ip'[d] = a
    BY <1>1, <1>2
  <2>3. \A j \in 1..(i - 1) : j \in DOMAIN chain
    BY DEF IInv, Typed
  <2>4. \A j \in 1..(i - 1) : chain[j].key # IPKey(ip'[d])
    BY <1>6, <2>1, <2>2, <2>3
  <2>5. Shut(chain, d)'
    BY <1>3, <2>1, <2>4 DEF Shut
  <2> QED BY <2>5 DEF Closed
<1> QED BY <1>4, <1>5, <1>7, <1>8

\* A deletion of rules of a session that has no more use for them.
LEMMA RunDeletes ==
  ASSUME IInv, Orderly, NEW c \in Containers, NEW job \in Jobs, NEW report \in Guards, NEW key,
         sess' = [sess EXCEPT ![c] = job], guard' = [guard EXCEPT ![c] = report],
         chain' = DeleteRules(key), sess[c].pc # "none", job.pc # "none",
         UNCHANGED <<inst, veth, ip, ip6, kill, clean, orphans>>,
         job.pc \in Setup => job.mode # "open",
         Ruled(job) => job.ip # NoIP,
         key = BootKey(c) \/ \A d : key # BootKey(d),
         sess[c].pc \in Setup => job.pc \in Setup \/ key = BootKey(c),
         Ruled(sess[c]) => (Ruled(job) /\ job.ip = sess[c].ip) \/ key = IPKey(sess[c].ip),
         Blocked6(sess[c]) => Blocked6(job),
         report.state = "blocked" =>
           guard[c].state = "blocked" /\ job.pc \in Setup /\ key # BootKey(c)
  PROVE Orderly'
<1> USE DEF Orderly
<1>1. /\ sess'[c] = job /\ guard'[c] = report
      /\ \A d \in Containers : d # c => sess'[d] = sess[d] /\ guard'[d] = guard[d]
      /\ chain \in Seq(Rules) /\ ip6 \subseteq Containers \X Nat
  BY DEF IInv, Typed
<1>2. Alone'
  BY <1>1 DEF Alone
<1>3. Known'
  BY <1>1 DEF Known
<1>4. \A n \in DOMAIN chain' : chain'[n].key # key /\ \E i \in DOMAIN chain : chain'[n] = chain[i]
  BY <1>1, DeleteKeeps
<1>5. Owned'
  <2>1. ASSUME NEW n \in DOMAIN chain' PROVE \E d \in Containers : Owns(d, chain[n])'
    <3>1. PICK i \in DOMAIN chain : chain'[n] = chain[i] /\ chain[i].key # key
      BY <1>4
    <3>2. PICK d \in Containers : Owns(d, chain[i])
      BY DEF Owned
    <3> DEFINE r == chain[i]
    <3>3. \/ /\ sess[d].pc \in Setup /\ r.key = BootKey(d) /\ r.veth = veth[d]
             /\ r.ok = "drop" /\ r.bad = "drop"
          \/ Ruled(sess[d]) /\ r.key = IPKey(sess[d].ip)
      BY <3>2 DEF Owns
    <3>4. chain'[n] = r /\ r.key # key
      BY <3>1
    <3> HIDE DEF r
    <3>5. \/ /\ sess'[d].pc \in Setup /\ r.key = BootKey(d) /\ r.veth = veth'[d]
             /\ r.ok = "drop" /\ r.bad = "drop"
          \/ Ruled(sess'[d]) /\ r.key = IPKey(sess'[d].ip)
      <4>1. CASE d = c
        BY <1>1, <3>3, <3>4, <4>1
      <4>2. CASE d # c
        BY <1>1, <3>3, <3>4, <4>2
      <4> QED BY <4>1, <4>2
    <3> QED BY <3>4, <3>5 DEF Owns, Ruled
  <2>2. \A r \in ip6 : Blocked6(sess'[r[1]])
    BY <1>1 DEF Owned
  <2>3. ip6' = ip6
    OBVIOUS
  <2> QED BY <2>1, <2>2, <2>3 DEF Owned, Blocked6, Ruled
<1>6. Closed'
  <2> SUFFICES ASSUME NEW d \in Containers, guard'[d].state = "blocked"
               PROVE sess'[d].pc \in Setup /\ Shut(chain, d)'
    BY DEF Closed
  <2>1. guard[d].state = "blocked" /\ sess'[d].pc \in Setup /\ key # BootKey(d)
    <3>1. CASE d = c
      BY <1>1, <3>1
    <3>2. CASE d # c
      BY <1>1, <3>2, KeysApart DEF Closed
    <3> QED BY <3>1, <3>2
  <2>2. Shut(chain, d)
    BY <2>1 DEF Closed
  <2>3. Shut(DeleteRules(key), d)
    BY <1>1, <2>1, <2>2, DeleteShut
  <2>4. Shut(chain, d)'
    BY <2>3 DEF Shut
  <2> QED BY <2>1, <2>4
<1> QED BY <1>2, <1>3, <1>5, <1>6

\* The deletions of coi run: each deletes what its session has no more use for.
LEMMA RunDeleteSteps ==
  ASSUME IInv, Orderly, NEW c \in Containers,
         \/ PurgeStaleRules(c) \/ RemoveBootBlock(c) \/ TeardownRules(c) \/ TeardownBootBlock(c)
  PROVE Orderly'
<1>1. Typed /\ Known /\ Alone /\ Closed /\ Stages
  BY DEF IInv, Orderly
<1>2. /\ guard \in [Containers -> Guards] /\ guard[c] \in Guards
      /\ guard = [guard EXCEPT ![c] = guard[c]]
      /\ guard[c].state = "blocked" => sess[c].pc \in Setup
      /\ \A a, d : IPKey(a) # BootKey(d)
  BY <1>1, KeysApart DEF Typed, Closed
<1>3. CASE PurgeStaleRules(c)
  <2>1. /\ sess[c].pc = "purge" /\ SessGoto(c, "apply")
        /\ chain' = DeleteRules(IPKey(sess[c].ip))
        /\ UNCHANGED <<inst, veth, ip, ip6, kill, clean, orphans, guard>>
    BY <1>3 DEF PurgeStaleRules
  <2>2. PICK job \in Jobs : /\ sess' = [sess EXCEPT ![c] = job]
                            /\ job.pc = "apply" /\ job.ip = sess[c].ip
                            /\ job.mode = sess[c].mode
    BY <1>1, <2>1, RunGotoJob DEF SessionStates
  <2>3. /\ ~Ruled(job) /\ ~Ruled(sess[c]) /\ job.pc \in Setup /\ job.mode # "open"
        /\ Blocked6(job)
    BY <1>1, <2>1, <2>2 DEF Ruled, Setup, Known, Blocked6
  <2> DEFINE key == IPKey(sess[c].ip)
  <2>4. chain' = DeleteRules(key) /\ \A d : key # BootKey(d)
    BY <1>2, <2>1
  <2> HIDE DEF key
  <2>5. guard' = [guard EXCEPT ![c] = guard[c]]
    BY <1>2, <2>1
  <2>6. guard[c].state = "blocked" =>
          guard[c].state = "blocked" /\ job.pc \in Setup /\ key # BootKey(c)
    BY <2>3, <2>4
  <2> QED BY <1>2, <2>1, <2>2, <2>3, <2>4, <2>5, <2>6, RunDeletes
<1>4. CASE RemoveBootBlock(c)
  <2>1. /\ sess[c].pc = "lift" /\ SessGoto(c, "up") /\ guard' = Reported(c)
        /\ chain' = DeleteRules(BootKey(c))
        /\ UNCHANGED <<inst, veth, ip, ip6, kill, clean, orphans>>
    BY <1>4 DEF RemoveBootBlock
  <2>2. PICK job \in Jobs : /\ sess' = [sess EXCEPT ![c] = job]
                            /\ job.pc = "up" /\ job.ip = sess[c].ip
                            /\ job.mode = sess[c].mode
    BY <1>1, <2>1, RunGotoJob DEF SessionStates
  <2>3. /\ Ruled(job) /\ job.pc \notin Setup /\ job.ip # NoIP /\ Blocked6(job)
    BY <1>1, <2>1, <2>2 DEF Ruled, Setup, Known, Blocked6
  <2> DEFINE report == [state |-> IF sess[c].ip = NoIP THEN "unruled" ELSE "policy",
                        mode |-> sess[c].mode]
             key == BootKey(c)
  <2>4. guard' = [guard EXCEPT ![c] = report]
    BY <1>1, <2>1 DEF Reported, Alone
  <2>5. sess[c].mode \in AllModes
    BY <1>1 DEF Typed, Jobs
  <2>6. report \in Guards /\ report.state # "blocked"
    BY <2>5 DEF Guards
  <2>7. chain' = DeleteRules(key) /\ key = BootKey(c)
    BY <2>1
  <2> HIDE DEF report, key
  <2> QED BY <2>1, <2>2, <2>3, <2>4, <2>6, <2>7, RunDeletes
<1>5. CASE TeardownRules(c)
  <2>1. sess[c].pc = "unrule" /\ sess[c].ip # NoIP
    BY <1>1, <1>5 DEF TeardownRules, Known, Ruled
  <2>2. /\ SessGoto(c, "unblock6") /\ chain' = DeleteRules(IPKey(sess[c].ip))
        /\ guard' = [guard EXCEPT ![c].state = IF @ = "policy" THEN "released" ELSE @]
        /\ UNCHANGED <<inst, veth, ip, ip6, kill, clean, orphans>>
    BY <1>5, <2>1 DEF TeardownRules
  <2>3. PICK job \in Jobs : /\ sess' = [sess EXCEPT ![c] = job]
                            /\ job.pc = "unblock6" /\ job.ip = sess[c].ip
                            /\ job.mode = sess[c].mode
    BY <1>1, <2>2, RunGotoJob DEF SessionStates
  <2>4. /\ ~Ruled(job) /\ job.pc \notin Setup /\ sess[c].pc \notin Setup /\ Blocked6(job)
    BY <2>1, <2>3 DEF Ruled, Setup, Blocked6
  <2> DEFINE report == [guard[c] EXCEPT !.state = IF @ = "policy" THEN "released" ELSE @]
             key == IPKey(sess[c].ip)
  <2>5. guard' = [guard EXCEPT ![c] = report]
    BY <1>2, <2>2
  <2>6. report \in Guards /\ report.state # "blocked"
    BY <1>2, <2>4 DEF Guards
  <2>7. /\ chain' = DeleteRules(key) /\ key = IPKey(sess[c].ip) /\ \A d : key # BootKey(d)
    BY <1>2, <2>2
  <2> HIDE DEF report, key
  <2>8. /\ sess[c].pc # "none" /\ job.pc # "none"
        /\ sess' = [sess EXCEPT ![c] = job]
        /\ UNCHANGED <<inst, veth, ip, ip6, kill, clean, orphans>>
    BY <2>1, <2>2, <2>3
  <2> QED BY <2>4, <2>5, <2>6, <2>7, <2>8, RunDeletes
<1>6. CASE TeardownBootBlock(c)
  <2>1. /\ sess[c].pc = "unboot" /\ SessGoto(c, "release")
        /\ chain' = DeleteRules(BootKey(c))
        /\ UNCHANGED <<inst, veth, ip, ip6, kill, clean, orphans, guard>>
    BY <1>6 DEF TeardownBootBlock
  <2>2. PICK job \in Jobs : /\ sess' = [sess EXCEPT ![c] = job]
                            /\ job.pc = "release" /\ job.ip = sess[c].ip
                            /\ job.mode = sess[c].mode
    BY <1>1, <2>1, RunGotoJob DEF SessionStates
  <2>3. /\ ~Ruled(job) /\ ~Ruled(sess[c]) /\ job.pc \notin Setup /\ sess[c].pc \notin Setup
        /\ ~Blocked6(sess[c])
    BY <2>1, <2>2 DEF Ruled, Setup, Blocked6
  <2> DEFINE key == BootKey(c)
  <2>4. chain' = DeleteRules(key) /\ key = BootKey(c)
    BY <2>1
  <2> HIDE DEF key
  <2>5. guard' = [guard EXCEPT ![c] = guard[c]] /\ guard[c].state # "blocked"
    BY <1>2, <2>1, <2>3
  <2> QED BY <1>2, <2>1, <2>2, <2>3, <2>4, <2>5, RunDeletes
<1> QED BY <1>3, <1>4, <1>5, <1>6

\* Rules of a session that keeps them.
LEMMA RunAppends ==
  ASSUME IInv, Orderly, NEW c \in Containers, NEW job \in Jobs, NEW report \in Guards,
         NEW rules \in Seq(Rules),
         sess' = [sess EXCEPT ![c] = job], guard' = [guard EXCEPT ![c] = report],
         chain' = chain \o rules, sess[c].pc # "none", job.pc # "none",
         UNCHANGED <<inst, veth, ip, ip6, kill, clean, orphans>>,
         job.pc \in Setup, job.mode # "open",
         Ruled(job) => job.ip # NoIP,
         ~Ruled(sess[c]),
         Blocked6(sess[c]) => Blocked6(job),
         \A i \in DOMAIN rules :
           \/ /\ rules[i].key = BootKey(c) /\ rules[i].veth = veth[c]
              /\ rules[i].ok = "drop" /\ rules[i].bad = "drop"
           \/ Ruled(job) /\ rules[i].key = IPKey(job.ip),
         report.state = "blocked" => guard[c].state = "blocked" \/ Shut(chain', c)
  PROVE Orderly'
<1> USE DEF Orderly
<1>1. /\ sess'[c] = job /\ guard'[c] = report
      /\ \A d \in Containers : d # c => sess'[d] = sess[d] /\ guard'[d] = guard[d]
      /\ chain \in Seq(Rules) /\ ip6 \subseteq Containers \X Nat
  BY DEF IInv, Typed
<1>2. Alone'
  BY <1>1 DEF Alone
<1>3. Known'
  BY <1>1 DEF Known
<1>4. \A n \in DOMAIN chain' : \/ \E i \in DOMAIN chain : chain'[n] = chain[i]
                               \/ \E i \in DOMAIN rules : chain'[n] = rules[i]
  BY <1>1, Appended DEF IInv
<1>5. Owned'
  <2>1. ASSUME NEW n \in DOMAIN chain' PROVE \E d \in Containers : Owns(d, chain[n])'
    <3> DEFINE r == chain'[n]
    <3> SUFFICES \E d \in Containers :
          \/ /\ sess'[d].pc \in Setup /\ r.key = BootKey(d) /\ r.veth = veth'[d]
             /\ r.ok = "drop" /\ r.bad = "drop"
          \/ Ruled(sess'[d]) /\ r.key = IPKey(sess'[d].ip)
      BY DEF Owns, Ruled
    <3> HIDE DEF r
    <3>1. CASE \E i \in DOMAIN chain : r = chain[i]
      <4>1. PICK d \in Containers : Owns(d, r)
        BY <3>1 DEF Owned
      <4>2. d = c => sess[d].pc \in Setup /\ r.key = BootKey(d) /\ r.veth = veth[d]
                     /\ r.ok = "drop" /\ r.bad = "drop"
        BY <4>1 DEF Owns
      <4> QED BY <1>1, <4>1, <4>2 DEF Owns
    <3>2. CASE \E i \in DOMAIN rules : r = rules[i]
      BY <1>1, <3>2
    <3> QED BY <1>4, <3>1, <3>2 DEF r
  <2>2. \A r \in ip6 : Blocked6(sess'[r[1]])
    BY <1>1 DEF Owned
  <2>3. ip6' = ip6
    OBVIOUS
  <2> QED BY <2>1, <2>2, <2>3 DEF Owned, Blocked6, Ruled
<1>6. Closed'
  <2> SUFFICES ASSUME NEW d \in Containers, guard'[d].state = "blocked"
               PROVE sess'[d].pc \in Setup /\ Shut(chain, d)'
    BY DEF Closed
  <2>1. CASE guard[d].state = "blocked"
    <3>1. Shut(chain, d) /\ sess'[d].pc \in Setup
      BY <1>1, <2>1 DEF Closed
    <3>2. Shut(chain \o rules, d)
      BY <1>1, <3>1, AppendShut
    <3> QED BY <3>1, <3>2 DEF Shut
  <2>2. CASE guard[d].state # "blocked"
    <3>1. d = c /\ sess'[d].pc \in Setup /\ Shut(chain', c)
      BY <1>1, <2>2
    <3> QED BY <3>1 DEF Shut
  <2> QED BY <2>1, <2>2
<1> QED BY <1>2, <1>3, <1>5, <1>6

\* Where the elements of two sequences are in their concatenation.
LEMMA Joined ==
  ASSUME NEW S, NEW s \in Seq(S), NEW t \in Seq(S)
  PROVE /\ DOMAIN (s \o t) = 1..(Len(s) + Len(t))
        /\ \A i \in 1..Len(s) : (s \o t)[i] = s[i]
        /\ \A i \in 1..Len(t) : (s \o t)[Len(s) + i] = t[i]
  OBVIOUS

\* The block of a boot, for which the name has none yet, and the policy.
LEMMA RunAppendSteps ==
  ASSUME IInv, Orderly, Apart, Undisturbed, NEW c \in Containers,
         ApplyBootBlockRule(c) \/ ApplyPolicy(c) \/ ApplyPolicyFails(c)
  PROVE Orderly'
<1>1. Typed /\ Known /\ Alone /\ Closed /\ Owned /\ Stages /\ Leases /\ Interfaces
  BY DEF IInv, Orderly
<1>2. /\ guard \in [Containers -> Guards] /\ guard[c] \in Guards /\ chain \in Seq(Rules)
      /\ sess \in [Containers -> Jobs] /\ sess[c] \in Jobs
      /\ veth \in [Containers -> Nat] /\ ip \in [Containers -> IPs \cup {NoIP}]
      /\ guard = [guard EXCEPT ![c] = guard[c]]
  BY <1>1 DEF Typed
<1>3. CASE ApplyBootBlockRule(c)
  <2> DEFINE rule == Rule(BootKey(c), veth[c], "drop", "drop")
             rules == <<rule>>
             report == [guard[c] EXCEPT !.state = "blocked"]
  <2>1. /\ sess[c].pc = "boot" /\ SessGoto(c, "address") /\ sess[c].mode # "open"
        /\ guard' = [guard EXCEPT ![c] = report]
        /\ chain' = IF BootKey(c) \in Keys THEN chain ELSE Append(chain, rule)
        /\ UNCHANGED <<inst, veth, ip, ip6, kill, clean, orphans>>
    BY <1>2, <1>3 DEF ApplyBootBlockRule, Undisturbed
  <2>2. \A i \in DOMAIN chain : chain[i].key # BootKey(c)
    BY <1>1, <2>1, KeysApart DEF Owned, Owns, Setup
  <2>3. /\ rule.key = BootKey(c) /\ rule.veth = veth[c] /\ rule.ok = "drop" /\ rule.bad = "drop"
        /\ rule \in Rules
    BY <1>2 DEF Rule, Rules, AllKeys, BootKeys, Verdicts
  <2>4. chain' = chain \o rules
    BY <1>2, <2>1, <2>2, <2>3 DEF Keys
  <2>5. PICK job \in Jobs : /\ sess' = [sess EXCEPT ![c] = job]
                            /\ job.pc = "address" /\ job.ip = sess[c].ip
                            /\ job.mode = sess[c].mode
    BY <1>1, <2>1, RunGotoJob DEF SessionStates
  <2>6. /\ ~Ruled(job) /\ ~Ruled(sess[c]) /\ job.pc \in Setup /\ job.mode # "open"
        /\ ~Blocked6(sess[c])
    BY <2>1, <2>5 DEF Ruled, Setup, Blocked6
  <2>7. report \in Guards
    BY <1>2 DEF Guards
  <2> HIDE DEF rule, report
  <2>8. /\ rules \in Seq(Rules) /\ Len(rules) = 1 /\ DOMAIN rules = {1} /\ rules[1] = rule
    BY <2>3
  <2> HIDE DEF rules
  <2>9. Shut(chain', c)
    <3>1. \A i \in DOMAIN chain : chain[i].key # IPKey(ip[c])
      <4>1. SUFFICES ASSUME NEW i \in DOMAIN chain, chain[i].key = IPKey(ip[c]) PROVE FALSE
        OBVIOUS
      <4>2. PICK d \in Containers : Ruled(sess[d]) /\ IPKey(ip[c]) = IPKey(sess[d].ip)
        BY <1>1, <4>1, KeysApart DEF Owned, Owns
      <4>3. ip[c] = sess[d].ip /\ sess[d].ip # NoIP
        BY <1>1, <4>2, KeysApart DEF Known
      <4>4. d # c
        BY <2>6, <4>2
      <4>5. ip[d] = sess[d].ip
        BY <4>3, RunLeases
      <4> QED BY <1>1, <4>3, <4>4, <4>5 DEF Leases
    <3> DEFINE n == Len(chain) + 1
               new == chain \o rules
    <3>2. n \in DOMAIN new /\ new[n] = rule
      <4>0. chain \in Seq(Rules) /\ rules \in Seq(Rules)
        BY <1>2, <2>8
      <4>1. /\ DOMAIN new = 1..(Len(chain) + Len(rules))
            /\ \A i \in 1..Len(rules) : new[Len(chain) + i] = rules[i]
        BY ONLY <4>0, Joined
      <4>2. Len(chain) \in Nat
        BY <1>2
      <4> QED BY <2>8, <4>1, <4>2
    <3>3. \A j \in 1..(n - 1) : j \in DOMAIN chain /\ new[j] = chain[j]
      BY <1>2, <2>8
    <3> HIDE DEF n, new
    <3>4. Shut(new, c)
      BY <2>3, <3>1, <3>2, <3>3 DEF Shut
    <3> QED BY <2>4, <3>4 DEF new
  <2>10. \A i \in DOMAIN rules :
           /\ rules[i].key = BootKey(c) /\ rules[i].veth = veth[c]
           /\ rules[i].ok = "drop" /\ rules[i].bad = "drop"
    BY <2>3, <2>8
  <2>11. sess[c].pc # "none" /\ job.pc # "none"
    BY <2>1, <2>5
  <2> QED BY <2>1, <2>4, <2>5, <2>6, <2>7, <2>8, <2>9, <2>10, <2>11, RunAppends
<1>4. CASE ApplyPolicy(c)
  <2> DEFINE rules == PolicyRules(sess[c].ip, sess[c].mode)
  <2>1. /\ sess[c].pc = "apply" /\ SessGoto(c, "hosts") /\ sess[c].mode # "open"
        /\ chain' = chain \o rules
        /\ UNCHANGED <<inst, veth, ip, ip6, kill, clean, orphans, guard>>
    BY <1>1, <1>4 DEF ApplyPolicy, Known, Setup
  <2>2. sess[c].ip # NoIP /\ sess[c].ip \in IPs /\ sess[c].mode \in AllModes
    BY <1>1, <1>2, <2>1 DEF Stages, Jobs
  <2>3. \A i \in DOMAIN chain : chain[i].key # IPKey(sess[c].ip)
    BY <2>1, <2>2, RunLeases DEF IInv, Policies, Apart
  <2>4. rules \in Seq(Rules) /\ \A i \in DOMAIN rules : rules[i].key = IPKey(sess[c].ip)
    BY <1>2, <2>2, <2>3, PolicyServes
  <2> HIDE DEF rules
  <2>5. PICK job \in Jobs : /\ sess' = [sess EXCEPT ![c] = job]
                            /\ job.pc = "hosts" /\ job.ip = sess[c].ip
                            /\ job.mode = sess[c].mode
    BY <1>1, <2>1, RunGotoJob DEF SessionStates
  <2>6. /\ Ruled(job) /\ ~Ruled(sess[c]) /\ job.pc \in Setup /\ job.mode # "open"
        /\ Blocked6(job) /\ job.ip # NoIP
    BY <2>1, <2>2, <2>5 DEF Ruled, Setup, Blocked6
  <2>7. guard' = [guard EXCEPT ![c] = guard[c]]
    BY <1>2, <2>1
  <2>8. /\ \A i \in DOMAIN rules : Ruled(job) /\ rules[i].key = IPKey(job.ip)
        /\ sess[c].pc # "none" /\ job.pc # "none" /\ sess' = [sess EXCEPT ![c] = job]
        /\ guard[c].state = "blocked" => guard[c].state = "blocked" \/ Shut(chain', c)
    BY <2>1, <2>4, <2>5, <2>6
  <2>9. UNCHANGED <<inst, veth, ip, ip6, kill, clean, orphans>> /\ chain' = chain \o rules
    BY <2>1
  <2> QED BY <1>2, <2>4, <2>6, <2>7, <2>8, <2>9, RunAppends
<1>5. CASE ApplyPolicyFails(c)
  BY <1>5 DEF ApplyPolicyFails, Undisturbed
<1> QED BY <1>3, <1>4, <1>5

\* Nobody crosses a container.
LEMMA RunApart ==
  ASSUME IInv, Apart, NEW c \in Containers, SessionStep(c)
  PROVE Apart'
<1> USE DEF Apart
<1>1. late \in [Containers -> SUBSET Actors]
  BY DEF IInv, Typed
<1>2. \A x, a : Cross(x, a) = {}
  BY DEF Cross
<1>3. ASSUME NEW mode \in Modes, Launch(c, mode) \/ Reuse(c, mode) PROVE Apart'
  BY <1>3 DEF Launch, Start, Reuse
<1>4. CASE \/ ApplyBootBlockRule(c) \/ RunOpen(c) \/ GetContainerIP(c) \/ NoAddress(c)
           \/ ApplyIPv6Block(c) \/ IPv6BlockFails(c) \/ ApplyUserHosts(c) \/ UserHostsFail(c)
           \/ RemoveBootBlock(c) \/ EndSession(c) \/ TeardownIPv6(c) \/ TeardownBootBlock(c)
  BY <1>4 DEF ApplyBootBlockRule, RunOpen, GetContainerIP, NoAddress, ApplyIPv6Block,
              IPv6BlockFails, ApplyUserHosts, UserHostsFail, RemoveBootBlock, EndSession,
              TeardownIPv6, TeardownBootBlock
<1>5. CASE BootBlockFails(c) \/ ReleaseContainer(c)
  <2>1. ASSUME NEW state, Halt(c, state) PROVE Apart'
    BY <1>1, <2>1 DEF Halt
  <2> QED BY <1>5, <2>1 DEF BootBlockFails, ReleaseContainer
<1>6. CASE PurgeStaleRules(c) \/ ApplyPolicy(c) \/ ApplyPolicyFails(c) \/ TeardownRules(c)
  BY <1>2, <1>6 DEF PurgeStaleRules, ApplyPolicy, ApplyPolicyFails, TeardownRules, Touch
<1> QED BY <1>3, <1>4, <1>5, <1>6 DEF SessionStep

\* Nothing is in the tables when a behaviour starts.
LEMMA RunInit == Init => RunInv
<1> SUFFICES ASSUME Init PROVE Orderly /\ Apart
  BY DEF RunInv
<1>1. /\ chain = <<>> /\ ip6 = {} /\ clean = {} /\ orphans = NoOrphans
      /\ inst = [c \in Containers |-> "absent"]
      /\ sess = [c \in Containers |-> NoSession]
      /\ kill = [c \in Containers |-> NoKill] /\ guard = [c \in Containers |-> NoGuard]
      /\ late = [c \in Containers |-> {}] /\ crossed = {}
  BY DEF Init
<1>2. /\ NoSession.pc = "none" /\ NoKill.pc = "none" /\ NoKill.ip = NoIP
      /\ NoGuard.state = "none"
      /\ NoOrphans.pc = "idle"
  BY DEF NoSession, NoKill, NoGuard, NoOrphans
<1>3. Alone
  BY <1>1, <1>2 DEF Alone
<1>4. Known
  BY <1>1, <1>2 DEF Known, Setup, Ruled
<1>5. Owned
  BY <1>1 DEF Owned
<1>6. Closed
  BY <1>1, <1>2 DEF Closed
<1>7. Apart
  BY <1>1 DEF Apart
<1> QED BY <1>3, <1>4, <1>5, <1>6, <1>7 DEF Orderly

\* Nothing else than the steps of coi run is there to disturb its sessions.
LEMMA RunKeeps == IInv /\ RunInv /\ [Next]_vars => RunInv'
<1> SUFFICES ASSUME IInv, RunInv, [Next]_vars, Undisturbed' PROVE Orderly' /\ Apart'
  BY DEF RunInv
<1>1. UNCHANGED world
  BY DEF Next, vars
<1>2. Undisturbed /\ Orderly /\ Apart
  BY <1>1 DEF Undisturbed, Flow, Faults, Commands, RunInv
<1>3. /\ Flow = "run" /\ Faults \subseteq {"boot"} /\ Commands = {} /\ Alone
  BY <1>2 DEF Undisturbed, Orderly
<1>4. CASE UNCHANGED vars
  BY <1>2, <1>4 DEF vars, Orderly, Alone, Known, Owned, Closed, Owns, Shut, Apart
<1>5. ASSUME NEW c \in Containers, SessionStep(c) PROVE Orderly'
  <2>1. ASSUME NEW mode \in Modes, Launch(c, mode) PROVE Orderly'
    BY <1>2, <2>1, RunLaunch
  <2>2. ASSUME NEW mode \in Modes, Reuse(c, mode) PROVE Orderly'
    BY <1>3, <2>2 DEF Reuse
  <2>3. CASE ApplyBootBlockRule(c) \/ ApplyPolicy(c) \/ ApplyPolicyFails(c)
    BY <1>2, <2>3, RunAppendSteps
  <2>4. CASE \/ PurgeStaleRules(c) \/ RemoveBootBlock(c) \/ TeardownRules(c)
             \/ TeardownBootBlock(c)
    BY <1>2, <2>4, RunDeleteSteps
  <2>5. CASE ReleaseContainer(c)
    BY <1>2, <2>5, RunRelease
  <2>6. CASE \/ BootBlockFails(c) \/ RunOpen(c) \/ GetContainerIP(c) \/ NoAddress(c)
             \/ ApplyIPv6Block(c) \/ IPv6BlockFails(c) \/ ApplyUserHosts(c)
             \/ UserHostsFail(c) \/ EndSession(c) \/ TeardownIPv6(c)
    BY <1>2, <2>6, RunQuietSteps
  <2> QED BY <1>5, <2>1, <2>2, <2>3, <2>4, <2>5, <2>6 DEF SessionStep
<1>6. ASSUME NEW c \in Containers, Dhcp(c) PROVE Orderly' /\ Apart'
  BY <1>1, <1>2, <1>6, RunDhcp
<1>7. ASSUME NEW c \in Containers, Crash(c) \/ PowerOff(c) \/ KillStep(c) \/ CleanDelete(c)
      PROVE FALSE
  BY <1>3, <1>7 DEF Crash, PowerOff, KillStep, KillBegin, KillStop, KillRules, KillIPv6,
                    KillDelete, CleanDelete, Alone
<1>8. ~CleanList
  BY <1>3 DEF CleanList
<1>9. ~OrphansStep
  BY <1>3 DEF OrphansStep, OrphansList, OrphansDetect, OrphansEnd, OrphansDeleteKey,
              OrphansDeleteName, Alone
<1>10. ASSUME NEW c \in Containers, SessionStep(c) PROVE Apart'
  BY <1>2, <1>10, RunApart
<1> QED BY <1>4, <1>5, <1>6, <1>7, <1>8, <1>9, <1>10 DEF Next

\* What a blocked container sends meets its block first.
LEMMA OrderlyShut ==
  ASSUME IInv, Orderly, NEW c \in Containers, NEW p \in Packets,
         guard[c].state = "blocked", ip[c] # NoIP
  PROVE Egress(c, p) = "drop"
<1>1. Owned /\ Closed /\ Known /\ Interfaces /\ Leases /\ Blocks /\ Typed
  BY DEF IInv, Orderly
<1>2. PICK i \in DOMAIN chain : /\ chain[i].key = BootKey(c)
                                /\ \A j \in 1..(i - 1) : chain[j].key # IPKey(ip[c])
  BY <1>1 DEF Closed, Shut
<1> DEFINE hits == {j \in DOMAIN chain : Matches(chain[j], c) /\ chain[j][p] # "next"}
<1>3. Egress(c, p) = IF hits = {} THEN "accept" ELSE chain[Min(hits)][p]
  BY DEF Egress
<1>4. \A j \in DOMAIN chain : chain[j].key = BootKey(c) =>
        chain[j].veth = veth[c] /\ chain[j].ok = "drop" /\ chain[j].bad = "drop"
  BY <1>1, KeysApart DEF Owned, Owns
<1>5. i \in hits
  <2>1. veth[c] # 0 /\ chain[i].veth = veth[c]
    BY <1>1, <1>2, <1>4 DEF Blocks
  <2>2. chain[i].key[1] = "boot"
    BY <1>2 DEF BootKey
  <2>3. chain[i][p] = "drop"
    BY <1>2, <1>4 DEF Packets
  <2> QED BY <2>1, <2>2, <2>3 DEF Matches
<1>6. hits \subseteq Nat /\ \A j \in hits : j \in DOMAIN chain /\ Matches(chain[j], c)
  BY <1>1 DEF Typed
<1> HIDE DEF hits
<1>7. PICK m \in hits : \A j \in hits : m <= j
  BY <1>5, <1>6, Least
<1>8. Min(hits) = m
  <2>1. \A j \in hits : j \in Nat
    BY <1>6
  <2>2. \A j \in hits : (\A k \in hits : j <= k) => j = m
    BY <1>7, <2>1
  <2> QED BY <1>7, <2>2 DEF Min
<1>9. chain[m].key = BootKey(c)
  <2>1. m \in DOMAIN chain /\ Matches(chain[m], c) /\ m <= i
    BY <1>5, <1>6, <1>7
  <2>2. PICK d \in Containers : Owns(d, chain[m])
    BY <1>1, <2>1 DEF Owned
  <2>3. CASE chain[m].key = BootKey(d) /\ chain[m].veth = veth[d]
    <3>1. chain[m].key[1] = "boot"
      BY <2>3 DEF BootKey
    <3>2. veth[c] = veth[d] /\ veth[c] # 0
      BY <2>1, <2>3, <3>1 DEF Matches
    <3>3. c = d
      BY <1>1, <3>2 DEF Interfaces
    <3> QED BY <2>3, <3>3
  <2>4. CASE chain[m].key = IPKey(sess[d].ip)
    <3>1. chain[m].key[1] = "ip" /\ chain[m].key[2] = sess[d].ip
      BY <2>4 DEF IPKey
    <3>2. sess[d].ip = ip[c]
      BY <2>1, <3>1 DEF Matches
    <3>3. chain[m].key = IPKey(ip[c]) /\ chain[m].key # BootKey(c)
      BY <2>4, <3>2, KeysApart
    <3>4. m \in 1..(i - 1)
      BY <1>1, <1>2, <2>1, <3>3 DEF Typed
    <3> QED BY <1>2, <3>3, <3>4
  <2> QED BY <2>2, <2>3, <2>4 DEF Owns
<1>10. chain[m][p] = "drop"
  BY <1>4, <1>6, <1>9 DEF Packets
<1> QED BY <1>3, <1>5, <1>8, <1>10

\* coi run, alone on the host: between the boot block and the end of a setup
\* that restricts the container, and after a setup whose boot block failed,
\* nothing leaves the container.
THEOREM BootWindowAlwaysClosed == Spec => [](Undisturbed => BootWindowClosed)
<1>1. Spec => [](IInv /\ RunInv)
  BY InitHolds, NextKeeps, RunInit, RunKeeps, PTL DEF Spec
<1>2. IInv /\ RunInv => (Undisturbed => BootWindowClosed)
  BY OrderlyShut DEF RunInv, BootWindowClosed
<1> QED BY <1>1, <1>2, PTL

\* coi run, alone on the host: every rule in the host's tables, of the chain or
\* of the IPv6 blocks, belongs to a session in progress.
THEOREM NothingLeftOver == Spec => [](Undisturbed => NoLeftovers)
<1>1. Spec => [](IInv /\ RunInv)
  BY InitHolds, NextKeeps, RunInit, RunKeeps, PTL DEF Spec
<1>2. IInv /\ RunInv => (Undisturbed => NoLeftovers)
  <2> SUFFICES ASSUME IInv, Orderly PROVE NoLeftovers
    BY DEF RunInv
  <2>1. ASSUME NEW i \in DOMAIN chain
        PROVE \E c \in Containers :
                sess[c].pc # "none" /\ chain[i].key \in {IPKey(sess[c].ip), BootKey(c)}
    BY DEF Orderly, Owned, Owns, Ruled, Setup
  <2>2. \A r \in ip6 : sess[r[1]].pc # "none"
    BY DEF Orderly, Owned, Blocked6, Ruled
  <2> QED BY <2>1, <2>2 DEF NoLeftovers
<1> QED BY <1>1, <1>2, PTL

=============================================================================
