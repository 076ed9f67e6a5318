------------------------------ MODULE Collecting ------------------------------
(***************************************************************************)
(* What the monitoring daemon takes for a threat when it polls the         *)
(* container (internal/monitor: Collector, network.go, filesystem.go,      *)
(* process.go, Detector): the addresses the firewall lets through, the     *)
(* connections of the container, its cumulative I/O counter and its        *)
(* processes, each read at another moment than it changes.                 *)
(*                                                                         *)
(* A HIGH threat pauses the container and a CRITICAL one deletes it: see   *)
(* Monitors, where the threats are given.                                  *)
(***************************************************************************)
EXTENDS Integers, FiniteSets

CONSTANTS
  Sessions,      \* what is polled: the network mode; the literal addresses of the
                 \* allowlist; the answer of the daemon's own lookup of its names;
                 \* whether the address of the container was known; and a bound,
                 \* which of the three sources moves
  Names,         \* addresses that the allowed names resolve to, in turn
  Destinations,  \* what the container connects to: [addr, port]
  Large, Crowd, Spawn,  \* the thresholds: I/O per poll, processes, new processes
  Width,         \* the counters are Width bits wide
  MaxIO, MaxProcesses, MaxRestarts, MaxBlips  \* bounds

Ports == {"plain", "odd", "backdoor"}  \* backdoor: 4444 and 5555; odd: the
                                       \* other suspicious ports
Special == {"lan", "metadata"}

ASSUME CollectingAssumption ==
  /\ Sessions \subseteq [mode: {"open", "restricted", "allowlist"}, fixed: SUBSET STRING,
                         snapshot: SUBSET STRING, known: BOOLEAN,
                         moves: {"network", "io", "processes"}]
  /\ Names \subseteq STRING /\ Names \cap Special = {}
  /\ Destinations \subseteq [addr: STRING, port: Ports]
  /\ {Large, Crowd, Spawn, Width, MaxIO, MaxProcesses, MaxRestarts, MaxBlips} \subseteq Nat
  /\ MaxProcesses > 0  \* a container has its init

VARIABLES
  session,    \* the session
  dynamic,    \* the addresses of names in the firewall's dynamic set
  connected,  \* connections of the container, attempts included
  counter,    \* what its cgroup has read (or written) so far
  processes,  \* how many it has
  poll,       \* the poll under way
  base,       \* what FilesystemMonitor and Detector remember of the last one
  last,       \* the threats of the last poll and, history, what was true of them
  since,      \* history: what happened since the last poll
  met         \* bounds: restarts and failing readings so far

cvars == <<session, dynamic, connected, counter, processes, poll, base, last, since, met>>

None == -1

CInit ==
  /\ session \in Sessions
  /\ dynamic \in SUBSET Names
  /\ connected = {}
  /\ counter = 0
  /\ processes = 1
  /\ poll = [pc |-> "idle", allowed |-> {}, away |-> {}, unread |-> FALSE]
  /\ base = [io |-> None, processes |-> None]
  /\ last = [threats |-> {}, moved |-> 0, grown |-> 0, away |-> {}, unread |-> FALSE,
             blip |-> FALSE]
  /\ since = [moved |-> 0, processes |-> None, blip |-> FALSE]
  /\ met = [restarts |-> 0, blips |-> 0]

-----------------------------------------------------------------------------
(* The container and the firewall *)

Listed == session.fixed \union dynamic
World == UNCHANGED <<session, base, last>>

\* The refresher adds an address of a name; the kernel drops one whose time has
\* come.  History: addresses that are away while a poll is under way.
Learn(a) ==
  /\ session.mode = "allowlist" /\ session.moves = "network" /\ a \notin dynamic
  /\ dynamic' = dynamic \union {a}
  /\ World /\ UNCHANGED <<connected, counter, processes, poll, since, met>>

Expire(a) ==
  /\ session.mode = "allowlist" /\ session.moves = "network" /\ a \in dynamic
  /\ dynamic' = dynamic \ {a}
  /\ poll' = [poll EXCEPT !.away = @ \union {a}]
  /\ World /\ UNCHANGED <<connected, counter, processes, since, met>>

\* A connection the firewall lets through, or an attempt it drops: the socket
\* is there in both.
Connect(d) ==
  /\ session.moves = "network"
  /\ connected' = {d}
  /\ World /\ UNCHANGED <<dynamic, counter, processes, poll, since, met>>

Move(n) ==
  /\ session.moves = "io" /\ counter + n <= MaxIO
  /\ counter' = counter + n
  /\ since' = [since EXCEPT !.moved = @ + n]
  /\ World /\ UNCHANGED <<dynamic, connected, processes, poll, met>>

Fork(n) ==
  /\ session.moves = "processes" /\ processes + n \in 1..MaxProcesses
  /\ processes' = processes + n
  /\ World /\ UNCHANGED <<dynamic, connected, counter, poll, since, met>>

\* A new cgroup, with new counters.
Restart ==
  /\ met.restarts < MaxRestarts
  /\ counter' = 0 /\ processes' = 1 /\ connected' = {}
  /\ met' = [met EXCEPT !.restarts = @ + 1]
  /\ World /\ UNCHANGED <<dynamic, poll, since>>

-----------------------------------------------------------------------------
(* The poll *)

\* Mutant: the snapshot taken when the daemon was started is good enough.
SnapshotOnly(unread) == IF session.mode = "allowlist" THEN session.snapshot ELSE {}

\* currentAllowedCIDRs: the sets of the firewall, or else, when there is no
\* provider, the sets cannot be read or hold nothing, the snapshot.
CurrentAllowed(unread) ==
  IF session.mode # "allowlist" THEN {}
  ELSE IF session.known /\ ~unread /\ Listed # {} THEN Listed
  ELSE session.snapshot

\* Collect evaluates the provider first.
ReadAllowed ==
  /\ poll.pc = "idle"
  /\ \E unread \in IF met.blips < MaxBlips /\ session.moves = "network"
                     THEN BOOLEAN ELSE {FALSE} :
       /\ poll' = [pc |-> "allowed", allowed |-> CurrentAllowed(unread),
                   away |-> Names \ dynamic, unread |-> unread]
       /\ met' = [met EXCEPT !.blips = @ + (IF unread THEN 1 ELSE 0)]
  /\ World /\ UNCHANGED <<dynamic, connected, counter, processes, since>>

\* checkSuspicious, in its order.  Without a list, as in open and restricted
\* mode, no address is out of it.
Reason(d, allowed) ==
  CASE allowed # {} /\ d.addr = "lan"            -> "private"
    [] d.addr = "metadata"                       -> "metadata"
    [] allowed # {} /\ d.addr \notin allowed     -> "unlisted"
    [] d.port # "plain"                          -> "port"
    [] OTHER                                     -> "none"

\* The network part of Analyze.
NetworkThreats(seen, allowed) ==
  {[why |-> Reason(d, allowed), addr |-> d.addr,
    level |-> IF d.port = "backdoor" \/ d.addr = "metadata" THEN "critical" ELSE "high"] :
     d \in {c \in seen : Reason(c, allowed) # "none"}}

\* parseConnections: the sockets of the network namespace of the container.
\* When they cannot be read there are none, and no error: the collector has no
\* address to look for in the tables of the host.
Visible == IF met.blips < MaxBlips THEN {connected, {}} ELSE {connected}

\* Mutant: the difference as it is, in unsigned arithmetic.
WrappedDelta(current, previous) == (current - previous) % (2 ^ Width)

\* counterDelta.
Delta(current, previous) == IF current < previous THEN 0 ELSE current - previous

\* DetectLargeReads and DetectLargeWrites, after the first good sample.
IOThreats(reading) ==
  IF base.io # None /\ Delta(reading, base.io) > Large
    THEN {[why |-> "io", addr |-> "none", level |-> "high"]} ELSE {}

\* DetectProcessCountSpike and DetectProcessSpawnRate.
ProcessThreats(count) ==
  {[why |-> w, addr |-> "none", level |-> "critical"] :
     w \in (IF count > Crowd THEN {"crowd"} ELSE {})
           \union (IF base.processes # None /\ count - base.processes > Spawn
                     THEN {"spawn"} ELSE {})}

\* Mutant: the baseline outlives a poll that could not see the processes.
KeepBaseline(count) == IF count = None THEN base.processes ELSE count

\* A poll that does not see the processes is no baseline for the next one.
NextBaseline(count) == count

\* What one poll sees of the I/O counter: its value; zero when io.stat cannot
\* be read; nothing when the cgroup cannot be found.  And of the processes.
Readings(moving, value, failures) ==
  {value} \union (IF session.moves = moving /\ met.blips < MaxBlips THEN failures ELSE {})

\* The rest of Collect and Analyze.
Sample ==
  /\ poll.pc = "allowed"
  /\ \E seen \in Visible, io \in Readings("io", counter, {0, None}),
        count \in Readings("processes", processes, {None}) :
       LET failed == io # counter \/ count # processes \/ seen # connected IN
       /\ last' = [threats |-> NetworkThreats(seen, poll.allowed)
                     \union (IF io = None THEN {} ELSE IOThreats(io))
                     \union (IF count = None THEN {} ELSE ProcessThreats(count)),
                   moved |-> since.moved,
                   grown |-> IF since.processes = None THEN 0
                             ELSE processes - since.processes,
                   away |-> poll.away, unread |-> poll.unread, blip |-> since.blip]
       /\ base' = [io |-> IF io = None THEN base.io ELSE io,
                   processes |-> NextBaseline(count)]
       /\ since' = [moved |-> IF io = None THEN since.moved ELSE 0,
                    processes |-> processes,
                    blip |-> IF io = None THEN since.blip ELSE io # counter]
       /\ met' = [met EXCEPT !.blips = @ + (IF failed THEN 1 ELSE 0)]
  /\ poll' = [poll EXCEPT !.pc = "idle", !.allowed = {}, !.away = {}, !.unread = FALSE]
  /\ UNCHANGED <<session, dynamic, connected, counter, processes>>

CNext ==
  \/ \E a \in Names : Learn(a) \/ Expire(a)
  \/ \E d \in Destinations : Connect(d)
  \/ \E n \in 1..MaxIO : Move(n)
  \/ \E n \in -MaxProcesses..MaxProcesses : Fork(n)
  \/ Restart
  \/ ReadAllowed \/ Sample

CSpec == CInit /\ [][CNext]_cvars

-----------------------------------------------------------------------------
(* Properties *)

CTypeOK ==
  /\ session \in Sessions
  /\ dynamic \subseteq Names /\ connected \subseteq Destinations
  /\ counter \in 0..MaxIO /\ processes \in 1..MaxProcesses
  /\ poll.pc \in {"idle", "allowed"} /\ poll.away \subseteq Names
  /\ base.io \in {None} \union 0..MaxIO
  /\ base.processes \in {None} \union 1..MaxProcesses

\* "The exact set the firewall enforces": no connection is blamed for an
\* address that was in the firewall's sets all the time the poll took, however
\* the names rotate and whatever the daemon's own lookup had found.  Out of it:
\* no provider, or sets that could not be read.
AllowedNotBlamed ==
  \A t \in last.threats :
    t.why = "unlisted" /\ session.known /\ ~last.unread
      => t.addr \notin session.fixed
         /\ (t.addr \in Names => t.addr \in last.away)

\* A pause for I/O and a kill for spawned processes are about what happened
\* since the poll before, across restarts of the container and polls that saw
\* nothing.  Out of it: I/O after a poll that could not read io.stat.
AlarmsAreReal ==
  \A t \in last.threats :
    /\ t.why = "io" => last.moved > Large \/ last.blip
    /\ t.why = "spawn" => last.grown > Spawn

\* filesystem.go: a transient unreadable io.stat does not freeze "a perfectly
\* healthy container".
BlipHarmless ==
  \A t \in last.threats : t.why = "io" => last.moved > Large
=============================================================================
