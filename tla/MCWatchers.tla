------------------------------ MODULE MCWatchers ------------------------------
(***************************************************************************)
(* The three watchers that share no state (Collecting, LogRules, LogTail)  *)
(* in one run: part says which of them moves.                              *)
(***************************************************************************)
EXTENDS Collecting, LogRules, LogTail, TLC

VARIABLE part

Polled(mode, fixed, snapshot, known, moves) ==
  [mode |-> mode, fixed |-> fixed, snapshot |-> snapshot, known |-> known, moves |-> moves]

\* Allowlists with and without a literal address and an answer of the lookup,
\* the other modes, and sessions in which the counters move.
MCSessions ==
  {Polled("allowlist", fixed, fixed \union found, known, "network") :
     fixed \in {{}, {"literal"}}, found \in {{}, {"n1"}}, known \in BOOLEAN}
  \union {Polled(mode, {}, {}, TRUE, "network") : mode \in {"open", "restricted"}}
  \union {Polled("open", {}, {}, TRUE, moves) : moves \in {"io", "processes"}}

MCNames == {"n1", "n2"}

MCDestinations ==
  {[addr |-> a, port |-> "plain"] : a \in {"n1", "n2", "literal", "other", "lan", "metadata"}}
  \union {[addr |-> "n1", port |-> p] : p \in {"odd", "backdoor"}}

\* Two sessions in one container or in two.
MCPairings == [Daemons -> Boxes]

\* The text of one address begins like the other's.
MCWithin ==
  {<<a, a>> : a \in Addresses} \union {<<"10.0.0.5", "10.0.0.50">>}

Symmetry == Permutations(Daemons) \union Permutations(Boxes)

Init ==
  /\ CInit /\ LInit /\ TInit
  /\ part \in {"polls", "rules", "tail"}
  /\ part # "polls" => session = CHOOSE s \in Sessions : TRUE
  /\ part # "polls" => dynamic = {}
  /\ part # "rules" => watches = CHOOSE w \in Pairings : TRUE
  /\ part # "tail" => written = 0 /\ inodes = 0

Next ==
  \/ part = "polls" /\ CNext /\ UNCHANGED <<lvars, tvars, part>>
  \/ part = "rules" /\ LNext /\ UNCHANGED <<cvars, tvars, part>>
  \/ part = "tail" /\ TNext /\ UNCHANGED <<cvars, lvars, part>>

Spec == Init /\ [][Next]_<<cvars, lvars, tvars, part>>
=============================================================================
