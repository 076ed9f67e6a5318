------------------------------ MODULE MCLaunch ------------------------------
EXTENDS Launch

\* Every kind of idmapped mounts with and without isolated ranges, a user
\* whose uid differs, and a virtual machine that maps the IDs itself.
MCHosts ==
  {[shift |-> s, iso |-> i, vm |-> FALSE, sameUID |-> TRUE, sound |-> TRUE] :
     s \in {"ok", "refused", "broken"}, i \in BOOLEAN}
  \cup {[shift |-> "ok", iso |-> TRUE, vm |-> v, sameUID |-> u, sound |-> TRUE] :
          v \in BOOLEAN, u \in BOOLEAN}
=============================================================================
