----------------------------- MODULE MCMonitors -----------------------------
EXTENDS Monitors

\* Two threats, or one threat and the runtime limit, in either command; any
\* two of the other options meet in each of their values.
MCConfs ==
  {[mode |-> "shell", keep |-> FALSE, limited |-> FALSE, graceful |-> FALSE,
    reacts |-> TRUE, threats |-> 2],
   [mode |-> "shell", keep |-> TRUE, limited |-> TRUE, graceful |-> TRUE,
    reacts |-> TRUE, threats |-> 1],
   [mode |-> "run", keep |-> FALSE, limited |-> TRUE, graceful |-> FALSE,
    reacts |-> FALSE, threats |-> 1],
   [mode |-> "run", keep |-> TRUE, limited |-> FALSE, graceful |-> TRUE,
    reacts |-> FALSE, threats |-> 2]}
=============================================================================
