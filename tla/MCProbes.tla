------------------------------ MODULE MCProbes ------------------------------
(* Probes on small instances.                                                *)
EXTENDS Probes

NoFaults      == {}
ProbeFaults   == {"IdleSince"}
NoOtherStates == {}
AllKinds      == {"cached", "ticks"}
OnlyCached    == {"cached"}
OnlyTicks     == {"ticks"}
=============================================================================
