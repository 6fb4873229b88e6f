----------------------------- MODULE MCWatchdog -----------------------------
(* Watchdog on small instances.                                              *)
EXTENDS Watchdog

NoFaults      == {}
ScreenFaults  == {"On", "Off"}
NoOtherStates == {}
OnlyBlank     == {None}
LateOrReject  == {"reject", "late"}
=============================================================================
