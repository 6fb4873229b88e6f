---------------------------- MODULE MCController ----------------------------
(* Controller with every fault; Probes and Watchdog run it without.          *)
EXTENDS Controller

AllFaults   == Calls
Unavailable == {"unavailable", None}
=============================================================================
