------------------------------ MODULE MCLaunch ------------------------------
(* The invocations of the runs of Launch.                                    *)
EXTENDS Launch

Serve(d, where, console, flags) ==
  [cmd |-> "serve", d |-> d, path |-> where, flags |-> flags, console |-> console, redirected |-> flags]
Plain(cmd, where) == [Serve("", where, "shared", FALSE) EXCEPT !.cmd = cmd]

MCInvocations ==
  {Serve("", "default", "shared", FALSE), Serve("-d=true", "default", "shared", FALSE),
   Serve("-d", "relative", "parent", FALSE), Serve("-d", "relative", "none", TRUE),
   Serve("-d", "absolute", "owned", FALSE),
   Plain("off", "default"), Plain("stop", "default"), Plain("bare", "default"),
   Plain("setup", "default"), Plain("setup", "relative")}
MCNumbers == {-1, 9}
MCSeeds == {[is |-> "whole", ha |-> TRUE, duration |-> 9]}
=============================================================================
