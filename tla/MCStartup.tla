------------------------------ MODULE MCStartup ------------------------------
(* Two hosts and the flags that the paths tell apart. *)
EXTENDS Startup

CONSTANTS a, b

MCHosts == {a, b}

Opts(yes, auto, noWait, wire, peer) ==
    [yes |-> yes, autoEmpty |-> auto, noWaitForHealthy |-> noWait, wire |-> wire,
     toPeer |-> peer]

MCOptions ==
    {Opts(FALSE, FALSE, FALSE, "this", Unset), Opts(TRUE, FALSE, FALSE, "this", "unknown"),
     Opts(FALSE, TRUE, TRUE, "this", b), Opts(TRUE, TRUE, TRUE, "this", "backup"),
     Opts(TRUE, TRUE, TRUE, "other", "backup")}
===============================================================================
