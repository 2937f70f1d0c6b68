------------------------------ MODULE MCOutcome ------------------------------
(* Every configuration that synchronises the tower file. *)
EXTENDS FailoverOutcome

MCSyncConfigs == {c \in ConfigType : ~c.skipTower}
===============================================================================
