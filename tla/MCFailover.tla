------------------------------ MODULE MCFailover ------------------------------
(* Instances of Failover for TLC. *)
EXTENDS Failover

(* Rollback enabled on both hosts, for real. *)
MCRollbackConfigs ==
    {c \in ConfigType :
        ~c.skipTower /\ c.rollOld /\ c.rollNew /\ c.sameVersion /\ ~c.dryRun}

(* Both hosts agree, and the tower file is not synchronised. *)
MCSkipConfigs == {c \in ConfigType : c.skipTower /\ c.rollOld = c.rollNew}
===============================================================================
