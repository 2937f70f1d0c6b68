---------------------------- MODULE FailoverOutcome ----------------------------
(***************************************************************************)
(* What becomes of a failover.  A history variable notes, for the current  *)
(* run of the client, the mishaps that its rollback cannot or does not     *)
(* make good; the protocol of Failover is unchanged.  The hooks are told   *)
(* the roles of the two nodes (getHookEnvMap on either side).              *)
(***************************************************************************)
EXTENDS FailoverInductive

VARIABLE mishaps  \* what went wrong since the client was last run

MishapKinds ==
    {"link",          \* the connection broke under a running client
     "crash",         \* the server, or a client that is passive, was killed
     "read",          \* the tower file could not be read
     "write",         \* the tower file could not be written
     "noRollback",    \* the server's command failed with rollback disabled
     "revertFailed"}  \* the rollback command of the client failed

historyVars == <<cfg, identity, votes, tower, cpc, cmsg, spc, smsg,
                 toServer, toClient, link, sessions, mishaps>>

Note(kind, happened) == mishaps' = IF happened THEN mishaps \cup {kind} ELSE mishaps

(* The steps that may fail in a way no rollback follows. *)
MishapStep ==
    \/ ClientReadTower /\ Note("read", cpc' = "ended")
    \/ ServerWriteTower /\ Note("write", spc' = "closed")
    \/ ServerGoActive /\ Note("noRollback", spc' = "exited")
    \/ ClientRevert /\ Note("revertFailed", cpc' = "manual")
    \/ LinkBreak /\ Note("link", cpc \in ClientRunning)
    \/ ServerCrash /\ Note("crash", cpc \in ClientRunning)
    \/ ClientCrash /\ Note("crash", identity["old"] = "passive")

OtherStep ==
    \/ ClientRecvSignal \/ ClientSignalLost
    \/ ClientLeaderWait \/ ClientPreHooks \/ ClientSlotWait
    \/ ClientGoPassive \/ ClientSendTower
    \/ ClientRecvResult \/ ClientResultLost
    \/ ServerAccept \/ ServerValidate \/ ServerConfirm \/ ServerSample
    \/ ServerPrepareTower \/ ServerPreHooks \/ ServerProceed
    \/ ServerRecvTower \/ ServerTowerLost
    \/ ServerRevert \/ ServerReport \/ ServerPost
    \/ ServerRestart
    \/ \E h \in Hosts : Vote(h)

HistoryNext ==
    \/ MishapStep
    \/ OtherStep /\ UNCHANGED mishaps
    \/ ClientStart /\ mishaps' = {}

HistoryInit == Init /\ mishaps = {}

HistorySpec == HistoryInit /\ [][HistoryNext]_historyVars /\ Fairness
-------------------------------------------------------------------------------
(* Mutant: the hooks after the failover are told the roles before it. *)
HookRolesUnswitched(host, stage) ==
    IF host = "old" THEN [old |-> "active", new |-> "passive"]
    ELSE [old |-> IF stage = "pre" THEN "active" ELSE "passive",
          new |-> IF stage = "pre" THEN "passive" ELSE "active"]

(* THIS_NODE_ROLE and PEER_NODE_ROLE as the hooks of a host are told them:  *)
(* the client is active before the failover and passive after it.           *)
HookRoles(host, stage) ==
    LET this == IF (host = "old") = (stage = "pre") THEN "active" ELSE "passive"
        peer == IF this = "active" THEN "passive" ELSE "active"
    IN  [h \in Hosts |-> IF h = host THEN this ELSE peer]

(* Hooks that run in a failover for real are told the roles the two hosts   *)
(* have: before it on either side, after it on the client only once the     *)
(* server is active, and on the server only once the client is passive.     *)
HookRolesTrue ==
    ~cfg.dryRun =>
        /\ cpc = "preHooks" => identity = HookRoles("old", "pre")
        /\ spc = "preHooks" => identity = HookRoles("new", "pre")
        /\ cpc = "complete" => identity = HookRoles("old", "post")
        /\ spc = "post" => identity = HookRoles("new", "post")

(* The programs never end with both validators passive, but for a mishap of *)
(* this very run: a failing hook, RPC, plan or set-identity command on      *)
(* either side is made good, with rollback on (README.md "Rollback").       *)
StrandedOnlyByMishap ==
    cpc \in ClientEnded /\ spc \in ServerGone /\ mishaps = {}
        => \E h \in Hosts : identity[h] = "active"

(* While the identity is being handed over nobody votes; somebody votes     *)
(* again in the end, unless a mishap of this run comes in between.          *)
SomebodyActiveAgain ==
    (\A h \in Hosts : identity[h] = "passive")
        ~> (\E h \in Hosts : identity[h] = "active") \/ mishaps # {}
===============================================================================
