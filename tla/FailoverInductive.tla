-------------------------- MODULE FailoverInductive --------------------------
(***************************************************************************)
(* The inductive invariants behind the theorems of FailoverProofs.  IInv   *)
(* holds when the tower file is synchronised, a failing set-identity       *)
(* command has no effect and gossip shows the identities in use (Clean);   *)
(* Orderly holds without these, and Places with the first and the last.    *)
(***************************************************************************)
EXTENDS Failover

Clean ==
    /\ \A c \in Configs : ~c.skipTower
    /\ "dirty" \notin Faults
    /\ "staleGossip" \notin Faults

(* The client has been told to proceed and has not sent its tower file. *)
Preparing ==
    {"leaderWait", "preHooks", "slotWait", "goPassive", "readTower", "sendTower"}

(* The server has not answered the request. *)
Checking == {"validate", "confirm", "sample", "prepare", "preHooks", "proceed"}

(* The server acts on the tower file it received. *)
Acting == {"writeTower", "goActive", "report", "post"}

(* The tower file is on its way, or the server acts on it. *)
TowerSent == spc \in Acting \/ (spc = "recvTower" /\ toServer # <<>>)

Agreed == cfg.sameVersion /\ cfg.rollOld = cfg.rollNew

(* What every copy of the message says is true. *)
Honest(m) ==
    /\ ~m.skip
    /\ m.dry => cfg.dryRun
    /\ m.canProceed => Agreed /\ (cfg.dryRun => m.dry)
    /\ m.rollOld => cfg.rollOld
    /\ m.rollback => ~cfg.dryRun /\ cfg.rollNew
    /\ m.success /\ ~cfg.dryRun => identity["new"] = "active"

(* At most one message is on its way in each direction. *)
Queues ==
    /\ Len(toServer) <= 1 /\ Len(toClient) <= 1
    /\ spc = "listening" /\ link = "up" => toServer # <<>>
    /\ spc = "listening" /\ toServer # <<>>
         => toClient = <<>> /\ cpc \in {"signal"} \cup ClientEnded
    /\ cpc = "signal" /\ toServer # <<>>
         => toClient = <<>> /\ spc \in {"listening", "exited"}
    /\ spc \in Checking
         => toClient = <<>> /\ toServer = <<>> /\ cpc \in {"signal"} \cup ClientEnded
    /\ cpc \in Preparing => toClient = <<>> /\ toServer = <<>>
    /\ TowerSent => cpc \in {"result"} \cup ClientEnded
    /\ TowerSent /\ spc # "post" => toClient = <<>>

(* What the copies and the messages on their way say. *)
Messages ==
    /\ Honest(cmsg) /\ Honest(smsg)
    /\ toServer # <<>> => /\ Honest(Head(toServer))
                          /\ Head(toServer).rollOld = cfg.rollOld
                          /\ ~Head(toServer).rollback
    /\ toClient # <<>> => Honest(Head(toClient))
    /\ cpc # "idle" => cmsg.rollOld = cfg.rollOld
    /\ spc \in Checking => smsg.rollOld = cfg.rollOld /\ (cfg.dryRun => smsg.dry)
    /\ spc \in (Checking \ {"validate"}) \cup {"recvTower"} \cup Acting => Agreed
    /\ cpc \in Preparing \cup {"result", "revert"} => cmsg.canProceed
    /\ cpc \in {"critical", "manual", "reverted", "complete"} => cmsg.canProceed
    /\ spc \in Checking \cup {"recvTower"} \cup Acting => ~smsg.rollback
    /\ cpc \in {"signal", "result"} \cup Preparing => ~cmsg.rollback
    /\ cpc \in {"revert", "reverted", "manual"} => cmsg.rollback
    /\ cpc = "complete" => cmsg.success

(* A rollback is under way only after the server said so and gave up. *)
Rollbacks ==
    cpc = "revert" \/ (toClient # <<>> /\ Head(toClient).rollback)
        => /\ smsg.rollback
           /\ spc \in {"revert", "exited", "listening"}
           /\ cpc \in {"result", "revert"} \cup ClientEnded
           /\ cpc = "revert" => cfg.rollOld

(* The old host is passive from its set-identity command on. *)
Released ==
    ~cfg.dryRun /\ (TowerSent \/ cpc \in {"readTower", "sendTower", "result"})
        => identity["old"] = "passive"

(* The new host is active only after the old host let go, for good. *)
Taken ==
    /\ identity["new"] = "active"
         => /\ ~cfg.dryRun
            /\ identity["old"] = "passive"
            /\ cpc \in {"result"} \cup ClientEnded
            /\ spc \in {"report", "post"} \cup ServerGone
            /\ toClient # <<>> => ~Head(toClient).rollback
    /\ spc \in {"report", "post"} /\ ~cfg.dryRun => identity["new"] = "active"
    /\ cfg.dryRun => identity["old"] = "active"

(* The last vote is on record on the old host, and travels with the tower. *)
TowerKnown ==
    /\ identity["new"] = "passive" => tower["old"] = votes
    /\ identity["new"] = "active" => tower["new"] = votes
    /\ ~cfg.dryRun =>
         /\ cpc = "sendTower" /\ identity["new"] = "passive" => cmsg.tower = votes
         /\ spc = "recvTower" /\ toServer # <<>> => Head(toServer).tower = votes
         /\ spc = "writeTower" => smsg.tower = votes
         /\ spc = "goActive" => tower["new"] = votes

IInv ==
    /\ TypeOK
    /\ Queues
    /\ Messages
    /\ Rollbacks
    /\ Released
    /\ Taken
    /\ TowerKnown

-------------------------------------------------------------------------------
(* What holds besides whatever fails, without tower sync and with any        *)
(* gossip: nothing in Clean is needed for it.                               *)

(* The messages on their way. *)
Carried(queue) == {queue[i] : i \in DOMAIN queue}

(* What a copy of the message says is true. *)
TrueOf(m) ==
    /\ m.dry => cfg.dryRun
    /\ m.canProceed => Agreed /\ (cfg.dryRun => m.dry)
    /\ m.rollOld => cfg.rollOld
    /\ m.rollback => ~cfg.dryRun
    /\ m.success /\ ~cfg.dryRun => identity["new"] = "active"

Copies ==
    /\ \A m \in {cmsg, smsg} \cup Carried(toServer) \cup Carried(toClient) : TrueOf(m)
    /\ \A m \in Carried(toServer) : m.rollOld = cfg.rollOld
    /\ cpc # "idle" => cmsg.rollOld = cfg.rollOld
    /\ spc \in Checking => smsg.rollOld = cfg.rollOld /\ (cfg.dryRun => smsg.dry)
    /\ spc \in Checking \ {"validate"} => Agreed
    /\ cpc \notin {"idle", "signal", "ended"} => cmsg.canProceed
    /\ cpc \in {"revert", "reverted", "manual"} => cmsg.rollback
    /\ cpc = "complete" => cmsg.success

(* The handler has not got as far as to report success. *)
Unreported == Checking \cup {"recvTower", "writeTower", "goActive", "revert"}

(* A request is news: no word of success is left from an earlier run. *)
NewSession ==
    /\ spc = "listening" =>
         /\ link = "up" <=> toServer # <<>>
         /\ link = "up" => toClient = <<>> /\ cpc \in {"signal"} \cup ClientEnded
    /\ spc \in Unreported \/ (spc = "listening" /\ link = "up") =>
         \A m \in {cmsg} \cup Carried(toServer) \cup Carried(toClient) : ~m.success
    /\ spc \in Unreported => ~smsg.success

(* Where the identities are, as far as the two programs know. *)
Moved ==
    /\ cfg.dryRun => identity = [old |-> "active", new |-> "passive"]
    /\ ~cfg.dryRun =>
         /\ cpc \in {"readTower", "sendTower", "result", "revert", "complete"}
               => identity["old"] = "passive"
         /\ spc = "report" => identity["new"] = "active"

AnyFaultInv == TypeOK /\ Copies /\ NewSession /\ Moved

(* A signal to roll back that is still heeded was given by the handler of   *)
(* this run, with rollback enabled.                                         *)
Asked ==
    /\ \A m \in {cmsg, smsg} \cup Carried(toServer) \cup Carried(toClient) :
         m.rollback => cfg.rollNew
    /\ \A m \in Carried(toClient) : m.rollback => smsg.rollback
    /\ cpc \notin ClientEnded /\ cmsg.rollback => smsg.rollback
    /\ spc = "listening" /\ cpc = "signal" /\ link = "up" => ~cmsg.rollback
    /\ cpc = "revert" => cfg.rollOld

(* The old host takes its identity back only when the server has said so    *)
(* and rollback is enabled on both hosts.                                   *)
RevertsWhenAsked ==
    [][identity["old"] = "passive" /\ identity'["old"] = "active"
        => smsg.rollback /\ cfg.rollOld /\ cfg.rollNew]_vars

(* Whose turn it is.  The server gives up and tells the client, or both go  *)
(* on; without tower sync the server goes on alone, so that the go-ahead    *)
(* and a signal to roll back may both be waiting for the client.            *)
Turns ==
    /\ spc = "listening" => Len(toServer) <= 1
    /\ spc \in Checking => /\ toServer = <<>> /\ toClient = <<>>
                           /\ cpc \in {"signal"} \cup ClientEnded
    /\ spc \in {"recvTower", "writeTower"} => ~cfg.skipTower
    /\ cpc \in {"readTower", "sendTower"} => ~cfg.skipTower
    /\ ~cfg.skipTower /\ TowerSent => cpc \in {"result"} \cup ClientEnded
    /\ spc \in {"recvTower", "writeTower", "goActive"} =>
         /\ Len(toClient) <= 1
         /\ cpc \notin {"signal"} \cup ClientEnded => toClient = <<>>
         /\ cpc = "signal" /\ link = "up" => toClient # <<>>
    /\ spc = "recvTower" /\ cpc = "result" /\ link = "up" => toServer # <<>>

(* What has been said so far: to skip the tower with the go-ahead or not at *)
(* all, to go ahead once, and to roll back after that.                      *)
Signals ==
    /\ \A m \in {cmsg, smsg} \cup Carried(toServer) \cup Carried(toClient) :
         /\ m.skip => cfg.skipTower
         /\ m.canProceed /\ cfg.skipTower => m.skip
    /\ spc \in Checking => ~smsg.canProceed /\ (cfg.skipTower => smsg.skip)
    /\ spc = "listening" => \A m \in Carried(toServer) : ~m.canProceed
    /\ cpc = "signal" => ~cmsg.canProceed
    /\ spc \in Checking \cup {"recvTower"} \cup Acting => ~smsg.rollback
    /\ \A m \in Carried(toServer) : ~m.rollback
    /\ cpc \in {"signal"} \cup Preparing => ~cmsg.rollback
    /\ cpc = "signal" /\ toClient # <<>> => ~Head(toClient).rollback
    /\ ~cfg.skipTower /\ cpc \in {"signal"} \cup Preparing =>
         \A m \in Carried(toClient) : ~m.rollback

Orderly == AnyFaultInv /\ Asked /\ Turns /\ Signals

(* A program that can only wait for the other one. *)
ClientWaits == cpc \in {"signal", "result"} /\ toClient = <<>> /\ ~ClientReadFails
ServerWaits ==
    /\ toServer = <<>>
    /\ spc = "listening" \/ (spc = "recvTower" /\ ~ServerReadFails)

(* The two programs never wait for one another, whatever fails: a client    *)
(* that reads has a server which works, or which has answered.              *)
NotBothWaiting == ~(ClientWaits /\ ServerWaits)

(* The steps that each program has left in the run, at most. *)
ClientStepsLeft ==
    CASE cpc = "signal" -> 9 [] cpc = "leaderWait" -> 8 [] cpc = "preHooks" -> 7
      [] cpc = "slotWait" -> 6 [] cpc = "goPassive" -> 5 [] cpc = "readTower" -> 4
      [] cpc = "sendTower" -> 3 [] cpc = "result" -> 2 [] cpc = "revert" -> 1
      [] OTHER -> 0
ServerStepsLeft ==
    CASE spc = "listening" -> 12 [] spc = "validate" -> 11 [] spc = "confirm" -> 10
      [] spc = "sample" -> 9 [] spc = "prepare" -> 8 [] spc = "preHooks" -> 7
      [] spc = "proceed" -> 6 [] spc = "recvTower" -> 5 [] spc = "writeTower" -> 4
      [] spc = "goActive" -> 3 [] spc = "report" -> 2 [] spc \in {"revert", "post"} -> 1
      [] OTHER -> 0

(* No step of a program brings it back to an earlier one of the same run;   *)
(* only the operator starts over.                                           *)
StepsRunOut ==
    [][/\ ClientStep => ClientStepsLeft' < ClientStepsLeft
       /\ ServerStep => ServerStepsLeft' < ServerStepsLeft
       /\ ~ClientStart => ClientStepsLeft' <= ClientStepsLeft
       /\ ~ClientStart /\ ~ServerRestart => ServerStepsLeft' <= ServerStepsLeft]_vars

(* Where the identities are in a run for real, even if a command that fails *)
(* has taken effect: untouched until the client's command, and once the new *)
(* host is active the client is past its own.                               *)
Untouched == identity = [old |-> "active", new |-> "passive"]
AskedToProceed == cpc = "signal" /\ toClient # <<>> /\ Head(toClient).canProceed
Places ==
    ~cfg.dryRun =>
        /\ spc \in Checking \ {"validate"} => Untouched
        /\ AskedToProceed \/ cpc \in {"leaderWait", "preHooks", "slotWait", "goPassive"}
             => Untouched
        /\ TowerSent => identity["old"] = "passive"
        /\ identity["new"] = "active" =>
             /\ cpc \in {"result", "revert"} \cup ClientEnded
             /\ spc \in {"report", "post", "revert"} \cup ServerGone
             /\ spc \in {"report", "post", "closed", "complete"}
                  => identity["old"] = "passive" /\ ~smsg.rollback
        /\ spc \in {"report", "post"} => identity["new"] = "active"
===============================================================================
