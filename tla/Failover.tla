------------------------------- MODULE Failover -------------------------------
(***************************************************************************)
(* One failover between two hosts: "old" holds the voting identity and     *)
(* runs the QUIC client (internal/failover/client.go), "new" is passive    *)
(* and runs the QUIC server (internal/failover/server.go).  They exchange  *)
(* copies of one message (message.go) over one bidirectional stream.       *)
(*                                                                         *)
(* cpc and spc name the step the client and the stream handler of the      *)
(* server take next.  A tower file is abstracted to the number of the last *)
(* vote it records, 0 for a file that is missing or empty.  The operator   *)
(* may run the client again after a run that ended, and the server again   *)
(* after it exited: MaxSessions bounds the client runs, MaxVotes the votes.*)
(***************************************************************************)
EXTENDS Naturals, Sequences

CONSTANTS
    Configs,      \* the configurations the two programs may be started with
    Faults,       \* what may go wrong, a subset of FaultKinds
    MaxSessions,  \* how often the operator runs the client
    MaxVotes      \* how many votes are cast

ConfigType ==
    [dryRun      : BOOLEAN,   \* the server runs without --not-a-drill
     skipTower   : BOOLEAN,   \* the server runs with --skip-tower-sync
     rollOld     : BOOLEAN,   \* rollback.enabled on the old host
     rollNew     : BOOLEAN,   \* rollback.enabled on the new host
     sameVersion : BOOLEAN]   \* both run the same release

FaultKinds ==
    {"rpc",         \* a call to the Solana RPC gives up
     "hook",        \* a pre hook that must succeed fails
     "decline",     \* the operator declines the plan
     "cmdOld",      \* the old host's set-identity-passive command fails
     "cmdNew",      \* the new host's set-identity-active command fails
     "cmdRevert",   \* a rollback set-identity command fails
     "dirty",       \* a failing set-identity command may have taken effect
     "read",        \* the old host cannot read its tower file
     "write",       \* the new host cannot empty or write its tower file
     "link",        \* the connection breaks, what is in flight is lost
     "crash",       \* a process is killed
     "staleGossip"} \* gossip may still show an identity that has moved

ASSUME ConfigsAssumption == Configs \subseteq ConfigType
ASSUME FaultsAssumption == Faults \subseteq FaultKinds
ASSUME BoundsAssumption == MaxSessions \in Nat /\ MaxVotes \in Nat

VARIABLES
    cfg,       \* the configuration in use
    identity,  \* per host, the identity its validator runs with
    votes,     \* the number of votes cast with the active identity
    tower,     \* per host, the last vote its tower file records
    cpc, cmsg, \* client: next step, its copy of the message
    spc, smsg, \* server: next step, its copy of the message
    toServer,  \* the stream's bytes from client to server, as messages
    toClient,  \* the stream's bytes from server to client
    link,      \* "none", "up" or "broken"
    sessions   \* how many times the client has been run

world == <<identity, votes, tower>>
client == <<cpc, cmsg>>
server == <<spc, smsg>>
stream == <<toServer, toClient, link>>
vars == <<cfg, identity, votes, tower, cpc, cmsg, spc, smsg,
          toServer, toClient, link, sessions>>

Hosts == {"old", "new"}

ClientEnded ==
    {"idle",       \* not run yet
     "ended",      \* exited with an error, or killed
     "critical",   \* logged CRITICAL: passive, outcome unknown
     "manual",     \* passive, told to intervene manually
     "reverted",   \* rolled back to active
     "complete"}   \* failover complete
ClientRunning ==
    {"signal", "leaderWait", "preHooks", "slotWait", "goPassive",
     "readTower", "sendTower", "result", "revert"}

ServerGone ==
    {"closed",     \* the handler returned, the process still listens
     "exited",     \* the process is gone
     "complete"}   \* the failover is complete and the process is gone
ServerHandling ==
    {"validate", "confirm", "sample", "prepare", "preHooks", "proceed",
     "recvTower", "writeTower", "goActive", "revert", "report", "post"}

(***************************************************************************)
(* Messages                                                                *)
(***************************************************************************)
(* The fields the two programs branch on. *)
Message ==
    [rollOld : BOOLEAN, tower : Nat, canProceed : BOOLEAN, dry : BOOLEAN,
     skip : BOOLEAN, rollback : BOOLEAN, success : BOOLEAN]

NoMessage ==
    [rollOld |-> FALSE, tower |-> 0, canProceed |-> FALSE, dry |-> FALSE,
     skip |-> FALSE, rollback |-> FALSE, success |-> FALSE]

(* gob sends no zero values and decodes into the copy already held, so a    *)
(* field that is zero on the wire keeps the value the receiver had.         *)
Decoded(own, wire) ==
    [rollOld    |-> own.rollOld \/ wire.rollOld,
     tower      |-> IF wire.tower = 0 THEN own.tower ELSE wire.tower,
     canProceed |-> own.canProceed \/ wire.canProceed,
     dry        |-> own.dry \/ wire.dry,
     skip       |-> own.skip \/ wire.skip,
     rollback   |-> own.rollback \/ wire.rollback,
     success    |-> own.success \/ wire.success]

(* Writing to a stream whose connection broke loses the bytes; the writer   *)
(* learns of it only if its own end has noticed (EncodeMayFail).            *)
Sent(queue, m) == IF link = "up" THEN Append(queue, m) ELSE queue
EncodeMayFail == link # "up"

ToClient(m) == toClient' = Sent(toClient, m) /\ UNCHANGED <<toServer, link>>
ToServer(m) == toServer' = Sent(toServer, m) /\ UNCHANGED <<toClient, link>>

(* Mutant: the handler does not close its stream when it returns. *)
ClientReadFailsOnBrokenLink == toClient = <<>> /\ link # "up"

(* A read fails when nothing is left to read and the peer or the connection *)
(* is gone (end of stream, or MaxIdleTimeout).                              *)
ClientReadFails == toClient = <<>> /\ (link # "up" \/ spc \in ServerGone)
(* Mutant: the connection outlives the client process. *)
ServerReadFailsOnBrokenLink == toServer = <<>> /\ link # "up"

ServerReadFails == toServer = <<>> /\ (link # "up" \/ cpc \in ClientEnded)

(***************************************************************************)
(* Set-identity commands and what gossip shows                             *)
(***************************************************************************)
(* Mutant: the dry run flag is not passed on to the command. *)
CommandRuns(h, target, dry) == identity' = [identity EXCEPT ![h] = target]

CommandSucceeds(h, target, dry) ==
    identity' = IF dry THEN identity ELSE [identity EXCEPT ![h] = target]

CommandFails(h, target, dry, kind) ==
    /\ ~dry
    /\ kind \in Faults
    /\ \/ identity' = identity
       \/ "dirty" \in Faults /\ identity' = [identity EXCEPT ![h] = target]

(* A hook's command cannot be started or ends with an error. *)
HookFails == "hook" \in Faults

GossipMayShow(h, id) == identity[h] = id \/ "staleGossip" \in Faults

Init ==
    /\ cfg \in Configs
    /\ identity = [old |-> "active", new |-> "passive"]
    /\ votes = 1
    /\ tower = [old |-> 1, new |-> 0]
    /\ cpc = "idle" /\ cmsg = NoMessage
    /\ spc = "listening" /\ smsg = NoMessage
    /\ toServer = <<>> /\ toClient = <<>> /\ link = "none"
    /\ sessions = 0

(* A validator votes while it runs with the active identity. *)
Vote(h) ==
    /\ identity[h] = "active"
    /\ votes < MaxVotes
    /\ votes' = votes + 1
    /\ tower' = [tower EXCEPT ![h] = votes + 1]
    /\ UNCHANGED <<cfg, identity, client, server, stream, sessions>>

(***************************************************************************)
(* The client, on the old host                                             *)
(***************************************************************************)
(* The operator runs the program on the host gossip shows as active; it     *)
(* refuses to start without a tower file, connects and sends its request.   *)
ClientStart ==
    /\ cpc \in ClientEnded
    /\ sessions < MaxSessions
    /\ spc = "closed" \/ (spc = "listening" /\ toServer = <<>>)
    /\ GossipMayShow("old", "active")
    /\ tower["old"] # 0
    /\ cmsg' = [NoMessage EXCEPT !.rollOld = cfg.rollOld]
    /\ cpc' = "signal"
    /\ spc' = "listening"
    /\ toServer' = <<cmsg'>> /\ toClient' = <<>> /\ link' = "up"
    /\ sessions' = sessions + 1
    /\ UNCHANGED <<cfg, world, smsg>>

(* The server's first message tells the client to proceed, or why not. *)
ClientRecvSignal ==
    /\ cpc = "signal"
    /\ toClient # <<>>
    /\ cmsg' = Decoded(cmsg, Head(toClient))
    /\ toClient' = Tail(toClient)
    /\ cpc' = IF cfg.sameVersion /\ cmsg'.canProceed THEN "leaderWait" ELSE "ended"
    /\ UNCHANGED <<cfg, world, server, toServer, link, sessions>>

ClientSignalLost ==
    /\ cpc = "signal"
    /\ ClientReadFails
    /\ cpc' = "ended"
    /\ UNCHANGED <<cfg, world, cmsg, server, stream, sessions>>

(* Mutant: a failed step does not end the program. *)
ClientPrepareStuck(step, next, fault) ==
    /\ cpc = step
    /\ cpc' = next \/ (fault \in Faults /\ cpc' = fault)
    /\ UNCHANGED <<cfg, world, cmsg, server, stream, sessions>>

(* Three steps before the client touches its identity, each of which may    *)
(* end the program: the wait for the leader schedule, the pre hooks, the    *)
(* wait for the next slot.                                                  *)
ClientPrepare(step, next, fault) ==
    /\ cpc = step
    /\ cpc' = next \/ (fault \in Faults /\ cpc' = "ended")
    /\ UNCHANGED <<cfg, world, cmsg, server, stream, sessions>>

ClientLeaderWait == ClientPrepare("leaderWait", "preHooks", "rpc")
ClientPreHooks == ClientPrepare("preHooks", "slotWait", "hook")
ClientSlotWait == ClientPrepare("slotWait", "goPassive", "rpc")

(* Set identity to passive.  A failing command ends the run; the server is  *)
(* told nothing.                                                            *)
ClientGoPassive ==
    /\ cpc = "goPassive"
    /\ \/ /\ CommandSucceeds("old", "passive", cmsg.dry)
          /\ cpc' = IF cmsg.skip THEN "result" ELSE "readTower"
       \/ /\ CommandFails("old", "passive", cmsg.dry, "cmdOld")
          /\ cpc' = "ended"
    /\ UNCHANGED <<cfg, votes, tower, cmsg, server, stream, sessions>>

ClientReadTower ==
    /\ cpc = "readTower"
    /\ \/ /\ cmsg' = [cmsg EXCEPT !.tower = tower["old"]]
          /\ cpc' = "sendTower"
       \/ /\ "read" \in Faults
          /\ cpc' = "ended"
          /\ UNCHANGED cmsg
    /\ UNCHANGED <<cfg, world, server, stream, sessions>>

(* Mutant: the tower bytes are left out of the message. *)
ClientSendNoTower ==
    /\ cpc = "sendTower"
    /\ cpc' = "result"
    /\ ToServer([cmsg EXCEPT !.tower = 0])
    /\ UNCHANGED <<cfg, world, cmsg, server, sessions>>

ClientSendTower ==
    /\ cpc = "sendTower"
    /\ \/ /\ cpc' = "result"
          /\ ToServer(cmsg)
       \/ /\ EncodeMayFail
          /\ cpc' = "critical"
          /\ UNCHANGED stream
    /\ UNCHANGED <<cfg, world, cmsg, server, sessions>>

(* Mutant: the rollback signal is not looked at. *)
ClientRecvSuccessOnly ==
    /\ cpc = "result"
    /\ toClient # <<>>
    /\ cmsg' = Decoded(cmsg, Head(toClient))
    /\ toClient' = Tail(toClient)
    /\ cpc' = IF cmsg'.success THEN "complete" ELSE "ended"
    /\ UNCHANGED <<cfg, world, server, toServer, link, sessions>>

(* The server's last message: roll back, or the failover is complete. *)
ClientRecvResult ==
    /\ cpc = "result"
    /\ toClient # <<>>
    /\ cmsg' = Decoded(cmsg, Head(toClient))
    /\ toClient' = Tail(toClient)
    /\ cpc' = CASE cmsg'.rollback -> IF cfg.rollOld THEN "revert" ELSE "manual"
                [] ~cmsg'.rollback /\ cmsg'.success -> "complete"
                [] OTHER -> "ended"
    /\ UNCHANGED <<cfg, world, server, toServer, link, sessions>>

(* Mutant: a lost connection is taken for a failed failover. *)
ClientResultLostReverts ==
    /\ cpc = "result"
    /\ ClientReadFails
    /\ cpc' = IF cfg.rollOld THEN "revert" ELSE "critical"
    /\ UNCHANGED <<cfg, world, cmsg, server, stream, sessions>>

(* Without an explicit signal the client does not roll back. *)
ClientResultLost ==
    /\ cpc = "result"
    /\ ClientReadFails
    /\ cpc' = "critical"
    /\ UNCHANGED <<cfg, world, cmsg, server, stream, sessions>>

(* RunRollbackToActive *)
ClientRevert ==
    /\ cpc = "revert"
    /\ \/ /\ CommandSucceeds("old", "active", cmsg.dry)
          /\ cpc' = "reverted"
       \/ /\ CommandFails("old", "active", cmsg.dry, "cmdRevert")
          /\ cpc' = "manual"
    /\ UNCHANGED <<cfg, votes, tower, cmsg, server, stream, sessions>>

(***************************************************************************)
(* The server's stream handler, on the new host                            *)
(***************************************************************************)
(* Mutant: the server's own settings are not put in the message. *)
ServerAcceptAsSent ==
    /\ spc = "listening"
    /\ toServer # <<>>
    /\ smsg' = Decoded(NoMessage, Head(toServer))
    /\ toServer' = Tail(toServer)
    /\ spc' = "validate"
    /\ UNCHANGED <<cfg, world, client, toClient, link, sessions>>

(* Decode the request and put the server's own settings in the message. *)
ServerAccept ==
    /\ spc = "listening"
    /\ toServer # <<>>
    /\ smsg' = [Decoded(NoMessage, Head(toServer))
                  EXCEPT !.dry = cfg.dryRun, !.skip = cfg.skipTower]
    /\ toServer' = Tail(toServer)
    /\ spc' = "validate"
    /\ UNCHANGED <<cfg, world, client, toClient, link, sessions>>

(* Refuse: the message, without CanProceed, goes back to the client, and    *)
(* the handler returns ("closed") or the process exits ("exited").          *)
Refuse(how) ==
    /\ spc' = how
    /\ ToClient(smsg)

(* Mutant: no check that rollback is enabled on both sides or neither. *)
ServerValidateNoRollbackCheck ==
    /\ spc = "validate"
    /\ \/ ~cfg.sameVersion /\ Refuse("exited")
       \/ /\ cfg.sameVersion
          /\ GossipMayShow("old", "active")
          /\ spc' = "confirm"
          /\ UNCHANGED stream
    /\ UNCHANGED <<cfg, world, client, smsg, sessions>>

(* Same release on both sides; the client's host runs the active identity   *)
(* according to gossip; rollback enabled on both sides or on neither.       *)
ServerValidate ==
    /\ spc = "validate"
    /\ \/ ~cfg.sameVersion /\ Refuse("exited")
       \/ /\ cfg.sameVersion
          /\ "rpc" \in Faults \/ identity["old"] # "active"
          /\ Refuse("closed")
       \/ /\ cfg.sameVersion
          /\ GossipMayShow("old", "active")
          /\ cfg.rollNew # smsg.rollOld
          /\ Refuse("exited")
       \/ /\ cfg.sameVersion
          /\ GossipMayShow("old", "active")
          /\ cfg.rollNew = smsg.rollOld
          /\ spc' = "confirm"
          /\ UNCHANGED stream
    /\ UNCHANGED <<cfg, world, client, smsg, sessions>>

ServerConfirm ==
    /\ spc = "confirm"
    /\ \/ spc' = "sample" /\ UNCHANGED stream
       \/ "decline" \in Faults /\ Refuse("exited")
    /\ UNCHANGED <<cfg, world, client, smsg, sessions>>

(* The first vote-credits sample, to compare with after the failover. *)
ServerSample ==
    /\ spc = "sample"
    /\ \/ spc' = "prepare" /\ UNCHANGED stream
       \/ "rpc" \in Faults /\ Refuse("closed")
    /\ UNCHANGED <<cfg, world, client, smsg, sessions>>

(* Remove the tower file, or open it for writing, which empties it. *)
ServerPrepareTower ==
    /\ spc = "prepare"
    /\ \/ /\ tower' = [tower EXCEPT !["new"] = 0]
          /\ spc' = "preHooks"
          /\ UNCHANGED stream
       \/ /\ "write" \in Faults
          /\ Refuse(IF cfg.skipTower THEN "exited" ELSE "closed")
          /\ UNCHANGED tower
    /\ UNCHANGED <<cfg, identity, votes, client, smsg, sessions>>

ServerPreHooks ==
    /\ spc = "preHooks"
    /\ \/ spc' = "proceed" /\ UNCHANGED stream
       \/ HookFails /\ Refuse("exited")
    /\ UNCHANGED <<cfg, world, client, smsg, sessions>>

(* Tell the client to proceed.  With --skip-tower-sync the server then sets *)
(* its identity at once, else it waits for the tower file.                  *)
ServerProceed ==
    /\ spc = "proceed"
    /\ smsg' = [smsg EXCEPT !.canProceed = TRUE]
    /\ \/ /\ ToClient(smsg')
          /\ spc' = IF cfg.skipTower THEN "goActive" ELSE "recvTower"
       \/ /\ EncodeMayFail
          /\ spc' = "closed"
          /\ UNCHANGED stream
    /\ UNCHANGED <<cfg, world, client, sessions>>

ServerRecvTower ==
    /\ spc = "recvTower"
    /\ toServer # <<>>
    /\ smsg' = Decoded(smsg, Head(toServer))
    /\ toServer' = Tail(toServer)
    /\ spc' = "writeTower"
    /\ UNCHANGED <<cfg, world, client, toClient, link, sessions>>

(* Mutant: the server goes on when no tower can be read. *)
ServerTowerLostIgnored ==
    /\ spc = "recvTower"
    /\ ServerReadFails
    /\ spc' = "writeTower"
    /\ UNCHANGED <<cfg, world, client, smsg, stream, sessions>>

ServerTowerLost ==
    /\ spc = "recvTower"
    /\ ServerReadFails
    /\ spc' = "closed"
    /\ UNCHANGED <<cfg, world, client, smsg, stream, sessions>>

(* Mutant: a failing write of the tower is not noticed. *)
ServerWriteTowerIgnored ==
    /\ spc = "writeTower"
    /\ spc' = "goActive"
    /\ \/ tower' = [tower EXCEPT !["new"] = smsg.tower]
       \/ "write" \in Faults /\ UNCHANGED tower
    /\ UNCHANGED <<cfg, identity, votes, client, smsg, stream, sessions>>

(* The hash of the bytes travels with them and is that of the same read, so *)
(* over TLS its check never fails and is left out.  A failing write ends    *)
(* the handler without a message: no rollback is signalled.                 *)
ServerWriteTower ==
    /\ spc = "writeTower"
    /\ \/ /\ tower' = [tower EXCEPT !["new"] = smsg.tower]
          /\ spc' = "goActive"
       \/ /\ "write" \in Faults
          /\ spc' = "closed"
          /\ UNCHANGED tower
    /\ UNCHANGED <<cfg, identity, votes, client, smsg, stream, sessions>>

(* Mutant: a failing set-identity command is not noticed. *)
ServerGoActiveIgnored ==
    /\ spc = "goActive"
    /\ \/ CommandSucceeds("new", "active", cfg.dryRun)
       \/ CommandFails("new", "active", cfg.dryRun, "cmdNew")
    /\ spc' = "report"
    /\ UNCHANGED <<cfg, votes, tower, client, smsg, stream, sessions>>

(* Set identity to active.  If the command fails and rollback is enabled,   *)
(* the client is told first, then the server re-asserts its own identity.   *)
ServerGoActive ==
    /\ spc = "goActive"
    /\ \/ /\ CommandSucceeds("new", "active", cfg.dryRun)
          /\ spc' = "report"
          /\ UNCHANGED <<smsg, stream>>
       \/ /\ CommandFails("new", "active", cfg.dryRun, "cmdNew")
          /\ cfg.rollNew
          /\ smsg' = [smsg EXCEPT !.rollback = TRUE]
          /\ ToClient(smsg')
          /\ spc' = "revert"
       \/ /\ CommandFails("new", "active", cfg.dryRun, "cmdNew")
          /\ ~cfg.rollNew
          /\ spc' = "exited"
          /\ UNCHANGED <<smsg, stream>>
    /\ UNCHANGED <<cfg, votes, tower, client, sessions>>

(* RunRollbackToPassive, then exit. *)
ServerRevert ==
    /\ spc = "revert"
    /\ \/ CommandSucceeds("new", "passive", cfg.dryRun)
       \/ CommandFails("new", "passive", cfg.dryRun, "cmdRevert")
    /\ spc' = "exited"
    /\ UNCHANGED <<cfg, votes, tower, client, smsg, stream, sessions>>

(* Tell the client.  If that fails the handler returns: the host is active  *)
(* and the process still listens.                                           *)
ServerReport ==
    /\ spc = "report"
    /\ smsg' = [smsg EXCEPT !.success = TRUE]
    /\ \/ ToClient(smsg') /\ spc' = "post"
       \/ EncodeMayFail /\ spc' = "closed" /\ UNCHANGED stream
    /\ UNCHANGED <<cfg, world, client, sessions>>

(* Post hooks, gossip check and credit samples change nothing here; then    *)
(* the connection is closed, which drops what the client has not read.      *)
ServerPost ==
    /\ spc = "post"
    /\ spc' = "complete"
    /\ link' = "broken" /\ toClient' = <<>> /\ toServer' = <<>>
    /\ UNCHANGED <<cfg, world, client, smsg, sessions>>

(***************************************************************************)
(* The environment: killed processes, restarts, a broken connection        *)
(***************************************************************************)
ClientCrash ==
    /\ "crash" \in Faults
    /\ cpc \in ClientRunning
    /\ cpc' = "ended"
    /\ UNCHANGED <<cfg, world, cmsg, server, stream, sessions>>

ServerCrash ==
    /\ "crash" \in Faults
    /\ spc \in ServerHandling \cup {"listening", "closed"}
    /\ spc' = "exited"
    /\ UNCHANGED <<cfg, world, client, smsg, stream, sessions>>

(* The operator runs the server again on a host gossip shows as passive;    *)
(* a tower file left there is deleted first.  Connections to the process    *)
(* that exited are dead; the client still reads what reached it.            *)
ServerRestart ==
    /\ spc = "exited"
    /\ sessions < MaxSessions
    /\ GossipMayShow("new", "passive")
    /\ spc' = "listening"
    /\ tower' = [tower EXCEPT !["new"] = 0]
    /\ toServer' = <<>> /\ link' = "broken"
    /\ UNCHANGED <<cfg, identity, votes, client, smsg, toClient, sessions>>

LinkBreak ==
    /\ "link" \in Faults
    /\ link = "up"
    /\ link' = "broken" /\ toServer' = <<>> /\ toClient' = <<>>
    /\ UNCHANGED <<cfg, world, client, server, sessions>>

ClientStep ==
    \/ ClientRecvSignal \/ ClientSignalLost
    \/ ClientLeaderWait \/ ClientPreHooks \/ ClientSlotWait
    \/ ClientGoPassive \/ ClientReadTower \/ ClientSendTower
    \/ ClientRecvResult \/ ClientResultLost \/ ClientRevert

ServerStep ==
    \/ ServerAccept \/ ServerValidate \/ ServerConfirm \/ ServerSample
    \/ ServerPrepareTower \/ ServerPreHooks \/ ServerProceed
    \/ ServerRecvTower \/ ServerTowerLost \/ ServerWriteTower
    \/ ServerGoActive \/ ServerRevert \/ ServerReport \/ ServerPost

Environment ==
    \/ ClientStart \/ ClientCrash
    \/ ServerRestart \/ ServerCrash
    \/ LinkBreak
    \/ \E h \in Hosts : Vote(h)

Next == ClientStep \/ ServerStep \/ Environment

Spec == Init /\ [][Next]_vars

(* Each program takes its next step eventually: RPC polls return, the       *)
(* operator answers the prompt, the leader schedule lets the client go on.  *)
Fairness == WF_vars(ClientStep) /\ WF_vars(ServerStep)

FairSpec == Spec /\ Fairness

(***************************************************************************)
(* Properties                                                              *)
(***************************************************************************)
(* Every variable keeps its type. *)
TypeOK ==
    /\ cfg \in Configs
    /\ identity \in [Hosts -> {"active", "passive"}]
    /\ votes \in Nat \ {0}
    /\ tower \in [Hosts -> Nat]
    /\ cpc \in ClientRunning \cup ClientEnded
    /\ spc \in ServerHandling \cup ServerGone \cup {"listening"}
    /\ cmsg \in Message /\ smsg \in Message
    /\ toServer \in Seq(Message) /\ toClient \in Seq(Message)
    /\ link \in {"none", "up", "broken"}
    /\ sessions \in 0 .. MaxSessions

(* The two hosts never run with the active identity at the same time,       *)
(* whatever fails on the way: README.md's "active sets identity to passive, *)
(* tower file synced, passive sets identity to active", in that order.      *)
OneActive == ~(identity["old"] = "active" /\ identity["new"] = "active")

(* A host runs with the active identity only while its tower file records   *)
(* every vote cast, also after a rollback: the reason for the tower sync.   *)
ActiveKnowsLastVote == \A h \in Hosts : identity[h] = "active" => tower[h] = votes

(* A client that proceeds has a server of the same release that rolls back  *)
(* if and only if the client does (server.go: "Partial rollback is worse    *)
(* than no rollback").                                                      *)
AgreedBeforeMoving ==
    cpc \in (ClientRunning \ {"signal"}) \cup {"critical", "manual", "reverted", "complete"}
        => cfg.sameVersion /\ cfg.rollOld = cfg.rollNew

(* A client that says "failover complete" has handed the identity over. *)
CompletionAgrees ==
    cpc = "complete" /\ ~cfg.dryRun
        => identity = [old |-> "passive", new |-> "active"]

(* A dry run, decided by the server alone, moves no identity on either host *)
(* and ends with no client believing it is stranded passive by a rollback.  *)
DryRunMovesNothing ==
    cfg.dryRun => /\ identity = [old |-> "active", new |-> "passive"]
                  /\ cpc \notin {"revert", "reverted", "manual"}

(* The old host becomes active again only on the server's explicit signal,  *)
(* with rollback enabled on both sides, and never while the new host is     *)
(* active (README.md "No auto-rollback on connection drop").                *)
RevertOnlyOnSignal ==
    [][identity["old"] = "passive" /\ identity'["old"] = "active"
        => /\ smsg.rollback
           /\ cfg.rollOld /\ cfg.rollNew
           /\ identity'["new"] = "passive"]_vars

(* Between them the hosts do not lose the identity: when both programs are  *)
(* done, one of the validators is active.                                   *)
NobodyLeftPassive ==
    cpc \in ClientEnded /\ spc \in ServerGone
        => \E h \in Hosts : identity[h] = "active"

(* A client that runs ends: no wait of the two programs on one another.     *)
ClientEnds == cpc \in ClientRunning ~> cpc \in ClientEnded

(* A stream handler returns, whatever the client does. *)
HandlerReturns == spc \in ServerHandling ~> spc \in ServerGone

(* What the failover promises, without its protocol. *)
Holder ==
    IF identity["old"] = "active" THEN "old"
    ELSE IF identity["new"] = "active" THEN "new" ELSE "none"

Abstract == INSTANCE Handover WITH holder <- Holder

(* The identity moves as Handover says: released, then taken by one host    *)
(* that knows the last vote.                                                *)
ImplementsHandover == Abstract!Spec
===============================================================================
