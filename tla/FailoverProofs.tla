---------------------------- MODULE FailoverProofs ----------------------------
(***************************************************************************)
(* Theorems about Failover, for every set of configurations, every bound   *)
(* and every set of faults.  Types, agreement, completion, dry runs, the   *)
(* order of the messages and that a rollback was asked for need nothing    *)
(* more.  That one validator at most is active, with all that follows,     *)
(* assumes Clean (FailoverInductive): without it two may be, see the runs  *)
(* of MCFailover that expect a violation.  The theorems in between, on the *)
(* roles told to hooks and on the outcome, each assume the part that they  *)
(* need.                                                                   *)
(***************************************************************************)
EXTENDS FailoverOutcome, SequenceTheorems, TLAPS

USE DEF Hosts

-------------------------------------------------------------------------------
(* Decoding a message into a copy of one yields a message. *)
LEMMA DecodedType ==
    ASSUME NEW own \in Message, NEW wire \in Message
    PROVE  Decoded(own, wire) \in Message
  BY DEF Decoded, Message

(* A message with another tower file is a message, the same in the rest. *)
LEMMA OtherTower ==
    ASSUME NEW m \in Message, NEW n \in Nat
    PROVE  /\ [m EXCEPT !.tower = n] \in Message
           /\ [m EXCEPT !.tower = n].tower = n
           /\ [m EXCEPT !.tower = n].rollOld = m.rollOld
           /\ [m EXCEPT !.tower = n].canProceed = m.canProceed
           /\ [m EXCEPT !.tower = n].dry = m.dry
           /\ [m EXCEPT !.tower = n].skip = m.skip
           /\ [m EXCEPT !.tower = n].rollback = m.rollback
           /\ [m EXCEPT !.tower = n].success = m.success
  BY DEF Message

(* What the handler makes of a request: the server's settings replace those *)
(* of the client, the rest is as the client sent it.                        *)
LEMMA Accepted ==
    ASSUME TypeOK, ServerAccept
    PROVE  /\ Head(toServer) \in Message /\ smsg' \in Message
           /\ smsg'.dry = cfg.dryRun /\ smsg'.skip = cfg.skipTower
           /\ smsg'.rollOld = Head(toServer).rollOld
           /\ smsg'.canProceed = Head(toServer).canProceed
           /\ smsg'.rollback = Head(toServer).rollback
           /\ smsg'.success = Head(toServer).success
<1> DEFINE wire == Head(toServer)
           read == Decoded(NoMessage, wire)
<1>1. wire \in Message /\ cfg.dryRun \in BOOLEAN /\ cfg.skipTower \in BOOLEAN
  BY HeadTailProperties, ConfigsAssumption DEF TypeOK, ServerAccept, ConfigType
<1>2. read \in Message
  BY <1>1, DecodedType DEF NoMessage, Message
<1>3. /\ read.rollOld = wire.rollOld /\ read.canProceed = wire.canProceed
      /\ read.rollback = wire.rollback /\ read.success = wire.success
  <2>1. /\ wire.rollOld \in BOOLEAN /\ wire.canProceed \in BOOLEAN
        /\ wire.rollback \in BOOLEAN /\ wire.success \in BOOLEAN
    BY <1>1 DEF Message
  <2> QED BY <2>1 DEF Decoded, NoMessage
<1>4. smsg' = [read EXCEPT !.dry = cfg.dryRun, !.skip = cfg.skipTower]
  BY DEF ServerAccept
<1> HIDE DEF read, wire
<1>5. /\ smsg' \in Message
      /\ smsg'.dry = cfg.dryRun /\ smsg'.skip = cfg.skipTower
      /\ smsg'.rollOld = read.rollOld /\ smsg'.canProceed = read.canProceed
      /\ smsg'.rollback = read.rollback /\ smsg'.success = read.success
  BY <1>1, <1>2, <1>4 DEF Message
<1> QED BY <1>1, <1>3, <1>5 DEF wire

(* Writing keeps a stream a sequence of messages. *)
LEMMA SentType ==
    ASSUME NEW q \in Seq(Message), NEW m \in Message
    PROVE  Sent(q, m) \in Seq(Message)
  BY DEF Sent

(* So does reading from it. *)
LEMMA ReadType ==
    ASSUME NEW q \in Seq(Message), q # <<>>
    PROVE  Head(q) \in Message /\ Tail(q) \in Seq(Message)
  BY HeadTailProperties

(* The steps of the client keep the types. *)
LEMMA ClientType == TypeOK /\ ClientStep => TypeOK'
<1> SUFFICES ASSUME TypeOK, ClientStep PROVE TypeOK'
  OBVIOUS
<1> USE DEF ClientRunning, ClientEnded, TypeOK, world, client, server, stream
<1>1. CASE ClientRecvSignal
  BY <1>1, DecodedType, ReadType DEF ClientRecvSignal
<1>2. CASE ClientSignalLost
  BY <1>2 DEF ClientSignalLost
<1>3. CASE ClientLeaderWait
  BY <1>3 DEF ClientLeaderWait, ClientPrepare
<1>4. CASE ClientPreHooks
  BY <1>4 DEF ClientPreHooks, ClientPrepare
<1>5. CASE ClientSlotWait
  BY <1>5 DEF ClientSlotWait, ClientPrepare
<1>6. CASE ClientGoPassive
  BY <1>6 DEF ClientGoPassive, CommandSucceeds, CommandFails
<1>7. CASE ClientReadTower
  BY <1>7, OtherTower DEF ClientReadTower
<1>8. CASE ClientSendTower
  BY <1>8, SentType DEF ClientSendTower, ToServer
<1>9. CASE ClientRecvResult
  BY <1>9, DecodedType, ReadType DEF ClientRecvResult
<1>10. CASE ClientResultLost
  BY <1>10 DEF ClientResultLost
<1>11. CASE ClientRevert
  BY <1>11 DEF ClientRevert, CommandSucceeds, CommandFails
<1> QED
  BY <1>1, <1>2, <1>3, <1>4, <1>5, <1>6, <1>7, <1>8, <1>9, <1>10, <1>11 DEF ClientStep

(* The steps of the server keep the types. *)
LEMMA ServerType == TypeOK /\ ServerStep => TypeOK'
<1> SUFFICES ASSUME TypeOK, ServerStep PROVE TypeOK'
  OBVIOUS
<1> USE DEF ServerHandling, ServerGone, TypeOK, world, client, server, stream
<1>0. ASSUME NEW m \in Message, ToClient(m)
      PROVE  /\ toClient' \in Seq(Message) /\ toServer' \in Seq(Message)
             /\ link' \in {"none", "up", "broken"}
  BY <1>0, SentType DEF ToClient
<1>1. CASE ServerAccept
  BY <1>1, Accepted, ReadType DEF ServerAccept
<1>2. CASE ServerValidate
  BY <1>2, <1>0 DEF ServerValidate, Refuse
<1>3. CASE ServerConfirm
  BY <1>3, <1>0 DEF ServerConfirm, Refuse
<1>4. CASE ServerSample
  BY <1>4, <1>0 DEF ServerSample, Refuse
<1>5. CASE ServerPrepareTower
  BY <1>5, <1>0 DEF ServerPrepareTower, Refuse
<1>6. CASE ServerPreHooks
  BY <1>6, <1>0 DEF ServerPreHooks, Refuse
<1>7. CASE ServerProceed
  <2>1. smsg' \in Message
    BY <1>7 DEF ServerProceed, Message
  <2> QED
    BY <1>7, <2>1, <1>0 DEF ServerProceed
<1>8. CASE ServerRecvTower
  BY <1>8, DecodedType, ReadType DEF ServerRecvTower
<1>9. CASE ServerTowerLost
  BY <1>9 DEF ServerTowerLost
<1>10. CASE ServerWriteTower
  <2>1. smsg.tower \in Nat
    BY DEF Message
  <2> QED BY <1>10, <2>1 DEF ServerWriteTower
<1>11. CASE ServerGoActive
  <2>1. identity' \in [Hosts -> {"active", "passive"}]
    BY <1>11 DEF ServerGoActive, CommandSucceeds, CommandFails
  <2>2. [smsg EXCEPT !.rollback = TRUE] \in Message
    BY DEF Message
  <2> QED
    BY <1>11, <2>1, <2>2, <1>0 DEF ServerGoActive
<1>12. CASE ServerRevert
  BY <1>12 DEF ServerRevert, CommandSucceeds, CommandFails
<1>13. CASE ServerReport
  <2>1. smsg' \in Message
    BY <1>13 DEF ServerReport, Message
  <2> QED
    BY <1>13, <2>1, <1>0 DEF ServerReport
<1>14. CASE ServerPost
  BY <1>14 DEF ServerPost
<1> QED
  BY <1>1, <1>2, <1>3, <1>4, <1>5, <1>6, <1>7, <1>8, <1>9, <1>10, <1>11, <1>12,
     <1>13, <1>14 DEF ServerStep

(* The steps of the operator, the validators and the network keep the types. *)
LEMMA EnvironmentType == TypeOK /\ Environment => TypeOK'
<1> SUFFICES ASSUME TypeOK, Environment PROVE TypeOK'
  OBVIOUS
<1> USE DEF TypeOK, world, client, server, stream
<1>1. CASE ClientStart
  <2>1. cmsg' \in Message
    BY <1>1, ConfigsAssumption DEF ClientStart, NoMessage, Message, ConfigType
  <2>2. toServer' \in Seq(Message) /\ toClient' \in Seq(Message)
    BY <1>1, <2>1 DEF ClientStart
  <2>3. sessions' \in 0 .. MaxSessions
    BY <1>1, BoundsAssumption DEF ClientStart
  <2> QED
    BY <1>1, <2>1, <2>2, <2>3 DEF ClientStart, ClientRunning
<1>2. CASE ClientCrash
  BY <1>2 DEF ClientCrash, ClientEnded
<1>3. CASE ServerRestart
  BY <1>3 DEF ServerRestart
<1>4. CASE ServerCrash
  BY <1>4 DEF ServerCrash, ServerGone
<1>5. CASE LinkBreak
  BY <1>5 DEF LinkBreak
<1>6. ASSUME NEW h \in Hosts, Vote(h) PROVE TypeOK'
  BY <1>6 DEF Vote
<1> QED
  BY <1>1, <1>2, <1>3, <1>4, <1>5, <1>6 DEF Environment

(* The types hold at the start, *)
LEMMA TypeInit == Init => TypeOK
  BY BoundsAssumption DEF Init, TypeOK, NoMessage, Message, ClientEnded

(* and every step keeps them. *)
LEMMA TypeNext == TypeOK /\ [Next]_vars => TypeOK'
<1>1. CASE UNCHANGED vars
  BY <1>1 DEF vars, TypeOK
<1> QED
  BY <1>1, ClientType, ServerType, EnvironmentType DEF Next

(* Every variable keeps its type in every behaviour. *)
THEOREM TypeCorrect == Spec => []TypeOK
<1> QED
  BY TypeInit, TypeNext, PTL DEF Spec

-------------------------------------------------------------------------------
(* Reading the only message of a stream leaves the stream empty. *)
LEMMA ReadOne ==
    ASSUME NEW q \in Seq(Message), q # <<>>, Len(q) <= 1
    PROVE  Head(q) \in Message /\ Tail(q) = <<>>
  BY EmptySeq, HeadTailProperties

(* Writing to an empty stream leaves at most the message written. *)
LEMMA WriteToClient ==
    ASSUME toClient = <<>>, NEW m \in Message, ToClient(m)
    PROVE  /\ Len(toClient') <= 1
           /\ toClient' # <<>> => Head(toClient') = m
           /\ UNCHANGED <<toServer, link>>
  BY DEF ToClient, Sent

(* The same towards the server. *)
LEMMA WriteToServer ==
    ASSUME toServer = <<>>, NEW m \in Message, ToServer(m)
    PROVE  /\ Len(toServer') <= 1
           /\ toServer' # <<>> => Head(toServer') = m /\ link = "up"
           /\ UNCHANGED <<toClient, link>>
  BY DEF ToServer, Sent

(* A decoded field is set if it was set in the copy or on the wire. *)
LEMMA DecodedFields ==
    ASSUME NEW own \in Message, NEW wire \in Message
    PROVE  /\ Decoded(own, wire).rollOld <=> own.rollOld \/ wire.rollOld
           /\ Decoded(own, wire).canProceed <=> own.canProceed \/ wire.canProceed
           /\ Decoded(own, wire).rollback <=> own.rollback \/ wire.rollback
           /\ Decoded(own, wire).success <=> own.success \/ wire.success
           /\ Decoded(own, wire).dry <=> own.dry \/ wire.dry
           /\ Decoded(own, wire).skip <=> own.skip \/ wire.skip
           /\ Decoded(own, wire).tower = IF wire.tower = 0 THEN own.tower ELSE wire.tower
  BY DEF Decoded, Message

(* Decoding a message that says nothing false into such a copy yields one. *)
LEMMA DecodedHonest ==
    ASSUME NEW own \in Message, NEW wire \in Message, Honest(own), Honest(wire)
    PROVE  Honest(Decoded(own, wire))
  BY DecodedFields DEF Honest

(* What the restriction to clean faults says of the constants. *)
LEMMA Facts ==
    ASSUME TypeOK, Clean
    PROVE  /\ cfg.skipTower = FALSE /\ cfg \in ConfigType
           /\ "dirty" \notin Faults /\ "staleGossip" \notin Faults
  BY ConfigsAssumption DEF TypeOK, Clean, ConfigType

(* The steps of the client keep the invariant. *)
LEMMA ClientKeeps ==
    ASSUME IInv, Clean, ClientStep, TypeOK'
    PROVE  IInv'
<1> USE DEF ClientRunning, ClientEnded, ServerHandling, ServerGone, Preparing, Checking,
        Acting, TowerSent, world, client, server, stream
<1>1. CASE ClientRecvSignal
  <2>1. Head(toClient) \in Message /\ toClient' = <<>> /\ cmsg \in Message
    BY <1>1, ReadOne DEF ClientRecvSignal, IInv, TypeOK, Queues
  <2>2. Queues'
    BY <1>1 DEF ClientRecvSignal, IInv, Queues
  <2>3. Messages'
    <3>1. /\ cpc = "signal" /\ toClient # <<>> /\ cmsg' = Decoded(cmsg, Head(toClient))
          /\ cpc' \in {"leaderWait", "ended"} /\ (cpc' = "leaderWait" => cmsg'.canProceed)
          /\ UNCHANGED <<cfg, identity, smsg, spc, toServer>>
      BY <1>1 DEF ClientRecvSignal
    <3>2. /\ Honest(cmsg) /\ Honest(Head(toClient)) /\ ~cmsg.rollback /\ ~Head(toClient).rollback
          /\ cmsg.rollOld = cfg.rollOld /\ (Head(toClient).rollOld => cfg.rollOld)
      BY <3>1 DEF IInv, Messages, Rollbacks, Honest
    <3>3. Honest(cmsg)'
      <4>1. Honest(cmsg')
        BY <2>1, <3>1, <3>2, DecodedHonest
      <4> QED BY <3>1, <4>1 DEF Honest, Agreed
    <3>4. cmsg'.rollOld = cfg.rollOld /\ ~cmsg'.rollback
      <4>1. cmsg'.rollOld \in BOOLEAN /\ cmsg.rollOld \in BOOLEAN
        BY <2>1, <3>1, DecodedType DEF Message
      <4> QED BY <2>1, <3>1, <3>2, <4>1, DecodedFields
    <3> QED BY <2>1, <3>1, <3>3, <3>4 DEF IInv, Messages, Honest, Agreed
  <2>4. Rollbacks'
    BY <1>1 DEF ClientRecvSignal, IInv, Queues, Rollbacks
  <2>5. Released'
    BY <1>1 DEF ClientRecvSignal, IInv, Released
  <2>6. Taken'
    BY <1>1 DEF ClientRecvSignal, IInv, Taken
  <2>7. TowerKnown'
    BY <1>1 DEF ClientRecvSignal, IInv, TowerKnown
  <2> QED
    BY <2>2, <2>3, <2>4, <2>5, <2>6, <2>7 DEF IInv
<1>2. CASE ClientSignalLost
  BY <1>2 DEF ClientSignalLost, IInv, Queues, Messages, Rollbacks, Released, Taken,
       TowerKnown, Honest, Agreed
<1>3. CASE ClientLeaderWait
  BY <1>3 DEF ClientLeaderWait, IInv, Queues, Messages, Rollbacks, Released, Taken,
       TowerKnown, Honest, Agreed, ClientPrepare
<1>4. CASE ClientPreHooks
  BY <1>4 DEF ClientPreHooks, IInv, Queues, Messages, Rollbacks, Released, Taken,
       TowerKnown, Honest, Agreed, ClientPrepare
<1>5. CASE ClientSlotWait
  BY <1>5 DEF ClientSlotWait, IInv, Queues, Messages, Rollbacks, Released, Taken,
       TowerKnown, Honest, Agreed, ClientPrepare
<1>6. CASE ClientGoPassive
  <2>1. /\ cpc = "goPassive" /\ cpc' \in {"result", "readTower", "ended"}
        /\ UNCHANGED <<cfg, votes, tower, cmsg, spc, smsg, toServer, toClient, link, sessions>>
        /\ identity'["new"] = identity["new"]
        /\ identity' = identity \/ (~cmsg.dry /\ identity'["old"] = "passive")
        /\ cmsg.dry \/ cpc' = "ended" \/ identity'["old"] = "passive"
    BY <1>6 DEF ClientGoPassive, CommandSucceeds, CommandFails, IInv, TypeOK
  <2>2. Queues'
    BY <2>1 DEF IInv, Queues
  <2>3. Messages'
    BY <2>1 DEF IInv, Messages, Honest, Agreed
  <2>4. Rollbacks'
    BY <2>1 DEF IInv, Rollbacks
  <2>5. Released'
    BY <2>1 DEF IInv, Queues, Messages, Honest, Released
  <2>6. Taken'
    BY <2>1 DEF IInv, Messages, Honest, Taken
  <2>7. TowerKnown'
    BY <2>1 DEF IInv, Queues, TowerKnown
  <2> QED BY <2>2, <2>3, <2>4, <2>5, <2>6, <2>7 DEF IInv
<1>7. CASE ClientReadTower
  <2>1. Queues'
    BY <1>7 DEF ClientReadTower, IInv, Queues
  <2>2. Messages'
    <3>1. cmsg' = cmsg \/ cmsg' = [cmsg EXCEPT !.tower = tower["old"]]
      BY <1>7 DEF ClientReadTower
    <3>2. /\ cmsg'.skip = cmsg.skip /\ cmsg'.dry = cmsg.dry
          /\ cmsg'.canProceed = cmsg.canProceed /\ cmsg'.rollOld = cmsg.rollOld
          /\ cmsg'.rollback = cmsg.rollback /\ cmsg'.success = cmsg.success
      <4>1. cmsg \in Message /\ tower["old"] \in Nat
        BY DEF IInv, TypeOK
      <4>2. CASE cmsg' = cmsg
        BY <4>2
      <4>3. CASE cmsg' = [cmsg EXCEPT !.tower = tower["old"]]
        BY <4>1, <4>3, OtherTower
      <4> QED BY <3>1, <4>2, <4>3
    <3>3. /\ cpc = "readTower" /\ cpc' \in {"sendTower", "ended"}
          /\ UNCHANGED <<cfg, identity, spc, smsg, toServer, toClient>>
      BY <1>7 DEF ClientReadTower
    <3>4. Honest(cmsg)'
      BY <3>2, <3>3 DEF IInv, Messages, Honest, Agreed
    <3> QED BY <3>2, <3>3, <3>4 DEF IInv, Messages, Honest, Agreed
  <2>3. Rollbacks'
    BY <1>7 DEF ClientReadTower, IInv, Rollbacks
  <2>4. Released'
    BY <1>7 DEF ClientReadTower, IInv, Released
  <2>5. Taken'
    BY <1>7 DEF ClientReadTower, IInv, Taken
  <2>6. TowerKnown'
    BY <1>7 DEF ClientReadTower, IInv, TowerKnown, TypeOK, Message
  <2> QED
    BY <2>1, <2>2, <2>3, <2>4, <2>5, <2>6 DEF IInv
<1>8. CASE ClientSendTower
  <2>1. toServer = <<>> /\ cmsg \in Message
    BY <1>8 DEF ClientSendTower, IInv, TypeOK, Queues
  <2>2. \/ UNCHANGED stream /\ cpc' = "critical"
        \/ /\ Len(toServer') <= 1 /\ (toServer' # <<>> => Head(toServer') = cmsg /\ link = "up")
           /\ cpc' = "result" /\ UNCHANGED <<toClient, link>>
    BY <1>8, <2>1, WriteToServer DEF ClientSendTower
  <2>3. Queues'
    BY <1>8, <2>2 DEF ClientSendTower, IInv, Queues
  <2>4. Messages'
    BY <1>8 DEF ClientSendTower, IInv, Queues, Messages, Honest, Agreed, ToServer, Sent
  <2>5. Rollbacks'
    BY <1>8 DEF ClientSendTower, IInv, Rollbacks, ToServer
  <2>6. Released'
    BY <1>8 DEF ClientSendTower, IInv, Released
  <2>7. Taken'
    BY <1>8 DEF ClientSendTower, IInv, Taken
  <2>8. TowerKnown'
    BY <1>8 DEF ClientSendTower, IInv, Queues, Taken, TowerKnown, TypeOK, ToServer, Sent
  <2> QED
    BY <2>3, <2>4, <2>5, <2>6, <2>7, <2>8 DEF IInv
<1>9. CASE ClientRecvResult
  <2>1. Head(toClient) \in Message /\ toClient' = <<>> /\ cmsg \in Message
    BY <1>9, ReadOne DEF ClientRecvResult, IInv, TypeOK, Queues
  <2>2. Queues'
    BY <1>9, <2>1, DecodedFields DEF ClientRecvResult, IInv, Queues, Messages, Rollbacks
  <2>3. Messages'
    BY SMTT(30), <1>9, <2>1, DecodedFields DEF ClientRecvResult, IInv, Queues, Messages, TypeOK,
         Honest, Agreed, Message
  <2>4. Rollbacks'
    BY <1>9, <2>1, DecodedFields DEF ClientRecvResult, IInv, Messages, Rollbacks
  <2>5. Released'
    BY <1>9 DEF ClientRecvResult, IInv, Released
  <2>6. Taken'
    BY <1>9, <2>1, DecodedFields DEF ClientRecvResult, IInv, Messages, Taken
  <2>7. TowerKnown'
    BY <1>9 DEF ClientRecvResult, IInv, TowerKnown
  <2> QED
    BY <2>2, <2>3, <2>4, <2>5, <2>6, <2>7 DEF IInv
<1>10. CASE ClientResultLost
  BY <1>10 DEF ClientResultLost, IInv, Queues, Messages, Rollbacks, Released, Taken,
       TowerKnown, Honest, Agreed
<1>11. CASE ClientRevert
  BY <1>11 DEF ClientRevert, IInv, Queues, Messages, Rollbacks, Released, Taken,
       TowerKnown, TypeOK, Honest, Agreed, CommandSucceeds, CommandFails
<1> QED
  BY <1>1, <1>2, <1>3, <1>4, <1>5, <1>6, <1>7, <1>8, <1>9, <1>10, <1>11 DEF ClientStep

(* The steps of the server keep the invariant. *)
LEMMA ServerKeeps ==
    ASSUME IInv, Clean, ServerStep, TypeOK'
    PROVE  IInv'
<1> USE DEF ClientRunning, ClientEnded, ServerHandling, ServerGone, Preparing, Checking,
        Acting, TowerSent, world, client, server, stream
<1>1. CASE ServerAccept
  <2>1. Head(toServer) \in Message /\ toServer' = <<>>
    BY <1>1, ReadOne DEF ServerAccept, IInv, TypeOK, Queues
  <2>2. Honest(Head(toServer)) /\ Head(toServer).rollOld = cfg.rollOld /\ ~Head(toServer).rollback
    BY <1>1 DEF ServerAccept, IInv, Messages
  <2>3. /\ smsg'.dry = cfg.dryRun /\ smsg'.skip = cfg.skipTower
        /\ smsg'.rollOld = Head(toServer).rollOld
        /\ smsg'.canProceed = Head(toServer).canProceed
        /\ smsg'.rollback = Head(toServer).rollback
        /\ smsg'.success = Head(toServer).success
    BY <1>1, Accepted DEF IInv
  <2>4. cfg.skipTower = FALSE /\ cfg.dryRun \in BOOLEAN
    BY Facts DEF IInv, ConfigType
  <2>5. Honest(smsg)'
    BY <1>1, <2>2, <2>3, <2>4 DEF ServerAccept, Honest, Agreed
  <2>6. smsg'.rollOld = cfg.rollOld /\ ~smsg'.rollback /\ (cfg.dryRun => smsg'.dry)
    BY <2>2, <2>3
  <2>7. Queues'
    BY <1>1, <2>1 DEF ServerAccept, IInv, Queues
  <2>8. Messages'
    BY <1>1, <2>5, <2>6 DEF ServerAccept, IInv, Queues, Messages, Honest, Agreed
  <2>9. Rollbacks'
    BY <1>1 DEF ServerAccept, IInv, Queues, Rollbacks
  <2>10. Released'
    BY <1>1 DEF ServerAccept, IInv, Released
  <2>11. Taken'
    BY <1>1 DEF ServerAccept, IInv, Taken
  <2>12. TowerKnown'
    BY <1>1 DEF ServerAccept, IInv, TowerKnown
  <2> QED
    BY <2>7, <2>8, <2>9, <2>10, <2>11, <2>12 DEF IInv
<1>2. CASE ServerValidate
  <2>1. toClient = <<>> /\ smsg \in Message
    BY <1>2 DEF ServerValidate, IInv, TypeOK, Queues
  <2>2. \/ UNCHANGED stream /\ spc' \in Checking
        \/ /\ Len(toClient') <= 1 /\ (toClient' # <<>> => Head(toClient') = smsg)
           /\ spc' \in {"closed", "exited"} /\ UNCHANGED <<toServer, link>>
    BY <1>2, <2>1, WriteToClient DEF ServerValidate, Refuse
  <2>3. Queues'
    BY <1>2, <2>2 DEF ServerValidate, IInv, Queues
  <2>4. Messages'
    BY <1>2, <2>2 DEF ServerValidate, IInv, Messages, Honest, Agreed, Refuse
  <2>5. Rollbacks'
    BY <1>2 DEF ServerValidate, IInv, Queues, Messages, Rollbacks, Refuse, ToClient, Sent
  <2>6. Released'
    BY <1>2 DEF ServerValidate, IInv, Released, Refuse
  <2>7. Taken'
    BY <1>2 DEF ServerValidate, IInv, Taken, Refuse
  <2>8. TowerKnown'
    BY <1>2 DEF ServerValidate, IInv, TowerKnown, Refuse
  <2> QED
    BY <2>3, <2>4, <2>5, <2>6, <2>7, <2>8 DEF IInv
<1>3. CASE ServerConfirm
  <2>1. toClient = <<>> /\ smsg \in Message
    BY <1>3 DEF ServerConfirm, IInv, TypeOK, Queues
  <2>2. \/ UNCHANGED stream /\ spc' \in Checking
        \/ /\ Len(toClient') <= 1 /\ (toClient' # <<>> => Head(toClient') = smsg)
           /\ spc' \in {"closed", "exited"} /\ UNCHANGED <<toServer, link>>
    BY <1>3, <2>1, WriteToClient DEF ServerConfirm, Refuse
  <2>3. Queues'
    BY <1>3, <2>2 DEF ServerConfirm, IInv, Queues
  <2>4. Messages'
    BY <1>3 DEF ServerConfirm, IInv, Queues, Messages, Honest, Agreed, Refuse,
         ToClient, Sent
  <2>5. Rollbacks'
    BY <1>3 DEF ServerConfirm, IInv, Queues, Messages, Rollbacks, Refuse, ToClient, Sent
  <2>6. Released'
    BY <1>3 DEF ServerConfirm, IInv, Released, Refuse
  <2>7. Taken'
    BY <1>3 DEF ServerConfirm, IInv, Taken, Refuse
  <2>8. TowerKnown'
    BY <1>3 DEF ServerConfirm, IInv, TowerKnown, Refuse
  <2> QED
    BY <2>3, <2>4, <2>5, <2>6, <2>7, <2>8 DEF IInv
<1>4. CASE ServerSample
  <2>1. toClient = <<>> /\ smsg \in Message
    BY <1>4 DEF ServerSample, IInv, TypeOK, Queues
  <2>2. \/ UNCHANGED stream /\ spc' \in Checking
        \/ /\ Len(toClient') <= 1 /\ (toClient' # <<>> => Head(toClient') = smsg)
           /\ spc' \in {"closed", "exited"} /\ UNCHANGED <<toServer, link>>
    BY <1>4, <2>1, WriteToClient DEF ServerSample, Refuse
  <2>3. Queues'
    BY <1>4, <2>2 DEF ServerSample, IInv, Queues
  <2>4. Messages'
    BY <1>4 DEF ServerSample, IInv, Queues, Messages, Honest, Agreed, Refuse, ToClient, Sent
  <2>5. Rollbacks'
    BY <1>4 DEF ServerSample, IInv, Queues, Messages, Rollbacks, Refuse, ToClient, Sent
  <2>6. Released'
    BY <1>4 DEF ServerSample, IInv, Released, Refuse
  <2>7. Taken'
    BY <1>4 DEF ServerSample, IInv, Taken, Refuse
  <2>8. TowerKnown'
    BY <1>4 DEF ServerSample, IInv, TowerKnown, Refuse
  <2> QED
    BY <2>3, <2>4, <2>5, <2>6, <2>7, <2>8 DEF IInv
<1>5. CASE ServerPrepareTower
  <2>1. toClient = <<>> /\ smsg \in Message
    BY <1>5 DEF ServerPrepareTower, IInv, TypeOK, Queues
  <2>2. \/ UNCHANGED stream /\ spc' \in Checking
        \/ /\ Len(toClient') <= 1 /\ (toClient' # <<>> => Head(toClient') = smsg)
           /\ spc' \in {"closed", "exited"} /\ UNCHANGED <<toServer, link>>
    BY <1>5, <2>1, WriteToClient DEF ServerPrepareTower, Refuse
  <2>3. Queues'
    BY <1>5, <2>2 DEF ServerPrepareTower, IInv, Queues
  <2>4. Messages'
    BY <1>5 DEF ServerPrepareTower, IInv, Queues, Messages, Honest, Agreed, Refuse,
         ToClient, Sent
  <2>5. Rollbacks'
    BY <1>5 DEF ServerPrepareTower, IInv, Queues, Messages, Rollbacks, Refuse,
         ToClient, Sent
  <2>6. Released'
    BY <1>5 DEF ServerPrepareTower, IInv, Released, Refuse
  <2>7. Taken'
    BY <1>5 DEF ServerPrepareTower, IInv, Taken, Refuse
  <2>8. TowerKnown'
    BY <1>5 DEF ServerPrepareTower, IInv, Taken, TowerKnown, TypeOK, Refuse
  <2> QED
    BY <2>3, <2>4, <2>5, <2>6, <2>7, <2>8 DEF IInv
<1>6. CASE ServerPreHooks
  <2>1. toClient = <<>> /\ smsg \in Message
    BY <1>6 DEF ServerPreHooks, IInv, TypeOK, Queues
  <2>2. \/ UNCHANGED stream /\ spc' \in Checking
        \/ /\ Len(toClient') <= 1 /\ (toClient' # <<>> => Head(toClient') = smsg)
           /\ spc' \in {"closed", "exited"} /\ UNCHANGED <<toServer, link>>
    BY <1>6, <2>1, WriteToClient DEF ServerPreHooks, Refuse
  <2>3. Queues'
    BY <1>6, <2>2 DEF ServerPreHooks, IInv, Queues
  <2>4. Messages'
    BY <1>6 DEF ServerPreHooks, IInv, Queues, Messages, Honest, Agreed, Refuse,
         ToClient, Sent
  <2>5. Rollbacks'
    BY <1>6 DEF ServerPreHooks, IInv, Queues, Messages, Rollbacks, Refuse, ToClient, Sent
  <2>6. Released'
    BY <1>6 DEF ServerPreHooks, IInv, Released, Refuse
  <2>7. Taken'
    BY <1>6 DEF ServerPreHooks, IInv, Taken, Refuse
  <2>8. TowerKnown'
    BY <1>6 DEF ServerPreHooks, IInv, TowerKnown, Refuse
  <2> QED
    BY <2>3, <2>4, <2>5, <2>6, <2>7, <2>8 DEF IInv
<1>7. CASE ServerProceed
  <2>1. toClient = <<>> /\ smsg \in Message
    BY <1>7 DEF ServerProceed, IInv, TypeOK, Queues
  <2>2. \A m \in Message : ToClient(m) =>
          /\ Len(toClient') <= 1 /\ (toClient' # <<>> => Head(toClient') = m)
          /\ UNCHANGED <<toServer, link>>
    BY <2>1, WriteToClient
  <2>3. Queues'
    BY <1>7, <2>2, Facts DEF ServerProceed, IInv, Queues, TypeOK, Message
  <2>4. Messages'
    BY <1>7 DEF ServerProceed, IInv, Queues, Messages, TypeOK, Honest, Agreed,
         ToClient, Sent, Message
  <2>5. Rollbacks'
    BY <1>7 DEF ServerProceed, IInv, Queues, Messages, Rollbacks, TypeOK, ToClient,
         Sent, Message
  <2>6. Released'
    BY <1>7, <2>2, Facts DEF ServerProceed, IInv, Queues, Released, TypeOK, Message
  <2>7. Taken'
    BY <1>7 DEF ServerProceed, IInv, Released, Taken
  <2>8. TowerKnown'
    BY <1>7, <2>2, Facts DEF ServerProceed, IInv, Queues, TowerKnown, TypeOK, Message
  <2> QED
    BY <2>3, <2>4, <2>5, <2>6, <2>7, <2>8 DEF IInv
<1>8. CASE ServerRecvTower
  <2>1. Head(toServer) \in Message /\ toServer' = <<>> /\ smsg \in Message
    BY <1>8, ReadOne DEF ServerRecvTower, IInv, TypeOK, Queues
  <2>2. Queues'
    BY <1>8 DEF ServerRecvTower, IInv, Queues
  <2>3. Messages'
    BY <1>8, <2>1, DecodedFields DEF ServerRecvTower, IInv, Messages, Honest, Agreed
  <2>4. Rollbacks'
    BY <1>8 DEF ServerRecvTower, IInv, Rollbacks
  <2>5. Released'
    BY <1>8 DEF ServerRecvTower, IInv, Released
  <2>6. Taken'
    BY <1>8 DEF ServerRecvTower, IInv, Taken
  <2>7. TowerKnown'
    BY <1>8, <2>1, DecodedFields DEF ServerRecvTower, IInv, TowerKnown, TypeOK
  <2> QED
    BY <2>2, <2>3, <2>4, <2>5, <2>6, <2>7 DEF IInv
<1>9. CASE ServerTowerLost
  BY <1>9 DEF ServerTowerLost, IInv, Queues, Messages, Rollbacks, Released, Taken,
       TowerKnown, Honest, Agreed
<1>10. CASE ServerWriteTower
  BY <1>10 DEF ServerWriteTower, IInv, Queues, Messages, Rollbacks, Released, Taken,
       TowerKnown, TypeOK, Honest, Agreed
<1>11. CASE ServerGoActive
  <2>1. toClient = <<>> /\ smsg \in Message
    BY <1>11 DEF ServerGoActive, IInv, TypeOK, Queues
  <2>2. \A m \in Message : ToClient(m) =>
          /\ Len(toClient') <= 1 /\ (toClient' # <<>> => Head(toClient') = m)
          /\ UNCHANGED <<toServer, link>>
    BY <2>1, WriteToClient
  <2>3. Queues'
    BY <1>11, <2>2 DEF ServerGoActive, IInv, Queues, TypeOK
  <2>4. Messages'
    BY SMTT(30), <1>11 DEF ServerGoActive, IInv, Queues, Messages, Released, TypeOK, Honest,
         Agreed, CommandSucceeds, CommandFails, ToClient, Sent, Message
  <2>5. Rollbacks'
    BY <1>11 DEF ServerGoActive, IInv, Queues, Rollbacks, TypeOK, Message
  <2>6. Released'
    BY <1>11 DEF ServerGoActive, IInv, Released, TypeOK, CommandSucceeds, CommandFails
  <2>7. Taken'
    <3>1. /\ TypeOK /\ Taken /\ Len(toClient) <= 1
          /\ cpc \in {"result"} \cup ClientEnded /\ (~cfg.dryRun => identity["old"] = "passive")
          /\ identity["new"] = "passive" /\ toClient = <<>>
      BY <1>11, <2>1, Facts DEF ServerGoActive, IInv, Queues, Released, Taken, TypeOK
    <3>2. CASE spc' = "report"
      BY <1>11, <3>1, <3>2 DEF ServerGoActive, CommandSucceeds, Taken, TypeOK
    <3>3. CASE spc' # "report"
      <4>1. identity' = identity /\ spc' \in {"revert", "exited"} /\ ~cfg.dryRun
            /\ UNCHANGED <<cfg, cpc>>
        BY <1>11, <3>1, <3>3, Facts DEF ServerGoActive, CommandFails
      <4> QED BY <3>1, <4>1 DEF Taken, TypeOK
    <3> QED BY <3>2, <3>3
  <2>8. TowerKnown'
    BY <1>11 DEF ServerGoActive, IInv, Taken, TowerKnown, TypeOK, CommandSucceeds,
         CommandFails
  <2> QED
    BY <2>3, <2>4, <2>5, <2>6, <2>7, <2>8 DEF IInv
<1>12. CASE ServerRevert
  BY <1>12 DEF ServerRevert, IInv, Queues, Messages, Rollbacks, Released, Taken,
       TowerKnown, TypeOK, Honest, Agreed, CommandSucceeds, CommandFails
<1>13. CASE ServerReport
  <2>1. toClient = <<>> /\ smsg \in Message
    BY <1>13 DEF ServerReport, IInv, TypeOK, Queues
  <2>2. \A m \in Message : ToClient(m) =>
          /\ Len(toClient') <= 1 /\ (toClient' # <<>> => Head(toClient') = m)
          /\ UNCHANGED <<toServer, link>>
    BY <2>1, WriteToClient
  <2>3. Queues'
    BY <1>13, <2>2 DEF ServerReport, IInv, Queues, TypeOK, ToClient
  <2>4. Messages'
    BY SMTT(30), <1>13, <2>2 DEF ServerReport, IInv, Queues, Messages, Taken, TypeOK, Honest,
         Agreed, Message
  <2>5. Rollbacks'
    BY <1>13 DEF ServerReport, IInv, Queues, Messages, Rollbacks, TypeOK, ToClient,
         Sent, Message
  <2>6. Released'
    BY <1>13 DEF ServerReport, IInv, Released
  <2>7. Taken'
    BY <1>13 DEF ServerReport, IInv, Queues, Messages, Taken, TypeOK, ToClient, Sent,
         Message
  <2>8. TowerKnown'
    BY <1>13 DEF ServerReport, IInv, TowerKnown
  <2> QED
    BY <2>3, <2>4, <2>5, <2>6, <2>7, <2>8 DEF IInv
<1>14. CASE ServerPost
  BY <1>14 DEF ServerPost, IInv, Queues, Messages, Rollbacks, Released, Taken,
       TowerKnown, Honest, Agreed
<1> QED
  BY <1>1, <1>2, <1>3, <1>4, <1>5, <1>6, <1>7, <1>8, <1>9, <1>10, <1>11, <1>12, <1>13,
       <1>14 DEF ServerStep

(* The steps of the operator, the validators and the network keep it. *)
LEMMA EnvironmentKeeps ==
    ASSUME IInv, Clean, Environment, TypeOK'
    PROVE  IInv'
<1> USE DEF ClientRunning, ClientEnded, ServerHandling, ServerGone, Preparing, Checking,
        Acting, TowerSent, world, client, server, stream
<1>1. CASE ClientStart
  <2>1. Honest(cmsg') /\ cmsg'.rollOld = cfg.rollOld /\ ~cmsg'.rollback
    BY <1>1 DEF ClientStart, Honest, NoMessage, IInv
  <2>2. Len(toServer') = 1 /\ Head(toServer') = cmsg' /\ toServer' # <<>> /\ toClient' = <<>>
    BY <1>1 DEF ClientStart
  <2>3. Honest(cmsg)' /\ Honest(Head(toServer))'
    BY <1>1, <2>1, <2>2 DEF ClientStart, Honest, Agreed
  <2>4. Queues'
    BY <1>1, <2>1, <2>2, <2>3, Facts DEF ClientStart, IInv, Queues, Messages,
         Rollbacks, Released, Taken, TowerKnown, TypeOK, Honest, Agreed, GossipMayShow,
         Message
  <2>5. Messages'
    BY <1>1, <2>1, <2>3 DEF ClientStart, IInv, Messages, Released, TowerKnown, TypeOK,
         Honest, Agreed, Message
  <2>6. Rollbacks'
    BY <1>1 DEF ClientStart, IInv, Rollbacks
  <2>7. Released'
    BY <1>1 DEF ClientStart, IInv, Released
  <2>8. Taken'
    BY <1>1, <2>1, <2>2, <2>3, Facts DEF ClientStart, IInv, Queues, Messages,
         Rollbacks, Released, Taken, TowerKnown, GossipMayShow, Message
  <2>9. TowerKnown'
    BY <1>1 DEF ClientStart, IInv, Taken, TowerKnown
  <2> QED
    BY <2>4, <2>5, <2>6, <2>7, <2>8, <2>9 DEF IInv
<1>2. CASE ClientCrash
  BY <1>2 DEF ClientCrash, IInv, Queues, Messages, Rollbacks, Released, Taken,
       TowerKnown, Honest, Agreed
<1>3. CASE ServerRestart
  <2>1. Queues'
    BY <1>3 DEF ServerRestart, IInv, Queues
  <2>2. Messages'
    BY <1>3 DEF ServerRestart, IInv, Messages, Honest, Agreed
  <2>3. Rollbacks'
    BY <1>3 DEF ServerRestart, IInv, Rollbacks
  <2>4. Released'
    BY <1>3 DEF ServerRestart, IInv, Released
  <2>5. Taken'
    BY <1>3, Facts DEF ServerRestart, IInv, Queues, Messages, Rollbacks, Released,
         Taken, TowerKnown, GossipMayShow, Message
  <2>6. TowerKnown'
    BY <1>3, Facts DEF ServerRestart, IInv, Queues, Messages, Rollbacks, Released,
         Taken, TowerKnown, GossipMayShow, Message
  <2> QED
    BY <2>1, <2>2, <2>3, <2>4, <2>5, <2>6 DEF IInv
<1>4. CASE ServerCrash
  BY <1>4 DEF ServerCrash, IInv, Queues, Messages, Rollbacks, Released, Taken,
       TowerKnown, Honest, Agreed
<1>5. CASE LinkBreak
  BY <1>5 DEF LinkBreak, IInv, Queues, Messages, Rollbacks, Released, Taken,
       TowerKnown, Honest, Agreed
<1>6. ASSUME NEW h \in Hosts, Vote(h) PROVE IInv'
  BY <1>6 DEF Vote, IInv, Queues, Messages, Rollbacks, Released, Taken, TowerKnown,
       TypeOK, Honest, Agreed
<1> QED
  BY <1>1, <1>2, <1>3, <1>4, <1>5, <1>6 DEF Environment

(* The invariant holds before the first run of the client. *)
LEMMA InvariantInit ==
    ASSUME Init, Clean
    PROVE  IInv
<1> USE DEF ClientRunning, ClientEnded, ServerHandling, ServerGone, Preparing, Checking,
        Acting, TowerSent
<1>1. TypeOK
  BY TypeInit
<1>2. Queues /\ Rollbacks /\ Released
  BY DEF Init, Queues, Rollbacks, Released
<1>3. Messages
  BY DEF Init, Messages, Honest, NoMessage
<1>4. Taken /\ TowerKnown
  BY DEF Init, Taken, TowerKnown
<1> QED
  BY <1>1, <1>2, <1>3, <1>4 DEF IInv

(* Every step keeps it. *)
LEMMA InvariantNext ==
    ASSUME IInv, Clean, [Next]_vars
    PROVE  IInv'
<1>1. TypeOK'
  BY TypeNext DEF IInv
<1>2. CASE UNCHANGED vars
  BY <1>1, <1>2 DEF vars, IInv, Queues, Messages, Rollbacks, Released, Taken, TowerKnown,
       Honest, Agreed, TowerSent
<1> QED
  BY <1>1, <1>2, ClientKeeps, ServerKeeps, EnvironmentKeeps DEF Next

(* The invariant holds in every reachable state. *)
THEOREM Invariant ==
    ASSUME Clean
    PROVE  Spec => []IInv
<1>1. Init => IInv
  BY InvariantInit
<1>2. IInv /\ [Next]_vars => IInv'
  BY InvariantNext
<1> QED
  BY <1>1, <1>2, PTL DEF Spec

(* Whatever fails, crashes or is lost, the two hosts are never active at    *)
(* the same time.                                                           *)
THEOREM Exclusive ==
    ASSUME Clean
    PROVE  Spec => []OneActive
<1>1. IInv => OneActive
  BY DEF IInv, Taken, OneActive
<1> QED
  BY <1>1, Invariant, PTL

(* The active host has every vote that was cast in its tower file. *)
THEOREM LastVoteKnown ==
    ASSUME Clean
    PROVE  Spec => []ActiveKnowsLastVote
<1>1. IInv => ActiveKnowsLastVote
  BY DEF IInv, TypeOK, Taken, TowerKnown, ActiveKnowsLastVote
<1> QED
  BY <1>1, Invariant, PTL

(* The old host becomes active again only on the explicit signal, and not   *)
(* while the new host is active.                                            *)
THEOREM ExplicitRollback ==
    ASSUME Clean
    PROVE  Spec => RevertOnlyOnSignal
<1>1. ASSUME IInv, [Next]_vars
      PROVE  identity["old"] = "passive" /\ identity'["old"] = "active"
               => /\ smsg.rollback
                  /\ cfg.rollOld /\ cfg.rollNew
                  /\ identity'["new"] = "passive"
  <2> SUFFICES ASSUME identity["old"] = "passive", identity'["old"] = "active"
               PROVE  /\ smsg.rollback
                      /\ cfg.rollOld /\ cfg.rollNew
                      /\ identity'["new"] = "passive"
    OBVIOUS
  <2>1. ClientRevert
    BY <1>1 DEF Next, vars, ClientStep, ServerStep, Environment, ClientStart,
         ClientRecvSignal, ClientSignalLost, ClientLeaderWait, ClientPreHooks, ClientSlotWait,
         ClientPrepare, ClientGoPassive, ClientReadTower, ClientSendTower, ClientRecvResult,
         ClientResultLost, ServerAccept, ServerValidate, ServerConfirm, ServerSample,
         ServerPrepareTower, ServerPreHooks, ServerProceed, ServerRecvTower, ServerTowerLost,
         ServerWriteTower, ServerGoActive, ServerRevert, ServerReport, ServerPost,
         ClientCrash, ServerRestart, ServerCrash, LinkBreak, Vote, CommandSucceeds,
         CommandFails, world, IInv, TypeOK
  <2>2. smsg.rollback /\ cfg.rollOld /\ cfg.rollNew
    BY <2>1, <1>1 DEF ClientRevert, IInv, Rollbacks, Messages, Honest
  <2>3. identity'["new"] = "passive"
    BY <2>1, <1>1 DEF ClientRevert, CommandSucceeds, CommandFails, IInv, TypeOK, Taken, ClientEnded
  <2> QED
    BY <2>2, <2>3
<1> QED
  BY <1>1, Invariant, PTL DEF Spec, RevertOnlyOnSignal

-------------------------------------------------------------------------------
(* Without Clean. *)

(* Reading and writing, for the set of the messages on their way. *)
LEMMA CarriedFacts ==
    ASSUME NEW q \in Seq(Message)
    PROVE  /\ Carried(q) \subseteq Message
           /\ q # <<>> => Head(q) \in Carried(q) /\ Carried(Tail(q)) \subseteq Carried(q)
           /\ \A m \in Message : Carried(Sent(q, m)) \subseteq Carried(q) \cup {m}
<1>1. Carried(q) \subseteq Message
  BY DEF Carried
<1>2. ASSUME q # <<>> PROVE Head(q) \in Carried(q) /\ Carried(Tail(q)) \subseteq Carried(q)
  <2>1. 1 \in DOMAIN q /\ Head(q) = q[1]
    BY <1>2
  <2>2. \A i \in DOMAIN Tail(q) : i + 1 \in DOMAIN q /\ Tail(q)[i] = q[i + 1]
    BY <1>2
  <2> QED BY <2>1, <2>2 DEF Carried
<1>3. ASSUME NEW m \in Message PROVE Carried(Sent(q, m)) \subseteq Carried(q) \cup {m}
  <2>1. /\ DOMAIN Append(q, m) = 1 .. Len(q) + 1 /\ Append(q, m)[Len(q) + 1] = m
        /\ DOMAIN q = 1 .. Len(q) /\ Len(q) \in Nat
        /\ \A i \in 1 .. Len(q) : Append(q, m)[i] = q[i]
    OBVIOUS
  <2>2. \A i \in 1 .. Len(q) + 1 : i \in 1 .. Len(q) \/ i = Len(q) + 1
    BY <2>1
  <2>3. Carried(Append(q, m)) \subseteq Carried(q) \cup {m}
    BY <2>1, <2>2 DEF Carried
  <2> QED BY <2>3 DEF Sent
<1> QED BY <1>1, <1>2, <1>3

(* On an empty stream there are none. *)
LEMMA CarriedNothing == Carried(<<>>) = {}
  BY DEF Carried

(* Decoding keeps what copies say true. *)
LEMMA DecodedTrue ==
    ASSUME NEW own \in Message, NEW wire \in Message, TrueOf(own), TrueOf(wire)
    PROVE  TrueOf(Decoded(own, wire))
  BY DecodedFields DEF TrueOf

(* The steps of the client keep what holds whatever fails, *)
LEMMA ClientKeepsAny ==
    ASSUME AnyFaultInv, ClientStep
    PROVE  Copies' /\ NewSession' /\ Moved'
<1> USE DEF ClientEnded, Preparing, Checking, Unreported, world, client, server, stream
<1>0. /\ TypeOK /\ Copies /\ NewSession /\ Moved /\ cmsg \in Message /\ smsg \in Message
      /\ toServer \in Seq(Message) /\ toClient \in Seq(Message) /\ cfg.rollOld \in BOOLEAN
  BY ConfigsAssumption DEF AnyFaultInv, TypeOK, ConfigType
<1>1. CASE ClientRecvSignal
  <2>1. /\ Head(toClient) \in Carried(toClient) /\ Head(toClient) \in Message
        /\ Carried(toClient') \subseteq Carried(toClient)
    BY <1>0, <1>1, CarriedFacts DEF ClientRecvSignal
  <2>2. /\ cmsg' = Decoded(cmsg, Head(toClient)) /\ TrueOf(Decoded(cmsg, Head(toClient)))
        /\ cmsg'.rollOld = cfg.rollOld /\ (cmsg.canProceed => cmsg'.canProceed)
        /\ (cmsg'.success => cmsg.success \/ Head(toClient).success)
    <3>1. TrueOf(cmsg) /\ TrueOf(Head(toClient)) /\ cmsg.rollOld = cfg.rollOld
      BY <1>0, <1>1, <2>1 DEF ClientRecvSignal, Copies
    <3>2. TrueOf(Decoded(cmsg, Head(toClient)))
      BY <1>0, <2>1, <3>1, DecodedTrue
    <3>3. Head(toClient).rollOld => cfg.rollOld
      BY <3>1 DEF TrueOf
    <3>4. Decoded(cmsg, Head(toClient)) \in Message
      BY <1>0, <2>1, DecodedType
    <3>5. /\ Decoded(cmsg, Head(toClient)).rollOld = cfg.rollOld
          /\ (cmsg.canProceed => Decoded(cmsg, Head(toClient)).canProceed)
          /\ (Decoded(cmsg, Head(toClient)).success => cmsg.success \/ Head(toClient).success)
      BY <1>0, <2>1, <3>1, <3>3, <3>4, DecodedFields DEF Message
    <3> QED BY <1>1, <3>2, <3>5 DEF ClientRecvSignal
  <2>3. Copies'
    BY <1>0, <1>1, <2>1, <2>2 DEF ClientRecvSignal, Copies, TrueOf, Agreed
  <2>4. NewSession'
    BY <1>0, <1>1, <2>1, <2>2, CarriedNothing DEF ClientRecvSignal, NewSession
  <2>5. Moved'
    BY <1>0, <1>1 DEF ClientRecvSignal, Moved
  <2> QED BY <2>3, <2>4, <2>5
<1>2. CASE ClientSignalLost
  <2>2. Copies'
    BY <1>0, <1>2 DEF ClientSignalLost, Copies, TrueOf, Agreed
  <2>3. NewSession'
    BY <1>0, <1>2 DEF ClientSignalLost, NewSession
  <2>4. Moved'
    BY <1>0, <1>2 DEF ClientSignalLost, Moved
  <2> QED BY <2>2, <2>3, <2>4
<1>3. CASE ClientLeaderWait
  <2>2. Copies'
    BY <1>0, <1>3 DEF ClientLeaderWait, ClientPrepare, Copies, TrueOf, Agreed
  <2>3. NewSession'
    BY <1>0, <1>3 DEF ClientLeaderWait, ClientPrepare, NewSession
  <2>4. Moved'
    BY <1>0, <1>3 DEF ClientLeaderWait, ClientPrepare, Moved
  <2> QED BY <2>2, <2>3, <2>4
<1>4. CASE ClientPreHooks
  <2>2. Copies'
    BY <1>0, <1>4 DEF ClientPreHooks, ClientPrepare, Copies, TrueOf, Agreed
  <2>3. NewSession'
    BY <1>0, <1>4 DEF ClientPreHooks, ClientPrepare, NewSession
  <2>4. Moved'
    BY <1>0, <1>4 DEF ClientPreHooks, ClientPrepare, Moved
  <2> QED BY <2>2, <2>3, <2>4
<1>5. CASE ClientSlotWait
  <2>2. Copies'
    BY <1>0, <1>5 DEF ClientSlotWait, ClientPrepare, Copies, TrueOf, Agreed
  <2>3. NewSession'
    BY <1>0, <1>5 DEF ClientSlotWait, ClientPrepare, NewSession
  <2>4. Moved'
    BY <1>0, <1>5 DEF ClientSlotWait, ClientPrepare, Moved
  <2> QED BY <2>2, <2>3, <2>4
<1>6. CASE ClientGoPassive
  <2>1. /\ identity'["new"] = identity["new"]
        /\ (cfg.dryRun => identity' = identity)
        /\ ~cfg.dryRun /\ cpc' # "ended" => identity'["old"] = "passive"
    BY <1>0, <1>6 DEF ClientGoPassive, CommandSucceeds, CommandFails, Copies, TrueOf, TypeOK
  <2>2. UNCHANGED <<cfg, cmsg, server, stream>> /\ cpc' \in {"ended", "result", "readTower"}
    BY <1>6 DEF ClientGoPassive
  <2>3. Copies'
    BY <1>0, <1>6, <2>1, <2>2 DEF Copies, TrueOf, Agreed, ClientGoPassive
  <2>4. NewSession'
    BY <1>0, <1>6, <2>2 DEF NewSession, ClientGoPassive
  <2>5. Moved'
    BY <1>0, <2>1, <2>2 DEF Moved
  <2> QED BY <2>3, <2>4, <2>5
<1>7. CASE ClientReadTower
  <2>1. /\ UNCHANGED <<cfg, identity, server, stream>> /\ cpc' \in {"ended", "sendTower"}
        /\ cmsg'.dry = cmsg.dry /\ cmsg'.canProceed = cmsg.canProceed
        /\ cmsg'.rollOld = cmsg.rollOld /\ cmsg'.rollback = cmsg.rollback
        /\ cmsg'.success = cmsg.success
    BY <1>0, <1>7 DEF ClientReadTower, Message
  <2>2. Copies'
    BY <1>0, <1>7, <2>1 DEF ClientReadTower, Copies, TrueOf, Agreed
  <2>3. NewSession'
    BY <1>0, <1>7, <2>1 DEF ClientReadTower, NewSession
  <2>4. Moved'
    BY <1>0, <1>7, <2>1 DEF ClientReadTower, Moved
  <2> QED BY <2>2, <2>3, <2>4
<1>8. CASE ClientSendTower
  <2>1. /\ Carried(toServer') \subseteq Carried(toServer) \cup {cmsg}
        /\ UNCHANGED <<toClient, link>>
        /\ toServer' = toServer \/ link = "up"
    BY <1>0, <1>8, CarriedFacts DEF ClientSendTower, ToServer, Sent
  <2>2. Copies'
    BY <1>0, <1>8, <2>1 DEF ClientSendTower, Copies, TrueOf, Agreed
  <2>3. NewSession'
    BY <1>0, <1>8, <2>1 DEF ClientSendTower, NewSession
  <2>4. Moved'
    BY <1>0, <1>8, <2>1 DEF ClientSendTower, Moved
  <2> QED BY <2>2, <2>3, <2>4
<1>9. CASE ClientRecvResult
  <2>1. /\ Head(toClient) \in Carried(toClient) /\ Head(toClient) \in Message
        /\ Carried(toClient') \subseteq Carried(toClient)
    BY <1>0, <1>9, CarriedFacts DEF ClientRecvResult
  <2>2. /\ cmsg' = Decoded(cmsg, Head(toClient)) /\ TrueOf(Decoded(cmsg, Head(toClient)))
        /\ cmsg'.rollOld = cfg.rollOld /\ (cmsg.canProceed => cmsg'.canProceed)
        /\ (cmsg'.success => cmsg.success \/ Head(toClient).success)
    <3>1. TrueOf(cmsg) /\ TrueOf(Head(toClient)) /\ cmsg.rollOld = cfg.rollOld
      BY <1>0, <1>9, <2>1 DEF ClientRecvResult, Copies
    <3>2. TrueOf(Decoded(cmsg, Head(toClient)))
      BY <1>0, <2>1, <3>1, DecodedTrue
    <3>3. Head(toClient).rollOld => cfg.rollOld
      BY <3>1 DEF TrueOf
    <3>4. Decoded(cmsg, Head(toClient)) \in Message
      BY <1>0, <2>1, DecodedType
    <3>5. /\ Decoded(cmsg, Head(toClient)).rollOld = cfg.rollOld
          /\ (cmsg.canProceed => Decoded(cmsg, Head(toClient)).canProceed)
          /\ (Decoded(cmsg, Head(toClient)).success => cmsg.success \/ Head(toClient).success)
      BY <1>0, <2>1, <3>1, <3>3, <3>4, DecodedFields DEF Message
    <3> QED BY <1>9, <3>2, <3>5 DEF ClientRecvResult
  <2>3. Copies'
    BY <1>0, <1>9, <2>1, <2>2 DEF ClientRecvResult, Copies, TrueOf, Agreed
  <2>4. NewSession'
    BY <1>0, <1>9, <2>1, <2>2, CarriedNothing DEF ClientRecvResult, NewSession
  <2>5. Moved'
    BY <1>0, <1>9 DEF ClientRecvResult, Moved
  <2> QED BY <2>3, <2>4, <2>5
<1>10. CASE ClientResultLost
  <2>2. Copies'
    BY <1>0, <1>10 DEF ClientResultLost, Copies, TrueOf, Agreed
  <2>3. NewSession'
    BY <1>0, <1>10 DEF ClientResultLost, NewSession
  <2>4. Moved'
    BY <1>0, <1>10 DEF ClientResultLost, Moved
  <2> QED BY <2>2, <2>3, <2>4
<1>11. CASE ClientRevert
  <2>1. ~cfg.dryRun /\ identity'["new"] = identity["new"]
    BY <1>0, <1>11 DEF ClientRevert, CommandSucceeds, CommandFails, Copies, TrueOf, TypeOK
  <2>2. UNCHANGED <<cfg, cmsg, server, stream>> /\ cpc' \in {"reverted", "manual"}
    BY <1>11 DEF ClientRevert
  <2>3. Copies'
    BY <1>0, <1>11, <2>1, <2>2 DEF Copies, TrueOf, Agreed, ClientRevert
  <2>4. NewSession'
    BY <1>0, <1>11, <2>2 DEF NewSession, ClientRevert
  <2>5. Moved'
    BY <1>0, <2>1, <2>2 DEF Moved
  <2> QED BY <2>3, <2>4, <2>5
<1> QED BY <1>1, <1>2, <1>3, <1>4, <1>5, <1>6, <1>7, <1>8, <1>9, <1>10, <1>11 DEF ClientStep

(* so do those of the server, *)
LEMMA ServerKeepsAny ==
    ASSUME AnyFaultInv, ServerStep
    PROVE  Copies' /\ NewSession' /\ Moved'
<1> USE DEF ClientEnded, Preparing, Checking, Unreported, world, client, server, stream
<1>0. /\ TypeOK /\ Copies /\ NewSession /\ Moved /\ cmsg \in Message /\ smsg \in Message
      /\ toServer \in Seq(Message) /\ toClient \in Seq(Message)
      /\ cfg.dryRun \in BOOLEAN /\ cfg.rollOld \in BOOLEAN /\ cfg.skipTower \in BOOLEAN
  BY ConfigsAssumption DEF AnyFaultInv, TypeOK, ConfigType
<1>sent. ASSUME NEW m \in Message, ToClient(m)
      PROVE  Carried(toClient') \subseteq Carried(toClient) \cup {m} /\ UNCHANGED <<toServer, link>>
  BY <1>0, <1>sent, CarriedFacts DEF ToClient
<1>ends. ASSUME NEW how \in {"closed", "exited"}, Refuse(how) \/ (spc' = how /\ UNCHANGED stream),
             spc \in Unreported,
             UNCHANGED <<cfg, identity, client, smsg>>
      PROVE  Copies' /\ NewSession' /\ Moved'
  <2>1. /\ Carried(toClient') \subseteq Carried(toClient) \cup {smsg}
        /\ UNCHANGED <<toServer, link>>
        /\ spc' \in {"closed", "exited"}
    BY <1>0, <1>ends, <1>sent DEF Refuse
  <2>2. Copies'
    BY <1>0, <1>ends, <2>1 DEF Copies, TrueOf, Agreed
  <2>3. NewSession'
    BY <1>0, <1>ends, <2>1 DEF NewSession
  <2>4. Moved'
    BY <1>0, <1>ends, <2>1 DEF Moved
  <2> QED BY <2>2, <2>3, <2>4
<1>goes_on. ASSUME NEW next \in Unreported \ {"validate"}, spc' = next,
             spc \in Unreported, Agreed,
             next \in Checking => spc \in Checking,
             UNCHANGED <<cfg, identity, client, smsg, stream>>
      PROVE  Copies' /\ NewSession' /\ Moved'
  <2>1. Copies'
    BY <1>0, <1>goes_on DEF Copies, TrueOf, Agreed
  <2>2. NewSession'
    BY <1>0, <1>goes_on DEF NewSession
  <2>3. Moved'
    BY <1>0, <1>goes_on DEF Moved
  <2> QED BY <2>1, <2>2, <2>3
<1>1. CASE ServerAccept
  <2>1. /\ Head(toServer) \in Carried(toServer) /\ Head(toServer) \in Message
        /\ Carried(toServer') \subseteq Carried(toServer) /\ link = "up" /\ toClient = <<>>
    BY <1>0, <1>1, CarriedFacts DEF ServerAccept, NewSession
  <2>2. TrueOf(Head(toServer)) /\ Head(toServer).rollOld = cfg.rollOld /\ ~Head(toServer).success
    BY <1>0, <1>1, <2>1 DEF ServerAccept, Copies, NewSession
  <2>3. /\ smsg'.dry = cfg.dryRun /\ smsg'.rollOld = Head(toServer).rollOld
        /\ smsg'.canProceed = Head(toServer).canProceed
        /\ smsg'.rollback = Head(toServer).rollback
        /\ smsg'.success = Head(toServer).success
    BY <1>0, <1>1, Accepted
  <2>4. /\ smsg'.dry = cfg.dryRun /\ smsg'.rollOld = cfg.rollOld /\ ~smsg'.success
        /\ (smsg'.canProceed => Head(toServer).canProceed)
        /\ (smsg'.rollback => Head(toServer).rollback)
    BY <2>2, <2>3
  <2>5. UNCHANGED <<cfg, identity, client, toClient, link>> /\ spc' = "validate"
    BY <1>1 DEF ServerAccept
  <2>6. Copies'
    BY <1>0, <2>1, <2>2, <2>4, <2>5 DEF Copies, TrueOf, Agreed
  <2>7. NewSession'
    BY <1>0, <1>1, <2>1, <2>4, <2>5 DEF NewSession, ServerAccept
  <2>8. Moved'
    BY <1>0, <2>5 DEF Moved
  <2> QED BY <2>6, <2>7, <2>8
<1>2. CASE ServerValidate
  <2>1. CASE \E how \in {"closed", "exited"} : Refuse(how)
    BY <1>2, <1>ends, <2>1 DEF ServerValidate
  <2>2. CASE spc' = "confirm" /\ UNCHANGED stream /\ cfg.sameVersion /\ cfg.rollNew = smsg.rollOld
    <3>1. Agreed
      BY <1>0, <1>2, <2>2 DEF ServerValidate, Copies, Agreed
    <3> QED BY <1>2, <1>goes_on, <2>2, <3>1 DEF ServerValidate
  <2> QED BY <1>2, <2>1, <2>2 DEF ServerValidate
<1>3. CASE ServerConfirm
  <2>1. spc = "confirm" /\ UNCHANGED <<cfg, identity, client, smsg>> /\ Agreed
    BY <1>0, <1>3 DEF ServerConfirm, Copies
  <2>2. CASE \E how \in {"closed", "exited"} : Refuse(how)
    BY <1>ends, <2>1, <2>2
  <2>3. CASE spc' = "sample" /\ UNCHANGED stream
    BY <1>goes_on, <2>1, <2>3
  <2> QED BY <1>3, <2>2, <2>3 DEF ServerConfirm
<1>4. CASE ServerSample
  <2>1. spc = "sample" /\ UNCHANGED <<cfg, identity, client, smsg>> /\ Agreed
    BY <1>0, <1>4 DEF ServerSample, Copies
  <2>2. CASE \E how \in {"closed", "exited"} : Refuse(how)
    BY <1>ends, <2>1, <2>2
  <2>3. CASE spc' = "prepare" /\ UNCHANGED stream
    BY <1>goes_on, <2>1, <2>3
  <2> QED BY <1>4, <2>2, <2>3 DEF ServerSample
<1>5. CASE ServerPrepareTower
  <2>1. spc = "prepare" /\ UNCHANGED <<cfg, identity, client, smsg>> /\ Agreed
    BY <1>0, <1>5 DEF ServerPrepareTower, Copies
  <2>2. CASE \E how \in {"closed", "exited"} : Refuse(how)
    BY <1>ends, <2>1, <2>2
  <2>3. CASE spc' = "preHooks" /\ UNCHANGED stream
    BY <1>goes_on, <2>1, <2>3
  <2> QED BY <1>5, <2>2, <2>3 DEF ServerPrepareTower
<1>6. CASE ServerPreHooks
  <2>1. spc = "preHooks" /\ UNCHANGED <<cfg, identity, client, smsg>> /\ Agreed
    BY <1>0, <1>6 DEF ServerPreHooks, Copies
  <2>2. CASE \E how \in {"closed", "exited"} : Refuse(how)
    BY <1>ends, <2>1, <2>2
  <2>3. CASE spc' = "proceed" /\ UNCHANGED stream
    BY <1>goes_on, <2>1, <2>3
  <2> QED BY <1>6, <2>2, <2>3 DEF ServerPreHooks, HookFails
<1>7. CASE ServerProceed
  <2>1. /\ smsg' \in Message /\ smsg'.canProceed
        /\ smsg'.rollOld = smsg.rollOld /\ smsg'.dry = smsg.dry
        /\ smsg'.rollback = smsg.rollback /\ smsg'.success = smsg.success
    BY <1>0, <1>7 DEF ServerProceed, Message
  <2>2. /\ UNCHANGED <<cfg, identity, client, toServer, link>>
        /\ Carried(toClient') \subseteq Carried(toClient) \cup {smsg'}
        /\ spc' \in {"goActive", "recvTower", "closed"}
    BY <1>sent, <1>7, <2>1 DEF ServerProceed
  <2>3. Agreed /\ smsg.rollOld = cfg.rollOld /\ (cfg.dryRun => smsg.dry) /\ spc = "proceed"
    BY <1>0, <1>7 DEF ServerProceed, Copies
  <2>4. Copies'
    BY <1>0, <2>1, <2>2, <2>3 DEF Copies, TrueOf, Agreed
  <2>5. NewSession'
    BY <1>0, <2>1, <2>2, <2>3 DEF NewSession
  <2>6. Moved'
    BY <1>0, <2>2, <2>3 DEF Moved
  <2> QED BY <2>4, <2>5, <2>6
<1>8. CASE ServerRecvTower
  <2>1. /\ Head(toServer) \in Carried(toServer) /\ Head(toServer) \in Message
        /\ Carried(toServer') \subseteq Carried(toServer)
    BY <1>0, <1>8, CarriedFacts DEF ServerRecvTower
  <2>2. /\ smsg' = Decoded(smsg, Head(toServer)) /\ TrueOf(Decoded(smsg, Head(toServer)))
        /\ ~smsg'.success
    <3>1. TrueOf(smsg) /\ TrueOf(Head(toServer)) /\ ~smsg.success /\ ~Head(toServer).success
      BY <1>0, <1>8, <2>1 DEF ServerRecvTower, Copies, NewSession
    <3> QED BY <1>0, <1>8, <2>1, <3>1, DecodedTrue, DecodedFields DEF ServerRecvTower
  <2>3. /\ UNCHANGED <<cfg, identity, client, toClient, link>>
        /\ spc = "recvTower" /\ spc' = "writeTower"
    BY <1>8 DEF ServerRecvTower
  <2>4. Copies'
    BY <1>0, <2>1, <2>2, <2>3 DEF Copies, TrueOf, Agreed
  <2>5. NewSession'
    BY <1>0, <2>1, <2>2, <2>3 DEF NewSession
  <2>6. Moved'
    BY <1>0, <2>3 DEF Moved
  <2> QED BY <2>4, <2>5, <2>6
<1>9. CASE ServerTowerLost
  BY <1>ends, <1>9 DEF ServerTowerLost
<1>10. CASE ServerWriteTower
  <2>1. /\ UNCHANGED <<cfg, identity, client, smsg, stream>> /\ spc = "writeTower"
        /\ spc' \in {"goActive", "closed"}
    BY <1>10 DEF ServerWriteTower
  <2>2. Copies'
    BY <1>0, <2>1 DEF Copies, TrueOf, Agreed
  <2>3. NewSession'
    BY <1>0, <2>1 DEF NewSession
  <2>4. Moved'
    BY <1>0, <2>1 DEF Moved
  <2> QED BY <2>2, <2>3, <2>4
<1>11. CASE ServerGoActive
  <2>1. /\ identity'["old"] = identity["old"]
        /\ identity["new"] = "active" => identity'["new"] = "active"
        /\ (cfg.dryRun => identity' = identity)
        /\ ~cfg.dryRun /\ spc' = "report" => identity'["new"] = "active"
        /\ cfg.dryRun => spc' = "report"
    BY <1>0, <1>11 DEF ServerGoActive, CommandSucceeds, CommandFails, TypeOK
  <2>2. /\ smsg' \in Message
        /\ smsg'.canProceed = smsg.canProceed /\ (smsg'.rollback => smsg.rollback \/ ~cfg.dryRun)
        /\ smsg'.rollOld = smsg.rollOld /\ smsg'.dry = smsg.dry /\ smsg'.success = smsg.success
    BY <1>0, <1>11, <2>1 DEF ServerGoActive, CommandFails, Message
  <2>3. /\ UNCHANGED <<cfg, client, toServer, link>> /\ spc = "goActive"
        /\ Carried(toClient') \subseteq Carried(toClient) \cup {smsg'}
        /\ spc' \in {"report", "revert", "exited"}
    BY <1>sent, <1>11, <2>2 DEF ServerGoActive
  <2>4. Copies'
    BY <1>0, <2>1, <2>2, <2>3 DEF Copies, TrueOf, Agreed
  <2>5. NewSession'
    BY <1>0, <2>2, <2>3 DEF NewSession
  <2>6. Moved'
    BY <1>0, <2>1, <2>3 DEF Moved, TypeOK
  <2> QED BY <2>4, <2>5, <2>6
<1>12. CASE ServerRevert
  <2>1. /\ identity'["old"] = identity["old"] /\ (cfg.dryRun => identity' = identity)
        /\ UNCHANGED <<cfg, client, smsg, stream>> /\ spc = "revert" /\ spc' = "exited"
    BY <1>0, <1>12 DEF ServerRevert, CommandSucceeds, CommandFails, TypeOK
  <2>2. \A m \in {cmsg, smsg} \cup Carried(toServer) \cup Carried(toClient) : ~m.success
    BY <1>0, <2>1 DEF NewSession
  <2>3. Copies'
    BY <1>0, <2>1, <2>2 DEF Copies, TrueOf, Agreed
  <2>4. NewSession'
    BY <1>0, <2>1 DEF NewSession
  <2>5. Moved'
    BY <1>0, <2>1 DEF Moved
  <2> QED BY <2>3, <2>4, <2>5
<1>13. CASE ServerReport
  <2>1. /\ smsg' \in Message /\ smsg'.success
        /\ smsg'.rollOld = smsg.rollOld /\ smsg'.dry = smsg.dry
        /\ smsg'.rollback = smsg.rollback /\ smsg'.canProceed = smsg.canProceed
    BY <1>0, <1>13 DEF ServerReport, Message
  <2>2. /\ UNCHANGED <<cfg, identity, client, toServer, link>>
        /\ Carried(toClient') \subseteq Carried(toClient) \cup {smsg'}
        /\ spc = "report" /\ spc' \in {"post", "closed"}
    BY <1>sent, <1>13, <2>1 DEF ServerReport
  <2>3. ~cfg.dryRun => identity["new"] = "active"
    BY <1>0, <2>2 DEF Moved
  <2>4. Copies'
    BY <1>0, <2>1, <2>2, <2>3 DEF Copies, TrueOf, Agreed
  <2>5. NewSession'
    BY <1>0, <2>2 DEF NewSession
  <2>6. Moved'
    BY <1>0, <2>2 DEF Moved
  <2> QED BY <2>4, <2>5, <2>6
<1>14. CASE ServerPost
  <2>1. /\ UNCHANGED <<cfg, identity, client, smsg>> /\ spc' = "complete"
        /\ Carried(toClient') = {} /\ Carried(toServer') = {}
    BY <1>14, CarriedNothing DEF ServerPost
  <2>2. Copies'
    BY <1>0, <2>1 DEF Copies, TrueOf, Agreed
  <2>3. NewSession' /\ Moved'
    BY <1>0, <2>1 DEF NewSession, Moved
  <2> QED BY <2>2, <2>3
<1> QED BY <1>1, <1>2, <1>3, <1>4, <1>5, <1>6, <1>7, <1>8, <1>9, <1>10, <1>11, <1>12, <1>13, <1>14
        DEF ServerStep

(* and crashes, restarts, broken links and votes. *)
LEMMA EnvironmentKeepsAny ==
    ASSUME AnyFaultInv, Environment
    PROVE  Copies' /\ NewSession' /\ Moved'
<1> USE DEF ClientEnded, Preparing, Checking, Unreported, world, client, server, stream
<1>0. TypeOK /\ Copies /\ NewSession /\ Moved /\ cfg.rollOld \in BOOLEAN
  BY ConfigsAssumption DEF AnyFaultInv, TypeOK, ConfigType
<1>1. CASE ClientStart
  <2>1. /\ UNCHANGED <<cfg, identity, smsg>> /\ spc' = "listening" /\ link' = "up"
        /\ cpc' = "signal" /\ toServer' # <<>>
        /\ toClient' = <<>> /\ Carried(toClient') = {} /\ Carried(toServer') = {cmsg'}
    BY <1>1, CarriedNothing DEF ClientStart, Carried
  <2>2. /\ cmsg'.rollOld = cfg.rollOld /\ ~cmsg'.dry /\ ~cmsg'.canProceed
        /\ ~cmsg'.rollback /\ ~cmsg'.success
    BY <1>1 DEF ClientStart, NoMessage
  <2>3. Copies'
    BY <1>0, <2>1, <2>2 DEF Copies, TrueOf, Agreed
  <2>4. NewSession' /\ Moved'
    BY <1>0, <2>1, <2>2 DEF NewSession, Moved
  <2> QED BY <2>3, <2>4
<1>2. CASE ClientCrash
  BY <1>0, <1>2 DEF ClientCrash, ClientRunning, Copies, TrueOf, Agreed, NewSession, Moved
<1>3. CASE ServerCrash
  BY <1>0, <1>3 DEF ServerCrash, Copies, TrueOf, Agreed, NewSession, Moved
<1>4. CASE ServerRestart
  <2>1. /\ UNCHANGED <<cfg, identity, client, smsg, toClient>> /\ spc' = "listening"
        /\ link' = "broken" /\ toServer' = <<>> /\ Carried(toServer') = {}
    BY <1>4, CarriedNothing DEF ServerRestart
  <2> QED BY <1>0, <2>1 DEF Copies, TrueOf, Agreed, NewSession, Moved
<1>5. CASE LinkBreak
  <2>1. /\ UNCHANGED <<cfg, identity, client, server>> /\ link' = "broken"
        /\ toServer' = <<>> /\ Carried(toServer') = {} /\ Carried(toClient') = {}
    BY <1>5, CarriedNothing DEF LinkBreak
  <2> QED BY <1>0, <2>1 DEF Copies, TrueOf, Agreed, NewSession, Moved
<1>6. ASSUME NEW h \in Hosts, Vote(h) PROVE Copies' /\ NewSession' /\ Moved'
  BY <1>0, <1>6 DEF Vote, Copies, TrueOf, Agreed, NewSession, Moved
<1> QED BY <1>1, <1>2, <1>3, <1>4, <1>5, <1>6 DEF Environment

(* What holds besides whatever fails, in every reachable state. *)
THEOREM AnyFaultInvariant == Spec => []AnyFaultInv
<1>1. Init => AnyFaultInv
  <2> SUFFICES ASSUME Init PROVE AnyFaultInv
    OBVIOUS
  <2>1. Carried(toServer) = {} /\ Carried(toClient) = {}
    BY CarriedNothing DEF Init
  <2>2. Copies /\ NewSession /\ Moved
    BY <2>1 DEF Init, NoMessage, Copies, TrueOf, NewSession, Moved, Checking, Unreported
  <2> QED BY <2>2, TypeInit DEF AnyFaultInv
<1>2. AnyFaultInv /\ [Next]_vars => AnyFaultInv'
  <2> SUFFICES ASSUME AnyFaultInv, [Next]_vars PROVE AnyFaultInv'
    OBVIOUS
  <2>1. TypeOK'
    BY TypeNext DEF AnyFaultInv
  <2>2. CASE UNCHANGED vars
    BY <2>1, <2>2 DEF vars, AnyFaultInv, Copies, TrueOf, Agreed, NewSession, Moved
  <2> QED BY <2>1, <2>2, ClientKeepsAny, ServerKeepsAny, EnvironmentKeepsAny DEF Next, AnyFaultInv
<1> QED BY <1>1, <1>2, PTL DEF Spec

(* A client that proceeds and its server agree on the release and on        *)
(* whether they roll back, whatever fails and with or without tower sync.   *)
THEOREM Agreement == Spec => []AgreedBeforeMoving
<1>1. AnyFaultInv => AgreedBeforeMoving
  BY DEF AnyFaultInv, Copies, TrueOf, Agreed, AgreedBeforeMoving, ClientRunning
<1> QED
  BY <1>1, AnyFaultInvariant, PTL

(* A client that reports completion has handed the identity over, for good: *)
(* a rollback after the report would break this, and a word of success from *)
(* an earlier run.                                                          *)
THEOREM Completion == Spec => []CompletionAgrees
<1>1. AnyFaultInv => CompletionAgrees
  BY DEF AnyFaultInv, TypeOK, Copies, TrueOf, Moved, CompletionAgrees
<1> QED
  BY <1>1, AnyFaultInvariant, PTL

(* A dry run moves no identity. *)
THEOREM DryRun == Spec => []DryRunMovesNothing
<1>1. AnyFaultInv => DryRunMovesNothing
  BY DEF AnyFaultInv, Copies, TrueOf, Moved, DryRunMovesNothing
<1> QED
  BY <1>1, AnyFaultInvariant, PTL

(* A signal to roll back that is still heeded was given in this run. *)
LEMMA AskedNext ==
    ASSUME AnyFaultInv, Asked, [Next]_vars
    PROVE  Asked'
<1> USE DEF ClientEnded, ClientRunning, Unreported, Checking, world, client, server, stream
<1>0. /\ TypeOK /\ NewSession /\ Copies /\ cmsg \in Message /\ smsg \in Message
      /\ toServer \in Seq(Message) /\ toClient \in Seq(Message)
  BY DEF AnyFaultInv, TypeOK
<1>1. ASSUME cpc' \in {"leaderWait", "ended", "revert", "manual", "complete"},
             cpc' = "revert" => cfg.rollOld,
             cpc \notin ClientEnded, toClient # <<>>,
             cmsg' = Decoded(cmsg, Head(toClient)), toClient' = Tail(toClient),
             UNCHANGED <<cfg, server, toServer, link>>
      PROVE  Asked'
  <2>1. /\ Head(toClient) \in Carried(toClient) /\ Head(toClient) \in Message
        /\ Carried(toClient') \subseteq Carried(toClient)
    BY <1>0, <1>1, CarriedFacts
  <2>2. cmsg'.rollback => cmsg.rollback \/ Head(toClient).rollback
    BY <1>0, <1>1, <2>1, DecodedFields
  <2> QED BY <1>0, <1>1, <2>1, <2>2 DEF Asked
<1>2. ASSUME NEW m \in Message, ToClient(m) \/ UNCHANGED stream,
             m.rollback => smsg'.rollback /\ cfg.rollNew, smsg.rollback => smsg'.rollback,
             smsg'.rollback => cfg.rollNew, spc' # "listening",
             UNCHANGED <<cfg, client>>
      PROVE  Asked'
  <2>1. Carried(toClient') \subseteq Carried(toClient) \cup {m} /\ UNCHANGED <<toServer, link>>
    BY <1>0, <1>2, CarriedFacts DEF ToClient
  <2> QED BY <1>0, <1>2, <2>1 DEF Asked
<1>3. CASE ClientStep
  <2>1. CASE ClientRecvSignal
    BY <1>1, <2>1 DEF ClientRecvSignal
  <2>2. CASE ClientRecvResult
    <3>1. cpc' \in {"revert", "manual", "complete", "ended"} /\ (cpc' = "revert" => cfg.rollOld)
      BY <2>2 DEF ClientRecvResult
    <3> QED BY <1>1, <2>2, <3>1 DEF ClientRecvResult
  <2>3. CASE ClientSendTower
    <3>1. Carried(toServer') \subseteq Carried(toServer) \cup {cmsg}
      BY <1>0, <2>3, CarriedFacts DEF ClientSendTower, ToServer
    <3> QED BY <1>0, <2>3, <3>1 DEF ClientSendTower, ToServer, Asked
  <2>4. CASE ClientReadTower
    <3>1. cmsg'.rollback = cmsg.rollback
      BY <1>0, <2>4 DEF ClientReadTower, Message
    <3> QED BY <2>4, <3>1 DEF ClientReadTower, Asked
  <2>5. CASE UNCHANGED <<cfg, cmsg, server, stream>> /\ cpc' \notin {"revert", "signal"}
             /\ cpc \notin ClientEnded
    BY <2>5 DEF Asked
  <2> QED BY <1>3, <2>1, <2>2, <2>3, <2>4, <2>5 DEF ClientStep, ClientSignalLost,
          ClientLeaderWait, ClientPreHooks, ClientSlotWait, ClientPrepare, ClientGoPassive,
          ClientResultLost, ClientRevert
<1>4. CASE ServerStep
  <2>1. CASE ServerAccept
    <3>1. /\ Head(toServer) \in Carried(toServer) /\ Head(toServer) \in Message
          /\ Carried(toServer') \subseteq Carried(toServer) /\ link = "up" /\ toClient = <<>>
          /\ cpc \in {"signal"} \cup ClientEnded
      BY <1>0, <2>1, CarriedFacts DEF ServerAccept, NewSession
    <3>2. Decoded(NoMessage, Head(toServer)) \in Message /\ NoMessage \in Message
      BY <3>1, DecodedType DEF NoMessage, Message
    <3>3. smsg'.rollback => Head(toServer).rollback
      BY <2>1, <3>1, <3>2, DecodedFields DEF ServerAccept, NoMessage, Message
    <3> QED BY <1>0, <2>1, <3>1, <3>3, CarriedNothing DEF ServerAccept, Asked
  <2>2. CASE ServerRecvTower
    <3>1. /\ Head(toServer) \in Carried(toServer) /\ Head(toServer) \in Message
          /\ Carried(toServer') \subseteq Carried(toServer)
      BY <1>0, <2>2, CarriedFacts DEF ServerRecvTower
    <3>2. smsg'.rollback <=> smsg.rollback \/ Head(toServer).rollback
      BY <1>0, <2>2, <3>1, DecodedFields DEF ServerRecvTower
    <3> QED BY <1>0, <2>2, <3>1, <3>2 DEF ServerRecvTower, Asked
  <2>3. CASE ServerProceed
    <3>1. smsg' \in Message /\ smsg'.rollback = smsg.rollback
      BY <1>0, <2>3 DEF ServerProceed, Message
    <3> QED BY <1>2, <2>3, <3>1 DEF ServerProceed, Asked
  <2>4. CASE ServerReport
    <3>1. smsg' \in Message /\ smsg'.rollback = smsg.rollback
      BY <1>0, <2>4 DEF ServerReport, Message
    <3> QED BY <1>2, <2>4, <3>1 DEF ServerReport, Asked
  <2>5. CASE ServerGoActive
    <3>1. /\ smsg' \in Message /\ (smsg' = smsg \/ (cfg.rollNew /\ smsg'.rollback))
          /\ ToClient(smsg') \/ UNCHANGED stream
      BY <1>0, <2>5 DEF ServerGoActive, Message
    <3> QED BY <1>2, <2>5, <3>1 DEF ServerGoActive, Asked
  <2>6. CASE ServerPost
    <3>1. Carried(toClient') = {} /\ Carried(toServer') = {}
      BY <2>6, CarriedNothing DEF ServerPost
    <3> QED BY <2>6, <3>1 DEF ServerPost, Asked
  <2>7. CASE (ToClient(smsg) \/ UNCHANGED stream) /\ UNCHANGED <<cfg, client, smsg>>
             /\ spc' # "listening"
    BY <1>0, <1>2, <2>7 DEF Asked
  <2> QED BY <1>4, <2>1, <2>2, <2>3, <2>4, <2>5, <2>6, <2>7 DEF ServerStep, ServerValidate,
          ServerConfirm, ServerSample, ServerPrepareTower, ServerPreHooks, ServerTowerLost,
          ServerWriteTower, ServerRevert, Refuse
<1>5. CASE Environment
  <2>1. CASE ClientStart
    <3>1. Carried(toClient') = {} /\ Carried(toServer') = {cmsg'} /\ ~cmsg'.rollback
      BY <2>1, CarriedNothing DEF ClientStart, Carried, NoMessage
    <3> QED BY <2>1, <3>1 DEF ClientStart, Asked
  <2>2. CASE ServerRestart
    <3>1. Carried(toServer') = {}
      BY <2>2, CarriedNothing DEF ServerRestart
    <3> QED BY <2>2, <3>1 DEF ServerRestart, Asked
  <2>3. CASE LinkBreak
    <3>1. Carried(toClient') = {} /\ Carried(toServer') = {}
      BY <2>3, CarriedNothing DEF LinkBreak
    <3> QED BY <2>3, <3>1 DEF LinkBreak, Asked
  <2>4. CASE ClientCrash \/ ServerCrash \/ \E h \in Hosts : Vote(h)
    BY <2>4 DEF ClientCrash, ServerCrash, Vote, Asked
  <2> QED BY <1>5, <2>1, <2>2, <2>3, <2>4 DEF Environment
<1>6. CASE UNCHANGED vars
  BY <1>6 DEF vars, Asked
<1> QED BY <1>3, <1>4, <1>5, <1>6 DEF Next

(* Whatever fails, with and without tower sync: the old host takes its      *)
(* identity back only when the server has said so and rollback is enabled   *)
(* on both hosts.                                                           *)
THEOREM RollbackWasAsked == Spec => RevertsWhenAsked
<1>1. Init => Asked
  BY CarriedNothing DEF Init, NoMessage, Asked, ClientEnded
<1>2. AnyFaultInv /\ Asked /\ [Next]_vars => Asked'
  BY AskedNext
<1>3. ASSUME AnyFaultInv, Asked, [Next]_vars
      PROVE  identity["old"] = "passive" /\ identity'["old"] = "active"
               => smsg.rollback /\ cfg.rollOld /\ cfg.rollNew
  <2> SUFFICES ASSUME identity["old"] = "passive", identity'["old"] = "active"
               PROVE  smsg.rollback /\ cfg.rollOld /\ cfg.rollNew
    OBVIOUS
  <2>1. cpc = "revert"
    BY <1>3 DEF AnyFaultInv, TypeOK, vars, Next, ClientStep, ServerStep, Environment,
       CommandSucceeds, CommandFails, world, client, server, stream, ClientRecvSignal,
       ClientSignalLost, ClientLeaderWait, ClientPreHooks, ClientSlotWait, ClientPrepare,
       ClientGoPassive, ClientReadTower, ClientSendTower, ClientRecvResult, ClientResultLost,
       ClientRevert, ServerAccept, ServerValidate, ServerConfirm, ServerSample,
       ServerPrepareTower, ServerPreHooks, ServerProceed, ServerRecvTower, ServerTowerLost,
       ServerWriteTower, ServerGoActive, ServerRevert, ServerReport, ServerPost, ClientStart,
       ClientCrash, ServerRestart, ServerCrash, LinkBreak, Vote
  <2> QED BY <1>3, <2>1 DEF AnyFaultInv, Copies, Asked, ClientEnded
<1> QED BY <1>1, <1>2, <1>3, AnyFaultInvariant, PTL DEF Spec, RevertsWhenAsked

-------------------------------------------------------------------------------
(* The order of the messages, whatever fails. *)

(* Writing to a stream and reading from it. *)
LEMMA SentFacts ==
    ASSUME NEW q \in Seq(Message), NEW m \in Message
    PROVE  /\ Len(Sent(q, m)) <= Len(q) + 1
           /\ q # <<>> => Sent(q, m) # <<>> /\ Head(Sent(q, m)) = Head(q)
           /\ q = <<>> /\ Sent(q, m) # <<>> => Head(Sent(q, m)) = m
           /\ link = "up" => Sent(q, m) # <<>> /\ Len(Sent(q, m)) = Len(q) + 1
                             /\ Sent(q, m)[Len(q) + 1] = m
<1>1. /\ Len(Append(q, m)) = Len(q) + 1 /\ Len(q) \in Nat /\ Append(q, m) # <<>>
      /\ Append(q, m)[Len(q) + 1] = m /\ Append(q, m)[1] = Head(Append(q, m))
      /\ q # <<>> => Head(Append(q, m)) = Head(q)
      /\ q = <<>> => Head(Append(q, m)) = m
  OBVIOUS
<1> QED BY <1>1 DEF Sent

LEMMA ReadFacts ==
    ASSUME NEW q \in Seq(Message), q # <<>>
    PROVE  /\ Head(q) \in Message /\ Tail(q) \in Seq(Message) /\ Len(Tail(q)) = Len(q) - 1
           /\ Len(q) \in Nat
           /\ Len(q) <= 1 => Tail(q) = <<>>
           /\ Len(q) = 2 => Tail(q) # <<>> /\ Head(Tail(q)) = q[2]
           /\ Head(q) \in Carried(q) /\ Carried(Tail(q)) \subseteq Carried(q)
<1>1. /\ Head(q) \in Message /\ Tail(q) \in Seq(Message) /\ Len(Tail(q)) = Len(q) - 1
      /\ Len(q) \in Nat
  OBVIOUS
<1>2. Len(q) <= 1 => Tail(q) = <<>>
  BY <1>1, ReadOne
<1>3. ASSUME Len(q) = 2 PROVE Tail(q) # <<>> /\ Head(Tail(q)) = q[2]
  <2>1. Len(Tail(q)) = 1 /\ Tail(q)[1] = q[2]
    BY <1>3
  <2>2. Len(Tail(q)) # Len(<<>>)
    BY <2>1
  <2>3. Tail(q) # <<>>
    BY <2>2
  <2>4. \A s \in Seq(Message) : s # <<>> => Head(s) = s[1]
    OBVIOUS
  <2> QED BY <1>1, <2>1, <2>3, <2>4
<1> QED BY <1>1, <1>2, <1>3, CarriedFacts

(* The steps of the client keep the turns, *)
LEMMA ClientKeepsTurns ==
    ASSUME AnyFaultInv, Asked, Turns, Signals, ClientStep
    PROVE  Turns' /\ Signals'
<1> USE DEF ClientEnded, Preparing, Checking, Acting, TowerSent, world, client, server, stream
<1>0. /\ TypeOK /\ Copies /\ NewSession /\ cmsg \in Message /\ smsg \in Message
      /\ toServer \in Seq(Message) /\ toClient \in Seq(Message)
      /\ cfg.skipTower \in BOOLEAN /\ cpc \notin ClientEnded
  BY ConfigsAssumption DEF AnyFaultInv, TypeOK, ConfigType, ClientStep, ClientRecvSignal, ClientSignalLost, ClientLeaderWait,
         ClientPreHooks, ClientSlotWait, ClientPrepare, ClientGoPassive, ClientReadTower,
         ClientSendTower, ClientRecvResult, ClientResultLost, ClientRevert
<1>1. CASE ClientRecvSignal
  <2>1. /\ cmsg' = Decoded(cmsg, Head(toClient)) /\ toClient' = Tail(toClient)
        /\ cpc = "signal" /\ toClient # <<>> /\ cpc' \in {"leaderWait", "ended"}
        /\ UNCHANGED <<cfg, spc, smsg, toServer, link>>
    BY <1>1 DEF ClientRecvSignal
  <2>2. /\ Head(toClient) \in Message /\ Head(toClient) \in Carried(toClient)
        /\ Carried(toClient') \subseteq Carried(toClient)
        /\ Len(toClient') = Len(toClient) - 1 /\ Len(toClient) \in Nat
        /\ Len(toClient) <= 1 => toClient' = <<>>
    BY <1>0, <2>1, ReadFacts
  <2>3. Turns'
    BY <2>1, <2>2 DEF Turns
  <2>4. /\ ~cmsg'.rollback
        /\ cmsg'.skip => cfg.skipTower
        /\ cmsg'.canProceed /\ cfg.skipTower => cmsg'.skip
    BY <1>0, <2>1, <2>2, DecodedFields DEF Signals
  <2>5. Signals'
    BY <2>1, <2>2, <2>4 DEF Signals
  <2> QED BY <2>3, <2>5
<1>2. CASE ClientReadTower
  <2>1. /\ cpc = "readTower" /\ cpc' \in {"sendTower", "ended"}
        /\ UNCHANGED <<cfg, spc, smsg, toServer, toClient, link>>
        /\ cmsg' = cmsg \/ cmsg' = [cmsg EXCEPT !.tower = tower["old"]]
    BY <1>2 DEF ClientReadTower
  <2>2. /\ cmsg'.rollback = cmsg.rollback /\ cmsg'.skip = cmsg.skip
        /\ cmsg'.canProceed = cmsg.canProceed
    <3>1. tower["old"] \in Nat
      BY <1>0 DEF TypeOK
    <3>2. CASE cmsg' = [cmsg EXCEPT !.tower = tower["old"]]
      BY <1>0, <3>1, <3>2, OtherTower
    <3> QED BY <2>1, <3>2
  <2>3. Turns'
    BY <2>1 DEF Turns
  <2>4. Signals'
    BY <2>1, <2>2 DEF Signals
  <2> QED BY <2>3, <2>4
<1>3. CASE ClientSendTower
  <2>1. /\ cpc = "sendTower" /\ cpc' \in {"result", "critical"}
        /\ UNCHANGED <<cfg, spc, smsg, cmsg, toClient, link>>
    BY <1>3 DEF ClientSendTower, ToServer
  <2>2. /\ toServer' = toServer \/ toServer' = Sent(toServer, cmsg)
        /\ cpc' = "result" /\ link = "up" => toServer' # <<>>
        /\ Carried(toServer') \subseteq Carried(toServer) \cup {cmsg}
        /\ spc = "listening" => toServer' = toServer
        /\ Len(toServer') \in Nat
    <3>1. toServer' = toServer \/ toServer' = Sent(toServer, cmsg)
      BY <1>3 DEF ClientSendTower, ToServer
    <3>2. cpc' = "result" => toServer' = Sent(toServer, cmsg)
      BY <1>3 DEF ClientSendTower, ToServer
    <3>3. /\ Carried(Sent(toServer, cmsg)) \subseteq Carried(toServer) \cup {cmsg}
          /\ link = "up" => Sent(toServer, cmsg) # <<>>
          /\ Sent(toServer, cmsg) \in Seq(Message)
      <4>1. Carried(Sent(toServer, cmsg)) \subseteq Carried(toServer) \cup {cmsg}
        BY <1>0, CarriedFacts
      <4>2. link = "up" => Sent(toServer, cmsg) # <<>>
        BY <1>0, SentFacts
      <4> QED BY <1>0, <4>1, <4>2, SentType
    <3>4. spc = "listening" => link # "up"
      BY <1>0, <2>1 DEF NewSession
    <3>5. link # "up" => Sent(toServer, cmsg) = toServer
      BY DEF Sent
    <3> QED BY <1>0, <3>1, <3>2, <3>3, <3>4, <3>5
  <2>3. Turns'
    BY <2>1, <2>2 DEF Turns
  <2>4. Signals'
    BY <2>1, <2>2 DEF Signals
  <2> QED BY <2>3, <2>4
<1>4. CASE ClientRecvResult
  <2>1. /\ cmsg' = Decoded(cmsg, Head(toClient)) /\ toClient' = Tail(toClient)
        /\ cpc = "result" /\ toClient # <<>> /\ cpc' \in {"revert", "manual", "complete", "ended"}
        /\ UNCHANGED <<cfg, spc, smsg, toServer, link>>
    BY <1>4 DEF ClientRecvResult
  <2>2. /\ Head(toClient) \in Message /\ Head(toClient) \in Carried(toClient)
        /\ Carried(toClient') \subseteq Carried(toClient)
        /\ Len(toClient') = Len(toClient) - 1 /\ Len(toClient) \in Nat
        /\ Len(toClient) <= 1 => toClient' = <<>>
    BY <1>0, <2>1, ReadFacts
  <2>3. Turns'
    <3>1. cmsg'.rollback => smsg.rollback
      BY <1>0, <2>1, <2>2, DecodedFields DEF Asked
    <3>2. cpc' = "revert" => cmsg'.rollback
      BY <1>4 DEF ClientRecvResult
    <3> QED BY <2>1, <2>2, <3>1, <3>2 DEF Turns, Signals
  <2>4. /\ cmsg'.skip => cfg.skipTower
        /\ cmsg'.canProceed /\ cfg.skipTower => cmsg'.skip
    BY <1>0, <2>1, <2>2, DecodedFields DEF Signals
  <2>5. Signals'
    BY <2>1, <2>2, <2>4 DEF Signals
  <2> QED BY <2>3, <2>5
<1>5. CASE ClientGoPassive
  <2>1. /\ cpc = "goPassive" /\ cpc' \in {"result", "readTower", "ended"}
        /\ cpc' = "result" => cfg.skipTower
        /\ cpc' = "readTower" => ~cfg.skipTower
        /\ UNCHANGED <<cfg, spc, smsg, cmsg, toServer, toClient, link>>
    <3>1. cmsg.canProceed
      BY <1>0, <1>5 DEF ClientGoPassive, Copies
    <3> QED BY <1>5, <3>1 DEF ClientGoPassive, Signals
  <2>2. Turns'
    BY <1>0, <2>1 DEF Turns
  <2>3. Signals'
    BY <2>1 DEF Signals
  <2> QED BY <2>2, <2>3
<1>6. CASE /\ cpc' \in ClientEnded \/ (cpc \in Preparing /\ cpc' \in {"preHooks", "slotWait", "goPassive"})
           /\ UNCHANGED <<cfg, spc, smsg, cmsg, toServer, toClient, link>>
  <2>1. Turns'
    BY <1>0, <1>6 DEF Turns
  <2>2. Signals'
    BY <1>6 DEF Signals
  <2> QED BY <2>1, <2>2
<1> QED BY <1>1, <1>2, <1>3, <1>4, <1>5, <1>6 DEF ClientStep, ClientSignalLost,
        ClientLeaderWait, ClientPreHooks, ClientSlotWait, ClientPrepare, ClientResultLost,
        ClientRevert

(* so do those of the server *)
LEMMA ServerKeepsTurns ==
    ASSUME AnyFaultInv, Asked, Turns, Signals, ServerStep
    PROVE  Turns' /\ Signals'
<1> USE DEF ClientEnded, Preparing, Checking, Acting, TowerSent, world, client, server, stream
<1>0. /\ TypeOK /\ Copies /\ NewSession /\ cmsg \in Message /\ smsg \in Message
      /\ toServer \in Seq(Message) /\ toClient \in Seq(Message)
      /\ cfg.skipTower \in BOOLEAN
  BY ConfigsAssumption DEF AnyFaultInv, TypeOK, ConfigType
<1>sent. ASSUME NEW m \in Message, ToClient(m)
      PROVE  /\ Carried(toClient') \subseteq Carried(toClient) \cup {m}
             /\ Len(toClient') <= Len(toClient) + 1 /\ Len(toClient') \in Nat
             /\ toClient # <<>> => toClient' # <<>> /\ Head(toClient') = Head(toClient)
             /\ toClient = <<>> /\ toClient' # <<>> => Head(toClient') = m
             /\ link = "up" => toClient' # <<>>
             /\ UNCHANGED <<toServer, link>>
  <2>1. toClient' = Sent(toClient, m) /\ UNCHANGED <<toServer, link>>
    BY <1>sent DEF ToClient
  <2>2. Carried(Sent(toClient, m)) \subseteq Carried(toClient) \cup {m}
    BY <1>0, CarriedFacts
  <2>3. Len(Sent(toClient, m)) \in Nat
    BY <1>0, SentType
  <2> QED BY <1>0, <2>1, <2>2, <2>3, SentFacts
<1>over. ASSUME spc' \in {"closed", "exited"}, UNCHANGED <<cfg, client, smsg>>,
             UNCHANGED stream \/ (spc \in Checking /\ ToClient(smsg))
      PROVE  Turns' /\ Signals'
  <2>1. CASE UNCHANGED stream
    <3>1. Turns'
      BY <1>over, <2>1 DEF Turns
    <3>2. Signals'
      BY <1>over, <2>1 DEF Signals
    <3> QED BY <3>1, <3>2
  <2>2. CASE spc \in Checking /\ ToClient(smsg)
    <3>1. /\ Carried(toClient') \subseteq Carried(toClient) \cup {smsg}
          /\ toClient = <<>> /\ (toClient' # <<>> => Head(toClient') = smsg)
          /\ UNCHANGED <<toServer, link>>
      BY <1>0, <1>sent, <2>2 DEF Turns
    <3>2. Turns'
      BY <1>over, <2>2, <3>1 DEF Turns
    <3>3. Signals'
      BY <1>over, <2>2, <3>1 DEF Signals
    <3> QED BY <3>2, <3>3
  <2> QED BY <1>over, <2>1, <2>2
<1>goes_on. ASSUME spc \in Checking, spc' \in Checking, UNCHANGED <<cfg, client, smsg, stream>>
      PROVE  Turns' /\ Signals'
  <2>1. Turns'
    BY <1>goes_on DEF Turns
  <2>2. Signals'
    BY <1>goes_on DEF Signals
  <2> QED BY <2>1, <2>2
<1>1. CASE ServerAccept
  <2>1. /\ spc = "listening" /\ spc' = "validate" /\ toServer # <<>> /\ toServer' = Tail(toServer)
        /\ UNCHANGED <<cfg, cpc, cmsg, toClient, link>>
    BY <1>1 DEF ServerAccept
  <2>2. /\ smsg'.skip = cfg.skipTower /\ smsg'.canProceed = Head(toServer).canProceed
        /\ smsg'.rollback = Head(toServer).rollback
    BY <1>0, <1>1, Accepted
  <2>3. /\ Head(toServer) \in Carried(toServer) /\ toServer' = <<>> /\ Carried(toServer') = {}
    BY <1>0, <2>1, ReadFacts, CarriedNothing DEF Turns
  <2>4. toClient = <<>> /\ cpc \in {"signal"} \cup ClientEnded
    BY <1>0, <2>1 DEF NewSession
  <2>5. Turns'
    BY <2>1, <2>3, <2>4 DEF Turns
  <2>6. Signals'
    BY <2>1, <2>2, <2>3, <2>4 DEF Signals
  <2> QED BY <2>5, <2>6
<1>2. CASE ServerProceed
  <2>1. /\ spc = "proceed" /\ spc' \in {"goActive", "recvTower", "closed"}
        /\ spc' = "recvTower" => ~cfg.skipTower
        /\ spc' = "goActive" => cfg.skipTower
        /\ UNCHANGED <<cfg, cpc, cmsg>>
        /\ ToClient(smsg') \/ (UNCHANGED stream /\ spc' = "closed")
    BY <1>0, <1>2 DEF ServerProceed
  <2>2. /\ smsg' \in Message /\ smsg'.rollback = smsg.rollback /\ smsg'.skip = smsg.skip
    BY <1>0, <1>2 DEF ServerProceed, Message
  <2>3. toServer = <<>> /\ toClient = <<>> /\ cpc \in {"signal"} \cup ClientEnded
    BY <2>1 DEF Turns
  <2>4. /\ Carried(toClient') \subseteq {smsg'} /\ Len(toClient') <= 1
        /\ toClient' # <<>> => Head(toClient') = smsg'
        /\ toServer' = <<>> /\ Carried(toServer') = {}
        /\ link' = "up" /\ spc' # "closed" => toClient' # <<>>
    BY <1>sent, <2>1, <2>2, <2>3, CarriedNothing
  <2>5. Turns'
    BY <1>0, <2>1, <2>3, <2>4 DEF Turns
  <2>6. Signals'
    BY <2>1, <2>2, <2>3, <2>4 DEF Signals
  <2> QED BY <2>5, <2>6
<1>3. CASE ServerRecvTower
  <2>1. /\ spc = "recvTower" /\ spc' = "writeTower" /\ toServer # <<>>
        /\ toServer' = Tail(toServer)
        /\ smsg' = Decoded(smsg, Head(toServer)) /\ UNCHANGED <<cfg, cpc, cmsg, toClient, link>>
    BY <1>3 DEF ServerRecvTower
  <2>2. /\ Head(toServer) \in Message /\ Head(toServer) \in Carried(toServer)
        /\ Carried(toServer') \subseteq Carried(toServer)
    BY <1>0, <2>1, ReadFacts
  <2>3. /\ ~smsg'.rollback
        /\ smsg'.skip => cfg.skipTower
        /\ smsg'.canProceed /\ cfg.skipTower => smsg'.skip
    BY <1>0, <2>1, <2>2, DecodedFields DEF Signals
  <2>4. Turns'
    BY <1>0, <2>1 DEF Turns
  <2>5. Signals'
    BY <2>1, <2>2, <2>3 DEF Signals
  <2> QED BY <2>4, <2>5
<1>4. CASE ServerTowerLost
  BY <1>4, <1>over DEF ServerTowerLost
<1>5. CASE ServerWriteTower
  <2>1. CASE spc' = "closed"
    BY <1>5, <1>over, <2>1 DEF ServerWriteTower
  <2>2. CASE spc' = "goActive"
    <3>1. UNCHANGED <<cfg, client, smsg, stream>> /\ spc = "writeTower"
      BY <1>5 DEF ServerWriteTower
    <3>2. Turns'
      BY <2>2, <3>1 DEF Turns
    <3>3. Signals'
      BY <2>2, <3>1 DEF Signals
    <3> QED BY <3>2, <3>3
  <2> QED BY <1>5, <2>1, <2>2 DEF ServerWriteTower
<1>6. CASE ServerGoActive
  <2>1. /\ spc = "goActive" /\ UNCHANGED <<cfg, cpc, cmsg>>
        /\ \/ spc' \in {"report", "exited"} /\ UNCHANGED <<smsg, stream>>
           \/ spc' = "revert" /\ ToClient(smsg') /\ smsg' = [smsg EXCEPT !.rollback = TRUE]
    BY <1>6 DEF ServerGoActive
  <2>2. CASE spc' # "revert"
    <3>1. Turns'
      BY <2>1, <2>2 DEF Turns
    <3>2. Signals'
      BY <2>1, <2>2 DEF Signals
    <3> QED BY <3>1, <3>2
  <2>3. CASE spc' = "revert"
    <3>1. /\ smsg' \in Message /\ smsg'.skip = smsg.skip /\ smsg'.canProceed = smsg.canProceed
      BY <1>0, <2>1, <2>3 DEF Message
    <3>2. ToClient(smsg')
      BY <2>1, <2>3
    <3>3. /\ Carried(toClient') \subseteq Carried(toClient) \cup {smsg'}
          /\ toClient # <<>> => toClient' # <<>> /\ Head(toClient') = Head(toClient)
          /\ toServer' = toServer /\ link' = link
      BY <1>sent, <3>1, <3>2
    <3>4. link # "up" => toClient' = toClient
      BY <3>2 DEF ToClient, Sent
    <3>5. Turns'
      BY <2>1, <2>3, <3>3 DEF Turns
    <3>6. Signals'
      BY <2>1, <2>3, <3>1, <3>3, <3>4 DEF Turns, Signals
    <3> QED BY <3>5, <3>6
  <2> QED BY <2>2, <2>3
<1>7. CASE ServerRevert
  BY <1>7, <1>over DEF ServerRevert
<1>8. CASE ServerReport
  <2>1. /\ spc = "report" /\ spc' \in {"post", "closed"} /\ UNCHANGED <<cfg, cpc, cmsg>>
        /\ ToClient(smsg') \/ UNCHANGED stream
    BY <1>8 DEF ServerReport
  <2>2. /\ smsg' \in Message /\ smsg'.rollback = smsg.rollback /\ smsg'.skip = smsg.skip
        /\ smsg'.canProceed = smsg.canProceed
    BY <1>0, <1>8 DEF ServerReport, Message
  <2>3. /\ Carried(toClient') \subseteq Carried(toClient) \cup {smsg'}
        /\ toClient # <<>> => toClient' # <<>> /\ Head(toClient') = Head(toClient)
        /\ toClient = <<>> /\ toClient' # <<>> => Head(toClient') = smsg'
        /\ toServer' = toServer /\ link' = link
    BY <1>sent, <2>1, <2>2
  <2>4. Turns'
    BY <2>1, <2>3 DEF Turns
  <2>5. Signals'
    BY <2>1, <2>2, <2>3 DEF Signals
  <2> QED BY <2>4, <2>5
<1>9. CASE ServerPost
  <2>1. /\ spc' = "complete" /\ UNCHANGED <<cfg, cpc, cmsg, smsg>>
        /\ toClient' = <<>> /\ Carried(toClient') = {} /\ Carried(toServer') = {}
    BY <1>9, CarriedNothing DEF ServerPost
  <2>2. Turns'
    BY <2>1 DEF Turns
  <2>3. Signals'
    BY <2>1 DEF Signals
  <2> QED BY <2>2, <2>3
<1>10. CASE /\ spc \in Checking /\ UNCHANGED <<cfg, client, smsg>>
            /\ \/ spc' \in Checking /\ UNCHANGED stream
               \/ spc' \in {"closed", "exited"} /\ ToClient(smsg)
  BY <1>10, <1>over, <1>goes_on
<1> QED BY <1>1, <1>2, <1>3, <1>4, <1>5, <1>6, <1>7, <1>8, <1>9, <1>10 DEF ServerStep,
        ServerValidate, ServerConfirm, ServerSample, ServerPrepareTower, ServerPreHooks, Refuse

(* and the environment. *)
LEMMA EnvironmentKeepsTurns ==
    ASSUME AnyFaultInv, Turns, Signals, Environment
    PROVE  Turns' /\ Signals'
<1> USE DEF ClientEnded, Preparing, Checking, Acting, TowerSent, world, client, server, stream
<1>1. CASE ClientStart
  <2>1. /\ UNCHANGED <<cfg, smsg>> /\ spc' = "listening" /\ link' = "up" /\ cpc' = "signal"
        /\ toServer' = <<cmsg'>> /\ Len(toServer') = 1 /\ Carried(toServer') = {cmsg'}
        /\ toClient' = <<>> /\ Carried(toClient') = {}
    BY <1>1, CarriedNothing DEF ClientStart, Carried
  <2>2. ~cmsg'.skip /\ ~cmsg'.canProceed /\ ~cmsg'.rollback
    BY <1>1 DEF ClientStart, NoMessage
  <2>3. Turns'
    BY <2>1 DEF Turns
  <2>4. Signals'
    BY <2>1, <2>2 DEF Signals
  <2> QED BY <2>3, <2>4
<1>2. CASE ServerRestart
  <2>1. /\ UNCHANGED <<cfg, client, smsg, toClient>> /\ spc = "exited" /\ spc' = "listening"
        /\ toServer' = <<>> /\ Len(toServer') = 0 /\ Carried(toServer') = {}
    BY <1>2, CarriedNothing DEF ServerRestart
  <2>2. Turns'
    BY <2>1 DEF Turns
  <2>3. Signals'
    BY <2>1 DEF Signals
  <2> QED BY <2>2, <2>3
<1>3. CASE LinkBreak
  <2>1. /\ UNCHANGED <<cfg, client, server>> /\ link' = "broken"
        /\ toServer' = <<>> /\ Len(toServer') = 0 /\ Carried(toServer') = {}
        /\ toClient' = <<>> /\ Len(toClient') = 0 /\ Carried(toClient') = {}
    BY <1>3, CarriedNothing DEF LinkBreak
  <2>2. Turns'
    BY <2>1 DEF Turns
  <2>3. Signals'
    BY <2>1 DEF Signals
  <2> QED BY <2>2, <2>3
<1>4. CASE ClientCrash \/ ServerCrash \/ \E h \in Hosts : Vote(h)
  <2>1. /\ UNCHANGED <<cfg, cmsg, smsg, stream>>
        /\ cpc' \in {cpc, "ended"} /\ spc' \in {spc, "exited"}
    BY <1>4 DEF ClientCrash, ServerCrash, Vote
  <2>2. Turns'
    BY <2>1 DEF Turns
  <2>3. Signals'
    BY <2>1 DEF Signals
  <2> QED BY <2>2, <2>3
<1> QED BY <1>1, <1>2, <1>3, <1>4 DEF Environment

(* All of it holds in every reachable state. *)
THEOREM OrderInvariant == Spec => []Orderly
<1>1. Init => Asked /\ Turns /\ Signals
  <2> SUFFICES ASSUME Init PROVE Asked /\ Turns /\ Signals
    OBVIOUS
  <2>1. /\ Carried(toServer) = {} /\ Carried(toClient) = {}
        /\ ~NoMessage.skip /\ ~NoMessage.canProceed /\ ~NoMessage.rollback
        /\ cmsg = NoMessage /\ smsg = NoMessage /\ Len(toServer) = 0
        /\ cpc = "idle" /\ spc = "listening"
    BY CarriedNothing DEF Init, NoMessage
  <2> QED BY <2>1 DEF Asked, Turns, Signals, ClientEnded, Preparing, Checking, Acting, TowerSent
<1>2. ASSUME AnyFaultInv, Asked, Turns, Signals, [Next]_vars
      PROVE  Asked' /\ Turns' /\ Signals'
  <2>1. CASE UNCHANGED vars
    BY <1>2, <2>1, AskedNext DEF vars, Turns, Signals, TowerSent
  <2> QED
    BY <1>2, <2>1, AskedNext, ClientKeepsTurns, ServerKeepsTurns, EnvironmentKeepsTurns DEF Next
<1> QED BY <1>1, <1>2, AnyFaultInvariant, PTL DEF Spec, Orderly

(* The client and the server never wait for one another. *)
THEOREM NeverBothWait == Spec => []NotBothWaiting
<1>1. ASSUME Orderly, cpc \in {"signal", "result"}, toClient = <<>>, ~ClientReadFails,
             toServer = <<>>, spc \in {"listening", "recvTower"}
      PROVE  FALSE
  <2>1. link = "up" /\ spc \notin ServerGone /\ cpc \notin ClientEnded
    BY <1>1 DEF ClientReadFails, ClientEnded
  <2>2. CASE spc = "listening"
    BY <1>1, <2>1, <2>2 DEF Orderly, AnyFaultInv, NewSession
  <2>3. CASE spc = "recvTower"
    BY <1>1, <2>1, <2>3 DEF Orderly, Turns, ClientEnded
  <2> QED BY <1>1, <2>2, <2>3
<1>2. Orderly => NotBothWaiting
  BY <1>1 DEF NotBothWaiting, ClientWaits, ServerWaits
<1> QED BY <1>2, OrderInvariant, PTL

(* Every step of a program is one less that it has left: with               *)
(* NeverBothWait the reason why a run of either of them comes to an end.    *)
THEOREM StepsAreSpent == Spec => StepsRunOut
<1> USE DEF ClientStepsLeft, ServerStepsLeft
<1>1. ASSUME ClientStep
      PROVE  ClientStepsLeft' < ClientStepsLeft /\ ServerStepsLeft' = ServerStepsLeft
  BY <1>1 DEF ClientStep, ClientRecvSignal, ClientSignalLost, ClientLeaderWait,
     ClientPreHooks, ClientSlotWait, ClientPrepare, ClientGoPassive, ClientReadTower,
     ClientSendTower, ClientRecvResult, ClientResultLost, ClientRevert, server
<1>2. ASSUME ServerStep
      PROVE  ServerStepsLeft' < ServerStepsLeft /\ ClientStepsLeft' = ClientStepsLeft
  BY <1>2 DEF ServerStep, ServerAccept, ServerValidate, ServerConfirm, ServerSample,
     ServerPrepareTower, ServerPreHooks, ServerProceed, ServerRecvTower, ServerTowerLost,
     ServerWriteTower, ServerGoActive, ServerRevert, ServerReport, ServerPost, Refuse, client
<1>3. ASSUME Environment
      PROVE  /\ ~ClientStart => ClientStepsLeft' <= ClientStepsLeft
             /\ ~ClientStart /\ ~ServerRestart => ServerStepsLeft' <= ServerStepsLeft
  BY <1>3 DEF Environment, ClientCrash, ServerRestart, ServerCrash, LinkBreak, Vote, client,
     server
<1>4. ASSUME Next
      PROVE  /\ ~ClientStart => ClientStepsLeft' <= ClientStepsLeft
             /\ ~ClientStart /\ ~ServerRestart => ServerStepsLeft' <= ServerStepsLeft
  <2>1. ClientStepsLeft \in Nat /\ ServerStepsLeft \in Nat
    OBVIOUS
  <2>2. ClientStepsLeft' \in Nat /\ ServerStepsLeft' \in Nat
    OBVIOUS
  <2> QED BY <1>1, <1>2, <1>3, <1>4, <2>1, <2>2 DEF Next
<1> QED BY <1>1, <1>2, <1>4, PTL DEF Spec, StepsRunOut

-------------------------------------------------------------------------------
(* With tower sync and gossip that shows the identities in use. *)

(* What these assumptions say of the configuration. *)
LEMMA Synced ==
    ASSUME TypeOK, \A c \in Configs : ~c.skipTower
    PROVE  ~cfg.skipTower
  BY DEF TypeOK

(* The steps of the client keep the identities in their places, *)
LEMMA ClientKeepsPlaces ==
    ASSUME Orderly, Places, ~cfg.skipTower, ClientStep, ~cfg.dryRun
    PROVE  Places'
<1> USE DEF ClientEnded, ServerGone, Preparing, Checking, Acting, TowerSent, Untouched,
        AskedToProceed, world, client, server, stream
<1>0. /\ TypeOK /\ Copies /\ Moved /\ Asked /\ Turns /\ Signals
      /\ identity \in [Hosts -> {"active", "passive"}]
      /\ cmsg \in Message /\ toClient \in Seq(Message)
      /\ cpc \notin ClientEnded
  BY DEF Orderly, AnyFaultInv, TypeOK, ClientStep, ClientRecvSignal, ClientSignalLost,
         ClientLeaderWait, ClientPreHooks, ClientSlotWait, ClientPrepare, ClientGoPassive,
         ClientReadTower, ClientSendTower, ClientRecvResult, ClientResultLost, ClientRevert
<1>1. CASE ClientRecvSignal
  <2>1. /\ cpc = "signal" /\ toClient # <<>> /\ cpc' \in {"leaderWait", "ended"}
        /\ cmsg' = Decoded(cmsg, Head(toClient))
        /\ cpc' = "leaderWait" => cmsg'.canProceed
        /\ UNCHANGED <<cfg, identity, spc, smsg, toServer>>
    BY <1>1 DEF ClientRecvSignal
  <2>2. cpc' = "leaderWait" => Head(toClient).canProceed
    BY <1>0, <2>1, ReadFacts, DecodedFields DEF Signals
  <2> QED BY <2>1, <2>2 DEF Places
<1>2. CASE ClientGoPassive
  <2>1. /\ cpc = "goPassive" /\ cpc' \in {"result", "readTower", "ended"}
        /\ UNCHANGED <<cfg, spc, smsg, toServer, toClient>>
        /\ identity'["new"] = identity["new"]
        /\ identity'["old"] \in {identity["old"], "passive"}
    BY <1>0, <1>2 DEF ClientGoPassive, CommandSucceeds, CommandFails
  <2>2. spc \notin Checking
    BY <1>0, <2>1 DEF Turns
  <2> QED BY <2>1, <2>2 DEF Places
<1>3. CASE ClientSendTower
  <2>1. /\ cpc = "sendTower" /\ cpc' \in {"result", "critical"}
        /\ UNCHANGED <<cfg, identity, spc, smsg, toClient>>
    BY <1>3 DEF ClientSendTower, ToServer
  <2>2. identity["old"] = "passive"
    BY <1>0, <2>1 DEF Moved
  <2> QED BY <2>1, <2>2 DEF Places
<1>4. CASE ClientRecvResult
  <2>1. /\ cpc = "result" /\ cpc' \in {"revert", "manual", "complete", "ended"}
        /\ UNCHANGED <<cfg, identity, spc, smsg, toServer>>
    BY <1>4 DEF ClientRecvResult
  <2> QED BY <2>1 DEF Places
<1>5. CASE ClientRevert
  <2>1. /\ cpc = "revert" /\ cpc' \in {"reverted", "manual"}
        /\ UNCHANGED <<cfg, spc, smsg, toServer, toClient>>
        /\ identity'["new"] = identity["new"]
    BY <1>0, <1>5 DEF ClientRevert, CommandSucceeds, CommandFails
  <2>2. smsg.rollback
    BY <1>0, <2>1 DEF Copies, Asked
  <2>3. ~TowerSent /\ spc \notin Checking
    BY <1>0, <2>1, <2>2 DEF Signals, Turns
  <2> QED BY <2>1, <2>2, <2>3 DEF Places
<1>6. CASE /\ UNCHANGED <<cfg, identity, spc, smsg, toServer, toClient>>
           /\ \/ cpc' \in ClientEnded
              \/ <<cpc, cpc'>> \in {<<"leaderWait", "preHooks">>, <<"preHooks", "slotWait">>,
                                    <<"slotWait", "goPassive">>, <<"readTower", "sendTower">>}
  BY <1>6 DEF Places
<1> QED BY <1>1, <1>2, <1>3, <1>4, <1>5, <1>6 DEF ClientStep, ClientSignalLost,
        ClientLeaderWait, ClientPreHooks, ClientSlotWait, ClientPrepare, ClientReadTower,
        ClientResultLost

(* those of the server, *)
LEMMA ServerKeepsPlaces ==
    ASSUME Orderly, Places, ~cfg.skipTower, "staleGossip" \notin Faults, ServerStep,
           ~cfg.dryRun
    PROVE  Places'
<1> USE DEF ClientEnded, ServerGone, Preparing, Checking, Acting, TowerSent, Untouched,
        AskedToProceed, world, client, server, stream
<1>0. /\ TypeOK /\ Copies /\ NewSession /\ Moved /\ Asked /\ Turns /\ Signals
      /\ identity \in [Hosts -> {"active", "passive"}]
      /\ smsg \in Message /\ toClient \in Seq(Message)
  BY DEF Orderly, AnyFaultInv, TypeOK
<1>1. CASE ServerAccept
  BY <1>1 DEF ServerAccept, Places
<1>2. CASE /\ spc \in Checking /\ UNCHANGED <<cfg, identity, client, smsg>>
           /\ \/ /\ UNCHANGED stream
                 /\ spc' \in Checking
                 /\ spc = "validate" => identity["old"] = "active"
              \/ spc' \in {"closed", "exited"} /\ ToClient(smsg)
  <2>1. /\ toServer = <<>> /\ toClient = <<>> /\ ~smsg.canProceed
        /\ identity["new"] = "passive"
    BY <1>0, <1>2 DEF Turns, Signals, Places
  <2>2. /\ UNCHANGED toServer
        /\ toClient' # <<>> => Head(toClient') = smsg
    BY <1>0, <1>2, <2>1, SentFacts DEF ToClient
  <2>3. identity["old"] = "active" => Untouched
    BY <1>0, <2>1
  <2> QED BY <1>2, <2>1, <2>2, <2>3 DEF Places
<1>3. CASE ServerProceed
  <2>1. /\ spc = "proceed" /\ spc' \in {"recvTower", "closed"}
        /\ UNCHANGED <<cfg, identity, cpc, toServer>>
    BY <1>3 DEF ServerProceed, ToClient
  <2>2. toServer = <<>> /\ Untouched
    BY <1>0, <2>1 DEF Turns, Places
  <2> QED BY <2>1, <2>2 DEF Places
<1>4. CASE ServerRecvTower \/ ServerTowerLost \/ ServerWriteTower
  <2>1. /\ UNCHANGED <<cfg, identity, cpc, toClient>>
        /\ TowerSent' => TowerSent
        /\ spc \in {"recvTower", "writeTower"} /\ spc' \in {"writeTower", "goActive", "closed"}
    BY <1>4 DEF ServerRecvTower, ServerTowerLost, ServerWriteTower
  <2> QED BY <1>0, <2>1 DEF Places
<1>5. CASE ServerGoActive
  <2>1. /\ spc = "goActive" /\ UNCHANGED <<cfg, cpc>>
        /\ identity'["old"] = identity["old"]
        /\ \/ spc' = "report" /\ identity'["new"] = "active" /\ UNCHANGED smsg
           \/ spc' \in {"revert", "exited"}
    BY <1>0, <1>5 DEF ServerGoActive, CommandSucceeds, CommandFails
  <2>2. /\ identity["old"] = "passive" /\ ~smsg.rollback
        /\ cpc \in {"result"} \cup ClientEnded
    BY <1>0, <2>1 DEF Places, Turns, Signals
  <2> QED BY <2>1, <2>2 DEF Places
<1>6. CASE ServerRevert
  <2>1. /\ spc = "revert" /\ spc' = "exited" /\ UNCHANGED <<cfg, cpc, smsg, toClient>>
        /\ identity'["old"] = identity["old"]
        /\ identity'["new"] \in {identity["new"], "passive"}
    BY <1>0, <1>6 DEF ServerRevert, CommandSucceeds, CommandFails
  <2>2. AskedToProceed \/ cpc \in {"leaderWait", "preHooks", "slotWait", "goPassive"}
          => identity' = identity
    BY <1>0, <1>6 DEF ServerRevert, CommandSucceeds, CommandFails, Places
  <2> QED BY <2>1, <2>2 DEF Places
<1>7. CASE ServerReport
  <2>1. /\ spc = "report" /\ spc' \in {"post", "closed"} /\ UNCHANGED <<cfg, identity, cpc>>
        /\ smsg'.rollback = smsg.rollback
    BY <1>0, <1>7 DEF ServerReport, Message
  <2>2. cpc \in {"result"} \cup ClientEnded
    BY <1>0, <2>1 DEF Turns
  <2> QED BY <2>1, <2>2 DEF Places
<1>8. CASE ServerPost
  BY <1>8 DEF ServerPost, Places
<1> QED BY <1>1, <1>2, <1>3, <1>4, <1>5, <1>6, <1>7, <1>8 DEF ServerStep, ServerValidate,
        ServerConfirm, ServerSample, ServerPrepareTower, ServerPreHooks, Refuse, GossipMayShow

(* and the environment. *)
LEMMA EnvironmentKeepsPlaces ==
    ASSUME Orderly, Places, "staleGossip" \notin Faults, Environment, ~cfg.dryRun
    PROVE  Places'
<1> USE DEF ClientEnded, ServerGone, Preparing, Checking, Acting, TowerSent, Untouched,
        AskedToProceed, world, client, server, stream
<1>0. identity \in [Hosts -> {"active", "passive"}]
  BY DEF Orderly, AnyFaultInv, TypeOK
<1>1. CASE ClientStart
  <2>1. /\ spc \in {"closed", "listening"} /\ spc' = "listening" /\ cpc' = "signal"
        /\ identity["old"] = "active" /\ toClient' = <<>> /\ UNCHANGED <<cfg, identity>>
    BY <1>1 DEF ClientStart, GossipMayShow
  <2> QED BY <2>1 DEF Places
<1>2. CASE ServerRestart
  <2>1. /\ spc' = "listening" /\ identity["new"] = "passive"
        /\ UNCHANGED <<cfg, identity, cpc, toClient>>
    BY <1>2 DEF ServerRestart, GossipMayShow
  <2> QED BY <2>1 DEF Places
<1>3. CASE LinkBreak
  BY <1>3 DEF LinkBreak, Places
<1>4. CASE ClientCrash \/ ServerCrash \/ \E h \in Hosts : Vote(h)
  <2>1. /\ UNCHANGED <<cfg, identity, smsg, stream>>
        /\ cpc' \in {cpc, "ended"} /\ spc' \in {spc, "exited"}
    BY <1>4 DEF ClientCrash, ServerCrash, Vote
  <2> QED BY <2>1 DEF Places
<1> QED BY <1>1, <1>2, <1>3, <1>4 DEF Environment

(* The identities are in their places. *)
THEOREM PlacesInvariant ==
    ASSUME \A c \in Configs : ~c.skipTower, "staleGossip" \notin Faults
    PROVE  Spec => []Places
<1>1. Init => Places
  BY DEF Init, Places, Untouched, AskedToProceed, TowerSent, Checking, Acting
<1>2. ASSUME Orderly, Places, [Next]_vars PROVE Places'
  <2>1. ~cfg.skipTower
    BY <1>2, Synced DEF Orderly, AnyFaultInv
  <2>2. CASE UNCHANGED vars
    BY <1>2, <2>2 DEF vars, Places, Untouched, AskedToProceed, TowerSent
  <2>3. CASE Next /\ ~cfg.dryRun
    BY <1>2, <2>1, <2>3, ClientKeepsPlaces, ServerKeepsPlaces, EnvironmentKeepsPlaces DEF Next
  <2>4. CASE Next /\ cfg.dryRun
    <3>1. cfg' = cfg
      BY <2>4 DEF Next, ClientStep, ServerStep, Environment, ClientRecvSignal,
       ClientSignalLost, ClientLeaderWait, ClientPreHooks, ClientSlotWait, ClientPrepare,
       ClientGoPassive, ClientReadTower, ClientSendTower, ClientRecvResult, ClientResultLost,
       ClientRevert, ServerAccept, ServerValidate, ServerConfirm, ServerSample,
       ServerPrepareTower, ServerPreHooks, ServerProceed, ServerRecvTower, ServerTowerLost,
       ServerWriteTower, ServerGoActive, ServerRevert, ServerReport, ServerPost, ClientStart,
       ClientCrash, ServerRestart, ServerCrash, LinkBreak, Vote
    <3> QED BY <2>4, <3>1 DEF Places
  <2> QED BY <1>2, <2>2, <2>3, <2>4
<1> QED BY <1>1, <1>2, OrderInvariant, PTL DEF Spec

-------------------------------------------------------------------------------
(* Every step of the protocol is a step of Handover or leaves it alone: the *)
(* identity is released before it is taken, and taken with the last vote    *)
(* on record.                                                               *)
LEMMA StepImplements ==
    ASSUME IInv, Clean, [Next]_vars
    PROVE  [Abstract!Next]_(Abstract!vars)
<1> USE DEF Abstract!vars, world, client, server, stream
<1>1. CASE UNCHANGED world
  BY <1>1 DEF Holder
<1>2. CASE ClientGoPassive
  <2>1. identity["new"] = "passive"
    BY <1>2 DEF ClientGoPassive, IInv, TypeOK, Taken, ClientEnded
  <2>2. \/ UNCHANGED identity
        \/ identity' = [identity EXCEPT !["old"] = "passive"]
    BY <1>2, Facts DEF ClientGoPassive, CommandSucceeds, CommandFails, IInv
  <2>3. CASE UNCHANGED identity
    BY <1>2, <2>3 DEF ClientGoPassive, Holder
  <2>4. CASE identity["old"] = "active" /\ identity' = [identity EXCEPT !["old"] = "passive"]
    <3>1. Abstract!Release
      BY <1>2, <2>1, <2>4 DEF ClientGoPassive, Abstract!Release, Holder, IInv, TypeOK
    <3> QED
      BY <3>1 DEF Abstract!Next
  <2> QED
    BY <2>2, <2>3, <2>4 DEF IInv, TypeOK
<1>3. CASE ClientRevert
  <2>1. identity["new"] = "passive" /\ tower["old"] = votes
    BY <1>3 DEF ClientRevert, IInv, TypeOK, Rollbacks, Taken, TowerKnown, ClientEnded, ServerGone
  <2>2. \/ UNCHANGED identity
        \/ identity["old"] = "passive" /\ identity' = [identity EXCEPT !["old"] = "active"]
    BY <1>3, Facts DEF ClientRevert, CommandSucceeds, CommandFails, IInv, TypeOK
  <2>3. CASE UNCHANGED identity
    BY <1>3, <2>3 DEF ClientRevert, Holder
  <2>4. CASE identity["old"] = "passive" /\ identity' = [identity EXCEPT !["old"] = "active"]
    <3>1. Abstract!Take("old")
      BY <1>3, <2>1, <2>4 DEF ClientRevert, Abstract!Take, Holder, IInv, TypeOK
    <3> QED
      BY <3>1 DEF Abstract!Next, Abstract!Hosts
  <2> QED
    BY <2>2, <2>3, <2>4
<1>4. CASE ServerPrepareTower \/ ServerWriteTower \/ ServerRestart
  <2>1. UNCHANGED <<identity, votes>> /\ identity["new"] = "passive"
    BY <1>4, Facts DEF ServerPrepareTower, ServerWriteTower, ServerRestart, GossipMayShow,
         IInv, TypeOK, Taken, ServerGone
  <2>2. PICK n \in Nat : tower' = [tower EXCEPT !["new"] = n] \/ UNCHANGED tower
    BY <1>4 DEF ServerPrepareTower, ServerWriteTower, ServerRestart, IInv, TypeOK, Message
  <2>3. Abstract!Sync \/ UNCHANGED world
    BY <2>1, <2>2 DEF Abstract!Sync, Holder, IInv, TypeOK
  <2> QED
    BY <2>3, <1>1 DEF Abstract!Next
<1>5. CASE ServerGoActive
  <2>1. identity["new"] = "passive"
    BY <1>5 DEF ServerGoActive, IInv, TypeOK, Taken, ServerGone
  <2>2. \/ UNCHANGED identity
        \/ ~cfg.dryRun /\ identity' = [identity EXCEPT !["new"] = "active"]
    BY <1>5, Facts DEF ServerGoActive, CommandSucceeds, CommandFails, IInv
  <2>3. CASE UNCHANGED identity
    BY <1>5, <2>3 DEF ServerGoActive, Holder
  <2>4. CASE ~cfg.dryRun /\ identity' = [identity EXCEPT !["new"] = "active"]
    <3>1. identity["old"] = "passive" /\ tower["new"] = votes
      BY <1>5, <2>4 DEF ServerGoActive, IInv, TypeOK, Released, TowerSent, Acting, TowerKnown
    <3>2. Abstract!Take("new")
      BY <1>5, <2>1, <2>4, <3>1 DEF ServerGoActive, Abstract!Take, Holder, IInv, TypeOK
    <3> QED
      BY <3>2 DEF Abstract!Next, Abstract!Hosts
  <2> QED
    BY <2>2, <2>3, <2>4
<1>6. CASE ServerRevert
  <2>1. identity["new"] = "passive"
    BY <1>6 DEF ServerRevert, IInv, TypeOK, Taken, ServerGone
  <2>2. UNCHANGED world
    BY <1>6, <2>1, Facts DEF ServerRevert, CommandSucceeds, CommandFails, IInv, TypeOK
  <2> QED
    BY <2>2, <1>1
<1>7. ASSUME NEW h \in Hosts, Vote(h)
      PROVE  Abstract!Vote(h)
  BY <1>7 DEF Vote, Abstract!Vote, Holder, IInv, TypeOK, Taken
<1>8. CASE \E h \in Hosts : Vote(h)
  BY <1>7, <1>8 DEF Abstract!Next, Abstract!Hosts
<1> QED
  BY <1>1, <1>2, <1>3, <1>4, <1>5, <1>6, <1>8
  DEF Next, vars, ClientStep, ServerStep, Environment, ClientStart, ClientRecvSignal,
      ClientSignalLost, ClientLeaderWait, ClientPreHooks, ClientSlotWait, ClientPrepare,
      ClientReadTower, ClientSendTower, ClientRecvResult, ClientResultLost, ServerAccept,
      ServerValidate, ServerConfirm, ServerSample, ServerPreHooks, ServerProceed,
      ServerRecvTower, ServerTowerLost, ServerReport, ServerPost, ClientCrash, ServerCrash,
      LinkBreak

(* The failover implements Handover. *)
THEOREM Implements ==
    ASSUME Clean
    PROVE  Spec => ImplementsHandover
<1>1. Init => Abstract!Init
  BY DEF Init, Abstract!Init, Holder
<1>2. IInv /\ [Next]_vars => [Abstract!Next]_(Abstract!vars)
  BY StepImplements
<1> QED
  BY <1>1, <1>2, Invariant, PTL DEF Spec, ImplementsHandover, Abstract!Spec

-------------------------------------------------------------------------------
(* FailoverOutcome: the same protocol with the history of its mishaps. *)

(* A step of the protocol with its history is a step of the protocol. *)
LEMMA HistoryStep == HistoryNext => Next
  BY DEF HistoryNext, MishapStep, OtherStep, Next, ClientStep, ServerStep, Environment

(* The history adds nothing to what the programs may do. *)
THEOREM HistoryImplements == HistorySpec => Spec
<1>1. HistoryInit => Init
  BY DEF HistoryInit
<1>2. [HistoryNext]_historyVars => [Next]_vars
  BY HistoryStep DEF historyVars, vars
<1> QED BY <1>1, <1>2, PTL DEF HistorySpec, Spec

(* The hooks of a failover for real are told the roles that the hosts have, *)
(* also when a command that fails takes effect, or a program is lost.       *)
THEOREM HooksToldTrueRoles ==
    ASSUME \A c \in Configs : ~c.skipTower, "staleGossip" \notin Faults
    PROVE  HistorySpec => []HookRolesTrue
<1>1. ASSUME Orderly, Places, ~cfg.dryRun
      PROVE  /\ cpc = "preHooks" => identity = HookRoles("old", "pre")
             /\ spc = "preHooks" => identity = HookRoles("new", "pre")
             /\ cpc = "complete" => identity = HookRoles("old", "post")
             /\ spc = "post" => identity = HookRoles("new", "post")
  <2>1. identity \in [Hosts -> {"active", "passive"}]
    BY <1>1 DEF Orderly, AnyFaultInv, TypeOK
  <2>2. /\ HookRoles("old", "pre") = [h \in Hosts |-> IF h = "old" THEN "active" ELSE "passive"]
        /\ HookRoles("new", "pre") = [h \in Hosts |-> IF h = "old" THEN "active" ELSE "passive"]
    BY DEF HookRoles
  <2>3. /\ HookRoles("old", "post") = [h \in Hosts |-> IF h = "old" THEN "passive" ELSE "active"]
        /\ HookRoles("new", "post") = [h \in Hosts |-> IF h = "old" THEN "passive" ELSE "active"]
    BY DEF HookRoles
  <2>4. cpc = "preHooks" \/ spc = "preHooks"
          => identity["old"] = "active" /\ identity["new"] = "passive"
    BY <1>1 DEF Places, Untouched, Checking
  <2>5. cpc = "complete" => identity["old"] = "passive" /\ identity["new"] = "active"
    BY <1>1, <2>1 DEF Orderly, AnyFaultInv, Copies, TrueOf, Moved
  <2>6. spc = "post" => identity["old"] = "passive" /\ identity["new"] = "active"
    BY <1>1 DEF Places
  <2> QED
    BY <2>1, <2>2, <2>3, <2>4, <2>5, <2>6
<1>2. Orderly /\ Places => HookRolesTrue
  BY <1>1 DEF HookRolesTrue
<1> QED BY <1>2, OrderInvariant, PlacesInvariant, HistoryImplements, PTL

(* Without mishaps, and whether or not the tower file is synchronised: an   *)
(* identity that nobody has is on its way to one of the hosts.              *)

(* The old host is active until its client reaches the set-identity         *)
(* command, the new one from its own command on.                            *)
StillActive ==
    /\ cpc \in {"signal", "leaderWait", "preHooks", "slotWait", "goPassive"}
         => identity["old"] = "active"
    /\ spc = "post" /\ ~cfg.dryRun => identity["new"] = "active"

(* The new host has the identity for good. *)
Settled == identity["new"] = "active" /\ spc \in {"report", "post"} \cup ServerGone

Nobody == identity["old"] = "passive" /\ ~Settled

(* The signal to roll back is what the client reads next, or after the      *)
(* go-ahead.                                                                *)
Told == IF cpc = "signal" THEN Len(toClient) = 2 /\ toClient[2].rollback
        ELSE toClient # <<>> /\ Head(toClient).rollback

(* Should the client let go, its server takes the identity or the client    *)
(* will be told to take it back.                                            *)
Coming == (link = "up" /\ spc \in {"recvTower", "goActive"}) \/ Settled \/ Told

OnItsWay ==
    ~cfg.dryRun =>
        /\ AskedToProceed \/ cpc \in Preparing => Coming
        /\ Nobody =>
             \/ cpc \in {"readTower", "sendTower", "revert"}
             \/ /\ cpc = "result"
                /\ \/ link = "up" /\ spc = "recvTower" /\ toServer # <<>>
                   \/ link = "up" /\ spc \in {"writeTower", "goActive"}
                   \/ Told

OutcomeInv == Orderly /\ StillActive /\ (mishaps = {} => OnItsWay)

(* The old host lets go only at its client's set-identity command, the new  *)
(* one never after its own.                                                 *)
LEMMA StillActiveKept ==
    ASSUME Orderly, StillActive, "staleGossip" \notin Faults, Next
    PROVE  StillActive'
<1> USE DEF ClientRunning, ClientEnded, world, client, server, stream
<1>0. identity \in [Hosts -> {"active", "passive"}]
  BY DEF Orderly, AnyFaultInv, TypeOK
<1>1. CASE ClientStep
  <2>1. CASE ClientGoPassive \/ ClientRevert
    BY <1>0, <2>1 DEF ClientGoPassive, ClientRevert, CommandSucceeds, CommandFails, StillActive
  <2>2. CASE ClientStep /\ ~ClientGoPassive /\ ~ClientRevert
    BY <2>2 DEF ClientStep, ClientRecvSignal, ClientSignalLost, ClientLeaderWait,
         ClientPreHooks, ClientSlotWait, ClientPrepare, ClientReadTower, ClientSendTower,
         ClientRecvResult, ClientResultLost, StillActive
  <2> QED
    BY <1>1, <2>1, <2>2
<1>2. CASE ServerStep
  <2>1. CASE ServerGoActive \/ ServerRevert
    <3>1. identity'["old"] = identity["old"] /\ spc' # "post" /\ UNCHANGED cpc
      BY <1>0, <2>1 DEF ServerGoActive, ServerRevert, CommandSucceeds, CommandFails
    <3> QED
      BY <3>1 DEF StillActive
  <2>2. CASE ServerReport
    BY <2>2 DEF ServerReport, StillActive, Orderly, AnyFaultInv, Moved
  <2>3. CASE ServerStep /\ ~(ServerGoActive \/ ServerRevert) /\ ~ServerReport
    BY <2>3 DEF ServerStep, ServerAccept, ServerValidate, ServerConfirm, ServerSample,
         ServerPrepareTower, ServerPreHooks, ServerProceed, ServerRecvTower, ServerTowerLost,
         ServerWriteTower, ServerPost, Refuse, StillActive
  <2> QED
    BY <1>2, <2>1, <2>2, <2>3
<1>3. CASE Environment
  BY <1>3 DEF Environment, ClientStart, ClientCrash, ServerRestart, ServerCrash,
       LinkBreak, Vote, GossipMayShow, StillActive
<1> QED
  BY <1>1, <1>2, <1>3 DEF Next

(* A run in which nothing went wrong starts with an active host. *)
LEMMA StartsActive ==
    ASSUME ClientStart, "staleGossip" \notin Faults
    PROVE  OnItsWay'
  BY DEF ClientStart, OnItsWay, Nobody, AskedToProceed, GossipMayShow, Preparing, world

(* The steps of the client, of which none is a mishap. *)
LEMMA ClientOnItsWay ==
    ASSUME Orderly, StillActive, OnItsWay, "dirty" \notin Faults, ClientStep,
           ClientReadTower => cpc' # "ended", ClientRevert => cpc' # "manual"
    PROVE  OnItsWay'
<1> USE DEF ClientEnded, ServerGone, Preparing, Acting, TowerSent, world, client, server, stream
<1> SUFFICES ASSUME ~cfg.dryRun PROVE OnItsWay'
  BY DEF OnItsWay, ClientStep, ClientRecvSignal, ClientSignalLost, ClientLeaderWait,
         ClientPreHooks, ClientSlotWait, ClientPrepare, ClientGoPassive, ClientReadTower,
         ClientSendTower, ClientRecvResult, ClientResultLost, ClientRevert
<1>0. /\ TypeOK /\ Copies /\ Asked /\ Turns /\ Signals
      /\ identity \in [Hosts -> {"active", "passive"}]
      /\ cmsg \in Message /\ toClient \in Seq(Message)
      /\ cfg.rollOld \in BOOLEAN /\ cfg.rollNew \in BOOLEAN
  BY ConfigsAssumption DEF Orderly, AnyFaultInv, TypeOK, ConfigType
<1>1. CASE ClientRecvSignal
  <2>1. /\ cpc = "signal" /\ toClient # <<>> /\ cpc' \in {"leaderWait", "ended"}
        /\ cmsg' = Decoded(cmsg, Head(toClient)) /\ toClient' = Tail(toClient)
        /\ cpc' = "leaderWait" => cmsg'.canProceed
        /\ UNCHANGED <<cfg, identity, spc, link>>
    BY <1>1 DEF ClientRecvSignal
  <2>2. cpc' = "leaderWait" => AskedToProceed
    BY <1>0, <2>1, ReadFacts, DecodedFields DEF Signals, AskedToProceed
  <2>3. Len(toClient) = 2 /\ toClient[2].rollback
          => toClient' # <<>> /\ Head(toClient').rollback
    BY <1>0, <2>1, ReadFacts
  <2>4. identity["old"] = "active"
    BY <2>1 DEF StillActive
  <2>5. cpc' = "leaderWait" => Coming'
    BY <2>1, <2>2, <2>3 DEF OnItsWay, Coming, Settled, Told
  <2> QED
    BY <2>1, <2>4, <2>5 DEF OnItsWay, Nobody, AskedToProceed
<1>2. CASE ClientSignalLost \/ ClientLeaderWait \/ ClientPreHooks \/ ClientSlotWait
  <2>1. /\ cpc \in {"signal", "leaderWait", "preHooks", "slotWait"}
        /\ cpc' \in {"ended"} \cup Preparing /\ cpc' # "signal"
        /\ cpc = "signal" => cpc' = "ended"
        /\ UNCHANGED <<cfg, identity, spc, toClient, link>>
    BY <1>2 DEF ClientSignalLost, ClientLeaderWait, ClientPreHooks, ClientSlotWait,
         ClientPrepare
  <2>2. identity["old"] = "active"
    BY <2>1 DEF StillActive
  <2> QED
    BY <2>1, <2>2 DEF OnItsWay, Nobody, AskedToProceed, Coming, Settled, Told
<1>3. CASE ClientGoPassive
  <2>1. cpc = "goPassive" /\ UNCHANGED <<cfg, spc, toServer, toClient, link>>
    BY <1>3 DEF ClientGoPassive
  <2>2. CASE cpc' = "ended"
    <3>1. identity' = identity /\ identity["old"] = "active"
      BY <1>3, <2>1, <2>2 DEF ClientGoPassive, CommandFails, StillActive
    <3> QED
      BY <2>2, <3>1 DEF OnItsWay, Nobody, AskedToProceed
  <2>3. CASE cpc' # "ended"
    <3>1. /\ identity'["new"] = identity["new"]
          /\ cpc' = IF cmsg.skip THEN "result" ELSE "readTower"
      BY <1>0, <1>3, <2>3 DEF ClientGoPassive, CommandSucceeds
    <3>2. Coming
      BY <2>1 DEF OnItsWay
    <3>3. cpc' = "result" => spc # "recvTower"
      BY <1>0, <3>1 DEF Signals, Turns
    <3>4. (Settled' <=> Settled) /\ (Told' <=> Told)
      BY <2>1, <3>1 DEF Settled, Told
    <3> QED
      BY <2>1, <3>1, <3>2, <3>3, <3>4 DEF OnItsWay, Nobody, Coming, AskedToProceed
  <2> QED
    BY <2>2, <2>3
<1>4. CASE ClientReadTower
  BY <1>4 DEF ClientReadTower, OnItsWay, Nobody, Coming, Settled, Told, AskedToProceed
<1>5. CASE ClientSendTower
  <2>1. /\ cpc = "sendTower" /\ cpc' \in {"result", "critical"}
        /\ UNCHANGED <<cfg, identity, spc, toClient, link>>
        /\ cpc' = "critical" => link # "up"
        /\ cpc' = "result" => toServer' = Sent(toServer, cmsg)
    BY <1>5 DEF ClientSendTower, EncodeMayFail, ToServer
  <2>2. cpc' = "result" /\ link = "up" => toServer' # <<>>
    BY <1>0, <2>1, SentFacts DEF TypeOK
  <2>3. Coming
    BY <2>1 DEF OnItsWay
  <2>4. ~Told
    BY <1>0, <2>1, ReadFacts DEF Turns, Signals, Told
  <2>5. Settled' <=> Settled
    BY <2>1 DEF Settled
  <2> QED
    BY <2>1, <2>2, <2>3, <2>4, <2>5 DEF OnItsWay, Nobody, Coming, AskedToProceed
<1>6. CASE ClientRecvResult
  <2>1. /\ cpc = "result" /\ toClient # <<>>
        /\ cmsg' = Decoded(cmsg, Head(toClient))
        /\ cpc' \in {"revert", "manual", "complete", "ended"}
        /\ cmsg'.rollback /\ cfg.rollOld => cpc' = "revert"
        /\ UNCHANGED <<cfg, identity, spc, link>>
    BY <1>6 DEF ClientRecvResult
  <2>2. CASE Head(toClient).rollback
    <3>1. Head(toClient) \in Message /\ Head(toClient) \in Carried(toClient)
      BY <1>0, <2>1, ReadFacts
    <3>2. cmsg'.rollback
      BY <1>0, <2>1, <2>2, <3>1, DecodedFields
    <3>3. cfg.rollNew /\ cfg.rollOld = cfg.rollNew
      BY <1>0, <2>1, <2>2, <3>1 DEF Asked, Copies, TrueOf, Agreed
    <3> QED
      BY <2>1, <3>2, <3>3 DEF OnItsWay, AskedToProceed
  <2>3. CASE ~Head(toClient).rollback
    <3>1. spc \notin {"recvTower", "writeTower", "goActive"}
      BY <1>0, <2>1 DEF Turns
    <3>2. ~Nobody
      BY <2>1, <2>3, <3>1 DEF OnItsWay, Told
    <3> QED
      BY <2>1, <3>2 DEF OnItsWay, Nobody, Settled, AskedToProceed
  <2> QED
    BY <2>2, <2>3
<1>7. CASE ClientResultLost
  <2>1. /\ cpc = "result" /\ cpc' = "critical" /\ toClient = <<>>
        /\ link # "up" \/ spc \in ServerGone
        /\ UNCHANGED <<cfg, identity, spc>>
    BY <1>7 DEF ClientResultLost, ClientReadFails
  <2>2. ~Nobody
    BY <2>1 DEF OnItsWay, Told
  <2> QED
    BY <2>1, <2>2 DEF OnItsWay, Nobody, Settled, AskedToProceed
<1>8. CASE ClientRevert
  <2>1. cmsg.dry => cfg.dryRun
    BY <1>0 DEF Copies, TrueOf
  <2>2. identity'["old"] = "active" /\ cpc' = "reverted"
    BY <1>0, <1>8, <2>1 DEF ClientRevert, CommandSucceeds
  <2> QED
    BY <2>2 DEF OnItsWay, Nobody, AskedToProceed
<1> QED
  BY <1>1, <1>2, <1>3, <1>4, <1>5, <1>6, <1>7, <1>8 DEF ClientStep

(* The steps of the server, of which none is a mishap. *)
LEMMA ServerOnItsWay ==
    ASSUME Orderly, StillActive, OnItsWay, "dirty" \notin Faults, ServerStep,
           ServerWriteTower => spc' # "closed", ServerGoActive => spc' # "exited"
    PROVE  OnItsWay'
<1> USE DEF ClientEnded, ServerGone, Preparing, Checking, Acting, TowerSent, world, client,
        server, stream
<1> SUFFICES ASSUME ~cfg.dryRun PROVE OnItsWay'
  BY DEF OnItsWay, ServerStep, ServerAccept, ServerValidate, ServerConfirm, ServerSample,
         ServerPrepareTower, ServerPreHooks, ServerProceed, ServerRecvTower, ServerTowerLost,
         ServerWriteTower, ServerGoActive, ServerRevert, ServerReport, ServerPost
<1>0. /\ TypeOK /\ NewSession /\ Moved /\ Turns /\ Signals
      /\ identity \in [Hosts -> {"active", "passive"}]
      /\ smsg \in Message /\ toClient \in Seq(Message)
      /\ cfg.skipTower \in BOOLEAN
  BY ConfigsAssumption DEF Orderly, AnyFaultInv, TypeOK, ConfigType
<1>before. ASSUME cpc \in {"signal"} \cup ClientEnded, spc \in {"listening"} \cup Checking,
                  UNCHANGED <<cfg, identity, cpc>>, AskedToProceed' => Coming'
      PROVE  OnItsWay'
  <2>1. identity["old"] = "active"
    BY <1>0, <1>before DEF OnItsWay, Nobody, Settled, StillActive
  <2> QED
    BY <1>before, <2>1 DEF OnItsWay, Nobody
<1>1. CASE ServerAccept
  <2>1. toClient' = <<>> /\ cpc \in {"signal"} \cup ClientEnded
    BY <1>0, <1>1 DEF ServerAccept, NewSession
  <2> QED
    BY <1>1, <1>before, <2>1 DEF ServerAccept, AskedToProceed
<1>2. CASE ServerValidate \/ ServerConfirm \/ ServerSample \/ ServerPrepareTower
             \/ ServerPreHooks
  <2>1. /\ spc \in Checking /\ UNCHANGED <<cfg, identity, cpc>>
        /\ UNCHANGED toClient \/ toClient' = Sent(toClient, smsg)
    BY <1>2 DEF ServerValidate, ServerConfirm, ServerSample, ServerPrepareTower,
         ServerPreHooks, Refuse, ToClient
  <2>2. /\ toClient = <<>> /\ cpc \in {"signal"} \cup ClientEnded /\ ~smsg.canProceed
        /\ toClient' # <<>> => Head(toClient') = smsg
    BY <1>0, <2>1, SentFacts DEF Turns, Signals
  <2> QED
    BY <1>before, <2>1, <2>2 DEF AskedToProceed
<1>3. CASE ServerProceed
  <2>1. /\ spc = "proceed" /\ UNCHANGED <<cfg, identity, cpc, link>>
        /\ \/ UNCHANGED toClient
           \/ toClient' = Sent(toClient, smsg') /\ spc' \in {"goActive", "recvTower"}
    BY <1>3 DEF ServerProceed, ToClient
  <2>2. toClient = <<>> /\ cpc \in {"signal"} \cup ClientEnded
    BY <1>0, <2>1 DEF Turns
  <2>3. toClient' # <<>> => Coming'
    BY <2>1, <2>2 DEF Sent, Coming
  <2> QED
    BY <1>before, <2>1, <2>2, <2>3 DEF AskedToProceed
<1>4. CASE ServerRecvTower
  <2>1. /\ spc = "recvTower" /\ spc' = "writeTower" /\ toServer # <<>>
        /\ UNCHANGED <<cfg, identity, cpc, toClient, link>>
    BY <1>4 DEF ServerRecvTower
  <2>2. cpc \in {"result"} \cup ClientEnded
    BY <1>0, <2>1 DEF Turns
  <2> QED
    BY <2>1, <2>2 DEF OnItsWay, Nobody, Settled, Told, AskedToProceed
<1>5. CASE ServerTowerLost
  <2>1. /\ spc = "recvTower" /\ spc' = "closed" /\ toServer = <<>>
        /\ link # "up" \/ cpc \in ClientEnded
        /\ UNCHANGED <<cfg, identity, cpc, toClient, link>>
    BY <1>5 DEF ServerTowerLost, ServerReadFails
  <2> QED
    BY <2>1 DEF OnItsWay, Nobody, Settled, Coming, Told, AskedToProceed
<1>6. CASE ServerWriteTower
  <2>1. /\ spc = "writeTower" /\ spc' = "goActive"
        /\ UNCHANGED <<cfg, identity, cpc, toClient, link>>
    BY <1>6 DEF ServerWriteTower
  <2>2. cpc \in {"result"} \cup ClientEnded
    BY <1>0, <2>1 DEF Turns
  <2> QED
    BY <2>1, <2>2 DEF OnItsWay, Nobody, Settled, Told, AskedToProceed
<1>7. CASE ServerGoActive
  <2>1. spc = "goActive" /\ UNCHANGED <<cfg, cpc>> /\ spc' \in {"report", "revert"}
    BY <1>7 DEF ServerGoActive
  <2>2. CASE spc' = "report"
    <3>1. identity'["new"] = "active"
      BY <1>0, <1>7, <2>2 DEF ServerGoActive, CommandSucceeds
    <3> QED
      BY <2>2, <3>1 DEF OnItsWay, Nobody, Coming, Settled
  <2>3. CASE spc' = "revert"
    <3>1. /\ UNCHANGED <<identity, link>>
          /\ smsg' = [smsg EXCEPT !.rollback = TRUE] /\ toClient' = Sent(toClient, smsg')
      BY <1>7, <2>3 DEF ServerGoActive, CommandFails, ToClient
    <3>2. smsg' \in Message /\ smsg'.rollback
      BY <1>0, <3>1 DEF Message
    <3>3. /\ Len(toClient) <= 1 /\ Len(toClient) \in Nat
          /\ cpc \notin {"signal"} \cup ClientEnded => toClient = <<>>
          /\ cpc = "signal" /\ link = "up" => toClient # <<>>
      BY <1>0, <2>1 DEF Turns
    <3>4. /\ toClient # <<>> => toClient' # <<>> /\ Head(toClient') = Head(toClient)
          /\ toClient = <<>> /\ toClient' # <<>> => Head(toClient') = smsg'
          /\ link = "up" => /\ toClient' # <<>> /\ Len(toClient') = Len(toClient) + 1
                            /\ toClient'[Len(toClient) + 1] = smsg'
          /\ link # "up" => toClient' = toClient
      <4>1. link # "up" => Sent(toClient, smsg') = toClient
        BY DEF Sent
      <4> QED BY <1>0, <3>1, <3>2, <4>1, SentFacts
    <3>5. toClient # <<>> => Len(toClient) = 1
      <4>1. toClient # <<>> => Len(toClient) # 0
        BY <1>0, EmptySeq
      <4>2. \A n \in Nat : n <= 1 /\ n # 0 => n = 1
        OBVIOUS
      <4> QED BY <3>3, <4>1, <4>2
    <3>6. ~Told \/ cpc \in ClientEnded
      BY <3>3 DEF Told
    <3>7. AskedToProceed' => AskedToProceed
      <4>1. CASE toClient # <<>>
        BY <2>1, <3>4, <4>1 DEF AskedToProceed
      <4>2. CASE toClient = <<>>
        BY <2>1, <3>3, <3>4, <4>2 DEF AskedToProceed
      <4> QED BY <4>1, <4>2
    <3>8. link = "up" /\ cpc \notin ClientEnded => Told'
      <4>1. CASE link = "up" /\ cpc = "signal"
        BY <2>1, <3>2, <3>3, <3>4, <3>5, <4>1 DEF Told
      <4>2. CASE link = "up" /\ cpc \notin {"signal"} \cup ClientEnded
        BY <2>1, <3>2, <3>3, <3>4, <4>2 DEF Told
      <4> QED BY <4>1, <4>2
    <3>9. AskedToProceed \/ cpc \in Preparing => link = "up" /\ Told'
      BY <2>1, <3>6, <3>8 DEF OnItsWay, Coming, Settled, AskedToProceed
    <3>10. Nobody' => /\ cpc \in {"readTower", "sendTower", "revert", "result"}
                      /\ cpc = "result" => Told'
      BY <2>1, <2>3, <3>1, <3>6, <3>8 DEF OnItsWay, Nobody, Settled
    <3> QED
      BY <2>1, <2>3, <3>1, <3>7, <3>9, <3>10 DEF OnItsWay, Coming
  <2> QED
    BY <2>1, <2>2, <2>3
<1>8. CASE ServerRevert
  <2>1. /\ spc = "revert" /\ spc' = "exited" /\ UNCHANGED <<cfg, cpc, toClient, link>>
        /\ identity'["old"] = identity["old"]
    BY <1>0, <1>8 DEF ServerRevert, CommandSucceeds, CommandFails
  <2> QED
    BY <2>1 DEF OnItsWay, Nobody, Settled, Coming, Told, AskedToProceed
<1>9. CASE ServerReport \/ ServerPost
  <2>1. /\ spc \in {"report", "post"} /\ spc' \in {"post"} \cup ServerGone
        /\ UNCHANGED <<cfg, cpc, identity>>
    BY <1>9 DEF ServerReport, ServerPost
  <2>2. identity["new"] = "active"
    BY <1>0, <2>1 DEF StillActive, Moved
  <2> QED
    BY <2>1, <2>2 DEF OnItsWay, Nobody, Settled, Coming
<1> QED
  BY <1>1, <1>2, <1>3, <1>4, <1>5, <1>6, <1>7, <1>8, <1>9 DEF ServerStep

(* The rest: a crash or a break that is a mishap is not one of these. *)
LEMMA EnvironmentOnItsWay ==
    ASSUME Orderly, OnItsWay, "staleGossip" \notin Faults, Environment,
           LinkBreak \/ ServerCrash => cpc \notin ClientRunning,
           ClientCrash => identity["old"] # "passive"
    PROVE  OnItsWay'
<1> USE DEF ClientRunning, ClientEnded, ServerHandling, ServerGone, Preparing, world, client,
        server, stream, AskedToProceed, Nobody, Settled, Coming, Told
<1>1. CASE ClientStart
  BY <1>1, StartsActive
<1>2. CASE LinkBreak \/ ServerCrash \/ ClientCrash
  BY <1>2 DEF LinkBreak, ServerCrash, ClientCrash, OnItsWay
<1>3. CASE ServerRestart
  BY <1>3 DEF ServerRestart, GossipMayShow, OnItsWay
<1>4. CASE \E h \in Hosts : Vote(h)
  BY <1>4 DEF Vote, OnItsWay
<1> QED
  BY <1>1, <1>2, <1>3, <1>4 DEF Environment

(* A step that is counted as a mishap only when it fails, and did not. *)
LEMMA MishapOnItsWay ==
    ASSUME OutcomeInv, "dirty" \notin Faults, "staleGossip" \notin Faults, MishapStep, mishaps' = {}
    PROVE  OnItsWay'
<1>1. ASSUME NEW kind, NEW happened \in BOOLEAN, Note(kind, happened)
      PROVE  ~happened /\ mishaps = {}
  BY <1>1 DEF Note
<1>2. CASE ClientReadTower /\ Note("read", cpc' = "ended")
  <2>1. cpc' # "ended" /\ OnItsWay
    BY <1>1, <1>2 DEF OutcomeInv
  <2>2. ClientStep /\ ~ClientRevert
    BY <1>2 DEF ClientStep, ClientReadTower, ClientRevert
  <2> QED
    BY <2>1, <2>2, ClientOnItsWay DEF OutcomeInv
<1>3. CASE ClientRevert /\ Note("revertFailed", cpc' = "manual")
  <2>1. cpc' # "manual" /\ OnItsWay
    BY <1>1, <1>3 DEF OutcomeInv
  <2>2. ClientStep /\ ~ClientReadTower
    BY <1>3 DEF ClientStep, ClientReadTower, ClientRevert
  <2> QED
    BY <2>1, <2>2, ClientOnItsWay DEF OutcomeInv
<1>4. CASE ServerWriteTower /\ Note("write", spc' = "closed")
  <2>1. spc' # "closed" /\ OnItsWay
    BY <1>1, <1>4 DEF OutcomeInv
  <2>2. ServerStep /\ ~ServerGoActive
    BY <1>4 DEF ServerStep, ServerWriteTower, ServerGoActive
  <2> QED
    BY <2>1, <2>2, ServerOnItsWay DEF OutcomeInv
<1>5. CASE ServerGoActive /\ Note("noRollback", spc' = "exited")
  <2>1. spc' # "exited" /\ OnItsWay
    BY <1>1, <1>5 DEF OutcomeInv
  <2>2. ServerStep /\ ~ServerWriteTower
    BY <1>5 DEF ServerStep, ServerWriteTower, ServerGoActive
  <2> QED
    BY <2>1, <2>2, ServerOnItsWay DEF OutcomeInv
<1>6. CASE \/ LinkBreak /\ Note("link", cpc \in ClientRunning)
           \/ ServerCrash /\ Note("crash", cpc \in ClientRunning)
  <2>1. cpc \notin ClientRunning /\ mishaps = {}
    BY <1>6 DEF Note
  <2>3. OnItsWay
    BY <2>1 DEF OutcomeInv
  <2>2. Environment /\ ~ClientCrash
    BY <1>6, <2>1 DEF Environment, ClientCrash
  <2> QED
    BY <2>1, <2>2, <2>3, EnvironmentOnItsWay DEF OutcomeInv
<1>7. CASE ClientCrash /\ Note("crash", identity["old"] = "passive")
  <2>1. identity["old"] # "passive" /\ OnItsWay
    BY <1>1, <1>7 DEF OutcomeInv
  <2>2. Environment /\ ~LinkBreak /\ ~ServerCrash
    BY <1>7 DEF Environment, ClientCrash, LinkBreak, ServerCrash, client, server,
         ClientRunning
  <2> QED
    BY <2>1, <2>2, EnvironmentOnItsWay DEF OutcomeInv
<1> QED
  BY <1>2, <1>3, <1>4, <1>5, <1>6, <1>7 DEF MishapStep

(* A step that fails, if it does, in a way that is made good. *)
LEMMA OtherOnItsWay ==
    ASSUME OutcomeInv, OnItsWay, "dirty" \notin Faults, "staleGossip" \notin Faults,
           OtherStep
    PROVE  OnItsWay'
<1>1. CASE \/ ClientRecvSignal \/ ClientSignalLost
           \/ ClientLeaderWait \/ ClientPreHooks \/ ClientSlotWait
           \/ ClientGoPassive \/ ClientSendTower
           \/ ClientRecvResult \/ ClientResultLost
  <2>1. ClientStep
    BY <1>1 DEF ClientStep
  <2>2. ~ClientReadTower /\ ~ClientRevert
    BY <1>1 DEF ClientReadTower, ClientRevert, ClientRecvSignal, ClientSignalLost,
         ClientLeaderWait, ClientPreHooks, ClientSlotWait, ClientPrepare, ClientGoPassive,
         ClientSendTower, ClientRecvResult, ClientResultLost
  <2> QED
    BY <2>1, <2>2, ClientOnItsWay DEF OutcomeInv
<1>2. CASE \/ ServerAccept \/ ServerValidate \/ ServerConfirm \/ ServerSample
           \/ ServerPrepareTower \/ ServerPreHooks \/ ServerProceed
           \/ ServerRecvTower \/ ServerTowerLost
           \/ ServerRevert \/ ServerReport \/ ServerPost
  <2>1. ServerStep
    BY <1>2 DEF ServerStep
  <2>2. ~ServerWriteTower /\ ~ServerGoActive
    BY <1>2 DEF ServerWriteTower, ServerGoActive, ServerAccept, ServerValidate,
         ServerConfirm, ServerSample, ServerPrepareTower, ServerPreHooks, ServerProceed,
         ServerRecvTower, ServerTowerLost, ServerRevert, ServerReport, ServerPost
  <2> QED
    BY <2>1, <2>2, ServerOnItsWay DEF OutcomeInv
<1>3. CASE ServerRestart \/ \E h \in Hosts : Vote(h)
  <2>1. Environment
    BY <1>3 DEF Environment
  <2>2. ~LinkBreak /\ ~ServerCrash /\ ~ClientCrash
    BY <1>3 DEF LinkBreak, ServerCrash, ClientCrash, ServerRestart, Vote, client, server,
         stream, ServerHandling, ClientRunning, OutcomeInv, Orderly, AnyFaultInv, TypeOK
  <2> QED
    BY <2>1, <2>2, EnvironmentOnItsWay DEF OutcomeInv
<1> QED
  BY <1>1, <1>2, <1>3 DEF OtherStep

(* Every step keeps all of it. *)
LEMMA OutcomeNext ==
    ASSUME OutcomeInv, Orderly', "dirty" \notin Faults, "staleGossip" \notin Faults,
           [HistoryNext]_historyVars
    PROVE  OutcomeInv'
<1>1. CASE UNCHANGED historyVars
  BY <1>1 DEF historyVars, OutcomeInv, StillActive, OnItsWay, AskedToProceed, Coming, Nobody,
     Settled, Told
<1>2. CASE HistoryNext
  <2>1. StillActive'
    BY <1>2, HistoryStep, StillActiveKept DEF OutcomeInv
  <2>2. ASSUME mishaps' = {} PROVE OnItsWay'
    <3>1. CASE ClientStart
      BY <3>1, StartsActive
    <3>2. CASE OtherStep /\ UNCHANGED mishaps
      <4>1. OnItsWay
        BY <2>2, <3>2 DEF OutcomeInv
      <4> QED
        BY <3>2, <4>1, OtherOnItsWay
    <3>3. CASE MishapStep
      BY <2>2, <3>3, MishapOnItsWay
    <3> QED
      BY <1>2, <3>1, <3>2, <3>3 DEF HistoryNext
  <2> QED
    BY <2>1, <2>2 DEF OutcomeInv
<1> QED
  BY <1>1, <1>2

(* All of it holds in every behaviour. *)
THEOREM OutcomeInvariant ==
    ASSUME "dirty" \notin Faults, "staleGossip" \notin Faults
    PROVE  HistorySpec => []OutcomeInv
<1>1. HistoryInit => StillActive /\ OnItsWay
  BY DEF HistoryInit, Init, StillActive, OnItsWay, AskedToProceed, Nobody, Preparing
<1>2. ASSUME OutcomeInv, Orderly', [HistoryNext]_historyVars PROVE OutcomeInv'
  BY <1>2, OutcomeNext
<1>3. Orderly /\ StillActive /\ OnItsWay => OutcomeInv
  BY DEF OutcomeInv
<1> QED
  BY <1>1, <1>2, <1>3, OrderInvariant, HistoryImplements, PTL DEF HistorySpec

(* Whatever ends the programs, both validators are passive only after one   *)
(* of the mishaps that no rollback makes good.                              *)
THEOREM StrandedBy ==
    ASSUME "dirty" \notin Faults, "staleGossip" \notin Faults
    PROVE  HistorySpec => []StrandedOnlyByMishap
<1>1. ASSUME OutcomeInv, cpc \in ClientEnded, mishaps = {}
      PROVE  identity["old"] = "active" \/ identity["new"] = "active"
  <2>1. CASE cfg.dryRun
    BY <1>1, <2>1 DEF OutcomeInv, Orderly, AnyFaultInv, Moved
  <2>2. CASE ~cfg.dryRun
    <3>1. ~Nobody
      BY <1>1, <2>2 DEF OutcomeInv, OnItsWay, ClientEnded
    <3> QED
      BY <1>1, <3>1 DEF Nobody, Settled, OutcomeInv, Orderly, AnyFaultInv, TypeOK
  <2> QED BY <2>1, <2>2
<1>2. OutcomeInv => StrandedOnlyByMishap
  BY <1>1 DEF StrandedOnlyByMishap
<1> QED
  BY <1>2, OutcomeInvariant, PTL
===============================================================================
