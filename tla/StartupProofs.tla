----------------------------- MODULE StartupProofs -----------------------------
(***************************************************************************)
(* What holds before the two programs speak to each other, for any options, *)
(* and any number of moves of the identity and of runs of the programs.     *)
(***************************************************************************)
EXTENDS Startup, LookupProofs, FiniteSetTheorems

(* One validator holds the active identity, the other its own. *)
OneActive ==
    /\ identity \in [Hosts -> Keys]
    /\ \E a \in Hosts : \A h \in Hosts : identity[h] = Active <=> h = a

WorldType ==
    /\ OneActive
    /\ gossip \in Seq(Nodes)
    /\ tower \in [Hosts -> {"none", "empty", "full"}]
    /\ held \subseteq Hosts
    /\ moves \in 0 .. MaxMoves /\ runs \in 0 .. MaxRuns

(* A program at the host h: its node is one of that host. *)
Programs(h) ==
    {p \in ProgramType : p.pc \notin {"none", "configure"} =>
                            p.node # NotFound /\ p.node.ip = h}

ProgramsType ==
    program \in [Hosts -> ProgramType] /\ \A h \in Hosts : program[h] \in Programs(h)

(* From the deletion on, the tower file stays away for as long as the       *)
(* identity does; and while a program runs, "held" knows of it.             *)
NoOldTower ==
    \A h \in Hosts :
        /\ program[h].pc \in {"serve", "listening"} /\ h \notin held => tower[h] = "none"
        /\ program[h].pc # "none" /\ identity[h] = Active => h \in held

StartupInv == WorldType /\ ProgramsType /\ NoOldTower
-------------------------------------------------------------------------------
LEMMA StartupStart == Init => StartupInv
<1> SUFFICES ASSUME Init PROVE StartupInv
  OBVIOUS
<1>1. OneActive
  <2>1. PICK a \in Hosts : identity = [h \in Hosts |-> IF h = a THEN Active ELSE h]
    BY DEF Init
  <2> QED BY <2>1, HostsAssumption DEF OneActive, Keys
<1>2. gossip \in Seq(Nodes)
  <2>1. gossip \in [1 .. 2 -> Nodes]
    BY HostsAssumption DEF Init
  <2>2. \A n \in Nat : [1 .. n -> Nodes] \subseteq Seq(Nodes)
    OBVIOUS
  <2> QED BY <2>1, <2>2
<1>3. WorldType
  BY <1>1, <1>2, BoundsAssumption DEF Init, WorldType
<1>4. \A h \in Hosts : program[h] = [pc |-> "none"]
  BY DEF Init, NoProgram
<1>5. ProgramsType
  BY <1>4 DEF Init, NoProgram, ProgramsType, Programs, ProgramType
<1>6. NoOldTower
  BY <1>4 DEF NoOldTower
<1> QED BY <1>3, <1>5, <1>6 DEF StartupInv

(* A program that runs is a record with these fields. *)
LEMMA RunningProgram ==
    ASSUME NEW p \in ProgramType, p.pc # "none"
    PROVE  /\ p = [pc |-> p.pc, node |-> p.node, peer |-> p.peer, opts |-> p.opts]
           /\ p.node \in Nodes \union {NotFound} /\ p.peer \in PeerNames \union {Unset}
           /\ p.opts \in Options
BY DEF ProgramType

(* A step of the program at h alone. *)
LEMMA ProgramKeeps ==
    ASSUME StartupInv, NEW h \in Hosts, program[h].pc # "none", unchangedWorld,
           NEW p \in Programs(h), program' = [program EXCEPT ![h] = p],
           tower' = tower \/ tower' = [tower EXCEPT ![h] = "none"],
           p.pc \in {"serve", "listening"} =>
              tower'[h] = "none" \/ program[h].pc \in {"serve", "listening"}
    PROVE  StartupInv'
<1>1. UNCHANGED <<identity, gossip, held, moves, runs>>
  BY DEF unchangedWorld
<1>2. /\ program \in [Hosts -> ProgramType] /\ tower \in [Hosts -> {"none", "empty", "full"}]
      /\ p \in ProgramType
  BY DEF StartupInv, WorldType, ProgramsType, Programs
<1>3. /\ program'[h] = p /\ \A g \in Hosts \ {h} : program'[g] = program[g]
      /\ \A g \in Hosts \ {h} : tower'[g] = tower[g]
      /\ tower'[h] \in {tower[h], "none"}
  BY <1>2
<1>4. WorldType'
  BY <1>1, <1>2 DEF StartupInv, WorldType, OneActive, Keys
<1>5. ProgramsType'
  BY <1>2, <1>3 DEF StartupInv, ProgramsType, Programs
<1>6. NoOldTower'
  BY <1>1, <1>2, <1>3 DEF StartupInv, NoOldTower
<1> QED BY <1>4, <1>5, <1>6 DEF StartupInv

LEMMA EndKeeps ==
    ASSUME StartupInv, NEW h \in Hosts, program[h].pc # "none", unchangedWorld,
           UNCHANGED tower, End(h)
    PROVE  StartupInv'
<1>1. NoProgram \in Programs(h) /\ NoProgram.pc = "none"
  BY DEF NoProgram, Programs, ProgramType
<1> QED BY <1>1, ProgramKeeps DEF End

Steps == {"configure", "health", "dispatch", "peer", "connecting", "connected",
          "tower", "ask", "delete", "serve", "listening"}

LEMMA GotoKeeps ==
    ASSUME StartupInv, NEW h \in Hosts, program[h].pc \notin {"none", "configure"},
           unchangedWorld, NEW pc \in Steps \ {"configure"}, Goto(h, pc),
           tower' = tower \/ tower' = [tower EXCEPT ![h] = "none"],
           pc \in {"serve", "listening"} =>
              tower'[h] = "none" \/ program[h].pc \in {"serve", "listening"}
    PROVE  StartupInv'
<1> DEFINE p == [program[h] EXCEPT !.pc = pc]
<1>1. program[h] \in ProgramType /\ program[h].node # NotFound /\ program[h].node.ip = h
  BY DEF StartupInv, ProgramsType, Programs
<1>2. p = [pc |-> pc, node |-> program[h].node, peer |-> program[h].peer,
           opts |-> program[h].opts]
  BY <1>1, RunningProgram
<1>3. p \in Programs(h) /\ p.pc = pc
  BY <1>1, <1>2, RunningProgram DEF Programs, ProgramType, Steps
<1>4. program' = [program EXCEPT ![h] = p]
  BY DEF Goto
<1> HIDE DEF p
<1> QED BY <1>3, <1>4, ProgramKeeps
-------------------------------------------------------------------------------
LEMMA MoveKeeps ==
    ASSUME StartupInv, NEW g \in Hosts, NEW h \in Hosts, Move(g, h)
    PROVE  StartupInv'
<1>1. /\ moves < MaxMoves /\ g # h /\ identity[g] = Active
      /\ identity' = [identity EXCEPT ![g] = g, ![h] = Active]
      /\ tower' = [tower EXCEPT ![h] = "full"]
      /\ held' = held \union {h} /\ moves' = moves + 1
      /\ UNCHANGED <<gossip, program, runs>>
  BY DEF Move
<1>2. /\ identity \in [Hosts -> Keys] /\ tower \in [Hosts -> {"none", "empty", "full"}]
  BY DEF StartupInv, WorldType, OneActive
<1>3. \A k \in Hosts : k # g => identity[k] # Active
  BY <1>1 DEF StartupInv, WorldType, OneActive
<1>4. \A k \in Hosts : identity'[k] = IF k = h THEN Active ELSE IF k = g THEN g ELSE identity[k]
  BY <1>1, <1>2
<1>5. OneActive'
  <2>1. identity' \in [Hosts -> Keys]
    BY <1>1, <1>2 DEF Keys
  <2>2. \A k \in Hosts : identity'[k] = Active <=> k = h
    BY <1>3, <1>4, HostsAssumption
  <2> QED BY <2>1, <2>2 DEF OneActive
<1>6. WorldType'
  BY <1>1, <1>2, <1>5, BoundsAssumption DEF StartupInv, WorldType
<1>7. ProgramsType'
  BY <1>1 DEF StartupInv, ProgramsType, Programs
<1>8. NoOldTower'
  <2>1. \A k \in Hosts : k # h => tower'[k] = tower[k] /\ (identity'[k] = Active => identity[k] = Active)
    BY <1>1, <1>2, <1>3, <1>4, HostsAssumption
  <2> QED BY <1>1, <2>1 DEF StartupInv, NoOldTower
<1> QED BY <1>6, <1>7, <1>8 DEF StartupInv

(* The lists change around what the programs have read of them. *)
LEMMA GossipKeeps ==
    ASSUME StartupInv, gossip' \in Seq(Nodes),
           UNCHANGED <<identity, tower, program, held, moves, runs>>
    PROVE  StartupInv'
BY DEF StartupInv, WorldType, OneActive, ProgramsType, Programs, NoOldTower

LEMMA PublishKeeps ==
    ASSUME StartupInv, NEW h \in Hosts, Publish(h)
    PROVE  StartupInv'
<1>1. Node(h) \in Nodes /\ gossip \in Seq(Nodes)
  BY DEF StartupInv, WorldType, OneActive, Node, Nodes
<1>2. gossip' \in {<<Node(h)>> \o gossip, Append(gossip, Node(h))}
  BY DEF Publish
<1>3. <<Node(h)>> \o gossip \in Seq(Nodes) /\ Append(gossip, Node(h)) \in Seq(Nodes)
  BY <1>1, AppendElements, Zenon
<1>4. gossip' \in Seq(Nodes)
  BY <1>2, <1>3, Zenon
<1> QED BY <1>4, GossipKeeps DEF Publish

LEMMA ExpireKeeps == ASSUME StartupInv, Expire PROVE StartupInv'
<1>1. gossip \in Seq(Nodes)
  BY DEF StartupInv, WorldType
<1>2. PICK i \in DOMAIN gossip : gossip' = RemoveAt(gossip, i)
  BY DEF Expire
<1>3. gossip' \in Seq(Nodes)
  BY <1>1, <1>2, RemoveElements
<1> QED BY <1>3, GossipKeeps DEF Expire

LEMMA SaveTowerKeeps ==
    ASSUME StartupInv, NEW h \in Hosts, SaveTower(h)
    PROVE  StartupInv'
<1>1. /\ identity[h] = Active /\ tower' = [tower EXCEPT ![h] = "full"]
      /\ UNCHANGED <<identity, gossip, program, held, moves, runs>>
  BY DEF SaveTower
<1>2. tower \in [Hosts -> {"none", "empty", "full"}]
  BY DEF StartupInv, WorldType
<1>3. WorldType' /\ ProgramsType'
  BY <1>1, <1>2 DEF StartupInv, WorldType, OneActive, ProgramsType, Programs
<1>4. NoOldTower'
  <2>1. \A k \in Hosts : k # h => tower'[k] = tower[k]
    BY <1>1, <1>2
  <2> QED BY <1>1, <2>1 DEF StartupInv, NoOldTower
<1> QED BY <1>3, <1>4 DEF StartupInv

(* A program begins: whether its host holds the identity is known. *)
LEMMA RunKeeps ==
    ASSUME StartupInv, NEW h \in Hosts, NEW o \in Options, Run(h, o)
    PROVE  StartupInv'
<1>1. /\ runs < MaxRuns /\ program' = [program EXCEPT ![h] = Running(o)]
      /\ held' = IF identity[h] = Active THEN held \union {h} ELSE held \ {h}
      /\ runs' = runs + 1
      /\ UNCHANGED <<identity, gossip, tower, moves>>
  BY DEF Run
<1>2. /\ Running(o) \in Programs(h) /\ Running(o).pc = "configure"
  BY DEF Running, Programs, ProgramType
<1>3. program \in [Hosts -> ProgramType] /\ Running(o) \in ProgramType
  BY <1>2 DEF StartupInv, ProgramsType, Programs
<1>4. program'[h] = Running(o) /\ \A g \in Hosts \ {h} : program'[g] = program[g]
  BY <1>1, <1>3
<1>5. WorldType'
  BY <1>1, BoundsAssumption DEF StartupInv, WorldType, OneActive
<1>6. ProgramsType'
  BY <1>1, <1>2, <1>3, <1>4 DEF StartupInv, ProgramsType, Programs
<1>7. NoOldTower'
  BY <1>1, <1>2, <1>4 DEF StartupInv, NoOldTower
<1> QED BY <1>5, <1>6, <1>7 DEF StartupInv
-------------------------------------------------------------------------------
(* The node a program takes for its own is one that gossip lists at its     *)
(* host's address.                                                          *)
LEMMA ConfigureKeeps ==
    ASSUME StartupInv, NEW h \in Hosts, configureGossipNode(h)
    PROVE  StartupInv'
<1>1. program[h].pc = "configure" /\ unchangedWorld /\ UNCHANGED tower
  BY DEF configureGossipNode, At
<1>2. PICK local \in Answers, cluster \in Answers :
         LET node == nodeFromIP(local, cluster, h)
             next == IF program[h].opts.noWaitForHealthy THEN "dispatch" ELSE "health"
         IN  IF node = NotFound THEN End(h)
             ELSE program' = [program EXCEPT ![h].node = node, ![h].pc = next]
  BY DEF configureGossipNode
<1> DEFINE node == nodeFromIP(local, cluster, h)
           next == IF program[h].opts.noWaitForHealthy THEN "dispatch" ELSE "health"
<1>3. CASE node = NotFound
  BY <1>1, <1>2, <1>3, EndKeeps
<1>4. CASE node # NotFound
  <2>1. \A answer \in Answers : Listed(answer) \in Seq(Nodes)
    <3>1. <<>> \in Seq(Nodes) /\ gossip \in Seq(Nodes)
      BY DEF StartupInv, WorldType
    <3> QED BY <3>1 DEF Answers, Listed
  <2>2. node \in Nodes /\ node.ip = h
    <3>1. PICK answer \in {local, cluster} : Shows(Listed(answer), node, h)
      BY <1>4, <2>1, NodeFromIPListed
    <3> QED BY <2>1, <3>1 DEF Shows, Contains
  <2> DEFINE q == [program[h] EXCEPT !.node = node]  p == [q EXCEPT !.pc = next]
  <2>3. program' = [program EXCEPT ![h] = p]
    BY <1>2, <1>4
  <2> HIDE DEF node
  <2>4. program[h] \in ProgramType
    BY DEF StartupInv, ProgramsType
  <2>5. next \in {"dispatch", "health"}
    OBVIOUS
  <2> HIDE DEF next
  <2>6. p = [pc |-> next, node |-> node, peer |-> program[h].peer, opts |-> program[h].opts]
    <3>1. q = [pc |-> "configure", node |-> node, peer |-> program[h].peer,
               opts |-> program[h].opts]
      BY <1>1, <2>4, RunningProgram
    <3> HIDE DEF q
    <3> QED BY <3>1
  <2>7. p \in Programs(h) /\ p.pc = next
    BY <1>1, <1>4, <2>2, <2>4, <2>5, <2>6, RunningProgram DEF Programs, ProgramType
  <2> HIDE DEF p
  <2> QED BY <1>1, <2>3, <2>5, <2>7, ProgramKeeps
<1> QED BY <1>3, <1>4

LEMMA SelectKeeps ==
    ASSUME StartupInv, NEW h \in Hosts, selectPassivePeer(h)
    PROVE  StartupInv'
<1>1. program[h].pc = "peer" /\ unchangedWorld /\ UNCHANGED tower
  BY DEF selectPassivePeer, At
<1>2. CASE End(h)
  BY <1>1, <1>2, EndKeeps
<1>3. ASSUME NEW peer \in PeerNames,
             program' = [program EXCEPT ![h].peer = peer, ![h].pc = "connecting"]
      PROVE  StartupInv'
  <2> DEFINE q == [program[h] EXCEPT !.peer = peer]  p == [q EXCEPT !.pc = "connecting"]
  <2>1. program[h] \in ProgramType /\ program[h].node # NotFound /\ program[h].node.ip = h
    BY <1>1 DEF StartupInv, ProgramsType, Programs
  <2>2. p = [pc |-> "connecting", node |-> program[h].node, peer |-> peer,
             opts |-> program[h].opts]
    <3>1. q = [pc |-> "peer", node |-> program[h].node, peer |-> peer,
               opts |-> program[h].opts]
      BY <1>1, <2>1, RunningProgram
    <3> HIDE DEF q
    <3> QED BY <3>1
  <2>3. p \in Programs(h) /\ p.pc = "connecting"
    BY <1>1, <2>1, <2>2, RunningProgram DEF Programs, ProgramType
  <2>4. program' = [program EXCEPT ![h] = p]
    BY <1>3
  <2> HIDE DEF p
  <2> QED BY <1>1, <2>3, <2>4, ProgramKeeps
<1>4. \A p \in PeersSelected(program[h].opts.toPeer, h) : p \in PeerNames
  BY DEF PeersSelected
<1> QED BY <1>2, <1>3, <1>4 DEF selectPassivePeer

(* The other steps only go on, or end; one of them removes the tower file.  *)
LEMMA GoesOnKeeps ==
    ASSUME StartupInv, NEW h \in Hosts,
           \/ waitUntilHealthy(h) \/ makePassive(h) \/ connectToServer(h)
           \/ checkActivePeer(h) \/ checkTowerFile(h) \/ confirm(h)
           \/ removeTowerFile(h) \/ StartServer(h)
    PROVE  StartupInv'
<1>1. CASE waitUntilHealthy(h)
  BY <1>1, GotoKeeps DEF waitUntilHealthy, At, Steps
<1>2. CASE makePassive(h)
  BY <1>2, GotoKeeps, EndKeeps DEF makePassive, At, Steps
<1>3. CASE connectToServer(h)
  BY <1>3, GotoKeeps, EndKeeps DEF connectToServer, At, Steps
<1>4. CASE checkActivePeer(h)
  BY <1>4, GotoKeeps, EndKeeps DEF checkActivePeer, At, Steps
<1>5. CASE checkTowerFile(h)
  BY <1>5, GotoKeeps DEF checkTowerFile, At, Steps
<1>6. CASE confirm(h)
  BY <1>6, GotoKeeps, EndKeeps DEF confirm, At, Steps
<1>7. CASE removeTowerFile(h)
  <2>1. program[h].pc = "delete" /\ unchangedWorld
    BY <1>7 DEF removeTowerFile, At
  <2>2. CASE End(h) /\ UNCHANGED tower
    BY <2>1, <2>2, EndKeeps
  <2>3. CASE Goto(h, "serve") /\ tower' = [tower EXCEPT ![h] = "none"]
    <3>1. tower'[h] = "none"
      BY <2>3 DEF StartupInv, WorldType
    <3> QED BY <2>1, <2>3, <3>1, GotoKeeps DEF Steps
  <2> QED BY <1>7, <2>2, <2>3 DEF removeTowerFile
<1>8. CASE StartServer(h)
  BY <1>8, GotoKeeps, EndKeeps DEF StartServer, At, Steps
<1> QED BY <1>1, <1>2, <1>3, <1>4, <1>5, <1>6, <1>7, <1>8

LEMMA StartupInvariant == Spec => []StartupInv
<1>1. StartupInv /\ [Next]_vars => StartupInv'
  <2> SUFFICES ASSUME StartupInv, [Next]_vars PROVE StartupInv'
    OBVIOUS
  <2>1. CASE \E g, h \in Hosts : Move(g, h)
    BY <2>1, MoveKeeps
  <2>2. CASE Expire
    BY <2>2, ExpireKeeps
  <2>3. ASSUME NEW h \in Hosts,
               Publish(h) \/ SaveTower(h) \/ \E o \in Options : Run(h, o)
        PROVE  StartupInv'
    BY <2>3, PublishKeeps, SaveTowerKeeps, RunKeeps
  <2>4. ASSUME NEW h \in Hosts, ProgramStep(h) PROVE StartupInv'
    BY <2>4, ConfigureKeeps, SelectKeeps, GoesOnKeeps DEF ProgramStep
  <2>5. CASE UNCHANGED vars
    BY <2>5 DEF vars, StartupInv, WorldType, OneActive, ProgramsType, Programs, NoOldTower
  <2> QED BY <2>1, <2>2, <2>3, <2>4, <2>5 DEF Next
<1> QED BY <1>1, StartupStart, PTL DEF Spec

(* One validator holds the active identity; and a program takes its role    *)
(* from a node at its own host's address, or does not go on                 *)
(* (validator.go's configureGossipNode), whatever gossip lists and in       *)
(* whatever order.                                                          *)
THEOREM StartupTypeCorrect == Spec => []TypeOK
<1>1. StartupInv => TypeOK
  <2> SUFFICES ASSUME StartupInv PROVE TypeOK
    OBVIOUS
  <2>1. Cardinality({h \in Hosts : identity[h] = Active}) = 1
    <3>1. PICK a \in Hosts : \A h \in Hosts : identity[h] = Active <=> h = a
      BY DEF StartupInv, WorldType, OneActive
    <3>2. {h \in Hosts : identity[h] = Active} = {a}
      BY <3>1
    <3> QED BY <3>2, FS_Singleton
  <2>2. \A h \in Hosts : program[h].pc \notin {"none", "configure"} =>
           program[h].node # NotFound /\ program[h].node.ip = h
    BY DEF StartupInv, ProgramsType, Programs
  <2> QED BY <2>1, <2>2 DEF StartupInv, WorldType, OneActive, ProgramsType, TypeOK
<1> QED BY <1>1, StartupInvariant, PTL

(* validator.go:749-778: whatever the flags and the answers of the          *)
(* operator, the old tower file is gone before the server listens, and only *)
(* the active identity brings another.                                      *)
THEOREM OldTowerIsGone == Spec => []ListensWithoutTower
<1>1. StartupInv => ListensWithoutTower
  BY DEF StartupInv, NoOldTower, ListensWithoutTower, At
<1> QED BY <1>1, StartupInvariant, PTL
===============================================================================
