------------------------------- MODULE Startup -------------------------------
(***************************************************************************)
(* What a run of the program does before it speaks to its peer             *)
(* (internal/validator/validator.go): it looks its own node up in gossip,  *)
(* waits until the local validator is healthy, and takes the active node's *)
(* path (tower check, choice of a peer, connection) or the passive node's  *)
(* (active peer check, tower deletion, server) by the role read at first.  *)
(* Every step of the two hosts' programs interleaves with what happens     *)
(* outside: identities move, gossip follows late, operators answer.        *)
(***************************************************************************)
EXTENDS Naturals, FiniteSets, GossipLookup

CONSTANTS
    Hosts,
    Options,            \* the flags and settings a program may be run with
    MaxMoves,           \* bound on moves of the active identity
    MaxRuns             \* bound on runs of the program, over the hosts

VARIABLES
    identity,   \* the identity each validator runs with
    gossip,     \* the nodes gossip lists, in the order it lists them
    tower,      \* each host's tower file
    program,    \* each host's program
    held,       \* hosts that held the active identity since their program began
    moves, runs

vars == <<identity, gossip, tower, program, held, moves, runs>>
-------------------------------------------------------------------------------
Active == "active"
(* The passive identity of a host is its own: the host stands for it. *)
Keys == Hosts \union {Active}
Node(h) == [ip |-> h, key |-> identity[h]]
Nodes == [ip : Hosts, key : Keys]

Other(h) == CHOOSE g \in Hosts : g # h

(* Two peers are declared: the other host, and another port of it. *)
PeerNames == {"backup", "spare"}
Unset == "unset"
(* "wire" is the WireProtocolVersion of the program that is run.            *)
OptionType == [yes : BOOLEAN, autoEmpty : BOOLEAN, noWaitForHealthy : BOOLEAN,
               wire : {"this", "other"},
               toPeer : PeerNames \union Hosts \union {Unset, "unknown"}]

NoProgram == [pc |-> "none"]
Running(o) == [pc |-> "configure", node |-> NotFound, peer |-> Unset, opts |-> o]

At(h, pc) == program[h].pc = pc
Goto(h, pc) == program' = [program EXCEPT ![h].pc = pc]
End(h) == program' = [program EXCEPT ![h] = NoProgram]

(* IsActive looks at the node found when the program began. *)
IsActive(h) == program[h].node.key = Active

Answers == {Failed, gossip}

Init ==
    /\ \E a \in Hosts :
          identity = [h \in Hosts |-> IF h = a THEN Active ELSE h]
    /\ gossip \in {s \in [1..Cardinality(Hosts) -> Nodes] :
                     \A h \in Hosts : \E i \in DOMAIN s : s[i] = Node(h)}
    /\ tower \in {t \in [Hosts -> {"none", "empty", "full"}] :
                     \A h \in Hosts : identity[h] = Active => t[h] = "full"}
    /\ program = [h \in Hosts |-> NoProgram]
    /\ held = {}
    /\ moves = 0 /\ runs = 0
-------------------------------------------------------------------------------
(* Around the program.                                                     *)

(* The active identity moves to another host, with its tower. *)
Move(g, h) ==
    /\ moves < MaxMoves
    /\ g # h /\ identity[g] = Active
    /\ identity' = [identity EXCEPT ![g] = g, ![h] = Active]
    /\ tower' = [tower EXCEPT ![h] = "full"]
    /\ held' = held \union {h}
    /\ moves' = moves + 1
    /\ UNCHANGED <<gossip, program, runs>>

(* A list comes to hold a validator's node of now, before or after others. *)
Publish(h) ==
    /\ \A i \in DOMAIN gossip : gossip[i] # Node(h)
    /\ gossip' \in {<<Node(h)>> \o gossip, Append(gossip, Node(h))}
    /\ UNCHANGED <<identity, tower, program, held, moves, runs>>

(* ... and drops the node of an identity that a host has left. *)
Expire ==
    /\ \E i \in DOMAIN gossip :
          /\ gossip[i].key # identity[gossip[i].ip]
          /\ gossip' = RemoveAt(gossip, i)
    /\ UNCHANGED <<identity, tower, program, held, moves, runs>>

(* A validator that votes keeps its tower on disk. *)
SaveTower(h) ==
    /\ identity[h] = Active /\ tower[h] # "full"
    /\ tower' = [tower EXCEPT ![h] = "full"]
    /\ UNCHANGED <<identity, gossip, program, held, moves, runs>>
-------------------------------------------------------------------------------
(* The program.                                                            *)
unchangedWorld == UNCHANGED <<identity, gossip, held, moves, runs>>

Run(h, o) ==
    /\ runs < MaxRuns
    /\ At(h, "none")
    /\ program' = [program EXCEPT ![h] = Running(o)]
    /\ held' = IF identity[h] = Active THEN held \union {h} ELSE held \ {h}
    /\ runs' = runs + 1
    /\ UNCHANGED <<identity, gossip, tower, moves>>

(* Mutant: a node that gossip does not list is not noticed. *)
configureGossipNodeUnchecked(h) ==
    /\ At(h, "configure")
    /\ \E local, cluster \in Answers :
          program' = [program EXCEPT ![h].node = nodeFromIP(local, cluster, h),
                                     ![h].pc = "health"]
    /\ unchangedWorld /\ UNCHANGED tower

(* The role is whatever gossip lists first at this host's address. *)
configureGossipNode(h) ==
    /\ At(h, "configure")
    /\ \E local, cluster \in Answers :
          LET node == nodeFromIP(local, cluster, h)
              next == IF program[h].opts.noWaitForHealthy
                      THEN "dispatch" ELSE "health"
          IN  IF node = NotFound THEN End(h)
              ELSE program' = [program EXCEPT ![h].node = node, ![h].pc = next]
    /\ unchangedWorld /\ UNCHANGED tower

(* Polled for as long as it takes: the step is the poll that finds it so. *)
waitUntilHealthy(h) ==
    /\ At(h, "health")
    /\ Goto(h, "dispatch")
    /\ unchangedWorld /\ UNCHANGED tower

makePassive(h) ==
    /\ At(h, "dispatch") /\ IsActive(h)
    /\ IF tower[h] = "full" THEN Goto(h, "peer") ELSE End(h)
    /\ unchangedWorld /\ UNCHANGED tower

(* --to-peer is a name if there is one, else the address of a peer: of two *)
(* with one address either. Without it the operator selects, or leaves.    *)
PeersSelected(toPeer, h) ==
    CASE toPeer \in PeerNames -> {toPeer}
      [] toPeer = Other(h) \/ toPeer = Unset -> PeerNames
      [] OTHER -> {}

selectPassivePeer(h) ==
    /\ At(h, "peer")
    /\ LET toPeer == program[h].opts.toPeer
           peers == PeersSelected(toPeer, h)
       IN  \/ \E p \in peers :
                 program' = [program EXCEPT ![h].peer = p, ![h].pc = "connecting"]
           \/ (peers = {} \/ toPeer = Unset) /\ End(h)
    /\ unchangedWorld /\ UNCHANGED tower

ServerListens(h) ==
    program[h].peer = "backup" /\ program[Other(h)].pc = "listening"

(* Both offer one protocol name, which holds the wire version. *)
SameWire(h) == program[h].opts.wire = program[Other(h)].opts.wire

(* Mutant: the first failed attempt ends the program. *)
connectOnce(h) ==
    /\ At(h, "connecting")
    /\ IF ServerListens(h) /\ SameWire(h) THEN Goto(h, "connected") ELSE End(h)
    /\ unchangedWorld /\ UNCHANGED tower

(* An attempt that fails is retried every half second, without a limit; but *)
(* a server that offers no protocol of the client's ends it (log.Fatal).    *)
connectToServer(h) ==
    /\ At(h, "connecting") /\ ServerListens(h)
    /\ IF SameWire(h) THEN Goto(h, "connected") ELSE End(h)
    /\ unchangedWorld /\ UNCHANGED tower

(* makeActive up to the gossip check: an active peer must be listed. *)
checkActivePeer(h) ==
    /\ At(h, "dispatch") /\ ~IsActive(h)
    /\ \E local, cluster \in Answers :
          IF gossipNodeFromPubkey(local, cluster, Active) = NotFound
          THEN End(h) ELSE Goto(h, "tower")
    /\ unchangedWorld /\ UNCHANGED tower

(* A tower file is deleted without a question if the configuration or      *)
(* --yes says so; else the operator is asked, and may answer no.           *)
DeletesUnasked(h) == program[h].opts.autoEmpty \/ program[h].opts.yes

(* Mutant: --yes skips the question and the deletion with it. *)
checkTowerFileSkipped(h) ==
    /\ At(h, "tower")
    /\ Goto(h, CASE tower[h] = "none" \/ program[h].opts.yes -> "serve"
                 [] program[h].opts.autoEmpty -> "delete"
                 [] OTHER -> "ask")
    /\ unchangedWorld /\ UNCHANGED tower

checkTowerFile(h) ==
    /\ At(h, "tower")
    /\ Goto(h, CASE tower[h] = "none" -> "serve"
                 [] DeletesUnasked(h) -> "delete"
                 [] OTHER -> "ask")
    /\ unchangedWorld /\ UNCHANGED tower

confirm(h) ==
    /\ At(h, "ask")
    /\ Goto(h, "delete") \/ End(h)
    /\ unchangedWorld /\ UNCHANGED tower

(* The removal fails where the file cannot be removed. *)
removeTowerFile(h) ==
    /\ At(h, "delete")
    /\ \/ Goto(h, "serve") /\ tower' = [tower EXCEPT ![h] = "none"]
       \/ End(h) /\ UNCHANGED tower
    /\ unchangedWorld

(* The error of Start, a port in use say, is dropped: the program just ends. *)
StartServer(h) ==
    /\ At(h, "serve")
    /\ Goto(h, "listening") \/ End(h)
    /\ unchangedWorld /\ UNCHANGED tower
-------------------------------------------------------------------------------
ProgramStep(h) ==
    \/ configureGossipNode(h)
    \/ waitUntilHealthy(h)
    \/ makePassive(h)
    \/ selectPassivePeer(h)
    \/ connectToServer(h)
    \/ checkActivePeer(h)
    \/ checkTowerFile(h)
    \/ confirm(h)
    \/ removeTowerFile(h)
    \/ StartServer(h)

Next ==
    \/ \E g, h \in Hosts : Move(g, h)
    \/ Expire
    \/ \E h \in Hosts :
          \/ Publish(h)
          \/ SaveTower(h)
          \/ \E o \in Options : Run(h, o)
          \/ ProgramStep(h)

Spec == Init /\ [][Next]_vars

(* The program polls and retries for as long as it runs, and the validator  *)
(* is healthy at some poll. A prompt need not be answered.                 *)
FairSpec ==
    /\ Spec
    /\ \A h \in Hosts : WF_vars(ProgramStep(h) /\ ~At(h, "ask") /\ ~At(h, "peer"))
-------------------------------------------------------------------------------
ASSUME OptionsAssumption == Options \subseteq OptionType
ASSUME BoundsAssumption == MaxMoves \in Nat /\ MaxRuns \in Nat
ASSUME HostsAssumption == Cardinality(Hosts) = 2 /\ Active \notin Hosts

ProgramType ==
    [pc : {"none"}] \union
    [pc : {"configure", "health", "dispatch", "peer", "connecting", "connected",
           "tower", "ask", "delete", "serve", "listening"},
     node : Nodes \union {NotFound},
     peer : PeerNames \union {Unset},
     opts : Options]

(* The state has its type: one validator holds the active identity, and a  *)
(* program is past "configure" only with a node of its own address.        *)
TypeOK ==
    /\ identity \in [Hosts -> Keys]
    /\ Cardinality({h \in Hosts : identity[h] = Active}) = 1
    /\ gossip \in Seq(Nodes)
    /\ tower \in [Hosts -> {"none", "empty", "full"}]
    /\ program \in [Hosts -> ProgramType]
    /\ held \subseteq Hosts
    /\ moves \in 0..MaxMoves /\ runs \in 0..MaxRuns
    /\ \A h \in Hosts : program[h].pc \notin {"none", "configure"} =>
          program[h].node # NotFound /\ program[h].node.ip = h

(* A server that listens on a host which has not held the active identity  *)
(* since its program began has no tower file beside it: whatever the flags *)
(* and the answers, the old tower is gone before the active node can hand  *)
(* over, with or without a new one (makeActive, validator.go:749-778).     *)
ListensWithoutTower ==
    \A h \in Hosts :
        At(h, "listening") /\ h \notin held => tower[h] = "none"

(* A client latches onto the server it was told to reach as soon as that    *)
(* one is ready (client.go:481-484): it stops trying in the end, unless that *)
(* server never listens to it; and it stops for no other reason than that    *)
(* it does, with a connection just if both run one wire version              *)
(* (client.go:551-557).                                                      *)
LatchesOn ==
    /\ \A h \in Hosts :
          At(h, "connecting") ~>
              ~At(h, "connecting") \/ [](At(h, "connecting") /\ ~ServerListens(h))
    /\ [][\A h \in Hosts : At(h, "connecting") /\ ~At(h, "connecting")' =>
             ServerListens(h) /\ (At(h, "connected")' <=> SameWire(h))]_vars

(* "When passive, delete the tower file" (README.md:185): a tower file is  *)
(* deleted only while its validator does not hold the active identity.     *)
DeletedOnlyWhenPassive ==
    [][\A h \in Hosts :
          tower[h] # "none" /\ tower'[h] = "none" => identity[h] # Active]_vars
===============================================================================
