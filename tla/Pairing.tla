-------------------------------- MODULE Pairing --------------------------------
(***************************************************************************)
(* Who hands over to whom.  Every host is configured with a key of its own  *)
(* to use when active and with the peers its client may connect to; the     *)
(* program never compares the keys of two hosts.  The handover itself is    *)
(* that of module Failover and takes a step on either side here; gossip     *)
(* shows the keys in use.  One run of the client per host at a time.        *)
(***************************************************************************)

CONSTANTS
    Hosts,
    Keys       \* voting identities

VARIABLES
    activeKey,  \* configured: per host, the key of validator.identities.active
    peers,      \* configured: per host, the hosts of validator.failover.peers
    voting,     \* per host, its validator runs with that key
    server,     \* per host: "off", "listening", "validating", "receiving"
    client,     \* per host: "off", "waiting" or "handing"
    partner     \* per host, the host its client or its server deals with

vars == <<activeKey, peers, voting, server, client, partner>>
config == <<activeKey, peers>>

Voters(key) == {h \in Hosts : voting[h] /\ activeKey[h] = key}
InGossip(key) == Voters(key) # {}

(* server.go:314, validator.go:738: the request comes from the configured   *)
(* active node, whose key is the one this node would set itself to: no two  *)
(* validators ever vote with one key.                                       *)
OneVoterPerKey ==
    \A g, h \in Hosts : voting[g] /\ voting[h] /\ activeKey[g] = activeKey[h] => g = h

(* Any configuration; of the hosts configured with a key at most one uses it. *)
Init ==
    /\ activeKey \in [Hosts -> Keys]
    /\ peers \in [Hosts -> SUBSET Hosts] /\ \A h \in Hosts : h \notin peers[h]
    /\ voting \in [Hosts -> BOOLEAN]
    /\ OneVoterPerKey
    /\ server = [h \in Hosts |-> "off"] /\ client = [h \in Hosts |-> "off"]
    /\ partner = [h \in Hosts |-> h]

(* makeActive: the server is started if some node uses the key that this    *)
(* host would set itself to.                                                *)
StartServer(h) ==
    /\ server[h] = "off" /\ client[h] = "off"
    /\ ~voting[h] /\ InGossip(activeKey[h])
    /\ server' = [server EXCEPT ![h] = "listening"]
    /\ UNCHANGED <<config, voting, client, partner>>

(* makePassive: the client connects to a peer of its own choice and sends   *)
(* its address and its key.                                                 *)
StartClient(h, p) ==
    /\ server[h] = "off" /\ client[h] = "off"
    /\ voting[h] /\ p \in peers[h]
    /\ server[p] = "listening"
    /\ client' = [client EXCEPT ![h] = "waiting"]
    /\ server' = [server EXCEPT ![p] = "validating"]
    /\ partner' = [partner EXCEPT ![h] = p, ![p] = h]
    /\ UNCHANGED <<config, voting>>

(* validateActiveGossipIdentity: the node at the client's address uses the  *)
(* key that the client sent.                                                *)
Validate(p) ==
    /\ server[p] = "validating"
    /\ LET h == partner[p] IN
         \/ /\ voting[h]
            /\ server' = [server EXCEPT ![p] = "receiving"]
            /\ client' = [client EXCEPT ![h] = "handing"]
         \/ /\ ~voting[h]
            /\ server' = [server EXCEPT ![p] = "listening"]
            /\ client' = [client EXCEPT ![h] = "off"]
    /\ UNCHANGED <<config, voting, partner>>

GoPassive(h) ==
    /\ client[h] = "handing"
    /\ voting' = [voting EXCEPT ![h] = FALSE]
    /\ client' = [client EXCEPT ![h] = "off"]
    /\ UNCHANGED <<config, server, partner>>

(* The tower file has come; the server sets the identity it is configured   *)
(* with, and ends.                                                          *)
GoActive(p) ==
    /\ server[p] = "receiving" /\ client[partner[p]] = "off"
    /\ voting' = [voting EXCEPT ![p] = TRUE]
    /\ server' = [server EXCEPT ![p] = "off"]
    /\ UNCHANGED <<config, client, partner>>

Next ==
    \E h \in Hosts :
        \/ StartServer(h) \/ Validate(h) \/ GoPassive(h) \/ GoActive(h)
        \/ \E p \in Hosts : StartClient(h, p)

Spec == Init /\ [][Next]_vars
===============================================================================
