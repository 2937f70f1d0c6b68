----------------------------- MODULE PairingProofs -----------------------------
(***************************************************************************)
(* The run of Pairing finds two validators with one key.  They need a host  *)
(* whose client may connect to a peer that is configured with another key:  *)
(* where no host has such a peer, every key is used by one host at most,    *)
(* for any number of hosts and keys.                                        *)
(***************************************************************************)
EXTENDS Pairing, TLAPS

(* No host is configured with a peer of another key. *)
PeersAgree == \A h \in Hosts : \A p \in peers[h] : activeKey[p] = activeKey[h]

PairingTypeOK ==
    /\ activeKey \in [Hosts -> Keys]
    /\ peers \in [Hosts -> SUBSET Hosts]
    /\ voting \in [Hosts -> BOOLEAN]
    /\ server \in [Hosts -> {"off", "listening", "validating", "receiving"}]
    /\ client \in [Hosts -> {"off", "waiting", "handing"}]
    /\ partner \in [Hosts -> Hosts]

(* A host that votes runs no server, and a client runs where one votes. *)
Exclusively ==
    \A h \in Hosts : /\ voting[h] => server[h] = "off"
                     /\ client[h] # "off" => voting[h]

(* A server and the client it deals with know one another, until the client *)
(* has ended; they have one key.                                            *)
Paired ==
    /\ \A h \in Hosts :
         client[h] # "off" => /\ partner[partner[h]] = h
                              /\ server[partner[h]] \in {"validating", "receiving"}
    /\ \A p \in Hosts :
         server[p] \in {"validating", "receiving"} =>
            /\ activeKey[partner[p]] = activeKey[p]
            /\ client[partner[p]] # "off" => partner[partner[p]] = p
    /\ \A p \in Hosts : server[p] = "validating" => client[partner[p]] = "waiting"
    /\ \A p \in Hosts : server[p] = "receiving" => client[partner[p]] # "waiting"

(* The right to vote with a key: a host has it that votes, or that has got  *)
(* it from a client which is passive by now.                                *)
Holds(h) == voting[h] \/ (server[h] = "receiving" /\ client[partner[h]] = "off")

OneHolder ==
    \A g, h \in Hosts : Holds(g) /\ Holds(h) /\ activeKey[g] = activeKey[h] => g = h

PInv == PairingTypeOK /\ PeersAgree /\ Exclusively /\ Paired /\ OneHolder
-------------------------------------------------------------------------------
(* A server is started: nobody deals with it yet. *)
LEMMA StartServerKeeps == PInv /\ (\E h \in Hosts : StartServer(h)) => PInv'
<1> SUFFICES ASSUME PInv, NEW k \in Hosts, StartServer(k) PROVE PInv'
  OBVIOUS
<1> USE DEF PairingTypeOK
<1>1. PairingTypeOK' /\ PeersAgree'
  BY DEF PInv, PeersAgree, StartServer, config
<1>2. Exclusively'
  BY DEF PInv, Exclusively, StartServer, config
<1>3. Paired'
  BY DEF PInv, Paired, StartServer, config
<1>4. OneHolder'
  BY DEF PInv, OneHolder, Holds, StartServer, config
<1> QED BY <1>1, <1>2, <1>3, <1>4 DEF PInv

(* A client connects.  A server that has the right to vote is not dealing   *)
(* with it, since the client's host has that right.                         *)
LEMMA StartClientKeeps == PInv /\ (\E h, p \in Hosts : StartClient(h, p)) => PInv'
<1> SUFFICES ASSUME PInv, NEW k \in Hosts, NEW q \in Hosts, StartClient(k, q) PROVE PInv'
  OBVIOUS
<1> USE DEF PairingTypeOK
<1>1. PairingTypeOK' /\ PeersAgree'
  BY DEF PInv, PeersAgree, StartClient, config
<1>2. Exclusively'
  BY DEF PInv, Exclusively, StartClient, config
<1>3. k # q /\ activeKey[q] = activeKey[k]
  BY DEF PInv, PeersAgree, StartClient
<1>4. \A p \in Hosts : server[p] \in {"validating", "receiving"} => partner[p] # k
  BY DEF PInv, Paired, OneHolder, Holds, StartClient
<1>5. \A h \in Hosts : client[h] # "off" => partner[h] # q
  BY DEF PInv, Paired, StartClient
<1>6. Paired'
  <2>1. /\ \A h \in Hosts : client'[h] = IF h = k THEN "waiting" ELSE client[h]
        /\ \A h \in Hosts : server'[h] = IF h = q THEN "validating" ELSE server[h]
        /\ \A h \in Hosts : partner'[h] = IF h = q THEN k ELSE IF h = k THEN q ELSE partner[h]
    BY <1>3 DEF PInv, StartClient
  <2>2. activeKey' = activeKey
    BY DEF StartClient, config
  <2>3. \A h \in Hosts : client[h] # "off" => h # k /\ h # q /\ partner[h] # k
    BY <1>3 DEF PInv, Exclusively, Paired, StartClient
  <2>4. \A p \in Hosts : server[p] \in {"validating", "receiving"} =>
           p # k /\ p # q /\ partner[p] # k
    BY <1>4 DEF StartClient
  <2>5. \A h \in Hosts : client'[h] # "off" =>
           /\ partner'[partner'[h]] = h
           /\ server'[partner'[h]] \in {"validating", "receiving"}
    BY <1>3, <1>5, <2>1, <2>3 DEF PInv, Paired
  <2>6. \A p \in Hosts : server'[p] \in {"validating", "receiving"} =>
           /\ activeKey[partner'[p]] = activeKey[p]
           /\ client'[partner'[p]] # "off" => partner'[partner'[p]] = p
    <3> SUFFICES ASSUME NEW p \in Hosts, server'[p] \in {"validating", "receiving"}
                 PROVE  /\ activeKey[partner'[p]] = activeKey[p]
                        /\ client'[partner'[p]] # "off" => partner'[partner'[p]] = p
      OBVIOUS
    <3>1. CASE p = q
      BY <1>3, <2>1, <3>1
    <3>2. CASE p # q
      BY <1>3, <1>5, <2>1, <2>3, <2>4, <3>2 DEF PInv, Paired
    <3> QED BY <3>1, <3>2
  <2>7. \A p \in Hosts : server'[p] = "validating" => client'[partner'[p]] = "waiting"
    BY <1>3, <2>1, <2>4 DEF PInv, Paired
  <2>8. \A p \in Hosts : server'[p] = "receiving" => client'[partner'[p]] # "waiting"
    BY <1>3, <2>1, <2>4 DEF PInv, Paired
  <2> QED BY <2>2, <2>5, <2>6, <2>7, <2>8 DEF Paired
<1>7. OneHolder'
  BY <1>3, <1>4 DEF PInv, OneHolder, Holds, StartClient, config
<1> QED BY <1>1, <1>2, <1>6, <1>7 DEF PInv

(* The client is validated: it goes on, as its host votes. *)
LEMMA ValidateKeeps == PInv /\ (\E p \in Hosts : Validate(p)) => PInv'
<1> SUFFICES ASSUME PInv, NEW q \in Hosts, Validate(q) PROVE PInv'
  OBVIOUS
<1> USE DEF PairingTypeOK
<1> DEFINE k == partner[q]
<1>1. k \in Hosts /\ client[k] = "waiting" /\ partner[k] = q /\ voting[k]
  BY DEF PInv, Paired, Exclusively, Validate
<1>2. /\ server' = [server EXCEPT ![q] = "receiving"]
      /\ client' = [client EXCEPT ![k] = "handing"]
  BY <1>1 DEF Validate
<1>3. PairingTypeOK' /\ PeersAgree'
  BY <1>1, <1>2 DEF PInv, PeersAgree, Validate, config
<1>4. Exclusively'
  BY <1>1, <1>2 DEF PInv, Exclusively, Validate, config
<1>5. Paired'
  BY <1>1, <1>2 DEF PInv, Paired, Validate, config
<1>6. OneHolder'
  BY <1>1, <1>2 DEF PInv, OneHolder, Holds, Paired, Validate, config
<1> QED BY <1>3, <1>4, <1>5, <1>6 DEF PInv

(* The client's host goes passive: the right passes to its server's host. *)
LEMMA GoPassiveKeeps == PInv /\ (\E h \in Hosts : GoPassive(h)) => PInv'
<1> SUFFICES ASSUME PInv, NEW k \in Hosts, GoPassive(k) PROVE PInv'
  OBVIOUS
<1> USE DEF PairingTypeOK
<1>1. PairingTypeOK' /\ PeersAgree'
  BY DEF PInv, PeersAgree, GoPassive, config
<1>2. Exclusively'
  BY DEF PInv, Exclusively, GoPassive, config
<1>3. Paired'
  BY DEF PInv, Paired, GoPassive, config
<1>4. \A h \in Hosts : Holds(h)' => Holds(h) \/ h = partner[k]
  BY DEF PInv, Paired, Holds, GoPassive, config
<1>5. activeKey[partner[k]] = activeKey[k] /\ Holds(k) /\ ~Holds(k)'
  BY DEF PInv, Exclusively, Paired, Holds, GoPassive, config
<1>6. OneHolder'
  BY <1>4, <1>5 DEF PInv, OneHolder, GoPassive, config
<1> QED BY <1>1, <1>2, <1>3, <1>6 DEF PInv

(* The server's host votes: it had the right to. *)
LEMMA GoActiveKeeps == PInv /\ (\E p \in Hosts : GoActive(p)) => PInv'
<1> SUFFICES ASSUME PInv, NEW q \in Hosts, GoActive(q) PROVE PInv'
  OBVIOUS
<1> USE DEF PairingTypeOK
<1>1. PairingTypeOK' /\ PeersAgree'
  BY DEF PInv, PeersAgree, GoActive, config
<1>2. Exclusively'
  BY DEF PInv, Exclusively, GoActive, config
<1>3. Paired'
  BY DEF PInv, Paired, GoActive, config
<1>4. \A h \in Hosts : Holds(h)' => Holds(h)
  BY DEF PInv, Holds, GoActive, config
<1>5. OneHolder'
  BY <1>4 DEF PInv, OneHolder, GoActive, config
<1> QED BY <1>1, <1>2, <1>3, <1>5 DEF PInv

(* server.go:314: where no host is configured with a peer of another key,   *)
(* no two validators ever vote with one key.                                *)
THEOREM OneKeyPerPair == Spec /\ PeersAgree => []OneVoterPerKey
<1>1. Init /\ PeersAgree => PInv
  <2> SUFFICES ASSUME Init, PeersAgree PROVE PInv
    OBVIOUS
  <2>1. PairingTypeOK
    BY DEF Init, PairingTypeOK
  <2> QED
    BY <2>1 DEF Init, PInv, Exclusively, Paired, OneHolder, Holds, OneVoterPerKey
<1>2. PInv /\ [Next]_vars => PInv'
  <2> SUFFICES ASSUME PInv, [Next]_vars PROVE PInv'
    OBVIOUS
  <2>1. CASE UNCHANGED vars
    BY <2>1 DEF vars, PInv, PairingTypeOK, PeersAgree, Exclusively, Paired, OneHolder, Holds
  <2>2. CASE Next
    BY <2>2, StartServerKeeps, StartClientKeeps, ValidateKeeps, GoPassiveKeeps, GoActiveKeeps
       DEF Next
  <2> QED BY <2>1, <2>2
<1>3. PInv => OneVoterPerKey
  BY DEF PInv, OneHolder, Holds, OneVoterPerKey
<1> QED BY <1>1, <1>2, <1>3, PTL DEF Spec
===============================================================================
