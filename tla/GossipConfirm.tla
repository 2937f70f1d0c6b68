---------------------------- MODULE GossipConfirm ----------------------------
(***************************************************************************)
(* After the identities have moved, the server checks that gossip shows it *)
(* (confirmGossipNodesPostFailover, internal/failover/server.go).  Gossip  *)
(* changes while it looks: each RPC's list gains a host's new identity and *)
(* loses its old one at its own pace.                                      *)
(***************************************************************************)
EXTENDS Naturals, GossipLookup

CONSTANT FailingRpcs  \* the RPCs whose calls may fail

Rpcs == {"local", "cluster"}
ASSUME FailingRpcsAssumption == FailingRpcs \subseteq Rpcs

VARIABLES
    view,       \* per RPC and host, the nodes it lists at the host's address
    pc,         \* "active", "passive": the lookup to make next; or "done"
    retryCount, \* the attempts begun
    activeKey,  \* the identity found at the new host in this attempt
    okActive, okPassive, \* isActive-, isPassiveNodeKeySwitchReflectedInGossip
    outcome     \* what the retry loop returned: "none" yet, "nil" or "error"

loop == <<pc, retryCount, activeKey, okActive, okPassive, outcome>>
vars == <<view, loop>>

maxRetries == 5

Hosts == {"old", "new"}

(* The nodes of the two hosts before and after the failover. *)
Before == [old |-> [ip |-> "old", key |-> "active"],
           new |-> [ip |-> "new", key |-> "passiveNew"]]
After == [old |-> [ip |-> "old", key |-> "passiveOld"],
          new |-> [ip |-> "new", key |-> "active"]]

GossipNodes == {Before[h] : h \in Hosts} \cup {After[h] : h \in Hosts}

(* Neither the absence of a node nor a failed call is taken for an answer. *)
ASSUME AnswersAssumption ==
    NotFound \notin GossipNodes /\ Failed \notin Seq(GossipNodes)

Lists(r, n) == \E h \in Hosts : Contains(view[r][h], n)

(* An RPC's answer.  The order of nodes matters only at one address. *)
nodes(r) == view[r]["old"] \o view[r]["new"]

Init ==
    /\ view = [r \in Rpcs |-> [h \in Hosts |-> <<Before[h]>>]]
    /\ pc = "active"
    /\ retryCount = 0
    /\ activeKey = NotFound
    /\ okActive = FALSE /\ okPassive = FALSE
    /\ outcome = "none"

(* The identity a host switched to appears in a list, before or after the  *)
(* one that is about to expire.                                            *)
Appear(r, h) ==
    /\ ~Lists(r, After[h])
    /\ \E front \in BOOLEAN :
         view' = [view EXCEPT ![r][h] = IF front THEN <<After[h]>> \o @
                                        ELSE Append(@, After[h])]
    /\ UNCHANGED loop

(* The identity it had expires, perhaps before the new one is heard of. *)
Expire(r, h) ==
    /\ \E i \in DOMAIN view[r][h] :
         /\ view[r][h][i] = Before[h]
         /\ view' = [view EXCEPT ![r][h] = RemoveAt(@, i)]
    /\ UNCHANGED loop

(* What a lookup at a host's address may return: each RPC of FailingRpcs    *)
(* answers or fails.                                                        *)
Answers(r) == {nodes(r)} \cup (IF r \in FailingRpcs THEN {Failed} ELSE {})

Lookup(h, key) ==
    {nodeFromIPWithExpectedPubkey(l, c, h, key) :
        l \in Answers("local"), c \in Answers("cluster")}

(* An attempt that cannot go on: try again, or give up after the last. *)
RetryOrGiveUp(attempt) ==
    IF attempt < maxRetries
    THEN pc' = "active" /\ UNCHANGED outcome
    ELSE pc' = "done" /\ outcome' = "error"

(* First lookup of an attempt: the new host, expected to be active. *)
QueryActive ==
    /\ pc = "active"
    /\ retryCount' = retryCount + 1
    /\ \E node \in Lookup("new", "active") :
         \/ node = NotFound /\ RetryOrGiveUp(retryCount + 1) /\ UNCHANGED activeKey
         \/ /\ node # NotFound
            /\ activeKey' = node.key
            /\ pc' = "passive"
            /\ UNCHANGED outcome
    /\ UNCHANGED <<view, okActive, okPassive>>

(* Second lookup: the old host, expected to be passive.  An attempt that    *)
(* finds both switched does not end the loop: there are always maxRetries.  *)
(* The node of the first lookup is not read any more.                       *)
QueryPassive ==
    /\ pc = "passive"
    /\ \E node \in Lookup("old", "passiveOld") :
         \/ /\ node = NotFound
            /\ RetryOrGiveUp(retryCount)
            /\ UNCHANGED <<okActive, okPassive>>
         \/ /\ node # NotFound
            /\ okActive' = (activeKey = "active")
            /\ okPassive' = (node.key = "passiveOld")
            /\ IF okActive' /\ okPassive'
               THEN IF retryCount < maxRetries
                    THEN pc' = "active" /\ UNCHANGED outcome
                    ELSE pc' = "done" /\ outcome' = "nil"
               ELSE RetryOrGiveUp(retryCount)
    /\ activeKey' = NotFound
    /\ UNCHANGED <<view, retryCount>>

Confirm == QueryActive \/ QueryPassive

Next == Confirm \/ \E r \in Rpcs, h \in Hosts : Appear(r, h) \/ Expire(r, h)

Spec == Init /\ [][Next]_vars

(***************************************************************************)
(* Properties                                                              *)
(***************************************************************************)
(* Every variable keeps its type; the attempts are at most maxRetries. *)
TypeOK ==
    /\ view \in [Rpcs -> [Hosts -> Seq(GossipNodes)]]
    /\ pc \in {"active", "passive", "done"}
    /\ retryCount \in 0 .. maxRetries
    /\ activeKey \in {NotFound, "active", "passiveNew"}
    /\ okActive \in BOOLEAN /\ okPassive \in BOOLEAN
    /\ outcome \in {"none", "nil", "error"}

Reflected(h) == \E r \in Rpcs : Lists(r, After[h])

(* "gossip confirms nodes switched roles" is logged only if gossip shows    *)
(* both switches: a stale node of the same address is never taken for one.  *)
ConfirmedIsReflected == okActive /\ okPassive => \A h \in Hosts : Reflected(h)

(* A switch that some RPC lists is not missed for the stale node that the   *)
(* other RPC, or the same list, still shows for the address.                *)
StaleNeverPreferred ==
    \A h \in Hosts : Reflected(h) =>
        nodeFromIPWithExpectedPubkey(nodes("local"), nodes("cluster"), h, After[h].key)
            = After[h]

Settled == \A r \in Rpcs, h \in Hosts : Lists(r, After[h])

(* Once every RPC shows both switches, the attempts left confirm them, also *)
(* while one of the RPCs fails.                                             *)
SettledIsConfirmed ==
    pc = "active" /\ retryCount \in 1 .. maxRetries - 1 /\ Settled
        ~> pc = "done" /\ outcome = "nil" /\ okActive /\ okPassive
===============================================================================
