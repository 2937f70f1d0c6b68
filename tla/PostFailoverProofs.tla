-------------------------- MODULE PostFailoverProofs --------------------------
(***************************************************************************)
(* The tail of the server's run, for any slots, word size, credits, counts  *)
(* and interval, and for gossip that changes as it likes during the check.  *)
(***************************************************************************)
EXTENDS PostFailover, LookupProofs

(* Each RPC lists at a host's address only nodes of that host. *)
ViewType ==
    /\ view \in [Rpcs -> [Hosts -> Seq(GossipNodes)]]
    /\ \A r \in Rpcs, h \in Hosts : view[r][h] \in Seq({Before[h], After[h]})

LoopType ==
    /\ pc \in {"active", "passive", "done"}
    /\ retryCount \in 0 .. maxRetries
    /\ activeKey \in {NotFound, "active", "passiveNew"}
    /\ okActive \in BOOLEAN /\ okPassive \in BOOLEAN
    /\ outcome \in {"none", "nil", "error"}

(* What the loop has found is in gossip, and stays. *)
FoundIsReflected ==
    /\ pc = "passive" /\ activeKey = "active" => Reflected("new")
    /\ okActive => Reflected("new")
    /\ okPassive => Reflected("old")

Attempts == pc = "active" => retryCount < maxRetries

GossipInv == ViewType /\ LoopType /\ Attempts /\ FoundIsReflected
-------------------------------------------------------------------------------
(* What an RPC answers is a sequence of the two hosts' nodes, each at its   *)
(* own host's address.                                                      *)
LEMMA AnswerType ==
    ASSUME ViewType, NEW r \in Rpcs
    PROVE  /\ nodes(r) \in Seq(GossipNodes) /\ Listed(nodes(r)) = nodes(r)
           /\ Listed(Failed) = <<>>
           /\ \A n : Contains(nodes(r), n) <=> Lists(r, n)
<1>1. view[r]["old"] \in Seq(GossipNodes) /\ view[r]["new"] \in Seq(GossipNodes)
  BY DEF ViewType, Hosts
<1>2. /\ nodes(r) \in Seq(GossipNodes)
      /\ \A n : Contains(nodes(r), n) <=> \/ Contains(view[r]["old"], n)
                                         \/ Contains(view[r]["new"], n)
  BY <1>1, ConcatElements DEF nodes
<1> QED BY <1>2, AnswersAssumption DEF Listed, Lists, Hosts

LEMMA ListedNodes ==
    ASSUME ViewType, NEW r \in Rpcs, NEW n, Lists(r, n)
    PROVE  /\ n \in GossipNodes
           /\ \A h \in Hosts : n.ip = h => n \in {Before[h], After[h]}
           /\ n.ip \in Hosts
<1>1. PICK h \in Hosts : Contains(view[r][h], n)
  BY DEF Lists
<1>2. view[r][h] \in Seq({Before[h], After[h]})
  BY DEF ViewType
<1>3. n \in {Before[h], After[h]}
  BY <1>1, <1>2 DEF Contains
<1> QED BY <1>3 DEF GossipNodes, Before, After, Hosts

(* A lookup at a host's address finds a node of that host which is listed.  *)
LEMMA LookupFinds ==
    ASSUME ViewType, NEW h \in Hosts, NEW key, NEW node \in Lookup(h, key),
           node # NotFound
    PROVE  node \in {Before[h], After[h]} /\ \E r \in Rpcs : Lists(r, node)
<1>1. PICK l \in Answers("local"), c \in Answers("cluster") :
         node = nodeFromIPWithExpectedPubkey(l, c, h, key)
  BY DEF Lookup
<1>2. /\ l \in {nodes("local"), Failed} /\ c \in {nodes("cluster"), Failed}
      /\ "local" \in Rpcs /\ "cluster" \in Rpcs
  BY DEF Answers, Rpcs
<1>3. Listed(l) \in Seq(GossipNodes) /\ Listed(c) \in Seq(GossipNodes)
  <2>1. <<>> \in Seq(GossipNodes)
    OBVIOUS
  <2> QED BY <1>2, <2>1, AnswerType
<1>4. PICK answer \in {l, c} : Shows(Listed(answer), node, h)
  BY <1>1, <1>3, ExpectedListed
<1>5. ~Contains(<<>>, node)
  BY DEF Contains
<1>6. PICK r \in Rpcs : Lists(r, node)
  BY <1>2, <1>4, <1>5, AnswerType DEF Shows
<1> QED BY <1>4, <1>6, ListedNodes DEF Shows

-------------------------------------------------------------------------------
(* Gossip changes: a node that is after a failover stays listed. *)
LEMMA AppearKeeps ==
    ASSUME GossipInv, NEW q \in Rpcs, NEW k \in Hosts, Appear(q, k)
    PROVE  GossipInv' /\ (Settled => Settled')
<1> DEFINE s == view[q][k]
<1>1. view \in [Rpcs -> [Hosts -> Seq(GossipNodes)]] /\ After[k] \in GossipNodes
  BY DEF GossipInv, ViewType, GossipNodes
<1>2. PICK t \in {<<After[k]>> \o s, Append(s, After[k])} :
         view' = [view EXCEPT ![q] = [view[q] EXCEPT ![k] = t]]
  BY <1>1 DEF Appear
<1>3. s \in Seq({Before[k], After[k]}) /\ s \in Seq(GossipNodes)
  BY DEF GossipInv, ViewType
<1> HIDE DEF s
<1>4. t \in Seq({Before[k], After[k]}) /\ t \in Seq(GossipNodes)
  <2>1. CASE t = <<After[k]>> \o s
    BY <1>1, <1>3, <2>1, AppendElements
  <2>2. CASE t = Append(s, After[k])
    BY <1>1, <1>3, <2>2, AppendElements
  <2> QED BY <2>1, <2>2
<1>5. \A n : Contains(s, n) => Contains(t, n)
  <2>1. CASE t = <<After[k]>> \o s
    BY <1>1, <1>3, <2>1, AppendElements
  <2>2. CASE t = Append(s, After[k])
    BY <1>1, <1>3, <2>2, AppendElements
  <2> QED BY <2>1, <2>2
<1>6. \A r \in Rpcs, h \in Hosts :
         view'[r][h] = IF r = q /\ h = k THEN t ELSE view[r][h]
  BY <1>1, <1>2
<1>7. ViewType'
  <2>1. view' \in [Rpcs -> [Hosts -> Seq(GossipNodes)]]
    BY <1>1, <1>2, <1>4
  <2> QED BY <1>4, <1>6, <2>1 DEF GossipInv, ViewType
<1>8. \A r \in Rpcs, h \in Hosts : Lists(r, After[h]) => Lists(r, After[h])'
  BY <1>5, <1>6 DEF Lists, s
<1>9. \A h \in Hosts : Reflected(h) => Reflected(h)'
  BY <1>8 DEF Reflected
<1> QED BY <1>7, <1>8, <1>9 DEF Settled, GossipInv, LoopType, Attempts, FoundIsReflected, Appear, loop, Hosts

LEMMA ExpireKeeps ==
    ASSUME GossipInv, NEW q \in Rpcs, NEW k \in Hosts, Expire(q, k)
    PROVE  GossipInv' /\ (Settled => Settled')
<1> DEFINE s == view[q][k]
<1>1. view \in [Rpcs -> [Hosts -> Seq(GossipNodes)]]
  BY DEF GossipInv, ViewType
<1>2. PICK i \in DOMAIN s :
         /\ s[i] = Before[k]
         /\ view' = [view EXCEPT ![q] = [view[q] EXCEPT ![k] = RemoveAt(s, i)]]
  BY <1>1 DEF Expire
<1> DEFINE t == RemoveAt(s, i)
<1>3. s \in Seq({Before[k], After[k]}) /\ s \in Seq(GossipNodes)
  BY DEF GossipInv, ViewType
<1>4. t \in Seq({Before[k], After[k]}) /\ t \in Seq(GossipNodes)
  BY <1>3, RemoveElements
<1>5. \A n : Contains(s, n) /\ n # Before[k] => Contains(t, n)
  BY <1>2, <1>3, RemoveElements
<1> HIDE DEF s, t
<1>6. \A r \in Rpcs, h \in Hosts :
         view'[r][h] = IF r = q /\ h = k THEN t ELSE view[r][h]
  BY <1>1, <1>2 DEF t
<1>7. ViewType'
  <2>1. view' \in [Rpcs -> [Hosts -> Seq(GossipNodes)]]
    BY <1>1, <1>2, <1>4 DEF t
  <2> QED BY <1>4, <1>6, <2>1 DEF GossipInv, ViewType
<1>8. \A h \in Hosts : After[h] # Before[k]
  BY DEF After, Before, Hosts
<1>9. \A r \in Rpcs, h \in Hosts : Lists(r, After[h]) => Lists(r, After[h])'
  BY <1>5, <1>6, <1>8 DEF Lists, s
<1>10. \A h \in Hosts : Reflected(h) => Reflected(h)'
  BY <1>9 DEF Reflected
<1> QED BY <1>7, <1>9, <1>10 DEF Settled, GossipInv, LoopType, Attempts, FoundIsReflected, Expire, loop, Hosts

(* A lookup that finds the identity a host switched to has found it listed. *)
LEMMA QueryActiveKeeps == ASSUME GossipInv, QueryActive PROVE GossipInv'
<1> USE DEF GossipInv
<1>1. PICK node \in Lookup("new", "active") :
         \/ /\ node = NotFound /\ RetryOrGiveUp(retryCount + 1) /\ UNCHANGED activeKey
         \/ /\ node # NotFound /\ activeKey' = node.key /\ pc' = "passive"
            /\ UNCHANGED outcome
  BY DEF QueryActive
<1>2. node # NotFound => /\ node \in {Before["new"], After["new"]}
                         /\ \E r \in Rpcs : Lists(r, node)
  BY LookupFinds DEF Hosts
<1>3. node # NotFound =>
         node.key \in {"passiveNew", "active"} /\ (node.key = "active" => Reflected("new"))
  BY <1>2 DEF Reflected, Before, After
<1>4. \A h : Reflected(h)' <=> Reflected(h)
  BY DEF QueryActive, Reflected, Lists
<1>5. ViewType'
  BY DEF ViewType, QueryActive
<1>6. LoopType' /\ Attempts'
  BY <1>1, <1>3 DEF LoopType, Attempts, QueryActive, RetryOrGiveUp, maxRetries
<1>7. FoundIsReflected'
  <2>1. CASE node = NotFound
    BY <1>1, <1>4, <2>1 DEF FoundIsReflected, QueryActive, RetryOrGiveUp
  <2>2. CASE node # NotFound
    BY <1>1, <1>3, <1>4, <2>2 DEF FoundIsReflected, QueryActive
  <2> QED BY <2>1, <2>2
<1> QED BY <1>5, <1>6, <1>7

LEMMA QueryPassiveKeeps == ASSUME GossipInv, QueryPassive PROVE GossipInv'
<1> USE DEF GossipInv
<1>1. PICK node \in Lookup("old", "passiveOld") :
         \/ /\ node = NotFound /\ RetryOrGiveUp(retryCount)
            /\ UNCHANGED <<okActive, okPassive>>
         \/ /\ node # NotFound
            /\ okActive' = (activeKey = "active")
            /\ okPassive' = (node.key = "passiveOld")
            /\ IF okActive' /\ okPassive'
               THEN IF retryCount < maxRetries
                    THEN pc' = "active" /\ UNCHANGED outcome
                    ELSE pc' = "done" /\ outcome' = "nil"
               ELSE RetryOrGiveUp(retryCount)
  BY DEF QueryPassive
<1>2. node # NotFound => /\ node \in {Before["old"], After["old"]}
                         /\ \E r \in Rpcs : Lists(r, node)
  BY LookupFinds DEF Hosts
<1>3. node # NotFound => (node.key = "passiveOld" => Reflected("old"))
  BY <1>2 DEF Reflected, Before, After
<1>4. \A h : Reflected(h)' <=> Reflected(h)
  BY DEF QueryPassive, Reflected, Lists
<1>5. ViewType'
  BY DEF ViewType, QueryPassive
<1>6. LoopType' /\ Attempts'
  BY <1>1 DEF LoopType, Attempts, QueryPassive, RetryOrGiveUp, maxRetries
<1>7. FoundIsReflected'
  <2>1. pc' # "passive"
    BY <1>1 DEF RetryOrGiveUp
  <2>2. CASE node = NotFound
    BY <1>1, <1>4, <2>1, <2>2 DEF FoundIsReflected
  <2>3. CASE node # NotFound
    BY <1>1, <1>3, <1>4, <2>1, <2>3 DEF FoundIsReflected, QueryPassive
  <2> QED BY <2>2, <2>3
<1> QED BY <1>5, <1>6, <1>7

LEMMA GossipStutters == ASSUME GossipInv, UNCHANGED vars PROVE GossipInv'
BY DEF GossipInv, ViewType, LoopType, Attempts, FoundIsReflected, Reflected, Lists, vars, loop

(* What the RPCs list before the failover. *)
StartView == [r \in Rpcs |-> [h \in Hosts |-> <<Before[h]>>]]

LEMMA StartViewType ==
    /\ StartView \in [Rpcs -> [Hosts -> Seq(GossipNodes)]]
    /\ \A r \in Rpcs, h \in Hosts : StartView[r][h] \in Seq({Before[h], After[h]})
<1>1. \A h \in Hosts : /\ <<Before[h]>> \in Seq(GossipNodes)
                       /\ <<Before[h]>> \in Seq({Before[h], After[h]})
  BY DEF GossipNodes
<1> QED BY <1>1 DEF StartView

LEMMA GossipInvariant == PostSpec => []GossipInv
<1>1. PostInit => GossipInv
  <2> SUFFICES ASSUME PostInit PROVE GossipInv
    OBVIOUS
  <2>1. ViewType
    BY StartViewType DEF PostInit, Init, ViewType, StartView
  <2>2. LoopType /\ Attempts
    <3>1. okActive \in BOOLEAN /\ okPassive \in BOOLEAN
      BY Zenon DEF PostInit, Init
    <3> QED BY <3>1 DEF PostInit, Init, LoopType, Attempts, maxRetries
  <2>3. FoundIsReflected
    BY DEF PostInit, Init, FoundIsReflected
  <2> QED BY <2>1, <2>2, <2>3 DEF GossipInv
<1>2. GossipInv /\ [PostNext]_postVars => GossipInv'
  <2> SUFFICES ASSUME GossipInv, [PostNext]_postVars PROVE GossipInv'
    OBVIOUS
  <2>1. CASE confirmGossipNodesPostFailover
    BY <2>1, QueryActiveKeeps, QueryPassiveKeeps DEF confirmGossipNodesPostFailover, Confirm
  <2>2. CASE Gossip
    BY <2>2, AppearKeeps, ExpireKeeps DEF Gossip
  <2>3. CASE ConfirmReturns
    <3>1. ViewType'
      BY <2>3, StartViewType DEF ConfirmReturns, ViewType, StartView
    <3>2. LoopType' /\ Attempts'
      <4>1. okActive' \in BOOLEAN /\ okPassive' \in BOOLEAN
        BY <2>3, Zenon DEF ConfirmReturns
      <4> QED BY <2>3, <4>1 DEF ConfirmReturns, LoopType, Attempts, maxRetries
    <3>3. FoundIsReflected'
      BY <2>3 DEF ConfirmReturns, FoundIsReflected
    <3> QED BY <3>1, <3>2, <3>3 DEF GossipInv
  <2>4. CASE \/ QuerySlot \/ Report \/ RunPostWhenActive \/ BuildSummaryData \/ PullSample
             \/ PullSampleFails \/ GetVoteCreditRankDifference \/ Shutdown \/ Tick
             \/ UNCHANGED postVars
    <3>1. UNCHANGED vars
      BY <2>4 DEF QuerySlot, Report, RunPostWhenActive, BuildSummaryData, PullSample,
                  PullSampleFails, GetVoteCreditRankDifference, Shutdown, Tick, postVars
    <3> QED BY <3>1, GossipStutters
  <2> QED BY <2>1, <2>2, <2>3, <2>4 DEF PostNext, Step
<1> QED BY <1>1, <1>2, PTL DEF PostSpec

(* server.go:629-744: "gossip confirms nodes switched roles" is logged only *)
(* of switches that gossip shows, however its lists change between calls.   *)
THEOREM ConfirmationIsTrue == PostSpec => []ConfirmedIsReflected
<1>1. GossipInv => ConfirmedIsReflected
  BY DEF GossipInv, FoundIsReflected, ConfirmedIsReflected, Hosts
<1> QED BY <1>1, GossipInvariant, PTL

(* client.go:275-314: a switch that an RPC lists is found, whatever stale   *)
(* nodes either list still shows for the address, and in whatever order.    *)
THEOREM StaleIsNotPreferred == PostSpec => []StaleNeverPreferred
<1>1. GossipInv => StaleNeverPreferred
  <2> SUFFICES ASSUME GossipInv, NEW h \in Hosts, NEW r \in Rpcs, Lists(r, After[h])
               PROVE  nodeFromIPWithExpectedPubkey(nodes("local"), nodes("cluster"), h, After[h].key)
                        = After[h]
    BY DEF StaleNeverPreferred, Reflected
  <2> DEFINE node == nodeFromIPWithExpectedPubkey(nodes("local"), nodes("cluster"), h, After[h].key)
  <2>1. /\ ViewType /\ After[h].ip = h
        /\ "local" \in Rpcs /\ "cluster" \in Rpcs /\ r \in {"local", "cluster"}
    BY DEF GossipInv, After, Hosts, Rpcs
  <2>2. /\ Listed(nodes("local")) \in Seq(GossipNodes)
        /\ Listed(nodes("cluster")) \in Seq(GossipNodes)
    BY <2>1, AnswerType
  <2>3. Shows(Listed(nodes(r)), After[h], h)
    BY <2>1, AnswerType DEF Shows
  <2>4. node \in GossipNodes /\ node.ip = h /\ node.key = After[h].key
    BY <2>1, <2>2, <2>3, ExpectedPreferred, AnswersAssumption
  <2> HIDE DEF node
  <2>5. node = After[h]
    BY <2>4 DEF GossipNodes, Before, After, Hosts
  <2> QED BY <2>5 DEF node
<1> QED BY <1>1, GossipInvariant, PTL

(* Once every list shows the switch, a lookup finds it, whichever RPC fails *)
(* as long as one answers.                                                  *)
LEMMA SettledIsFound ==
    ASSUME ViewType, Settled, FailingRpcs # Rpcs, NEW h \in Hosts,
           NEW node \in Lookup(h, After[h].key)
    PROVE  node # NotFound /\ node.key = After[h].key
<1>1. PICK l \in Answers("local"), c \in Answers("cluster") :
         node = nodeFromIPWithExpectedPubkey(l, c, h, After[h].key)
  BY DEF Lookup
<1>2. /\ l \in {nodes("local"), Failed} /\ c \in {nodes("cluster"), Failed}
      /\ "local" \in Rpcs /\ "cluster" \in Rpcs
  BY DEF Answers, Rpcs
<1>3. Listed(l) \in Seq(GossipNodes) /\ Listed(c) \in Seq(GossipNodes)
  <2>1. <<>> \in Seq(GossipNodes)
    OBVIOUS
  <2> QED BY <1>2, <2>1, AnswerType
<1>4. PICK r \in Rpcs : nodes(r) \in {l, c}
  <2>1. PICK r \in Rpcs : r \notin FailingRpcs
    BY FailingRpcsAssumption
  <2> QED BY <1>1, <2>1 DEF Answers, Rpcs
<1>5. Shows(Listed(nodes(r)), After[h], h)
  BY AnswerType DEF Settled, Shows, After, Hosts
<1>6. node \in GossipNodes /\ node.key = After[h].key
  BY <1>1, <1>3, <1>4, <1>5, ExpectedPreferred, AnswersAssumption
<1> QED BY <1>6, AnswersAssumption

(* The check is going to confirm: every RPC lists both switches, and the    *)
(* attempt has begun since, or the first lookup has found the switch.       *)
Confirming ==
    /\ at = "gossip" /\ Settled
    /\ \/ pc = "active"
       \/ pc = "passive" /\ activeKey = "active"
       \/ pc = "done" /\ outcome = "nil" /\ okActive /\ okPassive

(* The lookups that the check may still make. *)
LookupsLeft == 2 * (maxRetries - retryCount) + (IF pc = "passive" THEN 1 ELSE 0)

(* Each of them is one less. *)
LEMMA FewerLookups ==
    ASSUME GossipInv, confirmGossipNodesPostFailover
    PROVE  LookupsLeft' < LookupsLeft
<1>1. retryCount \in 0 .. maxRetries
  BY DEF GossipInv, LoopType
<1>2. CASE QueryActive
  BY <1>1, <1>2 DEF QueryActive, RetryOrGiveUp, LookupsLeft, maxRetries
<1>3. CASE QueryPassive
  <2>1. pc = "passive" /\ pc' \in {"active", "done"} /\ retryCount' = retryCount
    BY <1>3 DEF QueryPassive, RetryOrGiveUp
  <2> QED BY <1>1, <2>1 DEF LookupsLeft, maxRetries
<1> QED BY <1>2, <1>3 DEF confirmGossipNodesPostFailover, Confirm

(* It goes on to confirm until it returns, having confirmed; and each of    *)
(* its lookups brings it nearer to that.                                    *)
ConfirmsOnceSettled ==
    [][/\ Confirming => \/ Confirming'
                        \/ ConfirmReturns /\ outcome = "nil" /\ okActive /\ okPassive
       /\ confirmGossipNodesPostFailover => LookupsLeft' < LookupsLeft]_postVars

(* server.go:629-744: once all lists show both switches the check ends only *)
(* with the confirmation, after the lookups that it has left.  This is what *)
(* SettledIsConfirmed says but for the scheduling.                          *)
THEOREM SettledWillBeConfirmed ==
    ASSUME FailingRpcs # Rpcs
    PROVE  PostSpec => ConfirmsOnceSettled
<1>1. ASSUME GossipInv, QueryActive
      PROVE  Settled => Settled' /\ pc' = "passive" /\ activeKey' = "active"
  <2>1. Settled => Settled'
    BY <1>1 DEF QueryActive, Settled, Lists
  <2>2. Settled => pc' = "passive" /\ activeKey' = "active"
    <3>1. After["new"].key = "active" /\ "new" \in Hosts
      BY DEF After, Hosts
    <3> QED BY <1>1, <3>1, SettledIsFound DEF QueryActive, GossipInv
  <2> QED BY <2>1, <2>2
<1>2. ASSUME GossipInv, QueryPassive
      PROVE  /\ Settled => Settled'
             /\ Settled /\ activeKey = "active" =>
                  \/ pc' = "active"
                  \/ pc' = "done" /\ outcome' = "nil" /\ okActive' /\ okPassive'
  <2>1. Settled => Settled'
    BY <1>2 DEF QueryPassive, Settled, Lists
  <2>2. ASSUME Settled, activeKey = "active"
        PROVE  \/ pc' = "active"
               \/ pc' = "done" /\ outcome' = "nil" /\ okActive' /\ okPassive'
    <3>1. After["old"].key = "passiveOld" /\ "old" \in Hosts
      BY DEF After, Hosts
    <3>2. PICK node \in Lookup("old", "passiveOld") :
             \/ /\ node = NotFound /\ RetryOrGiveUp(retryCount)
                /\ UNCHANGED <<okActive, okPassive>>
             \/ /\ node # NotFound
                /\ okActive' = (activeKey = "active")
                /\ okPassive' = (node.key = "passiveOld")
                /\ IF okActive' /\ okPassive'
                   THEN IF retryCount < maxRetries
                        THEN pc' = "active" /\ UNCHANGED outcome
                        ELSE pc' = "done" /\ outcome' = "nil"
                   ELSE RetryOrGiveUp(retryCount)
      BY <1>2 DEF QueryPassive
    <3>3. node # NotFound /\ node.key = "passiveOld"
      BY <1>2, <2>2, <3>1, SettledIsFound DEF GossipInv
    <3> QED BY <2>2, <3>2, <3>3
  <2> QED BY <2>1, <2>2
<1>3. ASSUME GossipInv, PostNext, Confirming
      PROVE  \/ Confirming'
             \/ ConfirmReturns /\ outcome = "nil" /\ okActive /\ okPassive
  <2>1. at = "gossip" /\ Settled
    BY <1>3 DEF Confirming
  <2>2. CASE confirmGossipNodesPostFailover
    <3>1. CASE QueryActive
      BY <1>1, <1>3, <2>1, <2>2, <3>1 DEF confirmGossipNodesPostFailover, Confirming
    <3>2. CASE QueryPassive
      BY <1>2, <1>3, <2>1, <2>2, <3>2 DEF confirmGossipNodesPostFailover, Confirming,
         QueryPassive
    <3> QED BY <2>2, <3>1, <3>2 DEF confirmGossipNodesPostFailover, Confirm
  <2>3. CASE Gossip
    <3>1. Settled'
      BY <1>3, <2>1, <2>3, AppearKeeps, ExpireKeeps DEF Gossip
    <3>2. UNCHANGED <<at, loop>>
      BY <2>3 DEF Gossip, Appear, Expire
    <3> QED BY <1>3, <3>1, <3>2 DEF Confirming, loop
  <2>4. CASE ConfirmReturns
    BY <1>3, <2>4 DEF ConfirmReturns, Confirming
  <2> QED
    BY <1>3, <2>1, <2>2, <2>3, <2>4 DEF PostNext, Step, QuerySlot, Report, RunPostWhenActive,
       BuildSummaryData, PullSample, PullSampleFails, GetVoteCreditRankDifference, Shutdown,
       Tick
<1>4. GossipInv /\ confirmGossipNodesPostFailover => LookupsLeft' < LookupsLeft
  BY FewerLookups
<1> QED BY <1>3, <1>4, GossipInvariant, PTL DEF PostSpec, ConfirmsOnceSettled

-------------------------------------------------------------------------------
Accounts == [epoch : Epochs, credits : Nat]
SampleType == [own : Accounts, other : Accounts, steady : BOOLEAN, rank : 1 .. 2]

TailType ==
    /\ at \in {"slot", "report", "hooks", "gossip", "summary", "samples", "close",
               "ended", "listening"}
    /\ startSlot \in {0, StartSlot} /\ endSlot \in 0 .. Word - 1
    /\ slotsDuration \in 0 .. Word - 1
    /\ account \in [{"own", "other"} -> Accounts]
    /\ epoch \in Epochs /\ clock \in 0 .. Interval
    /\ steady \in BOOLEAN /\ sleeping \in BOOLEAN /\ warned \in BOOLEAN
    /\ first \in SampleType /\ last \in SampleType
    /\ count \in Nat /\ tried \in 0 .. count /\ taken \in 1 .. tried + 1
    /\ rankDifference \in -1 .. 1

(* Nothing is reported before its step. *)
InOrder ==
    /\ at \in {"slot", "report", "hooks", "gossip", "summary", "listening"} =>
          slotsDuration = 0 /\ tried = 0
    /\ at \notin {"close", "ended"} => rankDifference = 0

(* An end slot that was asked for is not before the start slot. *)
SlotsInRange ==
    /\ startSlot = 0 \/ endSlot = 0 \/ endSlot \in startSlot .. StartSlot + MaxPassed
    /\ slotsDuration = 0 \/ slotsDuration = (endSlot - startSlot) % Word

(* A rank, and a change of it, is that of the credits sampled. *)
RankOfCredits(sample) ==
    /\ sample.own.credits > sample.other.credits => sample.rank = 1
    /\ sample.other.credits > sample.own.credits => sample.rank = 2

RankReported ==
    /\ RankOfCredits(first) /\ RankOfCredits(last)
    /\ rankDifference # 0 => rankDifference = first.rank - last.rank

(* While the own validator votes, each tick adds to its credits; and a tick *)
(* passes before any sample that is compared with the one before.           *)
Earning ==
    steady => /\ account["own"].epoch = last.own.epoch
              /\ account["own"].credits >= last.own.credits + clock

Paused == taken >= 2 /\ tried < count => sleeping \/ clock >= Interval

TailInv ==
    TailType /\ InOrder /\ SlotsInRange /\ RankReported /\ Earning /\ Paused /\ NoFalseWarning
-------------------------------------------------------------------------------
LEMMA SampleFacts ==
    ASSUME account \in [{"own", "other"} -> Accounts], steady \in BOOLEAN,
           NEW sample \in Samples
    PROVE  /\ sample \in SampleType /\ RankOfCredits(sample)
           /\ sample.own = account["own"] /\ sample.steady = steady
<1>1. PICK f \in BOOLEAN :
         sample = [own |-> account["own"], other |-> account["other"], steady |-> steady,
                   rank |-> creditRank(account["own"].credits, account["other"].credits, f)]
  BY DEF Samples
<1> DEFINE rank == creditRank(account["own"].credits, account["other"].credits, f)
<1>2. account["own"] \in Accounts /\ account["other"] \in Accounts
  OBVIOUS
<1>3. /\ rank \in 1 .. 2
      /\ account["own"].credits > account["other"].credits => rank = 1
      /\ account["other"].credits > account["own"].credits => rank = 2
  BY <1>2 DEF creditRank, Accounts
<1> HIDE DEF rank
<1>4. sample = [own |-> account["own"], other |-> account["other"], steady |-> steady,
                rank |-> rank]
  BY <1>1 DEF rank
<1> QED BY <1>2, <1>3, <1>4 DEF SampleType, RankOfCredits

(* Slots are words: their difference is right unless it is negative. *)
LEMMA WordDifference ==
    ASSUME NEW n \in Int
    PROVE  n % Word \in 0 .. Word - 1 /\ (n \in 0 .. Word - 1 => n % Word = n)
<1>1. Word \in Nat /\ Word > 0
  BY PostAssumption
<1>2. n % Word \in Int /\ n % Word >= 0 /\ n % Word < Word
  BY <1>1, Z3
<1>3. n >= 0 /\ n < Word => n % Word = n
  BY <1>1, Z3
<1> QED BY <1>1, <1>2, <1>3

LEMMA TailStart == PostInit => TailInv
<1> SUFFICES ASSUME PostInit PROVE TailInv
  OBVIOUS
<1>1. account \in [{"own", "other"} -> Accounts]
  <2>1. ASSUME NEW a \in [epoch : {0}, credits : Earned] PROVE a \in Accounts
    <3>1. a = [epoch |-> 0, credits |-> a.credits] /\ a.credits \in Earned
      OBVIOUS
    <3>2. 0 \in Epochs
      BY DEF Epochs
    <3>3. a.credits \in Nat
      <4>1. Earned \subseteq Nat
        BY PostAssumption
      <4> QED BY <3>1, <4>1
    <3> QED BY <3>1, <3>2, <3>3 DEF Accounts
  <2>2. account \in [{"own", "other"} -> [epoch : {0}, credits : Earned]]
    BY DEF PostInit
  <2> QED BY <2>1, <2>2
<1>2. steady \in BOOLEAN /\ sleeping \in BOOLEAN /\ warned \in BOOLEAN
  BY Zenon DEF PostInit
<1>3. /\ first \in SampleType /\ RankOfCredits(first) /\ last = first
      /\ first.own = account["own"]
  BY <1>1, <1>2, SampleFacts DEF PostInit
<1>4. TailType
  <2>1. /\ startSlot \in {0, StartSlot} /\ endSlot \in 0 .. Word - 1
        /\ slotsDuration \in 0 .. Word - 1
    BY PostAssumption DEF PostInit
  <2>2. epoch \in Epochs /\ clock \in 0 .. Interval
    BY PostAssumption DEF PostInit, Epochs
  <2>3. count \in Nat /\ tried \in 0 .. count /\ taken \in 1 .. tried + 1
    BY DEF PostInit
  <2> QED BY <1>1, <1>2, <1>3, <2>1, <2>2, <2>3 DEF PostInit, TailType
<1>5. InOrder /\ SlotsInRange
  BY DEF PostInit, InOrder, SlotsInRange
<1>6. RankReported
  BY <1>3 DEF PostInit, RankReported
<1>7. Earning
  BY <1>1, <1>3 DEF PostInit, Earning, Accounts
<1>8. Paused /\ NoFalseWarning
  BY DEF PostInit, Paused, NoFalseWarning
<1> QED BY <1>4, <1>5, <1>6, <1>7, <1>8 DEF TailInv
(* Steps that only go on to the next. *)
LEMMA GoesOnKeeps ==
    ASSUME TailInv, UNCHANGED <<report, cluster, sampling>>,
           \/ at \in {"slot", "report", "hooks", "gossip"}
                 /\ at' \in {"report", "hooks", "gossip", "summary", "listening"}
           \/ at = "close" /\ at' = "ended"
           \/ at' = at
    PROVE  TailInv'
<1>1. /\ UNCHANGED <<startSlot, endSlot, slotsDuration, account, epoch, clock, steady>>
      /\ UNCHANGED <<count, tried, sleeping, taken, first, last, warned, rankDifference>>
  BY DEF report, cluster, sampling, samples
<1>2. TailType'
  BY <1>1 DEF TailInv, TailType
<1>3. InOrder'
  BY <1>1 DEF TailInv, InOrder
<1>4. SlotsInRange' /\ RankReported' /\ Earning' /\ Paused' /\ NoFalseWarning'
  BY <1>1 DEF TailInv, SlotsInRange, RankReported, RankOfCredits, Earning, Paused, NoFalseWarning
<1> QED BY <1>2, <1>3, <1>4 DEF TailInv

(* The end slot is asked for, and set to the start slot if it lags. *)
LEMMA QuerySlotKeeps == TailInv /\ QuerySlot => TailInv'
<1> SUFFICES ASSUME TailInv, QuerySlot PROVE TailInv'
  OBVIOUS
<1>1. /\ at = "slot" /\ at' = "report"
      /\ UNCHANGED <<startSlot, slotsDuration, account, epoch, clock, steady>>
      /\ UNCHANGED <<count, tried, sleeping, taken, first, last, warned, rankDifference>>
  BY DEF QuerySlot, cluster, sampling, samples
<1>2. \/ endSlot' = endSlot
      \/ endSlot' \in 0 .. StartSlot + MaxPassed
            /\ (startSlot = 0 \/ endSlot' \in startSlot .. StartSlot + MaxPassed)
  BY PostAssumption DEF QuerySlot, TailInv, TailType
<1>3. TailType'
  BY <1>1, <1>2, PostAssumption DEF TailInv, TailType
<1>4. InOrder' /\ SlotsInRange'
  BY <1>1, <1>2 DEF TailInv, InOrder, SlotsInRange
<1>5. RankReported' /\ Earning' /\ Paused' /\ NoFalseWarning'
  BY <1>1 DEF TailInv, RankReported, RankOfCredits, Earning, Paused, NoFalseWarning
<1> QED BY <1>3, <1>4, <1>5 DEF TailInv

(* The duration is the difference of the slots, in the word they come in. *)
LEMMA BuildSummaryKeeps == TailInv /\ BuildSummaryData => TailInv'
<1> SUFFICES ASSUME TailInv, BuildSummaryData PROVE TailInv'
  OBVIOUS
<1>1. /\ at = "summary" /\ at' = "samples" /\ count' \in Counts
      /\ slotsDuration' = (endSlot - startSlot) % Word
      /\ UNCHANGED <<startSlot, endSlot, account, epoch, clock, steady>>
      /\ UNCHANGED <<tried, sleeping, taken, first, last, warned, rankDifference>>
  BY DEF BuildSummaryData, GetFailoverSlotsDuration, cluster, samples
<1>2. slotsDuration' \in 0 .. Word - 1
  <2>1. endSlot - startSlot \in Int
    BY PostAssumption DEF TailInv, TailType
  <2> QED BY <1>1, <2>1, WordDifference
<1>3. tried = 0 /\ taken = 1 /\ rankDifference = 0
  BY <1>1 DEF TailInv, TailType, InOrder
<1>4. TailType'
  BY <1>1, <1>2, <1>3, PostAssumption DEF TailInv, TailType
<1>5. InOrder' /\ SlotsInRange'
  BY <1>1, <1>3 DEF TailInv, InOrder, SlotsInRange
<1>6. RankReported' /\ Earning' /\ Paused' /\ NoFalseWarning'
  BY <1>1, <1>3 DEF TailInv, RankReported, RankOfCredits, Earning, Paused, NoFalseWarning
<1> QED BY <1>4, <1>5, <1>6 DEF TailInv
(* A sample is pulled: the accounts of now become the last sample. *)
LEMMA PullSampleKeeps == TailInv /\ PullSample => TailInv'
<1> SUFFICES ASSUME TailInv, PullSample PROVE TailInv'
  OBVIOUS
<1>1. TailType
  BY DEF TailInv
<1>2. /\ at = "samples" /\ at' = at /\ tried < count /\ Awake
      /\ tried' = tried + 1 /\ taken' = taken + 1
      /\ last' \in Samples /\ clock' = 0
      /\ UNCHANGED <<startSlot, endSlot, slotsDuration>>
      /\ UNCHANGED <<account, epoch, count, first, rankDifference>>
  BY DEF PullSample, report
<1>3. /\ steady' \in BOOLEAN /\ sleeping' \in BOOLEAN /\ warned' \in BOOLEAN
      /\ sleeping' <=> count > 1
      /\ warned' => taken' > 2 /\ last'.own.credits <= last.own.credits
  <2>1. /\ steady' = TRUE /\ sleeping' = (count > 1)
        /\ warned' = (taken' > 2 /\ last'.own.credits <= last.own.credits)
    BY DEF PullSample
  <2>2. (count > 1) \in BOOLEAN
        /\ (taken' > 2 /\ last'.own.credits <= last.own.credits) \in BOOLEAN
    OBVIOUS
  <2>3. steady' \in BOOLEAN /\ sleeping' \in BOOLEAN /\ warned' \in BOOLEAN
    BY <2>1, <2>2, Zenon
  <2>4. sleeping' <=> count > 1
    BY <2>1, Zenon
  <2>5. warned' => taken' > 2 /\ last'.own.credits <= last.own.credits
    BY <2>1, Zenon
  <2> QED BY <2>3, <2>4, <2>5
<1>4. /\ last' \in SampleType /\ RankOfCredits(last')
      /\ last'.own = account["own"] /\ last'.steady = steady
  BY <1>1, <1>2, SampleFacts DEF TailType
<1>5. TailType'
  BY <1>1, <1>2, <1>3, <1>4, PostAssumption DEF TailType
<1>6. InOrder' /\ SlotsInRange'
  BY <1>2 DEF TailInv, InOrder, SlotsInRange
<1>7. RankReported'
  BY <1>2, <1>4 DEF TailInv, InOrder, RankReported, RankOfCredits
<1>8. Earning'
  <2>1. account["own"].credits \in Nat
    BY <1>1 DEF TailType, Accounts
  <2> QED BY <1>2, <1>4, <2>1 DEF Earning
<1>9. Paused'
  BY <1>1, <1>2, <1>3 DEF Paused, TailType
<1>10. NoFalseWarning'
  <2> SUFFICES ASSUME warned', Interval # 0, steady PROVE FALSE
    BY <1>4 DEF NoFalseWarning
  <2>1. clock >= Interval
    BY <1>1, <1>2, <1>3 DEF TailInv, TailType, Paused, Awake
  <2>2. account["own"].credits >= last.own.credits + clock
    BY DEF TailInv, Earning
  <2>3. account["own"].credits \in Nat /\ last.own.credits \in Nat /\ clock \in Nat
    BY <1>1, PostAssumption DEF TailType, Accounts, SampleType
  <2> QED BY <1>3, <1>4, <2>1, <2>2, <2>3, PostAssumption
<1> QED BY <1>5, <1>6, <1>7, <1>8, <1>9, <1>10 DEF TailInv

LEMMA PullSampleFailsKeeps == TailInv /\ PullSampleFails => TailInv'
<1> SUFFICES ASSUME TailInv, PullSampleFails PROVE TailInv'
  OBVIOUS
<1>1. /\ at = "samples" /\ at' = at /\ tried < count /\ Awake
      /\ tried' = tried + 1
      /\ UNCHANGED <<startSlot, endSlot, slotsDuration, account, epoch, clock, steady>>
      /\ UNCHANGED <<count, taken, first, last, warned, rankDifference>>
  BY DEF PullSampleFails, report, cluster, samples
<1>2. sleeping' \in BOOLEAN
  BY Zenon DEF PullSampleFails
<1>3. TailType'
  BY <1>1, <1>2 DEF TailInv, TailType
<1>4. InOrder' /\ SlotsInRange' /\ RankReported' /\ Earning' /\ NoFalseWarning'
  BY <1>1 DEF TailInv, InOrder, SlotsInRange, RankReported, RankOfCredits, Earning, NoFalseWarning
<1>5. Paused'
  BY <1>1 DEF TailInv, TailType, Paused, Awake
<1> QED BY <1>3, <1>4, <1>5 DEF TailInv

LEMMA RankKeeps == TailInv /\ GetVoteCreditRankDifference => TailInv'
<1> SUFFICES ASSUME TailInv, GetVoteCreditRankDifference PROVE TailInv'
  OBVIOUS
<1>1. /\ at' = "close"
      /\ rankDifference' = IF taken < 2 THEN 0 ELSE first.rank - last.rank
      /\ UNCHANGED <<startSlot, endSlot, slotsDuration, account, epoch, clock, steady>>
      /\ UNCHANGED <<count, tried, sleeping, taken, first, last, warned>>
  BY DEF GetVoteCreditRankDifference, report, cluster, samples
<1>2. TailType'
  BY <1>1 DEF TailInv, TailType, SampleType
<1>3. InOrder' /\ SlotsInRange' /\ Earning' /\ Paused' /\ NoFalseWarning'
  BY <1>1 DEF TailInv, InOrder, SlotsInRange, Earning, Paused, NoFalseWarning
<1>4. RankReported'
  BY <1>1 DEF TailInv, RankReported, RankOfCredits
<1> QED BY <1>2, <1>3, <1>4 DEF TailInv

(* The cluster goes on: a validator that is steady earns a credit a tick. *)
LEMMA TickKeeps == TailInv /\ Tick => TailInv'
<1> SUFFICES ASSUME TailInv, Tick PROVE TailInv'
  OBVIOUS
<1>1. TailType
  BY DEF TailInv
<1>2. PICK voters \in SUBSET DOMAIN account :
         /\ account' = [v \in DOMAIN account |->
                          IF v \in voters THEN Voted(account[v]) ELSE account[v]]
         /\ steady' = (steady /\ "own" \in voters /\ account'["own"].epoch = last.own.epoch)
  BY DEF Tick
<1>3. /\ at' = at /\ clock < Interval /\ clock' = clock + 1 /\ epoch' \in Epochs
      /\ UNCHANGED <<startSlot, endSlot, slotsDuration>>
      /\ UNCHANGED <<count, tried, sleeping, taken, first, last, warned, rankDifference>>
  BY DEF Tick, report, sampling, samples
<1>4. ASSUME NEW a \in Accounts
      PROVE  /\ Voted(a) \in Accounts
             /\ Voted(a).epoch = epoch
             /\ a.epoch = epoch => Voted(a).credits = a.credits + 1
  BY <1>1 DEF Voted, TailType, Accounts
<1>5. account' \in [{"own", "other"} -> Accounts]
  BY <1>1, <1>2, <1>4 DEF TailType
<1>6. steady' \in BOOLEAN
  BY <1>2
<1>7. TailType'
  BY <1>1, <1>3, <1>5, <1>6, PostAssumption DEF TailType
<1>8. InOrder' /\ SlotsInRange' /\ RankReported' /\ NoFalseWarning'
  BY <1>3 DEF TailInv, InOrder, SlotsInRange, RankReported, RankOfCredits, NoFalseWarning
<1>9. Earning'
  <2> SUFFICES ASSUME steady'
               PROVE  /\ account'["own"].epoch = last.own.epoch
                      /\ account'["own"].credits >= last.own.credits + clock'
    BY <1>3 DEF Earning
  <2>1. /\ steady /\ "own" \in voters /\ account'["own"].epoch = last.own.epoch
        /\ account["own"] \in Accounts /\ account'["own"] = Voted(account["own"])
    BY <1>1, <1>2 DEF TailType
  <2>2. /\ account["own"].epoch = last.own.epoch
        /\ account["own"].credits >= last.own.credits + clock
    BY <2>1 DEF TailInv, Earning
  <2>3. account'["own"].credits = account["own"].credits + 1
    BY <1>4, <2>1, <2>2
  <2>4. account["own"].credits \in Nat /\ last.own.credits \in Nat /\ clock \in Nat
    BY <1>1, <2>1, PostAssumption DEF TailType, Accounts, SampleType
  <2> QED BY <1>3, <2>1, <2>2, <2>3, <2>4
<1>10. Paused'
  BY <1>1, <1>3, PostAssumption DEF TailInv, TailType, Paused
<1> QED BY <1>7, <1>8, <1>9, <1>10 DEF TailInv

LEMMA TailInvariant == PostSpec => []TailInv
<1>1. TailInv /\ [PostNext]_postVars => TailInv'
  <2> SUFFICES ASSUME TailInv, [PostNext]_postVars PROVE TailInv'
    OBVIOUS
  <2>1. CASE Report
    BY <2>1, GoesOnKeeps DEF Report
  <2>2. CASE RunPostWhenActive
    BY <2>2, GoesOnKeeps DEF RunPostWhenActive
  <2>3. CASE Gossip
    BY <2>3, GoesOnKeeps DEF Gossip
  <2>4. CASE confirmGossipNodesPostFailover
    BY <2>4, GoesOnKeeps DEF confirmGossipNodesPostFailover
  <2>5. CASE ConfirmReturns
    BY <2>5, GoesOnKeeps DEF ConfirmReturns
  <2>6. CASE Shutdown
    BY <2>6, GoesOnKeeps DEF Shutdown
  <2>7. CASE UNCHANGED postVars
    BY <2>7, GoesOnKeeps DEF postVars
  <2>8. CASE \/ QuerySlot \/ BuildSummaryData \/ PullSample \/ PullSampleFails
             \/ GetVoteCreditRankDifference \/ Tick
    BY <2>8, QuerySlotKeeps, BuildSummaryKeeps, PullSampleKeeps, PullSampleFailsKeeps,
       RankKeeps, TickKeeps
  <2> QED
    BY <2>1, <2>2, <2>3, <2>4, <2>5, <2>6, <2>7, <2>8 DEF PostNext, Step
<1> QED BY <1>1, TailStart, PTL DEF PostSpec

(* Every variable of the tail keeps its type, gossip's included, whatever   *)
(* the epochs, credits, slots and numbers of samples.                       *)
THEOREM PostTypeCorrect == PostSpec => []PostTypeOK
<1>1. GossipInv /\ TailInv => PostTypeOK
  <2> SUFFICES ASSUME GossipInv, TailInv PROVE PostTypeOK
    OBVIOUS
  <2>1. TypeOK
    BY DEF GossipInv, ViewType, LoopType, TypeOK
  <2>2. {startSlot, endSlot, slotsDuration} \subseteq 0 .. Word - 1
    BY PostAssumption DEF TailInv, TailType
  <2>3. {first.rank, last.rank} \subseteq 1 .. 2
    BY DEF TailInv, TailType, SampleType
  <2> QED BY <2>1, <2>2, <2>3 DEF TailInv, TailType, Accounts, PostTypeOK
<1> QED BY <1>1, GossipInvariant, TailInvariant, PTL

(* stream.go:317 subtracts unsigned words.  As the end slot is raised   *)
(* to the start slot (server.go:533-541), the difference never wraps around *)
(* between two slots that were set, for slots of every width.               *)
THEOREM SlotsDoNotWrap == PostSpec => []DurationInRange
<1>1. TailInv => DurationInRange
  <2> SUFFICES ASSUME TailInv, slotsDuration > MaxPassed, startSlot # 0, endSlot # 0
               PROVE  FALSE
    BY DEF DurationInRange
  <2>1. /\ startSlot = StartSlot /\ endSlot \in StartSlot .. StartSlot + MaxPassed
        /\ slotsDuration = (endSlot - startSlot) % Word
    BY PostAssumption DEF TailInv, TailType, SlotsInRange
  <2>2. endSlot - startSlot \in 0 .. MaxPassed /\ endSlot - startSlot \in 0 .. Word - 1
    BY <2>1, PostAssumption
  <2>3. slotsDuration = endSlot - startSlot
    BY <2>1, <2>2, WordDifference
  <2> QED BY <2>2, <2>3, PostAssumption
<1> QED BY <1>1, TailInvariant, PTL

(* stream.go:438-459: a pause follows every sample that succeeds, so two    *)
(* samples that are compared lie an interval apart, also when one between   *)
(* them failed; a validator that votes earns a credit in it, if it is not   *)
(* zero, and is not warned of if both samples are of one epoch.             *)
THEOREM WarningIsTrue == PostSpec => []NoFalseWarning
<1>1. TailInv => NoFalseWarning
  BY DEF TailInv
<1> QED BY <1>1, TailInvariant, PTL

(* stream.go:465-475: the change of rank that the summary reports has the   *)
(* direction of what the validators earned.                                 *)
THEOREM RankIsTrue == PostSpec => []RankFollowsCredits
<1>1. TailInv => RankFollowsCredits
  <2> SUFFICES ASSUME TailInv PROVE RankFollowsCredits
    OBVIOUS
  <2>1. /\ first.own.credits \in Nat /\ first.other.credits \in Nat /\ first.rank \in 1 .. 2
        /\ last.own.credits \in Nat /\ last.other.credits \in Nat /\ last.rank \in 1 .. 2
        /\ rankDifference \in Int
    BY DEF TailInv, TailType, SampleType, Accounts
  <2>2. CASE rankDifference > 0
    <3>1. first.rank = 2 /\ last.rank = 1
      BY <2>1, <2>2 DEF TailInv, RankReported
    <3>2. /\ ~(first.own.credits > first.other.credits)
          /\ ~(last.other.credits > last.own.credits)
      BY <3>1 DEF TailInv, RankReported, RankOfCredits
    <3> QED BY <2>1, <2>2, <3>2 DEF RankFollowsCredits
  <2>3. CASE rankDifference < 0
    <3>1. first.rank = 1 /\ last.rank = 2
      BY <2>1, <2>3 DEF TailInv, RankReported
    <3>2. /\ ~(first.other.credits > first.own.credits)
          /\ ~(last.own.credits > last.other.credits)
      BY <3>1 DEF TailInv, RankReported, RankOfCredits
    <3> QED BY <2>1, <2>3, <3>2 DEF RankFollowsCredits
  <2>4. CASE ~(rankDifference > 0) /\ ~(rankDifference < 0)
    BY <2>4 DEF RankFollowsCredits
  <2> QED BY <2>2, <2>3, <2>4
<1> QED BY <1>1, TailInvariant, PTL

(* Where the tail is, and what each of its two loops has left: lookups, and *)
(* samples with the ticks of the pause before the next one.                 *)
StagesLeft ==
    CASE at = "slot" -> 7 [] at = "report" -> 6 [] at = "hooks" -> 5 [] at = "gossip" -> 4
      [] at = "summary" -> 3 [] at = "samples" -> 2 [] at = "close" -> 1 [] OTHER -> 0
SamplesLeft == count - tried
TicksLeft == Interval - clock

(* Every step of the tail, and every tick that it waits for, leaves less of *)
(* these; and gossip takes none of it back.                                 *)
TailSpends ==
    [][/\ Step \/ Tick =>
            \/ StagesLeft' < StagesLeft
            \/ /\ StagesLeft' = StagesLeft
               /\ \/ LookupsLeft' < LookupsLeft
                  \/ /\ LookupsLeft' = LookupsLeft
                     /\ \/ SamplesLeft' < SamplesLeft
                        \/ SamplesLeft' = SamplesLeft /\ TicksLeft' < TicksLeft
       /\ Gossip => UNCHANGED <<StagesLeft, LookupsLeft, SamplesLeft, TicksLeft>>]_postVars

(* What is left is never less than nothing, and the tail waits only for a   *)
(* pause between samples, while ticks are left of it.                       *)
TailGoesOn ==
    /\ LookupsLeft >= 0 /\ TicksLeft >= 0 /\ (at = "samples" => SamplesLeft >= 0)
    /\ at = "samples" /\ ~Awake => TicksLeft > 0

(* server.go:533-798: the tail ends, as none of its steps comes without one *)
(* less to do: a lookup or a sample that fails counts as one that was made. *)
(* This is what TailEnds says but for the scheduling.                       *)
THEOREM TailStepsAreSpent == PostSpec => TailSpends /\ []TailGoesOn
<1>1. ASSUME GossipInv, TailInv, Step \/ Tick
      PROVE  \/ StagesLeft' < StagesLeft
             \/ /\ StagesLeft' = StagesLeft
                /\ \/ LookupsLeft' < LookupsLeft
                   \/ /\ LookupsLeft' = LookupsLeft
                      /\ \/ SamplesLeft' < SamplesLeft
                         \/ SamplesLeft' = SamplesLeft /\ TicksLeft' < TicksLeft
  <2>1. CASE QuerySlot \/ Report \/ RunPostWhenActive \/ ConfirmReturns \/ BuildSummaryData
             \/ GetVoteCreditRankDifference \/ Shutdown
    <3>1. StagesLeft' < StagesLeft
      BY <2>1 DEF QuerySlot, Report, RunPostWhenActive, ConfirmReturns, BuildSummaryData,
         GetVoteCreditRankDifference, Shutdown, StagesLeft
    <3> QED BY <3>1
  <2>2. CASE confirmGossipNodesPostFailover
    <3>1. StagesLeft' = StagesLeft
      BY <2>2 DEF confirmGossipNodesPostFailover, StagesLeft
    <3> QED BY <1>1, <2>2, <3>1, FewerLookups
  <2>3. CASE PullSample \/ PullSampleFails
    <3>1. at' = at /\ UNCHANGED <<pc, retryCount, count>> /\ tried' = tried + 1
      BY <2>3 DEF PullSample, PullSampleFails, samples, vars, loop
    <3>2. StagesLeft' = StagesLeft /\ LookupsLeft' = LookupsLeft
      BY <3>1 DEF StagesLeft, LookupsLeft
    <3>3. SamplesLeft' < SamplesLeft
      BY <1>1, <3>1 DEF TailInv, TailType, SamplesLeft
    <3> QED BY <3>2, <3>3
  <2>4. CASE Tick
    <3>1. UNCHANGED <<at, pc, retryCount, count, tried>> /\ clock' = clock + 1
      BY <2>4 DEF Tick, sampling, vars, loop
    <3>2. StagesLeft' = StagesLeft /\ LookupsLeft' = LookupsLeft /\ SamplesLeft' = SamplesLeft
      BY <3>1 DEF StagesLeft, LookupsLeft, SamplesLeft
    <3>3. TicksLeft' < TicksLeft
      BY <1>1, <3>1, PostAssumption DEF TailInv, TailType, TicksLeft
    <3> QED BY <3>2, <3>3
  <2> QED BY <1>1, <2>1, <2>2, <2>3, <2>4 DEF Step
<1>2. Gossip => UNCHANGED <<StagesLeft, LookupsLeft, SamplesLeft, TicksLeft>>
  <2> SUFFICES ASSUME Gossip
               PROVE  UNCHANGED <<StagesLeft, LookupsLeft, SamplesLeft, TicksLeft>>
    OBVIOUS
  <2>1. UNCHANGED <<at, pc, retryCount, count, tried, clock>>
    BY DEF Gossip, Appear, Expire, loop, cluster, sampling
  <2> QED BY <2>1 DEF StagesLeft, LookupsLeft, SamplesLeft, TicksLeft
<1>3. GossipInv /\ TailInv => TailGoesOn
  <2> SUFFICES ASSUME GossipInv, TailInv PROVE TailGoesOn
    OBVIOUS
  <2>1. retryCount \in 0 .. maxRetries /\ clock \in 0 .. Interval /\ tried \in 0 .. count
        /\ count \in Nat /\ Interval \in Nat
    BY PostAssumption DEF GossipInv, LoopType, TailInv, TailType
  <2> QED BY <2>1 DEF TailGoesOn, LookupsLeft, maxRetries, TicksLeft, SamplesLeft, Awake
<1> QED BY <1>1, <1>2, <1>3, GossipInvariant, TailInvariant, PTL DEF PostSpec, TailSpends
===============================================================================
