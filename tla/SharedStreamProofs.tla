-------------------------- MODULE SharedStreamProofs --------------------------
(***************************************************************************)
(* Handlers that meet on one stream, for any number of runs of the client   *)
(* and whichever commands fail.                                             *)
(***************************************************************************)
EXTENDS SharedStream, TLAPS

Requests == {"request", "tower"}
Replies == {"proceed", "refuse", "success", "rollback", "unreadable"}

Queued(queue, m) == \E i \in DOMAIN queue : queue[i] = m

(* Some handler has told a client to roll back. *)
RollingBack == \E h \in Runs : hpc[h] \in {"revert", "reverted", "unreverted"}

(* The new host has been made active; only a handler's rollback undoes it.  *)
HandedOver ==
    identity["new"] = "active" \/ \E h \in Runs : hpc[h] \in {"reverted", "unreverted"}

StreamSet == \A h \in Runs : hpc[h] # "off" => current \in Runs

(* A run begins when those before it have ended, none of them with success. *)
OneClient ==
    \A q, r \in Runs : q < r /\ cpc[r] # "off" => cpc[q] = "ended"

(* Between a client's step and its rollback the old host is passive. *)
OldIsPassive ==
    \A r \in Runs :
        cpc[r] \in {"sendTower", "result", "revert", "complete"} => identity["old"] = "passive"

(* Nobody rolls back who was not told to. *)
RollbackTold ==
    \A r \in Runs : cpc[r] = "revert" \/ Queued(toClient[r], "rollback") => RollingBack

(* A tower comes from a client that is passive; and no handler goes on      *)
(* without one.                                                             *)
TowerFromPassive ==
    /\ identity["old"] = "active" /\ ~RollingBack =>
          \A r \in Runs : "tower" \notin got[r] /\ ~Queued(toServer[r], "tower")
    /\ \A h \in Runs : hpc[h] = "goActive" => \E r \in Runs : "tower" \in got[r]

RevertedIsOver ==
    \A h \in Runs :
        /\ hpc[h] \in {"reverted", "unreverted"} => exited
        /\ hpc[h] = "reverted" => identity["new"] = "passive"

(* Success is told only of a host that was made active. *)
SuccessIsTrue ==
    \A r \in Runs :
        hpc[r] = "report" \/ cpc[r] = "complete" \/ Queued(toClient[r], "success") => HandedOver

StreamInv ==
    /\ TypeOK /\ StreamSet /\ OneClient /\ OldIsPassive /\ RollbackTold
    /\ TowerFromPassive /\ RevertedIsOver /\ SuccessIsTrue /\ TwoActiveOnlyUnreverted
-------------------------------------------------------------------------------
LEMMA AppendQueued ==
    ASSUME NEW S, NEW queue \in Seq(S), NEW m \in S
    PROVE  /\ Append(queue, m) \in Seq(S)
           /\ \A x : Queued(Append(queue, m), x) <=> Queued(queue, x) \/ x = m
<1>1. /\ Append(queue, m) \in Seq(S) /\ Len(Append(queue, m)) = Len(queue) + 1
      /\ \A i \in 1 .. Len(queue) : Append(queue, m)[i] = queue[i]
      /\ Append(queue, m)[Len(queue) + 1] = m
      /\ Len(queue) \in Nat
  OBVIOUS
<1> QED BY <1>1 DEF Queued

LEMMA TakeQueued ==
    ASSUME NEW S, NEW queue \in Seq(S), queue # <<>>
    PROVE  /\ Head(queue) \in S /\ Queued(queue, Head(queue))
           /\ Tail(queue) \in Seq(S)
           /\ \A x : Queued(Tail(queue), x) => Queued(queue, x)
<1>1. /\ Tail(queue) \in Seq(S) /\ Len(Tail(queue)) = Len(queue) - 1
      /\ \A i \in 1 .. Len(queue) - 1 : Tail(queue)[i] = queue[i + 1]
      /\ Len(queue) \in Nat /\ Len(queue) >= 1
      /\ Head(queue) = queue[1]
  OBVIOUS
<1>2. ASSUME NEW x, Queued(Tail(queue), x) PROVE Queued(queue, x)
  <2>1. PICK i \in 1 .. Len(queue) - 1 : Tail(queue)[i] = x
    BY <1>1, <1>2 DEF Queued
  <2>2. i + 1 \in 1 .. Len(queue) /\ queue[i + 1] = x
    BY <1>1, <2>1
  <2> QED BY <2>2 DEF Queued
<1>3. 1 \in DOMAIN queue
  BY <1>1
<1> QED BY <1>1, <1>2, <1>3 DEF Queued

(* What is sent is the message, or one that nobody can read. *)
LEMMA SendQueued ==
    ASSUME toClient \in [Runs -> Seq(Replies)], NEW k \in Runs, NEW m \in Replies
    PROVE  /\ Send(k, m) \in [Runs -> Seq(Replies)]
           /\ \A r \in Runs : \A x : Queued(Send(k, m)[r], x)
                 => Queued(toClient[r], x) \/ x \in {m, "unreadable"}
<1> DEFINE sent == IF "request" \in got[k] THEN m ELSE "unreadable"
<1>1. sent \in Replies /\ sent \in {m, "unreadable"}
  BY DEF Replies
<1> HIDE DEF sent
<1>2. /\ Append(toClient[k], sent) \in Seq(Replies)
      /\ \A x : Queued(Append(toClient[k], sent), x) <=> Queued(toClient[k], x) \/ x = sent
  BY <1>1, AppendQueued
<1>3. Send(k, m) = IF ~Writable(k) THEN toClient
                   ELSE [toClient EXCEPT ![k] = Append(@, sent)]
  BY DEF Send, sent
<1> QED BY <1>1, <1>2, <1>3

LEMMA StreamStart == Init => StreamInv
<1> SUFFICES ASSUME Init PROVE StreamInv
  OBVIOUS
<1>1. \A r \in Runs : /\ cpc[r] = "off" /\ hpc[r] = "off" /\ got[r] = {}
                      /\ toServer[r] = <<>> /\ toClient[r] = <<>>
  BY DEF Init
<1>2. TypeOK
  <2>1. exited \in BOOLEAN
    BY Zenon DEF Init
  <2>2. /\ toServer \in [Runs -> Seq(Requests)] /\ toClient \in [Runs -> Seq(Replies)]
        /\ cpc \in [Runs -> ClientSteps] /\ hpc \in [Runs -> HandlerSteps]
    BY DEF Init, ClientSteps, HandlerSteps, HandlerEnded
  <2> QED BY <2>1, <2>2 DEF Init, TypeOK, Requests, Replies
<1>3. \A x : ~Queued(<<>>, x)
  BY DEF Queued
<1> QED
  BY <1>1, <1>2, <1>3 DEF Init, StreamInv, StreamSet, OneClient, OldIsPassive, RollbackTold,
     TowerFromPassive, RevertedIsOver, SuccessIsTrue, TwoActiveOnlyUnreverted
-------------------------------------------------------------------------------
(* While one client is at work the others have ended, or not begun.         *)
Alone(r) == \A q \in Runs \ {r} : cpc[q] = IF q < r THEN "ended" ELSE "off"

LEMMA ClientsAlone ==
    ASSUME StreamInv, NEW r \in Runs,
           \/ cpc[r] \notin {"off"} \cup ClientEnded
           \/ /\ cpc[r] = "off" /\ identity["old"] = "active"
              /\ \A q \in 1 .. r - 1 : cpc[q] \in ClientEnded
    PROVE  Alone(r)
<1>1. \A q \in Runs : q > r => cpc[q] = "off"
  BY DEF StreamInv, OneClient, ClientEnded, Runs
<1>2. \A q \in Runs : q < r => cpc[q] = "ended"
  <2>1. CASE cpc[r] # "off"
    BY <2>1 DEF StreamInv, OneClient
  <2>2. CASE cpc[r] = "off"
    <3>1. \A q \in Runs : q < r => q \in 1 .. r - 1
      BY MaxRunsAssumption DEF Runs
    <3>2. \A q \in Runs : cpc[q] # "complete"
      BY <2>2 DEF StreamInv, OldIsPassive, ClientEnded
    <3> QED BY <2>2, <3>1, <3>2 DEF ClientEnded
  <2> QED BY <2>1, <2>2
<1>3. \A q \in Runs : q < r \/ q > r \/ q = r
  BY MaxRunsAssumption DEF Runs
<1>4. \A q \in Runs : ~(q < r /\ q > r)
  BY MaxRunsAssumption DEF Runs
<1> QED BY <1>1, <1>2, <1>3, <1>4 DEF Alone

(* A step of the client of run r, when it is alone: what it may not do. *)
LEMMA ClientKeeps ==
    ASSUME StreamInv, NEW r \in Runs, Alone(r),
           NEW step \in ClientSteps \ {"off"}, cpc' = [cpc EXCEPT ![r] = step],
           UNCHANGED <<towerFile, hpc, current, reading, got, exited>>,
           identity' \in [{"old", "new"} -> {"active", "passive"}],
           identity'["new"] = identity["new"],
           identity'["old"] = "active" => identity["old"] = "active" \/ RollingBack,
           step \in {"sendTower", "result", "revert", "complete"} => identity'["old"] = "passive",
           step = "revert" => RollingBack,
           step = "complete" => HandedOver,
           toServer' \in [Runs -> Seq(Requests)],
           \A q \in Runs : Queued(toServer'[q], "tower") =>
               Queued(toServer[q], "tower") \/ identity'["old"] = "passive",
           toClient' \in [Runs -> Seq(Replies)],
           \A q \in Runs : \A x : Queued(toClient'[q], x) => Queued(toClient[q], x)
    PROVE  StreamInv'
<1>1. /\ cpc'[r] = step /\ \A q \in Runs \ {r} : cpc'[q] = cpc[q] /\ cpc[q] \in {"off", "ended"}
      /\ cpc' \in [Runs -> ClientSteps]
  BY DEF StreamInv, TypeOK, Alone
<1>2. (RollingBack' <=> RollingBack) /\ (HandedOver' <=> HandedOver)
  BY DEF RollingBack, HandedOver
<1>3. TypeOK'
  BY <1>1 DEF StreamInv, TypeOK, Requests, Replies
<1>4. StreamSet' /\ RevertedIsOver'
  BY DEF StreamInv, StreamSet, RevertedIsOver
<1>5. OneClient'
  <2>1. ASSUME NEW p \in Runs, NEW q \in Runs, p < q, cpc'[q] # "off"
        PROVE  cpc'[p] = "ended"
    <3>1. CASE q = r
      BY <1>1, <2>1, <3>1 DEF Alone, Runs
    <3>2. CASE q # r
      <4>1. cpc[q] # "off"
        BY <1>1, <2>1, <3>2
      <4>2. q < r
        BY <3>2, <4>1 DEF Alone
      <4>3. p # r /\ p < r
        BY <2>1, <4>2, MaxRunsAssumption DEF Runs
      <4> QED BY <1>1, <4>3 DEF Alone
    <3> QED BY <3>1, <3>2
  <2> QED BY <2>1 DEF OneClient
<1>6. OldIsPassive'
  BY <1>1 DEF StreamInv, OldIsPassive
<1>7. RollbackTold' /\ SuccessIsTrue'
  BY <1>1, <1>2 DEF StreamInv, RollbackTold, SuccessIsTrue
<1>8. TowerFromPassive'
  BY <1>2 DEF StreamInv, TowerFromPassive
<1>9. TwoActiveOnlyUnreverted'
  BY DEF StreamInv, TwoActiveOnlyUnreverted, RevertedIsOver, RollingBack
<1> QED BY <1>3, <1>4, <1>5, <1>6, <1>7, <1>8, <1>9 DEF StreamInv

(* A step of the handler h, before the server has exited. *)
LEMMA HandlerKeeps ==
    ASSUME StreamInv, ~exited, NEW h \in Runs,
           NEW step \in HandlerSteps \ {"off"}, hpc' = [hpc EXCEPT ![h] = step],
           UNCHANGED cpc,
           towerFile' \in {"empty", "synced"}, exited' \in BOOLEAN,
           current' \in Runs,
           reading' \in [Runs -> {0} \cup Runs],
           hpc[h] = "revert" => step \in {"reverted", "unreverted"},
           step \in {"reverted", "unreverted"} => exited',
           step = "reverted" => identity'["new"] = "passive",
           step = "report" => identity'["new"] = "active",
           identity' \in [{"old", "new"} -> {"active", "passive"}],
           identity'["old"] = identity["old"],
           identity["new"] = "active" =>
               identity'["new"] = "active" \/ step \in {"reverted", "unreverted"},
           identity'["new"] = "active" =>
               identity["new"] = "active" \/ step = "revert" \/ hpc[h] = "goActive",
           got' \in [Runs -> SUBSET Requests],
           \A r \in Runs : got[r] \subseteq got'[r],
           toServer' \in [Runs -> Seq(Requests)],
           \A r \in Runs : "tower" \in got'[r] \/ Queued(toServer'[r], "tower") =>
               \E q \in Runs : "tower" \in got[q] \/ Queued(toServer[q], "tower"),
           step = "goActive" => \E r \in Runs : "tower" \in got'[r],
           toClient' \in [Runs -> Seq(Replies)],
           \A r \in Runs : Queued(toClient'[r], "rollback") =>
               Queued(toClient[r], "rollback") \/ step = "revert",
           \A r \in Runs : Queued(toClient'[r], "success") =>
               Queued(toClient[r], "success") \/ hpc[h] = "report"
    PROVE  StreamInv'
<1>1. /\ hpc'[h] = step /\ \A g \in Runs \ {h} : hpc'[g] = hpc[g]
      /\ hpc' \in [Runs -> HandlerSteps]
      /\ \A g \in Runs : hpc[g] \notin {"reverted", "unreverted"}
  BY DEF StreamInv, TypeOK, RevertedIsOver
<1>2. (RollingBack => RollingBack') /\ (step = "revert" => RollingBack')
  BY <1>1 DEF RollingBack
<1>3. HandedOver => HandedOver'
  BY <1>1 DEF HandedOver
<1>4. TypeOK'
  BY <1>1 DEF StreamInv, TypeOK, Requests, Replies
<1>5. StreamSet' /\ OneClient' /\ OldIsPassive'
  BY <1>1 DEF StreamInv, StreamSet, OneClient, OldIsPassive
<1>6. RollbackTold'
  BY <1>2 DEF StreamInv, RollbackTold
<1>7. TowerFromPassive'
  BY <1>1, <1>2 DEF StreamInv, TowerFromPassive
<1>8. SuccessIsTrue'
  BY <1>1, <1>3 DEF StreamInv, SuccessIsTrue, HandedOver
<1>9. TwoActiveOnlyUnreverted'
  <2> SUFFICES ASSUME identity["old"] = "active", identity'["new"] = "active"
               PROVE  /\ \E g \in Runs : hpc'[g] \in {"revert", "unreverted"}
                      /\ \A g \in Runs : hpc'[g] # "reverted"
    BY DEF TwoActiveOnlyUnreverted
  <2>1. step # "reverted" /\ \A g \in Runs : hpc'[g] # "reverted"
    BY <1>1
  <2>2. CASE step = "revert"
    BY <1>1, <2>1, <2>2
  <2>3. CASE \E g \in Runs : hpc[g] = "revert"
    BY <1>1, <2>1, <2>3
  <2>4. CASE ~\E g \in Runs : hpc[g] = "revert"
    <3>1. ~RollingBack
      BY <1>1, <2>4 DEF RollingBack
    <3>2. identity["new"] # "active"
      BY <1>1, <2>4 DEF StreamInv, TwoActiveOnlyUnreverted
    <3>3. hpc[h] # "goActive"
      BY <3>1 DEF StreamInv, TowerFromPassive
    <3> QED BY <2>2, <3>2, <3>3
  <2> QED BY <2>3, <2>4
<1>10. RevertedIsOver'
  BY <1>1 DEF RevertedIsOver
<1> QED BY <1>4, <1>5, <1>6, <1>7, <1>8, <1>9, <1>10 DEF StreamInv
-------------------------------------------------------------------------------
(* The steps of the client of run r. *)
LEMMA StreamFacts ==
    ASSUME StreamInv
    PROVE  /\ identity \in [{"old", "new"} -> {"active", "passive"}]
           /\ toServer \in [Runs -> Seq(Requests)] /\ toClient \in [Runs -> Seq(Replies)]
           /\ cpc \in [Runs -> ClientSteps] /\ hpc \in [Runs -> HandlerSteps]
           /\ got \in [Runs -> SUBSET Requests] /\ exited \in BOOLEAN
           /\ towerFile \in {"empty", "synced"} /\ reading \in [Runs -> {0} \cup Runs]
           /\ current \in {0} \cup Runs
BY DEF StreamInv, TypeOK, Requests, Replies

LEMMA ClientStartKeeps ==
    ASSUME StreamInv, NEW r \in Runs, ClientStart(r)
    PROVE  StreamInv'
<1>1. /\ cpc[r] = "off" /\ \A q \in 1 .. r - 1 : cpc[q] \in ClientEnded
      /\ identity["old"] = "active"
      /\ cpc' = [cpc EXCEPT ![r] = "signal"]
      /\ toServer' = [toServer EXCEPT ![r] = <<"request">>]
      /\ UNCHANGED <<identity, towerFile, hpc, current, reading, got, toClient, exited>>
  BY DEF ClientStart, host
<1>2. Alone(r)
  BY <1>1, ClientsAlone
<1>3. /\ <<"request">> \in Seq(Requests) /\ ~Queued(<<"request">>, "tower")
      /\ "signal" \in ClientSteps
  BY DEF Requests, Queued, ClientSteps
<1>4. /\ toServer' \in [Runs -> Seq(Requests)]
      /\ \A q \in Runs : Queued(toServer'[q], "tower") => Queued(toServer[q], "tower")
  BY <1>1, <1>3, StreamFacts
<1>5. /\ cpc' = [cpc EXCEPT ![r] = "signal"]
      /\ UNCHANGED <<identity, towerFile, hpc, current, reading, got, toClient, exited>>
  BY <1>1
<1>6. "signal" \in ClientSteps \ {"off"}
  BY DEF ClientSteps
<1> QED BY <1>2, <1>4, <1>5, <1>6, StreamFacts, ClientKeeps

(* A client that takes a message from its stream. *)
LEMMA ClientReceives ==
    ASSUME StreamInv, NEW r \in Runs, toClient[r] # <<>>,
           toClient' = [toClient EXCEPT ![r] = Tail(@)]
    PROVE  /\ Queued(toClient[r], Head(toClient[r]))
           /\ toClient' \in [Runs -> Seq(Replies)]
           /\ \A q \in Runs : \A x : Queued(toClient'[q], x) => Queued(toClient[q], x)
<1>1. /\ Queued(toClient[r], Head(toClient[r])) /\ Tail(toClient[r]) \in Seq(Replies)
      /\ \A x : Queued(Tail(toClient[r]), x) => Queued(toClient[r], x)
  BY StreamFacts, TakeQueued
<1> QED BY <1>1, StreamFacts

LEMMA ClientStepKeeps ==
    ASSUME StreamInv, NEW r \in Runs, Client(r) \/ ClientKilled(r)
    PROVE  StreamInv'
<1>1. /\ UNCHANGED <<towerFile, hpc, current, reading, got, exited>>
      /\ cpc[r] \notin {"off"} \cup ClientEnded
  BY DEF Client, ClientRecvSignal, ClientGoPassive, ClientGoPassiveFails, ClientSendTower,
         ClientRecvResult, ClientRevert, ClientReadFails, ClientKilled, host, streams, ClientEnded
<1>2. Alone(r)
  BY <1>1, ClientsAlone
<1>3. {"goPassive", "ended", "sendTower", "result", "revert", "complete"} \subseteq ClientSteps \ {"off"}
  BY DEF ClientSteps, ClientEnded
<1>4. CASE ClientKilled(r) \/ ClientReadFails(r)
  <2>1. cpc' = [cpc EXCEPT ![r] = "ended"] /\ UNCHANGED <<identity, toServer, toClient>>
    BY <1>4 DEF ClientKilled, ClientReadFails, host, streams
  <2> QED BY <1>1, <1>2, <1>3, <2>1, StreamFacts, ClientKeeps
<1>5. CASE ClientRecvSignal(r)
  <2>1. PICK step \in {"goPassive", "ended"} : cpc' = [cpc EXCEPT ![r] = step]
    BY <1>5 DEF ClientRecvSignal
  <2>2. /\ UNCHANGED <<identity, toServer>>
        /\ toClient[r] # <<>> /\ toClient' = [toClient EXCEPT ![r] = Tail(@)]
    BY <1>5 DEF ClientRecvSignal, host
  <2>3. /\ toClient' \in [Runs -> Seq(Replies)]
        /\ \A q \in Runs : \A x : Queued(toClient'[q], x) => Queued(toClient[q], x)
    BY <2>2, ClientReceives
  <2>4. /\ identity' \in [{"old", "new"} -> {"active", "passive"}]
        /\ toServer' \in [Runs -> Seq(Requests)]
        /\ step \in ClientSteps \ {"off"}
    BY <1>3, <2>2, StreamFacts
  <2> QED BY <1>1, <1>2, <2>1, <2>2, <2>3, <2>4, ClientKeeps
<1>6. CASE ClientGoPassive(r)
  <2>1. /\ cpc' = [cpc EXCEPT ![r] = "sendTower"] /\ UNCHANGED <<toServer, toClient>>
        /\ identity' = [identity EXCEPT !["old"] = "passive"]
    BY <1>6 DEF ClientGoPassive, streams
  <2>2. /\ identity' \in [{"old", "new"} -> {"active", "passive"}]
        /\ identity'["new"] = identity["new"] /\ identity'["old"] = "passive"
    BY <2>1, StreamFacts
  <2> QED BY <1>1, <1>2, <1>3, <2>1, <2>2, StreamFacts, ClientKeeps
<1>7. CASE ClientSendTower(r)
  <2>1. /\ cpc[r] = "sendTower" /\ cpc' = [cpc EXCEPT ![r] = "result"]
        /\ toServer' = [toServer EXCEPT ![r] = Append(@, "tower")]
        /\ UNCHANGED <<identity, toClient>>
    BY <1>7 DEF ClientSendTower, host
  <2>2. identity["old"] = "passive"
    BY <2>1 DEF StreamInv, OldIsPassive
  <2>3. toServer' \in [Runs -> Seq(Requests)]
    <3>1. Append(toServer[r], "tower") \in Seq(Requests)
      BY StreamFacts, AppendQueued DEF Requests
    <3> QED BY <2>1, <3>1, StreamFacts
  <2>4. \A q \in Runs : Queued(toServer'[q], "tower") =>
            Queued(toServer[q], "tower") \/ identity'["old"] = "passive"
    BY <2>1, <2>2
  <2>5. /\ identity' \in [{"old", "new"} -> {"active", "passive"}]
        /\ toClient' \in [Runs -> Seq(Replies)] /\ "result" \in ClientSteps \ {"off"}
    BY <1>3, <2>1, StreamFacts
  <2> QED BY <1>1, <1>2, <2>1, <2>2, <2>3, <2>4, <2>5, ClientKeeps
<1>8. CASE ClientRecvResult(r)
  <2>1. PICK step \in {"complete", "revert", "ended"} :
           /\ cpc' = [cpc EXCEPT ![r] = step]
           /\ step = "complete" => Head(toClient[r]) = "success"
           /\ step = "revert" => Head(toClient[r]) = "rollback"
    BY <1>8 DEF ClientRecvResult
  <2>2. /\ UNCHANGED <<identity, toServer>> /\ cpc[r] = "result"
        /\ toClient[r] # <<>> /\ toClient' = [toClient EXCEPT ![r] = Tail(@)]
    BY <1>8 DEF ClientRecvResult, host
  <2>3. identity["old"] = "passive"
    BY <2>2 DEF StreamInv, OldIsPassive
  <2>4. Queued(toClient[r], Head(toClient[r]))
    BY <2>2, ClientReceives
  <2>5. (step = "complete" => HandedOver) /\ (step = "revert" => RollingBack)
    BY <2>1, <2>4 DEF StreamInv, SuccessIsTrue, RollbackTold
  <2>6. /\ toClient' \in [Runs -> Seq(Replies)]
        /\ \A q \in Runs : \A x : Queued(toClient'[q], x) => Queued(toClient[q], x)
    BY <2>2, ClientReceives
  <2>7. /\ identity' \in [{"old", "new"} -> {"active", "passive"}]
        /\ toServer' \in [Runs -> Seq(Requests)] /\ step \in ClientSteps \ {"off"}
    BY <1>3, <2>2, StreamFacts
  <2> QED BY <1>1, <1>2, <2>1, <2>2, <2>3, <2>5, <2>6, <2>7, ClientKeeps
<1>9. CASE ClientRevert(r)
  <2>1. /\ cpc[r] = "revert" /\ cpc' = [cpc EXCEPT ![r] = "ended"]
        /\ UNCHANGED <<toServer, toClient>>
        /\ identity' = identity \/ identity' = [identity EXCEPT !["old"] = "active"]
    BY <1>9 DEF ClientRevert, CommandFails, streams
  <2>2. /\ identity' \in [{"old", "new"} -> {"active", "passive"}]
        /\ identity'["new"] = identity["new"]
    BY <2>1, StreamFacts
  <2>3. RollingBack
    BY <2>1 DEF StreamInv, RollbackTold
  <2> QED BY <1>1, <1>2, <1>3, <2>1, <2>2, <2>3, StreamFacts, ClientKeeps
<1>10. CASE ClientGoPassiveFails(r)
  <2>1. /\ cpc' = [cpc EXCEPT ![r] = "ended"] /\ UNCHANGED <<toServer, toClient>>
        /\ identity' = identity \/ identity' = [identity EXCEPT !["old"] = "passive"]
    BY <1>10 DEF ClientGoPassiveFails, CommandFails, streams
  <2>2. /\ identity' \in [{"old", "new"} -> {"active", "passive"}]
        /\ identity'["new"] = identity["new"]
        /\ identity'["old"] = "active" => identity["old"] = "active"
    BY <2>1, StreamFacts
  <2> QED BY <1>1, <1>2, <1>3, <2>1, <2>2, StreamFacts, ClientKeeps
<1> QED BY <1>4, <1>5, <1>6, <1>7, <1>8, <1>9, <1>10 DEF Client
-------------------------------------------------------------------------------
(* The steps of the handler h. *)
LEMMA SendKeeps ==
    ASSUME StreamInv, current \in Runs, NEW m \in Replies, toClient' = Send(current, m)
    PROVE  /\ toClient' \in [Runs -> Seq(Replies)]
           /\ \A r \in Runs : \A x : Queued(toClient'[r], x)
                 => Queued(toClient[r], x) \/ x \in {m, "unreadable"}
BY StreamFacts, SendQueued

LEMMA HandlerStepKeeps ==
    ASSUME StreamInv, NEW h \in Runs, Handler(h)
    PROVE  StreamInv'
<1>1. ~exited /\ UNCHANGED cpc
  BY DEF Handler, Accept, DecodeBegins, DecodeReturns, DecodeFails, Validate, Prepare, PrepareFails,
         Proceed, WriteTower, GoActive, GoActiveFails, Revert, Report, Post
<1>2. hpc[h] # "off" => current \in Runs
  BY DEF StreamInv, StreamSet
<1>3. HandlerSteps = {"decode", "validate", "prepare", "proceed", "recvTower", "writeTower",
                      "goActive", "revert", "report", "post", "off", "closed", "reverted",
                      "unreverted"}
  BY DEF HandlerSteps, HandlerEnded
<1>4. Replies = {"proceed", "refuse", "success", "rollback", "unreadable"}
  BY DEF Replies
<1>5. CASE Accept(h)
  <2>1. /\ hpc[h] = "off" /\ hpc' = [hpc EXCEPT ![h] = "decode"] /\ current' = h
        /\ UNCHANGED <<identity, towerFile, reading, got, toServer, toClient, exited>>
    BY <1>5 DEF Accept, host, streams
  <2> QED BY <1>1, <1>3, <2>1, StreamFacts, HandlerKeeps
<1>6. CASE DecodeBegins(h)
  <2>1. /\ hpc[h] \in {"decode", "recvTower"}
        /\ reading' = [reading EXCEPT ![h] = current]
        /\ UNCHANGED <<identity, towerFile, hpc, current, got, toServer, toClient, exited>>
    BY <1>6 DEF DecodeBegins, host, streams
  <2>2. hpc' = [hpc EXCEPT ![h] = hpc[h]] /\ reading' \in [Runs -> {0} \cup Runs]
    BY <1>2, <2>1, StreamFacts
  <2>3. /\ identity' \in [{"old", "new"} -> {"active", "passive"}]
        /\ towerFile' \in {"empty", "synced"} /\ exited' \in BOOLEAN /\ current' \in Runs
        /\ got' \in [Runs -> SUBSET Requests]
        /\ toServer' \in [Runs -> Seq(Requests)] /\ toClient' \in [Runs -> Seq(Replies)]
    BY <1>2, <2>1, StreamFacts
  <2> QED BY <1>1, <1>3, <2>1, <2>2, <2>3, StreamFacts, HandlerKeeps
<1>7. CASE DecodeReturns(h)
  <2>1. /\ hpc[h] \in {"decode", "recvTower"} /\ reading[h] # 0
        /\ toServer[reading[h]] # <<>>
        /\ got' = [got EXCEPT ![reading[h]] = @ \cup {Head(toServer[reading[h]])}]
        /\ toServer' = [toServer EXCEPT ![reading[h]] = Tail(@)]
        /\ hpc' = [hpc EXCEPT ![h] = IF @ = "decode" THEN "validate" ELSE "writeTower"]
        /\ reading' = [reading EXCEPT ![h] = 0]
        /\ UNCHANGED <<identity, towerFile, current, toClient, exited>>
    BY <1>7 DEF DecodeReturns, host
  <2>2. PICK k \in Runs : k = reading[h]
    BY <2>1, StreamFacts
  <2>3. PICK step \in {"validate", "writeTower"} : hpc' = [hpc EXCEPT ![h] = step]
    BY <2>1
  <2>4. /\ Head(toServer[k]) \in Requests /\ Queued(toServer[k], Head(toServer[k]))
        /\ Tail(toServer[k]) \in Seq(Requests)
        /\ \A x : Queued(Tail(toServer[k]), x) => Queued(toServer[k], x)
    BY <2>1, <2>2, StreamFacts, TakeQueued
  <2>5. /\ got' \in [Runs -> SUBSET Requests] /\ toServer' \in [Runs -> Seq(Requests)]
        /\ reading' \in [Runs -> {0} \cup Runs]
    BY <2>1, <2>2, <2>4, StreamFacts
  <2>6. \A r \in Runs : /\ got'[r] = IF r = k THEN got[k] \cup {Head(toServer[k])} ELSE got[r]
                        /\ toServer'[r] = IF r = k THEN Tail(toServer[k]) ELSE toServer[r]
    BY <2>1, <2>2, StreamFacts
  <2>7. \A r \in Runs : "tower" \in got'[r] \/ Queued(toServer'[r], "tower") =>
           "tower" \in got[r] \/ Queued(toServer[r], "tower")
    BY <2>4, <2>6
  <2>8. \A r \in Runs : got[r] \subseteq got'[r]
    BY <2>6
  <2>9. /\ hpc[h] \in {"decode", "recvTower"} /\ current \in Runs
        /\ UNCHANGED <<identity, towerFile, current, toClient, exited>>
    BY <1>2, <2>1
  <2> QED BY <1>1, <1>3, <2>3, <2>5, <2>7, <2>8, <2>9, StreamFacts, HandlerKeeps
<1>8. CASE DecodeFails(h) \/ Prepare(h) \/ Post(h)
  <2>1. PICK step \in {"closed", "proceed"} : hpc' = [hpc EXCEPT ![h] = step]
    BY <1>8 DEF DecodeFails, Prepare, Post
  <2>2. /\ hpc[h] \in {"decode", "recvTower", "prepare", "post"}
        /\ towerFile' \in {"empty", "synced"}
        /\ UNCHANGED <<identity, current, reading, got, toServer, toClient>>
    BY <1>8, StreamFacts DEF DecodeFails, Prepare, Post, host, streams
  <2>3. exited' \in BOOLEAN
    <3>1. exited' = exited \/ exited' = TRUE
      BY <1>8 DEF DecodeFails, Prepare, Post
    <3> QED BY <3>1, StreamFacts, Zenon
  <2> QED BY <1>1, <1>2, <1>3, <2>1, <2>2, <2>3, StreamFacts, HandlerKeeps
<1>9. CASE Validate(h)
  <2>1. PICK step \in {"prepare", "closed"} : hpc' = [hpc EXCEPT ![h] = step]
    BY <1>9 DEF Validate
  <2>2. /\ hpc[h] = "validate"
        /\ UNCHANGED <<identity, towerFile, current, reading, got, toServer>>
        /\ toClient' = toClient \/ toClient' = Send(current, "refuse")
    BY <1>9 DEF Validate, host
  <2>3. exited' \in BOOLEAN
    <3>1. exited' = exited \/ exited' = ("request" \notin got[current])
      BY <1>9 DEF Validate
    <3> QED BY <3>1, StreamFacts, Zenon
  <2>4. /\ toClient' \in [Runs -> Seq(Replies)]
        /\ \A r \in Runs, x \in {"success", "rollback"} : Queued(toClient'[r], x)
                 => Queued(toClient[r], x) \/ x = "refuse"
    BY <1>2, <1>4, <2>2, SendKeeps, StreamFacts
  <2> QED BY <1>1, <1>2, <1>3, <2>1, <2>2, <2>3, <2>4, StreamFacts, HandlerKeeps
<1>10. CASE Proceed(h)
  <2>1. PICK step \in {"recvTower", "closed"} : hpc' = [hpc EXCEPT ![h] = step]
    BY <1>10 DEF Proceed
  <2>2. /\ hpc[h] = "proceed" /\ toClient' = Send(current, "proceed")
        /\ UNCHANGED <<identity, towerFile, current, reading, got, toServer, exited>>
    BY <1>10 DEF Proceed, host
  <2>3. /\ toClient' \in [Runs -> Seq(Replies)]
        /\ \A r \in Runs, x \in {"success", "rollback"} : Queued(toClient'[r], x)
                 => Queued(toClient[r], x) \/ x = "proceed"
    BY <1>2, <1>4, <2>2, SendKeeps
  <2> QED BY <1>1, <1>2, <1>3, <2>1, <2>2, <2>3, StreamFacts, HandlerKeeps
<1>11. CASE WriteTower(h)
  <2>1. PICK step \in {"goActive", "closed"} :
           hpc' = [hpc EXCEPT ![h] = step] /\ (step = "goActive" => "tower" \in got[current])
    BY <1>11 DEF WriteTower
  <2>2. /\ hpc[h] = "writeTower" /\ towerFile' \in {"empty", "synced"}
        /\ UNCHANGED <<identity, current, reading, got, toServer, toClient>>
    BY <1>11, StreamFacts DEF WriteTower, streams
  <2>3. exited' \in BOOLEAN
    <3>1. exited' = exited \/ exited' = TRUE
      BY <1>11 DEF WriteTower
    <3> QED BY <3>1, StreamFacts, Zenon
  <2> QED BY <1>1, <1>2, <1>3, <2>1, <2>2, <2>3, StreamFacts, HandlerKeeps
<1>12. CASE GoActive(h)
  <2>1. /\ hpc[h] = "goActive" /\ hpc' = [hpc EXCEPT ![h] = "report"]
        /\ identity' = [identity EXCEPT !["new"] = "active"]
        /\ UNCHANGED <<towerFile, current, reading, got, toServer, toClient, exited>>
    BY <1>12 DEF GoActive, streams
  <2>2. /\ identity' \in [{"old", "new"} -> {"active", "passive"}]
        /\ identity'["old"] = identity["old"] /\ identity'["new"] = "active"
    BY <2>1, StreamFacts
  <2> QED BY <1>1, <1>2, <1>3, <2>1, <2>2, StreamFacts, HandlerKeeps
<1>13. CASE GoActiveFails(h)
  <2>1. /\ hpc[h] = "goActive" /\ hpc' = [hpc EXCEPT ![h] = "revert"]
        /\ identity' = identity \/ identity' = [identity EXCEPT !["new"] = "active"]
        /\ toClient' = Send(current, "rollback")
        /\ UNCHANGED <<towerFile, current, reading, got, toServer, exited>>
    BY <1>13 DEF GoActiveFails, CommandFails
  <2>2. /\ identity' \in [{"old", "new"} -> {"active", "passive"}]
        /\ identity'["old"] = identity["old"]
        /\ identity["new"] = "active" => identity'["new"] = "active"
    BY <2>1, StreamFacts
  <2>3. /\ toClient' \in [Runs -> Seq(Replies)]
        /\ \A r \in Runs, x \in {"success", "rollback"} : Queued(toClient'[r], x)
                 => Queued(toClient[r], x) \/ x = "rollback"
    BY <1>2, <1>4, <2>1, SendKeeps
  <2> QED BY <1>1, <1>2, <1>3, <2>1, <2>2, <2>3, StreamFacts, HandlerKeeps
<1>14. CASE Revert(h)
  <2>1. /\ hpc[h] = "revert"
        /\ UNCHANGED <<towerFile, current, reading, got, toServer, toClient>>
    BY <1>14 DEF Revert, streams
  <2>2. PICK step \in {"reverted", "unreverted"} :
           /\ hpc' = [hpc EXCEPT ![h] = step]
           /\ step = "reverted" => identity' = [identity EXCEPT !["new"] = "passive"]
           /\ identity' = identity \/ identity' = [identity EXCEPT !["new"] = "passive"]
    BY <1>14 DEF Revert, CommandFails
  <2>3. /\ identity' \in [{"old", "new"} -> {"active", "passive"}]
        /\ identity'["old"] = identity["old"]
        /\ step = "reverted" => identity'["new"] = "passive"
        /\ identity'["new"] = "active" => identity["new"] = "active"
    BY <2>2, StreamFacts
  <2>4. exited' /\ exited' \in BOOLEAN
    BY <1>14, Zenon DEF Revert
  <2> QED BY <1>1, <1>2, <1>3, <2>1, <2>2, <2>3, <2>4, StreamFacts, HandlerKeeps
<1>15. CASE Report(h)
  <2>1. PICK step \in {"post", "closed"} : hpc' = [hpc EXCEPT ![h] = step]
    BY <1>15 DEF Report
  <2>2. /\ hpc[h] = "report" /\ toClient' = Send(current, "success")
        /\ UNCHANGED <<identity, towerFile, current, reading, got, toServer, exited>>
    BY <1>15 DEF Report, host
  <2>3. /\ toClient' \in [Runs -> Seq(Replies)]
        /\ \A r \in Runs, x \in {"success", "rollback"} : Queued(toClient'[r], x)
                 => Queued(toClient[r], x) \/ x = "success"
    BY <1>2, <1>4, <2>2, SendKeeps
  <2> QED BY <1>1, <1>2, <1>3, <2>1, <2>2, <2>3, StreamFacts, HandlerKeeps
<1>16. CASE PrepareFails(h)
  <2>1. /\ hpc[h] = "prepare" /\ hpc' = [hpc EXCEPT ![h] = "closed"]
        /\ toClient' = Send(current, "refuse")
        /\ UNCHANGED <<identity, current, reading, got, toServer>>
    BY <1>16 DEF PrepareFails
  <2>2. towerFile' \in {"empty", "synced"}
    BY <1>16, StreamFacts DEF PrepareFails
  <2>3. exited' \in BOOLEAN
    BY <1>16, Zenon DEF PrepareFails
  <2>4. /\ toClient' \in [Runs -> Seq(Replies)]
        /\ \A r \in Runs, x \in {"success", "rollback"} : Queued(toClient'[r], x)
                 => Queued(toClient[r], x) \/ x = "refuse"
    BY <1>2, <1>4, <2>1, SendKeeps
  <2> QED BY <1>1, <1>2, <1>3, <2>1, <2>2, <2>3, <2>4, StreamFacts, HandlerKeeps
<1> QED
  BY <1>5, <1>6, <1>7, <1>8, <1>9, <1>10, <1>11, <1>12, <1>13, <1>14, <1>15, <1>16
   DEF Handler

LEMMA StreamInvariant == Spec => []StreamInv
<1>1. StreamInv /\ [Next]_vars => StreamInv'
  <2> SUFFICES ASSUME StreamInv, [Next]_vars PROVE StreamInv'
    OBVIOUS
  <2>1. ASSUME NEW r \in Runs, Client(r) \/ ClientKilled(r) \/ ClientStart(r) \/ Handler(r)
        PROVE  StreamInv'
    BY <2>1, ClientStepKeeps, ClientStartKeeps, HandlerStepKeeps
  <2>2. CASE UNCHANGED vars
    BY <2>2 DEF vars, StreamInv, TypeOK, StreamSet, OneClient, OldIsPassive, RollbackTold,
       RollingBack, HandedOver, TowerFromPassive, RevertedIsOver, SuccessIsTrue,
       TwoActiveOnlyUnreverted
  <2> QED BY <2>1, <2>2 DEF Next
<1> QED BY <1>1, StreamStart, PTL DEF Spec

(* Every variable keeps its type, for any number of runs of the client. *)
THEOREM StreamTypeCorrect == Spec => []TypeOK
<1>1. StreamInv => TypeOK
  BY DEF StreamInv
<1> QED BY <1>1, StreamInvariant, PTL

(* server.go:510-520: both hosts are active only after a handler whose      *)
(* command failed has told a client to roll back, and as long as no handler *)
(* has made its own host passive again; whichever of the four commands      *)
(* fail, with or without effect.  A handler needs a tower, a tower comes    *)
(* from a client that is passive, and that client becomes active again only *)
(* when it is told to.                                                      *)
THEOREM TwoActiveNeedsRollback == Spec => []TwoActiveOnlyUnreverted
<1>1. StreamInv => TwoActiveOnlyUnreverted
  BY DEF StreamInv
<1> QED BY <1>1, StreamInvariant, PTL

(* client.go's "failover complete": whichever handler said so, the identity *)
(* was handed over, and only a handler's rollback takes it away again.      *)
THEOREM CompletionIsTrue == Spec => []CompletionAgrees
<1>1. StreamInv => CompletionAgrees
  BY DEF StreamInv, OldIsPassive, SuccessIsTrue, HandedOver, CompletionAgrees
<1> QED BY <1>1, StreamInvariant, PTL
===============================================================================
