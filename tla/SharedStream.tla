----------------------------- MODULE SharedStream -----------------------------
(***************************************************************************)
(* The server runs one handler per stream it accepts, each in a goroutine  *)
(* of its own, but keeps the stream in a field of the Server they share    *)
(* (server.go s.failoverStream).  When the operator stops the client and   *)
(* runs it again while the handler of the first run is still at work, the  *)
(* field points to the new stream, and whatever the old handler does next  *)
(* it does there.  A blocked Decode keeps the stream it began on.          *)
(*                                                                         *)
(* One run of the client at a time, tower sync on, rollback enabled on     *)
(* both sides.  Each of the four set-identity commands may fail: that of   *)
(* the client, that of a handler, and the rollback of either.  What else   *)
(* can fail in the client ends it, as when the operator stops it.          *)
(***************************************************************************)
EXTENDS Naturals, Sequences

CONSTANTS
    MaxRuns,  \* how often the operator runs the client
    Faults    \* "command": set-identity commands fail; "dirty": one that fails
              \* may have taken effect all the same

ASSUME MaxRunsAssumption == MaxRuns \in Nat \ {0}
ASSUME FaultsAssumption == Faults \subseteq {"command", "dirty"}

Runs == 1 .. MaxRuns

VARIABLES
    identity,   \* per host, the identity its validator runs with
    towerFile,  \* the new host's tower file: "empty" or "synced"
    cpc,        \* per run, the next step of the client
    hpc,        \* per run, the next step of its stream's handler
    current,    \* the run whose stream s.failoverStream is, 0 for nil
    reading,    \* per handler, the stream its blocked Decode reads, or 0
    got,        \* per stream, the client's messages decoded into it
    toServer, toClient,  \* per stream, the messages on their way
    exited      \* the server process is gone

host == <<identity, towerFile>>
streams == <<got, toServer, toClient>>
vars == <<identity, towerFile, cpc, hpc, current, reading, got,
          toServer, toClient, exited>>

ClientEnded == {"ended", "complete"}
ClientSteps ==
    {"off", "signal", "goPassive", "sendTower", "result", "revert"} \cup ClientEnded
HandlerEnded == {"off", "closed", "reverted", "unreverted"}
HandlerSteps ==
    {"decode", "validate", "prepare", "proceed", "recvTower", "writeTower",
     "goActive", "revert", "report", "post"} \cup HandlerEnded

(* A message reaches the client of stream k unless the handler of k closed  *)
(* the stream; before that handler wrote the wire version nobody can read   *)
(* what others write there.                                                 *)
Writable(k) == hpc[k] \notin {"closed", "reverted", "unreverted"}
Send(k, m) ==
    IF ~Writable(k) THEN toClient
    ELSE [toClient EXCEPT ![k] =
            Append(@, IF "request" \in got[k] THEN m ELSE "unreadable")]

(* A set-identity command of "side" that fails: without effect, or, when it *)
(* is dirty, with the effect it would have had.                             *)
CommandFails(side, role) ==
    /\ "command" \in Faults
    /\ \/ UNCHANGED identity
       \/ "dirty" \in Faults /\ identity' = [identity EXCEPT ![side] = role]

Init ==
    /\ identity = [old |-> "active", new |-> "passive"]
    /\ towerFile = "empty"
    /\ cpc = [r \in Runs |-> "off"] /\ hpc = [r \in Runs |-> "off"]
    /\ current = 0 /\ reading = [r \in Runs |-> 0]
    /\ got = [r \in Runs |-> {}]
    /\ toServer = [r \in Runs |-> <<>>] /\ toClient = [r \in Runs |-> <<>>]
    /\ exited = FALSE

(***************************************************************************)
(* The client                                                              *)
(***************************************************************************)
ClientStart(r) ==
    /\ cpc[r] = "off" /\ \A q \in 1 .. r - 1 : cpc[q] \in ClientEnded
    /\ identity["old"] = "active"
    /\ ~exited
    /\ cpc' = [cpc EXCEPT ![r] = "signal"]
    /\ toServer' = [toServer EXCEPT ![r] = <<"request">>]
    /\ UNCHANGED <<host, hpc, current, reading, got, toClient, exited>>

(* The operator stops the client; what it sent is still delivered. *)
ClientKilled(r) ==
    /\ cpc[r] \notin {"off"} \cup ClientEnded
    /\ cpc' = [cpc EXCEPT ![r] = "ended"]
    /\ UNCHANGED <<host, hpc, current, reading, streams, exited>>

ClientRecvSignal(r) ==
    /\ cpc[r] = "signal" /\ toClient[r] # <<>>
    /\ cpc' = [cpc EXCEPT ![r] =
                 IF Head(toClient[r]) = "proceed" THEN "goPassive" ELSE "ended"]
    /\ toClient' = [toClient EXCEPT ![r] = Tail(@)]
    /\ UNCHANGED <<host, hpc, current, reading, got, toServer, exited>>

ClientGoPassive(r) ==
    /\ cpc[r] = "goPassive"
    /\ identity' = [identity EXCEPT !["old"] = "passive"]
    /\ cpc' = [cpc EXCEPT ![r] = "sendTower"]
    /\ UNCHANGED <<towerFile, hpc, current, reading, streams, exited>>

(* The client returns; nothing tells the server. *)
ClientGoPassiveFails(r) ==
    /\ cpc[r] = "goPassive" /\ CommandFails("old", "passive")
    /\ cpc' = [cpc EXCEPT ![r] = "ended"]
    /\ UNCHANGED <<towerFile, hpc, current, reading, streams, exited>>

ClientSendTower(r) ==
    /\ cpc[r] = "sendTower"
    /\ toServer' = [toServer EXCEPT ![r] = Append(@, "tower")]
    /\ cpc' = [cpc EXCEPT ![r] = "result"]
    /\ UNCHANGED <<host, hpc, current, reading, got, toClient, exited>>

(* Mutant: any message but a refusal is taken for success. *)
ClientRecvAnyResult(r) ==
    /\ cpc[r] = "result" /\ toClient[r] # <<>>
    /\ cpc' = [cpc EXCEPT ![r] = CASE Head(toClient[r]) = "rollback" -> "revert"
                                   [] Head(toClient[r]) = "refuse" -> "ended"
                                   [] OTHER -> "complete"]
    /\ toClient' = [toClient EXCEPT ![r] = Tail(@)]
    /\ UNCHANGED <<host, hpc, current, reading, got, toServer, exited>>

(* Any message is taken for the result; only one that says so is success,   *)
(* or the signal to roll back.                                              *)
ClientRecvResult(r) ==
    /\ cpc[r] = "result" /\ toClient[r] # <<>>
    /\ cpc' = [cpc EXCEPT ![r] = CASE Head(toClient[r]) = "success" -> "complete"
                                   [] Head(toClient[r]) = "rollback" -> "revert"
                                   [] OTHER -> "ended"]
    /\ toClient' = [toClient EXCEPT ![r] = Tail(@)]
    /\ UNCHANGED <<host, hpc, current, reading, got, toServer, exited>>

(* The rollback to active; when its command fails, that is logged, and the  *)
(* client ends all the same.                                                *)
ClientRevert(r) ==
    /\ cpc[r] = "revert"
    /\ \/ identity' = [identity EXCEPT !["old"] = "active"]
       \/ CommandFails("old", "active")
    /\ cpc' = [cpc EXCEPT ![r] = "ended"]
    /\ UNCHANGED <<towerFile, hpc, current, reading, streams, exited>>

ClientReadFails(r) ==
    /\ cpc[r] \in {"signal", "result"} /\ toClient[r] = <<>>
    /\ exited \/ ~Writable(r)
    /\ cpc' = [cpc EXCEPT ![r] = "ended"]
    /\ UNCHANGED <<host, hpc, current, reading, streams, exited>>

(***************************************************************************)
(* The handler of stream h.  It works on the stream "current".             *)
(***************************************************************************)
(* s.failoverStream = NewFailoverStream(stream) *)
Accept(h) ==
    /\ hpc[h] = "off" /\ toServer[h] # <<>>
    /\ current' = h
    /\ hpc' = [hpc EXCEPT ![h] = "decode"]
    /\ UNCHANGED <<host, cpc, reading, streams, exited>>

(* s.failoverStream.Decode() takes its receiver, then blocks. *)
DecodeBegins(h) ==
    /\ hpc[h] \in {"decode", "recvTower"} /\ reading[h] = 0
    /\ reading' = [reading EXCEPT ![h] = current]
    /\ UNCHANGED <<host, cpc, hpc, current, streams, exited>>

DecodeReturns(h) ==
    /\ hpc[h] \in {"decode", "recvTower"} /\ reading[h] # 0
    /\ LET k == reading[h] IN
         /\ toServer[k] # <<>>
         /\ got' = [got EXCEPT ![k] = @ \cup {Head(toServer[k])}]
         /\ toServer' = [toServer EXCEPT ![k] = Tail(@)]
    /\ hpc' = [hpc EXCEPT ![h] = IF @ = "decode" THEN "validate" ELSE "writeTower"]
    /\ reading' = [reading EXCEPT ![h] = 0]
    /\ UNCHANGED <<host, cpc, current, toClient, exited>>

DecodeFails(h) ==
    /\ hpc[h] \in {"decode", "recvTower"} /\ reading[h] # 0
    /\ toServer[reading[h]] = <<>> /\ cpc[reading[h]] \in ClientEnded
    /\ hpc' = [hpc EXCEPT ![h] = "closed"]
    /\ UNCHANGED <<host, cpc, current, reading, streams, exited>>

(* Version check (no request, no version: the process exits), then the      *)
(* gossip check (the handler returns).                                      *)
Validate(h) ==
    /\ hpc[h] = "validate"
    /\ \/ /\ "request" \in got[current] /\ identity["old"] = "active"
          /\ hpc' = [hpc EXCEPT ![h] = "prepare"]
          /\ UNCHANGED <<toClient, exited>>
       \/ /\ "request" \notin got[current] \/ identity["old"] # "active"
          /\ toClient' = Send(current, "refuse")
          /\ exited' = ("request" \notin got[current])
          /\ hpc' = [hpc EXCEPT ![h] = "closed"]
    /\ UNCHANGED <<host, cpc, current, reading, got, toServer>>

(* The operator confirms the plan, the credits are sampled, the tower file  *)
(* is opened and emptied, and pre hooks run.  The client of the current     *)
(* stream is told when one of them fails, and the handler returns (no       *)
(* sample, no tower file) or the process exits (the operator cancels, a pre *)
(* hook that must succeed fails: by then the tower file is empty).          *)
Prepare(h) ==
    /\ hpc[h] = "prepare"
    /\ towerFile' = "empty"
    /\ hpc' = [hpc EXCEPT ![h] = "proceed"]
    /\ UNCHANGED <<identity, cpc, current, reading, streams, exited>>

PrepareFails(h) ==
    /\ hpc[h] = "prepare"
    /\ toClient' = Send(current, "refuse")
    /\ hpc' = [hpc EXCEPT ![h] = "closed"]
    /\ \/ UNCHANGED towerFile /\ exited' \in BOOLEAN
       \/ towerFile' = "empty" /\ exited' = TRUE
    /\ UNCHANGED <<identity, cpc, current, reading, got, toServer>>

Proceed(h) ==
    /\ hpc[h] = "proceed"
    /\ toClient' = Send(current, "proceed")
    /\ hpc' = [hpc EXCEPT ![h] = IF Writable(current) THEN "recvTower" ELSE "closed"]
    /\ UNCHANGED <<host, cpc, current, reading, got, toServer, exited>>

(* Mutant: the hash of the tower is not checked. *)
WriteTowerUnchecked(h) ==
    /\ hpc[h] = "writeTower"
    /\ towerFile' = IF "tower" \in got[current] THEN "synced" ELSE "empty"
    /\ hpc' = [hpc EXCEPT ![h] = "goActive"]
    /\ UNCHANGED <<identity, cpc, current, reading, streams, exited>>

(* The tower and its hash are read from the current stream: if it holds no  *)
(* tower message the hashes differ and the process exits.  The handler      *)
(* returns when the file cannot be written, or closed.                      *)
WriteTower(h) ==
    /\ hpc[h] = "writeTower"
    /\ \/ /\ "tower" \in got[current]
          /\ towerFile' = "synced"
          /\ hpc' = [hpc EXCEPT ![h] = "goActive"]
          /\ UNCHANGED exited
       \/ /\ "tower" \in got[current]
          /\ towerFile' \in {towerFile, "synced"}
          /\ hpc' = [hpc EXCEPT ![h] = "closed"]
          /\ UNCHANGED exited
       \/ /\ "tower" \notin got[current]
          /\ exited' = TRUE
          /\ hpc' = [hpc EXCEPT ![h] = "closed"]
          /\ UNCHANGED towerFile
    /\ UNCHANGED <<identity, cpc, current, reading, streams>>

GoActive(h) ==
    /\ hpc[h] = "goActive"
    /\ identity' = [identity EXCEPT !["new"] = "active"]
    /\ hpc' = [hpc EXCEPT ![h] = "report"]
    /\ UNCHANGED <<towerFile, cpc, current, reading, streams, exited>>

(* The command fails: the client of the current stream is told to roll      *)
(* back, before this host makes sure that it is passive and exits.          *)
GoActiveFails(h) ==
    /\ hpc[h] = "goActive" /\ CommandFails("new", "active")
    /\ toClient' = Send(current, "rollback")
    /\ hpc' = [hpc EXCEPT ![h] = "revert"]
    /\ UNCHANGED <<towerFile, cpc, current, reading, got, toServer, exited>>

(* The rollback to passive; when its command fails too, that is logged.     *)
(* The process exits either way, and with it every handler that has not     *)
(* come that far.                                                           *)
Revert(h) ==
    /\ hpc[h] = "revert"
    /\ \/ /\ identity' = [identity EXCEPT !["new"] = "passive"]
          /\ hpc' = [hpc EXCEPT ![h] = "reverted"]
       \/ /\ CommandFails("new", "passive")
          /\ hpc' = [hpc EXCEPT ![h] = "unreverted"]
    /\ exited' = TRUE
    /\ UNCHANGED <<towerFile, cpc, current, reading, streams>>

Report(h) ==
    /\ hpc[h] = "report"
    /\ toClient' = Send(current, "success")
    /\ hpc' = [hpc EXCEPT ![h] = IF Writable(current) THEN "post" ELSE "closed"]
    /\ UNCHANGED <<host, cpc, current, reading, got, toServer, exited>>

(* Mutant: the handler does not return. *)
PostStays(h) ==
    /\ hpc[h] = "post"
    /\ hpc' = [hpc EXCEPT ![h] = "done"]
    /\ UNCHANGED <<host, cpc, current, reading, streams, exited>>

(* Post hooks and monitoring, then the process ends. *)
Post(h) ==
    /\ hpc[h] = "post"
    /\ hpc' = [hpc EXCEPT ![h] = "closed"]
    /\ exited' = TRUE
    /\ UNCHANGED <<host, cpc, current, reading, streams>>

Client(r) ==
    \/ ClientRecvSignal(r) \/ ClientGoPassive(r) \/ ClientGoPassiveFails(r)
    \/ ClientSendTower(r) \/ ClientRecvResult(r) \/ ClientRevert(r) \/ ClientReadFails(r)

Handler(h) ==
    /\ ~exited
    /\ \/ Accept(h) \/ DecodeBegins(h) \/ DecodeReturns(h) \/ DecodeFails(h)
       \/ Validate(h) \/ Prepare(h) \/ PrepareFails(h) \/ Proceed(h)
       \/ WriteTower(h) \/ GoActive(h) \/ GoActiveFails(h) \/ Revert(h)
       \/ Report(h) \/ Post(h)

Next == \E r \in Runs : Client(r) \/ Handler(r) \/ ClientStart(r) \/ ClientKilled(r)

Spec == Init /\ [][Next]_vars

(***************************************************************************)
(* Properties                                                              *)
(***************************************************************************)
(* Every variable keeps its type. *)
TypeOK ==
    /\ identity \in [{"old", "new"} -> {"active", "passive"}]
    /\ towerFile \in {"empty", "synced"}
    /\ cpc \in [Runs -> ClientSteps]
    /\ hpc \in [Runs -> HandlerSteps]
    /\ current \in {0} \cup Runs /\ reading \in [Runs -> {0} \cup Runs]
    /\ got \in [Runs -> SUBSET {"request", "tower"}]
    /\ toServer \in [Runs -> Seq({"request", "tower"})]
    /\ toClient \in [Runs -> Seq({"proceed", "refuse", "success", "rollback", "unreadable"})]
    /\ exited \in BOOLEAN

(* However the handlers meet on one stream, both hosts are active only when *)
(* a handler whose command failed has told a client to roll back and has    *)
(* not made its own host passive: the signal goes out first (server.go:510, *)
(* 514).  For good, if the handler's rollback fails (server.go:515-520,     *)
(* rollback.go:37-44, 56-58) or another handler ends the process before it. *)
(* Once a handler's rollback has succeeded, or if no command fails, never.  *)
TwoActiveOnlyUnreverted ==
    identity["old"] = "active" /\ identity["new"] = "active"
        => /\ \E h \in Runs : hpc[h] \in {"revert", "unreverted"}
           /\ \A h \in Runs : hpc[h] # "reverted"

(* A client that says "failover complete" has handed the identity over,     *)
(* whichever handler told it.  One thing can take it from the new host      *)
(* again: a handler whose own command failed, before or after, and which    *)
(* ran the command that makes this host passive (server.go:515); that one   *)
(* may have failed, and have taken effect all the same.                     *)
CompletionAgrees ==
    \A r \in Runs : cpc[r] = "complete"
        => /\ identity["old"] = "passive"
           /\ \/ identity["new"] = "active"
              \/ \E h \in Runs : hpc[h] \in {"reverted", "unreverted"}

(* README.md: the tower file is synced, then the passive validator becomes  *)
(* active: when it does, the file holds the tower.                          *)
SyncedWhenActive ==
    [][identity["new"] = "passive" /\ identity'["new"] = "active"
        => towerFile = "synced"]_vars
===============================================================================
