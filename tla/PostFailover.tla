----------------------------- MODULE PostFailover -----------------------------
(***************************************************************************)
(* What the server does once its identity is active (the tail of           *)
(* handleFailoverStream, internal/failover/server.go, with stream.go): it  *)
(* asks for the end slot, reports to the client, runs its post hooks,      *)
(* confirms the switch in gossip (GossipConfirm), builds the summary,      *)
(* takes vote credit samples and shuts down.                               *)
(***************************************************************************)
EXTENDS Integers, GossipConfirm

CONSTANTS
    StartSlot,  \* the slot in which the client gave its identity up
    MaxPassed,  \* bound: the slots that may have passed since
    Word,       \* the number of values of a slot: slots are unsigned words
    Earned,     \* the vote credits that a validator may have at the start
    Counts,     \* the numbers of samples that may be configured
    Interval    \* the ticks of the clock between two samples

ASSUME PostAssumption ==
    /\ Word \in Nat /\ StartSlot \in 1 .. Word - 1
    /\ MaxPassed \in Nat /\ StartSlot + MaxPassed < Word
    /\ Earned \subseteq Nat
    /\ Counts \subseteq Nat \ {0}
    /\ Interval \in Nat

VARIABLES
    at,                 \* the server's next step
    startSlot, endSlot, \* of the message; 0 is a slot that was never set
    slotsDuration,      \* of the summary
    account,            \* the vote accounts, "own" and "other": epoch, credits
    epoch,              \* the cluster's
    clock,              \* the ticks since the last sample
    steady,             \* since then the own validator has always voted, in one epoch
    count, tried,       \* the samples to take, the samples tried
    sleeping,           \* between two samples
    taken, first, last, \* CreditSamples: how many, the oldest, the newest
    warned,             \* the newest is said not to increase
    rankDifference      \* 0 until it is reported

report == <<startSlot, endSlot, slotsDuration>>
cluster == <<account, epoch, clock, steady>>
samples == <<taken, first, last, warned>>
sampling == <<count, tried, sleeping, samples, rankDifference>>
postVars == <<vars, at, report, cluster, sampling>>

Epochs == 0 .. 1    \* bound: the epoch turns once

(* A validator's vote account after a vote: its first vote in an epoch      *)
(* opens that epoch's entry of EpochCredits.                                *)
Voted(a) == IF a.epoch = epoch THEN [a EXCEPT !.credits = @ + 1]
                               ELSE [epoch |-> epoch, credits |-> 1]

(* Mutant: the accounts sorted the other way round. *)
ascendingRank(mine, theirs, listedFirst) ==
    IF theirs < mine \/ (theirs = mine /\ ~listedFirst) THEN 2 ELSE 1

(* GetCreditRankedVoteAccountFromPubkey: by the credits of each account's   *)
(* last epoch; equal ones stay in the order in which the RPC listed them.   *)
creditRank(mine, theirs, listedFirst) ==
    IF theirs > mine \/ (theirs = mine /\ ~listedFirst) THEN 2 ELSE 1

(* The samples that PullActiveIdentityVoteCreditsSample may take now, with  *)
(* what the property below compares.                                        *)
Samples ==
    {[own |-> account["own"], other |-> account["other"], steady |-> steady,
      rank |-> creditRank(account["own"].credits, account["other"].credits, f)] :
        f \in BOOLEAN}

(* The first sample has been taken; the start slot has not come if the      *)
(* tower sync, whose message carries it, was skipped.                       *)
PostInit ==
    /\ Init
    /\ at = "slot"
    /\ startSlot \in {0, StartSlot} /\ endSlot = 0 /\ slotsDuration = 0
    /\ epoch = 0 /\ clock = 0 /\ steady = TRUE
    /\ account \in [{"own", "other"} -> [epoch : {0}, credits : Earned]]
    /\ taken = 1 /\ first \in Samples /\ last = first /\ warned = FALSE
    /\ count = 0 /\ tried = 0 /\ sleeping = FALSE
    /\ rankDifference = 0

(* Mutant: the end slot is taken as the RPC gives it. *)
QuerySlotUnclamped ==
    /\ at = "slot" /\ at' = "report"
    /\ endSlot' \in {endSlot} \cup (StartSlot - 1) .. (StartSlot + MaxPassed)
    /\ UNCHANGED <<vars, startSlot, slotsDuration, cluster, sampling>>

(* The end slot: the RPC may fail, or be a slot behind the client's. *)
QuerySlot ==
    /\ at = "slot" /\ at' = "report"
    /\ \/ UNCHANGED endSlot
       \/ \E slot \in StartSlot - 1 .. StartSlot + MaxPassed :
            endSlot' = IF slot < startSlot THEN startSlot ELSE slot
    /\ UNCHANGED <<vars, startSlot, slotsDuration, cluster, sampling>>

(* The success message: when it cannot be sent the handler returns, and the *)
(* server goes on listening.                                                *)
Report ==
    /\ at = "report" /\ at' \in {"hooks", "listening"}
    /\ UNCHANGED <<vars, report, cluster, sampling>>

(* A dry run, which moves no identity, is not confirmed. *)
RunPostWhenActive ==
    /\ at = "hooks"
    /\ \E isDryRunFailover \in BOOLEAN :
         at' = IF isDryRunFailover THEN "summary" ELSE "gossip"
    /\ UNCHANGED <<vars, report, cluster, sampling>>

(* Gossip while the check looks at it. *)
Gossip ==
    /\ at = "gossip" /\ pc # "done"
    /\ \E r \in Rpcs, h \in Hosts : Appear(r, h) \/ Expire(r, h)
    /\ UNCHANGED <<at, report, cluster, sampling>>

confirmGossipNodesPostFailover ==
    /\ at = "gossip" /\ Confirm
    /\ UNCHANGED <<at, report, cluster, sampling>>

(* The check returns, its variables with it, and nobody looks at gossip any *)
(* more: its first state stands for whatever it shows from now on.          *)
ConfirmReturns ==
    /\ at = "gossip" /\ pc = "done" /\ at' = "summary"
    /\ view' = [r \in Rpcs |-> [h \in Hosts |-> <<Before[h]>>]]
    /\ pc' = "active" /\ retryCount' = 0 /\ activeKey' = NotFound
    /\ okActive' = FALSE /\ okPassive' = FALSE /\ outcome' = "none"
    /\ UNCHANGED <<report, cluster, sampling>>

GetFailoverSlotsDuration == (endSlot - startSlot) % Word

(* The configured number of samples is read here for the first time. *)
BuildSummaryData ==
    /\ at = "summary" /\ at' = "samples"
    /\ slotsDuration' = GetFailoverSlotsDuration
    /\ count' \in Counts
    /\ UNCHANGED <<vars, startSlot, endSlot, cluster, tried, sleeping, samples,
                   rankDifference>>

Awake == sleeping => clock >= Interval

(* Mutant: the next sample is pulled without a pause. *)
PullSampleAtOnce ==
    /\ at = "samples" /\ tried < count
    /\ tried' = tried + 1 /\ taken' = taken + 1
    /\ last' \in Samples
    /\ warned' = (taken' > 2 /\ last'.own.credits <= last.own.credits)
    /\ clock' = 0 /\ steady' = TRUE /\ sleeping' = (count > 1)
    /\ UNCHANGED <<vars, at, report, account, epoch, count, first, rankDifference>>

(* A sample is pulled.  Only the last two samples of three or more are      *)
(* compared, and the pause follows a sample that succeeds, also the last.   *)
PullSample ==
    /\ at = "samples" /\ tried < count /\ Awake
    /\ tried' = tried + 1 /\ taken' = taken + 1
    /\ last' \in Samples
    /\ warned' = (taken' > 2 /\ last'.own.credits <= last.own.credits)
    /\ clock' = 0 /\ steady' = TRUE /\ sleeping' = (count > 1)
    /\ UNCHANGED <<vars, at, report, account, epoch, count, first, rankDifference>>

(* Mutants: a sample that fails is tried again after the pause, for as long *)
(* as it fails; one sample more is tried.                                   *)
PullSampleRetries ==
    /\ at = "samples" /\ tried < count /\ Awake
    /\ sleeping' = TRUE /\ clock' = 0
    /\ UNCHANGED <<vars, at, report, account, epoch, steady, count, tried, samples,
                   rankDifference>>

PullSampleOnceMore ==
    /\ at = "samples" /\ tried <= count /\ Awake
    /\ tried' = tried + 1
    /\ sleeping' = FALSE
    /\ UNCHANGED <<vars, at, report, cluster, count, samples, rankDifference>>

(* The RPC fails or lists no current account of the identity: the next      *)
(* sample is tried at once.                                                 *)
PullSampleFails ==
    /\ at = "samples" /\ tried < count /\ Awake
    /\ tried' = tried + 1
    /\ sleeping' = FALSE
    /\ UNCHANGED <<vars, at, report, cluster, count, samples, rankDifference>>

(* The rank improved if positive; one sample shows nothing. *)
GetVoteCreditRankDifference ==
    /\ at = "samples" /\ tried = count /\ Awake /\ at' = "close"
    /\ rankDifference' = IF taken < 2 THEN 0 ELSE first.rank - last.rank
    /\ UNCHANGED <<vars, report, cluster, count, tried, sleeping, samples>>

(* Stream, connection and listener are closed and the server is cancelled. *)
Shutdown ==
    /\ at = "close" /\ at' = "ended"
    /\ UNCHANGED <<vars, report, cluster, sampling>>

(* The cluster goes on: validators vote or miss a vote, the epoch may turn. *)
(* No step before the samples reads the accounts.                           *)
Tick ==
    /\ at = "samples" /\ clock < Interval
    /\ clock' = clock + 1
    /\ epoch' \in {epoch, epoch + 1} \cap Epochs
    /\ \E voters \in SUBSET DOMAIN account :
         /\ account' = [v \in DOMAIN account |->
                          IF v \in voters THEN Voted(account[v]) ELSE account[v]]
         /\ steady' = (steady /\ "own" \in voters /\ account'["own"].epoch = last.own.epoch)
    /\ UNCHANGED <<vars, at, report, sampling>>

Step ==
    \/ QuerySlot \/ Report \/ RunPostWhenActive
    \/ confirmGossipNodesPostFailover \/ ConfirmReturns
    \/ BuildSummaryData \/ PullSample \/ PullSampleFails
    \/ GetVoteCreditRankDifference \/ Shutdown

PostNext == Step \/ Gossip \/ Tick

(* No step of the server waits for another program; the clock goes on.      *)
PostSpec == PostInit /\ [][PostNext]_postVars /\ WF_postVars(Step \/ Tick)

(***************************************************************************)
(* Properties                                                              *)
(***************************************************************************)
(* Every variable keeps its type; no more samples than configured. *)
PostTypeOK ==
    /\ TypeOK
    /\ at \in {"slot", "report", "hooks", "gossip", "summary", "samples", "close",
               "ended", "listening"}
    /\ {startSlot, endSlot, slotsDuration} \subseteq 0 .. Word - 1
    /\ account \in [{"own", "other"} -> [epoch : Epochs, credits : Nat]]
    /\ epoch \in Epochs /\ clock \in 0 .. Interval
    /\ tried \in 0 .. count /\ taken \in 1 .. tried + 1
    /\ {first.rank, last.rank} \subseteq 1 .. 2 /\ rankDifference \in -1 .. 1
    /\ {steady, sleeping, warned} \subseteq BOOLEAN

(* The summary's slots duration never wraps around for an RPC that lags: it *)
(* is out of range only if one of its slots was never set.                  *)
DurationInRange ==
    slotsDuration > MaxPassed => startSlot = 0 \/ endSlot = 0

(* "vote credits are not increasing" is not said of a validator that voted  *)
(* all the time between the two samples, in one epoch: they lie an interval *)
(* apart, also when a sample between them failed.  It is said of one if the *)
(* epoch turned between them, as credits start again with every epoch, or   *)
(* if the interval is zero, which configureServer accepts.                  *)
NoFalseWarning == warned /\ Interval # 0 => ~last.steady

(* The reported change of rank has the direction of what the two validators *)
(* earned since before the failover, if their epochs did not turn.          *)
RankFollowsCredits ==
    LET gained == (last.own.credits - first.own.credits)
                    - (last.other.credits - first.other.credits)
    IN last.own.epoch = 0 /\ last.other.epoch = 0 =>
         /\ rankDifference > 0 => gained >= 0
         /\ rankDifference < 0 => gained <= 0

(* The tail ends, whatever its RPCs answer. *)
TailEnds == at = "slot" ~> at \in {"ended", "listening"}
===============================================================================
