------------------------------ MODULE LeaderSlot ------------------------------
(***************************************************************************)
(* How the active node picks the moment to hand over (client.go            *)
(* waitMinTimeToLeaderSlot and waitUntilStartOfNextSlot): it waits until   *)
(* its own next leader slot is far enough, runs its pre hooks, and goes    *)
(* passive at the start of a slot.  Slots advance while it does so, also   *)
(* between the two RPC calls a check is made of.                           *)
(*                                                                         *)
(* Time is counted in slots: min_time_to_leader_slot is MinSlots, and no   *)
(* more than MaxGap slots pass before the polling client's next RPC call.  *)
(***************************************************************************)
EXTENDS Naturals

CONSTANTS
    EpochLength,  \* slots per epoch
    Epochs,       \* how many epochs are considered
    MinSlots,     \* min_time_to_leader_slot over the average slot duration
    MaxRetries,   \* failed queries tolerated during one wait
    MaxGap,       \* slots that may pass before the client's next RPC call
    Schedules     \* the leader schedules considered: per epoch, a set of indexes

Indexes == 0 .. EpochLength - 1
LastSlot == Epochs * EpochLength - 1

ASSUME ConstantsAssumption ==
    /\ EpochLength \in Nat \ {0} /\ Epochs \in Nat \ {0}
    /\ MinSlots \in Nat /\ MaxRetries \in Nat /\ MaxGap \in Nat
    /\ Schedules \subseteq [0 .. Epochs - 1 -> SUBSET Indexes]

VARIABLES
    slot,         \* the slot of the cluster
    schedule,     \* per epoch, the slot indexes at which this validator leads
    enabled,      \* started without --no-min-time-to-leader-slot
    pc,           \* what the client does next
    infoSlot,     \* AbsoluteSlot of its last GetEpochInfo
    currentSlot,  \* the slot from which it waits for the next
    retries,      \* remainingRetries
    waited        \* slots since its last RPC call

vars == <<slot, schedule, enabled, pc, infoSlot, currentSlot, retries, waited>>

Epoch(s) == s \div EpochLength
SlotIndex(s) == s % EpochLength
Leads(s) == SlotIndex(s) \in schedule[Epoch(s)]

Polling == {"epochInfo", "leaderSchedule"}
Done == {"goPassive", "failed"}

Init ==
    /\ slot \in Indexes
    /\ schedule \in Schedules
    /\ enabled \in BOOLEAN
    /\ pc = "epochInfo"
    /\ infoSlot = slot /\ currentSlot = slot
    /\ retries = MaxRetries
    /\ waited = 0

(* Mutant: the retries left are counted down before they are looked at. *)
QueryFailsLate ==
    /\ pc \in Polling /\ enabled
    /\ retries' = retries - 1
    /\ pc' = IF retries' < 0 THEN "failed" ELSE "epochInfo"
    /\ waited' = 0
    /\ UNCHANGED <<slot, schedule, enabled, infoSlot, currentSlot>>

(* A failed query is tried again, MaxRetries times in the whole wait.  With *)
(* the check disabled its answer is only logged, and so is its failure.     *)
QueryFails ==
    /\ pc \in Polling
    /\ \/ ~enabled /\ pc' = "hooks" /\ UNCHANGED retries
       \/ enabled /\ retries = 0 /\ pc' = "failed" /\ UNCHANGED retries
       \/ enabled /\ retries > 0 /\ pc' = "epochInfo" /\ retries' = retries - 1
    /\ waited' = 0
    /\ UNCHANGED <<slot, schedule, enabled, infoSlot, currentSlot>>

GetEpochInfo ==
    /\ pc = "epochInfo"
    /\ infoSlot' = slot
    /\ pc' = "leaderSchedule"
    /\ waited' = 0
    /\ UNCHANGED <<slot, schedule, enabled, currentSlot, retries>>

(* Mutants: a window one slot short; any later leader slot of the epoch. *)
LeaderSlotSooner ==
    \E index \in schedule[Epoch(slot)] :
        /\ index >= SlotIndex(infoSlot)
        /\ index - SlotIndex(infoSlot) < MinSlots - 1

LeaderSlotLater ==
    \E index \in schedule[Epoch(slot)] : index >= SlotIndex(infoSlot)

(* An own leader slot less than MinSlots after the epoch information, in    *)
(* the schedule of the epoch in which the second call is answered; later    *)
(* epochs are not looked at.                                                *)
LeaderSlotSoon ==
    \E index \in schedule[Epoch(slot)] :
        /\ index >= SlotIndex(infoSlot)
        /\ index - SlotIndex(infoSlot) < MinSlots

GetLeaderSchedule ==
    /\ pc = "leaderSchedule"
    /\ pc' = IF enabled /\ LeaderSlotSoon THEN "epochInfo" ELSE "hooks"
    /\ waited' = 0
    /\ UNCHANGED <<slot, schedule, enabled, infoSlot, currentSlot, retries>>

(* Pre hooks run commands of the operator's choice, for any time. *)
RunPreWhenActive ==
    /\ pc = "hooks"
    /\ pc' \in {"currentSlot", "failed"}
    /\ UNCHANGED <<slot, schedule, enabled, infoSlot, currentSlot, retries, waited>>

GetCurrentSlot ==
    /\ pc = "currentSlot"
    /\ \/ pc' = "nextSlot" /\ currentSlot' = slot
       \/ pc' = "failed" /\ UNCHANGED currentSlot
    /\ UNCHANGED <<slot, schedule, enabled, infoSlot, retries, waited>>

(* Poll until the slot has changed, whatever errors come on the way. *)
PollSlot ==
    /\ pc = "nextSlot"
    /\ slot > currentSlot
    /\ pc' = "goPassive"
    /\ UNCHANGED <<slot, schedule, enabled, infoSlot, currentSlot, retries, waited>>

(* The cluster moves to its next slot. *)
Tick ==
    /\ slot < LastSlot
    /\ pc \notin Done
    /\ pc \in Polling => waited < MaxGap
    /\ slot' = slot + 1
    /\ waited' = IF pc \in Polling THEN waited + 1 ELSE waited
    /\ UNCHANGED <<schedule, enabled, pc, infoSlot, currentSlot, retries>>

Next ==
    \/ GetEpochInfo \/ GetLeaderSchedule \/ QueryFails
    \/ RunPreWhenActive
    \/ GetCurrentSlot \/ PollSlot
    \/ Tick

Spec == Init /\ [][Next]_vars

(***************************************************************************)
(* Properties                                                              *)
(***************************************************************************)
(* Every variable keeps its type. *)
TypeOK ==
    /\ slot \in 0 .. LastSlot
    /\ infoSlot \in 0 .. slot /\ currentSlot \in 0 .. slot
    /\ schedule \in Schedules
    /\ enabled \in BOOLEAN
    /\ pc \in Polling \cup Done \cup {"hooks", "currentSlot", "nextSlot"}
    /\ retries \in 0 .. MaxRetries
    /\ waited \in 0 .. MaxGap

(* What is left of the window the operator asked for, once the hooks have   *)
(* run and the next slot has begun.                                         *)
WindowLeft == {s \in slot .. LastSlot : s < infoSlot + MinSlots}

(* The client gives up the identity without an own leader slot in what is   *)
(* left of the window, in the epoch it asked about: neither the slots that  *)
(* pass during the hooks nor an epoch that turns between the two calls of   *)
(* the check make it blind to one.                                          *)
NotLeaderInEpoch ==
    pc = "goPassive" /\ enabled
        => \A s \in WindowLeft : Epoch(s) = Epoch(infoSlot) => ~Leads(s)

(* README.md on the check: wait "to have no leader slots in the next        *)
(* min_time_to_leader_slot window", whatever epoch those slots belong to.   *)
NotLeaderInWindow ==
    pc = "goPassive" /\ enabled => \A s \in WindowLeft : ~Leads(s)

(* The slots that pass in a round of both calls, and in the rounds of a     *)
(* wait in which MaxRetries of them fail.                                   *)
Round == 2 * MaxGap
Rounds == Round * (MaxRetries + 1)

(* A pause in an epoch's leader slots that leaves room for the window after *)
(* these rounds, and for the rounds in the epoch.                           *)
RoomToPoll(indexes) ==
    \E i \in Indexes :
        /\ i + Rounds + MaxGap <= EpochLength
        /\ \A index \in indexes : index < i \/ index >= i + Rounds + MinSlots

(* The client stops polling before the second epoch is over if that epoch's *)
(* schedule leaves room for it: nothing in the loop itself bounds the wait. *)
WaitEnds == slot >= 2 * EpochLength => pc \notin Polling
===============================================================================
