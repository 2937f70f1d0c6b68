--------------------------- MODULE LeaderSlotProofs ---------------------------
(***************************************************************************)
(* The moment of the handover, for every epoch length, window, schedule and *)
(* pace of the polling client.                                             *)
(***************************************************************************)
EXTENDS LeaderSlot, Integers, TLAPS

(* Past the check: nothing more is asked of the cluster's schedule. *)
Checked == {"hooks", "currentSlot", "nextSlot", "goPassive"}

(* What the check has found out stays true of the slots still to come. *)
CheckHolds ==
    pc \in Checked /\ enabled
        => \A s \in WindowLeft : Epoch(s) = Epoch(infoSlot) => ~Leads(s)
-------------------------------------------------------------------------------
(* Quotient and remainder by the length of an epoch. *)
LEMMA EpochAndIndex ==
    ASSUME NEW s \in Nat
    PROVE  /\ Epoch(s) \in Nat /\ SlotIndex(s) \in Indexes
           /\ s = EpochLength * Epoch(s) + SlotIndex(s)
BY ConstantsAssumption, Z3 DEF Epoch, SlotIndex, Indexes

(* Later slots are of later epochs, or of the same one at a later index. *)
LEMMA EpochMonotone ==
    ASSUME NEW s \in Nat, NEW t \in Nat, s <= t
    PROVE  Epoch(s) <= Epoch(t)
BY ConstantsAssumption, Z3 DEF Epoch

(* Two slots of one epoch are as far apart as their indexes. *)
LEMMA SameEpoch ==
    ASSUME NEW s \in Nat, NEW t \in Nat, Epoch(s) = Epoch(t)
    PROVE  SlotIndex(t) - SlotIndex(s) = t - s
<1>1. /\ s = EpochLength * Epoch(s) + SlotIndex(s)
      /\ t = EpochLength * Epoch(t) + SlotIndex(t)
      /\ Epoch(s) \in Nat /\ SlotIndex(s) \in Nat /\ SlotIndex(t) \in Nat
  BY EpochAndIndex DEF Indexes
<1>2. EpochLength * Epoch(s) \in Nat
  BY <1>1, ConstantsAssumption
<1> QED BY <1>1, <1>2

(* The indexes of the first epoch are its slots. *)
LEMMA FirstEpoch == Indexes \subseteq 0 .. LastSlot
<1>1. EpochLength * 1 <= EpochLength * Epochs
  BY ConstantsAssumption, Z3
<1>2. EpochLength * Epochs = Epochs * EpochLength /\ Epochs * EpochLength \in Nat
  BY ConstantsAssumption, Z3
<1> QED BY <1>1, <1>2, ConstantsAssumption DEF Indexes, LastSlot
-------------------------------------------------------------------------------
(* client.go:273-405, internal/failover: slots, schedule, retries and the   *)
(* pace of the client stay within their bounds.                             *)
THEOREM LeaderSlotTypeCorrect == Spec => []TypeOK
<1>1. Init => TypeOK
  BY FirstEpoch, ConstantsAssumption DEF Init, TypeOK, Indexes, Polling
<1>2. TypeOK /\ [Next]_vars => TypeOK'
  <2> SUFFICES ASSUME TypeOK, [Next]_vars PROVE TypeOK'
    OBVIOUS
  <2> USE ConstantsAssumption DEF TypeOK, Polling, Done
  <2>0. LastSlot \in Int
    BY DEF LastSlot
  <2>1. CASE GetEpochInfo
    BY <2>0, <2>1 DEF GetEpochInfo
  <2>2. CASE GetLeaderSchedule
    BY <2>0, <2>2 DEF GetLeaderSchedule
  <2>3. CASE QueryFails
    BY <2>0, <2>3 DEF QueryFails
  <2>4. CASE RunPreWhenActive
    BY <2>0, <2>4 DEF RunPreWhenActive
  <2>5. CASE GetCurrentSlot
    BY <2>0, <2>5 DEF GetCurrentSlot
  <2>6. CASE PollSlot
    BY <2>0, <2>6 DEF PollSlot
  <2>7. CASE Tick
    BY <2>0, <2>7 DEF Tick
  <2>8. CASE UNCHANGED vars
    BY <2>8 DEF vars
  <2> QED BY <2>1, <2>2, <2>3, <2>4, <2>5, <2>6, <2>7, <2>8 DEF Next
<1> QED BY <1>1, <1>2, PTL DEF Spec

(* The one step that has to find it out: an own leader slot of the window   *)
(* that lies ahead in the epoch asked about is one the check sees, also if  *)
(* slots, or the whole epoch, have passed since the epoch information.      *)
LEMMA ScheduleChecked ==
    ASSUME TypeOK, ~LeaderSlotSoon,
           NEW s \in WindowLeft, Epoch(s) = Epoch(infoSlot)
    PROVE  ~Leads(s)
<1> SUFFICES ASSUME Leads(s) PROVE FALSE
  OBVIOUS
<1>1. /\ slot \in Nat /\ infoSlot \in Nat /\ s \in Nat
      /\ infoSlot <= slot /\ slot <= s /\ s < infoSlot + MinSlots
  BY DEF TypeOK, WindowLeft, LastSlot
<1>2. Epoch(slot) = Epoch(s)
  BY <1>1, EpochMonotone, EpochAndIndex
<1>3. SlotIndex(s) \in schedule[Epoch(slot)]
  BY <1>2 DEF Leads
<1>4. SlotIndex(s) - SlotIndex(infoSlot) = s - infoSlot
  BY <1>1, SameEpoch
<1>5. SlotIndex(s) \in Nat /\ SlotIndex(infoSlot) \in Nat
  BY <1>1, EpochAndIndex DEF Indexes
<1> QED BY <1>1, <1>3, <1>4, <1>5, ConstantsAssumption DEF LeaderSlotSoon

(* client.go:333: no own leader slot in what is left of the window, within  *)
(* the epoch the client asked about, however long its hooks run and         *)
(* whenever the epoch turns.                                                *)
THEOREM LeaderSlotSafe == Spec => []NotLeaderInEpoch
<1>1. Init => CheckHolds
  BY DEF Init, CheckHolds, Checked
<1>2. TypeOK /\ TypeOK' /\ CheckHolds /\ [Next]_vars => CheckHolds'
  <2> SUFFICES ASSUME TypeOK, TypeOK', CheckHolds, [Next]_vars,
                      pc' \in Checked, enabled',
                      NEW s \in WindowLeft', Epoch(s) = Epoch(infoSlot')
               PROVE  ~(s % EpochLength \in schedule'[Epoch(s)])
    BY DEF CheckHolds, Leads, SlotIndex, Epoch
  <2> USE DEF Leads, SlotIndex
  <2>1. CASE GetEpochInfo
    BY <2>1 DEF GetEpochInfo, Checked
  <2>2. CASE GetLeaderSchedule
    BY <2>2, ScheduleChecked DEF GetLeaderSchedule, Checked, WindowLeft
  <2>3. CASE QueryFails
    BY <2>3 DEF QueryFails, Checked
  <2>4. CASE RunPreWhenActive
    BY <2>4 DEF RunPreWhenActive, Checked, WindowLeft, CheckHolds
  <2>5. CASE GetCurrentSlot
    BY <2>5 DEF GetCurrentSlot, Checked, WindowLeft, CheckHolds
  <2>6. CASE PollSlot
    BY <2>6 DEF PollSlot, Checked, WindowLeft, CheckHolds
  <2>7. CASE Tick
    <3>1. s \in WindowLeft
      BY <2>7 DEF Tick, WindowLeft, TypeOK, LastSlot
    <3> QED BY <2>7, <3>1 DEF Tick, CheckHolds
  <2>8. CASE UNCHANGED vars
    BY <2>8 DEF vars, WindowLeft, CheckHolds
  <2> QED BY <2>1, <2>2, <2>3, <2>4, <2>5, <2>6, <2>7, <2>8 DEF Next
<1>3. CheckHolds => NotLeaderInEpoch
  BY DEF CheckHolds, Checked, NotLeaderInEpoch
<1> QED BY <1>1, <1>2, <1>3, LeaderSlotTypeCorrect, PTL DEF Spec
-------------------------------------------------------------------------------
(* Retries used up, in slots. *)
Spent == Round * (MaxRetries - retries)

(* With a pause in the second epoch from index i on: how far the client may *)
(* have come and still be polling.                                          *)
PausedFrom(i) ==
    /\ i \in Indexes /\ i + Rounds + MaxGap <= EpochLength
    /\ \A index \in schedule[1] : index < i \/ index >= i + Rounds + MinSlots

PollsUntil(i) ==
    /\ pc = "epochInfo" => slot < EpochLength + i + MaxGap + Spent + waited
    /\ pc = "leaderSchedule" => /\ slot <= infoSlot + waited
                               /\ infoSlot < EpochLength + i + Round + Spent

(* The slots of the second epoch. *)
LEMMA SecondEpoch ==
    ASSUME NEW s \in Nat, EpochLength <= s, s < 2 * EpochLength
    PROVE  Epoch(s) = 1 /\ SlotIndex(s) = s - EpochLength
<1>1. /\ Epoch(s) \in Nat /\ SlotIndex(s) \in Nat /\ SlotIndex(s) < EpochLength
      /\ s = EpochLength * Epoch(s) + SlotIndex(s)
  BY EpochAndIndex, ConstantsAssumption DEF Indexes
<1>2. Epoch(s) # 0
  BY <1>1, ConstantsAssumption
<1>3. ~(Epoch(s) >= 2)
  BY <1>1, ConstantsAssumption, Z3
<1> QED BY <1>1, <1>2, <1>3, ConstantsAssumption

(* A failed query uses up one round, and all of them are at most Rounds. *)
LEMMA SpentRounds ==
    ASSUME NEW n \in 0 .. MaxRetries
    PROVE  /\ Round * (MaxRetries - n) \in Nat
           /\ Round * (MaxRetries - n) + Round <= Rounds
           /\ n > 0 => Round * (MaxRetries - (n - 1)) = Round * (MaxRetries - n) + Round
<1> DEFINE f == MaxRetries - n
<1>1. Round \in Nat /\ f \in Nat /\ f <= MaxRetries /\ MaxRetries \in Nat
  BY ConstantsAssumption DEF Round
<1>2. Round * f \in Nat /\ Round * (f + 1) = Round * f + Round
  BY <1>1, Z3
<1>3. Round * (f + 1) <= Round * (MaxRetries + 1)
  BY <1>1, Z3
<1>4. MaxRetries - (n - 1) = f + 1
  BY <1>1
<1> QED BY <1>1, <1>2, <1>3, <1>4 DEF Rounds
(* Polled within the pause, the schedule shows no own leader slot soon. *)
LEMMA PauseSeen ==
    ASSUME TypeOK, NEW i, PausedFrom(i), PollsUntil(i),
           pc = "leaderSchedule", EpochLength + i <= infoSlot
    PROVE  ~LeaderSlotSoon
<1>1. /\ slot \in Nat /\ infoSlot \in Nat /\ waited \in Nat /\ i \in Nat
      /\ infoSlot <= slot /\ waited <= MaxGap /\ MinSlots \in Nat /\ MaxGap \in Nat
      /\ EpochLength \in Nat /\ EpochLength > 0
  BY ConstantsAssumption DEF TypeOK, LastSlot, PausedFrom, Indexes
<1>2. Spent \in Nat /\ Spent + Round <= Rounds /\ Round \in Nat
  <2>1. retries \in 0 .. MaxRetries /\ Round \in Nat
    BY ConstantsAssumption DEF TypeOK, Round
  <2> QED BY <2>1, SpentRounds DEF Spent
<1>3. infoSlot < EpochLength + i + Rounds /\ slot < 2 * EpochLength
  BY <1>1, <1>2, ConstantsAssumption DEF PausedFrom, PollsUntil, Rounds
<1>4. Epoch(slot) = 1 /\ SlotIndex(infoSlot) = infoSlot - EpochLength
  BY <1>1, <1>3, SecondEpoch
<1>5. schedule[1] \subseteq Nat
  <2>1. Epochs # 1
    BY <1>1, ConstantsAssumption DEF TypeOK, LastSlot
  <2>2. 1 \in 0 .. Epochs - 1
    BY <2>1, ConstantsAssumption
  <2> QED BY <2>2, ConstantsAssumption DEF TypeOK, Indexes
<1>6. Rounds \in Nat
  BY ConstantsAssumption, <1>2, Z3 DEF Rounds
<1>7. ASSUME NEW index \in schedule[1],
             index >= SlotIndex(infoSlot), index - SlotIndex(infoSlot) < MinSlots
      PROVE  FALSE
  BY <1>1, <1>3, <1>4, <1>5, <1>6, <1>7 DEF PausedFrom
<1> QED BY <1>4, <1>7 DEF LeaderSlotSoon

(* A step keeps the client within these limits. *)
LEMMA PollingBounded ==
    ASSUME TypeOK, TypeOK', NEW i, PausedFrom(i), PollsUntil(i), [Next]_vars
    PROVE  PausedFrom(i)' /\ PollsUntil(i)'
<1>1. PausedFrom(i)'
  BY DEF PausedFrom, Next, vars, GetEpochInfo, GetLeaderSchedule, QueryFails,
         RunPreWhenActive, GetCurrentSlot, PollSlot, Tick
<1> SUFFICES PollsUntil(i)'
  BY <1>1
<1>2. /\ slot \in Nat /\ infoSlot \in Nat /\ waited \in Nat /\ i \in Nat
      /\ infoSlot <= slot /\ waited <= MaxGap /\ MaxGap \in Nat
      /\ EpochLength \in Nat
      /\ Spent \in Nat /\ Round = 2 * MaxGap
      /\ retries > 0 => Round * (MaxRetries - (retries - 1)) = Spent + Round
  BY SpentRounds, ConstantsAssumption
     DEF TypeOK, LastSlot, PausedFrom, Indexes, Spent, Round
<1>3. CASE GetEpochInfo
  <2>1. Spent' = Spent
    BY <1>3 DEF GetEpochInfo, Spent
  <2> QED BY <1>2, <1>3, <2>1 DEF GetEpochInfo, PollsUntil
<1>4. CASE GetLeaderSchedule
  <2>1. Spent' = Spent
    BY <1>4 DEF GetLeaderSchedule, Spent
  <2>2. pc' = "epochInfo" => infoSlot < EpochLength + i
    BY <1>2, <1>4, PauseSeen DEF GetLeaderSchedule
  <2> QED BY <1>2, <1>4, <2>1, <2>2 DEF GetLeaderSchedule, PollsUntil
<1>5. CASE QueryFails
  <2>1. pc' = "epochInfo" => Spent' = Spent + Round
    BY <1>2, <1>5 DEF QueryFails, Spent
  <2> QED BY <1>2, <1>5, <2>1 DEF QueryFails, PollsUntil, Polling
<1>6. CASE RunPreWhenActive \/ GetCurrentSlot \/ PollSlot
  BY <1>6 DEF RunPreWhenActive, GetCurrentSlot, PollSlot, PollsUntil
<1>7. CASE Tick
  <2>1. Spent' = Spent
    BY <1>7 DEF Tick, Spent
  <2> QED BY <1>2, <1>7, <2>1 DEF Tick, PollsUntil, Polling
<1>8. CASE UNCHANGED vars
  <2>1. Spent' = Spent
    BY <1>8 DEF vars, Spent
  <2> QED BY <1>8, <2>1 DEF vars, PollsUntil
<1> QED BY <1>3, <1>4, <1>5, <1>6, <1>7, <1>8 DEF Next

(* client.go:379-438: the wait, which has no limit of its own, is over      *)
(* before the second epoch is if its leader slots leave room for the window *)
(* and for the rounds in which queries fail or slots pass.                  *)
THEOREM WaitIsBounded == Spec /\ RoomToPoll(schedule[1]) => []WaitEnds
<1> DEFINE Bounded == TypeOK /\ \E i \in Indexes : PausedFrom(i) /\ PollsUntil(i)
<1>1. Init /\ TypeOK /\ RoomToPoll(schedule[1]) => Bounded
  <2> SUFFICES ASSUME Init, TypeOK, RoomToPoll(schedule[1]) PROVE Bounded
    OBVIOUS
  <2>1. PICK i \in Indexes : PausedFrom(i)
    BY DEF RoomToPoll, PausedFrom
  <2>2. PollsUntil(i)
    <3>1. pc = "epochInfo" /\ slot \in Indexes /\ retries = MaxRetries /\ waited = 0
      BY DEF Init
    <3>2. Spent \in Nat /\ MaxRetries \in 0 .. MaxRetries
      BY <3>1, SpentRounds, ConstantsAssumption DEF Spent
    <3> QED BY <2>1, <3>1, <3>2, ConstantsAssumption DEF PausedFrom, Indexes, PollsUntil
  <2> QED BY <2>1, <2>2
<1>2. Bounded /\ TypeOK' /\ [Next]_vars => Bounded'
  BY PollingBounded
<1>3. Bounded => WaitEnds
  <2> SUFFICES ASSUME TypeOK, NEW i \in Indexes, PausedFrom(i), PollsUntil(i),
                      pc \in Polling
               PROVE  slot < 2 * EpochLength
    BY ConstantsAssumption DEF WaitEnds, TypeOK, LastSlot
  <2>1. /\ slot \in Nat /\ infoSlot \in Nat /\ waited \in Nat /\ i \in Nat
        /\ waited <= MaxGap /\ MaxGap \in Nat /\ EpochLength \in Nat
    BY ConstantsAssumption DEF TypeOK, LastSlot, Indexes
  <2>2. Spent \in Nat /\ Spent + Round <= Rounds /\ Round = 2 * MaxGap
    BY SpentRounds, ConstantsAssumption DEF TypeOK, Spent, Round
  <2> QED BY <2>1, <2>2, ConstantsAssumption DEF PausedFrom, PollsUntil, Polling, Rounds
<1> HIDE DEF Bounded
<1>4. Spec /\ RoomToPoll(schedule[1]) => []Bounded
  BY <1>1, <1>2, LeaderSlotTypeCorrect, PTL DEF Spec
<1> QED BY <1>3, <1>4, PTL
===============================================================================
