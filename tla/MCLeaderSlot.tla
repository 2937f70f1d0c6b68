----------------------------- MODULE MCLeaderSlot -----------------------------
(* Epochs of twelve slots.  The validator leads two slots in a row, as the   *)
(* cluster assigns them (four in the real cluster), once or not at all in   *)
(* an epoch: at its start, in the middle, at its end.                       *)
EXTENDS LeaderSlot

MCSchedules == [0 .. Epochs - 1 -> {{}, {0, 1}, {5, 6}, {10, 11}}]

(* Each of them leaves room for the window and the rounds of the client. *)
ASSUME RoomAssumption == \A f \in Schedules : RoomToPoll(f[1])
===============================================================================
