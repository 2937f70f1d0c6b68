------------------------------- MODULE Handover -------------------------------
(***************************************************************************)
(* What a failover promises, without its protocol.  The voting identity is *)
(* held by the host that was active ("old"), by the host that takes over   *)
(* ("new"), or, while it is being handed over, by "none".  A host votes    *)
(* only while it holds the identity, and takes it only if its tower file   *)
(* records the last vote that was cast.                                    *)
(***************************************************************************)
EXTENDS Naturals

VARIABLES
    holder,  \* who holds the voting identity
    votes,   \* the number of votes cast under it
    tower    \* per host, the last vote its tower file records, 0 if none

vars == <<holder, votes, tower>>

Hosts == {"old", "new"}

TypeOK ==
    /\ holder \in Hosts \cup {"none"}
    /\ votes \in Nat \ {0}
    /\ tower \in [Hosts -> Nat]

Init ==
    /\ holder = "old"
    /\ votes \in Nat \ {0}
    /\ tower = [old |-> votes, new |-> 0]

(* The holder casts a vote and records it first. *)
Vote(h) ==
    /\ holder = h
    /\ votes' = votes + 1
    /\ tower' = [tower EXCEPT ![h] = votes + 1]
    /\ UNCHANGED holder

(* The old host gives the identity up. *)
Release ==
    /\ holder = "old"
    /\ holder' = "none"
    /\ UNCHANGED <<votes, tower>>

(* The new host's tower file is emptied or written while it is passive. *)
Sync ==
    /\ holder # "new"
    /\ tower'["new"] \in Nat
    /\ tower' = [tower EXCEPT !["new"] = tower'["new"]]
    /\ UNCHANGED <<holder, votes>>

(* A host takes the free identity, knowing the last vote: the new host when *)
(* the failover succeeds, the old one when it is rolled back.               *)
Take(h) ==
    /\ holder = "none"
    /\ tower[h] = votes
    /\ holder' = h
    /\ UNCHANGED <<votes, tower>>

Next ==
    \/ \E h \in Hosts : Vote(h) \/ Take(h)
    \/ Release
    \/ Sync

Spec == Init /\ [][Next]_vars

(* Whoever holds the identity has every vote on record. *)
HolderKnowsLastVote == holder # "none" => tower[holder] = votes
===============================================================================
