------------------------------ MODULE SlotPool ------------------------------
(***************************************************************************)
(* What the dispatch queue promises about concurrency: a pool of Cap slots *)
(* from which jobs take slots, several at a time, and to which they give   *)
(* them back, in any order; a job holds at most one slot and the pool is   *)
(* never overdrawn.  It says nothing of how a job is chosen.               *)
(* DispatchQueue implements it.                                            *)
(***************************************************************************)
EXTENDS Naturals, FiniteSets

CONSTANTS Jobs, Cap

VARIABLE holders    \* the jobs that hold a slot

Init == holders = {}

Acquire(S) ==
    /\ S \cap holders = {}
    /\ Cardinality(holders \cup S) <= Cap
    /\ holders' = holders \cup S

Release(S) ==
    /\ S \subseteq holders
    /\ holders' = holders \ S

Next == \E S \in SUBSET Jobs : Acquire(S) \/ Release(S)

Spec == Init /\ [][Next]_holders
=============================================================================
