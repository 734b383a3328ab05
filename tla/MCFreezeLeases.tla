---------------------------- MODULE MCFreezeLeases ----------------------------
(* FreezeLeases for two agents and a function apply that main calls. *)
EXTENDS FreezeLeases

MCCallersOf == [s \in Symbols |-> {}]
MCForkOf == {<<"apply_v2", "apply">>}
=============================================================================
