----------------------------- MODULE MCLandGate -----------------------------
(* Small instances of LandGate for TLC. *)
EXTENDS LandGate

OnePhase == <<"test">>
TwoPhases == <<"test", "test-ui">>
=============================================================================
