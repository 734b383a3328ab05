---------------------------- MODULE MCSupervision ----------------------------
(* Supervision on small instances: a dangerous command, then a question. *)
EXTENDS Supervision

MCToolOf == [r \in Requests |-> IF r = 1 THEN "DangerousBash" ELSE "AskUserQuestion"]
=============================================================================
