-------------------------- MODULE MCUsageRecorder --------------------------
(* Instances of UsageRecorder for TLC. *)
EXTENDS UsageRecorder, TLC

\* Clients that count towards the cap are interchangeable.
ClientSymmetry == Permutations(Clients \ Exempt)
=============================================================================
