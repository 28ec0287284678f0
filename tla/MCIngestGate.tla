----------------------------- MODULE MCIngestGate -----------------------------
(* The small instance of IngestGate that TLC checks. *)
EXTENDS IngestGate
=============================================================================
