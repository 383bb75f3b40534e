----------------------------- MODULE MCEngineJob -----------------------------
(* Instances of EngineJob for TLC. *)
EXTENDS EngineJob
=============================================================================
