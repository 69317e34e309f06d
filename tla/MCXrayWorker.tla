---------------------------- MODULE MCXrayWorker ----------------------------
(* Small instances of XrayWorker for TLC. *)
EXTENDS XrayWorker
=============================================================================
