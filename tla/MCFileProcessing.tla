-------------------------- MODULE MCFileProcessing --------------------------
(***************************************************************************)
(* FileProcessing on a small instance.                                     *)
(***************************************************************************)
EXTENDS FileProcessing, TLC

=============================================================================
