---------------------------- MODULE MCSyncControl ----------------------------
(* Instances of SyncControl for TLC. *)
EXTENDS SyncControl
=============================================================================
