---------------------------- MODULE MC_FixtureLock ----------------------------
(* One declared fixture and one that goes by the name of its task.            *)
EXTENDS FixtureLock

CONSTANTS data, review

=============================================================================
