-------------------------- MODULE MCLedgerReaders --------------------------
(* The ledger's readers on a small instance: one worker and the collector,  *)
(* four arenas, and a cap of one entry, so that every submission evicts.   *)
EXTENDS LedgerReaders
=============================================================================
