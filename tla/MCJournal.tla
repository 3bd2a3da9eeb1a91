----------------------------- MODULE MCJournal -----------------------------
(* Small instances of Journal.tla are given by the configurations.          *)
EXTENDS Journal
=============================================================================
