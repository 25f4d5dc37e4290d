--------------------------- MODULE MCJournalFile ----------------------------
(* TLC instance of JournalFile: every interleaving of three writes, one      *)
(* reader, kills, failed writes and power losses.                            *)
EXTENDS JournalFile
=============================================================================
