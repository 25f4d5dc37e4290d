----------------------------- MODULE MCWatchOwed -----------------------------
EXTENDS WatchOwed
=============================================================================
