---------------------------- MODULE MCLRUCache ----------------------------
(***************************************************************************)
(* LRUCache for TLC: four pages through a cache of two, enough for a       *)
(* victim, a page that is kept, one that comes in, and an overflow of two  *)
(* behind a pinned tail.  The counters are bounded here and not in         *)
(* LRUCache.                                                               *)
(***************************************************************************)
EXTENDS LRUCache

CONSTANT MaxFaults  \* the page faults and the evictions counted

WithinBounds ==
  /\ pageFaultCount <= MaxFaults
  /\ evictionCount <= MaxFaults

MCNext == Next /\ WithinBounds'

MCSpec == Init /\ [][MCNext]_vars
=============================================================================
