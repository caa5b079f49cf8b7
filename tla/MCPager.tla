------------------------------ MODULE MCPager ------------------------------
(* Pages 1 and 3 share frame 1, page 2 has frame 0 to itself.  A page is     *)
(* blank or has its one row, so that a stale content shows.                  *)
EXTENDS Pager

MCVersions == [p \in PageIds |-> {1}]
=============================================================================
