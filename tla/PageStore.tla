----------------------------- MODULE PageStore -----------------------------
(***************************************************************************)
(* What a pager promises to the rest of the engine, without cache, frames  *)
(* or file: pages whose holders write to them, a part of those writes that *)
(* has reached the disk, and a clean shutdown that loses nothing.  The     *)
(* pages come in groups, and the promise is kept for a page until another  *)
(* page of its group is used.  SIGINT closes the store in the middle of an *)
(* operation, which then may have happened or not.                         *)
(***************************************************************************)
EXTENDS Integers

CONSTANTS
  PageIds,   \* the page ids in use
  Group,     \* Group[p]: what page p shares with the other pages of its group
  Contents,  \* what a page can hold
  Blank      \* the content of an empty page

VARIABLES
  current,  \* what a reader of page p is given, Blank if nothing is promised
  durable,  \* what is on disk for page p, likewise
  used,     \* the pages that were ever used
  total,    \* the number of allocated pages, on disk
  phase     \* "open", "closing", "exited" or "crashed"

vars == << current, durable, used, total, phase >>

\* The pages the promise is kept for when the pages in U have been used.
Kept(U) == {p \in PageIds : \A q \in U : Group[q] = Group[p] => q = p}

Over(f, U) == [p \in PageIds |-> IF p \in Kept(U) THEN f[p] ELSE Blank]

Init ==
  /\ current = [p \in PageIds |-> Blank]
  /\ durable = [p \in PageIds |-> Blank]
  /\ used = {}
  /\ total = 0
  /\ phase = "open"

\* Some pages go to disk, in no particular order: an eviction or a flush.
Persisted(S) == [p \in PageIds |-> IF p \in S THEN current[p] ELSE durable[p]]

Persist ==
  /\ phase \in {"open", "closing"}
  /\ \E S \in SUBSET PageIds : durable' = Persisted(S)
  /\ UNCHANGED << current, used, total, phase >>

\* A page is brought in, and other pages may have to make room for it.
Use(p) ==
  /\ phase = "open"
  /\ phase' \in {"open", "closing"}
  /\ used' = used \union {p}
  /\ current' = Over(current, used')
  /\ \E S \in SUBSET PageIds : durable' = Over(Persisted(S), used')
  /\ UNCHANGED total

Write(p, c) ==
  /\ phase = "open"
  /\ phase' \in {"open", "closing"}
  /\ p \in Kept(used)
  /\ current' = [current EXCEPT ![p] = c]
  /\ UNCHANGED << durable, used, total >>

\* Allocation empties the page after the last one, then counts it.  Cut short, it
\* leaves the page as it is on disk.
Empty ==
  /\ phase = "open"
  /\ phase' \in {"open", "closing"}
  /\ total + 1 \in PageIds
  /\ used' = used \union {total + 1}
  /\ LET left == IF phase' = "open" THEN Blank ELSE durable[total + 1]
     IN  current' = Over([current EXCEPT ![total + 1] = left], used')
  /\ \E S \in SUBSET PageIds : durable' = Over(Persisted(S), used')
  /\ UNCHANGED total

Count ==
  /\ phase = "open"
  /\ total + 1 \in PageIds
  /\ total' = total + 1
  /\ UNCHANGED << current, durable, used, phase >>

Close ==
  /\ phase = "open"
  /\ phase' = "closing"
  /\ UNCHANGED << current, durable, used, total >>

\* A clean exit: everything that was written is on disk, and an allocation cut
\* short may have been counted.
Exit ==
  /\ phase = "closing"
  /\ durable = current
  /\ phase' = "exited"
  /\ total' \in {total, total + 1}
  /\ UNCHANGED << current, durable, used >>

\* The process is killed: what was not on disk is gone, what was is not.
Crash ==
  /\ phase \in {"open", "closing"}
  /\ phase' = "crashed"
  /\ current' = durable
  /\ UNCHANGED << durable, used, total >>

Restart ==
  /\ phase \in {"exited", "crashed"}
  /\ phase' = "open"
  /\ UNCHANGED << current, durable, used, total >>

Next ==
  \/ Persist
  \/ \E p \in PageIds : Use(p)
  \/ \E p \in PageIds, c \in Contents : Write(p, c)
  \/ Empty
  \/ Count
  \/ Close
  \/ Exit
  \/ Crash
  \/ Restart

Spec == Init /\ [][Next]_vars
=============================================================================
