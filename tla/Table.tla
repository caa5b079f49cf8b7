------------------------------- MODULE Table -------------------------------
(***************************************************************************)
(* Where rows go: executeInsert of src/engine/QueryExecutor.cpp over the   *)
(* pages and the indexes, with the pages an owner of the pager allocates   *)
(* and the restarts of the process.                                        *)
(*                                                                         *)
(* The pages are those of PageStore, each alone in its frame; a page       *)
(* is the sequence of its rows, all tables together.  Page ids run from 1  *)
(* to total, the loops of the executor from 0 to total - 1: they never get *)
(* to the last page, and page 0 is a null pointer.  An index has the last  *)
(* page for each key (IndexManager).  getTable is taken to find the table. *)
(***************************************************************************)
EXTENDS Integers, Sequences

CONSTANTS
  MaxPages,     \* MAX_PAGES
  RowsPerPage,  \* the rows after which less than 256 bytes of a page are free
  Tables,       \* the tables of the catalog
  Indexed,      \* those main creates an index for
  Keys,         \* the values of the first column, which is the indexed one
  Rows,         \* the rows callers insert
  TableOf,      \* the table each belongs to
  KeyOf         \* its first column

ASSUME TableAssumption ==
  /\ MaxPages \in Nat \ {0}
  /\ RowsPerPage \in Nat \ {0}
  /\ Indexed \subseteq Tables
  /\ TableOf \in [Rows -> Tables]
  /\ KeyOf \in [Rows -> Keys]

PageIds == 1 .. MaxPages - 1
NoPage == -1

VARIABLES
  pages,      \* the rows of each page
  total,      \* totalPages_ of the pager
  index,      \* the page lookupPage returns for a key of a table, or NoPage
  totalRows,  \* totalRows of each table's schema
  lost        \* history: the entries of index whose row was cleared away

tableVars == << pages, total, index, totalRows, lost >>

Entries == Indexed \X Keys

EntryOf(r) == << TableOf[r], KeyOf[r] >>

TableInit ==
  /\ pages = [p \in PageIds |-> << >>]
  /\ total = 0
  /\ index = [e \in Entries |-> NoPage]
  /\ totalRows = [t \in Tables |-> 0]
  /\ lost = {}

(***************************************************************************)
(* executeInsert.                                                          *)
(***************************************************************************)
\* The pages the loops over getTotalPages get to see.
Scanned == 1 .. total - 1

WithRoom == {p \in Scanned : Len(pages[p]) < RowsPerPage}

\* Mutation: the last page read is taken.
Target_Previous == IF WithRoom # {} THEN CHOOSE p \in WithRoom : \A q \in WithRoom : p <= q
                   ELSE IF total > 1 THEN total - 1 ELSE total

\* The first page with room, or the page behind the loop.
Target == IF WithRoom # {} THEN CHOOSE p \in WithRoom : \A q \in WithRoom : p <= q ELSE total

\* That page is cleared first.
RowsAfter(r) == IF WithRoom # {} THEN Append(pages[Target], r) ELSE << r >>

\* Mutation: the entry keeps the page of the first row with its key.
Entered_FirstOnly(e) ==
  IF e \in Entries /\ index[e] = NoPage THEN [index EXCEPT ![e] = Target] ELSE index

\* insertEntry, for a table that has an index.
Entered(e) == IF e \in Entries THEN [index EXCEPT ![e] = Target] ELSE index

\* With no page allocated there is no target and nothing happens.
Insert(r) ==
  /\ total > 0
  /\ pages' = [pages EXCEPT ![Target] = RowsAfter(r)]
  /\ index' = Entered(EntryOf(r))
  /\ totalRows' = [totalRows EXCEPT ![TableOf[r]] = @ + 1]
  /\ lost' = {e \in Entries : /\ e # EntryOf(r)
                              /\ e \in lost \/ (WithRoom = {} /\ index[e] = total)}
  /\ UNCHANGED total

(***************************************************************************)
(* The rest of the engine.                                                 *)
(***************************************************************************)
\* Pager::allocateNewPage, which the executor does not call.
AllocatePage ==
  /\ total + 1 < MaxPages
  /\ total' = total + 1
  /\ pages' = [pages EXCEPT ![total + 1] = << >>]
  /\ UNCHANGED << index, totalRows, lost >>

\* A clean end of the process and a new start, which creates the indexes and
\* leaves them empty.
Restart ==
  /\ index' = [e \in Entries |-> NoPage]
  /\ lost' = {}
  /\ UNCHANGED << pages, total, totalRows >>

TableNext ==
  \/ \E r \in Rows : Insert(r)
  \/ AllocatePage
  \/ Restart

TableSpec == TableInit /\ [][TableNext]_tableVars

(***************************************************************************)
(* Properties.                                                             *)
(***************************************************************************)
\* The types of pages, indexes and counters.
TableTypeOK ==
  /\ pages \in [PageIds -> Seq(Rows)]
  /\ total \in 0 .. MaxPages - 1
  /\ index \in [Entries -> PageIds \union {NoPage}]
  /\ totalRows \in [Tables -> Nat]
  /\ lost \subseteq Entries

\* The page an index names is there and has a row of that table with that key,
\* unless the row was on the last page when a later insert cleared it: entries
\* go stale in no other way, however pages fill up and are allocated.
IndexIsHonest ==
  \A e \in Entries :
    index[e] # NoPage =>
      /\ index[e] \in 1 .. total
      /\ (\E i \in DOMAIN pages[index[e]] : EntryOf(pages[index[e]][i]) = e) <=> e \notin lost

\* No operation takes, moves or changes a row on a page below the last one.
RowsBelowLastStay ==
  [][\A p \in 1 .. total - 1 :
       \A i \in DOMAIN pages[p] : i \in DOMAIN pages'[p] /\ pages'[p][i] = pages[p][i]]_tableVars
=============================================================================
