------------------------------ MODULE PageRows ------------------------------
(***************************************************************************)
(* How rows lie in the bytes of a page and pages in the bytes of the file: *)
(* Page.cpp with the fields of common/Types.h, used as the pager and       *)
(* executeInsert use it.  One Page object takes the pages one after the    *)
(* other, each saved before the next; which page is in which Page object   *)
(* when is Pager's business.                                               *)
(*                                                                         *)
(* Bytes are numbers.  Sizes are as in the code except for PAGE_SIZE and   *)
(* for the room executeInsert leaves on a page.                            *)
(***************************************************************************)
EXTENDS Integers, FiniteSetsExt, SequencesExt

CONSTANTS
  PageIds,   \* the ids pages may have, from 1 to below MAX_PAGES
  PageSize,  \* PAGE_SIZE, 4096
  Margin,    \* 256, the bytes executeInsert wants to be free
  Rows       \* the rows inserted, each a sequence of fields

INT == 1
VARCHAR == 3
Header == 10        \* pageId, isDirty, isPinned and usedBytes in the file
MaxColumns == 16    \* Row::MAX_COLUMNS
MaxLength == 255    \* characters of a string, StringField::MAX_LENGTH - 1

Byte == 0 .. 255

\* What a Field holds, as bytes: the four of an int, or the characters of a string.
Field == [tag : {INT, VARCHAR}, value : Seq(Byte)]

\* The fields the constructors make: a string ends before its first 0.
Storable ==
  {f \in Field : IF f.tag = INT THEN Len(f.value) = 4
                 ELSE Len(f.value) <= MaxLength /\ \A i \in 1 .. Len(f.value) : f.value[i] # 0}

ASSUME PageIdsAssumption == \A p \in PageIds : p \in Nat /\ 1 <= p /\ p < 1024
ASSUME SizesAssumption == /\ PageSize \in Nat /\ PageSize < 65536
                          /\ Margin \in Nat /\ Header <= Margin /\ Margin <= PageSize
ASSUME RowsAssumption == \A r \in Rows : r \in Seq(Storable) /\ Len(r) <= MaxColumns

VARIABLES
  page,     \* the Page object: pageId, isDirty, usedBytes, data
  file,     \* the bytes of the file, the byte at offset 0 first
  rows,     \* history: the rows inserted into the page in the Page object
  saved,    \* history: the same for each page as last saved
  cut,      \* history: a row did not fit into its page
  overran,  \* history: a page was saved that does not fit into its slot
  large,    \* history: a row of more than Margin - Header bytes was inserted
  undefined \* fread was asked for a negative number of bytes: nothing is known from here

history == << rows, saved, cut, overran, large >>
vars == << page, file, history, undefined >>

Offsets == 0 .. PageSize - 1
Zeros == [i \in Offsets |-> 0]
Cleared(p, dirty) == [pageId |-> p, isDirty |-> dirty, usedBytes |-> 0, data |-> Zeros]
EmptyPage == Cleared(0, FALSE)

Init ==
  /\ page = EmptyPage
  /\ file = << >>
  /\ rows = << >>
  /\ saved = [p \in PageIds |-> << >>]
  /\ cut = FALSE /\ overran = FALSE /\ large = FALSE
  /\ undefined = FALSE

(***************************************************************************)
(* Rows in a page.                                                         *)
(***************************************************************************)
\* Field::serialize: the type tag, for a string its length, the value.
Encoded(f) ==
  << f.tag >> \o (IF f.tag = VARCHAR THEN << 0, Len(f.value) >> ELSE << >>) \o f.value

\* Where the column count and the first n fields of r end in the bytes of r.
Ends(r) ==
  LET end[n \in 0 .. Len(r)] == IF n = 0 THEN 1 ELSE end[n - 1] + Len(Encoded(r[n]))
  IN  end

RowBytes(r) == Ends(r)[Len(r)]

\* The bytes of s in data from offset o on.
PutBytes(data, o, s) ==
  [i \in Offsets |-> IF i >= o /\ i < o + Len(s) THEN s[i - o + 1] ELSE data[i]]

\* Mutation: the room left is not looked at.
Fits_Always(f, o) == TRUE

\* serialize returns -1 when the rest of the page is too short.
Fits(f, o) == PageSize - o >= Len(Encoded(f))

\* A field that does not fit is left out; the next one is tried all the same.
FieldWritten(w, f) ==
  IF Fits(f, w.offset)
  THEN [data |-> PutBytes(w.data, w.offset, Encoded(f)), offset |-> w.offset + Len(Encoded(f))]
  ELSE w

\* data and offset after n rounds of writeRow's loop.
WriteLoop(pg, r) ==
  LET after[n \in 0 .. Len(r)] ==
        IF n = 0 THEN [data   |-> PutBytes(pg.data, pg.usedBytes, << Len(r) >>),
                       offset |-> pg.usedBytes + 1]
        ELSE FieldWritten(after[n - 1], r[n])
  IN  after

\* Page::writeRow at offset usedBytes.
Written(pg, r) ==
  IF pg.usedBytes + 1 > PageSize THEN pg
  ELSE LET w == WriteLoop(pg, r)[Len(r)]
       IN  [pg EXCEPT !.data = w.data, !.usedBytes = w.offset, !.isDirty = TRUE]

\* Field::deserialize at offset o: the field, or no field if what is there is
\* not a whole one.
IsField(data, o) ==
  \/ data[o] = INT /\ PageSize - o >= 5
  \/ /\ data[o] = VARCHAR /\ PageSize - o >= 3
     /\ PageSize - o >= 3 + data[o + 1] * 256 + data[o + 2]

FieldLength(data, o) == IF data[o] = INT THEN 4 ELSE data[o + 1] * 256 + data[o + 2]

FieldStart(data, o) == IF data[o] = INT THEN o + 1 ELSE o + 3

FieldAt(data, o) ==
  LET kept == Min({FieldLength(data, o), MaxLength})
  IN  [tag |-> data[o], value |-> [i \in 1 .. kept |-> data[FieldStart(data, o) + i - 1]]]

\* The fields and the offset after n rounds of readRow's loop; the offset is past
\* the page once a round has failed.
ReadLoop(data, o) ==
  LET after[n \in 0 .. MaxColumns] ==
        IF n = 0 THEN [fields |-> << >>, next |-> o + 1]
        ELSE LET was == after[n - 1]
             IN  IF was.next >= PageSize THEN [was EXCEPT !.next = PageSize + 1]
                 ELSE IF ~ IsField(data, was.next) THEN [was EXCEPT !.next = PageSize + 1]
                 ELSE [fields |-> Append(was.fields, FieldAt(data, was.next)),
                       next   |-> FieldStart(data, was.next) + FieldLength(data, was.next)]
  IN  after

\* Page::readRow at offset o: what its loop leaves; false if next is past the page.
RowAt(data, o) == ReadLoop(data, o)[IF data[o] < MaxColumns THEN data[o] ELSE MaxColumns]

\* The rows that a scan is given from each offset on: usedBytes is not looked at,
\* so it goes on to the end of the page, or to bytes that are no row.
ScanFrom(data) ==
  LET from[o \in 0 .. PageSize] ==
        IF o >= PageSize THEN << >>
        ELSE IF RowAt(data, o).next > PageSize THEN << >>
        ELSE << RowAt(data, o).fields >> \o from[RowAt(data, o).next]
  IN  from

Scan(data) == ScanFrom(data)[0]

(***************************************************************************)
(* Pages in the file.                                                      *)
(***************************************************************************)
\* The bytes of s in the file from offset o on; fseek past the end leaves zeros.
PutInFile(o, s) ==
  LET size == IF Len(file) < o + Len(s) THEN o + Len(s) ELSE Len(file)
  IN  [i \in 1 .. size |-> IF i > o /\ i <= o + Len(s) THEN s[i - o]
                           ELSE IF i <= Len(file) THEN file[i] ELSE 0]

\* An int of the file, lowest byte first; all of them are small enough for two.
IntBytes(n) == << n % 256, n \div 256, 0, 0 >>

\* Page::serialize.
Serialized(pg) ==
  IntBytes(pg.pageId) \o << IF pg.isDirty THEN 1 ELSE 0, 0 >> \o IntBytes(pg.usedBytes)
    \o [i \in 1 .. pg.usedBytes |-> pg.data[i - 1]]

SlotOf(p) == p * PageSize

\* Mutation: usedBytes is where isDirty is.
UsedBytes_Misplaced(p) == file[SlotOf(p) + 5]

\* The int of four bytes, lowest first, the highest with the sign.
IntOf(b1, b2, b3, b4) ==
  b1 + 256 * b2 + 65536 * b3 + 16777216 * (IF b4 < 128 THEN b4 ELSE b4 - 256)

\* The usedBytes of the header of page p: more than a page is taken for a page, but
\* a negative number stays.
UsedBytes(p) ==
  LET b(i) == file[SlotOf(p) + i]
      used == IntOf(b(7), b(8), b(9), b(10))
  IN  IF used > PageSize THEN PageSize ELSE used

\* Page::deserialize into the page pg: a read that ends with the file leaves the
\* rest as it is, and bytes behind usedBytes stay those of the page before.  What a
\* negative usedBytes does to data is not told: fread takes it for a huge size.
Deserialized(pg, p) ==
  LET used == IF Len(file) >= SlotOf(p) + Header THEN UsedBytes(p) ELSE pg.usedBytes
      first == SlotOf(p) + Header
  IN  [pageId    |-> p,
       isDirty   |-> FALSE,
       usedBytes |-> used,
       data      |-> [i \in Offsets |->
                        IF i < used /\ first + i < Len(file) THEN file[first + i + 1]
                        ELSE pg.data[i]]]

(***************************************************************************)
(* The steps.                                                              *)
(***************************************************************************)
TotalPages == IF file = << >> THEN 0 ELSE file[1] + 256 * file[2]

\* allocateNewPage: the page is cleared, the superblock tells of it.
NewPage(p) ==
  /\ ~ page.isDirty
  /\ p = TotalPages + 1
  /\ page' = Cleared(p, TRUE)
  /\ file' = PutInFile(0, IntBytes(p))
  /\ rows' = << >>
  /\ UNCHANGED << saved, cut, overran, large, undefined >>

\* fetchPage of a page that is not cached and has something in its slot.
Fetch(p) ==
  /\ ~ page.isDirty /\ page.pageId # p
  /\ Len(file) > SlotOf(p)
  /\ page' = Deserialized(page, p)
  /\ rows' = saved[p]
  /\ undefined' = (page'.usedBytes < 0)
  /\ UNCHANGED << file, saved, cut, overran, large >>

\* Mutation: a page is taken as long as it has any room.
HasRoom_Any == page.usedBytes < PageSize

HasRoom == page.usedBytes < PageSize - Margin

\* writeRow of row r to page pg, on which the rows held are.
WriteRow(pg, held, r) ==
  /\ page' = Written(pg, r)
  /\ rows' = Append(held, r)
  /\ cut' = (cut \/ page'.usedBytes # pg.usedBytes + RowBytes(r))
  /\ large' = (large \/ RowBytes(r) > Margin - Header)
  /\ UNCHANGED << file, saved, overran, undefined >>

\* executeInsert into the page it has found room on.
Insert(r) ==
  /\ page.pageId # 0
  /\ HasRoom
  /\ WriteRow(page, rows, r)

\* executeInsert when no page below the last has room: the last one is cleared.
InsertCleared(r) ==
  /\ page.pageId # 0 /\ page.pageId = TotalPages
  /\ WriteRow(Cleared(page.pageId, FALSE), << >>, r)

\* writePage, by flushAll or for an eviction.
Save ==
  /\ page.isDirty
  /\ file' = PutInFile(SlotOf(page.pageId), Serialized(page))
  /\ page' = [page EXCEPT !.isDirty = FALSE]
  /\ saved' = [saved EXCEPT ![page.pageId] = rows]
  /\ overran' = (overran \/ page.usedBytes > PageSize - Header)
  /\ UNCHANGED << rows, cut, large, undefined >>

\* A kill and a new process: the Page object is an empty one.
Restart ==
  /\ page' = EmptyPage
  /\ rows' = << >>
  /\ UNCHANGED << file, saved, cut, overran, large, undefined >>

Next ==
  /\ ~ undefined
  /\ \/ \E p \in PageIds : NewPage(p) \/ Fetch(p)
     \/ \E r \in Rows : Insert(r) \/ InsertCleared(r)
     \/ Save
     \/ Restart

Spec == Init /\ [][Next]_vars

(***************************************************************************)
(* Properties.                                                             *)
(***************************************************************************)
\* The types of the page and the file: usedBytes stays between 0 and the size of a
\* page, whatever rows are inserted and whatever the header in the file says, except
\* for a header with a negative number, which nothing turns away.
TypeOK ==
  /\ page \in [pageId : PageIds \union {0}, isDirty : BOOLEAN,
               usedBytes : Int, data : [Offsets -> Byte]]
  /\ undefined \/ page.usedBytes \in 0 .. PageSize
  /\ file \in Seq(Byte)
  /\ rows \in Seq(Rows) /\ saved \in [PageIds -> Seq(Rows)]
  /\ cut \in BOOLEAN /\ overran \in BOOLEAN /\ large \in BOOLEAN
  /\ undefined \in BOOLEAN

\* As long as every row has fitted and no page has run over its slot, a scan is
\* given the rows inserted, as they were and in their order, before anything else
\* it may find on the page, on a page that was fetched over another one as well;
\* and whoever reads the slot of a page finds the rows it was saved with: the
\* saving of a page leaves the others alone.
RowsComeBack ==
  ~ cut /\ ~ overran =>
    /\ IsPrefix(rows, Scan(page.data))
    /\ \A p \in PageIds : Len(file) > SlotOf(p) =>
         IsPrefix(saved[p], Scan(Deserialized(EmptyPage, p).data))

\* The room executeInsert asks for is enough for the header, too, so that none of
\* this goes wrong as long as no row is larger than what is left of it: no row is
\* cut, no page runs into the next slot, and so no header is ever read that holds
\* the bytes of a row where the sign of usedBytes should be.
MarginIsEnough == cut \/ overran \/ undefined => large
=============================================================================
