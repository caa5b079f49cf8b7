--------------------------- MODULE Engine_proofs ---------------------------
(***************************************************************************)
(* Table and Engine for every database, every text of a clause and every   *)
(* set of queries: what the indexes know and which rows stay, first for    *)
(* the table alone; then that tokens, stacks and rows keep their types     *)
(* through tokenizing, conversion and evaluation, that the conversion's    *)
(* stack climbs, and that all of it holds with queries in between.         *)
(* JoinPath for every graph: the groups of the union-find, the tree and    *)
(* the path in which the executor joins the tables.                        *)
(* Clauses for every expression: a query finds exactly what its WHERE      *)
(* clause means.                                                           *)
(***************************************************************************)
EXTENDS Clauses, JoinPath, FiniteSetTheorems, SequenceTheorems, WellFoundedInduction, TLAPS

(***************************************************************************)
(* Sets of numbers.                                                        *)
(***************************************************************************)
LEMMA LeastOf ==
  ASSUME NEW S \in SUBSET Nat, S # {}
  PROVE  \E m \in S : \A n \in S : m <= n
<1> DEFINE R == OpToRel(<, Nat)
<1>1. IsWellFoundedOn(R, Nat)
  BY NatLessThanWellFounded
<1>2. \A x, y \in Nat : y < x => << y, x >> \in R
  BY DEF OpToRel
<1> HIDE DEF R
<1>3. PICK m \in S : \A n \in S : ~ (<< n, m >> \in R)
  BY <1>1, WFMin, Zenon
<1>4. ASSUME NEW n \in S
      PROVE  ~ (n < m)
  BY <1>2, <1>3, Zenon
<1> QED
  BY <1>4

LEMMA GreatestOf ==
  ASSUME NEW b \in Nat, NEW S \in SUBSET (0 .. b), S # {}
  PROVE  \E m \in S : \A n \in S : n <= m
<1> DEFINE T == {b - n : n \in S}
<1>1. T \in SUBSET Nat /\ T # {}
  OBVIOUS
<1>2. PICK k \in T : \A n \in T : k <= n
  BY <1>1, LeastOf
<1>3. PICK m \in S : k = b - m
  BY <1>2
<1>4. ASSUME NEW n \in S
      PROVE  n <= m
  <2>1. b - m <= b - n
    BY <1>2, <1>3
  <2> QED
    BY <2>1
<1> QED
  BY <1>4

(***************************************************************************)
(* The table: what becomes of the index and of the rows below the last     *)
(* page.  The types and the honesty of the index are inductive as they     *)
(* stand.                                                                  *)
(***************************************************************************)
TableInv == TableTypeOK /\ IndexIsHonest

\* The page an insert goes to: one that was allocated and, if any page below the
\* last one has room, such a page; or else the last one.
LEMMA TargetFound ==
  ASSUME TableTypeOK, total > 0
  PROVE  /\ Target \in 1 .. total
         /\ Target \in PageIds
         /\ WithRoom # {} => Target \in WithRoom
         /\ WithRoom = {} => Target = total
<1>1. CASE WithRoom = {}
  BY <1>1, TableAssumption DEF TableTypeOK, Target, PageIds
<1>2. CASE WithRoom # {}
  <2>1. WithRoom \subseteq 1 .. total - 1
    BY DEF WithRoom, Scanned
  <2>2. WithRoom \subseteq Nat
    BY <2>1 DEF TableTypeOK
  <2>3. \E p \in WithRoom : \A q \in WithRoom : p <= q
    BY <1>2, <2>2, LeastOf
  <2>4. Target \in WithRoom
    BY <1>2, <2>3 DEF Target
  <2> QED
    BY <1>2, <2>1, <2>4, TableAssumption DEF TableTypeOK, PageIds
<1> QED
  BY <1>1, <1>2

\* An insert keeps every row it does not clear away, and its own is on the target.
LEMMA InsertedRows ==
  ASSUME TableTypeOK, NEW r \in Rows, Insert(r)
  PROVE  /\ Target \in 1 .. total /\ Target \in PageIds
         /\ pages' \in [PageIds -> Seq(Rows)]
         /\ \A p \in PageIds \ {Target} : pages'[p] = pages[p]
         /\ \E i \in DOMAIN pages'[Target] : pages'[Target][i] = r
         /\ WithRoom # {} => /\ Target \in WithRoom
                             /\ pages'[Target] = Append(pages[Target], r)
         /\ WithRoom = {} => Target = total /\ pages'[Target] = << r >>
<1>1. total > 0 /\ pages' = [pages EXCEPT ![Target] = RowsAfter(r)]
  BY DEF Insert
<1>2. /\ Target \in 1 .. total
      /\ Target \in PageIds
      /\ WithRoom # {} => Target \in WithRoom
      /\ WithRoom = {} => Target = total
  BY <1>1, TargetFound
<1>3. pages[Target] \in Seq(Rows)
  BY <1>2 DEF TableTypeOK
<1>4. /\ RowsAfter(r) \in Seq(Rows)
      /\ \E i \in DOMAIN RowsAfter(r) : RowsAfter(r)[i] = r
  <2>1. CASE WithRoom # {}
    <3>1. RowsAfter(r) = Append(pages[Target], r)
      BY <2>1 DEF RowsAfter
    <3>2. Len(pages[Target]) + 1 \in DOMAIN Append(pages[Target], r)
      BY <1>3
    <3> QED
      BY <1>3, <3>1, <3>2
  <2>2. CASE WithRoom = {}
    <3>1. RowsAfter(r) = << r >>
      BY <2>2 DEF RowsAfter
    <3> QED
      BY <3>1
  <2> QED
    BY <2>1, <2>2
<1> QED
  BY <1>1, <1>2, <1>4 DEF TableTypeOK, RowsAfter

LEMMA TableInitOK ==
  ASSUME TableInit
  PROVE  TableInv
  BY TableAssumption DEF TableInit, TableInv, TableTypeOK, IndexIsHonest, Entries, NoPage, PageIds

(***************************************************************************)
(* Inserts.                                                                *)
(***************************************************************************)
LEMMA InsertKeepsTypes ==
  ASSUME TableTypeOK, NEW r \in Rows, Insert(r)
  PROVE  TableTypeOK'
<1>1. Target \in PageIds /\ pages' \in [PageIds -> Seq(Rows)]
  BY InsertedRows
<1>2. index' \in [Entries -> PageIds \union {NoPage}]
  BY <1>1 DEF TableTypeOK, Insert, Entered
<1>3. totalRows' \in [Tables -> Nat]
  BY TableAssumption DEF TableTypeOK, Insert
<1>4. total' \in 0 .. MaxPages - 1 /\ lost' \subseteq Entries
  BY DEF TableTypeOK, Insert
<1> QED
  BY <1>1, <1>2, <1>3, <1>4 DEF TableTypeOK

LEMMA InsertKeepsIndex ==
  ASSUME TableInv, NEW r \in Rows, Insert(r)
  PROVE  IndexIsHonest'
<1> USE DEF TableInv
<1>1. /\ Target \in 1 .. total /\ Target \in PageIds
      /\ pages' \in [PageIds -> Seq(Rows)]
      /\ \A p \in PageIds \ {Target} : pages'[p] = pages[p]
      /\ \E i \in DOMAIN pages'[Target] : pages'[Target][i] = r
      /\ WithRoom # {} => pages'[Target] = Append(pages[Target], r)
      /\ WithRoom = {} => Target = total /\ pages'[Target] = << r >>
  BY InsertedRows
<1>2. /\ index' = Entered(EntryOf(r))
      /\ lost' = {f \in Entries : /\ f # EntryOf(r)
                                  /\ f \in lost \/ (WithRoom = {} /\ index[f] = total)}
      /\ total' = total
  BY DEF Insert
<1> SUFFICES ASSUME NEW e \in Entries, index'[e] # NoPage
             PROVE  /\ index'[e] \in 1 .. total
                    /\ (\E i \in DOMAIN pages'[index'[e]] : EntryOf(pages'[index'[e]][i]) = e)
                         <=> e \notin lost'
  BY <1>2 DEF IndexIsHonest, EntryOf
<1>3. CASE e = EntryOf(r)
  <2>1. index'[e] = Target
    BY <1>2, <1>3 DEF Entered, TableTypeOK
  <2>2. e \notin lost'
    BY <1>2, <1>3
  <2> QED
    BY <1>1, <1>3, <2>1, <2>2
<1>4. CASE e # EntryOf(r)
  <2>1. index'[e] = index[e]
    BY <1>2, <1>4 DEF Entered, TableTypeOK
  <2>2. /\ index[e] \in 1 .. total
        /\ (\E i \in DOMAIN pages[index[e]] : EntryOf(pages[index[e]][i]) = e) <=> e \notin lost
    BY <2>1 DEF IndexIsHonest
  <2>3. index[e] \in PageIds
    BY <2>1 DEF TableTypeOK
  <2>4. CASE index[e] # Target
    BY <1>1, <1>2, <1>4, <2>1, <2>2, <2>3, <2>4
  <2>5. CASE index[e] = Target /\ WithRoom = {}
    BY <1>1, <1>2, <1>4, <2>1, <2>2, <2>5
  <2>6. CASE index[e] = Target /\ WithRoom # {}
    <3>1. pages[Target] \in Seq(Rows) /\ pages'[Target] = Append(pages[Target], r)
      BY <1>1, <2>6 DEF TableTypeOK
    <3>2. (\E i \in DOMAIN pages'[Target] : EntryOf(pages'[Target][i]) = e)
            <=> \E i \in DOMAIN pages[Target] : EntryOf(pages[Target][i]) = e
      <4>1. \A i \in DOMAIN pages[Target] : /\ i \in DOMAIN pages'[Target]
                                            /\ pages'[Target][i] = pages[Target][i]
        BY <3>1
      <4>2. \A i \in DOMAIN pages'[Target] : \/ i \in DOMAIN pages[Target]
                                             \/ pages'[Target][i] = r
        BY <3>1
      <4> QED
        BY <1>4, <4>1, <4>2
    <3> QED
      BY <1>1, <1>2, <1>4, <2>1, <2>2, <2>6, <3>2
  <2> QED
    BY <2>4, <2>5, <2>6
<1> QED
  BY <1>3, <1>4

(***************************************************************************)
(* The other steps.                                                        *)
(***************************************************************************)
LEMMA AllocatePageKeeps ==
  ASSUME TableInv, AllocatePage
  PROVE  TableInv'
<1> USE DEF TableInv
<1>1. TableTypeOK'
  BY TableAssumption DEF TableTypeOK, AllocatePage, PageIds
<1>2. IndexIsHonest'
  <2> SUFFICES ASSUME NEW e \in Entries, index'[e] # NoPage
               PROVE  /\ index'[e] \in 1 .. total'
                      /\ (\E i \in DOMAIN pages'[index'[e]] : EntryOf(pages'[index'[e]][i]) = e)
                           <=> e \notin lost'
    BY DEF IndexIsHonest, EntryOf
  <2>1. index' = index /\ lost' = lost /\ total' = total + 1
    BY DEF AllocatePage
  <2>2. /\ index[e] \in 1 .. total
        /\ (\E i \in DOMAIN pages[index[e]] : EntryOf(pages[index[e]][i]) = e) <=> e \notin lost
    BY <2>1 DEF IndexIsHonest
  <2>3. pages'[index[e]] = pages[index[e]]
    BY <2>1, <2>2 DEF AllocatePage, TableTypeOK
  <2> QED
    BY <2>1, <2>2, <2>3 DEF TableTypeOK
<1> QED
  BY <1>1, <1>2

LEMMA RestartKeeps ==
  ASSUME TableInv, Restart
  PROVE  TableInv'
  BY DEF TableInv, TableTypeOK, IndexIsHonest, EntryOf, Restart, NoPage

LEMMA TableStepKeeps ==
  ASSUME TableInv, [TableNext]_tableVars
  PROVE  TableInv'
<1>1. ASSUME NEW r \in Rows, Insert(r)
      PROVE  TableInv'
  BY <1>1, InsertKeepsTypes, InsertKeepsIndex DEF TableInv
<1>2. CASE UNCHANGED tableVars
  BY <1>2 DEF TableInv, TableTypeOK, IndexIsHonest, EntryOf, tableVars
<1> QED
  BY <1>1, <1>2, AllocatePageKeeps, RestartKeeps DEF TableNext

(***************************************************************************)
(* The theorems of the table alone.                                        *)
(***************************************************************************)
\* Pages, index and counters keep their types, and so every page that is read or
\* written was allocated.
THEOREM TableTypes == TableSpec => []TableTypeOK
<1>1. TableInv => TableTypeOK
  BY DEF TableInv
<1> QED
  BY <1>1, TableInitOK, TableStepKeeps, PTL DEF TableSpec

\* An index goes stale only by the clearing of the last page, for any number of
\* pages and any rows (executeInsert with insertEntry).
THEOREM IndexHonesty == TableSpec => []IndexIsHonest
<1>1. TableInv => IndexIsHonest
  BY DEF TableInv
<1> QED
  BY <1>1, TableInitOK, TableStepKeeps, PTL DEF TableSpec

\* Rows below the last page are never moved or lost (executeInsert).
THEOREM RowsStay == TableSpec => RowsBelowLastStay
<1> DEFINE Stay == \A p \in 1 .. total - 1 :
                     \A i \in DOMAIN pages[p] :
                       i \in DOMAIN pages'[p] /\ pages'[p][i] = pages[p][i]
<1>1. ASSUME TableInv, [TableNext]_tableVars
      PROVE  [Stay]_tableVars
  <2> SUFFICES ASSUME NEW p \in 1 .. total - 1, NEW i \in DOMAIN pages[p]
               PROVE  i \in DOMAIN pages'[p] /\ pages'[p][i] = pages[p][i]
    OBVIOUS
  <2>1. p \in PageIds /\ total \in Nat /\ p < total /\ pages[p] \in Seq(Rows)
    BY <1>1, TableAssumption DEF TableInv, TableTypeOK, PageIds
  <2>2. ASSUME NEW r \in Rows, Insert(r)
        PROVE  i \in DOMAIN pages'[p] /\ pages'[p][i] = pages[p][i]
    <3>1. /\ \A q \in PageIds \ {Target} : pages'[q] = pages[q]
          /\ WithRoom # {} => pages'[Target] = Append(pages[Target], r)
          /\ WithRoom = {} => Target = total
      BY <1>1, <2>2, InsertedRows DEF TableInv
    <3>2. CASE Target = p
      BY <2>1, <3>1, <3>2
    <3>3. CASE Target # p
      BY <2>1, <3>1, <3>3
    <3> QED
      BY <3>2, <3>3
  <2>3. CASE AllocatePage
    BY <1>1, <2>1, <2>3 DEF AllocatePage, TableInv, TableTypeOK
  <2>4. CASE Restart
    BY <2>4 DEF Restart
  <2>5. CASE UNCHANGED tableVars
    BY <2>5 DEF tableVars
  <2> QED
    BY <1>1, <2>2, <2>3, <2>4, <2>5 DEF TableNext
<1> QED
  BY <1>1, TableInitOK, TableStepKeeps, PTL DEF TableSpec, RowsBelowLastStay

(***************************************************************************)
(* The tokenizer.                                                          *)
(***************************************************************************)
\* A run ends where it is found to end: there is a last piece of it.
LEMMA RunEnds ==
  ASSUME NEW s \in Text, NEW i \in 1 .. Len(s), NEW kinds, s[i].kind \in kinds, "end" \notin kinds
  PROVE  RunEnd(s, i, kinds) \in i .. Len(s)
<1> DEFINE S == {k \in i .. Len(s) + 1 : KindAt(s, k) \notin kinds}
<1>1. s \in Seq([kind : Kinds, value : Int]) /\ Len(s) \in Nat
  BY DEF Text
<1>2. Len(s) + 1 \in S /\ S \in SUBSET Nat
  BY <1>1 DEF KindAt
<1>3. PICK m \in S : \A k \in S : m <= k
  BY <1>2, LeastOf
<1>4. m # i
  BY <1>1, <1>3 DEF KindAt
<1>5. m - 1 \in i .. Len(s)
  BY <1>1, <1>3, <1>4
<1>6. \A k \in i .. m - 1 : s[k].kind \in kinds
  <2>1. SUFFICES ASSUME NEW k \in i .. m - 1
                 PROVE  s[k].kind \in kinds
    OBVIOUS
  <2>2. k \notin S /\ k \in i .. Len(s)
    BY <1>1, <1>3, <1>5
  <2> QED
    BY <1>1, <2>2 DEF KindAt
<1>7. KindAt(s, m - 1 + 1) \notin kinds
  BY <1>1, <1>3
<1> QED
  BY <1>5, <1>6, <1>7 DEF RunEnd

\* What nextToken returns: a token, and a place behind the one it started at.
IsRead(s, i, read) ==
  /\ read.token \in Token
  /\ read.next \in i + 1 .. Len(s) + 1

LEMMA TokTyped ==
  ASSUME NEW type, NEW value \in Int,
         type \in Operators \/ type \in Operands \/ type \in Keywords \/ type \in {"LPAREN", "RPAREN"}
  PROVE  Tok(type, value) \in Token
  BY DEF Tok, Token

\* A piece of a text.
LEMMA PieceTyped ==
  ASSUME NEW s \in Text
  PROVE  /\ Len(s) \in Nat /\ DOMAIN s = 1 .. Len(s)
         /\ \A i \in 1 .. Len(s) : s[i].kind \in Kinds /\ s[i].value \in Int
<1> DEFINE Pieces == [kind : Kinds, value : Int]
<1>1. s \in Seq(Pieces)
  BY DEF Text
<1>2. \A x \in Pieces : x.kind \in Kinds /\ x.value \in Int
  OBVIOUS
<1> HIDE DEF Pieces
<1> QED
  BY <1>1, <1>2

LEMMA IdentifierRead ==
  ASSUME NEW s \in Text, NEW i \in 1 .. Len(s), s[i].kind \in Keywords \union {"name", "underscore"}
  PROVE  IsRead(s, i, IdentifierOrKeyword(s, i))
<1> DEFINE j == RunEnd(s, i, NamePieces)
<1>1. j \in i .. Len(s)
  BY RunEnds DEF NamePieces, Keywords
<1>2. s[i].value \in Int /\ Len(s) \in Nat
  BY PieceTyped
<1> HIDE DEF j
<1>3. Tok("IDENTIFIER", Unknown) \in Token /\ Tok("IDENTIFIER", s[i].value) \in Token
  <2>1. "IDENTIFIER" \in Operands /\ Unknown \in Int
    BY DEF Operands, Unknown
  <2> QED
    BY <1>2, <2>1, TokTyped
<1>4. s[i].kind \in Keywords => Tok(s[i].kind, 0) \in Token
  BY TokTyped
<1>5. \/ IdentifierOrKeyword(s, i) = Read(Tok("IDENTIFIER", Unknown), j + 1)
      \/ s[i].kind \in Keywords /\ IdentifierOrKeyword(s, i) = Read(Tok(s[i].kind, 0), j + 1)
      \/ IdentifierOrKeyword(s, i) = Read(Tok("IDENTIFIER", s[i].value), j + 1)
  <2>1. CASE j > i
    BY <2>1 DEF IdentifierOrKeyword, j
  <2>2. CASE ~ (j > i) /\ s[i].kind \in Keywords
    BY <2>2 DEF IdentifierOrKeyword, j
  <2>3. CASE ~ (j > i) /\ s[i].kind \notin Keywords
    BY <2>3 DEF IdentifierOrKeyword, j
  <2> QED
    BY <2>1, <2>2, <2>3
<1> QED
  BY <1>1, <1>2, <1>3, <1>4, <1>5 DEF IsRead, Read

LEMMA NumberRead ==
  ASSUME NEW s \in Text, NEW i \in 1 .. Len(s), s[i].kind = "digits"
  PROVE  IsRead(s, i, Number(s, i))
<1> DEFINE j == RunEnd(s, i, {"digits", "."})
<1>1. j \in i .. Len(s)
  BY RunEnds
<1>2. s[i].value \in Int /\ Len(s) \in Nat
  BY PieceTyped
<1> HIDE DEF j
<1> DEFINE fraction == IF KindAt(s, i + 2) = "digits" THEN s[i + 2].value ELSE 0
           tenths == Tenths * s[i].value + fraction
<1>3. fraction \in Int
  <2>1. CASE i + 2 \in 1 .. Len(s)
    <3>1. s[i + 2].value \in Int
      BY <2>1, PieceTyped
    <3> QED
      BY <3>1
  <2>2. CASE i + 2 \notin 1 .. Len(s)
    <3>1. KindAt(s, i + 2) = "end"
      BY <2>2, PieceTyped DEF KindAt
    <3> QED
      BY <3>1
  <2> QED
    BY <2>1, <2>2
<1> HIDE DEF fraction
<1>4. tenths \in Int
  BY <1>2, <1>3 DEF Tenths
<1>5. \/ Number(s, i) = Read(Tok("NUMBER_FLOAT", tenths), j + 1)
      \/ Number(s, i) = Read(Tok("NUMBER_INT", s[i].value), j + 1)
  BY DEF Number, j, fraction
<1> HIDE DEF tenths
<1>6. Tok("NUMBER_FLOAT", tenths) \in Token /\ Tok("NUMBER_INT", s[i].value) \in Token
  BY <1>2, <1>4, TokTyped DEF Operands, Literals
<1> QED
  BY <1>1, <1>2, <1>5, <1>6 DEF IsRead, Read

\* A string ends at the next quote, or with the text.
LEMMA StringRead ==
  ASSUME NEW s \in Text, NEW i \in 1 .. Len(s)
  PROVE  IsRead(s, i, String(s, i))
<1> DEFINE IsEnd(j) == /\ KindAt(s, j) \in {"quote", "end"}
                       /\ \A m \in i + 1 .. j - 1 : s[m].kind # "quote"
           end == CHOOSE j \in i + 1 .. Len(s) + 1 : IsEnd(j)
           S == {k \in i + 1 .. Len(s) + 1 : KindAt(s, k) \in {"quote", "end"}}
           value == IF end = i + 2 THEN s[i + 1].value ELSE Unknown
<1>1. s \in Seq([kind : Kinds, value : Int]) /\ Len(s) \in Nat
  BY DEF Text
<1>2. Len(s) + 1 \in S /\ S \in SUBSET Nat
  BY <1>1 DEF KindAt
<1>3. PICK e \in S : \A k \in S : e <= k
  BY <1>2, LeastOf
<1>4. \A m \in i + 1 .. e - 1 : s[m].kind # "quote"
  <2>1. SUFFICES ASSUME NEW m \in i + 1 .. e - 1
                 PROVE  s[m].kind # "quote"
    OBVIOUS
  <2>2. m \notin S /\ m \in 1 .. Len(s) /\ m \in i + 1 .. Len(s) + 1
    BY <1>1, <1>3
  <2> QED
    BY <1>1, <2>2 DEF KindAt
<1>5. end \in i + 1 .. Len(s) + 1
  BY <1>3, <1>4
<1> HIDE DEF IsEnd, end
<1>6. value \in Int
  <2>1. end = i + 2 => i + 1 \in 1 .. Len(s)
    BY <1>1, <1>5
  <2> QED
    BY <2>1, PieceTyped DEF Unknown
<1>7. String(s, i) = Read(Tok("STRING_LITERAL", value), IF end > Len(s) THEN end ELSE end + 1)
  BY DEF String, end, IsEnd
<1> HIDE DEF value
<1>8. Tok("STRING_LITERAL", value) \in Token
  BY <1>6, TokTyped DEF Operands, Literals
<1> QED
  BY <1>1, <1>5, <1>7, <1>8 DEF IsRead, Read

LEMMA OperatorRead ==
  ASSUME NEW s \in Text, NEW i \in 1 .. Len(s),
         s[i].kind \in DOMAIN Arithmetics \union DOMAIN Comparisons
  PROVE  IsRead(s, i, Operator(s, i))
<1> DEFINE c == s[i].kind
<1>1. Len(s) \in Nat /\ DOMAIN s = 1 .. Len(s)
  BY PieceTyped
<1>2. c \in DOMAIN Arithmetics => Tok(Arithmetics[c], 0) \in Token
  <2>1. c \in DOMAIN Arithmetics => Arithmetics[c] \in Operators
    BY DEF Arithmetics, Operators
  <2> QED
    BY <2>1, TokTyped
<1>3. c \in DOMAIN Comparisons => Tok(Comparisons[c], 0) \in Token /\ Tok(WithEqualSign[c], 0) \in Token
  <2>1. c \in DOMAIN Comparisons => Comparisons[c] \in Operators \union Keywords /\ WithEqualSign[c] \in Operators
    BY DEF Comparisons, WithEqualSign, Operators, Keywords
  <2> QED
    BY <2>1, TokTyped
<1>4. KindAt(s, i + 1) = "=" => i + 1 \in 1 .. Len(s)
  BY <1>1 DEF KindAt, Text
<1>5. \/ c \in DOMAIN Arithmetics /\ Operator(s, i) = Read(Tok(Arithmetics[c], 0), i + 1)
      \/ /\ c \in DOMAIN Comparisons /\ KindAt(s, i + 1) = "="
         /\ Operator(s, i) = Read(Tok(WithEqualSign[c], 0), i + 2)
      \/ c \in DOMAIN Comparisons /\ Operator(s, i) = Read(Tok(Comparisons[c], 0), i + 1)
  <2>1. CASE c \in DOMAIN Arithmetics
    BY <2>1 DEF Operator
  <2>2. CASE c \notin DOMAIN Arithmetics /\ KindAt(s, i + 1) = "="
    BY <2>2 DEF Operator
  <2>3. CASE c \notin DOMAIN Arithmetics /\ KindAt(s, i + 1) # "="
    BY <2>3 DEF Operator
  <2> QED
    BY <2>1, <2>2, <2>3
<1> HIDE DEF c
<1> QED
  BY <1>1, <1>2, <1>3, <1>4, <1>5 DEF IsRead, Read

\* Every character but a space starts a token, and nextToken moves on.
LEMMA NextTokenRead ==
  ASSUME NEW s \in Text, NEW i \in 1 .. Len(s)
  PROVE  IsRead(s, i, NextToken(s, i))
<1> DEFINE c == s[i].kind
<1>1. Len(s) \in Nat /\ DOMAIN s = 1 .. Len(s)
  BY PieceTyped
<1>2. /\ IsRead(s, i, Read(Tok("LPAREN", 0), i + 1))
      /\ IsRead(s, i, Read(Tok("RPAREN", 0), i + 1))
      /\ IsRead(s, i, Read(Tok("IDENTIFIER", Unknown), i + 1))
  <2>1. /\ Tok("LPAREN", 0) \in Token /\ Tok("RPAREN", 0) \in Token
        /\ Tok("IDENTIFIER", Unknown) \in Token
    <3>1. "IDENTIFIER" \in Operands /\ Unknown \in Int
      BY DEF Operands, Unknown
    <3> QED
      BY <3>1, TokTyped
  <2> QED
    BY <1>1, <2>1 DEF IsRead, Read
<1>3. CASE c = "("
  BY <1>2, <1>3 DEF NextToken, Keywords, Arithmetics, Comparisons
<1>4. CASE c = ")"
  BY <1>2, <1>4 DEF NextToken, Keywords, Arithmetics, Comparisons
<1>5. CASE c = "quote"
  <2>1. NextToken(s, i) = String(s, i)
    BY <1>5 DEF NextToken, Keywords, Arithmetics, Comparisons
  <2> QED
    BY <2>1, StringRead
<1>6. CASE c \in Keywords \union {"name", "underscore"}
  <2>1. NextToken(s, i) = IdentifierOrKeyword(s, i)
    BY <1>6 DEF NextToken, Keywords, Arithmetics, Comparisons
  <2> QED
    BY <1>6, <2>1, IdentifierRead
<1>7. CASE c = "digits"
  <2>1. NextToken(s, i) = Number(s, i)
    BY <1>7 DEF NextToken, Keywords, Arithmetics, Comparisons
  <2> QED
    BY <1>7, <2>1, NumberRead
<1>8. CASE c \in DOMAIN Arithmetics \union DOMAIN Comparisons
  <2>1. NextToken(s, i) = Operator(s, i)
    BY <1>8 DEF NextToken, Keywords, Arithmetics, Comparisons
  <2> QED
    BY <1>8, <2>1, OperatorRead
<1>9. CASE /\ c \notin {"(", ")", "quote", "digits"} \union Keywords \union {"name", "underscore"}
           /\ c \notin DOMAIN Arithmetics \union DOMAIN Comparisons
  BY <1>2, <1>9 DEF NextToken
<1> QED
  BY <1>3, <1>4, <1>5, <1>6, <1>7, <1>8, <1>9

\* The tokens from position i on, given those from the later positions on.
From(s, f, i) ==
  IF i > Len(s) THEN << >>
  ELSE IF s[i].kind = "space" THEN f[i + 1]
  ELSE << NextToken(s, i).token >> \o f[NextToken(s, i).next]

LEMMA FromTyped ==
  ASSUME NEW s \in Text, NEW i \in 1 .. Len(s) + 1, NEW f,
         \A j \in i + 1 .. Len(s) + 1 : f[j] \in Seq(Token)
  PROVE  From(s, f, i) \in Seq(Token)
<1>1. Len(s) \in Nat
  BY PieceTyped
<1>2. CASE i > Len(s)
  BY <1>2 DEF From
<1>3. CASE i <= Len(s) /\ s[i].kind = "space"
  <2>1. From(s, f, i) = f[i + 1] /\ i + 1 \in i + 1 .. Len(s) + 1
    BY <1>1, <1>3 DEF From
  <2> QED
    BY <2>1
<1>4. CASE i <= Len(s) /\ s[i].kind # "space"
  <2>1. NextToken(s, i).token \in Token /\ NextToken(s, i).next \in i + 1 .. Len(s) + 1
    BY <1>1, <1>4, NextTokenRead DEF IsRead
  <2>2. From(s, f, i) = << NextToken(s, i).token >> \o f[NextToken(s, i).next]
    BY <1>1, <1>4 DEF From
  <2>3. << NextToken(s, i).token >> \in Seq(Token)
    BY <2>1
  <2>4. f[NextToken(s, i).next] \in Seq(Token)
    BY <2>1
  <2> QED
    BY <2>2, <2>3, <2>4
<1> QED
  BY <1>1, <1>2, <1>3, <1>4

LEMMA FromLater ==
  ASSUME NEW s \in Text, NEW i \in 1 .. Len(s) + 1, NEW f, NEW g,
         \A j \in i + 1 .. Len(s) + 1 : f[j] = g[j]
  PROVE  From(s, f, i) = From(s, g, i)
<1>1. Len(s) \in Nat
  BY PieceTyped
<1>2. CASE i <= Len(s) /\ s[i].kind # "space"
  BY <1>1, <1>2, NextTokenRead DEF IsRead, From
<1>3. CASE ~ (i <= Len(s) /\ s[i].kind # "space")
  BY <1>1, <1>3 DEF From
<1> QED
  BY <1>2, <1>3

\* The tokens of the last k positions, for every k: there is no first k without.
LEMMA TokensExist ==
  ASSUME NEW s \in Text
  PROVE  \E f : f = [i \in 1 .. Len(s) + 1 |-> From(s, f, i)]
<1> DEFINE n == Len(s)
           Have(k) == \E f \in [n + 1 - k .. n + 1 -> Seq(Token)] :
                        \A i \in n + 1 - k .. n + 1 : f[i] = From(s, f, i)
           Missing == {k \in 0 .. n : ~ Have(k)}
<1>1. n \in Nat
  BY PieceTyped
<1>2. Have(0)
  <2> DEFINE f == [i \in n + 1 .. n + 1 |-> << >>]
  <2>1. f \in [n + 1 .. n + 1 -> Seq(Token)]
    OBVIOUS
  <2>2. \A i \in n + 1 .. n + 1 : f[i] = From(s, f, i)
    BY <1>1 DEF From
  <2>3. n + 1 - 0 = n + 1
    BY <1>1
  <2> HIDE DEF f, n
  <2> QED
    BY <2>1, <2>2, <2>3
<1>3. ASSUME NEW k \in 1 .. n, Have(k - 1)
      PROVE  Have(k)
  <2> DEFINE low == n + 1 - k
  <2>1. low \in 1 .. n /\ n + 1 - (k - 1) = low + 1 /\ n + 1 \in low + 1 .. n + 1
    BY <1>1
  <2>2. PICK g \in [low + 1 .. n + 1 -> Seq(Token)] :
          \A i \in low + 1 .. n + 1 : g[i] = From(s, g, i)
    BY <1>3, <2>1
  <2> HIDE DEF low
  <2> DEFINE f == [i \in low .. n + 1 |-> IF i = low THEN From(s, g, low) ELSE g[i]]
  <2>3. From(s, g, low) \in Seq(Token)
    BY <1>1, <2>1, <2>2, FromTyped, SMTT(30)
  <2>4. f \in [low .. n + 1 -> Seq(Token)]
    BY <1>1, <2>1, <2>2, <2>3
  <2>5. \A j \in low + 1 .. n + 1 : f[j] = g[j]
    BY <1>1, <2>1
  <2>6. f[low] = From(s, g, low)
    BY <1>1, <2>1
  <2> HIDE DEF f
  <2>7. ASSUME NEW i \in low .. n + 1
        PROVE  f[i] = From(s, f, i)
    <3>1. i \in 1 .. n + 1 /\ \A j \in i + 1 .. n + 1 : f[j] = g[j]
      BY <1>1, <2>1, <2>5
    <3>2. From(s, f, i) = From(s, g, i)
      BY <3>1, FromLater
    <3> QED
      BY <1>1, <2>1, <2>2, <2>5, <2>6, <3>2
  <2> QED
    BY <2>4, <2>7 DEF low
<1>4. Missing = {}
  <2>1. SUFFICES ASSUME Missing # {}
                 PROVE  FALSE
    OBVIOUS
  <2> HIDE DEF Have
  <2>2. Missing \in SUBSET Nat
    BY <1>1
  <2>3. PICK k \in Missing : \A m \in Missing : k <= m
    BY <2>1, <2>2, LeastOf
  <2>4. k \in 1 .. n /\ k - 1 \in 0 .. n
    BY <1>1, <1>2, <2>3
  <2>5. k - 1 \notin Missing
    BY <2>3, <2>4
  <2> QED
    BY <1>3, <2>3, <2>4, <2>5
<1>5. PICK f \in [n + 1 - n .. n + 1 -> Seq(Token)] :
        \A i \in n + 1 - n .. n + 1 : f[i] = From(s, f, i)
  BY <1>1, <1>4
<1>6. n + 1 - n = 1
  BY <1>1
<1> HIDE DEF n
<1>7. f = [i \in 1 .. n + 1 |-> From(s, f, i)]
  BY <1>5, <1>6
<1> QED
  BY <1>7 DEF n

\* From every position on the tokenizer makes a sequence of tokens of a text, the
\* one that From says.
LEMMA TokensAre ==
  ASSUME NEW s \in Text, NEW i \in 1 .. Len(s) + 1
  PROVE  TokensFrom(s)[i] \in Seq(Token) /\ TokensFrom(s)[i] = From(s, TokensFrom(s), i)
<1> DEFINE f == TokensFrom(s)
           Bad == {k \in 1 .. Len(s) + 1 : f[k] \notin Seq(Token)}
<1>1. Len(s) \in Nat
  BY PieceTyped
<1>2. f = CHOOSE g : g = [k \in 1 .. Len(s) + 1 |-> From(s, g, k)]
  BY DEF TokensFrom, From
<1>3. f = [k \in 1 .. Len(s) + 1 |-> From(s, f, k)]
  <2> HIDE DEF f
  <2> QED
    BY <1>2, TokensExist
<1> HIDE DEF f
<1>4. \A k \in 1 .. Len(s) + 1 : f[k] = From(s, f, k)
  BY <1>3
<1>5. Bad = {}
  <2>1. SUFFICES ASSUME Bad # {}
                 PROVE  FALSE
    OBVIOUS
  <2>2. Bad \in SUBSET (0 .. Len(s) + 1) /\ Len(s) + 1 \in Nat
    BY <1>1
  <2>3. PICK k \in Bad : \A j \in Bad : j <= k
    BY <2>1, <2>2, GreatestOf
  <2>4. \A j \in k + 1 .. Len(s) + 1 : f[j] \in Seq(Token)
    BY <1>1, <2>3
  <2>5. From(s, f, k) \in Seq(Token)
    BY <2>4, FromTyped
  <2> QED
    BY <1>4, <2>5
<1> QED
  BY <1>1, <1>4, <1>5 DEF f

LEMMA TokenizeAllTyped ==
  ASSUME NEW s \in Text
  PROVE  TokenizeAll(s) \in Seq(Token)
<1>1. 1 \in 1 .. Len(s) + 1
  BY PieceTyped
<1> QED
  BY <1>1, TokensAre DEF TokenizeAll

(***************************************************************************)
(* convert.                                                                *)
(***************************************************************************)
\* The operators that stay on the stack when t comes, and those below the last
\* opening parenthesis.
Kept(t) == SelectLastInSeq(ops, LAMBDA o : ~ Yields(o, t))
Opening == SelectLastInSeq(ops, LAMBDA o : o.type = "LPAREN")

LEMMA LastNotYielding ==
  ASSUME ops \in Seq(Token), NEW t
  PROVE  /\ Kept(t) \in 0 .. Len(ops)
         /\ Kept(t) > 0 => ~ Yields(ops[Kept(t)], t)
         /\ \A j \in Kept(t) + 1 .. Len(ops) : Yields(ops[j], t)
<1> DEFINE k == Kept(t)
           S == {i \in 1 .. Len(ops) : ~ Yields(ops[i], t)}
<1>1. Len(ops) \in Nat
  OBVIOUS
<1>2. k = IF S # {} THEN CHOOSE x \in S : \A y \in S : x >= y ELSE 0
  BY DEF Kept, SelectLastInSeq, Max
<1>3. S \in SUBSET (0 .. Len(ops))
  BY <1>1
<1> SUFFICES /\ k \in 0 .. Len(ops)
             /\ k > 0 => ~ Yields(ops[k], t)
             /\ \A j \in k + 1 .. Len(ops) : j \notin S
  BY <1>1
<1> HIDE DEF k, S
<1>4. CASE S = {}
  BY <1>1, <1>2, <1>4
<1>5. CASE S # {}
  <2>1. PICK m \in S : \A n \in S : n <= m
    BY <1>1, <1>3, <1>5, GreatestOf
  <2>2. \A n \in S : m >= n
    BY <1>1, <1>3, <2>1
  <2>3. k \in S /\ \A n \in S : k >= n
    BY <1>2, <1>5, <2>2
  <2>4. k \in 1 .. Len(ops) /\ ~ Yields(ops[k], t)
    BY <2>3 DEF S
  <2> QED
    BY <1>1, <2>3, <2>4
<1> QED
  BY <1>4, <1>5

LEMMA LastOpening ==
  ASSUME ops \in Seq(Token)
  PROVE  /\ Opening \in 0 .. Len(ops)
         /\ Opening > 0 => ops[Opening].type = "LPAREN"
         /\ \A j \in Opening + 1 .. Len(ops) : ops[j].type # "LPAREN"
<1> DEFINE k == Opening
           S == {i \in 1 .. Len(ops) : ops[i].type = "LPAREN"}
<1>1. Len(ops) \in Nat
  OBVIOUS
<1>2. k = IF S # {} THEN CHOOSE x \in S : \A y \in S : x >= y ELSE 0
  BY DEF Opening, SelectLastInSeq, Max
<1>3. S \in SUBSET (0 .. Len(ops))
  BY <1>1
<1> SUFFICES /\ k \in 0 .. Len(ops)
             /\ k > 0 => ops[k].type = "LPAREN"
             /\ \A j \in k + 1 .. Len(ops) : j \notin S
  BY <1>1
<1> HIDE DEF k, S
<1>4. CASE S = {}
  BY <1>1, <1>2, <1>4
<1>5. CASE S # {}
  <2>1. PICK m \in S : \A n \in S : n <= m
    BY <1>1, <1>3, <1>5, GreatestOf
  <2>2. \A n \in S : m >= n
    BY <1>1, <1>3, <2>1
  <2>3. k \in S /\ \A n \in S : k >= n
    BY <1>2, <1>5, <2>2
  <2>4. k \in 1 .. Len(ops) /\ ops[k].type = "LPAREN"
    BY <2>3 DEF S
  <2> QED
    BY <1>1, <2>3, <2>4
<1> QED
  BY <1>4, <1>5

LEMMA PopToTyped ==
  ASSUME ops \in Seq(Token), out \in Seq(Token), NEW k \in 0 .. Len(ops), PopTo(k)
  PROVE  out' \in Seq(Token) /\ Len(out') >= Len(out)
<1> DEFINE top == SubSeq(ops, k + 1, Len(ops))
<1>1. top \in Seq(Token)
  BY SubSeqProperties
<1> HIDE DEF top
<1>2. Reverse(top) \in Seq(Token)
  <2>1. Len(top) \in Nat /\ \A i \in 1 .. Len(top) : top[(Len(top) - i) + 1] \in Token
    BY <1>1
  <2>2. Reverse(top) \in [1 .. Len(top) -> Token]
    BY <2>1 DEF Reverse
  <2> QED
    BY <2>1, <2>2, SMTT(30)
<1> QED
  BY <1>1, <1>2 DEF PopTo, top

\* Every conversion step keeps the types of the stack, the queue and the counter.
LEMMA ConvertTyped ==
  ASSUME ClauseTypeOK,
         ConvertOperand \/ ConvertOperator \/ ConvertOpening \/ ConvertClosing
           \/ ConvertOther \/ ConvertEnd
  PROVE  ClauseTypeOK'
<1> USE DEF ClauseTypeOK
<1>1. Len(infix) \in Nat /\ Len(out) \in Nat /\ Len(ops) \in Nat /\ next \in Nat /\ next >= 1
  OBVIOUS
<1>2. \A t \in ToSet(infix) : t \in Token
  BY DEF ToSet
<1>3. ASSUME NEW t, Converts(t), ops' \in Seq(Token), out' \in Seq(Token)
      PROVE  ClauseTypeOK'
  <2>1. Len(out') \in Nat /\ next' = next + 1 /\ next <= Len(infix) /\ infix' = infix
    BY <1>3 DEF Converts
  <2>2. next' \in 1 .. Len(infix') + Len(out') + 1
    BY <1>1, <2>1
  <2> QED
    BY <1>3, <2>1, <2>2 DEF Converts
<1>4. CASE ConvertOperand
  BY <1>2, <1>3, <1>4 DEF ConvertOperand
<1>5. CASE ConvertOperator
  <2>1. PICK t \in ToSet(infix) :
          /\ Converts(t)
          /\ PopTo(Kept(t)) /\ ops' = Append(SubSeq(ops, 1, Kept(t)), t)
    BY <1>5 DEF ConvertOperator, Kept
  <2> DEFINE k == Kept(t)
  <2>2. k \in 0 .. Len(ops)
    BY LastNotYielding
  <2>3. PopTo(k) /\ ops' = Append(SubSeq(ops, 1, k), t)
    BY <2>1
  <2> HIDE DEF k
  <2>4. out' \in Seq(Token)
    BY <2>2, <2>3, PopToTyped
  <2>5. SubSeq(ops, 1, k) \in Seq(Token)
    BY <1>1, <2>2, SubSeqProperties
  <2> QED
    <3>1. t \in Token
      BY <1>2, <2>1
    <3>2. ops' \in Seq(Token)
      BY <2>3, <2>5, <3>1
    <3> QED
      BY <1>3, <2>1, <2>4, <3>2
<1>6. CASE ConvertOpening
  BY <1>2, <1>3, <1>6 DEF ConvertOpening
<1>7. CASE ConvertClosing
  <2>1. PICK t \in ToSet(infix) :
          /\ Converts(t)
          /\ PopTo(Opening) /\ ops' = SubSeq(ops, 1, Opening - 1)
    BY <1>7 DEF ConvertClosing, Opening
  <2> DEFINE k == Opening
  <2>2. k \in 0 .. Len(ops)
    BY LastOpening
  <2>3. PopTo(k) /\ ops' = SubSeq(ops, 1, k - 1)
    BY <2>1
  <2> HIDE DEF k
  <2>4. out' \in Seq(Token)
    BY <2>2, <2>3, PopToTyped
  <2>5. SubSeq(ops, 1, k - 1) \in Seq(Token)
    BY <1>1, <2>2, SubSeqProperties
  <2> QED
    BY <1>3, <2>1, <2>3, <2>4, <2>5
<1>8. CASE ConvertOther
  BY <1>3, <1>8 DEF ConvertOther
<1>9. CASE ConvertEnd
  <2>1. out' \in Seq(Token) /\ Len(out') >= Len(out)
    BY <1>1, <1>9, PopToTyped DEF ConvertEnd
  <2>2. infix' = infix /\ next' = next /\ phase' = "plan" /\ ops' = << >>
        /\ row' = row /\ evalStack' = evalStack /\ match' = match /\ phase = "convert"
    BY <1>9 DEF ConvertEnd
  <2>3. next' \in 1 .. Len(infix') + Len(out') + 1
    BY <1>1, <2>1, <2>2
  <2> QED
    BY <2>1, <2>2, <2>3
<1> QED
  BY <1>4, <1>5, <1>6, <1>7, <1>8, <1>9

(***************************************************************************)
(* evaluate.                                                               *)
(***************************************************************************)
LEMMA TruthTyped ==
  ASSUME NEW b \in BOOLEAN
  PROVE  Truth(b) \in Field
  BY DEF Truth, Field

\* The result of an arithmetic operator on two numbers is a number.
LEMMA ComputedTyped ==
  ASSUME NEW op \in {"PLUS", "MINUS", "MULTIPLY", "MODULO"}, NEW f \in Field, NEW g \in Field,
         op = "MODULO" => CutToInt(g) # 0
  PROVE  Computed(op, f, g) \in Field
<1>1. f.value \in Int /\ g.value \in Int
  BY DEF Field
<1> DEFINE x == CoerceToFloat(f)
           y == CoerceToFloat(g)
<1>2. x \in Int /\ y \in Int
  BY <1>1 DEF CoerceToFloat, Tenths
<1>3. CutToInt(f) \in Int /\ CutToInt(g) \in Int
  BY <1>1 DEF CutToInt, Tenths
<1>4. \A a, b \in Int : b # 0 => Remainder(a, b) \in Int
  BY DEF Remainder
<1>5. \A n \in Int : Tok("INT", n) \in Field /\ Tok("FLOAT", n) \in Field
  BY DEF Tok, Field
<1>6. CASE f.type = "INT" /\ g.type = "INT"
  <2>1. op = "MODULO" => Remainder(f.value, g.value) \in Int
    BY <1>1, <1>4, <1>6 DEF CutToInt
  <2>2. CASE op = "PLUS"
    BY <1>1, <1>5, <1>6, <2>2 DEF Computed
  <2>3. CASE op = "MINUS"
    BY <1>1, <1>5, <1>6, <2>3 DEF Computed
  <2>4. CASE op = "MULTIPLY"
    <3>1. Computed(op, f, g) = Tok("INT", f.value * g.value)
      BY <1>6, <2>4 DEF Computed
    <3>2. f.value * g.value \in Int
      BY <1>1
    <3> QED
      BY <1>5, <3>1, <3>2
  <2>5. CASE op = "MODULO"
    <3>1. Computed(op, f, g) = Tok("INT", Remainder(f.value, g.value))
      BY <1>6, <2>5 DEF Computed
    <3> QED
      BY <1>5, <2>1, <2>5, <3>1
  <2> QED
    BY <2>2, <2>3, <2>4, <2>5
<1>7. CASE ~ (f.type = "INT" /\ g.type = "INT")
  <2>1. CASE op = "PLUS"
    <3>1. Computed(op, f, g) = Tok("FLOAT", x + y)
      BY <1>7, <2>1 DEF Computed
    <3> HIDE DEF x, y
    <3> QED
      BY <1>2, <1>5, <3>1
  <2>2. CASE op = "MINUS"
    <3>1. Computed(op, f, g) = Tok("FLOAT", x - y)
      BY <1>7, <2>2 DEF Computed
    <3> HIDE DEF x, y
    <3> QED
      BY <1>2, <1>5, <3>1
  <2>3. CASE op = "MULTIPLY"
    <3>1. Computed(op, f, g) = Tok("FLOAT", (x * y) \div 10)
      BY <1>7, <2>3 DEF Computed, Tenths
    <3> HIDE DEF x, y
    <3>2. (x * y) \div 10 \in Int
      <4>1. x * y \in Int
        BY <1>2
      <4>2. \A p \in Int : p \div 10 \in Int
        OBVIOUS
      <4> QED
        BY <4>1, <4>2
    <3> QED
      BY <1>5, <3>1, <3>2
  <2>4. CASE op = "MODULO"
    <3>1. Computed(op, f, g) = Tok("FLOAT", 10 * Remainder(CutToInt(f), CutToInt(g)))
      BY <1>7, <2>4 DEF Computed, Tenths
    <3>2. Remainder(CutToInt(f), CutToInt(g)) \in Int
      BY <1>3, <1>4, <2>4
    <3> QED
      BY <1>5, <3>1, <3>2
  <2> QED
    BY <2>1, <2>2, <2>3, <2>4
<1> QED
  BY <1>6, <1>7

\* Whatever an operator finds on the stack, nullptr or a field of any type, it
\* pushes a field.
LEMMA AppliedTyped ==
  ASSUME NEW op \in Operators, NEW f \in Field \union {Null}, NEW g \in Field \union {Null},
         ~ RemainderByZero(op, f, g)
  PROVE  Applied(op, f, g) \in Field
<1>1. \A b \in BOOLEAN : Truth(b) \in Field
  BY TruthTyped
<1>2. CASE op \in {"PLUS", "MINUS", "MULTIPLY", "MODULO"}
  <2>1. Applied(op, f, g) = Arithmetic(op, f, g)
    BY <1>2 DEF Applied
  <2>2. CASE AreNumbers(f, g)
    <3>1. f \in Field /\ g \in Field
      BY <2>2 DEF AreNumbers, Null
    <3>2. op = "MODULO" => CutToInt(g) # 0
      BY <2>2 DEF RemainderByZero
    <3>3. Computed(op, f, g) \in Field
      BY <1>2, <3>1, <3>2, ComputedTyped
    <3> QED
      BY <2>1, <2>2, <3>3 DEF Arithmetic
  <2>3. CASE ~ AreNumbers(f, g)
    BY <1>1, <2>1, <2>3 DEF Arithmetic
  <2> QED
    BY <2>2, <2>3
<1>3. CASE op \in {"EQUALS", "NOT_EQUALS"}
  BY <1>1, <1>3 DEF Applied, Equals
<1>4. CASE op \in {"LESS", "GREATER", "LESS_EQ", "GREATER_EQ"}
  BY <1>1, <1>4 DEF Applied, LessThan
<1>5. CASE op \in {"AND", "OR"}
  BY <1>1, <1>5 DEF Applied, IsTrue
<1> QED
  BY <1>2, <1>3, <1>4, <1>5 DEF Operators

LEMMA PoppedTyped ==
  ASSUME evalStack \in Seq(Field), NEW n \in {1, 2}
  PROVE  Popped(evalStack, n) \in Field \union {Null}
<1> USE DEF Popped
<1>1. Len(evalStack) \in Nat
  OBVIOUS
<1>2. n <= Len(evalStack) => Len(evalStack) - n + 1 \in 1 .. Len(evalStack)
  BY <1>1
<1> QED
  BY <1>1, <1>2

\* Every step of the evaluation keeps the types of stack and counter.
LEMMA EvaluateTyped ==
  ASSUME ClauseTypeOK,
         EvaluateIdentifier \/ EvaluateLiteral \/ EvaluateOperator \/ EvaluateOther \/ Trap
  PROVE  ClauseTypeOK'
<1> USE DEF ClauseTypeOK
<1>1. Len(infix) \in Nat /\ Len(out) \in Nat /\ Len(evalStack) \in Nat /\ next \in Nat /\ next >= 1
  OBVIOUS
<1>2. \A t \in ToSet(out) : t \in Token
  BY DEF ToSet
<1>3. ASSUME NEW t, Evaluates(t), evalStack' \in Seq(Field)
      PROVE  ClauseTypeOK'
  <2>1. next' = next + 1 /\ next <= Len(out) /\ infix' = infix /\ out' = out
    BY <1>3 DEF Evaluates
  <2>2. next' \in 1 .. Len(infix') + Len(out') + 1
    BY <1>1, <2>1
  <2> QED
    BY <1>3, <2>1, <2>2 DEF Evaluates
<1>4. CASE EvaluateIdentifier
  <2>1. PICK t \in ToSet(out) :
          /\ Evaluates(t)
          /\ evalStack' = IF Column(schema, t.value) \in DOMAIN row
                          THEN Append(evalStack, row[Column(schema, t.value)]) ELSE evalStack
    BY <1>4 DEF EvaluateIdentifier
  <2>2. CASE Column(schema, t.value) \in DOMAIN row
    <3>1. row[Column(schema, t.value)] \in Field
      BY <2>2
    <3> QED
      BY <1>3, <2>1, <2>2, <3>1
  <2>3. CASE Column(schema, t.value) \notin DOMAIN row
    BY <1>3, <2>1, <2>3
  <2> QED
    BY <2>2, <2>3
<1>5. CASE EvaluateLiteral
  <2>1. PICK t \in ToSet(out) :
          /\ Evaluates(t)
          /\ t.type \in Literals
          /\ evalStack' = Append(evalStack, Tok(FieldType[t.type], t.value))
    BY <1>5 DEF EvaluateLiteral
  <2>2. t.value \in Int
    BY <1>2, <2>1 DEF Token
  <2>3. FieldType[t.type] \in {"INT", "FLOAT", "VARCHAR"}
    BY <2>1 DEF FieldType, Literals
  <2>4. Tok(FieldType[t.type], t.value) \in Field
    BY <2>2, <2>3 DEF Tok, Field
  <2> QED
    BY <1>3, <2>1, <2>4
<1>6. CASE EvaluateOperator
  <2> DEFINE left == Popped(evalStack, 2)
             right == Popped(evalStack, 1)
  <2>1. PICK t \in ToSet(out) :
          /\ Evaluates(t)
          /\ t.type \in Operators
          /\ ~ RemainderByZero(t.type, left, right)
          /\ evalStack' = Append(Below(evalStack, 2), Applied(t.type, left, right))
    BY <1>6 DEF EvaluateOperator
  <2>2. left \in Field \union {Null} /\ right \in Field \union {Null}
    BY PoppedTyped
  <2> HIDE DEF left, right
  <2>3. Applied(t.type, left, right) \in Field
    BY <2>1, <2>2, AppliedTyped
  <2>4. Below(evalStack, 2) \in Seq(Field)
    <3>1. \A i \in 1 .. Len(evalStack) - 2 : evalStack[i] \in Field
      BY <1>1
    <3> QED
      BY <1>1, <3>1, SubSeqProperties DEF Below
  <2> QED
    BY <1>3, <2>1, <2>3, <2>4
<1>7. CASE EvaluateOther
  BY <1>3, <1>7 DEF EvaluateOther
<1>8. CASE Trap
  BY <1>8 DEF Trap
<1> QED
  BY <1>4, <1>5, <1>6, <1>7, <1>8

(***************************************************************************)
(* The stack of convert.                                                   *)
(***************************************************************************)
\* The stack is cut, and then t is put on an opening parenthesis or on an
\* operator that binds less.
LEMMA OperatorClimbs ==
  ASSUME ClauseTypeOK, StackClimbs, ConvertOperator
  PROVE  StackClimbs'
<1> USE DEF ClauseTypeOK
<1>1. PICK t \in ToSet(infix) :
        /\ Converts(t) /\ t.type \in Operators
        /\ ops' = Append(SubSeq(ops, 1, Kept(t)), t)
  BY DEF ConvertOperator, Kept
<1> DEFINE k == Kept(t)
<1>2. k \in 0 .. Len(ops) /\ (k > 0 => ~ Yields(ops[k], t))
  BY LastNotYielding
<1>3. ops' = Append(SubSeq(ops, 1, k), t)
  BY <1>1
<1> HIDE DEF k
<1>4. /\ Len(ops') = k + 1 /\ ops'[k + 1] = t
      /\ \A i \in 1 .. k : ops'[i] = ops[i]
  <2>1. /\ SubSeq(ops, 1, k) \in Seq(Token) /\ Len(SubSeq(ops, 1, k)) = k
        /\ \A i \in 1 .. k : SubSeq(ops, 1, k)[i] = ops[i]
    BY <1>2, SubSeqProperties
  <2> HIDE DEF ClauseTypeOK
  <2> QED
    BY <1>2, <1>3, <2>1
<1> SUFFICES ASSUME NEW i \in 2 .. k + 1, ops'[i].type # "LPAREN", ops'[i - 1].type # "LPAREN"
             PROVE  Precedence(ops'[i - 1]) < Precedence(ops'[i])
  BY <1>4 DEF StackClimbs, Precedence
<1>5. CASE i <= k
  <2>1. i \in 2 .. Len(ops) /\ i - 1 \in 1 .. k /\ i \in 1 .. k
    BY <1>2, <1>5
  <2> QED
    BY <1>4, <2>1 DEF StackClimbs
<1>6. CASE i = k + 1
  <2>1. k \in 1 .. Len(ops) /\ i - 1 = k
    BY <1>2, <1>6
  <2>2. ops'[i - 1] = ops[k] /\ ops'[i] = t
    BY <1>4, <1>6, <2>1
  <2>3. ~ (Precedence(ops[k]) >= Precedence(t))
    BY <1>2, <2>1, <2>2 DEF Yields
  <2>4. Precedence(ops[k]) \in Int /\ Precedence(t) \in Int
    BY DEF Precedence
  <2> QED
    BY <2>2, <2>3, <2>4
<1> QED
  BY <1>2, <1>5, <1>6

LEMMA ClauseStepClimbs ==
  ASSUME ClauseTypeOK, StackClimbs, ClauseNext
  PROVE  StackClimbs'
<1> USE DEF ClauseTypeOK
<1>1. ASSUME ops' = ops
      PROVE  StackClimbs'
  BY <1>1 DEF StackClimbs, Precedence
<1>2. CASE ConvertOpening
  <2>1. PICK t \in ToSet(infix) : t.type = "LPAREN" /\ ops' = Append(ops, t)
    BY <1>2 DEF ConvertOpening
  <2>2. /\ Len(ops') = Len(ops) + 1 /\ ops'[Len(ops) + 1] = t
        /\ \A i \in 1 .. Len(ops) : ops'[i] = ops[i]
    BY <2>1
  <2> QED
    BY <2>1, <2>2, SMTT(30) DEF StackClimbs, Precedence
<1>3. CASE ConvertClosing
  <2>1. ops' = SubSeq(ops, 1, Opening - 1) /\ Opening \in 0 .. Len(ops)
    BY <1>3, LastOpening DEF ConvertClosing, Opening
  <2>2. /\ Len(ops') <= Len(ops) /\ Len(ops') \in Nat
        /\ \A i \in 1 .. Len(ops') : ops'[i] = ops[i]
    <3> DEFINE n == Opening - 1
    <3>1. n \in Int /\ n <= Len(ops) /\ ops' = SubSeq(ops, 1, n)
      BY <2>1
    <3> HIDE DEF n
    <3>2. /\ Len(ops') = IF 1 <= n THEN n ELSE 0
          /\ \A i \in 1 .. n : ops'[i] = ops[i]
      BY <3>1, SubSeqProperties
    <3> QED
      BY <3>1, <3>2
  <2>3. ASSUME NEW i \in 2 .. Len(ops'), ops'[i].type # "LPAREN", ops'[i - 1].type # "LPAREN"
        PROVE  Precedence(ops'[i - 1]) < Precedence(ops'[i])
    <3> DEFINE n == Len(ops)
               m == Len(ops')
    <3>1. n \in Nat /\ m \in Nat /\ m <= n
      BY <2>1, <2>2
    <3>2. i \in 2 .. m
      OBVIOUS
    <3> HIDE DEF n, m
    <3>3. i \in 2 .. n /\ i \in 1 .. m /\ i - 1 \in 1 .. m
      BY <3>1, <3>2
    <3>4. i \in 2 .. Len(ops) /\ ops'[i] = ops[i] /\ ops'[i - 1] = ops[i - 1]
      BY <2>2, <3>3 DEF n, m
    <3> QED
      BY <2>3, <3>4 DEF StackClimbs
  <2> QED
    BY <2>3 DEF StackClimbs, Precedence
<1>4. CASE ConvertEnd
  BY <1>4 DEF ConvertEnd, StackClimbs
<1>5. CASE ConvertOperand \/ ConvertOther
  BY <1>1, <1>5 DEF ConvertOperand, ConvertOther
<1>6. CASE EvaluateIdentifier \/ EvaluateLiteral \/ EvaluateOperator \/ EvaluateOther
  BY <1>1, <1>6 DEF EvaluateIdentifier, EvaluateLiteral, EvaluateOperator, EvaluateOther, Evaluates
<1>7. CASE Trap
  BY <1>1, <1>7 DEF Trap
<1> QED
  BY <1>2, <1>3, <1>4, <1>5, <1>6, <1>7, OperatorClimbs DEF ClauseNext

(***************************************************************************)
(* What the steps of a clause do to the query: nothing, except that a text *)
(* without tokens becomes a postfix without tokens.                        *)
(***************************************************************************)
LEMMA ClauseStepEffect ==
  ASSUME ClauseTypeOK, ClauseNext
  PROVE  /\ infix' = infix
         /\ \/ phase = "convert" /\ phase' \in {"convert", "plan"}
            \/ phase = "evaluate" /\ phase' \in {"evaluate", "crashed"}
         /\ phase = "convert" /\ infix = << >> /\ ops = << >> /\ out = << >> =>
              ops' = << >> /\ out' = << >>
<1> USE DEF ClauseTypeOK
<1>1. ASSUME NEW t, Converts(t)
      PROVE  infix' = infix /\ phase = "convert" /\ phase' = "convert" /\ infix # << >>
  BY <1>1 DEF Converts
<1>2. ASSUME NEW t, Evaluates(t)
      PROVE  infix' = infix /\ phase = "evaluate" /\ phase' = "evaluate"
  BY <1>2 DEF Evaluates
<1>3. CASE ConvertOperand \/ ConvertOperator \/ ConvertOpening \/ ConvertClosing \/ ConvertOther
  BY <1>1, <1>3 DEF ConvertOperand, ConvertOperator, ConvertOpening, ConvertClosing, ConvertOther
<1>4. CASE ConvertEnd
  <2>1. infix' = infix /\ phase = "convert" /\ phase' = "plan" /\ ops' = << >> /\ PopTo(0)
    BY <1>4 DEF ConvertEnd
  <2>2. ASSUME ops = << >>, out = << >>
        PROVE  out' = << >>
    <3>1. SubSeq(ops, 0 + 1, Len(ops)) = << >>
      BY <2>2, SubSeqEmpty
    <3>2. Reverse(SubSeq(ops, 0 + 1, Len(ops))) = << >>
      BY <3>1 DEF Reverse
    <3> QED
      BY <2>1, <2>2, <3>2 DEF PopTo
  <2> QED
    BY <2>1, <2>2
<1>5. CASE EvaluateIdentifier \/ EvaluateLiteral \/ EvaluateOperator \/ EvaluateOther
  BY <1>2, <1>5 DEF EvaluateIdentifier, EvaluateLiteral, EvaluateOperator, EvaluateOther
<1>6. CASE Trap
  BY <1>6 DEF Trap
<1> QED
  BY <1>3, <1>4, <1>5, <1>6 DEF ClauseNext

(***************************************************************************)
(* The inductive invariant.                                                *)
(***************************************************************************)
PagesFit == \A p \in PageIds : Len(pages[p]) <= RowsPerPage

\* Before the plan no page is waiting and nothing was found; between two queries
\* nothing is left of the last one; a row is evaluated on a page that is waiting.
AtRest ==
  /\ phase \in {"idle", "convert", "plan"} => visit = << >> /\ at = 1 /\ found = {}
  /\ phase = "idle" => next = 1 /\ infix = << >> /\ ops = << >> /\ out = << >>
  /\ phase = "evaluate" => visit # << >>

\* A query the executor finds no WHERE in.
IsPlain(q) == IsRouted(q) /\ ~ HasWhere(q)

PlainIsEmpty ==
  phase # "idle" /\ IsPlain(query) =>
    /\ infix = << >> /\ ops = << >> /\ out = << >>
    /\ phase \notin {"evaluate", "crashed"}

\* Such a query has read the pages in turn, and has found what is on them.
Reading == phase = "scan" /\ IsPlain(query)

PagesInTurn ==
  Reading =>
    /\ Len(visit) <= total
    /\ \A i \in 1 .. Len(visit) : visit[i] = total - 1 - Len(visit) + i
    /\ visit # << >> => Len(visit) < total /\ at <= Len(pages[Head(visit)]) + 1

FoundSoFar ==
  Reading =>
    \A p \in Scanned : \A i \in DOMAIN pages[p] :
      p < total - Len(visit) \/ (p = total - Len(visit) /\ i < at) => << p, i >> \in found

FoundOnScanned == phase # "idle" /\ IsPlain(query) => \A h \in found : h[1] \in Scanned

\* A query the executor finds no WHERE in, be it that there is none or that it is
\* in lower case, finds every row on every page below the last one, and no other
\* row (executeSelect and executeUpdate, whose loops end before the last page).
PlainFindsAll ==
  phase = "answered" /\ IsPlain(query) =>
    {h \in found : h[2] \in DOMAIN pages[h[1]]} = UNION {{p} \X DOMAIN pages[p] : p \in Scanned}

EngineInv ==
  /\ TypeOK /\ IndexIsHonest /\ PagesFit /\ StackClimbs /\ AtRest
  /\ PlainIsEmpty /\ PagesInTurn /\ FoundSoFar /\ FoundOnScanned /\ PlainFindsAll

LEMMA EngineInitOK ==
  ASSUME Init
  PROVE  EngineInv
<1> USE DEF Init
<1>1. TableTypeOK /\ IndexIsHonest
  BY TableInitOK DEF TableInv
<1>2. TypeOK
  <2>1. ClauseTypeOK
    <3>1. << >> \in Seq(Token) /\ << >> \in Seq(Field) /\ Len(<< >>) = 0
      OBVIOUS
    <3>2. next \in 1 .. Len(infix) + Len(out) + 1
      BY <3>1
    <3> QED
      BY <3>1, <3>2 DEF ClauseTypeOK
  <2>2. visit \in Seq(1 .. total) /\ at \in Nat \ {0} /\ found \subseteq (1 .. total) \X Nat
    OBVIOUS
  <2> QED
    BY <1>1, <2>1, <2>2 DEF TypeOK
<1>3. PagesFit
  BY TableAssumption DEF PagesFit, TableInit
<1>4. StackClimbs /\ AtRest
  BY DEF StackClimbs, AtRest
<1>5. PlainIsEmpty /\ PagesInTurn /\ FoundSoFar /\ FoundOnScanned /\ PlainFindsAll
  BY DEF PlainIsEmpty, PagesInTurn, FoundSoFar, FoundOnScanned, PlainFindsAll, Reading
<1> QED
  BY <1>1, <1>2, <1>3, <1>4, <1>5 DEF EngineInv

\* Between two queries.
LEMMA BetweenQueriesKeeps ==
  ASSUME EngineInv, phase = "idle", TableNext, UNCHANGED << clauseVars, queryVars >>
  PROVE  EngineInv'
<1> USE DEF EngineInv, TypeOK
<1>1. /\ UNCHANGED << clause, schema, infix, phase, next, ops, out, row, evalStack, match >>
      /\ UNCHANGED << query, visit, at, found >>
  BY DEF clauseVars, queryVars
<1>2. TableTypeOK' /\ IndexIsHonest'
  BY TableStepKeeps DEF TableInv
<1>3. ClauseTypeOK' /\ StackClimbs'
  BY <1>1 DEF ClauseTypeOK, StackClimbs, Precedence
<1>4. AtRest' /\ visit = << >> /\ found = {}
  BY <1>1 DEF AtRest
<1>5. TypeOK'
  BY <1>1, <1>2, <1>3, <1>4
<1>6. PagesFit'
  <2>1. ASSUME NEW r \in Rows, Insert(r)
        PROVE  PagesFit'
    <3>1. /\ Target \in PageIds
          /\ \A p \in PageIds \ {Target} : pages'[p] = pages[p]
          /\ WithRoom # {} => Target \in WithRoom /\ pages'[Target] = Append(pages[Target], r)
          /\ WithRoom = {} => pages'[Target] = << r >>
      BY <2>1, InsertedRows
    <3>2. Len(pages'[Target]) <= RowsPerPage
      <4>1. CASE WithRoom = {}
        <5>1. pages'[Target] = << r >>
          BY <3>1, <4>1
        <5>2. Len(<< r >>) = 1 /\ 1 <= RowsPerPage
          BY TableAssumption
        <5> QED
          BY <5>1, <5>2
      <4>2. CASE WithRoom # {}
        <5>1. pages[Target] \in Seq(Rows) /\ Len(pages[Target]) < RowsPerPage
          BY <3>1, <4>2 DEF WithRoom, TableTypeOK
        <5> QED
          BY <3>1, <4>2, <5>1, TableAssumption
      <4> QED
        BY <4>1, <4>2
    <3> QED
      BY <3>1, <3>2 DEF PagesFit
  <2>2. CASE AllocatePage
    <3>1. \A p \in PageIds : pages'[p] = IF p = total + 1 THEN << >> ELSE pages[p]
      BY <2>2 DEF AllocatePage, TableTypeOK
    <3> QED
      BY <3>1, TableAssumption DEF PagesFit
  <2>3. CASE Restart
    BY <2>3 DEF Restart, PagesFit
  <2> QED
    BY <2>1, <2>2, <2>3 DEF TableNext
<1>7. (PlainIsEmpty /\ PagesInTurn /\ FoundSoFar /\ FoundOnScanned /\ PlainFindsAll)'
  BY <1>1 DEF PlainIsEmpty, PagesInTurn, FoundSoFar, FoundOnScanned, PlainFindsAll, Reading
<1> QED
  BY <1>2, <1>3, <1>4, <1>5, <1>6, <1>7

\* A query arrives.
LEMMA AskKeeps ==
  ASSUME EngineInv, phase = "idle", NEW q \in Queries(pages), Ask(q) \/ AskInVain(q)
  PROVE  EngineInv'
<1> USE DEF EngineInv, TypeOK
<1>1. /\ UNCHANGED tableVars /\ UNCHANGED << next, ops, out, row, evalStack, match, visit, at, found >>
      /\ query' = q
      /\ \/ phase' = "convert" /\ IsRouted(q)
         \/ phase' = "answered" /\ ~ IsRouted(q)
  BY DEF Ask, AskInVain
<1>2. UNCHANGED << pages, total, index, totalRows, lost >>
  BY <1>1 DEF tableVars
<1>3. TableTypeOK' /\ IndexIsHonest' /\ PagesFit'
  BY <1>2 DEF TableTypeOK, IndexIsHonest, EntryOf, PagesFit
<1>4. next = 1 /\ infix = << >> /\ ops = << >> /\ out = << >> /\ visit = << >> /\ at = 1 /\ found = {}
  BY DEF AtRest
<1>5. q.where \in Text
  <2>1. pages \in [PageIds -> BoundedSeq(Rows, RowsPerPage)]
    <3>1. ASSUME NEW p \in PageIds
          PROVE  pages[p] \in BoundedSeq(Rows, RowsPerPage)
      <4>1. pages[p] \in Seq(Rows) /\ Len(pages[p]) \in 0 .. RowsPerPage
        BY TableAssumption DEF TableTypeOK, PagesFit
      <4>2. pages[p] \in [1 .. Len(pages[p]) -> Rows]
        BY <4>1
      <4> QED
        BY <4>1, <4>2 DEF BoundedSeq, SeqOf
    <3>2. pages = [p \in PageIds |-> pages[p]]
      BY DEF TableTypeOK
    <3> QED
      BY <3>1, <3>2
  <2> QED
    BY <2>1, EngineAssumption
<1>6. infix' \in Seq(Token) /\ (~ HasWhere(q) => infix' = << >>)
  BY <1>4, <1>5, TokenizeAllTyped DEF Ask, AskInVain, ClauseTypeOK
<1>7. ClauseTypeOK' /\ StackClimbs'
  <2>1. next' \in 1 .. Len(infix') + Len(out') + 1
    BY <1>1, <1>4, <1>6
  <2> QED
    BY <1>1, <1>6, <2>1 DEF ClauseTypeOK, StackClimbs, Precedence
<1>8. TypeOK' /\ AtRest'
  BY <1>1, <1>2, <1>3, <1>4, <1>7, SMTT(30) DEF AtRest
<1>9. (PlainIsEmpty /\ PagesInTurn /\ FoundSoFar /\ FoundOnScanned /\ PlainFindsAll)'
  BY <1>1, <1>4, <1>6
     DEF PlainIsEmpty, PagesInTurn, FoundSoFar, FoundOnScanned, PlainFindsAll, Reading, IsPlain,
         IsRouted, TableAsked, Selects, Updates, HasWhere, IsUpdate, UpdateStart, Word
<1> QED
  BY <1>3, <1>7, <1>8, <1>9

\* Conversion and evaluation.
LEMMA ClauseStepKeeps ==
  ASSUME EngineInv, ClauseNext, UNCHANGED << tableVars, queryVars >>
  PROVE  EngineInv'
<1> USE DEF EngineInv, TypeOK
<1>1. /\ UNCHANGED << pages, total, index, totalRows, lost >>
      /\ UNCHANGED << query, visit, at, found >>
  BY DEF tableVars, queryVars
<1>2. TableTypeOK' /\ IndexIsHonest' /\ PagesFit'
  BY <1>1 DEF TableTypeOK, IndexIsHonest, EntryOf, PagesFit
<1>3. ClauseTypeOK'
  BY ConvertTyped, EvaluateTyped DEF ClauseNext
<1>4. StackClimbs'
  BY ClauseStepClimbs
<1>5. /\ infix' = infix
      /\ \/ phase = "convert" /\ phase' \in {"convert", "plan"}
         \/ phase = "evaluate" /\ phase' \in {"evaluate", "crashed"}
      /\ phase = "convert" /\ infix = << >> /\ ops = << >> /\ out = << >> =>
           ops' = << >> /\ out' = << >>
  BY ClauseStepEffect
<1>6. TypeOK' /\ AtRest'
  BY <1>1, <1>2, <1>3, <1>5 DEF AtRest
<1>7. IsPlain(query)' = IsPlain(query) /\ Scanned' = Scanned
  BY <1>1 DEF IsPlain, IsRouted, TableAsked, Selects, Updates, HasWhere, IsUpdate, UpdateStart, Word,
         Scanned
<1>8. PlainIsEmpty' /\ FoundOnScanned'
  BY <1>1, <1>5, <1>7 DEF PlainIsEmpty, FoundOnScanned
<1>9. (PagesInTurn /\ FoundSoFar /\ PlainFindsAll)'
  BY <1>5 DEF PagesInTurn, FoundSoFar, PlainFindsAll, Reading
<1> QED
  BY <1>2, <1>3, <1>4, <1>6, <1>8, <1>9

\* The pages to read are chosen.
LEMMA PlanKeeps ==
  ASSUME EngineInv, PlanIndex \/ PlanScan
  PROVE  EngineInv'
<1> USE DEF EngineInv, TypeOK
<1>1. /\ phase = "plan" /\ phase' = "scan"
      /\ UNCHANGED tableVars
      /\ UNCHANGED << clause, schema, infix, next, ops, out, row, evalStack, match >>
      /\ UNCHANGED << query, at, found >>
      /\ \/ ByIndex /\ visit' = IndexPages
         \/ ~ ByIndex /\ visit' = ScanPages
  BY DEF PlanIndex, PlanScan, Plan
<1>2. UNCHANGED << pages, total, index, totalRows, lost >>
  BY <1>1 DEF tableVars
<1>3. TableTypeOK' /\ IndexIsHonest' /\ PagesFit'
  BY <1>2 DEF TableTypeOK, IndexIsHonest, EntryOf, PagesFit
<1>4. ClauseTypeOK' /\ StackClimbs' /\ AtRest'
  BY <1>1 DEF ClauseTypeOK, StackClimbs, Precedence, AtRest
<1>5. at = 1 /\ found = {} /\ total \in Nat
  BY <1>1 DEF AtRest, TableTypeOK
<1>6. /\ ScanPages \in Seq(1 .. total)
      /\ Len(ScanPages) = IF total = 0 THEN 0 ELSE total - 1
      /\ \A i \in 1 .. total - 1 : ScanPages[i] = i
  <2>1. CASE total = 0
    BY <2>1 DEF ScanPages, Scanned
  <2>2. CASE total # 0
    BY <1>5, <2>2 DEF ScanPages, Scanned
  <2> QED
    BY <2>1, <2>2
<1>7. IndexPages \in Seq(1 .. total)
  <2> DEFINE e == << TableAsked(query), infix[3].value >>
  <2>1. LookedUp(e) # NoPage => LookedUp(e) \in 1 .. total
    BY DEF LookedUp, IndexIsHonest
  <2> HIDE DEF e
  <2>2. << >> \in Seq(1 .. total) /\ \A p \in 1 .. total : << p >> \in Seq(1 .. total)
    OBVIOUS
  <2>3. IndexPages = IF LookedUp(e) = NoPage THEN << >> ELSE << LookedUp(e) >>
    BY DEF IndexPages, e
  <2> QED
    BY <2>1, <2>2, <2>3, Zenon
<1>8. TypeOK'
  BY <1>1, <1>2, <1>3, <1>4, <1>6, <1>7
<1>9. IsPlain(query)' = IsPlain(query) /\ Scanned' = Scanned
  BY <1>1, <1>2 DEF IsPlain, IsRouted, TableAsked, Selects, Updates, HasWhere, IsUpdate, UpdateStart,
         Word, Scanned
<1>10. PlainIsEmpty' /\ FoundOnScanned'
  BY <1>1, <1>5, <1>9 DEF PlainIsEmpty, FoundOnScanned
<1>11. IsPlain(query) => visit' = ScanPages
  BY <1>1 DEF PlainIsEmpty, ByIndex
<1>12. PagesInTurn'
  <2>1. SUFFICES ASSUME IsPlain(query)
                 PROVE  /\ Len(visit') <= total
                        /\ \A i \in 1 .. Len(visit') : visit'[i] = total - 1 - Len(visit') + i
                        /\ visit' # << >> => /\ Len(visit') < total
                                             /\ at <= Len(pages[Head(visit')]) + 1
    BY <1>1, <1>2, <1>9 DEF PagesInTurn, Reading
  <2>2. visit' = ScanPages
    BY <1>11, <2>1
  <2>3. CASE total = 0
    BY <1>6, <2>2, <2>3
  <2>4. CASE total # 0
    <3>1. Len(visit') = total - 1
      BY <1>6, <2>2, <2>4
    <3>2. \A i \in 1 .. Len(visit') : visit'[i] = total - 1 - Len(visit') + i
      BY <1>5, <1>6, <2>2, <3>1
    <3>3. visit' # << >> => Head(visit') \in PageIds
      BY <1>6, <2>2, TableAssumption DEF TableTypeOK, PageIds
    <3>4. \A p \in PageIds : Len(pages[p]) \in Nat
      BY DEF TableTypeOK
    <3> QED
      BY <1>5, <3>1, <3>2, <3>3, <3>4
  <2> QED
    BY <2>3, <2>4
<1>13. FoundSoFar'
  <2>1. SUFFICES ASSUME IsPlain(query), NEW p \in Scanned, NEW i \in DOMAIN pages[p],
                        p < total - Len(visit') \/ (p = total - Len(visit') /\ i < at)
                 PROVE  FALSE
    BY <1>1, <1>2, <1>9 DEF FoundSoFar, Reading
  <2>2. visit' = ScanPages /\ p \in 1 .. total - 1
    BY <1>11, <2>1 DEF Scanned
  <2>3. Len(visit') = total - 1
    BY <1>5, <1>6, <2>2
  <2>4. p = 1 /\ i < 1
    BY <1>5, <2>1, <2>2, <2>3
  <2>5. i \in Nat /\ i >= 1
    <3>1. p \in PageIds
      BY <2>2, TableAssumption DEF TableTypeOK, PageIds
    <3>2. pages[p] \in Seq(Rows)
      BY <3>1 DEF TableTypeOK
    <3> QED
      BY <3>2
  <2> QED
    BY <2>4, <2>5
<1>14. PlainFindsAll'
  BY <1>1 DEF PlainFindsAll
<1> QED
  BY <1>3, <1>4, <1>8, <1>10, <1>12, <1>13, <1>14

LEMMA HeadTailTyped ==
  ASSUME NEW S, NEW s \in Seq(S), s # << >>
  PROVE  Head(s) \in S /\ Tail(s) \in Seq(S)
  OBVIOUS

\* One row of the first page waiting is looked at.
LEMMA NoteKeepsTypes ==
  ASSUME TypeOK, visit # << >>, NEW matches \in BOOLEAN, Note(matches)
  PROVE  /\ visit' \in Seq(1 .. total') /\ at' \in Nat \ {0}
         /\ found' \subseteq (1 .. total') \X Nat
<1> USE DEF TypeOK
<1>1. total' = total
  BY DEF Note, tableVars
<1>2. Head(visit) \in 1 .. total /\ Tail(visit) \in Seq(1 .. total)
  BY HeadTailTyped
<1>3. found' \subseteq (1 .. total) \X Nat
  BY <1>2 DEF Note
<1>4. visit' \in Seq(1 .. total) /\ at' \in Nat \ {0}
  <2>1. CASE at <= Len(pages[Head(visit)])
    BY <2>1 DEF Note
  <2>2. CASE ~ (at <= Len(pages[Head(visit)]))
    BY <1>2, <2>2 DEF Note
  <2> QED
    BY <2>1, <2>2
<1> QED
  BY <1>1, <1>3, <1>4

\* A query without a WHERE takes the row.
LEMMA TakeRowKeeps ==
  ASSUME EngineInv, TakeRow
  PROVE  EngineInv'
<1> USE DEF EngineInv, TypeOK
<1>1. /\ phase = "scan" /\ visit # << >> /\ Note(TRUE)
      /\ UNCHANGED << clause, schema, infix, phase, next, ops, out, row, evalStack, match >>
      /\ UNCHANGED << pages, total, index, totalRows, lost >>
      /\ query' = query
  BY DEF TakeRow, clauseVars, tableVars, Note
<1>2. TableTypeOK' /\ IndexIsHonest' /\ PagesFit'
  BY <1>1 DEF TableTypeOK, IndexIsHonest, EntryOf, PagesFit
<1>3. ClauseTypeOK' /\ StackClimbs' /\ AtRest'
  BY <1>1 DEF ClauseTypeOK, StackClimbs, Precedence, AtRest
<1>4. TypeOK'
  BY <1>1, <1>2, <1>3, NoteKeepsTypes
<1>5. IsPlain(query)' = IsPlain(query) /\ Scanned' = Scanned
  BY <1>1 DEF IsPlain, IsRouted, TableAsked, Selects, Updates, HasWhere, IsUpdate, UpdateStart,
         Word, Scanned
<1>6. PlainIsEmpty' /\ PlainFindsAll'
  BY <1>1, <1>5 DEF PlainIsEmpty, PlainFindsAll
<1>7. ASSUME IsPlain(query)
      PROVE  PagesInTurn' /\ FoundSoFar' /\ FoundOnScanned'
  <2> DEFINE p == Head(visit)
             n == Len(visit)
  <2>1. n \in Nat /\ n >= 1 /\ p = visit[1] /\ total \in Nat /\ at \in Nat
    BY <1>1 DEF TableTypeOK
  <2>2. n < total /\ at <= Len(pages[p]) + 1 /\ \A i \in 1 .. n : visit[i] = total - 1 - n + i
    BY <1>1, <1>7 DEF PagesInTurn, Reading
  <2>3. p = total - n /\ p \in Scanned
    BY <2>1, <2>2 DEF Scanned
  <2>4. Len(pages[p]) \in Nat /\ DOMAIN pages[p] = 1 .. Len(pages[p])
    <3>1. p \in PageIds
      BY <2>3, TableAssumption DEF TableTypeOK, PageIds, Scanned
    <3> QED
      BY <3>1 DEF TableTypeOK
  <2>5. found' = found \union {<< p, at >>}
    BY <1>1 DEF Note
  <2>6. FoundOnScanned'
    BY <1>1, <1>5, <1>7, <2>3, <2>5 DEF FoundOnScanned
  <2>7. \A q \in Scanned : \A i \in DOMAIN pages[q] :
          q < total - n \/ (q = total - n /\ i < at) => << q, i >> \in found
    BY <1>1, <1>7 DEF FoundSoFar, Reading
  <2>8. CASE at <= Len(pages[p])
    <3>1. at' = at + 1 /\ visit' = visit
      BY <1>1, <2>8 DEF Note
    <3>2. PagesInTurn'
      BY <1>1, <2>1, <2>2, <2>4, <2>8, <3>1 DEF PagesInTurn, Reading
    <3>3. ASSUME NEW q \in Scanned, NEW i \in DOMAIN pages[q],
                 q < total - n \/ (q = total - n /\ i < at + 1)
          PROVE  << q, i >> \in found'
      <4>1. CASE q = p /\ i = at
        BY <2>5, <4>1
      <4>2. CASE q = p /\ i # at
        BY <2>1, <2>3, <2>4, <2>5, <2>7, <3>3, <4>2
      <4>3. CASE q # p
        BY <2>3, <2>5, <2>7, <3>3, <4>3
      <4> QED
        BY <4>1, <4>2, <4>3
    <3>4. FoundSoFar'
      BY <1>1, <1>5, <3>1, <3>3 DEF FoundSoFar, Reading
    <3> QED
      BY <2>6, <3>2, <3>4
  <2>9. CASE ~ (at <= Len(pages[p]))
    <3>1. at' = 1 /\ visit' = Tail(visit)
      BY <1>1, <2>9 DEF Note
    <3>2. Len(visit') = n - 1 /\ \A i \in 1 .. n - 1 : visit'[i] = total - n + i
      <4>1. Len(visit') = n - 1 /\ \A i \in 1 .. n - 1 : visit'[i] = visit[i + 1]
        BY <2>1, <3>1
      <4>2. \A i \in 1 .. n - 1 : i + 1 \in 1 .. n
        BY <2>1
      <4> HIDE DEF n
      <4>3. ASSUME NEW i \in 1 .. n - 1
            PROVE  visit'[i] = total - n + i
        <5>1. visit'[i] = total - 1 - n + (i + 1)
          BY <2>2, <4>1, <4>2
        <5> QED
          BY <2>1, <5>1
      <4> QED
        BY <4>1, <4>3
    <3>3. visit' # << >> => Head(visit') \in PageIds
      <4>1. visit' # << >> => Head(visit') \in 1 .. total
        BY <1>1, <1>4, HeadTailTyped
      <4> QED
        BY <2>1, <4>1, TableAssumption DEF TableTypeOK, PageIds
    <3>4. \A q \in PageIds : Len(pages[q]) \in Nat
      BY DEF TableTypeOK
    <3> HIDE DEF n, p
    <3>5. PagesInTurn'
      <4>1. Len(visit') <= total /\ Len(visit') < total
        BY <2>1, <2>2, <3>2
      <4>2. \A i \in 1 .. Len(visit') : visit'[i] = total - 1 - Len(visit') + i
        BY <2>1, <3>2
      <4>3. visit' # << >> => 1 <= Len(pages[Head(visit')]) + 1
        BY <3>3, <3>4
      <4> QED
        BY <1>1, <3>1, <4>1, <4>2, <4>3 DEF PagesInTurn, Reading
    <3>6. ASSUME NEW q \in Scanned, NEW i \in DOMAIN pages[q],
                 q < total - (n - 1) \/ (q = total - (n - 1) /\ i < 1)
          PROVE  << q, i >> \in found'
      <4>1. q \in Int /\ i \in Nat /\ i >= 1
        <5>1. q \in PageIds
          BY TableAssumption DEF TableTypeOK, PageIds, Scanned
        <5>2. pages[q] \in Seq(Rows)
          BY <5>1 DEF TableTypeOK
        <5> QED
          BY <5>1, <5>2 DEF PageIds
      <4>2. q < total - n \/ q = total - n
        BY <2>1, <3>6, <4>1
      <4>3. q = total - n => i < at
        BY <2>1, <2>3, <2>4, <2>9, <4>1
      <4> QED
        BY <2>5, <2>7, <4>2, <4>3
    <3>7. FoundSoFar'
      BY <1>1, <1>5, <3>1, <3>2, <3>6 DEF FoundSoFar, Reading
    <3> QED
      BY <2>6, <3>5, <3>7
  <2> QED
    BY <2>8, <2>9
<1>8. ASSUME ~ IsPlain(query)
      PROVE  PagesInTurn' /\ FoundSoFar' /\ FoundOnScanned'
  <2>1. ~ IsPlain(query)'
    BY <1>5, <1>8
  <2> QED
    BY <2>1 DEF PagesInTurn, FoundSoFar, FoundOnScanned, Reading
<1> QED
  BY <1>2, <1>3, <1>4, <1>6, <1>7, <1>8

\* With a WHERE, the row is evaluated, and taken if it matches.
LEMMA StartRowKeeps ==
  ASSUME EngineInv, StartRow
  PROVE  EngineInv'
<1> USE DEF EngineInv, TypeOK
<1>1. /\ phase = "scan" /\ phase' = "evaluate" /\ visit # << >> /\ out # << >>
      /\ row' = RowRead /\ next' = 1 /\ evalStack' = << >>
      /\ UNCHANGED << clause, schema, infix, ops, out, match >>
      /\ UNCHANGED << pages, total, index, totalRows, lost >>
      /\ UNCHANGED << query, visit, at, found >>
  BY DEF StartRow, Evaluate, tableVars, queryVars
<1>2. TableTypeOK' /\ IndexIsHonest' /\ PagesFit'
  BY <1>1 DEF TableTypeOK, IndexIsHonest, EntryOf, PagesFit
<1>3. RowRead \in Seq(Field)
  <2>1. CASE at <= Len(pages[Head(visit)])
    <3>1. Head(visit) \in PageIds
      <4>1. Head(visit) \in 1 .. total
        BY <1>1, HeadTailTyped
      <4> QED
        BY <4>1, TableAssumption DEF TableTypeOK, PageIds
    <3>2. pages[Head(visit)] \in Seq(Rows)
      BY <3>1 DEF TableTypeOK
    <3>3. pages[Head(visit)][at] \in Rows
      BY <2>1, <3>2
    <3> QED
      BY <2>1, <3>3, EngineAssumption DEF RowRead
  <2>2. CASE ~ (at <= Len(pages[Head(visit)]))
    BY <2>2 DEF RowRead
  <2> QED
    BY <2>1, <2>2
<1>4. ClauseTypeOK'
  <2>1. next' \in 1 .. Len(infix') + Len(out') + 1
    BY <1>1 DEF ClauseTypeOK
  <2> QED
    BY <1>1, <1>3, <2>1 DEF ClauseTypeOK
<1>5. TypeOK' /\ StackClimbs' /\ AtRest'
  BY <1>1, <1>2, <1>4 DEF StackClimbs, Precedence, AtRest
<1>6. ~ IsPlain(query)'
  <2>1. ~ IsPlain(query)
    BY <1>1 DEF PlainIsEmpty
  <2> QED
    BY <1>1, <2>1 DEF IsPlain, IsRouted, TableAsked, Selects, Updates, HasWhere, IsUpdate, UpdateStart,
       Word
<1>7. (PlainIsEmpty /\ PagesInTurn /\ FoundSoFar /\ FoundOnScanned /\ PlainFindsAll)'
  BY <1>6 DEF PlainIsEmpty, PagesInTurn, FoundSoFar, FoundOnScanned, PlainFindsAll, Reading
<1> QED
  BY <1>2, <1>5, <1>7

LEMMA EndRowKeeps ==
  ASSUME EngineInv, EndRow
  PROVE  EngineInv'
<1> USE DEF EngineInv, TypeOK
<1>1. /\ phase = "evaluate" /\ phase' = "scan" /\ match' \in BOOLEAN /\ Note(match')
      /\ UNCHANGED << clause, schema, infix, next, ops, out, row, evalStack >>
      /\ UNCHANGED << pages, total, index, totalRows, lost >>
      /\ query' = query
  BY DEF EndRow, Return, IsTrue, tableVars, Note
<1>2. TableTypeOK' /\ IndexIsHonest' /\ PagesFit'
  BY <1>1 DEF TableTypeOK, IndexIsHonest, EntryOf, PagesFit
<1>3. ClauseTypeOK' /\ StackClimbs' /\ AtRest'
  BY <1>1 DEF ClauseTypeOK, StackClimbs, Precedence, AtRest
<1>4. visit # << >>
  BY <1>1 DEF AtRest
<1>5. TypeOK'
  BY <1>1, <1>2, <1>3, <1>4, NoteKeepsTypes
<1>6. ~ IsPlain(query)'
  <2>1. ~ IsPlain(query)
    BY <1>1 DEF PlainIsEmpty
  <2> QED
    BY <1>1, <2>1 DEF IsPlain, IsRouted, TableAsked, Selects, Updates, HasWhere, IsUpdate, UpdateStart,
       Word
<1>7. (PlainIsEmpty /\ PagesInTurn /\ FoundSoFar /\ FoundOnScanned /\ PlainFindsAll)'
  BY <1>6 DEF PlainIsEmpty, PagesInTurn, FoundSoFar, FoundOnScanned, PlainFindsAll, Reading
<1> QED
  BY <1>2, <1>3, <1>5, <1>7

\* The last page was read.
LEMMA EndScanKeeps ==
  ASSUME EngineInv, EndScan
  PROVE  EngineInv'
<1> USE DEF EngineInv, TypeOK
<1>1. /\ phase = "scan" /\ phase' = "answered" /\ visit = << >>
      /\ UNCHANGED << clause, schema, infix, next, ops, out, row, evalStack, match >>
      /\ UNCHANGED << pages, total, index, totalRows, lost >>
      /\ UNCHANGED << query, visit, at, found >>
  BY DEF EndScan, tableVars, queryVars
<1>2. TableTypeOK' /\ IndexIsHonest' /\ PagesFit'
  BY <1>1 DEF TableTypeOK, IndexIsHonest, EntryOf, PagesFit
<1>3. ClauseTypeOK' /\ StackClimbs' /\ AtRest'
  BY <1>1 DEF ClauseTypeOK, StackClimbs, Precedence, AtRest
<1>4. TypeOK'
  BY <1>1, <1>2, <1>3
<1>5. IsPlain(query)' = IsPlain(query) /\ Scanned' = Scanned
  BY <1>1 DEF IsPlain, IsRouted, TableAsked, Selects, Updates, HasWhere, IsUpdate, UpdateStart,
         Word, Scanned
<1>6. PlainIsEmpty' /\ FoundOnScanned'
  BY <1>1, <1>5 DEF PlainIsEmpty, FoundOnScanned
<1>7. PagesInTurn' /\ FoundSoFar'
  BY <1>1 DEF PagesInTurn, FoundSoFar, Reading
<1>8. PlainFindsAll'
  <2> SUFFICES ASSUME IsPlain(query)
               PROVE  {h \in found : h[2] \in DOMAIN pages[h[1]]}
                        = UNION {{p} \X DOMAIN pages[p] : p \in Scanned}
    BY <1>1, <1>5 DEF PlainFindsAll
  <2>1. \A p \in Scanned : \A i \in DOMAIN pages[p] : << p, i >> \in found
    <3>1. \A p \in Scanned : p < total - Len(visit)
      BY <1>1 DEF Scanned, TableTypeOK
    <3> QED
      BY <1>1, <3>1 DEF FoundSoFar, Reading
  <2>2. \A h \in found : h[1] \in Scanned /\ h = << h[1], h[2] >>
    BY <1>1 DEF FoundOnScanned
  <2> QED
    BY <2>1, <2>2
<1> QED
  BY <1>2, <1>3, <1>4, <1>6, <1>7, <1>8

\* The query is over.
LEMMA EndQueryKeeps ==
  ASSUME EngineInv, EndQuery
  PROVE  EngineInv'
<1> USE DEF EngineInv, TypeOK
<1>1. /\ phase' = "idle" /\ clause' = NoClause /\ schema' = << >> /\ infix' = << >> /\ next' = 1
      /\ ops' = << >> /\ out' = << >> /\ row' = << >> /\ evalStack' = << >> /\ match' = FALSE
      /\ visit' = << >> /\ at' = 1 /\ found' = {}
      /\ UNCHANGED << pages, total, index, totalRows, lost >>
  BY DEF EndQuery, tableVars
<1>2. TableTypeOK' /\ IndexIsHonest' /\ PagesFit'
  BY <1>1 DEF TableTypeOK, IndexIsHonest, EntryOf, PagesFit
<1>3. ClauseTypeOK'
  <2>1. << >> \in Seq(Token) /\ << >> \in Seq(Field) /\ Len(<< >>) = 0
    OBVIOUS
  <2>2. next' \in 1 .. Len(infix') + Len(out') + 1
    BY <1>1, <2>1
  <2> QED
    BY <1>1, <2>1, <2>2 DEF ClauseTypeOK
<1>4. StackClimbs' /\ AtRest'
  BY <1>1 DEF StackClimbs, AtRest
<1>5. TypeOK'
  BY <1>1, <1>2, <1>3
<1>6. (PlainIsEmpty /\ PagesInTurn /\ FoundSoFar /\ FoundOnScanned /\ PlainFindsAll)'
  BY <1>1 DEF PlainIsEmpty, PagesInTurn, FoundSoFar, FoundOnScanned, PlainFindsAll, Reading
<1> QED
  BY <1>2, <1>3, <1>4, <1>5, <1>6

LEMMA EngineStepKeeps ==
  ASSUME EngineInv, [Next]_vars
  PROVE  EngineInv'
<1>1. CASE UNCHANGED vars
  <2>1. /\ UNCHANGED << clause, schema, infix, phase, next, ops, out, row, evalStack, match >>
        /\ UNCHANGED << pages, total, index, totalRows, lost >>
        /\ UNCHANGED << query, visit, at, found >>
    BY <1>1 DEF vars, tableVars, clauseVars, queryVars
  <2>2. TypeOK' /\ PagesFit' /\ AtRest'
    BY <2>1 DEF EngineInv, TypeOK, TableTypeOK, ClauseTypeOK, PagesFit, AtRest
  <2>3. IndexIsHonest' /\ StackClimbs'
    BY <2>1 DEF EngineInv, IndexIsHonest, EntryOf, StackClimbs, Precedence
  <2>4. IsPlain(query)' = IsPlain(query) /\ Scanned' = Scanned
    BY <2>1 DEF IsPlain, IsRouted, TableAsked, Selects, Updates, HasWhere, IsUpdate, UpdateStart,
       Word, Scanned
  <2>5. PlainIsEmpty' /\ FoundOnScanned' /\ PlainFindsAll'
    BY <2>1, <2>4 DEF EngineInv, PlainIsEmpty, FoundOnScanned, PlainFindsAll
  <2>6. PagesInTurn' /\ FoundSoFar'
    BY <2>1, <2>4 DEF EngineInv, PagesInTurn, FoundSoFar, Reading
  <2> QED
    BY <2>2, <2>3, <2>5, <2>6 DEF EngineInv
<1>2. CASE Next
  BY <1>2, BetweenQueriesKeeps, AskKeeps, ClauseStepKeeps, PlanKeeps, TakeRowKeeps, StartRowKeeps,
     EndRowKeeps, EndScanKeeps, EndQueryKeeps DEF Next
<1> QED
  BY <1>1, <1>2

(***************************************************************************)
(* The theorems.                                                           *)
(***************************************************************************)
\* The invariant with the reading of the pages, from which the others follow.
THEOREM EngineInvariance == Spec => []EngineInv
  BY EngineInitOK, EngineStepKeeps, PTL DEF Spec

\* Tokens, stacks, fields, pages and counters keep their types through every
\* query, whatever is typed: the stack of evaluate never holds a nullptr, no
\* position runs off its text, and every page visited was allocated.
THEOREM EngineTypes == Spec => []TypeOK
<1>1. EngineInv => TypeOK
  BY DEF EngineInv
<1> QED
  BY <1>1, EngineInvariance, PTL

\* The operators on the stack of convert bind tighter and tighter, for every text
\* of every length, with parentheses that match or not (ShuntingYard::convert).
THEOREM StackOrder == Spec => []StackClimbs
<1>1. EngineInv => StackClimbs
  BY DEF EngineInv
<1> QED
  BY <1>1, EngineInvariance, PTL

\* A query the executor finds no WHERE in reads every page below the last one from
\* the first row to the last and finds exactly the rows there, for any number of
\* pages and rows; the rows of the last page it does not find.
THEOREM PlainQueriesFindAll == Spec => []PlainFindsAll
<1>1. EngineInv => PlainFindsAll
  BY DEF EngineInv
<1> QED
  BY <1>1, EngineInvariance, PTL

\* With queries in between, UPDATEs among them, pages, indexes and counters take
\* the steps they take without: the executor writes to them in executeInsert only.
THEOREM QueriesOnlyRead == Spec => TableSpec
<1>1. ASSUME Init
      PROVE  TableInit
  BY <1>1 DEF Init
<1>2. ASSUME [Next]_vars
      PROVE  [TableNext]_tableVars
  <2>1. CASE UNCHANGED vars
    BY <2>1 DEF vars, tableVars
  <2>2. CASE Next
    <3>1. ASSUME NEW q \in Queries(pages), Ask(q) \/ AskInVain(q)
          PROVE  UNCHANGED tableVars
      BY <3>1 DEF Ask, AskInVain
    <3>2. CASE PlanIndex \/ PlanScan
      BY <3>2 DEF PlanIndex, PlanScan, Plan
    <3>3. CASE TakeRow \/ EndRow
      BY <3>3 DEF TakeRow, EndRow, Note
    <3>4. CASE StartRow \/ EndScan \/ EndQuery
      BY <3>4 DEF StartRow, EndScan, EndQuery
    <3> QED
      BY <2>2, <3>1, <3>2, <3>3, <3>4 DEF Next
  <2> QED
    BY <1>2, <2>1, <2>2
<1> QED
  BY <1>1, <1>2, PTL DEF Spec, TableSpec

\* With queries in between, an index still names a page that has a row with the
\* key, unless the last page was cleared (executeInsert, executeSelect).
THEOREM IndexHonestyAmongQueries == Spec => []IndexIsHonest
  BY QueriesOnlyRead, IndexHonesty, PTL

\* No query, an UPDATE no more than a SELECT, moves or loses a row below the last
\* page (executeUpdate, which only looks for the rows it would change).
THEOREM RowsStayAmongQueries == Spec => RowsBelowLastStay
  BY QueriesOnlyRead, RowsStay

(***************************************************************************)
(* The join optimizer.  First, which nodes edges join.                     *)
(***************************************************************************)
EndsIn(V, E) == \A e \in E : e.src \in V /\ e.dst \in V

LEMMA JoinedToItself ==
  ASSUME NEW V, NEW E, NEW x
  PROVE  Joined(V, E, x, x)
  BY DEF Joined

LEMMA JoinedBack ==
  ASSUME NEW V, NEW E, EndsIn(V, E), NEW x \in V, NEW y \in V, Joined(V, E, x, y)
  PROVE  Joined(V, E, y, x)
<1> SUFFICES ASSUME NEW S \in SUBSET V, y \in S, \A e \in E : e.src \in S <=> e.dst \in S
             PROVE  x \in S
  BY DEF Joined
<1>1. \A e \in E : e.src \in V \ S <=> e.dst \in V \ S
  BY DEF EndsIn
<1>2. x \in V \ S => y \in V \ S
  BY <1>1 DEF Joined
<1> QED
  BY <1>2

LEMMA JoinedOn ==
  ASSUME NEW V, NEW E, NEW x, NEW y, NEW z, Joined(V, E, x, y), Joined(V, E, y, z)
  PROVE  Joined(V, E, x, z)
  BY DEF Joined

LEMMA JoinedByMore ==
  ASSUME NEW V, NEW E, NEW F, E \subseteq F, NEW x, NEW y, Joined(V, E, x, y)
  PROVE  Joined(V, F, x, y)
  BY DEF Joined

LEMMA JoinedByEdge ==
  ASSUME NEW V, NEW E, NEW e \in E
  PROVE  Joined(V, E, e.src, e.dst)
  BY DEF Joined

\* Edges whose ends are joined by other edges join nothing those do not join.
LEMMA JoinedByOthers ==
  ASSUME NEW V, NEW E, NEW F, EndsIn(V, E), EndsIn(V, F),
         \A e \in E : Joined(V, F, e.src, e.dst),
         NEW x, NEW y, Joined(V, E, x, y)
  PROVE  Joined(V, F, x, y)
<1> SUFFICES ASSUME NEW S \in SUBSET V, x \in S, \A f \in F : f.src \in S <=> f.dst \in S
             PROVE  y \in S
  BY DEF Joined
<1>1. ASSUME NEW e \in E
      PROVE  e.src \in S <=> e.dst \in S
  <2>1. Joined(V, F, e.src, e.dst) /\ Joined(V, F, e.dst, e.src)
    BY JoinedBack DEF EndsIn
  <2> QED
    BY <2>1 DEF Joined
<1> QED
  BY <1>1 DEF Joined

\* What one edge more joins.
LEMMA JoinedAcross ==
  ASSUME NEW V, NEW E, EndsIn(V, E), NEW e, e.src \in V, e.dst \in V,
         NEW x \in V, NEW y \in V, Joined(V, E \union {e}, x, y)
  PROVE  \/ Joined(V, E, x, y)
         \/ Joined(V, E, x, e.src) /\ Joined(V, E, e.dst, y)
         \/ Joined(V, E, x, e.dst) /\ Joined(V, E, e.src, y)
<1> DEFINE a == e.src
           b == e.dst
           In(z) == \/ Joined(V, E, x, z)
                    \/ Joined(V, E, x, a) /\ Joined(V, E, b, z)
                    \/ Joined(V, E, x, b) /\ Joined(V, E, a, z)
           S == {z \in V : In(z)}
<1>1. x \in S
  BY JoinedToItself
<1>2. ASSUME NEW z \in V, NEW w \in V, Joined(V, E, z, w), z \in S
      PROVE  w \in S
  BY <1>2, JoinedOn
<1>3. ASSUME NEW f \in E
      PROVE  f.src \in S <=> f.dst \in S
  <2>1. f.src \in V /\ f.dst \in V
    BY DEF EndsIn
  <2>2. Joined(V, E, f.src, f.dst) /\ Joined(V, E, f.dst, f.src)
    BY <2>1, JoinedByEdge, JoinedBack
  <2> HIDE DEF S
  <2> QED
    BY <1>2, <2>1, <2>2
<1>4. a \in S <=> b \in S
  <2>1. Joined(V, E, a, a) /\ Joined(V, E, b, b)
    BY JoinedToItself
  <2>2. ASSUME In(a)
        PROVE  In(b)
    <3>1. CASE Joined(V, E, x, a)
      BY <2>1, <3>1
    <3>2. CASE Joined(V, E, x, b)
      BY <3>2
    <3> QED
      BY <2>2, <3>1, <3>2
  <2>3. ASSUME In(b)
        PROVE  In(a)
    <3>1. CASE Joined(V, E, x, b)
      BY <2>1, <3>1
    <3>2. CASE Joined(V, E, x, a)
      BY <3>2
    <3> QED
      BY <2>3, <3>1, <3>2
  <2> QED
    BY <2>2, <2>3
<1>5. \A f \in E \union {e} : f.src \in S <=> f.dst \in S
  BY <1>3, <1>4
<1>6. S \in SUBSET V
  OBVIOUS
<1> HIDE DEF S
<1>7. y \in S
  BY <1>1, <1>5, <1>6 DEF Joined
<1> QED
  BY <1>7 DEF S

(***************************************************************************)
(* The union-find.  Ranks fall along no pointer: they rise from every id   *)
(* to its parent, so that every way up ends.                               *)
(***************************************************************************)
Pointers(D, b) == [parent : [D -> D], rank : [D -> 0 .. b]]

RanksRise(u, D) == \A x \in D : u.parent[x] # x => u.rank[x] < u.rank[u.parent[x]]

\* What holds of roots and, with every parent, of the ids that point to it, holds of all.
LEMMA FromRoots ==
  ASSUME NEW D, NEW b \in Nat, NEW u \in Pointers(D, b), RanksRise(u, D), NEW S,
         \A x \in D : u.parent[x] = x \/ u.parent[x] \in S => x \in S
  PROVE  D \subseteq S
<1> DEFINE R == {u.rank[x] : x \in D \ S}
<1>1. SUFFICES ASSUME D \ S # {}
               PROVE  FALSE
  OBVIOUS
<1>2. \A x \in D : u.parent[x] \in D /\ u.rank[x] \in 0 .. b
  BY DEF Pointers
<1>3. R \in SUBSET (0 .. b) /\ R # {}
  BY <1>1, <1>2
<1>4. PICK m \in R : \A n \in R : n <= m
  <2> HIDE DEF R
  <2> QED
    BY <1>3, GreatestOf
<1>5. PICK x \in D \ S : m = u.rank[x]
  BY <1>4
<1>6. u.parent[x] # x /\ u.parent[x] \notin S /\ u.parent[x] \in D
  BY <1>2, <1>5
<1>7. u.rank[x] < u.rank[u.parent[x]]
  BY <1>5, <1>6 DEF RanksRise
<1>8. u.rank[u.parent[x]] \in R
  BY <1>6
<1>9. u.rank[u.parent[x]] <= u.rank[x]
  BY <1>4, <1>5, <1>8
<1> QED
  BY <1>2, <1>5, <1>6, <1>7, <1>9

\* The ids on the way up from y.
Above(u, D, y) ==
  {z \in D : \A S \in SUBSET D : y \in S /\ (\A w \in S : u.parent[w] \in S) => z \in S}

LEMMA AboveIs ==
  ASSUME NEW D, NEW b \in Nat, NEW u \in Pointers(D, b), NEW y \in D
  PROVE  Above(u, D, y) = IF u.parent[y] = y THEN {y} ELSE {y} \union Above(u, D, u.parent[y])
<1> DEFINE p == u.parent[y]
<1>1. p \in D /\ \A x \in D : u.parent[x] \in D
  BY DEF Pointers
<1>2. y \in Above(u, D, y)
  BY DEF Above
<1>3. Above(u, D, p) \subseteq Above(u, D, y)
  BY DEF Above
<1>4. \A w \in Above(u, D, p) : u.parent[w] \in Above(u, D, p)
  BY <1>1 DEF Above
<1>5. p \in Above(u, D, p)
  BY <1>1 DEF Above
<1>6. Above(u, D, y) \subseteq {y} \union Above(u, D, p)
  <2> DEFINE S == {y} \union Above(u, D, p)
  <2>1. S \in SUBSET D
    BY DEF Above
  <2>2. y \in S /\ \A w \in S : u.parent[w] \in S
    BY <1>4, <1>5
  <2> HIDE DEF S
  <2>3. Above(u, D, y) \subseteq S
    BY <2>1, <2>2 DEF Above
  <2> QED
    BY <2>3 DEF S
<1>7. ASSUME p = y
      PROVE  Above(u, D, y) = {y}
  <2>1. {y} \in SUBSET D /\ y \in {y} /\ \A w \in {y} : u.parent[w] \in {y}
    BY <1>7
  <2>2. Above(u, D, y) \subseteq {y}
    BY <2>1 DEF Above
  <2> QED
    BY <1>2, <2>2
<1> QED
  BY <1>2, <1>3, <1>6, <1>7

\* There is a function as Root has it.
LEMMA UpExists ==
  ASSUME NEW D, NEW b \in Nat, NEW u \in Pointers(D, b)
  PROVE  \E f : f = [y \in D |-> IF u.parent[y] = y THEN y ELSE f[u.parent[y]]]
<1> DEFINE Roots(y) == {r \in Above(u, D, y) : u.parent[r] = r}
           f == [y \in D |-> CHOOSE r : r \in Roots(y)]
<1>1. ASSUME NEW y \in D
      PROVE  f[y] = IF u.parent[y] = y THEN y ELSE f[u.parent[y]]
  <2>1. u.parent[y] \in D
    BY DEF Pointers
  <2>2. CASE u.parent[y] = y
    <3>1. Above(u, D, y) = {y}
      BY <2>2, AboveIs
    <3>2. Roots(y) = {y}
      BY <2>2, <3>1
    <3> HIDE DEF Roots
    <3>3. (CHOOSE r : r \in Roots(y)) = y
      BY <3>2
    <3> QED
      BY <2>2, <3>3
  <2>3. CASE u.parent[y] # y
    <3>1. Above(u, D, y) = {y} \union Above(u, D, u.parent[y])
      BY <2>3, AboveIs
    <3>2. Roots(y) = Roots(u.parent[y])
      BY <2>3, <3>1
    <3> HIDE DEF Roots
    <3> QED
      BY <2>1, <2>3, <3>2
  <2> QED
    BY <2>2, <2>3
<1> HIDE DEF f, Roots
<1>2. f = [y \in D |-> f[y]]
  BY DEF f
<1>3. f = [y \in D |-> IF u.parent[y] = y THEN y ELSE f[u.parent[y]]]
  BY <1>1, <1>2
<1> QED
  BY <1>3

LEMMA RootStep ==
  ASSUME NEW D, NEW b \in Nat, NEW u \in Pointers(D, b), NEW x \in D
  PROVE  Root(u, x) = IF u.parent[x] = x THEN x ELSE Root(u, u.parent[x])
<1>1. DOMAIN u.parent = D /\ u.parent[x] \in D
  BY DEF Pointers
<1> DEFINE Is(f) == f = [y \in D |-> IF u.parent[y] = y THEN y ELSE f[u.parent[y]]]
           f == CHOOSE f : Is(f)
<1>2. \E g : Is(g)
  BY UpExists
<1>3. Is(f)
  BY <1>2
<1>4. \A y \in D : Root(u, y) = f[y]
  BY <1>1 DEF Root
<1>5. f[x] = IF u.parent[x] = x THEN x ELSE f[u.parent[x]]
  <2> DEFINE g == f
  <2>1. g = [y \in D |-> IF u.parent[y] = y THEN y ELSE g[u.parent[y]]]
    BY <1>3
  <2> HIDE DEF g, f
  <2>2. g[x] = IF u.parent[x] = x THEN x ELSE g[u.parent[x]]
    BY <2>1
  <2> QED
    BY <2>2 DEF g
<1> HIDE DEF f
<1> QED
  BY <1>1, <1>4, <1>5

\* The root of x is an id that points to itself, of greater rank if it is another.
LEMMA RootIs ==
  ASSUME NEW D, NEW b \in Nat, NEW u \in Pointers(D, b), RanksRise(u, D), NEW x \in D
  PROVE  /\ Root(u, x) \in D
         /\ u.parent[Root(u, x)] = Root(u, x)
         /\ Root(u, x) # x => u.rank[x] < u.rank[Root(u, x)]
<1> DEFINE Good(y) == /\ Root(u, y) \in D
                      /\ u.parent[Root(u, y)] = Root(u, y)
                      /\ Root(u, y) # y => u.rank[y] < u.rank[Root(u, y)]
           S == {y \in D : Good(y)}
<1>1. \A y \in D : u.parent[y] \in D /\ u.rank[y] \in 0 .. b
  BY DEF Pointers
<1>2. ASSUME NEW y \in D, u.parent[y] = y
      PROVE  Good(y)
  BY <1>2, RootStep
<1>3. ASSUME NEW y \in D, u.parent[y] # y, Good(u.parent[y])
      PROVE  Good(y)
  <2>1. Root(u, y) = Root(u, u.parent[y])
    BY <1>3, RootStep
  <2>2. u.rank[y] < u.rank[u.parent[y]]
    BY <1>3 DEF RanksRise
  <2>3. u.rank[y] < u.rank[Root(u, y)]
    <3> DEFINE i == u.rank[y]
               j == u.rank[u.parent[y]]
               k == u.rank[Root(u, y)]
    <3>1. i \in Nat /\ j \in Nat /\ k \in Nat /\ i < j /\ (j < k \/ j = k)
      BY <1>1, <1>3, <2>1, <2>2
    <3> HIDE DEF i, j, k
    <3>2. i < k
      BY <3>1
    <3> QED
      BY <3>2 DEF i, k
  <2> QED
    BY <1>3, <2>1, <2>3
<1>4. D \subseteq S
  <2>1. \A y \in D : u.parent[y] = y \/ u.parent[y] \in S => y \in S
    BY <1>2, <1>3
  <2> HIDE DEF S
  <2> QED
    BY <2>1, FromRoots
<1> QED
  BY <1>4

\* find points some ids at their root and leaves the others.
LEMMA FoundIs ==
  ASSUME NEW D, NEW b \in Nat, NEW u \in Pointers(D, b), RanksRise(u, D), NEW x \in D
  PROVE  \E W \in SUBSET D :
            /\ \A w \in W : Root(u, w) = Root(u, x)
            /\ Found(u, x) = [u EXCEPT !.parent =
                                [y \in D |-> IF y \in W THEN Root(u, x) ELSE u.parent[y]]]
<1> DEFINE Is(f) == f = [y \in D |-> IF u.parent[y] = y THEN {y} ELSE {y} \union f[u.parent[y]]]
           way == CHOOSE f : Is(f)
<1>1. DOMAIN u.parent = D /\ \A y \in D : u.parent[y] \in D
  BY DEF Pointers
<1>2. \E f : Is(f)
  <2> DEFINE f == [y \in D |-> Above(u, D, y)]
  <2>1. ASSUME NEW y \in D
        PROVE  f[y] = IF u.parent[y] = y THEN {y} ELSE {y} \union f[u.parent[y]]
    BY <1>1, AboveIs
  <2>2. f = [y \in D |-> f[y]]
    OBVIOUS
  <2> HIDE DEF f
  <2>3. f = [y \in D |-> IF u.parent[y] = y THEN {y} ELSE {y} \union f[u.parent[y]]]
    BY <2>1, <2>2
  <2> QED
    BY <2>3
<1>3. Is(way)
  BY <1>2
<1>4. Found(u, x) = [u EXCEPT !.parent =
                       [y \in D |-> IF y \in way[x] THEN Root(u, x) ELSE u.parent[y]]]
  BY <1>1 DEF Found
<1>5. \A y \in D : way[y] = IF u.parent[y] = y THEN {y} ELSE {y} \union way[u.parent[y]]
  <2> DEFINE g == way
  <2>1. g = [y \in D |-> IF u.parent[y] = y THEN {y} ELSE {y} \union g[u.parent[y]]]
    BY <1>3
  <2> HIDE DEF g, way
  <2>2. \A y \in D : g[y] = IF u.parent[y] = y THEN {y} ELSE {y} \union g[u.parent[y]]
    BY <2>1
  <2> QED
    BY <2>2 DEF g
<1> HIDE DEF way
<1> DEFINE Good(y) == way[y] \subseteq D /\ \A z \in way[y] : Root(u, z) = Root(u, y)
           S == {y \in D : Good(y)}
<1>6. ASSUME NEW y \in D, u.parent[y] = y
      PROVE  Good(y)
  <2>1. way[y] = {y}
    BY <1>5, <1>6
  <2> QED
    BY <2>1
<1>7. ASSUME NEW y \in D, u.parent[y] # y, Good(u.parent[y])
      PROVE  Good(y)
  <2>1. Root(u, y) = Root(u, u.parent[y])
    BY <1>7, RootStep
  <2>2. way[y] = {y} \union way[u.parent[y]]
    BY <1>5, <1>7
  <2> QED
    BY <1>7, <2>1, <2>2
<1>8. D \subseteq S
  <2>1. \A y \in D : u.parent[y] = y \/ u.parent[y] \in S => y \in S
    BY <1>6, <1>7
  <2> HIDE DEF S
  <2> QED
    BY <2>1, FromRoots
<1>9. Good(x)
  BY <1>8
<1> QED
  BY <1>4, <1>9

\* find changes no root.
LEMMA FoundKeeps ==
  ASSUME NEW D, NEW b \in Nat, NEW u \in Pointers(D, b), RanksRise(u, D), NEW x \in D
  PROVE  /\ Found(u, x) \in Pointers(D, b)
         /\ RanksRise(Found(u, x), D)
         /\ \A y \in D : Root(Found(u, x), y) = Root(u, y)
         /\ \A y \in D : Found(u, x).parent[y] = y <=> u.parent[y] = y
<1> DEFINE r == Root(u, x)
           v == Found(u, x)
<1>1. PICK W \in SUBSET D :
        /\ \A w \in W : Root(u, w) = r
        /\ v = [u EXCEPT !.parent = [y \in D |-> IF y \in W THEN r ELSE u.parent[y]]]
  BY FoundIs
<1>2. r \in D /\ u.parent[r] = r
  BY RootIs
<1>3. \A y \in D : u.parent[y] \in D /\ u.rank[y] \in 0 .. b
  BY DEF Pointers
<1>4. v = [parent |-> [y \in D |-> IF y \in W THEN r ELSE u.parent[y]], rank |-> u.rank]
  BY <1>1 DEF Pointers
<1> HIDE DEF v, r
<1>5. /\ v.rank = u.rank
      /\ \A y \in D : v.parent[y] = IF y \in W THEN r ELSE u.parent[y]
  BY <1>4
<1>6. v \in Pointers(D, b)
  BY <1>2, <1>3, <1>4 DEF Pointers
<1>7. \A y \in D : u.parent[y] = y => Root(u, y) = y
  BY RootStep
<1>8. \A y \in D : v.parent[y] = y <=> u.parent[y] = y
  BY <1>1, <1>2, <1>5, <1>7
<1>9. RanksRise(v, D)
  <2> SUFFICES ASSUME NEW y \in D, v.parent[y] # y
               PROVE  u.rank[y] < u.rank[v.parent[y]]
    BY <1>5 DEF RanksRise
  <2>1. CASE y \in W
    <3>1. v.parent[y] = r /\ Root(u, y) = r
      BY <1>1, <1>5, <2>1
    <3> QED
      BY <3>1, RootIs
  <2>2. CASE y \notin W
    BY <1>5, <2>2 DEF RanksRise
  <2> QED
    BY <2>1, <2>2
<1>10. \A y \in D : Root(v, y) = Root(u, y)
  <2> DEFINE S == {y \in D : Root(v, y) = Root(u, y)}
  <2>1. ASSUME NEW y \in D, v.parent[y] = y
        PROVE  y \in S
    <3>1. Root(v, y) = y
      BY <1>6, <2>1, RootStep
    <3> QED
      BY <1>7, <1>8, <2>1, <3>1
  <2>2. ASSUME NEW y \in D, v.parent[y] # y, v.parent[y] \in S
        PROVE  y \in S
    <3>1. Root(v, y) = Root(v, v.parent[y])
      BY <1>6, <2>2, RootStep
    <3>2. Root(v, v.parent[y]) = Root(u, v.parent[y])
      BY <2>2
    <3>3. CASE y \in W
      <4>1. v.parent[y] = r /\ Root(u, y) = r
        BY <1>1, <1>5, <3>3
      <4>2. Root(u, r) = r
        BY <1>2, <1>7
      <4> QED
        BY <3>1, <3>2, <4>1, <4>2
    <3>4. CASE y \notin W
      <4>1. v.parent[y] = u.parent[y] /\ u.parent[y] # y
        BY <1>5, <2>2, <3>4
      <4>2. Root(u, y) = Root(u, u.parent[y])
        BY <4>1, RootStep
      <4> QED
        BY <3>1, <3>2, <4>1, <4>2
    <3> QED
      BY <3>3, <3>4
  <2>3. \A y \in D : v.parent[y] = y \/ v.parent[y] \in S => y \in S
    BY <2>1, <2>2
  <2> HIDE DEF S
  <2>4. D \subseteq S
    BY <1>6, <1>9, <2>3, FromRoots
  <2> QED
    BY <2>4 DEF S
<1> QED
  BY <1>6, <1>8, <1>9, <1>10 DEF v

\* A root k gets another, c, below it.
LEMMA LinkedBelow ==
  ASSUME NEW D, NEW b \in Nat, NEW u \in Pointers(D, b), RanksRise(u, D),
         NEW c \in D, NEW k \in D, c # k, u.parent[c] = c, u.parent[k] = k,
         NEW d \in Nat, NEW v \in Pointers(D, d), RanksRise(v, D),
         \A y \in D : v.parent[y] = IF y = c THEN k ELSE u.parent[y]
  PROVE  /\ \A y \in D : Root(v, y) = IF Root(u, y) = c THEN k ELSE Root(u, y)
         /\ \A y \in D : v.parent[y] = y <=> u.parent[y] = y /\ y # c
<1>1. \A y \in D : u.parent[y] \in D /\ u.rank[y] \in 0 .. b
  BY DEF Pointers
<1>2. \A y \in D : v.parent[y] = IF y = c THEN k ELSE u.parent[y]
  OBVIOUS
<1>3. \A y \in D : v.parent[y] = y <=> u.parent[y] = y /\ y # c
  BY <1>2
<1> DEFINE To(y) == IF Root(u, y) = c THEN k ELSE Root(u, y)
           S == {y \in D : Root(v, y) = To(y)}
<1>4. \A y \in D : u.parent[y] = y => Root(u, y) = y
  BY RootStep
<1>5. \A y \in D : v.parent[y] = y => Root(v, y) = y
  BY RootStep
<1>6. Root(u, c) = c /\ Root(u, k) = k
  BY <1>4
<1>7. ASSUME NEW y \in D, v.parent[y] = y
      PROVE  y \in S
  BY <1>3, <1>4, <1>5, <1>7
<1>8. ASSUME NEW y \in D, v.parent[y] # y, v.parent[y] \in S
      PROVE  y \in S
  <2>1. Root(v, y) = Root(v, v.parent[y])
    BY <1>8, RootStep
  <2>2. Root(v, y) = To(v.parent[y])
    BY <1>8, <2>1
  <2>3. CASE y = c
    BY <1>2, <1>6, <2>2, <2>3
  <2>4. CASE y # c
    <3>1. v.parent[y] = u.parent[y] /\ u.parent[y] # y
      BY <1>2, <1>8, <2>4
    <3>2. Root(u, y) = Root(u, u.parent[y])
      BY <3>1, RootStep
    <3> QED
      BY <2>2, <3>1, <3>2
  <2> QED
    BY <2>3, <2>4
<1>9. D \subseteq S
  <2>1. \A y \in D : v.parent[y] = y \/ v.parent[y] \in S => y \in S
    BY <1>7, <1>8
  <2> HIDE DEF S
  <2> QED
    BY <2>1, FromRoots
<1> QED
  BY <1>3, <1>9

\* unite makes one of the two roots point to the other.
Merged(D, u, v, r, s) ==
  \E c, k \in {r, s} :
     /\ c # k
     /\ \A z \in D : Root(v, z) = IF Root(u, z) = c THEN k ELSE Root(u, z)
     /\ \A z \in D : v.parent[z] = z <=> u.parent[z] = z /\ z # c

LEMMA UnitedIs ==
  ASSUME NEW D, NEW b \in Nat, NEW u \in Pointers(D, b), RanksRise(u, D),
         NEW x \in D, NEW y \in D, Root(u, x) # Root(u, y)
  PROVE  /\ United(u, x, y) \in Pointers(D, b + 1)
         /\ RanksRise(United(u, x, y), D)
         /\ Merged(D, u, United(u, x, y), Root(u, x), Root(u, y))
<1> DEFINE rx == Root(u, x)
           ry == Root(u, y)
           v == United(u, x, y)
           d == b + 1
           Goal == v \in Pointers(D, d) /\ RanksRise(v, D) /\ Merged(D, u, v, rx, ry)
<1>1. rx \in D /\ ry \in D /\ u.parent[rx] = rx /\ u.parent[ry] = ry
  BY RootIs
<1>2. \A z \in D : u.parent[z] \in D /\ u.rank[z] \in 0 .. b
  BY DEF Pointers
<1>3. u = [parent |-> u.parent, rank |-> u.rank] /\ u.parent \in [D -> D] /\ u.rank \in [D -> 0 .. b]
  BY DEF Pointers
<1>8. d \in Nat /\ 0 .. b \subseteq 0 .. d /\ \A n \in 0 .. b : n + 1 \in 0 .. d
  OBVIOUS
<1>4. ASSUME u.rank[rx] < u.rank[ry]
      PROVE  Goal
  <2>1. v = [u EXCEPT !.parent[rx] = ry]
    <3>1. ~ (u.rank[rx] > u.rank[ry])
      BY <1>1, <1>2, <1>4
    <3> QED
      BY <1>4, <3>1 DEF United
  <2> HIDE DEF v, rx, ry, d
  <2>2. v = [parent |-> [u.parent EXCEPT ![rx] = ry], rank |-> u.rank]
    BY <1>3, <2>1
  <2>3. v.parent = [u.parent EXCEPT ![rx] = ry] /\ v.rank = u.rank
    BY <2>2
  <2>4. u.rank \in [D -> 0 .. d] /\ v.parent \in [D -> D]
    BY <1>1, <1>3, <1>8, <2>3
  <2>5. v \in Pointers(D, d)
    BY <2>2, <2>3, <2>4 DEF Pointers
  <2>6. RanksRise(v, D)
    BY <1>1, <1>3, <1>4, <2>3 DEF RanksRise
  <2>7. rx # ry
    BY DEF rx, ry
  <2>8. \A z \in D : v.parent[z] = IF z = rx THEN ry ELSE u.parent[z]
    BY <1>1, <1>3, <2>3
  <2>9. /\ \A z \in D : Root(v, z) = IF Root(u, z) = rx THEN ry ELSE Root(u, z)
        /\ \A z \in D : v.parent[z] = z <=> u.parent[z] = z /\ z # rx
    BY <1>1, <1>8, <2>5, <2>6, <2>7, <2>8, LinkedBelow
  <2> QED
    BY <1>1, <2>5, <2>6, <2>7, <2>9 DEF Merged
<1>5. ASSUME u.rank[rx] > u.rank[ry]
      PROVE  Goal
  <2>1. v = [u EXCEPT !.parent[ry] = rx]
    <3>1. ~ (u.rank[rx] < u.rank[ry])
      BY <1>1, <1>2, <1>5
    <3> QED
      BY <1>5, <3>1 DEF United
  <2> HIDE DEF v, rx, ry, d
  <2>2. v = [parent |-> [u.parent EXCEPT ![ry] = rx], rank |-> u.rank]
    BY <1>3, <2>1
  <2>3. v.parent = [u.parent EXCEPT ![ry] = rx] /\ v.rank = u.rank
    BY <2>2
  <2>4. u.rank \in [D -> 0 .. d] /\ v.parent \in [D -> D]
    BY <1>1, <1>3, <1>8, <2>3
  <2>5. v \in Pointers(D, d)
    BY <2>2, <2>3, <2>4 DEF Pointers
  <2>6. RanksRise(v, D)
    BY <1>1, <1>2, <1>3, <1>5, <2>3 DEF RanksRise
  <2>7. rx # ry
    BY DEF rx, ry
  <2>8. \A z \in D : v.parent[z] = IF z = ry THEN rx ELSE u.parent[z]
    BY <1>1, <1>3, <2>3
  <2>9. /\ \A z \in D : Root(v, z) = IF Root(u, z) = ry THEN rx ELSE Root(u, z)
        /\ \A z \in D : v.parent[z] = z <=> u.parent[z] = z /\ z # ry
    BY <1>1, <1>8, <2>5, <2>6, <2>7, <2>8, LinkedBelow
  <2> QED
    BY <1>1, <2>5, <2>6, <2>7, <2>9 DEF Merged
<1>6. ASSUME u.rank[rx] = u.rank[ry]
      PROVE  Goal
  <2>1. v = [u EXCEPT !.parent[ry] = rx, !.rank[rx] = @ + 1]
    <3>1. ~ (u.rank[rx] < u.rank[ry]) /\ ~ (u.rank[rx] > u.rank[ry])
      BY <1>1, <1>2, <1>6
    <3> QED
      BY <3>1 DEF United
  <2> HIDE DEF v, rx, ry, d
  <2>2. v = [parent |-> [u.parent EXCEPT ![ry] = rx], rank |-> [u.rank EXCEPT ![rx] = @ + 1]]
    BY <1>3, <2>1
  <2>3. v.parent = [u.parent EXCEPT ![ry] = rx] /\ v.rank = [u.rank EXCEPT ![rx] = @ + 1]
    BY <2>2
  <2>4. v.rank \in [D -> 0 .. d] /\ v.parent \in [D -> D]
    BY <1>1, <1>3, <1>8, <2>3
  <2>5. v \in Pointers(D, d)
    BY <2>2, <2>3, <2>4 DEF Pointers
  <2>6. rx # ry
    BY DEF rx, ry
  <2>7. RanksRise(v, D)
    <3> SUFFICES ASSUME NEW z \in D, v.parent[z] # z
                 PROVE  v.rank[z] < v.rank[v.parent[z]]
      BY DEF RanksRise
    <3>1. \A w \in D : v.rank[w] = IF w = rx THEN u.rank[w] + 1 ELSE u.rank[w]
      BY <1>3, <2>3
    <3>2. CASE z = ry
      <4>1. v.parent[z] = rx /\ v.rank[z] = u.rank[ry] /\ v.rank[rx] = u.rank[rx] + 1
        BY <1>1, <1>3, <2>3, <2>6, <3>1, <3>2
      <4> QED
        BY <1>1, <1>2, <1>6, <4>1
    <3>3. CASE z # ry
      <4>1. v.parent[z] = u.parent[z] /\ u.parent[z] # z
        BY <1>3, <2>3, <3>3
      <4>2. u.rank[z] < u.rank[u.parent[z]]
        BY <4>1 DEF RanksRise
      <4>3. v.rank[z] = u.rank[z]
        BY <1>1, <3>1, <4>1
      <4>4. v.rank[u.parent[z]] >= u.rank[u.parent[z]]
        BY <1>2, <3>1
      <4>5. v.rank[u.parent[z]] \in Nat
        BY <1>2, <3>1
      <4> QED
        BY <1>2, <4>1, <4>2, <4>3, <4>4, <4>5
    <3> QED
      BY <3>2, <3>3
  <2>8. \A z \in D : v.parent[z] = IF z = ry THEN rx ELSE u.parent[z]
    BY <1>1, <1>3, <2>3
  <2>9. /\ \A z \in D : Root(v, z) = IF Root(u, z) = ry THEN rx ELSE Root(u, z)
        /\ \A z \in D : v.parent[z] = z <=> u.parent[z] = z /\ z # ry
    BY <1>1, <1>8, <2>5, <2>6, <2>7, <2>8, LinkedBelow
  <2> QED
    BY <1>1, <2>5, <2>6, <2>7, <2>9 DEF Merged
<1>7. u.rank[rx] \in Int /\ u.rank[ry] \in Int
  BY <1>1, <1>2
<1> QED
  BY <1>4, <1>5, <1>6, <1>7

(***************************************************************************)
(* Sorting.                                                                *)
(***************************************************************************)
\* Edges between numbers, with weights.
EdgeType(N) == [src : N, dst : N, weight : Int]

\* The edge before which no more is put has a place of its own: the sorted
\* sequence has every edge once, and weights do not fall along it.
LEMMA Sorted ==
  ASSUME NEW N, NEW edges \in Seq(EdgeType(N))
  PROVE  /\ InsertionSort(edges) \in Seq(EdgeType(N))
         /\ Len(InsertionSort(edges)) = Len(edges)
         /\ ToSet(InsertionSort(edges)) = ToSet(edges)
         /\ \A k, l \in 1 .. Len(edges) :
              k <= l => InsertionSort(edges)[k].weight <= InsertionSort(edges)[l].weight
<1> DEFINE n == Len(edges)
           D == DOMAIN edges
           w(i) == edges[i].weight
           Before(i) == {j \in D : Behind(edges[i], i, edges[j], j)}
           p == [i \in D |-> Cardinality(Before(i))]
           nth(k) == CHOOSE i \in D : Cardinality(Before(i)) = k
           s == InsertionSort(edges)
<1>1. n \in Nat /\ D = 1 .. n /\ \A i \in D : edges[i] \in EdgeType(N) /\ w(i) \in Int
  <2>1. n \in Nat /\ D = 1 .. n /\ \A i \in D : edges[i] \in EdgeType(N)
    OBVIOUS
  <2>2. \A e \in EdgeType(N) : e.weight \in Int
    BY DEF EdgeType
  <2> QED
    BY <2>1, <2>2
<1>2. IsFiniteSet(D) /\ Cardinality(D) = n
  <2>1. IsFiniteSet(1 .. n) /\ Cardinality(1 .. n) = IF 1 > n THEN 0 ELSE n - 1 + 1
    BY <1>1, FS_Interval
  <2> HIDE DEF n, D
  <2>2. (IF 1 > n THEN 0 ELSE n - 1 + 1) = n
    BY <1>1
  <2> QED
    BY <1>1, <2>1, <2>2
<1>3. \A i, j \in D : j \in Before(i) <=> w(j) < w(i) \/ (w(j) = w(i) /\ j <= i)
  BY DEF Behind
<1>4. s = [k \in D |-> edges[CHOOSE i \in D : Cardinality(Before(i)) = k]]
  BY Zenon DEF InsertionSort
<1> HIDE DEF Before
<1>5. \A i \in D : Before(i) \subseteq D /\ i \in Before(i)
  BY <1>1, <1>3 DEF Before
<1>6. \A i \in D : p[i] \in D
  <2> TAKE i \in D
  <2>1. IsFiniteSet(Before(i)) /\ Cardinality(Before(i)) <= n
    BY <1>2, <1>5, FS_Subset
  <2>2. Cardinality(Before(i)) # 0 /\ Cardinality(Before(i)) \in Nat
    BY <1>5, <2>1, FS_EmptySet, FS_CardinalityType
  <2> QED
    BY <1>1, <2>1, <2>2
<1>7. \A i, j \in D : i # j /\ i \notin Before(j) => p[j] < p[i]
  <2> SUFFICES ASSUME NEW i \in D, NEW j \in D, i # j, i \notin Before(j)
               PROVE  p[j] < p[i]
    OBVIOUS
  <2>1. Before(j) \subseteq Before(i)
    <3> SUFFICES ASSUME NEW k \in Before(j)
                 PROVE  k \in Before(i)
      OBVIOUS
    <3>1. k \in D
      BY <1>5
    <3>2. w(i) \in Int /\ w(j) \in Int /\ w(k) \in Int /\ i \in Int /\ j \in Int /\ k \in Int
      BY <1>1, <3>1
    <3>3. ~ (w(i) < w(j) \/ (w(i) = w(j) /\ i <= j))
      BY <1>3
    <3>4. w(k) < w(j) \/ (w(k) = w(j) /\ k <= j)
      BY <1>3, <3>1
    <3> HIDE DEF w
    <3>5. w(k) < w(i) \/ (w(k) = w(i) /\ k <= i)
      BY <3>2, <3>3, <3>4
    <3> QED
      BY <1>3, <3>1, <3>5
  <2>2. Before(j) # Before(i)
    BY <1>5
  <2>3. IsFiniteSet(Before(i))
    BY <1>2, <1>5, FS_Subset
  <2>4. Cardinality(Before(j)) <= Cardinality(Before(i)) /\ Cardinality(Before(i)) # Cardinality(Before(j))
    BY <2>1, <2>2, <2>3, FS_Subset
  <2>5. p[i] = Cardinality(Before(i)) /\ p[j] = Cardinality(Before(j))
    OBVIOUS
  <2>6. p[i] \in Int /\ p[j] \in Int
    BY <1>1, <1>6
  <2> QED
    BY <2>4, <2>5, <2>6
<1> HIDE DEF p
<1>8. \A i, j \in D : p[i] = p[j] => i = j
  <2> SUFFICES ASSUME NEW i \in D, NEW j \in D, i # j
               PROVE  p[i] # p[j]
    OBVIOUS
  <2>1. i \notin Before(j) \/ j \notin Before(i)
    BY <1>1, <1>3
  <2>2. p[i] \in Int /\ p[j] \in Int
    BY <1>1, <1>6
  <2> QED
    BY <1>7, <2>1, <2>2
<1>9. \A k \in D : \E i \in D : p[i] = k
  <2>1. p \in [D -> D]
    BY <1>6 DEF p
  <2>2. p \in Injection(D, D)
    BY <1>8, <2>1 DEF Injection, IsInjective
  <2>3. p \in Surjection(D, D)
    BY <1>2, <2>2, FS_Injection
  <2> QED
    BY <2>3 DEF Surjection
<1>10. \A k \in D : nth(k) \in D /\ p[nth(k)] = k
  <2>1. \A k \in D : \E i \in D : Cardinality(Before(i)) = k
    BY <1>9 DEF p
  <2>2. \A k \in D : nth(k) \in D /\ Cardinality(Before(nth(k))) = k
    BY <2>1
  <2> QED
    BY <2>2 DEF p
<1>11. \A k \in D : s[k] = edges[nth(k)]
  BY <1>4
<1>12. DOMAIN s = D
  BY <1>4
<1> HIDE DEF s, nth
<1>13. s \in Seq(EdgeType(N)) /\ Len(s) = n
  <2>1. s = [k \in D |-> s[k]]
    BY <1>4 DEF s
  <2>2. \A k \in D : s[k] \in EdgeType(N)
    BY <1>1, <1>10, <1>11
  <2>3. s \in [D -> EdgeType(N)]
    BY <2>1, <2>2
  <2> QED
    BY <1>1, <1>12, <2>3, SeqDef
<1>14. ToSet(s) = ToSet(edges)
  <2>1. ToSet(s) \subseteq ToSet(edges)
    BY <1>1, <1>10, <1>11, <1>12 DEF ToSet
  <2>2. \A i \in D : nth(p[i]) = i
    BY <1>6, <1>8, <1>10
  <2>3. \A i \in D : edges[i] = s[p[i]]
    BY <1>6, <1>11, <2>2
  <2>4. ToSet(edges) \subseteq ToSet(s)
    BY <1>1, <1>6, <1>12, <2>3 DEF ToSet
  <2> QED
    BY <2>1, <2>4
<1>15. ASSUME NEW k \in D, NEW l \in D, k <= l
       PROVE  s[k].weight <= s[l].weight
  <2> DEFINE i == nth(k)
             j == nth(l)
  <2>1. i \in D /\ j \in D /\ p[i] = k /\ p[j] = l
    BY <1>10
  <2>2. s[k] = edges[i] /\ s[l] = edges[j]
    BY <1>11
  <2> HIDE DEF i, j
  <2>3. i \in Before(j)
    <3>1. CASE i = j
      BY <1>5, <2>1, <3>1
    <3>2. CASE i # j
      <4>1. ~ (p[j] < p[i])
        BY <1>15, <2>1
      <4> QED
        BY <1>7, <2>1, <3>2, <4>1
    <3> QED
      BY <3>1, <3>2
  <2>4. w(i) \in Int /\ w(j) \in Int /\ (w(i) < w(j) \/ w(i) = w(j))
    BY <1>1, <1>3, <2>1, <2>3
  <2> QED
    BY <2>2, <2>4
<1> QED
  BY <1>1, <1>13, <1>14, <1>15 DEF s

(***************************************************************************)
(* The invariant.                                                          *)
(***************************************************************************)
Room(m) == (m * (m - 1)) \div 2

GraphType == [maxNodes : Nat, nodeCount : Nat, edges : Seq(EdgeType(Int))]

GraphFits(g) == g.nodeCount <= g.maxNodes /\ Len(g.edges) <= Room(g.maxNodes)

JoinTyped ==
  /\ graph \in GraphType
  /\ GraphFits(graph)
  /\ pc \in {"building", "choosing", "walking", "done", "undefined"}
  /\ sorted \in Seq(EdgeType(Int))
  /\ chosen \in Seq(EdgeType(Int))
  /\ turn \in Nat \ {0}

\* A tree has fewer edges than nodes.
TreeFits == graph.nodeCount > 0 => Len(chosen) <= graph.nodeCount - 1

Tree == ToSet(chosen)

Lighter(w) == {c \in Tree : c.weight <= w}

Seen == 1 .. turn - 1

Sorting ==
  /\ ToSet(sorted) = ToSet(graph.edges)
  /\ turn <= Len(sorted) + 1
  /\ \A k, l \in 1 .. Len(sorted) : k <= l => sorted[k].weight <= sorted[l].weight

RootsOf(u, D) == {x \in D : u.parent[x] = x}

\* Two ids have one root if the edges join them, and only then.
TellsApart(u, V, E) ==
  \A x, y \in V : Root(u, x) = Root(u, y) <=> Joined(V, E, x, y)

\* There are as many roots as groups that the chosen edges leave.
Grouping(V) ==
  /\ uf \in Pointers(V, Len(chosen))
  /\ RanksRise(uf, V)
  /\ TellsApart(uf, V, Tree)
  /\ Cardinality(RootsOf(uf, V)) = graph.nodeCount - Len(chosen)

\* Every edge seen so far is one of the tree or has its ends joined by edges of
\* the tree that weigh no more.
Choosing(V) ==
  /\ EndsIn(V, Tree)
  /\ \A c \in Tree : \E k \in Seen : c = sorted[k]
  /\ \A k \in Seen : /\ sorted[k].src \in V /\ sorted[k].dst \in V
                     /\ Joined(V, Lighter(sorted[k].weight), sorted[k].src, sorted[k].dst)

Minimal ==
  Registered =>
    \A e \in ToSet(graph.edges) : Joined(NodesOf(graph), Lighter(e.weight), e.src, e.dst)

\* The path runs along edges of the tree and comes to no table twice.
Walking ==
  /\ \A i \in DOMAIN chosen : Ends(chosen[i]) \subseteq Places
  /\ path \in Seq(Places)
  /\ path # << >>
  /\ Len(path) <= Len(chosen) + 1
  /\ \A i, j \in 1 .. Len(path) : path[i] = path[j] => i = j
  /\ \A i \in 1 .. Len(path) - 1 : \E c \in Tree : Ends(c) = {path[i], path[i + 1]}

JoinInv ==
  /\ JoinTyped
  /\ TreeFits
  /\ pc = "building" => chosen = << >> /\ path = << >>
  /\ pc = "choosing" =>
       graph.nodeCount > 0 /\ Sorting /\ Grouping(NodesOf(graph)) /\ Choosing(NodesOf(graph))
  /\ pc = "walking" => Minimal /\ Walking
  /\ pc = "undefined" => ~ (Registered /\ Connected)

LEMMA RoomIs ==
  ASSUME NEW m \in Nat
  PROVE  Room(m) \in Nat
<1>1. CASE m = 0
  BY <1>1 DEF Room
<1>2. CASE m # 0
  <2> DEFINE q == m * (m - 1)
  <2>1. m - 1 \in Nat
    BY <1>2
  <2>2. q \in Nat
    BY <2>1
  <2> HIDE DEF q
  <2>3. q \div 2 \in Nat
    BY <2>2
  <2> QED
    BY <2>3 DEF Room, q
<1> QED
  BY <1>1, <1>2

LEMMA WithNodeIs ==
  ASSUME NEW g \in GraphType, GraphFits(g), NEW id \in Int
  PROVE  /\ WithNode(g, id) \in GraphType
         /\ GraphFits(WithNode(g, id))
         /\ WithNode(g, id).maxNodes = g.maxNodes
<1>1. CASE id \in 0 .. g.maxNodes - 1 /\ id >= g.nodeCount
  <2> DEFINE h == [g EXCEPT !.nodeCount = id + 1]
  <2>1. g.maxNodes \in Nat /\ id + 1 \in Nat /\ id + 1 <= g.maxNodes
    BY <1>1 DEF GraphType
  <2>2. WithNode(g, id) = h
    BY <1>1 DEF WithNode
  <2>3. h \in GraphType /\ h.nodeCount = id + 1 /\ h.maxNodes = g.maxNodes /\ h.edges = g.edges
    BY <2>1 DEF GraphType
  <2> QED
    BY <2>1, <2>2, <2>3 DEF GraphFits
<1>2. CASE ~ (id \in 0 .. g.maxNodes - 1 /\ id >= g.nodeCount)
  BY <1>2 DEF WithNode
<1> QED
  BY <1>1, <1>2

LEMMA WithEdgeIs ==
  ASSUME NEW g \in GraphType, GraphFits(g), NEW s \in Int, NEW d \in Int, NEW w \in Int
  PROVE  /\ WithEdge(g, s, d, w) \in GraphType
         /\ GraphFits(WithEdge(g, s, d, w))
         /\ WithEdge(g, s, d, w).maxNodes = g.maxNodes
<1> DEFINE same == {i \in DOMAIN g.edges : Ends(g.edges[i]) = {s, d}}
           es == [i \in DOMAIN g.edges |->
                    IF i \in same THEN [g.edges[i] EXCEPT !.weight = w] ELSE g.edges[i]]
           fs == Append(g.edges, [src |-> s, dst |-> d, weight |-> w])
           h == WithEdge(g, s, d, w)
           n == Len(g.edges)
<1>1. /\ g.maxNodes \in Nat /\ g.nodeCount \in Nat /\ g.edges \in Seq(EdgeType(Int))
      /\ n \in Nat /\ DOMAIN g.edges = 1 .. n
  BY DEF GraphType
<1>2. \/ h = g
      \/ h = [g EXCEPT !.edges = es]
      \/ h = [g EXCEPT !.edges = fs] /\ ~ (n >= Room(g.maxNodes))
  <2> DEFINE beyond == ~ {s, d} \subseteq 0 .. g.maxNodes - 1
             full == n >= Room(g.maxNodes)
  <2>1. h = IF beyond THEN g
            ELSE IF same # {} THEN [g EXCEPT !.edges = es]
            ELSE IF full THEN g
            ELSE [g EXCEPT !.edges = fs]
    BY Zenon DEF WithEdge, Room
  <2> HIDE DEF beyond, full, same, es, fs, h
  <2>2. (h = g) \/ (h = [g EXCEPT !.edges = es]) \/ (h = [g EXCEPT !.edges = fs] /\ ~ full)
    BY <2>1
  <2> QED
    BY <2>2 DEF full
<1>3. es \in Seq(EdgeType(Int)) /\ Len(es) = n
  <2>1. \A i \in 1 .. n : g.edges[i] \in EdgeType(Int)
    BY <1>1
  <2>2. \A e \in EdgeType(Int) : [e EXCEPT !.weight = w] \in EdgeType(Int)
    BY DEF EdgeType
  <2>3. \A i \in 1 .. n : es[i] \in EdgeType(Int)
    BY <1>1, <2>1, <2>2
  <2> HIDE DEF same
  <2>4. DOMAIN es = 1 .. n /\ es = [i \in 1 .. n |-> es[i]]
    BY <1>1
  <2> HIDE DEF es
  <2>5. es \in [1 .. n -> EdgeType(Int)]
    BY <2>3, <2>4
  <2>6. es \in Seq(EdgeType(Int))
    BY <1>1, <2>5, SeqDef
  <2> QED
    BY <1>1, <2>4, <2>6
<1>4. fs \in Seq(EdgeType(Int)) /\ Len(fs) = n + 1
  <2>1. [src |-> s, dst |-> d, weight |-> w] \in EdgeType(Int)
    BY DEF EdgeType
  <2> QED
    BY <1>1, <2>1
<1> HIDE DEF h, es, fs
<1>5. \A t \in Seq(EdgeType(Int)) :
        /\ [g EXCEPT !.edges = t] \in GraphType
        /\ [g EXCEPT !.edges = t].maxNodes = g.maxNodes
        /\ [g EXCEPT !.edges = t].nodeCount = g.nodeCount
        /\ [g EXCEPT !.edges = t].edges = t
  BY DEF GraphType
<1>6. Room(g.maxNodes) \in Nat
  BY <1>1, RoomIs
<1>7. CASE h = g
  BY <1>7 DEF h
<1>8. CASE h = [g EXCEPT !.edges = es]
  BY <1>3, <1>5, <1>8 DEF h, GraphFits
<1>9. CASE h = [g EXCEPT !.edges = fs] /\ ~ (n >= Room(g.maxNodes))
  <2>1. n + 1 <= Room(g.maxNodes)
    BY <1>1, <1>6, <1>9
  <2> QED
    BY <1>4, <1>5, <1>9, <2>1 DEF h, GraphFits
<1> QED
  BY <1>2, <1>7, <1>8, <1>9

LEMMA NewGraphIs ==
  ASSUME NEW size \in Nat
  PROVE  NewGraph(size) \in GraphType /\ GraphFits(NewGraph(size)) /\ NewGraph(size).maxNodes = size
<1> DEFINE g == [maxNodes |-> size, nodeCount |-> 0, edges |-> << >>]
           g1 == WithNode(g, 0)
           g2 == WithNode(g1, 1)
           g3 == WithNode(g2, 2)
           g4 == WithEdge(g3, 0, 1, 2)
           g5 == WithEdge(g4, 1, 2, 3)
           g6 == WithEdge(g5, 0, 2, 8)
           Ok(h) == h \in GraphType /\ GraphFits(h) /\ h.maxNodes = size
<1>1. NewGraph(size) = g6
  BY Zenon DEF NewGraph
<1>2. Ok(g)
  BY RoomIs DEF GraphType, GraphFits
<1> HIDE DEF g
<1>3. Ok(g1)
  BY <1>2, WithNodeIs
<1> HIDE DEF g1
<1>4. Ok(g2)
  BY <1>3, WithNodeIs
<1> HIDE DEF g2
<1>5. Ok(g3)
  BY <1>4, WithNodeIs
<1> HIDE DEF g3
<1>6. Ok(g4)
  BY <1>5, WithEdgeIs
<1> HIDE DEF g4
<1>7. Ok(g5)
  BY <1>6, WithEdgeIs
<1> HIDE DEF g5
<1>8. Ok(g6)
  BY <1>7, WithEdgeIs
<1> HIDE DEF g6
<1> QED
  BY <1>1, <1>8

(***************************************************************************)
(* Every step keeps it.                                                    *)
(***************************************************************************)
LEMMA CallKeepsJoinInv ==
  ASSUME JoinInv, NEW g \in GraphType, GraphFits(g), Call(g)
  PROVE  JoinInv'
<1>1. pc = "building" /\ pc' = pc /\ graph' = g /\ chosen = << >> /\ path = << >>
  BY DEF Call, JoinInv
<1>2. UNCHANGED << pc, sorted, turn, uf, chosen, path >>
  BY DEF Call
<1>3. JoinTyped'
  BY <1>1, <1>2 DEF JoinInv, JoinTyped
<1>4. TreeFits'
  <2>1. Len(chosen') = 0 /\ graph'.nodeCount \in Nat
    BY <1>1, <1>2 DEF GraphType
  <2> QED
    BY <2>1 DEF TreeFits
<1> QED
  BY <1>1, <1>2, <1>3, <1>4 DEF JoinInv

LEMMA NodesAre ==
  ASSUME NEW n \in Nat
  PROVE  IsFiniteSet(0 .. n - 1) /\ Cardinality(0 .. n - 1) = n
<1>1. IsFiniteSet(0 .. n - 1) /\ Cardinality(0 .. n - 1) = IF 0 > n - 1 THEN 0 ELSE n - 1 - 0 + 1
  BY FS_Interval
<1> QED
  BY <1>1

\* At first every id is a root.
LEMMA NewUnionFindIs ==
  ASSUME NEW n \in Nat, NEW V, V = 0 .. n - 1
  PROVE  /\ NewUnionFind(n) \in Pointers(V, 0)
         /\ RanksRise(NewUnionFind(n), V)
         /\ \A x \in V : Root(NewUnionFind(n), x) = x
         /\ Cardinality(RootsOf(NewUnionFind(n), V)) = n
<1> DEFINE u == NewUnionFind(n)
<1>1. u = [parent |-> [x \in V |-> x], rank |-> [x \in V |-> 0]]
  BY DEF NewUnionFind
<1> HIDE DEF u
<1>2. \A x \in V : u.parent[x] = x
  BY <1>1
<1>3. u \in Pointers(V, 0)
  BY <1>1 DEF Pointers
<1>4. \A x \in V : Root(u, x) = x
  BY <1>2, <1>3, RootStep
<1>5. RootsOf(u, V) = V
  BY <1>2 DEF RootsOf
<1> QED
  BY <1>2, <1>3, <1>4, <1>5, NodesAre DEF u, RanksRise

LEMMA NothingJoined ==
  ASSUME NEW V, NEW x \in V, NEW y, Joined(V, {}, x, y)
  PROVE  x = y
<1>1. {x} \in SUBSET V /\ x \in {x}
  OBVIOUS
<1> QED
  BY <1>1 DEF Joined

LEMMA SortKeepsJoinInv ==
  ASSUME JoinInv, Sort
  PROVE  JoinInv'
<1> DEFINE V == NodesOf(graph)
           s == InsertionSort(graph.edges)
           n == graph.nodeCount
<1>1. /\ graph' = graph /\ chosen' = chosen /\ chosen = << >> /\ path' = path /\ path = << >>
      /\ sorted' = s /\ turn' = 1 /\ uf' = NewUnionFind(n)
      /\ pc' = IF graph.edges = << >> \/ n = 0 THEN "done" ELSE "choosing"
  BY DEF Sort, JoinInv
<1>2. n \in Nat /\ graph.edges \in Seq(EdgeType(Int)) /\ graph \in GraphType /\ GraphFits(graph)
  BY DEF JoinInv, JoinTyped, GraphType
<1>3. /\ s \in Seq(EdgeType(Int)) /\ Len(s) = Len(graph.edges) /\ ToSet(s) = ToSet(graph.edges)
      /\ \A k, l \in 1 .. Len(graph.edges) : k <= l => s[k].weight <= s[l].weight
  BY <1>2, Sorted
<1> HIDE DEF s
<1>4. Len(s) \in Nat
  BY <1>3
<1>5. JoinTyped'
  <2>1. chosen \in Seq(EdgeType(Int)) /\ 1 \in Nat \ {0}
    BY DEF JoinInv, JoinTyped
  <2>2. pc' \in {"building", "choosing", "walking", "done", "undefined"}
    BY <1>1
  <2> QED
    BY <1>1, <1>2, <1>3, <2>1, <2>2 DEF JoinTyped
<1>6. TreeFits'
  BY <1>1 DEF TreeFits, JoinInv
<1>7. ASSUME pc' = "choosing"
      PROVE  graph'.nodeCount > 0 /\ Sorting' /\ Grouping(V)' /\ Choosing(V)'
  <2>1. n > 0
    BY <1>1, <1>2, <1>7
  <2>2. Sorting'
    BY <1>1, <1>3, <1>4 DEF Sorting
  <2>3. Tree' = {} /\ Len(chosen') = 0
    BY <1>1 DEF Tree, ToSet
  <2>4. Grouping(V)'
    <3>1. V' = V /\ V = 0 .. n - 1
      BY <1>1 DEF NodesOf
    <3> HIDE DEF V
    <3>2. uf' \in Pointers(V, 0) /\ RanksRise(uf', V) /\ \A x \in V : Root(uf', x) = x
      BY <1>1, <1>2, <3>1, NewUnionFindIs
    <3>3. Cardinality(RootsOf(uf', V)) = n
      BY <1>1, <1>2, <3>1, NewUnionFindIs
    <3>4. TellsApart(uf', V, {})
      BY <3>2, NothingJoined, JoinedToItself DEF TellsApart
    <3>5. graph'.nodeCount - Len(chosen') = n
      BY <1>1, <1>2, <2>3
    <3> QED
      BY <2>3, <3>1, <3>2, <3>3, <3>4, <3>5 DEF Grouping
  <2>5. Choosing(V)'
    <3>1. Seen' = {}
      BY <1>1 DEF Seen
    <3> QED
      BY <2>3, <3>1 DEF Choosing, EndsIn
  <2> QED
    BY <1>1, <2>1, <2>2, <2>4, <2>5
<1>8. pc' \in {"done", "choosing"}
  BY <1>1
<1> QED
  BY <1>5, <1>6, <1>7, <1>8 DEF JoinInv

LEMMA ChooseUnknownKeepsJoinInv ==
  ASSUME JoinInv, ChooseUnknown
  PROVE  JoinInv'
<1>1. /\ pc = "choosing" /\ pc' = "undefined" /\ turn <= Len(sorted)
      /\ ~ Ends(sorted[turn]) \subseteq NodesOf(graph)
      /\ UNCHANGED << graph, sorted, turn, uf, chosen, path >>
  BY DEF ChooseUnknown, MoreEdges
<1>2. JoinTyped /\ TreeFits /\ Sorting
  BY <1>1 DEF JoinInv
<1>3. JoinTyped' /\ TreeFits'
  BY <1>1, <1>2 DEF JoinTyped, TreeFits
<1>4. ~ Registered
  <2>1. turn \in DOMAIN sorted
    BY <1>1, <1>2 DEF JoinTyped
  <2>2. sorted[turn] \in ToSet(graph.edges)
    BY <1>2, <2>1 DEF Sorting, ToSet
  <2>3. PICK i \in DOMAIN graph.edges : sorted[turn] = graph.edges[i]
    BY <2>2 DEF ToSet
  <2> QED
    BY <1>1, <2>3 DEF Registered
<1>5. Registered' = Registered
  BY <1>1 DEF Registered
<1> QED
  BY <1>1, <1>3, <1>4, <1>5 DEF JoinInv

\* What the tree and the union-find say before a round.
LEMMA RoundIs ==
  ASSUME JoinInv, pc = "choosing", turn <= Len(sorted), NEW V, V = NodesOf(graph)
  PROVE  /\ graph.nodeCount \in Nat /\ Len(chosen) \in Nat /\ turn \in Nat
         /\ IsFiniteSet(V) /\ V \subseteq Int
         /\ chosen \in Seq(EdgeType(Int)) /\ sorted \in Seq(EdgeType(Int))
         /\ sorted[turn] \in EdgeType(Int)
         /\ \A k \in Seen : k \in DOMAIN sorted /\ sorted[k].weight <= sorted[turn].weight
         /\ Tree \subseteq EdgeType(Int)
         /\ Tree = Lighter(sorted[turn].weight)
<1>1. JoinTyped /\ Sorting /\ Choosing(V)
  BY DEF JoinInv
<1>2. graph.nodeCount \in Nat /\ Len(chosen) \in Nat /\ Len(sorted) \in Nat /\ turn \in Nat \ {0}
  BY <1>1 DEF JoinTyped, GraphType
<1>3. IsFiniteSet(V) /\ V \subseteq Int
  BY <1>2, NodesAre DEF NodesOf
<1>4. turn \in 1 .. Len(sorted) /\ DOMAIN sorted = 1 .. Len(sorted)
  BY <1>1, <1>2 DEF JoinTyped
<1>5. sorted[turn] \in EdgeType(Int)
  BY <1>1, <1>4 DEF JoinTyped
<1>6. \A k \in Seen : k \in 1 .. Len(sorted) /\ k <= turn
  BY <1>2 DEF Seen
<1>7. \A k \in Seen : k \in DOMAIN sorted /\ sorted[k].weight <= sorted[turn].weight
  BY <1>1, <1>4, <1>6 DEF Sorting
<1>8. Tree = Lighter(sorted[turn].weight)
  BY <1>1, <1>7 DEF Choosing, Lighter
<1>9. Tree \subseteq EdgeType(Int)
  BY <1>1 DEF JoinTyped, Tree, ToSet
<1> QED
  BY <1>1, <1>2, <1>3, <1>5, <1>7, <1>8, <1>9 DEF JoinTyped

\* Two groups become one where the new edge joins them.
LEMMA MergedIs ==
  ASSUME NEW V, NEW E, NEW e, NEW u, NEW v,
         EndsIn(V, E), e.src \in V, e.dst \in V,
         Merged(V, u, v, Root(u, e.src), Root(u, e.dst)),
         TellsApart(u, V, E)
  PROVE  TellsApart(v, V, E \union {e})
<1> DEFINE F == E \union {e}
           rs == Root(u, e.src)
           rd == Root(u, e.dst)
<1>1. PICK c \in {rs, rd}, k \in {rs, rd} :
        c # k /\ \A z \in V : Root(v, z) = IF Root(u, z) = c THEN k ELSE Root(u, z)
  BY DEF Merged
<1>2. EndsIn(V, F)
  BY DEF EndsIn
<1>3. Joined(V, F, e.src, e.dst) /\ Joined(V, F, e.dst, e.src)
  BY <1>2, JoinedByEdge, JoinedBack
<1>4. \A x, y \in V : Root(u, x) = Root(u, y) => Joined(V, F, x, y)
  BY JoinedByMore DEF TellsApart
<1>5. \A x, y \in V : Root(u, x) = rs /\ Root(u, y) = rd => Joined(V, F, x, y) /\ Joined(V, F, y, x)
  <2> SUFFICES ASSUME NEW x \in V, NEW y \in V, Root(u, x) = rs, Root(u, y) = rd
               PROVE  Joined(V, F, x, y) /\ Joined(V, F, y, x)
    OBVIOUS
  <2>1. Joined(V, F, x, e.src) /\ Joined(V, F, e.src, x)
    BY <1>4
  <2>2. Joined(V, F, y, e.dst) /\ Joined(V, F, e.dst, y)
    BY <1>4
  <2>3. Joined(V, F, x, e.dst) /\ Joined(V, F, y, e.src)
    BY <1>3, <2>1, <2>2, JoinedOn
  <2> QED
    BY <2>1, <2>2, <2>3, JoinedOn
<1>6. ASSUME NEW x \in V, NEW y \in V, Root(v, x) = Root(v, y)
      PROVE  Joined(V, F, x, y)
  <2>1. \/ Root(u, x) = Root(u, y)
        \/ Root(u, x) = rs /\ Root(u, y) = rd
        \/ Root(u, x) = rd /\ Root(u, y) = rs
    BY <1>1, <1>6
  <2> HIDE DEF F, rs, rd
  <2> QED
    BY <1>4, <1>5, <2>1
<1>7. ASSUME NEW x \in V, NEW y \in V, Joined(V, F, x, y)
      PROVE  Root(v, x) = Root(v, y)
  <2>1. \/ Joined(V, E, x, y)
        \/ Joined(V, E, x, e.src) /\ Joined(V, E, e.dst, y)
        \/ Joined(V, E, x, e.dst) /\ Joined(V, E, e.src, y)
    BY <1>7, JoinedAcross
  <2>2. \/ Root(u, x) = Root(u, y)
        \/ Root(u, x) = rs /\ rd = Root(u, y)
        \/ Root(u, x) = rd /\ rs = Root(u, y)
    BY <2>1 DEF TellsApart
  <2> QED
    BY <1>1, <2>2
<1> QED
  BY <1>6, <1>7 DEF TellsApart

\* The edges chosen, with one more.
LEMMA OneMore ==
  ASSUME NEW S, NEW q \in Seq(S), NEW e \in S
  PROVE  /\ Append(q, e) \in Seq(S)
         /\ Len(Append(q, e)) = Len(q) + 1
         /\ ToSet(Append(q, e)) = ToSet(q) \union {e}
<1> DEFINE p == Append(q, e)
           n == Len(q)
<1>1. p \in Seq(S) /\ Len(p) = n + 1 /\ n \in Nat /\ DOMAIN p = 1 .. n + 1 /\ DOMAIN q = 1 .. n
  OBVIOUS
<1>2. \A i \in 1 .. n : p[i] = q[i]
  OBVIOUS
<1>3. p[n + 1] = e
  OBVIOUS
<1> HIDE DEF p, n
<1>4. \A i : i \in 1 .. n + 1 <=> i \in 1 .. n \/ i = n + 1
  BY <1>1
<1>5. ToSet(p) = ToSet(q) \union {e}
  BY <1>1, <1>2, <1>3, <1>4 DEF ToSet
<1> QED
  BY <1>1, <1>5 DEF p, n

LEMMA ChooseKeepsJoinInv ==
  ASSUME JoinInv, Choose
  PROVE  JoinInv'
<1> DEFINE V == NodesOf(graph)
           e == sorted[turn]
           b == Len(chosen)
           u1 == Found(uf, e.src)
           u == Found(u1, e.dst)
           joined == Root(u, e.src) = Root(u, e.dst)
<1>1. /\ pc = "choosing" /\ turn <= Len(sorted) /\ b < graph.nodeCount - 1
      /\ Ends(e) \subseteq V
      /\ uf' = IF joined THEN u ELSE United(u, e.src, e.dst)
      /\ chosen' = IF joined THEN chosen ELSE Append(chosen, e)
      /\ turn' = turn + 1
      /\ UNCHANGED << graph, calls, pc, sorted, path >>
  BY Zenon DEF Choose, MoreEdges
<1>2. /\ graph.nodeCount \in Nat /\ b \in Nat /\ turn \in Nat
      /\ IsFiniteSet(V) /\ V \subseteq Int
      /\ chosen \in Seq(EdgeType(Int)) /\ e \in EdgeType(Int)
      /\ \A k \in Seen : k \in DOMAIN sorted /\ sorted[k].weight <= e.weight
      /\ Tree \subseteq EdgeType(Int)
      /\ Tree = Lighter(e.weight)
  BY <1>1, RoundIs
<1>3. e.src \in V /\ e.dst \in V
  BY <1>1 DEF Ends
<1>4. JoinTyped /\ TreeFits /\ Sorting /\ Grouping(V) /\ Choosing(V) /\ graph.nodeCount > 0
  BY <1>1 DEF JoinInv
<1>5. uf \in Pointers(V, b) /\ RanksRise(uf, V)
  BY <1>4 DEF Grouping
<1> HIDE DEF u, u1, V, e, b
<1>6. /\ u1 \in Pointers(V, b) /\ RanksRise(u1, V)
      /\ \A y \in V : Root(u1, y) = Root(uf, y)
      /\ \A y \in V : u1.parent[y] = y <=> uf.parent[y] = y
  BY <1>2, <1>3, <1>5, FoundKeeps DEF u1
<1>7. /\ u \in Pointers(V, b) /\ RanksRise(u, V)
      /\ \A y \in V : Root(u, y) = Root(u1, y)
      /\ \A y \in V : u.parent[y] = y <=> u1.parent[y] = y
  BY <1>2, <1>3, <1>6, FoundKeeps DEF u
<1>8. TellsApart(u, V, Tree)
  BY <1>4, <1>6, <1>7 DEF Grouping, TellsApart
<1>9. RootsOf(u, V) = RootsOf(uf, V)
  BY <1>6, <1>7 DEF RootsOf
<1>10. V' = V /\ Seen' = Seen \union {turn} /\ turn' \in Nat \ {0}
  <2>1. V' = V
    BY <1>1 DEF V, NodesOf
  <2>2. turn \in Nat \ {0}
    BY <1>4 DEF JoinTyped
  <2>3. Seen' = Seen \union {turn}
    BY <1>1, <2>2 DEF Seen
  <2> QED
    BY <1>1, <2>1, <2>2, <2>3
<1>11. EndsIn(V, Tree)
  BY <1>4 DEF Choosing
<1>12. Sorting'
  <2>1. turn' <= Len(sorted) + 1
    BY <1>1, <1>2, <1>4 DEF JoinTyped
  <2> QED
    BY <1>1, <1>4, <2>1 DEF Sorting
<1>13. CASE joined
  <2>1. uf' = u /\ chosen' = chosen /\ Tree' = Tree
    BY <1>1, <1>13 DEF Tree
  <2>2. JoinTyped' /\ TreeFits'
    BY <1>1, <1>4, <1>10, <2>1 DEF JoinTyped, TreeFits
  <2>3. Grouping(V)'
    <3>1. Cardinality(RootsOf(u, V)) = graph.nodeCount - b
      BY <1>4, <1>9 DEF Grouping, b
    <3> QED
      BY <1>1, <1>7, <1>8, <1>10, <2>1, <3>1 DEF Grouping, b
  <2>4. Choosing(V)'
    <3>1. Joined(V, Lighter(e.weight), e.src, e.dst)
      BY <1>2, <1>3, <1>8, <1>13 DEF TellsApart
    <3>2. \A w : Lighter(w)' = Lighter(w)
      BY <2>1 DEF Lighter
    <3>3. \A k \in Seen : /\ sorted[k].src \in V /\ sorted[k].dst \in V
                          /\ Joined(V, Lighter(sorted[k].weight), sorted[k].src, sorted[k].dst)
      BY <1>4 DEF Choosing
    <3>4. \A c \in Tree : \E k \in Seen : c = sorted[k]
      BY <1>4 DEF Choosing
    <3>5. \A k \in Seen' : /\ sorted[k].src \in V /\ sorted[k].dst \in V
                           /\ Joined(V, Lighter(sorted[k].weight), sorted[k].src, sorted[k].dst)
      BY <1>3, <1>10, <3>1, <3>3 DEF e
    <3> QED
      BY <1>1, <1>10, <1>11, <2>1, <3>4, <3>5 DEF Choosing, Lighter
  <2> QED
    BY <1>1, <1>4, <1>12, <2>2, <2>3, <2>4 DEF JoinInv, V
<1>14. CASE ~ joined
  <2>1. uf' = United(u, e.src, e.dst) /\ chosen' = Append(chosen, e)
    BY <1>1, <1>14
  <2>2. chosen' \in Seq(EdgeType(Int)) /\ Len(chosen') = b + 1 /\ Tree' = Tree \union {e}
    BY <1>2, <2>1, OneMore DEF Tree, b
  <2>3. JoinTyped' /\ TreeFits'
    <3>1. b + 1 <= graph.nodeCount - 1
      BY <1>1, <1>2
    <3> QED
      BY <1>1, <1>4, <1>10, <2>2, <3>1 DEF JoinTyped, TreeFits
  <2>4. /\ uf' \in Pointers(V, b + 1) /\ RanksRise(uf', V)
        /\ Merged(V, u, uf', Root(u, e.src), Root(u, e.dst))
    BY <1>2, <1>3, <1>7, <1>14, <2>1, UnitedIs
  <2>5. TellsApart(uf', V, Tree \union {e})
    BY <1>3, <1>8, <1>11, <2>4, MergedIs
  <2>6. Cardinality(RootsOf(uf', V)) = graph.nodeCount - (b + 1)
    <3> DEFINE rs == Root(u, e.src)
               rd == Root(u, e.dst)
    <3>1. PICK c \in {rs, rd} : \A z \in V : uf'.parent[z] = z <=> u.parent[z] = z /\ z # c
      BY <2>4 DEF Merged
    <3>2. c \in RootsOf(u, V)
      BY <1>2, <1>3, <1>7, RootIs DEF RootsOf
    <3>3. RootsOf(uf', V) = RootsOf(u, V) \ {c}
      BY <3>1 DEF RootsOf
    <3>4. IsFiniteSet(RootsOf(u, V))
      BY <1>2, FS_Subset DEF RootsOf
    <3>5. Cardinality(RootsOf(u, V)) = graph.nodeCount - b
      BY <1>4, <1>9 DEF Grouping, b
    <3>6. Cardinality(RootsOf(uf', V)) = Cardinality(RootsOf(u, V)) - 1
      BY <3>2, <3>3, <3>4, FS_RemoveElement
    <3> QED
      BY <1>2, <3>5, <3>6
  <2>7. Grouping(V)'
    BY <1>1, <1>10, <2>2, <2>4, <2>5, <2>6 DEF Grouping
  <2>8. Choosing(V)'
    <3> DEFINE T == Tree \union {e}
               Low(w) == {c \in T : c.weight <= w}
               Fine(k) == /\ sorted[k].src \in V /\ sorted[k].dst \in V
                          /\ Joined(V, Low(sorted[k].weight), sorted[k].src, sorted[k].dst)
    <3>1. EndsIn(V, T)
      BY <1>3, <1>11 DEF EndsIn
    <3>2. \A c \in T : \E k \in Seen \union {turn} : c = sorted[k]
      BY <1>4 DEF Choosing, e
    <3>3. ASSUME NEW k \in Seen
          PROVE  Fine(k)
      <4>1. Lighter(sorted[k].weight) \subseteq Low(sorted[k].weight)
        BY DEF Lighter
      <4> QED
        BY <1>4, <4>1, JoinedByMore DEF Choosing
    <3>4. Fine(turn)
      <4>1. e \in Low(e.weight)
        BY <1>2 DEF EdgeType
      <4>2. Joined(V, Low(e.weight), e.src, e.dst)
        BY <4>1, JoinedByEdge
      <4> QED
        BY <1>3, <4>2 DEF e
    <3>5. \A k \in Seen' : Fine(k)
      BY <1>10, <3>3, <3>4
    <3>6. \A w : Lighter(w)' = Low(w)
      BY <2>2 DEF Lighter
    <3> QED
      BY <1>1, <1>10, <2>2, <3>1, <3>2, <3>5 DEF Choosing, Lighter
  <2> QED
    BY <1>1, <1>4, <1>12, <2>3, <2>7, <2>8 DEF JoinInv, V
<1> QED
  BY <1>13, <1>14

\* There is one root if the tree joins all nodes, and then it has all the edges
\* a tree can have.
LEMMA OneRoot ==
  ASSUME JoinInv, pc = "choosing", NEW V, V = NodesOf(graph)
  PROVE  (\A x, y \in V : Joined(V, Tree, x, y)) <=> Len(chosen) = graph.nodeCount - 1
<1> DEFINE n == graph.nodeCount
           b == Len(chosen)
           R == RootsOf(uf, V)
<1>1. n \in Nat /\ n > 0 /\ b \in Nat /\ V = 0 .. n - 1 /\ 0 \in V
  BY DEF JoinInv, JoinTyped, GraphType, NodesOf
<1>2. Grouping(V)
  BY DEF JoinInv
<1>3. Cardinality(R) = n - b /\ TellsApart(uf, V, Tree)
  BY <1>2 DEF Grouping
<1>4. IsFiniteSet(R)
  BY <1>1, NodesAre, FS_Subset DEF RootsOf
<1>5. \A x \in V : Root(uf, x) \in R
  BY <1>1, <1>2, RootIs DEF Grouping, RootsOf
<1>6. \A r \in R : r \in V /\ Root(uf, r) = r
  BY <1>1, <1>2, RootStep DEF Grouping, RootsOf
<1>7. Cardinality(R) = 1 <=> b = n - 1
  BY <1>1, <1>3
<1>8. Cardinality(R) = 1 <=> \E r : R = {r}
  BY <1>4, FS_Singleton
<1> HIDE DEF R
<1>9. ASSUME NEW r, R = {r}, NEW x \in V, NEW y \in V
      PROVE  Joined(V, Tree, x, y)
  <2>1. Root(uf, x) = Root(uf, y)
    BY <1>5, <1>9
  <2> QED
    BY <1>3, <2>1 DEF TellsApart
<1>10. ASSUME \A x, y \in V : Joined(V, Tree, x, y)
       PROVE  R = {Root(uf, 0)}
  <2>1. \A x, y \in V : Root(uf, x) = Root(uf, y)
    BY <1>3, <1>10 DEF TellsApart
  <2>2. \A r \in R : r = Root(uf, 0)
    BY <1>1, <1>6, <2>1
  <2> QED
    BY <1>1, <1>5, <2>2
<1>11. (\E r : R = {r}) <=> \A x, y \in V : Joined(V, Tree, x, y)
  BY <1>9, <1>10
<1> QED
  BY <1>7, <1>8, <1>11

LEMMA MinIs ==
  ASSUME NEW S \in SUBSET Nat, S # {}
  PROVE  Min(S) \in S
BY LeastOf DEF Min

LEMMA StartIs ==
  ASSUME chosen \in Seq(EdgeType(Int))
  PROVE  Start \in Places
<1> DEFINE leaves == {u \in Places : Degree(u) = 1}
<1>1. Len(chosen) \in Nat
  OBVIOUS
<1>2. Places \subseteq Nat /\ 0 \in Places
  BY <1>1 DEF Places
<1>3. leaves # {} => Min(leaves) \in leaves
  BY <1>2, MinIs
<1>4. leaves \subseteq Places
  OBVIOUS
<1>5. Start = IF leaves = {} THEN 0 ELSE Min(leaves)
  BY DEF Start
<1> HIDE DEF leaves
<1> QED
  BY <1>2, <1>3, <1>4, <1>5

\* When the loop ends the tree is a lightest one.
LEMMA ThenMinimal ==
  ASSUME JoinInv, pc = "choosing", ~ MoreEdges
  PROVE  Minimal
<1> DEFINE V == NodesOf(graph)
<1>1. JoinTyped /\ TreeFits /\ Sorting /\ Choosing(V) /\ graph.nodeCount > 0
  BY DEF JoinInv
<1>2. /\ Len(sorted) \in Nat /\ turn \in Nat \ {0} /\ Len(chosen) \in Nat /\ graph.nodeCount \in Nat
      /\ DOMAIN sorted = 1 .. Len(sorted)
  BY <1>1 DEF JoinTyped, GraphType
<1> SUFFICES ASSUME Registered, NEW e \in ToSet(graph.edges)
             PROVE  Joined(V, Lighter(e.weight), e.src, e.dst)
  BY DEF Minimal
<1> HIDE DEF V
<1>3. PICK k \in 1 .. Len(sorted) : e = sorted[k]
  BY <1>1, <1>2 DEF Sorting, ToSet
<1>4. CASE k \in Seen
  BY <1>1, <1>3, <1>4 DEF Choosing
<1>5. CASE k \notin Seen
  <2>1. turn <= k /\ turn <= Len(sorted)
    BY <1>2, <1>3, <1>5 DEF Seen
  <2>2. Len(chosen) = graph.nodeCount - 1
    BY <1>1, <1>2, <2>1 DEF MoreEdges, TreeFits
  <2>3. \A x, y \in V : Joined(V, Tree, x, y)
    BY <2>2, OneRoot DEF V
  <2>4. e.src \in V /\ e.dst \in V
    BY DEF Registered, Ends, ToSet, V
  <2>5. \A c \in Tree : c.weight <= e.weight
    <3> SUFFICES ASSUME NEW c \in Tree
                 PROVE  c.weight <= e.weight
      OBVIOUS
    <3>1. PICK j \in Seen : c = sorted[j]
      BY <1>1 DEF Choosing
    <3>2. j \in 1 .. Len(sorted) /\ j <= k
      BY <1>2, <1>3, <2>1, <3>1 DEF Seen
    <3> QED
      BY <1>1, <1>3, <3>1, <3>2 DEF Sorting
  <2>6. Tree = Lighter(e.weight)
    BY <2>5 DEF Lighter
  <2> QED
    BY <2>3, <2>4, <2>6
<1> QED
  BY <1>4, <1>5

\* If the graph is connected and its tables are there, so is a place for each.
LEMMA ThenPlaced ==
  ASSUME JoinInv, pc = "choosing", ~ MoreEdges, Registered, Connected, NEW i \in DOMAIN chosen
  PROVE  Ends(chosen[i]) \subseteq Places
<1> DEFINE V == NodesOf(graph)
           F == ToSet(graph.edges)
           n == graph.nodeCount
<1>1. JoinTyped /\ TreeFits /\ Sorting /\ Choosing(V) /\ n > 0
  BY DEF JoinInv
<1>2. /\ Len(sorted) \in Nat /\ turn \in Nat \ {0} /\ Len(chosen) \in Nat /\ n \in Nat
      /\ DOMAIN sorted = 1 .. Len(sorted)
  BY <1>1 DEF JoinTyped, GraphType
<1>3. EndsIn(V, Tree)
  BY <1>1 DEF Choosing
<1>4. Len(chosen) = n - 1
  <2>1. CASE turn <= Len(sorted)
    BY <1>1, <1>2, <2>1 DEF MoreEdges, TreeFits
  <2>2. CASE ~ (turn <= Len(sorted))
    <3>1. \A k \in 1 .. Len(sorted) : k \in Seen
      BY <1>2, <2>2 DEF Seen
    <3>2. EndsIn(V, F)
      BY DEF Registered, Ends, ToSet, EndsIn
    <3>3. ASSUME NEW e \in F
          PROVE  Joined(V, Tree, e.src, e.dst)
      <4>1. PICK k \in Seen : e = sorted[k]
        BY <1>1, <1>2, <3>1 DEF Sorting, ToSet
      <4>2. Lighter(e.weight) \subseteq Tree
        BY DEF Lighter
      <4> QED
        BY <1>1, <4>1, <4>2, JoinedByMore DEF Choosing
    <3> HIDE DEF V, F
    <3>4. ASSUME NEW x \in V, NEW y \in V
          PROVE  Joined(V, Tree, x, y)
      <4>1. Joined(V, F, x, y)
        BY DEF Connected, V, F
      <4> QED
        BY <1>3, <3>2, <3>3, <4>1, JoinedByOthers
    <3> QED
      BY <3>4, OneRoot DEF V
  <2> QED
    BY <2>1, <2>2
<1>5. V = Places
  BY <1>2, <1>4 DEF NodesOf, Places
<1>6. chosen[i] \in Tree
  BY DEF Tree, ToSet
<1> QED
  BY <1>3, <1>5, <1>6 DEF EndsIn, Ends

LEMMA StartWalkKeepsJoinInv ==
  ASSUME JoinInv, StartWalk
  PROVE  JoinInv'
<1> DEFINE strays == \E i \in DOMAIN chosen : ~ Ends(chosen[i]) \subseteq Places
<1>1. /\ pc = "choosing" /\ ~ MoreEdges
      /\ IF strays THEN pc' = "undefined" /\ path' = path
         ELSE IF chosen = << >> THEN pc' = "done" /\ path' = path
         ELSE pc' = "walking" /\ path' = << Start >>
      /\ UNCHANGED << graph, calls, sorted, turn, uf, chosen >>
  BY Zenon DEF StartWalk
<1>2. JoinTyped /\ TreeFits
  BY DEF JoinInv
<1>3. pc' \in {"undefined", "done", "walking"}
  BY <1>1
<1>4. JoinTyped' /\ TreeFits'
  BY <1>1, <1>2, <1>3 DEF JoinTyped, TreeFits
<1>5. ASSUME pc' = "undefined"
      PROVE  ~ (Registered /\ Connected)'
  <2>1. strays
    BY <1>1, <1>5
  <2>2. ~ (Registered /\ Connected)
    BY <1>1, <2>1, ThenPlaced
  <2> QED
    BY <1>1, <2>2 DEF Registered, Connected
<1>6. ASSUME pc' = "walking"
      PROVE  Minimal' /\ Walking'
  <2>1. ~ strays /\ path' = << Start >>
    BY <1>1, <1>6
  <2>2. Minimal
    BY <1>1, ThenMinimal
  <2>3. Minimal'
    BY <1>1, <2>2 DEF Minimal, Registered, Lighter, Tree, NodesOf
  <2>4. Start \in Places /\ Len(chosen) \in Nat
    BY <1>2, StartIs DEF JoinTyped
  <2>5. /\ path' \in Seq(Places) /\ Len(path') = 1 /\ path' # << >>
    BY <2>1, <2>4
  <2>6. Places' = Places /\ Tree' = Tree
    BY <1>1 DEF Places, Tree
  <2> HIDE DEF strays
  <2>7. Walking'
    <3>1. \A i \in DOMAIN chosen : Ends(chosen[i]) \subseteq Places
      BY <2>1 DEF strays
    <3>2. 1 .. Len(path') - 1 = {} /\ \A i, j \in 1 .. Len(path') : i = j
      BY <2>5
    <3> QED
      BY <1>1, <2>4, <2>5, <2>6, <3>1, <3>2 DEF Walking
  <2> QED
    BY <2>3, <2>7
<1> QED
  BY <1>3, <1>4, <1>5, <1>6 DEF JoinInv

LEMMA WalkKeepsJoinInv ==
  ASSUME JoinInv, Walk
  PROVE  JoinInv'
<1> DEFINE u == Last(path)
           i == Min(Unvisited(u))
           c == chosen[i]
           z == OtherEnd(c, u)
           n == Len(path)
<1>1. /\ pc = "walking" /\ n < Len(chosen) + 1 /\ Unvisited(u) # {}
      /\ path' = Append(path, z)
      /\ UNCHANGED << graph, calls, pc, sorted, turn, uf, chosen >>
  BY DEF Walk
<1>2. JoinTyped /\ TreeFits /\ Minimal /\ Walking
  BY <1>1 DEF JoinInv
<1>3. chosen \in Seq(EdgeType(Int)) /\ Len(chosen) \in Nat /\ DOMAIN chosen = 1 .. Len(chosen)
  BY <1>2 DEF JoinTyped
<1>4. i \in Unvisited(u)
  <2>1. Unvisited(u) \subseteq Nat
    BY <1>3 DEF Unvisited, EdgesAt
  <2> QED
    BY <1>1, <2>1, MinIs
<1>5. i \in DOMAIN chosen /\ u \in Ends(c) /\ z \notin ToSet(path)
  BY <1>4 DEF Unvisited, EdgesAt
<1> HIDE DEF i
<1>6. c \in Tree /\ Ends(c) \subseteq Places
  BY <1>2, <1>5 DEF Tree, ToSet, Walking
<1> HIDE DEF c
<1>7. z \in Ends(c) /\ Ends(c) = {u, z}
  BY <1>5 DEF Ends, OtherEnd
<1> HIDE DEF z
<1>8. path \in Seq(Places) /\ path # << >> /\ n \in Nat \ {0} /\ DOMAIN path = 1 .. n /\ u = path[n]
  BY <1>2 DEF Walking, Last
<1> HIDE DEF u
<1>9. /\ path' \in Seq(Places) /\ Len(path') = n + 1 /\ path' # << >>
      /\ path'[n + 1] = z /\ \A k \in 1 .. n : path'[k] = path[k]
  BY <1>1, <1>6, <1>7, <1>8
<1> HIDE DEF n
<1>10. JoinTyped' /\ TreeFits' /\ pc' = pc
  BY <1>1, <1>2 DEF JoinTyped, TreeFits
<1>11. Minimal'
  BY <1>1, <1>2 DEF Minimal, Registered, Lighter, Tree, NodesOf
<1>12. Places' = Places /\ Tree' = Tree
  BY <1>1 DEF Places, Tree
<1>13. \A k, l \in 1 .. n + 1 : path'[k] = path'[l] => k = l
  <2>1. \A k \in 1 .. n : path[k] \in ToSet(path)
    BY <1>8 DEF ToSet
  <2>2. \A k \in 1 .. n : path'[k] # z
    BY <1>5, <1>9, <2>1
  <2>3. \A k, l \in 1 .. n : path'[k] = path'[l] => k = l
    BY <1>2, <1>9 DEF Walking, n
  <2>4. \A k \in 1 .. n + 1 : k \in 1 .. n \/ k = n + 1
    BY <1>8
  <2> QED
    BY <1>9, <2>2, <2>3, <2>4
<1>14. \A k \in 1 .. n : \E d \in Tree : Ends(d) = {path'[k], path'[k + 1]}
  <2> TAKE k \in 1 .. n
  <2>1. CASE k = n
    <3>1. path'[k] = u /\ path'[k + 1] = z
      BY <1>8, <1>9, <2>1
    <3> QED
      BY <1>6, <1>7, <3>1
  <2>2. CASE k # n
    <3>1. k \in 1 .. n - 1 /\ k + 1 \in 1 .. n
      BY <1>8, <2>2
    <3>2. path'[k] = path[k] /\ path'[k + 1] = path[k + 1]
      BY <1>9, <3>1
    <3> QED
      BY <1>2, <3>1, <3>2 DEF Walking, n
  <2> QED
    BY <2>1, <2>2
<1>15. Walking'
  <2>1. n + 1 <= Len(chosen) + 1
    BY <1>1, <1>3, <1>8 DEF n
  <2>2. \A k \in DOMAIN chosen : Ends(chosen[k]) \subseteq Places
    BY <1>2 DEF Walking
  <2>3. \A k \in DOMAIN chosen' : Ends(chosen'[k]) \subseteq Places'
    BY <1>1, <1>12, <2>2
  <2>4. Len(path') <= Len(chosen') + 1
    BY <1>1, <1>9, <2>1
  <2>5. \A k, l \in 1 .. Len(path') : path'[k] = path'[l] => k = l
    BY <1>9, <1>13
  <2>6. \A k \in 1 .. Len(path') - 1 : \E d \in Tree' : Ends(d) = {path'[k], path'[k + 1]}
    <3>1. 1 .. Len(path') - 1 = 1 .. n
      BY <1>8, <1>9
    <3> QED
      BY <1>12, <1>14, <3>1
  <2>7. path' \in Seq(Places') /\ path' # << >>
    BY <1>9, <1>12
  <2> QED
    BY <2>3, <2>4, <2>5, <2>6, <2>7 DEF Walking
<1> QED
  BY <1>1, <1>10, <1>11, <1>15 DEF JoinInv


LEMMA ReleaseKeepsJoinInv ==
  ASSUME JoinInv, Release
  PROVE  JoinInv'
<1>1. /\ graph' = NewGraph(graph.maxNodes) /\ pc' = "building" /\ sorted' = << >>
      /\ turn' = 1 /\ chosen' = << >> /\ path' = << >>
  BY DEF Release
<1>2. graph.maxNodes \in Nat
  BY DEF JoinInv, JoinTyped, GraphType
<1>3. graph' \in GraphType /\ GraphFits(graph')
  BY <1>1, <1>2, NewGraphIs
<1>4. JoinTyped'
  BY <1>1, <1>3 DEF JoinTyped
<1>5. TreeFits'
  <2>1. Len(chosen') = 0 /\ graph'.nodeCount \in Nat
    BY <1>1, <1>3 DEF GraphType
  <2> QED
    BY <2>1 DEF TreeFits
<1> QED
  BY <1>1, <1>4, <1>5 DEF JoinInv

LEMMA StandingKeepsJoinInv ==
  ASSUME JoinInv, UNCHANGED joinVars
  PROVE  JoinInv'
<1>1. /\ graph' = graph /\ pc' = pc /\ sorted' = sorted /\ turn' = turn /\ uf' = uf
      /\ chosen' = chosen /\ path' = path
  BY DEF joinVars
<1>2. JoinTyped' /\ TreeFits'
  BY <1>1 DEF JoinInv, JoinTyped, TreeFits
<1>3. NodesOf(graph') = NodesOf(graph) /\ Tree' = Tree /\ Places' = Places /\ Seen' = Seen
  BY <1>1 DEF NodesOf, Tree, Places, Seen
<1>4. \A w : Lighter(w)' = Lighter(w)
  BY <1>3 DEF Lighter
<1>5. Registered' = Registered /\ Connected' = Connected
  BY <1>1 DEF Registered, Connected
<1>6. pc = "choosing" => Sorting' /\ Grouping(NodesOf(graph))' /\ Choosing(NodesOf(graph))'
  <2> SUFFICES ASSUME pc = "choosing"
               PROVE  Sorting' /\ Grouping(NodesOf(graph))' /\ Choosing(NodesOf(graph))'
    OBVIOUS
  <2>1. Sorting'
    BY <1>1 DEF JoinInv, Sorting
  <2>2. Grouping(NodesOf(graph))'
    BY <1>1, <1>3 DEF JoinInv, Grouping
  <2>3. Choosing(NodesOf(graph))'
    BY <1>1, <1>3, <1>4 DEF JoinInv, Choosing
  <2> QED
    BY <2>1, <2>2, <2>3
<1>7. pc = "walking" => Minimal' /\ Walking'
  <2> SUFFICES ASSUME pc = "walking"
               PROVE  Minimal' /\ Walking'
    OBVIOUS
  <2>1. Minimal'
    BY <1>1, <1>3, <1>4, <1>5 DEF JoinInv, Minimal
  <2>2. Walking'
    BY <1>1, <1>3 DEF JoinInv, Walking
  <2> QED
    BY <2>1, <2>2
<1> QED
  BY <1>1, <1>2, <1>5, <1>6, <1>7 DEF JoinInv

LEMMA JoinInvInit ==
  ASSUME JoinInit
  PROVE  JoinInv
<1>1. PICK size \in Sizes : graph = NewGraph(size)
  BY DEF JoinInit
<1>2. size \in Nat
  BY JoinAssumption
<1>3. graph \in GraphType /\ GraphFits(graph)
  BY <1>1, <1>2, NewGraphIs
<1>4. JoinTyped
  BY <1>3 DEF JoinTyped, JoinInit
<1>5. TreeFits
  <2>1. Len(chosen) = 0 /\ graph.nodeCount \in Nat
    BY <1>3 DEF GraphType, JoinInit
  <2> QED
    BY <2>1 DEF TreeFits
<1> QED
  BY <1>4, <1>5 DEF JoinInv, JoinInit

LEMMA JoinInvStep ==
  ASSUME JoinInv, [JoinNext]_joinVars
  PROVE  JoinInv'
<1>1. graph \in GraphType /\ GraphFits(graph)
  BY DEF JoinInv, JoinTyped
<1>2. ASSUME NEW id \in Ids, AddNode(id)
      PROVE  JoinInv'
  <2>1. id \in Int
    BY JoinAssumption
  <2>2. WithNode(graph, id) \in GraphType /\ GraphFits(WithNode(graph, id))
    BY <1>1, <2>1, WithNodeIs
  <2> QED
    BY <1>2, <2>2, CallKeepsJoinInv DEF AddNode
<1>3. ASSUME NEW s \in Ids, NEW d \in Ids, NEW w \in Weights, AddEdge(s, d, w)
      PROVE  JoinInv'
  <2>1. s \in Int /\ d \in Int /\ w \in Int
    BY JoinAssumption
  <2>2. WithEdge(graph, s, d, w) \in GraphType /\ GraphFits(WithEdge(graph, s, d, w))
    BY <1>1, <2>1, WithEdgeIs
  <2> QED
    BY <1>3, <2>2, CallKeepsJoinInv DEF AddEdge
<1>4. CASE Sort
  BY <1>4, SortKeepsJoinInv
<1>5. CASE Choose
  BY <1>5, ChooseKeepsJoinInv
<1>6. CASE ChooseUnknown
  BY <1>6, ChooseUnknownKeepsJoinInv
<1>7. CASE StartWalk
  BY <1>7, StartWalkKeepsJoinInv
<1>8. CASE Walk
  BY <1>8, WalkKeepsJoinInv
<1>9. CASE Spin
  BY <1>9, StandingKeepsJoinInv DEF Spin
<1>10. CASE EndWalk
  <2>1. JoinTyped' /\ TreeFits' /\ pc' = "done"
    BY <1>10 DEF EndWalk, JoinInv, JoinTyped, TreeFits
  <2> QED
    BY <2>1 DEF JoinInv
<1>11. CASE Release
  BY <1>11, ReleaseKeepsJoinInv
<1>12. CASE Undefined
  BY <1>12, StandingKeepsJoinInv DEF Undefined
<1>13. CASE UNCHANGED joinVars
  BY <1>13, StandingKeepsJoinInv
<1> QED
  BY <1>2, <1>3, <1>4, <1>5, <1>6, <1>7, <1>8, <1>9, <1>10, <1>11, <1>12, <1>13
     DEF JoinNext, Running

\* There are as many groups of joined nodes as there are roots.
LEMMA GroupsAreRoots ==
  ASSUME JoinInv, pc = "choosing", NEW V, V = NodesOf(graph)
  PROVE  Cardinality({{y \in V : Joined(V, Tree, x, y)} : x \in V}) = graph.nodeCount - Len(chosen)
<1> DEFINE R == RootsOf(uf, V)
           class(x) == {y \in V : Joined(V, Tree, x, y)}
           C == {class(x) : x \in V}
           f == [r \in R |-> class(r)]
<1>1. graph.nodeCount \in Nat /\ Len(chosen) \in Nat
  BY DEF JoinInv, JoinTyped, GraphType
<1>2. Grouping(V) /\ EndsIn(V, Tree)
  BY DEF JoinInv, Choosing
<1>3. TellsApart(uf, V, Tree) /\ Cardinality(R) = graph.nodeCount - Len(chosen)
  BY <1>2 DEF Grouping
<1>4. IsFiniteSet(R)
  BY <1>1, NodesAre, FS_Subset DEF RootsOf, NodesOf
<1>5. \A x \in V : Root(uf, x) \in R /\ Root(uf, Root(uf, x)) = Root(uf, x)
  BY <1>1, <1>2, RootIs, RootStep DEF Grouping, RootsOf
<1>6. \A r \in R : r \in V /\ Root(uf, r) = r
  BY <1>1, <1>2, RootStep DEF Grouping, RootsOf
<1> HIDE DEF R
<1>7. \A x, z \in V : Root(uf, x) = Root(uf, z) => class(x) = class(z)
  <2> SUFFICES ASSUME NEW x \in V, NEW z \in V, Root(uf, x) = Root(uf, z)
               PROVE  class(x) = class(z)
    OBVIOUS
  <2>1. \A y \in V : Joined(V, Tree, x, y) <=> Joined(V, Tree, z, y)
    BY <1>3 DEF TellsApart
  <2> QED
    BY <2>1
<1>8. \A x, z \in V : class(x) = class(z) => Root(uf, x) = Root(uf, z)
  <2> SUFFICES ASSUME NEW x \in V, NEW z \in V, class(x) = class(z)
               PROVE  Root(uf, x) = Root(uf, z)
    OBVIOUS
  <2>1. z \in class(z)
    BY JoinedToItself
  <2>2. Joined(V, Tree, x, z)
    BY <2>1
  <2> QED
    BY <1>3, <2>2 DEF TellsApart
<1> HIDE DEF class
<1>9. f \in [R -> C]
  BY <1>6
<1>10. \A r, s \in R : f[r] = f[s] => r = s
  BY <1>6, <1>8
<1>11. \A c \in C : \E r \in R : f[r] = c
  <2> SUFFICES ASSUME NEW x \in V
               PROVE  \E r \in R : f[r] = class(x)
    OBVIOUS
  <2>1. Root(uf, x) \in R /\ class(Root(uf, x)) = class(x)
    BY <1>5, <1>6, <1>7
  <2> QED
    BY <2>1
<1> HIDE DEF f
<1>12. f \in Bijection(R, C)
  <2>1. f \in Injection(R, C) /\ DOMAIN f = R
    BY <1>9, <1>10 DEF Injection, IsInjective
  <2>2. f \in Surjection(R, C)
    BY <1>9, <1>11 DEF Surjection
  <2> QED
    BY <2>1, <2>2 DEF Bijection
<1>13. Cardinality(C) = Cardinality(R)
  BY <1>4, <1>12, FS_Bijection DEF ExistsBijection
<1> QED
  BY <1>3, <1>13 DEF class

\* Through all calls of addEdge, computeMST and buildJoinPath, the union-find, the
\* tree and the path so far stay as JoinInv says.
THEOREM JoinInvariant == JoinSpec => []JoinInv
<1>1. JoinInit => JoinInv
  BY JoinInvInit
<1>2. JoinInv /\ [JoinNext]_joinVars => JoinInv'
  BY JoinInvStep
<1> QED
  BY <1>1, <1>2, PTL DEF JoinSpec

\* Whatever path compression did to the pointers, the union-find tells apart
\* exactly the tables that the edges chosen so far do not join, and the edges
\* chosen never close a circle (UnionFind, MSTOptimizer::computeMST).
THEOREM ForestIsSafe == JoinSpec => []ForestIsUnionFind
<1>1. JoinInv => ForestIsUnionFind
  <2> SUFFICES ASSUME JoinInv, pc = "choosing"
               PROVE  LET V == NodesOf(graph)
                          T == ToSet(chosen)
                      IN  /\ \A x, y \in V : Root(uf, x) = Root(uf, y) <=> Joined(V, T, x, y)
                          /\ Cardinality({{y \in V : Joined(V, T, x, y)} : x \in V})
                               = graph.nodeCount - Len(chosen)
    BY Zenon DEF ForestIsUnionFind
  <2> DEFINE V == NodesOf(graph)
  <2>1. TellsApart(uf, V, Tree)
    BY DEF JoinInv, Grouping
  <2>2. Cardinality({{y \in V : Joined(V, Tree, x, y)} : x \in V}) = graph.nodeCount - Len(chosen)
    BY GroupsAreRoots
  <2> QED
    BY <2>1, <2>2, Zenon DEF TellsApart, Tree
<1> QED
  BY <1>1, JoinInvariant, PTL

\* The tree joins what the graph joins, and no other does it for less
\* (MSTOptimizer::computeMST).
THEOREM TreeIsMinimal == JoinSpec => []MinimalTree
<1>1. JoinInv => MinimalTree
  BY Zenon DEF JoinInv, MinimalTree, Minimal, Lighter, Tree
<1> QED
  BY <1>1, JoinInvariant, PTL

\* Every index of computeMST and buildJoinPath stays within its array if the
\* graph is connected and has the tables of its edges.
THEOREM IndexesAreSafe == JoinSpec => []InBounds
<1>1. JoinInv => InBounds
  BY DEF JoinInv, JoinTyped, GraphFits, Room, TreeFits, Walking, InBounds
<1> QED
  BY <1>1, JoinInvariant, PTL

\* The join path comes to no table twice and goes from each to the next along an
\* edge of the tree, so that every join has its condition
\* (MSTOptimizer::buildJoinPath).
PathFollowsTree ==
  pc = "walking" =>
    /\ \A i, j \in 1 .. Len(path) : path[i] = path[j] => i = j
    /\ \A i \in 1 .. Len(path) - 1 : \E c \in ToSet(chosen) : Ends(c) = {path[i], path[i + 1]}

\* buildJoinPath keeps to that in every round of its walk.
THEOREM PathIsSafe == JoinSpec => []PathFollowsTree
<1>1. JoinInv => PathFollowsTree
  BY DEF JoinInv, Walking, Tree, PathFollowsTree
<1> QED
  BY <1>1, JoinInvariant, PTL

(***************************************************************************)
(* What the clauses mean.  A query finds what its WHERE clause means, for  *)
(* every table, every row and every expression: the tokenizer reads off    *)
(* the text the tokens of the expression, convert puts them into its       *)
(* postfix, evaluate leaves its value on the stack, and the executor       *)
(* visits every row of the pages it reads.                                 *)
(***************************************************************************)

(***************************************************************************)
(* The sets of expressions.                                                *)
(***************************************************************************)
\* A set that 0 is in, and with every number the next, has all of them.
LEMMA AllOfNat ==
  ASSUME NEW S, 0 \in S, \A i \in Nat : i \in S => i + 1 \in S
  PROVE  \A i \in Nat : i \in S
<1> DEFINE Missing == {i \in Nat : i \notin S}
<1>1. SUFFICES ASSUME Missing # {}
               PROVE  FALSE
  OBVIOUS
<1>2. Missing \in SUBSET Nat
  OBVIOUS
<1>3. PICK i \in Missing : \A m \in Missing : i <= m
  BY <1>1, <1>2, LeastOf
<1>4. i \in Nat /\ i # 0 /\ i - 1 \in Nat
  BY <1>3
<1>5. i - 1 \notin Missing
  BY <1>3, <1>4
<1>6. i - 1 \in S
  BY <1>4, <1>5
<1>7. (i - 1) + 1 \in S
  BY <1>4, <1>6
<1> QED
  BY <1>3, <1>4, <1>7

OperandExprs == [op : Operands, value : Nat]
Over(sides) == OperandExprs \union [op : Operators, left : sides, right : sides]
Nested(f, n) == IF n = 0 THEN OperandExprs ELSE Over(f[n - 1])

\* There is a sequence of the sets, however long.
LEMMA NestedExist ==
  \A n \in Nat : \E f : f = [i \in 0 .. n |-> Nested(f, i)]
<1> DEFINE S == {n \in Nat : \E f : f = [i \in 0 .. n |-> Nested(f, i)]}
<1>1. 0 \in S
  <2> DEFINE f == [i \in 0 .. 0 |-> OperandExprs]
  <2>1. \A i \in 0 .. 0 : Nested(f, i) = OperandExprs
    BY DEF Nested
  <2>2. f = [i \in 0 .. 0 |-> Nested(f, i)]
    BY <2>1
  <2> QED
    BY <2>2
<1>2. ASSUME NEW n \in Nat, n \in S
      PROVE  n + 1 \in S
  <2>1. PICK f : f = [i \in 0 .. n |-> Nested(f, i)]
    BY <1>2
  <2> DEFINE g == [i \in 0 .. n + 1 |-> Nested(f, i)]
  <2>2. \A i \in 0 .. n : f[i] = Nested(f, i)
    BY <2>1
  <2>3. \A i \in 0 .. n : g[i] = f[i]
    BY <2>2
  <2>4. \A i \in 0 .. n + 1 : i # 0 => i - 1 \in 0 .. n
    OBVIOUS
  <2> HIDE DEF g
  <2>5. \A i \in 0 .. n + 1 : Nested(g, i) = Nested(f, i)
    BY <2>3, <2>4 DEF Nested
  <2>6. g = [i \in 0 .. n + 1 |-> Nested(g, i)]
    BY <2>5 DEF g
  <2> QED
    BY <2>6
<1> HIDE DEF S
<1>3. \A n \in Nat : n \in S
  BY <1>1, <1>2, AllOfNat
<1> QED
  BY <1>3 DEF S

\* Any two of the sequences agree.
LEMMA NestedAgree ==
  ASSUME NEW m \in Nat, NEW n \in Nat,
         NEW f, f = [i \in 0 .. m |-> Nested(f, i)],
         NEW g, g = [i \in 0 .. n |-> Nested(g, i)]
  PROVE  \A i \in Nat : i <= m /\ i <= n => f[i] = g[i]
<1> DEFINE S == {i \in Nat : i <= m /\ i <= n => f[i] = g[i]}
<1>1. /\ \A i \in 0 .. m : f[i] = Nested(f, i)
      /\ \A i \in 0 .. n : g[i] = Nested(g, i)
  <2>1. \A i \in 0 .. m : [j \in 0 .. m |-> Nested(f, j)][i] = Nested(f, i)
    OBVIOUS
  <2>2. \A i \in 0 .. n : [j \in 0 .. n |-> Nested(g, j)][i] = Nested(g, i)
    OBVIOUS
  <2> QED
    BY <2>1, <2>2
<1>2. 0 \in S
  <2>1. 0 \in 0 .. m /\ 0 \in 0 .. n
    OBVIOUS
  <2>2. f[0] = Nested(f, 0) /\ g[0] = Nested(g, 0)
    BY <1>1, <2>1
  <2> QED
    BY <2>2 DEF Nested
<1>3. ASSUME NEW i \in Nat, i \in S
      PROVE  i + 1 \in S
  <2>1. SUFFICES ASSUME i + 1 <= m, i + 1 <= n
                 PROVE  f[i + 1] = g[i + 1]
    OBVIOUS
  <2>2. f[i + 1] = Nested(f, i + 1) /\ g[i + 1] = Nested(g, i + 1)
    BY <1>1, <2>1
  <2>3. (i + 1) - 1 = i /\ i + 1 # 0 /\ f[i] = g[i]
    BY <1>3, <2>1
  <2> QED
    BY <2>2, <2>3 DEF Nested
<1> HIDE DEF S
<1>4. \A i \in Nat : i \in S
  BY <1>2, <1>3, AllOfNat
<1> QED
  BY <1>4 DEF S

\* The expressions of n + 1 levels are the operands and what is made of those of n.
LEMMA ExprsAre ==
  /\ Exprs[0] = OperandExprs
  /\ \A n \in Nat : Exprs[n + 1] = Over(Exprs[n])
<1> DEFINE First(n) == CHOOSE f : f = [i \in 0 .. n |-> Nested(f, i)]
           all == [n \in Nat |-> First(n)[n]]
           Is(f) == f = [n \in Nat |-> Nested(f, n)]
<1>1. ASSUME NEW n \in Nat
      PROVE  First(n) = [i \in 0 .. n |-> Nested(First(n), i)]
  BY NestedExist
<1> HIDE DEF First
<1>2. ASSUME NEW n \in Nat, n # 0
      PROVE  First(n)[n - 1] = all[n - 1]
  <2>1. n - 1 \in Nat /\ n - 1 <= n
    BY <1>2
  <2>2. First(n)[n - 1] = First(n - 1)[n - 1]
    BY <1>1, <2>1, NestedAgree
  <2> QED
    BY <2>1, <2>2
<1>3. ASSUME NEW n \in Nat
      PROVE  all[n] = Nested(all, n)
  <2>1. First(n)[n] = Nested(First(n), n)
    <3>1. [i \in 0 .. n |-> Nested(First(n), i)][n] = Nested(First(n), n)
      OBVIOUS
    <3> QED
      BY <1>1, <3>1
  <2>2. Nested(First(n), n) = Nested(all, n)
    <3> HIDE DEF all
    <3> QED
      BY <1>2 DEF Nested
  <2> QED
    BY <2>1, <2>2
<1>4. Is(all)
  <2>1. all = [n \in Nat |-> all[n]]
    OBVIOUS
  <2> HIDE DEF all
  <2> QED
    BY <1>3, <2>1
<1>5. Exprs = CHOOSE f : Is(f)
  BY DEF Exprs, Nested, Over, OperandExprs
<1>6. Is(Exprs)
  BY <1>4, <1>5
<1>7. \A n \in Nat : Exprs[n] = Nested(Exprs, n)
  <2>1. \A n \in Nat : [i \in Nat |-> Nested(Exprs, i)][n] = Nested(Exprs, n)
    OBVIOUS
  <2> QED
    BY <1>6, <2>1
<1>8. \A n \in Nat : n + 1 \in Nat /\ n + 1 # 0 /\ (n + 1) - 1 = n
  OBVIOUS
<1> QED
  BY <1>7, <1>8 DEF Nested

\* No expression is lost with a level more.
LEMMA ExprsGrow ==
  /\ \A n \in Nat : OperandExprs \subseteq Exprs[n]
  /\ \A n \in Nat : Exprs[n] \subseteq Exprs[n + 1]
  /\ \A m, n \in Nat : m <= n => Exprs[m] \subseteq Exprs[n]
<1>1. \A n \in Nat : OperandExprs \subseteq Exprs[n]
  <2>1. \A n \in Nat : OperandExprs \subseteq Exprs[n + 1]
    BY ExprsAre DEF Over
  <2>2. \A n \in Nat : n # 0 => n - 1 \in Nat /\ (n - 1) + 1 = n
    OBVIOUS
  <2> QED
    BY <2>1, <2>2, ExprsAre
<1>2. \A n \in Nat : Exprs[n] \subseteq Exprs[n + 1]
  <2> DEFINE S == {n \in Nat : Exprs[n] \subseteq Exprs[n + 1]}
  <2>1. 0 \in S
    BY <1>1, ExprsAre
  <2>2. ASSUME NEW n \in Nat, n \in S
        PROVE  n + 1 \in S
    <3>1. Exprs[n] \subseteq Exprs[n + 1] /\ n + 1 \in Nat
      BY <2>2
    <3>2. \A A, B : A \subseteq B => Over(A) \subseteq Over(B)
      BY DEF Over
    <3>3. Exprs[n + 1] = Over(Exprs[n]) /\ Exprs[(n + 1) + 1] = Over(Exprs[n + 1])
      BY <3>1, ExprsAre
    <3>4. Over(Exprs[n]) \subseteq Over(Exprs[n + 1])
      BY <3>1, <3>2, Zenon
    <3> QED
      BY <3>1, <3>3, <3>4
  <2> HIDE DEF S
  <2>3. \A n \in Nat : n \in S
    BY <2>1, <2>2, AllOfNat
  <2> QED
    BY <2>3 DEF S
<1>3. \A m, n \in Nat : m <= n => Exprs[m] \subseteq Exprs[n]
  <2> SUFFICES ASSUME NEW m \in Nat
               PROVE  \A n \in Nat : m <= n => Exprs[m] \subseteq Exprs[n]
    OBVIOUS
  <2> DEFINE S == {n \in Nat : m <= n => Exprs[m] \subseteq Exprs[n]}
  <2>1. 0 \in S
    OBVIOUS
  <2>2. ASSUME NEW n \in Nat, n \in S
        PROVE  n + 1 \in S
    <3>1. CASE m = n + 1
      BY <3>1
    <3>2. CASE m # n + 1
      <4>1. m <= n + 1 => m <= n
        BY <3>2
      <4> QED
        BY <1>2, <2>2, <4>1
    <3> QED
      BY <3>1, <3>2
  <2> HIDE DEF S
  <2>3. \A n \in Nat : n \in S
    BY <2>1, <2>2, AllOfNat
  <2> QED
    BY <2>3 DEF S
<1> QED
  BY <1>1, <1>2, <1>3

\* An expression is an operand or has two sides that are expressions.
IsOperator(e) == e.op \in Operators /\ e.left \in Expr /\ e.right \in Expr

LEMMA ExprIs ==
  ASSUME NEW n \in Nat, NEW e \in Exprs[n]
  PROVE  \/ e \in OperandExprs
         \/ n # 0 /\ e \in [op : Operators, left : Exprs[n - 1], right : Exprs[n - 1]]
<1>1. CASE n = 0
  BY <1>1, ExprsAre
<1>2. CASE n # 0
  <2>1. n - 1 \in Nat /\ (n - 1) + 1 = n
    BY <1>2
  <2>2. Exprs[n] = Over(Exprs[n - 1])
    BY <2>1, ExprsAre
  <2> QED
    BY <1>2, <2>2 DEF Over
<1> QED
  BY <1>1, <1>2

LEMMA OperandIs ==
  ASSUME NEW e \in OperandExprs
  PROVE  e.op \in Operands /\ e.value \in Int /\ e.op \notin Operators /\ e \in Expr
<1>1. e \in Expr
  BY ExprsGrow, DepthAssumption DEF Expr
<1> QED
  BY <1>1 DEF OperandExprs, Operands, Literals, Operators

LEMMA ExprShape ==
  ASSUME NEW e \in Expr
  PROVE  \/ e.op \in Operands /\ e.value \in Int /\ e.op \notin Operators
         \/ IsOperator(e) /\ e.op \notin Operands
<1>1. CASE e \in OperandExprs
  BY <1>1, OperandIs
<1>2. CASE e \notin OperandExprs
  <2>1. e \in [op : Operators, left : Exprs[MaxDepth - 1], right : Exprs[MaxDepth - 1]]
        /\ MaxDepth # 0
    BY <1>2, ExprIs, DepthAssumption DEF Expr
  <2>2. MaxDepth - 1 \in Nat /\ MaxDepth - 1 <= MaxDepth
    BY <2>1, DepthAssumption
  <2>3. Exprs[MaxDepth - 1] \subseteq Expr
    BY <2>2, ExprsGrow, DepthAssumption DEF Expr
  <2>4. e.op \in Operators /\ e.left \in Exprs[MaxDepth - 1] /\ e.right \in Exprs[MaxDepth - 1]
    BY <2>1
  <2> QED
    BY <2>3, <2>4 DEF IsOperator, Operators, Operands, Literals
<1> QED
  BY <1>1, <1>2

\* Induction over the expressions.
LEMMA ExprInduction ==
  ASSUME NEW S,
         \A e \in Expr : e.op \in Operands => e \in S,
         \A e \in Expr : IsOperator(e) /\ e.left \in S /\ e.right \in S => e \in S
  PROVE  \A e \in Expr : e \in S
<1> DEFINE N == {n \in Nat : n <= MaxDepth => Exprs[n] \subseteq S}
<1>1. \A e \in OperandExprs : e \in S
  BY OperandIs
<1>2. 0 \in N
  BY <1>1, ExprsAre
<1>3. ASSUME NEW n \in Nat, n \in N
      PROVE  n + 1 \in N
  <2>1. SUFFICES ASSUME n + 1 <= MaxDepth, NEW e \in Exprs[n + 1], e \notin OperandExprs
                 PROVE  e \in S
    BY <1>1
  <2>2. n + 1 \in Nat /\ (n + 1) - 1 = n /\ n <= MaxDepth /\ Exprs[n] \subseteq S
    BY <1>3, <2>1, DepthAssumption
  <2>3. e \in Expr
    BY <2>1, <2>2, ExprsGrow, DepthAssumption DEF Expr
  <2>4. e \in [op : Operators, left : Exprs[n], right : Exprs[n]]
    BY <2>1, <2>2, ExprIs
  <2>5. e.op \in Operators /\ e.left \in Exprs[n] /\ e.right \in Exprs[n]
    BY <2>4
  <2>6. IsOperator(e)
    BY <2>3, <2>5, ExprShape
  <2> QED
    BY <2>2, <2>3, <2>5, <2>6
<1> HIDE DEF N
<1>4. \A n \in Nat : n \in N
  BY <1>2, <1>3, AllOfNat
<1> QED
  BY <1>4, DepthAssumption DEF N, Expr

(***************************************************************************)
(* Recursion over the expressions: a function of them is given by what it  *)
(* is for operands and what it makes of the two sides of an operator.      *)
(***************************************************************************)
Step(L, N, f, e) == IF e.op \in Operands THEN L[e] ELSE N[<< e, f[e.left], f[e.right] >>]

LEMMA StepTyped ==
  ASSUME NEW V, NEW L \in [Expr -> V], NEW N \in [Expr \X V \X V -> V], NEW f, NEW e \in Expr,
         e.op \in Operands \/ (f[e.left] \in V /\ f[e.right] \in V)
  PROVE  Step(L, N, f, e) \in V
  BY DEF Step

LEMMA ExprRecursion ==
  ASSUME NEW V, NEW L \in [Expr -> V], NEW N \in [Expr \X V \X V -> V]
  PROVE  \E f \in [Expr -> V] : \A e \in Expr : f[e] = Step(L, N, f, e)
<1> DEFINE Have(n) == \E f \in [Exprs[n] -> V] : \A e \in Exprs[n] : f[e] = Step(L, N, f, e)
           S == {n \in Nat : n <= MaxDepth => Have(n)}
<1>1. 0 \in S
  <2> DEFINE f == [e \in Exprs[0] |-> L[e]]
  <2>1. \A e \in Exprs[0] : e.op \in Operands /\ e \in Expr
    BY ExprsAre, OperandIs
  <2>2. f \in [Exprs[0] -> V] /\ \A e \in Exprs[0] : f[e] = Step(L, N, f, e)
    BY <2>1 DEF Step
  <2> HIDE DEF f
  <2> QED
    BY <2>2
<1>2. ASSUME NEW n \in Nat, n \in S
      PROVE  n + 1 \in S
  <2>1. SUFFICES ASSUME n + 1 <= MaxDepth
                 PROVE  Have(n + 1)
    OBVIOUS
  <2>2. n <= MaxDepth /\ n + 1 \in Nat /\ (n + 1) - 1 = n
    BY <2>1, DepthAssumption
  <2>3. PICK g \in [Exprs[n] -> V] : \A e \in Exprs[n] : g[e] = Step(L, N, g, e)
    BY <1>2, <2>2
  <2> DEFINE f == [e \in Exprs[n + 1] |-> Step(L, N, g, e)]
  <2>4. Exprs[n] \subseteq Exprs[n + 1] /\ Exprs[n + 1] \subseteq Expr
    BY <2>1, <2>2, ExprsGrow, DepthAssumption DEF Expr
  <2>5. \A e \in Exprs[n] : f[e] = g[e]
    BY <2>3, <2>4
  <2>6. ASSUME NEW e \in Exprs[n + 1]
        PROVE  e.op \in Operands \/ (e.left \in Exprs[n] /\ e.right \in Exprs[n])
    <3>1. e \in OperandExprs \/ e \in [op : Operators, left : Exprs[n], right : Exprs[n]]
      BY <2>2, ExprIs
    <3> QED
      BY <3>1, OperandIs
  <2>7. ASSUME NEW e \in Exprs[n + 1]
        PROVE  f[e] \in V
    <3>1. e.op \in Operands \/ (g[e.left] \in V /\ g[e.right] \in V)
      BY <2>3, <2>6
    <3>2. Step(L, N, g, e) \in V
      BY <2>4, <3>1, StepTyped
    <3> QED
      BY <3>2
  <2>8. ASSUME NEW e \in Exprs[n + 1]
        PROVE  f[e] = Step(L, N, f, e)
    <3>1. f[e] = Step(L, N, g, e)
      OBVIOUS
    <3> HIDE DEF f
    <3>2. CASE e.op \in Operands
      BY <3>1, <3>2 DEF Step
    <3>3. CASE e.op \notin Operands
      <4>1. f[e.left] = g[e.left] /\ f[e.right] = g[e.right]
        BY <2>5, <2>6, <3>3
      <4> QED
        BY <3>1, <3>3, <4>1 DEF Step
    <3> QED
      BY <3>2, <3>3
  <2>9. f \in [Exprs[n + 1] -> V]
    BY <2>7
  <2> HIDE DEF f
  <2> QED
    BY <2>8, <2>9
<1> HIDE DEF S, Have
<1>3. \A n \in Nat : n \in S
  BY <1>1, <1>2, AllOfNat
<1>4. Have(MaxDepth)
  BY <1>3, DepthAssumption DEF S
<1> QED
  BY <1>4 DEF Have, Expr

(***************************************************************************)
(* The recursions of Clauses.                                              *)
(***************************************************************************)
PartsBody(f, e) == IF e.op \in Operands THEN {e} ELSE {e} \union f[e.left] \union f[e.right]

LEMMA PartsAre ==
  ASSUME NEW e \in Expr
  PROVE  /\ Parts(e) \subseteq Expr /\ e \in Parts(e)
         /\ e.op \in Operands => Parts(e) = {e}
         /\ e.op \in Operators => /\ Parts(e) = {e} \union Parts(e.left) \union Parts(e.right)
                                  /\ Parts(e.left) \subseteq Parts(e)
                                  /\ Parts(e.right) \subseteq Parts(e)
<1> DEFINE V == SUBSET Expr
           L == [x \in Expr |-> {x}]
           N == [x \in Expr \X V \X V |-> {x[1]} \union x[2] \union x[3]]
           parts == CHOOSE f : f = [x \in Expr |-> PartsBody(f, x)]
<1>1. PICK f \in [Expr -> V] : \A x \in Expr : f[x] = Step(L, N, f, x)
  <2>1. L \in [Expr -> V] /\ N \in [Expr \X V \X V -> V]
    OBVIOUS
  <2> HIDE DEF L, N, V
  <2> QED
    BY <2>1, ExprRecursion
<1>2. ASSUME NEW x \in Expr
      PROVE  Step(L, N, f, x) = PartsBody(f, x)
  <2>1. CASE x.op \in Operands
    BY <2>1 DEF Step, PartsBody
  <2>2. CASE x.op \notin Operands
    <3>1. x.left \in Expr /\ x.right \in Expr
      BY <2>2, ExprShape DEF IsOperator
    <3>2. << x, f[x.left], f[x.right] >> \in Expr \X V \X V
      BY <3>1
    <3> QED
      BY <2>2, <3>2 DEF Step, PartsBody
  <2> QED
    BY <2>1, <2>2
<1>3. f = [x \in Expr |-> PartsBody(f, x)]
  BY <1>1, <1>2
<1>4. parts = [x \in Expr |-> PartsBody(parts, x)]
  BY <1>3
<1>5. \A x \in Expr : Parts(x) = parts[x]
  BY DEF Parts, PartsBody
<1> HIDE DEF parts
<1>6. \A x \in Expr : parts[x] = PartsBody(parts, x)
  <2>1. \A x \in Expr : [y \in Expr |-> PartsBody(parts, y)][x] = PartsBody(parts, x)
    OBVIOUS
  <2> QED
    BY <1>4, <2>1
<1>7. \A x \in Expr : parts[x] \subseteq Expr
  <2> DEFINE S == {x \in Expr : parts[x] \subseteq Expr}
  <2>1. \A x \in Expr : x.op \in Operands => x \in S
    <3> SUFFICES ASSUME NEW x \in Expr, x.op \in Operands
                 PROVE  x \in S
      OBVIOUS
    <3>1. PartsBody(parts, x) = {x}
      BY Zenon DEF PartsBody
    <3>2. parts[x] = {x}
      BY <1>6, <3>1, Zenon
    <3> QED
      BY <3>2
  <2>2. \A x \in Expr : IsOperator(x) /\ x.left \in S /\ x.right \in S => x \in S
    BY <1>6, ExprShape DEF PartsBody, IsOperator
  <2> HIDE DEF S
  <2>3. \A x \in Expr : x \in S
    BY <2>1, <2>2, ExprInduction
  <2> QED
    BY <2>3 DEF S
<1>8. e.op \in Operators => e.left \in Expr /\ e.right \in Expr /\ e.op \notin Operands
  BY ExprShape DEF IsOperator
<1>9. parts[e] = PartsBody(parts, e) /\ Parts(e) = parts[e] /\ Parts(e) \subseteq Expr
  BY <1>5, <1>6, <1>7
<1>10. CASE e.op \in Operands
  BY <1>9, <1>10, ExprShape DEF PartsBody
<1>11. CASE e.op \in Operators
  BY <1>5, <1>8, <1>9, <1>11 DEF PartsBody
<1> QED
  BY <1>9, <1>10, <1>11, ExprShape DEF IsOperator

(***************************************************************************)
(* The values of an expression and its parts: those that evaluate computes *)
(* (Computation) and those that the user means (Meaning).                  *)
(***************************************************************************)
Value == Field \union {Null}

\* T gives the value of an operator for those of its sides.
ValueBody(f, T, names, r, e) ==
  IF e.op = "IDENTIFIER"
    THEN IF Column(names, e.value) \in DOMAIN r THEN r[Column(names, e.value)] ELSE Null
  ELSE IF e.op \in Literals THEN Tok(FieldType[e.op], e.value)
  ELSE T[<< e.op, f[e.left], f[e.right] >>]

LEMMA OperandValue ==
  ASSUME NEW T, NEW names, NEW r \in Seq(Field), NEW f, NEW e \in Expr, e.op \in Operands
  PROVE  ValueBody(f, T, names, r, e) \in Value
<1>1. CASE e.op = "IDENTIFIER"
  <2> DEFINE c == Column(names, e.value)
  <2>1. ValueBody(f, T, names, r, e) = IF c \in DOMAIN r THEN r[c] ELSE Null
    BY <1>1 DEF ValueBody
  <2> HIDE DEF c
  <2>2. c \in DOMAIN r => r[c] \in Field
    OBVIOUS
  <2> QED
    BY <2>1, <2>2 DEF Value
<1>2. CASE e.op \in Literals
  <2>1. e.value \in Int
    BY <1>2, ExprShape DEF Operands
  <2>2. FieldType[e.op] \in {"INT", "FLOAT", "VARCHAR"} /\ e.op # "IDENTIFIER"
    BY <1>2 DEF FieldType, Literals
  <2>3. Tok(FieldType[e.op], e.value) \in Field
    BY <2>1, <2>2 DEF Tok, Field
  <2> QED
    BY <1>2, <2>2, <2>3 DEF ValueBody, Value
<1> QED
  BY <1>1, <1>2 DEF Operands

LEMMA ValuesExist ==
  ASSUME NEW T \in [Operators \X Value \X Value -> Value], NEW names, NEW r \in Seq(Field)
  PROVE  \E f \in [Expr -> Value] : \A e \in Expr : f[e] = ValueBody(f, T, names, r, e)
<1> DEFINE Body(f, x) == ValueBody(f, T, names, r, x)
           none == [x \in Expr |-> Null]
           L == [x \in Expr |-> IF x.op \in Operands THEN Body(none, x) ELSE Null]
           N == [x \in Expr \X Value \X Value |->
                   IF x[1].op \in Operators THEN T[<< x[1].op, x[2], x[3] >>] ELSE Null]
<1>1. PICK f \in [Expr -> Value] : \A x \in Expr : f[x] = Step(L, N, f, x)
  <2>1. L \in [Expr -> Value]
    <3>1. ASSUME NEW x \in Expr, x.op \in Operands
          PROVE  Body(none, x) \in Value
      BY <3>1, OperandValue
    <3> HIDE DEF Body, none
    <3> QED
      BY <3>1 DEF Value
  <2>2. N \in [Expr \X Value \X Value -> Value]
    BY DEF Value
  <2> HIDE DEF L, N
  <2> QED
    BY <2>1, <2>2, ExprRecursion
<1>2. ASSUME NEW x \in Expr
      PROVE  Step(L, N, f, x) = Body(f, x)
  <2>1. CASE x.op \in Operands
    <3>1. x.op = "IDENTIFIER" \/ x.op \in Literals
      BY <2>1 DEF Operands
    <3>2. Body(none, x) = Body(f, x)
      BY <3>1 DEF ValueBody
    <3> HIDE DEF Body
    <3> QED
      BY <2>1, <3>2 DEF Step
  <2>2. CASE x.op \in Operators
    <3>1. x.left \in Expr /\ x.right \in Expr /\ x.op \notin Operands
      BY <2>2, ExprShape DEF IsOperator
    <3>2. << x, f[x.left], f[x.right] >> \in Expr \X Value \X Value
      BY <3>1
    <3>3. Step(L, N, f, x) = N[<< x, f[x.left], f[x.right] >>]
      BY <3>1 DEF Step
    <3>4. x.op # "IDENTIFIER" /\ x.op \notin Literals
      BY <3>1 DEF Operands
    <3>5. Body(f, x) = T[<< x.op, f[x.left], f[x.right] >>]
      BY <3>4 DEF ValueBody
    <3> HIDE DEF Body
    <3> QED
      BY <2>2, <3>2, <3>3, <3>5
  <2> QED
    BY <2>1, <2>2, ExprShape DEF IsOperator
<1> QED
  BY <1>1, <1>2

\* What evaluate makes of two fields.
Pushed(op, f, g) == IF RemainderByZero(op, f, g) THEN Null ELSE Applied(op, f, g)

PushedBy == [x \in Operators \X Value \X Value |-> Pushed(x[1], x[2], x[3])]

Computation(e, names, r) ==
  (CHOOSE f \in [Expr -> Value] : \A x \in Expr : f[x] = ValueBody(f, PushedBy, names, r, x))[e]

LEMMA ComputationIs ==
  ASSUME NEW e \in Expr, NEW names, NEW r \in Seq(Field)
  PROVE  /\ Computation(e, names, r) \in Value
         /\ e.op = "IDENTIFIER" =>
              Computation(e, names, r) = IF Column(names, e.value) \in DOMAIN r
                                         THEN r[Column(names, e.value)] ELSE Null
         /\ e.op \in Literals => Computation(e, names, r) = Tok(FieldType[e.op], e.value)
         /\ e.op \in Operators =>
              Computation(e, names, r)
                = Pushed(e.op, Computation(e.left, names, r), Computation(e.right, names, r))
<1> DEFINE F == {f \in [Expr -> Value] : \A x \in Expr : f[x] = ValueBody(f, PushedBy, names, r, x)}
           c == CHOOSE f \in [Expr -> Value] : \A x \in Expr : f[x] = ValueBody(f, PushedBy, names, r, x)
<1>1. PushedBy \in [Operators \X Value \X Value -> Value]
  BY AppliedTyped DEF PushedBy, Pushed, Value
<1>2. \E f \in [Expr -> Value] : \A x \in Expr : f[x] = ValueBody(f, PushedBy, names, r, x)
  BY <1>1, ValuesExist
<1>3. c \in [Expr -> Value] /\ \A x \in Expr : c[x] = ValueBody(c, PushedBy, names, r, x)
  BY <1>2
<1>4. \A x : Computation(x, names, r) = c[x]
  BY DEF Computation
<1> HIDE DEF c
<1>5. e.op \in Operators =>
        /\ e.left \in Expr /\ e.right \in Expr /\ e.op # "IDENTIFIER" /\ e.op \notin Literals
        /\ PushedBy[<< e.op, c[e.left], c[e.right] >>] = Pushed(e.op, c[e.left], c[e.right])
  BY <1>3, ExprShape DEF IsOperator, Operands, PushedBy
<1>6. e.op \in Literals => e.op # "IDENTIFIER"
  BY DEF Literals
<1> QED
  BY <1>3, <1>4, <1>5, <1>6 DEF ValueBody

(***************************************************************************)
(* What the user means by an operator is what evaluate pushes for it, but  *)
(* for comparisons of an int with a float.                                 *)
(***************************************************************************)
\* A difference smaller than n that n divides is none.
LEMMA NothingLeft ==
  ASSUME NEW n \in Nat \ {0}, NEW d \in Int, -n < d, d < n, d % n = 0
  PROVE  d = 0
  OBVIOUS

\* What the division by n says of multiples of n.
LEMMA Multiples ==
  ASSUME NEW n \in Nat \ {0}
  PROVE  /\ \A q \in Int : (n * q) % n = 0
         /\ \A d \in Int : d % n = 0 => \E q \in Int : d = n * q
         /\ \A d \in Int : d % n \in 0 .. n - 1 /\ (d - (d % n)) % n = 0
<1>1. \A q \in Int : (n * q) % n = 0
  OBVIOUS
<1>2. ASSUME NEW d \in Int, d % n = 0
      PROVE  \E q \in Int : d = n * q
  <2>1. d \div n \in Int
    OBVIOUS
  <2>2. d = n * (d \div n)
    BY <1>2
  <2> QED
    BY <2>1, <2>2
<1>3. \A d \in Int : d % n \in 0 .. n - 1
  OBVIOUS
<1>4. \A d \in Int : (d - (d % n)) % n = 0
  OBVIOUS
<1> QED
  BY <1>1, <1>2, <1>3, <1>4

LEMMA MultiplesTogether ==
  ASSUME NEW n \in Nat \ {0}, NEW c \in Int, NEW d \in Int, c % n = 0, d % n = 0
  PROVE  (c - d) % n = 0 /\ (-c) % n = 0
<1>1. PICK p \in Int : c = n * p
  BY Multiples
<1>2. PICK q \in Int : d = n * q
  BY Multiples
<1>3. p - q \in Int /\ -p \in Int /\ n * p - n * q = n * (p - q) /\ -(n * p) = n * (-p)
  OBVIOUS
<1> QED
  BY <1>1, <1>2, <1>3, Multiples

\* The % of C++ leaves less than its right side, on the side of its left one.
LEMMA RemainderIs ==
  ASSUME NEW a \in Int, NEW b \in Int, b # 0
  PROVE  LET size == IF b < 0 THEN -b ELSE b
         IN  /\ size \in Nat \ {0}
             /\ Remainder(a, b) \in 1 - size .. size - 1
             /\ (a - Remainder(a, b)) % size = 0
             /\ a >= 0 => Remainder(a, b) >= 0
             /\ a <= 0 => Remainder(a, b) <= 0
<1> DEFINE n == IF b < 0 THEN -b ELSE b
           c == IF a < 0 THEN -a ELSE a
           k == c % n
<1>1. n \in Nat \ {0} /\ c \in Nat /\ (a < 0 => c = -a) /\ (~ (a < 0) => c = a)
  OBVIOUS
<1>2. Remainder(a, b) = IF a < 0 THEN -k ELSE k
  BY DEF Remainder
<1> HIDE DEF n, c
<1>3. k \in 0 .. n - 1 /\ (c - k) % n = 0 /\ (c = 0 => k = 0)
  <2>1. k \in 0 .. n - 1 /\ (c - k) % n = 0
    <3>1. c \in Int
      BY <1>1
    <3>2. \A d \in Int : d % n \in 0 .. n - 1 /\ (d - (d % n)) % n = 0
      BY <1>1, Multiples
    <3> QED
      BY <3>1, <3>2
  <2>2. c = 0 => k = 0
    BY <1>1, <2>1, NothingLeft
  <2> QED
    BY <2>1, <2>2
<1> HIDE DEF k
<1>4. (k - c) % n = 0
  <2> DEFINE d == c - k
  <2>1. d \in Int /\ d % n = 0
    BY <1>1, <1>3
  <2> HIDE DEF d
  <2>2. (-d) % n = 0
    BY <1>1, <2>1, MultiplesTogether
  <2>3. -d = k - c
    BY <1>1, <1>3 DEF d
  <2> QED
    BY <2>2, <2>3
<1>5. /\ Remainder(a, b) \in 1 - n .. n - 1
      /\ a >= 0 => Remainder(a, b) >= 0
      /\ a <= 0 => Remainder(a, b) <= 0
  BY <1>1, <1>2, <1>3
<1>6. a - Remainder(a, b) = IF a < 0 THEN k - c ELSE c - k
  BY <1>1, <1>2, <1>3
<1> QED
  BY <1>1, <1>3, <1>4, <1>5, <1>6 DEF n

\* So what the user means to be left of whole numbers is what % leaves of them.
LEMMA LeftOverIs ==
  ASSUME NEW a \in Int, NEW b \in Int, b # 0
  PROVE  LeftOver(Tenths * a, Tenths * b) = Tenths * Remainder(a, b)
<1> DEFINE n == IF b < 0 THEN -b ELSE b
           size == IF Tenths * b < 0 THEN -(Tenths * b) ELSE Tenths * b
           rem == Remainder(a, b)
           S == {m \in 1 - size .. size - 1 : (Tenths * a - m) % size = 0 /\ m * (Tenths * a) >= 0}
<1>1. /\ n \in Nat \ {0} /\ rem \in 1 - n .. n - 1 /\ (a - rem) % n = 0
      /\ (a >= 0 => rem >= 0) /\ (a <= 0 => rem <= 0)
  BY RemainderIs
<1>2. size = 10 * n /\ size \in Nat \ {0}
  BY DEF Tenths
<1> HIDE DEF n, size, rem
<1>3. 10 * rem \in 1 - size .. size - 1 /\ 10 * a \in Int /\ 10 * rem \in Int
  BY <1>1, <1>2
<1>4. (10 * a - 10 * rem) % size = 0
  BY <1>1, <1>2
<1>5. (10 * rem) * (10 * a) >= 0
  BY <1>1
<1>6. ASSUME NEW m \in 1 - size .. size - 1, (10 * a - m) % size = 0, m * (10 * a) >= 0
      PROVE  m = 10 * rem
  <2>1. m - 10 * rem \in Int /\ (m - 10 * rem) % size = 0
    <3>1. ((10 * a - 10 * rem) - (10 * a - m)) % size = 0
      BY <1>2, <1>3, <1>4, <1>6, MultiplesTogether
    <3>2. (10 * a - 10 * rem) - (10 * a - m) = m - 10 * rem
      BY <1>2, <1>3
    <3> QED
      BY <1>2, <1>3, <3>1, <3>2
  <2>2. CASE a = 0
    <3>1. rem = 0
      BY <1>1, <2>2
    <3> QED
      BY <1>2, <1>6, <2>1, <3>1, NothingLeft
  <2>3. CASE a > 0
    <3>1. m >= 0 /\ rem >= 0
      BY <1>1, <1>6, <2>3
    <3>2. -size < m - 10 * rem /\ m - 10 * rem < size
      BY <1>1, <1>2, <1>3, <1>6, <3>1
    <3>3. m - 10 * rem = 0
      BY <1>2, <2>1, <3>2, NothingLeft
    <3> QED
      BY <1>1, <3>3
  <2>4. CASE a < 0
    <3>1. m <= 0 /\ rem <= 0
      BY <1>1, <1>6, <2>4
    <3>2. -size < m - 10 * rem /\ m - 10 * rem < size
      BY <1>1, <1>2, <1>3, <1>6, <3>1
    <3>3. m - 10 * rem = 0
      BY <1>2, <2>1, <3>2, NothingLeft
    <3> QED
      BY <1>1, <3>3
  <2> QED
    BY <2>2, <2>3, <2>4
<1>7. LeftOver(10 * a, 10 * b) = CHOOSE m \in 1 - size .. size - 1 : (10 * a - m) % size = 0 /\ m * (10 * a) >= 0
  BY DEF LeftOver, size, Tenths
<1> QED
  BY <1>3, <1>4, <1>5, <1>6, <1>7 DEF rem, Tenths

\* Comparisons of two numbers of one type, or of two strings.
LEMMA ComparisonIsPushed ==
  ASSUME NEW op \in DOMAIN Orders, NEW v \in Field, NEW w \in Field,
         MeantComparison(op, v, w) # Null, {v.type, w.type} # {"INT", "FLOAT"}
  PROVE  Pushed(op, v, w) = MeantComparison(op, v, w)
<1>1. v.type = w.type /\ v.value \in Int /\ w.value \in Int /\ v # Null /\ w # Null
  <2>1. v.type \in {"INT", "FLOAT", "VARCHAR"} /\ w.type \in {"INT", "FLOAT", "VARCHAR"}
    BY DEF Field
  <2>2. v.type = w.type
    BY <2>1 DEF MeantComparison, IsNumber
  <2> QED
    BY <2>2 DEF Field, Null
<1> DEFINE order == OrderOf(v.value, w.value)
<1>2. MeantComparison(op, v, w) = Truth(order \in Orders[op])
  <2>1. CASE IsNumber(v) /\ IsNumber(w)
    <3>1. OrderOf(Amount(v), Amount(w)) = order
      BY <1>1 DEF OrderOf, Amount, Tenths
    <3> HIDE DEF order
    <3> QED
      BY <2>1, <3>1 DEF MeantComparison
  <2>2. CASE ~ (IsNumber(v) /\ IsNumber(w))
    BY <1>1, <2>2 DEF MeantComparison
  <2> QED
    BY <2>1, <2>2
<1>3. Equals(v, w) <=> order = "same"
  BY <1>1 DEF Equals, OrderOf
<1>4. LessThan(v, w) <=> order = "less"
  BY <1>1 DEF LessThan, OrderOf
<1>5. LessThan(w, v) <=> order = "more"
  BY <1>1 DEF LessThan, OrderOf
<1>6. order \in {"less", "same", "more"}
  BY DEF OrderOf
<1> HIDE DEF order
<1>7. op \in {"EQUALS", "NOT_EQUALS", "LESS", "GREATER", "LESS_EQ", "GREATER_EQ"}
  BY DEF Orders
<1>8. Pushed(op, v, w) = Applied(op, v, w)
  BY <1>7 DEF Pushed, RemainderByZero
<1>9. \A b, c : (b <=> c) => Truth(b) = Truth(c)
  BY DEF Truth
<1>10. CASE op = "EQUALS"
  <2>1. Applied(op, v, w) = Truth(Equals(v, w)) /\ Orders[op] = {"same"}
    BY <1>10 DEF Applied, Orders
  <2>2. Equals(v, w) <=> order \in Orders[op]
    BY <1>3, <2>1
  <2> QED
    BY <1>2, <1>8, <1>9, <2>1, <2>2
<1>11. CASE op = "NOT_EQUALS"
  <2>1. Applied(op, v, w) = Truth(~ Equals(v, w)) /\ Orders[op] = {"less", "more"}
    BY <1>11 DEF Applied, Orders
  <2>2. (~ Equals(v, w)) <=> order \in Orders[op]
    BY <1>3, <1>6, <2>1
  <2> QED
    BY <1>2, <1>8, <1>9, <2>1, <2>2
<1>12. CASE op = "LESS"
  <2>1. Applied(op, v, w) = Truth(LessThan(v, w)) /\ Orders[op] = {"less"}
    BY <1>12 DEF Applied, Orders
  <2>2. LessThan(v, w) <=> order \in Orders[op]
    BY <1>4, <2>1
  <2> QED
    BY <1>2, <1>8, <1>9, <2>1, <2>2
<1>13. CASE op = "GREATER"
  <2>1. Applied(op, v, w) = Truth(LessThan(w, v)) /\ Orders[op] = {"more"}
    BY <1>13 DEF Applied, Orders
  <2>2. LessThan(w, v) <=> order \in Orders[op]
    BY <1>5, <2>1
  <2> QED
    BY <1>2, <1>8, <1>9, <2>1, <2>2
<1>14. CASE op = "LESS_EQ"
  <2>1. Applied(op, v, w) = Truth(~ LessThan(w, v)) /\ Orders[op] = {"less", "same"}
    BY <1>14 DEF Applied, Orders
  <2>2. (~ LessThan(w, v)) <=> order \in Orders[op]
    BY <1>5, <1>6, <2>1
  <2> QED
    BY <1>2, <1>8, <1>9, <2>1, <2>2
<1>15. CASE op = "GREATER_EQ"
  <2>1. Applied(op, v, w) = Truth(~ LessThan(v, w)) /\ Orders[op] = {"more", "same"}
    BY <1>15 DEF Applied, Orders
  <2>2. (~ LessThan(v, w)) <=> order \in Orders[op]
    BY <1>4, <1>6, <2>1
  <2> QED
    BY <1>2, <1>8, <1>9, <2>1, <2>2
<1> QED
  BY <1>7, <1>10, <1>11, <1>12, <1>13, <1>14, <1>15

\* AND and OR of two facts.
LEMMA LogicIsPushed ==
  ASSUME NEW op \in {"AND", "OR"}, NEW v \in Field, NEW w \in Field, MeantLogic(op, v, w) # Null
  PROVE  Pushed(op, v, w) = MeantLogic(op, v, w)
<1>1. v.type = "INT" /\ w.type = "INT"
  BY DEF MeantLogic
<1>2. Pushed(op, v, w) = Applied(op, v, w)
  BY DEF Pushed, RemainderByZero
<1>3. \A b, c : (b <=> c) => Truth(b) = Truth(c)
  BY DEF Truth
<1>4. CASE op = "AND"
  <2>1. /\ Applied(op, v, w) = Truth(IsTrue(v) /\ IsTrue(w))
        /\ MeantLogic(op, v, w) = Truth(0 \notin {v.value, w.value})
    BY <1>1, <1>4 DEF Applied, MeantLogic
  <2>2. IsTrue(v) /\ IsTrue(w) <=> 0 \notin {v.value, w.value}
    BY <1>1 DEF IsTrue
  <2> QED
    BY <1>2, <1>3, <2>1, <2>2
<1>5. CASE op = "OR"
  <2>1. /\ Applied(op, v, w) = Truth(IsTrue(v) \/ IsTrue(w))
        /\ MeantLogic(op, v, w) = Truth({v.value, w.value} # {0})
    BY <1>1, <1>5 DEF Applied, MeantLogic
  <2>2. IsTrue(v) \/ IsTrue(w) <=> {v.value, w.value} # {0}
    BY <1>1 DEF IsTrue
  <2> QED
    BY <1>2, <1>3, <2>1, <2>2
<1> QED
  BY <1>4, <1>5

\* Sums, differences, products and remainders of two numbers.
LEMMA ArithmeticIsPushed ==
  ASSUME NEW op \in {"PLUS", "MINUS", "MULTIPLY", "MODULO"}, NEW v \in Field, NEW w \in Field,
         MeantArithmetic(op, v, w) # Null
  PROVE  Pushed(op, v, w) = MeantArithmetic(op, v, w)
<1> DEFINE x == Amount(v)
           y == Amount(w)
<1>1. IsNumber(v) /\ IsNumber(w)
  BY DEF MeantArithmetic
<1>2. /\ v.type \in {"INT", "FLOAT"} /\ w.type \in {"INT", "FLOAT"}
      /\ v.value \in Int /\ w.value \in Int
  BY <1>1 DEF IsNumber, Field
<1>3. AreNumbers(v, w)
  BY <1>2 DEF AreNumbers
<1>4. /\ x = CoerceToFloat(v) /\ y = CoerceToFloat(w) /\ x \in Int /\ y \in Int
      /\ v.type = "INT" => x = 10 * v.value
      /\ w.type = "INT" => y = 10 * w.value
  BY <1>2 DEF Amount, CoerceToFloat, Tenths
<1>5. Applied(op, v, w) = Computed(op, v, w)
  BY <1>3 DEF Applied, Arithmetic
<1>6. NumberLike(v, w, 0).type = IF v.type = "INT" /\ w.type = "INT" THEN "INT" ELSE "FLOAT"
  BY <1>2 DEF NumberLike, Tok
<1>7. ASSUME v.type = "INT", w.type = "INT"
      PROVE  \A t : NumberLike(v, w, t) = Tok("INT", t \div 10)
  BY <1>7 DEF NumberLike, Tenths
<1>8. ASSUME ~ (v.type = "INT" /\ w.type = "INT")
      PROVE  \A t : NumberLike(v, w, t) = Tok("FLOAT", t)
  BY <1>2, <1>8 DEF NumberLike
<1> HIDE DEF x, y
<1>9. CASE op = "PLUS"
  <2>1. MeantArithmetic(op, v, w) = NumberLike(v, w, x + y)
    BY <1>1, <1>9 DEF MeantArithmetic, x, y
  <2>2. Pushed(op, v, w) = Computed(op, v, w)
    BY <1>5, <1>9 DEF Pushed, RemainderByZero
  <2>3. CASE v.type = "INT" /\ w.type = "INT"
    <3>1. Computed(op, v, w) = Tok("INT", v.value + w.value)
      BY <1>9, <2>3 DEF Computed
    <3>2. (x + y) \div 10 = v.value + w.value
      BY <1>2, <1>4, <2>3
    <3> QED
      BY <1>7, <2>1, <2>2, <2>3, <3>1, <3>2
  <2>4. CASE ~ (v.type = "INT" /\ w.type = "INT")
    <3>1. Computed(op, v, w) = Tok("FLOAT", x + y)
      BY <1>4, <1>9, <2>4 DEF Computed
    <3> QED
      BY <1>8, <2>1, <2>2, <2>4, <3>1
  <2> QED
    BY <2>3, <2>4
<1>10. CASE op = "MINUS"
  <2>1. MeantArithmetic(op, v, w) = NumberLike(v, w, x - y)
    BY <1>1, <1>10 DEF MeantArithmetic, x, y
  <2>2. Pushed(op, v, w) = Computed(op, v, w)
    BY <1>5, <1>10 DEF Pushed, RemainderByZero
  <2>3. CASE v.type = "INT" /\ w.type = "INT"
    <3>1. Computed(op, v, w) = Tok("INT", v.value - w.value)
      BY <1>10, <2>3 DEF Computed
    <3>2. (x - y) \div 10 = v.value - w.value
      BY <1>2, <1>4, <2>3
    <3> QED
      BY <1>7, <2>1, <2>2, <2>3, <3>1, <3>2
  <2>4. CASE ~ (v.type = "INT" /\ w.type = "INT")
    <3>1. Computed(op, v, w) = Tok("FLOAT", x - y)
      BY <1>4, <1>10, <2>4 DEF Computed
    <3> QED
      BY <1>8, <2>1, <2>2, <2>4, <3>1
  <2> QED
    BY <2>3, <2>4
<1>11. CASE op = "MULTIPLY"
  <2>1. MeantArithmetic(op, v, w) = NumberLike(v, w, (x * y) \div 10)
    BY <1>1, <1>11 DEF MeantArithmetic, Tenths, x, y
  <2>2. Pushed(op, v, w) = Computed(op, v, w)
    BY <1>5, <1>11 DEF Pushed, RemainderByZero
  <2>3. CASE v.type = "INT" /\ w.type = "INT"
    <3>1. Computed(op, v, w) = Tok("INT", v.value * w.value)
      BY <1>11, <2>3 DEF Computed
    <3>2. ((x * y) \div 10) \div 10 = v.value * w.value
      <4> DEFINE p == v.value * w.value
      <4>1. p \in Int /\ x * y = 100 * p
        BY <1>2, <1>4, <2>3
      <4> HIDE DEF p
      <4>2. ((x * y) \div 10) \div 10 = p
        BY <4>1
      <4> QED
        BY <4>2 DEF p
    <3> QED
      BY <1>7, <2>1, <2>2, <2>3, <3>1, <3>2
  <2>4. CASE ~ (v.type = "INT" /\ w.type = "INT")
    <3>1. Computed(op, v, w) = Tok("FLOAT", (x * y) \div 10)
      BY <1>4, <1>11, <2>4 DEF Computed, Tenths
    <3> QED
      BY <1>8, <2>1, <2>2, <2>4, <3>1
  <2> QED
    BY <2>3, <2>4
<1>12. CASE op = "MODULO"
  <2> DEFINE a == CutToInt(v)
             b == CutToInt(w)
  <2>1. x % 10 = 0 /\ y % 10 = 0 /\ y # 0
    BY <1>12 DEF MeantArithmetic, Tenths, x, y
  <2>2. MeantArithmetic(op, v, w) = NumberLike(v, w, LeftOver(x, y))
    BY <1>1, <1>12, <2>1 DEF MeantArithmetic, Tenths, x, y
  <2>3. a \in Int /\ x = 10 * a
    <3>1. CASE v.type = "INT"
      BY <1>2, <1>4, <3>1 DEF CutToInt
    <3>2. CASE v.type = "FLOAT"
      <4>1. x = v.value
        BY <1>4, <3>2 DEF CoerceToFloat
      <4>2. a = IF x < 0 THEN -((-x) \div 10) ELSE x \div 10
        BY <3>2, <4>1 DEF CutToInt, Tenths
      <4> QED
        BY <1>4, <2>1, <4>2
    <3> QED
      BY <1>2, <3>1, <3>2
  <2>4. b \in Int /\ y = 10 * b
    <3>1. CASE w.type = "INT"
      BY <1>2, <1>4, <3>1 DEF CutToInt
    <3>2. CASE w.type = "FLOAT"
      <4>1. y = w.value
        BY <1>4, <3>2 DEF CoerceToFloat
      <4>2. b = IF y < 0 THEN -((-y) \div 10) ELSE y \div 10
        BY <3>2, <4>1 DEF CutToInt, Tenths
      <4> QED
        BY <1>4, <2>1, <4>2
    <3> QED
      BY <1>2, <3>1, <3>2
  <2>5. b # 0
    BY <2>1, <2>4
  <2>6. Pushed(op, v, w) = Computed(op, v, w)
    BY <1>5, <2>5 DEF Pushed, RemainderByZero
  <2>7. LeftOver(x, y) = 10 * Remainder(a, b)
    <3> HIDE DEF a, b
    <3> QED
      BY <2>3, <2>4, <2>5, LeftOverIs DEF Tenths
  <2>8. Remainder(a, b) \in Int
    <3> HIDE DEF a, b
    <3>1. Remainder(a, b) \in 1 - (IF b < 0 THEN -b ELSE b) .. (IF b < 0 THEN -b ELSE b) - 1
      BY <2>3, <2>4, <2>5, RemainderIs
    <3> QED
      BY <2>4, <3>1
  <2>9. CASE v.type = "INT" /\ w.type = "INT"
    <3>1. Computed(op, v, w) = Tok("INT", Remainder(a, b))
      BY <1>12, <2>9 DEF Computed, CutToInt
    <3> HIDE DEF a, b
    <3>2. LeftOver(x, y) \div 10 = Remainder(a, b)
      BY <2>7, <2>8
    <3> QED
      BY <1>7, <2>2, <2>6, <2>9, <3>1, <3>2
  <2>10. CASE ~ (v.type = "INT" /\ w.type = "INT")
    <3>1. Computed(op, v, w) = Tok("FLOAT", 10 * Remainder(a, b))
      BY <1>12, <2>10 DEF Computed, Tenths
    <3> QED
      BY <1>8, <2>2, <2>6, <2>7, <2>10, <3>1
  <2> QED
    BY <2>9, <2>10
<1> QED
  BY <1>9, <1>10, <1>11, <1>12

\* All operators.
LEMMA MeantIsPushed ==
  ASSUME NEW op \in Operators, NEW v \in Value, NEW w \in Value, Meant(op, v, w) # Null,
         op \in DOMAIN Orders => {v.type, w.type} # {"INT", "FLOAT"}
  PROVE  Pushed(op, v, w) = Meant(op, v, w)
<1>1. v \in Field /\ w \in Field /\ Null \notin {v, w}
  BY DEF Meant, Value
<1>2. CASE op \in DOMAIN Orders
  <2>1. op \notin {"AND", "OR"}
    BY <1>2 DEF Orders
  <2>2. Meant(op, v, w) = MeantComparison(op, v, w)
    BY <1>1, <1>2, <2>1 DEF Meant
  <2>3. {v.type, w.type} # {"INT", "FLOAT"}
    BY <1>2
  <2> QED
    BY <1>1, <1>2, <2>2, <2>3, ComparisonIsPushed
<1>3. CASE op \in {"AND", "OR"}
  <2>1. op \notin DOMAIN Orders
    BY <1>3 DEF Orders
  <2> QED
    BY <1>1, <1>3, <2>1, LogicIsPushed DEF Meant
<1>4. CASE op \in {"PLUS", "MINUS", "MULTIPLY", "MODULO"}
  <2>1. op \notin DOMAIN Orders /\ op \notin {"AND", "OR"}
    BY <1>4 DEF Orders
  <2> QED
    BY <1>1, <1>4, <2>1, ArithmeticIsPushed DEF Meant
<1> QED
  BY <1>2, <1>3, <1>4 DEF Operators, Orders

LEMMA MeantTyped ==
  ASSUME NEW op \in Operators, NEW v \in Value, NEW w \in Value
  PROVE  Meant(op, v, w) \in Value
<1>1. CASE op \in DOMAIN Orders
  <2>1. op \notin {"AND", "OR"}
    BY <1>1 DEF Orders
  <2>2. Meant(op, v, w) = Null \/ Meant(op, v, w) = MeantComparison(op, v, w)
    BY <1>1, <2>1 DEF Meant
  <2>3. \A b : Truth(b) \in Field
    BY DEF Truth, Field
  <2>4. MeantComparison(op, v, w) \in Value
    BY <2>3 DEF MeantComparison, Value
  <2> QED
    BY <2>2, <2>4 DEF Value
<1>2. CASE op \notin DOMAIN Orders
  <2>1. Pushed(op, v, w) \in Value
    BY AppliedTyped DEF Pushed, Value
  <2>2. Meant(op, v, w) # Null => Pushed(op, v, w) = Meant(op, v, w)
    BY <1>2, MeantIsPushed
  <2> QED
    BY <2>1, <2>2 DEF Value
<1> QED
  BY <1>1, <1>2

MeantBy == [x \in Operators \X Value \X Value |-> Meant(x[1], x[2], x[3])]

\* The meaning of an expression is that of its operator for those of its sides.
LEMMA MeaningIs ==
  ASSUME NEW e \in Expr, NEW names, NEW r \in Seq(Field)
  PROVE  /\ Meaning(e, names, r) \in Value
         /\ e.op = "IDENTIFIER" =>
              Meaning(e, names, r) = IF Column(names, e.value) \in DOMAIN r
                                     THEN r[Column(names, e.value)] ELSE Null
         /\ e.op \in Literals => Meaning(e, names, r) = Tok(FieldType[e.op], e.value)
         /\ e.op \in Operators =>
              Meaning(e, names, r)
                = Meant(e.op, Meaning(e.left, names, r), Meaning(e.right, names, r))
<1> DEFINE Body(f, x) ==
             CASE x.op = "IDENTIFIER" ->
                    IF Column(names, x.value) \in DOMAIN r THEN r[Column(names, x.value)] ELSE Null
               [] x.op \in Literals -> Tok(FieldType[x.op], x.value)
               [] OTHER             -> Meant(x.op, f[x.left], f[x.right])
           meaning == CHOOSE f : f = [x \in Expr |-> Body(f, x)]
<1>1. MeantBy \in [Operators \X Value \X Value -> Value]
  BY MeantTyped DEF MeantBy
<1>2. ASSUME NEW f, NEW x \in Expr,
             x.op \in Operators => f[x.left] \in Value /\ f[x.right] \in Value
      PROVE  Body(f, x) = ValueBody(f, MeantBy, names, r, x)
  <2>1. x.op \in Literals => x.op # "IDENTIFIER"
    BY DEF Literals
  <2>2. CASE x.op \in Operands
    BY <2>1, <2>2 DEF ValueBody, Operands
  <2>3. CASE x.op \in Operators
    <3>1. x.op # "IDENTIFIER" /\ x.op \notin Literals
      BY <2>3, ExprShape DEF IsOperator, Operands, Operators, Literals
    <3>2. MeantBy[<< x.op, f[x.left], f[x.right] >>] = Meant(x.op, f[x.left], f[x.right])
      BY <1>2, <2>3 DEF MeantBy
    <3> QED
      BY <3>1, <3>2 DEF ValueBody
  <2> QED
    BY <2>2, <2>3, ExprShape DEF IsOperator
<1>3. PICK f \in [Expr -> Value] : \A x \in Expr : f[x] = ValueBody(f, MeantBy, names, r, x)
  BY <1>1, ValuesExist
<1>4. \A x \in Expr : x.op \in Operators => x.left \in Expr /\ x.right \in Expr
  BY ExprShape DEF IsOperator
<1> HIDE DEF Body
<1>5. \A x \in Expr : f[x] = Body(f, x)
  BY <1>2, <1>3, <1>4
<1>6. f = [x \in Expr |-> Body(f, x)]
  BY <1>3, <1>5
<1>7. meaning = [x \in Expr |-> Body(meaning, x)]
  BY <1>6
<1>8. \A x : Meaning(x, names, r) = meaning[x]
  BY DEF Meaning, Body
<1> HIDE DEF meaning
<1>9. \A x \in Expr : meaning[x] = Body(meaning, x)
  BY <1>7
<1>10. \A x \in Expr : meaning[x] \in Value
  <2> DEFINE S == {x \in Expr : meaning[x] \in Value}
  <2>1. ASSUME NEW x \in Expr, x.op \in Operands
        PROVE  x \in S
    <3>1. x.op \notin Operators
      BY <2>1, ExprShape DEF IsOperator
    <3>2. meaning[x] = ValueBody(meaning, MeantBy, names, r, x)
      BY <1>2, <1>9, <3>1
    <3> QED
      BY <2>1, <3>2, OperandValue
  <2>2. ASSUME NEW x \in Expr, IsOperator(x), x.left \in S, x.right \in S
        PROVE  x \in S
    <3>1. x.op \in Operators /\ x.op # "IDENTIFIER" /\ x.op \notin Literals
      BY <2>2, ExprShape DEF IsOperator, Operands, Operators, Literals
    <3>2. meaning[x.left] \in Value /\ meaning[x.right] \in Value
      BY <2>2
    <3>3. meaning[x] = Meant(x.op, meaning[x.left], meaning[x.right])
      BY <1>9, <3>1 DEF Body
    <3> QED
      BY <3>1, <3>2, <3>3, MeantTyped
  <2> HIDE DEF S
  <2>3. \A x \in Expr : x \in S
    BY <2>1, <2>2, ExprInduction
  <2> QED
    BY <2>3 DEF S
<1>11. Meaning(e, names, r) = Body(meaning, e)
  BY <1>8, <1>9
<1>12. /\ e.op \in Operators => e.op # "IDENTIFIER" /\ e.op \notin Literals
       /\ e.op \in Literals => e.op # "IDENTIFIER"
  BY DEF Operators, Literals
<1> QED
  BY <1>8, <1>10, <1>11, <1>12 DEF Body

(***************************************************************************)
(* What evaluate computes of an expression is what the user means by it.   *)
(***************************************************************************)
LEMMA JudgedIsComputed ==
  ASSUME NEW names, NEW r \in Seq(Field)
  PROVE  \A e \in Expr : IsJudged(e, names, r) =>
           /\ HasColumns(e, names, r)
           /\ Computation(e, names, r) = Meaning(e, names, r)
           /\ Meaning(e, names, r) \in Field
<1> DEFINE S == {e \in Expr : IsJudged(e, names, r) =>
                                /\ HasColumns(e, names, r)
                                /\ Computation(e, names, r) = Meaning(e, names, r)}
<1>1. ASSUME NEW e \in Expr, e.op \in Operands
      PROVE  e \in S
  <2> SUFFICES ASSUME Meaning(e, names, r) # Null
               PROVE  HasColumns(e, names, r) /\ Computation(e, names, r) = Meaning(e, names, r)
    BY DEF IsJudged
  <2>1. Parts(e) = {e}
    BY <1>1, PartsAre
  <2>2. e.op = "IDENTIFIER" \/ e.op \in Literals
    BY <1>1 DEF Operands
  <2>3. Computation(e, names, r) = Meaning(e, names, r)
    BY <2>2, MeaningIs, ComputationIs
  <2>4. e.op = "IDENTIFIER" => Column(names, e.value) \in DOMAIN r
    BY MeaningIs
  <2> QED
    BY <2>1, <2>3, <2>4 DEF HasColumns
<1>2. ASSUME NEW e \in Expr, IsOperator(e), e.left \in S, e.right \in S
      PROVE  e \in S
  <2> SUFFICES ASSUME IsJudged(e, names, r)
               PROVE  HasColumns(e, names, r) /\ Computation(e, names, r) = Meaning(e, names, r)
    OBVIOUS
  <2> DEFINE v == Meaning(e.left, names, r)
             w == Meaning(e.right, names, r)
  <2>1. e.op \in Operators /\ e.left \in Expr /\ e.right \in Expr /\ e.op # "IDENTIFIER"
    BY <1>2 DEF IsOperator, Operators
  <2>2. Parts(e) = {e} \union Parts(e.left) \union Parts(e.right)
    BY <2>1, PartsAre
  <2>3. Meaning(e, names, r) = Meant(e.op, v, w) /\ Meant(e.op, v, w) # Null
    BY <2>1, MeaningIs DEF IsJudged
  <2>4. v \in Value /\ w \in Value
    BY <2>1, MeaningIs
  <2>5. v # Null /\ w # Null
    BY <2>3 DEF Meant
  <2>6. e.op \in DOMAIN Orders => {v.type, w.type} # {"INT", "FLOAT"}
    BY <2>2 DEF IsJudged, IsMixed
  <2>7. IsJudged(e.left, names, r) /\ IsJudged(e.right, names, r)
    BY <2>2, <2>5 DEF IsJudged, IsMixed
  <2>8. /\ HasColumns(e.left, names, r) /\ HasColumns(e.right, names, r)
        /\ Computation(e.left, names, r) = v /\ Computation(e.right, names, r) = w
    BY <1>2, <2>7
  <2>9. HasColumns(e, names, r)
    BY <2>1, <2>2, <2>8 DEF HasColumns
  <2>10. Computation(e, names, r) = Pushed(e.op, v, w)
    BY <2>1, <2>8, ComputationIs
  <2> HIDE DEF v, w
  <2> QED
    BY <2>1, <2>3, <2>4, <2>6, <2>9, <2>10, MeantIsPushed
<1> HIDE DEF S
<1>3. \A e \in Expr : e \in S
  BY <1>1, <1>2, ExprInduction
<1>4. \A e \in Expr : IsJudged(e, names, r) => Meaning(e, names, r) \in Field
  BY MeaningIs DEF IsJudged, Value
<1> QED
  BY <1>3, <1>4 DEF S

\* A remainder that the processor does not compute.
HasZero(e, names, r) ==
  \E x \in Parts(e) :
    /\ x.op \in Operators
    /\ RemainderByZero(x.op, Computation(x.left, names, r), Computation(x.right, names, r))

\* It is by less than 1, or by what has no agreed value.
LEMMA ZeroIsTrap ==
  ASSUME NEW e \in Expr, NEW names, NEW r \in Seq(Field), HasZero(e, names, r)
  PROVE  Traps(e, names, r)
<1>1. PICK x \in Parts(e) :
        /\ x.op \in Operators
        /\ RemainderByZero(x.op, Computation(x.left, names, r), Computation(x.right, names, r))
  BY DEF HasZero
<1>2. x \in Expr
  BY PartsAre
<1>3. x.right \in Expr
  BY <1>1, <1>2, ExprShape DEF IsOperator
<1> DEFINE f == Computation(x.left, names, r)
           g == Computation(x.right, names, r)
<1>4. x.op = "MODULO" /\ AreNumbers(f, g) /\ CutToInt(g) = 0
  BY <1>1 DEF RemainderByZero
<1>5. ASSUME IsJudged(x.right, names, r)
      PROVE  LET v == Meaning(x.right, names, r)
             IN  IsNumber(v) /\ -Tenths < Amount(v) /\ Amount(v) < Tenths
  <2>1. Meaning(x.right, names, r) = g /\ g \in Field
    BY <1>3, <1>5, JudgedIsComputed
  <2> HIDE DEF f, g
  <2>2. g.type \in {"INT", "FLOAT"} /\ g.value \in Int
    BY <1>4, <2>1 DEF AreNumbers, Field
  <2>3. -10 < Amount(g) /\ Amount(g) < 10
    <3>1. CASE g.type = "INT"
      BY <1>4, <2>2, <3>1 DEF Amount, CutToInt, Tenths
    <3>2. CASE g.type = "FLOAT"
      <4>1. Amount(g) = g.value
        BY <3>2 DEF Amount
      <4>2. (IF g.value < 0 THEN -((-g.value) \div 10) ELSE g.value \div 10) = 0
        BY <1>4, <3>2 DEF CutToInt, Tenths
      <4> QED
        BY <2>2, <4>1, <4>2
    <3> QED
      BY <2>2, <3>1, <3>2
  <2>4. IsNumber(g)
    BY <2>2 DEF IsNumber
  <2> QED
    BY <2>1, <2>3, <2>4 DEF Tenths
<1> HIDE DEF f, g
<1> QED
  BY <1>4, <1>5 DEF Traps

\* The signs, and the spaces and parentheses around them.
LEMMA CharsTyped ==
  ASSUME NEW s \in Seq(Kinds)
  PROVE  /\ Chars(s) \in Text /\ Len(Chars(s)) = Len(s)
         /\ \A i \in 1 .. Len(s) : Chars(s)[i] = Piece(s[i], 0)
<1> DEFINE P == [kind : Kinds, value : Int]
<1>1. \A i \in 1 .. Len(s) : Piece(s[i], 0) \in P
  BY DEF Piece
<1> HIDE DEF P
<1>2. Chars(s) = [i \in 1 .. Len(s) |-> Piece(s[i], 0)]
  BY DEF Chars
<1>3. Chars(s) \in Seq(P)
  BY <1>1, <1>2
<1> QED
  BY <1>2, <1>3 DEF Text, P

LEMMA SymbolIs ==
  /\ Symbol("PLUS") = << "+" >> /\ Symbol("MINUS") = << "-" >>
  /\ Symbol("MULTIPLY") = << "*" >> /\ Symbol("MODULO") = << "%" >>
  /\ Symbol("EQUALS") = << "=", "=" >> /\ Symbol("NOT_EQUALS") = << "!", "=" >>
  /\ Symbol("LESS") = << "<" >> /\ Symbol("LESS_EQ") = << "<", "=" >>
  /\ Symbol("GREATER") = << ">" >> /\ Symbol("GREATER_EQ") = << ">", "=" >>
  /\ Symbol("AND") = << "AND" >> /\ Symbol("OR") = << "OR" >>
  BY DEF Symbol

LEMMA SymbolTyped ==
  ASSUME NEW op \in Operators
  PROVE  Symbol(op) \in Seq(Kinds)
<1>1. \A c, d \in Kinds : << c >> \in Seq(Kinds) /\ << c, d >> \in Seq(Kinds)
  OBVIOUS
<1>2. {"+", "-", "*", "%", "=", "!", "<", ">", "AND", "OR"} \subseteq Kinds
  BY DEF Kinds, Keywords
<1> QED
  BY <1>1, <1>2, SymbolIs DEF Operators

LEMMA ConcatTyped ==
  ASSUME NEW S, NEW s \in Seq(S), NEW t \in Seq(S)
  PROVE  /\ s \o t \in Seq(S) /\ Len(s \o t) = Len(s) + Len(t)
         /\ \A i \in 1 .. Len(s) : (s \o t)[i] = s[i]
         /\ \A i \in 1 .. Len(t) : (s \o t)[Len(s) + i] = t[i]
  OBVIOUS

LEMMA TextConcat ==
  ASSUME NEW s \in Text, NEW t \in Text
  PROVE  s \o t \in Text
  BY ConcatTyped DEF Text

LEMMA SignTyped ==
  ASSUME NEW op \in Operators, NEW spaced
  PROVE  Sign(op, spaced) \in Text
<1>1. Space \in Text
  <2>1. << "space" >> \in Seq(Kinds)
    BY DEF Kinds
  <2> QED
    BY <2>1, CharsTyped DEF Space
<1>2. Chars(Symbol(op)) \in Text
  BY SymbolTyped, CharsTyped
<1>3. Space \o Chars(Symbol(op)) \in Text
  BY <1>1, <1>2, TextConcat
<1>4. Space \o Chars(Symbol(op)) \o Space \in Text
  BY <1>1, <1>3, TextConcat
<1> QED
  BY <1>2, <1>4 DEF Sign

LEMMA SideTyped ==
  ASSUME NEW text \in Text, NEW wrapped
  PROVE  Side(text, wrapped) \in Text
<1>1. Chars(<< "(" >>) \in Text /\ Chars(<< ")" >>) \in Text
  BY CharsTyped DEF Kinds
<1>2. Chars(<< "(" >>) \o text \in Text
  BY <1>1, TextConcat
<1>3. Chars(<< "(" >>) \o text \o Chars(<< ")" >>) \in Text
  BY <1>1, <1>2, TextConcat
<1> QED
  BY <1>3 DEF Side

LEMMA OperandTextTyped ==
  ASSUME NEW e, e.op \in Operands, e.value \in Int
  PROVE  OperandText(e) \in Text
<1> DEFINE P == [kind : Kinds, value : Int]
<1>1. /\ Piece("name", e.value) \in P /\ Piece("digits", e.value) \in P /\ Piece(".", 0) \in P
      /\ Piece("digits", e.value \div Tenths) \in P /\ Piece("digits", e.value % Tenths) \in P
      /\ Piece("quote", 0) \in P
  BY DEF Piece, Kinds, Tenths
<1> HIDE DEF P
<1>2. OperandText(e) \in Seq(P)
  BY <1>1 DEF OperandText, Operands, Literals
<1> QED
  BY <1>2 DEF Text, P

TypedBody(f, spaced, e) ==
  IF e.op \in Operands THEN OperandText(e)
  ELSE Side(f[e.left], Level(e.left) < Level(e))
         \o Sign(e.op, spaced)
         \o Side(f[e.right], Level(e.right) <= Level(e))

LEMMA TypedBodyTyped ==
  ASSUME NEW spaced, NEW f, NEW e \in Expr,
         e.op \in Operators => f[e.left] \in Text /\ f[e.right] \in Text
  PROVE  TypedBody(f, spaced, e) \in Text
<1>1. CASE e.op \in Operands
  BY <1>1, ExprShape, OperandTextTyped DEF TypedBody
<1>2. CASE e.op \in Operators /\ e.op \notin Operands
  <2> DEFINE left == Side(f[e.left], Level(e.left) < Level(e))
             right == Side(f[e.right], Level(e.right) <= Level(e))
  <2>1. left \in Text /\ right \in Text /\ Sign(e.op, spaced) \in Text
    BY <1>2, SideTyped, SignTyped
  <2>2. TypedBody(f, spaced, e) = left \o Sign(e.op, spaced) \o right
    BY <1>2 DEF TypedBody
  <2> HIDE DEF left, right
  <2>3. left \o Sign(e.op, spaced) \in Text
    BY <2>1, TextConcat
  <2>4. left \o Sign(e.op, spaced) \o right \in Text
    BY <2>1, <2>3, TextConcat
  <2> QED
    BY <2>2, <2>4
<1> QED
  BY <1>1, <1>2, ExprShape DEF IsOperator

LEMMA TypedIs ==
  ASSUME NEW e \in Expr, NEW spaced
  PROVE  /\ Typed(e, spaced) \in Text
         /\ e.op \in Operands => Typed(e, spaced) = OperandText(e)
         /\ e.op \in Operators =>
              Typed(e, spaced) = Side(Typed(e.left, spaced), Level(e.left) < Level(e))
                                   \o Sign(e.op, spaced)
                                   \o Side(Typed(e.right, spaced), Level(e.right) <= Level(e))
<1> DEFINE Body(f, x) == TypedBody(f, spaced, x)
           none == [x \in Expr |-> << >>]
           L == [x \in Expr |-> IF x.op \in Operands THEN Body(none, x) ELSE << >>]
           N == [x \in Expr \X Text \X Text |->
                   IF x[1].op \notin Operators THEN << >>
                   ELSE Side(x[2], Level(x[1].left) < Level(x[1])) \o Sign(x[1].op, spaced)
                          \o Side(x[3], Level(x[1].right) <= Level(x[1]))]
           typed == CHOOSE f : f = [x \in Expr |-> Body(f, x)]
<1>0. << >> \in Text
  BY DEF Text
<1>1. PICK f \in [Expr -> Text] : \A x \in Expr : f[x] = Step(L, N, f, x)
  <2>1. L \in [Expr -> Text]
    <3>1. ASSUME NEW x \in Expr, x.op \in Operands
          PROVE  Body(none, x) \in Text
      BY <3>1, TypedBodyTyped, ExprShape DEF IsOperator
    <3> HIDE DEF Body, none
    <3> QED
      BY <1>0, <3>1
  <2>2. N \in [Expr \X Text \X Text -> Text]
    <3>1. ASSUME NEW x \in Expr \X Text \X Text
          PROVE  N[x] \in Text
      <4> DEFINE left == Side(x[2], Level(x[1].left) < Level(x[1]))
                 right == Side(x[3], Level(x[1].right) <= Level(x[1]))
                 sign == Sign(x[1].op, spaced)
      <4>1. N[x] = IF x[1].op \notin Operators THEN << >> ELSE left \o sign \o right
        OBVIOUS
      <4>2. left \in Text /\ right \in Text /\ (x[1].op \in Operators => sign \in Text)
        BY SideTyped, SignTyped
      <4> HIDE DEF left, right, sign, N
      <4>3. x[1].op \in Operators => left \o sign \in Text
        BY <4>2, TextConcat
      <4>4. x[1].op \in Operators => left \o sign \o right \in Text
        BY <4>2, <4>3, TextConcat
      <4> QED
        BY <1>0, <4>1, <4>4
    <3>2. N = [x \in Expr \X Text \X Text |-> N[x]]
      OBVIOUS
    <3> HIDE DEF N
    <3> QED
      BY <3>1, <3>2
  <2> HIDE DEF L, N
  <2> QED
    BY <2>1, <2>2, ExprRecursion
<1>2. ASSUME NEW x \in Expr
      PROVE  Step(L, N, f, x) = Body(f, x)
  <2>1. CASE x.op \in Operands
    <3>1. Body(none, x) = Body(f, x)
      BY <2>1, SMTT(30) DEF TypedBody
    <3> HIDE DEF Body
    <3> QED
      BY <2>1, <3>1 DEF Step
  <2>2. CASE x.op \in Operators
    <3>1. x.left \in Expr /\ x.right \in Expr /\ x.op \notin Operands
      BY <2>2, ExprShape DEF IsOperator
    <3>2. << x, f[x.left], f[x.right] >> \in Expr \X Text \X Text
      BY <3>1
    <3>3. Step(L, N, f, x) = N[<< x, f[x.left], f[x.right] >>]
      BY <3>1 DEF Step
    <3> QED
      BY <2>2, <3>1, <3>2, <3>3 DEF TypedBody
  <2> QED
    BY <2>1, <2>2, ExprShape DEF IsOperator
<1>3. f = [x \in Expr |-> Body(f, x)]
  BY <1>1, <1>2
<1>4. typed = [x \in Expr |-> Body(typed, x)]
  BY <1>3
<1>5. \A x \in Expr : Typed(x, spaced) = typed[x]
  BY DEF Typed, TypedBody
<1> HIDE DEF typed
<1>6. \A x \in Expr : typed[x] = Body(typed, x)
  <2>1. \A x \in Expr : [y \in Expr |-> Body(typed, y)][x] = Body(typed, x)
    OBVIOUS
  <2> HIDE DEF Body
  <2> QED
    BY <1>4, <2>1
<1>7. \A x \in Expr : typed[x] \in Text
  <2> DEFINE S == {x \in Expr : typed[x] \in Text}
  <2>1. \A x \in Expr : x.op \in Operands => x \in S
    BY <1>6, TypedBodyTyped, ExprShape
  <2>2. \A x \in Expr : IsOperator(x) /\ x.left \in S /\ x.right \in S => x \in S
    BY <1>6, TypedBodyTyped
  <2> HIDE DEF S
  <2>3. \A x \in Expr : x \in S
    BY <2>1, <2>2, ExprInduction
  <2> QED
    BY <2>3 DEF S
<1>8. typed[e] = Body(typed, e) /\ Typed(e, spaced) = typed[e]
  BY <1>5, <1>6
<1>9. e.op \in Operators =>
        /\ Typed(e.left, spaced) = typed[e.left] /\ Typed(e.right, spaced) = typed[e.right]
        /\ e.op \notin Operands
  BY <1>5, ExprShape DEF IsOperator
<1> QED
  BY <1>7, <1>8, <1>9 DEF TypedBody

(***************************************************************************)
(* The tokens of an expression, in the order they are typed, and in that   *)
(* of its postfix.                                                         *)
(***************************************************************************)
OperandToken(e) == Tok(e.op, e.value)
SignToken(e) == Tok(e.op, 0)

SideTokens(tokens, wrapped) ==
  IF wrapped THEN << Tok("LPAREN", 0) >> \o tokens \o << Tok("RPAREN", 0) >> ELSE tokens

InfixBody(f, e) ==
  IF e.op \in Operands THEN << OperandToken(e) >>
  ELSE SideTokens(f[e.left], Level(e.left) < Level(e))
         \o << SignToken(e) >>
         \o SideTokens(f[e.right], Level(e.right) <= Level(e))

PostfixBody(f, e) ==
  IF e.op \in Operands THEN << OperandToken(e) >> ELSE f[e.left] \o f[e.right] \o << SignToken(e) >>

InfixOf == CHOOSE f \in [Expr -> Seq(Token)] : \A e \in Expr : f[e] = InfixBody(f, e)
PostfixOf == CHOOSE f \in [Expr -> Seq(Token)] : \A e \in Expr : f[e] = PostfixBody(f, e)

LEMMA ExprTokens ==
  ASSUME NEW e \in Expr
  PROVE  /\ e.op \in Operands => OperandToken(e) \in Token
         /\ e.op \in Operators => SignToken(e) \in Token
<1>1. e.op \in Operands => e.value \in Int
  BY ExprShape
<1> QED
  BY <1>1, TokTyped DEF OperandToken, SignToken

LEMMA SideTokensTyped ==
  ASSUME NEW tokens \in Seq(Token), NEW wrapped
  PROVE  SideTokens(tokens, wrapped) \in Seq(Token)
<1>1. Tok("LPAREN", 0) \in Token /\ Tok("RPAREN", 0) \in Token
  BY TokTyped
<1>2. << Tok("LPAREN", 0) >> \in Seq(Token) /\ << Tok("RPAREN", 0) >> \in Seq(Token)
  BY <1>1
<1>3. << Tok("LPAREN", 0) >> \o tokens \in Seq(Token)
  BY <1>2, ConcatTyped
<1>4. << Tok("LPAREN", 0) >> \o tokens \o << Tok("RPAREN", 0) >> \in Seq(Token)
  BY <1>2, <1>3, ConcatTyped
<1> QED
  BY <1>4 DEF SideTokens

LEMMA InfixIs ==
  ASSUME NEW e \in Expr
  PROVE  /\ InfixOf[e] \in Seq(Token)
         /\ e.op \in Operands => InfixOf[e] = << OperandToken(e) >>
         /\ e.op \in Operators =>
              InfixOf[e] = SideTokens(InfixOf[e.left], Level(e.left) < Level(e))
                             \o << SignToken(e) >>
                             \o SideTokens(InfixOf[e.right], Level(e.right) <= Level(e))
<1> DEFINE V == Seq(Token)
           L == [x \in Expr |-> IF x.op \in Operands THEN << OperandToken(x) >> ELSE << >>]
           N == [x \in Expr \X V \X V |->
                   IF x[1].op \notin Operators THEN << >>
                   ELSE SideTokens(x[2], Level(x[1].left) < Level(x[1])) \o << SignToken(x[1]) >>
                          \o SideTokens(x[3], Level(x[1].right) <= Level(x[1]))]
<1>1. PICK f \in [Expr -> V] : \A x \in Expr : f[x] = Step(L, N, f, x)
  <2>1. L \in [Expr -> V]
    BY ExprTokens
  <2>2. N \in [Expr \X V \X V -> V]
    <3>1. ASSUME NEW x \in Expr \X V \X V
          PROVE  N[x] \in V
      <4> DEFINE left == SideTokens(x[2], Level(x[1].left) < Level(x[1]))
                 right == SideTokens(x[3], Level(x[1].right) <= Level(x[1]))
                 sign == << SignToken(x[1]) >>
      <4>1. N[x] = IF x[1].op \notin Operators THEN << >> ELSE left \o sign \o right
        OBVIOUS
      <4>2. left \in V /\ right \in V /\ (x[1].op \in Operators => sign \in V)
        BY SideTokensTyped, ExprTokens
      <4> HIDE DEF left, right, sign, N
      <4>3. x[1].op \in Operators => left \o sign \o right \in V
        BY <4>2, ConcatTyped
      <4> QED
        BY <4>1, <4>3
    <3>2. N = [x \in Expr \X V \X V |-> N[x]]
      OBVIOUS
    <3> HIDE DEF N, V
    <3> QED
      BY <3>1, <3>2
  <2> HIDE DEF L, N, V
  <2> QED
    BY <2>1, <2>2, ExprRecursion
<1>2. ASSUME NEW x \in Expr
      PROVE  f[x] = InfixBody(f, x)
  <2>1. CASE x.op \in Operands
    BY <1>1, <2>1 DEF Step, InfixBody
  <2>2. CASE x.op \in Operators
    <3>1. x.left \in Expr /\ x.right \in Expr /\ x.op \notin Operands
      BY <2>2, ExprShape DEF IsOperator
    <3>2. << x, f[x.left], f[x.right] >> \in Expr \X V \X V
      BY <3>1
    <3>3. Step(L, N, f, x) = N[<< x, f[x.left], f[x.right] >>]
      BY <3>1 DEF Step
    <3> HIDE DEF V
    <3>4. N[<< x, f[x.left], f[x.right] >>] = InfixBody(f, x)
      BY <2>2, <3>1, <3>2 DEF InfixBody
    <3> QED
      BY <1>1, <3>3, <3>4
  <2> QED
    BY <2>1, <2>2, ExprShape DEF IsOperator
<1>3. InfixOf \in [Expr -> Seq(Token)] /\ InfixOf[e] = InfixBody(InfixOf, e)
  BY <1>2 DEF InfixOf
<1> QED
  BY <1>3, ExprShape DEF InfixBody, IsOperator

LEMMA PostfixIs ==
  ASSUME NEW e \in Expr
  PROVE  /\ PostfixOf[e] \in Seq(Token)
         /\ e.op \in Operands => PostfixOf[e] = << OperandToken(e) >>
         /\ e.op \in Operators =>
              PostfixOf[e] = PostfixOf[e.left] \o PostfixOf[e.right] \o << SignToken(e) >>
<1> DEFINE V == Seq(Token)
           L == [x \in Expr |-> IF x.op \in Operands THEN << OperandToken(x) >> ELSE << >>]
           N == [x \in Expr \X V \X V |->
                   IF x[1].op \notin Operators THEN << >> ELSE x[2] \o x[3] \o << SignToken(x[1]) >>]
<1>1. PICK f \in [Expr -> V] : \A x \in Expr : f[x] = Step(L, N, f, x)
  <2>1. L \in [Expr -> V]
    BY ExprTokens
  <2>2. N \in [Expr \X V \X V -> V]
    <3>1. ASSUME NEW x \in Expr \X V \X V
          PROVE  N[x] \in V
      <4> DEFINE sign == << SignToken(x[1]) >>
      <4>1. N[x] = IF x[1].op \notin Operators THEN << >> ELSE x[2] \o x[3] \o sign
        OBVIOUS
      <4>2. x[2] \in V /\ x[3] \in V /\ (x[1].op \in Operators => sign \in V)
        BY ExprTokens
      <4> HIDE DEF sign, N
      <4>3. x[1].op \in Operators => x[2] \o x[3] \o sign \in V
        BY <4>2, ConcatTyped
      <4> QED
        BY <4>1, <4>3
    <3>2. N = [x \in Expr \X V \X V |-> N[x]]
      OBVIOUS
    <3> HIDE DEF N, V
    <3> QED
      BY <3>1, <3>2
  <2> HIDE DEF L, N, V
  <2> QED
    BY <2>1, <2>2, ExprRecursion
<1>2. ASSUME NEW x \in Expr
      PROVE  f[x] = PostfixBody(f, x)
  <2>1. CASE x.op \in Operands
    BY <1>1, <2>1 DEF Step, PostfixBody
  <2>2. CASE x.op \in Operators
    <3>1. x.left \in Expr /\ x.right \in Expr /\ x.op \notin Operands
      BY <2>2, ExprShape DEF IsOperator
    <3>2. << x, f[x.left], f[x.right] >> \in Expr \X V \X V
      BY <3>1
    <3>3. Step(L, N, f, x) = N[<< x, f[x.left], f[x.right] >>]
      BY <3>1 DEF Step
    <3> HIDE DEF V
    <3>4. N[<< x, f[x.left], f[x.right] >>] = PostfixBody(f, x)
      BY <2>2, <3>1, <3>2 DEF PostfixBody
    <3> QED
      BY <1>1, <3>3, <3>4
  <2> QED
    BY <2>1, <2>2, ExprShape DEF IsOperator
<1>3. PostfixOf \in [Expr -> Seq(Token)] /\ PostfixOf[e] = PostfixBody(PostfixOf, e)
  BY <1>2 DEF PostfixOf
<1> QED
  BY <1>3, ExprShape DEF PostfixBody, IsOperator

\* The level of an operator is the precedence convert gives its token, and 1 more.
LEMMA LevelIs ==
  ASSUME NEW e \in Expr
  PROVE  /\ Level(e) \in 1 .. 7
         /\ e.op \in Operators => Level(e) = Precedence(SignToken(e)) + 1
         /\ e.op \in Operands => Level(e) = 7
<1>1. DOMAIN Levels = 1 .. 7
  BY DEF Levels
<1>2. /\ Levels[1] = {"OR"} /\ Levels[2] = {"AND"} /\ Levels[3] = {"EQUALS", "NOT_EQUALS"}
      /\ Levels[4] = {"LESS", "GREATER", "LESS_EQ", "GREATER_EQ"}
      /\ Levels[5] = {"PLUS", "MINUS"} /\ Levels[6] = {"MULTIPLY", "MODULO"} /\ Levels[7] = Operands
  BY DEF Levels
<1>3. ASSUME NEW n \in 1 .. 7, e.op \in Levels[n]
      PROVE  Level(e) = n
  <2>1. ASSUME NEW m \in 1 .. 7, e.op \in Levels[m]
        PROVE  m = n
    <3>1. n \in {1, 2, 3, 4, 5, 6, 7} /\ m \in {1, 2, 3, 4, 5, 6, 7}
      OBVIOUS
    <3> QED
      BY <1>2, <1>3, <2>1, <3>1 DEF Operands, Literals
  <2> QED
    BY <1>1, <1>3, <2>1 DEF Level
<1>4. CASE e.op \in Operands
  BY <1>2, <1>3, <1>4, ExprShape
<1>5. CASE e.op \in Operators /\ e.op \notin Operands
  <2>1. SignToken(e).type = e.op
    BY DEF SignToken, Tok
  <2>2. CASE e.op = "OR"
    BY <1>2, <1>3, <1>5, <2>1, <2>2 DEF Precedence
  <2>3. CASE e.op = "AND"
    BY <1>2, <1>3, <1>5, <2>1, <2>3 DEF Precedence
  <2>4. CASE e.op \in {"EQUALS", "NOT_EQUALS"}
    BY <1>2, <1>3, <1>5, <2>1, <2>4 DEF Precedence
  <2>5. CASE e.op \in {"LESS", "GREATER", "LESS_EQ", "GREATER_EQ"}
    BY <1>2, <1>3, <1>5, <2>1, <2>5 DEF Precedence
  <2>6. CASE e.op \in {"PLUS", "MINUS"}
    BY <1>2, <1>3, <1>5, <2>1, <2>6 DEF Precedence
  <2>7. CASE e.op \in {"MULTIPLY", "MODULO"}
    BY <1>2, <1>3, <1>5, <2>1, <2>7 DEF Precedence
  <2> QED
    BY <1>5, <2>2, <2>3, <2>4, <2>5, <2>6, <2>7 DEF Operators
<1> QED
  BY <1>4, <1>5, ExprShape DEF IsOperator

(***************************************************************************)
(* The tokenizer on the text of an expression.                             *)
(***************************************************************************)
\* The sequence t is part of s, from position i on.
At(s, i, t) ==
  /\ i \in Nat \ {0} /\ i + Len(t) <= Len(s) + 1
  /\ \A k \in 1 .. Len(t) : s[i + k - 1] = t[k]

LEMMA AtConcat ==
  ASSUME NEW S, NEW s \in Seq(S), NEW t \in Seq(S), NEW u \in Seq(S), NEW i, At(s, i, t \o u)
  PROVE  /\ At(s, i, t) /\ At(s, i + Len(t), u)
         /\ i + Len(t \o u) = (i + Len(t)) + Len(u)
<1>1. /\ Len(t \o u) = Len(t) + Len(u) /\ Len(t) \in Nat /\ Len(u) \in Nat /\ Len(s) \in Nat
      /\ \A k \in 1 .. Len(t) : (t \o u)[k] = t[k]
      /\ \A k \in 1 .. Len(u) : (t \o u)[Len(t) + k] = u[k]
  BY ConcatTyped
<1>2. i \in Nat /\ i # 0 /\ i + Len(t \o u) <= Len(s) + 1
      /\ \A k \in 1 .. Len(t \o u) : s[i + k - 1] = (t \o u)[k]
  BY DEF At
<1>3. At(s, i, t)
  <2>1. \A k \in 1 .. Len(t) : k \in 1 .. Len(t \o u)
    BY <1>1
  <2> QED
    BY <1>1, <1>2, <2>1 DEF At
<1>4. At(s, i + Len(t), u)
  <2>1. ASSUME NEW k \in 1 .. Len(u)
        PROVE  s[(i + Len(t)) + k - 1] = u[k]
    <3>1. Len(t) + k \in 1 .. Len(t \o u) /\ i + (Len(t) + k) - 1 = (i + Len(t)) + k - 1
      BY <1>1, <1>2
    <3>2. s[i + (Len(t) + k) - 1] = (t \o u)[Len(t) + k]
      BY <1>2, <3>1
    <3> QED
      BY <1>1, <3>1, <3>2
  <2> QED
    BY <1>1, <1>2, <2>1 DEF At
<1> QED
  BY <1>1, <1>2, <1>3, <1>4

\* From position i the tokenizer reads the tokens t, and goes on at j.
Reads(s, i, t, j) ==
  /\ i \in 1 .. Len(s) + 1 /\ j \in 1 .. Len(s) + 1 /\ t \in Seq(Token)
  /\ TokensFrom(s)[i] = t \o TokensFrom(s)[j]

LEMMA TokensConcat ==
  ASSUME NEW t \in Seq(Token), NEW u \in Seq(Token), NEW v \in Seq(Token)
  PROVE  (t \o u) \o v = t \o (u \o v) /\ t \o u \in Seq(Token)
<1> DEFINE S == Token
<1>1. t \in Seq(S) /\ u \in Seq(S) /\ v \in Seq(S)
  OBVIOUS
<1> HIDE DEF S
<1>2. (t \o u) \o v = t \o (u \o v)
  BY <1>1, ConcatAssociative
<1>3. t \o u \in Seq(S)
  BY <1>1, ConcatTyped
<1> QED
  BY <1>2, <1>3 DEF S

LEMMA ReadsOn ==
  ASSUME NEW s \in Text, NEW i, NEW j, NEW k, NEW t, NEW u, Reads(s, i, t, j), Reads(s, j, u, k)
  PROVE  Reads(s, i, t \o u, k)
<1> DEFINE f == TokensFrom(s)
<1>1. f[k] \in Seq(Token) /\ t \in Seq(Token) /\ u \in Seq(Token)
  BY TokensAre DEF Reads
<1>2. f[i] = t \o f[j] /\ f[j] = u \o f[k]
  BY DEF Reads
<1> HIDE DEF f
<1>3. (t \o u) \o f[k] = t \o (u \o f[k]) /\ t \o u \in Seq(Token)
  BY <1>1, TokensConcat
<1> QED
  BY <1>2, <1>3 DEF Reads, f

LEMMA ReadsSpace ==
  ASSUME NEW s \in Text, NEW i \in 1 .. Len(s), s[i].kind = "space"
  PROVE  Reads(s, i, << >>, i + 1)
<1>1. Len(s) \in Nat
  BY PieceTyped
<1>2. i \in 1 .. Len(s) + 1 /\ i + 1 \in 1 .. Len(s) + 1 /\ ~ (i > Len(s))
  BY <1>1
<1>3. TokensFrom(s)[i] = TokensFrom(s)[i + 1] /\ TokensFrom(s)[i + 1] \in Seq(Token)
  BY <1>2, TokensAre DEF From
<1>4. << >> \o TokensFrom(s)[i + 1] = TokensFrom(s)[i + 1]
  BY <1>3
<1> QED
  BY <1>2, <1>3, <1>4 DEF Reads

LEMMA ReadsOne ==
  ASSUME NEW s \in Text, NEW i \in 1 .. Len(s), s[i].kind # "space", NEW t, NEW j,
         NextToken(s, i) = Read(t, j)
  PROVE  Reads(s, i, << t >>, j)
<1>1. Len(s) \in Nat
  BY PieceTyped
<1>2. i \in 1 .. Len(s) + 1 /\ ~ (i > Len(s))
  BY <1>1
<1>3. NextToken(s, i).token = t /\ NextToken(s, i).next = j
  BY DEF Read
<1>4. t \in Token /\ j \in i + 1 .. Len(s) + 1
  BY <1>3, NextTokenRead DEF IsRead
<1>5. TokensFrom(s)[i] = << t >> \o TokensFrom(s)[j]
  BY <1>2, <1>3, TokensAre DEF From
<1> QED
  BY <1>1, <1>2, <1>4, <1>5 DEF Reads

\* Where a run ends.
LEMMA RunEndIs ==
  ASSUME NEW s \in Text, NEW i \in 1 .. Len(s), NEW m \in i .. Len(s), NEW kinds, "end" \notin kinds,
         \A k \in i .. m : s[k].kind \in kinds, KindAt(s, m + 1) \notin kinds
  PROVE  RunEnd(s, i, kinds) = m
<1>1. Len(s) \in Nat /\ DOMAIN s = 1 .. Len(s)
  BY PieceTyped
<1>2. ASSUME NEW j \in i .. Len(s), \A k \in i .. j : s[k].kind \in kinds, KindAt(s, j + 1) \notin kinds
      PROVE  j = m
  <2>1. CASE j < m
    <3>1. j + 1 \in i .. m /\ j + 1 \in DOMAIN s
      BY <1>1, <2>1
    <3> QED
      BY <1>2, <3>1 DEF KindAt
  <2>2. CASE m < j
    <3>1. m + 1 \in i .. j /\ m + 1 \in DOMAIN s
      BY <1>1, <2>2
    <3> QED
      BY <1>2, <3>1 DEF KindAt
  <2> QED
    BY <2>1, <2>2
<1> QED
  BY <1>2 DEF RunEnd

\* What follows an operand in a text ends it.
WordEnds(s, i) == KindAt(s, i) \notin NamePieces

LEMMA OperandIsRead ==
  ASSUME NEW s \in Text, NEW e, e.op \in Operands, e.value \in Int,
         NEW i, At(s, i, OperandText(e)), WordEnds(s, i + Len(OperandText(e)))
  PROVE  Reads(s, i, << OperandToken(e) >>, i + Len(OperandText(e)))
<1>1. Len(s) \in Nat /\ DOMAIN s = 1 .. Len(s)
  BY PieceTyped
<1>2. i \in Nat /\ i # 0 /\ i + Len(OperandText(e)) <= Len(s) + 1
      /\ \A k \in 1 .. Len(OperandText(e)) : s[i + k - 1] = OperandText(e)[k]
  BY DEF At
<1>3. "end" \notin NamePieces
  BY DEF NamePieces, Keywords
<1>4. CASE e.op = "IDENTIFIER"
  <2>1. OperandText(e) = << Piece("name", e.value) >>
    BY <1>4 DEF OperandText
  <2>2. Len(OperandText(e)) = 1 /\ i \in 1 .. Len(s) /\ s[i] = Piece("name", e.value)
    BY <1>1, <1>2, <2>1
  <2>3. s[i].kind = "name" /\ s[i].value = e.value /\ s[i].kind \in NamePieces
    BY <2>2 DEF Piece, NamePieces
  <2>4. RunEnd(s, i, NamePieces) = i
    BY <1>1, <1>3, <2>2, <2>3, RunEndIs DEF WordEnds
  <2>5. IdentifierOrKeyword(s, i) = Read(Tok("IDENTIFIER", e.value), i + 1)
    BY <2>2, <2>3, <2>4 DEF IdentifierOrKeyword, Keywords
  <2>6. NextToken(s, i) = Read(Tok("IDENTIFIER", e.value), i + 1)
    BY <2>3, <2>5 DEF NextToken, Keywords, Arithmetics, Comparisons
  <2> QED
    BY <1>4, <2>2, <2>3, <2>6, ReadsOne DEF OperandToken
<1>5. CASE e.op = "NUMBER_INT"
  <2>1. OperandText(e) = << Piece("digits", e.value) >>
    BY <1>5 DEF OperandText
  <2>2. Len(OperandText(e)) = 1 /\ i \in 1 .. Len(s) /\ s[i] = Piece("digits", e.value)
    BY <1>1, <1>2, <2>1
  <2>3. s[i].kind = "digits" /\ s[i].value = e.value
    BY <2>2 DEF Piece
  <2>4. RunEnd(s, i, {"digits", "."}) = i
    <3>1. KindAt(s, i + 1) \notin {"digits", "."}
      BY <2>2 DEF WordEnds, NamePieces
    <3> QED
      BY <1>1, <2>2, <2>3, <3>1, RunEndIs
  <2>5. Number(s, i) = Read(Tok("NUMBER_INT", e.value), i + 1)
    BY <2>2, <2>3, <2>4 DEF Number
  <2>6. NextToken(s, i) = Read(Tok("NUMBER_INT", e.value), i + 1)
    BY <2>3, <2>5 DEF NextToken, Keywords, Arithmetics, Comparisons
  <2> QED
    BY <1>5, <2>2, <2>3, <2>6, ReadsOne DEF OperandToken
<1>6. CASE e.op = "NUMBER_FLOAT"
  <2> DEFINE whole == e.value \div Tenths
             rest == e.value % Tenths
  <2>0. Tenths * whole + rest = e.value
    BY DEF Tenths
  <2> HIDE DEF whole, rest
  <2>1. OperandText(e) = << Piece("digits", whole), Piece(".", 0), Piece("digits", rest) >>
    BY <1>6 DEF OperandText, whole, rest
  <2>2. /\ Len(OperandText(e)) = 3 /\ i \in 1 .. Len(s) /\ i + 2 \in i .. Len(s)
        /\ s[i] = Piece("digits", whole) /\ s[i + 1] = Piece(".", 0) /\ s[i + 2] = Piece("digits", rest)
    <3>1. Len(OperandText(e)) = 3
      BY <2>1
    <3>2. /\ i + 1 - 1 = i /\ i + 2 - 1 = i + 1 /\ i + 3 - 1 = i + 2
          /\ 1 \in 1 .. Len(OperandText(e)) /\ 2 \in 1 .. Len(OperandText(e))
          /\ 3 \in 1 .. Len(OperandText(e))
      BY <1>2, <3>1
    <3> QED
      BY <1>1, <1>2, <2>1, <3>1, <3>2
  <2>3. /\ s[i].kind = "digits" /\ s[i].value = whole /\ s[i + 1].kind = "."
        /\ s[i + 2].kind = "digits" /\ s[i + 2].value = rest
    BY <2>2 DEF Piece
  <2>4. RunEnd(s, i, {"digits", "."}) = i + 2
    <3>1. KindAt(s, (i + 2) + 1) \notin {"digits", "."}
      <4>1. (i + 2) + 1 = i + 3
        BY <1>2
      <4> QED
        BY <2>2, <4>1 DEF WordEnds, NamePieces
    <3>2. \A k \in i .. i + 2 : k = i \/ k = i + 1 \/ k = i + 2
      BY <1>2
    <3>3. \A k \in i .. i + 2 : s[k].kind \in {"digits", "."}
      BY <2>3, <3>2
    <3> QED
      BY <1>1, <2>2, <3>1, <3>3, RunEndIs
  <2>5. Number(s, i) = Read(Tok("NUMBER_FLOAT", e.value), i + 3)
    <3>1. i + 1 \in i .. i + 2 /\ (i + 2) + 1 = i + 3
      BY <1>2
    <3>2. KindAt(s, i + 2) = "digits"
      BY <1>1, <2>2, <2>3 DEF KindAt
    <3>3. Number(s, i) = Read(Tok("NUMBER_FLOAT", Tenths * s[i].value + s[i + 2].value), (i + 2) + 1)
      BY <2>3, <2>4, <3>1, <3>2 DEF Number
    <3> QED
      BY <2>0, <2>3, <3>1, <3>3
  <2>6. NextToken(s, i) = Read(Tok("NUMBER_FLOAT", e.value), i + 3)
    BY <2>3, <2>5 DEF NextToken, Keywords, Arithmetics, Comparisons
  <2> QED
    BY <1>6, <2>2, <2>3, <2>6, ReadsOne DEF OperandToken
<1>7. CASE e.op = "STRING_LITERAL"
  <2>1. OperandText(e) = << Piece("quote", 0), Piece("name", e.value), Piece("quote", 0) >>
    BY <1>7 DEF OperandText
  <2>2. /\ Len(OperandText(e)) = 3 /\ i \in 1 .. Len(s) /\ i + 2 \in i .. Len(s)
        /\ s[i] = Piece("quote", 0) /\ s[i + 1] = Piece("name", e.value) /\ s[i + 2] = Piece("quote", 0)
    <3>1. Len(OperandText(e)) = 3
      BY <2>1
    <3>2. /\ i + 1 - 1 = i /\ i + 2 - 1 = i + 1 /\ i + 3 - 1 = i + 2
          /\ 1 \in 1 .. Len(OperandText(e)) /\ 2 \in 1 .. Len(OperandText(e))
          /\ 3 \in 1 .. Len(OperandText(e))
      BY <1>2, <3>1
    <3> QED
      BY <1>1, <1>2, <2>1, <3>1, <3>2
  <2>3. s[i].kind = "quote" /\ s[i + 1].kind = "name" /\ s[i + 1].value = e.value
        /\ s[i + 2].kind = "quote"
    BY <2>2 DEF Piece
  <2> DEFINE IsEnd(j) == /\ KindAt(s, j) \in {"quote", "end"}
                         /\ \A m \in i + 1 .. j - 1 : s[m].kind # "quote"
             end == CHOOSE j \in i + 1 .. Len(s) + 1 : IsEnd(j)
  <2>4. end = i + 2
    <3>1. KindAt(s, i + 2) = "quote" /\ KindAt(s, i + 1) = "name"
      BY <1>1, <2>2, <2>3 DEF KindAt
    <3>2. IsEnd(i + 2) /\ i + 2 \in i + 1 .. Len(s) + 1
      BY <1>1, <1>2, <2>2, <2>3, <3>1
    <3>3. ASSUME NEW j \in i + 1 .. Len(s) + 1, IsEnd(j)
          PROVE  j = i + 2
      <4>1. j # i + 1
        BY <3>1, <3>3
      <4>2. j > i + 2 => i + 2 \in i + 1 .. j - 1
        BY <1>2
      <4> QED
        BY <1>1, <1>2, <2>3, <3>3, <4>1, <4>2
    <3> HIDE DEF IsEnd
    <3> QED
      BY <3>2, <3>3
  <2>5. String(s, i) = Read(Tok("STRING_LITERAL", e.value), i + 3)
    <3>1. String(s, i) = Read(Tok("STRING_LITERAL", IF end = i + 2 THEN s[i + 1].value ELSE Unknown),
                              IF end > Len(s) THEN end ELSE end + 1)
      BY DEF String, end, IsEnd
    <3> HIDE DEF end, IsEnd
    <3>2. ~ (i + 2 > Len(s)) /\ (i + 2) + 1 = i + 3
      BY <1>1, <1>2, <2>2
    <3> QED
      BY <2>3, <2>4, <3>1, <3>2
  <2>6. NextToken(s, i) = Read(Tok("STRING_LITERAL", e.value), i + 3)
    BY <2>3, <2>5 DEF NextToken, Keywords, Arithmetics, Comparisons
  <2> QED
    BY <1>7, <2>2, <2>3, <2>6, ReadsOne DEF OperandToken
<1> QED
  BY <1>4, <1>5, <1>6, <1>7 DEF Operands, Literals

LEMMA OneChar ==
  ASSUME NEW s \in Text, NEW i, NEW c \in Kinds, At(s, i, Chars(<< c >>))
  PROVE  /\ i \in 1 .. Len(s) /\ s[i].kind = c
         /\ Len(Chars(<< c >>)) = 1 /\ Chars(<< c >>)[1].kind = c
<1>1. << c >> \in Seq(Kinds) /\ Len(<< c >>) = 1
  OBVIOUS
<1>2. Len(Chars(<< c >>)) = 1 /\ Chars(<< c >>)[1] = Piece(c, 0)
  <2>1. 1 \in 1 .. Len(<< c >>) /\ << c >>[1] = c
    OBVIOUS
  <2> QED
    BY <1>1, <2>1, CharsTyped
<1>3. Len(s) \in Nat
  BY PieceTyped
<1>4. i \in Nat /\ i # 0 /\ i + 1 <= Len(s) + 1 /\ s[i + 1 - 1] = Piece(c, 0)
  BY <1>2 DEF At
<1> QED
  BY <1>2, <1>3, <1>4 DEF Piece

LEMMA PairOfChars ==
  ASSUME NEW c \in Kinds, NEW d \in Kinds
  PROVE  /\ Len(Chars(<< c, d >>)) = 2 /\ Chars(<< c, d >>)[1].kind = c
         /\ Chars(<< c, d >>)[1] = Piece(c, 0) /\ Chars(<< c, d >>)[2] = Piece(d, 0)
<1>1. << c, d >> \in Seq(Kinds) /\ Len(<< c, d >>) = 2
  OBVIOUS
<1>2. 1 \in 1 .. Len(<< c, d >>) /\ 2 \in 1 .. Len(<< c, d >>)
      /\ << c, d >>[1] = c /\ << c, d >>[2] = d
  OBVIOUS
<1>3. /\ Len(Chars(<< c, d >>)) = 2
      /\ Chars(<< c, d >>)[1] = Piece(c, 0) /\ Chars(<< c, d >>)[2] = Piece(d, 0)
  BY <1>1, <1>2, CharsTyped
<1> QED
  BY <1>3 DEF Piece

LEMMA TwoChars ==
  ASSUME NEW s \in Text, NEW i, NEW c \in Kinds, NEW d \in Kinds, At(s, i, Chars(<< c, d >>))
  PROVE  i \in 1 .. Len(s) /\ s[i].kind = c /\ KindAt(s, i + 1) = d
<1>1. /\ Len(Chars(<< c, d >>)) = 2
      /\ Chars(<< c, d >>)[1] = Piece(c, 0) /\ Chars(<< c, d >>)[2] = Piece(d, 0)
  BY PairOfChars
<1>2. Len(s) \in Nat /\ DOMAIN s = 1 .. Len(s)
  BY PieceTyped
<1>3. /\ i \in Nat /\ i # 0 /\ i + 2 <= Len(s) + 1
      /\ s[i + 1 - 1] = Piece(c, 0) /\ s[i + 2 - 1] = Piece(d, 0)
  BY <1>1 DEF At
<1>4. i + 1 - 1 = i /\ i + 2 - 1 = i + 1 /\ i \in 1 .. Len(s) /\ i + 1 \in 1 .. Len(s)
  BY <1>2, <1>3
<1> QED
  BY <1>1, <1>2, <1>3, <1>4 DEF Piece, KindAt

\* The pieces of an operator make its token, if no = sign and, behind a word, no
\* more of a word follows.
LEMMA SymbolIsRead ==
  ASSUME NEW s \in Text, NEW i, NEW op \in Operators, At(s, i, Chars(Symbol(op))),
         KindAt(s, i + Len(Symbol(op))) # "=",
         op \in {"AND", "OR"} => WordEnds(s, i + Len(Symbol(op)))
  PROVE  /\ Reads(s, i, << Tok(op, 0) >>, i + Len(Symbol(op)))
         /\ Len(Chars(Symbol(op))) = Len(Symbol(op)) /\ Len(Symbol(op)) \in {1, 2}
         /\ Chars(Symbol(op))[1].kind # "space"
         /\ op \notin {"AND", "OR"} => Chars(Symbol(op))[1].kind \notin NamePieces
<1> DEFINE signs == {"+", "-", "*", "%", "=", "!", "<", ">"}
<1>1. signs \union {"AND", "OR"} \subseteq Kinds
  BY DEF Kinds, Keywords
<1>2. \A c \in signs : c \notin NamePieces /\ c # "space"
  BY DEF NamePieces, Keywords
<1>3. ASSUME NEW c \in {"+", "-", "*", "%"}, Symbol(op) = << c >>, Tok(op, 0) = Tok(Arithmetics[c], 0)
      PROVE  Reads(s, i, << Tok(op, 0) >>, i + 1)
  <2>1. i \in 1 .. Len(s) /\ s[i].kind = c
    BY <1>1, <1>3, OneChar
  <2>2. NextToken(s, i) = Operator(s, i)
    BY <2>1 DEF NextToken, Keywords, Arithmetics, Comparisons
  <2>3. Operator(s, i) = Read(Tok(op, 0), i + 1)
    BY <1>3, <2>1 DEF Operator, Arithmetics
  <2> QED
    BY <2>1, <2>2, <2>3, ReadsOne
<1>4. ASSUME NEW c \in {"<", ">"}, Symbol(op) = << c >>, Tok(op, 0) = Tok(Comparisons[c], 0)
      PROVE  Reads(s, i, << Tok(op, 0) >>, i + 1)
  <2>1. i \in 1 .. Len(s) /\ s[i].kind = c /\ KindAt(s, i + 1) # "="
    BY <1>1, <1>4, OneChar
  <2>2. NextToken(s, i) = Operator(s, i)
    BY <2>1 DEF NextToken, Keywords, Arithmetics, Comparisons
  <2>3. Operator(s, i) = Read(Tok(op, 0), i + 1)
    BY <1>4, <2>1 DEF Operator, Arithmetics
  <2> QED
    BY <2>1, <2>2, <2>3, ReadsOne
<1>5. ASSUME NEW c \in {"=", "!", "<", ">"}, Symbol(op) = << c, "=" >>,
             Tok(op, 0) = Tok(WithEqualSign[c], 0)
      PROVE  Reads(s, i, << Tok(op, 0) >>, i + 2)
  <2>1. i \in 1 .. Len(s) /\ s[i].kind = c /\ KindAt(s, i + 1) = "="
    BY <1>1, <1>5, TwoChars
  <2>2. NextToken(s, i) = Operator(s, i)
    BY <2>1 DEF NextToken, Keywords, Arithmetics, Comparisons
  <2>3. Operator(s, i) = Read(Tok(op, 0), i + 2)
    BY <1>5, <2>1 DEF Operator, Arithmetics
  <2> QED
    BY <2>1, <2>2, <2>3, ReadsOne
<1>6. ASSUME op \in {"AND", "OR"}
      PROVE  Reads(s, i, << Tok(op, 0) >>, i + 1)
  <2>1. Symbol(op) = << op >> /\ Len(Symbol(op)) = 1
    BY <1>6, SymbolIs
  <2>2. i \in 1 .. Len(s) /\ s[i].kind = op
    BY <1>1, <1>6, <2>1, OneChar
  <2>3. Len(s) \in Nat /\ op \in NamePieces /\ op \in Keywords /\ "end" \notin NamePieces
    BY <1>6, PieceTyped DEF NamePieces, Keywords
  <2>4. RunEnd(s, i, NamePieces) = i
    BY <1>6, <2>1, <2>2, <2>3, RunEndIs DEF WordEnds
  <2>5. IdentifierOrKeyword(s, i) = Read(Tok(op, 0), i + 1)
    BY <2>2, <2>3, <2>4 DEF IdentifierOrKeyword
  <2>6. NextToken(s, i) = Read(Tok(op, 0), i + 1)
    BY <1>6, <2>2, <2>5 DEF NextToken, Keywords, Arithmetics, Comparisons
  <2> QED
    BY <1>6, <2>2, <2>6, ReadsOne
<1>7. ASSUME NEW c \in signs \union {"AND", "OR"}, Symbol(op) = << c >>
      PROVE  Len(Chars(Symbol(op))) = 1 /\ Len(Symbol(op)) = 1 /\ Chars(Symbol(op))[1].kind = c
  BY <1>1, <1>7, OneChar
<1>8. ASSUME NEW c \in signs, Symbol(op) = << c, "=" >>
      PROVE  Len(Chars(Symbol(op))) = 2 /\ Len(Symbol(op)) = 2 /\ Chars(Symbol(op))[1].kind = c
  <2>1. c \in Kinds /\ "=" \in Kinds
    BY <1>1
  <2>2. Len(Chars(<< c, "=" >>)) = 2 /\ Chars(<< c, "=" >>)[1].kind = c
    BY <2>1, PairOfChars
  <2> QED
    BY <1>8, <2>2
<1>9. CASE op \in {"PLUS", "MINUS", "MULTIPLY", "MODULO"}
  <2>1. PICK c \in {"+", "-", "*", "%"} : Symbol(op) = << c >> /\ Arithmetics[c] = op
    BY <1>9, SymbolIs DEF Arithmetics
  <2> QED
    BY <1>2, <1>3, <1>7, <2>1
<1>10. CASE op \in {"LESS", "GREATER"}
  <2>1. PICK c \in {"<", ">"} : Symbol(op) = << c >> /\ Comparisons[c] = op
    BY <1>10, SymbolIs DEF Comparisons
  <2> QED
    BY <1>2, <1>4, <1>7, <2>1
<1>11. CASE op \in {"EQUALS", "NOT_EQUALS", "LESS_EQ", "GREATER_EQ"}
  <2>1. PICK c \in {"=", "!", "<", ">"} : Symbol(op) = << c, "=" >> /\ WithEqualSign[c] = op
    BY <1>11, SymbolIs DEF WithEqualSign
  <2> QED
    BY <1>2, <1>5, <1>8, <2>1
<1>12. CASE op \in {"AND", "OR"}
  <2>1. Symbol(op) = << op >>
    BY <1>12, SymbolIs
  <2> QED
    BY <1>6, <1>7, <1>12, <2>1
<1> QED
  BY <1>9, <1>10, <1>11, <1>12 DEF Operators

LEMMA SpaceIsRead ==
  ASSUME NEW s \in Text, NEW i, At(s, i, Space)
  PROVE  /\ Reads(s, i, << >>, i + 1) /\ Len(Space) = 1
         /\ Space[1].kind = "space" /\ KindAt(s, i) = "space"
<1>1. i \in 1 .. Len(s) /\ s[i].kind = "space" /\ Len(Space) = 1 /\ Space[1].kind = "space"
  BY OneChar DEF Space, Kinds
<1> QED
  BY <1>1, PieceTyped, ReadsSpace DEF KindAt

\* The spaces around a sign are skipped.
LEMMA SignIsRead ==
  ASSUME NEW s \in Text, NEW i, NEW op \in Operators, NEW spaced, At(s, i, Sign(op, spaced)),
         KindAt(s, i + Len(Sign(op, spaced))) # "="
  PROVE  /\ Reads(s, i, << Tok(op, 0) >>, i + Len(Sign(op, spaced)))
         /\ Len(Sign(op, spaced)) >= 1 /\ Sign(op, spaced)[1].kind \notin NamePieces
<1> DEFINE c == Chars(Symbol(op))
           P == [kind : Kinds, value : Int]
<1>1. c \in Seq(P) /\ Space \in Seq(P) /\ s \in Seq(P)
  <2>1. << "space" >> \in Seq(Kinds)
    BY DEF Kinds
  <2> QED
    BY <2>1, SymbolTyped, CharsTyped DEF Text, Space
<1>2. Len(c) = Len(Symbol(op)) /\ Len(c) \in Nat
  BY SymbolTyped, CharsTyped
<1>3. CASE spaced \/ op \in {"AND", "OR"}
  <2>1. Sign(op, spaced) = (Space \o c) \o Space
    BY <1>3 DEF Sign
  <2> HIDE DEF c, P
  <2>2. Space \o c \in Seq(P) /\ Len(Space \o c) = Len(Space) + Len(c)
    BY <1>1, ConcatTyped
  <2>3. /\ At(s, i, Space \o c) /\ At(s, i + Len(Space \o c), Space)
        /\ i + Len(Sign(op, spaced)) = (i + Len(Space \o c)) + Len(Space)
    <3> DEFINE t == Space \o c
    <3>1. At(s, i, t \o Space) /\ t \in Seq(P)
      BY <2>1, <2>2
    <3> HIDE DEF t
    <3>2. At(s, i, t) /\ At(s, i + Len(t), Space) /\ i + Len(t \o Space) = (i + Len(t)) + Len(Space)
      BY <1>1, <3>1, AtConcat
    <3> QED
      BY <2>1, <3>2 DEF t
  <2>4. At(s, i, Space) /\ At(s, i + Len(Space), c) /\ i + Len(Space \o c) = (i + Len(Space)) + Len(c)
    BY <1>1, <2>3, AtConcat
  <2>5. /\ Len(Space) = 1 /\ Space[1].kind = "space"
        /\ Reads(s, i, << >>, i + 1)
        /\ Reads(s, i + Len(Space \o c), << >>, (i + Len(Space \o c)) + 1)
        /\ KindAt(s, i + Len(Space \o c)) = "space"
    BY <2>3, <2>4, SpaceIsRead
  <2>6. Reads(s, i + 1, << Tok(op, 0) >>, (i + 1) + Len(c))
    <3>1. At(s, i + 1, Chars(Symbol(op)))
      BY <2>4, <2>5 DEF c
    <3>2. KindAt(s, (i + 1) + Len(Symbol(op))) = "space"
      BY <1>2, <2>4, <2>5
    <3>3. WordEnds(s, (i + 1) + Len(Symbol(op)))
      BY <3>2 DEF WordEnds, NamePieces, Keywords
    <3> QED
      BY <1>2, <3>1, <3>2, <3>3, SymbolIsRead
  <2>7. Reads(s, i, << >> \o << Tok(op, 0) >>, (i + 1) + Len(c))
    BY <2>5, <2>6, ReadsOn
  <2>8. Reads(s, i, (<< >> \o << Tok(op, 0) >>) \o << >>, (i + Len(Space \o c)) + 1)
    BY <2>4, <2>5, <2>7, ReadsOn
  <2>9. (<< >> \o << Tok(op, 0) >>) \o << >> = << Tok(op, 0) >>
    BY ConcatEmptySeq
  <2>10. Sign(op, spaced)[1] = Space[1] /\ Len(Sign(op, spaced)) >= 1
    <3>1. Len(Sign(op, spaced)) = Len(Space \o c) + Len(Space) /\ Sign(op, spaced)[1] = (Space \o c)[1]
      BY <1>1, <1>2, <2>1, <2>2, <2>5, ConcatTyped
    <3> QED
      BY <1>1, <1>2, <2>2, <2>5, <3>1, ConcatTyped
  <2> QED
    BY <2>3, <2>5, <2>8, <2>9, <2>10 DEF NamePieces, Keywords
<1>4. CASE ~ (spaced \/ op \in {"AND", "OR"})
  <2>1. Sign(op, spaced) = c
    BY <1>4 DEF Sign
  <2>2. At(s, i, Chars(Symbol(op))) /\ KindAt(s, i + Len(Symbol(op))) # "="
    BY <1>2, <2>1
  <2>3. op \in {"AND", "OR"} => WordEnds(s, i + Len(Symbol(op)))
    BY <1>4
  <2> QED
    BY <1>2, <1>4, <2>1, <2>2, <2>3, SymbolIsRead, SMTT(30)
<1> QED
  BY <1>3, <1>4

\* The first piece of a sequence that is part of a text.
LEMMA FirstAt ==
  ASSUME NEW s \in Text, NEW i, NEW t \in Text, At(s, i, t), Len(t) >= 1
  PROVE  i \in 1 .. Len(s) /\ KindAt(s, i) = t[1].kind
<1>1. Len(t) \in Nat /\ 1 \in 1 .. Len(t) /\ s[i + 1 - 1] = t[1]
  BY PieceTyped DEF At
<1>2. i \in 1 .. Len(s) /\ i + 1 - 1 = i /\ DOMAIN s = 1 .. Len(s)
  BY <1>1, PieceTyped DEF At
<1> QED
  BY <1>1, <1>2 DEF KindAt

\* The text of an expression starts with an operand or a parenthesis.
Starts(text) == Len(text) >= 1 /\ text[1].kind \in {"name", "digits", "quote", "("}

LEMMA ParenthesesTyped ==
  /\ Chars(<< "(" >>) \in Text /\ Len(Chars(<< "(" >>)) = 1 /\ Chars(<< "(" >>)[1].kind = "("
  /\ Chars(<< ")" >>) \in Text /\ Len(Chars(<< ")" >>)) = 1 /\ Chars(<< ")" >>)[1].kind = ")"
<1>1. << "(" >> \in Seq(Kinds) /\ << ")" >> \in Seq(Kinds)
  BY DEF Kinds
<1>2. 1 \in 1 .. Len(<< "(" >>) /\ 1 \in 1 .. Len(<< ")" >>)
  OBVIOUS
<1>3. /\ Len(<< "(" >>) = 1 /\ Len(<< ")" >>) = 1
      /\ Piece(<< "(" >>[1], 0).kind = "(" /\ Piece(<< ")" >>[1], 0).kind = ")"
  BY DEF Piece
<1>4. /\ Chars(<< "(" >>) \in Text /\ Len(Chars(<< "(" >>)) = Len(<< "(" >>)
      /\ Chars(<< "(" >>)[1] = Piece(<< "(" >>[1], 0)
  BY <1>1, <1>2, CharsTyped
<1>5. /\ Chars(<< ")" >>) \in Text /\ Len(Chars(<< ")" >>)) = Len(<< ")" >>)
      /\ Chars(<< ")" >>)[1] = Piece(<< ")" >>[1], 0)
  BY <1>1, <1>2, CharsTyped
<1> QED
  BY <1>3, <1>4, <1>5

LEMMA StartsBefore ==
  ASSUME NEW text \in Text, Starts(text), NEW more \in Text
  PROVE  Starts(text \o more)
<1> DEFINE P == [kind : Kinds, value : Int]
<1>1. text \in Seq(P) /\ more \in Seq(P) /\ Len(more) \in Nat /\ Len(text) \in Nat
  BY PieceTyped DEF Text
<1> HIDE DEF P
<1>2. Len(text \o more) = Len(text) + Len(more) /\ \A i \in 1 .. Len(text) : (text \o more)[i] = text[i]
  BY <1>1, ConcatTyped
<1>3. 1 \in 1 .. Len(text)
  BY <1>1 DEF Starts
<1> QED
  BY <1>1, <1>2, <1>3 DEF Starts

LEMMA SideStarts ==
  ASSUME NEW text \in Text, Starts(text), NEW wrapped
  PROVE  Starts(Side(text, wrapped))
<1>1. CASE wrapped
  <2>1. Starts(Chars(<< "(" >>)) /\ Chars(<< "(" >>) \in Text /\ Chars(<< ")" >>) \in Text
    BY ParenthesesTyped DEF Starts
  <2>2. Starts(Chars(<< "(" >>) \o text) /\ Chars(<< "(" >>) \o text \in Text
    BY <2>1, StartsBefore, TextConcat
  <2>3. Starts((Chars(<< "(" >>) \o text) \o Chars(<< ")" >>))
    BY <2>1, <2>2, StartsBefore
  <2> QED
    BY <1>1, <2>3 DEF Side
<1>2. CASE ~ wrapped
  BY <1>2 DEF Side
<1> QED
  BY <1>1, <1>2

LEMMA TypedStarts ==
  ASSUME NEW spaced
  PROVE  \A e \in Expr : Starts(Typed(e, spaced))
<1> DEFINE S == {e \in Expr : Starts(Typed(e, spaced))}
<1>1. \A e \in Expr : e.op \in Operands => e \in S
  <2> SUFFICES ASSUME NEW e \in Expr, e.op \in Operands
               PROVE  Starts(Typed(e, spaced))
    OBVIOUS
  <2>1. Typed(e, spaced) = OperandText(e)
    BY TypedIs
  <2>2. Starts(OperandText(e))
    BY DEF Starts, OperandText, Piece, Operands, Literals
  <2> QED
    BY <2>1, <2>2
<1>2. \A e \in Expr : IsOperator(e) /\ e.left \in S /\ e.right \in S => e \in S
  <2> SUFFICES ASSUME NEW e \in Expr, IsOperator(e), e.left \in S, e.right \in S
               PROVE  Starts(Typed(e, spaced))
    OBVIOUS
  <2> DEFINE A == Side(Typed(e.left, spaced), Level(e.left) < Level(e))
             B == Sign(e.op, spaced)
             C == Side(Typed(e.right, spaced), Level(e.right) <= Level(e))
  <2>1. Typed(e, spaced) = (A \o B) \o C
    BY TypedIs DEF IsOperator
  <2>2. A \in Text /\ B \in Text /\ C \in Text
    BY TypedIs, SideTyped, SignTyped DEF IsOperator
  <2>3. Starts(A)
    BY TypedIs, SideStarts DEF IsOperator
  <2> HIDE DEF A, B, C
  <2>4. Starts(A \o B) /\ A \o B \in Text
    BY <2>2, <2>3, StartsBefore, TextConcat
  <2> QED
    BY <2>1, <2>2, <2>4, StartsBefore
<1> HIDE DEF S
<1>3. \A e \in Expr : e \in S
  BY <1>1, <1>2, ExprInduction
<1> QED
  BY <1>3 DEF S

\* The text of an expression is read as its tokens, wherever it stands in a text, if
\* what follows does not make a longer word of its end.
IsReadAs(text, tokens) ==
  \A s \in Text : \A i \in Nat :
    At(s, i, text) /\ WordEnds(s, i + Len(text)) => Reads(s, i, tokens, i + Len(text))

LEMMA SideIsRead ==
  ASSUME NEW text \in Text, NEW tokens, IsReadAs(text, tokens), NEW wrapped
  PROVE  IsReadAs(Side(text, wrapped), SideTokens(tokens, wrapped))
<1>1. CASE ~ wrapped
  BY <1>1 DEF Side, SideTokens
<1>2. CASE wrapped
  <2> DEFINE opening == Chars(<< "(" >>)
             closing == Chars(<< ")" >>)
             P == [kind : Kinds, value : Int]
  <2> SUFFICES ASSUME NEW s \in Text, NEW i \in Nat, At(s, i, (opening \o text) \o closing)
               PROVE  Reads(s, i, (<< Tok("LPAREN", 0) >> \o tokens) \o << Tok("RPAREN", 0) >>,
                            i + Len((opening \o text) \o closing))
    BY <1>2 DEF IsReadAs, Side, SideTokens
  <2>1. opening \in Seq(P) /\ closing \in Seq(P) /\ text \in Seq(P) /\ s \in Seq(P)
    BY ParenthesesTyped DEF Text
  <2>2. Len(opening) = 1 /\ Len(closing) = 1 /\ Len(text) \in Nat
    BY <2>1, ParenthesesTyped
  <2>3. opening \o text \in Seq(P)
    BY <2>1
  <2> HIDE DEF P
  <2>4. /\ At(s, i, opening \o text) /\ At(s, i + Len(opening \o text), closing)
        /\ i + Len((opening \o text) \o closing) = (i + Len(opening \o text)) + Len(closing)
    <3> DEFINE t == opening \o text
    <3>1. At(s, i, t \o closing) /\ t \in Seq(P)
      BY <2>3
    <3> HIDE DEF t, closing
    <3>2. At(s, i, t) /\ At(s, i + Len(t), closing) /\ i + Len(t \o closing) = (i + Len(t)) + Len(closing)
      BY <2>1, <3>1, AtConcat
    <3> QED
      BY <3>2 DEF t
  <2>5. /\ At(s, i, opening) /\ At(s, i + Len(opening), text)
        /\ i + Len(opening \o text) = (i + Len(opening)) + Len(text)
    <3> HIDE DEF opening
    <3> QED
      BY <2>1, <2>4, AtConcat
  <2> DEFINE j == (i + 1) + Len(text)
  <2>6. At(s, i + 1, text) /\ At(s, j, closing) /\ i + Len((opening \o text) \o closing) = j + 1
    BY <2>2, <2>4, <2>5
  <2>7. /\ i \in 1 .. Len(s) /\ s[i].kind = "(" /\ j \in 1 .. Len(s) /\ s[j].kind = ")"
    <3>1. "(" \in Kinds /\ ")" \in Kinds
      BY DEF Kinds
    <3> QED
      BY <2>5, <2>6, <3>1, OneChar
  <2>8. Reads(s, i, << Tok("LPAREN", 0) >>, i + 1)
    <3>1. NextToken(s, i) = Read(Tok("LPAREN", 0), i + 1)
      BY <2>7 DEF NextToken, Keywords, Arithmetics, Comparisons
    <3> QED
      BY <2>7, <3>1, ReadsOne
  <2>9. Reads(s, j, << Tok("RPAREN", 0) >>, j + 1)
    <3>1. NextToken(s, j) = Read(Tok("RPAREN", 0), j + 1)
      BY <2>7 DEF NextToken, Keywords, Arithmetics, Comparisons
    <3> QED
      BY <2>7, <3>1, ReadsOne
  <2>10. Reads(s, i + 1, tokens, j)
    <3>1. WordEnds(s, j)
      BY <2>7, PieceTyped DEF WordEnds, KindAt, NamePieces, Keywords
    <3> QED
      BY <2>6, <3>1 DEF IsReadAs
  <2> HIDE DEF j, opening, closing
  <2>11. Reads(s, i, << Tok("LPAREN", 0) >> \o tokens, j)
    BY <2>8, <2>10, ReadsOn
  <2>12. Reads(s, i, (<< Tok("LPAREN", 0) >> \o tokens) \o << Tok("RPAREN", 0) >>, j + 1)
    BY <2>9, <2>11, ReadsOn
  <2> QED
    BY <2>6, <2>12
<1> QED
  BY <1>1, <1>2

LEMMA TypedIsRead ==
  ASSUME NEW spaced
  PROVE  \A e \in Expr : IsReadAs(Typed(e, spaced), InfixOf[e])
<1> DEFINE S == {e \in Expr : IsReadAs(Typed(e, spaced), InfixOf[e])}
<1>1. \A e \in Expr : e.op \in Operands => e \in S
  <2> SUFFICES ASSUME NEW e \in Expr, e.op \in Operands
               PROVE  IsReadAs(Typed(e, spaced), InfixOf[e])
    OBVIOUS
  <2>1. Typed(e, spaced) = OperandText(e) /\ InfixOf[e] = << OperandToken(e) >> /\ e.value \in Int
    BY TypedIs, InfixIs, ExprShape
  <2> QED
    BY <2>1, OperandIsRead DEF IsReadAs
<1>2. \A e \in Expr : IsOperator(e) /\ e.left \in S /\ e.right \in S => e \in S
  <2> SUFFICES ASSUME NEW e \in Expr, IsOperator(e), e.left \in S, e.right \in S
               PROVE  IsReadAs(Typed(e, spaced), InfixOf[e])
    OBVIOUS
  <2> DEFINE A == Side(Typed(e.left, spaced), Level(e.left) < Level(e))
             B == Sign(e.op, spaced)
             C == Side(Typed(e.right, spaced), Level(e.right) <= Level(e))
             a == SideTokens(InfixOf[e.left], Level(e.left) < Level(e))
             c == SideTokens(InfixOf[e.right], Level(e.right) <= Level(e))
             P == [kind : Kinds, value : Int]
  <2>1. Typed(e, spaced) = (A \o B) \o C /\ InfixOf[e] = (a \o << SignToken(e) >>) \o c
    BY TypedIs, InfixIs DEF IsOperator
  <2>2. A \in Text /\ B \in Text /\ C \in Text
    BY TypedIs, SideTyped, SignTyped DEF IsOperator
  <2>3. IsReadAs(A, a) /\ IsReadAs(C, c)
    BY TypedIs, SideIsRead DEF IsOperator
  <2>4. Starts(C)
    BY TypedIs, TypedStarts, SideStarts DEF IsOperator
  <2> HIDE DEF A, C, a, c
  <2> SUFFICES ASSUME NEW s \in Text, NEW i \in Nat, At(s, i, (A \o B) \o C),
                      WordEnds(s, i + Len((A \o B) \o C))
               PROVE  Reads(s, i, (a \o << SignToken(e) >>) \o c, i + Len((A \o B) \o C))
    BY <2>1 DEF IsReadAs
  <2>5. A \in Seq(P) /\ B \in Seq(P) /\ C \in Seq(P) /\ s \in Seq(P) /\ A \o B \in Seq(P)
    BY <2>2, TextConcat DEF Text
  <2>6. Len(A) \in Nat /\ Len(B) \in Nat /\ Len(C) \in Nat
    BY <2>2, PieceTyped
  <2> HIDE DEF B, P
  <2>7. /\ At(s, i, A \o B) /\ At(s, i + Len(A \o B), C)
        /\ i + Len((A \o B) \o C) = (i + Len(A \o B)) + Len(C)
    <3> DEFINE t == A \o B
    <3>1. At(s, i, t \o C) /\ t \in Seq(P)
      BY <2>5
    <3> HIDE DEF t
    <3>2. At(s, i, t) /\ At(s, i + Len(t), C) /\ i + Len(t \o C) = (i + Len(t)) + Len(C)
      BY <2>5, <3>1, AtConcat
    <3> QED
      BY <3>2 DEF t
  <2>8. At(s, i, A) /\ At(s, i + Len(A), B) /\ i + Len(A \o B) = (i + Len(A)) + Len(B)
    BY <2>5, <2>7, AtConcat
  <2> DEFINE j == i + Len(A)
             k == (i + Len(A)) + Len(B)
             l == ((i + Len(A)) + Len(B)) + Len(C)
  <2>9. At(s, i, A) /\ At(s, j, B) /\ At(s, k, C) /\ i + Len((A \o B) \o C) = l /\ WordEnds(s, l)
    BY <2>7, <2>8
  <2>10. j \in Nat /\ k \in Nat /\ k = j + Len(B) /\ l = k + Len(C)
    BY <2>6
  <2> HIDE DEF j, k, l
  <2>11. Reads(s, k, c, l)
    BY <2>3, <2>9, <2>10 DEF IsReadAs
  <2>12. KindAt(s, k) # "="
    <3>1. KindAt(s, k) = C[1].kind
      BY <2>2, <2>4, <2>9, FirstAt DEF Starts
    <3> QED
      BY <2>4, <3>1 DEF Starts
  <2>13. /\ Reads(s, j, << SignToken(e) >>, k)
         /\ Len(B) >= 1 /\ B[1].kind \notin NamePieces
    BY <2>9, <2>10, <2>12, SignIsRead DEF B, SignToken, IsOperator
  <2>14. WordEnds(s, j)
    BY <2>2, <2>9, <2>13, FirstAt DEF WordEnds
  <2>15. Reads(s, i, a, j)
    BY <2>3, <2>9, <2>14 DEF IsReadAs, j
  <2>16. Reads(s, i, a \o << SignToken(e) >>, k)
    BY <2>13, <2>15, ReadsOn
  <2> QED
    BY <2>9, <2>11, <2>16, ReadsOn
<1> HIDE DEF S
<1>3. \A e \in Expr : e \in S
  BY <1>1, <1>2, ExprInduction
<1> QED
  BY <1>3 DEF S

\* What a user types for an expression is read as its tokens.
LEMMA TokenizedIs ==
  ASSUME NEW e \in Expr, NEW spaced
  PROVE  TokenizeAll(Typed(e, spaced)) = InfixOf[e]
<1> DEFINE s == Typed(e, spaced)
<1>1. s \in Text /\ Len(s) \in Nat /\ DOMAIN s = 1 .. Len(s)
  BY TypedIs, PieceTyped
<1>2. IsReadAs(s, InfixOf[e]) /\ InfixOf[e] \in Seq(Token)
  BY TypedIsRead, InfixIs
<1> HIDE DEF s
<1>3. At(s, 1, s)
  BY <1>1 DEF At
<1>4. WordEnds(s, 1 + Len(s))
  <2>1. 1 + Len(s) \notin DOMAIN s
    BY <1>1
  <2> QED
    BY <2>1 DEF WordEnds, KindAt, NamePieces, Keywords
<1>5. Reads(s, 1, InfixOf[e], 1 + Len(s))
  BY <1>1, <1>2, <1>3, <1>4 DEF IsReadAs
<1>6. 1 + Len(s) \in 1 .. Len(s) + 1 /\ 1 + Len(s) > Len(s)
  BY <1>1
<1>7. TokensFrom(s)[1 + Len(s)] = << >>
  BY <1>1, <1>6, TokensAre DEF From
<1>8. TokensFrom(s)[1] = InfixOf[e]
  BY <1>2, <1>5, <1>7, ConcatEmptySeq DEF Reads
<1> QED
  BY <1>8 DEF TokenizeAll, s

(***************************************************************************)
(* convert on the tokens of an expression: what its steps do to the stack  *)
(* and the queue.                                                          *)
(***************************************************************************)
State == [ops : Seq(Token), out : Seq(Token)]

\* What is put out if all above position n leaves the stack.
Flushed(x, n) == x.out \o Reverse(SubSeq(x.ops, n + 1, Len(x.ops)))

LEMMA OneLonger ==
  ASSUME NEW S, NEW a \in Seq(S), NEW b \in Seq(S), NEW v \in S, Len(a) = Len(b) + 1,
         \A i \in 1 .. Len(b) : a[i] = b[i], a[Len(b) + 1] = v
  PROVE  a = b \o << v >>
<1>1. << v >> \in Seq(S) /\ Len(<< v >>) = 1 /\ << v >>[1] = v /\ Len(b) \in Nat
  OBVIOUS
<1>2. /\ b \o << v >> \in Seq(S) /\ Len(b \o << v >>) = Len(b) + 1
      /\ \A i \in 1 .. Len(b) : (b \o << v >>)[i] = b[i]
      /\ (b \o << v >>)[Len(b) + 1] = v
  BY <1>1, ConcatTyped
<1>3. \A i \in 1 .. Len(a) : i \in 1 .. Len(b) \/ i = Len(b) + 1
  BY <1>1
<1>4. \A i \in 1 .. Len(a) : a[i] = (b \o << v >>)[i]
  BY <1>2, <1>3
<1> QED
  BY <1>2, <1>4, SeqEqual

LEMMA FlushedIs ==
  ASSUME NEW x \in State, NEW n \in 0 .. Len(x.ops)
  PROVE  /\ Flushed(x, n) \in Seq(Token)
         /\ n = Len(x.ops) => Flushed(x, n) = x.out
         /\ n < Len(x.ops) => Flushed(x, n) = Flushed(x, n + 1) \o << x.ops[n + 1] >>
<1> DEFINE s == x.ops
           r(k) == Reverse(SubSeq(s, k + 1, Len(s)))
<1>1. s \in Seq(Token) /\ x.out \in Seq(Token) /\ Len(s) \in Nat /\ n \in Nat
  BY DEF State
<1>2. \A k \in 0 .. Len(s) : /\ r(k) \in Seq(Token) /\ Len(r(k)) = Len(s) - k
                             /\ \A i \in 1 .. Len(s) - k : r(k)[i] = s[Len(s) - i + 1]
  <2> TAKE k \in 0 .. Len(s)
  <2>1. Len(SubSeq(s, k + 1, Len(s))) = Len(s) - k
    BY <1>1
  <2>2. \A i \in 1 .. Len(s) - k : SubSeq(s, k + 1, Len(s))[i] = s[k + i]
    BY <1>1
  <2>3. r(k) = [i \in 1 .. Len(s) - k |-> SubSeq(s, k + 1, Len(s))[(Len(s) - k - i) + 1]]
    BY <2>1 DEF Reverse
  <2>4. \A i \in 1 .. Len(s) - k : /\ (Len(s) - k - i) + 1 \in 1 .. Len(s) - k
                                   /\ k + ((Len(s) - k - i) + 1) = Len(s) - i + 1
                                   /\ Len(s) - i + 1 \in 1 .. Len(s)
    BY <1>1
  <2>5. \A i \in 1 .. Len(s) - k : r(k)[i] = s[Len(s) - i + 1] /\ s[Len(s) - i + 1] \in Token
    BY <1>1, <2>2, <2>3, <2>4, SMTT(30)
  <2>6. r(k) \in Seq(Token) /\ Len(r(k)) = Len(s) - k
    <3>1. Len(s) - k \in Nat
      BY <1>1
    <3>2. r(k) \in [1 .. Len(s) - k -> Token]
      BY <2>3, <2>5
    <3> HIDE DEF r
    <3> QED
      BY <3>1, <3>2
  <2> QED
    BY <2>5, <2>6
<1>3. Flushed(x, n) = x.out \o r(n)
  BY DEF Flushed
<1>4. Flushed(x, n + 1) = x.out \o r(n + 1)
  BY DEF Flushed
<1> HIDE DEF r
<1>5. Flushed(x, n) \in Seq(Token)
  BY <1>1, <1>2, <1>3
<1>6. ASSUME n = Len(s)
      PROVE  Flushed(x, n) = x.out
  <2>1. r(n) = << >>
    BY <1>1, <1>2, <1>6
  <2> QED
    BY <1>1, <1>3, <2>1
<1>7. ASSUME n < Len(s)
      PROVE  Flushed(x, n) = Flushed(x, n + 1) \o << s[n + 1] >>
  <2> DEFINE a == r(n)
             b == r(n + 1)
             v == s[n + 1]
  <2>1. n \in 0 .. Len(s) /\ n + 1 \in 0 .. Len(s) /\ v \in Token
    BY <1>1, <1>7
  <2>2. a \in Seq(Token) /\ Len(a) = Len(s) - n /\ \A i \in 1 .. Len(s) - n : a[i] = s[Len(s) - i + 1]
    BY <1>2, <2>1
  <2>3. /\ b \in Seq(Token) /\ Len(b) = Len(s) - (n + 1)
        /\ \A i \in 1 .. Len(s) - (n + 1) : b[i] = s[Len(s) - i + 1]
    BY <1>2, <2>1
  <2> HIDE DEF a, b
  <2>4. Len(b) + 1 = Len(s) - n /\ Len(s) - (Len(b) + 1) + 1 = n + 1 /\ Len(b) + 1 \in 1 .. Len(s) - n
    BY <1>1, <2>1, <2>3
  <2>5. a[Len(b) + 1] = v /\ Len(a) = Len(b) + 1
    BY <2>2, <2>4
  <2> HIDE DEF s, v
  <2>6. a = b \o << v >>
    <3>1. \A i \in 1 .. Len(b) : a[i] = b[i]
      <4> TAKE i \in 1 .. Len(b)
      <4>1. i \in 1 .. Len(s) - n /\ i \in 1 .. Len(s) - (n + 1)
        BY <2>3, <2>4
      <4> QED
        BY <2>2, <2>3, <4>1
    <3> QED
      BY <2>1, <2>2, <2>3, <2>5, <3>1, OneLonger
  <2>7. << v >> \in Seq(Token)
    BY <2>1
  <2>8. x.out \o (b \o << v >>) = (x.out \o b) \o << v >>
    BY <1>1, <2>3, <2>7, TokensConcat
  <2> QED
    BY <1>3, <1>4, <2>6, <2>8 DEF a, b, v
<1> QED
  BY <1>5, <1>6, <1>7

\* One step of convert, from x to y with token t.
IsConverted(x, t, y) ==
  /\ t.type \in Operands => y.ops = x.ops /\ y.out = Append(x.out, t)
  /\ t.type \in Operators =>
       \E k \in 0 .. Len(x.ops) :
         /\ k > 0 => ~ Yields(x.ops[k], t)
         /\ \A j \in k + 1 .. Len(x.ops) : Yields(x.ops[j], t)
         /\ y.out = Flushed(x, k) /\ y.ops = Append(SubSeq(x.ops, 1, k), t)
  /\ t.type = "LPAREN" => y.ops = Append(x.ops, t) /\ y.out = x.out
  /\ t.type = "RPAREN" =>
       \E k \in 0 .. Len(x.ops) :
         /\ k > 0 => x.ops[k].type = "LPAREN"
         /\ \A j \in k + 1 .. Len(x.ops) : x.ops[j].type # "LPAREN"
         /\ y.out = Flushed(x, k) /\ y.ops = SubSeq(x.ops, 1, k - 1)

\* The states of convert over the tokens ts.
IsConversion(R, ts) ==
  /\ R \in Seq(State) /\ Len(R) <= Len(ts) + 1
  /\ \A i \in 1 .. Len(R) - 1 : IsConverted(R[i], ts[i], R[i + 1])

\* An expression of that level comes on no operator that binds as tightly.
Fits(x, level) ==
  LET top == x.ops[Len(x.ops)]
  IN  Len(x.ops) > 0 => top.type = "LPAREN" \/ Precedence(top) + 1 < level

\* From x to y the stack grew by operators of at least that level, with which
\* these tokens are put out.
Grown(x, y, tokens, level) ==
  /\ Len(x.ops) <= Len(y.ops)
  /\ \A k \in 1 .. Len(x.ops) : y.ops[k] = x.ops[k]
  /\ \A k \in Len(x.ops) + 1 .. Len(y.ops) :
       y.ops[k].type \in Operators /\ Precedence(y.ops[k]) + 1 >= level
  /\ Flushed(y, Len(x.ops)) = x.out \o tokens

\* Wherever these tokens are converted on a fitting stack, this is put out.
IsConvertedTo(R, ts, tokens, result, level) ==
  \A i \in Nat : At(ts, i, tokens) /\ i + Len(tokens) <= Len(R) /\ Fits(R[i], level) =>
                   Grown(R[i], R[i + Len(tokens)], result, level)

LEMMA OperandIsConverted ==
  ASSUME NEW x \in State, NEW y \in State, NEW t \in Token, t.type \in Operands,
         IsConverted(x, t, y), NEW level
  PROVE  Grown(x, y, << t >>, level)
<1>1. y.ops = x.ops /\ y.out = Append(x.out, t)
  BY DEF IsConverted
<1>2. x.out \in Seq(Token) /\ Len(x.ops) \in 0 .. Len(x.ops) /\ Len(x.ops) \in Nat
  BY DEF State
<1>3. Flushed(y, Len(x.ops)) = y.out
  BY <1>1, <1>2, FlushedIs
<1>4. Append(x.out, t) = x.out \o << t >>
  BY <1>2
<1> QED
  BY <1>1, <1>2, <1>3, <1>4 DEF Grown

\* A pair of parentheses leaves nothing on the stack.
LEMMA ParenthesesAreConverted ==
  ASSUME NEW x \in State, NEW y \in State, NEW z \in State, NEW w \in State, NEW tokens,
         IsConverted(x, Tok("LPAREN", 0), y), NEW level \in Nat, Grown(y, z, tokens, level),
         IsConverted(z, Tok("RPAREN", 0), w), NEW any
  PROVE  Grown(x, w, tokens, any) /\ Len(w.ops) = Len(x.ops)
<1> DEFINE n == Len(x.ops)
<1>1. Tok("LPAREN", 0).type = "LPAREN" /\ Tok("RPAREN", 0).type = "RPAREN" /\ Tok("LPAREN", 0) \in Token
  BY DEF Tok, Token
<1>2. n \in Nat /\ x.ops \in Seq(Token) /\ z.ops \in Seq(Token) /\ Len(z.ops) \in Nat
  BY DEF State
<1>3. /\ y.ops = Append(x.ops, Tok("LPAREN", 0)) /\ y.out = x.out
  BY <1>1 DEF IsConverted
<1>4. /\ Len(y.ops) = n + 1 /\ y.ops[n + 1] = Tok("LPAREN", 0)
      /\ \A k \in 1 .. n : y.ops[k] = x.ops[k]
  BY <1>1, <1>2, <1>3
<1>5. /\ n + 1 <= Len(z.ops)
      /\ \A k \in 1 .. n : z.ops[k] = x.ops[k]
      /\ z.ops[n + 1].type = "LPAREN"
      /\ \A k \in n + 2 .. Len(z.ops) : z.ops[k].type \in Operators
      /\ Flushed(z, n + 1) = x.out \o tokens
  <2>1. /\ Len(y.ops) <= Len(z.ops)
        /\ \A k \in 1 .. Len(y.ops) : z.ops[k] = y.ops[k]
        /\ \A k \in Len(y.ops) + 1 .. Len(z.ops) : z.ops[k].type \in Operators
        /\ Flushed(z, Len(y.ops)) = y.out \o tokens
    BY DEF Grown
  <2>2. n + 1 \in 1 .. n + 1 /\ (n + 1) + 1 = n + 2 /\ \A k \in 1 .. n : k \in 1 .. n + 1
    BY <1>2
  <2>3. /\ n + 1 <= Len(z.ops)
        /\ \A k \in 1 .. n + 1 : z.ops[k] = y.ops[k]
        /\ \A k \in n + 2 .. Len(z.ops) : z.ops[k].type \in Operators
        /\ Flushed(z, n + 1) = x.out \o tokens
    BY <1>3, <1>4, <2>1, <2>2
  <2>4. z.ops[n + 1] = Tok("LPAREN", 0)
    BY <1>4, <2>2, <2>3
  <2> QED
    BY <1>1, <1>4, <2>2, <2>3, <2>4
<1>6. PICK k \in 0 .. Len(z.ops) :
        /\ k > 0 => z.ops[k].type = "LPAREN"
        /\ \A j \in k + 1 .. Len(z.ops) : z.ops[j].type # "LPAREN"
        /\ w.out = Flushed(z, k) /\ w.ops = SubSeq(z.ops, 1, k - 1)
  BY <1>1 DEF IsConverted, Operands, Literals, Operators
<1>7. k = n + 1
  <2>1. ~ (k < n + 1)
    BY <1>2, <1>5, <1>6
  <2>2. ~ (k > n + 1)
    <3>1. ASSUME k > n + 1
          PROVE  FALSE
      <4>1. k \in n + 2 .. Len(z.ops) /\ k > 0
        BY <1>2, <3>1
      <4>2. z.ops[k].type = "LPAREN"
        BY <1>6, <4>1
      <4>3. z.ops[k].type \in Operators
        BY <1>5, <4>1
      <4> QED
        BY <4>2, <4>3 DEF Operators
    <3> QED
      BY <3>1
  <2> QED
    BY <1>2, <2>1, <2>2
<1>8. w.ops = SubSeq(z.ops, 1, n) /\ w.out = x.out \o tokens
  BY <1>2, <1>5, <1>6, <1>7
<1>9. Len(w.ops) = n /\ \A j \in 1 .. n : w.ops[j] = x.ops[j]
  BY <1>2, <1>5, <1>8
<1>10. Flushed(w, n) = w.out
  <2>1. n \in 0 .. Len(w.ops) /\ n = Len(w.ops)
    BY <1>2, <1>9
  <2> HIDE DEF n
  <2> QED
    BY <2>1, FlushedIs
<1> QED
  BY <1>2, <1>8, <1>9, <1>10 DEF Grown

\* What was out before a postfix stays before it.
LEMMA PutOutBehind ==
  ASSUME NEW x \in State, NEW left \in Seq(Token), NEW right \in Seq(Token), NEW t \in Token
  PROVE  ((x.out \o left) \o right) \o << t >> = x.out \o ((left \o right) \o << t >>)
<1> DEFINE S == Token
           o == x.out
           u == << t >>
           a == left \o right
<1>1. o \in Seq(S) /\ left \in Seq(S) /\ right \in Seq(S) /\ u \in Seq(S)
  BY DEF State
<1> HIDE DEF S, o, u
<1>2. a \in Seq(S)
  BY <1>1, ConcatTyped
<1>3. (o \o left) \o right = o \o a
  BY <1>1, ConcatAssociative
<1> HIDE DEF a
<1>4. (o \o a) \o u = o \o (a \o u)
  BY <1>1, <1>2, ConcatAssociative, SMTT(30)
<1>5. ((o \o left) \o right) \o u = o \o (a \o u)
  BY <1>3, <1>4, Zenon
<1> QED
  BY <1>5, Zenon DEF a, o, u

\* The operator between two sides sends off what the left one left, and waits for
\* the right one.
LEMMA OperatorIsConverted ==
  ASSUME NEW x \in State, NEW y \in State, NEW z \in State, NEW w \in State,
         NEW left \in Seq(Token), NEW right \in Seq(Token), NEW t \in Token, t.type \in Operators,
         NEW level, level = Precedence(t) + 1, Precedence(t) \in Nat, Fits(x, level),
         Grown(x, y, left, level), IsConverted(y, t, z), Grown(z, w, right, level)
  PROVE  Grown(x, w, (left \o right) \o << t >>, level)
<1> DEFINE n == Len(x.ops)
<1>1. /\ n \in Nat /\ x.ops \in Seq(Token) /\ y.ops \in Seq(Token) /\ Len(y.ops) \in Nat
      /\ w.ops \in Seq(Token) /\ Len(w.ops) \in Nat /\ x.out \in Seq(Token)
  BY DEF State
<1>2. PICK k \in 0 .. Len(y.ops) :
        /\ k > 0 => ~ Yields(y.ops[k], t)
        /\ \A j \in k + 1 .. Len(y.ops) : Yields(y.ops[j], t)
        /\ z.out = Flushed(y, k) /\ z.ops = Append(SubSeq(y.ops, 1, k), t)
  BY DEF IsConverted
<1>3. \A u \in Token : Precedence(u) \in 0 .. 5
  BY DEF Precedence
<1>4. /\ n <= Len(y.ops) /\ \A j \in 1 .. n : y.ops[j] = x.ops[j]
      /\ \A j \in n + 1 .. Len(y.ops) : y.ops[j].type \in Operators /\ Precedence(y.ops[j]) + 1 >= level
      /\ Flushed(y, n) = x.out \o left
  BY DEF Grown
<1>5. \A j \in n + 1 .. Len(y.ops) : Yields(y.ops[j], t)
  <2> TAKE j \in n + 1 .. Len(y.ops)
  <2>1. y.ops[j] \in Token
    BY <1>1
  <2>2. y.ops[j].type \in Operators /\ Precedence(y.ops[j]) + 1 >= level /\ Precedence(y.ops[j]) \in 0 .. 5
    BY <1>3, <1>4, <2>1
  <2>3. Precedence(y.ops[j]) >= Precedence(t)
    BY <2>2
  <2>4. y.ops[j].type # "LPAREN"
    BY <2>2 DEF Operators
  <2> QED
    BY <2>3, <2>4 DEF Yields
<1>6. n > 0 => ~ Yields(y.ops[n], t)
  <2> SUFFICES ASSUME n > 0
               PROVE  ~ Yields(y.ops[n], t)
    OBVIOUS
  <2>1. y.ops[n] = x.ops[n] /\ x.ops[n] \in Token
    <3>1. n \in 1 .. n
      BY <1>1
    <3>2. y.ops[n] = x.ops[n]
      BY <1>4, <3>1
    <3>3. x.ops[n] \in Token
      BY <1>1, <3>1
    <3> QED
      BY <3>2, <3>3
  <2>2. x.ops[n].type = "LPAREN" \/ Precedence(x.ops[n]) + 1 < level
    BY DEF Fits
  <2> QED
    BY <1>3, <2>1, <2>2 DEF Yields
<1>7. k = n
  <2>1. ~ (k < n)
    BY <1>1, <1>2, <1>4, <1>6
  <2>2. ~ (k > n)
    BY <1>1, <1>2, <1>5
  <2> QED
    BY <1>1, <2>1, <2>2
<1>8. z.ops = Append(SubSeq(y.ops, 1, n), t) /\ z.out = x.out \o left
  BY <1>2, <1>4, <1>7
<1>9. /\ Len(z.ops) = n + 1 /\ z.ops[n + 1] = t /\ \A j \in 1 .. n : z.ops[j] = x.ops[j]
  <2> DEFINE kept == SubSeq(y.ops, 1, n)
  <2>1. kept \in Seq(Token) /\ Len(kept) = n
    BY <1>1, <1>4
  <2>2. \A j \in 1 .. n : kept[j] = x.ops[j]
    BY <1>1, <1>4
  <2>3. z.ops = Append(kept, t)
    BY <1>8
  <2> HIDE DEF kept
  <2> QED
    BY <1>1, <2>1, <2>2, <2>3, SMTT(30)
<1>10. /\ n + 1 <= Len(w.ops) /\ w.ops[n + 1] = t /\ \A j \in 1 .. n : w.ops[j] = x.ops[j]
       /\ \A j \in n + 2 .. Len(w.ops) : w.ops[j].type \in Operators /\ Precedence(w.ops[j]) + 1 >= level
       /\ Flushed(w, n + 1) = (x.out \o left) \o right
  <2>1. /\ Len(z.ops) <= Len(w.ops)
        /\ \A j \in 1 .. Len(z.ops) : w.ops[j] = z.ops[j]
        /\ \A j \in Len(z.ops) + 1 .. Len(w.ops) :
             w.ops[j].type \in Operators /\ Precedence(w.ops[j]) + 1 >= level
        /\ Flushed(w, Len(z.ops)) = z.out \o right
    BY DEF Grown
  <2>2. n + 1 \in 1 .. n + 1 /\ (n + 1) + 1 = n + 2 /\ \A j \in 1 .. n : j \in 1 .. n + 1
    BY <1>1
  <2>3. /\ n + 1 <= Len(w.ops)
        /\ \A j \in 1 .. n + 1 : w.ops[j] = z.ops[j]
        /\ \A j \in n + 2 .. Len(w.ops) :
             w.ops[j].type \in Operators /\ Precedence(w.ops[j]) + 1 >= level
        /\ Flushed(w, n + 1) = (x.out \o left) \o right
    BY <1>8, <1>9, <2>1, <2>2
  <2>4. w.ops[n + 1] = t
    BY <1>9, <2>2, <2>3
  <2>5. \A j \in 1 .. n : w.ops[j] = x.ops[j]
    BY <1>9, <2>2, <2>3
  <2> QED
    BY <2>3, <2>4, <2>5
<1>11. \A j \in n + 1 .. Len(w.ops) : w.ops[j].type \in Operators /\ Precedence(w.ops[j]) + 1 >= level
  <2>1. \A j \in n + 1 .. Len(w.ops) : j = n + 1 \/ j \in n + 2 .. Len(w.ops)
    BY <1>1
  <2> QED
    BY <1>10, <2>1
<1>12. Flushed(w, n) = ((x.out \o left) \o right) \o << t >>
  <2>1. n \in 0 .. Len(w.ops) /\ n < Len(w.ops)
    BY <1>1, <1>10
  <2> QED
    BY <1>10, <2>1, FlushedIs
<1>13. ((x.out \o left) \o right) \o << t >> = x.out \o ((left \o right) \o << t >>)
  BY PutOutBehind, Zenon
<1>14. n <= Len(w.ops)
  BY <1>1, <1>10
<1> QED
  BY <1>10, <1>11, <1>12, <1>13, <1>14 DEF Grown

\* A stack that fits an expression fits one that binds tighter, and what grew by
\* operators of a level grew by operators of no lower one.
LEMMA FitsTighter ==
  ASSUME NEW x \in State, NEW m \in Nat, NEW level \in Nat, m <= level, Fits(x, m)
  PROVE  Fits(x, level)
<1> DEFINE top == x.ops[Len(x.ops)]
<1> SUFFICES ASSUME Len(x.ops) > 0, top.type # "LPAREN"
             PROVE  Precedence(top) + 1 < level
  BY DEF Fits
<1>1. top \in Token
  BY DEF State
<1>2. Precedence(top) \in 0 .. 5
  BY <1>1 DEF Precedence
<1>3. Precedence(top) + 1 < m
  BY DEF Fits
<1> QED
  BY <1>2, <1>3

LEMMA GrownLower ==
  ASSUME NEW x \in State, NEW y \in State, NEW tokens, NEW m \in Nat, NEW level \in Nat, m <= level,
         Grown(x, y, tokens, level)
  PROVE  Grown(x, y, tokens, m)
<1>1. \A k \in Len(x.ops) + 1 .. Len(y.ops) : Precedence(y.ops[k]) + 1 >= m
  <2> TAKE k \in Len(x.ops) + 1 .. Len(y.ops)
  <2>1. y.ops[k] \in Token
    BY DEF State
  <2>2. Precedence(y.ops[k]) \in 0 .. 5
    BY <2>1 DEF Precedence
  <2>3. Precedence(y.ops[k]) + 1 >= level
    BY DEF Grown
  <2> QED
    BY <2>2, <2>3
<1> QED
  BY <1>1 DEF Grown

\* Three parts of a sequence, the middle one or the outer ones a token.
LEMMA OneAt ==
  ASSUME NEW ts \in Seq(Token), NEW i, NEW t, At(ts, i, << t >>)
  PROVE  i \in 1 .. Len(ts) /\ ts[i] = t /\ i \in Nat
<1>1. Len(<< t >>) = 1 /\ 1 \in 1 .. Len(<< t >>) /\ << t >>[1] = t /\ i + 1 - 1 = i
  BY DEF At
<1> QED
  BY <1>1 DEF At

LEMMA TokensAt ==
  ASSUME NEW s \in Seq(Token), NEW t \in Seq(Token), NEW u \in Seq(Token), NEW v \in Seq(Token),
         NEW i, At(s, i, (t \o u) \o v)
  PROVE  /\ At(s, i, t) /\ At(s, i + Len(t), u) /\ At(s, (i + Len(t)) + Len(u), v)
         /\ Len((t \o u) \o v) = (Len(t) + Len(u)) + Len(v)
<1> DEFINE T == Token
           tu == t \o u
<1>1. s \in Seq(T) /\ t \in Seq(T) /\ u \in Seq(T) /\ v \in Seq(T) /\ tu \in Seq(T)
  OBVIOUS
<1>2. Len(t) \in Nat /\ Len(u) \in Nat /\ Len(v) \in Nat /\ Len(tu) = Len(t) + Len(u)
  OBVIOUS
<1> HIDE DEF T, tu
<1>3. At(s, i, tu) /\ At(s, i + Len(tu), v)
  <2>1. At(s, i, tu \o v)
    BY DEF tu
  <2> QED
    BY <1>1, <2>1, AtConcat
<1>4. At(s, i, t) /\ At(s, i + Len(t), u) /\ i + Len(t \o u) = (i + Len(t)) + Len(u)
  BY <1>1, <1>3, AtConcat DEF tu
<1>5. Len(tu \o v) = Len(tu) + Len(v)
  BY <1>1, ConcatTyped
<1> QED
  BY <1>2, <1>3, <1>4, <1>5 DEF tu

LEMMA ConversionStep ==
  ASSUME NEW ts \in Seq(Token), NEW R, IsConversion(R, ts), NEW i \in Nat, i # 0, i + 1 <= Len(R)
  PROVE  R[i] \in State /\ R[i + 1] \in State /\ IsConverted(R[i], ts[i], R[i + 1])
<1>1. R \in Seq(State) /\ i \in 1 .. Len(R) /\ i + 1 \in 1 .. Len(R) /\ i \in 1 .. Len(R) - 1
  BY DEF IsConversion
<1> QED
  BY <1>1 DEF IsConversion

LEMMA ParenthesisTokens ==
  /\ Tok("LPAREN", 0) \in Token /\ Tok("RPAREN", 0) \in Token
  /\ << Tok("LPAREN", 0) >> \in Seq(Token) /\ << Tok("RPAREN", 0) >> \in Seq(Token)
  BY DEF Tok, Token

LEMMA SideIsConverted ==
  ASSUME NEW ts \in Seq(Token), NEW R, IsConversion(R, ts), NEW tokens \in Seq(Token), NEW result,
         NEW level \in Nat, IsConvertedTo(R, ts, tokens, result, level),
         NEW wrapped, NEW i \in Nat, At(ts, i, SideTokens(tokens, wrapped)),
         i + Len(SideTokens(tokens, wrapped)) <= Len(R),
         NEW m \in Nat, ~ wrapped => Fits(R[i], level) /\ m <= level
  PROVE  Grown(R[i], R[i + Len(SideTokens(tokens, wrapped))], result, m)
<1> DEFINE lp == Tok("LPAREN", 0)
           rp == Tok("RPAREN", 0)
           n == Len(tokens)
<1>1. R \in Seq(State) /\ Len(R) \in Nat /\ i # 0 /\ n \in Nat
  BY DEF IsConversion, At
<1>2. CASE ~ wrapped
  <2>1. SideTokens(tokens, wrapped) = tokens
    BY <1>2 DEF SideTokens
  <2>2. Grown(R[i], R[i + Len(tokens)], result, level)
    BY <1>2, <2>1 DEF IsConvertedTo
  <2>3. R[i] \in State /\ R[i + Len(tokens)] \in State
    BY <1>1, <2>1
  <2> QED
    BY <1>2, <2>1, <2>2, <2>3, GrownLower
<1>3. CASE wrapped
  <2>1. SideTokens(tokens, wrapped) = (<< lp >> \o tokens) \o << rp >>
    BY <1>3 DEF SideTokens
  <2> HIDE DEF lp, rp
  <2>2. << lp >> \in Seq(Token) /\ << rp >> \in Seq(Token) /\ Len(<< lp >>) = 1 /\ Len(<< rp >>) = 1
    BY ParenthesisTokens DEF lp, rp
  <2>3. /\ At(ts, i, << lp >>) /\ At(ts, i + 1, tokens) /\ At(ts, (i + 1) + n, << rp >>)
        /\ Len(SideTokens(tokens, wrapped)) = (1 + n) + 1
    <3> DEFINE a == << lp >>
               c == << rp >>
    <3>1. At(ts, i, (a \o tokens) \o c) /\ a \in Seq(Token) /\ c \in Seq(Token)
      BY <2>1, <2>2
    <3>2. Len(a) = 1 /\ Len(c) = 1 /\ Len(SideTokens(tokens, wrapped)) = Len((a \o tokens) \o c)
      BY <2>1
    <3> HIDE DEF a, c
    <3>3. /\ At(ts, i, a) /\ At(ts, i + Len(a), tokens) /\ At(ts, (i + Len(a)) + Len(tokens), c)
          /\ Len((a \o tokens) \o c) = (Len(a) + Len(tokens)) + Len(c)
      BY <3>1, TokensAt
    <3> QED
      BY <3>2, <3>3 DEF a, c
  <2> DEFINE k == (i + 1) + n
  <2>4. /\ i + Len(SideTokens(tokens, wrapped)) = k + 1 /\ k + 1 <= Len(R) /\ k \in Nat /\ k # 0
        /\ i + 1 \in Nat /\ i + 1 <= Len(R) /\ i + 1 <= k
    BY <1>1, <2>3
  <2>5. ts[i] = lp /\ ts[k] = rp
    BY <2>3, OneAt
  <2>6. R[i] \in State /\ R[i + 1] \in State /\ IsConverted(R[i], lp, R[i + 1])
    BY <1>1, <2>4, <2>5, ConversionStep
  <2>7. R[k] \in State /\ R[k + 1] \in State /\ IsConverted(R[k], rp, R[k + 1])
    BY <2>4, <2>5, ConversionStep
  <2>8. Fits(R[i + 1], level)
    <3>1. R[i + 1].ops = Append(R[i].ops, lp) /\ lp.type = "LPAREN" /\ lp \in Token /\ R[i].ops \in Seq(Token)
      BY <2>6, ParenthesisTokens DEF IsConverted, lp, Tok, State
    <3>2. R[i + 1].ops[Len(R[i + 1].ops)] = lp
      BY <3>1
    <3> QED
      BY <3>1, <3>2 DEF Fits
  <2>9. Grown(R[i + 1], R[k], result, level)
    BY <2>3, <2>4, <2>8 DEF IsConvertedTo
  <2>10. Grown(R[i], R[k + 1], result, m)
    BY <2>6, <2>7, <2>9, ParenthesesAreConverted DEF lp, rp
  <2> QED
    BY <2>4, <2>10
<1> QED
  BY <1>2, <1>3

LEMMA TopIs ==
  ASSUME NEW S, NEW s \in Seq(S), NEW t \in S
  PROVE  Append(s, t) # << >> /\ Append(s, t)[Len(Append(s, t))] = t
  BY AppendProperties

\* The tokens of an expression are converted to its postfix, wherever they stand.
LEMMA InfixIsConverted ==
  ASSUME NEW ts \in Seq(Token), NEW R, IsConversion(R, ts)
  PROVE  \A e \in Expr : IsConvertedTo(R, ts, InfixOf[e], PostfixOf[e], Level(e))
<1> DEFINE S == {e \in Expr : IsConvertedTo(R, ts, InfixOf[e], PostfixOf[e], Level(e))}
<1>1. \A e \in Expr : e.op \in Operands => e \in S
  <2> SUFFICES ASSUME NEW e \in Expr, e.op \in Operands, NEW i \in Nat, At(ts, i, InfixOf[e]),
                      i + Len(InfixOf[e]) <= Len(R)
               PROVE  Grown(R[i], R[i + Len(InfixOf[e])], PostfixOf[e], Level(e))
    BY DEF IsConvertedTo
  <2> DEFINE t == OperandToken(e)
  <2>1. InfixOf[e] = << t >> /\ PostfixOf[e] = << t >> /\ t \in Token /\ t.type \in Operands
    BY InfixIs, PostfixIs, ExprTokens DEF OperandToken, Tok
  <2> HIDE DEF t
  <2>2. i # 0 /\ ts[i] = t /\ Len(InfixOf[e]) = 1
    BY <2>1, OneAt
  <2>3. R[i] \in State /\ R[i + 1] \in State /\ IsConverted(R[i], t, R[i + 1])
    BY <2>2, ConversionStep
  <2>4. Grown(R[i], R[i + 1], << t >>, Level(e))
    BY <2>1, <2>3, OperandIsConverted
  <2> QED
    BY <2>1, <2>2, <2>4
<1>2. \A e \in Expr : IsOperator(e) /\ e.left \in S /\ e.right \in S => e \in S
  <2> SUFFICES ASSUME NEW e \in Expr, IsOperator(e), e.left \in S, e.right \in S,
                      NEW i \in Nat, At(ts, i, InfixOf[e]),
                      i + Len(InfixOf[e]) <= Len(R), Fits(R[i], Level(e))
               PROVE  Grown(R[i], R[i + Len(InfixOf[e])], PostfixOf[e], Level(e))
    BY DEF IsConvertedTo
  <2> DEFINE l == e.left
             r == e.right
             level == Level(e)
             t == SignToken(e)
             a == SideTokens(InfixOf[l], Level(l) < level)
             c == SideTokens(InfixOf[r], Level(r) <= level)
  <2>1. /\ l \in Expr /\ r \in Expr /\ t \in Token /\ t.type \in Operators
        /\ InfixOf[l] \in Seq(Token) /\ InfixOf[r] \in Seq(Token)
        /\ PostfixOf[l] \in Seq(Token) /\ PostfixOf[r] \in Seq(Token)
    BY InfixIs, PostfixIs, ExprTokens DEF IsOperator, SignToken, Tok
  <2>2. InfixOf[e] = (a \o << t >>) \o c /\ PostfixOf[e] = (PostfixOf[l] \o PostfixOf[r]) \o << t >>
    BY InfixIs, PostfixIs DEF IsOperator
  <2>3. level \in Nat /\ Level(l) \in Nat /\ Level(r) \in Nat /\ level = Precedence(t) + 1 /\ Precedence(t) \in Nat
    <3>1. level \in 1 .. 7 /\ Level(l) \in 1 .. 7 /\ Level(r) \in 1 .. 7 /\ level = Precedence(t) + 1
      BY <2>1, LevelIs DEF IsOperator
    <3>2. Precedence(t) \in 0 .. 5
      BY DEF Precedence
    <3> QED
      BY <3>1, <3>2
  <2>4. /\ IsConvertedTo(R, ts, InfixOf[l], PostfixOf[l], Level(l))
        /\ IsConvertedTo(R, ts, InfixOf[r], PostfixOf[r], Level(r))
    OBVIOUS
  <2>5. a \in Seq(Token) /\ c \in Seq(Token) /\ << t >> \in Seq(Token) /\ Len(<< t >>) = 1
    BY <2>1, SideTokensTyped
  <2> HIDE DEF S, l, r, level, t
  <2> DEFINE j == i + Len(a)
             k == (j + 1) + Len(c)
  <2>6. /\ At(ts, i, a) /\ At(ts, j, << t >>) /\ At(ts, j + 1, c)
        /\ Len(InfixOf[e]) = (Len(a) + 1) + Len(c)
    <3> HIDE DEF a, c
    <3> DEFINE b == << t >>
    <3>1. At(ts, i, (a \o b) \o c) /\ b \in Seq(Token)
      BY <2>2, <2>5
    <3>2. Len(b) = 1 /\ Len(InfixOf[e]) = Len((a \o b) \o c)
      BY <2>2
    <3> HIDE DEF b
    <3>3. /\ At(ts, i, a) /\ At(ts, i + Len(a), b) /\ At(ts, (i + Len(a)) + Len(b), c)
          /\ Len((a \o b) \o c) = (Len(a) + Len(b)) + Len(c)
      BY <2>5, <3>1, TokensAt
    <3> QED
      BY <3>2, <3>3 DEF b
  <2>7. i # 0 /\ ts[j] = t /\ R \in Seq(State)
    BY <2>6, OneAt DEF At, IsConversion
  <2>8. /\ Len(a) \in Nat /\ Len(c) \in Nat /\ Len(R) \in Nat
        /\ j \in Nat /\ j # 0 /\ k \in Nat /\ k # 0 /\ j + 1 \in Nat /\ i + Len(InfixOf[e]) = k
        /\ k <= Len(R) /\ j + 1 <= Len(R) /\ j <= Len(R) /\ i <= Len(R)
    BY <2>5, <2>6, <2>7
  <2>9. R[i] \in State /\ R[j] \in State /\ R[j + 1] \in State /\ R[k] \in State
    <3>1. \A m \in Nat : m # 0 /\ m <= Len(R) => R[m] \in State
      BY <2>7, <2>8
    <3>2. j + 1 # 0
      BY <2>8
    <3> HIDE DEF j, k
    <3> QED
      BY <2>7, <2>8, <3>1, <3>2
  <2>10. IsConverted(R[j], t, R[j + 1])
    BY <2>7, <2>8, ConversionStep
  <2>11. Grown(R[i], R[j], PostfixOf[l], level)
    <3>1. ~ (Level(l) < level) => Fits(R[i], Level(l)) /\ level <= Level(l)
      <4>1. Fits(R[i], level)
        BY DEF level
      <4> QED
        BY <2>3, <2>9, <4>1, FitsTighter
    <3> QED
      BY <2>1, <2>3, <2>4, <2>6, <2>8, <3>1, SideIsConverted
  <2>12. R[j + 1].ops # << >> /\ R[j + 1].ops[Len(R[j + 1].ops)] = t
    <3>1. PICK m \in 0 .. Len(R[j].ops) : R[j + 1].ops = Append(SubSeq(R[j].ops, 1, m), t)
      BY <2>1, <2>10 DEF IsConverted
    <3> DEFINE q == SubSeq(R[j].ops, 1, m)
    <3>2. q \in Seq(Token) /\ R[j + 1].ops = Append(q, t)
      BY <2>9, <3>1 DEF State
    <3> HIDE DEF q
    <3>3. Append(q, t) # << >> /\ Append(q, t)[Len(Append(q, t))] = t
      BY <2>1, <3>2, TopIs, ZenonT(30)
    <3> QED
      BY <3>2, <3>3, Zenon
  <2>13. Grown(R[j + 1], R[k], PostfixOf[r], level)
    <3>1. ~ (Level(r) <= level) => Fits(R[j + 1], Level(r)) /\ level <= Level(r)
      BY <2>3, <2>12, SMTT(30) DEF Fits
    <3> QED
      BY <2>1, <2>3, <2>4, <2>6, <2>8, <3>1, SideIsConverted
  <2>14. Grown(R[i], R[k], (PostfixOf[l] \o PostfixOf[r]) \o << t >>, level)
    <3>1. Fits(R[i], level)
      BY DEF level
    <3> HIDE DEF j, k
    <3> QED
      BY <2>1, <2>3, <2>9, <2>10, <2>11, <2>13, <3>1, OperatorIsConverted
  <2> QED
    BY <2>2, <2>8, <2>14 DEF level
<1> HIDE DEF S
<1>3. \A e \in Expr : e \in S
  BY <1>1, <1>2, ExprInduction
<1> QED
  BY <1>3 DEF S

(***************************************************************************)
(* evaluate on the postfix of an expression: what its steps do to the      *)
(* stack.                                                                  *)
(***************************************************************************)
\* One step of evaluate on row r, from stack s to stack u with token t.
IsEvaluated(s, t, names, r, u) ==
  /\ t.type = "IDENTIFIER" =>
       u = IF Column(names, t.value) \in DOMAIN r THEN Append(s, r[Column(names, t.value)]) ELSE s
  /\ t.type \in Literals => u = Append(s, Tok(FieldType[t.type], t.value))
  /\ t.type \in Operators =>
       /\ ~ RemainderByZero(t.type, Popped(s, 2), Popped(s, 1))
       /\ u = Append(Below(s, 2), Applied(t.type, Popped(s, 2), Popped(s, 1)))

\* The stacks of evaluate over the tokens ts.
IsEvaluation(R, ts, names, r) ==
  /\ R \in Seq(Seq(Field)) /\ Len(R) <= Len(ts) + 1
  /\ \A i \in 1 .. Len(R) - 1 : IsEvaluated(R[i], ts[i], names, r, R[i + 1])

\* Wherever these tokens are evaluated, they push the field.
IsPushed(R, ts, tokens, field) ==
  \A i \in Nat : At(ts, i, tokens) /\ i + Len(tokens) <= Len(R) =>
                   field \in Field /\ R[i + Len(tokens)] = Append(R[i], field)

LEMMA TwoPopped ==
  ASSUME NEW s \in Seq(Field), NEW f \in Field, NEW g \in Field
  PROVE  LET u == Append(Append(s, f), g)
         IN  Popped(u, 2) = f /\ Popped(u, 1) = g /\ Below(u, 2) = s
<1> DEFINE sf == Append(s, f)
           u == Append(Append(s, f), g)
<1>1. sf \in Seq(Field) /\ Len(sf) = Len(s) + 1 /\ sf[Len(s) + 1] = f /\ \A i \in 1 .. Len(s) : sf[i] = s[i]
  BY AppendProperties
<1>2. u = Append(sf, g)
  OBVIOUS
<1> SUFFICES Popped(u, 2) = f /\ Popped(u, 1) = g /\ Below(u, 2) = s
  OBVIOUS
<1> HIDE DEF sf, u
<1>3. u \in Seq(Field) /\ Len(u) = Len(sf) + 1 /\ u[Len(sf) + 1] = g /\ \A i \in 1 .. Len(sf) : u[i] = sf[i]
  BY <1>1, <1>2, AppendProperties
<1>4. Len(s) \in Nat /\ Len(u) = Len(s) + 2 /\ Len(u) - 2 + 1 = Len(s) + 1 /\ Len(u) - 1 + 1 = Len(s) + 2
      /\ Len(u) - 2 = Len(s) /\ Len(sf) + 1 = Len(s) + 2 /\ Len(s) + 1 \in 1 .. Len(sf)
      /\ 2 <= Len(u) /\ 1 <= Len(u)
  BY <1>1, <1>3
<1>5. u[Len(s) + 1] = f /\ u[Len(s) + 2] = g
  BY <1>1, <1>3, <1>4
<1>6. Popped(u, 2) = f /\ Popped(u, 1) = g
  BY <1>4, <1>5 DEF Popped
<1>7. \A i \in 1 .. Len(s) : i \in 1 .. Len(sf) /\ u[i] = s[i]
  BY <1>1, <1>3, <1>4
<1>8. Below(u, 2) = SubSeq(u, 1, Len(s))
  BY <1>4 DEF Below
<1>9. /\ SubSeq(u, 1, Len(s)) \in Seq(Field) /\ Len(SubSeq(u, 1, Len(s))) = Len(s)
      /\ \A i \in 1 .. Len(s) : SubSeq(u, 1, Len(s))[i] = u[i]
  BY <1>3, <1>4
<1>10. SubSeq(u, 1, Len(s)) = s
  BY <1>7, <1>9, SeqEqual
<1> QED
  BY <1>6, <1>8, <1>10

LEMMA EvaluationStep ==
  ASSUME NEW ts \in Seq(Token), NEW names, NEW r, NEW R, IsEvaluation(R, ts, names, r),
         NEW i \in Nat, i # 0, i + 1 <= Len(R)
  PROVE  R[i] \in Seq(Field) /\ R[i + 1] \in Seq(Field) /\ IsEvaluated(R[i], ts[i], names, r, R[i + 1])
<1>1. R \in Seq(Seq(Field)) /\ i \in 1 .. Len(R) /\ i + 1 \in 1 .. Len(R) /\ i \in 1 .. Len(R) - 1
  BY DEF IsEvaluation
<1> QED
  BY <1>1 DEF IsEvaluation

\* An expression has the columns that its sides have, and their remainders.
LEMMA SidesHaveColumns ==
  ASSUME NEW e \in Expr, IsOperator(e), NEW names, NEW r, HasColumns(e, names, r)
  PROVE  HasColumns(e.left, names, r) /\ HasColumns(e.right, names, r)
  BY PartsAre DEF HasColumns, IsOperator

LEMMA SidesTrap ==
  ASSUME NEW e \in Expr, IsOperator(e), NEW names, NEW r,
         HasZero(e.left, names, r) \/ HasZero(e.right, names, r)
  PROVE  HasZero(e, names, r)
  BY PartsAre DEF HasZero, IsOperator

\* The tokens of the postfix of an expression: those of its sides, and its sign.
LEMMA PostfixAt ==
  ASSUME NEW ts \in Seq(Token), NEW e \in Expr, IsOperator(e), NEW i \in Nat, At(ts, i, PostfixOf[e])
  PROVE  LET j == i + Len(PostfixOf[e.left])
             k == j + Len(PostfixOf[e.right])
         IN  /\ At(ts, i, PostfixOf[e.left]) /\ At(ts, j, PostfixOf[e.right])
             /\ ts[k] = SignToken(e) /\ k + 1 = i + Len(PostfixOf[e])
             /\ i \in Nat \ {0} /\ j \in Nat \ {0} /\ k \in Nat \ {0} /\ i <= j /\ j <= k
<1> DEFINE a == PostfixOf[e.left]
           b == PostfixOf[e.right]
           c == << SignToken(e) >>
           j == i + Len(a)
           k == j + Len(b)
<1>1. a \in Seq(Token) /\ b \in Seq(Token)
  BY PostfixIs DEF IsOperator
<1>2. SignToken(e) \in Token
  BY ExprTokens DEF IsOperator
<1>3. c \in Seq(Token) /\ Len(c) = 1
  BY <1>2
<1>4. At(ts, i, (a \o b) \o c) /\ PostfixOf[e] = (a \o b) \o c
  BY PostfixIs DEF IsOperator
<1> HIDE DEF a, b, c
<1>5. /\ At(ts, i, a) /\ At(ts, i + Len(a), b) /\ At(ts, (i + Len(a)) + Len(b), c)
      /\ Len((a \o b) \o c) = (Len(a) + Len(b)) + Len(c)
  <2>1. \A t, u, v \in Seq(Token) :
          At(ts, i, (t \o u) \o v) =>
            /\ At(ts, i, t) /\ At(ts, i + Len(t), u) /\ At(ts, (i + Len(t)) + Len(u), v)
            /\ Len((t \o u) \o v) = (Len(t) + Len(u)) + Len(v)
    BY TokensAt
  <2> QED
    BY <1>1, <1>3, <1>4, <2>1, Zenon
<1>6. ts[k] = SignToken(e)
  BY <1>5, OneAt DEF c
<1>7. Len(a) \in Nat /\ Len(b) \in Nat /\ i # 0
  BY <1>1, <1>5 DEF At
<1>8. /\ k + 1 = i + Len(PostfixOf[e])
      /\ i \in Nat \ {0} /\ j \in Nat \ {0} /\ k \in Nat \ {0} /\ i <= j /\ j <= k
  BY <1>3, <1>4, <1>5, <1>7
<1> QED
  BY <1>5, <1>6, <1>8 DEF a, b

LEMMA PostfixIsEvaluated ==
  ASSUME NEW ts \in Seq(Token), NEW names, NEW r \in Seq(Field), NEW R, IsEvaluation(R, ts, names, r)
  PROVE  \A e \in Expr : HasColumns(e, names, r) => IsPushed(R, ts, PostfixOf[e], Computation(e, names, r))
<1> DEFINE S == {e \in Expr : HasColumns(e, names, r) =>
                                IsPushed(R, ts, PostfixOf[e], Computation(e, names, r))}
<1>1. \A e \in Expr : e.op \in Operands => e \in S
  <2> SUFFICES ASSUME NEW e \in Expr, e.op \in Operands, HasColumns(e, names, r),
                      NEW i \in Nat, At(ts, i, PostfixOf[e]), i + Len(PostfixOf[e]) <= Len(R)
               PROVE  /\ Computation(e, names, r) \in Field
                      /\ R[i + Len(PostfixOf[e])] = Append(R[i], Computation(e, names, r))
    BY DEF IsPushed
  <2> DEFINE t == OperandToken(e)
  <2>1. PostfixOf[e] = << t >> /\ t.type = e.op /\ t.value = e.value
    BY PostfixIs DEF OperandToken, Tok
  <2> HIDE DEF t
  <2>2. i # 0 /\ ts[i] = t /\ Len(PostfixOf[e]) = 1
    BY <2>1, OneAt
  <2>3. IsEvaluated(R[i], t, names, r, R[i + 1])
    BY <2>2, EvaluationStep
  <2>4. CASE e.op = "IDENTIFIER"
    <3>1. e \in Parts(e)
      BY PartsAre
    <3>2. Column(names, e.value) \in DOMAIN r
      BY <2>4, <3>1 DEF HasColumns
    <3>3. Computation(e, names, r) = r[Column(names, e.value)]
      BY <2>4, <3>2, ComputationIs
    <3> QED
      BY <2>1, <2>2, <2>3, <2>4, <3>2, <3>3 DEF IsEvaluated
  <2>5. CASE e.op \in Literals
    <3>1. Computation(e, names, r) = Tok(FieldType[e.op], e.value) /\ e.value \in Int
      BY <2>5, ComputationIs, ExprShape
    <3>2. Tok(FieldType[e.op], e.value) \in Field
      BY <2>5, <3>1 DEF Tok, FieldType, Field, Literals
    <3> QED
      BY <2>1, <2>2, <2>3, <2>5, <3>1, <3>2 DEF IsEvaluated
  <2> QED
    BY <2>4, <2>5 DEF Operands
<1>2. \A e \in Expr : IsOperator(e) /\ e.left \in S /\ e.right \in S => e \in S
  <2> SUFFICES ASSUME NEW e \in Expr, IsOperator(e), e.left \in S, e.right \in S, HasColumns(e, names, r),
                      NEW i \in Nat, At(ts, i, PostfixOf[e]), i + Len(PostfixOf[e]) <= Len(R)
               PROVE  /\ Computation(e, names, r) \in Field
                      /\ R[i + Len(PostfixOf[e])] = Append(R[i], Computation(e, names, r))
    BY DEF IsPushed
  <2> DEFINE left == Computation(e.left, names, r)
             right == Computation(e.right, names, r)
             j == i + Len(PostfixOf[e.left])
             k == j + Len(PostfixOf[e.right])
             t == SignToken(e)
  <2>1. IsPushed(R, ts, PostfixOf[e.left], left) /\ IsPushed(R, ts, PostfixOf[e.right], right)
    BY SidesHaveColumns
  <2>2. t.type = e.op /\ t.type \in Operators
    BY DEF SignToken, Tok, IsOperator
  <2>3. /\ At(ts, i, PostfixOf[e.left]) /\ At(ts, j, PostfixOf[e.right])
        /\ ts[k] = t /\ k + 1 = i + Len(PostfixOf[e])
        /\ i \in Nat \ {0} /\ j \in Nat \ {0} /\ k \in Nat \ {0} /\ i <= j /\ j <= k
    BY PostfixAt
  <2> HIDE DEF S, t, left, right
  <2>4. k + 1 <= Len(R) /\ k <= Len(R) /\ j <= Len(R) /\ Len(R) \in Nat
    <3>1. Len(R) \in Nat
      BY DEF IsEvaluation
    <3> HIDE DEF j, k
    <3> QED
      BY <2>3, <3>1
  <2>5. left \in Field /\ R[j] = Append(R[i], left)
    BY <2>1, <2>3, <2>4 DEF IsPushed
  <2>6. right \in Field /\ R[k] = Append(R[j], right)
    BY <2>1, <2>3, <2>4 DEF IsPushed
  <2> HIDE DEF j, k
  <2>7. R[i] \in Seq(Field)
    BY <2>3, <2>4, EvaluationStep
  <2>8. Popped(R[k], 2) = left /\ Popped(R[k], 1) = right /\ Below(R[k], 2) = R[i]
    <3>1. R[k] = Append(Append(R[i], left), right)
      BY <2>5, <2>6
    <3>2. \A s \in Seq(Field), f, g \in Field :
            /\ Popped(Append(Append(s, f), g), 2) = f /\ Popped(Append(Append(s, f), g), 1) = g
            /\ Below(Append(Append(s, f), g), 2) = s
      BY TwoPopped
    <3>3. /\ Popped(Append(Append(R[i], left), right), 2) = left
          /\ Popped(Append(Append(R[i], left), right), 1) = right
          /\ Below(Append(Append(R[i], left), right), 2) = R[i]
      BY <2>5, <2>6, <2>7, <3>2
    <3> QED
      BY <3>1, <3>3
  <2>9. IsEvaluated(R[k], t, names, r, R[k + 1])
    BY <2>3, <2>4, EvaluationStep
  <2>10. /\ ~ RemainderByZero(e.op, left, right)
         /\ R[k + 1] = Append(R[i], Applied(e.op, left, right))
    BY <2>2, <2>8, <2>9 DEF IsEvaluated
  <2>11. Computation(e, names, r) = Applied(e.op, left, right)
    <3>1. Computation(e, names, r) = Pushed(e.op, left, right)
      BY ComputationIs DEF left, right, IsOperator
    <3> QED
      BY <2>10, <3>1 DEF Pushed
  <2>12. Applied(e.op, left, right) \in Field
    BY <2>5, <2>6, <2>10, AppliedTyped DEF IsOperator
  <2> QED
    BY <2>3, <2>10, <2>11, <2>12
<1> HIDE DEF S
<1>3. \A e \in Expr : e \in S
  BY <1>1, <1>2, ExprInduction
<1> QED
  BY <1>3 DEF S

\* If evaluate traps within an expression, that has such a remainder.
LEMMA TrapIsInside ==
  ASSUME NEW ts \in Seq(Token), NEW names, NEW r \in Seq(Field), NEW R, IsEvaluation(R, ts, names, r),
         NEW n, n = Len(R), RemainderByZero(ts[n].type, Popped(R[n], 2), Popped(R[n], 1))
  PROVE  \A e \in Expr : HasColumns(e, names, r) =>
           \A i \in Nat : At(ts, i, PostfixOf[e]) /\ i <= n /\ n < i + Len(PostfixOf[e]) =>
             HasZero(e, names, r)
<1> DEFINE S == {e \in Expr : HasColumns(e, names, r) =>
                   \A i \in Nat : At(ts, i, PostfixOf[e]) /\ i <= n /\ n < i + Len(PostfixOf[e]) =>
                     HasZero(e, names, r)}
<1>1. n \in Nat /\ R \in Seq(Seq(Field)) /\ ts[n].type = "MODULO"
  BY DEF IsEvaluation, RemainderByZero
<1>2. \A e \in Expr : e.op \in Operands => e \in S
  <2> SUFFICES ASSUME NEW e \in Expr, e.op \in Operands,
                      NEW i \in Nat, At(ts, i, PostfixOf[e]), i <= n, n < i + Len(PostfixOf[e])
               PROVE  FALSE
    OBVIOUS
  <2> DEFINE t == OperandToken(e)
  <2>1. PostfixOf[e] = << t >> /\ t.type = e.op
    BY PostfixIs DEF OperandToken, Tok
  <2> HIDE DEF t
  <2>2. ts[i] = t /\ Len(PostfixOf[e]) = 1
    BY <2>1, OneAt
  <2>3. n = i
    BY <1>1, <2>2
  <2> QED
    BY <1>1, <2>1, <2>2, <2>3 DEF Operands, Literals
<1>3. \A e \in Expr : IsOperator(e) /\ e.left \in S /\ e.right \in S => e \in S
  <2> SUFFICES ASSUME NEW e \in Expr, IsOperator(e), e.left \in S, e.right \in S, HasColumns(e, names, r),
                      NEW i \in Nat, At(ts, i, PostfixOf[e]), i <= n, n < i + Len(PostfixOf[e])
               PROVE  HasZero(e, names, r)
    OBVIOUS
  <2> DEFINE left == Computation(e.left, names, r)
             right == Computation(e.right, names, r)
             j == i + Len(PostfixOf[e.left])
             k == j + Len(PostfixOf[e.right])
  <2>1. HasColumns(e.left, names, r) /\ HasColumns(e.right, names, r) /\ e.left \in Expr /\ e.right \in Expr
    BY SidesHaveColumns DEF IsOperator
  <2>2. /\ At(ts, i, PostfixOf[e.left]) /\ At(ts, j, PostfixOf[e.right])
        /\ ts[k] = SignToken(e) /\ k + 1 = i + Len(PostfixOf[e])
        /\ i \in Nat \ {0} /\ j \in Nat \ {0} /\ k \in Nat \ {0} /\ i <= j /\ j <= k
    BY PostfixAt
  <2>3. CASE n < j
    <3>1. HasZero(e.left, names, r)
      BY <2>1, <2>2, <2>3
    <3> QED
      BY <3>1, SidesTrap
  <2>4. CASE j <= n /\ n < k
    <3>1. HasZero(e.right, names, r)
      BY <2>1, <2>2, <2>4
    <3> QED
      BY <3>1, SidesTrap
  <2>5. CASE n = k
    <3> HIDE DEF S, left, right
    <3>1. IsPushed(R, ts, PostfixOf[e.left], left) /\ IsPushed(R, ts, PostfixOf[e.right], right)
      BY <2>1, PostfixIsEvaluated DEF left, right
    <3>2. k <= Len(R) /\ j <= Len(R)
      <4> HIDE DEF j, k
      <4> QED
        BY <1>1, <2>2, <2>5
    <3>3. left \in Field /\ R[j] = Append(R[i], left)
      BY <2>2, <3>1, <3>2 DEF IsPushed
    <3>4. right \in Field /\ R[k] = Append(R[j], right)
      BY <2>2, <3>1, <3>2 DEF IsPushed
    <3> HIDE DEF j, k
    <3>5. R[i] \in Seq(Field)
      <4>1. i \in 1 .. Len(R)
        BY <1>1, <2>2, <3>2
      <4> QED
        BY <1>1, <4>1
    <3>6. Popped(R[n], 2) = left /\ Popped(R[n], 1) = right
      <4>1. R[n] = Append(Append(R[i], left), right)
        BY <2>5, <3>3, <3>4
      <4>2. \A s \in Seq(Field), f, g \in Field :
              Popped(Append(Append(s, f), g), 2) = f /\ Popped(Append(Append(s, f), g), 1) = g
        BY TwoPopped
      <4>3. /\ Popped(Append(Append(R[i], left), right), 2) = left
            /\ Popped(Append(Append(R[i], left), right), 1) = right
        BY <3>3, <3>4, <3>5, <4>2
      <4> QED
        BY <4>1, <4>3
    <3>7. RemainderByZero(e.op, left, right)
      BY <2>2, <2>5, <3>6 DEF SignToken, Tok
    <3>8. e \in Parts(e) /\ e.op \in Operators
      BY PartsAre DEF IsOperator
    <3> QED
      BY <3>7, <3>8 DEF HasZero, left, right
  <2>6. n < j \/ (j <= n /\ n < k) \/ n = k
    <3> HIDE DEF j, k
    <3> QED
      BY <1>1, <2>2, SMTT(30)
  <2> QED
    BY <2>3, <2>4, <2>5, <2>6
<1> HIDE DEF S
<1>4. \A e \in Expr : e \in S
  BY <1>2, <1>3, ExprInduction
<1> QED
  BY <1>4 DEF S

(***************************************************************************)
(* The engine executes queries with such a clause.                         *)
(***************************************************************************)
\* A sequence whose elements follow each other is made longer by one that follows.
LEMMA LongerBy ==
  ASSUME NEW S, NEW R \in Seq(S), NEW y \in S
  PROVE  /\ Append(R, y) \in Seq(S) /\ Len(Append(R, y)) = Len(R) + 1
         /\ Append(R, y)[Len(R) + 1] = y
         /\ \A i \in 1 .. Len(R) : Append(R, y)[i] = R[i]
  BY AppendProperties

LEMMA ConversionGoesOn ==
  ASSUME NEW ts \in Seq(Token), NEW R, IsConversion(R, ts), NEW n \in Nat \ {0}, n = Len(R),
         n <= Len(ts), NEW y \in State, IsConverted(R[n], ts[n], y)
  PROVE  /\ IsConversion(Append(R, y), ts) /\ Len(Append(R, y)) = n + 1
         /\ Append(R, y)[1] = R[1] /\ Append(R, y)[n + 1] = y
<1> DEFINE Q == Append(R, y)
<1>1. R \in Seq(State)
  BY DEF IsConversion
<1>2. Q \in Seq(State) /\ Len(Q) = n + 1 /\ Q[n + 1] = y /\ \A i \in 1 .. n : Q[i] = R[i]
  BY <1>1, LongerBy
<1> HIDE DEF Q
<1>3. \A i \in 1 .. n : IsConverted(Q[i], ts[i], Q[i + 1])
  <2> TAKE i \in 1 .. n
  <2>1. CASE i = n
    <3>1. Q[i] = R[n] /\ Q[i + 1] = y
      BY <1>2, <2>1
    <3> QED
      BY <2>1, <3>1
  <2>2. CASE i # n
    <3>1. i \in 1 .. Len(R) - 1 /\ i \in 1 .. n /\ i + 1 \in 1 .. n
      BY <2>2
    <3>2. IsConverted(R[i], ts[i], R[i + 1])
      BY <3>1 DEF IsConversion
    <3>3. Q[i] = R[i] /\ Q[i + 1] = R[i + 1]
      BY <1>2, <3>1
    <3> QED
      BY <3>2, <3>3
  <2> QED
    BY <2>1, <2>2
<1>4. 1 \in 1 .. n /\ Len(Q) - 1 = n /\ Len(Q) <= Len(ts) + 1
  BY <1>2
<1>5. IsConversion(Q, ts)
  BY <1>2, <1>3, <1>4 DEF IsConversion
<1> QED
  BY <1>2, <1>4, <1>5 DEF Q

LEMMA EvaluationGoesOn ==
  ASSUME NEW ts \in Seq(Token), NEW names, NEW r, NEW R, IsEvaluation(R, ts, names, r),
         NEW n \in Nat \ {0}, n = Len(R), n <= Len(ts), NEW y \in Seq(Field),
         IsEvaluated(R[n], ts[n], names, r, y)
  PROVE  /\ IsEvaluation(Append(R, y), ts, names, r) /\ Len(Append(R, y)) = n + 1
         /\ Append(R, y)[1] = R[1] /\ Append(R, y)[n + 1] = y
<1> DEFINE Q == Append(R, y)
<1>1. R \in Seq(Seq(Field))
  BY DEF IsEvaluation
<1>2. Q \in Seq(Seq(Field)) /\ Len(Q) = n + 1 /\ Q[n + 1] = y /\ \A i \in 1 .. n : Q[i] = R[i]
  BY <1>1, LongerBy
<1> HIDE DEF Q
<1>3. \A i \in 1 .. n : IsEvaluated(Q[i], ts[i], names, r, Q[i + 1])
  <2> TAKE i \in 1 .. n
  <2>1. CASE i = n
    <3>1. Q[i] = R[n] /\ Q[i + 1] = y
      BY <1>2, <2>1
    <3> QED
      BY <2>1, <3>1
  <2>2. CASE i # n
    <3>1. i \in 1 .. Len(R) - 1 /\ i \in 1 .. n /\ i + 1 \in 1 .. n
      BY <2>2
    <3>2. IsEvaluated(R[i], ts[i], names, r, R[i + 1])
      BY <3>1 DEF IsEvaluation
    <3>3. Q[i] = R[i] /\ Q[i + 1] = R[i + 1]
      BY <1>2, <3>1
    <3> QED
      BY <3>2, <3>3
  <2> QED
    BY <2>1, <2>2
<1>4. 1 \in 1 .. n /\ Len(Q) - 1 = n /\ Len(Q) <= Len(ts) + 1
  BY <1>2
<1>5. IsEvaluation(Q, ts, names, r)
  BY <1>2, <1>3, <1>4 DEF IsEvaluation
<1> QED
  BY <1>2, <1>4, <1>5 DEF Q

\* What convert has on its stack and in its queue.
Now == [ops |-> ops, out |-> out]

\* Every step of convert before its last one converts the next token.
LEMMA ConvertStep ==
  ASSUME ClauseTypeOK,
         ConvertOperand \/ ConvertOperator \/ ConvertOpening \/ ConvertClosing \/ ConvertOther
  PROVE  /\ phase = "convert" /\ phase' = "convert" /\ next <= Len(infix) /\ next' = next + 1
         /\ UNCHANGED << clause, schema, infix, row, evalStack, match >>
         /\ Now' \in State /\ IsConverted(Now, infix[next], Now')
<1> USE DEF ClauseTypeOK
<1>1. ClauseTypeOK'
  BY ConvertTyped
<1>2. Now' \in State /\ Now' = [ops |-> ops', out |-> out']
  BY <1>1 DEF Now, State
<1>3. Now.ops = ops /\ Now.out = out /\ Now'.ops = ops' /\ Now'.out = out'
  BY <1>2 DEF Now
<1>4. ASSUME NEW t, Converts(t)
      PROVE  /\ phase = "convert" /\ phase' = "convert" /\ next <= Len(infix) /\ next' = next + 1
             /\ UNCHANGED << clause, schema, infix, row, evalStack, match >> /\ t = infix[next]
  BY <1>4 DEF Converts
<1> SUFFICES \E t : Converts(t) /\ IsConverted(Now, t, Now')
  BY <1>2, <1>4
<1>5. \A k : PopTo(k) => out' = Flushed(Now, k)
  BY <1>3 DEF PopTo, Flushed
<1>6. CASE ConvertOperand
  <2>1. PICK t : Converts(t) /\ t.type \in Operands /\ out' = Append(out, t) /\ ops' = ops
    BY <1>6 DEF ConvertOperand
  <2>2. t.type \notin Operators /\ t.type # "LPAREN" /\ t.type # "RPAREN"
    BY <2>1 DEF Operands, Literals, Operators
  <2>3. IsConverted(Now, t, Now')
    BY <1>3, <2>1, <2>2 DEF IsConverted
  <2> QED
    BY <2>1, <2>3
<1>7. CASE ConvertOperator
  <2>1. PICK t : /\ Converts(t) /\ t.type \in Operators
                 /\ PopTo(Kept(t)) /\ ops' = Append(SubSeq(ops, 1, Kept(t)), t)
    BY <1>7 DEF ConvertOperator, Kept
  <2> DEFINE k == Kept(t)
  <2>2. /\ k \in 0 .. Len(ops)
        /\ k > 0 => ~ Yields(ops[k], t)
        /\ \A j \in k + 1 .. Len(ops) : Yields(ops[j], t)
    BY LastNotYielding
  <2>3. PopTo(k) /\ ops' = Append(SubSeq(ops, 1, k), t)
    BY <2>1
  <2> HIDE DEF k
  <2>4. t.type \notin Operands /\ t.type # "LPAREN" /\ t.type # "RPAREN"
    BY <2>1 DEF Operands, Literals, Operators
  <2>5. /\ Now'.out = Flushed(Now, k) /\ Now'.ops = Append(SubSeq(Now.ops, 1, k), t)
        /\ k \in 0 .. Len(Now.ops)
        /\ k > 0 => ~ Yields(Now.ops[k], t)
        /\ \A j \in k + 1 .. Len(Now.ops) : Yields(Now.ops[j], t)
    BY <1>3, <1>5, <2>2, <2>3
  <2>6. IsConverted(Now, t, Now')
    BY <2>4, <2>5 DEF IsConverted
  <2> QED
    BY <2>1, <2>6
<1>8. CASE ConvertOpening
  <2>1. PICK t : Converts(t) /\ t.type = "LPAREN" /\ ops' = Append(ops, t) /\ out' = out
    BY <1>8 DEF ConvertOpening
  <2>2. t.type \notin Operators /\ t.type \notin Operands /\ t.type # "RPAREN"
    BY <2>1 DEF Operands, Literals, Operators
  <2>3. IsConverted(Now, t, Now')
    BY <1>3, <2>1, <2>2 DEF IsConverted
  <2> QED
    BY <2>1, <2>3
<1>9. CASE ConvertClosing
  <2>1. PICK t : /\ Converts(t) /\ t.type = "RPAREN"
                 /\ PopTo(Opening) /\ ops' = SubSeq(ops, 1, Opening - 1)
    BY <1>9 DEF ConvertClosing, Opening
  <2> DEFINE k == Opening
  <2>2. /\ k \in 0 .. Len(ops)
        /\ k > 0 => ops[k].type = "LPAREN"
        /\ \A j \in k + 1 .. Len(ops) : ops[j].type # "LPAREN"
    BY LastOpening
  <2>3. PopTo(k) /\ ops' = SubSeq(ops, 1, k - 1)
    BY <2>1
  <2> HIDE DEF k
  <2>4. t.type \notin Operands /\ t.type # "LPAREN" /\ t.type \notin Operators
    BY <2>1 DEF Operands, Literals, Operators
  <2>5. /\ Now'.out = Flushed(Now, k) /\ Now'.ops = SubSeq(Now.ops, 1, k - 1)
        /\ k \in 0 .. Len(Now.ops)
        /\ k > 0 => Now.ops[k].type = "LPAREN"
        /\ \A j \in k + 1 .. Len(Now.ops) : Now.ops[j].type # "LPAREN"
    BY <1>3, <1>5, <2>2, <2>3
  <2>6. IsConverted(Now, t, Now')
    BY <2>4, <2>5 DEF IsConverted
  <2> QED
    BY <2>1, <2>6
<1>10. CASE ConvertOther
  <2>1. PICK t : Converts(t) /\ t.type \in Keywords \ {"AND", "OR"}
    BY <1>10 DEF ConvertOther
  <2>2. t.type \notin Operands /\ t.type # "LPAREN" /\ t.type \notin Operators /\ t.type # "RPAREN"
    BY <2>1 DEF Operands, Literals, Operators, Keywords
  <2>3. IsConverted(Now, t, Now')
    BY <2>2 DEF IsConverted
  <2> QED
    BY <2>1, <2>3
<1> QED
  BY <1>6, <1>7, <1>8, <1>9, <1>10

\* Every step of evaluate that does not end it evaluates the next token.
LEMMA EvaluateStep ==
  ASSUME ClauseTypeOK, EvaluateIdentifier \/ EvaluateLiteral \/ EvaluateOperator \/ EvaluateOther
  PROVE  /\ phase = "evaluate" /\ phase' = "evaluate" /\ next <= Len(out) /\ next' = next + 1
         /\ UNCHANGED << clause, schema, infix, ops, out, row, match >>
         /\ evalStack' \in Seq(Field) /\ IsEvaluated(evalStack, out[next], schema, row, evalStack')
<1>1. evalStack' \in Seq(Field)
  <2>1. ClauseTypeOK'
    BY EvaluateTyped
  <2> QED
    BY <2>1 DEF ClauseTypeOK
<1>2. ASSUME NEW t, Evaluates(t)
      PROVE  /\ phase = "evaluate" /\ phase' = "evaluate" /\ next <= Len(out) /\ next' = next + 1
             /\ UNCHANGED << clause, schema, infix, ops, out, row, match >> /\ t = out[next]
  BY <1>2 DEF Evaluates
<1> SUFFICES \E t : Evaluates(t) /\ IsEvaluated(evalStack, t, schema, row, evalStack')
  BY <1>1, <1>2
<1>3. CASE EvaluateIdentifier
  <2>1. PICK t : /\ Evaluates(t) /\ t.type = "IDENTIFIER"
                 /\ evalStack' = IF Column(schema, t.value) \in DOMAIN row
                                 THEN Append(evalStack, row[Column(schema, t.value)]) ELSE evalStack
    BY <1>3 DEF EvaluateIdentifier
  <2>2. t.type \notin Literals /\ t.type \notin Operators
    BY <2>1 DEF Literals, Operators
  <2>3. IsEvaluated(evalStack, t, schema, row, evalStack')
    BY <2>1, <2>2 DEF IsEvaluated
  <2> QED
    BY <2>1, <2>3
<1>4. CASE EvaluateLiteral
  <2>1. PICK t : /\ Evaluates(t) /\ t.type \in Literals
                 /\ evalStack' = Append(evalStack, Tok(FieldType[t.type], t.value))
    BY <1>4 DEF EvaluateLiteral
  <2>2. t.type # "IDENTIFIER" /\ t.type \notin Operators
    BY <2>1 DEF Literals, Operators
  <2>3. IsEvaluated(evalStack, t, schema, row, evalStack')
    BY <2>1, <2>2 DEF IsEvaluated
  <2> QED
    BY <2>1, <2>3
<1>5. CASE EvaluateOperator
  <2>1. PICK t : /\ Evaluates(t) /\ t.type \in Operators
                 /\ ~ RemainderByZero(t.type, Popped(evalStack, 2), Popped(evalStack, 1))
                 /\ evalStack' = Append(Below(evalStack, 2),
                                        Applied(t.type, Popped(evalStack, 2), Popped(evalStack, 1)))
    BY <1>5 DEF EvaluateOperator
  <2>2. t.type # "IDENTIFIER" /\ t.type \notin Literals
    BY <2>1 DEF Literals, Operators
  <2>3. IsEvaluated(evalStack, t, schema, row, evalStack')
    BY <2>1, <2>2 DEF IsEvaluated
  <2> QED
    BY <2>1, <2>3
<1>6. CASE EvaluateOther
  <2>1. PICK t : Evaluates(t) /\ t.type = "LPAREN" /\ evalStack' = evalStack
    BY <1>6 DEF EvaluateOther
  <2>2. t.type # "IDENTIFIER" /\ t.type \notin Literals /\ t.type \notin Operators
    BY <2>1 DEF Literals, Operators
  <2>3. IsEvaluated(evalStack, t, schema, row, evalStack')
    BY <2>2 DEF IsEvaluated
  <2> QED
    BY <2>1, <2>3
<1> QED
  BY <1>3, <1>4, <1>5, <1>6


(***************************************************************************)
(* The inductive invariant: EngineInv, and what is done for the query.     *)
(***************************************************************************)
\* A query with a WHERE the user means something by is being executed.
IsPosed == phase # "idle" /\ IsRouted(query) /\ HasWhere(query) /\ query.clause # NoClause

PagesRead == IF ByIndex THEN IndexPages ELSE ScanPages

\* No other query gets past its routing, and without a WHERE nothing is meant.
IsExecuted ==
  /\ phase \notin {"idle", "answered"} => IsRouted(query)
  /\ phase # "idle" /\ IsPlain(query) => clause = NoClause

TokensAreMeant ==
  IsPosed => /\ clause = query.clause /\ clause \in Expr
             /\ infix = InfixOf[clause] /\ schema = Schemas[TableAsked(query)]

\* convert is on its way through the tokens.
AtStart == [ops |-> << >>, out |-> << >>]

Converting ==
  IsPosed /\ phase = "convert" =>
    \E R : IsConversion(R, infix) /\ Len(R) = next /\ R[1] = AtStart /\ R[next] = Now

PostfixIsMeant == IsPosed /\ phase # "convert" => out = PostfixOf[clause]

\* evaluate is on its way through the postfix.
Evaluating ==
  IsPosed /\ phase = "evaluate" =>
    /\ row = RowRead
    /\ \E R : /\ IsEvaluation(R, out, schema, row) /\ Len(R) = next
              /\ R[1] = << >> /\ R[next] = evalStack

TrapWasMeant == IsPosed /\ phase = "crashed" => TrapIsMeant

\* Whether the row at h is decided upon by what the user means.
IsWanted(h) ==
  h[2] \in DOMAIN pages[h[1]] /\ IsAskedAbout(pages[h[1]][h[2]]) /\ Wanted(pages[h[1]][h[2]])
IsUnwanted(h) ==
  h[2] \in DOMAIN pages[h[1]] /\ IsAskedAbout(pages[h[1]][h[2]]) /\ ~ Wanted(pages[h[1]][h[2]])

\* A row no longer waiting is found if it is wanted, and no other is found.
IsPast(h) == h[1] \notin ToSet(visit) \/ (visit # << >> /\ h[1] = Head(visit) /\ h[2] < at)

Searching ==
  IsPosed /\ phase \in {"scan", "evaluate", "answered"} =>
    /\ ToSet(visit) \subseteq ToSet(PagesRead)
    /\ \A p \in ToSet(PagesRead) : \A i \in DOMAIN pages[p] :
         IsPast(<< p, i >>) /\ IsWanted(<< p, i >>) => << p, i >> \in found
    /\ \A h \in found : h[1] \in ToSet(PagesRead) /\ ~ IsUnwanted(h)
    /\ phase = "answered" => visit = << >>

ClauseInv ==
  /\ IsExecuted /\ TokensAreMeant /\ Converting /\ PostfixIsMeant /\ Evaluating
  /\ TrapWasMeant /\ Searching

LEMMA ClauseInvInit ==
  ASSUME Init
  PROVE  ClauseInv
  BY DEF Init, ClauseInv, IsExecuted, TokensAreMeant, Converting, PostfixIsMeant, Evaluating,
         TrapWasMeant, Searching, IsPosed

\* What is said of a query stays so as long as it is executed.
LEMMA SameQuery ==
  ASSUME query' = query
  PROVE  /\ IsRouted(query)' = IsRouted(query) /\ HasWhere(query)' = HasWhere(query)
         /\ IsPlain(query)' = IsPlain(query) /\ TableAsked(query)' = TableAsked(query)
         /\ phase # "idle" /\ phase' # "idle" => IsPosed' = IsPosed
  BY ZenonT(30)
  DEF IsPosed, IsPlain, IsRouted, TableAsked, Selects, Updates, HasWhere, IsUpdate, UpdateStart,
      Word

\* What is said of the pages stays so as long as they and the query do.
LEMMA SamePages ==
  ASSUME UNCHANGED << clause, schema, infix, query, pages, total, index >>
  PROVE  /\ PagesRead' = PagesRead
         /\ \A h : IsWanted(h)' = IsWanted(h) /\ IsUnwanted(h)' = IsUnwanted(h)
         /\ TrapIsMeant' = (HasColumns(clause, schema, row') => Traps(clause, schema, row'))
<1>1. ByIndex' = ByIndex /\ IndexPages' = IndexPages /\ ScanPages' = ScanPages
  BY DEF ByIndex, IndexPages, ScanPages, Scanned, Selects, TableAsked, UpdateStart, Word, LookedUp
<1>2. \A r : /\ HasColumns(clause, schema, r)' = HasColumns(clause, schema, r)
             /\ Traps(clause, schema, r)' = Traps(clause, schema, r)
             /\ IsJudged(clause, schema, r)' = IsJudged(clause, schema, r)
             /\ Meaning(clause, schema, r)' = Meaning(clause, schema, r)
  OBVIOUS
<1> QED
  BY <1>1 DEF PagesRead, IsWanted, IsUnwanted, IsAskedAbout, Wanted, TrapIsMeant

LEMMA BetweenQueriesKeepsClause ==
  ASSUME phase = "idle", phase' = "idle"
  PROVE  ClauseInv'
  BY DEF ClauseInv, IsExecuted, TokensAreMeant, Converting, PostfixIsMeant, Evaluating,
         TrapWasMeant, Searching, IsPosed

\* What the user types is read as the tokens of what he means.
LEMMA AskKeepsClause ==
  ASSUME EngineInv, phase = "idle", NEW q \in Queries(pages), Ask(q) \/ AskInVain(q)
  PROVE  ClauseInv'
<1> USE DEF EngineInv
<1>1. CASE AskInVain(q)
  <2>1. query' = q /\ ~ IsRouted(q) /\ phase' = "answered"
    BY <1>1 DEF AskInVain
  <2>2. ~ IsRouted(query)'
    BY <2>1 DEF IsRouted, TableAsked, Selects, Updates, IsUpdate, UpdateStart, Word
  <2> QED
    BY <2>1, <2>2 DEF ClauseInv, IsExecuted, TokensAreMeant, Converting, PostfixIsMeant, Evaluating,
         TrapWasMeant, Searching, IsPosed, IsPlain
<1>2. CASE Ask(q)
  <2>1. /\ query' = q /\ IsRouted(q) /\ phase' = "convert" /\ schema' = Schemas[TableAsked(q)]
        /\ infix' = IF HasWhere(q) THEN TokenizeAll(q.where) ELSE << >>
        /\ clause' = IF HasWhere(q) THEN q.clause ELSE NoClause
        /\ next' = next /\ ops' = ops /\ out' = out
    BY <1>2 DEF Ask
  <2>2. /\ IsRouted(query)' /\ HasWhere(query)' = HasWhere(q) /\ TableAsked(query)' = TableAsked(q)
        /\ IsPlain(query)' = ~ HasWhere(q)
        /\ IsPosed' = (HasWhere(q) /\ q.clause # NoClause)
    BY <2>1 DEF IsPosed, IsPlain, IsRouted, TableAsked, Selects, Updates, HasWhere, IsUpdate,
       UpdateStart, Word
  <2>3. IsExecuted'
    BY <2>1, <2>2 DEF IsExecuted
  <2>4. pages \in [PageIds -> BoundedSeq(Rows, RowsPerPage)]
    <3>1. ASSUME NEW p \in PageIds
          PROVE  pages[p] \in BoundedSeq(Rows, RowsPerPage)
      <4>1. pages[p] \in Seq(Rows) /\ Len(pages[p]) \in 0 .. RowsPerPage
        BY TableAssumption DEF TypeOK, TableTypeOK, PagesFit
      <4>2. pages[p] \in [1 .. Len(pages[p]) -> Rows]
        BY <4>1
      <4> QED
        BY <4>1, <4>2 DEF BoundedSeq, SeqOf
    <3>2. pages = [p \in PageIds |-> pages[p]]
      BY DEF TypeOK, TableTypeOK
    <3> QED
      BY <3>1, <3>2
  <2>5. TokensAreMeant'
    <3> SUFFICES ASSUME HasWhere(q), q.clause # NoClause
                 PROVE  q.clause \in Expr /\ TokenizeAll(q.where) = InfixOf[q.clause]
      BY <2>1, <2>2 DEF TokensAreMeant
    <3>1. q.clause \in Expr /\ \E spaced \in BOOLEAN : q.where = Typed(q.clause, spaced)
      BY <2>4, ClauseAssumption
    <3>2. PICK spaced : q.where = Typed(q.clause, spaced)
      BY <3>1
    <3> QED
      BY <3>1, <3>2, TokenizedIs
  <2>6. Converting'
    <3> DEFINE R == << AtStart >>
    <3>1. next = 1 /\ ops = << >> /\ out = << >>
      BY DEF AtRest
    <3>2. AtStart \in State /\ Now' = AtStart
      BY <2>1, <3>1 DEF AtStart, State, Now
    <3>3. R \in Seq(State) /\ Len(R) = 1 /\ R[1] = AtStart
      BY <3>2
    <3>4. infix' \in Seq(Token)
      <4>1. EngineInv'
        BY <1>2, AskKeeps
      <4> QED
        BY <4>1 DEF TypeOK, ClauseTypeOK
    <3>5. Len(infix') \in Nat
      BY <3>4
    <3> HIDE DEF R
    <3>6. IsConversion(R, infix')
      BY <3>3, <3>5 DEF IsConversion
    <3> QED
      BY <2>1, <3>1, <3>2, <3>3, <3>6 DEF Converting
  <2> QED
    BY <2>1, <2>3, <2>5, <2>6 DEF ClauseInv, PostfixIsMeant, Evaluating, TrapWasMeant, Searching
<1> QED
  BY <1>1, <1>2

\* convert takes a token.
LEMMA ConvertKeepsClause ==
  ASSUME EngineInv, ClauseInv, UNCHANGED << tableVars, queryVars >>,
         ConvertOperand \/ ConvertOperator \/ ConvertOpening \/ ConvertClosing \/ ConvertOther
  PROVE  ClauseInv'
<1>1. ClauseTypeOK
  BY DEF EngineInv, TypeOK
<1>2. /\ phase = "convert" /\ phase' = "convert" /\ next <= Len(infix) /\ next' = next + 1
      /\ UNCHANGED << clause, schema, infix, row, evalStack, match >>
      /\ Now' \in State /\ IsConverted(Now, infix[next], Now')
  BY <1>1, ConvertStep
<1>3. query' = query
  BY DEF queryVars
<1>4. IsExecuted' /\ TokensAreMeant' /\ IsPosed' = IsPosed
  BY <1>2, <1>3, SameQuery DEF ClauseInv, IsExecuted, TokensAreMeant
<1>5. Converting'
  <2> SUFFICES ASSUME IsPosed
               PROVE  \E R : /\ IsConversion(R, infix) /\ Len(R) = next + 1
                             /\ R[1] = AtStart /\ R[next + 1] = Now'
    BY <1>2, <1>4 DEF Converting
  <2>1. PICK R : IsConversion(R, infix) /\ Len(R) = next /\ R[1] = AtStart /\ R[next] = Now
    BY <1>2 DEF ClauseInv, Converting
  <2>2. infix \in Seq(Token) /\ next \in Nat \ {0}
    BY <1>1 DEF ClauseTypeOK
  <2>3. /\ IsConversion(Append(R, Now'), infix) /\ Len(Append(R, Now')) = next + 1
        /\ Append(R, Now')[1] = R[1] /\ Append(R, Now')[next + 1] = Now'
    BY <1>2, <2>1, <2>2, ConversionGoesOn
  <2> QED
    BY <2>1, <2>3
<1> QED
  BY <1>2, <1>4, <1>5 DEF ClauseInv, PostfixIsMeant, Evaluating, TrapWasMeant, Searching

\* What convert puts out in the end is the postfix of the clause.
LEMMA ConvertEndKeepsClause ==
  ASSUME EngineInv, ClauseInv, UNCHANGED << tableVars, queryVars >>, ConvertEnd
  PROVE  ClauseInv'
<1>1. /\ phase = "convert" /\ phase' = "plan" /\ next > Len(infix) /\ PopTo(0)
      /\ UNCHANGED << clause, schema, infix, next, row, evalStack, match >> /\ query' = query
  BY DEF ConvertEnd, queryVars
<1>2. IsExecuted' /\ TokensAreMeant' /\ IsPosed' = IsPosed
  BY <1>1, SameQuery DEF ClauseInv, IsExecuted, TokensAreMeant
<1>3. PostfixIsMeant'
  <2> SUFFICES ASSUME IsPosed
               PROVE  out' = PostfixOf[clause]
    BY <1>1, <1>2 DEF PostfixIsMeant
  <2>1. clause \in Expr /\ infix = InfixOf[clause]
    BY DEF ClauseInv, TokensAreMeant
  <2>2. PICK R : IsConversion(R, infix) /\ Len(R) = next /\ R[1] = AtStart /\ R[next] = Now
    BY <1>1 DEF ClauseInv, Converting
  <2>3. infix \in Seq(Token) /\ next \in Nat /\ Len(infix) \in Nat
    BY DEF EngineInv, TypeOK, ClauseTypeOK
  <2>4. next = 1 + Len(infix)
    BY <1>1, <2>2, <2>3 DEF IsConversion
  <2>5. At(infix, 1, infix)
    BY <2>3 DEF At
  <2>6. Fits(AtStart, Level(clause))
    BY DEF Fits, AtStart
  <2>7. IsConvertedTo(R, infix, InfixOf[clause], PostfixOf[clause], Level(clause))
    BY <2>1, <2>2, <2>3, InfixIsConverted
  <2>8. Grown(AtStart, Now, PostfixOf[clause], Level(clause))
    <3>1. 1 \in Nat /\ 1 + Len(infix) <= Len(R)
      BY <2>2, <2>4
    <3>2. Grown(R[1], R[1 + Len(infix)], PostfixOf[clause], Level(clause))
      BY <2>1, <2>2, <2>5, <2>6, <2>7, <3>1 DEF IsConvertedTo
    <3> QED
      BY <2>2, <2>4, <3>2
  <2>9. Flushed(Now, 0) = << >> \o PostfixOf[clause]
    <3>1. Len(AtStart.ops) = 0 /\ AtStart.out = << >>
      BY DEF AtStart
    <3> QED
      BY <2>8, <3>1 DEF Grown
  <2>10. out' = Flushed(Now, 0)
    BY <1>1 DEF PopTo, Flushed, Now
  <2>11. PostfixOf[clause] \in Seq(Token)
    BY <2>1, PostfixIs
  <2> QED
    BY <2>9, <2>10, <2>11, ConcatEmptySeq
<1> QED
  BY <1>1, <1>2, <1>3 DEF ClauseInv, Converting, Evaluating, TrapWasMeant, Searching


\* The pages to read are chosen, none of them read.
LEMMA PlanKeepsClause ==
  ASSUME EngineInv, ClauseInv, PlanIndex \/ PlanScan
  PROVE  ClauseInv'
<1>1. /\ phase = "plan" /\ phase' = "scan"
      /\ UNCHANGED << clause, schema, infix, out, query, at, found, pages, total, index >>
      /\ visit' = PagesRead
  BY DEF PlanIndex, PlanScan, Plan, PagesRead, tableVars
<1>2. /\ IsExecuted' /\ TokensAreMeant' /\ PostfixIsMeant' /\ IsPosed' = IsPosed
  BY <1>1, SameQuery DEF ClauseInv, IsExecuted, TokensAreMeant, PostfixIsMeant
<1>3. PagesRead' = PagesRead /\ at = 1 /\ found = {}
  BY <1>1, SamePages DEF EngineInv, AtRest
<1>4. \A p \in ToSet(PagesRead) : \A i \in DOMAIN pages[p] : ~ IsPast(<< p, i >>)'
  <2> SUFFICES ASSUME NEW p \in ToSet(PagesRead), NEW i \in DOMAIN pages[p],
                      visit' # << >>, p = Head(visit'), i < 1
               PROVE  FALSE
    BY <1>1, <1>3 DEF IsPast
  <2>1. visit' \in Seq(1 .. total)
    <3>1. EngineInv'
      BY PlanKeeps
    <3> QED
      BY <1>1, <3>1 DEF EngineInv, TypeOK
  <2>2. p \in PageIds
    <3>1. p \in 1 .. total
      BY <2>1, HeadTailTyped
    <3> QED
      BY <3>1, TableAssumption DEF EngineInv, TypeOK, TableTypeOK, PageIds
  <2>3. pages[p] \in Seq(Rows)
    BY <2>2 DEF EngineInv, TypeOK, TableTypeOK
  <2> QED
    BY <2>3
<1>5. Searching'
  BY <1>1, <1>3, <1>4 DEF Searching
<1> QED
  BY <1>1, <1>2, <1>5 DEF ClauseInv, Converting, Evaluating, TrapWasMeant

LEMMA PostfixIsThere ==
  ASSUME NEW e \in Expr
  PROVE  PostfixOf[e] \in Seq(Token) /\ PostfixOf[e] # << >>
<1>1. PostfixOf[e] \in Seq(Token)
  BY PostfixIs
<1>2. CASE e.op \in Operands
  <2>1. PostfixOf[e] = << OperandToken(e) >>
    BY <1>2, PostfixIs
  <2> QED
    BY <1>1, <2>1
<1>3. CASE IsOperator(e)
  <2> DEFINE a == PostfixOf[e.left]
             b == PostfixOf[e.right]
             c == << SignToken(e) >>
  <2>1. PostfixOf[e] = (a \o b) \o c
    BY <1>3, PostfixIs DEF IsOperator
  <2>2. a \in Seq(Token) /\ b \in Seq(Token)
    BY <1>3, PostfixIs DEF IsOperator
  <2>3. c \in Seq(Token) /\ Len(c) = 1
    BY <1>3, ExprTokens DEF IsOperator
  <2> HIDE DEF a, b, c
  <2>4. a \o b \in Seq(Token)
    BY <2>2, ConcatTyped
  <2>5. \A t \in Seq(Token) : Len(t \o c) = Len(t) + Len(c) /\ Len(t) \in Nat
    BY <2>3, ConcatTyped
  <2>6. Len(PostfixOf[e]) # 0
    BY <2>1, <2>3, <2>4, <2>5
  <2> QED
    BY <1>1, <2>6
<1> QED
  BY <1>1, <1>2, <1>3, ExprShape

\* No row is taken unseen.
LEMMA TakeRowKeepsClause ==
  ASSUME EngineInv, ClauseInv, TakeRow
  PROVE  ClauseInv'
<1>1. /\ phase = "scan" /\ phase' = "scan" /\ out = << >> /\ query' = query /\ clause' = clause
  BY DEF TakeRow, Note, clauseVars
<1>2. ~ IsPosed
  <2> SUFFICES ASSUME IsPosed
               PROVE  FALSE
    OBVIOUS
  <2>1. clause \in Expr /\ out = PostfixOf[clause]
    BY <1>1 DEF ClauseInv, TokensAreMeant, PostfixIsMeant
  <2> QED
    BY <1>1, <2>1, PostfixIsThere
<1>3. ~ IsPosed' /\ IsExecuted'
  BY <1>1, <1>2, SameQuery DEF ClauseInv, IsExecuted
<1> QED
  BY <1>3 DEF ClauseInv, TokensAreMeant, Converting, PostfixIsMeant, Evaluating, TrapWasMeant, Searching

\* evaluate begins with a row.
LEMMA StartRowKeepsClause ==
  ASSUME EngineInv, ClauseInv, StartRow
  PROVE  ClauseInv'
<1>1. /\ phase = "scan" /\ phase' = "evaluate" /\ visit # << >>
      /\ row' = RowRead /\ next' = 1 /\ evalStack' = << >>
      /\ UNCHANGED << clause, schema, infix, out, query, visit, at, found, pages, total, index >>
  BY DEF StartRow, Evaluate, tableVars, queryVars
<1>2. IsExecuted' /\ TokensAreMeant' /\ PostfixIsMeant' /\ IsPosed' = IsPosed
  BY <1>1, SameQuery DEF ClauseInv, IsExecuted, TokensAreMeant, PostfixIsMeant
<1>3. Searching'
  <2>1. /\ PagesRead' = PagesRead
        /\ \A h : IsWanted(h)' = IsWanted(h) /\ IsUnwanted(h)' = IsUnwanted(h)
    BY <1>1, SamePages
  <2>2. \A h : IsPast(h)' = IsPast(h)
    BY <1>1 DEF IsPast
  <2> QED
    BY <1>1, <1>2, <2>1, <2>2 DEF ClauseInv, Searching
<1>4. Evaluating'
  <2> DEFINE R == << evalStack' >>
  <2>1. R \in Seq(Seq(Field)) /\ Len(R) = 1 /\ R[1] = << >> /\ R[1] = evalStack'
    BY <1>1
  <2>2. Len(out') \in Nat
    BY <1>1 DEF EngineInv, TypeOK, ClauseTypeOK
  <2> HIDE DEF R
  <2>3. IsEvaluation(R, out', schema', row')
    BY <2>1, <2>2 DEF IsEvaluation
  <2>4. RowRead' = RowRead
    BY <1>1 DEF RowRead
  <2> QED
    BY <1>1, <2>1, <2>3, <2>4 DEF Evaluating
<1> QED
  BY <1>1, <1>2, <1>3, <1>4 DEF ClauseInv, Converting, TrapWasMeant

\* evaluate takes a token.
LEMMA EvaluateKeepsClause ==
  ASSUME EngineInv, ClauseInv, UNCHANGED << tableVars, queryVars >>,
         EvaluateIdentifier \/ EvaluateLiteral \/ EvaluateOperator \/ EvaluateOther
  PROVE  ClauseInv'
<1>1. ClauseTypeOK
  BY DEF EngineInv, TypeOK
<1>2. /\ phase = "evaluate" /\ phase' = "evaluate" /\ next <= Len(out) /\ next' = next + 1
      /\ UNCHANGED << clause, schema, infix, ops, out, row, match >>
      /\ evalStack' \in Seq(Field) /\ IsEvaluated(evalStack, out[next], schema, row, evalStack')
  BY <1>1, EvaluateStep
<1>3. UNCHANGED << query, visit, at, found, pages, total, index >>
  BY DEF queryVars, tableVars
<1>4. IsExecuted' /\ TokensAreMeant' /\ PostfixIsMeant' /\ IsPosed' = IsPosed
  BY <1>2, <1>3, SameQuery DEF ClauseInv, IsExecuted, TokensAreMeant, PostfixIsMeant
<1>5. Searching'
  <2>1. /\ PagesRead' = PagesRead
        /\ \A h : IsWanted(h)' = IsWanted(h) /\ IsUnwanted(h)' = IsUnwanted(h)
    BY <1>2, <1>3, SamePages
  <2>2. \A h : IsPast(h)' = IsPast(h)
    BY <1>3 DEF IsPast
  <2> QED
    BY <1>2, <1>3, <1>4, <2>1, <2>2 DEF ClauseInv, Searching
<1>6. Evaluating'
  <2> SUFFICES ASSUME IsPosed
               PROVE  /\ row = RowRead'
                      /\ \E R : /\ IsEvaluation(R, out, schema, row) /\ Len(R) = next + 1
                                /\ R[1] = << >> /\ R[next + 1] = evalStack'
    BY <1>2, <1>4 DEF Evaluating
  <2>1. row = RowRead'
    BY <1>2, <1>3 DEF ClauseInv, Evaluating, RowRead
  <2>2. PICK R : /\ IsEvaluation(R, out, schema, row) /\ Len(R) = next
                 /\ R[1] = << >> /\ R[next] = evalStack
    BY <1>2 DEF ClauseInv, Evaluating
  <2>3. out \in Seq(Token) /\ next \in Nat \ {0}
    BY <1>1 DEF ClauseTypeOK
  <2> DEFINE Q == Append(R, evalStack')
  <2>4. IsEvaluation(Q, out, schema, row) /\ Len(Q) = next + 1 /\ Q[1] = R[1] /\ Q[next + 1] = evalStack'
    BY <1>2, <2>2, <2>3, EvaluationGoesOn
  <2> HIDE DEF Q
  <2> QED
    BY <2>1, <2>2, <2>4
<1> QED
  BY <1>2, <1>4, <1>5, <1>6 DEF ClauseInv, Converting, TrapWasMeant

\* The remainder that ends the process is one of the clause.
LEMMA TrapKeepsClause ==
  ASSUME EngineInv, ClauseInv, UNCHANGED << tableVars, queryVars >>, Trap
  PROVE  ClauseInv'
<1>1. /\ phase = "evaluate" /\ phase' = "crashed" /\ next <= Len(out)
      /\ RemainderByZero(out[next].type, Popped(evalStack, 2), Popped(evalStack, 1))
      /\ UNCHANGED << clause, schema, infix, out, row, query, pages, total, index >>
  BY DEF Trap, queryVars, tableVars
<1>2. IsExecuted' /\ TokensAreMeant' /\ PostfixIsMeant' /\ IsPosed' = IsPosed
  BY <1>1, SameQuery DEF ClauseInv, IsExecuted, TokensAreMeant, PostfixIsMeant
<1>3. TrapWasMeant'
  <2> SUFFICES ASSUME IsPosed, HasColumns(clause, schema, row)
               PROVE  Traps(clause, schema, row)
    <3>1. TrapIsMeant' = (HasColumns(clause, schema, row') => Traps(clause, schema, row'))
      BY <1>1, SamePages
    <3> QED
      BY <1>1, <1>2, <3>1 DEF TrapWasMeant
  <2>1. clause \in Expr /\ out = PostfixOf[clause]
    BY <1>1 DEF ClauseInv, TokensAreMeant, PostfixIsMeant
  <2>2. PICK R : /\ IsEvaluation(R, out, schema, row) /\ Len(R) = next
                 /\ R[1] = << >> /\ R[next] = evalStack
    BY <1>1 DEF ClauseInv, Evaluating
  <2>3. out \in Seq(Token) /\ row \in Seq(Field) /\ next \in Nat \ {0} /\ Len(out) \in Nat
    BY DEF EngineInv, TypeOK, ClauseTypeOK
  <2>4. At(out, 1, PostfixOf[clause]) /\ 1 <= next /\ next < 1 + Len(PostfixOf[clause])
    BY <1>1, <2>1, <2>3 DEF At
  <2>5. HasZero(clause, schema, row)
    BY <1>1, <2>1, <2>2, <2>3, <2>4, TrapIsInside
  <2> QED
    BY <2>1, <2>3, <2>5, ZeroIsTrap
<1> QED
  BY <1>1, <1>2, <1>3 DEF ClauseInv, Converting, Evaluating, Searching

\* evaluate returns whether the clause holds of the row.
LEMMA ReturnIsMeant ==
  ASSUME EngineInv, ClauseInv, IsPosed, Return, IsJudged(clause, schema, row),
         Meaning(clause, schema, row).type = "INT"
  PROVE  match' <=> Meaning(clause, schema, row).value # 0
<1>1. phase = "evaluate" /\ next > Len(out) /\ match' = IsTrue(Popped(evalStack, 1))
  BY DEF Return
<1>2. clause \in Expr /\ out = PostfixOf[clause]
  BY <1>1 DEF ClauseInv, TokensAreMeant, PostfixIsMeant
<1>3. PICK R : /\ IsEvaluation(R, out, schema, row) /\ Len(R) = next
               /\ R[1] = << >> /\ R[next] = evalStack
  BY <1>1 DEF ClauseInv, Evaluating
<1>4. out \in Seq(Token) /\ row \in Seq(Field) /\ next \in Nat \ {0} /\ Len(out) \in Nat
  BY DEF EngineInv, TypeOK, ClauseTypeOK
<1>5. next = 1 + Len(out)
  BY <1>1, <1>3, <1>4 DEF IsEvaluation
<1>6. At(out, 1, out)
  BY <1>4 DEF At
<1> DEFINE m == Meaning(clause, schema, row)
<1>7. IsPushed(R, out, PostfixOf[clause], m)
  <2>1. HasColumns(clause, schema, row) /\ Computation(clause, schema, row) = m
    BY <1>2, <1>4, JudgedIsComputed
  <2> HIDE DEF m
  <2> QED
    BY <1>2, <1>3, <1>4, <2>1, PostfixIsEvaluated
<1> HIDE DEF m
<1>8. m \in Field /\ R[1 + Len(out)] = Append(R[1], m)
  <2>1. 1 \in Nat /\ At(out, 1, PostfixOf[clause]) /\ 1 + Len(PostfixOf[clause]) <= Len(R)
    BY <1>2, <1>3, <1>5, <1>6
  <2> QED
    BY <1>2, <1>7, <2>1 DEF IsPushed
<1>9. evalStack = << m >>
  <2>1. evalStack = Append(<< >>, m)
    BY <1>3, <1>5, <1>8
  <2> QED
    BY <2>1
<1>10. Popped(evalStack, 1) = m
  BY <1>9 DEF Popped
<1>11. m.type = "INT"
  BY DEF m
<1>12. match' <=> m.value # 0
  BY <1>1, <1>10, <1>11 DEF IsTrue
<1> QED
  BY <1>12 DEF m

\* A row is found if the clause holds of it, and the next one waits.
LEMMA EndRowKeepsClause ==
  ASSUME EngineInv, ClauseInv, EndRow
  PROVE  ClauseInv'
<1>1. /\ phase = "evaluate" /\ phase' = "scan"
      /\ UNCHANGED << clause, schema, infix, out, row, query, pages, total, index >>
      /\ Return
      /\ found' = IF match' THEN found \union {<< Head(visit), at >>} ELSE found
      /\ IF at <= Len(pages[Head(visit)])
           THEN at' = at + 1 /\ visit' = visit
           ELSE at' = 1 /\ visit' = Tail(visit)
  BY DEF EndRow, Return, Note, tableVars
<1>2. IsExecuted' /\ TokensAreMeant' /\ PostfixIsMeant' /\ IsPosed' = IsPosed
  BY <1>1, SameQuery DEF ClauseInv, IsExecuted, TokensAreMeant, PostfixIsMeant
<1> DEFINE p == Head(visit)
           here == << p, at >>
<1>3. /\ visit # << >> /\ visit \in Seq(1 .. total) /\ at \in Nat \ {0}
      /\ total \in 0 .. MaxPages - 1
  BY <1>1 DEF EngineInv, AtRest, TypeOK, TableTypeOK
<1>4. p \in ToSet(visit) /\ ToSet(Tail(visit)) \subseteq ToSet(visit)
      /\ \A x \in ToSet(visit) : x = p \/ x \in ToSet(Tail(visit))
  <2> DEFINE n == Len(visit)
  <2>1. n \in Nat /\ n >= 1 /\ p = visit[1] /\ 1 \in DOMAIN visit /\ DOMAIN visit = 1 .. n
    BY <1>3
  <2>2. /\ DOMAIN Tail(visit) = 1 .. n - 1
        /\ \A i \in 1 .. n - 1 : Tail(visit)[i] = visit[i + 1]
    BY <1>3
  <2> HIDE DEF n, p
  <2>3. \A i \in 1 .. n - 1 : i + 1 \in 1 .. n
    BY <2>1
  <2>4. \A i \in 1 .. n : i = 1 \/ (i - 1 \in 1 .. n - 1 /\ (i - 1) + 1 = i)
    BY <2>1
  <2>5. ASSUME NEW x \in ToSet(visit)
        PROVE  x = p \/ x \in ToSet(Tail(visit))
    <3>1. PICK i \in 1 .. n : x = visit[i]
      BY <2>1 DEF ToSet
    <3>2. CASE i = 1
      BY <2>1, <3>1, <3>2
    <3>3. CASE i # 1
      <4>1. i - 1 \in 1 .. n - 1 /\ Tail(visit)[i - 1] = x
        BY <2>2, <2>4, <3>1, <3>3
      <4> QED
        BY <2>2, <4>1 DEF ToSet
    <3> QED
      BY <3>2, <3>3
  <2> QED
    BY <2>1, <2>2, <2>3, <2>5 DEF ToSet
<1>5. \A q \in 1 .. total : pages[q] \in Seq(Rows)
  BY <1>3, TableAssumption DEF EngineInv, TypeOK, TableTypeOK, PageIds
<1>6. p \in 1 .. total /\ pages[p] \in Seq(Rows) /\ Len(pages[p]) \in Nat
      /\ DOMAIN pages[p] = 1 .. Len(pages[p])
  <2>1. p \in 1 .. total
    BY <1>3, HeadTailTyped
  <2> HIDE DEF p
  <2> QED
    BY <1>5, <2>1
<1>7. ASSUME IsPosed
      PROVE  /\ IsWanted(here) => match'
             /\ IsUnwanted(here) => ~ match'
  <2> SUFFICES ASSUME at \in DOMAIN pages[p], IsAskedAbout(pages[p][at])
               PROVE  match' <=> Wanted(pages[p][at])
    BY DEF IsWanted, IsUnwanted
  <2>1. row = Fields[pages[p][at]]
    BY <1>1, <1>3, <1>6, <1>7 DEF ClauseInv, Evaluating, RowRead
  <2>2. clause # NoClause
    BY <1>7 DEF IsPosed, ClauseInv, TokensAreMeant
  <2>3. IsJudged(clause, schema, row) /\ Meaning(clause, schema, row).type = "INT"
    BY <2>1, <2>2 DEF IsAskedAbout
  <2>4. match' <=> Meaning(clause, schema, row).value # 0
    BY <1>1, <1>7, <2>3, ReturnIsMeant
  <2> QED
    BY <2>1, <2>2, <2>4 DEF Wanted
<1>8. /\ PagesRead' = PagesRead
      /\ \A h : IsWanted(h)' = IsWanted(h) /\ IsUnwanted(h)' = IsUnwanted(h)
  BY <1>1, SamePages
<1>9. Searching'
  <2> SUFFICES ASSUME IsPosed
               PROVE  /\ ToSet(visit') \subseteq ToSet(PagesRead)
                      /\ \A q \in ToSet(PagesRead) : \A i \in DOMAIN pages[q] :
                           IsPast(<< q, i >>)' /\ IsWanted(<< q, i >>) => << q, i >> \in found'
                      /\ \A h \in found' : h[1] \in ToSet(PagesRead) /\ ~ IsUnwanted(h)
    BY <1>1, <1>2, <1>8 DEF Searching
  <2>1. /\ ToSet(visit) \subseteq ToSet(PagesRead)
        /\ \A q \in ToSet(PagesRead) : \A i \in DOMAIN pages[q] :
             IsPast(<< q, i >>) /\ IsWanted(<< q, i >>) => << q, i >> \in found
        /\ \A h \in found : h[1] \in ToSet(PagesRead) /\ ~ IsUnwanted(h)
    BY <1>1 DEF ClauseInv, Searching
  <2>2. ToSet(visit') \subseteq ToSet(visit)
    BY <1>1, <1>4
  <2>3. \A h \in found' : h \in found \/ (match' /\ h = here)
    BY <1>1
  <2>4. \A h \in found : h \in found'
    BY <1>1
  <2>5. here[1] = p
    OBVIOUS
  <2>6. \A h \in found' : h[1] \in ToSet(PagesRead) /\ ~ IsUnwanted(h)
    <3> TAKE h \in found'
    <3>1. CASE h \in found
      BY <2>1, <3>1
    <3>2. CASE match' /\ h = here
      <4>1. ~ IsUnwanted(here)
        BY <1>7, <3>2
      <4>2. here[1] \in ToSet(PagesRead)
        BY <1>4, <2>1, <2>5
      <4> HIDE DEF here
      <4> QED
        BY <3>2, <4>1, <4>2
    <3> QED
      BY <2>3, <3>1, <3>2
  <2>7. ASSUME NEW q \in ToSet(PagesRead), NEW i \in DOMAIN pages[q],
               IsPast(<< q, i >>)', IsWanted(<< q, i >>)
        PROVE  << q, i >> \in found'
    <3>1. CASE IsPast(<< q, i >>)
      <4>1. << q, i >> \in found
        BY <2>1, <2>7, <3>1
      <4> QED
        BY <2>4, <4>1
    <3>2. CASE q = p /\ i = at
      <4>1. match'
        BY <1>7, <2>7, <3>2
      <4> QED
        BY <1>1, <3>2, <4>1
    <3>3. IsPast(<< q, i >>) \/ (q = p /\ i = at)
      <4> HIDE DEF p, here
      <4>1. \/ q \notin ToSet(visit')
            \/ visit' # << >> /\ q = Head(visit') /\ i < at'
        BY <2>7 DEF IsPast
      <4>2. /\ q \notin ToSet(visit) => IsPast(<< q, i >>)
            /\ q = p /\ i < at => IsPast(<< q, i >>)
        BY <1>3 DEF IsPast, p
      <4>3. CASE at <= Len(pages[p])
        <5>1. at' = at + 1 /\ visit' = visit
          BY <1>1, <4>3 DEF p
        <5>2. q = p => i \in Nat
          BY <1>6, <2>7
        <5>3. q \notin ToSet(visit) \/ (q = p /\ i < at + 1)
          BY <4>1, <5>1 DEF p
        <5> QED
          BY <1>3, <4>2, <5>2, <5>3
      <4>4. CASE ~ (at <= Len(pages[p]))
        <5>1. at' = 1 /\ visit' = Tail(visit)
          BY <1>1, <4>4 DEF p
        <5>2. CASE q = p
          <6>1. i \in 1 .. Len(pages[p])
            BY <1>6, <2>7, <5>2
          <6>2. i < at
            BY <1>3, <1>6, <4>4, <6>1
          <6> QED
            BY <4>2, <5>2, <6>2
        <5>3. CASE q # p
          <6>1. CASE q \notin ToSet(visit)
            BY <4>2, <6>1
          <6>2. CASE q \in ToSet(visit)
            <7>1. q \in ToSet(Tail(visit))
              BY <1>4, <5>3, <6>2
            <7>2. i < 1
              BY <4>1, <5>1, <7>1
            <7>3. pages[q] \in Seq(Rows)
              <8>1. q \in 1 .. total
                BY <1>3, <6>2 DEF ToSet
              <8> QED
                BY <1>5, <8>1
            <7>4. i \in 1 .. Len(pages[q])
              BY <2>7, <7>3
            <7> QED
              BY <7>2, <7>4
          <6> QED
            BY <6>1, <6>2
        <5> QED
          BY <5>2, <5>3
      <4> QED
        BY <4>3, <4>4
    <3> QED
      BY <3>1, <3>2, <3>3
  <2> QED
    BY <2>1, <2>2, <2>6, <2>7
<1> QED
  BY <1>1, <1>2, <1>9 DEF ClauseInv, Converting, Evaluating, TrapWasMeant

\* No page is waiting: every row that is wanted was found.
LEMMA EndScanKeepsClause ==
  ASSUME EngineInv, ClauseInv, EndScan
  PROVE  ClauseInv'
<1>1. /\ phase = "scan" /\ phase' = "answered" /\ visit = << >>
      /\ UNCHANGED << clause, schema, infix, out, query, visit, at, found, pages, total, index >>
  BY DEF EndScan, tableVars, queryVars
<1>2. IsExecuted' /\ TokensAreMeant' /\ PostfixIsMeant' /\ IsPosed' = IsPosed
  BY <1>1, SameQuery DEF ClauseInv, IsExecuted, TokensAreMeant, PostfixIsMeant
<1>3. Searching'
  <2>1. /\ PagesRead' = PagesRead
        /\ \A h : IsWanted(h)' = IsWanted(h) /\ IsUnwanted(h)' = IsUnwanted(h)
    BY <1>1, SamePages
  <2>2. \A h : IsPast(h)' = IsPast(h)
    BY <1>1 DEF IsPast
  <2> QED
    BY <1>1, <1>2, <2>1, <2>2 DEF ClauseInv, Searching
<1> QED
  BY <1>1, <1>2, <1>3 DEF ClauseInv, Converting, Evaluating, TrapWasMeant

LEMMA ClauseInvStep ==
  ASSUME EngineInv, ClauseInv, [Next]_vars
  PROVE  ClauseInv'
<1>1. CASE UNCHANGED vars
  <2>1. UNCHANGED << clause, schema, infix, phase, next, ops, out, row, evalStack, query, visit, at,
                     found, pages, total, index >>
    BY <1>1 DEF vars, tableVars, clauseVars, queryVars
  <2>2. /\ IsPosed' = IsPosed /\ IsExecuted' = IsExecuted /\ TokensAreMeant' = TokensAreMeant
        /\ PostfixIsMeant' = PostfixIsMeant
    BY <2>1, SameQuery DEF IsPosed, IsExecuted, TokensAreMeant, PostfixIsMeant
  <2>3. Converting' = Converting /\ Evaluating' = Evaluating
    <3>1. RowRead' = RowRead /\ Now' = Now
      BY <2>1 DEF RowRead, Now
    <3> QED
      BY <2>1, <2>2, <3>1 DEF Converting, Evaluating
  <2>4. /\ PagesRead' = PagesRead
        /\ \A h : IsWanted(h)' = IsWanted(h) /\ IsUnwanted(h)' = IsUnwanted(h)
        /\ TrapIsMeant' = (HasColumns(clause, schema, row') => Traps(clause, schema, row'))
    BY <2>1, SamePages
  <2>5. \A h : IsPast(h)' = IsPast(h)
    BY <2>1 DEF IsPast
  <2>6. Searching'
    BY <2>1, <2>2, <2>4, <2>5 DEF ClauseInv, Searching
  <2>7. TrapWasMeant'
    BY <2>1, <2>2, <2>4 DEF ClauseInv, TrapWasMeant, TrapIsMeant
  <2> QED
    BY <2>2, <2>3, <2>6, <2>7 DEF ClauseInv
<1>2. CASE Next
  <2>1. CASE phase = "idle" /\ TableNext /\ UNCHANGED << clauseVars, queryVars >>
    <3>1. phase' = phase
      BY <2>1 DEF clauseVars
    <3> QED
      BY <2>1, <3>1, BetweenQueriesKeepsClause
  <2>2. CASE phase = "idle" /\ \E q \in Queries(pages) : Ask(q) \/ AskInVain(q)
    BY <2>2, AskKeepsClause
  <2>3. CASE ClauseNext /\ UNCHANGED << tableVars, queryVars >>
    BY <2>3, ConvertKeepsClause, ConvertEndKeepsClause, EvaluateKeepsClause, TrapKeepsClause
       DEF ClauseNext
  <2>4. CASE EndQuery
    <3>1. phase' = "idle"
      BY <2>4 DEF EndQuery
    <3> QED
      BY <3>1 DEF ClauseInv, IsExecuted, TokensAreMeant, Converting, PostfixIsMeant, Evaluating,
         TrapWasMeant, Searching, IsPosed
  <2> QED
    BY <1>2, <2>1, <2>2, <2>3, <2>4, PlanKeepsClause, TakeRowKeepsClause, StartRowKeepsClause,
       EndRowKeepsClause, EndScanKeepsClause DEF Next
<1> QED
  BY <1>1, <1>2


(***************************************************************************)
(* The answers.                                                            *)
(***************************************************************************)
\* The rows a query with a clause has found are those that the user means.
LEMMA PosedAnswer ==
  ASSUME EngineInv, ClauseInv, IsPosed, phase = "answered"
  PROVE  FoundWhatIsMeant
<1>1. /\ visit = << >>
      /\ \A p \in ToSet(PagesRead) : \A i \in DOMAIN pages[p] :
           IsPast(<< p, i >>) /\ IsWanted(<< p, i >>) => << p, i >> \in found
      /\ \A h \in found : h[1] \in ToSet(PagesRead) /\ ~ IsUnwanted(h)
  BY DEF ClauseInv, Searching
<1>2. \A h : IsPast(h)
  BY <1>1 DEF IsPast, ToSet
<1>3. ASSUME NEW p \in ToSet(PagesRead), NEW i \in DOMAIN pages[p], IsAskedAbout(pages[p][i])
      PROVE  << p, i >> \in found <=> Wanted(pages[p][i])
  <2>1. /\ IsWanted(<< p, i >>) <=> Wanted(pages[p][i])
        /\ IsUnwanted(<< p, i >>) <=> ~ Wanted(pages[p][i])
    BY <1>3 DEF IsWanted, IsUnwanted
  <2> QED
    BY <1>1, <1>2, <2>1
<1> QED
  BY <1>1, <1>3 DEF FoundWhatIsMeant, PagesRead

\* A query without a clause has found all rows that it reads.
LEMMA PlainAnswer ==
  ASSUME EngineInv, ClauseInv, IsPlain(query), phase = "answered"
  PROVE  FoundWhatIsMeant /\ KeyIsFound
<1>1. clause = NoClause /\ infix = << >>
  BY DEF ClauseInv, IsExecuted, EngineInv, PlainIsEmpty
<1>2. ~ ByIndex
  BY <1>1 DEF ByIndex
<1>3. ToSet(ScanPages) = Scanned
  BY DEF ToSet, ScanPages
<1>4. {h \in found : h[2] \in DOMAIN pages[h[1]]} = UNION {{p} \X DOMAIN pages[p] : p \in Scanned}
  BY DEF EngineInv, PlainFindsAll
<1>5. \A h \in found : h[1] \in Scanned
  BY DEF EngineInv, FoundOnScanned
<1>6. ASSUME NEW p \in Scanned, NEW i \in DOMAIN pages[p]
      PROVE  << p, i >> \in found
  <2>1. << p, i >> \in UNION {{q} \X DOMAIN pages[q] : q \in Scanned}
    OBVIOUS
  <2> QED
    BY <1>4, <2>1
<1>7. FoundWhatIsMeant
  BY <1>1, <1>2, <1>3, <1>5, <1>6 DEF FoundWhatIsMeant, Wanted
<1>8. clause.op # "EQUALS"
  BY <1>1 DEF NoClause
<1> QED
  BY <1>7, <1>8 DEF KeyIsFound

\* The column of the name a schema begins with is the first.
LEMMA FirstColumn ==
  ASSUME NEW names \in Seq(Int) \ {<< >>}
  PROVE  Column(names, names[1]) = 1
<1> DEFINE S == {i \in 1 .. Len(names) : names[i] = names[1]}
<1>1. Column(names, names[1]) = IF S # {} THEN CHOOSE x \in S : \A y \in S : x <= y ELSE 0
  BY DEF Column, SelectInSeq, Min
<1>2. 1 \in S /\ \A y \in S : y \in Nat /\ 1 <= y
  OBVIOUS
<1> HIDE DEF S
<1>3. \A x \in S : (\A y \in S : x <= y) => x = 1
  BY <1>2
<1>4. (CHOOSE x \in S : \A y \in S : x <= y) = 1
  BY <1>2, <1>3
<1> QED
  BY <1>1, <1>2, <1>4

\* A comparison of a name with a number is three tokens.
LEMMA ComparisonTokens ==
  ASSUME NEW e \in Expr, e.op = "EQUALS", e.left.op = "IDENTIFIER", e.right.op = "NUMBER_INT"
  PROVE  /\ InfixOf[e][1] = OperandToken(e.left) /\ InfixOf[e][3] = OperandToken(e.right)
         /\ e.left \in Expr /\ e.right \in Expr
<1>1. IsOperator(e)
  <2>1. e.op \notin Operands
    BY DEF Operands, Literals
  <2> QED
    BY <2>1, ExprShape
<1>2. e.left \in Expr /\ e.right \in Expr /\ e.left.op \in Operands /\ e.right.op \in Operands
  BY <1>1 DEF IsOperator, Operands, Literals
<1>3. Level(e.left) = 7 /\ Level(e.right) = 7
  BY <1>2, LevelIs
<1>4. Level(e) = 3
  <2>1. Level(e) = Precedence(SignToken(e)) + 1
    BY <1>1, LevelIs DEF IsOperator
  <2>2. SignToken(e).type = "EQUALS"
    BY DEF SignToken, Tok
  <2> QED
    BY <2>1, <2>2 DEF Precedence
<1>5. ~ (Level(e.left) < Level(e)) /\ ~ (Level(e.right) <= Level(e))
  BY <1>3, <1>4
<1> DEFINE a == OperandToken(e.left)
           b == SignToken(e)
           c == OperandToken(e.right)
<1>6. InfixOf[e.left] = << a >> /\ InfixOf[e.right] = << c >>
  BY <1>2, InfixIs
<1>7. InfixOf[e] = << a >> \o << b >> \o << c >>
  BY <1>1, <1>5, <1>6, InfixIs DEF IsOperator, SideTokens
<1>8. << a >> \in Seq(Token) /\ << b >> \in Seq(Token) /\ << c >> \in Seq(Token)
  <2>1. a \in Token /\ b \in Token /\ c \in Token
    BY <1>1, <1>2, ExprTokens DEF IsOperator
  <2> HIDE DEF a, b, c
  <2> QED
    BY <2>1
<1>9. ASSUME NEW u \in Seq(Token), NEW v \in Seq(Token), NEW x \in Seq(Token),
             Len(u) = 1, Len(v) = 1, Len(x) = 1
      PROVE  ((u \o v) \o x)[1] = u[1] /\ ((u \o v) \o x)[3] = x[1]
  <2>1. ASSUME NEW y \in Seq(Token), NEW z \in Seq(Token)
        PROVE  /\ y \o z \in Seq(Token) /\ Len(y \o z) = Len(y) + Len(z)
               /\ \A i \in 1 .. Len(y) : (y \o z)[i] = y[i]
               /\ \A i \in 1 .. Len(z) : (y \o z)[Len(y) + i] = z[i]
    BY ConcatTyped
  <2>2. /\ u \o v \in Seq(Token) /\ Len(u \o v) = Len(u) + Len(v)
        /\ \A i \in 1 .. Len(u) : (u \o v)[i] = u[i]
    BY <2>1
  <2>3. u \o v \in Seq(Token) /\ Len(u \o v) = 2 /\ (u \o v)[1] = u[1]
    BY <1>9, <2>2
  <2>4. ASSUME NEW y \in Seq(Token), Len(y) = 2
        PROVE  (y \o x)[1] = y[1] /\ (y \o x)[3] = x[1]
    <3>1. /\ \A i \in 1 .. Len(y) : (y \o x)[i] = y[i]
          /\ \A i \in 1 .. Len(x) : (y \o x)[Len(y) + i] = x[i]
      BY <2>1
    <3>2. 1 \in 1 .. Len(y) /\ 1 \in 1 .. Len(x) /\ Len(y) + 1 = 3
      BY <1>9, <2>4
    <3>3. (y \o x)[1] = y[1] /\ (y \o x)[Len(y) + 1] = x[1]
      BY <3>1, <3>2
    <3> QED
      BY <3>2, <3>3
  <2> QED
    BY <2>3, <2>4
<1>10. /\ Len(<< a >>) = 1 /\ Len(<< b >>) = 1 /\ Len(<< c >>) = 1
       /\ << a >>[1] = a /\ << c >>[1] = c
  OBVIOUS
<1> HIDE DEF a, b, c
<1>11. InfixOf[e][1] = a /\ InfixOf[e][3] = c
  BY <1>7, <1>8, <1>9, <1>10
<1> QED
  BY <1>2, <1>11 DEF a, c

\* Such a clause holds of a row whose first column is the one named, with that number.
LEMMA ComparisonHolds ==
  ASSUME NEW e \in Expr, e.op = "EQUALS", e.left.op = "IDENTIFIER", e.right.op = "NUMBER_INT",
         NEW names, Column(names, e.left.value) = 1,
         NEW r \in Seq(Field) \ {<< >>}, r[1] = Tok("INT", e.right.value)
  PROVE  IsJudged(e, names, r) /\ Meaning(e, names, r) = Truth(TRUE)
<1>1. e.left \in Expr /\ e.right \in Expr
  BY ComparisonTokens
<1>2. /\ e.left.op \in Operands /\ e.right.op \in Operands /\ e.right.op \in Literals
      /\ e.op \in Operators /\ e.op # "IDENTIFIER" /\ e.right.op # "IDENTIFIER"
  BY DEF Operands, Literals, Operators
<1>3. Parts(e) = {e, e.left, e.right}
  <2>1. Parts(e.left) = {e.left} /\ Parts(e.right) = {e.right}
    BY <1>1, <1>2, PartsAre
  <2>2. Parts(e) = {e} \union Parts(e.left) \union Parts(e.right)
    BY <1>2, PartsAre
  <2> QED
    BY <2>1, <2>2
<1>4. 1 \in DOMAIN r
  OBVIOUS
<1> DEFINE f == Tok("INT", e.right.value)
<1>5. f.type = "INT" /\ f # Null
  BY DEF Tok, Null
<1>6. Meaning(e.left, names, r) = f
  BY <1>1, <1>4, MeaningIs
<1>7. Meaning(e.right, names, r) = f
  <2>1. FieldType["NUMBER_INT"] = "INT"
    BY DEF FieldType
  <2> QED
    BY <1>1, <1>2, <2>1, MeaningIs
<1>8. Meaning(e, names, r) = Meant("EQUALS", f, f)
  BY <1>2, <1>6, <1>7, MeaningIs
<1>9. Meant("EQUALS", f, f) = MeantComparison("EQUALS", f, f)
  BY <1>5 DEF Meant, Orders
<1>10. MeantComparison("EQUALS", f, f) = Truth(TRUE)
  <2>1. Amount(f) = Tenths * e.right.value /\ e.right.value \in Int
    BY <1>1, <1>2, ExprShape DEF Amount, Tok, IsOperator, Operators
  <2>2. OrderOf(Amount(f), Amount(f)) \in Orders["EQUALS"]
    BY <2>1 DEF OrderOf, Orders, Tenths
  <2>3. IsNumber(f)
    BY <1>5 DEF IsNumber
  <2> QED
    BY <2>2, <2>3 DEF MeantComparison, Truth
<1>11. ~ IsMixed(e, names, r)
  <2>1. \A x \in Parts(e) : x.op \in DOMAIN Orders => x = e
    BY <1>2, <1>3 DEF Orders, Literals
  <2> HIDE DEF f
  <2> QED
    BY <1>5, <1>6, <1>7, <2>1 DEF IsMixed
<1>12. Truth(TRUE) # Null
  BY DEF Truth, Null
<1> QED
  BY <1>8, <1>9, <1>10, <1>11, <1>12 DEF IsJudged

\* A query for a key of an index has found a row with it.
LEMMA PosedKey ==
  ASSUME EngineInv, ClauseInv, IsPosed, phase = "answered"
  PROVE  KeyIsFound
<1> DEFINE t == TableAsked(query)
           w == clause.right.value
           entry == << t, w >>
           p == index[entry]
<1> SUFFICES ASSUME clause.op = "EQUALS", clause.left.op = "IDENTIFIER",
                    clause.right.op = "NUMBER_INT",
                    ByIndex, LookedUp(entry) # NoPage, entry \notin lost
             PROVE  \E h \in found : h[2] \in DOMAIN pages[h[1]] /\ EntryOf(pages[h[1]][h[2]]) = entry
  BY DEF KeyIsFound
<1>1. clause \in Expr /\ clause # NoClause /\ infix = InfixOf[clause] /\ schema = Schemas[t] /\ t \in Tables
  BY DEF ClauseInv, TokensAreMeant, IsPosed, IsRouted
<1>2. infix[1].value = clause.left.value /\ infix[3].value = w
  <2>1. infix[1] = OperandToken(clause.left) /\ infix[3] = OperandToken(clause.right)
    BY <1>1, ComparisonTokens
  <2>2. \A x : OperandToken(x).value = x.value
    BY DEF OperandToken, Tok
  <2> QED
    BY <2>1, <2>2
<1>3. schema \in Seq(Int) \ {<< >>} /\ clause.left.value = schema[1]
  BY <1>1, <1>2, EngineAssumption DEF ByIndex
<1>4. Column(schema, clause.left.value) = 1
  BY <1>3, FirstColumn
<1>5. entry \in Entries /\ p # NoPage /\ LookedUp(entry) = p
  BY DEF LookedUp
<1>6. IndexPages = << p >>
  BY <1>2, <1>5 DEF IndexPages
<1> HIDE DEF t, w, p
<1>7. p \in ToSet(IndexPages)
  <2>1. 1 \in DOMAIN << p >> /\ << p >>[1] = p
    OBVIOUS
  <2> QED
    BY <1>6, <2>1 DEF ToSet
<1>8. p \in 1 .. total /\ \E i \in DOMAIN pages[p] : EntryOf(pages[p][i]) = entry
  BY <1>5 DEF EngineInv, IndexIsHonest, p
<1>9. PICK i \in DOMAIN pages[p] : EntryOf(pages[p][i]) = entry
  BY <1>8
<1> DEFINE r == pages[p][i]
<1>10. r \in Rows
  <2>1. p \in PageIds
    BY <1>8, TableAssumption DEF EngineInv, TypeOK, TableTypeOK, PageIds
  <2>2. pages[p] \in Seq(Rows)
    BY <2>1 DEF EngineInv, TypeOK, TableTypeOK
  <2> QED
    BY <1>9, <2>2
<1>11. KeyOf[r] = w
  BY <1>9 DEF EntryOf
<1> HIDE DEF r
<1>12. Fields[r] \in Seq(Field) \ {<< >>} /\ Fields[r][1] = Tok("INT", w)
  BY <1>10, <1>11, EngineAssumption
<1>13. IsJudged(clause, schema, Fields[r]) /\ Meaning(clause, schema, Fields[r]) = Truth(TRUE)
  BY <1>1, <1>4, <1>12, ComparisonHolds DEF w
<1>14. IsAskedAbout(r) /\ Wanted(r)
  BY <1>13 DEF IsAskedAbout, Wanted, Truth
<1>15. << p, i >> \in found
  BY <1>7, <1>9, <1>14, PosedAnswer DEF FoundWhatIsMeant, r
<1> QED
  BY <1>9, <1>15

\* At every step of a query, what tokenizer, convert and evaluate have done is what the
\* clause means, and the rows visited are found if they are wanted (Engine's actions).
THEOREM ClauseInvariance == Spec => [](EngineInv /\ ClauseInv)
<1>1. Init => EngineInv /\ ClauseInv
  BY EngineInitOK, ClauseInvInit
<1>2. EngineInv /\ ClauseInv /\ [Next]_vars => EngineInv' /\ ClauseInv'
  BY EngineStepKeeps, ClauseInvStep
<1> QED
  BY <1>1, <1>2, PTL DEF Spec

\* A SELECT or UPDATE finds exactly the rows, on the pages it reads, for which its
\* clause holds as the user means it, whatever the expression, the schema, the rows
\* and the pages, but for rows on which the clause has no agreed value or compares an
\* int with a float; by the index it finds the key it asks for; and the process ends
\* only at a remainder by less than 1 that is asked for (Tokenizer,
\* ShuntingYard::convert, ExpressionEvaluator::evaluate, executeSelect, executeUpdate).
THEOREM AnswersAreExact == Spec => []AnswerIsExact
<1>1. EngineInv /\ ClauseInv => AnswerIsExact
  <2> SUFFICES ASSUME EngineInv, ClauseInv
               PROVE  AnswerIsExact
    OBVIOUS
  <2>1. ASSUME phase = "answered", IsRouted(query), IsMeant
        PROVE  FoundWhatIsMeant /\ KeyIsFound
    <3>1. IsPosed \/ IsPlain(query)
      BY <2>1 DEF IsPosed, IsPlain, IsMeant
    <3> QED
      BY <2>1, <3>1, PosedAnswer, PosedKey, PlainAnswer
  <2>2. ASSUME phase = "crashed", IsMeant
        PROVE  TrapIsMeant
    <3>1. IsPosed \/ IsPlain(query)
      BY <2>2 DEF IsPosed, IsPlain, IsMeant, ClauseInv, IsExecuted
    <3>2. ~ IsPlain(query)
      BY <2>2 DEF EngineInv, PlainIsEmpty
    <3> QED
      BY <2>2, <3>1, <3>2 DEF ClauseInv, TrapWasMeant
  <2> QED
    BY <2>1, <2>2 DEF AnswerIsExact
<1> QED
  BY <1>1, ClauseInvariance, PTL
=============================================================================
