------------------------------ MODULE Catalog ------------------------------
(***************************************************************************)
(* The system catalog (src/catalog/SystemCatalog.cpp), the hash map it is  *)
(* kept in (src/include/catalog/HashMap.h) and the file it is saved to,    *)
(* over the starts, the clean ends and the kills of the process.           *)
(*                                                                         *)
(* The keys of the map are pointers and are compared as pointers, and      *)
(* registerTable makes a new one for every table it is given: insert never *)
(* finds the key it looks for, and a table is only ever added.  So a node  *)
(* is the name of its table here.  What else a schema holds never changes. *)
(***************************************************************************)
EXTENDS Integers, SequencesExt

CONSTANTS
  Tables,    \* the tables of initializeTPCHTables, in the order of registration
  Blank,     \* the name of the schema that a read past the end of the file leaves
  Buckets,   \* 256, the capacity the map starts with and the buckets saveToDisk walks
  Hashes,    \* the values of the hash function, before % capacity_
  Unknown,   \* the table count of a file that is too short to hold one
  Garbage,   \* the values an uninitialized tableCount may have
  MaxStarts  \* bound on the generations of the catalog that are saved

Names == {Blank} \union Range(Tables)

ASSUME CatalogAssumption ==
  /\ Buckets \in Nat \ {0}
  /\ Tables \in Seq(Range(Tables)) /\ IsInjective(Tables)
  /\ Blank \notin Range(Tables)
  /\ Hashes \subseteq Nat /\ Garbage \subseteq Nat
  /\ Unknown \notin Nat

VARIABLES
  hashOf,      \* the hash of each name, for all that is known about it
  map,         \* tableMap_, or a map of no tables when there is no process
  file,        \* data/catalog.bin: tableCount and the names of the schemas written
  up,          \* whether there is a process, and g_catalog is set in it
  tableCount,  \* of loadFromDisk: the tables it is to register
  read,        \* of loadFromDisk: the tables it has registered
  generation,  \* history: the starts that lead to the tables in memory
  saved,       \* history: the starts that lead to the tables in the file
  cutShort,    \* history: a kill has come while saveToDisk was writing
  early        \* history: SIGINT has come while loadFromDisk was reading

loading == << tableCount, read >>
catalogVars == << hashOf, map, file, up, loading, generation, saved, cutShort, early >>

(***************************************************************************)
(* HashMap.                                                                *)
(***************************************************************************)
EmptyMap(capacity) ==
  [capacity |-> capacity, size |-> 0, chain |-> [b \in 0 .. capacity - 1 |-> << >>]]

\* insert up to ++size_: the new node is the head of its chain.
Added(m, name) ==
  [m EXCEPT !.chain[hashOf[name] % m.capacity] = << name >> \o @, !.size = @ + 1]

\* All nodes of the first n buckets, each chain from its head.
Walk(m, n) ==
  LET nodes[b \in 0 .. n] == IF b = 0 THEN << >> ELSE nodes[b - 1] \o m.chain[b - 1]
  IN  nodes[n]

\* Mutation: the nodes keep the index they had.
Rehash_OldIndex(m, capacity) ==
  [m EXCEPT !.capacity = capacity,
            !.chain = [b \in 0 .. capacity - 1 |-> IF b < m.capacity THEN m.chain[b] ELSE << >>]]

\* The map after i rounds of rehash, whose inserts are too few for another one.
Rehashing(m, capacity) ==
  LET nodes == Walk(m, m.capacity)
      after[i \in 0 .. Len(nodes)] ==
        IF i = 0 THEN EmptyMap(capacity) ELSE Added(after[i - 1], nodes[i])
  IN  after

Rehash(m, capacity) == Rehashing(m, capacity)[Len(Walk(m, m.capacity))]

RehashIsDue(m) == m.size > (m.capacity * 3) \div 4

Insert(m, name) ==
  LET added == Added(m, name)
  IN  IF RehashIsDue(added) THEN Rehash(added, m.capacity * 2) ELSE added

\* The maps there are in the middle of insert: with a node that size_ does not count
\* yet, and with new buckets that not all nodes are in again.
MidInsert(m, name) ==
  LET added == Added(m, name)
      rounds == Rehashing(added, m.capacity * 2)
      Uncounted(n, x) == [Added(n, x) EXCEPT !.size = n.size]
      nodes == Walk(added, added.capacity)
  IN  {Uncounted(m, name), added} \union
      IF ~ RehashIsDue(added) THEN {}
      ELSE {[rounds[0] EXCEPT !.size = added.size]}
             \union {rounds[i] : i \in 0 .. Len(nodes)}
             \union {Uncounted(rounds[i - 1], nodes[i]) : i \in 1 .. Len(nodes)}

(***************************************************************************)
(* SystemCatalog.                                                          *)
(***************************************************************************)
\* One table after another.
Registered(m, names) ==
  LET after[i \in 0 .. Len(names)] == IF i = 0 THEN m ELSE Insert(after[i - 1], names[i])
  IN  after[Len(names)]

\* The constructor and initializeTPCHTables.
FreshCatalog == Registered(EmptyMap(Buckets), Tables)

\* Mutation: the tables written are counted, not those of the map.
Count_Written(m) == Len(Walk(m, Buckets))

\* The table count saveToDisk writes.
TableCount(m) == m.size

\* What saveToDisk makes of the file.
Written(m) == [count |-> TableCount(m), tables |-> Walk(m, Buckets)]

\* The i-th table loadFromDisk reads.  It looks at no result of fread.
TableAt(i) == IF i <= Len(file.tables) THEN file.tables[i] ELSE Blank

\* The table counts loadFromDisk may come to work with.
Counts == IF file.count = Unknown THEN Garbage ELSE {file.count}

CatalogInit ==
  /\ hashOf \in [Names -> Hashes]
  /\ map = EmptyMap(Buckets)
  /\ file = [count |-> 0, tables |-> << >>]
  /\ up = FALSE
  /\ tableCount = 0 /\ read = 0
  /\ generation = 0
  /\ saved = 0
  /\ cutShort = FALSE /\ early = FALSE

\* getInstance, g_catalog is set, and loadFromDisk reads the table count; a file that
\* is not there is one of no tables.  A process that ends before has saved nothing.
StartUp ==
  /\ ~ up
  /\ up' = TRUE
  /\ map' = FreshCatalog
  /\ tableCount' \in Counts
  /\ read' = 0
  /\ generation' = saved + 1
  /\ UNCHANGED << hashOf, file, saved, cutShort, early >>

\* A round of loadFromDisk's loop.
LoadTable ==
  /\ up
  /\ read < tableCount
  /\ map' = Insert(map, TableAt(read + 1))
  /\ read' = read + 1
  /\ UNCHANGED << hashOf, file, up, tableCount, generation, saved, cutShort, early >>

\* The maps saveToDisk may find: main calls it when all is loaded, the handler of
\* SIGINT at any time.
Savable ==
  {map} \union IF read < tableCount THEN MidInsert(map, TableAt(read + 1)) ELSE {}

NoProcess ==
  /\ up' = FALSE
  /\ map' = EmptyMap(Buckets)
  /\ tableCount' = 0 /\ read' = 0
  /\ generation' = 0

\* A catalog that is to be saved; MaxStarts bounds the generations there are files of.
Saving == up /\ generation <= MaxStarts

\* saveToDisk by the end of main or by the handler of SIGINT.
SaveAndExit ==
  /\ Saving
  /\ \E m \in Savable : file' = Written(m)
  /\ saved' = generation
  /\ early' = (early \/ read < tableCount)
  /\ NoProcess
  /\ UNCHANGED << hashOf, cutShort >>

\* A kill while saveToDisk writes leaves the first part of the file.
KillInSave ==
  /\ Saving
  /\ \/ file' = [count |-> Unknown, tables |-> << >>]
     \/ \E m \in Savable : \E n \in 0 .. Len(Written(m).tables) :
          file' = [Written(m) EXCEPT !.tables = SubSeq(@, 1, n)]
  /\ saved' = generation
  /\ cutShort' = TRUE
  /\ NoProcess
  /\ UNCHANGED << hashOf, early >>

Kill ==
  /\ up
  /\ NoProcess
  /\ UNCHANGED << hashOf, file, saved, cutShort, early >>

CatalogNext ==
  \/ StartUp
  \/ LoadTable
  \/ SaveAndExit
  \/ KillInSave
  \/ Kill

CatalogSpec == CatalogInit /\ [][CatalogNext]_catalogVars

(***************************************************************************)
(* Properties.                                                             *)
(***************************************************************************)
\* How many of the names are in Y, each as often as it is there.
Tally(names, Y) == Cardinality({i \in DOMAIN names : names[i] \in Y})

Copies(m, name) == Tally(Walk(m, m.capacity), {name})

\* A node is in the chain in which get looks for its key.
InOwnBucket ==
  \A b \in 0 .. map.capacity - 1 :
    \A i \in 1 .. Len(map.chain[b]) : hashOf[map.chain[b][i]] % map.capacity = b

\* The types of map and file; size_ is the number of nodes, each in the chain of
\* its hash, through rehashes too, and the chains are short of the load at which
\* the next one is due.
TypeOK ==
  /\ map.capacity \in Nat \ {0}
  /\ map.chain \in [0 .. map.capacity - 1 -> Seq(Names)]
  /\ map.size = Len(Walk(map, map.capacity))
  /\ map.size <= (map.capacity * 3) \div 4
  /\ InOwnBucket
  /\ file.tables \in Seq(Names)
  /\ file.count \in Nat \union {Unknown}
  /\ tableCount \in Nat /\ read \in 0 .. tableCount
  /\ generation \in Nat /\ saved \in Nat

\* The tables of TPC-H are registered anew by every start and added to those of
\* the file: they are never missing, and once the file is loaded there are as many
\* copies of each of them as there were starts.  After a rehash saveToDisk misses
\* the tables behind the first 256 buckets but writes the count of all, and the next
\* start reads blank tables in their place: the catalog still grows by the same
\* number of tables with every start.  A SIGINT that saves a catalog not yet loaded
\* leaves fewer tables in the file than there were, never more.
GrowsByStarts ==
  up =>
    /\ \A name \in Range(Tables) : Copies(map, name) >= 1
    /\ ~ cutShort => map.size <= Len(Tables) * generation
    /\ ~ cutShort /\ ~ early /\ read = tableCount =>
         /\ map.size = Len(Tables) * generation
         /\ map.capacity = Buckets => \A name \in Range(Tables) : Copies(map, name) = generation
=============================================================================
