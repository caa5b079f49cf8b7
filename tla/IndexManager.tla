---------------------------- MODULE IndexManager ----------------------------
(***************************************************************************)
(* The indexes of src/index/IndexManager.cpp: a hash table of chains, each *)
(* entry an AVL tree from the keys of a column to the page of the row.     *)
(* The indexes are only in memory.                                         *)
(***************************************************************************)
EXTENDS AVLTree, SequencesExt, FiniteSets

CONSTANTS
  Indexes,      \* the names "table.column" that are used
  KeysOf,       \* the keys that occur in each of these columns
  Pages,        \* the pages they can be on
  Buckets,      \* the buckets of the hash table
  HashOf        \* hashString of each name, % HASH_CAPACITY

ASSUME IndexAssumption ==
  /\ \A n \in Indexes : KeysOf[n] \subseteq Int /\ HashOf[n] \in Buckets
  /\ Pages \subseteq Nat

VARIABLES
  buckets,  \* buckets_, each a chain of [key, tree] with its head first
  size,     \* size_
  entries   \* history: the page that each key of an index was last inserted with

indexVars == << buckets, size, entries >>

IndexInit ==
  /\ buckets = [b \in Buckets |-> << >>]
  /\ size = 0
  /\ entries = [n \in Indexes |-> << >>]

EmptyTree == [root |-> NoNode, nodeCount |-> 0]

Chain(n) == buckets[HashOf[n]]

\* Where in its chain the name n is, for a name that is there.
HasIndex(n) == \E i \in DOMAIN Chain(n) : Chain(n)[i].key = n
Position(n) == CHOOSE i \in DOMAIN Chain(n) : Chain(n)[i].key = n
Tree(n) == Chain(n)[Position(n)].tree

\* createIndex does nothing when the name is in the chain.
CreateIndex(n) ==
  /\ ~ HasIndex(n)
  /\ buckets' = [buckets EXCEPT ![HashOf[n]] = << [key |-> n, tree |-> EmptyTree] >> \o @]
  /\ size' = size + 1
  /\ UNCHANGED entries

Unlinked(chain, i) == RemoveAt(chain, i)

DropIndex(n) ==
  /\ HasIndex(n)
  /\ buckets' = [buckets EXCEPT ![HashOf[n]] = Unlinked(@, Position(n))]
  /\ size' = size - 1
  /\ entries' = [entries EXCEPT ![n] = << >>]

CountAfterInsert(tree, k) ==
  tree.nodeCount + (IF NodeAt(tree.root, k) = NoNode THEN 1 ELSE 0)

CountAfterRemove(tree, k) ==
  tree.nodeCount - (IF NodeAt(tree.root, k) = NoNode THEN 0 ELSE 1)

SetTree(n, tree) == buckets' = [buckets EXCEPT ![HashOf[n]][Position(n)].tree = tree]

Entered(e, k, page) == [x \in DOMAIN e \union {k} |-> IF x = k THEN page ELSE e[x]]

\* insertEntry; without the index nothing happens.
InsertEntry(n, k, page) ==
  /\ HasIndex(n)
  /\ SetTree(n, [root      |-> InsertNode(Tree(n).root, k, page),
                 nodeCount |-> CountAfterInsert(Tree(n), k)])
  /\ entries' = [entries EXCEPT ![n] = Entered(@, k, page)]
  /\ UNCHANGED size

\* AVLTree::remove, which the engine has no caller for yet.
RemoveEntry(n, k) ==
  /\ HasIndex(n)
  /\ SetTree(n, [root      |-> RemoveNode(Tree(n).root, k),
                 nodeCount |-> CountAfterRemove(Tree(n), k)])
  /\ entries' = [entries EXCEPT ![n] = Restrict(@, DOMAIN @ \ {k})]
  /\ UNCHANGED size

LookupPage(n, k) == IF HasIndex(n) THEN Search(Tree(n).root, k) ELSE -1

\* rangeLookup; no result is a null pointer and a count of 0.
RangeLookup(n, low, high) ==
  IF ~ HasIndex(n) \/ Tree(n).nodeCount = 0 THEN << >>
  ELSE RangeCollect(Tree(n).root, low, high)

IndexNext ==
  \E n \in Indexes :
    \/ CreateIndex(n)
    \/ DropIndex(n)
    \/ \E k \in KeysOf[n] : RemoveEntry(n, k)
    \/ \E k \in KeysOf[n], page \in Pages : InsertEntry(n, k, page)

IndexSpec == IndexInit /\ [][IndexNext]_indexVars

(***************************************************************************)
(* Properties.                                                             *)
(***************************************************************************)
Existing == {n \in Indexes : HasIndex(n)}

\* Every name is in the chain of its own hash and there once, size_ counts the
\* chains' entries, and the trees stay balanced through any mix of insertions and
\* removals, with true heights, so that a search never walks a chain.
IndexTypeOK ==
  /\ \A b \in Buckets : \A i, j \in DOMAIN buckets[b] :
       /\ buckets[b][i].key \in Indexes /\ HashOf[buckets[b][i].key] = b
       /\ buckets[b][i].key = buckets[b][j].key => i = j
  /\ size = Cardinality(Existing)
  /\ \A n \in Indexes : DOMAIN entries[n] \subseteq KeysOf[n]
  /\ \A n \in Existing : Tree(n).root \in Trees[Height(Tree(n).root)]

\* The descent finds exactly the entries that were inserted and not removed, with
\* their latest page, whatever rotations and successors have moved them and
\* whatever became of the other indexes of the bucket.
LookupFindsEntry ==
  \A n \in Indexes : \A k \in KeysOf[n] :
    LookupPage(n, k) = IF k \in DOMAIN entries[n] THEN entries[n][k] ELSE -1

\* A range search returns the pages of the entries in the range in order of their
\* keys; and nodeCount_, by which its result is allocated, is their number, so
\* that it has room for them.
RangeIsExact ==
  \A n \in Existing :
    /\ Tree(n).nodeCount = Cardinality(DOMAIN entries[n])
    /\ \A low, high \in KeysOf[n] :
         LET hits == {k \in DOMAIN entries[n] : low <= k /\ k <= high}
             pages == RangeLookup(n, low, high)
         IN  /\ Len(pages) = Cardinality(hits)
             /\ \A k \in hits : pages[Cardinality({x \in hits : x <= k})] = entries[n][k]
=============================================================================
