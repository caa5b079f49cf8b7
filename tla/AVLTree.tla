------------------------------ MODULE AVLTree ------------------------------
(***************************************************************************)
(* The algorithms of src/index/AVLTree.cpp on trees as values: a node is a *)
(* record that holds its subtrees, and what the code does to a node in     *)
(* place is a new node here.  The heights are the ones stored in the nodes; *)
(* nothing recomputes them from below.  The recursions are functions of    *)
(* the trees that are no higher than the one they start at.                *)
(***************************************************************************)
EXTENDS Integers, Sequences

\* A null AVLNode*, a record unlike that of any node.
NoNode == [height |-> 0]

Height(t) == IF t = NoNode THEN 0 ELSE t.height

NewNode(k, page) ==
  [key |-> k, pageId |-> page, left |-> NoNode, right |-> NoNode, height |-> 1]

\* The node after its subtrees have changed.
Updated(t) ==
  LET l == Height(t.left)
      r == Height(t.right)
  IN  [t EXCEPT !.height = (IF l > r THEN l ELSE r) + 1]

BalanceFactor(t) == IF t = NoNode THEN 0 ELSE Height(t.left) - Height(t.right)

RotateLeft(t) ==
  Updated([t.right EXCEPT !.left = Updated([t EXCEPT !.right = t.right.left])])

RotateRight(t) ==
  Updated([t.left EXCEPT !.right = Updated([t EXCEPT !.left = t.left.right])])

RotateLeftRight(t) == RotateRight([t EXCEPT !.left = RotateLeft(@)])
RotateRightLeft(t) == RotateLeft([t EXCEPT !.right = RotateRight(@)])

\* Mutation: no double rotations.
Rebalance_Single(t) ==
  CASE BalanceFactor(t) > 1  -> RotateRight(t)
    [] BalanceFactor(t) < -1 -> RotateLeft(t)
    [] OTHER                 -> t

Rebalance(t) ==
  CASE BalanceFactor(t) > 1 ->
         IF BalanceFactor(t.left) < 0 THEN RotateLeftRight(t) ELSE RotateRight(t)
    [] BalanceFactor(t) < -1 ->
         IF BalanceFactor(t.right) > 0 THEN RotateRightLeft(t) ELSE RotateLeft(t)
    [] OTHER -> t

\* The balanced trees of at most n levels: the subtrees of every node differ in
\* height by at most one, and the height stored in it, which is all the code looks
\* at, is the height it has.
Trees[n \in Nat] ==
  IF n = 0 THEN {NoNode}
  ELSE LET lower == Trees[n - 1]
           nodes == [key : Int, pageId : Nat, left : lower, right : lower, height : Nat]
       IN  {NoNode} \union {t \in nodes : t = Updated(t) /\ BalanceFactor(t) \in -1 .. 1}

\* insertNode: a key that is there gets the new page.
InsertNode(root, k, page) ==
  LET insert[t \in Trees[Height(root)]] ==
        IF t = NoNode THEN NewNode(k, page)
        ELSE CASE k < t.key -> Rebalance(Updated([t EXCEPT !.left = insert[t.left]]))
               [] k > t.key -> Rebalance(Updated([t EXCEPT !.right = insert[t.right]]))
               [] OTHER     -> [t EXCEPT !.pageId = page]
  IN  insert[root]

\* The node the descent for k ends at, a null pointer if k is not there.
NodeAt(root, k) ==
  LET node[t \in Trees[Height(root)]] ==
        IF t = NoNode THEN NoNode
        ELSE CASE k < t.key -> node[t.left]
               [] k > t.key -> node[t.right]
               [] OTHER     -> t
  IN  node[root]

Search(root, k) == IF NodeAt(root, k) = NoNode THEN -1 ELSE NodeAt(root, k).pageId

FindMin(root) ==
  LET least[t \in Trees[Height(root)]] ==
        IF t = NoNode \/ t.left = NoNode THEN t ELSE least[t.left]
  IN  least[root]

\* Mutation: the successor's key is copied and its page is not.
Replaced_KeyOnly(t, successor) == [t EXCEPT !.key = successor.key]

\* A node with two subtrees takes over key and page of its successor.
Replaced(t, successor) == [t EXCEPT !.key = successor.key, !.pageId = successor.pageId]

\* removeNode, for every key: a node with one subtree becomes a copy of it.
RemoveNode(root, key) ==
  LET remove[t \in Trees[Height(root)]] ==
        IF t = NoNode THEN [k \in Int |-> NoNode]
        ELSE [k \in Int |->
          CASE k < t.key -> Rebalance(Updated([t EXCEPT !.left = remove[t.left][k]]))
            [] k > t.key -> Rebalance(Updated([t EXCEPT !.right = remove[t.right][k]]))
            [] k = t.key /\ t.left # NoNode /\ t.right # NoNode ->
                 LET successor == FindMin(t.right)
                 IN  Rebalance(Updated([Replaced(t, successor) EXCEPT
                                          !.right = remove[t.right][successor.key]]))
            [] k = t.key /\ t.left = NoNode /\ t.right = NoNode -> NoNode
            [] OTHER -> Rebalance(Updated(IF t.left # NoNode THEN t.left ELSE t.right))]
  IN  remove[root][key]

\* Mutation: keys equal to the bounds are left out.
InRange_Exclusive(k, low, high) == low < k /\ k < high

InRange(k, low, high) == low <= k /\ k <= high

\* rangeCollect: the pages in the order they are written to the result.
RangeCollect(root, low, high) ==
  LET collect[t \in Trees[Height(root)]] ==
        IF t = NoNode THEN << >>
        ELSE (IF low < t.key THEN collect[t.left] ELSE << >>)
             \o (IF InRange(t.key, low, high) THEN << t.pageId >> ELSE << >>)
             \o (IF high > t.key THEN collect[t.right] ELSE << >>)
  IN  collect[root]
=============================================================================
