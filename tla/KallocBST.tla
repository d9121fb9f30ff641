------------------------------ MODULE KallocBST -----------------------------
(***************************************************************************)
(* The best-fit allocator of "Archivos de prueba/kalloc_bestfit.c": free    *)
(* blocks of one or more pages in a binary search tree whose nodes come    *)
(* from a pool and are never reused.                                       *)
(*                                                                         *)
(* Addresses and sizes are counted in pages.  kalloc() and kfree() do all  *)
(* their work under kmem.lock, or at boot on one processor, so each is one *)
(* step.                                                                   *)
(***************************************************************************)
EXTENDS Integers, FiniteSets

CONSTANTS
  NPAGE,   \* pages that kinit1() and kinit2() hand over
  NLOW,    \* those of them that kinit1() does
  POOL     \* nodes of the pool (128 in the code)

Page == 1 .. NPAGE
Node == 1 .. POOL
Null == 0

VARIABLES
  t,               \* the tree: its root, and the nodes of the pool
  next_node_idx, total_free, num_blocks,
  todo,            \* freerange(): the next page to free
  used             \* pages that callers of kalloc() hold

vars == <<t, next_node_idx, total_free, num_blocks, todo, used>>

Blank == [addr |-> 0, size |-> 0, left |-> Null, right |-> Null, parent |-> Null]

\* kinit1(), before its freerange().
Init ==
  /\ t = [root |-> Null, node |-> [i \in Node |-> Blank]]
  /\ next_node_idx = 0 /\ total_free = 0 /\ num_blocks = 0
  /\ todo = 1 /\ used = {}

-----------------------------------------------------------------------------
\* The tree

\* A block (a, s) belongs to the left of node n.
MutGoesLeft(n, a, s) == a < n.addr
GoesLeft(n, a, s) == s < n.size \/ (s = n.size /\ a < n.addr)

RECURSIVE LeafFor(_, _, _, _)
LeafFor(tr, i, a, s) ==
  LET n == tr.node[i]
      child == IF GoesLeft(n, a, s) THEN n.left ELSE n.right
  IN IF child = Null THEN i ELSE LeafFor(tr, child, a, s)

\* bst_insert() with the node i that get_node() returned.
bst_insert(tr, i, a, s) ==
  LET new == [Blank EXCEPT !.addr = a, !.size = s]
      p   == LeafFor(tr, tr.root, a, s)
      side == IF GoesLeft(tr.node[p], a, s) THEN "left" ELSE "right"
  IN IF tr.root = Null
     THEN [root |-> i, node |-> [tr.node EXCEPT ![i] = new]]
     ELSE [tr EXCEPT !.node[i] = [new EXCEPT !.parent = p], !.node[p][side] = i]

RECURSIVE bst_min_node(_, _)
bst_min_node(tr, i) ==
  IF tr.node[i].left = Null THEN i ELSE bst_min_node(tr, tr.node[i].left)

\* Cases 1 and 2: a node with at most one child is replaced by it.
MutSplice(tr, i) ==
  LET n == tr.node[i]
      child == IF n.left # Null THEN n.left ELSE n.right
      side == IF tr.node[n.parent].left = i THEN "left" ELSE "right"
      above == IF n.parent = Null THEN [tr EXCEPT !.root = child]
               ELSE [tr EXCEPT !.node[n.parent][side] = child]
  IN [above EXCEPT !.node[i] = Blank]
Splice(tr, i) ==
  LET n == tr.node[i]
      child == IF n.left # Null THEN n.left ELSE n.right
      side == IF tr.node[n.parent].left = i THEN "left" ELSE "right"
      above == IF n.parent = Null THEN [tr EXCEPT !.root = child]
               ELSE [tr EXCEPT !.node[n.parent][side] = child]
      below == IF child = Null THEN above
               ELSE [above EXCEPT !.node[child].parent = n.parent]
  IN [below EXCEPT !.node[i] = Blank]

\* Case 3: a node with two children takes the block of its successor, whose
\* own node goes.  free_node() does nothing: node i is never used again.
bst_delete(tr, i) ==
  LET n == tr.node[i]
      m == bst_min_node(tr, n.right)
  IN IF n.left = Null \/ n.right = Null THEN Splice(tr, i)
     ELSE Splice([tr EXCEPT !.node[i].addr = tr.node[m].addr,
                            !.node[i].size = tr.node[m].size], m)

RECURSIVE bst_find_best_fit(_, _, _, _)
bst_find_best_fit(tr, i, size, best) ==
  IF i = Null THEN best
  ELSE LET n == tr.node[i]
           better == best = Null \/ n.size < tr.node[best].size
       IN IF n.size >= size
          THEN bst_find_best_fit(tr, n.left, size, IF better THEN i ELSE best)
          ELSE bst_find_best_fit(tr, n.right, size, best)

\* The search of try_coalesce(): by address, in a tree ordered by size.
RECURSIVE NodeAt(_, _, _)
NodeAt(tr, i, a) ==
  IF i = Null \/ tr.node[i].addr = a THEN i
  ELSE NodeAt(tr, IF a < tr.node[i].addr THEN tr.node[i].left ELSE tr.node[i].right, a)

\* try_coalesce(): the tree without the blocks that follow (a, s), the size
\* of the whole, and how many blocks were merged.
RECURSIVE try_coalesce(_, _, _, _)
try_coalesce(tr, a, s, merged) ==
  LET i == NodeAt(tr, tr.root, a + s)
  IN IF i = Null THEN [tree |-> tr, size |-> s, merged |-> merged]
     ELSE try_coalesce(bst_delete(tr, i), a, s + tr.node[i].size, merged + 1)

-----------------------------------------------------------------------------
\* kfree() and kalloc()

\* main() calls neither in the middle of a freerange().
BetweenInits == todo \in {NLOW + 1, NPAGE + 1}

\* With the pool exhausted bst_insert() fails and the block is dropped.
kfree(x) ==
  LET c == try_coalesce(t, x, 1, 0)
      i == next_node_idx + 1
  IN IF next_node_idx >= POOL
     THEN /\ t' = c.tree
          /\ num_blocks' = num_blocks - c.merged
          /\ UNCHANGED <<next_node_idx, total_free>>
     ELSE /\ t' = bst_insert(c.tree, i, x, c.size)
          /\ num_blocks' = num_blocks - c.merged + 1
          /\ total_free' = total_free + c.size
          /\ next_node_idx' = i

Kfree(x) ==
  /\ BetweenInits
  /\ x \in used /\ used' = used \ {x}
  /\ kfree(x)
  /\ UNCHANGED todo

\* One turn of freerange().
Freerange ==
  /\ todo <= NPAGE /\ todo' = todo + 1
  /\ kfree(todo)
  /\ UNCHANGED used

Best == bst_find_best_fit(t, t.root, 1, Null)

\* kalloc() cuts a page off a larger block, in its node ...
Split ==
  /\ BetweenInits /\ Best # Null /\ t.node[Best].size > 1
  /\ used' = used \cup {t.node[Best].addr}
  /\ t' = [t EXCEPT !.node[Best].addr = @ + 1, !.node[Best].size = @ - 1]
  /\ total_free' = total_free - 1
  /\ UNCHANGED <<next_node_idx, num_blocks, todo>>

\* ... or takes a whole block of one page.  With no block it returns null.
TakeWhole ==
  /\ BetweenInits /\ Best # Null /\ t.node[Best].size = 1
  /\ used' = used \cup {t.node[Best].addr}
  /\ t' = bst_delete(t, Best)
  /\ num_blocks' = num_blocks - 1
  /\ total_free' = total_free - 1
  /\ UNCHANGED <<next_node_idx, todo>>

KallocFails == BetweenInits /\ Best = Null /\ UNCHANGED vars

Next == Freerange \/ Split \/ TakeWhole \/ KallocFails \/ \E x \in used : Kfree(x)

Spec == Init /\ [][Next]_vars

-----------------------------------------------------------------------------
\* Properties

RECURSIVE Subtree(_)
Subtree(i) ==
  IF i = Null THEN {}
  ELSE {i} \cup Subtree(t.node[i].left) \cup Subtree(t.node[i].right)

Blocks == Subtree(t.root)
Pages(i) == t.node[i].addr .. t.node[i].addr + t.node[i].size - 1

\* The links of the tree agree in both directions and no node is its own
\* descendant, through splits, merges and deletions of nodes with two children.
TreeLinked ==
  /\ t.root # Null => t.node[t.root].parent = Null
  /\ \A i \in Blocks :
       LET n == t.node[i] IN
       /\ n.left # Null => t.node[n.left].parent = i
       /\ n.right # Null => t.node[n.right].parent = i
       /\ Subtree(n.left) \cap Subtree(n.right) = {}

\* No page is in two free blocks, or free and in use: kalloc() never grants a
\* page twice.
NoOverlap ==
  /\ \A i \in Blocks : Pages(i) \cap used = {} /\ Pages(i) \subseteq 1 .. todo - 1
  /\ \A i, j \in Blocks : i # j => Pages(i) \cap Pages(j) = {}

\* knumblocks() reports the blocks of the tree.
BlocksCounted == num_blocks = Cardinality(Blocks)

\* As long as the pool has nodes no page is lost.
NothingLostYet ==
  next_node_idx < POOL => used \cup UNION {Pages(i) : i \in Blocks} = 1 .. todo - 1

\* All of these: the nodes of the tree are the free pages, each once.
TreeExact == TreeLinked /\ NoOverlap /\ BlocksCounted /\ NothingLostYet

\* bst_find_best_fit() only ever looks left, and still finds the smallest block,
\* although splits in place break the order of the tree.
BestIsSmallest ==
  \A i \in Blocks : t.node[Best].size <= t.node[i].size

-----------------------------------------------------------------------------
\* What the comments say and the code does not do

\* Line 322: kfree() "la agrega al árbol BST": a page not in use is in the tree.
FreedIsInTree ==
  \A x \in 1 .. todo - 1 : x \in used \/ \E i \in Blocks : x \in Pages(i)
=============================================================================
