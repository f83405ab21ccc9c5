------------------------------ MODULE AvlProofs ------------------------------
(***************************************************************************)
(* Theorems about Avl, for every set of nodes and keys and every sequence   *)
(* of calls: the tree is the set of nodes that were put in, its links       *)
(* mirror each other, it is balanced, finds, walks and the nearest node are *)
(* right, no ASSERT fails and avl_destroy_nodes returns every node.         *)
(*                                                                          *)
(* The invariant AvlInv says that there are two functions on the nodes: sub *)
(* gives each node the set of nodes below it (IsTree), ht its height (Hts). *)
(* With these as witnesses nothing has to be computed along the tree: each  *)
(* step of the code changes them at a few nodes and on the way to the root. *)
(* Where a pointer loop or a recursive function does compute, the sets of   *)
(* sub, which shrink on the way down, show that it stops and where.         *)
(*                                                                          *)
(* While a call climbs, the balances fit heights of which one, at the loop, *)
(* is told d less than it is: one level more than it had during an insert,  *)
(* one fewer during a remove.  An insert also needs Grown: the subtree it   *)
(* comes from is the new node or leans to one side; otherwise a rotation    *)
(* would not bring it back to the height it had before the insert, and      *)
(* avl_insert, which stops after a rotation, would stop too early.          *)
(*                                                                          *)
(* avl_remove's exchange of a node with its neighbour is a Cut of the       *)
(* neighbour, which has at most one child, and then a renaming of the node  *)
(* to it: two simple changes of a tree in place of one that can meet itself *)
(* where the neighbour is a child.                                          *)
(*                                                                          *)
(* Between two calls of avl_destroy_nodes what is left is a tree, and the   *)
(* way from its root to the cookie goes right only where the left side is   *)
(* gone (Midway).  Off that way the heights are still right, so that the    *)
(* balances the code looks at tell the truth: the one child of a node       *)
(* without a left child is a leaf.                                          *)
(***************************************************************************)
EXTENDS Avl, FiniteSetTheorems, WellFoundedInduction, TLAPS

\* A nonempty set of naturals has a least element.
LEMMA LeastNat ==
    ASSUME NEW T \in SUBSET Nat, T # {}
    PROVE  \E x \in T : \A y \in T : x <= y
<1>1. IsWellFoundedOn(OpToRel(<, Nat), Nat)
  BY NatLessThanWellFounded
<1>2. PICK x \in T : \A y \in T : ~ (<<y, x>> \in OpToRel(<, Nat))
  BY <1>1, WFMin
<1>3. \A y \in T : ~ (y < x)
  BY <1>2, Zenon DEF OpToRel
<1> QED
  BY <1>3

\* What follows pointers that lead ever lower stops, and where it stops is in
\* every set the pointers do not leave.
LEMMA FollowStops ==
    ASSUME NEW next, NEW stop, NEW I \in SUBSET DOMAIN next, NEW rk \in [I -> Nat],
           NEW x \in I,
           \A y \in DOMAIN next \ stop : next[y] \in DOMAIN next,
           \A y \in I \ stop : next[y] \in I /\ rk[next[y]] < rk[y]
    PROVE  Follow(next, stop, x) \in I \cap stop
<1> DEFINE D == DOMAIN next
           Closed(C) == \A z \in C \ stop : next[z] \in C
           End(y, s) == s \in stop /\ \A C \in SUBSET D : y \in C /\ Closed(C) => s \in C
           f == [y \in D |-> CHOOSE s : s \in {t \in D : End(y, t)}]
           g == CHOOSE g : g = [y \in D |-> IF y \in stop THEN y ELSE g[next[y]]]
<1>1. f = [y \in D |-> IF y \in stop THEN y ELSE f[next[y]]]
  <2>0. f = [y \in D |-> f[y]]
    OBVIOUS
  <2>1. ASSUME NEW y \in D, y \in stop
        PROVE  f[y] = y
    <3>1. {t \in D : End(y, t)} = {y}
      <4>1. Closed({y})
        BY <2>1
      <4> QED
        BY <2>1, <4>1
    <3> QED
      BY <3>1, <2>1
  <2>2. ASSUME NEW y \in D, y \notin stop
        PROVE  f[y] = f[next[y]]
    <3>1. next[y] \in D
      BY <2>2
    <3>2. \A t \in D : End(y, t) <=> End(next[y], t)
      <4> SUFFICES ASSUME NEW t \in D, t \in stop
                   PROVE  (\A C \in SUBSET D : y \in C /\ Closed(C) => t \in C)
                            <=> (\A C \in SUBSET D : next[y] \in C /\ Closed(C) => t \in C)
        OBVIOUS
      <4>1. ASSUME \A C \in SUBSET D : next[y] \in C /\ Closed(C) => t \in C,
                   NEW C \in SUBSET D, y \in C, Closed(C)
            PROVE  t \in C
        BY <2>2, <4>1
      <4>2. ASSUME \A C \in SUBSET D : y \in C /\ Closed(C) => t \in C,
                   NEW C \in SUBSET D, next[y] \in C, Closed(C)
            PROVE  t \in C
        <5>1. Closed(C \cup {y})
          BY <4>2
        <5>2. t \in C \cup {y}
          BY <5>1, <4>2
        <5> QED
          BY <5>2, <2>2
      <4> QED
        BY <4>1, <4>2
    <3>3. {t \in D : End(y, t)} = {t \in D : End(next[y], t)}
      BY <3>2
    <3> HIDE DEF End
    <3> QED
      BY <3>1, <3>3, <2>2
  <2> HIDE DEF f
  <2> QED
    BY <2>0, <2>1, <2>2
<1>2. g = [y \in D |-> IF y \in stop THEN y ELSE g[next[y]]]
  <2> HIDE DEF f
  <2> QED
    BY <1>1
<1>3. Follow(next, stop, x) = g[x]
  BY DEF Follow
<1> HIDE DEF g, f
<1>4. \A y \in I : g[y] \in I \cap stop
  <2> DEFINE Bad == {y \in I : g[y] \notin I \cap stop}
  <2> SUFFICES ASSUME Bad # {} PROVE FALSE
    OBVIOUS
  <2>1. {rk[y] : y \in Bad} \in SUBSET Nat /\ {rk[y] : y \in Bad} # {}
    OBVIOUS
  <2>2. PICK r \in {rk[y] : y \in Bad} : \A t \in {rk[y] : y \in Bad} : r <= t
    BY <2>1, LeastNat
  <2>5. PICK y \in Bad : r = rk[y]
    OBVIOUS
  <2>3. y \notin stop
    BY <1>2
  <2>4. g[y] = g[next[y]] /\ next[y] \in I /\ rk[next[y]] < rk[y]
    BY <2>3, <1>2
  <2> QED
    BY <2>2, <2>4, <2>5
<1> QED
  BY <1>3, <1>4

----------------------------------------------------------------------------
(* The tree as a static structure.                                         *)

\* The avl_node_t of all slots, with pointers in P.
HeapOf(P) == [Slot -> [child : [Side -> P], parent : P, index : Side, balance : -1..1]]

\* The same with pointers to nodes: what TypeOK says of nd.
Heap == [Slot -> [child : [Side -> Ptr], parent : Ptr, index : Side, balance : -1..1]]

\* a lies on side c of b in the order of the keys.
Beyond(a, b, c) == IF c = 0 THEN a < b ELSE a > b

\* Child pointers, parent pointers and indices of h mirror each other on S.
Links(h, S, root) ==
    /\ root \in S \cup {NULL}
    /\ \A n \in S, c \in Side :
          h[n].child[c] # NULL => /\ h[n].child[c] \in S
                                  /\ h[h[n].child[c]].parent = n
                                  /\ h[h[n].child[c]].index = c
    /\ \A n \in S :
          IF n = root THEN h[n].parent = NULL
          ELSE h[n].parent \in S /\ h[h[n].parent].child[h[n].index] = n

\* sub[n] is the set of nodes in the subtree of n; the subtrees are in order, and
\* that of the root is everything.
Subs(sub, h, S, root, k) ==
    /\ sub \in [Ptr -> SUBSET Node] /\ sub[NULL] = {} /\ sub[root] = S
    /\ \A n \in S : sub[n] \subseteq S
    /\ \A n \in S : sub[n] = {n} \cup sub[h[n].child[0]] \cup sub[h[n].child[1]]
    /\ \A n \in S, c \in Side : \A m \in sub[h[n].child[c]] : Beyond(k[m], k[n], c)
    /\ \A m, n \in S : k[m] = k[n] => m = n

\* h holds on the nodes S a search tree for the keys k, with the subtrees sub.
IsTree(sub, h, S, root, k) ==
    /\ h \in Heap /\ S \in SUBSET Node /\ IsFiniteSet(S) /\ k \in [Node -> Int]
    /\ Links(h, S, root) /\ Subs(sub, h, S, root, k)

\* The subtrees of the two children are in that of their parent and have nothing in common.
LEMMA SubFacts ==
    ASSUME NEW sub, NEW h, NEW S, NEW root, NEW k, IsTree(sub, h, S, root, k)
    PROVE  /\ \A n \in S : n \in sub[n] /\ sub[n] \subseteq S
           /\ \A n \in S, c \in Side :
                 /\ h[n].child[c] \in S \cup {NULL}
                 /\ sub[h[n].child[c]] \subseteq sub[n]
                 /\ n \notin sub[h[n].child[c]]
                 /\ sub[h[n].child[c]] \cap sub[h[n].child[1 - c]] = {}
                 /\ sub[n] = {n} \cup sub[h[n].child[c]] \cup sub[h[n].child[1 - c]]
<1> USE DEF IsTree, Heap, Side, Slot
<1>1. ASSUME NEW n \in S PROVE n \in sub[n] /\ sub[n] \subseteq S
  BY DEF Subs
<1>2. ASSUME NEW n \in S, NEW c \in Side
      PROVE  /\ h[n].child[c] \in S \cup {NULL}
             /\ 1 - c \in Side
             /\ sub[n] = {n} \cup sub[h[n].child[c]] \cup sub[h[n].child[1 - c]]
  <2>1. h[n].child[c] \in S \cup {NULL}
    BY DEF Links
  <2>2. c = 0 \/ c = 1
    OBVIOUS
  <2>3. sub[n] = {n} \cup sub[h[n].child[0]] \cup sub[h[n].child[1]]
    BY DEF Subs
  <2>4. CASE c = 0
    BY <2>1, <2>3, <2>4
  <2>5. CASE c = 1
    BY <2>1, <2>3, <2>5
  <2> QED
    BY <2>2, <2>4, <2>5
<1>3. ASSUME NEW n \in S, NEW c \in Side, NEW m \in sub[h[n].child[c]]
      PROVE  /\ Beyond(k[m], k[n], c) /\ m \in S /\ k[m] \in Int /\ k[n] \in Int
             /\ m # n /\ m \notin sub[h[n].child[1 - c]]
  <2>1. Beyond(k[m], k[n], c) /\ m \in S /\ k[m] \in Int /\ k[n] \in Int
    BY <1>1, <1>2 DEF Subs
  <2>2. m \in sub[h[n].child[1 - c]] => Beyond(k[m], k[n], 1 - c)
    BY <1>2 DEF Subs
  <2> QED
    BY <2>1, <2>2 DEF Beyond
<1> QED
  BY <1>1, <1>2, <1>3

\* The subtree of a child is smaller.
LEMMA SubSizes ==
    ASSUME NEW sub, NEW h, NEW S, NEW root, NEW k, IsTree(sub, h, S, root, k)
    PROVE  /\ \A n \in S : Cardinality(sub[n]) \in Nat /\ Cardinality(sub[n]) <= Cardinality(S)
           /\ Cardinality(S) \in Nat
           /\ \A n \in S, c \in Side :
                 h[n].child[c] # NULL => Cardinality(sub[h[n].child[c]]) < Cardinality(sub[n])
<1>1. IsFiniteSet(S) /\ Cardinality(S) \in Nat
  BY FS_CardinalityType DEF IsTree
<1>2. ASSUME NEW n \in S
      PROVE  /\ IsFiniteSet(sub[n]) /\ Cardinality(sub[n]) \in Nat
             /\ Cardinality(sub[n]) <= Cardinality(S)
  BY <1>1, SubFacts, FS_Subset, FS_CardinalityType
<1>3. ASSUME NEW n \in S, NEW c \in Side, h[n].child[c] # NULL
      PROVE  Cardinality(sub[h[n].child[c]]) < Cardinality(sub[n])
  <2> DEFINE T == sub[h[n].child[c]]
  <2>1. T \subseteq sub[n] /\ T # sub[n]
    BY SubFacts
  <2>2. /\ IsFiniteSet(sub[n]) /\ Cardinality(sub[n]) \in Nat
    BY <1>2
  <2>3. Cardinality(T) \in Nat
    BY <2>1, <2>2, FS_Subset, FS_CardinalityType
  <2>4. Cardinality(T) <= Cardinality(sub[n]) /\ (Cardinality(T) = Cardinality(sub[n]) => T = sub[n])
    BY <2>1, <2>2, FS_Subset
  <2> QED
    BY <2>1, <2>2, <2>3, <2>4
<1> QED
  BY <1>1, <1>2, <1>3

\* Among any nodes there is one that is not above another of them in its children,
\* and one whose parent is not among them.
LEMMA Lowest ==
    ASSUME NEW sub, NEW h, NEW S, NEW root, NEW k, IsTree(sub, h, S, root, k),
           NEW Bad \in SUBSET S, Bad # {}
    PROVE  \E n \in Bad : \A c \in Side : h[n].child[c] \notin Bad
<1> DEFINE R == {Cardinality(sub[n]) : n \in Bad}
<1>1. R \in SUBSET Nat /\ R # {}
  BY SubSizes
<1>2. PICK r \in R : \A t \in R : r <= t
  BY <1>1, LeastNat
<1>3. PICK n \in Bad : r = Cardinality(sub[n])
  OBVIOUS
<1>4. NULL \notin S
  BY NodesAssumption DEF IsTree
<1>5. ASSUME NEW c \in Side, h[n].child[c] \in Bad PROVE FALSE
  <2>1. Cardinality(sub[h[n].child[c]]) < Cardinality(sub[n])
    BY <1>4, <1>5, SubSizes
  <2>2. Cardinality(sub[h[n].child[c]]) \in Nat /\ Cardinality(sub[n]) \in Nat
    BY <1>5, SubSizes
  <2> QED
    BY <1>2, <1>3, <1>5, <2>1, <2>2
<1> QED
  BY <1>5

\* A nonempty set of nodes of a tree has one whose parent is not in it.
LEMMA Highest ==
    ASSUME NEW sub, NEW h, NEW S, NEW root, NEW k, IsTree(sub, h, S, root, k),
           NEW Bad \in SUBSET S, Bad # {}
    PROVE  \E n \in Bad : n = root \/ h[n].parent \notin Bad
<1> DEFINE R == {Cardinality(S) - Cardinality(sub[n]) : n \in Bad}
<1>1. R \in SUBSET Nat /\ R # {}
  BY SubSizes
<1>2. PICK r \in R : \A t \in R : r <= t
  BY <1>1, LeastNat
<1>3. PICK n \in Bad : r = Cardinality(S) - Cardinality(sub[n])
  OBVIOUS
<1>4. NULL \notin S
  BY NodesAssumption DEF IsTree
<1>5. ASSUME n # root, h[n].parent \in Bad PROVE FALSE
  <2> DEFINE p == h[n].parent
  <2>0. h[n].index \in Side /\ h[p].child[h[n].index] = n
    BY <1>5 DEF IsTree, Links, Heap, Slot
  <2>1. Cardinality(sub[n]) < Cardinality(sub[p])
    BY <1>4, <1>5, <2>0, SubSizes
  <2>2. Cardinality(sub[p]) \in Nat /\ Cardinality(sub[n]) \in Nat /\ Cardinality(S) \in Nat
    BY <1>5, SubSizes
  <2> QED
    BY <1>2, <1>3, <1>5, <2>1, <2>2
<1> QED
  BY <1>5

\* A subtree holds the subtrees of its nodes.
LEMMA SubTransitive ==
    ASSUME NEW sub, NEW h, NEW S, NEW root, NEW k, IsTree(sub, h, S, root, k)
    PROVE  \A n \in S : \A m \in sub[n] : sub[m] \subseteq sub[n]
<1> DEFINE Bad == {n \in S : \E m \in sub[n] : ~ (sub[m] \subseteq sub[n])}
<1> SUFFICES ASSUME Bad # {} PROVE FALSE
  OBVIOUS
<1>1. PICK n \in Bad : \A c \in Side : h[n].child[c] \notin Bad
  BY Lowest
<1>2. PICK m \in sub[n] : ~ (sub[m] \subseteq sub[n])
  OBVIOUS
<1>3. PICK c \in Side : m \in sub[h[n].child[c]]
  BY <1>2, SubFacts DEF Side
<1>4. h[n].child[c] \in S
  <2>1. sub[NULL] = {}
    BY DEF IsTree, Subs
  <2> QED
    BY <1>3, <2>1, SubFacts
<1> QED
  BY <1>1, <1>2, <1>3, <1>4, SubFacts

\* The keys of a subtree are an interval of the keys of the tree.
LEMMA Window ==
    ASSUME NEW sub, NEW h, NEW S, NEW root, NEW k, IsTree(sub, h, S, root, k)
    PROVE  \A n \in S, m \in S : m \notin sub[n] =>
              \E c \in Side : \A x \in sub[n] : Beyond(k[m], k[x], c)
<1> DEFINE Win(n, m) == \E c \in Side : \A x \in sub[n] : Beyond(k[m], k[x], c)
           Bad == {n \in S : \E m \in S : m \notin sub[n] /\ ~ Win(n, m)}
<1> SUFFICES ASSUME Bad # {} PROVE FALSE
  OBVIOUS
<1>0. Bad \in SUBSET S
  OBVIOUS
<1>1. PICK n \in Bad : n = root \/ h[n].parent \notin Bad
  <2> HIDE DEF Bad
  <2> QED
    BY <1>0, Highest
<1>2. PICK m \in S : m \notin sub[n] /\ ~ Win(n, m)
  OBVIOUS
<1>3. n # root
  BY <1>2 DEF IsTree, Subs
<1> DEFINE p == h[n].parent
           d == h[n].index
<1>4. p \in S /\ d \in Side /\ 1 - d \in Side /\ h[p].child[d] = n
  BY <1>3 DEF IsTree, Links, Heap, Slot, Side
<1>5. sub[n] \subseteq sub[p] /\ sub[p] = {p} \cup sub[n] \cup sub[h[p].child[1 - d]]
  <2> HIDE DEF p, d
  <2>1. sub[h[p].child[d]] \subseteq sub[p] /\ sub[p] = {p} \cup sub[h[p].child[d]] \cup sub[h[p].child[1 - d]]
    BY <1>4, SubFacts
  <2> QED
    BY <2>1, <1>4
<1>6. \A x \in sub[n] : Beyond(k[x], k[p], d) /\ k[x] \in Int /\ k[p] \in Int
  <2>1. \A y \in S : k[y] \in Int
    BY DEF IsTree
  <2>2. \A x \in sub[n] : x \in S
    BY SubFacts
  <2>3. \A x \in sub[h[p].child[d]] : Beyond(k[x], k[p], d)
    BY <1>4 DEF IsTree, Subs
  <2> QED
    BY <2>1, <2>2, <2>3, <1>4
<1>7. CASE m \notin sub[p]
  <2>1. p \notin Bad
    BY <1>1, <1>3
  <2>2. Win(p, m)
    BY <2>1, <1>4, <1>7
  <2>3. Win(n, m)
    BY <2>2, <1>5
  <2> QED
    BY <2>3, <1>2
<1>8. CASE m = p
  <2>1. \A x \in sub[n] : Beyond(k[m], k[x], 1 - d)
    BY <1>4, <1>6, <1>8 DEF Beyond, Side
  <2> QED
    BY <1>2, <1>4, <2>1
<1>9. CASE m \in sub[h[p].child[1 - d]]
  <2>1. Beyond(k[m], k[p], 1 - d) /\ k[m] \in Int
    <3> HIDE DEF p, d
    <3>1. \A x \in sub[h[p].child[1 - d]] : Beyond(k[x], k[p], 1 - d)
      BY <1>4 DEF IsTree, Subs
    <3>2. k[m] \in Int
      BY DEF IsTree
    <3> QED
      BY <3>1, <3>2, <1>9
  <2>2. \A x \in sub[n] : Beyond(k[m], k[x], 1 - d)
    BY <1>4, <1>6, <2>1 DEF Beyond, Side
  <2> QED
    BY <1>2, <1>4, <2>2
<1> QED
  BY <1>2, <1>5, <1>7, <1>8, <1>9

\* The parent of a node of a subtree is in it, too, but for the top.
LEMMA ParentInSub ==
    ASSUME NEW sub, NEW h, NEW S, NEW root, NEW k, IsTree(sub, h, S, root, k)
    PROVE  \A n \in S : \A m \in sub[n] : m # n => m # root /\ h[m].parent \in sub[n]
<1> DEFINE Bad == {n \in S : \E m \in sub[n] : m # n /\ h[m].parent \notin sub[n]}
<1>1. ASSUME Bad # {} PROVE FALSE
  <2>1. PICK n \in Bad : \A c \in Side : h[n].child[c] \notin Bad
    BY <1>1, Lowest
  <2>2. PICK m \in sub[n] : m # n /\ h[m].parent \notin sub[n]
    OBVIOUS
  <2>3. PICK c \in Side : m \in sub[h[n].child[c]]
    BY <2>2, SubFacts DEF Side
  <2>4. h[n].child[c] \in S /\ h[h[n].child[c]].parent = n
    <3>1. sub[NULL] = {}
      BY DEF IsTree, Subs
    <3>2. h[n].child[c] \in S
      BY <3>1, <2>3, SubFacts
    <3> QED
      BY <3>2, NodesAssumption DEF IsTree, Links
  <2> QED
    BY <2>1, <2>2, <2>3, <2>4, SubFacts
<1>2. \A m \in S : m = root => h[m].parent = NULL
  BY DEF IsTree, Links
<1>3. NULL \notin S
  BY NodesAssumption DEF IsTree
<1> QED
  BY <1>1, <1>2, <1>3, SubFacts

\* The loops "while (node->avl_child[c] != NULL)" come to the end of the subtree on
\* side c, by way of its nodes on that side alone.
LEMMA DescendEnds ==
    ASSUME NEW sub, NEW h, NEW S, NEW root, NEW k, IsTree(sub, h, S, root, k),
           NEW m \in S, NEW c \in Side, NEW p \in Slot \cup {NULL}
    PROVE  LET x == Descend(h, p, m, c)
           IN  /\ x[2] \in sub[m] /\ h[x[2]].child[c] = NULL
               /\ x[1] = IF x[2] = m THEN p ELSE h[x[2]].parent
               /\ \A y \in sub[m] : y = x[2] \/ Beyond(k[y], k[x[2]], 1 - c)
               /\ \A y \in sub[m] : x[2] \in sub[y] /\ y # m => h[y].index = c
<1> DEFINE at    == (Slot \cup {NULL}) \X Slot
           next  == [x \in at |-> <<x[2], h[x[2]].child[c]>>]
           stop  == {x \in at : h[x[2]].child[c] = NULL}
           In(x) == /\ x[2] \in sub[m]
                    /\ x[1] = IF x[2] = m THEN p ELSE h[x[2]].parent
                    /\ \A y \in sub[m] : y \in sub[x[2]] \/ Beyond(k[y], k[x[2]], 1 - c)
                    /\ \A y \in sub[m] : x[2] \in sub[y] /\ y # m => h[y].index = c
           I     == {x \in at : In(x)}
           rk    == [x \in I |-> Cardinality(sub[x[2]])]
<1>0. /\ sub[m] \subseteq S /\ S \subseteq Node /\ NULL \notin S /\ 1 - c \in Side /\ c \in 0..1
      /\ sub[NULL] = {} /\ m \in sub[m]
      /\ \A y \in sub[m] : sub[y] \subseteq sub[m]
      /\ \A y \in S : k[y] \in Int
  <2>1. S \subseteq Node /\ NULL \notin S /\ sub[NULL] = {} /\ \A y \in S : k[y] \in Int
    BY NodesAssumption DEF IsTree, Subs
  <2>2. 1 - c \in Side /\ c \in 0..1
    BY DEF Side
  <2> QED
    BY <2>1, <2>2, SubFacts, SubTransitive
<1>1. I \in SUBSET DOMAIN next /\ rk \in [I -> Nat]
  BY <1>0, SubSizes
<1>2. <<p, m>> \in I
  <2>1. \A y \in sub[m] : m \in sub[y] => y = m
    BY <1>0, SubFacts, SubTransitive, ParentInSub
  <2> QED
    BY <2>1, <1>0 DEF Slot
<1>3. \A x \in DOMAIN next \ stop : next[x] \in DOMAIN next
  BY DEF IsTree, Heap, Ptr, Slot
<1>4. ASSUME NEW x \in I \ stop
      PROVE  next[x] \in I /\ rk[next[x]] < rk[x]
  <2> DEFINE a == x[2]
             b == h[a].child[c]
  <2>1. a \in sub[m] /\ a \in S /\ b # NULL /\ a \in Slot
    BY <1>0
  <2>2. b \in S /\ h[b].parent = a /\ h[b].index = c /\ b \in Slot
    BY <2>1, <1>0 DEF IsTree, Links, Slot
  <2>3. b \in sub[m] /\ b # m /\ sub[b] \subseteq sub[a] /\ Cardinality(sub[b]) < Cardinality(sub[a])
    BY <2>1, <2>2, <1>0, SubFacts, SubSizes
  <2>4. ASSUME NEW y \in sub[m] PROVE y \in sub[b] \/ Beyond(k[y], k[b], 1 - c)
    <3>1. b \in sub[b] /\ Beyond(k[b], k[a], c) /\ k[a] \in Int /\ k[b] \in Int /\ k[y] \in Int
      <4> HIDE DEF a, b
      <4>1. b \in sub[b] /\ sub[m] \subseteq S
        BY <2>2, SubFacts
      <4>2. \A z \in S : k[z] \in Int
        BY DEF IsTree
      <4>3. \A z \in sub[h[a].child[c]] : Beyond(k[z], k[a], c)
        BY <2>1 DEF IsTree, Subs
      <4> QED
        BY <4>1, <4>2, <4>3, <2>1, <2>2, <2>4 DEF b
    <3>2. y \in sub[a] \/ Beyond(k[y], k[a], 1 - c)
      OBVIOUS
    <3>3. y \in sub[a] => y = a \/ y \in sub[b] \/ y \in sub[h[a].child[1 - c]]
      BY <2>1, SubFacts
    <3>4. y \in sub[h[a].child[1 - c]] => Beyond(k[y], k[a], 1 - c)
      BY <2>1, <1>0 DEF IsTree, Subs
    <3> QED
      BY <3>1, <3>2, <3>3, <3>4, <1>0 DEF Beyond
  <2>5. ASSUME NEW y \in sub[m], b \in sub[y], y # m PROVE h[y].index = c
    <3>1. CASE y = b
      BY <3>1, <2>2
    <3>2. CASE y # b
      <4>1. a \in sub[y]
        BY <3>2, <2>2, <2>5, <1>0, ParentInSub
      <4> QED
        BY <4>1, <2>5
    <3> QED
      BY <3>1, <3>2
  <2>6. next[x] = <<a, b>> /\ <<a, b>> \in at
    BY <2>1, <2>2
  <2>7. <<a, b>> \in I
    BY <2>2, <2>3, <2>4, <2>5, <2>6
  <2> QED
    BY <2>3, <2>6, <2>7
<1>5. Descend(h, p, m, c) \in I \cap stop
  <2>1. Descend(h, p, m, c) = Follow(next, stop, <<p, m>>)
    BY DEF Descend
  <2> HIDE DEF next, stop, I, rk
  <2> QED
    BY <2>1, <1>1, <1>2, <1>3, <1>4, FollowStops
<1>6. ASSUME NEW x \in I \cap stop, NEW y \in sub[m]
      PROVE  y = x[2] \/ Beyond(k[y], k[x[2]], 1 - c)
  <2>1. x[2] \in S /\ h[x[2]].child[c] = NULL
    BY <1>0
  <2>2. y \in sub[x[2]] => y = x[2] \/ y \in sub[h[x[2]].child[1 - c]]
    BY <2>1, <1>0, SubFacts
  <2>3. y \in sub[h[x[2]].child[1 - c]] => Beyond(k[y], k[x[2]], 1 - c)
    BY <2>1, <1>0 DEF IsTree, Subs
  <2> QED
    BY <2>2, <2>3
<1> QED
  BY <1>5, <1>6

----------------------------------------------------------------------------
(* The functions that only read the tree.                                  *)

\* m is the node of S next to v on side c, or NULL if there is none.
NextTo(m, S, k, v, c) ==
    IF m = NULL THEN \A y \in S : ~ Beyond(k[y], v, c)
    ELSE /\ m \in S /\ Beyond(k[m], v, c)
         /\ \A y \in S : Beyond(k[y], v, c) => y = m \/ Beyond(k[y], k[m], c)

\* avl_walk into the subtree on that side: the node next to n.
LEMMA WalkDown ==
    ASSUME NEW sub, NEW S, NEW root, NEW k, IsTree(sub, nd, S, root, k),
           NEW n \in S, NEW left \in Side, nd[n].child[left] # NULL
    PROVE  /\ NextTo(Far(nd[n].child[left], 1 - left), S, k, k[n], left)
           /\ Far(nd[n].child[left], 1 - left) \in sub[nd[n].child[left]]
           /\ nd[Far(nd[n].child[left], 1 - left)].child[1 - left] = NULL
<1> DEFINE x == nd[n].child[left]
           d == 1 - left
           m == Far(x, d)
<1>0. x \in S /\ S \subseteq Node /\ NULL \notin S /\ d \in Side /\ (left = 0 \/ left = 1) /\ left = 1 - d
  BY NodesAssumption DEF IsTree, Links, Side
<1>1. /\ m \in sub[x] /\ nd[m].child[d] = NULL
      /\ \A y \in sub[x] : y = m \/ Beyond(k[y], k[m], left)
  BY <1>0, DescendEnds DEF Far
<1>2. sub[x] \subseteq sub[n] /\ sub[x] \subseteq S /\ n \in sub[n] /\ sub[n] = {n} \cup sub[x] \cup sub[nd[n].child[d]]
  BY <1>0, SubFacts
<1>3. /\ \A y \in sub[x] : Beyond(k[y], k[n], left)
      /\ \A y \in sub[nd[n].child[d]] : Beyond(k[y], k[n], d)
      /\ \A y \in S : k[y] \in Int
  BY <1>0, <1>2 DEF IsTree, Subs
<1>4. ASSUME NEW y \in S, Beyond(k[y], k[n], left) PROVE y = m \/ Beyond(k[y], k[m], left)
  <2>1. CASE y \notin sub[n]
    <3>1. PICK c \in Side : \A z \in sub[n] : Beyond(k[y], k[z], c)
      BY <2>1, Window
    <3>2. c = left
      BY <3>1, <1>0, <1>2, <1>3, <1>4 DEF Beyond, Side
    <3> QED
      BY <3>1, <3>2, <1>1, <1>2
  <2>2. CASE y \in sub[x]
    BY <2>2, <1>1
  <2>3. CASE y = n \/ y \in sub[nd[n].child[d]]
    BY <2>3, <1>0, <1>3, <1>4 DEF Beyond
  <2> QED
    BY <2>1, <2>2, <2>3, <1>2
<1>5. m \in S /\ m # NULL /\ Beyond(k[m], k[n], left)
  BY <1>0, <1>1, <1>2, <1>3
<1> HIDE DEF m
<1>6. NextTo(m, S, k, k[n], left)
  BY <1>4, <1>5 DEF NextTo
<1> QED
  BY <1>6, <1>1 DEF m

\* avl_walk up: the last node it comes from is the top of a subtree that n ends on
\* that side.
LEMMA WalkUp ==
    ASSUME NEW sub, NEW S, NEW root, NEW k, IsTree(sub, nd, S, root, k),
           NEW n \in S, NEW left \in Side, nd[n].child[left] = NULL
    PROVE  NextTo(avl_walk(n, left), S, k, k[n], left)
<1> DEFINE next == [m \in Node |-> nd[m].parent]
           stop == {m \in Node : nd[m].parent = NULL \/ nd[m].index # left}
           I    == {m \in S : n \in sub[m] /\ \A y \in sub[m] : y = n \/ Beyond(k[y], k[n], 1 - left)}
           rk   == [m \in I |-> Cardinality(S) - Cardinality(sub[m])]
           e    == Follow(next, stop, n)
<1>0. /\ S \subseteq Node /\ NULL \notin S /\ 1 - left \in Side /\ left \in {0, 1}
      /\ sub[NULL] = {} /\ sub[root] = S
      /\ \A y \in S : k[y] \in Int /\ nd[y].index \in Side
      /\ \A y \in S : y = root => nd[y].parent = NULL
  BY NodesAssumption DEF IsTree, Subs, Side, Heap, Slot, Links
<1>1. I \in SUBSET DOMAIN next /\ rk \in [I -> Nat]
  BY <1>0, SubSizes
<1>2. n \in I
  <2>1. n \in sub[n] /\ sub[n] = {n} \cup sub[nd[n].child[1 - left]]
    BY <1>0, SubFacts
  <2>2. \A y \in sub[nd[n].child[1 - left]] : Beyond(k[y], k[n], 1 - left)
    BY <1>0 DEF IsTree, Subs
  <2> QED
    BY <2>1, <2>2
<1>3. \A m \in DOMAIN next \ stop : next[m] \in DOMAIN next
  BY DEF IsTree, Heap, Ptr, Slot
\* What lies above a node of I, whichever side it is on.
<1>4. ASSUME NEW m \in I, m # root
      PROVE  LET p == nd[m].parent
                 d == nd[m].index
             IN  /\ p \in S /\ d \in Side /\ n \in sub[p] /\ p \in sub[p]
                 /\ Cardinality(sub[m]) < Cardinality(sub[p])
                 /\ Beyond(k[n], k[p], d) /\ sub[p] = {p} \cup sub[m] \cup sub[nd[p].child[1 - d]]
                 /\ \A y \in sub[nd[p].child[1 - d]] : y \in S /\ Beyond(k[y], k[p], 1 - d)
  <2> DEFINE p == nd[m].parent
             d == nd[m].index
  <2>1. p \in S /\ d \in Side /\ 1 - d \in Side /\ nd[p].child[d] = m /\ m # NULL
    BY <1>0, <1>4 DEF IsTree, Links, Side
  <2>2. n \in sub[p] /\ p \in sub[p] /\ sub[p] = {p} \cup sub[m] \cup sub[nd[p].child[1 - d]] /\ sub[p] \subseteq S
    <3>1. n \in sub[m]
      OBVIOUS
    <3> HIDE DEF p, d
    <3>2. p \in sub[p] /\ sub[p] \subseteq S
      BY <2>1, SubFacts
    <3>3. sub[p] = {p} \cup sub[nd[p].child[d]] \cup sub[nd[p].child[1 - d]]
      BY <2>1, SubFacts
    <3> QED
      BY <3>1, <3>2, <3>3, <2>1
  <2>3. Cardinality(sub[m]) < Cardinality(sub[p])
    BY <2>1, SubSizes
  <2>4. /\ Beyond(k[n], k[p], d)
        /\ \A y \in sub[nd[p].child[1 - d]] : Beyond(k[y], k[p], 1 - d)
    BY <2>1 DEF IsTree, Subs
  <2> QED
    BY <2>1, <2>2, <2>3, <2>4
<1>5. ASSUME NEW m \in I \ stop
      PROVE  next[m] \in I /\ rk[next[m]] < rk[m]
  <2> DEFINE p == nd[m].parent
  <2>1. /\ p # NULL /\ nd[m].index = left /\ m # root /\ next[m] = p /\ m \in I /\ m \in S
        /\ \A y \in sub[m] : y = n \/ Beyond(k[y], k[n], 1 - left)
    BY <1>0
  <2>2. /\ p \in S /\ n \in sub[p] /\ Cardinality(sub[m]) < Cardinality(sub[p])
        /\ Beyond(k[n], k[p], left) /\ sub[p] = {p} \cup sub[m] \cup sub[nd[p].child[1 - left]]
        /\ \A y \in sub[nd[p].child[1 - left]] : y \in S /\ Beyond(k[y], k[p], 1 - left)
    BY <2>1, <1>4
  <2> HIDE DEF p, I, next, stop, rk
  <2>3. ASSUME NEW y \in sub[p] PROVE y = n \/ Beyond(k[y], k[n], 1 - left)
    <3>1. CASE y \in sub[m]
      BY <3>1, <2>1
    <3>2. CASE y = p \/ Beyond(k[y], k[p], 1 - left)
      <4>1. sub[p] \subseteq S
        BY <2>2, SubFacts
      <4>2. y \in S /\ k[y] \in Int /\ k[p] \in Int /\ k[n] \in Int
        BY <4>1, <2>2, <1>0
      <4> QED
        BY <3>2, <4>2, <2>2, <1>0 DEF Beyond
    <3> QED
      BY <3>1, <3>2, <2>2
  <2>4. p \in I
    BY <2>2, <2>3 DEF I
  <2>5. Cardinality(S) \in Nat /\ Cardinality(sub[m]) \in Nat /\ Cardinality(sub[p]) \in Nat
    BY <2>1, <2>2, SubSizes
  <2>6. rk[p] = Cardinality(S) - Cardinality(sub[p]) /\ rk[m] = Cardinality(S) - Cardinality(sub[m])
    BY <2>1, <2>4 DEF rk
  <2> QED
    BY <2>1, <2>2, <2>4, <2>5, <2>6
<1>6. e \in I \cap stop
  <2> HIDE DEF next, stop, I, rk
  <2> QED
    BY <1>1, <1>2, <1>3, <1>5, FollowStops
<1>7. avl_walk(n, left) = nd[e].parent
  BY DEF avl_walk
<1> HIDE DEF e
<1>8. CASE e = root
  BY <1>6, <1>7, <1>8, <1>0 DEF NextTo, Beyond
<1>9. CASE e # root
  <2> DEFINE p == nd[e].parent
  <2>1. p \in S /\ p # NULL /\ nd[e].index = 1 - left
    BY <1>9, <1>6, <1>4, <1>0 DEF Side
  <2>2. /\ n \in sub[p] /\ p \in sub[p]
        /\ Beyond(k[n], k[p], 1 - left) /\ sub[p] = {p} \cup sub[e] \cup sub[nd[p].child[left]]
        /\ \A y \in sub[nd[p].child[left]] : y \in S /\ Beyond(k[y], k[p], left)
    <3>1. 1 - (1 - left) = left
      BY <1>0
    <3> QED
      BY <3>1, <2>1, <1>9, <1>6, <1>4
  <2>3. ASSUME NEW y \in S, Beyond(k[y], k[n], left) PROVE y = p \/ Beyond(k[y], k[p], left)
    <3>1. CASE y \notin sub[p]
      <4>1. PICK c \in Side : \A z \in sub[p] : Beyond(k[y], k[z], c)
        BY <3>1, <2>1, Window
      <4>2. c = left
        BY <4>1, <2>2, <2>3, <1>0 DEF Beyond, Side
      <4> QED
        BY <4>1, <4>2, <2>2
    <3>2. CASE y \in sub[e]
      <4>1. y = n \/ Beyond(k[y], k[n], 1 - left)
        BY <3>2, <1>6
      <4> QED
        BY <4>1, <2>3, <1>0 DEF Beyond
    <3> QED
      BY <3>1, <3>2, <2>2
  <2>4. Beyond(k[p], k[n], left)
    BY <2>1, <2>2, <1>0 DEF Beyond
  <2> QED
    BY <1>7, <2>1, <2>3, <2>4 DEF NextTo
<1> QED
  BY <1>8, <1>9

\* avl_walk(n, left) is the node next to n.
LEMMA WalkIsNext ==
    ASSUME NEW sub, NEW S, NEW root, NEW k, IsTree(sub, nd, S, root, k),
           NEW n \in S, NEW left \in Side
    PROVE  NextTo(avl_walk(n, left), S, k, k[n], left)
<1>1. CASE nd[n].child[left] = NULL
  BY <1>1, WalkUp
<1>2. CASE nd[n].child[left] # NULL
  <2>1. avl_walk(n, left) = Far(nd[n].child[left], 1 - left)
    BY <1>2 DEF avl_walk
  <2> QED
    BY <1>2, <2>1, WalkDown
<1> QED
  BY <1>1, <1>2

\* A node with key v can be put below p on side c.
Place(p, c, h, S, k, v) ==
    /\ p \in S /\ c \in Side /\ h[p].child[c] = NULL /\ Beyond(v, k[p], c)
    /\ \A y \in S \ {p} : k[y] # v /\ (k[y] < v <=> k[y] < k[p])

\* avl_find finds the key or the place for it.
LEMMA FindFinds ==
    ASSUME NEW sub, NEW S, IsTree(sub, nd, S, avl_root, key), NEW v \in Int
    PROVE  LET f == avl_find(v)
           IN  IF f.node # NULL THEN f.node \in S /\ key[f.node] = v
               ELSE /\ \A y \in S : key[y] # v
                    /\ IF avl_root = NULL THEN f.where = <<NULL, 0>>
                       ELSE Place(f.where[1], f.where[2], nd, S, key, v)
<1> DEFINE side(n) == IF v < key[n] THEN 0 ELSE 1
           next == [n \in Node |-> nd[n].child[side(n)]]
           stop == {n \in Node : v = key[n] \/ nd[n].child[side(n)] = NULL}
           Out(m, y) == \E c \in Side : Beyond(key[y], v, c) /\ \A x \in sub[m] : Beyond(key[y], key[x], c)
           I    == {m \in S : \A y \in S : y \in sub[m] \/ Out(m, y)}
           rk   == [m \in I |-> Cardinality(sub[m])]
           e    == Follow(next, stop, avl_root)
<1>0. /\ S \subseteq Node /\ NULL \notin S /\ sub[NULL] = {} /\ sub[avl_root] = S
      /\ avl_root \in S \cup {NULL}
      /\ \A y \in S : key[y] \in Int
      /\ \A n \in S : side(n) \in Side /\ 1 - side(n) \in Side
  BY NodesAssumption DEF IsTree, Subs, Side, Links
<1>1. CASE avl_root = NULL
  BY <1>0, <1>1 DEF avl_find
<1>2. CASE avl_root # NULL
  <2>1. I \in SUBSET DOMAIN next /\ rk \in [I -> Nat]
    BY <1>0, SubSizes
  <2>2. avl_root \in I
    BY <1>0, <1>2
  <2>3. \A m \in DOMAIN next \ stop : next[m] \in DOMAIN next
    BY DEF IsTree, Heap, Ptr, Slot, Side
  <2>4. ASSUME NEW m \in S
        PROVE  /\ m \in sub[m]
               /\ sub[m] = {m} \cup sub[nd[m].child[side(m)]] \cup sub[nd[m].child[1 - side(m)]]
               /\ \A x \in sub[nd[m].child[side(m)]] : x \in S /\ Beyond(key[x], key[m], side(m))
               /\ \A x \in sub[nd[m].child[1 - side(m)]] : x \in S /\ Beyond(key[x], key[m], 1 - side(m))
    <3> DEFINE d == side(m)
    <3>1. d \in Side /\ 1 - d \in Side
      BY <1>0
    <3> HIDE DEF d
    <3>2. m \in sub[m] /\ sub[m] \subseteq S /\ sub[m] = {m} \cup sub[nd[m].child[d]] \cup sub[nd[m].child[1 - d]]
      BY <3>1, SubFacts
    <3>3. /\ \A x \in sub[nd[m].child[d]] : Beyond(key[x], key[m], d)
          /\ \A x \in sub[nd[m].child[1 - d]] : Beyond(key[x], key[m], 1 - d)
      BY <3>1 DEF IsTree, Subs
    <3> QED
      BY <3>2, <3>3 DEF d
  <2>5. ASSUME NEW m \in I \ stop
        PROVE  next[m] \in I /\ rk[next[m]] < rk[m]
    <3> DEFINE d == side(m)
               b == nd[m].child[d]
    <3>1. v # key[m] /\ b # NULL /\ next[m] = b /\ d \in Side /\ 1 - d \in Side /\ (d = 0 \/ d = 1)
      BY <1>0
    <3>2. Beyond(v, key[m], d) /\ key[m] \in Int
      BY <3>1, <1>0 DEF Beyond
    <3>3. b \in S /\ sub[b] \subseteq sub[m] /\ Cardinality(sub[b]) < Cardinality(sub[m])
      <4> HIDE DEF d
      <4> QED
        BY <3>1, SubFacts, SubSizes
    <3>4. ASSUME NEW y \in S PROVE y \in sub[b] \/ Out(b, y)
      <4>1. CASE y \notin sub[m]
        BY <4>1, <3>3
      <4>2. CASE y = m \/ y \in sub[nd[m].child[1 - d]]
        <5>1. y = m \/ Beyond(key[y], key[m], 1 - d)
          BY <4>2, <2>4
        <5>2. \A x \in sub[b] : x \in S /\ Beyond(key[x], key[m], d)
          BY <2>4
        <5>3. Beyond(key[y], v, 1 - d)
          <6> HIDE DEF d
          <6> QED
            BY <5>1, <3>1, <3>2, <1>0 DEF Beyond
        <5>4. ASSUME NEW x \in sub[b] PROVE Beyond(key[y], key[x], 1 - d)
          <6>1. x \in S /\ Beyond(key[x], key[m], d) /\ key[x] \in Int /\ key[y] \in Int
            BY <5>2, <1>0
          <6> HIDE DEF d, b
          <6> QED
            BY <6>1, <5>1, <3>1, <3>2 DEF Beyond
        <5> HIDE DEF d, b
        <5> QED
          BY <5>3, <5>4, <3>1
      <4>3. y \in sub[m] => y = m \/ y \in sub[nd[m].child[1 - d]] \/ y \in sub[b]
        BY <2>4
      <4> QED
        BY <4>1, <4>2, <4>3
    <3>5. b \in I
      BY <3>3, <3>4
    <3> QED
      BY <3>1, <3>3, <3>5
  <2>6. e \in I \cap stop
    <3> HIDE DEF next, stop, I, rk
    <3> QED
      BY <2>1, <2>2, <2>3, <2>5, FollowStops
  <2>7. avl_find(v) = IF v = key[e] THEN [node |-> e, where |-> <<NULL, 0>>]
                      ELSE [node |-> NULL, where |-> <<e, side(e)>>]
    BY <1>2 DEF avl_find
  <2> HIDE DEF e
  <2>8. CASE v = key[e]
    BY <2>6, <2>7, <2>8, <1>0
  <2>9. CASE v # key[e]
    <3> DEFINE d == side(e)
    <3>1. e \in S /\ nd[e].child[d] = NULL /\ d \in Side /\ (d = 0 \/ d = 1)
      BY <2>6, <2>9, <1>0
    <3>2. Beyond(v, key[e], d) /\ key[e] \in Int
      BY <2>9, <3>1, <1>0 DEF Beyond
    <3>3. ASSUME NEW y \in S \ {e} PROVE key[y] # v /\ (key[y] < v <=> key[y] < key[e])
      <4>0. key[y] \in Int
        BY <1>0
      <4>1. CASE y \in sub[e]
        <5>1. Beyond(key[y], key[e], 1 - d)
          BY <4>1, <3>1, <2>4, <1>0
        <5> HIDE DEF d
        <5> QED
          BY <5>1, <4>0, <3>1, <3>2 DEF Beyond
      <4>2. CASE y \notin sub[e]
        <5>1. PICK c \in Side : Beyond(key[y], v, c) /\ Beyond(key[y], key[e], c)
          BY <4>2, <2>6, <2>4
        <5> QED
          BY <5>1, <4>0, <3>2 DEF Beyond
      <4> QED
        BY <4>1, <4>2
    <3>4. avl_find(v).node = NULL /\ avl_find(v).where = <<e, d>>
      BY <2>7, <2>9
    <3> HIDE DEF d
    <3>5. Place(e, d, nd, S, key, v)
      BY <3>1, <3>2, <3>3 DEF Place
    <3> QED
      BY <3>3, <3>4, <3>5, <2>9, <1>2
  <2> QED
    BY <2>8, <2>9
<1> QED
  BY <1>1, <1>2

----------------------------------------------------------------------------
(* What the helpers leave in the fields.                                   *)

\* The fields of a node that is in no tree.
LEMMA BlankFields ==
    /\ Blank \in [child : [Side -> Ptr], parent : Ptr, index : Side, balance : -1..1]
    /\ Blank.child[0] = NULL /\ Blank.child[1] = NULL
    /\ Blank.parent = NULL /\ Blank.index = 0 /\ Blank.balance = 0
<1> DEFINE f == [c \in Side |-> NULL]
<1>1. f \in [Side -> Ptr] /\ f[0] = NULL /\ f[1] = NULL /\ 0 \in Side /\ NULL \in Ptr
  BY DEF Ptr, Side
<1>2. Blank = [child |-> f, parent |-> NULL, index |-> 0, balance |-> 0]
  BY DEF Blank
<1> HIDE DEF f
<1> QED
  BY <1>1, <1>2

\* Putting n below p changes that child pointer of p and nothing else.
LEMMA PutFields ==
    ASSUME NEW h \in Heap, NEW p \in Node, NEW c \in Side, NEW n \in Ptr
    PROVE  LET g == Put(h, p, c, n)
           IN  /\ g \in Heap
               /\ g[p].child[c] = n /\ g[p].child[1 - c] = h[p].child[1 - c]
               /\ g[p].parent = h[p].parent /\ g[p].index = h[p].index
               /\ g[p].balance = h[p].balance
               /\ \A m \in Slot \ {p} : g[m] = h[m]
<1> DEFINE g == Put(h, p, c, n)
<1>0. p # NULL /\ p \in Slot
  BY NodesAssumption DEF Slot
<1>1. g = [h EXCEPT ![p].child[c] = n]
  BY <1>0 DEF Put
<1>2. h[p] \in [child : [Side -> Ptr], parent : Ptr, index : Side, balance : -1..1]
  BY <1>0 DEF Heap
<1>3. g \in Heap
  <2> DEFINE f == [h[p] EXCEPT !.child[c] = n]
  <2>1. f \in [child : [Side -> Ptr], parent : Ptr, index : Side, balance : -1..1]
    <3>1. [h[p].child EXCEPT ![c] = n] \in [Side -> Ptr]
      BY <1>2
    <3> QED
      BY <1>2, <3>1
  <2>2. g = [h EXCEPT ![p] = f]
    BY <1>0, <1>1 DEF Heap
  <2> HIDE DEF f
  <2> QED
    BY <2>1, <2>2 DEF Heap
<1>4. g[p] = [h[p] EXCEPT !.child[c] = n]
  BY <1>0, <1>1 DEF Heap
<1>5. g[p].child[c] = n /\ g[p].child[1 - c] = h[p].child[1 - c]
  BY <1>2, <1>4 DEF Side
<1>6. g[p].parent = h[p].parent /\ g[p].index = h[p].index /\ g[p].balance = h[p].balance
  BY <1>2, <1>4
<1>7. \A m \in Slot \ {p} : g[m] = h[m]
  BY <1>1 DEF Heap
<1> QED
  BY <1>3, <1>5, <1>6, <1>7

\* Relink changes parent and index of the node, if there is one, and nothing else.
LEMMA RelinkFields ==
    ASSUME NEW h \in Heap, NEW n \in Ptr, NEW p \in Ptr, NEW c \in Side
    PROVE  LET g == Relink(h, n, p, c)
           IN  /\ g \in Heap
               /\ n # NULL => /\ g[n].parent = p /\ g[n].index = c
                              /\ g[n].child = h[n].child /\ g[n].balance = h[n].balance
               /\ \A m \in Slot \ {n} : g[m] = h[m]
<1>1. CASE n = NULL
  BY <1>1 DEF Relink
<1>2. CASE n # NULL
  <2> DEFINE g == Relink(h, n, p, c)
  <2>0. n \in Slot
    BY <1>2 DEF Slot, Ptr
  <2>1. g = [h EXCEPT ![n].parent = p, ![n].index = c]
    BY <1>2 DEF Relink
  <2>2. h[n] \in [child : [Side -> Ptr], parent : Ptr, index : Side, balance : -1..1]
    BY <2>0 DEF Heap
  <2>3. g[n] = [h[n] EXCEPT !.parent = p, !.index = c]
    BY <2>0, <2>1 DEF Heap
  <2>4. \A m \in Slot \ {n} : g[m] = h[m]
    BY <2>1 DEF Heap
  <2>5. g \in Heap
    BY <2>0, <2>1, <2>2 DEF Heap
  <2> QED
    BY <2>2, <2>3, <2>4, <2>5
<1> QED
  BY <1>1, <1>2

----------------------------------------------------------------------------
(* The height of every subtree.                                            *)

\* The height that the balance of n takes its side c to have: while a loop comes up
\* from side c of n, this is off by d.
Told(ht, h, n, c, at, side, d) ==
    ht[h[n].child[c]] - (IF n = at /\ c = side THEN d ELSE 0)

\* A node of height t and balance b above subtrees of heights l and r.
Fits(t, b, l, r) == t = 1 + (IF l > r THEN l ELSE r) /\ b = r - l

\* The balances on S fit the heights ht, where that below at on this side counts d less.
Hts(ht, h, S, at, side, d) ==
    /\ ht \in [Ptr -> Nat] /\ ht[NULL] = 0
    /\ \A n \in S : Fits(ht[n], h[n].balance, Told(ht, h, n, 0, at, side, d),
                                              Told(ht, h, n, 1, at, side, d))

----------------------------------------------------------------------------
(* avl_insert up to its loop.                                              *)

\* The heap that Link leaves.
Linked1(h, n, p, c) == Put([h EXCEPT ![n] = [Blank EXCEPT !.parent = p, !.index = c]], p, c, n)

\* Link sets the fields of n and one child pointer of p.
LEMMA LinkFields ==
    ASSUME NEW h \in Heap, NEW n \in Node, NEW p \in Ptr, NEW c \in Side, p # n
    PROVE  LET g == Linked1(h, n, p, c)
           IN  /\ g \in Heap
               /\ g[n].child[0] = NULL /\ g[n].child[1] = NULL
               /\ g[n].parent = p /\ g[n].index = c /\ g[n].balance = 0
               /\ p # NULL => /\ g[p].child[c] = n /\ g[p].child[1 - c] = h[p].child[1 - c]
                              /\ g[p].parent = h[p].parent /\ g[p].index = h[p].index
                              /\ g[p].balance = h[p].balance
               /\ \A m \in Slot \ {n, p} : g[m] = h[m]
<1> DEFINE b == [Blank EXCEPT !.parent = p, !.index = c]
           f == [h EXCEPT ![n] = b]
<1>1. /\ b \in [child : [Side -> Ptr], parent : Ptr, index : Side, balance : -1..1]
      /\ b.child[0] = NULL /\ b.child[1] = NULL /\ b.parent = p /\ b.index = c /\ b.balance = 0
  <2>1. /\ Blank \in [child : [Side -> Ptr], parent : Ptr, index : Side, balance : -1..1]
        /\ Blank.child[0] = NULL /\ Blank.child[1] = NULL /\ Blank.balance = 0
    BY BlankFields
  <2> QED
    BY <2>1
<1> HIDE DEF b
<1>2. f \in Heap /\ f[n] = b /\ \A m \in Slot \ {n} : f[m] = h[m]
  BY <1>1 DEF Heap, Slot
<1>3. Linked1(h, n, p, c) = Put(f, p, c, n)
  BY DEF Linked1, b
<1> HIDE DEF f
<1>4. CASE p = NULL
  BY <1>1, <1>2, <1>3, <1>4 DEF Put
<1>5. CASE p # NULL
  <2>1. p \in Node /\ n \in Ptr /\ n \in Slot \ {p} /\ p \in Slot \ {n}
    BY <1>5 DEF Ptr, Slot
  <2> DEFINE g == Put(f, p, c, n)
  <2>2. /\ g \in Heap
        /\ g[p].child[c] = n /\ g[p].child[1 - c] = f[p].child[1 - c]
        /\ g[p].parent = f[p].parent /\ g[p].index = f[p].index
        /\ g[p].balance = f[p].balance
        /\ \A m \in Slot \ {p} : g[m] = f[m]
    BY <2>1, <1>2, PutFields
  <2> HIDE DEF g
  <2>3. g[n] = b /\ f[p] = h[p] /\ \A m \in Slot \ {n, p} : g[m] = h[m]
    BY <2>1, <2>2, <1>2
  <2>4. Linked1(h, n, p, c) = g
    BY <1>3 DEF g
  <2> QED
    BY <2>2, <2>3, <2>4, <1>1
<1> QED
  BY <1>4, <1>5

\* A tree with a new leaf is a tree.
LEMMA LinkTree ==
    ASSUME NEW sub, NEW h, NEW S, NEW root, NEW k, IsTree(sub, h, S, root, k),
           NEW n \in Node \ S, NEW p \in Ptr, NEW c \in Side,
           IF root = NULL THEN p = NULL ELSE Place(p, c, h, S, k, k[n])
    PROVE  /\ \E s \in [Ptr -> SUBSET Node] :
                 IsTree(s, Linked1(h, n, p, c), S \cup {n}, Root(p, n, root), k)
           /\ root = NULL => S = {}
           /\ root # NULL => p \in S
<1> DEFINE g == Linked1(h, n, p, c)
           T == S \cup {n}
           r == Root(p, n, root)
           s == [m \in Ptr |-> IF m = n THEN {n}
                               ELSE IF m \in S /\ p \in sub[m] THEN sub[m] \cup {n} ELSE sub[m]]
<1>0. /\ S \subseteq Node /\ NULL \notin S /\ n # NULL /\ n \notin S /\ sub[NULL] = {} /\ sub[root] = S
      /\ IsFiniteSet(T) /\ T \in SUBSET Node /\ h \in Heap /\ S \subseteq Slot /\ n \in Slot
      /\ n \in Ptr /\ S \subseteq Ptr /\ NULL \in Ptr /\ (c = 0 \/ c = 1)
      /\ \A m \in Node : k[m] \in Int
      /\ \A m \in S : sub[m] \subseteq S
  BY NodesAssumption, FS_AddElement DEF IsTree, Subs, Slot, Ptr, Side
<1>1. /\ root \in S \cup {NULL}
      /\ root = NULL => p = NULL /\ S = {}
      /\ root # NULL => p \in S /\ p # NULL /\ root \in S
      /\ p # n
  BY <1>0 DEF Place, IsTree, Links
<1>2. /\ g \in Heap
      /\ g[n].child[0] = NULL /\ g[n].child[1] = NULL
      /\ g[n].parent = p /\ g[n].index = c /\ g[n].balance = 0
      /\ p # NULL => /\ g[p].child[c] = n /\ g[p].child[1 - c] = h[p].child[1 - c]
                     /\ g[p].parent = h[p].parent /\ g[p].index = h[p].index
      /\ \A m \in Slot \ {n, p} : g[m] = h[m]
  BY <1>0, <1>1, LinkFields
<1> HIDE DEF g
<1>3. s \in [Ptr -> SUBSET Node] /\ s[NULL] = {} /\ s[n] = {n}
      /\ \A m \in S : s[m] = IF p \in sub[m] THEN sub[m] \cup {n} ELSE sub[m]
  BY <1>0 DEF IsTree, Subs
<1>4. CASE root = NULL
  <2>1. r = n /\ T = {n} /\ p = NULL
    BY <1>1, <1>4 DEF Root
  <2> HIDE DEF s, r, T
  <2>2. Links(g, T, r)
    BY <2>1, <1>2 DEF Links, Side
  <2>3. Subs(s, g, T, r, k)
    BY <2>1, <1>2, <1>3 DEF Subs, Side
  <2>4. IsTree(s, g, T, r, k)
    BY <2>2, <2>3, <1>0, <1>2 DEF IsTree
  <2> QED
    BY <2>4, <1>1, <1>3, <1>4 DEF g, r, T
<1>5. CASE root # NULL
  <2>1. /\ r = root /\ p \in S /\ p # NULL /\ root \in S /\ 1 - c \in Side
        /\ h[p].child[c] = NULL /\ Beyond(k[n], k[p], c)
        /\ \A y \in S \ {p} : k[y] # k[n] /\ (k[y] < k[n] <=> k[y] < k[p])
    BY <1>1, <1>5 DEF Root, Place, Side
  <2>2. ASSUME NEW m \in S, NEW d \in Side
        PROVE  /\ m = p /\ d = c => g[m].child[d] = n
               /\ ~ (m = p /\ d = c) => g[m].child[d] = h[m].child[d]
               /\ g[m].parent = h[m].parent /\ g[m].index = h[m].index
    BY <1>0, <1>2, <2>1 DEF Side
  <2> HIDE DEF s
  <2>3. Links(g, T, r)
    <3>0. Links(h, S, root)
      BY DEF IsTree
    <3>1. ASSUME NEW m \in T, NEW d \in Side, g[m].child[d] # NULL
          PROVE  LET x == g[m].child[d] IN x \in T /\ g[x].parent = m /\ g[x].index = d
      <4>1. CASE m = n
        BY <4>1, <3>1, <1>2 DEF Side
      <4>2. CASE m = p /\ d = c
        BY <4>2, <2>2, <2>1, <1>2
      <4>3. CASE m \in S /\ ~ (m = p /\ d = c)
        <5>1. g[m].child[d] = h[m].child[d]
          BY <4>3, <2>2
        <5>2. h[m].child[d] \in S /\ h[h[m].child[d]].parent = m /\ h[h[m].child[d]].index = d
          BY <5>1, <3>0, <3>1, <4>3 DEF Links
        <5> QED
          BY <5>1, <5>2, <2>2
      <4> QED
        BY <4>1, <4>2, <4>3
    <3>2. ASSUME NEW m \in T
          PROVE  IF m = r THEN g[m].parent = NULL
                 ELSE g[m].parent \in T /\ g[g[m].parent].child[g[m].index] = m
      <4>1. CASE m = n
        BY <4>1, <2>1, <1>0, <1>2
      <4>2. CASE m \in S
        <5>1. IF m = root THEN h[m].parent = NULL
              ELSE h[m].parent \in S /\ h[h[m].parent].child[h[m].index] = m
          BY <4>2, <3>0 DEF Links
        <5>2. h[m].index \in Side /\ m # NULL
          BY <4>2, <1>0 DEF Heap
        <5> QED
          BY <5>1, <5>2, <4>2, <2>1, <2>2
      <4> QED
        BY <4>1, <4>2
    <3> QED
      BY <3>1, <3>2, <2>1 DEF Links
  <2>4. p \notin sub[h[p].child[1 - c]] /\ p \in sub[p]
    BY <2>1, SubFacts
  <2>5. ASSUME NEW m \in T
        PROVE  s[m] = {m} \cup s[g[m].child[0]] \cup s[g[m].child[1]] /\ s[m] \subseteq T
    <3>1. CASE m = n
      BY <3>1, <1>2, <1>3
    <3>2. CASE m = p
      <4>1. sub[p] = {p} \cup sub[h[p].child[1 - c]] /\ h[p].child[1 - c] \in S \cup {NULL}
        BY <2>1, <1>0, SubFacts
      <4>2. s[h[p].child[1 - c]] = sub[h[p].child[1 - c]]
        BY <4>1, <2>4, <1>0, <1>3
      <4>3. /\ s[p] = sub[p] \cup {n} /\ s[g[p].child[c]] = {n}
            /\ s[g[p].child[1 - c]] = sub[h[p].child[1 - c]]
        BY <4>2, <1>2, <1>3, <2>1, <2>4
      <4>4. s[p] = {p} \cup s[g[p].child[c]] \cup s[g[p].child[1 - c]]
        BY <4>1, <4>3
      <4>5. s[p] = {p} \cup s[g[p].child[0]] \cup s[g[p].child[1]]
        BY <4>4, <1>0
      <4>6. s[p] \subseteq T
        BY <4>3, <1>0, <2>1
      <4> QED
        BY <4>5, <4>6, <3>2
    <3>3. CASE m \in S /\ m # p
      <4>1. /\ g[m].child[0] = h[m].child[0] /\ g[m].child[1] = h[m].child[1]
            /\ h[m].child[0] \in S \cup {NULL} /\ h[m].child[1] \in S \cup {NULL}
            /\ sub[m] = {m} \cup sub[h[m].child[0]] \cup sub[h[m].child[1]]
        <5>1. 0 \in Side /\ 1 \in Side /\ sub[m] = {m} \cup sub[h[m].child[0]] \cup sub[h[m].child[1]]
          BY <3>3 DEF Side, IsTree, Subs
        <5> QED
          BY <5>1, <3>3, <2>2, SubFacts
      <4>2. \A x \in S \cup {NULL} : s[x] = IF p \in sub[x] THEN sub[x] \cup {n} ELSE sub[x]
        BY <1>0, <1>3
      <4>3. s[m] \subseteq T
        BY <3>3, <4>2, <1>0
      <4>4. ASSUME NEW x PROVE x \in s[m] <=> x = m \/ x \in s[h[m].child[0]] \/ x \in s[h[m].child[1]]
        BY <3>3, <4>1, <4>2
      <4> QED
        BY <4>1, <4>3, <4>4
    <3> QED
      BY <3>1, <3>2, <3>3
  <2>6. ASSUME NEW m \in T, NEW d \in Side, NEW y \in s[g[m].child[d]]
        PROVE  Beyond(k[y], k[m], d)
    <3>1. CASE m = n
      BY <3>1, <2>6, <1>2, <1>3 DEF Side
    <3>2. CASE m = p /\ d = c
      BY <3>2, <2>6, <1>2, <1>3, <2>1
    <3>3. CASE m \in S /\ ~ (m = p /\ d = c)
      <4> DEFINE b == h[m].child[d]
      <4>1. g[m].child[d] = b /\ b \in S \cup {NULL} /\ p \in S
        BY <3>3, <2>2, <2>1, SubFacts
      <4>2. b \in S /\ (y \in sub[b] \/ (y = n /\ p \in sub[b]))
        BY <4>1, <2>6, <1>3
      <4>3. \A x \in sub[b] : Beyond(k[x], k[m], d)
        BY <3>3 DEF IsTree, Subs
      <4>4. p \in sub[b] => m # p
        BY <3>3, SubFacts
      <4>5. k[m] \in Int /\ k[p] \in Int /\ k[n] \in Int /\ m \in S
        BY <1>0, <2>1, <3>3
      <4>6. m # p => k[m] # k[n] /\ (k[m] < k[n] <=> k[m] < k[p])
        BY <4>5, <2>1
      <4> HIDE DEF b
      <4>7. Beyond(k[p], k[m], d) /\ m # p => Beyond(k[n], k[m], d)
        BY <4>5, <4>6 DEF Beyond
      <4> QED
        BY <4>2, <4>3, <4>4, <4>7
    <3> QED
      BY <3>1, <3>2, <3>3
  <2>7. ASSUME NEW x \in T, NEW y \in T, k[x] = k[y] PROVE x = y
    <3>1. k[p] # k[n]
      BY <2>1, <1>0 DEF Beyond
    <3>2. x \in S /\ y \in S => x = y
      BY <2>7 DEF IsTree, Subs
    <3> QED
      BY <3>1, <3>2, <2>1, <2>7
  <2>8. s[r] = T
    BY <2>1, <1>0, <1>3
  <2> HIDE DEF s, r, T
  <2>9. Subs(s, g, T, r, k)
    BY <2>5, <2>6, <2>7, <2>8, <1>3 DEF Subs
  <2>10. IsTree(s, g, T, r, k)
    BY <2>3, <2>9, <1>0, <1>2 DEF IsTree
  <2> QED
    BY <2>10, <2>1, <1>3, <1>5 DEF g, r, T
<1> QED
  BY <1>4, <1>5

\* Its heights: the loop starts at p, whose side c has grown.
LEMMA LinkHeights ==
    ASSUME NEW sub, NEW h, NEW S, NEW root, NEW k, IsTree(sub, h, S, root, k),
           NEW n \in Node \ S, NEW p \in Ptr, NEW c \in Side,
           IF root = NULL THEN p = NULL ELSE Place(p, c, h, S, k, k[n]),
           NEW ht, NEW side, NEW d, Hts(ht, h, S, NULL, side, d)
    PROVE  \E t \in [Ptr -> Nat] :
              Hts(t, Linked1(h, n, p, c), S \cup {n}, p, c, 1) /\ t[n] = 1
<1> DEFINE g == Linked1(h, n, p, c)
           t == [ht EXCEPT ![n] = 1]
<1>0. /\ NULL \notin S /\ n # NULL /\ n \notin S /\ h \in Heap /\ S \subseteq Slot /\ n \in Slot
      /\ n \in Ptr /\ S \subseteq Ptr /\ NULL \in Ptr /\ (c = 0 \/ c = 1)
      /\ ht \in [Ptr -> Nat] /\ ht[NULL] = 0
      /\ sub[root] = S /\ sub[NULL] = {}
  BY NodesAssumption DEF IsTree, Slot, Ptr, Side, Hts, Subs
<1>1. /\ p # NULL => p \in S /\ h[p].child[c] = NULL
      /\ p # n
  BY <1>0 DEF Place
<1>2. /\ g \in Heap
      /\ g[n].child[0] = NULL /\ g[n].child[1] = NULL /\ g[n].balance = 0
      /\ p # NULL => /\ g[p].child[c] = n /\ g[p].child[1 - c] = h[p].child[1 - c]
                     /\ g[p].balance = h[p].balance
      /\ \A m \in Slot \ {n, p} : g[m] = h[m]
  BY <1>0, <1>1, LinkFields
<1> HIDE DEF g
<1>3. t \in [Ptr -> Nat] /\ t[NULL] = 0 /\ t[n] = 1 /\ \A m \in S \cup {NULL} : t[m] = ht[m]
  BY <1>0
<1> HIDE DEF t
<1>4. ASSUME NEW m \in S \cup {n}
      PROVE  Fits(t[m], g[m].balance, Told(t, g, m, 0, p, c, 1), Told(t, g, m, 1, p, c, 1))
  <2>1. CASE m = n
    BY <2>1, <1>0, <1>1, <1>2, <1>3 DEF Fits, Told
  <2>2. CASE m \in S
    <3>1. /\ h[m].child[0] \in S \cup {NULL} /\ h[m].child[1] \in S \cup {NULL}
      BY <2>2, SubFacts DEF Side
    <3>2. Fits(ht[m], h[m].balance, ht[h[m].child[0]], ht[h[m].child[1]])
      <4>1. m # NULL /\ Fits(ht[m], h[m].balance, Told(ht, h, m, 0, NULL, side, d), Told(ht, h, m, 1, NULL, side, d))
        BY <2>2, <1>0 DEF Hts
      <4>2. /\ Told(ht, h, m, 0, NULL, side, d) = ht[h[m].child[0]]
            /\ Told(ht, h, m, 1, NULL, side, d) = ht[h[m].child[1]]
        BY <4>1, <3>1, <1>0 DEF Told
      <4> QED
        BY <4>1, <4>2
    <3>3. ASSUME NEW e \in Side PROVE Told(t, g, m, e, p, c, 1) = ht[h[m].child[e]] /\ g[m].balance = h[m].balance
      <4>1. CASE m = p /\ e = c
        BY <4>1, <1>0, <1>1, <1>2, <1>3, <2>2 DEF Told
      <4>2. CASE ~ (m = p /\ e = c)
        <5>1. g[m].child[e] = h[m].child[e] /\ g[m].balance = h[m].balance
          BY <4>2, <1>0, <1>2, <2>2 DEF Side
        <5>2. h[m].child[e] \in S \cup {NULL} /\ ht[h[m].child[e]] \in Nat
          BY <2>2, <1>0, SubFacts
        <5> QED
          BY <5>1, <5>2, <4>2, <1>3 DEF Told
      <4> QED
        BY <4>1, <4>2
    <3> QED
      BY <2>2, <3>2, <3>3, <1>3 DEF Side
  <2> QED
    BY <2>1, <2>2
<1>5. Hts(t, g, S \cup {n}, p, c, 1)
  BY <1>3, <1>4 DEF Hts
<1> QED
  BY <1>3, <1>5 DEF g

----------------------------------------------------------------------------
(* A change that is confined to a few nodes.                               *)

\* g is h with the nodes M, which hang below n, linked anew and z at their top.
Rewired(g, h, S, n, M, z) ==
    LET p == h[n].parent
        i == h[n].index
    IN  /\ g \in Heap /\ n \in M /\ z \in M /\ M \in SUBSET S
        /\ g[z].parent = p /\ g[z].index = i /\ p \notin M
        /\ p # NULL => /\ g[p].child[i] = z /\ g[p].child[1 - i] = h[p].child[1 - i]
                       /\ g[p].parent = h[p].parent /\ g[p].index = h[p].index
                       /\ g[p].balance = h[p].balance
        /\ \A m \in M \ {n} : h[m].parent \in M
        /\ \A m \in M \ {z} : g[m].parent \in M /\ g[g[m].parent].child[g[m].index] = m
        /\ \A m \in M, c \in Side :
              g[m].child[c] # NULL => /\ g[m].child[c] \in S
                                      /\ g[g[m].child[c]].parent = m
                                      /\ g[g[m].child[c]].index = c
        /\ \A m \in S \ (M \cup {p}) : g[m].child = h[m].child /\ g[m].balance = h[m].balance
        /\ \A m \in S \ M :
              IF h[m].parent \in M
              THEN g[m].parent \in M /\ g[g[m].parent].child[g[m].index] = m
              ELSE g[m].parent = h[m].parent /\ g[m].index = h[m].index

\* Outside M children are what they were, but for the top of M.
LEMMA RewiredOutside ==
    ASSUME NEW sub, NEW h, NEW S, NEW root, NEW k, IsTree(sub, h, S, root, k),
           NEW g, NEW n, NEW M, NEW z, Rewired(g, h, S, n, M, z),
           NEW m \in S \ M, NEW c \in Side
    PROVE  /\ m = h[n].parent /\ c = h[n].index =>
                 g[m].child[c] = z /\ h[m].child[c] = n
           /\ ~ (m = h[n].parent /\ c = h[n].index) =>
                 g[m].child[c] = h[m].child[c] /\ h[m].child[c] \in (S \ M) \cup {NULL}
           /\ g[m].balance = h[m].balance
<1> DEFINE p == h[n].parent
           i == h[n].index
<1>0. /\ NULL \notin S /\ n \in S /\ M \subseteq S /\ z \in M /\ p \notin M /\ m # NULL
      /\ p \in Ptr /\ i \in Side
  BY NodesAssumption DEF Rewired, IsTree, Heap, Slot
<1>1. CASE m = p /\ c = i
  <2>1. p # NULL /\ g[p].child[i] = z /\ g[p].balance = h[p].balance
    BY <1>0, <1>1 DEF Rewired
  <2>2. n # root /\ h[p].child[i] = n
    BY <1>0, <2>1 DEF IsTree, Links
  <2> QED
    BY <1>1, <2>1, <2>2
<1>2. CASE ~ (m = p /\ c = i)
  <2>1. g[m].child[c] = h[m].child[c] /\ g[m].balance = h[m].balance
    <3>1. CASE m = p
      <4>1. c = 1 - i /\ p # NULL
        BY <3>1, <1>0, <1>2 DEF Side
      <4> QED
        BY <3>1, <4>1 DEF Rewired
    <3>2. CASE m # p
      BY <3>2, <1>0 DEF Rewired
    <3> QED
      BY <3>1, <3>2
  <2>2. ASSUME h[m].child[c] # NULL PROVE h[m].child[c] \in S \ M
    <3> DEFINE x == h[m].child[c]
    <3>1. x \in S /\ h[x].parent = m /\ h[x].index = c
      BY <2>2, <1>0 DEF IsTree, Links
    <3>2. x # n
      BY <3>1, <1>2
    <3>3. x \in M => h[x].parent \in M
      BY <3>2 DEF Rewired
    <3> QED
      BY <3>1, <3>3
  <2> QED
    BY <1>2, <2>1, <2>2
<1> QED
  BY <1>1, <1>2

\* A tree rewired inside M is a tree when the new subtrees of M are in order.
LEMMA RewireTree ==
    ASSUME NEW sub, NEW h, NEW S, NEW root, NEW k, IsTree(sub, h, S, root, k),
           NEW g, NEW n, NEW M, NEW z, Rewired(g, h, S, n, M, z),
           NEW s \in [Ptr -> SUBSET Node],
           \A m \in (S \ M) \cup {NULL} : s[m] = sub[m],
           s[z] = sub[n],
           \A m \in M : s[m] \subseteq S /\ s[m] = {m} \cup s[g[m].child[0]] \cup s[g[m].child[1]],
           \A m \in M, c \in Side : \A y \in s[g[m].child[c]] : Beyond(k[y], k[m], c)
    PROVE  IsTree(s, g, S, Root(h[n].parent, z, root), k)
<1> DEFINE p == h[n].parent
           i == h[n].index
           r == Root(p, z, root)
<1>0. /\ NULL \notin S /\ n \in S /\ n \in M /\ M \subseteq S /\ z \in M /\ p \notin M
      /\ p \in Ptr /\ i \in Side /\ S \subseteq Slot /\ S \subseteq Ptr /\ g[z].parent = p
      /\ Links(h, S, root) /\ Subs(sub, h, S, root, k) /\ g \in Heap /\ h \in Heap /\ g[z].index = i
  BY NodesAssumption DEF Rewired, IsTree, Heap, Slot, Ptr
<1>1. /\ p = NULL => r = z /\ n = root
      /\ p # NULL => r = root /\ p \in S /\ n # root /\ root \in S \ M
  <2>1. IF n = root THEN p = NULL ELSE p \in S
    BY <1>0 DEF Links
  <2>2. ASSUME root \in M \ {n} PROVE FALSE
    <3>1. h[root].parent = NULL /\ h[root].parent \in M
      BY <2>2, <1>0 DEF Links, Rewired
    <3> QED
      BY <3>1, <1>0
  <2>3. root \in S
    <3>1. root \in S \cup {NULL} /\ sub[NULL] = {} /\ sub[root] = S
      BY <1>0 DEF Links, Subs
    <3> QED
      BY <3>1, <1>0
  <2> QED
    BY <2>1, <2>2, <2>3, <1>0 DEF Root
<1> HIDE DEF r
<1>2. Links(g, S, r)
  <2>1. ASSUME NEW m \in S, NEW c \in Side, g[m].child[c] # NULL
        PROVE  LET x == g[m].child[c] IN x \in S /\ g[x].parent = m /\ g[x].index = c
    <3>1. CASE m \in M
      BY <2>1, <3>1 DEF Rewired
    <3>2. CASE m \notin M /\ m = p /\ c = i
      <4>1. g[m].child[c] = z
        BY <3>2, RewiredOutside
      <4> QED
        BY <4>1, <3>2, <1>0
    <3>3. CASE m \notin M /\ ~ (m = p /\ c = i)
      <4> DEFINE x == h[m].child[c]
      <4>1. g[m].child[c] = x /\ x \in S \ M
        BY <2>1, <3>3, RewiredOutside
      <4>2. h[x].parent = m /\ h[x].index = c
        BY <4>1, <1>0 DEF Links
      <4>3. g[x].parent = m /\ g[x].index = c
        BY <4>1, <4>2, <3>3 DEF Rewired
      <4> QED
        BY <4>1, <4>3
    <3> QED
      BY <3>1, <3>2, <3>3
  <2>2. ASSUME NEW m \in S
        PROVE  IF m = r THEN g[m].parent = NULL
               ELSE g[m].parent \in S /\ g[g[m].parent].child[g[m].index] = m
    <3>1. CASE m = z
      <4>1. p # NULL => g[p].child[i] = z
        BY DEF Rewired
      <4> QED
        BY <4>1, <3>1, <1>0, <1>1
    <3>2. CASE m \in M \ {z}
      <4>1. g[m].parent \in M /\ g[g[m].parent].child[g[m].index] = m
        BY <3>2 DEF Rewired
      <4>2. m # r
        BY <3>2, <1>1, <1>0
      <4> QED
        BY <4>1, <4>2, <1>0
    <3>3. CASE m \in S \ M /\ h[m].parent \in M
      <4>1. g[m].parent \in M /\ g[g[m].parent].child[g[m].index] = m
        BY <3>3 DEF Rewired
      <4>2. m # r
        <5>1. m # root
          BY <3>3, <1>0 DEF Links
        <5> QED
          BY <5>1, <3>3, <1>0, <1>1
      <4> QED
        BY <4>1, <4>2, <1>0
    <3>4. CASE m \in S \ M /\ h[m].parent \notin M
      <4> DEFINE q == h[m].parent
      <4>1. g[m].parent = q /\ g[m].index = h[m].index
        BY <3>4 DEF Rewired
      <4>2. IF m = root THEN q = NULL ELSE q \in S /\ h[q].child[h[m].index] = m
        BY <1>0 DEF Links
      <4>3. h[m].index \in Side /\ m # n /\ m # NULL /\ m # z
        BY <3>4, <1>0 DEF Heap
      <4>4. ASSUME m # root PROVE g[q].child[h[m].index] = m
        <5>1. q \in S \ M /\ h[q].child[h[m].index] = m
          BY <4>2, <4>4, <3>4
        <5> QED
          BY <5>1, <4>3, RewiredOutside
      <4>5. m = r <=> m = root
        BY <1>1, <4>3, <1>0
      <4> QED
        BY <4>1, <4>2, <4>4, <4>5
    <3> QED
      BY <3>1, <3>2, <3>3, <3>4
  <2>3. r \in S \cup {NULL}
    BY <1>0, <1>1
  <2> QED
    BY <2>1, <2>2, <2>3 DEF Links
<1>3. ASSUME NEW m \in S \ M, NEW c \in Side
      PROVE  s[g[m].child[c]] = sub[h[m].child[c]]
  BY RewiredOutside
<1>4. Subs(s, g, S, r, k)
  <2>1. s \in [Ptr -> SUBSET Node] /\ s[NULL] = {} /\ s[r] = S
    BY <1>0, <1>1 DEF Subs
  <2>2. ASSUME NEW m \in S
        PROVE  s[m] \subseteq S /\ s[m] = {m} \cup s[g[m].child[0]] \cup s[g[m].child[1]]
    <3>1. CASE m \in S \ M
      <4>1. s[m] = sub[m] /\ sub[m] \subseteq S /\ sub[m] = {m} \cup sub[h[m].child[0]] \cup sub[h[m].child[1]]
        BY <3>1, <1>0 DEF Subs
      <4> QED
        BY <3>1, <4>1, <1>3 DEF Side
    <3> QED
      BY <3>1
  <2>3. ASSUME NEW m \in S, NEW c \in Side, NEW y \in s[g[m].child[c]]
        PROVE  Beyond(k[y], k[m], c)
    <3>1. CASE m \in S \ M
      BY <3>1, <2>3, <1>0, <1>3 DEF Subs
    <3> QED
      BY <3>1, <2>3
  <2>4. \A x, y \in S : k[x] = k[y] => x = y
    BY <1>0 DEF Subs
  <2> QED
    BY <2>1, <2>2, <2>3, <2>4 DEF Subs
<1>5. h \in Heap /\ S \in SUBSET Node /\ IsFiniteSet(S) /\ k \in [Node -> Int]
  BY DEF IsTree
<1> QED
  BY <1>0, <1>2, <1>4, <1>5 DEF IsTree, r

\* The heights: outside M they stay, and the parent of the top is told the height
\* it was told before when the top is d2 lower than n was.
LEMMA RewireHeights ==
    ASSUME NEW sub, NEW h, NEW S, NEW root, NEW k, IsTree(sub, h, S, root, k),
           NEW g, NEW n, NEW M, NEW z, Rewired(g, h, S, n, M, z),
           NEW ht, NEW side, NEW d, Hts(ht, h, S, n, side, d),
           NEW t \in [Ptr -> Nat], NEW d2 \in Int,
           \A m \in (S \ M) \cup {NULL} : t[m] = ht[m],
           t[z] - d2 = ht[n],
           \A m \in M : Fits(t[m], g[m].balance, t[g[m].child[0]], t[g[m].child[1]])
    PROVE  Hts(t, g, S, h[n].parent, h[n].index, d2)
<1> DEFINE p == h[n].parent
           i == h[n].index
<1>0. /\ n \in M /\ M \subseteq S /\ p \notin M /\ NULL \notin S /\ S \subseteq Ptr /\ S \subseteq Slot
      /\ ht \in [Ptr -> Nat] /\ ht[NULL] = 0 /\ NULL \in Ptr /\ z \in M /\ g \in Heap /\ h \in Heap
      /\ i \in Side
  BY NodesAssumption DEF Rewired, IsTree, Ptr, Slot, Hts, Heap
<1>1. ASSUME NEW m \in M, NEW c \in Side
      PROVE  Told(t, g, m, c, p, i, d2) = t[g[m].child[c]]
  <2>1. g[m].child[c] \in Ptr
    BY <1>0 DEF Heap
  <2>2. t[g[m].child[c]] \in Nat
    BY <2>1
  <2> QED
    BY <2>2, <1>0 DEF Told
<1>2. ASSUME NEW m \in S \ M, NEW c \in Side
      PROVE  Told(t, g, m, c, p, i, d2) = Told(ht, h, m, c, n, side, d)
  <2>0. m # n
    BY <1>0
  <2>1. CASE m = p /\ c = i
    <3>1. g[m].child[c] = z /\ h[m].child[c] = n
      BY <2>1, RewiredOutside
    <3>2. Told(t, g, m, c, p, i, d2) = ht[n] /\ ht[n] \in Nat
      BY <3>1, <2>1, <1>0 DEF Told
    <3>3. Told(ht, h, m, c, n, side, d) = ht[n]
      BY <3>1, <3>2, <2>0 DEF Told
    <3> QED
      BY <3>2, <3>3
  <2>2. CASE ~ (m = p /\ c = i)
    <3>1. g[m].child[c] = h[m].child[c] /\ h[m].child[c] \in (S \ M) \cup {NULL}
      BY <2>2, RewiredOutside
    <3>2. t[g[m].child[c]] = ht[h[m].child[c]]
      BY <3>1
    <3> QED
      BY <3>2, <2>0, <2>2 DEF Told
  <2> QED
    BY <2>1, <2>2
<1>3. ASSUME NEW m \in S
      PROVE  Fits(t[m], g[m].balance, Told(t, g, m, 0, p, i, d2), Told(t, g, m, 1, p, i, d2))
  <2>1. CASE m \in M
    BY <2>1, <1>1 DEF Side
  <2>2. CASE m \in S \ M
    <3>1. g[m].balance = h[m].balance
      BY <2>2, <1>0, RewiredOutside
    <3>2. Fits(ht[m], h[m].balance, Told(ht, h, m, 0, n, side, d), Told(ht, h, m, 1, n, side, d))
      BY DEF Hts
    <3> QED
      BY <2>2, <3>1, <3>2, <1>2 DEF Side
  <2> QED
    BY <2>1, <2>2
<1> QED
  BY <1>0, <1>3 DEF Hts

\* When nothing is off, no loop is under way.
LEMMA HeightsRest ==
    ASSUME NEW ht, NEW h \in Heap, NEW S \in SUBSET Node, NEW at, NEW side, Hts(ht, h, S, at, side, 0),
           NEW side2, NEW d2
    PROVE  Hts(ht, h, S, NULL, side2, d2)
<1>0. ht \in [Ptr -> Nat] /\ ht[NULL] = 0 /\ NULL \notin S
  BY NodesAssumption DEF Hts
<1>1. ASSUME NEW m \in S, NEW c \in Side
      PROVE  Told(ht, h, m, c, at, side, 0) = Told(ht, h, m, c, NULL, side2, d2)
  <2>1. h[m].child[c] \in Ptr
    BY DEF Heap, Slot
  <2>2. ht[h[m].child[c]] \in Nat /\ m # NULL
    BY <2>1, <1>0
  <2> QED
    BY <2>2 DEF Told
<1> QED
  BY <1>0, <1>1 DEF Hts, Side

----------------------------------------------------------------------------
(* avl_rotation, the single one.                                           *)

\* The nodes around a rotation at n are distinct.
AreAround(sub, h, S, n, left) ==
    LET x  == h[n].child[left]
        cr == h[x].child[1 - left]
        cl == h[x].child[left]
        o  == h[n].child[1 - left]
        p  == h[n].parent
    IN  /\ x \in S /\ x # n /\ x \in sub[n] /\ h[x].parent = n /\ h[x].index = left
        /\ cr \in S \cup {NULL} /\ cl \in S \cup {NULL} /\ o \in S \cup {NULL}
        /\ n \notin {cr, cl, o} /\ x \notin {cr, cl, o} /\ p \notin {n, x}
        /\ p \in S \cup {NULL} /\ (p # NULL => p \notin sub[n])
        /\ cr # NULL => cr \in sub[n] /\ cr # cl /\ cr # o /\ h[cr].parent = x /\ h[cr].index = 1 - left
        /\ cl # NULL => cl \in sub[n] /\ h[cl].parent = x /\ h[cl].index = left
        /\ o # NULL  => o \in sub[n] /\ h[o].parent = n /\ h[o].index = 1 - left
        /\ sub[n] = {n} \cup sub[x] \cup sub[o] /\ sub[x] = {x} \cup sub[cr] \cup sub[cl]

\* In every tree they are as AreAround says.
LEMMA Around ==
    ASSUME NEW sub, NEW h, NEW S, NEW root, NEW k, IsTree(sub, h, S, root, k),
           NEW n \in S, NEW left \in Side, h[n].child[left] # NULL
    PROVE  AreAround(sub, h, S, n, left)
<1> DEFINE x  == h[n].child[left]
           cr == h[x].child[1 - left]
           cl == h[x].child[left]
           o  == h[n].child[1 - left]
           p  == h[n].parent
<1>0. /\ NULL \notin S /\ 1 - left \in Side /\ left # 1 - left /\ Links(h, S, root) /\ sub[NULL] = {}
      /\ h \in Heap /\ S \subseteq Slot /\ 1 - (1 - left) = left
  BY NodesAssumption DEF IsTree, Side, Subs, Slot
<1>1. /\ x \in S /\ h[x].parent = n /\ h[x].index = left /\ x \in sub[x]
      /\ sub[n] = {n} \cup sub[x] \cup sub[o] /\ n \notin sub[x]
  <2>1. x \in S /\ h[x].parent = n /\ h[x].index = left
    BY <1>0 DEF Links
  <2> QED
    BY <2>1, SubFacts
<1>2. /\ cr \in S \cup {NULL} /\ cl \in S \cup {NULL} /\ o \in S \cup {NULL}
      /\ sub[x] = {x} \cup sub[cr] \cup sub[cl] /\ sub[n] = {n} \cup sub[x] \cup sub[o]
      /\ x \notin sub[cr] /\ x \notin sub[cl] /\ n \notin sub[o]
  <2>1. /\ cr \in S \cup {NULL} /\ cl \in S \cup {NULL}
        /\ sub[x] = {x} \cup sub[cr] \cup sub[cl]
        /\ x \notin sub[cr] /\ x \notin sub[cl]
    <3> HIDE DEF x
    <3> QED
      BY <1>0, <1>1, SubFacts
  <2>2. o \in S \cup {NULL} /\ n \notin sub[o]
    BY <1>0, SubFacts
  <2> QED
    BY <2>1, <2>2, <1>1
<1>3. /\ cr # NULL => h[cr].parent = x /\ h[cr].index = 1 - left /\ cr \in sub[cr]
      /\ cl # NULL => h[cl].parent = x /\ h[cl].index = left /\ cl \in sub[cl]
      /\ o # NULL  => h[o].parent = n /\ h[o].index = 1 - left /\ o \in sub[o]
  <2> HIDE DEF x
  <2>1. /\ cr # NULL => h[cr].parent = x /\ h[cr].index = 1 - left
        /\ cl # NULL => h[cl].parent = x /\ h[cl].index = left
        /\ o # NULL  => h[o].parent = n /\ h[o].index = 1 - left
    BY <1>0, <1>1 DEF Links
  <2> QED
    BY <2>1, <1>2, SubFacts
<1>4. p \in S \cup {NULL} /\ (p # NULL => p \notin sub[n])
  <2>1. IF n = root THEN p = NULL ELSE p \in S /\ h[n].index \in Side /\ h[p].child[h[n].index] = n
    BY <1>0 DEF Links, Heap
  <2> QED
    BY <2>1, SubFacts
<1> HIDE DEF x, cr, cl, o, p
<1>5. n \in S /\ x # n /\ x \in sub[n] /\ n \in sub[n] /\ x # NULL /\ n # NULL
  BY <1>0, <1>1
<1> QED
  BY <1>0, <1>1, <1>2, <1>3, <1>4, <1>5 DEF AreAround, x, cr, cl, o, p

\* The heap after a single rotation, with its top put below the parent of n.
Rotated1(h, n, left) ==
    Put(RotateOnce(h, n, left), h[n].parent, h[n].index, h[n].child[left])

\* The fields of the nodes a single rotation touches.
OnceFields(h, n, left) ==
    LET x   == h[n].child[left]
        cr  == h[x].child[1 - left]
        p   == h[n].parent
        i   == h[n].index
        bal == h[x].balance + ((1 - left) - left)
        g   == Rotated1(h, n, left)
    IN  /\ g \in Heap
        /\ g[n].child[left] = cr /\ g[n].child[1 - left] = h[n].child[1 - left]
        /\ g[n].parent = x /\ g[n].index = 1 - left /\ g[n].balance = -bal
        /\ g[x].child[left] = h[x].child[left] /\ g[x].child[1 - left] = n
        /\ g[x].parent = p /\ g[x].index = i /\ g[x].balance = bal
        /\ RotateOnce(h, n, left)[x].balance = bal
        /\ cr # NULL => /\ g[cr].parent = n /\ g[cr].index = left
                        /\ g[cr].child = h[cr].child /\ g[cr].balance = h[cr].balance
        /\ p # NULL => /\ g[p].child[i] = x /\ g[p].child[1 - i] = h[p].child[1 - i]
                       /\ g[p].parent = h[p].parent /\ g[p].index = h[p].index
                       /\ g[p].balance = h[p].balance
        /\ \A m \in Slot \ {n, x, cr, p} : g[m] = h[m]

\* A single rotation leaves these fields.
LEMMA RotateOnceFields ==
    ASSUME NEW h \in Heap, NEW n \in Node, NEW left \in Side, h[n].child[left] \in Node \ {n},
           h[h[n].child[left]].balance # (1 - left) - left,
           h[h[n].child[left]].child[1 - left] \notin {n, h[n].child[left]},
           h[n].parent \notin {n, h[n].child[left]},
           h[n].parent # NULL => h[n].parent # h[h[n].child[left]].child[1 - left]
    PROVE  OnceFields(h, n, left)
<1> DEFINE R   == [child : [Side -> Ptr], parent : Ptr, index : Side, balance : -1..1]
           x   == h[n].child[left]
           cr  == h[x].child[1 - left]
           p   == h[n].parent
           i   == h[n].index
           bal == h[x].balance + ((1 - left) - left)
           f   == Relink(h, cr, n, left)
           rn  == [child |-> [f[n].child EXCEPT ![left] = cr], parent |-> x, index |-> 1 - left, balance |-> -bal]
           rx  == [child |-> [f[x].child EXCEPT ![1 - left] = n], parent |-> p, index |-> i, balance |-> bal]
           e   == [f EXCEPT ![n] = rn, ![x] = rx]
<1>1. /\ h[n] \in R /\ h[x] \in R /\ n \in Slot /\ x \in Slot /\ x \in Node /\ x # n
      /\ 1 - left \in Side /\ (left = 0 \/ left = 1) /\ n \in Ptr /\ x \in Ptr
      /\ left # 1 - left
  BY DEF Heap, Slot, Side, Ptr
<1>2. cr \in Ptr /\ p \in Ptr /\ i \in Side /\ bal \in -1..1 /\ -bal \in -1..1
  <2>1. cr \in Ptr /\ p \in Ptr /\ i \in Side /\ h[x].balance \in -1..1
    <3> HIDE DEF x
    <3> QED
      BY <1>1
  <2> QED
    BY <2>1, <1>1
<1>3. RotateOnce(h, n, left) = e
  BY <1>1 DEF RotateOnce
<1> HIDE DEF x
<1>4. /\ f \in Heap /\ f[n] = h[n] /\ f[x] = h[x]
      /\ cr # NULL => /\ f[cr].parent = n /\ f[cr].index = left
                      /\ f[cr].child = h[cr].child /\ f[cr].balance = h[cr].balance
      /\ \A m \in Slot \ {cr} : f[m] = h[m]
  <2>0. n # cr /\ x # cr
    BY DEF x
  <2> HIDE DEF cr
  <2>1. /\ f \in Heap
        /\ cr # NULL => /\ f[cr].parent = n /\ f[cr].index = left
                        /\ f[cr].child = h[cr].child /\ f[cr].balance = h[cr].balance
        /\ \A m \in Slot \ {cr} : f[m] = h[m]
    <3>1. cr \in Ptr /\ n \in Ptr
      BY <1>1, <1>2
    <3> QED
      BY <3>1, RelinkFields
  <2> HIDE DEF f
  <2> QED
    BY <2>0, <2>1, <1>1
<1> HIDE DEF cr, bal, p, i, f
<1>5. /\ rn \in R /\ rn.child[left] = cr /\ rn.child[1 - left] = h[n].child[1 - left]
      /\ rn.parent = x /\ rn.index = 1 - left /\ rn.balance = -bal
  <2> DEFINE u == [f[n].child EXCEPT ![left] = cr]
  <2>1. u \in [Side -> Ptr] /\ u[left] = cr /\ u[1 - left] = h[n].child[1 - left]
    BY <1>1, <1>2, <1>4
  <2> HIDE DEF u
  <2> QED
    BY <2>1, <1>1, <1>2 DEF u
<1>6. /\ rx \in R /\ rx.child[left] = h[x].child[left] /\ rx.child[1 - left] = n
      /\ rx.parent = p /\ rx.index = i /\ rx.balance = bal
  <2> DEFINE u == [f[x].child EXCEPT ![1 - left] = n]
  <2>1. u \in [Side -> Ptr] /\ u[1 - left] = n /\ u[left] = h[x].child[left]
    BY <1>1, <1>2, <1>4
  <2> HIDE DEF u
  <2> QED
    BY <2>1, <1>1, <1>2 DEF u
<1> HIDE DEF rn, rx
<1>7. e \in Heap /\ e[n] = rn /\ e[x] = rx /\ \A m \in Slot \ {n, x} : e[m] = f[m]
  BY <1>1, <1>4, <1>5, <1>6 DEF Heap
<1> HIDE DEF e
<1>8. Rotated1(h, n, left) = Put(e, p, i, x)
  BY <1>3 DEF Rotated1, p, i, x
<1>9. p \notin {n, x} /\ (p # NULL => p # cr) /\ cr \notin {n, x}
  BY DEF p, x, cr
<1>12. RotateOnce(h, n, left)[x].balance = bal
  BY <1>3, <1>6, <1>7
<1>10. CASE p = NULL
  <2>1. Rotated1(h, n, left) = e
    BY <1>8, <1>10 DEF Put
  <2>2. cr # NULL => cr \in Slot /\ e[cr] = f[cr]
    BY <1>2, <1>7, <1>9 DEF Ptr, Slot
  <2>3. \A m \in Slot \ {n, x, cr, p} : e[m] = h[m]
    BY <1>4, <1>7
  <2> QED
    <3>1. /\ e \in Heap /\ e[n].child[left] = cr /\ e[n].child[1 - left] = h[n].child[1 - left]
          /\ e[n].parent = x /\ e[n].index = 1 - left /\ e[n].balance = -bal
          /\ e[x].child[left] = h[x].child[left] /\ e[x].child[1 - left] = n
          /\ e[x].parent = p /\ e[x].index = i /\ e[x].balance = bal
      BY <1>5, <1>6, <1>7
    <3>2. cr # NULL => /\ e[cr].parent = n /\ e[cr].index = left
                       /\ e[cr].child = h[cr].child /\ e[cr].balance = h[cr].balance
      BY <2>2, <1>4
    <3> QED
      BY <2>1, <2>3, <3>1, <3>2, <1>12, <1>10 DEF OnceFields, p, x, cr, bal, i
<1>11. CASE p # NULL
  <2> DEFINE g == Put(e, p, i, x)
  <2>1. p \in Node /\ p \in Slot /\ (cr # NULL => cr \in Slot)
    BY <1>11, <1>2 DEF Ptr, Slot
  <2>2. /\ g \in Heap
        /\ g[p].child[i] = x /\ g[p].child[1 - i] = e[p].child[1 - i]
        /\ g[p].parent = e[p].parent /\ g[p].index = e[p].index /\ g[p].balance = e[p].balance
        /\ \A m \in Slot \ {p} : g[m] = e[m]
    BY <2>1, <1>1, <1>2, <1>7, PutFields
  <2> HIDE DEF g
  <2>3. Rotated1(h, n, left) = g
    BY <1>8 DEF g
  <2>4. e[p] = h[p]
    BY <2>1, <1>4, <1>7, <1>9, <1>11
  <2>5. g[n] = rn /\ g[x] = rx
    BY <2>2, <1>1, <1>7, <1>9
  <2>6. cr # NULL => g[cr] = f[cr]
    BY <2>1, <2>2, <1>7, <1>9, <1>11
  <2>7. \A m \in Slot \ {n, x, cr, p} : g[m] = h[m]
    BY <2>2, <1>4, <1>7
  <2> QED
    BY <2>1, <2>2, <2>3, <2>4, <2>5, <2>6, <2>7, <1>4, <1>5, <1>6, <1>12 DEF OnceFields, p, x, cr, bal, i
<1> QED
  BY <1>10, <1>11

\* A single rotation leaves a search tree of the same nodes.
LEMMA RotateOnceTree ==
    ASSUME NEW sub, NEW h, NEW S, NEW root, NEW k, IsTree(sub, h, S, root, k),
           NEW n \in S, NEW left \in Side, h[n].child[left] # NULL,
           h[h[n].child[left]].balance # (1 - left) - left
    PROVE  LET x == h[n].child[left]
               g == Rotated1(h, n, left)
           IN  /\ Rewired(g, h, S, n, {n, x}, x)
               /\ \E s \in [Ptr -> SUBSET Node] : IsTree(s, g, S, Root(h[n].parent, x, root), k)
<1> DEFINE x  == h[n].child[left]
           cr == h[x].child[1 - left]
           cl == h[x].child[left]
           o  == h[n].child[1 - left]
           p  == h[n].parent
           i  == h[n].index
           g  == Rotated1(h, n, left)
           M  == {n, x}
           s  == [sub EXCEPT ![n] = {n} \cup sub[cr] \cup sub[o], ![x] = sub[n]]
<1>0. /\ NULL \notin S /\ S \subseteq Node /\ S \subseteq Slot /\ S \subseteq Ptr /\ NULL \in Ptr
      /\ h \in Heap /\ 1 - left \in Side /\ (left = 0 \/ left = 1) /\ i \in Side
      /\ sub \in [Ptr -> SUBSET Node] /\ sub[NULL] = {}
      /\ \A m \in S : sub[m] \subseteq S
      /\ \A m \in Node : k[m] \in Int
  BY NodesAssumption DEF IsTree, Slot, Ptr, Side, Heap, Subs
<1>1. /\ x \in S /\ x # n /\ x \in sub[n] /\ h[x].parent = n /\ h[x].index = left
      /\ cr \in S \cup {NULL} /\ cl \in S \cup {NULL} /\ o \in S \cup {NULL}
      /\ n \notin {cr, cl, o} /\ x \notin {cr, cl, o} /\ p \notin {n, x}
      /\ p \in S \cup {NULL} /\ (p # NULL => p \notin sub[n])
      /\ cr # NULL => cr \in sub[n] /\ cr # cl /\ cr # o /\ h[cr].parent = x /\ h[cr].index = 1 - left
      /\ cl # NULL => cl \in sub[n] /\ h[cl].parent = x /\ h[cl].index = left
      /\ o # NULL  => o \in sub[n] /\ h[o].parent = n /\ h[o].index = 1 - left
      /\ sub[n] = {n} \cup sub[x] \cup sub[o] /\ sub[x] = {x} \cup sub[cr] \cup sub[cl]
  <2>1. AreAround(sub, h, S, n, left)
    BY Around
  <2> QED
    BY <2>1 DEF AreAround
<1>2. /\ g \in Heap
      /\ g[n].child[left] = cr /\ g[n].child[1 - left] = o
      /\ g[n].parent = x /\ g[n].index = 1 - left
      /\ g[x].child[left] = cl /\ g[x].child[1 - left] = n
      /\ g[x].parent = p /\ g[x].index = i
      /\ cr # NULL => /\ g[cr].parent = n /\ g[cr].index = left
                      /\ g[cr].child = h[cr].child /\ g[cr].balance = h[cr].balance
      /\ p # NULL => /\ g[p].child[i] = x /\ g[p].child[1 - i] = h[p].child[1 - i]
                     /\ g[p].parent = h[p].parent /\ g[p].index = h[p].index
                     /\ g[p].balance = h[p].balance
      /\ \A m \in Slot \ {n, x, cr, p} : g[m] = h[m]
  <2>1. p # NULL => p # cr
    BY <1>1
  <2>2. x \in Node \ {n} /\ n \in Node /\ cr \notin {n, x} /\ p \notin {n, x}
    BY <1>0, <1>1
  <2>3. OnceFields(h, n, left)
    BY <2>1, <2>2, <1>0, RotateOnceFields
  <2> QED
    BY <2>3 DEF OnceFields
<1>3. /\ \A y \in sub[x] : Beyond(k[y], k[n], left)
      /\ \A y \in sub[o] : Beyond(k[y], k[n], 1 - left)
      /\ \A y \in sub[cl] : Beyond(k[y], k[x], left)
      /\ \A y \in sub[cr] : Beyond(k[y], k[x], 1 - left)
  BY <1>0, <1>1 DEF IsTree, Subs
<1>4. \A m \in S : h[m].parent = n => m = x \/ m = o
  <2> SUFFICES ASSUME NEW m \in S, h[m].parent = n PROVE m = x \/ m = o
    OBVIOUS
  <2>1. m # root /\ h[n].child[h[m].index] = m /\ h[m].index \in Side
    BY <1>0 DEF IsTree, Links, Heap
  <2> QED
    BY <2>1, <1>0 DEF Side
<1>5. \A m \in S : h[m].parent = x => m = cr \/ m = cl
  <2> SUFFICES ASSUME NEW m \in S, h[m].parent = x PROVE m = cr \/ m = cl
    OBVIOUS
  <2>1. m # root /\ h[x].child[h[m].index] = m /\ h[m].index \in Side
    <3>1. x \in S /\ x # NULL /\ m \in Slot
      BY <1>0, <1>1
    <3> HIDE DEF x
    <3>2. h[m].index \in Side
      BY <3>1, <1>0 DEF Heap
    <3>3. m # root /\ h[x].child[h[m].index] = m
      BY <3>1 DEF IsTree, Links
    <3> QED
      BY <3>2, <3>3
  <2> QED
    BY <2>1, <1>0 DEF Side
<1>6. \A m \in S \ {n, x} : h[m].parent \notin {n, x} => m # cr /\ m # cl /\ m # o
  BY <1>0, <1>1
<1>7. (o # NULL => o # p) /\ (cl # NULL => cl # p) /\ (cr # NULL => cr # p)
  BY <1>1
<1> HIDE DEF x, cr, cl, o, p, i, g
<1>8. Rewired(g, h, S, n, M, x)
  <2>1. ASSUME NEW m \in M, NEW c \in Side, g[m].child[c] # NULL
        PROVE  LET y == g[m].child[c] IN y \in S /\ g[y].parent = m /\ g[y].index = c
    <3>0. c = left \/ c = 1 - left
      BY <1>0 DEF Side
    <3>1. o # NULL => g[o] = h[o]
      BY <1>0, <1>1, <1>7, <1>2
    <3>2. cl # NULL => g[cl] = h[cl]
      BY <1>0, <1>1, <1>7, <1>2
    <3> QED
      BY <2>1, <3>0, <3>1, <3>2, <1>0, <1>1, <1>2
  <2>2. \A m \in M \ {n} : h[m].parent \in M
    BY <1>1
  <2>3. \A m \in M \ {x} : g[m].parent \in M /\ g[g[m].parent].child[g[m].index] = m
    BY <1>1, <1>2
  <2>4. \A m \in S \ (M \cup {p}) : g[m].child = h[m].child /\ g[m].balance = h[m].balance
    BY <1>0, <1>2
  <2>5. ASSUME NEW m \in S \ M
        PROVE  IF h[m].parent \in M
               THEN g[m].parent \in M /\ g[g[m].parent].child[g[m].index] = m
               ELSE g[m].parent = h[m].parent /\ g[m].index = h[m].index
    <3>1. CASE m = cr
      BY <3>1, <1>0, <1>1, <1>2
    <3>2. CASE m = cl \/ m = o
      <4>1. g[m] = h[m]
        BY <2>5, <3>2, <1>0, <1>1, <1>2, <1>7
      <4> QED
        BY <2>5, <3>2, <4>1, <1>0, <1>1, <1>2
    <3>3. CASE m \notin {cr, cl, o}
      <4>1. h[m].parent \notin M
        BY <2>5, <3>3, <1>4, <1>5
      <4>2. g[m].parent = h[m].parent /\ g[m].index = h[m].index
        BY <2>5, <3>3, <1>0, <1>2
      <4> QED
        BY <4>1, <4>2
    <3> QED
      BY <3>1, <3>2, <3>3
  <2>6. /\ M \in SUBSET S /\ p \notin M
    BY <1>1
  <2> QED
    BY <2>1, <2>2, <2>3, <2>4, <2>5, <2>6, <1>2 DEF Rewired, p, i
<1>9. /\ s \in [Ptr -> SUBSET Node] /\ s[n] = {n} \cup sub[cr] \cup sub[o] /\ s[x] = sub[n]
      /\ \A m \in (S \ M) \cup {NULL} : s[m] = sub[m]
      /\ s[cr] = sub[cr] /\ s[cl] = sub[cl] /\ s[o] = sub[o]
  <2>1. n \in Ptr /\ x \in Ptr /\ n # NULL /\ x # NULL /\ n \in Node
    BY <1>0, <1>1
  <2>2. sub[cr] \subseteq Node /\ sub[o] \subseteq Node
    BY <1>0, <1>1
  <2> QED
    BY <2>1, <2>2, <1>0, <1>1
<1> HIDE DEF s
<1>10. ASSUME NEW m \in M
       PROVE  s[m] \subseteq S /\ s[m] = {m} \cup s[g[m].child[0]] \cup s[g[m].child[1]]
  <2>1. s[m] = {m} \cup s[g[m].child[left]] \cup s[g[m].child[1 - left]]
    <3>1. CASE m = n
      BY <3>1, <1>2, <1>9
    <3>2. CASE m = x
      BY <3>2, <1>1, <1>2, <1>9
    <3> QED
      BY <3>1, <3>2
  <2>2. s[m] \subseteq S
    BY <1>0, <1>1, <1>9
  <2> QED
    BY <2>1, <2>2, <1>0
<1>11. ASSUME NEW m \in M, NEW c \in Side, NEW y \in s[g[m].child[c]]
       PROVE  Beyond(k[y], k[m], c)
  <2>0. (c = left \/ c = 1 - left) /\ sub[n] \subseteq S
    BY <1>0 DEF Side
  <2>1. CASE m = n
    <3>1. y \in sub[cr] => y \in sub[x]
      BY <1>1
    <3> QED
      BY <1>11, <2>0, <2>1, <3>1, <1>2, <1>3, <1>9
  <2>2. CASE m = x /\ c = left
    BY <1>11, <2>2, <1>2, <1>3, <1>9, <1>0
  <2>3. CASE m = x /\ c = 1 - left
    <3>1. y = n \/ y \in sub[cr] \/ y \in sub[o]
      BY <1>11, <2>3, <1>2, <1>9
    <3>2. Beyond(k[x], k[n], left) /\ k[x] \in Int /\ k[n] \in Int /\ k[y] \in Int
      <4>1. x \in sub[x] /\ y \in S
        BY <3>1, <2>0, <1>1
      <4> QED
        BY <4>1, <1>0, <1>1, <1>3
    <3> QED
      BY <3>1, <3>2, <2>3, <1>0, <1>3 DEF Beyond
  <2> QED
    BY <2>0, <2>1, <2>2, <2>3
<1>12. IsTree(s, g, S, Root(p, x, root), k)
  BY <1>8, <1>9, <1>10, <1>11, RewireTree DEF p
<1> QED
  BY <1>8, <1>9, <1>12 DEF g, x, p

\* After a single rotation balances and heights agree, and the new top is as high as
\* the child was, or one higher when the child was balanced.
OnceHeights(h, S, n, left, ht) ==
    LET x == h[n].child[left]
    IN  \E t \in [Ptr -> Nat] :
           /\ t[x] = ht[x] + (IF h[x].balance = 0 THEN 1 ELSE 0)
           /\ Hts(t, Rotated1(h, n, left), S, h[n].parent, h[n].index, t[x] - ht[n])

\* This holds for a node whose left side is two higher, and not heavy on its right.
LEMMA RotateOnceHeights ==
    ASSUME NEW sub, NEW h, NEW S, NEW root, NEW k, IsTree(sub, h, S, root, k),
           NEW n \in S, NEW left \in Side, h[n].child[left] # NULL,
           h[h[n].child[left]].balance # (1 - left) - left,
           NEW ht, NEW side, NEW d, Hts(ht, h, S, n, side, d),
           ht[h[n].child[left]] = ht[h[n].child[1 - left]] + 2
    PROVE  OnceHeights(h, S, n, left, ht)
<1> DEFINE x  == h[n].child[left]
           cr == h[x].child[1 - left]
           cl == h[x].child[left]
           o  == h[n].child[1 - left]
           g  == Rotated1(h, n, left)
           b  == h[x].balance
           tn == IF b = 0 THEN ht[x] ELSE ht[x] - 1
           tx == ht[x] + (IF b = 0 THEN 1 ELSE 0)
           t  == [ht EXCEPT ![n] = tn, ![x] = tx]
<1>0. /\ NULL \notin S /\ S \subseteq Node /\ S \subseteq Ptr /\ NULL \in Ptr /\ n \in Node /\ n \in Slot
      /\ h \in Heap /\ (left = 0 \/ left = 1)
      /\ ht \in [Ptr -> Nat] /\ ht[NULL] = 0
  BY NodesAssumption DEF IsTree, Slot, Ptr, Side, Hts
<1>1. /\ x \in S /\ x # n
      /\ cr \in S \cup {NULL} /\ cl \in S \cup {NULL} /\ o \in S \cup {NULL}
      /\ n \notin {cr, cl, o} /\ x \notin {cr, cl, o} /\ h[n].parent \notin {n, x}
      /\ h[n].parent # NULL => h[n].parent # cr
  <2>1. AreAround(sub, h, S, n, left)
    BY Around
  <2> QED
    BY <2>1 DEF AreAround
<1>2. /\ g \in Heap
      /\ g[n].child[left] = cr /\ g[n].child[1 - left] = o
      /\ g[x].child[left] = cl /\ g[x].child[1 - left] = n
      /\ g[n].balance = -(b + ((1 - left) - left)) /\ g[x].balance = b + ((1 - left) - left)
  <2>1. x \in Node \ {n} /\ n \in Node /\ cr \notin {n, x} /\ h[n].parent \notin {n, x}
    BY <1>0, <1>1
  <2>2. OnceFields(h, n, left)
    BY <2>1, <1>0, <1>1, RotateOnceFields
  <2> QED
    BY <2>2 DEF OnceFields
<1>3. Rewired(g, h, S, n, {n, x}, x)
  BY RotateOnceTree
<1>4. b \in -1..1 /\ b # (1 - left) - left
  <2>1. x \in Slot
    BY <1>0, <1>1 DEF Slot
  <2> HIDE DEF x
  <2>2. b \in -1..1
    BY <2>1, <1>0 DEF Heap
  <2> QED
    BY <2>2 DEF x
<1>5. Fits(ht[x], b, ht[h[x].child[0]], ht[h[x].child[1]]) /\ ht[x] \in Nat /\ ht[cl] \in Nat /\ ht[cr] \in Nat /\ ht[o] \in Nat
  <2>1. Fits(ht[x], b, Told(ht, h, x, 0, n, side, d), Told(ht, h, x, 1, n, side, d))
    BY <1>1 DEF Hts
  <2> HIDE DEF x
  <2>2. /\ h[x].child[0] \in Ptr /\ h[x].child[1] \in Ptr
    BY <1>0, <1>1, SubFacts DEF Side
  <2>3. /\ Told(ht, h, x, 0, n, side, d) = ht[h[x].child[0]]
        /\ Told(ht, h, x, 1, n, side, d) = ht[h[x].child[1]]
    BY <2>2, <1>0, <1>1 DEF Told
  <2>4. x \in Ptr /\ cl \in Ptr /\ cr \in Ptr /\ o \in Ptr
    BY <1>0, <1>1
  <2> QED
    BY <2>1, <2>3, <2>4, <1>0
<1>6. ht[x] = ht[o] + 2
  OBVIOUS
<1>7. tn \in Nat /\ tx \in Nat
  <2> HIDE DEF x, o, b
  <2> QED
    BY <1>5, <1>6
<1> HIDE DEF tn, tx
<1>8. t \in [Ptr -> Nat] /\ t[n] = tn /\ t[x] = tx /\ t[cl] = ht[cl] /\ t[cr] = ht[cr] /\ t[o] = ht[o]
      /\ \A m \in (S \ {n, x}) \cup {NULL} : t[m] = ht[m]
  <2> HIDE DEF x, cr, cl, o
  <2> QED
    BY <1>0, <1>1, <1>7
<1> HIDE DEF t
<1>9. Fits(t[n], g[n].balance, t[g[n].child[0]], t[g[n].child[1]])
  <2>1. CASE left = 0
    <3>1. /\ g[n].child[0] = cr /\ g[n].child[1] = o /\ h[x].child[0] = cl /\ h[x].child[1] = cr
          /\ g[n].balance = -(b + 1) /\ (b = 0 \/ b = -1)
      BY <2>1, <1>2, <1>4
    <3> HIDE DEF x, cr, cl, o, g, b
    <3>2. t[g[n].child[0]] = ht[cr] /\ t[g[n].child[1]] = ht[o] /\ t[n] = tn
      BY <3>1, <1>8
    <3>3. Fits(ht[x], b, ht[cl], ht[cr]) /\ ht[o] = ht[x] - 2
      BY <3>1, <1>5, <1>6
    <3>4. Fits(tn, -(b + 1), ht[cr], ht[o])
      <4>1. CASE b = 0
        <5>1. ht[cr] = ht[x] - 1
          BY <4>1, <3>3, <1>5 DEF Fits
        <5> QED
          BY <4>1, <5>1, <3>3, <1>5 DEF Fits, tn
      <4>2. CASE b = -1
        <5>1. ht[cr] = ht[x] - 2
          BY <4>2, <3>3, <1>5 DEF Fits
        <5> QED
          BY <4>2, <5>1, <3>3, <1>5 DEF Fits, tn
      <4> QED
        BY <4>1, <4>2, <3>1
    <3> QED
      BY <3>1, <3>2, <3>4
  <2>2. CASE left = 1
    <3>1. /\ g[n].child[0] = o /\ g[n].child[1] = cr /\ h[x].child[0] = cr /\ h[x].child[1] = cl
          /\ g[n].balance = -(b - 1) /\ (b = 0 \/ b = 1)
      BY <2>2, <1>2, <1>4
    <3> HIDE DEF x, cr, cl, o, g, b
    <3>2. t[g[n].child[0]] = ht[o] /\ t[g[n].child[1]] = ht[cr] /\ t[n] = tn
      BY <3>1, <1>8
    <3>3. Fits(ht[x], b, ht[cr], ht[cl]) /\ ht[o] = ht[x] - 2
      BY <3>1, <1>5, <1>6
    <3>4. Fits(tn, -(b - 1), ht[o], ht[cr])
      <4>1. CASE b = 0
        <5>1. ht[cr] = ht[x] - 1
          BY <4>1, <3>3, <1>5 DEF Fits
        <5> QED
          BY <4>1, <5>1, <3>3, <1>5 DEF Fits, tn
      <4>2. CASE b = 1
        <5>1. ht[cr] = ht[x] - 2
          BY <4>2, <3>3, <1>5 DEF Fits
        <5> QED
          BY <4>2, <5>1, <3>3, <1>5 DEF Fits, tn
      <4> QED
        BY <4>1, <4>2, <3>1
    <3> QED
      BY <3>1, <3>2, <3>4
  <2> QED
    BY <2>1, <2>2, <1>0
<1>10. Fits(t[x], g[x].balance, t[g[x].child[0]], t[g[x].child[1]])
  <2>1. CASE left = 0
    <3>1. /\ g[x].child[0] = cl /\ g[x].child[1] = n /\ h[x].child[0] = cl /\ h[x].child[1] = cr
          /\ g[x].balance = b + 1 /\ (b = 0 \/ b = -1)
      BY <2>1, <1>2, <1>4
    <3> HIDE DEF x, cr, cl, o, g, b
    <3>2. t[g[x].child[0]] = ht[cl] /\ t[g[x].child[1]] = tn /\ t[x] = tx
      BY <3>1, <1>8
    <3>3. Fits(tx, b + 1, ht[cl], tn)
      BY <3>1, <1>5, <1>6 DEF Fits, tn, tx
    <3> QED
      BY <3>1, <3>2, <3>3
  <2>2. CASE left = 1
    <3>1. /\ g[x].child[0] = n /\ g[x].child[1] = cl /\ h[x].child[0] = cr /\ h[x].child[1] = cl
          /\ g[x].balance = b - 1 /\ (b = 0 \/ b = 1)
      BY <2>2, <1>2, <1>4
    <3> HIDE DEF x, cr, cl, o, g, b
    <3>2. t[g[x].child[0]] = tn /\ t[g[x].child[1]] = ht[cl] /\ t[x] = tx
      BY <3>1, <1>8
    <3>3. Fits(tx, b - 1, tn, ht[cl])
      BY <3>1, <1>5, <1>6 DEF Fits, tn, tx
    <3> QED
      BY <3>1, <3>2, <3>3
  <2> QED
    BY <2>1, <2>2, <1>0
<1>11. Hts(t, g, S, h[n].parent, h[n].index, tx - ht[n])
  <2> HIDE DEF x, g
  <2>1. ht[n] \in Nat
    BY <1>0
  <2>2. tx - ht[n] \in Int /\ t[x] - (tx - ht[n]) = ht[n]
    BY <2>1, <1>7, <1>8
  <2>3. \A m \in {n, x} : Fits(t[m], g[m].balance, t[g[m].child[0]], t[g[m].child[1]])
    BY <1>9, <1>10
  <2> DEFINE M == {n, x}
  <2>4. /\ Rewired(g, h, S, n, M, x) /\ \A m \in (S \ M) \cup {NULL} : t[m] = ht[m]
        /\ \A m \in M : Fits(t[m], g[m].balance, t[g[m].child[0]], t[g[m].child[1]])
        /\ t \in [Ptr -> Nat]
    BY <2>3, <1>3, <1>8
  <2> HIDE DEF M
  <2> QED
    BY <2>2, <2>4, RewireHeights
<1> QED
  BY <1>8, <1>11 DEF tx, OnceHeights

----------------------------------------------------------------------------
(* avl_rotation, the double one.                                           *)

\* The nodes around n that a double rotation touches.
AreAroundTwice(sub, h, S, n, left) ==
    LET x  == h[n].child[left]
        gc == h[x].child[1 - left]
        gl == h[gc].child[left]
        gr == h[gc].child[1 - left]
        cl == h[x].child[left]
        o  == h[n].child[1 - left]
        p  == h[n].parent
    IN  /\ x \in S /\ gc \in S /\ x # n /\ gc # n /\ gc # x /\ n \in sub[n]
        /\ h[x].parent = n /\ h[x].index = left /\ h[gc].parent = x /\ h[gc].index = 1 - left
        /\ gl \in S \cup {NULL} /\ gr \in S \cup {NULL} /\ cl \in S \cup {NULL} /\ o \in S \cup {NULL}
        /\ n \notin {gl, gr, cl, o} /\ x \notin {gl, gr, cl, o} /\ gc \notin {gl, gr, cl, o}
        /\ p \in S \cup {NULL} /\ p \notin {n, x, gc}
        /\ p # NULL => p \notin {gl, gr, cl, o}
        /\ gl # NULL => gl # gr /\ gl # cl /\ gl # o /\ h[gl].parent = gc /\ h[gl].index = left
        /\ gr # NULL => gr # cl /\ gr # o /\ h[gr].parent = gc /\ h[gr].index = 1 - left
        /\ cl # NULL => h[cl].parent = x /\ h[cl].index = left
        /\ o # NULL  => h[o].parent = n /\ h[o].index = 1 - left
        /\ sub[n] = {n} \cup sub[x] \cup sub[o] /\ sub[x] = {x} \cup sub[gc] \cup sub[cl]
        /\ sub[gc] = {gc} \cup sub[gl] \cup sub[gr]

\* In every tree they are as AreAroundTwice says.
LEMMA AroundTwice ==
    ASSUME NEW sub, NEW h, NEW S, NEW root, NEW k, IsTree(sub, h, S, root, k),
           NEW n \in S, NEW left \in Side, h[n].child[left] # NULL,
           h[h[n].child[left]].child[1 - left] # NULL
    PROVE  AreAroundTwice(sub, h, S, n, left)
<1> DEFINE x  == h[n].child[left]
           rt == 1 - left
           gc == h[x].child[rt]
           gl == h[gc].child[left]
           gr == h[gc].child[rt]
           cl == h[x].child[left]
           o  == h[n].child[rt]
           p  == h[n].parent
<1>0. rt \in Side /\ 1 - rt = left /\ rt # left /\ NULL \notin S
  BY NodesAssumption DEF Side, IsTree
<1>1. AreAround(sub, h, S, n, left)
  BY Around
<1>2. /\ x \in S /\ x # n /\ x \in sub[n] /\ h[x].parent = n /\ h[x].index = left
      /\ gc \in S \cup {NULL} /\ cl \in S \cup {NULL} /\ o \in S \cup {NULL}
      /\ n \notin {gc, cl, o} /\ x \notin {gc, cl, o} /\ p \notin {n, x}
      /\ p \in S \cup {NULL} /\ (p # NULL => p \notin sub[n])
      /\ gc # NULL => gc \in sub[n] /\ gc # cl /\ gc # o /\ h[gc].parent = x /\ h[gc].index = rt
      /\ cl # NULL => cl \in sub[n] /\ h[cl].parent = x /\ h[cl].index = left
      /\ o # NULL  => o \in sub[n] /\ h[o].parent = n /\ h[o].index = rt
      /\ sub[n] = {n} \cup sub[x] \cup sub[o] /\ sub[x] = {x} \cup sub[gc] \cup sub[cl]
  BY <1>1 DEF AreAround
<1>3. AreAround(sub, h, S, x, rt)
  <2>1. x \in S /\ h[x].child[rt] # NULL
    BY <1>2
  <2> HIDE DEF x, rt
  <2> QED
    BY <2>1, <1>0, Around
<1>4. /\ gc \in S /\ gc # x /\ gc \in sub[x] /\ h[gc].parent = x /\ h[gc].index = rt
      /\ gl \in S \cup {NULL} /\ gr \in S \cup {NULL} /\ cl \in S \cup {NULL}
      /\ x \notin {gl, gr, cl} /\ gc \notin {gl, gr, cl}
      /\ h[x].parent # NULL => h[x].parent \notin sub[x]
      /\ gl # NULL => gl \in sub[x] /\ gl # gr /\ gl # cl /\ h[gl].parent = gc /\ h[gl].index = left
      /\ gr # NULL => gr \in sub[x] /\ h[gr].parent = gc /\ h[gr].index = rt
      /\ cl # NULL => cl \in sub[x]
      /\ sub[gc] = {gc} \cup sub[gl] \cup sub[gr]
  <2> HIDE DEF x, rt
  <2> QED
    BY <1>0, <1>3 DEF AreAround
<1>5. sub[x] \cap sub[o] = {} /\ n \in sub[n] /\ (o # NULL => o \in sub[o])
  <2>1. sub[x] \cap sub[o] = {} /\ n \in sub[n]
    BY SubFacts
  <2>2. o # NULL => o \in S
    BY <1>2
  <2> HIDE DEF o, x
  <2> QED
    BY <2>1, <2>2, SubFacts
<1>6. gr # NULL => gr # cl
  BY <1>4, <1>2, <1>0
<1> HIDE DEF x, rt, gc, gl, gr, cl, o, p
<1>7. n \notin sub[x] /\ n # NULL /\ sub[x] \subseteq sub[n]
  BY <1>0, <1>2, <1>4
<1>8. /\ n \notin {gl, gr, cl, o} /\ x \notin {gl, gr, cl, o} /\ gc \notin {gl, gr, cl, o}
  BY <1>0, <1>2, <1>4, <1>5, <1>7
<1>9. /\ p \notin {n, x, gc}
      /\ p # NULL => p \notin {gl, gr, cl, o}
  BY <1>0, <1>2, <1>4, <1>7
<1>10. /\ gl # NULL => gl # o
       /\ gr # NULL => gr # o
  BY <1>0, <1>4, <1>5
<1> QED
  BY <1>2, <1>4, <1>5, <1>6, <1>8, <1>9, <1>10 DEF AreAroundTwice, x, rt, gc, gl, gr, cl, o, p

\* The heap after a double rotation, with its top put below the parent of n.
Rotated2(h, n, left) ==
    Put(RotateTwice(h, n, left), h[n].parent, h[n].index, h[h[n].child[left]].child[1 - left])

\* The fields of the nodes a double rotation touches.
TwiceFields(h, n, left) ==
    LET rt  == 1 - left
        hv  == rt - left
        x   == h[n].child[left]
        gc  == h[x].child[rt]
        gl  == h[gc].child[left]
        gr  == h[gc].child[rt]
        p   == h[n].parent
        i   == h[n].index
        bal == h[gc].balance
        g   == Rotated2(h, n, left)
    IN  /\ g \in Heap
        /\ g[n].child[left] = gr /\ g[n].child[rt] = h[n].child[rt]
        /\ g[n].parent = gc /\ g[n].index = rt /\ g[n].balance = (IF bal = -hv THEN hv ELSE 0)
        /\ g[x].child[left] = h[x].child[left] /\ g[x].child[rt] = gl
        /\ g[x].parent = gc /\ g[x].index = left /\ g[x].balance = (IF bal = hv THEN -hv ELSE 0)
        /\ g[gc].child[left] = x /\ g[gc].child[rt] = n
        /\ g[gc].parent = p /\ g[gc].index = i /\ g[gc].balance = 0
        /\ RotateTwice(h, n, left)[gc].balance = 0
        /\ gl # NULL => /\ g[gl].parent = x /\ g[gl].index = rt
                        /\ g[gl].child = h[gl].child /\ g[gl].balance = h[gl].balance
        /\ gr # NULL => /\ g[gr].parent = n /\ g[gr].index = left
                        /\ g[gr].child = h[gr].child /\ g[gr].balance = h[gr].balance
        /\ p # NULL => /\ g[p].child[i] = gc /\ g[p].child[1 - i] = h[p].child[1 - i]
                       /\ g[p].parent = h[p].parent /\ g[p].index = h[p].index
                       /\ g[p].balance = h[p].balance
        /\ \A m \in Slot \ {n, x, gc, gl, gr, p} : g[m] = h[m]

\* A double rotation leaves these fields.
LEMMA RotateTwiceFields ==
    ASSUME NEW sub, NEW h \in Heap, NEW S \in SUBSET Node, NEW n \in S, NEW left \in Side,
           AreAroundTwice(sub, h, S, n, left)
    PROVE  TwiceFields(h, n, left)
<1> DEFINE R   == [child : [Side -> Ptr], parent : Ptr, index : Side, balance : -1..1]
           rt  == 1 - left
           hv  == rt - left
           x   == h[n].child[left]
           gc  == h[x].child[rt]
           gl  == h[gc].child[left]
           gr  == h[gc].child[rt]
           p   == h[n].parent
           i   == h[n].index
           bal == h[gc].balance
           f1  == Relink(h, gr, n, left)
           f   == Relink(f1, gl, x, rt)
           rn  == [child |-> [f[n].child EXCEPT ![left] = gr], parent |-> gc, index |-> rt,
                   balance |-> IF bal = -hv THEN hv ELSE 0]
           rx  == [child |-> [f[x].child EXCEPT ![rt] = gl], parent |-> gc, index |-> left,
                   balance |-> IF bal = hv THEN -hv ELSE 0]
           rg  == [child |-> [c \in Side |-> IF c = left THEN x ELSE n], parent |-> p, index |-> i,
                   balance |-> 0]
           e   == [f EXCEPT ![n] = rn, ![x] = rx, ![gc] = rg]
<1>1. /\ x \in S /\ gc \in S /\ x # n /\ gc # n /\ gc # x
      /\ gl \in S \cup {NULL} /\ gr \in S \cup {NULL}
      /\ n \notin {gl, gr} /\ x \notin {gl, gr} /\ gc \notin {gl, gr}
      /\ p \in S \cup {NULL} /\ p \notin {n, x, gc}
      /\ p # NULL => p \notin {gl, gr}
      /\ gl # NULL => gl # gr
  BY DEF AreAroundTwice
<1>2. RotateTwice(h, n, left) = e
  BY <1>1 DEF RotateTwice
<1>3. rt \in Side /\ rt # left /\ (left = 0 \/ left = 1) /\ hv \in -1..1 /\ -hv \in -1..1 /\ 0 \in -1..1 /\ i \in Side
      /\ 1 - left = rt
  BY DEF Side, Heap, Slot
<1>4. Rotated2(h, n, left) = Put(e, p, i, gc)
  BY <1>2 DEF Rotated2
<1> HIDE DEF x, gc, gl, gr, p, i, rt, hv
<1>5. /\ h[n] \in R /\ h[x] \in R /\ h[gc] \in R /\ n \in Slot /\ x \in Slot /\ gc \in Slot
      /\ n \in Ptr /\ x \in Ptr /\ gc \in Ptr /\ gl \in Ptr /\ gr \in Ptr /\ p \in Ptr
      /\ (gl # NULL => gl \in Slot) /\ (gr # NULL => gr \in Slot) /\ gc \in Node
  BY <1>1 DEF Heap, Slot, Ptr
<1>6. /\ f1 \in Heap
      /\ gr # NULL => /\ f1[gr].parent = n /\ f1[gr].index = left
                      /\ f1[gr].child = h[gr].child /\ f1[gr].balance = h[gr].balance
      /\ \A m \in Slot \ {gr} : f1[m] = h[m]
  <2>1. gr \in Ptr /\ n \in Ptr
    BY <1>5
  <2> QED
    BY <2>1, RelinkFields
<1> HIDE DEF f1
<1>7. /\ f \in Heap
      /\ gl # NULL => /\ f[gl].parent = x /\ f[gl].index = rt
                      /\ f[gl].child = f1[gl].child /\ f[gl].balance = f1[gl].balance
      /\ \A m \in Slot \ {gl} : f[m] = f1[m]
  <2>1. gl \in Ptr /\ x \in Ptr /\ rt \in Side /\ f1 \in Heap
    BY <1>3, <1>5, <1>6
  <2> QED
    BY <2>1, RelinkFields
<1> HIDE DEF f
<1>8. /\ f[n] = h[n] /\ f[x] = h[x] /\ f[gc] = h[gc]
      /\ gl # NULL => f1[gl] = h[gl]
      /\ gr # NULL => f[gr] = f1[gr]
      /\ \A m \in Slot \ {gl, gr} : f[m] = h[m]
  BY <1>1, <1>5, <1>6, <1>7
<1>9. /\ rn \in R /\ rn.child[left] = gr /\ rn.child[rt] = h[n].child[rt]
      /\ rn.parent = gc /\ rn.index = rt /\ rn.balance = (IF bal = -hv THEN hv ELSE 0)
  <2> DEFINE u == [f[n].child EXCEPT ![left] = gr]
             v == IF bal = -hv THEN hv ELSE 0
  <2>1. u \in [Side -> Ptr] /\ u[left] = gr /\ u[rt] = h[n].child[rt] /\ v \in -1..1
    BY <1>3, <1>5, <1>8
  <2> HIDE DEF u, v
  <2> QED
    BY <2>1, <1>3, <1>5 DEF u, v
<1>10. /\ rx \in R /\ rx.child[left] = h[x].child[left] /\ rx.child[rt] = gl
       /\ rx.parent = gc /\ rx.index = left /\ rx.balance = (IF bal = hv THEN -hv ELSE 0)
  <2> DEFINE u == [f[x].child EXCEPT ![rt] = gl]
             v == IF bal = hv THEN -hv ELSE 0
  <2>1. u \in [Side -> Ptr] /\ u[rt] = gl /\ u[left] = h[x].child[left] /\ v \in -1..1
    BY <1>3, <1>5, <1>8
  <2> HIDE DEF u, v
  <2> QED
    BY <2>1, <1>3, <1>5 DEF u, v
<1>11. /\ rg \in R /\ rg.child[left] = x /\ rg.child[rt] = n
       /\ rg.parent = p /\ rg.index = i /\ rg.balance = 0
  <2> DEFINE u == [c \in Side |-> IF c = left THEN x ELSE n]
  <2>1. u \in [Side -> Ptr] /\ u[left] = x /\ u[rt] = n
    BY <1>3, <1>5
  <2> HIDE DEF u
  <2> QED
    BY <2>1, <1>3, <1>5 DEF u
<1> HIDE DEF rn, rx, rg
<1>12. /\ e \in Heap /\ e[n] = rn /\ e[x] = rx /\ e[gc] = rg
       /\ \A m \in Slot \ {n, x, gc} : e[m] = f[m]
  BY <1>1, <1>5, <1>7, <1>9, <1>10, <1>11 DEF Heap
<1> HIDE DEF e
<1>13. /\ gl # NULL => e[gl] = f[gl]
       /\ gr # NULL => e[gr] = f1[gr]
       /\ \A m \in Slot \ {n, x, gc, gl, gr} : e[m] = h[m]
  BY <1>1, <1>5, <1>8, <1>12
<1> DEFINE g == Put(e, p, i, gc)
<1>14. /\ g \in Heap /\ g[n] = rn /\ g[x] = rx /\ g[gc] = rg
       /\ gl # NULL => g[gl] = f[gl]
       /\ gr # NULL => g[gr] = f1[gr]
       /\ p # NULL => /\ g[p].child[i] = gc /\ g[p].child[1 - i] = h[p].child[1 - i]
                      /\ g[p].parent = h[p].parent /\ g[p].index = h[p].index
                      /\ g[p].balance = h[p].balance
       /\ \A m \in Slot \ {n, x, gc, gl, gr, p} : g[m] = h[m]
  <2>1. CASE p = NULL
    <3>1. g = e
      BY <2>1 DEF Put
    <3> QED
      BY <3>1, <2>1, <1>12, <1>13
  <2>2. CASE p # NULL
    <3>1. p \in Node /\ p \in Slot
      BY <2>2, <1>5 DEF Ptr, Slot
    <3>2. /\ g \in Heap
          /\ g[p].child[i] = gc /\ g[p].child[1 - i] = e[p].child[1 - i]
          /\ g[p].parent = e[p].parent /\ g[p].index = e[p].index /\ g[p].balance = e[p].balance
          /\ \A m \in Slot \ {p} : g[m] = e[m]
      BY <3>1, <1>3, <1>5, <1>12, PutFields
    <3> HIDE DEF g
    <3>3. e[p] = h[p]
      BY <3>1, <2>2, <1>1, <1>13
    <3>4. /\ g[n] = rn /\ g[x] = rx /\ g[gc] = rg
          /\ gl # NULL => g[gl] = f[gl]
          /\ gr # NULL => g[gr] = f1[gr]
      BY <3>2, <2>2, <1>1, <1>5, <1>12, <1>13
    <3> QED
      BY <3>2, <3>3, <3>4, <1>13
  <2> QED
    BY <2>1, <2>2
<1> HIDE DEF g
<1>15. g = Rotated2(h, n, left)
  BY <1>4 DEF g
<1>16. /\ gl # NULL => /\ g[gl].parent = x /\ g[gl].index = rt
                       /\ g[gl].child = h[gl].child /\ g[gl].balance = h[gl].balance
       /\ gr # NULL => /\ g[gr].parent = n /\ g[gr].index = left
                       /\ g[gr].child = h[gr].child /\ g[gr].balance = h[gr].balance
  BY <1>6, <1>7, <1>8, <1>14
<1>17. /\ g[n].child[left] = gr /\ g[n].child[rt] = h[n].child[rt]
       /\ g[n].parent = gc /\ g[n].index = rt /\ g[n].balance = (IF bal = -hv THEN hv ELSE 0)
       /\ g[x].child[left] = h[x].child[left] /\ g[x].child[rt] = gl
       /\ g[x].parent = gc /\ g[x].index = left /\ g[x].balance = (IF bal = hv THEN -hv ELSE 0)
       /\ g[gc].child[left] = x /\ g[gc].child[rt] = n
       /\ g[gc].parent = p /\ g[gc].index = i /\ g[gc].balance = 0
  BY <1>9, <1>10, <1>11, <1>14
<1>18. RotateTwice(h, n, left)[gc].balance = 0
  BY <1>2, <1>11, <1>12
<1> QED
  BY <1>14, <1>15, <1>16, <1>17, <1>18 DEF TwiceFields, x, gc, gl, gr, p, i, rt, hv, bal

\* A double rotation leaves a search tree of the same nodes.
LEMMA RotateTwiceTree ==
    ASSUME NEW sub, NEW h, NEW S, NEW root, NEW k, IsTree(sub, h, S, root, k),
           NEW n \in S, NEW left \in Side, h[n].child[left] # NULL,
           h[h[n].child[left]].child[1 - left] # NULL
    PROVE  LET x  == h[n].child[left]
               gc == h[x].child[1 - left]
               g  == Rotated2(h, n, left)
           IN  /\ Rewired(g, h, S, n, {n, x, gc}, gc)
               /\ \E s \in [Ptr -> SUBSET Node] : IsTree(s, g, S, Root(h[n].parent, gc, root), k)
<1> DEFINE x  == h[n].child[left]
           rt == 1 - left
           gc == h[x].child[rt]
           gl == h[gc].child[left]
           gr == h[gc].child[rt]
           cl == h[x].child[left]
           o  == h[n].child[rt]
           p  == h[n].parent
           i  == h[n].index
           g  == Rotated2(h, n, left)
           M  == {n, x, gc}
           s  == [sub EXCEPT ![n] = {n} \cup sub[gr] \cup sub[o], ![x] = {x} \cup sub[cl] \cup sub[gl],
                             ![gc] = sub[n]]
<1>0. /\ NULL \notin S /\ S \subseteq Node /\ S \subseteq Slot /\ S \subseteq Ptr /\ NULL \in Ptr
      /\ h \in Heap /\ rt \in Side /\ rt # left /\ ((left = 0 /\ rt = 1) \/ (left = 1 /\ rt = 0)) /\ i \in Side
      /\ sub \in [Ptr -> SUBSET Node] /\ sub[NULL] = {}
      /\ \A m \in S : sub[m] \subseteq S
      /\ \A m \in Node : k[m] \in Int
  <2>1. /\ NULL \notin S /\ S \subseteq Node /\ S \subseteq Slot /\ S \subseteq Ptr /\ NULL \in Ptr
        /\ h \in Heap /\ \A m \in Node : k[m] \in Int
    BY NodesAssumption DEF IsTree, Slot, Ptr
  <2>2. rt \in Side /\ rt # left /\ ((left = 0 /\ rt = 1) \/ (left = 1 /\ rt = 0))
    BY DEF Side
  <2>3. /\ sub \in [Ptr -> SUBSET Node] /\ sub[NULL] = {}
        /\ \A m \in S : sub[m] \subseteq S
    BY DEF IsTree, Subs
  <2>4. i \in Side
    BY <2>1 DEF Heap
  <2> QED
    BY <2>1, <2>2, <2>3, <2>4
<1>a. AreAroundTwice(sub, h, S, n, left)
  BY AroundTwice
<1>1. /\ x \in S /\ gc \in S /\ x # n /\ gc # n /\ gc # x /\ n \in sub[n]
      /\ h[x].parent = n /\ h[x].index = left /\ h[gc].parent = x /\ h[gc].index = rt
      /\ gl \in S \cup {NULL} /\ gr \in S \cup {NULL} /\ cl \in S \cup {NULL} /\ o \in S \cup {NULL}
      /\ n \notin {gl, gr, cl, o} /\ x \notin {gl, gr, cl, o} /\ gc \notin {gl, gr, cl, o}
      /\ p \in S \cup {NULL} /\ p \notin {n, x, gc}
      /\ p # NULL => p \notin {gl, gr, cl, o}
      /\ gl # NULL => gl # gr /\ gl # cl /\ gl # o /\ h[gl].parent = gc /\ h[gl].index = left
      /\ gr # NULL => gr # cl /\ gr # o /\ h[gr].parent = gc /\ h[gr].index = rt
      /\ cl # NULL => h[cl].parent = x /\ h[cl].index = left
      /\ o # NULL  => h[o].parent = n /\ h[o].index = rt
      /\ sub[n] = {n} \cup sub[x] \cup sub[o] /\ sub[x] = {x} \cup sub[gc] \cup sub[cl]
      /\ sub[gc] = {gc} \cup sub[gl] \cup sub[gr]
  BY <1>a DEF AreAroundTwice
<1>b. TwiceFields(h, n, left)
  <2>1. S \in SUBSET Node
    BY <1>0
  <2> QED
    BY <2>1, <1>a, <1>0, RotateTwiceFields
<1>2. /\ g \in Heap
      /\ g[n].child[left] = gr /\ g[n].child[rt] = o
      /\ g[n].parent = gc /\ g[n].index = rt
      /\ g[x].child[left] = cl /\ g[x].child[rt] = gl
      /\ g[x].parent = gc /\ g[x].index = left
      /\ g[gc].child[left] = x /\ g[gc].child[rt] = n
      /\ g[gc].parent = p /\ g[gc].index = i
      /\ gl # NULL => /\ g[gl].parent = x /\ g[gl].index = rt
                      /\ g[gl].child = h[gl].child /\ g[gl].balance = h[gl].balance
      /\ gr # NULL => /\ g[gr].parent = n /\ g[gr].index = left
                      /\ g[gr].child = h[gr].child /\ g[gr].balance = h[gr].balance
      /\ p # NULL => /\ g[p].child[i] = gc /\ g[p].child[1 - i] = h[p].child[1 - i]
                     /\ g[p].parent = h[p].parent /\ g[p].index = h[p].index
                     /\ g[p].balance = h[p].balance
      /\ \A m \in Slot \ {n, x, gc, gl, gr, p} : g[m] = h[m]
  BY <1>b DEF TwiceFields
<1>3. /\ \A y \in sub[x] : Beyond(k[y], k[n], left)
      /\ \A y \in sub[o] : Beyond(k[y], k[n], rt)
  BY <1>0 DEF IsTree, Subs
<1>c. /\ \A y \in sub[cl] : Beyond(k[y], k[x], left)
      /\ \A y \in sub[gc] : Beyond(k[y], k[x], rt)
  <2> HIDE DEF x
  <2> QED
    BY <1>0, <1>1 DEF IsTree, Subs
<1>d. /\ \A y \in sub[gl] : Beyond(k[y], k[gc], left)
      /\ \A y \in sub[gr] : Beyond(k[y], k[gc], rt)
  <2> HIDE DEF x, gc
  <2> QED
    BY <1>0, <1>1 DEF IsTree, Subs
<1> HIDE DEF x, gc, p, i, g, rt
<1>4. ASSUME NEW m \in S, h[m].parent \in M
      PROVE  m \in {x, gc, gl, gr, cl, o}
  <2>1. m # root /\ h[h[m].parent].child[h[m].index] = m /\ h[m].index \in Side
    <3>1. h[m].parent # NULL /\ m \in Slot
      BY <1>0, <1>1, <1>4 DEF Slot
    <3>2. h[m].index \in Side
      BY <3>1, <1>0 DEF Heap
    <3>3. m # root /\ h[h[m].parent].child[h[m].index] = m
      BY <3>1 DEF IsTree, Links
    <3> QED
      BY <3>2, <3>3
  <2>2. h[m].index = left \/ h[m].index = rt
    BY <2>1, <1>0 DEF Side
  <2> QED
    BY <2>1, <2>2, <1>4 DEF x, gc
<1> HIDE DEF gl, gr, cl, o
<1>5. (o # NULL => g[o] = h[o]) /\ (cl # NULL => g[cl] = h[cl])
  BY <1>0, <1>1, <1>2
<1>8. Rewired(g, h, S, n, M, gc)
  <2>1. ASSUME NEW m \in M, NEW c \in Side, g[m].child[c] # NULL
        PROVE  LET y == g[m].child[c] IN y \in S /\ g[y].parent = m /\ g[y].index = c
    <3>0. c = left \/ c = rt
      BY <1>0 DEF Side
    <3>1. CASE m = n
      BY <2>1, <3>0, <3>1, <1>0, <1>1, <1>2, <1>5
    <3>2. CASE m = x
      BY <2>1, <3>0, <3>2, <1>0, <1>1, <1>2, <1>5
    <3>3. CASE m = gc
      BY <2>1, <3>0, <3>3, <1>0, <1>1, <1>2
    <3> QED
      BY <3>1, <3>2, <3>3
  <2>2. \A m \in M \ {n} : h[m].parent \in M
    BY <1>1
  <2>3. \A m \in M \ {gc} : g[m].parent \in M /\ g[g[m].parent].child[g[m].index] = m
    BY <1>1, <1>2
  <2>4. \A m \in S \ (M \cup {p}) : g[m].child = h[m].child /\ g[m].balance = h[m].balance
    BY <1>0, <1>1, <1>2
  <2>5. ASSUME NEW m \in S \ M
        PROVE  IF h[m].parent \in M
               THEN g[m].parent \in M /\ g[g[m].parent].child[g[m].index] = m
               ELSE g[m].parent = h[m].parent /\ g[m].index = h[m].index
    <3>1. CASE m = gl \/ m = gr
      BY <2>5, <3>1, <1>0, <1>1, <1>2
    <3>2. CASE m = cl \/ m = o
      <4>1. g[m] = h[m]
        BY <2>5, <3>2, <1>0, <1>5
      <4> QED
        BY <2>5, <3>2, <4>1, <1>0, <1>1, <1>2
    <3>3. CASE m \notin {gl, gr, cl, o}
      <4>1. h[m].parent \notin M
        BY <2>5, <3>3, <1>4
      <4>2. g[m].parent = h[m].parent /\ g[m].index = h[m].index
        BY <2>5, <3>3, <1>0, <1>2
      <4> QED
        BY <4>1, <4>2
    <3> QED
      BY <3>1, <3>2, <3>3
  <2>6. M \in SUBSET S /\ p \notin M
    BY <1>1
  <2> QED
    BY <2>1, <2>2, <2>3, <2>4, <2>5, <2>6, <1>2 DEF Rewired, p, i
<1>9. /\ s \in [Ptr -> SUBSET Node] /\ s[n] = {n} \cup sub[gr] \cup sub[o]
      /\ s[x] = {x} \cup sub[cl] \cup sub[gl] /\ s[gc] = sub[n]
      /\ \A m \in (S \ M) \cup {NULL} : s[m] = sub[m]
      /\ s[gl] = sub[gl] /\ s[gr] = sub[gr] /\ s[cl] = sub[cl] /\ s[o] = sub[o]
  <2>1. n \in Ptr /\ x \in Ptr /\ gc \in Ptr /\ NULL \notin M /\ n \in Node /\ x \in Node
    BY <1>0, <1>1
  <2>2. sub[gr] \subseteq Node /\ sub[gl] \subseteq Node /\ sub[cl] \subseteq Node /\ sub[o] \subseteq Node
    BY <1>0, <1>1
  <2>3. {n} \cup sub[gr] \cup sub[o] \in SUBSET Node /\ {x} \cup sub[cl] \cup sub[gl] \in SUBSET Node
    BY <2>1, <2>2
  <2> DEFINE a == {n} \cup sub[gr] \cup sub[o]
             b == {x} \cup sub[cl] \cup sub[gl]
  <2> HIDE DEF a, b
  <2>4. s = [sub EXCEPT ![n] = a, ![x] = b, ![gc] = sub[n]] /\ a \in SUBSET Node /\ b \in SUBSET Node
    BY <2>3 DEF a, b
  <2> HIDE DEF s
  <2>5. s \in [Ptr -> SUBSET Node] /\ s[n] = a /\ s[x] = b /\ s[gc] = sub[n]
        /\ \A m \in Ptr \ M : s[m] = sub[m]
    BY <2>1, <2>4, <1>0, <1>1
  <2>6. {gl, gr, cl, o} \subseteq Ptr \ M
    BY <1>0, <1>1
  <2> QED
    BY <2>1, <2>5, <2>6, <1>0 DEF a, b
<1> HIDE DEF s
<1>10. ASSUME NEW m \in M
       PROVE  s[m] \subseteq S /\ s[m] = {m} \cup s[g[m].child[0]] \cup s[g[m].child[1]]
  <2>1. s[m] = {m} \cup s[g[m].child[left]] \cup s[g[m].child[rt]]
    <3>1. CASE m = n
      BY <3>1, <1>2, <1>9
    <3>2. CASE m = x
      BY <3>2, <1>2, <1>9
    <3>3. CASE m = gc
      BY <3>3, <1>1, <1>2, <1>9
    <3> QED
      BY <3>1, <3>2, <3>3
  <2>2. s[m] \subseteq S
    BY <1>0, <1>1, <1>9
  <2> QED
    BY <2>1, <2>2, <1>0
<1>11. ASSUME NEW m \in M, NEW c \in Side, NEW y \in s[g[m].child[c]]
       PROVE  Beyond(k[y], k[m], c)
  <2>0. (c = left \/ c = rt) /\ sub[n] \subseteq S
    BY <1>0 DEF Side
  <2>1. CASE m = n
    <3>1. y \in sub[gr] => y \in sub[x]
      BY <1>1
    <3> QED
      BY <1>11, <2>0, <2>1, <3>1, <1>2, <1>3, <1>9
  <2>2. CASE m = x
    <3>1. y \in sub[gl] => y \in sub[gc]
      BY <1>1
    <3> QED
      BY <1>11, <2>0, <2>2, <3>1, <1>2, <1>c, <1>9
  <2>3. x \in S /\ gc \in S /\ gc \in sub[gc] /\ gc \in sub[x] /\ k[x] \in Int /\ k[n] \in Int /\ k[gc] \in Int
    BY <1>0, <1>1
  <2>4. Beyond(k[gc], k[x], rt) /\ Beyond(k[gc], k[n], left)
    BY <2>3, <1>3, <1>c
  <2>5. CASE m = gc /\ c = left
    <3>1. y = x \/ y \in sub[cl] \/ y \in sub[gl]
      BY <1>11, <2>5, <1>2, <1>9
    <3>2. k[y] \in Int
      <4>1. y \in S
        BY <3>1, <2>0, <1>1
      <4> QED
        BY <4>1, <1>0
    <3> QED
      BY <3>1, <3>2, <2>3, <2>4, <2>5, <1>0, <1>c, <1>d DEF Beyond
  <2>6. CASE m = gc /\ c = rt
    <3>1. y = n \/ y \in sub[gr] \/ y \in sub[o]
      BY <1>11, <2>6, <1>2, <1>9
    <3>2. k[y] \in Int
      <4>1. y \in S
        BY <3>1, <2>0, <1>1
      <4> QED
        BY <4>1, <1>0
    <3> QED
      BY <3>1, <3>2, <2>3, <2>4, <2>6, <1>0, <1>3, <1>d DEF Beyond
  <2> QED
    BY <2>0, <2>1, <2>2, <2>5, <2>6
<1>12. IsTree(s, g, S, Root(p, gc, root), k)
  BY <1>8, <1>9, <1>10, <1>11, RewireTree DEF p
<1> QED
  BY <1>8, <1>9, <1>12 DEF g, x, p, gc, rt

\* After a double rotation balances and heights agree, and the new top is as high as
\* the child was.
TwiceHeights(h, S, n, left, ht) ==
    LET x  == h[n].child[left]
        gc == h[x].child[1 - left]
    IN  /\ gc # NULL
        /\ \E t \in [Ptr -> Nat] :
              /\ t[gc] = ht[x]
              /\ Hts(t, Rotated2(h, n, left), S, h[n].parent, h[n].index, t[gc] - ht[n])

\* This holds for a node whose left side is two higher and heavy on its right.
LEMMA RotateTwiceHeights ==
    ASSUME NEW sub, NEW h, NEW S, NEW root, NEW k, IsTree(sub, h, S, root, k),
           NEW n \in S, NEW left \in Side, h[n].child[left] # NULL,
           h[h[n].child[left]].balance = (1 - left) - left,
           NEW ht, NEW side, NEW d, Hts(ht, h, S, n, side, d),
           ht[h[n].child[left]] = ht[h[n].child[1 - left]] + 2
    PROVE  TwiceHeights(h, S, n, left, ht)
<1> DEFINE x  == h[n].child[left]
           rt == 1 - left
           hv == rt - left
           gc == h[x].child[rt]
           gl == h[gc].child[left]
           gr == h[gc].child[rt]
           cl == h[x].child[left]
           o  == h[n].child[rt]
           g  == Rotated2(h, n, left)
           b  == h[gc].balance
           t  == [ht EXCEPT ![n] = ht[x] - 1, ![x] = ht[x] - 1, ![gc] = ht[x]]
<1>0. /\ NULL \notin S /\ S \subseteq Node /\ S \subseteq Ptr /\ NULL \in Ptr /\ S \in SUBSET Node
      /\ h \in Heap /\ ((left = 0 /\ rt = 1 /\ hv = 1) \/ (left = 1 /\ rt = 0 /\ hv = -1))
      /\ ht \in [Ptr -> Nat] /\ ht[NULL] = 0 /\ rt \in Side /\ left \in Side
      /\ h[x].balance = hv /\ ht[x] = ht[o] + 2
  <2>1. /\ NULL \notin S /\ S \subseteq Node /\ S \subseteq Ptr /\ NULL \in Ptr /\ S \in SUBSET Node
        /\ h \in Heap
    BY NodesAssumption DEF IsTree, Ptr
  <2>2. ((left = 0 /\ rt = 1 /\ hv = 1) \/ (left = 1 /\ rt = 0 /\ hv = -1)) /\ rt \in Side
    BY DEF Side
  <2>3. ht \in [Ptr -> Nat] /\ ht[NULL] = 0
    BY DEF Hts
  <2> QED
    BY <2>1, <2>2, <2>3
<1>1. /\ x \in S /\ x # n /\ gc \in S \cup {NULL} /\ cl \in S \cup {NULL} /\ o \in S \cup {NULL}
  <2>1. AreAround(sub, h, S, n, left)
    BY Around
  <2> QED
    BY <2>1 DEF AreAround
\* The heights below a node other than n.
<1>2. ASSUME NEW m \in S, m # n
      PROVE  /\ Fits(ht[m], h[m].balance, ht[h[m].child[0]], ht[h[m].child[1]])
             /\ ht[m] \in Nat /\ ht[h[m].child[0]] \in Nat /\ ht[h[m].child[1]] \in Nat
             /\ h[m].balance \in -1..1
  <2>1. Fits(ht[m], h[m].balance, Told(ht, h, m, 0, n, side, d), Told(ht, h, m, 1, n, side, d))
    BY DEF Hts
  <2>2. h[m].child[0] \in Ptr /\ h[m].child[1] \in Ptr /\ h[m].balance \in -1..1 /\ m \in Ptr
    BY <1>0 DEF Heap, Slot, Side, Ptr
  <2>3. /\ Told(ht, h, m, 0, n, side, d) = ht[h[m].child[0]]
        /\ Told(ht, h, m, 1, n, side, d) = ht[h[m].child[1]]
    BY <2>2, <1>0, <1>2 DEF Told
  <2> QED
    BY <2>1, <2>2, <2>3, <1>0
<1> HIDE DEF x, hv, rt, o
<1>3. /\ ht[gc] = ht[x] - 1 /\ ht[cl] = ht[x] - 2 /\ ht[o] = ht[x] - 2 /\ ht[x] \in Nat /\ ht[o] \in Nat
  <2>1. /\ Fits(ht[x], hv, ht[h[x].child[0]], ht[h[x].child[1]])
        /\ ht[x] \in Nat /\ ht[h[x].child[0]] \in Nat /\ ht[h[x].child[1]] \in Nat
    BY <1>0, <1>1, <1>2
  <2>2. ht[o] \in Nat
    BY <1>0, <1>1
  <2>3. CASE left = 0
    <3>1. cl = h[x].child[0] /\ gc = h[x].child[1] /\ hv = 1
      BY <2>3, <1>0
    <3> HIDE DEF cl, gc
    <3>2. Fits(ht[x], 1, ht[cl], ht[gc]) /\ ht[cl] \in Nat /\ ht[gc] \in Nat
          /\ ht[x] = ht[o] + 2 /\ ht[x] \in Nat
      BY <2>1, <3>1, <1>0
    <3>3. ht[gc] = ht[cl] + 1 /\ ~ (ht[cl] > ht[gc])
      BY <3>2 DEF Fits
    <3>4. ht[x] = 1 + ht[gc]
      BY <3>2, <3>3 DEF Fits
    <3> QED
      BY <2>2, <3>2, <3>3, <3>4
  <2>4. CASE left = 1
    <3>1. cl = h[x].child[1] /\ gc = h[x].child[0] /\ hv = -1
      BY <2>4, <1>0
    <3> HIDE DEF cl, gc
    <3>2. Fits(ht[x], -1, ht[gc], ht[cl]) /\ ht[cl] \in Nat /\ ht[gc] \in Nat
          /\ ht[x] = ht[o] + 2 /\ ht[x] \in Nat
      BY <2>1, <3>1, <1>0
    <3> QED
      BY <2>2, <3>2 DEF Fits
  <2> QED
    BY <2>3, <2>4, <1>0
<1>4. gc # NULL
  <2> HIDE DEF gc
  <2> QED
    BY <1>0, <1>3
<1>a. AreAroundTwice(sub, h, S, n, left)
  BY <1>4, AroundTwice DEF x, rt
<1>5. /\ gc \in S /\ gc # n /\ gc # x
      /\ gl \in S \cup {NULL} /\ gr \in S \cup {NULL}
      /\ n \notin {gl, gr, cl, o} /\ x \notin {gl, gr, cl, o} /\ gc \notin {gl, gr, cl, o}
  BY <1>a DEF AreAroundTwice, x, rt, o
<1>b. TwiceFields(h, n, left)
  BY <1>a, <1>0, RotateTwiceFields
<1>6. /\ g[n].child[left] = gr /\ g[n].child[rt] = o
      /\ g[x].child[left] = cl /\ g[x].child[rt] = gl
      /\ g[gc].child[left] = x /\ g[gc].child[rt] = n
      /\ g[n].balance = (IF b = -hv THEN hv ELSE 0)
      /\ g[x].balance = (IF b = hv THEN -hv ELSE 0)
      /\ g[gc].balance = 0
  BY <1>b DEF TwiceFields, x, rt, o, hv
<1>7. Rewired(g, h, S, n, {n, x, gc}, gc)
  BY <1>4, RotateTwiceTree DEF x, rt
<1> HIDE DEF gc
<1>8. /\ Fits(ht[gc], b, ht[h[gc].child[0]], ht[h[gc].child[1]])
      /\ ht[gl] \in Nat /\ ht[gr] \in Nat /\ b \in -1..1
  BY <1>0, <1>2, <1>5
<1> HIDE DEF gl, gr, cl, g, b
<1>9. /\ t \in [Ptr -> Nat] /\ t[n] = ht[x] - 1 /\ t[x] = ht[x] - 1 /\ t[gc] = ht[x]
      /\ t[gl] = ht[gl] /\ t[gr] = ht[gr] /\ t[cl] = ht[cl] /\ t[o] = ht[o]
      /\ \A m \in (S \ {n, x, gc}) \cup {NULL} : t[m] = ht[m]
  <2>1. ht[x] - 1 \in Nat
    BY <1>3
  <2>2. {n, x, gc} \subseteq Ptr /\ {gl, gr, cl, o} \subseteq Ptr /\ NULL \notin {n, x, gc}
    BY <1>0, <1>1, <1>5
  <2> QED
    BY <2>1, <2>2, <1>0, <1>1, <1>3, <1>5
<1> HIDE DEF t
<1>10. ASSUME left = 0
       PROVE  \A m \in {n, x, gc} : Fits(t[m], g[m].balance, t[g[m].child[0]], t[g[m].child[1]])
  <2>1. /\ h[gc].child[0] = gl /\ h[gc].child[1] = gr /\ hv = 1
    BY <1>10, <1>0 DEF gl, gr
  <2>2. /\ t[g[n].child[0]] = ht[gr] /\ t[g[n].child[1]] = ht[x] - 2
        /\ t[g[x].child[0]] = ht[x] - 2 /\ t[g[x].child[1]] = ht[gl]
        /\ t[g[gc].child[0]] = ht[x] - 1 /\ t[g[gc].child[1]] = ht[x] - 1
    BY <1>10, <1>0, <1>3, <1>6, <1>9
  <2>3. Fits(ht[x] - 1, b, ht[gl], ht[gr])
    BY <2>1, <1>3, <1>8
  <2>4. /\ Fits(ht[x] - 1, IF b = -1 THEN 1 ELSE 0, ht[gr], ht[x] - 2)
        /\ Fits(ht[x] - 1, IF b = 1 THEN -1 ELSE 0, ht[x] - 2, ht[gl])
        /\ Fits(ht[x], 0, ht[x] - 1, ht[x] - 1)
    BY <2>3, <1>3, <1>8 DEF Fits
  <2> QED
    BY <2>1, <2>2, <2>4, <1>6, <1>9
<1>11. ASSUME left = 1
       PROVE  \A m \in {n, x, gc} : Fits(t[m], g[m].balance, t[g[m].child[0]], t[g[m].child[1]])
  <2>1. /\ h[gc].child[1] = gl /\ h[gc].child[0] = gr /\ hv = -1
    BY <1>11, <1>0 DEF gl, gr
  <2>2. /\ t[g[n].child[1]] = ht[gr] /\ t[g[n].child[0]] = ht[x] - 2
        /\ t[g[x].child[1]] = ht[x] - 2 /\ t[g[x].child[0]] = ht[gl]
        /\ t[g[gc].child[1]] = ht[x] - 1 /\ t[g[gc].child[0]] = ht[x] - 1
    BY <1>11, <1>0, <1>3, <1>6, <1>9
  <2>3. Fits(ht[x] - 1, b, ht[gr], ht[gl])
    BY <2>1, <1>3, <1>8
  <2>4. /\ Fits(ht[x] - 1, IF b = 1 THEN -1 ELSE 0, ht[x] - 2, ht[gr])
        /\ Fits(ht[x] - 1, IF b = -1 THEN 1 ELSE 0, ht[gl], ht[x] - 2)
        /\ Fits(ht[x], 0, ht[x] - 1, ht[x] - 1)
    BY <2>3, <1>3, <1>8 DEF Fits
  <2> QED
    BY <2>1, <2>2, <2>4, <1>6, <1>9
<1>12. \A m \in {n, x, gc} : Fits(t[m], g[m].balance, t[g[m].child[0]], t[g[m].child[1]])
  BY <1>10, <1>11, <1>0
<1>13. Hts(t, g, S, h[n].parent, h[n].index, ht[x] - ht[n])
  <2>1. ht[n] \in Nat
    BY <1>0
  <2>2. ht[x] - ht[n] \in Int /\ t[gc] - (ht[x] - ht[n]) = ht[n]
    BY <2>1, <1>3, <1>9
  <2> DEFINE M == {n, x, gc}
  <2>3. /\ Rewired(g, h, S, n, M, gc) /\ \A m \in (S \ M) \cup {NULL} : t[m] = ht[m]
        /\ \A m \in M : Fits(t[m], g[m].balance, t[g[m].child[0]], t[g[m].child[1]])
        /\ t \in [Ptr -> Nat]
    BY <1>7, <1>9, <1>12
  <2> HIDE DEF M
  <2> QED
    BY <2>2, <2>3, RewireHeights
<1> QED
  BY <1>4, <1>9, <1>13 DEF x, gc, rt, g, TwiceHeights

----------------------------------------------------------------------------
(* avl_rotation.                                                           *)

\* What avl_rotation leaves of a tree whose node n is two higher on its left side.
IsRotated(r, n, left, S, ht) ==
    LET x == nd[n].child[left]
    IN  /\ \E s \in [Ptr -> SUBSET Node] : IsTree(s, r.nd, S, r.root, key)
        /\ \E t \in [Ptr -> Nat] :
              Hts(t, r.nd, S, nd[n].parent, nd[n].index,
                  (IF nd[x].balance = 0 THEN ht[x] + 1 ELSE ht[x]) - ht[n])
        /\ r.shorter <=> nd[x].balance # 0
        /\ \A m \in Slot \ S : r.nd[m] = nd[m]

\* avl_rotation keeps the tree and its heights, and returns whether the subtree is
\* now lower than its heavy side was.
LEMMA RotationDone ==
    ASSUME NEW sub, NEW S, IsTree(sub, nd, S, avl_root, key),
           NEW n \in S, NEW balance \in {-2, 2}, NEW left \in Side,
           left = IF balance < 0 THEN 0 ELSE 1,
           NEW ht, NEW side, NEW d, Hts(ht, nd, S, n, side, d),
           ht[nd[n].child[left]] = ht[nd[n].child[1 - left]] + 2
    PROVE  IsRotated(avl_rotation(n, balance), n, left, S, ht)
<1> DEFINE x  == nd[n].child[left]
           gc == nd[x].child[1 - left]
           r  == avl_rotation(n, balance)
<1>0. /\ NULL \notin S /\ S \subseteq Node /\ S \subseteq Slot /\ S \in SUBSET Node
      /\ nd \in Heap /\ 1 - left \in Side /\ (left = 0 \/ left = 1)
      /\ ht \in [Ptr -> Nat] /\ ht[NULL] = 0
  BY NodesAssumption DEF IsTree, Slot, Side, Hts
<1>1. x # NULL
  <2>1. nd[n].child[1 - left] \in Ptr
    BY <1>0 DEF Heap
  <2> QED
    BY <2>1, <1>0
<1>2. AreAround(sub, nd, S, n, left)
  BY <1>1, Around
<1>3. /\ x \in S /\ nd[x].balance \in -1..1 /\ x # n /\ gc \in S \cup {NULL}
      /\ n # gc /\ x # gc /\ nd[n].parent \notin {n, x} /\ nd[n].parent \in S \cup {NULL}
      /\ nd[n].parent # NULL => nd[n].parent # gc
  <2>1. /\ x \in S /\ x # n /\ gc \in S \cup {NULL}
        /\ n # gc /\ x # gc /\ nd[n].parent \notin {n, x} /\ nd[n].parent \in S \cup {NULL}
        /\ nd[n].parent # NULL => nd[n].parent # gc
    BY <1>2 DEF AreAround
  <2> HIDE DEF x
  <2> QED
    BY <2>1, <1>0 DEF Heap
<1>4. CASE nd[x].balance # (1 - left) - left
  <2>1. /\ r.nd = Rotated1(nd, n, left) /\ r.root = Root(nd[n].parent, x, avl_root)
        /\ r.shorter <=> RotateOnce(nd, n, left)[x].balance = 0
    BY <1>4 DEF avl_rotation, Rotated1
  <2>2. OnceFields(nd, n, left)
    BY <1>0, <1>3, <1>4, RotateOnceFields
  <2>3. /\ RotateOnce(nd, n, left)[x].balance = nd[x].balance + ((1 - left) - left)
        /\ \A m \in Slot \ {n, x, gc, nd[n].parent} : Rotated1(nd, n, left)[m] = nd[m]
    BY <2>2 DEF OnceFields
  <2> HIDE DEF r
  <2>4. \A m \in Slot \ S : r.nd[m] = nd[m]
    <3> SUFFICES ASSUME NEW m \in Slot \ S PROVE r.nd[m] = nd[m]
      OBVIOUS
    <3>1. m \notin {n, x} /\ (m \in {gc, nd[n].parent} => m = NULL)
      BY <1>3
    <3>2. NULL \notin Slot
      BY NodesAssumption DEF Slot
    <3> HIDE DEF x, gc
    <3>3. Rotated1(nd, n, left)[m] = nd[m]
      BY <2>3, <3>1, <3>2
    <3> QED
      BY <2>1, <3>3
  <2>5. r.shorter <=> nd[x].balance # 0
    <3> HIDE DEF x
    <3>1. r.shorter <=> nd[x].balance + ((1 - left) - left) = 0
      BY <2>1, <2>3
    <3> QED
      BY <3>1, <1>3, <1>0, <1>4
  <2>6. \E s \in [Ptr -> SUBSET Node] : IsTree(s, r.nd, S, r.root, key)
    <3>1. \E s \in [Ptr -> SUBSET Node] :
             IsTree(s, Rotated1(nd, n, left), S, Root(nd[n].parent, x, avl_root), key)
      BY <1>1, <1>4, RotateOnceTree
    <3> QED
      BY <3>1, <2>1
  <2>7. PICK t \in [Ptr -> Nat] :
           /\ t[x] = ht[x] + (IF nd[x].balance = 0 THEN 1 ELSE 0)
           /\ Hts(t, Rotated1(nd, n, left), S, nd[n].parent, nd[n].index, t[x] - ht[n])
    <3>1. OnceHeights(nd, S, n, left, ht)
      BY <1>1, <1>4, RotateOnceHeights
    <3> QED
      BY <3>1 DEF OnceHeights
  <2>8. t[x] = IF nd[x].balance = 0 THEN ht[x] + 1 ELSE ht[x]
    <3>1. ht[x] \in Nat
      BY <1>0, <1>3 DEF Ptr
    <3> QED
      BY <3>1, <2>7
  <2> HIDE DEF x
  <2>9. \E v \in [Ptr -> Nat] :
           Hts(v, r.nd, S, nd[n].parent, nd[n].index,
               (IF nd[x].balance = 0 THEN ht[x] + 1 ELSE ht[x]) - ht[n])
    BY <2>7, <2>8, <2>1
  <2> QED
    BY <2>4, <2>5, <2>6, <2>9 DEF IsRotated, r, x
<1>5. CASE nd[x].balance = (1 - left) - left
  <2>h. TwiceHeights(nd, S, n, left, ht)
    BY <1>1, <1>5, RotateTwiceHeights
  <2>0. gc # NULL
    BY <2>h DEF TwiceHeights
  <2>1. /\ r.nd = Rotated2(nd, n, left) /\ r.root = Root(nd[n].parent, gc, avl_root)
        /\ r.shorter <=> RotateTwice(nd, n, left)[gc].balance = 0
    BY <1>5 DEF avl_rotation, Rotated2
  <2>a. AreAroundTwice(sub, nd, S, n, left)
    BY <2>0, <1>1, AroundTwice
  <2>2. TwiceFields(nd, n, left)
    BY <1>0, <2>a, RotateTwiceFields
  <2> DEFINE gl == nd[gc].child[left]
             gr == nd[gc].child[1 - left]
  <2>3. /\ RotateTwice(nd, n, left)[gc].balance = 0
        /\ \A m \in Slot \ {n, x, gc, gl, gr, nd[n].parent} : Rotated2(nd, n, left)[m] = nd[m]
    BY <2>2 DEF TwiceFields
  <2>4. \A m \in Slot \ S : r.nd[m] = nd[m]
    <3> SUFFICES ASSUME NEW m \in Slot \ S PROVE r.nd[m] = nd[m]
      OBVIOUS
    <3>0. gl \in S \cup {NULL} /\ gr \in S \cup {NULL}
      BY <2>a DEF AreAroundTwice
    <3> HIDE DEF gl, gr, gc, x, r
    <3>1. m \notin {n, x} /\ (m \in {gc, gl, gr, nd[n].parent} => m = NULL)
      BY <1>3, <3>0
    <3>2. NULL \notin Slot
      BY NodesAssumption DEF Slot
    <3> QED
      BY <2>1, <2>3, <3>1, <3>2
  <2> HIDE DEF r
  <2>5. r.shorter <=> nd[x].balance # 0
    <3>1. r.shorter
      BY <2>1, <2>3
    <3> HIDE DEF x
    <3>2. nd[x].balance # 0
      BY <1>5, <1>0
    <3> QED
      BY <3>1, <3>2
  <2>6. \E s \in [Ptr -> SUBSET Node] : IsTree(s, r.nd, S, r.root, key)
    <3>1. \E s \in [Ptr -> SUBSET Node] :
             IsTree(s, Rotated2(nd, n, left), S, Root(nd[n].parent, gc, avl_root), key)
      BY <2>0, <1>1, <1>5, RotateTwiceTree
    <3> QED
      BY <3>1, <2>1
  <2>7. PICK t \in [Ptr -> Nat] :
           /\ t[gc] = ht[x]
           /\ Hts(t, Rotated2(nd, n, left), S, nd[n].parent, nd[n].index, t[gc] - ht[n])
    BY <2>h DEF TwiceHeights
  <2> HIDE DEF x, gc
  <2>9. \E v \in [Ptr -> Nat] :
           Hts(v, r.nd, S, nd[n].parent, nd[n].index,
               (IF nd[x].balance = 0 THEN ht[x] + 1 ELSE ht[x]) - ht[n])
    <3>1. nd[x].balance # 0
      BY <1>5, <1>0
    <3> QED
      BY <2>7, <2>1, <3>1
  <2> QED
    BY <2>4, <2>5, <2>6, <2>9 DEF IsRotated, r, x
<1> QED
  BY <1>4, <1>5

----------------------------------------------------------------------------
(* A node with at most one child is taken out.                             *)

\* g is h where x, the only child of n or NULL, has the place of n.
Cut(g, h, S, n, x) ==
    LET p == h[n].parent
        i == h[n].index
    IN  /\ g \in Heap
        /\ \E c \in Side : h[n].child[c] = x /\ h[n].child[1 - c] = NULL
        /\ p # NULL => /\ g[p].child[i] = x /\ g[p].child[1 - i] = h[p].child[1 - i]
                       /\ g[p].parent = h[p].parent /\ g[p].index = h[p].index
                       /\ g[p].balance = h[p].balance
        /\ x # NULL => /\ g[x].parent = p /\ g[x].index = i
                       /\ g[x].child = h[x].child /\ g[x].balance = h[x].balance
        /\ \A m \in S \ {n, x, p} : g[m] = h[m]

\* What is known of the place a node is taken out of.
CutAt(sub, h, S, root, n, x) ==
    LET p == h[n].parent
        i == h[n].index
    IN  /\ p \in S \cup {NULL} /\ i \in Side /\ p # n /\ (p = NULL <=> n = root)
        /\ p # NULL => h[p].child[i] = n
        /\ x \in S \cup {NULL} /\ x # n /\ (x # NULL => h[x].parent = n /\ x # p /\ x # root)
        /\ sub[x] = sub[n] \ {n} /\ n \in sub[n]
        /\ \A m \in S : h[m].parent = n => m = x

\* It is so in every tree.
LEMMA CutPlace ==
    ASSUME NEW sub, NEW h, NEW S, NEW root, NEW k, IsTree(sub, h, S, root, k),
           NEW g, NEW n \in S, NEW x, Cut(g, h, S, n, x)
    PROVE  CutAt(sub, h, S, root, n, x)
<1> DEFINE p == h[n].parent
           i == h[n].index
<1>0. /\ NULL \notin S /\ n \in Slot /\ h \in Heap /\ sub[NULL] = {} /\ Links(h, S, root) /\ S \subseteq Slot
  BY NodesAssumption DEF IsTree, Subs, Slot
<1>1. i \in Side /\ p \in Ptr
  BY <1>0 DEF Heap
<1>2. PICK c \in Side : h[n].child[c] = x /\ h[n].child[1 - c] = NULL
  BY DEF Cut
<1>3. 1 - c \in Side /\ (c = 0 \/ c = 1)
  BY DEF Side
<1>4. /\ x \in S \cup {NULL} /\ n \notin sub[x] /\ n \in sub[n] /\ sub[n] = {n} \cup sub[x] \cup sub[NULL]
  BY <1>2, SubFacts
<1>5. sub[x] = sub[n] \ {n}
  BY <1>0, <1>4
<1>6. x # NULL => x \in sub[x]
  BY <1>4, SubFacts
<1>7. IF n = root THEN p = NULL ELSE p \in S /\ h[p].child[i] = n
  BY <1>0 DEF Links
<1>8. p # NULL => p \notin sub[n]
  <2> SUFFICES ASSUME p # NULL PROVE p \notin sub[n]
    OBVIOUS
  <2>1. p \in S /\ h[p].child[i] = n
    BY <1>7
  <2>2. p \notin sub[h[p].child[i]]
    BY <2>1, <1>1, SubFacts
  <2> QED
    BY <2>1, <2>2
<1>9. x # NULL => h[x].parent = n
  BY <1>0, <1>2 DEF Links
<1>10. \A m \in S : h[m].parent = n => m = x
  <2> SUFFICES ASSUME NEW m \in S, h[m].parent = n PROVE m = x
    OBVIOUS
  <2>1. h[n].child[h[m].index] = m /\ h[m].index \in Side
    BY <1>0 DEF Links, Heap
  <2> QED
    BY <2>1, <1>0, <1>2, <1>3 DEF Side
<1>11. x # root \/ x = NULL
  BY <1>0, <1>4, <1>9 DEF Links
<1>12. (p = NULL <=> n = root) /\ (p # NULL => p \in S /\ h[p].child[i] = n)
  BY <1>0, <1>7
<1> HIDE DEF p, i
<1>13. p \in S \cup {NULL} /\ p # n /\ x # n /\ (x # NULL => x # p)
  BY <1>0, <1>4, <1>5, <1>6, <1>8, <1>12
<1> QED
  BY <1>1, <1>4, <1>5, <1>9, <1>10, <1>11, <1>12, <1>13 DEF CutAt, p, i

\* The subtrees without n.
Without(sub, n) == [m \in Ptr |-> sub[m] \ {n}]

\* A tree without n is a tree.
LEMMA CutTree ==
    ASSUME NEW sub, NEW h, NEW S, NEW root, NEW k, IsTree(sub, h, S, root, k),
           NEW g, NEW n \in S, NEW x, Cut(g, h, S, n, x)
    PROVE  IsTree(Without(sub, n), g, S \ {n}, Root(h[n].parent, x, root), k)
<1> DEFINE p  == h[n].parent
           i  == h[n].index
           T  == S \ {n}
           rt == Root(p, x, root)
           s  == [m \in Ptr |-> sub[m] \ {n}]
<1>0. /\ NULL \notin S /\ S \subseteq Slot /\ S \subseteq Ptr /\ NULL \in Ptr
      /\ h \in Heap /\ sub[NULL] = {} /\ sub \in [Ptr -> SUBSET Node] /\ sub[root] = S
      /\ Links(h, S, root)
  BY NodesAssumption DEF IsTree, Subs, Slot, Ptr
<1>1. /\ p \in S \cup {NULL} /\ i \in Side /\ p # n /\ (p = NULL <=> n = root)
      /\ p # NULL => h[p].child[i] = n
      /\ x \in S \cup {NULL} /\ x # n /\ (x # NULL => h[x].parent = n /\ x # p /\ x # root)
      /\ sub[x] = sub[n] \ {n} /\ n \in sub[n]
      /\ \A m \in S : h[m].parent = n => m = x
  <2>1. CutAt(sub, h, S, root, n, x)
    BY CutPlace
  <2> QED
    BY <2>1 DEF CutAt
<1>2. /\ g \in Heap
      /\ p # NULL => /\ g[p].child[i] = x /\ g[p].child[1 - i] = h[p].child[1 - i]
                     /\ g[p].parent = h[p].parent /\ g[p].index = h[p].index
                     /\ g[p].balance = h[p].balance
      /\ x # NULL => /\ g[x].parent = p /\ g[x].index = i
                     /\ g[x].child = h[x].child /\ g[x].balance = h[x].balance
      /\ \A m \in S \ {n, x, p} : g[m] = h[m]
  BY DEF Cut
<1> HIDE DEF p, i
<1>3. ASSUME NEW m \in T, NEW c \in Side
      PROVE  IF m = p /\ c = i THEN g[m].child[c] = x /\ h[m].child[c] = n
             ELSE g[m].child[c] = h[m].child[c]
  <2>1. CASE m = p /\ c = i
    BY <2>1, <1>0, <1>1, <1>2
  <2>2. CASE m = p /\ c # i
    <3>1. c = 1 - i
      BY <2>2, <1>1 DEF Side
    <3> QED
      BY <2>2, <3>1, <1>0, <1>2
  <2>3. CASE m # p /\ m = x
    BY <2>3, <1>0, <1>2
  <2>4. CASE m # p /\ m # x
    BY <2>4, <1>2
  <2> QED
    BY <2>1, <2>2, <2>3, <2>4
<1>4. ASSUME NEW m \in T, m # x
      PROVE  g[m].parent = h[m].parent /\ g[m].index = h[m].index
  <2>1. CASE m = p
    BY <2>1, <1>0, <1>2
  <2>2. CASE m # p
    BY <2>2, <1>2, <1>4
  <2> QED
    BY <2>1, <2>2
<1>5. rt \in T \cup {NULL} /\ (p = NULL => rt = x) /\ (p # NULL => rt = root /\ rt # n)
  <2>1. root \in S \cup {NULL}
    BY <1>0 DEF Links
  <2> QED
    BY <2>1, <1>0, <1>1 DEF Root
<1> HIDE DEF rt
<1>6. ASSUME NEW m \in T, NEW c \in Side, g[m].child[c] # NULL
      PROVE  g[m].child[c] \in T /\ g[g[m].child[c]].parent = m /\ g[g[m].child[c]].index = c
  <2>1. CASE m = p /\ c = i
    BY <2>1, <1>1, <1>2, <1>3, <1>6
  <2>2. CASE ~ (m = p /\ c = i)
    <3> DEFINE y == h[m].child[c]
    <3>1. g[m].child[c] = y
      BY <2>2, <1>3
    <3>2. y \in S /\ h[y].parent = m /\ h[y].index = c
      BY <3>1, <1>0, <1>6 DEF Links
    <3> HIDE DEF y
    <3>3. y # n
      BY <3>2, <2>2 DEF p, i
    <3>4. y # x
      BY <3>2, <1>0, <1>1
    <3> QED
      BY <3>1, <3>2, <3>3, <3>4, <1>4
  <2> QED
    BY <2>1, <2>2
<1>7. ASSUME NEW m \in T
      PROVE  IF m = rt THEN g[m].parent = NULL
             ELSE g[m].parent \in T /\ g[g[m].parent].child[g[m].index] = m
  <2>1. CASE m = x
    BY <2>1, <1>0, <1>1, <1>2, <1>5
  <2>2. CASE m # x /\ m = rt
    <3>1. m = root
      BY <2>2, <1>5
    <3>2. h[m].parent = NULL
      BY <3>1, <1>0 DEF Links
    <3> QED
      BY <3>2, <2>2, <1>4
  <2>3. CASE m # x /\ m # rt
    <3> DEFINE q == h[m].parent
               j == h[m].index
    <3>1. m # root
      BY <2>3, <1>1, <1>5
    <3>2. q \in S /\ h[q].child[j] = m /\ j \in Side
      BY <3>1, <1>0 DEF Links, Heap
    <3>3. g[m].parent = q /\ g[m].index = j
      BY <2>3, <1>4
    <3>4. q # n
      BY <2>3, <1>1
    <3> HIDE DEF q, j
    <3>5. ~ (q = p /\ j = i)
      BY <3>2, <1>0, <1>1
    <3>6. g[q].child[j] = m
      BY <3>2, <3>4, <3>5, <1>3
    <3> QED
      BY <2>3, <3>2, <3>3, <3>4, <3>6
  <2> QED
    BY <2>1, <2>2, <2>3
<1>8. Links(g, T, rt)
  BY <1>5, <1>6, <1>7 DEF Links
<1>9. ASSUME NEW m \in T
      PROVE  s[m] = {m} \cup s[g[m].child[0]] \cup s[g[m].child[1]]
  <2>1. ASSUME NEW c \in Side
        PROVE  s[g[m].child[c]] = sub[h[m].child[c]] \ {n}
    <3>1. g[m].child[c] \in Ptr /\ h[m].child[c] \in Ptr
      BY <1>0, <1>2 DEF Heap
    <3>2. s[g[m].child[c]] = sub[g[m].child[c]] \ {n}
      BY <3>1
    <3> HIDE DEF s
    <3>3. CASE m = p /\ c = i
      BY <3>2, <3>3, <1>1, <1>3
    <3>4. CASE ~ (m = p /\ c = i)
      BY <3>2, <3>4, <1>3
    <3> QED
      BY <3>3, <3>4
  <2>2. sub[m] = {m} \cup sub[h[m].child[0]] \cup sub[h[m].child[1]]
    BY DEF IsTree, Subs
  <2>3. s[m] = sub[m] \ {n} /\ m # n
    BY <1>0
  <2>4. s[g[m].child[0]] = sub[h[m].child[0]] \ {n} /\ s[g[m].child[1]] = sub[h[m].child[1]] \ {n}
    BY <2>1 DEF Side
  <2> HIDE DEF s
  <2> QED
    BY <2>2, <2>3, <2>4
<1>10. ASSUME NEW m \in T, NEW c \in Side, NEW y \in s[g[m].child[c]]
       PROVE  Beyond(k[y], k[m], c)
  <2>1. y \in sub[g[m].child[c]]
    <3>1. g[m].child[c] \in Ptr
      BY <1>0, <1>2 DEF Heap
    <3> QED
      BY <3>1
  <2>2. y \in sub[h[m].child[c]]
    BY <2>1, <1>1, <1>3
  <2> QED
    BY <2>2 DEF IsTree, Subs
<1>11. Subs(s, g, T, rt, k)
  <2>1. s \in [Ptr -> SUBSET Node] /\ s[NULL] = {}
    BY <1>0
  <2>2. s[rt] = T
    <3>1. rt \in Ptr
      BY <1>0, <1>5
    <3>2. s[rt] = sub[rt] \ {n}
      BY <3>1
    <3> QED
      BY <3>2, <1>0, <1>1, <1>5
  <2>3. \A m \in T : s[m] \subseteq T
    <3> SUFFICES ASSUME NEW m \in T PROVE s[m] \subseteq T
      OBVIOUS
    <3>1. sub[m] \subseteq S
      BY SubFacts
    <3> QED
      BY <3>1, <1>0
  <2>4. \A m, y \in T : k[m] = k[y] => m = y
    BY DEF IsTree, Subs
  <2> HIDE DEF s
  <2> QED
    BY <2>1, <2>2, <2>3, <2>4, <1>9, <1>10 DEF Subs
<1>12. T \in SUBSET Node /\ IsFiniteSet(T) /\ k \in [Node -> Int]
  BY FS_Subset DEF IsTree
<1> QED
  BY <1>2, <1>8, <1>11, <1>12 DEF IsTree, Without, rt, p

\* Its heights: the place of n is one lower.
LEMMA CutHeights ==
    ASSUME NEW sub, NEW h, NEW S, NEW root, NEW k, IsTree(sub, h, S, root, k),
           NEW g, NEW n \in S, NEW x, Cut(g, h, S, n, x),
           NEW ht, NEW side, NEW d, Hts(ht, h, S, NULL, side, d)
    PROVE  Hts(ht, g, S \ {n}, h[n].parent, h[n].index, -1)
<1> DEFINE p  == h[n].parent
           i  == h[n].index
<1>0. /\ NULL \notin S /\ S \subseteq Slot /\ h \in Heap /\ ht \in [Ptr -> Nat] /\ ht[NULL] = 0
      /\ S \subseteq Ptr
  BY NodesAssumption DEF IsTree, Slot, Hts, Ptr
<1>1. /\ p \in S \cup {NULL} /\ i \in Side /\ p # n /\ (p # NULL => h[p].child[i] = n)
      /\ x \in S \cup {NULL} /\ x # n /\ (x # NULL => x # p)
  <2>1. CutAt(sub, h, S, root, n, x)
    BY CutPlace
  <2> QED
    BY <2>1 DEF CutAt
<1>2. /\ g \in Heap
      /\ p # NULL => /\ g[p].child[i] = x /\ g[p].child[1 - i] = h[p].child[1 - i]
                     /\ g[p].balance = h[p].balance
      /\ x # NULL => g[x].child = h[x].child /\ g[x].balance = h[x].balance
      /\ \A m \in S \ {n, x, p} : g[m] = h[m]
      /\ \E c \in Side : h[n].child[c] = x /\ h[n].child[1 - c] = NULL
  BY DEF Cut
<1> HIDE DEF p, i
<1>3. \A m \in S : Fits(ht[m], h[m].balance, ht[h[m].child[0]], ht[h[m].child[1]])
  <2> SUFFICES ASSUME NEW m \in S
               PROVE  Fits(ht[m], h[m].balance, ht[h[m].child[0]], ht[h[m].child[1]])
    OBVIOUS
  <2>1. Fits(ht[m], h[m].balance, Told(ht, h, m, 0, NULL, side, d), Told(ht, h, m, 1, NULL, side, d))
    BY DEF Hts
  <2>2. \A c \in Side : ht[h[m].child[c]] \in Nat /\ m # NULL
    BY <1>0 DEF Heap
  <2>3. \A c \in Side : Told(ht, h, m, c, NULL, side, d) = ht[h[m].child[c]]
    BY <2>2 DEF Told
  <2> QED
    BY <2>1, <2>3 DEF Side
<1>4. ht[x] \in Nat /\ ht[n] = ht[x] + 1
  <2>1. PICK c \in Side : h[n].child[c] = x /\ h[n].child[1 - c] = NULL
    BY <1>2
  <2>2. c = 0 \/ c = 1
    BY DEF Side
  <2>3. ht[x] \in Nat /\ ht[n] \in Nat
    BY <1>0, <1>1
  <2>4. Fits(ht[n], h[n].balance, ht[h[n].child[0]], ht[h[n].child[1]])
    BY <1>3
  <2>5. CASE c = 0
    BY <2>1, <2>3, <2>4, <2>5, <1>0 DEF Fits
  <2>6. CASE c = 1
    BY <2>1, <2>3, <2>4, <2>6, <1>0 DEF Fits
  <2> QED
    BY <2>2, <2>5, <2>6
<1>5. ASSUME NEW m \in S \ {n}
      PROVE  Fits(ht[m], g[m].balance, Told(ht, g, m, 0, p, i, -1), Told(ht, g, m, 1, p, i, -1))
  <2>0. Fits(ht[m], h[m].balance, ht[h[m].child[0]], ht[h[m].child[1]])
    BY <1>3
  <2>1. CASE m # p
    <3>1. g[m].child = h[m].child /\ g[m].balance = h[m].balance
      BY <2>1, <1>0, <1>2
    <3>2. \A c \in Side : ht[h[m].child[c]] \in Nat
      BY <1>0 DEF Heap
    <3>3. \A c \in Side : Told(ht, g, m, c, p, i, -1) = ht[h[m].child[c]]
      BY <2>1, <3>1, <3>2 DEF Told
    <3> QED
      BY <2>0, <3>1, <3>3 DEF Side
  <2>2. CASE m = p
    <3>1. g[m].balance = h[m].balance /\ m # NULL
      BY <2>2, <1>0, <1>2
    <3>2. Told(ht, g, m, i, p, i, -1) = ht[h[m].child[i]]
      BY <2>2, <3>1, <1>1, <1>2, <1>4 DEF Told
    <3>3. Told(ht, g, m, 1 - i, p, i, -1) = ht[h[m].child[1 - i]]
      <4>1. 1 - i # i /\ 1 - i \in Side
        BY <1>1 DEF Side
      <4>2. ht[h[m].child[1 - i]] \in Nat
        BY <4>1, <1>0 DEF Heap
      <4>3. g[m].child[1 - i] = h[m].child[1 - i]
        BY <2>2, <3>1, <1>2
      <4> QED
        BY <4>1, <4>2, <4>3 DEF Told
    <3>4. CASE i = 0
      BY <2>0, <3>1, <3>2, <3>3, <3>4
    <3>5. CASE i = 1
      BY <2>0, <3>1, <3>2, <3>3, <3>5
    <3> QED
      BY <3>4, <3>5, <1>1 DEF Side
  <2> QED
    BY <2>1, <2>2
<1> QED
  BY <1>0, <1>5 DEF Hts, p, i

----------------------------------------------------------------------------
(* Another node takes the place of a node.                                 *)

\* z for n.
As(m, n, z) == IF m = n THEN z ELSE m

\* g is h with the node z, which is not in the tree, in the place of n.
Renamed(g, h, S, n, z) ==
    /\ g \in Heap
    /\ \A m \in S : /\ g[As(m, n, z)].parent = As(h[m].parent, n, z)
                    /\ g[As(m, n, z)].index = h[m].index
                    /\ g[As(m, n, z)].balance = h[m].balance
                    /\ \A c \in Side : g[As(m, n, z)].child[c] = As(h[m].child[c], n, z)

\* A tree where z, whose key lies between the same keys, is in the place of n is a tree.
LEMMA RenameTree ==
    ASSUME NEW sub, NEW h, NEW S, NEW root, NEW k, IsTree(sub, h, S, root, k),
           NEW g, NEW n \in S, NEW z \in Node \ S, Renamed(g, h, S, n, z),
           \A m \in S \ {n}, c \in Side : Beyond(k[m], k[n], c) => Beyond(k[m], k[z], c)
    PROVE  \E s \in [Ptr -> SUBSET Node] : IsTree(s, g, (S \ {n}) \cup {z}, As(root, n, z), k)
<1> DEFINE T    == (S \ {n}) \cup {z}
           A(m) == As(m, n, z)
           B(m) == IF m = z THEN n ELSE m
           s    == [m \in Ptr |-> IF m = n THEN {} ELSE {A(y) : y \in sub[B(m)]}]
<1>0. /\ NULL \notin S /\ NULL \notin T /\ S \subseteq Ptr /\ T \subseteq Ptr /\ NULL \in Ptr /\ z # NULL
      /\ S \subseteq Node /\ T \subseteq Node /\ n # z /\ n # NULL
  BY NodesAssumption DEF IsTree, Ptr
<1>1. /\ h \in Heap /\ Links(h, S, root) /\ sub \in [Ptr -> SUBSET Node] /\ sub[NULL] = {} /\ sub[root] = S
      /\ \A m \in Node : k[m] \in Int
  BY DEF IsTree, Subs
<1>2. g \in Heap
  BY DEF Renamed
<1>3. \A m \in S \cup {NULL} : A(m) \in T \cup {NULL} /\ (A(m) = NULL <=> m = NULL) /\ B(A(m)) = m
  BY <1>0 DEF As
<1>4. \A y \in T : B(y) \in S /\ A(B(y)) = y
  BY <1>0 DEF As
<1>5. ASSUME NEW m \in S
      PROVE  /\ g[A(m)].parent = A(h[m].parent) /\ g[A(m)].index = h[m].index
             /\ \A c \in Side : g[A(m)].child[c] = A(h[m].child[c])
  BY DEF Renamed
<1>6. A(root) \in T \cup {NULL}
  BY <1>1, <1>3 DEF Links
<1> HIDE DEF A, B
<1>7. ASSUME NEW y \in T, NEW c \in Side, g[y].child[c] # NULL
      PROVE  g[y].child[c] \in T /\ g[g[y].child[c]].parent = y /\ g[g[y].child[c]].index = c
  <2> DEFINE m == B(y)
             w == h[m].child[c]
  <2>1. m \in S /\ y = A(m)
    BY <1>4
  <2> HIDE DEF m
  <2>2. g[y].child[c] = A(w)
    BY <2>1, <1>5
  <2>3. w \in S \cup {NULL}
    BY <2>1, SubFacts
  <2>4. w # NULL
    BY <2>2, <2>3, <1>3, <1>7
  <2>5. w \in S /\ h[w].parent = m /\ h[w].index = c
    BY <2>1, <2>4, <1>1 DEF Links
  <2> HIDE DEF w
  <2>6. A(w) \in T
    BY <2>5, <1>0, <1>3
  <2> QED
    BY <2>1, <2>2, <2>5, <2>6, <1>5
<1>8. ASSUME NEW y \in T
      PROVE  IF y = A(root) THEN g[y].parent = NULL
             ELSE g[y].parent \in T /\ g[g[y].parent].child[g[y].index] = y
  <2> DEFINE m == B(y)
             q == h[m].parent
             j == h[m].index
  <2>1. m \in S /\ y = A(m)
    BY <1>4
  <2> HIDE DEF m
  <2>2. g[y].parent = A(q) /\ g[y].index = j
    BY <2>1, <1>5
  <2>3. CASE m = root
    <3>1. q = NULL
      BY <2>1, <2>3, <1>1 DEF Links
    <3> QED
      BY <2>1, <2>2, <2>3, <3>1, <1>3
  <2>4. CASE m # root
    <3>1. q \in S /\ h[q].child[j] = m
      BY <2>1, <2>4, <1>1 DEF Links
    <3>2. j \in Side
      BY <2>1, <1>0, <1>1 DEF Heap, Slot
    <3> HIDE DEF q, j
    <3>3. A(q) \in T /\ g[A(q)].child[j] = y
      BY <2>1, <3>1, <3>2, <1>0, <1>3, <1>5
    <3>4. y # A(root)
      <4>1. root \in S \cup {NULL}
        BY <1>1 DEF Links
      <4> QED
        BY <4>1, <2>1, <2>4, <1>3
    <3> QED
      BY <2>2, <3>3, <3>4
  <2> QED
    BY <2>3, <2>4
<1>9. Links(g, T, A(root))
  <2> HIDE DEF T
  <2> QED
    BY <1>6, <1>7, <1>8 DEF Links
<1>10. ASSUME NEW m \in S \cup {NULL}
       PROVE  s[A(m)] = {A(y) : y \in sub[m]}
  <2>1. A(m) \in Ptr /\ A(m) # n
    BY <1>0 DEF A, As, Ptr
  <2>2. B(A(m)) = m
    BY <1>3
  <2> QED
    BY <2>1, <2>2
<1>11. s[NULL] = {} /\ s \in [Ptr -> SUBSET Node]
  <2>1. s[NULL] = {}
    BY <1>0, <1>1 DEF B
  <2>2. ASSUME NEW m \in Ptr, NEW y \in s[m]
        PROVE  y \in Node
    BY <2>2, <1>0, <1>1 DEF A, As, B, Ptr
  <2>3. s \in [Ptr -> SUBSET Node]
    <3>1. \A m \in Ptr : s[m] \in SUBSET Node
      BY <2>2
    <3> QED
      BY <3>1
  <2> QED
    BY <2>1, <2>3
<1>12. s[A(root)] = T
  <2>1. root \in S \cup {NULL}
    BY <1>1 DEF Links
  <2>2. s[A(root)] = {A(y) : y \in S}
    BY <2>1, <1>10, <1>1
  <2>3. {A(y) : y \in S} = T
    BY DEF A, As
  <2> QED
    BY <2>2, <2>3
<1>13. ASSUME NEW m \in S
       PROVE  /\ s[A(m)] = {A(m)} \cup s[g[A(m)].child[0]] \cup s[g[A(m)].child[1]]
              /\ s[A(m)] \subseteq T
              /\ \A c \in Side : s[g[A(m)].child[c]] = {A(y) : y \in sub[h[m].child[c]]}
  <2>1. sub[m] = {m} \cup sub[h[m].child[0]] \cup sub[h[m].child[1]] /\ sub[m] \subseteq S
    BY DEF IsTree, Subs
  <2>2. ASSUME NEW c \in Side
        PROVE  s[g[A(m)].child[c]] = {A(y) : y \in sub[h[m].child[c]]}
    <3>1. h[m].child[c] \in S \cup {NULL}
      BY SubFacts
    <3>2. g[A(m)].child[c] = A(h[m].child[c])
      BY <1>5
    <3> HIDE DEF s
    <3> QED
      BY <3>1, <3>2, <1>10
  <2>3. /\ s[g[A(m)].child[0]] = {A(y) : y \in sub[h[m].child[0]]}
        /\ s[g[A(m)].child[1]] = {A(y) : y \in sub[h[m].child[1]]}
    BY <2>2 DEF Side
  <2>4. s[A(m)] = {A(y) : y \in sub[m]}
    BY <1>10
  <2> HIDE DEF s
  <2>5. s[A(m)] \subseteq T
    BY <2>1, <2>4, <1>0, <1>3
  <2>6. {A(y) : y \in sub[m]}
           = {A(m)} \cup {A(y) : y \in sub[h[m].child[0]]} \cup {A(y) : y \in sub[h[m].child[1]]}
    BY <2>1
  <2> QED
    BY <2>2, <2>3, <2>4, <2>5, <2>6
<1>14. ASSUME NEW m \in S, NEW y \in S, m # y, NEW c \in Side, Beyond(k[y], k[m], c)
       PROVE  Beyond(k[A(y)], k[A(m)], c)
  <2>0. k[y] \in Int /\ k[m] \in Int /\ k[z] \in Int /\ k[n] \in Int /\ (c = 0 \/ c = 1)
    BY <1>0, <1>1 DEF Side
  <2>1. CASE m = n
    BY <2>1, <1>14 DEF A, As
  <2>2. CASE m # n /\ y # n
    BY <2>2, <1>14 DEF A, As
  <2>3. CASE y = n
    <3>1. A(y) = z /\ A(m) = m /\ m # n
      BY <2>3, <1>14 DEF A, As
    <3>2. Beyond(k[m], k[n], 1 - c) /\ 1 - c \in Side
      BY <2>0, <2>3, <1>14 DEF Beyond, Side
    <3>3. Beyond(k[m], k[z], 1 - c)
      BY <3>1, <3>2
    <3>4. Beyond(k[z], k[m], c)
      BY <3>3, <2>0 DEF Beyond
    <3> QED
      BY <3>1, <3>4
  <2> QED
    BY <2>1, <2>2, <2>3
<1>15. ASSUME NEW a \in T, NEW c \in Side, NEW b \in s[g[a].child[c]]
       PROVE  Beyond(k[b], k[a], c)
  <2> DEFINE m == B(a)
  <2>1. m \in S /\ a = A(m)
    BY <1>4
  <2> HIDE DEF m
  <2>2. PICK y \in sub[h[m].child[c]] : b = A(y)
    BY <2>1, <1>13, <1>15
  <2>3. y \in S /\ Beyond(k[y], k[m], c) /\ y # m
    <3>1. sub[h[m].child[c]] \subseteq sub[m] /\ sub[m] \subseteq S /\ m \notin sub[h[m].child[c]]
      BY <2>1, SubFacts
    <3>2. Beyond(k[y], k[m], c)
      BY <2>1, <2>2 DEF IsTree, Subs
    <3> QED
      BY <3>1, <3>2, <2>2
  <2> QED
    BY <2>1, <2>2, <2>3, <1>14
<1>16. ASSUME NEW a \in T, NEW b \in T, k[a] = k[b]
       PROVE  a = b
  <2> DEFINE m == B(a)
             y == B(b)
  <2>1. m \in S /\ a = A(m) /\ y \in S /\ b = A(y)
    BY <1>4
  <2> HIDE DEF m, y
  <2> SUFFICES ASSUME m # y PROVE FALSE
    BY <2>1
  <2>2. k[m] # k[y] /\ k[m] \in Int /\ k[y] \in Int
    BY <2>1, <1>0, <1>1 DEF IsTree, Subs
  <2>3. PICK c \in Side : Beyond(k[y], k[m], c)
    <3>1. 0 \in Side /\ 1 \in Side
      BY DEF Side
    <3>2. Beyond(k[y], k[m], 0) \/ Beyond(k[y], k[m], 1)
      BY <2>2 DEF Beyond
    <3> QED
      BY <3>1, <3>2
  <2>4. Beyond(k[b], k[a], c)
    BY <2>1, <2>3, <1>14
  <2>5. k[a] \in Int /\ k[b] \in Int
    BY <1>0, <1>1
  <2> QED
    BY <2>4, <2>5, <1>16 DEF Beyond
<1>17. Subs(s, g, T, A(root), k)
  <2>1. \A a \in T : /\ s[a] \subseteq T
                     /\ s[a] = {a} \cup s[g[a].child[0]] \cup s[g[a].child[1]]
    <3> HIDE DEF s, T
    <3> QED
      BY <1>4, <1>13
  <2> HIDE DEF s, T
  <2> QED
    BY <2>1, <1>11, <1>12, <1>15, <1>16 DEF Subs
<1>18. T \in SUBSET Node /\ IsFiniteSet(T) /\ k \in [Node -> Int]
  <2>1. IsFiniteSet(S) /\ k \in [Node -> Int]
    BY DEF IsTree
  <2>2. IsFiniteSet(S \ {n})
    BY <2>1, FS_Subset
  <2> QED
    BY <2>1, <2>2, <1>0, FS_AddElement
<1>19. IsTree(s, g, T, A(root), k)
  <2> HIDE DEF s, T
  <2> QED
    BY <1>2, <1>9, <1>17, <1>18 DEF IsTree
<1> HIDE DEF s
<1> QED
  BY <1>11, <1>19 DEF A

\* Its heights are the same.
LEMMA RenameHeights ==
    ASSUME NEW sub, NEW h, NEW S, NEW root, NEW k, IsTree(sub, h, S, root, k),
           NEW g, NEW n \in S, NEW z \in Node \ S, Renamed(g, h, S, n, z),
           NEW ht, NEW at \in S \cup {NULL}, NEW side, NEW d, Hts(ht, h, S, at, side, d)
    PROVE  \E t \in [Ptr -> Nat] : Hts(t, g, (S \ {n}) \cup {z}, As(at, n, z), side, d)
<1> DEFINE T    == (S \ {n}) \cup {z}
           A(m) == As(m, n, z)
           B(m) == IF m = z THEN n ELSE m
           t    == [m \in Ptr |-> ht[B(m)]]
<1>0. /\ NULL \notin S /\ S \subseteq Ptr /\ NULL \in Ptr /\ z \in Ptr /\ z # NULL /\ n # z /\ n # NULL /\ n \in Ptr
      /\ ht \in [Ptr -> Nat] /\ ht[NULL] = 0
  BY NodesAssumption DEF IsTree, Ptr, Hts
<1>1. t \in [Ptr -> Nat] /\ t[NULL] = 0
  BY <1>0
<1>2. \A m \in S \cup {NULL} : t[A(m)] = ht[m]
  BY <1>0 DEF As
<1>3. ASSUME NEW m \in S
      PROVE  Fits(t[A(m)], g[A(m)].balance, Told(t, g, A(m), 0, A(at), side, d),
                                            Told(t, g, A(m), 1, A(at), side, d))
  <2>1. Fits(ht[m], h[m].balance, Told(ht, h, m, 0, at, side, d), Told(ht, h, m, 1, at, side, d))
    BY DEF Hts
  <2>2. ASSUME NEW c \in Side
        PROVE  Told(t, g, A(m), c, A(at), side, d) = Told(ht, h, m, c, at, side, d)
    <3>1. h[m].child[c] \in S \cup {NULL}
      BY SubFacts
    <3>2. g[A(m)].child[c] = A(h[m].child[c])
      BY DEF Renamed
    <3>3. t[g[A(m)].child[c]] = ht[h[m].child[c]]
      <4> HIDE DEF t
      <4> QED
        BY <3>1, <3>2, <1>2
    <3>4. A(m) = A(at) <=> m = at
      BY <1>0 DEF As
    <3> HIDE DEF t
    <3> QED
      BY <3>3, <3>4 DEF Told
  <2>3. t[A(m)] = ht[m] /\ g[A(m)].balance = h[m].balance
    BY <1>2 DEF Renamed
  <2> HIDE DEF t
  <2> QED
    BY <2>1, <2>2, <2>3 DEF Side
<1>4. \A y \in T : \E m \in S : y = A(m)
  BY <1>0 DEF As
<1>5. Hts(t, g, T, A(at), side, d)
  <2> HIDE DEF t, T, A
  <2> QED
    BY <1>1, <1>3, <1>4 DEF Hts
<1> QED
  BY <1>1, <1>5

----------------------------------------------------------------------------
(* avl_remove up to its loop.  Its pointers may lead to Tmp on the way.    *)

\* g is h with the parent of a set to b.
ParentSet(g, h, a, b) ==
    \A m \in Slot : /\ g[m].parent = (IF m = a THEN b ELSE h[m].parent)
                    /\ g[m].child = h[m].child /\ g[m].index = h[m].index
                    /\ g[m].balance = h[m].balance

\* "a->parent = b" changes nothing else.
LEMMA SetParent ==
    ASSUME NEW P, NEW h \in HeapOf(P), NEW a \in Slot, NEW b \in P,
           NEW g, g = [h EXCEPT ![a].parent = b]
    PROVE  g \in HeapOf(P) /\ ParentSet(g, h, a, b)
<1> DEFINE R == [child : [Side -> P], parent : P, index : Side, balance : -1..1]
<1>1. h[a] \in R
  BY DEF HeapOf
<1>2. g = [h EXCEPT ![a] = [h[a] EXCEPT !.parent = b]]
  BY DEF HeapOf
<1>3. [h[a] EXCEPT !.parent = b] \in R
  BY <1>1
<1>4. g \in HeapOf(P)
  <2> DEFINE r == [h[a] EXCEPT !.parent = b]
  <2>1. r \in R /\ g = [h EXCEPT ![a] = r]
    BY <1>2, <1>3
  <2> HIDE DEF r
  <2> QED
    BY <2>1 DEF HeapOf
<1>5. g[a] = [h[a] EXCEPT !.parent = b] /\ \A m \in Slot \ {a} : g[m] = h[m]
  BY <1>2 DEF HeapOf
<1> QED
  BY <1>1, <1>4, <1>5 DEF ParentSet

\* g is h with the index of a set to b.
IndexSet(g, h, a, b) ==
    \A m \in Slot : /\ g[m].index = (IF m = a THEN b ELSE h[m].index)
                    /\ g[m].child = h[m].child /\ g[m].parent = h[m].parent
                    /\ g[m].balance = h[m].balance

\* "a->index = b" changes nothing else.
LEMMA SetIndex ==
    ASSUME NEW P, NEW h \in HeapOf(P), NEW a \in Slot, NEW b \in Side,
           NEW g, g = [h EXCEPT ![a].index = b]
    PROVE  g \in HeapOf(P) /\ IndexSet(g, h, a, b)
<1> DEFINE R == [child : [Side -> P], parent : P, index : Side, balance : -1..1]
<1>1. h[a] \in R
  BY DEF HeapOf
<1>2. g = [h EXCEPT ![a] = [h[a] EXCEPT !.index = b]]
  BY DEF HeapOf
<1>3. [h[a] EXCEPT !.index = b] \in R
  BY <1>1
<1>4. g \in HeapOf(P)
  <2> DEFINE r == [h[a] EXCEPT !.index = b]
  <2>1. r \in R /\ g = [h EXCEPT ![a] = r]
    BY <1>2, <1>3
  <2> HIDE DEF r
  <2> QED
    BY <2>1 DEF HeapOf
<1>5. g[a] = [h[a] EXCEPT !.index = b] /\ \A m \in Slot \ {a} : g[m] = h[m]
  BY <1>2 DEF HeapOf
<1> QED
  BY <1>1, <1>4, <1>5 DEF IndexSet

\* "a->child[c] = b".
WithChild(h, a, c, b) == [h EXCEPT ![a].child[c] = b]

\* g is h with child c of a set to b.
ChildSet(g, h, a, c, b) ==
    \A m \in Slot :
        /\ g[m].parent = h[m].parent /\ g[m].index = h[m].index /\ g[m].balance = h[m].balance
        /\ \A j \in Side : g[m].child[j] = IF m = a /\ j = c THEN b ELSE h[m].child[j]

\* "a->child[c] = b" changes nothing else.
LEMMA SetChild ==
    ASSUME NEW P, NEW h \in HeapOf(P), NEW a \in Slot, NEW c \in Side, NEW b \in P,
           NEW g, g = WithChild(h, a, c, b)
    PROVE  g \in HeapOf(P) /\ ChildSet(g, h, a, c, b)
<1> DEFINE R == [child : [Side -> P], parent : P, index : Side, balance : -1..1]
           f == [h[a].child EXCEPT ![c] = b]
           r == [h[a] EXCEPT !.child = f]
<1>1. h[a] \in R
  BY DEF HeapOf
<1>2. g = [h EXCEPT ![a] = r]
  BY DEF HeapOf, WithChild
<1>3. f \in [Side -> P] /\ \A j \in Side : f[j] = IF j = c THEN b ELSE h[a].child[j]
  BY <1>1
<1> HIDE DEF f
<1>4. /\ r \in R /\ r.child = f /\ r.parent = h[a].parent /\ r.index = h[a].index
      /\ r.balance = h[a].balance
  BY <1>1, <1>3
<1> HIDE DEF r
<1>5. g \in HeapOf(P)
  BY <1>2, <1>4 DEF HeapOf
<1>6. g[a] = r /\ \A m \in Slot \ {a} : g[m] = h[m]
  BY <1>2 DEF HeapOf
<1>7. ASSUME NEW m \in Slot
      PROVE  /\ g[m].parent = h[m].parent /\ g[m].index = h[m].index
             /\ g[m].balance = h[m].balance
             /\ \A j \in Side : g[m].child[j] = IF m = a /\ j = c THEN b ELSE h[m].child[j]
  <2>1. CASE m = a
    BY <2>1, <1>3, <1>4, <1>6
  <2>2. CASE m # a
    BY <2>2, <1>6
  <2> QED
    BY <2>1, <2>2
<1> QED
  BY <1>5, <1>7 DEF ChildSet

\* x, which may be NULL, is at side c of p, or at the root when p is NULL.
IsSpliced(g, h, p, c, x) ==
    \A m \in Slot :
        /\ g[m].parent = (IF m = x THEN p ELSE h[m].parent)
        /\ g[m].index = (IF m = x THEN c ELSE h[m].index)
        /\ g[m].balance = h[m].balance
        /\ \A j \in Side : g[m].child[j] = IF m = p /\ j = c THEN x ELSE h[m].child[j]

\* What connecting p and x sets.
LEMMA SpliceFields ==
    ASSUME NEW P, NULL \in P, P \subseteq Slot \cup {NULL}, NEW h \in HeapOf(P),
           NEW p \in P, NEW c \in Side, NEW x \in P
    PROVE  /\ Put(Relink(h, x, p, c), p, c, x) \in HeapOf(P)
           /\ IsSpliced(Put(Relink(h, x, p, c), p, c, x), h, p, c, x)
<1> DEFINE f == Relink(h, x, p, c)
           g == Put(f, p, c, x)
<1>0. NULL \notin Slot
  BY NodesAssumption DEF Slot
<1>1. /\ f \in HeapOf(P)
      /\ \A m \in Slot : /\ f[m].parent = (IF m = x THEN p ELSE h[m].parent)
                         /\ f[m].index = (IF m = x THEN c ELSE h[m].index)
                         /\ f[m].balance = h[m].balance /\ f[m].child = h[m].child
  <2>1. CASE x = NULL
    BY <2>1, <1>0 DEF Relink
  <2>2. CASE x # NULL
    <3> DEFINE e == [h EXCEPT ![x].parent = p]
    <3>0. x \in Slot
      BY <2>2
    <3>1. e \in HeapOf(P) /\ ParentSet(e, h, x, p)
      BY <3>0, SetParent
    <3>2. f = [e EXCEPT ![x].index = c]
      BY <2>2 DEF Relink
    <3> HIDE DEF e, f
    <3>3. f \in HeapOf(P) /\ IndexSet(f, e, x, c)
      BY <3>0, <3>1, <3>2, SetIndex
    <3> QED
      BY <3>1, <3>3 DEF ParentSet, IndexSet
  <2> QED
    BY <2>1, <2>2
<1> HIDE DEF f
<1>2. /\ g \in HeapOf(P)
      /\ \A m \in Slot : /\ g[m].parent = f[m].parent /\ g[m].index = f[m].index
                         /\ g[m].balance = f[m].balance
                         /\ \A j \in Side : g[m].child[j] = IF m = p /\ j = c THEN x
                                                            ELSE f[m].child[j]
  <2>1. CASE p = NULL
    BY <2>1, <1>0, <1>1 DEF Put
  <2>2. CASE p # NULL
    <3>1. p \in Slot /\ g = WithChild(f, p, c, x)
      BY <2>2 DEF Put, WithChild
    <3> HIDE DEF g
    <3>0. f \in HeapOf(P)
      BY <1>1
    <3>2. g \in HeapOf(P) /\ ChildSet(g, f, p, c, x)
      BY <3>0, <3>1, SetChild
    <3> QED
      BY <3>2 DEF ChildSet
  <2> QED
    BY <2>1, <2>2
<1> HIDE DEF g
<1>3. IsSpliced(g, h, p, c, x)
  BY <1>1, <1>2 DEF IsSpliced
<1> QED
  BY <1>2, <1>3 DEF g, f

\* g is h but for n and Tmp, which are in no tree any more.
TwoBlank(g, h, n) ==
    g[n] = Blank /\ g[Tmp] = Blank /\ \A m \in Slot \ {n, Tmp} : g[m] = h[m]

\* What the end of avl_remove's first half leaves of n and Tmp.
LEMMA BlankTwo ==
    ASSUME NEW P, NULL \in P, NEW h \in HeapOf(P), NEW n \in Node,
           NEW g, g = [h EXCEPT ![n] = Blank, ![Tmp] = Blank]
    PROVE  g \in HeapOf(P) /\ TwoBlank(g, h, n)
<1> DEFINE f == [c \in Side |-> NULL]
           R == [child : [Side -> P], parent : P, index : Side, balance : -1..1]
<1>1. f \in [Side -> P] /\ 0 \in Side /\ 0 \in -1..1
  BY DEF Side
<1>2. Blank \in R
  <2>1. Blank = [child |-> f, parent |-> NULL, index |-> 0, balance |-> 0]
    BY DEF Blank
  <2> HIDE DEF f
  <2> QED
    BY <1>1, <2>1
<1>3. n \in Slot /\ Tmp \in Slot /\ n # Tmp
  BY NodesAssumption DEF Slot
<1> QED
  BY <1>2, <1>3 DEF HeapOf, TwoBlank

\* The child that Splice connects.
OnlyChild(d) == IF d.child[0] # NULL THEN d.child[0] ELSE d.child[1]

\* What avl_remove leaves of h when it takes out n, whose children and place d has.
Spliced(n, h, d) ==
    [Put(Relink(h, OnlyChild(d), d.parent, d.index), d.parent, d.index, OnlyChild(d))
        EXCEPT ![n] = Blank, ![Tmp] = Blank]

\* A node with at most one child is cut out.
LEMMA SpliceCuts ==
    ASSUME NEW sub, NEW h, NEW S, NEW root, NEW k, IsTree(sub, h, S, root, k),
           NEW n \in S, \E c \in Side : h[n].child[c] = NULL
    PROVE  /\ Cut(Spliced(n, h, h[n]), h, S, n, OnlyChild(h[n]))
           /\ Spliced(n, h, h[n])[n] = Blank /\ Spliced(n, h, h[n])[Tmp] = Blank
           /\ \A m \in Slot \ S : m # Tmp => Spliced(n, h, h[n])[m] = h[m]
<1> DEFINE p == h[n].parent
           i == h[n].index
           x == OnlyChild(h[n])
           e == Put(Relink(h, x, p, i), p, i, x)
           g == Spliced(n, h, h[n])
<1>0. /\ NULL \notin S /\ S \subseteq Slot /\ h \in Heap /\ n \in Node /\ n \in Slot /\ Tmp \notin S
      /\ NULL \in Ptr /\ Ptr \subseteq Slot \cup {NULL} /\ NULL \notin Slot /\ Heap = HeapOf(Ptr)
  BY NodesAssumption DEF IsTree, Slot, Ptr, Heap, HeapOf
<1>1. p \in Ptr /\ i \in Side /\ h[n].child[0] \in Ptr /\ h[n].child[1] \in Ptr
  BY <1>0 DEF Heap, Side
<1>2. \E c \in Side : h[n].child[c] = x /\ h[n].child[1 - c] = NULL
  <2>1. 0 \in Side /\ 1 \in Side /\ 1 - 0 = 1 /\ 1 - 1 = 0
    BY DEF Side
  <2>2. h[n].child[0] = NULL \/ h[n].child[1] = NULL
    BY DEF Side
  <2>3. CASE h[n].child[0] # NULL
    <3>1. x = h[n].child[0] /\ h[n].child[1 - 0] = NULL
      BY <2>1, <2>2, <2>3 DEF OnlyChild
    <3> QED
      BY <2>1, <3>1
  <2>4. CASE h[n].child[0] = NULL
    <3>1. x = h[n].child[1] /\ h[n].child[1 - 1] = NULL
      BY <2>1, <2>4 DEF OnlyChild
    <3> QED
      BY <2>1, <3>1
  <2> QED
    BY <2>3, <2>4
<1>3. x \in Ptr
  BY <1>1 DEF OnlyChild
<1>4. g = [e EXCEPT ![n] = Blank, ![Tmp] = Blank]
  BY DEF Spliced
<1>5. /\ p \in S \cup {NULL} /\ p # n /\ x \in S \cup {NULL} /\ x # n /\ (x # NULL => x # p)
  <2>1. PICK c \in Side : h[n].child[c] = x /\ h[n].child[1 - c] = NULL
    BY <1>2
  <2>2. x \in S \cup {NULL} /\ n \notin sub[x] /\ sub[x] \subseteq sub[n] /\ (x # NULL => x \in sub[x])
    <3>1. x \in S \cup {NULL} /\ n \notin sub[x] /\ sub[x] \subseteq sub[n]
      BY <2>1, SubFacts
    <3> QED
      BY <3>1, SubFacts
  <2>3. p # NULL => p \in S /\ p \notin sub[n]
    <3>1. n # root => p \in S /\ h[p].child[i] = n
      BY DEF IsTree, Links
    <3>2. n = root => p = NULL
      BY DEF IsTree, Links
    <3>3. n # root => p \notin sub[n]
      BY <3>1, <1>1, SubFacts
    <3> QED
      BY <3>1, <3>2, <3>3
  <2>4. n \in sub[n]
    BY SubFacts
  <2> QED
    BY <2>2, <2>3, <2>4, <1>0
<1> HIDE DEF p, i, x
<1>6. e \in Heap /\ IsSpliced(e, h, p, i, x)
  BY <1>0, <1>1, <1>3, SpliceFields
<1> HIDE DEF e, g
<1>7. g \in Heap /\ g[n] = Blank /\ g[Tmp] = Blank /\ \A m \in Slot \ {n, Tmp} : g[m] = e[m]
  <2>1. NULL \in Ptr /\ e \in HeapOf(Ptr) /\ n \in Node
    BY <1>0, <1>6
  <2>2. g \in HeapOf(Ptr) /\ TwoBlank(g, e, n)
    BY <2>1, <1>4, BlankTwo
  <2> QED
    BY <2>2, <1>0 DEF TwoBlank
<1>8. p # NULL => /\ g[p].child[i] = x /\ g[p].child[1 - i] = h[p].child[1 - i]
                  /\ g[p].parent = h[p].parent /\ g[p].index = h[p].index
                  /\ g[p].balance = h[p].balance
  <2> SUFFICES ASSUME p # NULL PROVE /\ g[p].child[i] = x /\ g[p].child[1 - i] = h[p].child[1 - i]
                  /\ g[p].parent = h[p].parent /\ g[p].index = h[p].index
                  /\ g[p].balance = h[p].balance
    OBVIOUS
  <2>1. p \in Slot /\ g[p] = e[p] /\ p # x
    BY <1>0, <1>5, <1>7
  <2>2. 1 - i \in Side /\ 1 - i # i
    BY <1>1 DEF Side
  <2> QED
    BY <2>1, <2>2, <1>1, <1>6 DEF IsSpliced
<1>9. x # NULL => /\ g[x].parent = p /\ g[x].index = i
                  /\ g[x].child = h[x].child /\ g[x].balance = h[x].balance
  <2> SUFFICES ASSUME x # NULL PROVE /\ g[x].parent = p /\ g[x].index = i
                  /\ g[x].child = h[x].child /\ g[x].balance = h[x].balance
    OBVIOUS
  <2>1. x \in Slot /\ g[x] = e[x] /\ p # x
    BY <1>0, <1>5, <1>7
  <2>2. /\ e[x].parent = p /\ e[x].index = i /\ e[x].balance = h[x].balance
        /\ \A j \in Side : e[x].child[j] = h[x].child[j]
    BY <2>1, <1>6 DEF IsSpliced
  <2>3. e[x].child = h[x].child
    <3>1. e[x].child \in [Side -> Ptr] /\ h[x].child \in [Side -> Ptr]
      BY <2>1, <1>0, <1>6 DEF Heap
    <3> QED
      BY <2>2, <3>1
  <2> QED
    BY <2>1, <2>2, <2>3
<1>10. \A m \in Slot \ {n, x, p, Tmp} : g[m] = h[m]
  <2> SUFFICES ASSUME NEW m \in Slot \ {n, x, p, Tmp} PROVE g[m] = h[m]
    OBVIOUS
  <2>1. /\ e[m].parent = h[m].parent /\ e[m].index = h[m].index /\ e[m].balance = h[m].balance
        /\ \A j \in Side : e[m].child[j] = h[m].child[j]
    BY <1>6 DEF IsSpliced
  <2>2. /\ e[m] \in [child : [Side -> Ptr], parent : Ptr, index : Side, balance : -1..1]
        /\ h[m] \in [child : [Side -> Ptr], parent : Ptr, index : Side, balance : -1..1]
    BY <1>0, <1>6 DEF Heap
  <2>3. e[m].child = h[m].child
    BY <2>1, <2>2
  <2>4. e[m] = h[m]
    BY <2>1, <2>2, <2>3
  <2> QED
    BY <2>4, <1>7
<1>11. Cut(g, h, S, n, x)
  BY <1>0, <1>2, <1>7, <1>8, <1>9, <1>10 DEF Cut, p, i
<1>12. \A m \in Slot \ S : m # Tmp => g[m] = h[m]
  BY <1>0, <1>5, <1>10
<1> QED
  BY <1>7, <1>11, <1>12 DEF g, x

\* The neighbour of n in its taller subtree, with which avl_remove swaps it.
IsNear(S, n, node, t) ==
    LET x == nd[n].child[t]
        o == nd[n].child[1 - t]
        p == nd[n].parent
        q == nd[node].parent
        j == nd[node].index
        y == nd[node].child[t]
    IN  /\ node \in S /\ node # n /\ node # p /\ x \in S /\ o \in S /\ node # o /\ x # o
        /\ x # n /\ o # n /\ p # n /\ nd[x].parent = n /\ nd[o].parent = n
        /\ p \in S \cup {NULL} /\ (p = NULL <=> n = avl_root)
        /\ p # NULL => nd[p].child[nd[n].index] = n
        /\ nd[node].child[1 - t] = NULL
        /\ q \in S /\ q # node /\ q # p /\ j \in Side
        /\ IF node = x THEN q = n /\ j = t ELSE q # n
        /\ y \in S \cup {NULL} /\ y # n /\ y # node
        /\ y # NULL => y # q /\ y # p
        /\ \A m \in S \ {n, node}, c \in Side :
              Beyond(key[m], key[n], c) => Beyond(key[m], key[node], c)

\* It is next to n in the order of the keys, below n, and has no child on the side of n.
LEMMA NeighbourIsNear ==
    ASSUME NEW sub, NEW S, IsTree(sub, nd, S, avl_root, key), NEW n \in S,
           \A c \in Side : nd[n].child[c] # NULL
    PROVE  taller(n) \in Side /\ IsNear(S, n, neighbour(n), taller(n))
<1> DEFINE t == taller(n)
           u == 1 - t
           x == nd[n].child[t]
           o == nd[n].child[u]
           p == nd[n].parent
           node == neighbour(n)
           q == nd[node].parent
           j == nd[node].index
           y == nd[node].child[t]
<1>0. /\ NULL \notin S /\ S \subseteq Slot /\ nd \in Heap /\ S \subseteq Node
      /\ t \in Side /\ u \in Side /\ u # t /\ (t = 0 \/ t = 1) /\ 1 - u = t
      /\ Links(nd, S, avl_root) /\ \A m \in Node : key[m] \in Int
  BY NodesAssumption DEF IsTree, Slot, taller, Side
<1>1. node = Far(x, u)
  BY DEF neighbour
<1>2. /\ x \in S /\ nd[x].parent = n /\ nd[x].index = t
      /\ o \in S /\ nd[o].parent = n /\ nd[o].index = u
  <2> HIDE DEF t, u
  <2> QED
    BY <1>0 DEF Links
<1> HIDE DEF t, u
<1>3. /\ NextTo(node, S, key, key[n], t) /\ node \in sub[x] /\ nd[node].child[u] = NULL
  BY <1>0, <1>1, <1>2, WalkDown DEF u
<1>4. /\ n \in sub[n] /\ n \notin sub[x] /\ sub[x] \subseteq sub[n] /\ sub[x] \cap sub[o] = {}
      /\ sub[n] \subseteq S /\ sub[o] \subseteq sub[n] /\ n \notin sub[o]
  <2>1. /\ n \in sub[n] /\ n \notin sub[x] /\ sub[x] \subseteq sub[n] /\ sub[n] \subseteq S
        /\ sub[x] \cap sub[nd[n].child[1 - t]] = {}
    BY <1>0, SubFacts
  <2>2. sub[o] \subseteq sub[n] /\ n \notin sub[o]
    BY <1>0, SubFacts
  <2> QED
    BY <2>1, <2>2 DEF u
<1> HIDE DEF node
<1>5. node \in S /\ x \in sub[x] /\ o \in sub[o]
  <2>1. node \in S
    BY <1>3, <1>4
  <2>2. x \in sub[x] /\ o \in sub[o]
    BY <1>2, SubFacts
  <2> QED
    BY <2>1, <2>2
<1>6. p \in S \cup {NULL} /\ (p # NULL => p \notin sub[n] /\ nd[p].child[nd[n].index] = n) /\ (p = NULL <=> n = avl_root)
  <2>1. IF n = avl_root THEN p = NULL ELSE p \in S /\ nd[p].child[nd[n].index] = n
    BY <1>0 DEF Links
  <2>2. nd[n].index \in Side
    BY <1>0 DEF Heap
  <2>3. p \in S => p \notin sub[nd[p].child[nd[n].index]]
    BY <2>2, SubFacts
  <2> QED
    BY <2>1, <2>3, <1>0
<1>7. nd[node].index \in Side /\ y \in S \cup {NULL}
  BY <1>0, <1>5, SubFacts DEF Heap
<1>8. sub[node] \subseteq sub[x]
  BY <1>2, <1>3, SubTransitive
<1>9. /\ y # NULL => y \in sub[node] /\ y # node /\ nd[y].parent = node
      /\ node \in sub[node]
  <2>1. sub[y] \subseteq sub[node] /\ node \notin sub[y] /\ node \in sub[node]
    BY <1>0, <1>5, SubFacts
  <2>2. y # NULL => y \in sub[y]
    BY <1>7, SubFacts
  <2>3. y # NULL => nd[y].parent = node
    BY <1>0, <1>5 DEF Links
  <2> QED
    BY <2>1, <2>2, <2>3
<1>12. /\ node \in S /\ node # n /\ node # p /\ x \in S /\ o \in S /\ node # o /\ x # o
      /\ x # n /\ o # n /\ p # n
  BY <1>0, <1>2, <1>3, <1>4, <1>5, <1>6
<1>13. y \in S \cup {NULL} /\ y # n /\ y # node
  BY <1>0, <1>3, <1>4, <1>5, <1>7, <1>8, <1>9
<1>14. \A m \in S \ {n, node}, c \in Side :
          Beyond(key[m], key[n], c) => Beyond(key[m], key[node], c)
  <2> SUFFICES ASSUME NEW m \in S \ {n, node}, NEW c \in Side, Beyond(key[m], key[n], c)
               PROVE  Beyond(key[m], key[node], c)
    OBVIOUS
  <2>1. /\ Beyond(key[node], key[n], t)
        /\ Beyond(key[m], key[n], t) => Beyond(key[m], key[node], t)
    BY <1>0, <1>12, <1>3 DEF NextTo
  <2>2. key[m] \in Int /\ key[n] \in Int /\ key[node] \in Int
    BY <1>0, <1>12
  <2> QED
    BY <2>1, <2>2, <1>0 DEF Beyond, Side
<1>10. CASE node = x
  <2>1. q = n /\ j = t
    BY <1>2, <1>10
  <2>2. q \in S /\ q # node /\ q # p
    BY <2>1, <1>3, <1>4, <1>6, <1>0
  <2>3. y # NULL => y # q /\ y # p
    BY <2>1, <1>4, <1>6, <1>8, <1>9
  <2> HIDE DEF x, o, p, q, j, y
  <2> QED
    BY <2>1, <2>2, <2>3, <1>12, <1>13, <1>14, <1>0, <1>2, <1>3, <1>6, <1>7, <1>10
       DEF IsNear, x, o, p, q, j, y, u, t, node
<1>11. CASE node # x
  <2>1. q \in sub[x]
    BY <1>2, <1>3, <1>11, ParentInSub
  <2>2. q \in S /\ q # n /\ q # p
    BY <2>1, <1>0, <1>4, <1>6
  <2>3. q # node /\ nd[q].child[j] = node
    <3>1. node # avl_root
      BY <1>2, <1>3, <1>11, ParentInSub
    <3>2. nd[q].child[j] = node
      BY <3>1, <1>0, <1>5 DEF Links
    <3>3. q \notin sub[nd[q].child[j]]
      BY <2>2, <1>7, SubFacts
    <3> QED
      BY <3>2, <3>3, <1>9
  <2>4. y # NULL => y # q /\ y # p
    <3> SUFFICES ASSUME y # NULL PROVE y # q /\ y # p
      OBVIOUS
    <3>1. y \in sub[node] /\ q \notin sub[node]
      <4>1. q \notin sub[nd[q].child[j]]
        BY <2>2, <1>7, SubFacts
      <4> QED
        BY <4>1, <2>3, <1>9
    <3> QED
      BY <3>1, <1>4, <1>6, <1>8
  <2> HIDE DEF x, o, p, q, j, y
  <2> QED
    BY <2>2, <2>3, <2>4, <1>12, <1>13, <1>14, <1>0, <1>2, <1>3, <1>6, <1>7, <1>11
       DEF IsNear, x, o, p, q, j, y, u, t, node
<1> QED
  BY <1>10, <1>11

\* g is nd with node, and the fields of n, in the place of n, and with the child of
\* node in the place of node.
SwapFields(g, n, node) ==
    LET q == As(nd[node].parent, n, node)
        j == nd[node].index
        y == OnlyChild(nd[node])
        p == nd[n].parent
        i == nd[n].index
    IN  /\ g \in Heap /\ g[n] = Blank /\ g[Tmp] = Blank
        /\ \A m \in Slot \ {n, Tmp} :
              LET b == nd[IF m = node THEN n ELSE m]
              IN  /\ g[m].index = (IF m = y THEN j ELSE b.index)
                  /\ g[m].balance = b.balance
                  /\ g[m].parent = (IF m = y THEN q
                                    ELSE IF m # node /\ \E c \in Side : m = nd[n].child[c] THEN node
                                    ELSE b.parent)
                  /\ \A c \in Side : g[m].child[c] = (IF m = q /\ c = j THEN y
                                                      ELSE IF m = p /\ c = i THEN node
                                                      ELSE b.child[c])

\* What avl_remove leaves after it has swapped n with node and taken n out.
LEMMA SwapSplices ==
    ASSUME nd \in Heap, NEW S \in SUBSET Node, NEW n \in S, NEW node, NEW t \in Side,
           t = taller(n), IsNear(S, n, node, t)
    PROVE  /\ Swap(n, node)[Tmp].parent = As(nd[node].parent, n, node)
           /\ Swap(n, node)[Tmp].index = nd[node].index
           /\ OnlyChild(Swap(n, node)[Tmp]) = OnlyChild(nd[node])
           /\ SwapFields(Spliced(n, Swap(n, node), Swap(n, node)[Tmp]), n, node)
<1> DEFINE Q  == Slot \cup {NULL}
           u  == 1 - t
           x  == nd[n].child[t]
           o  == nd[n].child[u]
           p  == nd[n].parent
           i  == nd[n].index
           q  == As(nd[node].parent, n, node)
           j  == nd[node].index
           y  == OnlyChild(nd[node])
           a  == IF x = node THEN Tmp ELSE x
           h1 == Copy(nd, n, node)
           h2 == NotOwnChild(h1, node, t)
           h3 == PlaceNode(h2, node)
           h4 == PlaceTmp(h3)
           d  == h3[Tmp]
<1>0. /\ NULL \notin Slot /\ S \subseteq Slot /\ Tmp \notin S /\ Tmp \in Slot /\ NULL \in Q /\ Q \subseteq Slot \cup {NULL}
      /\ S \subseteq Q /\ Slot \subseteq Q /\ Ptr \subseteq Q /\ Tmp # NULL /\ Node \subseteq Slot /\ NULL \notin S
      /\ Tmp \notin Ptr /\ S \subseteq Ptr /\ NULL \in Ptr
  BY NodesAssumption DEF Slot, Ptr
<1>1. u \in Side /\ u # t /\ ((t = 0 /\ u = 1) \/ (t = 1 /\ u = 0))
  BY DEF Side
<1>2. /\ node \in S /\ node # n /\ node # p /\ x \in S /\ o \in S /\ node # o /\ x # o
      /\ x # n /\ o # n /\ p # n
      /\ p \in S \cup {NULL} /\ nd[node].child[u] = NULL
      /\ nd[node].parent \in S /\ nd[node].parent # node /\ j \in Side
      /\ IF node = x THEN nd[node].parent = n /\ j = t ELSE nd[node].parent # n
      /\ nd[node].child[t] \in S \cup {NULL} /\ nd[node].child[t] # n /\ nd[node].child[t] # node
  BY DEF IsNear
<1>3. i \in Side
  BY <1>0 DEF Heap
<1>4. y = nd[node].child[t] /\ y \in S \cup {NULL} /\ y # n /\ y # node
      /\ y = IF nd[node].child[1] # NULL THEN nd[node].child[1] ELSE nd[node].child[0]
  BY <1>1, <1>2 DEF OnlyChild
<1>5. q \in S /\ q # n /\ (x = node => q = node /\ j = t) /\ (x # node => q = nd[node].parent)
  BY <1>2 DEF As
<1>6. nd \in HeapOf(Q)
  <2>1. ASSUME NEW m \in Slot
        PROVE  nd[m] \in [child : [Side -> Q], parent : Q, index : Side, balance : -1..1]
    <3>1. nd[m] \in [child : [Side -> Ptr], parent : Ptr, index : Side, balance : -1..1]
      BY DEF Heap
    <3>2. nd[m].child \in [Side -> Q] /\ nd[m].parent \in Q
      BY <3>1, <1>0
    <3> HIDE DEF Q
    <3> QED
      BY <3>1, <3>2
  <2> QED
    BY <2>1 DEF Heap, HeapOf
<1> HIDE DEF Q, u, x, o, p, i, q, j, y
<1>7. /\ h1 \in HeapOf(Q)
      /\ h1[Tmp] = nd[node] /\ h1[node] = nd[n] /\ \A m \in Slot \ {Tmp, node} : h1[m] = nd[m]
  BY <1>0, <1>2, <1>6 DEF HeapOf, Copy
<1> HIDE DEF h1
<1>8. h1[node].child[t] = x
  BY <1>7 DEF x
<1>9. /\ h2 \in HeapOf(Q)
      /\ \A m \in Slot : /\ h2[m].parent = h1[m].parent /\ h2[m].index = h1[m].index
                         /\ h2[m].balance = h1[m].balance
                         /\ \A c \in Side : h2[m].child[c] = IF m = node /\ c = t /\ x = node
                                                             THEN Tmp ELSE h1[m].child[c]
  <2>1. CASE x # node
    BY <2>1, <1>7, <1>8 DEF NotOwnChild
  <2>2. CASE x = node
    <3>1. h2 = WithChild(h1, node, t, Tmp)
      BY <2>2, <1>8 DEF NotOwnChild, WithChild
    <3>2. h1 \in HeapOf(Q) /\ node \in Slot /\ Tmp \in Q
      BY <1>0, <1>2, <1>7
    <3> HIDE DEF h2
    <3>3. h2 \in HeapOf(Q) /\ ChildSet(h2, h1, node, t, Tmp)
      BY <3>1, <3>2, SetChild
    <3> QED
      BY <2>2, <3>3 DEF ChildSet
  <2> QED
    BY <2>1, <2>2
<1> HIDE DEF h2
<1>10. /\ h2[node].parent = p /\ h2[node].index = i
       /\ h2[node].child[t] = a /\ h2[node].child[u] = o
  <2>1. node \in Slot
    BY <1>0, <1>2
  <2>2. h1[node].parent = p /\ h1[node].index = i /\ h1[node].child[t] = x /\ h1[node].child[u] = o
    BY <1>7 DEF p, i, x, o
  <2> QED
    BY <2>1, <2>2, <1>1, <1>9
<1>11. a \in Slot /\ o \in Slot /\ node \in Q /\ p \in Q /\ Tmp \in Q /\ y \in Q /\ q \in Slot /\ q \in Q
       /\ a # o /\ node \in Slot
  BY <1>0, <1>2, <1>4, <1>5
<1> HIDE DEF a
<1>12. /\ h3 \in HeapOf(Q)
       /\ \A m \in Slot : /\ h3[m].parent = (IF m \in {a, o} THEN node ELSE h2[m].parent)
                          /\ h3[m].index = h2[m].index /\ h3[m].balance = h2[m].balance
                          /\ \A c \in Side : h3[m].child[c] = IF m = p /\ c = i THEN node
                                                              ELSE h2[m].child[c]
  <2> DEFINE e1 == Put(h2, p, i, node)
             b0 == h2[node].child[0]
             b1 == h2[node].child[1]
             e2 == [e1 EXCEPT ![b0].parent = node]
  <2>1. e1 \in HeapOf(Q) /\ ChildSet(e1, h2, p, i, node)
    <3>1. CASE p = NULL
      BY <3>1, <1>0, <1>9 DEF Put, ChildSet
    <3>2. CASE p # NULL
      <4>1. p \in Slot /\ e1 = WithChild(h2, p, i, node)
        BY <3>2, <1>0, <1>2 DEF Put, WithChild
      <4>2. h2 \in HeapOf(Q) /\ i \in Side /\ node \in Q
        BY <1>3, <1>9, <1>11
      <4> HIDE DEF e1
      <4> QED
        BY <4>1, <4>2, SetChild
    <3> QED
      BY <3>1, <3>2
  <2>2. {b0, b1} = {a, o} /\ b0 \in Slot /\ b1 \in Slot
    BY <1>1, <1>10, <1>11
  <2>3. h3 = [e2 EXCEPT ![b1].parent = node]
    BY <1>10 DEF PlaceNode
  <2> HIDE DEF e1, b0, b1, h3
  <2>4. e2 \in HeapOf(Q) /\ ParentSet(e2, e1, b0, node)
    BY <2>1, <2>2, <1>11, SetParent
  <2> HIDE DEF e2
  <2>5. h3 \in HeapOf(Q) /\ ParentSet(h3, e2, b1, node)
    BY <2>2, <2>3, <2>4, <1>11, SetParent
  <2>6. ASSUME NEW m \in Slot
        PROVE  /\ h3[m].parent = (IF m \in {b0, b1} THEN node ELSE e1[m].parent)
               /\ h3[m].index = e1[m].index /\ h3[m].balance = e1[m].balance
               /\ h3[m].child = e1[m].child
    BY <2>4, <2>5 DEF ParentSet
  <2> QED
    BY <2>1, <2>2, <2>5, <2>6 DEF ChildSet
<1> HIDE DEF h3
<1>13. /\ d.parent = q /\ d.index = j
       /\ \A c \in Side : d.child[c] = nd[node].child[c]
  <2>1. Tmp # p /\ Tmp # o /\ Tmp # node /\ (Tmp = a <=> x = node)
    BY <1>0, <1>2 DEF a
  <2>2. \A c \in Side : d.child[c] = nd[node].child[c]
    BY <2>1, <1>0, <1>7, <1>9, <1>12
  <2>3. d.index = j
    BY <2>1, <1>0, <1>7, <1>9, <1>12 DEF j
  <2>4. d.parent = IF x = node THEN node ELSE nd[node].parent
    BY <2>1, <1>0, <1>7, <1>9, <1>12
  <2> QED
    BY <2>2, <2>3, <2>4, <1>5
<1>14. y = IF d.child[1] # NULL THEN d.child[1] ELSE d.child[0]
  BY <1>4, <1>13 DEF Side
<1> HIDE DEF d
<1>15. /\ h4 \in HeapOf(Q)
       /\ \A m \in Slot : /\ h4[m].parent = (IF m = y THEN Tmp ELSE h3[m].parent)
                          /\ h4[m].index = h3[m].index /\ h4[m].balance = h3[m].balance
                          /\ \A c \in Side : h4[m].child[c] = IF m = q /\ c = j THEN Tmp
                                                              ELSE h3[m].child[c]
  <2> DEFINE e == IF y = NULL THEN h3 ELSE [h3 EXCEPT ![y].parent = Tmp]
  <2>1. e \in HeapOf(Q) /\ ParentSet(e, h3, y, Tmp)
    <3>1. CASE y = NULL
      BY <3>1, <1>0, <1>12 DEF ParentSet
    <3>2. CASE y # NULL
      <4>1. y \in Slot /\ e = [h3 EXCEPT ![y].parent = Tmp]
        BY <3>2, <1>0, <1>4
      <4>2. h3 \in HeapOf(Q) /\ Tmp \in Q
        BY <1>11, <1>12
      <4> HIDE DEF e, y, h3, Q
      <4> QED
        BY <4>1, <4>2, SetParent
    <3> QED
      BY <3>1, <3>2
  <2>2. h4 = Put(e, d.parent, d.index, Tmp)
    BY <1>14 DEF PlaceTmp, d
  <2>3. h4 = WithChild(e, q, j, Tmp)
    <3>1. q # NULL
      BY <1>0, <1>5
    <3> HIDE DEF e
    <3> QED
      BY <3>1, <2>2, <1>13 DEF Put, WithChild
  <2> HIDE DEF e, h4
  <2>4. h4 \in HeapOf(Q) /\ ChildSet(h4, e, q, j, Tmp)
    <3>1. e \in HeapOf(Q) /\ q \in Slot /\ j \in Side /\ Tmp \in Q
      BY <2>1, <1>2, <1>11
    <3> QED
      BY <3>1, <2>3, SetChild
  <2> QED
    BY <2>1, <2>4 DEF ChildSet, ParentSet
<1>16. Swap(n, node) = h4
  BY DEF Swap, h1, h2, h3
<1> HIDE DEF h4
<1>17. /\ h4[Tmp].parent = q /\ h4[Tmp].index = j
       /\ \A c \in Side : h4[Tmp].child[c] = nd[node].child[c]
  <2>1. Tmp # y /\ Tmp # q
    BY <1>0, <1>4, <1>5
  <2> QED
    BY <2>1, <1>0, <1>13, <1>15 DEF d
<1>18. OnlyChild(h4[Tmp]) = y
  BY <1>17 DEF OnlyChild, Side, y
<1> DEFINE f == Put(Relink(h4, y, q, j), q, j, y)
           g == Spliced(n, h4, h4[Tmp])
<1>19. f \in HeapOf(Q) /\ IsSpliced(f, h4, q, j, y)
  <2>1. NULL \in Q /\ Q \subseteq Slot \cup {NULL} /\ h4 \in HeapOf(Q) /\ q \in Q /\ j \in Side /\ y \in Q
    BY <1>0, <1>2, <1>11, <1>15
  <2> QED
    BY <2>1, SpliceFields
<1>20. g = [f EXCEPT ![n] = Blank, ![Tmp] = Blank]
  BY <1>17, <1>18 DEF Spliced
<1> HIDE DEF f, g
<1>21. g \in HeapOf(Q) /\ TwoBlank(g, f, n)
  <2>1. NULL \in Q /\ f \in HeapOf(Q) /\ n \in Node
    BY <1>0, <1>19
  <2> QED
    BY <2>1, <1>20, BlankTwo
<1>22. ASSUME NEW m \in Slot \ {n, Tmp}
       PROVE  LET b == nd[IF m = node THEN n ELSE m]
              IN  /\ g[m].index = (IF m = y THEN j ELSE b.index)
                  /\ g[m].balance = b.balance
                  /\ g[m].parent = (IF m = y THEN q
                                    ELSE IF m # node /\ \E c \in Side : m = nd[n].child[c] THEN node
                                    ELSE b.parent)
                  /\ \A c \in Side : g[m].child[c] = (IF m = q /\ c = j THEN y
                                                      ELSE IF m = p /\ c = i THEN node
                                                      ELSE b.child[c])
  <2> DEFINE b == nd[IF m = node THEN n ELSE m]
  <2>1. g[m] = f[m]
    BY <1>21 DEF TwoBlank
  <2>2. /\ f[m].parent = (IF m = y THEN q ELSE h4[m].parent)
        /\ f[m].index = (IF m = y THEN j ELSE h4[m].index)
        /\ f[m].balance = h4[m].balance
        /\ \A c \in Side : f[m].child[c] = IF m = q /\ c = j THEN y ELSE h4[m].child[c]
    BY <1>19 DEF IsSpliced
  <2>3. h1[m] = b
    BY <1>7, <1>2
  <2> HIDE DEF b
  <2>4. g[m].index = (IF m = y THEN j ELSE b.index) /\ g[m].balance = b.balance
    BY <2>1, <2>2, <2>3, <1>9, <1>12, <1>15
  <2>5. m \in {a, o} <=> (m # node /\ \E c \in Side : m = nd[n].child[c])
    <3>1. m \in {a, o} <=> (m # node /\ m \in {x, o})
      BY <1>2 DEF a
    <3>2. m \in {x, o} <=> \E c \in Side : m = nd[n].child[c]
      BY <1>1 DEF x, o, Side
    <3> QED
      BY <3>1, <3>2
  <2>6. g[m].parent = (IF m = y THEN q ELSE IF m \in {a, o} THEN node ELSE b.parent)
    BY <2>1, <2>2, <2>3, <1>9, <1>12, <1>15
  <2>7. ASSUME NEW c \in Side
        PROVE  g[m].child[c] = (IF m = q /\ c = j THEN y ELSE IF m = p /\ c = i THEN node
                                ELSE b.child[c])
    <3>1. g[m].child[c] = (IF m = q /\ c = j THEN y ELSE IF m = p /\ c = i THEN node
                           ELSE h2[m].child[c])
      BY <2>1, <2>2, <1>12, <1>15
    <3>2. ~ (m = q /\ c = j) => h2[m].child[c] = h1[m].child[c]
      BY <1>5, <1>9
    <3> QED
      BY <3>1, <3>2, <2>3
  <2> QED
    BY <2>4, <2>5, <2>6, <2>7 DEF b
<1>23. g \in Heap
  <2>1. ASSUME NEW m \in Slot
        PROVE  g[m] \in [child : [Side -> Ptr], parent : Ptr, index : Side, balance : -1..1]
    <3>1. CASE m \in {n, Tmp}
      BY <3>1, <1>21, BlankFields DEF TwoBlank
    <3>2. CASE m \notin {n, Tmp}
      <4> DEFINE b == nd[IF m = node THEN n ELSE m]
      <4>1. b \in [child : [Side -> Ptr], parent : Ptr, index : Side, balance : -1..1]
        BY <1>0 DEF Heap
      <4>2. g[m] \in [child : [Side -> Q], parent : Q, index : Side, balance : -1..1]
        BY <1>21 DEF HeapOf
      <4>3. q \in Ptr /\ node \in Ptr /\ y \in Ptr
        BY <1>0, <1>2, <1>4, <1>5
      <4>4. /\ g[m].parent = (IF m = y THEN q
                              ELSE IF m # node /\ \E c \in Side : m = nd[n].child[c] THEN node
                              ELSE b.parent)
            /\ \A c \in Side : g[m].child[c] = (IF m = q /\ c = j THEN y
                                                ELSE IF m = p /\ c = i THEN node
                                                ELSE b.child[c])
        BY <3>2, <1>22
      <4> HIDE DEF b
      <4>5. g[m].parent \in Ptr /\ \A c \in Side : g[m].child[c] \in Ptr
        BY <4>1, <4>3, <4>4
      <4>6. g[m].child \in [Side -> Ptr]
        BY <4>2, <4>5
      <4> QED
        BY <4>2, <4>5, <4>6
    <3> QED
      BY <3>1, <3>2
  <2> QED
    BY <2>1, <1>21 DEF Heap, HeapOf
<1>24. SwapFields(g, n, node)
  BY <1>21, <1>22, <1>23 DEF SwapFields, TwoBlank, q, j, y, p, i
<1> QED
  BY <1>16, <1>17, <1>18, <1>24 DEF g, q, j, y

\* n is out of the tree, and the loop of avl_remove starts at this side of at.
IsUnlinked(g, root, at, side, n, S) ==
    /\ \E s \in [Ptr -> SUBSET Node] : IsTree(s, g, S \ {n}, root, key)
    /\ \E t \in [Ptr -> Nat] : Hts(t, g, S \ {n}, at, side, -1)
    /\ at \in (S \ {n}) \cup {NULL} /\ side \in Side
    /\ g[n] = Blank /\ g[Tmp] = Blank
    /\ \A m \in Slot \ S : m # Tmp => g[m] = nd[m]

\* avl_remove of a node with at most one child.
LEMMA UnlinkOne ==
    ASSUME NEW sub, NEW S, IsTree(sub, nd, S, avl_root, key), NEW n \in S,
           NEW ht, NEW side, NEW d, Hts(ht, nd, S, NULL, side, d),
           \E c \in Side : nd[n].child[c] = NULL
    PROVE  IsUnlinked(Spliced(n, nd, nd[n]), Root(nd[n].parent, OnlyChild(nd[n]), avl_root),
                      nd[n].parent, nd[n].index, n, S)
<1> DEFINE g == Spliced(n, nd, nd[n])
           x == OnlyChild(nd[n])
<1>1. /\ Cut(g, nd, S, n, x) /\ g[n] = Blank /\ g[Tmp] = Blank
      /\ \A m \in Slot \ S : m # Tmp => g[m] = nd[m]
  BY SpliceCuts
<1> HIDE DEF g, x
<1>2. IsTree(Without(sub, n), g, S \ {n}, Root(nd[n].parent, x, avl_root), key)
  BY <1>1, CutTree
<1>3. Hts(ht, g, S \ {n}, nd[n].parent, nd[n].index, -1)
  BY <1>1, CutHeights
<1>4. nd[n].parent \in (S \ {n}) \cup {NULL} /\ nd[n].index \in Side
  <2>1. CutAt(sub, nd, S, avl_root, n, x)
    BY <1>1, CutPlace
  <2> QED
    BY <2>1 DEF CutAt
<1>5. ht \in [Ptr -> Nat] /\ Without(sub, n) \in [Ptr -> SUBSET Node]
  <2>1. sub \in [Ptr -> SUBSET Node]
    BY DEF IsTree, Subs
  <2> QED
    BY <2>1 DEF Hts, Without
<1>6. \E s \in [Ptr -> SUBSET Node] : IsTree(s, g, S \ {n}, Root(nd[n].parent, x, avl_root), key)
  BY <1>2, <1>5
<1>7. \E t \in [Ptr -> Nat] : Hts(t, g, S \ {n}, nd[n].parent, nd[n].index, -1)
  BY <1>3, <1>5
<1> QED
  BY <1>1, <1>4, <1>6, <1>7 DEF IsUnlinked, g, x

\* The swap is the same as to cut node out and to put it in the place of n.
LEMMA SwapRenames ==
    ASSUME NEW sub, NEW S, IsTree(sub, nd, S, avl_root, key), NEW n \in S, NEW node, NEW t \in Side,
           t = taller(n), IsNear(S, n, node, t),
           NEW e, Cut(e, nd, S, node, OnlyChild(nd[node])),
           NEW g, SwapFields(g, n, node)
    PROVE  Renamed(g, e, S \ {node}, n, node)
<1> DEFINE A(m) == As(m, n, node)
           r == nd[node].parent
           q == A(r)
           j == nd[node].index
           y == OnlyChild(nd[node])
           p == nd[n].parent
           i == nd[n].index
<1>0. /\ NULL \notin S /\ S \subseteq Slot /\ nd \in Heap /\ Tmp \notin S
      /\ Links(nd, S, avl_root) /\ NULL # Tmp
  BY NodesAssumption DEF IsTree, Slot
<1>1. /\ node \in S /\ node # n /\ node # p /\ p # n /\ p \in S \cup {NULL}
      /\ p # NULL => nd[p].child[i] = n
      /\ r \in S /\ r # node /\ r # p /\ j \in Side
      /\ \A c \in Side : nd[n].child[c] \in S /\ nd[n].child[c] # n /\ nd[nd[n].child[c]].parent = n
  <2>1. /\ node \in S /\ node # n /\ node # p /\ p # n /\ p \in S \cup {NULL}
        /\ p # NULL => nd[p].child[i] = n
        /\ r \in S /\ r # node /\ r # p /\ j \in Side
    BY DEF IsNear
  <2>2. /\ nd[n].child[t] \in S /\ nd[n].child[t] # n /\ nd[nd[n].child[t]].parent = n
        /\ nd[n].child[1 - t] \in S /\ nd[n].child[1 - t] # n /\ nd[nd[n].child[1 - t]].parent = n
    BY DEF IsNear
  <2>3. \A c \in Side : c = t \/ c = 1 - t
    BY DEF Side
  <2> QED
    BY <2>1, <2>2, <2>3
<1>2. i \in Side
  BY <1>0 DEF Heap
<1>3. y \in S \cup {NULL} /\ y # node /\ y # n /\ (y # NULL => y # r /\ y # p)
  <2>1. /\ nd[node].child[t] \in S \cup {NULL} /\ nd[node].child[t] # n /\ nd[node].child[t] # node
        /\ nd[node].child[t] # NULL => nd[node].child[t] # r /\ nd[node].child[t] # p
        /\ nd[node].child[1 - t] = NULL
    BY DEF IsNear
  <2>2. y = nd[node].child[t]
    BY <2>1 DEF OnlyChild, Side
  <2> QED
    BY <2>1, <2>2
<1>4. /\ e[r].child[j] = y /\ e[r].child[1 - j] = nd[r].child[1 - j]
      /\ e[r].parent = nd[r].parent /\ e[r].index = nd[r].index /\ e[r].balance = nd[r].balance
      /\ y # NULL => /\ e[y].parent = r /\ e[y].index = j
                     /\ e[y].child = nd[y].child /\ e[y].balance = nd[y].balance
      /\ \A m \in S \ {node, y, r} : e[m] = nd[m]
  <2>1. r # NULL
    BY <1>0, <1>1
  <2> QED
    BY <2>1 DEF Cut
<1> HIDE DEF r, j, y, p, i
<1>5. ASSUME NEW m \in S \ {node}
      PROVE  /\ e[m].index = (IF m = y THEN j ELSE nd[m].index)
             /\ e[m].balance = nd[m].balance
             /\ e[m].parent = (IF m = y THEN r ELSE nd[m].parent)
             /\ \A c \in Side : e[m].child[c] = IF m = r /\ c = j THEN y ELSE nd[m].child[c]
  <2>1. CASE m = y
    BY <2>1, <1>0, <1>3, <1>4
  <2>2. CASE m # y /\ m = r
    <3>1. \A c \in Side : c = j \/ (c = 1 - j /\ c # j)
      BY <1>1 DEF Side
    <3> QED
      BY <2>2, <3>1, <1>4
  <2>3. CASE m # y /\ m # r
    BY <2>3, <1>4
  <2> QED
    BY <2>1, <2>2, <2>3
<1>6. /\ g \in Heap
      /\ \A m \in Slot \ {n, Tmp} :
              LET b == nd[IF m = node THEN n ELSE m]
              IN  /\ g[m].index = (IF m = y THEN j ELSE b.index)
                  /\ g[m].balance = b.balance
                  /\ g[m].parent = (IF m = y THEN q
                                    ELSE IF m # node /\ \E c \in Side : m = nd[n].child[c] THEN node
                                    ELSE b.parent)
                  /\ \A c \in Side : g[m].child[c] = (IF m = q /\ c = j THEN y
                                                      ELSE IF m = p /\ c = i THEN node
                                                      ELSE b.child[c])
  BY DEF SwapFields, r, j, y, p, i
<1>7. ASSUME NEW m \in S \ {node}, m # n
      PROVE  /\ g[A(m)].parent = A(e[m].parent) /\ g[A(m)].index = e[m].index
             /\ g[A(m)].balance = e[m].balance
             /\ \A c \in Side : g[A(m)].child[c] = A(e[m].child[c])
  <2>0. A(m) = m /\ m \in Slot \ {n, Tmp} /\ m # node
    BY <1>0, <1>7 DEF As
  <2>1. /\ g[m].index = (IF m = y THEN j ELSE nd[m].index)
        /\ g[m].balance = nd[m].balance
        /\ g[m].parent = (IF m = y THEN q ELSE IF \E c \in Side : m = nd[n].child[c] THEN node
                          ELSE nd[m].parent)
        /\ \A c \in Side : g[m].child[c] = (IF m = q /\ c = j THEN y
                                            ELSE IF m = p /\ c = i THEN node
                                            ELSE nd[m].child[c])
    BY <2>0, <1>6
  <2>2. g[m].index = e[m].index /\ g[m].balance = e[m].balance
    BY <2>1, <1>5
  <2>3. g[m].parent = A(e[m].parent)
    <3>1. CASE m = y
      BY <3>1, <2>1, <1>5
    <3>2. CASE m # y /\ \E c \in Side : m = nd[n].child[c]
      <4>1. nd[m].parent = n
        BY <3>2, <1>1
      <4> QED
        BY <3>2, <4>1, <2>1, <1>5 DEF As
    <3>3. CASE m # y /\ ~ \E c \in Side : m = nd[n].child[c]
      <4>1. nd[m].parent # n
        <5>1. m # avl_root => nd[nd[m].parent].child[nd[m].index] = m
          BY <1>0 DEF Links
        <5>2. m = avl_root => nd[m].parent = NULL
          BY <1>0 DEF Links
        <5>3. nd[m].index \in Side
          BY <1>0 DEF Heap
        <5> QED
          BY <5>1, <5>2, <5>3, <3>3, <1>0
      <4> QED
        BY <3>3, <4>1, <2>1, <1>5 DEF As
    <3> QED
      BY <3>1, <3>2, <3>3
  <2>4. ASSUME NEW c \in Side
        PROVE  g[m].child[c] = A(e[m].child[c])
    <3>0. m = q <=> m = r
      BY <2>0, <1>7, <1>1 DEF As
    <3>1. CASE m = r /\ c = j
      <4>1. e[m].child[c] = y /\ g[m].child[c] = y
        BY <3>0, <3>1, <2>1, <1>5
      <4> QED
        BY <4>1, <1>3 DEF As
    <3>2. CASE m = p /\ c = i
      <4>1. m # r /\ nd[m].child[c] = n
        BY <3>2, <1>0, <1>1
      <4> QED
        BY <3>0, <3>2, <4>1, <2>1, <1>5 DEF As
    <3>3. CASE ~ (m = r /\ c = j) /\ ~ (m = p /\ c = i)
      <4>1. nd[m].child[c] # n
        <5>1. nd[m].child[c] = n => nd[n].parent = m /\ nd[n].index = c
          BY <1>0 DEF Links
        <5> QED
          BY <5>1, <3>3 DEF p, i
      <4> QED
        BY <3>0, <3>3, <4>1, <2>1, <1>5 DEF As
    <3> QED
      BY <3>1, <3>2, <3>3
  <2> QED
    BY <2>0, <2>2, <2>3, <2>4
<1>8. /\ g[A(n)].parent = A(e[n].parent) /\ g[A(n)].index = e[n].index
      /\ g[A(n)].balance = e[n].balance
      /\ \A c \in Side : g[A(n)].child[c] = A(e[n].child[c])
  <2>0. A(n) = node /\ node \in Slot \ {n, Tmp} /\ n \in S \ {node}
    BY <1>0, <1>1 DEF As
  <2>1. /\ g[node].index = nd[n].index
        /\ g[node].balance = nd[n].balance
        /\ g[node].parent = p
        /\ \A c \in Side : g[node].child[c] = IF node = q /\ c = j THEN y ELSE nd[n].child[c]
    BY <2>0, <1>1, <1>3, <1>6 DEF p
  <2>2. e[n].index = nd[n].index /\ e[n].balance = nd[n].balance /\ e[n].parent = p
    BY <2>0, <1>3, <1>5 DEF p
  <2>3. \A c \in Side : e[n].child[c] = IF n = r /\ c = j THEN y ELSE nd[n].child[c]
    BY <2>0, <1>5
  <2>4. node = q <=> n = r
    BY <1>1 DEF As
  <2>5. A(p) = p /\ A(y) = y /\ \A c \in Side : A(nd[n].child[c]) = nd[n].child[c]
    BY <1>1, <1>3 DEF As
  <2> QED
    BY <2>0, <2>1, <2>2, <2>3, <2>4, <2>5
<1> QED
  <2> HIDE DEF A
  <2> QED
    BY <1>6, <1>7, <1>8 DEF Renamed, A

\* avl_remove of a node with two children.
LEMMA UnlinkTwo ==
    ASSUME NEW sub, NEW S, IsTree(sub, nd, S, avl_root, key), NEW n \in S,
           NEW ht, NEW side, NEW d, Hts(ht, nd, S, NULL, side, d),
           \A c \in Side : nd[n].child[c] # NULL,
           NEW node, node = neighbour(n), NEW h, h = Swap(n, node)
    PROVE  IsUnlinked(Spliced(n, h, h[Tmp]),
                      Root(h[Tmp].parent, OnlyChild(h[Tmp]), Root(nd[n].parent, node, avl_root)),
                      h[Tmp].parent, h[Tmp].index, n, S)
<1> DEFINE g == Spliced(n, h, h[Tmp])
           t == taller(n)
           e == Spliced(node, nd, nd[node])
           y == OnlyChild(nd[node])
           r == nd[node].parent
           j == nd[node].index
           T == S \ {node}
<1>0. NULL \notin S /\ nd \in Heap /\ S \in SUBSET Node /\ Tmp \notin S
  BY NodesAssumption DEF IsTree
<1>1. t \in Side /\ IsNear(S, n, node, t)
  BY NeighbourIsNear
<1> HIDE DEF t
<1>2. /\ h[Tmp].parent = As(r, n, node) /\ h[Tmp].index = j /\ OnlyChild(h[Tmp]) = y
      /\ SwapFields(g, n, node)
  BY <1>0, <1>1, SwapSplices DEF t
<1>3. /\ node \in S /\ node # n /\ r \in S /\ r # node /\ j \in Side
      /\ nd[node].child[1 - t] = NULL
      /\ nd[n].parent \in S \cup {NULL} /\ (nd[n].parent = NULL <=> n = avl_root)
      /\ \A m \in S \ {n, node}, c \in Side :
              Beyond(key[m], key[n], c) => Beyond(key[m], key[node], c)
  BY <1>1 DEF IsNear
<1>4. Cut(e, nd, S, node, y)
  <2>1. \E c \in Side : nd[node].child[c] = NULL
    <3>1. 1 - t \in Side
      BY <1>1 DEF Side
    <3> QED
      BY <3>1, <1>3
  <2> QED
    BY <2>1, <1>3, SpliceCuts
<1> HIDE DEF g, e, y
<1>5. Renamed(g, e, T, n, node)
  BY <1>1, <1>2, <1>4, SwapRenames DEF t, y
<1> DEFINE s == Without(sub, node)
<1>6. IsTree(s, e, T, Root(r, y, avl_root), key)
  BY <1>3, <1>4, CutTree
<1>7. Hts(ht, e, T, r, j, -1)
  BY <1>3, <1>4, CutHeights
<1>8. Root(r, y, avl_root) = avl_root
  BY <1>0, <1>3 DEF Root
<1> HIDE DEF s, r, j
<1>9. n \in T /\ node \in Node \ T /\ r \in T \cup {NULL} /\ (T \ {n}) \cup {node} = S \ {n}
  BY <1>0, <1>3
<1>10. \A m \in T \ {n}, c \in Side : Beyond(key[m], key[n], c) => Beyond(key[m], key[node], c)
  BY <1>3
<1> HIDE DEF T
<1>11. \E v \in [Ptr -> SUBSET Node] : IsTree(v, g, (T \ {n}) \cup {node}, As(avl_root, n, node), key)
  BY <1>5, <1>6, <1>8, <1>9, <1>10, RenameTree
<1>12. \E v \in [Ptr -> Nat] : Hts(v, g, (T \ {n}) \cup {node}, As(r, n, node), j, -1)
  BY <1>5, <1>6, <1>7, <1>9, RenameHeights
<1>13. As(r, n, node) \in (S \ {n}) \cup {NULL} /\ As(r, n, node) # NULL
  BY <1>0, <1>3 DEF As
<1>14. Root(h[Tmp].parent, OnlyChild(h[Tmp]), Root(nd[n].parent, node, avl_root)) = As(avl_root, n, node)
  BY <1>2, <1>3, <1>13 DEF Root, As
<1>15. g[n] = Blank /\ g[Tmp] = Blank
  BY <1>2 DEF SwapFields
<1>16. \A m \in Slot \ S : m # Tmp => g[m] = nd[m]
  <2> SUFFICES ASSUME NEW m \in Slot \ S, m # Tmp PROVE g[m] = nd[m]
    OBVIOUS
  <2> DEFINE q == As(nd[node].parent, n, node)
  <2>1. m \in Slot \ {n, Tmp} /\ m # node
    BY <1>3
  <2>2. m # q /\ m # y /\ m # nd[n].parent /\ \A c \in Side : m # nd[n].child[c]
    <3>0. NULL \notin Slot
      BY NodesAssumption DEF Slot
    <3>1. y \in S \cup {NULL}
      <4>1. CutAt(sub, nd, S, avl_root, node, y)
        BY <1>3, <1>4, CutPlace
      <4> QED
        BY <4>1 DEF CutAt
    <3>2. \A c \in Side : nd[n].child[c] \in S \cup {NULL}
      BY SubFacts
    <3> QED
      BY <3>0, <3>1, <3>2, <1>3, <1>13 DEF r
  <2>3. /\ g[m].index = nd[m].index /\ g[m].balance = nd[m].balance /\ g[m].parent = nd[m].parent
        /\ \A c \in Side : g[m].child[c] = nd[m].child[c]
    BY <2>1, <2>2, <1>2 DEF SwapFields, y
  <2>4. /\ g[m] \in [child : [Side -> Ptr], parent : Ptr, index : Side, balance : -1..1]
        /\ nd[m] \in [child : [Side -> Ptr], parent : Ptr, index : Side, balance : -1..1]
    BY <1>0, <1>2 DEF Heap, SwapFields
  <2>5. g[m].child = nd[m].child
    BY <2>3, <2>4
  <2> QED
    BY <2>3, <2>4, <2>5
<1> QED
  BY <1>2, <1>3, <1>9, <1>11, <1>12, <1>13, <1>14, <1>15, <1>16 DEF IsUnlinked, g

----------------------------------------------------------------------------
(* A new balance, and new keys.                                            *)

\* When no loop is under way it does not matter by how much it would be off.
LEMMA HeightsAtNull ==
    ASSUME NEW ht, NEW h, NEW S \in SUBSET Node, NEW side, NEW d, Hts(ht, h, S, NULL, side, d),
           NEW side2, NEW d2
    PROVE  Hts(ht, h, S, NULL, side2, d2)
<1>1. NULL \notin S
  BY NodesAssumption
<1>2. ASSUME NEW m \in S, NEW c \in Side
      PROVE  Told(ht, h, m, c, NULL, side, d) = Told(ht, h, m, c, NULL, side2, d2)
  BY <1>1 DEF Told
<1> QED
  BY <1>2 DEF Hts, Side

\* n has its balance set to b, which is right for it when it is d2 higher.
BalanceSet(g, h, n, b) ==
    /\ g \in Heap /\ g[n].balance = b /\ g[n].child = h[n].child
    /\ g[n].parent = h[n].parent /\ g[n].index = h[n].index
    /\ \A m \in Slot \ {n} : g[m] = h[m]

\* Only the balance of n changes.
LEMMA BalanceFields ==
    ASSUME NEW h \in Heap, NEW n \in Slot, NEW b \in -1..1, NEW g, g = [h EXCEPT ![n].balance = b]
    PROVE  BalanceSet(g, h, n, b)
<1> DEFINE R == [child : [Side -> Ptr], parent : Ptr, index : Side, balance : -1..1]
           r == [h[n] EXCEPT !.balance = b]
<1>1. h[n] \in R
  BY DEF Heap
<1>2. g = [h EXCEPT ![n] = r]
  BY DEF Heap
<1>3. /\ r \in R /\ r.balance = b /\ r.child = h[n].child /\ r.parent = h[n].parent
      /\ r.index = h[n].index
  BY <1>1
<1> HIDE DEF r
<1> QED
  BY <1>2, <1>3 DEF Heap, BalanceSet

\* SetBalance keeps the tree.
LEMMA BalanceTree ==
    ASSUME NEW sub, NEW h, NEW S, NEW root, NEW k, IsTree(sub, h, S, root, k),
           NEW n \in S, NEW g, NEW b, BalanceSet(g, h, n, b)
    PROVE  IsTree(sub, g, S, root, k)
<1>1. /\ h \in Heap /\ S \in SUBSET Node /\ IsFiniteSet(S) /\ k \in [Node -> Int]
      /\ Links(h, S, root) /\ Subs(sub, h, S, root, k)
  BY DEF IsTree
<1>2. \A m \in S : g[m].child = h[m].child /\ g[m].parent = h[m].parent /\ g[m].index = h[m].index
  BY <1>1 DEF BalanceSet, Slot
<1>3. Links(g, S, root)
  <2>1. root \in S \cup {NULL}
    BY <1>1 DEF Links
  <2>2. ASSUME NEW m \in S, NEW c \in Side, g[m].child[c] # NULL
        PROVE  g[m].child[c] \in S /\ g[g[m].child[c]].parent = m /\ g[g[m].child[c]].index = c
    <3>1. /\ h[m].child[c] \in S /\ h[h[m].child[c]].parent = m /\ h[h[m].child[c]].index = c
          /\ g[m].child[c] = h[m].child[c]
      BY <2>2, <1>1, <1>2 DEF Links
    <3> QED
      BY <3>1, <1>2
  <2>3. ASSUME NEW m \in S
        PROVE  IF m = root THEN g[m].parent = NULL
               ELSE g[m].parent \in S /\ g[g[m].parent].child[g[m].index] = m
    <3>1. IF m = root THEN h[m].parent = NULL
          ELSE h[m].parent \in S /\ h[h[m].parent].child[h[m].index] = m
      BY <1>1 DEF Links
    <3> QED
      BY <3>1, <1>2
  <2> QED
    BY <2>1, <2>2, <2>3 DEF Links
<1>4. Subs(sub, g, S, root, k)
  BY <1>1, <1>2 DEF Subs
<1> QED
  BY <1>1, <1>3, <1>4 DEF IsTree, BalanceSet

\* Its heights: n is d2 higher now, and the loop goes on at its parent.
LEMMA BalanceHeights ==
    ASSUME NEW sub, NEW h, NEW S, NEW root, NEW k, IsTree(sub, h, S, root, k),
           NEW n \in S, NEW g, NEW b, BalanceSet(g, h, n, b),
           NEW ht, NEW side, NEW d, Hts(ht, h, S, n, side, d),
           NEW d2 \in Int, ht[n] + d2 \in Nat,
           Fits(ht[n] + d2, b, ht[h[n].child[0]], ht[h[n].child[1]])
    PROVE  \E t \in [Ptr -> Nat] : Hts(t, g, S, h[n].parent, h[n].index, d2)
<1> DEFINE p == h[n].parent
           i == h[n].index
           t == [ht EXCEPT ![n] = ht[n] + d2]
<1>0. /\ h \in Heap /\ NULL \notin S /\ S \subseteq Slot /\ S \subseteq Ptr /\ Links(h, S, root)
      /\ ht \in [Ptr -> Nat] /\ ht[NULL] = 0 /\ NULL \in Ptr
  BY NodesAssumption DEF IsTree, Slot, Ptr, Hts
<1>1. /\ g \in Heap /\ g[n].balance = b /\ g[n].child = h[n].child
      /\ \A m \in S \ {n} : g[m] = h[m]
  BY <1>0 DEF BalanceSet
<1>2. t \in [Ptr -> Nat] /\ t[NULL] = 0 /\ t[n] = ht[n] + d2 /\ \A m \in Ptr \ {n} : t[m] = ht[m]
  BY <1>0
<1>3. i \in Side /\ p # n
  <2>1. i \in Side
    BY <1>0 DEF Heap
  <2>2. p = n => n # root /\ h[n].child[i] = n
    BY <1>0 DEF Links
  <2>3. n \in sub[n] /\ n \notin sub[h[n].child[i]]
    BY <2>1, SubFacts
  <2> QED
    BY <2>1, <2>2, <2>3
<1> HIDE DEF t
<1>4. ASSUME NEW m \in S, NEW c \in Side
      PROVE  /\ h[m].child[c] \in Ptr /\ ht[h[m].child[c]] \in Nat
             /\ h[m].child[c] = n <=> m = p /\ c = i
             /\ h[n].child[c] # n
  <2>1. h[m].child[c] \in Ptr
    BY <1>0 DEF Heap
  <2>2. h[m].child[c] = n => m = p /\ c = i
    BY <1>0 DEF Links
  <2>3. m = p /\ c = i => h[m].child[c] = n
    BY <1>0 DEF Links
  <2>4. h[n].child[c] # n
    BY SubFacts
  <2> QED
    BY <2>1, <2>2, <2>3, <2>4, <1>0
<1>5. ASSUME NEW m \in S, m # n
      PROVE  Fits(t[m], g[m].balance, Told(t, g, m, 0, p, i, d2), Told(t, g, m, 1, p, i, d2))
  <2>1. Fits(ht[m], h[m].balance, Told(ht, h, m, 0, n, side, d), Told(ht, h, m, 1, n, side, d))
    BY DEF Hts
  <2>2. g[m] = h[m] /\ t[m] = ht[m]
    BY <1>0, <1>1, <1>2, <1>5
  <2>3. ASSUME NEW c \in Side
        PROVE  Told(t, g, m, c, p, i, d2) = Told(ht, h, m, c, n, side, d)
    <3>1. Told(ht, h, m, c, n, side, d) = ht[h[m].child[c]]
      BY <1>4, <1>5 DEF Told
    <3>2. CASE h[m].child[c] = n
      <4>1. Told(t, g, m, c, p, i, d2) = t[n] - d2
        BY <3>2, <2>2, <1>4 DEF Told
      <4>2. ht[n] \in Nat
        BY <1>0
      <4> QED
        BY <3>1, <3>2, <4>1, <4>2, <1>2
    <3>3. CASE h[m].child[c] # n
      <4>1. Told(t, g, m, c, p, i, d2) = t[h[m].child[c]] - 0
        BY <3>3, <2>2, <1>4 DEF Told
      <4>2. t[h[m].child[c]] = ht[h[m].child[c]]
        BY <3>3, <1>2, <1>4
      <4> QED
        BY <3>1, <4>1, <4>2, <1>4
    <3> QED
      BY <3>2, <3>3
  <2> QED
    BY <2>1, <2>2, <2>3 DEF Side
<1>6. Fits(t[n], g[n].balance, Told(t, g, n, 0, p, i, d2), Told(t, g, n, 1, p, i, d2))
  <2>1. ASSUME NEW c \in Side
        PROVE  Told(t, g, n, c, p, i, d2) = ht[h[n].child[c]]
    <3>1. Told(t, g, n, c, p, i, d2) = t[h[n].child[c]] - 0
      BY <1>1, <1>3 DEF Told
    <3> QED
      BY <3>1, <1>2, <1>4
  <2> QED
    BY <2>1, <1>1, <1>2 DEF Side
<1> QED
  BY <1>2, <1>5, <1>6 DEF Hts

\* The keys of other nodes do not matter, and that of n may change as long as it
\* stays between the same keys.
LEMMA KeysTree ==
    ASSUME NEW sub, NEW h, NEW S, NEW root, NEW k, IsTree(sub, h, S, root, k),
           NEW k2 \in [Node -> Int], NEW n,
           \A m \in S \ {n} : k2[m] = k[m],
           \A m \in S \ {n}, c \in Side : n \in S => (Beyond(k[m], k[n], c) => Beyond(k[m], k2[n], c))
    PROVE  IsTree(sub, h, S, root, k2)
<1>0. /\ S \in SUBSET Node /\ Subs(sub, h, S, root, k) /\ \A m \in S : k[m] \in Int /\ k2[m] \in Int
  BY DEF IsTree
<1>1. ASSUME NEW m \in S, NEW y \in S, m # y, NEW c \in Side, Beyond(k[y], k[m], c)
      PROVE  Beyond(k2[y], k2[m], c)
  <2>0. k[y] \in Int /\ k[m] \in Int /\ k2[y] \in Int /\ k2[m] \in Int /\ (c = 0 \/ c = 1)
    BY <1>0 DEF Side
  <2>1. CASE m = n
    BY <2>1, <1>1
  <2>2. CASE m # n /\ y # n
    BY <2>2, <1>1
  <2>3. CASE y = n
    <3>1. k2[m] = k[m]
      BY <2>3, <1>1
    <3>2. Beyond(k[m], k[n], 1 - c) /\ 1 - c \in Side
      BY <2>0, <2>3, <1>1 DEF Beyond, Side
    <3>3. Beyond(k[m], k2[n], 1 - c)
      BY <2>3, <3>2, <1>1
    <3> QED
      BY <3>1, <3>3, <2>0, <2>3 DEF Beyond
  <2> QED
    BY <2>1, <2>2, <2>3
<1>2. ASSUME NEW m \in S, NEW c \in Side, NEW y \in sub[h[m].child[c]]
      PROVE  Beyond(k2[y], k2[m], c)
  <2>1. Beyond(k[y], k[m], c)
    BY <1>0, <1>2 DEF Subs
  <2>2. y \in S /\ y # m
    <3>1. sub[h[m].child[c]] \subseteq sub[m] /\ sub[m] \subseteq S /\ m \notin sub[h[m].child[c]]
      BY SubFacts
    <3> QED
      BY <3>1, <1>2
  <2> QED
    BY <2>1, <2>2, <1>1
<1>3. ASSUME NEW m \in S, NEW y \in S, k2[m] = k2[y]
      PROVE  m = y
  <2> SUFFICES ASSUME m # y PROVE FALSE
    OBVIOUS
  <2>1. k[m] # k[y] /\ k[m] \in Int /\ k[y] \in Int
    BY <1>0 DEF Subs
  <2>2. PICK c \in Side : Beyond(k[y], k[m], c)
    <3>1. 0 \in Side /\ 1 \in Side
      BY DEF Side
    <3>2. Beyond(k[y], k[m], 0) \/ Beyond(k[y], k[m], 1)
      BY <2>1 DEF Beyond
    <3> QED
      BY <3>1, <3>2
  <2>3. Beyond(k2[y], k2[m], c)
    BY <2>2, <1>1
  <2> QED
    BY <2>3, <1>0, <1>3 DEF Beyond
<1>4. Subs(sub, h, S, root, k2)
  BY <1>0, <1>2, <1>3 DEF Subs
<1> QED
  BY <1>4 DEF IsTree

----------------------------------------------------------------------------
(* The invariant of a tree in use.                                         *)

\* h holds a search tree of the nodes S.
TreeIs(h, S, root, k) == \E s \in [Ptr -> SUBSET Node] : IsTree(s, h, S, root, k)

\* The subtree that the loop of avl_insert comes from is not balanced, unless it is
\* the new node: so a rotation is never of a node whose child is balanced.
Grown(t, h, at, side) ==
    at # NULL => /\ h[at].child[side] # NULL
                 /\ t[h[at].child[side]] = 1 \/ h[h[at].child[side]].balance # 0

\* Every balance is right, but that at the loop is of one level more or less.
HeightsAre(h, S, at, side, where) ==
    \E t \in [Ptr -> Nat] :
        /\ Hts(t, h, S, at, side, IF where = "insert_up" THEN 1 ELSE -1)
        /\ where = "insert_up" => Grown(t, h, at, side)

\* The variables beside the tree while it is in use.
UseVars ==
    /\ pc \in {"idle", "insert_up", "remove_up", "reinsert"}
    /\ key \in [Node -> Key] /\ scope \in Scopes
    /\ cookie = <<NULL, 0>> /\ freed = {} /\ ok = TRUE
    /\ which_child \in Side /\ up \in held \cup {NULL}
    /\ pc \in {"idle", "reinsert"} => up = NULL
    /\ pc \in {"idle", "insert_up"} => obj = NULL
    /\ pc = "reinsert" => obj # NULL
    /\ obj # NULL => obj \in Node \ held /\ key[obj] \notin Taken

\* The tree while it is in use.
UseTree ==
    /\ avl_numnodes = Cardinality(held)
    /\ \A n \in Slot \ held : nd[n] = Blank
    /\ TreeIs(nd, held, avl_root, key)
    /\ HeightsAre(nd, held, up, which_child, pc)

UseInv == UseVars /\ UseTree

\* The empty tree is a tree.
LEMMA EmptyTree ==
    ASSUME NEW h, h = [n \in Slot |-> Blank], NEW k \in [Node -> Int]
    PROVE  /\ TreeIs(h, {}, NULL, k)
           /\ \A side, where : where # "insert_up" => HeightsAre(h, {}, NULL, side, where)
           /\ Cardinality({}) = 0 /\ \A n \in Slot : h[n] = Blank
<1> DEFINE s == [m \in Ptr |-> {}]
           t == [m \in Ptr |-> 0]
<1>1. h \in Heap
  BY BlankFields DEF Heap
<1>2. NULL \in Ptr /\ s \in [Ptr -> SUBSET Node] /\ s[NULL] = {} /\ t \in [Ptr -> Nat] /\ t[NULL] = 0
  BY DEF Ptr
<1> HIDE DEF s, t
<1>3. IsTree(s, h, {}, NULL, k)
  BY <1>1, <1>2, FS_EmptySet DEF IsTree, Links, Subs
<1>4. ASSUME NEW side, NEW where, where # "insert_up"
      PROVE  HeightsAre(h, {}, NULL, side, where)
  <2>1. Hts(t, h, {}, NULL, side, IF where = "insert_up" THEN 1 ELSE -1)
    BY <1>2 DEF Hts
  <2> QED
    BY <2>1, <1>2, <1>4 DEF HeightsAre
<1> QED
  BY <1>2, <1>3, <1>4, FS_EmptySet DEF TreeIs

\* The invariant holds of a new tree.
LEMMA UseInit == Init => UseInv
<1> SUFFICES ASSUME Init PROVE UseInv
  OBVIOUS
<1>1. StartKey \in [Node -> Key] /\ StartKey \in [Node -> Int]
  BY NodesAssumption
<1>2. /\ nd = [n \in Slot |-> Blank] /\ avl_root = NULL /\ avl_numnodes = 0 /\ held = {}
      /\ key = StartKey /\ up = NULL /\ pc = "idle"
  BY DEF Init, avl_create
<1>3. UseTree
  <2>1. /\ TreeIs(nd, {}, NULL, StartKey) /\ HeightsAre(nd, {}, NULL, which_child, "idle")
        /\ Cardinality({}) = 0 /\ \A n \in Slot : nd[n] = Blank
    BY <1>1, <1>2, EmptyTree
  <2> QED
    BY <2>1, <1>2 DEF UseTree
<1>4. UseVars
  BY <1>1, <1>2 DEF UseVars, Init, Side
<1> QED
  BY <1>3, <1>4 DEF UseInv

\* avl_insert up to its loop.
LEMMA LinkKeeps ==
    ASSUME UseInv, pc \in {"idle", "reinsert"}, NEW n \in Node \ held, key[n] \notin Taken,
           NEW where, where[2] \in Side,
           IF avl_root = NULL THEN where[1] = NULL
           ELSE Place(where[1], where[2], nd, held, key, key[n]),
           Link(n, where), key' = key, obj' = NULL
    PROVE  UseInv'
<1> DEFINE p == where[1]
           c == where[2]
<1>0. /\ NULL \notin held /\ nd \in Heap /\ held \in SUBSET Node /\ IsFiniteSet(held)
  BY NodesAssumption DEF UseInv, UseTree, TreeIs, IsTree
<1>1. /\ nd' = Linked1(nd, n, p, c) /\ avl_root' = Root(p, n, avl_root)
      /\ avl_numnodes' = avl_numnodes + 1 /\ held' = held \cup {n}
      /\ ok' = (ok /\ IF p = NULL THEN avl_root = NULL ELSE nd[p].child[c] = NULL)
      /\ pc' = "insert_up" /\ up' = p /\ which_child' = c
      /\ cookie' = cookie /\ scope' = scope /\ freed' = freed
  BY DEF Link, Linked1
<1>2. PICK sub \in [Ptr -> SUBSET Node] : IsTree(sub, nd, held, avl_root, key)
  BY DEF UseInv, UseTree, TreeIs
<1>3. PICK ht \in [Ptr -> Nat] : Hts(ht, nd, held, NULL, which_child, -1)
  BY DEF UseInv, UseTree, UseVars, HeightsAre
<1> HIDE DEF p, c
<1>4. p \in Ptr /\ c \in Side /\ p \in held \cup {NULL} /\ p # n
      /\ IF avl_root = NULL THEN p = NULL ELSE Place(p, c, nd, held, key, key[n])
  BY <1>0, NodesAssumption DEF p, c, Ptr, Place
<1>5. \E s \in [Ptr -> SUBSET Node] : IsTree(s, nd', held', avl_root', key')
  <2>1. \E s \in [Ptr -> SUBSET Node] :
           IsTree(s, Linked1(nd, n, p, c), held \cup {n}, Root(p, n, avl_root), key)
    BY <1>2, <1>4, LinkTree
  <2> QED
    BY <2>1, <1>1
<1>6. PICK t \in [Ptr -> Nat] : Hts(t, Linked1(nd, n, p, c), held \cup {n}, p, c, 1) /\ t[n] = 1
  BY <1>2, <1>3, <1>4, LinkHeights
<1>7. /\ p # NULL => nd'[p].child[c] = n
      /\ \A m \in Slot \ {n, p} : nd'[m] = nd[m]
  <2>1. /\ p # NULL => Linked1(nd, n, p, c)[p].child[c] = n
        /\ \A m \in Slot \ {n, p} : Linked1(nd, n, p, c)[m] = nd[m]
    BY <1>0, <1>4, LinkFields
  <2> QED
    BY <2>1, <1>1
<1>8. HeightsAre(nd', held', up', which_child', pc')
  <2>1. n # NULL
    BY NodesAssumption
  <2>2. Grown(t, nd', p, c)
    BY <2>1, <1>6, <1>7 DEF Grown
  <2> QED
    BY <2>2, <1>1, <1>6 DEF HeightsAre
<1>9. \A m \in Slot \ held' : nd'[m] = Blank
  BY <1>1, <1>4, <1>7, NodesAssumption DEF UseInv, UseTree, Slot
<1>10. avl_numnodes' = Cardinality(held')
  <2>1. Cardinality(held \cup {n}) = Cardinality(held) + 1
    BY <1>0, FS_AddElement
  <2> QED
    BY <2>1, <1>1 DEF UseInv, UseTree
<1>11. UseTree'
  <2>1. TreeIs(nd', held', avl_root', key')
    BY <1>5 DEF TreeIs
  <2> QED
    BY <2>1, <1>8, <1>9, <1>10 DEF UseTree
<1>12. UseVars'
  <2>1. ok' = TRUE
    <3>1. IF p = NULL THEN avl_root = NULL ELSE nd[p].child[c] = NULL
      BY <1>0, <1>4 DEF Place
    <3>2. ok = TRUE
      BY DEF UseInv, UseVars
    <3> QED
      BY <3>1, <3>2, <1>1
  <2> QED
    BY <2>1, <1>1, <1>4 DEF UseVars, UseInv
<1> QED
  BY <1>11, <1>12 DEF UseInv

\* avl_find tells avl_add where a new key goes.
LEMMA FindPlace ==
    ASSUME UseInv, NEW n \in Node \ held, key[n] \notin Taken
    PROVE  LET where == avl_find(key[n]).where
           IN  /\ where[2] \in Side
               /\ IF avl_root = NULL THEN where[1] = NULL
                  ELSE Place(where[1], where[2], nd, held, key, key[n])
<1> DEFINE f == avl_find(key[n])
<1>1. PICK sub \in [Ptr -> SUBSET Node] : IsTree(sub, nd, held, avl_root, key)
  BY DEF UseInv, UseTree, TreeIs
<1>2. key[n] \in Int
  BY <1>1 DEF IsTree
<1>3. IF f.node # NULL THEN f.node \in held /\ key[f.node] = key[n]
      ELSE /\ \A y \in held : key[y] # key[n]
           /\ IF avl_root = NULL THEN f.where = <<NULL, 0>>
              ELSE Place(f.where[1], f.where[2], nd, held, key, key[n])
  BY <1>1, <1>2, FindFinds
<1> HIDE DEF f
<1>4. f.node = NULL
  BY <1>3 DEF Taken
<1> QED
  BY <1>3, <1>4 DEF f, Place, Side

\* avl_add and AVL_REINSERT.
LEMMA AddKeeps ==
    ASSUME UseInv
    PROVE  /\ \A n \in Node : avl_add(n) => UseInv'
           /\ Reinsert => UseInv'
<1>1. ASSUME NEW n \in Node, avl_add(n) PROVE UseInv'
  <2>1. /\ pc \in {"idle", "reinsert"} /\ n \in Node \ held /\ key[n] \notin Taken
        /\ Link(n, avl_find(key[n]).where) /\ key' = key /\ obj' = NULL
    BY <1>1 DEF avl_add, UseInv, UseVars
  <2> DEFINE where == avl_find(key[n]).where
  <2>2. /\ where[2] \in Side
        /\ IF avl_root = NULL THEN where[1] = NULL
           ELSE Place(where[1], where[2], nd, held, key, key[n])
    BY <2>1, FindPlace
  <2>3. Link(n, where)
    BY <2>1
  <2> HIDE DEF where
  <2> QED
    BY <2>1, <2>2, <2>3, LinkKeeps
<1>2. ASSUME Reinsert PROVE UseInv'
  <2>1. /\ pc \in {"idle", "reinsert"} /\ obj \in Node \ held /\ key[obj] \notin Taken
        /\ Link(obj, avl_find(key[obj]).where) /\ key' = key /\ obj' = NULL
    BY <1>2 DEF Reinsert, UseInv, UseVars
  <2> DEFINE where == avl_find(key[obj]).where
  <2>2. /\ where[2] \in Side
        /\ IF avl_root = NULL THEN where[1] = NULL
           ELSE Place(where[1], where[2], nd, held, key, key[obj])
    BY <2>1, FindPlace
  <2>3. Link(obj, where)
    BY <2>1
  <2> HIDE DEF where
  <2>4. PICK n \in Node \ held : n = obj
    BY <2>1
  <2> QED
    BY <2>1, <2>2, <2>3, <2>4, LinkKeeps
<1> QED
  BY <1>1, <1>2

\* avl_insert_here puts the node where avl_find would.
LEMMA InsertHereKeeps ==
    ASSUME UseInv, NEW n \in Node, NEW here \in held, NEW direction \in Side,
           avl_insert_here(n, here, direction)
    PROVE  UseInv'
<1> DEFINE x == nd[here].child[direction]
           w == Far(x, 1 - direction)
           v == key[n]
           where == IF x = NULL THEN <<here, direction>> ELSE <<w, 1 - direction>>
<1>1. PICK sub \in [Ptr -> SUBSET Node] : IsTree(sub, nd, held, avl_root, key)
  BY DEF UseInv, UseTree, TreeIs
<1>2. /\ pc = "idle" /\ n \in Node \ held /\ v \notin Taken
      /\ direction = (IF v > key[here] THEN 1 ELSE 0)
      /\ \A k \in Taken \ {key[here]} : (k < v) = (k < key[here])
      /\ Link(n, where) /\ key' = key /\ obj' = obj
  <2>1. scope \in [nodes : SUBSET Node, moved : Nat, destroy : BOOLEAN]
    BY NodesAssumption DEF UseInv, UseVars
  <2> QED
    BY <2>1 DEF avl_insert_here
<1>3. obj' = NULL
  BY <1>2 DEF UseInv, UseVars
<1>4. /\ v \in Int /\ NULL \notin held /\ \A m \in held : key[m] \in Int
      /\ 1 - direction \in Side /\ (direction = 0 \/ direction = 1)
      /\ 1 - (1 - direction) = direction
      /\ \A y, m \in held : key[m] = key[y] => m = y
  BY <1>1, NodesAssumption DEF IsTree, Side, Subs
<1>5. avl_root # NULL
  BY <1>1 DEF IsTree, Subs
<1>6. ASSUME NEW y \in held \ {here}
      PROVE  key[y] # v /\ (key[y] < v <=> key[y] < key[here]) /\ key[y] # key[here]
  <2>1. key[y] \in Taken /\ key[y] # key[here]
    BY <1>4 DEF Taken
  <2> QED
    BY <2>1, <1>2, <1>4
<1>7. key[here] # v /\ Beyond(v, key[here], direction)
  <2>1. key[here] \in Taken
    BY DEF Taken
  <2> QED
    BY <2>1, <1>2, <1>4 DEF Beyond
<1> HIDE DEF v
<1>8. CASE x = NULL
  <2>1. where = <<here, direction>>
    BY <1>8
  <2>2. Place(here, direction, nd, held, key, v)
    BY <1>6, <1>7, <1>8 DEF Place
  <2> HIDE DEF where
  <2>3. where[2] \in Side /\ Place(where[1], where[2], nd, held, key, key[n])
    BY <2>1, <2>2 DEF v
  <2> QED
    BY <2>3, <1>2, <1>3, <1>5, LinkKeeps DEF v
<1>9. CASE x # NULL
  <2>0. where = <<w, 1 - direction>>
    BY <1>9
  <2>1. NextTo(w, held, key, key[here], direction) /\ w \in sub[x] /\ nd[w].child[1 - direction] = NULL
    BY <1>1, <1>9, WalkDown
  <2> HIDE DEF w
  <2>2. w \in held /\ w # here
    <3>1. sub[x] \subseteq sub[here] /\ sub[here] \subseteq held /\ here \notin sub[x]
      BY <1>1, SubFacts
    <3> QED
      BY <3>1, <2>1
  <2>3. /\ Beyond(key[w], key[here], direction)
        /\ \A y \in held : Beyond(key[y], key[here], direction) => y = w \/ Beyond(key[y], key[w], direction)
    BY <2>1, <2>2, <1>4 DEF NextTo
  <2>4. key[w] \in Int /\ key[here] \in Int /\ key[w] # v /\ (key[w] < v <=> key[w] < key[here])
    BY <2>2, <1>4, <1>6
  <2>5. Beyond(v, key[w], 1 - direction)
    BY <2>3, <2>4, <1>4 DEF Beyond, v
  <2>6. ASSUME NEW y \in held \ {w}
        PROVE  key[y] # v /\ (key[y] < v <=> key[y] < key[w])
    <3>1. key[y] \in Int /\ v \in Int
      BY <1>4 DEF v
    <3>2. CASE y = here
      BY <3>1, <3>2, <2>3, <2>4, <1>4, <1>7 DEF Beyond
    <3>3. CASE y # here
      <4>1. key[y] # v /\ (key[y] < v <=> key[y] < key[here]) /\ key[y] # key[here]
        BY <3>3, <1>6
      <4>2. Beyond(key[y], key[here], direction) => Beyond(key[y], key[w], direction)
        BY <2>3
      <4> QED
        BY <4>1, <4>2, <3>1, <2>3, <2>4, <1>4 DEF Beyond
    <3> QED
      BY <3>2, <3>3
  <2>7. Place(w, 1 - direction, nd, held, key, v)
    BY <2>1, <2>2, <2>5, <2>6, <1>4 DEF Place
  <2> HIDE DEF where
  <2>8. where[2] \in Side /\ Place(where[1], where[2], nd, held, key, key[n])
    BY <2>0, <2>7, <1>4 DEF v
  <2> QED
    BY <2>8, <1>2, <1>3, <1>5, LinkKeeps DEF v
<1> QED
  BY <1>8, <1>9

----------------------------------------------------------------------------
(* One turn of a loop.                                                     *)

\* What the balance of the node at the loop tells about the heights below it.
LEMMA AtLoop ==
    ASSUME NEW sub, NEW S, IsTree(sub, nd, S, avl_root, key), NEW at \in S, NEW side \in Side,
           NEW ht, NEW d \in Int, Hts(ht, nd, S, at, side, d)
    PROVE  LET x == nd[at].child[side]
               o == nd[at].child[1 - side]
           IN  /\ ht[x] \in Nat /\ ht[o] \in Nat /\ ht[at] \in Nat /\ nd[at].balance \in -1..1
               /\ ht[at] = 1 + (IF ht[x] - d > ht[o] THEN ht[x] - d ELSE ht[o])
               /\ nd[at].balance = IF side = 0 THEN ht[o] - (ht[x] - d) ELSE (ht[x] - d) - ht[o]
<1> DEFINE x == nd[at].child[side]
           o == nd[at].child[1 - side]
<1>0. /\ nd \in Heap /\ S \subseteq Slot /\ S \subseteq Ptr /\ ht \in [Ptr -> Nat] /\ (side = 0 \/ side = 1)
      /\ 1 - side \in Side /\ side # 1 - side
  BY DEF IsTree, Slot, Ptr, Hts, Side
<1>1. x \in Ptr /\ o \in Ptr /\ nd[at].balance \in -1..1
  BY <1>0 DEF Heap
<1>2. ht[x] \in Nat /\ ht[o] \in Nat /\ ht[at] \in Nat
  BY <1>0, <1>1
<1>3. Fits(ht[at], nd[at].balance, Told(ht, nd, at, 0, at, side, d), Told(ht, nd, at, 1, at, side, d))
  BY DEF Hts
<1>4. Told(ht, nd, at, side, at, side, d) = ht[x] - d
  BY DEF Told
<1>5. Told(ht, nd, at, 1 - side, at, side, d) = ht[o]
  BY <1>0, <1>2 DEF Told
<1> HIDE DEF x, o
<1>6. CASE side = 0
  <2>1. Fits(ht[at], nd[at].balance, ht[x] - d, ht[o])
    BY <1>3, <1>4, <1>5, <1>6
  <2> QED
    BY <2>1, <1>1, <1>2, <1>6 DEF Fits, x, o
<1>7. CASE side = 1
  <2>1. Fits(ht[at], nd[at].balance, ht[o], ht[x] - d)
    BY <1>3, <1>4, <1>5, <1>7
  <2>2. ht[at] = 1 + (IF ht[x] - d > ht[o] THEN ht[x] - d ELSE ht[o])
    BY <2>1, <1>2 DEF Fits
  <2> QED
    BY <2>1, <2>2, <1>1, <1>2, <1>7 DEF Fits, x, o
<1> QED
  BY <1>0, <1>6, <1>7

\* A balance that is right for the heights x and o below.
LEMMA FitsSides ==
    ASSUME NEW ht, NEW at, NEW side \in Side, NEW t, NEW b,
           ht[nd[at].child[side]] \in Nat, ht[nd[at].child[1 - side]] \in Nat,
           t = 1 + (IF ht[nd[at].child[side]] > ht[nd[at].child[1 - side]]
                    THEN ht[nd[at].child[side]] ELSE ht[nd[at].child[1 - side]]),
           b = IF side = 0 THEN ht[nd[at].child[1 - side]] - ht[nd[at].child[side]]
               ELSE ht[nd[at].child[side]] - ht[nd[at].child[1 - side]]
    PROVE  Fits(t, b, ht[nd[at].child[0]], ht[nd[at].child[1]])
<1>1. CASE side = 0
  BY <1>1 DEF Fits
<1>2. CASE side = 1
  BY <1>2 DEF Fits
<1> QED
  BY <1>1, <1>2 DEF Side

\* SetBalance of the node at the loop.
LEMMA BalanceDone ==
    ASSUME NEW sub \in [Ptr -> SUBSET Node], NEW S, IsTree(sub, nd, S, avl_root, key), NEW at \in S, NEW side \in Side,
           NEW ht, NEW d, Hts(ht, nd, S, at, side, d), NEW b \in -1..1, NEW d2 \in Int,
           ht[at] + d2 \in Nat, Fits(ht[at] + d2, b, ht[nd[at].child[0]], ht[nd[at].child[1]]),
           SetBalance(at, b)
    PROVE  /\ TreeIs(nd', S, avl_root', key) /\ avl_numnodes' = avl_numnodes
           /\ \E t \in [Ptr -> Nat] : Hts(t, nd', S, nd[at].parent, nd[at].index, d2)
           /\ BalanceSet(nd', nd, at, b)
<1>1. nd' = [nd EXCEPT ![at].balance = b] /\ avl_root' = avl_root /\ avl_numnodes' = avl_numnodes
  BY DEF SetBalance
<1>2. nd \in Heap /\ at \in Slot
  BY DEF IsTree, Slot
<1>3. BalanceSet(nd', nd, at, b)
  BY <1>1, <1>2, BalanceFields
<1>4. IsTree(sub, nd', S, avl_root, key)
  BY <1>3, BalanceTree
<1>5. \E t \in [Ptr -> Nat] : Hts(t, nd', S, nd[at].parent, nd[at].index, d2)
  BY <1>3, BalanceHeights
<1> QED
  BY <1>1, <1>3, <1>4, <1>5 DEF TreeIs

\* What a turn must leave for the invariant to hold.
LEMMA TurnKeeps ==
    ASSUME UseInv, UNCHANGED <<key, obj, cookie, scope, held, hist>>, avl_numnodes' = avl_numnodes,
           TreeIs(nd', held, avl_root', key), \A m \in Slot \ held : nd'[m] = nd[m],
           HeightsAre(nd', held, up', which_child', pc'),
           which_child' \in Side, up' \in held \cup {NULL},
           pc' \in {"idle", "insert_up", "remove_up", "reinsert"},
           pc' \in {"idle", "reinsert"} => up' = NULL,
           pc' \in {"idle", "insert_up"} => obj = NULL,
           pc' = "reinsert" => obj # NULL
    PROVE  UseInv'
<1>1. /\ key' = key /\ obj' = obj /\ cookie' = cookie /\ scope' = scope /\ held' = held
      /\ freed' = freed /\ ok' = ok
  BY DEF hist
<1>2. UseTree'
  BY <1>1 DEF UseTree, UseInv
<1>3. UseVars'
  BY <1>1 DEF UseVars, UseInv, Taken
<1> QED
  BY <1>2, <1>3 DEF UseInv

\* The parent of a node of the tree.
LEMMA ParentOf ==
    ASSUME NEW sub, NEW S, IsTree(sub, nd, S, avl_root, key), NEW n \in S
    PROVE  /\ nd[n].parent \in S \cup {NULL} /\ nd[n].index \in Side
           /\ nd[n].parent # NULL => nd[nd[n].parent].child[nd[n].index] = n
           /\ nd[n].parent # n
<1>1. nd \in Heap /\ n \in Slot /\ Links(nd, S, avl_root) /\ NULL \notin S
  BY NodesAssumption DEF IsTree, Slot
<1>2. nd[n].index \in Side
  BY <1>1 DEF Heap
<1>3. IF n = avl_root THEN nd[n].parent = NULL
      ELSE nd[n].parent \in S /\ nd[nd[n].parent].child[nd[n].index] = n
  BY <1>1 DEF Links
<1>4. n \notin sub[nd[n].child[nd[n].index]] /\ n \in sub[n]
  BY <1>2, SubFacts
<1> QED
  BY <1>1, <1>2, <1>3, <1>4

\* Where the loops end.
LEMMA AtRest ==
    ASSUME NEW t \in [Ptr -> Nat], NEW h \in Heap, NEW S \in SUBSET Node, NEW at, NEW side,
           Hts(t, h, S, at, side, 0), NEW where, where # "insert_up"
    PROVE  HeightsAre(h, S, NULL, 0, where)
<1>1. Hts(t, h, S, NULL, 0, -1)
  BY HeightsRest
<1> QED
  BY <1>1 DEF HeightsAre

\* A turn of the loop of avl_insert.
LEMMA InsertUpKeeps ==
    ASSUME UseInv, InsertUp
    PROVE  UseInv'
<1> DEFINE b == nd[up].balance
           new == b + child2balance
           side == which_child
           x == nd[up].child[side]
           o == nd[up].child[1 - side]
<1>0. /\ pc = "insert_up" /\ obj = NULL /\ up \in held \cup {NULL} /\ side \in Side
      /\ held \in SUBSET Node /\ NULL \notin held /\ (side = 0 \/ side = 1) /\ 0 \in Side
  BY NodesAssumption DEF UseInv, UseVars, InsertUp, Side, UseTree, TreeIs, IsTree
<1>f. UNCHANGED <<key, obj, cookie, scope, held, hist>>
  BY DEF InsertUp
<1>1. PICK sub \in [Ptr -> SUBSET Node] : IsTree(sub, nd, held, avl_root, key)
  BY DEF UseInv, UseTree, TreeIs
<1>2. PICK ht \in [Ptr -> Nat] : Hts(ht, nd, held, up, side, 1) /\ Grown(ht, nd, up, side)
  BY <1>0 DEF UseInv, UseTree, HeightsAre
<1>3. CASE up = NULL
  <2>1. up' = NULL /\ which_child' = 0 /\ pc' = "idle" /\ UNCHANGED tree
    BY <1>3 DEF InsertUp, Done
  <2>2. Hts(ht, nd, held, NULL, 0, -1)
    BY <1>0, <1>2, <1>3, HeightsAtNull
  <2>3. HeightsAre(nd', held, up', which_child', pc')
    BY <2>1, <2>2 DEF HeightsAre, tree
  <2>4. TreeIs(nd', held, avl_root', key) /\ avl_numnodes' = avl_numnodes /\ nd' = nd
    BY <2>1 DEF tree, UseInv, UseTree
  <2> QED
    BY <2>1, <2>3, <2>4, <1>0, <1>f, TurnKeeps
<1>4. CASE up # NULL
  <2>0. up \in held
    BY <1>0, <1>4
  <2>1. /\ ht[x] \in Nat /\ ht[o] \in Nat /\ ht[up] \in Nat /\ b \in -1..1
        /\ ht[up] = 1 + (IF ht[x] - 1 > ht[o] THEN ht[x] - 1 ELSE ht[o])
        /\ b = IF side = 0 THEN ht[o] - (ht[x] - 1) ELSE (ht[x] - 1) - ht[o]
    BY <2>0, <1>0, <1>1, <1>2, AtLoop
  <2>p. /\ nd[up].parent \in held \cup {NULL} /\ nd[up].index \in Side
        /\ nd[up].parent # NULL => nd[nd[up].parent].child[nd[up].index] = up
        /\ nd[up].parent # up
    BY <2>0, <1>1, ParentOf
  <2>g. x # NULL /\ (ht[x] = 1 \/ nd[x].balance # 0)
    BY <1>2, <1>4 DEF Grown
  <2>c. child2balance = IF side = 0 THEN -1 ELSE 1
    BY DEF child2balance
  <2>2. CASE new = 0
    <3>1. SetBalance(up, 0) /\ up' = NULL /\ which_child' = 0 /\ pc' = "idle"
      BY <2>2, <1>4 DEF InsertUp, Done
    <3>2. ht[up] = 1 + (IF ht[x] > ht[o] THEN ht[x] ELSE ht[o])
          /\ 0 = IF side = 0 THEN ht[o] - ht[x] ELSE ht[x] - ht[o]
      <4> HIDE DEF x, o, b
      <4> QED
        BY <2>1, <2>2, <2>c, <1>0
    <3>3. Fits(ht[up], 0, ht[nd[up].child[0]], ht[nd[up].child[1]])
      BY <3>2, <2>1, <1>0, FitsSides
    <3>4. /\ TreeIs(nd', held, avl_root', key) /\ avl_numnodes' = avl_numnodes
          /\ \E t \in [Ptr -> Nat] : Hts(t, nd', held, nd[up].parent, nd[up].index, 0)
          /\ BalanceSet(nd', nd, up, 0)
      <4>1. ht[up] + 0 = ht[up] /\ ht[up] + 0 \in Nat
        BY <2>1
      <4>2. Fits(ht[up] + 0, 0, ht[nd[up].child[0]], ht[nd[up].child[1]])
        BY <3>3, <4>1
      <4> QED
        BY <2>0, <3>1, <4>1, <4>2, <1>0, <1>1, <1>2, BalanceDone
    <3>5. nd' \in Heap /\ \A m \in Slot \ held : nd'[m] = nd[m]
      BY <2>0, <3>4 DEF BalanceSet
    <3>6. HeightsAre(nd', held, up', which_child', pc')
      <4>1. PICK t \in [Ptr -> Nat] : Hts(t, nd', held, nd[up].parent, nd[up].index, 0)
        BY <3>4
      <4>2. HeightsAre(nd', held, NULL, 0, pc')
        BY <4>1, <3>1, <3>5, <1>0, AtRest
      <4> QED
        BY <4>2, <3>1
    <3> QED
      BY <3>1, <3>4, <3>5, <3>6, <1>0, <1>f, TurnKeeps
  <2>3. CASE new # 0 /\ b = 0
    <3>1. SetBalance(up, new) /\ up' = nd[up].parent /\ which_child' = nd[up].index /\ pc' = pc
      BY <2>3, <1>4 DEF InsertUp, Ascend
    <3>2. /\ ht[up] + 1 = 1 + (IF ht[x] > ht[o] THEN ht[x] ELSE ht[o])
          /\ new = IF side = 0 THEN ht[o] - ht[x] ELSE ht[x] - ht[o]
          /\ new \in -1..1 /\ ht[up] + 1 \in Nat
      <4> HIDE DEF x, o, b
      <4>1. CASE side = 0
        <5>1. ht[x] = ht[o] + 1 /\ ht[up] = 1 + ht[o] /\ new = -1
          BY <4>1, <2>1, <2>3, <2>c
        <5> HIDE DEF new
        <5> QED
          BY <5>1, <4>1, <2>1
      <4>2. CASE side = 1
        <5>1. ht[x] = ht[o] + 1 /\ ht[up] = 1 + ht[o] /\ new = 1
          BY <4>2, <2>1, <2>3, <2>c
        <5> HIDE DEF new
        <5> QED
          BY <5>1, <4>2, <2>1
      <4> QED
        BY <4>1, <4>2, <1>0
    <3>3. Fits(ht[up] + 1, new, ht[nd[up].child[0]], ht[nd[up].child[1]])
      <4> HIDE DEF new
      <4> QED
        BY <3>2, <2>1, <1>0, FitsSides
    <3>4. /\ TreeIs(nd', held, avl_root', key) /\ avl_numnodes' = avl_numnodes
          /\ \E t \in [Ptr -> Nat] : Hts(t, nd', held, nd[up].parent, nd[up].index, 1)
          /\ BalanceSet(nd', nd, up, new)
      <4> HIDE DEF new
      <4>0. SetBalance(up, new)
        BY <3>1, Zenon
      <4>1. new \in -1..1 /\ ht[up] + 1 \in Nat /\ side \in Side /\ 1 \in Int
        BY <3>2, <1>0
      <4>2. Hts(ht, nd, held, up, side, 1)
        BY <1>2
      <4> QED
        BY <2>0, <4>0, <4>1, <4>2, <3>3, <1>1, BalanceDone
    <3>5. nd' \in Heap /\ \A m \in Slot \ held : nd'[m] = nd[m]
      BY <2>0, <3>4 DEF BalanceSet
    <3>6. HeightsAre(nd', held, up', which_child', pc')
      <4>1. PICK t \in [Ptr -> Nat] : Hts(t, nd', held, nd[up].parent, nd[up].index, 1)
        BY <3>4
      <4>2. Grown(t, nd', nd[up].parent, nd[up].index)
        <5> SUFFICES ASSUME nd[up].parent # NULL
                     PROVE  /\ nd'[nd[up].parent].child[nd[up].index] = up
                            /\ up # NULL /\ nd'[up].balance # 0
          BY DEF Grown
        <5>1. nd[up].parent \in Slot \ {up}
          BY <2>p, <1>0 DEF Slot
        <5>2. nd'[nd[up].parent] = nd[nd[up].parent] /\ nd'[up].balance = new
          BY <5>1, <3>4 DEF BalanceSet
        <5> QED
          BY <5>2, <2>p, <2>3, <1>4
      <4> QED
        BY <4>1, <4>2, <3>1, <1>0 DEF HeightsAre
    <3> QED
      BY <3>1, <3>4, <3>5, <3>6, <2>p, <1>0, <1>f, TurnKeeps
  <2>4. CASE new # 0 /\ b # 0
    <3> DEFINE r == avl_rotation(up, new)
    <3>1. /\ nd' = r.nd /\ avl_root' = r.root /\ avl_numnodes' = avl_numnodes
          /\ up' = NULL /\ which_child' = 0 /\ pc' = "idle"
      BY <2>4, <1>4 DEF InsertUp, Done, Rotate
    <3>2. /\ new \in {-2, 2} /\ side = (IF new < 0 THEN 0 ELSE 1)
          /\ ht[x] = ht[o] + 2 /\ ht[up] = ht[x] /\ ht[x] # 1
      <4> HIDE DEF x, o, b
      <4> QED
        BY <2>1, <2>4, <2>c, <1>0
    <3> HIDE DEF new
    <3>3. IsRotated(r, up, side, held, ht)
      BY <2>0, <3>2, <1>0, <1>1, <1>2, RotationDone
    <3> HIDE DEF r
    <3>4. nd[x].balance # 0
      BY <2>g, <3>2
    <3>5. /\ TreeIs(r.nd, held, r.root, key) /\ \A m \in Slot \ held : r.nd[m] = nd[m]
          /\ \E t \in [Ptr -> Nat] : Hts(t, r.nd, held, nd[up].parent, nd[up].index, ht[x] - ht[up])
      BY <3>3, <3>4 DEF IsRotated, TreeIs
    <3>6. PICK t \in [Ptr -> Nat] : Hts(t, r.nd, held, nd[up].parent, nd[up].index, 0)
      <4>1. ht[x] - ht[up] = 0
        BY <2>1, <3>2
      <4> QED
        BY <3>5, <4>1
    <3>7. r.nd \in Heap
      BY <3>5 DEF TreeIs, IsTree
    <3>8. HeightsAre(nd', held, up', which_child', pc')
      <4>1. HeightsAre(r.nd, held, NULL, 0, "idle")
        BY <3>6, <3>7, <1>0, AtRest
      <4> QED
        BY <4>1, <3>1
    <3> QED
      BY <3>1, <3>5, <3>8, <1>0, <1>f, TurnKeeps
  <2> QED
    BY <2>2, <2>3, <2>4
<1> QED
  BY <1>3, <1>4

\* A turn of the loop of avl_remove.
LEMMA RemoveUpKeeps ==
    ASSUME UseInv, RemoveUp
    PROVE  UseInv'
<1> DEFINE b == nd[up].balance
           new == b - child2balance
           side == which_child
           x == nd[up].child[side]
           o == nd[up].child[1 - side]
<1>0. /\ pc = "remove_up" /\ up \in held \cup {NULL} /\ side \in Side /\ 1 - side \in Side
      /\ held \in SUBSET Node /\ NULL \notin held /\ (side = 0 \/ side = 1) /\ 0 \in Side
      /\ 1 - (1 - side) = side
  BY NodesAssumption DEF UseInv, UseVars, RemoveUp, Side, UseTree, TreeIs, IsTree
<1>f. UNCHANGED <<key, obj, cookie, scope, held, hist>>
  BY DEF RemoveUp
<1>1. PICK sub \in [Ptr -> SUBSET Node] : IsTree(sub, nd, held, avl_root, key)
  BY DEF UseInv, UseTree, TreeIs
<1>2. PICK ht \in [Ptr -> Nat] : Hts(ht, nd, held, up, side, -1)
  BY <1>0 DEF UseInv, UseTree, HeightsAre
<1>d. ASSUME RemoveDone
      PROVE  /\ up' = NULL /\ which_child' = 0 /\ pc' \in {"idle", "reinsert"}
             /\ pc' = "idle" => obj = NULL
             /\ pc' = "reinsert" => obj # NULL
  BY <1>d DEF RemoveDone
<1>3. CASE up = NULL
  <2>1. RemoveDone /\ UNCHANGED tree
    BY <1>3 DEF RemoveUp
  <2>2. Hts(ht, nd, held, NULL, 0, -1)
    BY <1>0, <1>2, <1>3, HeightsAtNull
  <2>3. HeightsAre(nd', held, up', which_child', pc')
    BY <2>1, <2>2, <1>d DEF HeightsAre, tree
  <2>4. TreeIs(nd', held, avl_root', key) /\ avl_numnodes' = avl_numnodes /\ nd' = nd
    BY <2>1 DEF tree, UseInv, UseTree
  <2> QED
    BY <2>1, <2>3, <2>4, <1>0, <1>d, <1>f, TurnKeeps
<1>4. CASE up # NULL
  <2>0. up \in held
    BY <1>0, <1>4
  <2>1. /\ ht[x] \in Nat /\ ht[o] \in Nat /\ ht[up] \in Nat /\ b \in -1..1
        /\ ht[up] = 1 + (IF ht[x] - (-1) > ht[o] THEN ht[x] - (-1) ELSE ht[o])
        /\ b = IF side = 0 THEN ht[o] - (ht[x] - (-1)) ELSE (ht[x] - (-1)) - ht[o]
    <3>1. -1 \in Int
      OBVIOUS
    <3> QED
      BY <3>1, <2>0, <1>0, <1>1, <1>2, AtLoop
  <2>p. nd[up].parent \in held \cup {NULL} /\ nd[up].index \in Side
    BY <2>0, <1>1, ParentOf
  <2>c. child2balance = IF side = 0 THEN -1 ELSE 1
    BY DEF child2balance
  <2>2. CASE b = 0
    <3>1. SetBalance(up, new) /\ RemoveDone
      BY <2>2, <1>4 DEF RemoveUp
    <3>2. /\ ht[up] + 0 = 1 + (IF ht[x] > ht[o] THEN ht[x] ELSE ht[o])
          /\ new = (IF side = 0 THEN ht[o] - ht[x] ELSE ht[x] - ht[o])
          /\ new \in -1..1 /\ ht[up] + 0 \in Nat
      <4> HIDE DEF x, o, b
      <4>1. CASE side = 0
        <5>1. ht[o] = ht[x] + 1 /\ ht[up] = 1 + ht[o] /\ new = 1
          BY <4>1, <2>1, <2>2, <2>c
        <5> HIDE DEF new
        <5> QED
          BY <5>1, <4>1, <2>1
      <4>2. CASE side = 1
        <5>1. ht[o] = ht[x] + 1 /\ ht[up] = 1 + ht[o] /\ new = -1
          BY <4>2, <2>1, <2>2, <2>c
        <5> HIDE DEF new
        <5> QED
          BY <5>1, <4>2, <2>1
      <4> QED
        BY <4>1, <4>2, <1>0
    <3> HIDE DEF new
    <3>3. Fits(ht[up] + 0, new, ht[nd[up].child[0]], ht[nd[up].child[1]])
      BY <3>2, <2>1, <1>0, FitsSides
    <3>4. /\ TreeIs(nd', held, avl_root', key) /\ avl_numnodes' = avl_numnodes
          /\ \E t \in [Ptr -> Nat] : Hts(t, nd', held, nd[up].parent, nd[up].index, 0)
          /\ BalanceSet(nd', nd, up, new)
      <4>0. SetBalance(up, new)
        BY <3>1, Zenon
      <4>1. new \in -1..1 /\ ht[up] + 0 \in Nat /\ side \in Side /\ 0 \in Int
        BY <3>2, <1>0
      <4> QED
        BY <2>0, <4>0, <4>1, <1>2, <3>3, <1>1, BalanceDone
    <3>5. nd' \in Heap /\ \A m \in Slot \ held : nd'[m] = nd[m]
      BY <2>0, <3>4 DEF BalanceSet
    <3>6. HeightsAre(nd', held, up', which_child', pc')
      <4>1. PICK t \in [Ptr -> Nat] : Hts(t, nd', held, nd[up].parent, nd[up].index, 0)
        BY <3>4
      <4>2. pc' # "insert_up"
        BY <3>1, <1>d
      <4>3. HeightsAre(nd', held, NULL, 0, pc')
        BY <4>1, <4>2, <3>5, <1>0, AtRest
      <4> QED
        BY <4>3, <3>1, <1>d
    <3> QED
      BY <3>1, <3>4, <3>5, <3>6, <1>0, <1>d, <1>f, TurnKeeps
  <2>3. CASE b # 0 /\ new = 0
    <3>1. SetBalance(up, 0) /\ up' = nd[up].parent /\ which_child' = nd[up].index /\ pc' = pc
      BY <2>3, <1>4 DEF RemoveUp, Ascend
    <3>2. /\ ht[up] + (-1) = 1 + (IF ht[x] > ht[o] THEN ht[x] ELSE ht[o])
          /\ 0 = (IF side = 0 THEN ht[o] - ht[x] ELSE ht[x] - ht[o])
          /\ ht[up] + (-1) \in Nat
      <4> HIDE DEF x, o, b
      <4>0. b = child2balance
        <5>1. child2balance \in Int
          BY <2>c
        <5> QED
          BY <5>1, <2>1, <2>3
      <4>1. ht[o] = ht[x] /\ ht[up] = ht[x] + 2
        <5> HIDE DEF new
        <5>1. CASE side = 0
          <6>1. b = -1
            BY <5>1, <4>0, <2>c
          <6>2. ht[o] = ht[x]
            BY <6>1, <5>1, <2>1
          <6> QED
            BY <6>2, <2>1
        <5>2. CASE side = 1
          <6>1. b = 1
            BY <5>2, <4>0, <2>c
          <6>2. ht[o] = ht[x]
            BY <6>1, <5>2, <2>1
          <6> QED
            BY <6>2, <2>1
        <5> QED
          BY <5>1, <5>2, <1>0
      <4> QED
        BY <4>1, <2>1
    <3>3. Fits(ht[up] + (-1), 0, ht[nd[up].child[0]], ht[nd[up].child[1]])
      BY <3>2, <2>1, <1>0, FitsSides
    <3>4. /\ TreeIs(nd', held, avl_root', key) /\ avl_numnodes' = avl_numnodes
          /\ \E t \in [Ptr -> Nat] : Hts(t, nd', held, nd[up].parent, nd[up].index, -1)
          /\ BalanceSet(nd', nd, up, 0)
      <4>1. 0 \in -1..1 /\ ht[up] + (-1) \in Nat /\ side \in Side /\ SetBalance(up, 0) /\ -1 \in Int
        BY <3>1, <3>2, <1>0
      <4> QED
        BY <2>0, <4>1, <1>2, <3>3, <1>1, BalanceDone
    <3>5. nd' \in Heap /\ \A m \in Slot \ held : nd'[m] = nd[m]
      BY <2>0, <3>4 DEF BalanceSet
    <3>6. HeightsAre(nd', held, up', which_child', pc')
      BY <3>1, <3>4, <1>0 DEF HeightsAre
    <3> QED
      BY <3>1, <3>4, <3>5, <3>6, <2>p, <1>0, <1>f, TurnKeeps
  <2>4. CASE b # 0 /\ new # 0
    <3> DEFINE r == avl_rotation(up, new)
               left == 1 - side
    <3>1. /\ nd' = r.nd /\ avl_root' = r.root /\ avl_numnodes' = avl_numnodes
          /\ IF r.shorter THEN Ascend ELSE RemoveDone
      BY <2>4, <1>4 DEF RemoveUp, Rotate
    <3>2. /\ new \in {-2, 2} /\ left = (IF new < 0 THEN 0 ELSE 1)
          /\ ht[o] = ht[x] + 2 /\ ht[up] = ht[o] + 1
      <4> HIDE DEF x, o, b
      <4>1. CASE side = 0
        <5>1. b = 1 /\ new = 2
          BY <4>1, <2>1, <2>4, <2>c
        <5> HIDE DEF new
        <5> QED
          BY <5>1, <4>1, <2>1
      <4>2. CASE side = 1
        <5>1. b = -1 /\ new = -2
          BY <4>2, <2>1, <2>4, <2>c
        <5> HIDE DEF new
        <5> QED
          BY <5>1, <4>2, <2>1
      <4> QED
        BY <4>1, <4>2, <1>0
    <3>3. left \in Side /\ nd[up].child[left] = o /\ nd[up].child[1 - left] = x
      BY <1>0
    <3> HIDE DEF new, left
    <3>4. IsRotated(r, up, left, held, ht)
      <4>1. ht[nd[up].child[left]] = ht[nd[up].child[1 - left]] + 2
        BY <3>2, <3>3
      <4> QED
        BY <2>0, <3>2, <3>3, <4>1, <1>1, <1>2, RotationDone
    <3> HIDE DEF r
    <3>5. /\ TreeIs(r.nd, held, r.root, key) /\ \A m \in Slot \ held : r.nd[m] = nd[m]
          /\ r.shorter <=> nd[o].balance # 0
          /\ \E t \in [Ptr -> Nat] : Hts(t, r.nd, held, nd[up].parent, nd[up].index,
                                         (IF nd[o].balance = 0 THEN ht[o] + 1 ELSE ht[o]) - ht[up])
      BY <3>3, <3>4 DEF IsRotated, TreeIs
    <3>6. r.nd \in Heap
      BY <3>5 DEF TreeIs, IsTree
    <3>7. CASE r.shorter
      <4>1. up' = nd[up].parent /\ which_child' = nd[up].index /\ pc' = pc
        BY <3>1, <3>7 DEF Ascend
      <4>2. nd[o].balance # 0
        BY <3>5, <3>7
      <4>3. ht[o] - ht[up] = -1
        BY <2>1, <3>2
      <4>4. \E t \in [Ptr -> Nat] : Hts(t, r.nd, held, nd[up].parent, nd[up].index, -1)
        BY <4>2, <4>3, <3>5
      <4>5. HeightsAre(nd', held, up', which_child', pc')
        BY <4>1, <4>4, <3>1, <1>0 DEF HeightsAre
      <4> QED
        BY <4>1, <4>5, <3>1, <3>5, <2>p, <1>0, <1>f, TurnKeeps
    <3>8. CASE ~ r.shorter
      <4>1. RemoveDone
        BY <3>1, <3>8
      <4>2. nd[o].balance = 0
        BY <3>5, <3>8
      <4>3. (ht[o] + 1) - ht[up] = 0
        BY <2>1, <3>2
      <4>4. PICK t \in [Ptr -> Nat] : Hts(t, r.nd, held, nd[up].parent, nd[up].index, 0)
        BY <4>2, <4>3, <3>5
      <4>5. HeightsAre(nd', held, up', which_child', pc')
        <5>1. pc' # "insert_up"
          BY <4>1, <1>d
        <5>2. HeightsAre(r.nd, held, NULL, 0, pc')
          BY <4>4, <5>1, <3>6, <1>0, AtRest
        <5> QED
          BY <5>2, <4>1, <3>1, <1>d
      <4> QED
        BY <4>1, <4>5, <3>1, <3>5, <1>0, <1>d, <1>f, TurnKeeps
    <3> QED
      BY <3>7, <3>8
  <2> QED
    BY <2>2, <2>3, <2>4
<1> QED
  BY <1>3, <1>4

----------------------------------------------------------------------------
(* avl_remove and avl_update.                                              *)

\* avl_remove up to its loop, and a new key for the node that is out of the tree.
LEMMA UnlinkKeeps ==
    ASSUME UseInv, pc = "idle", NEW n \in held, Unlink(n),
           NEW k \in Key, key' = [key EXCEPT ![n] = k],
           \/ obj' = NULL
           \/ obj' = n /\ k \notin Taken
    PROVE  UseInv'
<1>0. /\ NULL \notin held /\ nd \in Heap /\ held \in SUBSET Node /\ IsFiniteSet(held) /\ up = NULL
      /\ key \in [Node -> Key] /\ key \in [Node -> Int] /\ n \in Node /\ k \in Int /\ Tmp \notin held
  BY NodesAssumption DEF UseInv, UseTree, UseVars, TreeIs, IsTree
<1>1. PICK sub \in [Ptr -> SUBSET Node] : IsTree(sub, nd, held, avl_root, key)
  BY DEF UseInv, UseTree, TreeIs
<1>2. PICK ht \in [Ptr -> Nat] : Hts(ht, nd, held, NULL, which_child, -1)
  BY <1>0 DEF UseInv, UseTree, HeightsAre
<1>3. IsUnlinked(nd', avl_root', up', which_child', n, held)
  <2>1. CASE /\ \E c \in Side : nd[n].child[c] = NULL
             /\ Splice(n, nd, nd[n], avl_root)
    <3>1. /\ nd' = Spliced(n, nd, nd[n]) /\ avl_root' = Root(nd[n].parent, OnlyChild(nd[n]), avl_root)
          /\ up' = nd[n].parent /\ which_child' = nd[n].index
      BY <2>1 DEF Splice, Spliced, OnlyChild
    <3>2. IsUnlinked(Spliced(n, nd, nd[n]), Root(nd[n].parent, OnlyChild(nd[n]), avl_root),
                     nd[n].parent, nd[n].index, n, held)
      BY <2>1, <1>1, <1>2, UnlinkOne
    <3> QED
      BY <3>1, <3>2
  <2>2. CASE /\ \A c \in Side : nd[n].child[c] # NULL
             /\ \E node \in {neighbour(n)} :
                   \E h \in {Swap(n, node)} :
                       Splice(n, h, h[Tmp], Root(nd[n].parent, node, avl_root))
    <3>a. PICK node \in {neighbour(n)} :
             \E h \in {Swap(n, node)} : Splice(n, h, h[Tmp], Root(nd[n].parent, node, avl_root))
      BY <2>2
    <3>0. PICK h \in {Swap(n, node)} : Splice(n, h, h[Tmp], Root(nd[n].parent, node, avl_root))
      BY <3>a
    <3>1. /\ nd' = Spliced(n, h, h[Tmp])
          /\ avl_root' = Root(h[Tmp].parent, OnlyChild(h[Tmp]), Root(nd[n].parent, node, avl_root))
          /\ up' = h[Tmp].parent /\ which_child' = h[Tmp].index
      BY <3>0 DEF Splice, Spliced, OnlyChild
    <3>2. IsUnlinked(Spliced(n, h, h[Tmp]),
                     Root(h[Tmp].parent, OnlyChild(h[Tmp]), Root(nd[n].parent, node, avl_root)),
                     h[Tmp].parent, h[Tmp].index, n, held)
      <4>1. node = neighbour(n) /\ h = Swap(n, node)
        OBVIOUS
      <4> QED
        BY <2>2, <4>1, <1>1, <1>2, UnlinkTwo
    <3> QED
      BY <3>1, <3>2
  <2> QED
    BY <2>1, <2>2 DEF Unlink
<1>4. /\ avl_numnodes' = avl_numnodes - 1 /\ ok' = (ok /\ avl_numnodes > 0) /\ held' = held \ {n}
      /\ pc' = "remove_up" /\ cookie' = cookie /\ scope' = scope /\ freed' = freed
  BY DEF Unlink
<1>5. /\ \E s \in [Ptr -> SUBSET Node] : IsTree(s, nd', held', avl_root', key)
      /\ \E t \in [Ptr -> Nat] : Hts(t, nd', held', up', which_child', -1)
      /\ up' \in held' \cup {NULL} /\ which_child' \in Side
      /\ nd'[n] = Blank /\ nd'[Tmp] = Blank
      /\ \A m \in Slot \ held : m # Tmp => nd'[m] = nd[m]
  BY <1>3, <1>4 DEF IsUnlinked
<1>6. key' \in [Node -> Key] /\ key' \in [Node -> Int] /\ \A m \in held' : key'[m] = key[m] /\ key'[n] = k
  BY <1>0, <1>4
<1>7. TreeIs(nd', held', avl_root', key')
  <2>1. PICK s \in [Ptr -> SUBSET Node] : IsTree(s, nd', held', avl_root', key)
    BY <1>5
  <2>2. n \notin held'
    BY <1>4
  <2>3. IsTree(s, nd', held', avl_root', key')
    <3>1. \A m \in held' \ {n} : key'[m] = key[m]
      BY <1>6
    <3>2. \A m \in held' \ {n}, c \in Side :
             n \in held' => (Beyond(key[m], key[n], c) => Beyond(key[m], key'[n], c))
      BY <2>2
    <3> QED
      BY <2>1, <3>1, <3>2, <1>6, KeysTree
  <2> QED
    BY <2>3 DEF TreeIs
<1>8. Cardinality(held') = Cardinality(held) - 1 /\ Cardinality(held) \in Nat /\ Cardinality(held) # 0
  BY <1>0, <1>4, FS_RemoveElement, FS_EmptySet, FS_CardinalityType
<1>9. UseTree'
  <2>1. \A m \in Slot \ held' : nd'[m] = Blank
    BY <1>4, <1>5 DEF UseInv, UseTree
  <2>2. HeightsAre(nd', held', up', which_child', pc')
    BY <1>4, <1>5 DEF HeightsAre
  <2>3. avl_numnodes' = Cardinality(held')
    BY <1>4, <1>8 DEF UseInv, UseTree
  <2> QED
    BY <2>1, <2>2, <2>3, <1>7 DEF UseTree
<1>10. UseVars'
  <2>1. ok' = TRUE
    <3>1. ok = TRUE /\ avl_numnodes = Cardinality(held)
      BY DEF UseInv, UseVars, UseTree
    <3>2. avl_numnodes > 0
      BY <3>1, <1>8
    <3> QED
      BY <3>1, <3>2, <1>4
  <2>2. obj' # NULL => obj' \in Node \ held' /\ key'[obj'] \notin Taken'
    <3> SUFFICES ASSUME obj' # NULL PROVE obj' \in Node \ held' /\ key'[obj'] \notin Taken'
      OBVIOUS
    <3>1. obj' = n /\ k \notin Taken
      OBVIOUS
    <3>2. key'[n] = k
      BY <1>0
    <3>3. Taken' \subseteq Taken
      BY <1>4, <1>6 DEF Taken
    <3> QED
      BY <3>1, <3>2, <3>3, <1>0, <1>4
  <2> QED
    BY <2>1, <2>2, <1>4, <1>5, <1>6 DEF UseVars, UseInv
<1> QED
  BY <1>9, <1>10 DEF UseInv

\* avl_remove of a node, whose key the user has no more use for.
LEMMA RemoveKeeps ==
    ASSUME UseInv, NEW n \in Node, avl_remove(n)
    PROVE  UseInv'
<1>1. /\ pc = "idle" /\ n \in held /\ Unlink(n) /\ key' = [key EXCEPT ![n] = StartKey[n]]
      /\ obj' = NULL /\ StartKey[n] \in Key
  BY NodesAssumption DEF avl_remove, UseInv, UseVars
<1> QED
  BY <1>1, UnlinkKeeps

\* A new key that has not passed the neighbour on side d has passed no node there.
LEMMA NotPassed ==
    ASSUME UseInv, NEW n \in held, NEW k \in Int, k \notin Taken, NEW d \in Side, ~ Passed(n, k, d)
    PROVE  \A m \in held : Beyond(key[m], key[n], d) => Beyond(key[m], k, d)
<1> DEFINE w == avl_walk(n, d)
<1>1. PICK sub \in [Ptr -> SUBSET Node] : IsTree(sub, nd, held, avl_root, key)
  BY DEF UseInv, UseTree, TreeIs
<1>2. NextTo(w, held, key, key[n], d)
  BY <1>1, WalkIsNext
<1>3. w # NULL => ~ (IF d = 0 THEN k < key[w] ELSE k > key[w])
  BY DEF Passed
<1>4. held \in SUBSET Node /\ key \in [Node -> Int] /\ d \in {0, 1}
  BY <1>1 DEF IsTree, Side
<1> HIDE DEF w
<1> SUFFICES ASSUME NEW m \in held, Beyond(key[m], key[n], d) PROVE Beyond(key[m], k, d)
  OBVIOUS
<1>5. w # NULL /\ w \in held /\ (m = w \/ Beyond(key[m], key[w], d))
  BY <1>2 DEF NextTo
<1>6. key[w] # k /\ key[w] \in Int /\ key[m] \in Int
  BY <1>4, <1>5 DEF Taken
<1> QED
  BY <1>3, <1>4, <1>5, <1>6 DEF Beyond

\* avl_update and its variants: the node leaves its place, or its new key fits there.
LEMMA UpdateKeeps ==
    ASSUME UseInv, NEW n \in Node, NEW k \in Key, Update(n, k)
    PROVE  UseInv'
<1>0. /\ pc = "idle" /\ n \in held /\ k \notin Taken /\ k \in Int
      /\ key \in [Node -> Int] /\ key \in [Node -> Key] /\ held \in SUBSET Node
  BY NodesAssumption DEF Update, UseInv, UseVars, UseTree, TreeIs, IsTree
<1>1. PICK lt, gt : /\ avl_update(n, k, lt, gt) /\ lt \in BOOLEAN /\ gt \in BOOLEAN
                    /\ lt \/ k > key[n]
                    /\ gt \/ k < key[n]
  BY Zenon DEF Update
<1>2. CASE (lt /\ Passed(n, k, 0)) \/ (gt /\ Passed(n, k, 1))
  <2>1. key' = [key EXCEPT ![n] = k] /\ Unlink(n) /\ obj' = n
    BY <1>1, <1>2 DEF avl_update
  <2> QED
    BY <2>1, <1>0, UnlinkKeeps
<1>3. CASE ~ ((lt /\ Passed(n, k, 0)) \/ (gt /\ Passed(n, k, 1)))
  <2>1. key' = [key EXCEPT ![n] = k] /\ UNCHANGED <<tree, pc, loop, obj, cookie, scope, held, hist>>
    BY <1>1, <1>3 DEF avl_update
  <2>2. /\ key' \in [Node -> Int] /\ key' \in [Node -> Key] /\ key'[n] = k
        /\ \A m \in held \ {n} : key'[m] = key[m]
    BY <2>1, <1>0
  <2>3. ASSUME NEW m \in held \ {n}, NEW d \in Side, Beyond(key[m], key[n], d)
        PROVE  Beyond(key[m], k, d)
    <3>0. key[m] \in Int /\ key[n] \in Int /\ d \in {0, 1}
      BY <1>0 DEF Side
    <3>1. CASE ~ Passed(n, k, d)
      BY <3>1, <2>3, <1>0, NotPassed
    <3>2. CASE d = 0 /\ ~ lt
      BY <3>0, <3>2, <2>3, <1>0, <1>1 DEF Beyond
    <3>3. CASE d = 1 /\ ~ gt
      BY <3>0, <3>3, <2>3, <1>0, <1>1 DEF Beyond
    <3> QED
      BY <3>0, <3>1, <3>2, <3>3, <1>3
  <2>4. PICK sub \in [Ptr -> SUBSET Node] : IsTree(sub, nd, held, avl_root, key)
    BY DEF UseInv, UseTree, TreeIs
  <2>5. IsTree(sub, nd, held, avl_root, key')
    BY <2>2, <2>3, <2>4, KeysTree
  <2>6. TreeIs(nd, held, avl_root, key')
    BY <2>5 DEF TreeIs
  <2>7. UseTree'
    BY <2>1, <2>6 DEF UseInv, UseTree, tree, loop
  <2>8. UseVars'
    <3>1. obj = NULL
      BY <1>0 DEF UseInv, UseVars
    <3> QED
      BY <3>1, <2>1, <2>2 DEF UseInv, UseVars, loop, hist
  <2> QED
    BY <2>7, <2>8 DEF UseInv
<1> QED
  BY <1>2, <1>3

----------------------------------------------------------------------------
(* avl_destroy_nodes.                                                      *)

\* On the way from the root to n, where it goes right there is nothing on the left.
OnPath(sub, h, S, root, n) ==
    \A a \in S : n \in sub[a] /\ a # root /\ h[a].index = 1 => h[h[a].parent].child[0] = NULL

\* What is left while nodes are being returned, once the child c of p, which was returned
\* last, is dropped: a tree whose heights are right off the way to p.
Midway(h, S, root, k, p, c) ==
    /\ p \in S /\ c \in Side /\ (c = 1 => h[p].child[0] = NULL)
    /\ \E sub \in [Ptr -> SUBSET Node] :
          /\ IsTree(sub, h, S, root, k) /\ OnPath(sub, h, S, root, p)
          /\ \E t \in [Ptr -> Nat] : Hts(t, h, {m \in S : p \notin sub[m]}, NULL, 0, 0)

\* Of two subtrees with a node in common one is in the other.
LEMMA Nested ==
    ASSUME NEW sub, NEW h, NEW S, NEW root, NEW k, IsTree(sub, h, S, root, k)
    PROVE  \A a \in S, b \in S : \A n \in S : n \in sub[a] /\ n \in sub[b] => a \in sub[b] \/ b \in sub[a]
<1> SUFFICES ASSUME NEW a \in S, NEW b \in S, NEW n \in S, n \in sub[a], n \in sub[b],
                    a \notin sub[b], b \notin sub[a]
             PROVE  FALSE
  OBVIOUS
<1> DEFINE Both == {m \in S : m \in sub[a] /\ m \in sub[b]}
<1>1. PICK y \in Both : y = root \/ h[y].parent \notin Both
  <2>1. Both \in SUBSET S /\ Both # {}
    OBVIOUS
  <2> HIDE DEF Both
  <2> QED
    BY <2>1, Highest
<1>2. y # a /\ y # b /\ y \in sub[a] /\ y \in sub[b]
  OBVIOUS
<1>3. y # root /\ h[y].parent \in sub[a] /\ h[y].parent \in sub[b]
  BY <1>2, ParentInSub
<1>4. sub[a] \subseteq S
  BY SubFacts
<1> QED
  BY <1>1, <1>3, <1>4

\* n has no right child, or one that has no children.
RightFacts(h, S, n) ==
    LET r == h[n].child[1]
    IN  IF r = NULL THEN h[n].balance <= 0
        ELSE /\ h[n].balance = 1 /\ r \in S /\ h[r].parent = n /\ h[r].index = 1
             /\ \A c \in Side : h[r].child[c] = NULL

\* The ASSERTs of check_right_side on the heights of a node with no left child.
LEMMA RightIsLeaf ==
    ASSUME NEW sub, NEW h, NEW S, NEW root, NEW k, IsTree(sub, h, S, root, k),
           NEW at, NEW t, Hts(t, h, {m \in S : at \notin sub[m]}, NULL, 0, 0),
           NEW n \in S, at \notin sub[n], h[n].child[0] = NULL
    PROVE  RightFacts(h, S, n)
<1> DEFINE r == h[n].child[1]
           G == {m \in S : at \notin sub[m]}
<1>0. 0 \in Side /\ 1 \in Side /\ NULL \notin S /\ S \in SUBSET Node /\ Side = {0, 1}
  BY NodesAssumption DEF Side, IsTree
<1>1. ASSUME NEW m \in G
      PROVE  /\ \A c \in Side : t[h[m].child[c]] \in Nat /\ h[m].child[c] \in G \cup {NULL}
             /\ Fits(t[m], h[m].balance, t[h[m].child[0]], t[h[m].child[1]])
             /\ h[m].balance \in -1..1 /\ t[m] \in Nat
  <2>1. \A c \in Side : h[m].child[c] \in S \cup {NULL} /\ sub[h[m].child[c]] \subseteq sub[m]
    BY SubFacts
  <2>2. m # NULL /\ m \in Slot /\ m \in Ptr
    BY <1>0 DEF Slot, Ptr
  <2>3. h[m].balance \in -1..1 /\ \A c \in Side : h[m].child[c] \in Ptr
    BY <2>2 DEF IsTree, Heap
  <2>4. t \in [Ptr -> Nat]
    BY DEF Hts
  <2>5. Fits(t[m], h[m].balance, t[h[m].child[0]] - 0, t[h[m].child[1]] - 0)
    BY <2>2 DEF Hts, Told
  <2>6. t[h[m].child[0]] \in Nat /\ t[h[m].child[1]] \in Nat
    BY <2>3, <2>4, <1>0
  <2>7. t[h[m].child[0]] - 0 = t[h[m].child[0]] /\ t[h[m].child[1]] - 0 = t[h[m].child[1]]
    BY <2>6
  <2> QED
    BY <2>1, <2>2, <2>3, <2>4, <2>5, <2>7, <1>0
<1>2. t[NULL] = 0 /\ n \in G
  BY DEF Hts
<1>3. ASSUME NEW m \in G PROVE t[m] >= 1
  BY <1>1, <1>0 DEF Fits
<1>4. CASE r = NULL
  <2>1. h[n].balance = t[h[n].child[1]] - t[h[n].child[0]]
    BY <1>1, <1>2 DEF Fits
  <2>2. h[n].balance = 0
    BY <2>1, <1>2, <1>4
  <2> QED
    BY <2>2, <1>4 DEF RightFacts
<1>5. CASE r # NULL
  <2>1. r \in G /\ t[r] \in Nat /\ t[r] >= 1
    BY <1>1, <1>2, <1>3, <1>5, <1>0
  <2>2. h[n].balance = t[r] - 0 /\ h[n].balance \in -1..1
    BY <1>1, <1>2 DEF Fits
  <2>3. t[r] = 1 /\ h[n].balance = 1
    BY <2>1, <2>2
  <2>4. t[h[r].child[0]] = 0 /\ t[h[r].child[1]] = 0
    BY <2>1, <2>3, <1>1, <1>0 DEF Fits
  <2>5. \A c \in Side : h[r].child[c] \in G \cup {NULL}
    BY <2>1, <1>1
  <2>6. \A c \in Side : h[r].child[c] = NULL
    <3>1. \A m \in G : t[m] # 0
      BY <1>1, <1>3
    <3> QED
      BY <3>1, <2>4, <2>5, <1>0
  <2>7. r \in S /\ h[r].parent = n /\ h[r].index = 1
    BY <1>5, <1>0 DEF IsTree, Links
  <2> QED
    BY <2>3, <2>6, <2>7, <1>5 DEF RightFacts
<1> QED
  BY <1>4, <1>5

\* Without the leaf q that is returned a tree is a tree still, and the way goes on from
\* the parent of q.
LEMMA LeafReturned ==
    ASSUME NEW sub \in [Ptr -> SUBSET Node], NEW h, NEW S, NEW root, NEW k, IsTree(sub, h, S, root, k),
           NEW at, NEW t \in [Ptr -> Nat], Hts(t, h, {m \in S : at \notin sub[m]}, NULL, 0, 0),
           NEW q \in S, \A c \in Side : h[q].child[c] = NULL,
           OnPath(sub, h, S, root, q),
           \A m \in S \ {q} : at \in sub[m] => h[q].parent \in sub[m]
    PROVE  IF h[q].parent = NULL THEN S = {q} /\ q = root
           ELSE Midway(Put(h, h[q].parent, h[q].index, NULL), S \ {q}, root, k, h[q].parent, h[q].index)
<1> DEFINE p == h[q].parent
           i == h[q].index
           g == Put(h, p, i, NULL)
           s == Without(sub, q)
<1>0. /\ 0 \in Side /\ 1 \in Side /\ NULL \notin S /\ S \in SUBSET Node /\ Side = {0, 1} /\ h \in Heap
      /\ q \in Slot
  BY NodesAssumption DEF Side, IsTree, Slot
<1>1. CASE p = NULL
  <2>1. q = root
    BY <1>0, <1>1 DEF IsTree, Links
  <2>2. sub[q] = {q} \cup sub[NULL] \cup sub[NULL] /\ sub[NULL] = {} /\ sub[root] = S
    BY <1>0 DEF IsTree, Subs
  <2> QED
    BY <2>1, <2>2, <1>1
<1>2. CASE p # NULL
  <2>0. /\ p \in S /\ p \in Node /\ i \in Side /\ h[p].child[i] = q /\ q # root /\ p # q
    <3>1. q # root /\ p \in S /\ h[p].child[i] = q
      BY <1>0, <1>2 DEF IsTree, Links
    <3>2. i \in Side
      BY <1>0 DEF Heap
    <3>3. h[q].child[i] = NULL /\ q # NULL
      BY <3>2, <1>0
    <3> QED
      BY <3>1, <3>2, <3>3, <1>0
  <2>1. /\ g \in Heap
        /\ g[p].child[i] = NULL /\ g[p].child[1 - i] = h[p].child[1 - i]
        /\ g[p].parent = h[p].parent /\ g[p].index = h[p].index
        /\ g[p].balance = h[p].balance
        /\ \A m \in Slot \ {p} : g[m] = h[m]
    <3>1. NULL \in Ptr
      BY DEF Ptr
    <3> HIDE DEF p, i
    <3> QED
      BY <3>1, <2>0, <1>0, PutFields
  <2> HIDE DEF p, i, g, s
  <2>2. Cut(g, h, S, q, NULL)
    <3>1. \E c \in Side : h[q].child[c] = NULL /\ h[q].child[1 - c] = NULL
      BY <1>0
    <3>2. \A m \in S \ {q, NULL, p} : g[m] = h[m]
      BY <2>1, <1>0 DEF Slot
    <3> QED
      BY <3>1, <3>2, <2>1 DEF Cut, p, i
  <2>3. IsTree(s, g, S \ {q}, root, k)
    <3>1. IsTree(s, g, S \ {q}, Root(p, NULL, root), k)
      BY <2>2, CutTree DEF p, s
    <3> QED
      BY <3>1, <1>2 DEF Root, p
  <2>4. s \in [Ptr -> SUBSET Node] /\ \A m \in S : s[m] = sub[m] \ {q}
    BY <1>0 DEF s, Without, Ptr
  <2>5. \A m \in S : g[m].index = h[m].index /\ g[m].parent = h[m].parent /\ g[m].balance = h[m].balance
    BY <2>1, <1>0 DEF Slot
  <2>6. \A m \in S : h[m].child[0] = NULL => g[m].child[0] = NULL
    <3> SUFFICES ASSUME NEW m \in S, h[m].child[0] = NULL PROVE g[m].child[0] = NULL
      OBVIOUS
    <3>1. CASE m # p
      BY <3>1, <2>1, <1>0 DEF Slot
    <3>2. CASE m = p
      <4>1. i = 0 \/ (i = 1 /\ 1 - i = 0)
        BY <2>0, <1>0
      <4> QED
        BY <4>1, <3>2, <2>1
    <3> QED
      BY <3>1, <3>2
  <2>7. \A m \in S \ {q} : p \in sub[m] <=> q \in sub[m]
    <3> SUFFICES ASSUME NEW m \in S \ {q} PROVE p \in sub[m] <=> q \in sub[m]
      OBVIOUS
    <3>1. q \in sub[m] => p \in sub[m]
      BY ParentInSub DEF p
    <3>2. q \in sub[p]
      BY <2>0, <1>0, SubFacts
    <3>3. p \in sub[m] => q \in sub[m]
      BY <3>2, SubTransitive
    <3> QED
      BY <3>1, <3>3
  <2>8. OnPath(s, g, S \ {q}, root, p)
    <3> SUFFICES ASSUME NEW a \in S \ {q}, p \in s[a], a # root, g[a].index = 1
                 PROVE  g[g[a].parent].child[0] = NULL
      BY DEF OnPath
    <3>1. q \in sub[a] /\ h[a].index = 1
      BY <2>4, <2>5, <2>7
    <3>2. h[h[a].parent].child[0] = NULL
      BY <3>1 DEF OnPath
    <3>3. h[a].parent \in S
      BY DEF IsTree, Links
    <3> QED
      BY <3>2, <3>3, <2>5, <2>6
  <2>9. i = 1 => g[p].child[0] = NULL
    <3>1. q \in sub[q]
      BY SubFacts
    <3>2. i = 1 => h[p].child[0] = NULL
      BY <3>1, <2>0 DEF OnPath, i, p
    <3> QED
      BY <3>2, <2>0, <2>6
  <2>10. Hts(t, g, {m \in S \ {q} : p \notin s[m]}, NULL, 0, 0)
    <3>1. t \in [Ptr -> Nat] /\ t[NULL] = 0
      BY DEF Hts
    <3>2. ASSUME NEW m \in S \ {q}, p \notin s[m]
          PROVE  Fits(t[m], g[m].balance, Told(t, g, m, 0, NULL, 0, 0), Told(t, g, m, 1, NULL, 0, 0))
      <4>1. p \notin sub[m]
        BY <3>2, <2>0, <2>4
      <4>2. at \notin sub[m]
        BY <4>1 DEF p
      <4>3. p \in sub[p]
        BY <2>0, SubFacts
      <4>4. g[m] = h[m]
        BY <4>1, <4>3, <2>1, <1>0 DEF Slot
      <4>5. Fits(t[m], h[m].balance, Told(t, h, m, 0, NULL, 0, 0), Told(t, h, m, 1, NULL, 0, 0))
        BY <4>2 DEF Hts
      <4> QED
        BY <4>4, <4>5 DEF Told
    <3> QED
      BY <3>1, <3>2 DEF Hts
  <2>11. Midway(g, S \ {q}, root, k, p, i)
    <3>1. /\ p \in S \ {q} /\ i \in Side /\ (i = 1 => g[p].child[0] = NULL)
      BY <2>0, <2>9
    <3>2. /\ s \in [Ptr -> SUBSET Node] /\ IsTree(s, g, S \ {q}, root, k)
          /\ OnPath(s, g, S \ {q}, root, p)
          /\ \E u \in [Ptr -> Nat] : Hts(u, g, {m \in S \ {q} : p \notin s[m]}, NULL, 0, 0)
      BY <2>3, <2>4, <2>8, <2>10
    <3> HIDE DEF s
    <3> QED
      BY <3>1, <3>2 DEF Midway
  <2> QED
    BY <2>11, <1>2 DEF p, i, g
<1> QED
  BY <1>1, <1>2

\* The variables beside the tree while it is being destroyed.
FreeVars ==
    /\ pc \in {"destroying", "destroyed"}
    /\ key \in [Node -> Key] /\ scope \in Scopes
    /\ up = NULL /\ which_child \in Side /\ obj = NULL /\ ok = TRUE
    /\ held \in SUBSET Node /\ freed \in SUBSET held /\ nd \in Heap /\ avl_root \in Ptr

\* The tree before the first call of avl_destroy_nodes, between two calls, when only the
\* last call is left, and after it.
FreeTree ==
    IF pc = "destroyed"
    THEN cookie = <<NULL, 1>> /\ freed = held /\ avl_root = NULL /\ avl_numnodes = 0
    ELSE \/ cookie = <<NULL, 0>> /\ freed = {} /\ UseTree
         \/ cookie = <<NULL, 1>> /\ freed = held /\ avl_numnodes = 1
         \/ \E p \in Node, c \in Side :
               /\ cookie = <<p, c>> /\ avl_numnodes = Cardinality(held \ freed) + 1
               /\ Midway(Put(nd, p, c, NULL), held \ freed, avl_root, key, p, c)

FreeInv == FreeVars /\ FreeTree

\* A call of avl_destroy_nodes that returns the leaf q of what is left.
LEMMA ReturnKeeps ==
    ASSUME FreeInv, pc = "destroying", pc' = pc, UNCHANGED <<key, loop, obj, scope, held>>, avl_root' = avl_root,
           NEW sub \in [Ptr -> SUBSET Node], IsTree(sub, nd', held \ freed, avl_root, key),
           NEW at, NEW t \in [Ptr -> Nat], Hts(t, nd', {m \in held \ freed : at \notin sub[m]}, NULL, 0, 0),
           NEW q \in held \ freed, \A c \in Side : nd'[q].child[c] = NULL,
           OnPath(sub, nd', held \ freed, avl_root, q),
           \A m \in (held \ freed) \ {q} : at \in sub[m] => nd'[q].parent \in sub[m],
           cookie' = IF nd'[q].parent = NULL THEN <<NULL, 1>> ELSE <<nd'[q].parent, nd'[q].index>>,
           freed' = freed \cup {q}, avl_numnodes' = Cardinality(held \ freed), ok' = TRUE
    PROVE  FreeInv'
<1> DEFINE S == held \ freed
           p == nd'[q].parent
           i == nd'[q].index
<1>1. IF p = NULL THEN S = {q} /\ q = avl_root
      ELSE Midway(Put(nd', p, i, NULL), S \ {q}, avl_root, key, p, i)
  BY LeafReturned
<1>2. held' \ freed' = S \ {q} /\ held' = held /\ key' = key /\ q \in held
  OBVIOUS
<1>3. IsFiniteSet(S) /\ nd' \in Heap /\ S \in SUBSET Node
  BY DEF IsTree
<1>4. Cardinality(S) = Cardinality(S \ {q}) + 1
  <2>1. q \in S
    OBVIOUS
  <2> HIDE DEF S
  <2> QED
    BY <1>3, <2>1, FS_RemoveElement, FS_CardinalityType, FS_Subset
<1>5. FreeVars'
  BY <1>2, <1>3 DEF FreeInv, FreeVars, loop
<1>6. CASE p = NULL
  <2>1. cookie' = <<NULL, 1>> /\ freed' = held'
    BY <1>1, <1>2, <1>6 DEF FreeInv, FreeVars
  <2>2. S = {q}
    BY <1>1, <1>6
  <2>3. avl_numnodes' = 1
    BY <2>2, FS_Singleton
  <2> QED
    BY <2>1, <2>3, <1>5 DEF FreeInv, FreeTree
<1>7. CASE p # NULL
  <2>1. Midway(Put(nd', p, i, NULL), held' \ freed', avl_root', key', p, i)
    BY <1>1, <1>2, <1>7
  <2>2. p \in Node /\ i \in Side /\ cookie' = <<p, i>>
    <3>1. p \in S \ {q} /\ i \in Side
      BY <1>1, <1>7 DEF Midway
    <3> QED
      BY <3>1, <1>3, <1>7
  <2>3. avl_numnodes' = Cardinality(held' \ freed') + 1
    BY <1>2, <1>4
  <2> HIDE DEF p, i
  <2>4. FreeTree'
    BY <2>1, <2>2, <2>3 DEF FreeTree
  <2> QED
    BY <2>4, <1>5 DEF FreeInv
<1> QED
  BY <1>6, <1>7

\* check_right_side: it returns n, which has no left child, or the right child of n.
LEMMA RightSideKeeps ==
    ASSUME FreeInv, pc = "destroying", pc' = pc, UNCHANGED <<key, loop, obj, scope, held>>, avl_root' = avl_root,
           NEW sub \in [Ptr -> SUBSET Node], IsTree(sub, nd', held \ freed, avl_root, key),
           NEW at, NEW t \in [Ptr -> Nat], Hts(t, nd', {m \in held \ freed : at \notin sub[m]}, NULL, 0, 0),
           NEW n \in held \ freed, nd'[n].child[0] = NULL,
           OnPath(sub, nd', held \ freed, avl_root, n),
           \A m \in held \ freed : at \in sub[m] => n \in sub[m] /\ m # n,
           \A m \in held \ freed : nd'[m].index = nd[m].index,
           NEW asserted, asserted = TRUE, check_right_side(nd'[n].parent, n, nd', asserted),
           avl_numnodes' = Cardinality(held \ freed)
    PROVE  FreeInv'
<1> DEFINE S == held \ freed
           r == nd'[n].child[1]
           p == nd'[n].parent
<1>0. /\ 0 \in Side /\ 1 \in Side /\ NULL \notin S /\ S \in SUBSET Node /\ Side = {0, 1}
      /\ nd' \in Heap /\ n \in S /\ n # NULL
  BY NodesAssumption DEF Side, IsTree
<1>1. at \notin sub[n]
  OBVIOUS
<1>2. IF r = NULL THEN nd'[n].balance <= 0
      ELSE /\ nd'[n].balance = 1 /\ r \in S /\ nd'[r].parent = n /\ nd'[r].index = 1
           /\ \A c \in Side : nd'[r].child[c] = NULL
  <2>1. RightFacts(nd', S, n)
    <3>1. IsTree(sub, nd', S, avl_root, key) /\ Hts(t, nd', {m \in S : at \notin sub[m]}, NULL, 0, 0)
      OBVIOUS
    <3> HIDE DEF S
    <3> QED
      BY <3>1, <1>0, <1>1, RightIsLeaf
  <2> QED
    BY <2>1 DEF RightFacts
<1>3. p = NULL => n = avl_root
  BY <1>0 DEF IsTree, Links
<1>4. /\ IF r = NULL THEN Return(p, n) ELSE Return(n, r)
      /\ ok' = /\ ok /\ asserted /\ n \notin freed
               /\ IF r = NULL
                  THEN nd'[n].balance <= 0 /\ (p = NULL => n = avl_root)
                  ELSE /\ nd'[n].balance = 1 /\ r \notin freed
                       /\ \A c \in Side : nd'[r].child[c] = NULL
  BY DEF check_right_side
<1>5. ok' = TRUE
  <2>1. ok = TRUE
    BY DEF FreeInv, FreeVars
  <2>2. r # NULL => r \notin freed
    BY <1>2
  <2> QED
    BY <2>1, <2>2, <1>2, <1>3, <1>4
<1>6. CASE r = NULL
  <2>1. cookie' = (IF p = NULL THEN <<NULL, 1>> ELSE <<p, nd'[n].index>>) /\ freed' = freed \cup {n}
    BY <1>4, <1>6 DEF Return
  <2>2. \A c \in Side : nd'[n].child[c] = NULL
    BY <1>0, <1>6
  <2>3. \A m \in S \ {n} : at \in sub[m] => p \in sub[m]
    <3> SUFFICES ASSUME NEW m \in S \ {n}, at \in sub[m] PROVE p \in sub[m]
      OBVIOUS
    <3>1. n \in sub[m] /\ n # m
      OBVIOUS
    <3> QED
      BY <3>1, ParentInSub
  <2> QED
    BY <2>1, <2>2, <2>3, <1>5, ReturnKeeps
<1>7. CASE r # NULL
  <2>0. r \in S /\ nd'[r].parent = n /\ nd'[r].index = 1 /\ \A c \in Side : nd'[r].child[c] = NULL
    BY <1>2, <1>7
  <2>1. cookie' = (IF nd'[r].parent = NULL THEN <<NULL, 1>> ELSE <<nd'[r].parent, nd'[r].index>>)
        /\ freed' = freed \cup {r}
    <3>1. cookie' = <<n, nd[r].index>> /\ freed' = freed \cup {r}
      BY <1>0, <1>4, <1>7 DEF Return
    <3>2. nd[r].index = nd'[r].index
      BY <2>0
    <3> QED
      BY <3>1, <3>2, <2>0, <1>0
  <2>2. \A m \in S \ {r} : at \in sub[m] => nd'[r].parent \in sub[m]
    BY <2>0
  <2>3. OnPath(sub, nd', S, avl_root, r)
    <3> SUFFICES ASSUME NEW a \in S, r \in sub[a], a # avl_root, nd'[a].index = 1
                 PROVE  nd'[nd'[a].parent].child[0] = NULL
      BY DEF OnPath
    <3>1. CASE a = r
      BY <3>1, <2>0
    <3>2. CASE a # r
      <4>1. n \in sub[a]
        BY <3>2, <2>0, ParentInSub
      <4> QED
        BY <4>1 DEF OnPath
    <3> QED
      BY <3>1, <3>2
  <2> HIDE DEF r
  <2>4. PICK q \in held \ freed : q = r
    BY <2>0
  <2>5. /\ \A c \in Side : nd'[q].child[c] = NULL
        /\ OnPath(sub, nd', held \ freed, avl_root, q)
        /\ \A m \in (held \ freed) \ {q} : at \in sub[m] => nd'[q].parent \in sub[m]
        /\ cookie' = IF nd'[q].parent = NULL THEN <<NULL, 1>> ELSE <<nd'[q].parent, nd'[q].index>>
        /\ freed' = freed \cup {q}
    BY <2>0, <2>1, <2>2, <2>3, <2>4
  <2> QED
    BY <2>5, <1>5, ReturnKeeps
<1> QED
  BY <1>6, <1>7

\* The first call of avl_destroy_nodes.
LEMMA FirstKeeps ==
    ASSUME FreeInv, pc = "destroying", DestroyFirst, UNCHANGED <<key, loop, obj, scope, held>>
    PROVE  FreeInv'
<1>0. /\ cookie = <<NULL, 0>> /\ UNCHANGED tree /\ freed = {} /\ UseTree /\ up = NULL
      /\ held \ freed = held
  <2>1. cookie = <<NULL, 0>> /\ UNCHANGED tree
    BY DEF DestroyFirst
  <2>2. \A p \in Node, c \in Side : cookie # <<p, c>>
    BY <2>1, NodesAssumption
  <2> QED
    BY <2>1, <2>2 DEF FreeInv, FreeTree, FreeVars
<1>1. PICK sub \in [Ptr -> SUBSET Node] : IsTree(sub, nd, held, avl_root, key)
  BY <1>0 DEF UseTree, TreeIs
<1>2. PICK t \in [Ptr -> Nat] : Hts(t, nd, held, NULL, which_child, -1)
  BY <1>0 DEF UseTree, HeightsAre
<1>3. avl_numnodes = Cardinality(held) /\ avl_root' = avl_root /\ avl_numnodes' = avl_numnodes /\ nd' = nd
  BY <1>0 DEF UseTree, tree
<1>4. CASE avl_root = NULL
  <2>1. held = {}
    BY <1>1, <1>4 DEF IsTree, Subs
  <2>2. avl_numnodes' = 0
    BY <2>1, <1>3, FS_EmptySet
  <2>3. cookie' = <<NULL, 1>> /\ pc' = "destroyed" /\ UNCHANGED hist
    BY <1>4 DEF DestroyFirst
  <2>4. FreeVars'
    BY <2>3, <1>3 DEF FreeInv, FreeVars, hist, loop
  <2> QED
    BY <2>1, <2>2, <2>3, <2>4, <1>0, <1>3, <1>4 DEF FreeInv, FreeTree, hist
<1>5. CASE avl_root # NULL
  <2> DEFINE n == avl_first
  <2>1. check_right_side(nd[n].parent, n, nd, TRUE) /\ pc' = pc
    BY <1>5 DEF DestroyFirst
  <2>2. avl_root \in held /\ NULL \in Slot \cup {NULL} /\ 0 \in Side /\ sub[avl_root] = held
    BY <1>1, <1>5 DEF IsTree, Links, Side, Subs
  <2>3. n = Descend(nd, NULL, avl_root, 0)[2]
    BY <1>5 DEF avl_first, Far
  <2>4. /\ n \in held /\ nd[n].child[0] = NULL
        /\ \A y \in sub[avl_root] : n \in sub[y] /\ y # avl_root => nd[y].index = 0
    <3> DEFINE x == Descend(nd, NULL, avl_root, 0)
    <3>1. /\ x[2] \in sub[avl_root] /\ nd[x[2]].child[0] = NULL
          /\ \A y \in sub[avl_root] : x[2] \in sub[y] /\ y # avl_root => nd[y].index = 0
      BY <2>2, <1>1, DescendEnds
    <3> QED
      BY <3>1, <2>2, <2>3
  <2> HIDE DEF n
  <2>5. OnPath(sub, nd, held, avl_root, n)
    BY <2>2, <2>4 DEF OnPath
  <2>6. Hts(t, nd, {m \in held : NULL \notin sub[m]}, NULL, 0, 0)
    <3>1. held \in SUBSET Node
      BY <1>1 DEF IsTree
    <3>2. Hts(t, nd, held, NULL, 0, 0)
      BY <3>1, <1>2, HeightsAtNull
    <3> QED
      BY <3>2 DEF Hts
  <2>7. \A m \in held : NULL \notin sub[m]
    <3>1. held \in SUBSET Node /\ \A m \in held : sub[m] \subseteq held
      BY <1>1 DEF IsTree, Subs
    <3> QED
      BY <3>1, NodesAssumption
  <2>8. PICK asserted : asserted = TRUE
    OBVIOUS
  <2> QED
    BY <2>1, <2>4, <2>5, <2>6, <2>7, <2>8, <1>0, <1>1, <1>3, RightSideKeeps
<1> QED
  BY <1>4, <1>5

\* A call that goes on from the cookie.
LEMMA NextKeeps ==
    ASSUME FreeInv, pc = "destroying", DestroyNext, UNCHANGED <<key, loop, obj, scope, held>>
    PROVE  FreeInv'
<1> DEFINE S == held \ freed
           p == cookie[1]
           c == cookie[2]
           h == [nd EXCEPT ![p].child[c] = NULL]
           r == h[p].child[1]
           x == Descend(h, p, r, 0)
           asserted == p \notin freed /\ avl_numnodes > 1
<1>1. /\ p # NULL /\ nd' = h /\ avl_numnodes' = avl_numnodes - 1 /\ avl_root' = avl_root /\ pc' = pc
      /\ \/ /\ c = 1 \/ r = NULL
            /\ Return(h[p].parent, p)
            /\ ok' = (ok /\ asserted /\ (h[p].parent = NULL => p = avl_root))
         \/ c # 1 /\ r # NULL /\ check_right_side(x[1], x[2], h, asserted)
  BY DEF DestroyNext
<1>2. /\ p \in Node /\ c \in Side /\ avl_numnodes = Cardinality(S) + 1
      /\ Midway(Put(nd, p, c, NULL), S, avl_root, key, p, c)
  <2>1. cookie # <<NULL, 0>> /\ cookie # <<NULL, 1>>
    BY <1>1
  <2>2. \E v \in Node, e \in Side :
           /\ cookie = <<v, e>> /\ avl_numnodes = Cardinality(S) + 1
           /\ Midway(Put(nd, v, e, NULL), S, avl_root, key, v, e)
    BY <2>1, Zenon DEF FreeInv, FreeTree
  <2>3. PICK v \in Node : \E e \in Side :
           /\ cookie = <<v, e>> /\ avl_numnodes = Cardinality(S) + 1
           /\ Midway(Put(nd, v, e, NULL), S, avl_root, key, v, e)
    BY <2>2
  <2>4. PICK e \in Side :
           /\ cookie = <<v, e>> /\ avl_numnodes = Cardinality(S) + 1
           /\ Midway(Put(nd, v, e, NULL), S, avl_root, key, v, e)
    BY <2>3
  <2>5. p = v /\ c = e
    BY <2>4
  <2> QED
    BY <2>4, <2>5
<1>3. /\ nd' = Put(nd, p, c, NULL) /\ nd' \in Heap
      /\ nd'[p].child[c] = NULL
      /\ \A m \in Slot : nd'[m].index = nd[m].index
  <2>1. nd' = Put(nd, p, c, NULL) /\ NULL \in Ptr /\ nd \in Heap
    BY <1>1 DEF Put, Ptr, FreeInv, FreeVars
  <2> HIDE DEF p, c
  <2>2. LET g == Put(nd, p, c, NULL)
        IN  /\ g \in Heap /\ g[p].child[c] = NULL /\ g[p].index = nd[p].index
            /\ \A m \in Slot \ {p} : g[m] = nd[m]
    BY <2>1, <1>2, PutFields
  <2> QED
    BY <2>1, <2>2
<1>4. /\ p \in S /\ c \in Side /\ (c = 1 => nd'[p].child[0] = NULL)
      /\ \E sub \in [Ptr -> SUBSET Node] :
            /\ IsTree(sub, nd', S, avl_root, key) /\ OnPath(sub, nd', S, avl_root, p)
            /\ \E t \in [Ptr -> Nat] : Hts(t, nd', {m \in S : p \notin sub[m]}, NULL, 0, 0)
  BY <1>2, <1>3 DEF Midway
<1>5. PICK sub \in [Ptr -> SUBSET Node] :
            /\ IsTree(sub, nd', S, avl_root, key) /\ OnPath(sub, nd', S, avl_root, p)
            /\ \E t \in [Ptr -> Nat] : Hts(t, nd', {m \in S : p \notin sub[m]}, NULL, 0, 0)
  BY <1>4
<1>6. PICK t \in [Ptr -> Nat] : Hts(t, nd', {m \in S : p \notin sub[m]}, NULL, 0, 0)
  BY <1>5
<1>7. asserted = TRUE /\ avl_numnodes' = Cardinality(S)
  <2>1. IsFiniteSet(S) /\ p \in S
    BY <1>4, <1>5 DEF IsTree
  <2>2. Cardinality(S) \in Nat /\ Cardinality(S) # 0
    BY <2>1, FS_CardinalityType, FS_EmptySet
  <2>3. avl_numnodes > 1 /\ avl_numnodes' = Cardinality(S)
    BY <2>2, <1>1, <1>2
  <2> QED
    BY <2>1, <2>3
<1>8. p \in S /\ p \in Slot /\ 0 \in Side /\ 1 \in Side /\ Side = {0, 1} /\ S \in SUBSET Node /\ NULL \notin S
  BY <1>4, <1>5, NodesAssumption DEF IsTree, Slot, Side
<1> HIDE DEF p, c, asserted
<1>9. CASE /\ c = 1 \/ r = NULL
           /\ Return(h[p].parent, p)
           /\ ok' = (ok /\ asserted /\ (h[p].parent = NULL => p = avl_root))
  <2>1. nd'[p].child[1] = NULL /\ nd'[p].child[0] = NULL
    <3>1. c = 0 \/ c = 1
      BY <1>2, <1>8
    <3> QED
      BY <3>1, <1>1, <1>3, <1>4, <1>9
  <2>2. \A d \in Side : nd'[p].child[d] = NULL
    BY <2>1, <1>8
  <2>3. ok' = TRUE
    <3>1. ok = TRUE
      BY DEF FreeInv, FreeVars
    <3>2. nd'[p].parent = NULL => p = avl_root
      BY <1>5, <1>8 DEF IsTree, Links
    <3> QED
      BY <3>1, <3>2, <1>1, <1>7, <1>9
  <2>4. /\ cookie' = (IF nd'[p].parent = NULL THEN <<NULL, 1>> ELSE <<nd'[p].parent, nd'[p].index>>)
        /\ freed' = freed \cup {p}
    <3>1. nd'[p].index = nd[p].index
      BY <1>3, <1>8
    <3> QED
      BY <3>1, <1>1, <1>9 DEF Return
  <2>5. \A m \in S \ {p} : p \in sub[m] => nd'[p].parent \in sub[m]
    BY <1>5, ParentInSub
  <2> HIDE DEF h, r, x
  <2> QED
    BY <2>2, <2>3, <2>4, <2>5, <1>1, <1>5, <1>6, <1>7, <1>8, ReturnKeeps
<1>10. CASE c # 1 /\ r # NULL /\ check_right_side(x[1], x[2], h, asserted)
  <2>0. /\ r = nd'[p].child[1] /\ x = Descend(nd', p, r, 0) /\ c = 0
        /\ check_right_side(x[1], x[2], nd', asserted)
    BY <1>1, <1>2, <1>8, <1>10
  <2> HIDE DEF h, r, x
  <2>1. r \in S /\ nd'[r].parent = p /\ nd'[r].index = 1 /\ r # avl_root
    <3>1. r \in S /\ nd'[r].parent = p /\ nd'[r].index = 1
      BY <2>0, <1>5, <1>8, <1>10 DEF IsTree, Links
    <3> QED
      BY <3>1, <1>5, <1>8 DEF IsTree, Links
  <2>2. /\ x[2] \in sub[r] /\ nd'[x[2]].child[0] = NULL
        /\ x[1] = (IF x[2] = r THEN p ELSE nd'[x[2]].parent)
        /\ \A y \in sub[r] : x[2] \in sub[y] /\ y # r => nd'[y].index = 0
    <3>1. p \in Slot \cup {NULL}
      BY <1>8
    <3>2. LET z == Descend(nd', p, r, 0)
          IN  /\ z[2] \in sub[r] /\ nd'[z[2]].child[0] = NULL
              /\ z[1] = (IF z[2] = r THEN p ELSE nd'[z[2]].parent)
              /\ \A y \in sub[r] : z[2] \in sub[y] /\ y # r => nd'[y].index = 0
      BY <3>1, <2>1, <1>5, <1>8, DescendEnds
    <3> QED
      BY <3>2, <2>0
  <2> DEFINE n == x[2]
  <2>3. x[1] = nd'[n].parent
    BY <2>1, <2>2
  <2>4. sub[r] \subseteq sub[p] /\ p \notin sub[r] /\ sub[r] \subseteq S
    <3>1. IsTree(sub, nd', S, avl_root, key)
      BY <1>5
    <3> HIDE DEF S
    <3>2. sub[nd'[p].child[1]] \subseteq sub[p] /\ p \notin sub[nd'[p].child[1]]
      BY <3>1, <1>8, SubFacts
    <3>3. sub[r] \subseteq S
      BY <3>1, <2>1, SubFacts
    <3> QED
      BY <3>2, <3>3, <2>0
  <2>5. n \in S /\ n # p /\ n \in sub[p] /\ n \in sub[r] /\ nd'[n].child[0] = NULL
    BY <2>2, <2>4
  <2>6. check_right_side(nd'[n].parent, n, nd', asserted)
    BY <2>0, <2>3
  <2> HIDE DEF n
  <2>7. OnPath(sub, nd', S, avl_root, n)
    <3> SUFFICES ASSUME NEW a \in S, n \in sub[a], a # avl_root, nd'[a].index = 1
                 PROVE  nd'[nd'[a].parent].child[0] = NULL
      BY DEF OnPath
    <3>1. CASE a = r
      BY <3>1, <2>0, <2>1, <1>3
    <3>2. CASE a # r /\ a \in sub[r]
      BY <3>2, <2>2 DEF n
    <3>3. CASE a # r /\ a \notin sub[r]
      <4>1. r \in sub[a]
        BY <3>3, <2>1, <2>5, <1>5, Nested
      <4>2. p \in sub[a]
        BY <4>1, <3>3, <2>1, <1>5, ParentInSub
      <4> QED
        BY <4>2, <1>5 DEF OnPath
    <3> QED
      BY <3>1, <3>2, <3>3
  <2>8. \A m \in S : p \in sub[m] => n \in sub[m] /\ m # n
    <3> SUFFICES ASSUME NEW m \in S, p \in sub[m] PROVE n \in sub[m] /\ m # n
      OBVIOUS
    <3>1. n \in sub[m]
      BY <2>5, <1>5, SubTransitive
    <3>2. m # n
      <4> SUFFICES ASSUME m = n PROVE FALSE
        OBVIOUS
      <4>1. p \in sub[r]
        BY <2>1, <2>5, <1>5, SubTransitive
      <4> QED
        BY <4>1, <2>4
    <3> QED
      BY <3>1, <3>2
  <2>9. \A m \in S : nd'[m].index = nd[m].index
    BY <1>3, <1>8 DEF Slot
  <2> QED
    BY <2>5, <2>6, <2>7, <2>8, <2>9, <1>1, <1>5, <1>6, <1>7, RightSideKeeps
<1> QED
  BY <1>1, <1>9, <1>10

\* The last call, which returns NULL.
LEMMA LastKeeps ==
    ASSUME FreeInv, pc = "destroying", DestroyLast, UNCHANGED <<key, loop, obj, scope, held>>
    PROVE  FreeInv'
<1>1. /\ cookie = <<NULL, 1>> /\ ok' = (ok /\ (avl_root # NULL => avl_numnodes = 1))
      /\ avl_root' = NULL /\ avl_numnodes' = 0 /\ pc' = "destroyed" /\ UNCHANGED <<nd, cookie, freed>>
  BY DEF DestroyLast
<1>2. freed = held /\ avl_numnodes = 1 /\ ok = TRUE
  <2>1. \A p \in Node, c \in Side : cookie # <<p, c>>
    BY <1>1, NodesAssumption
  <2>2. cookie # <<NULL, 0>>
    BY <1>1
  <2> QED
    BY <2>1, <2>2 DEF FreeInv, FreeTree, FreeVars
<1>3. ok' = TRUE
  BY <1>1, <1>2
<1>4. NULL \in Ptr
  BY DEF Ptr
<1> QED
  BY <1>1, <1>2, <1>3, <1>4 DEF FreeInv, FreeTree, FreeVars, loop

\* The invariant of the tree: while it is used and while it is being destroyed.
AvlInv == UseInv \/ FreeInv

\* StartDestroy, every call of avl_destroy_nodes, and avl_destroy.
LEMMA DestroyKeeps ==
    /\ UseInv /\ StartDestroy => AvlInv'
    /\ FreeInv /\ avl_destroy_nodes => AvlInv'
    /\ FreeInv /\ avl_destroy => AvlInv'
<1>1. ASSUME UseInv, StartDestroy PROVE AvlInv'
  <2>1. /\ pc = "idle" /\ pc' = "destroying" /\ cookie' = <<NULL, 0>>
        /\ UNCHANGED <<tree, key, loop, obj, scope, held, hist>>
    BY <1>1 DEF StartDestroy
  <2>2. up = NULL /\ obj = NULL /\ freed = {} /\ ok = TRUE
    BY <1>1, <2>1 DEF UseInv, UseVars
  <2>3. PICK sub \in [Ptr -> SUBSET Node] : IsTree(sub, nd, held, avl_root, key)
    BY <1>1 DEF UseInv, UseTree, TreeIs
  <2>4. nd \in Heap /\ held \in SUBSET Node /\ avl_root \in Ptr
    <3>1. avl_root \in held \cup {NULL}
      BY <2>3 DEF IsTree, Links
    <3> QED
      BY <3>1, <2>3 DEF IsTree, Ptr
  <2>5. FreeVars'
    BY <1>1, <2>1, <2>2, <2>4 DEF UseInv, UseVars, FreeVars, tree, loop, hist
  <2>6. HeightsAre(nd, held, up, which_child, "destroying")
    <3>1. HeightsAre(nd, held, up, which_child, "idle")
      BY <1>1, <2>1 DEF UseInv, UseTree
    <3> QED
      BY <3>1 DEF HeightsAre
  <2>7. UseTree'
    BY <1>1, <2>1, <2>6 DEF UseInv, UseTree, tree, loop
  <2> QED
    BY <2>1, <2>2, <2>5, <2>7 DEF AvlInv, FreeInv, FreeTree, hist
<1>2. ASSUME FreeInv, avl_destroy_nodes PROVE AvlInv'
  BY <1>2, FirstKeeps, NextKeeps, LastKeeps DEF avl_destroy_nodes, AvlInv
<1>3. ASSUME FreeInv, avl_destroy PROVE AvlInv'
  <2>1. /\ pc = "destroyed" /\ ok' = (ok /\ avl_numnodes = 0 /\ avl_root = NULL)
        /\ nd' = [n \in Slot |-> Blank] /\ key' = StartKey
        /\ pc' = "idle" /\ cookie' = <<NULL, 0>> /\ held' = {} /\ freed' = {}
        /\ UNCHANGED <<avl_root, avl_numnodes, loop, obj, scope>>
    BY <1>3 DEF avl_destroy
  <2>2. avl_root = NULL /\ avl_numnodes = 0 /\ ok = TRUE /\ up = NULL /\ obj = NULL
        /\ which_child \in Side /\ scope \in Scopes
    BY <1>3, <2>1 DEF FreeInv, FreeVars, FreeTree
  <2>3. ok' = TRUE
    BY <2>1, <2>2
  <2>4. StartKey \in [Node -> Key] /\ StartKey \in [Node -> Int]
    BY NodesAssumption
  <2>5. /\ TreeIs(nd', {}, NULL, StartKey) /\ HeightsAre(nd', {}, NULL, which_child, "idle")
        /\ Cardinality({}) = 0 /\ \A n \in Slot : nd'[n] = Blank
    BY <2>1, <2>4, EmptyTree
  <2>6. UseTree'
    BY <2>1, <2>2, <2>5 DEF UseTree, loop
  <2>7. UseVars'
    BY <2>1, <2>2, <2>3, <2>4 DEF UseVars, loop
  <2> QED
    BY <2>6, <2>7 DEF AvlInv, UseInv
<1> QED
  BY <1>1, <1>2, <1>3

\* Every step of the tree keeps the invariant.
LEMMA AvlStep == AvlInv /\ [Next]_vars => AvlInv'
<1> SUFFICES ASSUME AvlInv, [Next]_vars PROVE AvlInv'
  OBVIOUS
<1>1. CASE UNCHANGED vars
  <2>1. /\ avl_root' = avl_root /\ avl_numnodes' = avl_numnodes /\ nd' = nd /\ key' = key /\ pc' = pc
        /\ up' = up /\ which_child' = which_child /\ obj' = obj /\ cookie' = cookie /\ scope' = scope
        /\ held' = held /\ freed' = freed /\ ok' = ok
    BY <1>1 DEF vars, tree, loop, hist
  <2>2. UseTree' <=> UseTree
    BY <2>1 DEF UseTree
  <2>3. UseVars' <=> UseVars
    BY <2>1 DEF UseVars, Taken
  <2>4. FreeVars' <=> FreeVars
    BY <2>1 DEF FreeVars
  <2>5. FreeTree' <=> FreeTree
    BY <2>1, <2>2 DEF FreeTree
  <2> QED
    BY <2>2, <2>3, <2>4, <2>5 DEF AvlInv, UseInv, FreeInv
<1>2. CASE Next /\ UseInv
  <2>0. pc \in {"idle", "insert_up", "remove_up", "reinsert"}
    BY <1>2 DEF UseInv, UseVars
  <2>1. ASSUME NEW n \in Node, avl_add(n) PROVE AvlInv'
    BY <1>2, <2>1, AddKeeps DEF AvlInv
  <2>2. ASSUME NEW n \in Node, avl_remove(n) PROVE AvlInv'
    BY <1>2, <2>2, RemoveKeeps DEF AvlInv
  <2>3. ASSUME NEW n \in Node, NEW here \in held, NEW direction \in Side, avl_insert_here(n, here, direction)
        PROVE  AvlInv'
    BY <1>2, <2>3, InsertHereKeeps DEF AvlInv
  <2>4. ASSUME NEW n \in Node, NEW k \in Key, Update(n, k) PROVE AvlInv'
    BY <1>2, <2>4, UpdateKeeps DEF AvlInv
  <2>5. CASE InsertUp
    BY <1>2, <2>5, InsertUpKeeps DEF AvlInv
  <2>6. CASE RemoveUp
    BY <1>2, <2>6, RemoveUpKeeps DEF AvlInv
  <2>7. CASE Reinsert
    BY <1>2, <2>7, AddKeeps DEF AvlInv
  <2>8. CASE StartDestroy
    BY <1>2, <2>8, DestroyKeeps
  <2>9. CASE avl_destroy_nodes \/ avl_destroy
    BY <2>0, <2>9 DEF avl_destroy_nodes, avl_destroy
  <2> QED
    BY <1>2, <2>1, <2>2, <2>3, <2>4, <2>5, <2>6, <2>7, <2>8, <2>9 DEF Next
<1>3. CASE Next /\ FreeInv
  <2>0. pc \in {"destroying", "destroyed"}
    BY <1>3 DEF FreeInv, FreeVars
  <2>1. CASE avl_destroy_nodes
    BY <1>3, <2>1, DestroyKeeps
  <2>2. CASE avl_destroy
    BY <1>3, <2>2, DestroyKeeps
  <2> QED
    BY <1>3, <2>0, <2>1, <2>2 DEF Next, avl_add, avl_remove, avl_insert_here, Update, InsertUp,
       RemoveUp, Reinsert, StartDestroy
<1> QED
  BY <1>1, <1>2, <1>3 DEF AvlInv

\* The invariant holds always.
LEMMA AvlAlways == Spec => []AvlInv
<1>1. Init => AvlInv
  BY UseInit DEF AvlInv
<1> QED
  BY <1>1, AvlStep, PTL DEF Spec

----------------------------------------------------------------------------
(* The properties.                                                         *)

\* The types of all variables.
THEOREM AvlTypes == Spec => []TypeOK
<1>1. UseInv => TypeOK
  <2> SUFFICES ASSUME UseInv PROVE TypeOK
    OBVIOUS
  <2>1. PICK sub \in [Ptr -> SUBSET Node] : IsTree(sub, nd, held, avl_root, key)
    BY DEF UseInv, UseTree, TreeIs
  <2>2. held \in SUBSET Node /\ avl_root \in Ptr /\ nd \in Heap /\ avl_numnodes \in Nat
    <3>1. held \in SUBSET Node /\ avl_root \in held \cup {NULL} /\ nd \in Heap /\ IsFiniteSet(held)
      BY <2>1 DEF IsTree, Links
    <3>2. avl_numnodes \in Nat
      BY <3>1, FS_CardinalityType DEF UseInv, UseTree
    <3> QED
      BY <3>1, <3>2 DEF Ptr
  <2> QED
    BY <2>2 DEF TypeOK, Heap, UseInv, UseVars, Ptr, Side
<1>2. FreeInv => TypeOK
  <2> SUFFICES ASSUME FreeInv PROVE TypeOK
    OBVIOUS
  <2>1. cookie \in Ptr \X Side /\ avl_numnodes \in Nat
    <3>0. NULL \in Ptr /\ 0 \in Side /\ 1 \in Side /\ Node \subseteq Ptr
      BY DEF Ptr, Side
    <3>1. CASE cookie = <<NULL, 0>> /\ UseTree
      <4>1. IsFiniteSet(held) /\ avl_numnodes = Cardinality(held)
        BY <3>1 DEF UseTree, TreeIs, IsTree
      <4> QED
        BY <4>1, <3>0, <3>1, FS_CardinalityType
    <3>2. ASSUME NEW p \in Node, NEW c \in Side,
                 cookie = <<p, c>>, avl_numnodes = Cardinality(held \ freed) + 1,
                 Midway(Put(nd, p, c, NULL), held \ freed, avl_root, key, p, c)
          PROVE  cookie \in Ptr \X Side /\ avl_numnodes \in Nat
      <4>1. IsFiniteSet(held \ freed)
        BY <3>2 DEF Midway, IsTree
      <4>2. Cardinality(held \ freed) \in Nat
        BY <4>1, FS_CardinalityType
      <4> QED
        BY <4>2, <3>0, <3>2
    <3>3. CASE cookie = <<NULL, 1>> /\ avl_numnodes \in {0, 1}
      BY <3>0, <3>3
    <3> QED
      BY <3>1, <3>2, <3>3 DEF FreeInv, FreeTree
  <2> QED
    BY <2>1 DEF TypeOK, Heap, FreeInv, FreeVars, Ptr
<1>3. AvlInv => TypeOK
  BY <1>1, <1>2 DEF AvlInv
<1> QED
  BY <1>3, AvlAlways, PTL

\* No ASSERT on the state of the tree fails (507-510, 752, 905-906, 982-1033), and
\* avl_destroy_nodes looks at no node it has returned before.
THEOREM AvlAsserts == Spec => []AssertsHold
<1>1. AvlInv => AssertsHold
  BY DEF AvlInv, UseInv, UseVars, FreeInv, FreeVars, AssertsHold
<1> QED
  BY <1>1, AvlAlways, PTL

\* avl_destroy_nodes has returned every node when it returns NULL (949-1035).
THEOREM AvlDestroyed == Spec => []DestroyFreesAll
<1>1. AvlInv => DestroyFreesAll
  BY DEF AvlInv, UseInv, UseVars, FreeInv, FreeTree, DestroyFreesAll
<1> QED
  BY <1>1, AvlAlways, PTL

\* The parent pointers and the indices mirror the child pointers in every state.
THEOREM AvlLinked == Spec => []Linked
<1>1. AvlInv => Linked
  <2>1. ASSUME AvlInv, InUse PROVE UseInv
    BY <2>1 DEF AvlInv, FreeInv, FreeVars, InUse
  <2>2. ASSUME UseInv
        PROVE  /\ avl_root # NULL => nd[avl_root].parent = NULL
               /\ \A n \in held, c \in Side :
                     nd[n].child[c] # NULL => /\ nd[nd[n].child[c]].parent = n
                                              /\ nd[nd[n].child[c]].index = c
    <3>1. PICK sub \in [Ptr -> SUBSET Node] : IsTree(sub, nd, held, avl_root, key)
      BY <2>2 DEF UseInv, UseTree, TreeIs
    <3> QED
      BY <3>1 DEF IsTree, Links
  <2> QED
    BY <2>1, <2>2 DEF Linked
<1> QED
  BY <1>1, AvlAlways, PTL

\* What the child pointers of a tree lead to, by the definition of Below.
LEMMA BelowIsSub ==
    ASSUME UseInv, NEW sub \in [Ptr -> SUBSET Node], IsTree(sub, nd, held, avl_root, key)
    PROVE  Below(avl_root) = held
<1> DEFINE D == Slot \cup {NULL}
           f == [m \in D |-> IF m \in held \cup {NULL} THEN sub[m] ELSE {m}]
           g == CHOOSE g : g = [m \in D |-> IF m = NULL THEN {}
                                            ELSE {m} \cup g[nd[m].child[0]] \cup g[nd[m].child[1]]]
<1>0. /\ NULL \notin held /\ NULL \notin Slot /\ held \subseteq Slot /\ 0 \in Side /\ 1 \in Side
      /\ sub[NULL] = {} /\ sub[avl_root] = held /\ avl_root \in held \cup {NULL}
      /\ \A n \in held : sub[n] = {n} \cup sub[nd[n].child[0]] \cup sub[nd[n].child[1]]
  BY NodesAssumption DEF IsTree, Links, Subs, Slot, Side
<1>1. /\ \A n \in held, c \in Side : nd[n].child[c] \in held \cup {NULL}
      /\ \A n \in Slot \ held : nd[n].child[0] = NULL /\ nd[n].child[1] = NULL
  BY SubFacts, BlankFields DEF UseInv, UseTree
<1>2. f = [m \in D |-> IF m = NULL THEN {} ELSE {m} \cup f[nd[m].child[0]] \cup f[nd[m].child[1]]]
  <2>0. f = [m \in D |-> f[m]] /\ \A m \in held \cup {NULL} : f[m] = sub[m]
    BY <1>0
  <2>1. f[NULL] = {}
    BY <1>0, <2>0
  <2>2. ASSUME NEW m \in held PROVE f[m] = {m} \cup f[nd[m].child[0]] \cup f[nd[m].child[1]]
    BY <1>0, <1>1, <2>0
  <2>3. ASSUME NEW m \in Slot \ held PROVE f[m] = {m} \cup f[nd[m].child[0]] \cup f[nd[m].child[1]]
    <3>1. f[m] = {m}
      BY <1>0
    <3> QED
      BY <3>1, <1>1, <2>1
  <2> HIDE DEF f
  <2>4. ASSUME NEW m \in D
        PROVE  f[m] = IF m = NULL THEN {} ELSE {m} \cup f[nd[m].child[0]] \cup f[nd[m].child[1]]
    BY <2>1, <2>2, <2>3
  <2> QED
    BY <2>0, <2>4, Zenon
<1>3. g = [m \in D |-> IF m = NULL THEN {} ELSE {m} \cup g[nd[m].child[0]] \cup g[nd[m].child[1]]]
  <2> HIDE DEF f
  <2> QED
    BY <1>2, Zenon
<1>4. Below(avl_root) = g[avl_root]
  BY DEF Below
<1> HIDE DEF f, g
<1>5. g[NULL] = {} /\ \A n \in held : g[n] = {n} \cup g[nd[n].child[0]] \cup g[nd[n].child[1]]
  BY <1>0, <1>3
<1>6. \A n \in held : g[n] = sub[n]
  <2> DEFINE Bad == {n \in held : g[n] # sub[n]}
  <2> SUFFICES ASSUME Bad # {} PROVE FALSE
    OBVIOUS
  <2>1. PICK n \in Bad : \A c \in Side : nd[n].child[c] \notin Bad
    <3>1. Bad \in SUBSET held
      OBVIOUS
    <3> HIDE DEF Bad
    <3> QED
      BY <3>1, Lowest
  <2>2. ASSUME NEW c \in Side PROVE g[nd[n].child[c]] = sub[nd[n].child[c]]
    <3>1. nd[n].child[c] \in held \cup {NULL} /\ nd[n].child[c] \notin Bad
      BY <2>1, <1>1
    <3> QED
      BY <3>1, <1>0, <1>5
  <2>3. n \in held /\ g[n] # sub[n]
    OBVIOUS
  <2>4. g[n] = {n} \cup g[nd[n].child[0]] \cup g[nd[n].child[1]]
    BY <2>3, <1>5
  <2>5. sub[n] = {n} \cup sub[nd[n].child[0]] \cup sub[nd[n].child[1]]
    BY <2>3, <1>0
  <2>6. g[nd[n].child[0]] = sub[nd[n].child[0]] /\ g[nd[n].child[1]] = sub[nd[n].child[1]]
    BY <2>2, <1>0
  <2> QED
    BY <2>3, <2>4, <2>5, <2>6
<1> QED
  BY <1>0, <1>4, <1>5, <1>6

\* The tree is the set of the nodes that were put in and not taken out, in every state.
THEOREM AvlIsTheSet == Spec => []IsTheSet
<1>1. AvlInv => IsTheSet
  <2>1. ASSUME AvlInv, InUse PROVE UseInv
    BY <2>1 DEF AvlInv, FreeInv, FreeVars, InUse
  <2>2. ASSUME UseInv PROVE Below(avl_root) = held /\ avl_numnodes = Cardinality(held)
    <3>1. PICK sub \in [Ptr -> SUBSET Node] : IsTree(sub, nd, held, avl_root, key)
      BY <2>2 DEF UseInv, UseTree, TreeIs
    <3> QED
      BY <2>2, <3>1, BelowIsSub DEF UseInv, UseTree
  <2> QED
    BY <2>1, <2>2 DEF IsTheSet
<1> QED
  BY <1>1, AvlAlways, PTL

\* The height of a subtree, by the definition of Height.
LEMMA HeightIs ==
    ASSUME UseInv, pc = "idle", NEW sub \in [Ptr -> SUBSET Node], IsTree(sub, nd, held, avl_root, key),
           NEW t \in [Ptr -> Nat], Hts(t, nd, held, NULL, 0, 0)
    PROVE  \A n \in held \cup {NULL} : Height(n) = t[n]
<1> DEFINE f == [m \in Ptr |-> IF m \in held \cup {NULL} THEN t[m] ELSE 1]
           Up(l, r) == 1 + (IF l > r THEN l ELSE r)
           g == CHOOSE g : g = [m \in Ptr |-> IF m = NULL THEN 0
                                   ELSE 1 + (IF g[nd[m].child[0]] > g[nd[m].child[1]]
                                             THEN g[nd[m].child[0]] ELSE g[nd[m].child[1]])]
<1>0. /\ NULL \notin held /\ NULL \notin Node /\ held \subseteq Node /\ 0 \in Side /\ 1 \in Side
      /\ t[NULL] = 0
  BY NodesAssumption DEF IsTree, Side, Hts
<1>1. /\ \A n \in held, c \in Side : nd[n].child[c] \in held \cup {NULL}
      /\ \A n \in Slot \ held : nd[n].child[0] = NULL /\ nd[n].child[1] = NULL
  BY SubFacts, BlankFields DEF UseInv, UseTree
<1>2. ASSUME NEW n \in held PROVE t[n] = Up(t[nd[n].child[0]], t[nd[n].child[1]])
  <2>1. Fits(t[n], nd[n].balance, t[nd[n].child[0]] - 0, t[nd[n].child[1]] - 0)
    BY <1>0 DEF Hts, Told
  <2>2. nd[n].child[0] \in Ptr /\ nd[n].child[1] \in Ptr
    BY <1>0, <1>1 DEF Ptr
  <2>3. t[nd[n].child[0]] \in Nat /\ t[nd[n].child[1]] \in Nat
    BY <2>2
  <2> QED
    BY <2>1, <2>3 DEF Fits
<1>3. f = [m \in Ptr |-> IF m = NULL THEN 0
                         ELSE 1 + (IF f[nd[m].child[0]] > f[nd[m].child[1]]
                                   THEN f[nd[m].child[0]] ELSE f[nd[m].child[1]])]
  <2>0. f = [m \in Ptr |-> f[m]] /\ \A m \in held \cup {NULL} : f[m] = t[m]
    BY <1>0 DEF Ptr
  <2>1. f[NULL] = 0
    BY <1>0, <2>0
  <2>2. ASSUME NEW m \in held PROVE f[m] = Up(f[nd[m].child[0]], f[nd[m].child[1]])
    <3>1. f[m] = t[m] /\ f[nd[m].child[0]] = t[nd[m].child[0]] /\ f[nd[m].child[1]] = t[nd[m].child[1]]
      BY <1>0, <1>1, <2>0
    <3> HIDE DEF f, Up
    <3> QED
      BY <3>1, <1>2
  <2>3. ASSUME NEW m \in Node \ held PROVE f[m] = Up(f[nd[m].child[0]], f[nd[m].child[1]])
    <3>1. f[m] = 1 /\ nd[m].child[0] = NULL /\ nd[m].child[1] = NULL
      BY <1>0, <1>1 DEF Ptr, Slot
    <3> HIDE DEF f
    <3> QED
      BY <3>1, <2>1
  <2> HIDE DEF f
  <2>4. ASSUME NEW m \in Ptr
        PROVE  f[m] = IF m = NULL THEN 0
                      ELSE 1 + (IF f[nd[m].child[0]] > f[nd[m].child[1]]
                                THEN f[nd[m].child[0]] ELSE f[nd[m].child[1]])
    BY <2>1, <2>2, <2>3 DEF Ptr
  <2> QED
    BY <2>0, <2>4, Zenon
<1>4. g = [m \in Ptr |-> IF m = NULL THEN 0
                         ELSE 1 + (IF g[nd[m].child[0]] > g[nd[m].child[1]]
                                   THEN g[nd[m].child[0]] ELSE g[nd[m].child[1]])]
  <2> HIDE DEF f
  <2> QED
    BY <1>3, Zenon
<1>5. \A n \in Ptr : Height(n) = g[n]
  BY DEF Height
<1> HIDE DEF f, g
<1>6. g[NULL] = 0 /\ \A n \in held : g[n] = Up(g[nd[n].child[0]], g[nd[n].child[1]])
  BY <1>0, <1>4 DEF Ptr
<1> HIDE DEF Up
<1>7. \A n \in held : g[n] = t[n]
  <2> DEFINE Bad == {n \in held : g[n] # t[n]}
  <2> SUFFICES ASSUME Bad # {} PROVE FALSE
    OBVIOUS
  <2>1. PICK n \in Bad : \A c \in Side : nd[n].child[c] \notin Bad
    <3>1. Bad \in SUBSET held
      OBVIOUS
    <3> HIDE DEF Bad
    <3> QED
      BY <3>1, Lowest
  <2>2. ASSUME NEW c \in Side PROVE g[nd[n].child[c]] = t[nd[n].child[c]]
    <3>1. nd[n].child[c] \in held \cup {NULL} /\ nd[n].child[c] \notin Bad
      BY <2>1, <1>1
    <3> QED
      BY <3>1, <1>0, <1>6
  <2>3. n \in held /\ g[n] # t[n]
    OBVIOUS
  <2>4. g[n] = Up(g[nd[n].child[0]], g[nd[n].child[1]])
    BY <2>3, <1>6
  <2>5. t[n] = Up(t[nd[n].child[0]], t[nd[n].child[1]])
    BY <2>3, <1>2
  <2>6. g[nd[n].child[0]] = t[nd[n].child[0]] /\ g[nd[n].child[1]] = t[nd[n].child[1]]
    BY <2>2, <1>0
  <2> QED
    BY <2>3, <2>4, <2>5, <2>6
<1> QED
  BY <1>0, <1>5, <1>6, <1>7 DEF Ptr

\* Between calls every balance is the difference of the heights below it.
THEOREM AvlBalanced == Spec => []Balanced
<1>1. AvlInv => Balanced
  <2> SUFFICES ASSUME AvlInv, pc = "idle", NEW n \in held
               PROVE  nd[n].balance = Height(nd[n].child[1]) - Height(nd[n].child[0])
    BY DEF Balanced
  <2>1. UseInv
    BY DEF AvlInv, FreeInv, FreeVars
  <2>2. PICK sub \in [Ptr -> SUBSET Node] : IsTree(sub, nd, held, avl_root, key)
    BY <2>1 DEF UseInv, UseTree, TreeIs
  <2>3. PICK t \in [Ptr -> Nat] : Hts(t, nd, held, NULL, which_child, -1)
    BY <2>1 DEF UseInv, UseVars, UseTree, HeightsAre
  <2>4. held \in SUBSET Node /\ NULL \notin held /\ 0 \in Side /\ 1 \in Side
    BY <2>2, NodesAssumption DEF IsTree, Side
  <2>5. Hts(t, nd, held, NULL, 0, 0)
    BY <2>3, <2>4, HeightsAtNull
  <2>6. nd[n].child[0] \in held \cup {NULL} /\ nd[n].child[1] \in held \cup {NULL}
    BY <2>2, <2>4, SubFacts
  <2>7. Height(nd[n].child[0]) = t[nd[n].child[0]] /\ Height(nd[n].child[1]) = t[nd[n].child[1]]
    BY <2>1, <2>2, <2>5, <2>6, HeightIs
  <2>8. t[nd[n].child[0]] \in Nat /\ t[nd[n].child[1]] \in Nat
    BY <2>4, <2>6 DEF Ptr
  <2>9. nd[n].balance = (t[nd[n].child[1]] - 0) - (t[nd[n].child[0]] - 0)
    BY <2>4, <2>5 DEF Hts, Told, Fits
  <2> QED
    BY <2>7, <2>8, <2>9
<1> QED
  BY <1>1, AvlAlways, PTL

\* Between calls avl_find finds each key that is in the tree, and no other.
THEOREM AvlFindsIt == Spec => []FindsIt
<1>1. AvlInv => FindsIt
  <2> SUFFICES ASSUME AvlInv, pc = "idle", NEW k \in Key
               PROVE  LET n == avl_find(k).node
                      IN  IF k \in Taken THEN n \in held /\ key[n] = k ELSE n = NULL
    BY DEF FindsIt
  <2>1. UseInv
    BY DEF AvlInv, FreeInv, FreeVars
  <2>2. PICK sub \in [Ptr -> SUBSET Node] : IsTree(sub, nd, held, avl_root, key)
    BY <2>1 DEF UseInv, UseTree, TreeIs
  <2> DEFINE n == avl_find(k).node
  <2>3. IF n # NULL THEN n \in held /\ key[n] = k ELSE \A y \in held : key[y] # k
    <3>1. k \in Int
      BY NodesAssumption
    <3> QED
      BY <2>2, <3>1, FindFinds
  <2>4. NULL \notin held
    BY <2>2, NodesAssumption DEF IsTree
  <2> HIDE DEF n
  <2>5. IF k \in Taken THEN n \in held /\ key[n] = k ELSE n = NULL
    BY <2>3, <2>4 DEF Taken
  <2> QED
    BY <2>5 DEF n
<1> QED
  BY <1>1, AvlAlways, PTL

\* The node next to a key is its neighbour in the order of the keys.
LEMMA NextIsNeighbour ==
    ASSUME NEW n, NEW v \in Int, NEW side \in Side, NextTo(n, held, key, v, side),
           held \in SUBSET Node, key \in [Node -> Int], NULL \notin held
    PROVE  IsNeighbour(n, v, side)
<1> DEFINE beyond == {m \in held : IF side = 0 THEN key[m] < v ELSE key[m] > v}
<1>1. \A m \in held : m \in beyond <=> Beyond(key[m], v, side)
  BY DEF Beyond
<1>2. beyond \subseteq held
  OBVIOUS
<1> HIDE DEF beyond
<1>3. CASE n = NULL
  <2>1. beyond = {}
    BY <1>1, <1>2, <1>3 DEF NextTo
  <2> QED
    BY <2>1, <1>3 DEF IsNeighbour, beyond
<1>4. CASE n # NULL
  <2>1. n \in beyond /\ n \in held
    BY <1>1, <1>4 DEF NextTo
  <2>2. ASSUME NEW m \in beyond PROVE IF side = 0 THEN key[m] <= key[n] ELSE key[m] >= key[n]
    <3>1. m = n \/ Beyond(key[m], key[n], side)
      BY <1>1, <1>2, <1>4 DEF NextTo
    <3>2. key[m] \in Int /\ key[n] \in Int
      BY <1>2, <2>1
    <3> QED
      BY <3>1, <3>2 DEF Beyond
  <2> QED
    BY <2>1, <2>2 DEF IsNeighbour, beyond
<1> QED
  BY <1>3, <1>4

\* avl_nearest from the place of a missing key leads to the node next to it.
LEMMA NearestIsNext ==
    ASSUME NEW sub, NEW S, NEW root, IsTree(sub, nd, S, root, key), NEW v \in Int, NEW where,
           Place(where[1], where[2], nd, S, key, v), NEW d \in Side
    PROVE  NextTo(avl_nearest(where, d), S, key, v, d)
<1> DEFINE p == where[1]
           c == where[2]
<1>0. /\ p \in S /\ c \in Side /\ Beyond(v, key[p], c) /\ NULL \notin S /\ p # NULL /\ Side = {0, 1}
      /\ \A y \in S \ {p} : key[y] # v /\ (key[y] < v <=> key[y] < key[p])
      /\ key \in [Node -> Int] /\ S \in SUBSET Node /\ \A m, n \in S : key[m] = key[n] => m = n
  BY NodesAssumption DEF Place, IsTree, Subs, Side
<1>1. avl_nearest(where, d) = IF c # d THEN p ELSE avl_walk(p, d)
  BY <1>0 DEF avl_nearest
<1> HIDE DEF p, c
<1>2. \A y \in S : key[y] \in Int
  BY <1>0
<1>3. CASE c # d
  <2>1. Beyond(key[p], v, d)
    BY <1>0, <1>2, <1>3 DEF Beyond
  <2>2. ASSUME NEW y \in S, Beyond(key[y], v, d), y # p PROVE Beyond(key[y], key[p], d)
    <3>1. key[y] # v /\ (key[y] < v <=> key[y] < key[p]) /\ key[y] # key[p]
      BY <2>2, <1>0
    <3> QED
      BY <3>1, <2>2, <1>0, <1>2 DEF Beyond
  <2>3. NextTo(p, S, key, v, d)
    BY <2>1, <2>2, <1>0 DEF NextTo
  <2> QED
    BY <2>3, <1>1, <1>3
<1>4. CASE c = d
  <2> DEFINE w == avl_walk(p, d)
  <2>1. NextTo(w, S, key, key[p], d)
    BY <1>0, WalkIsNext
  <2> HIDE DEF w
  <2>2. ASSUME NEW y \in S PROVE Beyond(key[y], v, d) <=> Beyond(key[y], key[p], d)
    <3>1. CASE y = p
      BY <3>1, <1>0, <1>2, <1>4 DEF Beyond
    <3>2. CASE y # p
      <4>1. key[y] # v /\ (key[y] < v <=> key[y] < key[p]) /\ key[y] # key[p]
        BY <3>2, <1>0
      <4> QED
        BY <4>1, <1>0, <1>2 DEF Beyond
    <3> QED
      BY <3>1, <3>2
  <2>3. NextTo(w, S, key, v, d)
    BY <2>1, <2>2 DEF NextTo
  <2> QED
    BY <2>3, <1>1, <1>4 DEF w
<1> QED
  BY <1>3, <1>4

\* avl_first and avl_last lead to the ends of the order.
LEMMA EndsAreEnds ==
    ASSUME NEW sub \in [Ptr -> SUBSET Node], IsTree(sub, nd, held, avl_root, key)
    PROVE  IF held = {} THEN avl_first = NULL /\ avl_last = NULL
           ELSE \A m \in held : key[avl_first] <= key[m] /\ key[m] <= key[avl_last]
<1>0. /\ avl_root \in held \cup {NULL} /\ sub[avl_root] = held /\ sub[NULL] = {} /\ NULL \notin held
      /\ held \in SUBSET Node /\ key \in [Node -> Int] /\ 0 \in Side /\ 1 \in Side
  BY NodesAssumption DEF IsTree, Links, Subs, Side
<1>1. CASE avl_root = NULL
  BY <1>0, <1>1 DEF avl_first, avl_last
<1>2. CASE avl_root # NULL
  <2>1. ASSUME NEW c \in Side
        PROVE  /\ Far(avl_root, c) \in held
               /\ \A y \in held : y = Far(avl_root, c) \/ Beyond(key[y], key[Far(avl_root, c)], 1 - c)
    <3> DEFINE x == Descend(nd, NULL, avl_root, c)
    <3>1. avl_root \in held /\ NULL \in Slot \cup {NULL}
      BY <1>0, <1>2
    <3>2. x[2] \in sub[avl_root] /\ \A y \in sub[avl_root] : y = x[2] \/ Beyond(key[y], key[x[2]], 1 - c)
      BY <3>1, DescendEnds
    <3> QED
      BY <3>2, <1>0 DEF Far
  <2>2. avl_first = Far(avl_root, 0) /\ avl_last = Far(avl_root, 1)
    BY <1>2 DEF avl_first, avl_last
  <2>3. ASSUME NEW m \in held PROVE key[avl_first] <= key[m]
    <3>1. avl_first \in held /\ (m = avl_first \/ Beyond(key[m], key[avl_first], 1))
      BY <2>1, <2>2, <1>0
    <3>2. key[avl_first] \in Int /\ key[m] \in Int
      BY <3>1, <1>0
    <3> QED
      BY <3>1, <3>2 DEF Beyond
  <2>4. ASSUME NEW m \in held PROVE key[m] <= key[avl_last]
    <3>1. avl_last \in held /\ (m = avl_last \/ Beyond(key[m], key[avl_last], 0))
      BY <2>1, <2>2, <1>0
    <3>2. key[avl_last] \in Int /\ key[m] \in Int
      BY <3>1, <1>0
    <3> QED
      BY <3>1, <3>2 DEF Beyond
  <2>5. held # {}
    BY <1>0, <1>2
  <2> QED
    BY <2>3, <2>4, <2>5
<1> QED
  BY <1>1, <1>2

\* Between calls the walks, avl_nearest, avl_first and avl_last follow the order of the keys.
THEOREM AvlNeighbours == Spec => []Neighbours
<1>1. AvlInv => Neighbours
  <2> SUFFICES ASSUME AvlInv, pc = "idle"
               PROVE  /\ IF held = {} THEN avl_first = NULL /\ avl_last = NULL
                         ELSE \A m \in held : key[avl_first] <= key[m] /\ key[m] <= key[avl_last]
                      /\ \A k \in Key, side \in Side :
                            LET f == avl_find(k)
                            IN  IsNeighbour(IF f.node # NULL THEN avl_walk(f.node, side)
                                            ELSE avl_nearest(f.where, side), k, side)
    BY DEF Neighbours
  <2>1. UseInv
    BY DEF AvlInv, FreeInv, FreeVars
  <2>2. PICK sub \in [Ptr -> SUBSET Node] : IsTree(sub, nd, held, avl_root, key)
    BY <2>1 DEF UseInv, UseTree, TreeIs
  <2>3. ASSUME NEW k \in Key, NEW side \in Side
        PROVE  LET f == avl_find(k)
               IN  IsNeighbour(IF f.node # NULL THEN avl_walk(f.node, side)
                               ELSE avl_nearest(f.where, side), k, side)
    <3> DEFINE f == avl_find(k)
               n == IF f.node # NULL THEN avl_walk(f.node, side) ELSE avl_nearest(f.where, side)
    <3>1. k \in Int
      BY NodesAssumption
    <3>2. IF f.node # NULL THEN f.node \in held /\ key[f.node] = k
          ELSE /\ \A y \in held : key[y] # k
               /\ IF avl_root = NULL THEN f.where = <<NULL, 0>>
                  ELSE Place(f.where[1], f.where[2], nd, held, key, k)
      BY <2>2, <3>1, FindFinds
    <3> HIDE DEF f
    <3>3. held \in SUBSET Node /\ key \in [Node -> Int] /\ NULL \notin held
      BY <2>2, NodesAssumption DEF IsTree
    <3>4. NextTo(n, held, key, k, side)
      <4>1. CASE f.node # NULL
        <5>1. f.node \in held /\ key[f.node] = k /\ n = avl_walk(f.node, side)
          BY <3>2, <4>1
        <5>2. NextTo(avl_walk(f.node, side), held, key, key[f.node], side)
          BY <5>1, <2>2, WalkIsNext
        <5> QED
          BY <5>1, <5>2
      <4>2. CASE f.node = NULL /\ avl_root = NULL
        <5>1. held = {}
          BY <2>2, <4>2 DEF IsTree, Subs
        <5>2. n = NULL
          BY <3>2, <4>2 DEF avl_nearest
        <5> QED
          BY <5>1, <5>2 DEF NextTo
      <4>3. CASE f.node = NULL /\ avl_root # NULL
        <5>1. Place(f.where[1], f.where[2], nd, held, key, k) /\ n = avl_nearest(f.where, side)
          BY <3>2, <4>3
        <5>2. NextTo(avl_nearest(f.where, side), held, key, k, side)
          BY <5>1, <2>2, <3>1, NearestIsNext
        <5> QED
          BY <5>1, <5>2
      <4> QED
        BY <4>1, <4>2, <4>3
    <3> HIDE DEF n
    <3>5. IsNeighbour(n, k, side)
      BY <3>1, <3>3, <3>4, NextIsNeighbour
    <3> QED
      BY <3>5 DEF n, f
  <2>4. IF held = {} THEN avl_first = NULL /\ avl_last = NULL
        ELSE \A m \in held : key[avl_first] <= key[m] /\ key[m] <= key[avl_last]
    BY <2>2, EndsAreEnds
  <2> QED
    BY <2>3, <2>4
<1> QED
  BY <1>1, AvlAlways, PTL
=============================================================================
