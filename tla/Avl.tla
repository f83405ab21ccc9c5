-------------------------------- MODULE Avl --------------------------------
(***************************************************************************)
(* avl.c of libnvavl: an AVL tree whose nodes are embedded in the user's   *)
(* data, with parent pointers, the index of a node in its parent and a     *)
(* balance of -1, 0 or 1.  A call is made of its first half, which links   *)
(* or unlinks a node, and of one step per turn of its rebalancing loop;    *)
(* the loops that only read are operators.  ASSERTs that are left to the   *)
(* implementation are recorded in ok; those on the caller are guards.      *)
(***************************************************************************)
EXTENDS Integers, FiniteSets

CONSTANTS
    Node,        \* the user's data structures, each with an avl_node_t
    Key,         \* what avl_compar compares
    NULL,
    Tmp,         \* the avl_node_t on the stack of avl_remove
    StartKey,    \* the key each node is first inserted with
    Scopes       \* what users do: the nodes they insert, how many of them may
                 \* have had their key changed, and do they destroy the tree

ASSUME NodesAssumption ==
    /\ NULL \notin Node /\ Tmp \notin Node /\ NULL # Tmp
    /\ Key \subseteq Int /\ StartKey \in [Node -> Key]
    /\ Scopes \subseteq [nodes : SUBSET Node, moved : Nat, destroy : BOOLEAN]

VARIABLES
    avl_root, avl_numnodes,
    nd,          \* every avl_node_t
    key,         \* the key of every node
    pc,          \* where the call under way is
    up,          \* the node the rebalancing loop comes to, or NULL
    which_child, \* from which child it comes
    obj,         \* what avl_update takes out to put it back, or NULL
    cookie,      \* of avl_destroy_nodes: parent and which child
    scope,       \* what this tree's user does
    held,        \* the nodes that should be in the tree (history)
    freed,       \* the nodes avl_destroy_nodes has returned (history)
    ok           \* have all ASSERTs held ? (history)

tree == <<avl_root, avl_numnodes, nd>>
loop == <<up, which_child>>
hist == <<freed, ok>>
vars == <<tree, key, pc, loop, obj, cookie, scope, held, hist>>

Side == 0..1
Ptr  == Node \cup {NULL}
Slot == Node \cup {Tmp}

\* The fields of a node that is in no tree.
Blank == [child |-> [c \in Side |-> NULL], parent |-> NULL, index |-> 0, balance |-> 0]

\* Mutant: the child index is not set.
relink_parent_only(h, n, p, c) == IF n = NULL THEN h ELSE [h EXCEPT ![n].parent = p]

\* AVL_SETPARENT and AVL_SETCHILD of a child there may be.
Relink(h, n, p, c) ==
    IF n = NULL THEN h ELSE [h EXCEPT ![n].parent = p, ![n].index = c]

\* "if (parent != NULL) parent->avl_child[c] = n; else avl_root = n;"
Put(h, p, c, n)  == IF p = NULL THEN h ELSE [h EXCEPT ![p].child[c] = n]
Root(p, n, root) == IF p = NULL THEN n ELSE root

\* A loop that only follows pointers: from x along next to the first stop.
Follow(next, stop, x) ==
    LET to[y \in DOMAIN next] == IF y \in stop THEN y ELSE to[next[y]]
    IN  to[x]

\* Down from m, a child of p, along one side; the last node and its parent.
Descend(h, p, m, c) ==
    LET at == (Slot \cup {NULL}) \X Slot
    IN  Follow([x \in at |-> <<x[2], h[x[2]].child[c]>>],
               {x \in at : h[x[2]].child[c] = NULL}, <<p, m>>)

Far(m, c) == Descend(nd, NULL, m, c)[2]

----------------------------------------------------------------------------
\* Mutant: the walk up stops at the first parent.
walk_to_parent(n, left) ==
    IF nd[n].child[left] # NULL THEN Far(nd[n].child[left], 1 - left) ELSE nd[n].parent

\* The node before (left = 0) or after (left = 1) n.
avl_walk(n, left) ==
    IF nd[n].child[left] # NULL
    THEN Far(nd[n].child[left], 1 - left)
    ELSE nd[Follow([m \in Node |-> nd[m].parent],
                   {m \in Node : nd[m].parent = NULL \/ nd[m].index # left}, n)].parent

avl_first == IF avl_root = NULL THEN NULL ELSE Far(avl_root, 0)
avl_last  == IF avl_root = NULL THEN NULL ELSE Far(avl_root, 1)

\* The node with key v, or NULL and where such a node is to be inserted.
avl_find(v) ==
    LET side(n) == IF v < key[n] THEN 0 ELSE 1
        last    == Follow([n \in Node |-> nd[n].child[side(n)]],
                          {n \in Node : v = key[n] \/ nd[n].child[side(n)] = NULL},
                          avl_root)
    IN  IF avl_root = NULL THEN [node |-> NULL, where |-> <<NULL, 0>>]
        ELSE IF v = key[last] THEN [node |-> last, where |-> <<NULL, 0>>]
        ELSE [node |-> NULL, where |-> <<last, side(last)>>]

avl_nearest(where, direction) ==
    IF where[1] = NULL THEN NULL
    ELSE IF where[2] # direction THEN where[1]
    ELSE avl_walk(where[1], direction)

----------------------------------------------------------------------------
\* Mutant: the inner grandchild is dropped.
rotate_drops_inner(h, n, left) ==
    LET right  == 1 - left
        child  == h[n].child[left]
        bal    == h[child].balance + (right - left)
    IN  [h EXCEPT
            ![n] = [child   |-> [@.child EXCEPT ![left] = NULL],
                    parent  |-> child, index |-> right, balance |-> -bal],
            ![child] = [child   |-> [@.child EXCEPT ![right] = n],
                        parent  |-> h[n].parent, index |-> h[n].index,
                        balance |-> bal]]

\* Single rotation at n, too heavy on its left side; left = 1 mirrors it.
RotateOnce(h, n, left) ==
    LET right  == 1 - left
        child  == h[n].child[left]
        cright == h[child].child[right]
        bal    == h[child].balance + (right - left)
    IN  [Relink(h, cright, n, left) EXCEPT
            ![n] = [child   |-> [@.child EXCEPT ![left] = cright],
                    parent  |-> child, index |-> right, balance |-> -bal],
            ![child] = [child   |-> [@.child EXCEPT ![right] = n],
                        parent  |-> h[n].parent, index |-> h[n].index,
                        balance |-> bal]]

\* Double rotation: the left child is heavy on its right side.
RotateTwice(h, n, left) ==
    LET right  == 1 - left
        heavy  == right - left       \* right_heavy
        child  == h[n].child[left]
        gchild == h[child].child[right]
        gleft  == h[gchild].child[left]
        gright == h[gchild].child[right]
        bal    == h[gchild].balance
    IN  [Relink(Relink(h, gright, n, left), gleft, child, right) EXCEPT
            ![n] = [child   |-> [@.child EXCEPT ![left] = gright],
                    parent  |-> gchild, index |-> right,
                    balance |-> IF bal = -heavy THEN heavy ELSE 0],
            ![child] = [child   |-> [@.child EXCEPT ![right] = gleft],
                        parent  |-> gchild, index |-> left,
                        balance |-> IF bal = heavy THEN -heavy ELSE 0],
            ![gchild] = [child   |-> [c \in Side |-> IF c = left THEN child ELSE n],
                         parent  |-> h[n].parent, index |-> h[n].index,
                         balance |-> 0]]

\* shorter: is the subtree lower than before ?
avl_rotation(n, balance) ==
    LET left   == IF balance < 0 THEN 0 ELSE 1
        right  == 1 - left
        child  == nd[n].child[left]
        once   == nd[child].balance # right - left
        top    == IF once THEN child ELSE nd[child].child[right]
        h      == IF once THEN RotateOnce(nd, n, left) ELSE RotateTwice(nd, n, left)
    IN  [nd      |-> Put(h, nd[n].parent, nd[n].index, top),
         root    |-> Root(nd[n].parent, top, avl_root),
         shorter |-> h[top].balance = 0]

----------------------------------------------------------------------------
Done == pc' = "idle" /\ up' = NULL /\ which_child' = 0

\* avl_insert, up to its loop.
Link(n, where) ==
    LET p == where[1]
        c == where[2]
    IN  /\ nd' = Put([nd EXCEPT ![n] = [Blank EXCEPT !.parent = p, !.index = c]], p, c, n)
        /\ avl_root' = Root(p, n, avl_root)
        /\ avl_numnodes' = avl_numnodes + 1
        /\ ok' = (ok /\ IF p = NULL THEN avl_root = NULL ELSE nd[p].child[c] = NULL)
        /\ held' = held \cup {n}
        /\ pc' = "insert_up" /\ up' = p /\ which_child' = c
        /\ UNCHANGED <<cookie, scope, freed>>

SetBalance(n, b) ==
    nd' = [nd EXCEPT ![n].balance = b] /\ UNCHANGED <<avl_root, avl_numnodes>>
Rotate(n, b) ==
    /\ nd' = avl_rotation(n, b).nd /\ avl_root' = avl_rotation(n, b).root
    /\ UNCHANGED avl_numnodes
Ascend        == up' = nd[up].parent /\ which_child' = nd[up].index /\ UNCHANGED pc
child2balance == IF which_child = 0 THEN -1 ELSE 1

\* Mutant: avl_insert does not rotate.
InsertUpNoRotation ==
    /\ pc = "insert_up"
    /\ LET old == nd[up].balance
           new == old + child2balance
       IN  \/ up = NULL /\ Done /\ UNCHANGED tree
           \/ up # NULL /\ (new = 0 \/ old # 0) /\ SetBalance(up, new) /\ Done
           \/ up # NULL /\ new # 0 /\ old = 0 /\ SetBalance(up, new) /\ Ascend
    /\ UNCHANGED <<key, obj, cookie, scope, held, hist>>

\* One turn of the loop of avl_insert.
InsertUp ==
    /\ pc = "insert_up"
    /\ LET old == nd[up].balance
           new == old + child2balance
       IN  \/ up = NULL /\ Done /\ UNCHANGED tree
           \/ up # NULL /\ new = 0 /\ SetBalance(up, 0) /\ Done
           \/ up # NULL /\ new # 0 /\ old # 0 /\ Rotate(up, new) /\ Done
           \/ up # NULL /\ new # 0 /\ old = 0 /\ SetBalance(up, new) /\ Ascend
    /\ UNCHANGED <<key, obj, cookie, scope, held, hist>>

\* avl_remove of a node with two children: its neighbour on the taller side
\* takes its place, and Tmp the neighbour's.
taller(n)        == IF nd[n].balance = 1 THEN 1 ELSE 0
neighbour(n)     == Far(nd[n].child[taller(n)], 1 - taller(n))
Copy(h, n, node) == [h EXCEPT ![Tmp] = h[node], ![node] = h[n]]
\* When the neighbour was the child of n it would now be its own child.
NotOwnChild(h, node, left) ==
    IF h[node].child[left] # node THEN h ELSE [h EXCEPT ![node].child[left] = Tmp]
PlaceNode(h, node) ==
    [Put(h, h[node].parent, h[node].index, node) EXCEPT
        ![h[node].child[0]].parent = node, ![h[node].child[1]].parent = node]
PlaceTmp(h) ==
    LET d == h[Tmp]
        c == IF d.child[1] # NULL THEN d.child[1] ELSE d.child[0]
    IN  Put(IF c = NULL THEN h ELSE [h EXCEPT ![c].parent = Tmp], d.parent, d.index, Tmp)

Swap(n, node) ==
    PlaceTmp(PlaceNode(NotOwnChild(Copy(nd, n, node), node, taller(n)), node))

\* Connect d's parent to d's only child, in the tree h with this root.  What n
\* and Tmp hold is dead from here on.
Splice(n, h, d, root) ==
    LET node == IF d.child[0] # NULL THEN d.child[0] ELSE d.child[1]
    IN  /\ nd' = [Put(Relink(h, node, d.parent, d.index), d.parent, d.index, node)
                     EXCEPT ![n] = Blank, ![Tmp] = Blank]
        /\ avl_root' = Root(d.parent, node, root)
        /\ up' = d.parent /\ which_child' = d.index

\* avl_remove, up to its loop.
Unlink(n) ==
    /\ \/ /\ \E c \in Side : nd[n].child[c] = NULL
          /\ Splice(n, nd, nd[n], avl_root)
       \/ /\ \A c \in Side : nd[n].child[c] # NULL
          /\ \E node \in {neighbour(n)} :
                \E h \in {Swap(n, node)} :
                    Splice(n, h, h[Tmp], Root(nd[n].parent, node, avl_root))
    /\ avl_numnodes' = avl_numnodes - 1
    /\ ok' = (ok /\ avl_numnodes > 0)
    /\ held' = held \ {n}
    /\ pc' = "remove_up"
    /\ UNCHANGED <<cookie, scope, freed>>

RemoveDone == up' = NULL /\ which_child' = 0
                /\ pc' = IF obj = NULL THEN "idle" ELSE "reinsert"

\* Mutant: a rotation always ends the loop of avl_remove.
RemoveUpOnce ==
    /\ pc = "remove_up"
    /\ LET old == nd[up].balance
           new == old - child2balance
       IN  \/ up = NULL /\ RemoveDone /\ UNCHANGED tree
           \/ up # NULL /\ old = 0 /\ SetBalance(up, new) /\ RemoveDone
           \/ up # NULL /\ old # 0 /\ new = 0 /\ SetBalance(up, 0) /\ Ascend
           \/ up # NULL /\ old # 0 /\ new # 0 /\ Rotate(up, new) /\ RemoveDone
    /\ UNCHANGED <<key, obj, cookie, scope, held, hist>>

\* One turn of the loop of avl_remove; parent and child index are taken before
\* the rotation moves the node down.
RemoveUp ==
    /\ pc = "remove_up"
    /\ LET old == nd[up].balance
           new == old - child2balance
       IN  \/ up = NULL /\ RemoveDone /\ UNCHANGED tree
           \/ up # NULL /\ old = 0 /\ SetBalance(up, new) /\ RemoveDone
           \/ up # NULL /\ old # 0 /\ new = 0 /\ SetBalance(up, 0) /\ Ascend
           \/ /\ up # NULL /\ old # 0 /\ new # 0 /\ Rotate(up, new)
              /\ IF avl_rotation(up, new).shorter THEN Ascend ELSE RemoveDone
    /\ UNCHANGED <<key, obj, cookie, scope, held, hist>>

----------------------------------------------------------------------------
Taken == {key[n] : n \in held}
Moved == {n \in held : key[n] # StartKey[n]}

\* avl_add; the key must not be in the tree.
avl_add(n) ==
    /\ pc = "idle" /\ n \in scope.nodes \ held /\ key[n] \notin Taken
    /\ Link(n, avl_find(key[n]).where)
    /\ UNCHANGED <<key, obj>>

\* avl_insert_here, before or after a node the new one is a neighbour of.
avl_insert_here(n, here, direction) ==
    /\ pc = "idle" /\ n \in scope.nodes \ held
    /\ key[n] \notin Taken
    /\ direction = IF key[n] > key[here] THEN 1 ELSE 0
    /\ \A k \in Taken \ {key[here]} : (k < key[n]) = (k < key[here])
    /\ LET c == nd[here].child[direction]
       IN  Link(n, IF c = NULL THEN <<here, direction>>
                   ELSE <<Far(c, 1 - direction), 1 - direction>>)
    /\ UNCHANGED <<key, obj>>

\* The user has no more use for the key of a node it has removed.
avl_remove(n) ==
    /\ pc = "idle" /\ n \in held
    /\ Unlink(n)
    /\ key' = [key EXCEPT ![n] = StartKey[n]]
    /\ UNCHANGED obj

\* Has the key k of n passed the neighbour in this direction ?
Passed(n, k, direction) ==
    LET m == avl_walk(n, direction)
    IN  m # NULL /\ IF direction = 0 THEN k < key[m] ELSE k > key[m]

\* Mutant: only the node after is looked at.
update_after_only(n, k, lt, gt) ==
    /\ key' = [key EXCEPT ![n] = k]
    /\ IF Passed(n, k, 1) THEN Unlink(n) /\ obj' = n
                          ELSE UNCHANGED <<tree, pc, loop, obj, cookie, scope, held, hist>>

\* The user has given n the key k and calls avl_update, or the variant that
\* looks only at the node before (lt) or only at the node after (gt).
avl_update(n, k, lt, gt) ==
    /\ key' = [key EXCEPT ![n] = k]
    /\ IF (lt /\ Passed(n, k, 0)) \/ (gt /\ Passed(n, k, 1))
       THEN Unlink(n) /\ obj' = n
       ELSE UNCHANGED <<tree, pc, loop, obj, cookie, scope, held, hist>>

\* The key moves to a free one; the variants want to be told the direction.
Update(n, k) ==
    /\ pc = "idle" /\ n \in held /\ k \notin Taken
    /\ Cardinality((Moved \ {n}) \cup {m \in {n} : k # StartKey[n]}) <= scope.moved
    /\ \/ avl_update(n, k, TRUE, TRUE)
       \/ k < key[n] /\ avl_update(n, k, TRUE, FALSE)
       \/ k > key[n] /\ avl_update(n, k, FALSE, TRUE)

\* AVL_REINSERT: the avl_add after the avl_remove.
Reinsert ==
    /\ pc = "reinsert"
    /\ Link(obj, avl_find(key[obj]).where)
    /\ obj' = NULL
    /\ UNCHANGED key

----------------------------------------------------------------------------
\* Returns n to the user, who frees it, and keeps its place in the cookie.
Return(p, n) ==
    /\ cookie' = IF p = NULL THEN <<NULL, 1>> ELSE <<p, nd[n].index>>
    /\ freed' = freed \cup {n}

\* Mutant: the right child of a leftmost node is forgotten.
forget_right(p, n, h, asserted) ==
    /\ Return(p, n)
    /\ ok' = (ok /\ asserted)

\* check_right_side: a leftmost node may have one child, on the right.
check_right_side(p, n, h, asserted) ==
    LET r == h[n].child[1]
    IN  /\ IF r = NULL THEN Return(p, n) ELSE Return(n, r)
        /\ ok' = /\ ok /\ asserted /\ n \notin freed
                 /\ IF r = NULL
                    THEN h[n].balance <= 0 /\ (p = NULL => n = avl_root)
                    ELSE /\ h[n].balance = 1 /\ r \notin freed
                         /\ \A c \in Side : h[r].child[c] = NULL

DestroyFirst ==
    /\ cookie = <<NULL, 0>>
    /\ \/ /\ avl_root = NULL
          /\ cookie' = <<NULL, 1>> /\ pc' = "destroyed" /\ UNCHANGED hist
       \/ /\ avl_root # NULL
          /\ LET n == avl_first IN check_right_side(nd[n].parent, n, nd, TRUE)
          /\ UNCHANGED pc
    /\ UNCHANGED tree

DestroyNext ==
    /\ cookie[1] # NULL
    /\ LET p == cookie[1]
           c == cookie[2]
           h == [nd EXCEPT ![p].child[c] = NULL]
           r == h[p].child[1]
           x == Descend(h, p, r, 0)
           asserted == p \notin freed /\ avl_numnodes > 1
       IN  /\ nd' = h
           /\ \/ /\ c = 1 \/ r = NULL
                 /\ Return(h[p].parent, p)
                 /\ ok' = (ok /\ asserted /\ (h[p].parent = NULL => p = avl_root))
              \/ c # 1 /\ r # NULL /\ check_right_side(x[1], x[2], h, asserted)
    /\ avl_numnodes' = avl_numnodes - 1
    /\ UNCHANGED <<avl_root, pc>>

DestroyLast ==
    /\ cookie = <<NULL, 1>>
    /\ ok' = (ok /\ (avl_root # NULL => avl_numnodes = 1))
    /\ avl_root' = NULL /\ avl_numnodes' = 0
    /\ pc' = "destroyed"
    /\ UNCHANGED <<nd, cookie, freed>>

\* One call of avl_destroy_nodes; nothing else may be called after the first.
avl_destroy_nodes ==
    /\ pc = "destroying"
    /\ DestroyFirst \/ DestroyNext \/ DestroyLast
    /\ UNCHANGED <<key, loop, obj, scope, held>>

StartDestroy ==
    /\ pc = "idle" /\ scope.destroy
    /\ pc' = "destroying" /\ cookie' = <<NULL, 0>>
    /\ UNCHANGED <<tree, key, loop, obj, scope, held, hist>>

\* avl_destroy, and avl_create of a new tree.
avl_destroy ==
    /\ pc = "destroyed"
    /\ ok' = (ok /\ avl_numnodes = 0 /\ avl_root = NULL)
    /\ nd' = [n \in Slot |-> Blank] /\ key' = StartKey
    /\ pc' = "idle" /\ cookie' = <<NULL, 0>> /\ held' = {} /\ freed' = {}
    /\ UNCHANGED <<avl_root, avl_numnodes, loop, obj, scope>>

avl_create ==
    /\ avl_root = NULL /\ avl_numnodes = 0
    /\ nd = [n \in Slot |-> Blank]

Init ==
    /\ avl_create
    /\ key = StartKey /\ pc = "idle" /\ up = NULL /\ which_child = 0 /\ obj = NULL
    /\ cookie = <<NULL, 0>> /\ scope \in Scopes
    /\ held = {} /\ freed = {} /\ ok = TRUE

Next ==
    \/ \E n \in Node :
          \/ avl_add(n) \/ avl_remove(n)
          \/ \E here \in held, direction \in Side : avl_insert_here(n, here, direction)
          \/ \E k \in Key : Update(n, k)
    \/ InsertUp \/ RemoveUp \/ Reinsert
    \/ StartDestroy \/ avl_destroy_nodes \/ avl_destroy

Spec == Init /\ [][Next]_vars

TypeOK ==
    /\ avl_root \in Ptr /\ avl_numnodes \in Nat
    /\ nd \in [Slot -> [child : [Side -> Ptr], parent : Ptr, index : Side, balance : -1..1]]
    /\ key \in [Node -> Key] /\ up \in Ptr /\ which_child \in Side /\ obj \in Ptr
    /\ pc \in {"idle", "insert_up", "remove_up", "reinsert", "destroying", "destroyed"}
    /\ cookie \in Ptr \X Side /\ scope \in Scopes
    /\ held \subseteq Node /\ freed \subseteq Node /\ ok \in BOOLEAN

----------------------------------------------------------------------------
(* Properties.                                                             *)

\* The nodes child pointers lead to from n.
Below(n) ==
    LET below[m \in Slot \cup {NULL}] ==
          IF m = NULL THEN {} ELSE {m} \cup below[nd[m].child[0]] \cup below[nd[m].child[1]]
    IN  below[n]

Height(n) ==
    LET height[m \in Ptr] ==
          IF m = NULL THEN 0
          ELSE LET l == height[nd[m].child[0]]
                   r == height[nd[m].child[1]]
               IN  1 + IF l > r THEN l ELSE r
    IN  height[n]

InUse == pc \notin {"destroying", "destroyed"}

\* At every step, also between two rotations, the tree holds the nodes that were
\* put in and not taken out: no subtree is lost and the node on avl_remove's
\* stack (721) is never left in it.  avl_numnodes counts them.
IsTheSet == InUse => Below(avl_root) = held /\ avl_numnodes = Cardinality(held)

\* Parent pointers and child indices mirror the child pointers at every step
\* (both cases of avl_rotation, 342-464; the swap of avl_remove, 717-744).
Linked ==
    InUse =>
        /\ avl_root # NULL => nd[avl_root].parent = NULL
        /\ \A n \in held, c \in Side :
              nd[n].child[c] # NULL => /\ nd[nd[n].child[c]].parent = n
                                       /\ nd[nd[n].child[c]].index = c

\* Between calls every balance is the difference of the heights below it, and so
\* they differ by at most 1 (31-34; the loops 519-548 and 779-814).
Balanced ==
    pc = "idle" =>
        \A n \in held :
            nd[n].balance = Height(nd[n].child[1]) - Height(nd[n].child[0])

\* Between calls avl_find finds each key that is in the tree, also after keys
\* were changed and avl_update put nodes in their new place (822-873).
FindsIt ==
    pc = "idle" =>
        \A k \in Key :
            LET n == avl_find(k).node
            IN  IF k \in Taken THEN n \in held /\ key[n] = k ELSE n = NULL

\* The greatest key below k (side = 0) or the least above it (side = 1).
IsNeighbour(n, k, side) ==
    LET beyond == {m \in held : IF side = 0 THEN key[m] < k ELSE key[m] > k}
    IN  IF beyond = {} THEN n = NULL
        ELSE /\ n \in beyond
             /\ \A m \in beyond : IF side = 0 THEN key[m] <= key[n] ELSE key[m] >= key[n]

\* Between calls the walk in both directions, and avl_nearest from where a
\* missing key would go, lead to the neighbour in key order, and avl_first and
\* avl_last to the ends of it (133-242).
Neighbours ==
    pc = "idle" =>
        /\ IF held = {} THEN avl_first = NULL /\ avl_last = NULL
           ELSE \A m \in held : key[avl_first] <= key[m] /\ key[m] <= key[avl_last]
        /\ \A k \in Key, side \in Side :
            LET f == avl_find(k)
            IN  IsNeighbour(IF f.node # NULL THEN avl_walk(f.node, side)
                            ELSE avl_nearest(f.where, side), k, side)

\* No ASSERT on the state of the tree fails, from any tree that calls lead to
\* (507-510, 752, 905-906, 982-1033), and avl_destroy_nodes looks at no node it has
\* returned before.
AssertsHold == ok

\* When avl_destroy_nodes returns NULL it has returned every node (949-1035).
DestroyFreesAll == pc = "destroyed" => freed = held
=============================================================================
