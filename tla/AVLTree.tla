------------------------------ MODULE AVLTree ------------------------------
(***************************************************************************)
(* The balanced search tree of libk/AVLTree.hpp, which holds the cached    *)
(* disk blocks (FileSystemCache) and the memory regions (the virtual       *)
(* memory manager), with its pointers.  Keys are numbers and stand for     *)
(* their nodes.  Its users hold a lock, so that each call is one step.     *)
(***************************************************************************)
EXTENDS Integers, FiniteSets

CONSTANT NumKeys

Keys == 1 .. NumKeys
null == 0

VARIABLES
    t,        \* [child, parent, height, m_tree]: the nodes and the root
    removed,  \* what the last call of remove() returned
    faulted   \* a null pointer was followed

vars == <<t, removed, faulted>>

Sides == {"left", "right"}
Other(side) == IF side = "left" THEN "right" ELSE "left"
Pointers == [Keys -> Keys \cup {null}]

(* Pointers lead to nodes or nowhere, and a deleted node is not the root.  *)
TypeOK ==
    /\ t.child \in [Sides -> Pointers] /\ t.parent \in Pointers
    /\ t.height \in [Keys -> 0 .. NumKeys]
    /\ t.m_tree \in {k \in Keys : t.height[k] # 0} \cup {null}
    /\ removed \in BOOLEAN /\ faulted \in BOOLEAN

Init ==
    /\ t = [child |-> [side \in Sides |-> [k \in Keys |-> null]],
            parent |-> [k \in Keys |-> null], height |-> [k \in Keys |-> 0], m_tree |-> null]
    /\ removed = TRUE /\ faulted = FALSE

----------------------------------------------------------------------------
Height(T, n) == IF n = null THEN 0 ELSE T.height[n]

update_height(T, n) ==
    LET left == Height(T, T.child["left"][n])
        right == Height(T, T.child["right"][n])
    IN  [T EXCEPT !.height[n] = (IF left > right THEN left ELSE right) + 1]

get_balance_factor(T, n) == Height(T, T.child["right"][n]) - Height(T, T.child["left"][n])

SetParent(T, n, p) == IF n = null THEN T ELSE [T EXCEPT !.parent[n] = p]
SideOf(T, p, n) == IF T.child["left"][p] = n THEN "left" ELSE "right"

(* Puts node m, or nothing, in the place that n has below p.               *)
Replace(T, p, n, m) == IF p = null THEN T ELSE [T EXCEPT !.child[SideOf(T, p, n)][p] = m]

(* rotate_left(), rotate_right(): the child on the other side moves up.    *)
rotate_unlinked(T, n, side) ==
    LET child == T.child[Other(side)][n]
        middle == T.child[side][child]
        p == T.parent[n]
        turned == [Replace(T, p, n, child) EXCEPT !.child[Other(side)][n] = middle,
                                                  !.child[side][child] = n]
        linked == SetParent(SetParent(turned, child, p), n, child)
    IN  update_height(update_height(linked, n), child)

rotate(T, n, side) ==
    LET child == T.child[Other(side)][n]
        middle == T.child[side][child]
        p == T.parent[n]
        turned == [Replace(T, p, n, child) EXCEPT !.child[Other(side)][n] = middle,
                                                  !.child[side][child] = n]
        linked == SetParent(SetParent(SetParent(turned, middle, n), child, p), n, child)
    IN  update_height(update_height(linked, n), child)

(* A node whose one side is two higher is rotated to the other, after the  *)
(* child on the high side when that does not lean the same way.            *)
Leans(T, n, side) ==
    IF side = "left" THEN get_balance_factor(T, n) <= -1 ELSE get_balance_factor(T, n) >= 1

Balanced(T, n, high) ==
    LET child == T.child[high][n]
    IN  rotate(IF Leans(T, child, high) THEN T ELSE rotate(T, child, high), n, Other(high))

RECURSIVE rebalance(_, _)
rebalance(T, n) ==
    IF n = null THEN T
    ELSE LET updated == update_height(T, n)
             bf == get_balance_factor(updated, n)
             done == IF bf < -1 THEN Balanced(updated, n, "left")
                     ELSE IF bf > 1 THEN Balanced(updated, n, "right") ELSE updated
             top == IF done = updated THEN n ELSE done.parent[n]
         IN  rebalance(IF done.parent[top] = null THEN [done EXCEPT !.m_tree = top] ELSE done,
                       done.parent[top])

(* The node at which the search for a key ends.                            *)
RECURSIVE Descend(_, _, _)
Descend(T, n, key) ==
    LET next == IF key < n THEN T.child["left"][n] ELSE T.child["right"][n]
    IN  IF n = null \/ n = key \/ next = null THEN n ELSE Descend(T, next, key)

find_node(T, key) == LET n == Descend(T, T.m_tree, key) IN IF n = key THEN n ELSE null

Deleted(T, n) ==
    [T EXCEPT !.child["left"][n] = null, !.child["right"][n] = null,
              !.parent[n] = null, !.height[n] = 0]

RECURSIVE Leftmost(_, _)
Leftmost(T, n) == IF T.child["left"][n] = null THEN n ELSE Leftmost(T, T.child["left"][n])

(* A node with two children gives its place to its successor.              *)
RemoveInner(T, n) ==
    LET successor == Leftmost(T, T.child["right"][n])
        p == T.parent[successor]
        right == T.child["right"][successor]
        out == IF p # n THEN SetParent([T EXCEPT !.child["left"][p] = right], right, p)
               ELSE [T EXCEPT !.child["right"][n] = right]
        left_of_n == out.child["left"][n]
        right_of_n == out.child["right"][n]
        moved == [out EXCEPT !.child["left"][successor] = left_of_n,
                             !.child["right"][successor] = right_of_n]
        linked == SetParent(SetParent(SetParent(moved, left_of_n, successor), right_of_n, successor),
                            successor, T.parent[n])
        placed == Replace(linked, T.parent[n], n, successor)
    IN  rebalance(Deleted(placed, n), IF p = n THEN successor ELSE p)

(* Another one gives it to its only child, or to nothing.                  *)
RemoveOuter(T, n) ==
    LET next == IF T.child["left"][n] # null THEN T.child["left"][n] ELSE T.child["right"][n]
        p == T.parent[n]
        gone == Deleted(Replace(SetParent(T, next, p), p, n, next), n)
    IN  IF next = null /\ p = null THEN [gone EXCEPT !.m_tree = null]
        ELSE rebalance(gone, IF next # null THEN next ELSE p)

----------------------------------------------------------------------------
(* insert() of a key that is new, as its callers see to.                   *)
Inserted(T, key) ==
    LET p == Descend(T, T.m_tree, key)
        node == [T EXCEPT !.height[key] = 1, !.parent[key] = p]
        placed == IF p = null THEN [node EXCEPT !.m_tree = key]
                  ELSE [node EXCEPT !.child[IF key < p THEN "left" ELSE "right"][p] = key]
    IN  rebalance(placed, key)

insert(key) ==
    /\ ~faulted /\ find_node(t, key) = null
    /\ t' = Inserted(t, key)
    /\ UNCHANGED <<removed, faulted>>

(* remove() asks for the parent of a node with two children, also of the   *)
(* root, which has none.                                                   *)
Inner(T, n) == T.child["left"][n] # null /\ T.child["right"][n] # null
RemoveFaults(T, n) == Inner(T, n) /\ T.parent[n] = null
Without(T, n) == IF Inner(T, n) THEN RemoveInner(T, n) ELSE RemoveOuter(T, n)

remove(key) ==
    LET n == find_node(t, key)
    IN  /\ ~faulted
        /\ removed' = (n # null)
        /\ faulted' = (n # null /\ RemoveFaults(t, n))
        /\ t' = IF n = null \/ faulted' THEN t ELSE Without(t, n)

Next == \E key \in Keys : insert(key) \/ remove(key)

Spec == Init /\ [][Next]_vars

----------------------------------------------------------------------------
Nodes == {k \in Keys : t.height[k] # 0}

(* Every key in the tree is found by the search that starts at the root.   *)
Searchable == \A k \in Nodes : find_node(t, k) = k

(* Children and parents agree: a node is a child of its parent, and only   *)
(* the root has none.  The rotations and remove() depend on it.            *)
Linked ==
    /\ \A k \in Nodes : IF t.parent[k] = null THEN t.m_tree = k
                        ELSE \E side \in Sides : t.child[side][t.parent[k]] = k
    /\ \A k \in Nodes, side \in Sides : t.child[side][k] # null => t.parent[t.child[side][k]] = k

(* Each height is the one of the children plus one; rebalance() looks at   *)
(* nothing else.                                                           *)
HeightsExact == \A k \in Nodes : t.height[k] = update_height(t, k).height[k]

(* The two sides of a node differ by at most one in height, as long as     *)
(* keys are only inserted.  (A removal can leave a node whose high child   *)
(* leans neither way; rebalance() rotates that child first, which makes    *)
(* the difference two further down.)                                       *)
AVLBalance == \A k \in Nodes : get_balance_factor(t, k) \in -1 .. 1
=============================================================================
