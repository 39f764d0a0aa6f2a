------------------------------- MODULE RbTree -------------------------------
(***************************************************************************)
(* The red-black tree: nodes with parent, child and colour fields, linked  *)
(* into place by the caller, recoloured and rotated by rb_insert_color()   *)
(* and rb_erase().  The two mirror images of every case are one definition *)
(* with a direction.  A tree t is a record of its root and of the nodes'   *)
(* fields; 0 is the null pointer.  A key may have a second node, which can *)
(* replace the first.                                                      *)
(***************************************************************************)
EXTENDS Integers, Sequences, FiniteSets

CONSTANTS Keys,         \* 1..n
          Twins         \* the keys that have a second node

VARIABLES tree, in      \* the tree and the nodes in it

vars == <<tree, in>>

Count == Cardinality(Keys)
Nodes == Keys \cup {Count + k : k \in Twins}
Key(n) == ((n - 1) % Count) + 1
Other(d) == IF d = "L" THEN "R" ELSE "L"

Kid(t, n, d) == IF d = "L" THEN t.left[n] ELSE t.right[n]
SetKid(t, n, d, x) ==
    IF d = "L" THEN [t EXCEPT !.left[n] = x] ELSE [t EXCEPT !.right[n] = x]
SetParent(t, n, x) == IF n = 0 THEN t ELSE [t EXCEPT !.parent[n] = x]
Paint(t, n, c) == IF n = 0 THEN t ELSE [t EXCEPT !.color[n] = c]
IsRed(t, n) == n # 0 /\ t.color[n] = "red"

(* The link of parent (or the root) that led to old leads to new.            *)
Relink(t, parent, old, new) ==
    IF parent = 0 THEN [t EXCEPT !.root = new]
    ELSE SetKid(t, parent, IF t.left[parent] = old THEN "L" ELSE "R", new)

-----------------------------------------------------------------------------
(* __rb_rotate_left() and __rb_rotate_right(): n goes down on side d.         *)
Rotate(t, n, d) ==
    LET x  == Kid(t, n, Other(d))
        g  == Kid(t, x, d)
        t1 == SetParent(SetKid(t, n, Other(d), g), g, n)
        t2 == SetParent(SetKid(t1, x, d, n), x, t.parent[n])
    IN  SetParent(Relink(t2, t.parent[n], n, x), n, x)

(* rb_insert_color() *)
RECURSIVE InsertColor(_, _)
InsertColor(t, node) ==
    LET p  == t.parent[node]
        g  == t.parent[p]
        d  == IF t.left[g] = p THEN "L" ELSE "R"
        u  == Kid(t, g, Other(d))
        inner == Kid(t, p, Other(d)) = node
        t1 == IF inner THEN Rotate(t, p, d) ELSE t
        p1 == IF inner THEN node ELSE p
        n1 == IF inner THEN p ELSE node
    IN  IF p = 0 \/ ~IsRed(t, p) THEN Paint(t, t.root, "black")
        ELSE IF IsRed(t, u)
             THEN InsertColor(Paint(Paint(Paint(t, u, "black"), p, "black"), g, "red"), g)
             ELSE InsertColor(Rotate(Paint(Paint(t1, p1, "black"), g, "red"), g, Other(d)), n1)

(* Mutant: the near nephew is not rotated into the far place.                 *)
FarNephewSkipped(t, p, d) == t

(* The sibling's child on the far side is made red before the last rotation.  *)
FarNephew(t, p, d) ==
    LET o == Kid(t, p, Other(d)) IN
    IF IsRed(t, Kid(t, o, Other(d))) THEN t
    ELSE Rotate(Paint(Paint(t, Kid(t, o, d), "black"), o, "red"), o, Other(d))

(* __rb_erase_color(): the paths through node lack one black.                 *)
RECURSIVE EraseColor(_, _, _)
EraseColor(t, node, p) ==
    LET d  == IF t.left[p] = node THEN "L" ELSE "R"
        o0 == Kid(t, p, Other(d))
        t1 == IF IsRed(t, o0) THEN Rotate(Paint(Paint(t, o0, "black"), p, "red"), p, d) ELSE t
        o1 == Kid(t1, p, Other(d))
        t2 == FarNephew(t1, p, d)
        o2 == Kid(t2, p, Other(d))
        t3 == Paint(Paint(Paint(t2, o2, t2.color[p]), p, "black"),
                    Kid(t2, o2, Other(d)), "black")
        t4 == Rotate(t3, p, d)
    IN  IF IsRed(t, node) \/ node = t.root THEN Paint(t, node, "black")
        ELSE IF ~IsRed(t1, t1.left[o1]) /\ ~IsRed(t1, t1.right[o1])
             THEN EraseColor(Paint(t1, o1, "red"), p, t1.parent[p])
             ELSE Paint(t4, t4.root, "black")

RECURSIVE Outermost(_, _, _)
Outermost(t, n, d) == IF Kid(t, n, d) = 0 THEN n ELSE Outermost(t, Kid(t, n, d), d)

(* rb_erase(): a node with two children is replaced by its successor.         *)
Erase(t, old) ==
    LET one   == t.left[old] = 0 \/ t.right[old] = 0
        node  == IF one THEN old ELSE Outermost(t, t.right[old], "L")
        child == IF t.left[node] = 0 THEN t.right[node] ELSE t.left[node]
        p     == t.parent[node]
        t1    == Relink(SetParent(t, child, p), p, node, child)
        t2    == Relink([t1 EXCEPT !.parent[node] = t1.parent[old],
                                   !.color[node] = t1.color[old],
                                   !.right[node] = t1.right[old],
                                   !.left[node] = t1.left[old]], t1.parent[old], old, node)
        t3    == SetParent(SetParent(t2, t1.left[old], node), t1.right[old], node)
        from  == IF ~one /\ p = old THEN node ELSE p
        cut   == IF one THEN t1 ELSE t3
    IN  IF t.color[node] = "black" THEN EraseColor(cut, child, from) ELSE cut

(* rb_next() and rb_prev() for d = "R" and "L", rb_first() and rb_last().      *)
RECURSIVE Climb(_, _, _)
Climb(t, n, d) ==
    IF t.parent[n] # 0 /\ n = Kid(t, t.parent[n], d) THEN Climb(t, t.parent[n], d)
    ELSE t.parent[n]

Following(t, n, d) ==
    IF Kid(t, n, d) # 0 THEN Outermost(t, Kid(t, n, d), Other(d)) ELSE Climb(t, n, d)

End(t, d) == IF t.root = 0 THEN 0 ELSE Outermost(t, t.root, d)

(* rb_replace_node() *)
ReplaceNode(t, v, new) ==
    LET t1 == Relink(t, t.parent[v], v, new)
        t2 == SetParent(SetParent(t1, t.left[v], new), t.right[v], new)
    IN  [t2 EXCEPT !.parent[new] = t2.parent[v], !.left[new] = t2.left[v],
                   !.right[new] = t2.right[v], !.color[new] = t2.color[v]]

-----------------------------------------------------------------------------
Init ==
    /\ tree = [root |-> 0, left |-> [n \in Nodes \cup {0} |-> 0],
               right |-> [n \in Nodes \cup {0} |-> 0], parent |-> [n \in Nodes \cup {0} |-> 0],
               color |-> [n \in Nodes \cup {0} |-> "red"]]
    /\ in = {}

(* The caller's search for the place of a key. *)
RECURSIVE Descend(_, _, _)
Descend(t, at, k) ==
    LET d == IF k < Key(at) THEN "L" ELSE "R" IN
    IF Kid(t, at, d) = 0 THEN <<at, d>> ELSE Descend(t, Kid(t, at, d), k)

(* rb_link_node(): a red leaf. *)
LinkNode(t, n) ==
    LET at == Descend(t, t.root, Key(n)) IN
    IF t.root = 0 THEN [t EXCEPT !.root = n]
    ELSE SetParent(SetKid(t, at[1], at[2], n), n, at[1])

(* The fields of a node out of the tree are not read again.                    *)
Forget(t, n) ==
    [t EXCEPT !.left[n] = 0, !.right[n] = 0, !.parent[n] = 0, !.color[n] = "red"]

InsertNode(n) ==
    /\ Key(n) \notin {Key(m) : m \in in}
    /\ in' = in \cup {n}
    /\ tree' = InsertColor(LinkNode(tree, n), n)

EraseNode(n) ==
    /\ n \in in
    /\ in' = in \ {n}
    /\ tree' = Forget(Erase(tree, n), n)

SwapNode(n) ==
    /\ n \in in
    /\ \E new \in Nodes \ {n} :
        /\ Key(new) = Key(n)
        /\ in' = (in \ {n}) \cup {new}
        /\ tree' = Forget(ReplaceNode(tree, n, new), n)

Next == \E n \in Nodes : InsertNode(n) \/ EraseNode(n) \/ SwapNode(n)

Spec == Init /\ [][Next]_vars

-----------------------------------------------------------------------------
(* Black nodes on every path below n, 0 if they differ or a red node has a     *)
(* red child.                                                                  *)
RECURSIVE Blacks(_)
Blacks(n) ==
    IF n = 0 THEN 1
    ELSE LET l == Blacks(tree.left[n])
             r == Blacks(tree.right[n])
         IN  IF \/ l = 0 \/ l # r
                \/ IsRed(tree, n) /\ (IsRed(tree, tree.left[n]) \/ IsRed(tree, tree.right[n]))
             THEN 0 ELSE l + IF IsRed(tree, n) THEN 0 ELSE 1

RECURSIVE Walk(_, _)
Walk(n, d) == IF n = 0 THEN <<>> ELSE <<n>> \o Walk(Following(tree, n, d), d)

(* After any inserts, erases and replacements: a walk with rb_next() meets     *)
(* exactly the nodes in the tree in the order of their keys, one with          *)
(* rb_prev() the reverse, and the tree is balanced.                            *)
RedBlack ==
    LET w == Walk(End(tree, "L"), "R") IN
    /\ Len(w) = Cardinality(in) /\ {w[i] : i \in DOMAIN w} = in
    /\ \A i \in 1..Len(w) - 1 : Key(w[i]) < Key(w[i + 1])
    /\ Walk(End(tree, "R"), "L") = [i \in 1..Len(w) |-> w[Len(w) + 1 - i]]
    /\ Blacks(tree.root) # 0 /\ ~IsRed(tree, tree.root)
=============================================================================
