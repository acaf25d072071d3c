----------------------------- MODULE FieldTree ------------------------------
(***************************************************************************)
(* The fields of one packet and the ways the explorer looks them up        *)
(* (hex.ts). A tree maps the path of every field to the range of bytes it  *)
(* annotates, both ends included; the range of an empty value ends before  *)
(* it starts. The path <<2, 1>> is the first child of the second field.    *)
(***************************************************************************)
EXTENDS Integers, Sequences, FiniteSets

NoPath   == <<>>
NoFields == <<>>  \* the function without a domain

(* The fields a field lies in.                                             *)
Above(path) == {SubSeq(path, 1, k) : k \in 1 .. Len(path) - 1}

(* Their paths, read off the path itself. With the loop started one later  *)
(* the topmost is missing.                                                 *)
ancestorPaths_fromTwo(path) == {SubSeq(path, 1, k) : k \in 2 .. Len(path) - 1}
ancestorPaths(path)         == Above(path)

(* The rows of the tree: what lies below a collapsed field has none.       *)
flattenFields(tree, collapsed) ==
  {path \in DOMAIN tree : Above(path) \cap collapsed = {}}

HasChildren(tree, path) == \E p \in DOMAIN tree : path \in Above(p)

isEmptyRange(range)  == range[2] < range[1]
Covers(range, offset) == range[1] <= offset /\ offset <= range[2]

(* The first child in order, whatever it covers.                           *)
Entered_first(tree, path, offset) == path[Len(path)] = 1
(* The loop goes into the first sibling that covers the offset.            *)
Entered(tree, path, offset) ==
  /\ Covers(tree[path], offset)
  /\ \A i \in 1 .. path[Len(path)] - 1 :
       ~Covers(tree[[path EXCEPT ![Len(path)] = i]], offset)

(* The deepest field on the way down, or NoPath.                           *)
fieldAtOffset(tree, offset) ==
  LET onTheWay == {path \in DOMAIN tree :
                     \A p \in Above(path) \cup {path} : Entered(tree, p, offset)}
  IN  IF onTheWay = {} THEN NoPath
      ELSE CHOOSE p \in onTheWay : \A q \in onTheWay : Len(q) <= Len(p)

(* Fields are numbered from 1 within their parent.                         *)
IsTree(tree) ==
  /\ IsFiniteSet(DOMAIN tree)
  /\ \A p \in DOMAIN tree :
       /\ p \in Seq(Nat \ {0}) /\ p # NoPath
       /\ Above(p) \subseteq DOMAIN tree
       /\ \A i \in 1 .. p[Len(p)] - 1 : [p EXCEPT ![Len(p)] = i] \in DOMAIN tree
       /\ tree[p] \in Int \X Int

(* What the recorder's annotations guarantee (types.ts), for a packet of n *)
(* bytes: top-level ranges tile it, children lie within their parent, and  *)
(* no two of them cover the same byte.                                     *)
TilesPacket(tree, n) ==
  LET top == {p \in DOMAIN tree : Len(p) = 1}
  IN  tree # NoFields =>
        \A b \in 0 .. n - 1 : \E p \in top :
          Covers(tree[p], b) /\ \A q \in top \ {p} : ~Covers(tree[q], b)
ChildrenWithin(tree) ==
  \A p \in DOMAIN tree : ~isEmptyRange(tree[p]) /\ Len(p) > 1 =>
    LET parent == tree[SubSeq(p, 1, Len(p) - 1)]
    IN  Covers(parent, tree[p][1]) /\ Covers(parent, tree[p][2])
SiblingsApart(tree) ==
  \A p, q \in DOMAIN tree :
    /\ p # q /\ Len(p) = Len(q)
    /\ \A i \in 1 .. Len(p) - 1 : p[i] = q[i]
    => tree[p][2] < tree[q][1] \/ tree[q][2] < tree[p][1] \/ isEmptyRange(tree[p]) \/ isEmptyRange(tree[q])
=============================================================================
