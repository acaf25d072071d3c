--------------------------- MODULE AnnotateProofs ---------------------------
(***************************************************************************)
(* The ranges Decode produces tile every packet and pass through the file, *)
(* and they are few: theorems about Annotate and RecordedPacket for frames *)
(* of any length and content. The layouts of the messages matter only to   *)
(* the last of them, that on the number of fields.                         *)
(***************************************************************************)
EXTENDS RecordedPacket, FiniteSetTheorems, NaturalsInduction, SequenceTheorems, TLAPS, WellFoundedInduction

Paths == Seq(Nat \ {0})

(* p lies below the k-th open group, the first being the packet itself.    *)
Follows(p, k) == \A j \in 1 .. k - 1 : p[j] = path[j]
Nonempty(p)   == tree[p][1] <= tree[p][2]
TopFields(t)  == {p \in DOMAIN t : Len(p) = 1}

(* Where the fields emitted so far for the k-th open group end.            *)
EndOf(k) == IF k = Depth THEN pos ELSE starts[k + 1]

(* The groups being filled are nested.                                     *)
GroupsOK ==
  /\ path \in Paths /\ Depth > 0
  /\ starts \in Seq(0 .. pos) /\ Len(starts) = Depth /\ starts[1] = 0
  /\ \A k \in 1 .. Depth : starts[k] <= EndOf(k)
  /\ \A k \in 1 .. Depth : path[k] = 1 => starts[k] = EndOf(k)

TreeOK ==
  /\ DOMAIN tree \subseteq Paths
  /\ \A p \in DOMAIN tree :
       /\ p # <<>>
       /\ tree[p] \in Int \X Int
       /\ 0 <= tree[p][1] /\ tree[p][1] <= tree[p][2] + 1 /\ tree[p][2] < pos

(* The next path is new, and so is every path below it: a field lies       *)
(* before the next one, or in a group that is open but for the last.       *)
Fresh ==
  \A p \in DOMAIN tree : \A k \in 1 .. Depth :
    k <= Len(p) /\ Follows(p, k) =>
      p[k] < path[k] \/ (p[k] = path[k] /\ k < Depth /\ k < Len(p))

(* The bytes before end lie in one top-level field each, and no such field *)
(* lies beyond.                                                            *)
Tiled(t, end) ==
  /\ \A p \in TopFields(t) : t[p][2] < end
  /\ \A b \in 0 .. end - 1 : \E p \in TopFields(t) :
       Covers(t[p], b) /\ \A q \in TopFields(t) \ {p} : ~Covers(t[q], b)
TopTiles == Tiled(tree, EndOf(1))

Enclosed(p) ==
  \/ /\ Parent(p) \in DOMAIN tree
     /\ tree[Parent(p)][1] <= tree[p][1] /\ tree[p][2] <= tree[Parent(p)][2]
  \/ /\ Len(p) <= Depth /\ Follows(p, Len(p))
     /\ starts[Len(p)] <= tree[p][1]
Within == \A p \in DOMAIN tree : Len(p) > 1 /\ Nonempty(p) => Enclosed(p)

(* The fields of a group follow one another from where it starts, also in  *)
(* one that is open, up to its next field.                                 *)
InOpen(p) == Len(p) <= Depth /\ Follows(p, Len(p))
StartsGroup(p) ==
  \/ Parent(p) \in DOMAIN tree /\ tree[p][1] = tree[Parent(p)][1]
  \/ InOpen(p) /\ tree[p][1] = starts[Len(p)]
EndsGroup(p) ==
  \/ Parent(p) \in DOMAIN tree /\ tree[p][2] = tree[Parent(p)][2]
  \/ InOpen(p) /\ p[Len(p)] = path[Len(p)] - 1 /\ tree[p][2] = EndOf(Len(p)) - 1
Chained(p) ==
  /\ p[Len(p)] = 1 => StartsGroup(p)
  /\ IF Sibling(p) \in DOMAIN tree THEN tree[p][2] = tree[Sibling(p)][1] - 1 ELSE EndsGroup(p)
Chains == \A p \in DOMAIN tree : Len(p) > 1 => Chained(p)

ReadingInv == GroupsOK /\ TreeOK /\ Fresh /\ TopTiles /\ Within /\ Chains

(* What Chains comes to when no group is open.                             *)
ChildrenMeet(t) ==
  \A p \in {q \in DOMAIN t : Len(q) > 1} :
    /\ p[Len(p)] = 1 => t[p][1] = t[Parent(p)][1]
    /\ t[p][2] = IF Sibling(p) \in DOMAIN t THEN t[Sibling(p)][1] - 1 ELSE t[Parent(p)][2]

DoneInv ==
  /\ \A p \in DOMAIN tree :
       /\ tree[p] \in Int \X Int /\ 0 <= tree[p][1]
       /\ tree[p][1] <= tree[p][2] + 1 /\ tree[p][2] < Len(raw)
  /\ TilesPacket(tree, Len(raw)) /\ ChildrenWithin(tree) /\ ChildrenMeet(tree)

Inv ==
  /\ phase \in {"idle", "reading", "panicked", "done"}
  /\ phase = "idle" => frame = NoFrame /\ pos = 0 /\ tree = NoFields /\ path = <<>> /\ starts = <<>>
  /\ phase # "idle" =>
       /\ frame \in Frames /\ pos \in 0 .. Len(raw)
       /\ path \in Paths /\ starts \in Seq(0 .. pos) /\ Len(starts) = Len(path)
  /\ phase = "reading" => ReadingInv
  /\ Finished => DoneInv

-----------------------------------------------------------------------------
(* Paths and frames.                                                       *)

LEMMA FrameLength == ASSUME NEW f \in Frames PROVE Len(f.raw) \in Nat /\ Len(f.raw) > 0
<1>1. f.raw \in Seq(0 .. 255) /\ f.raw # <<>>
  BY FramesAssumption
<1> QED
  BY <1>1

LEMMA NextField ==
  ASSUME GroupsOK, NEW w, NEW reads, Emit(w, reads)
  PROVE  /\ path' \in Paths /\ Len(path') = Depth
         /\ path'[Depth] = path[Depth] + 1
         /\ \A k \in 1 .. Depth - 1 : path'[k] = path[k]
<1>1. path \in Paths /\ Depth \in 1 .. Len(path)
  BY DEF GroupsOK, Depth, Paths
<1>2. path' = [path EXCEPT ![Depth] = path[Depth] + 1]
  BY DEF Emit
<1>3. path[Depth] + 1 \in Nat \ {0}
  BY <1>1 DEF Paths
<1> QED
  BY <1>1, <1>2, <1>3 DEF Paths, Depth

LEMMA StartsUpTo ==
  ASSUME NEW s \in Seq(Nat), NEW n \in Nat, \A k \in 1 .. Len(s) : s[k] <= n
  PROVE  s \in Seq(0 .. n)
<1>1. \A k \in 1 .. Len(s) : s[k] \in 0 .. n
  OBVIOUS
<1> QED
  BY <1>1

LEMMA StartsAre ==
  ASSUME GroupsOK, pos \in Nat
  PROVE  starts \in Seq(Nat) /\ \A k \in 1 .. Depth : starts[k] \in Nat /\ starts[k] <= pos
<1>1. starts \in Seq(0 .. pos) /\ Len(starts) = Depth
  BY DEF GroupsOK
<1>2. \A k \in 1 .. Len(starts) : starts[k] \in 0 .. pos
  BY <1>1
<1>3. \A k \in 1 .. Len(starts) : starts[k] \in Nat
  BY <1>2
<1> QED
  BY <1>1, <1>2, <1>3

(* No field has the next path yet.                                         *)
LEMMA PathIsNew == ASSUME GroupsOK, Fresh PROVE path \notin DOMAIN tree
<1> SUFFICES ASSUME path \in DOMAIN tree PROVE FALSE
  OBVIOUS
<1>1. path \in Paths /\ Depth \in 1 .. Depth /\ Depth <= Len(path)
  BY DEF GroupsOK, Depth, Paths
<1>2. Follows(path, Depth)
  BY DEF Follows
<1>3. path[Depth] < path[Depth]
  BY <1>1, <1>2 DEF Fresh, Depth
<1>4. path[Depth] \in Nat
  BY <1>1 DEF Paths, Depth
<1> QED
  BY <1>3, <1>4

LEMMA AnnotatedTree ==
  ASSUME NEW p, NEW range, p \notin DOMAIN tree, tree' = Annotated(p, range)
  PROVE  /\ DOMAIN tree' = DOMAIN tree \cup {p}
         /\ tree'[p] = range
         /\ \A q \in DOMAIN tree : q # p /\ tree'[q] = tree[q]
  BY DEF Annotated

(* A field that lies in an open group comes before its next one.           *)
LEMMA Before ==
  ASSUME GroupsOK, TreeOK, Fresh, NEW p \in DOMAIN tree, InOpen(p)
  PROVE  p[Len(p)] < path[Len(p)]
<1>1. p \in Paths /\ p # <<>> /\ Len(p) \in Nat /\ Len(p) > 0
  BY DEF TreeOK, Paths
<1>2. Len(p) \in 1 .. Depth /\ Depth \in Nat
  BY <1>1 DEF InOpen, GroupsOK, Depth, Paths
<1> QED
  BY <1>1, <1>2 DEF Fresh, InOpen

LEMMA SiblingOf ==
  ASSUME NEW p \in Paths, Len(p) > 0
  PROVE  /\ Sibling(p) \in Paths /\ Len(Sibling(p)) = Len(p)
         /\ Sibling(p)[Len(p)] = p[Len(p)] + 1 /\ p[Len(p)] \in Nat
         /\ \A j \in 1 .. Len(p) - 1 : Sibling(p)[j] = p[j]
         /\ Sibling(p) # p
<1>1. Len(p) \in 1 .. Len(p) /\ p[Len(p)] \in Nat /\ p[Len(p)] + 1 \in Nat \ {0}
  BY DEF Paths
<1>2. Sibling(p) = [p EXCEPT ![Len(p)] = p[Len(p)] + 1]
  BY DEF Sibling
<1>3. Sibling(p) \in Paths /\ Len(Sibling(p)) = Len(p)
  BY <1>1, <1>2 DEF Paths
<1>4. Sibling(p)[Len(p)] = p[Len(p)] + 1 /\ \A j \in 1 .. Len(p) - 1 : Sibling(p)[j] = p[j]
  BY <1>1, <1>2 DEF Paths
<1> QED
  BY <1>1, <1>3, <1>4

LEMMA SiblingsParent ==
  ASSUME NEW p \in Paths, NEW q \in Paths, Len(p) > 1, Len(q) = Len(p),
         \A j \in 1 .. Len(p) - 1 : q[j] = p[j]
  PROVE  Parent(q) = Parent(p)
  BY DEF Parent, Paths

(* A field without a sibling in the place of the next one precedes it.     *)
LEMMA PrecedesNext ==
  ASSUME GroupsOK, NEW p \in Paths, Len(p) > 0, NEW q \in Paths,
         InOpen(p), p[Len(p)] = path[Len(p)] - 1,
         Len(q) = Len(p), \A j \in 1 .. Len(p) : q[j] = path[j]
  PROVE  Sibling(p) = q
<1>1. /\ Sibling(p) \in Paths /\ Len(Sibling(p)) = Len(p)
      /\ Sibling(p)[Len(p)] = p[Len(p)] + 1 /\ p[Len(p)] \in Nat
      /\ \A j \in 1 .. Len(p) - 1 : Sibling(p)[j] = p[j]
  BY SiblingOf
<1>2. Len(p) \in Nat /\ path[Len(p)] \in Nat
  BY DEF GroupsOK, Paths, InOpen, Depth
<1>3. \A j \in 1 .. Len(p) : Sibling(p)[j] = q[j]
  <2> SUFFICES ASSUME NEW j \in 1 .. Len(p) PROVE Sibling(p)[j] = q[j]
    OBVIOUS
  <2>1. CASE j = Len(p)
    BY <1>1, <1>2, <2>1
  <2>2. CASE j # Len(p)
    <3>1. j \in 1 .. Len(p) - 1
      BY <1>2, <2>2
    <3> QED
      BY <1>1, <3>1 DEF InOpen, Follows
  <2> QED
    BY <2>1, <2>2
<1> QED
  BY <1>1, <1>3, SeqEqual DEF Paths

(* One more top-level field where the last one ends.                       *)
LEMMA OneMore ==
  ASSUME NEW t, NEW u, NEW p, NEW start \in Nat, NEW end \in Nat, start <= end,
         Tiled(t, start), \A q \in DOMAIN t : t[q] \in Int \X Int,
         Len(p) = 1, p \notin DOMAIN t, DOMAIN u = DOMAIN t \cup {p},
         u[p] = <<start, end - 1>>, \A q \in DOMAIN t : u[q] = t[q]
  PROVE  Tiled(u, end)
<1>1. TopFields(u) = TopFields(t) \cup {p}
  BY DEF TopFields
<1>2. \A q \in TopFields(t) : q # p /\ u[q] = t[q] /\ t[q] \in Int \X Int
  BY DEF TopFields
<1>3. \A q \in TopFields(u) : u[q][2] < end
  BY <1>1, <1>2 DEF Tiled
<1>4. ASSUME NEW b \in 0 .. end - 1
      PROVE  \E q \in TopFields(u) :
               Covers(u[q], b) /\ \A r \in TopFields(u) \ {q} : ~Covers(u[r], b)
  <2>1. CASE b < start
    <3>1. b \in 0 .. start - 1
      BY <2>1
    <3>2. PICK q \in TopFields(t) :
            Covers(t[q], b) /\ \A r \in TopFields(t) \ {q} : ~Covers(t[r], b)
      BY <3>1 DEF Tiled
    <3>3. ~Covers(u[p], b)
      BY <2>1 DEF Covers
    <3> QED
      BY <1>1, <1>2, <3>2, <3>3
  <2>2. CASE b >= start
    <3>1. Covers(u[p], b)
      BY <2>2 DEF Covers
    <3>2. \A q \in TopFields(t) : ~Covers(u[q], b)
      BY <1>2, <2>2 DEF Tiled, Covers
    <3> QED
      BY <1>1, <3>1, <3>2
  <2> QED
    BY <2>1, <2>2
<1> QED
  BY <1>3, <1>4 DEF Tiled

(* One that is not at the top changes nothing there.                       *)
LEMMA OneBelow ==
  ASSUME NEW t, NEW u, NEW p, NEW end, Tiled(t, end), Len(p) # 1,
         DOMAIN u = DOMAIN t \cup {p}, \A q \in DOMAIN t : u[q] = t[q]
  PROVE  Tiled(u, end)
<1>1. TopFields(u) = TopFields(t)
  BY DEF TopFields
<1>2. \A q \in TopFields(t) : u[q] = t[q]
  BY DEF TopFields
<1> QED
  BY <1>1, <1>2 DEF Tiled

-----------------------------------------------------------------------------
(* Reading a field.                                                        *)

LEMMA EmitInv ==
  ASSUME ReadingInv, pos \in Nat, NEW w \in Nat, NEW reads, Emit(w, reads)
  PROVE  ReadingInv'
<1> USE DEF ReadingInv
<1>1. /\ path' \in Paths /\ Len(path') = Depth
      /\ path'[Depth] = path[Depth] + 1
      /\ \A k \in 1 .. Depth - 1 : path'[k] = path[k]
  BY NextField
<1>2. pos' = pos + w /\ pos' \in Nat /\ pos <= pos' /\ starts' = starts /\ Depth' = Depth
  <2>1. pos' = pos + w /\ starts' = starts
    BY DEF Emit
  <2>2. Depth' = Depth
    BY <1>1 DEF Depth
  <2> QED
    BY <2>1, <2>2
<1>3. /\ Depth \in Nat /\ Depth > 0 /\ path \in Paths /\ Len(path) = Depth
      /\ \A k \in 1 .. Depth : path[k] \in Nat /\ path[k] > 0 /\ starts[k] \in Nat
  BY StartsAre DEF GroupsOK, Paths, Depth
<1>4. path \notin DOMAIN tree
  BY PathIsNew
<1>5. /\ DOMAIN tree' = DOMAIN tree \cup {path}
      /\ tree'[path] = <<pos, pos + w - 1>>
      /\ \A q \in DOMAIN tree : q # path /\ tree'[q] = tree[q]
  <2>1. tree' = Annotated(path, <<pos, pos + w - 1>>)
    BY DEF Emit, ByteRange
  <2> QED
    BY <1>4, <2>1, AnnotatedTree
<1>6. \A k \in 1 .. Depth : EndOf(k)' = IF k = Depth THEN pos' ELSE EndOf(k)
  BY <1>2 DEF EndOf
<1>7. EndOf(Depth) = pos
  BY DEF EndOf
<1>a. GroupsOK'
  <2>1. \A k \in 1 .. Depth : (starts[k] <= EndOf(k))'
    BY <1>2, <1>3, <1>6, <1>7 DEF GroupsOK
  <2>2. \A k \in 1 .. Depth : (path[k] = 1 => starts[k] = EndOf(k))'
    <3> SUFFICES ASSUME NEW k \in 1 .. Depth PROVE (path[k] = 1 => starts[k] = EndOf(k))'
      OBVIOUS
    <3>1. CASE k = Depth
      BY <1>1, <1>3, <3>1
    <3>2. CASE k # Depth
      <4>1. k \in 1 .. Depth - 1
        BY <1>3, <3>2
      <4>2. path[k] = 1 => starts[k] = EndOf(k)
        BY DEF GroupsOK
      <4>3. path'[k] = path[k] /\ starts'[k] = starts[k] /\ EndOf(k)' = EndOf(k)
        BY <1>1, <1>2, <1>6, <3>2, <4>1
      <4> QED
        BY <4>2, <4>3
    <3> QED
      BY <3>1, <3>2
  <2>3. starts' \in Seq(0 .. pos') /\ Len(starts') = Depth
    <3>1. starts \in Seq(Nat) /\ Len(starts) = Depth
      BY StartsAre DEF GroupsOK
    <3>2. \A k \in 1 .. Len(starts) : starts[k] <= pos'
      BY <1>2, <3>1, StartsAre
    <3> QED
      BY <1>2, <3>1, <3>2, StartsUpTo
  <2> QED
    BY <1>1, <1>2, <1>3, <2>1, <2>2, <2>3 DEF GroupsOK
<1>b. TreeOK'
  <2>1. path \in Paths /\ path # <<>>
    BY <1>3
  <2>2. <<pos, pos + w - 1>> \in Int \X Int /\ pos + w - 1 < pos'
    BY <1>2
  <2> QED
    BY <1>2, <1>5, <2>1, <2>2 DEF TreeOK
<1>c. Fresh'
  <2> SUFFICES ASSUME NEW p \in DOMAIN tree', NEW k \in 1 .. Depth,
                      k <= Len(p), Follows(p, k)'
               PROVE  p[k] < path'[k] \/ (p[k] = path'[k] /\ k < Depth /\ k < Len(p))
    BY <1>2 DEF Fresh
  <2>1. Follows(p, k)
    BY <1>1, <1>3 DEF Follows
  <2>2. CASE p = path
    BY <1>1, <1>3, <2>2
  <2>3. CASE p \in DOMAIN tree
    <3>1. p[k] < path[k] \/ (p[k] = path[k] /\ k < Depth /\ k < Len(p))
      BY <2>1, <2>3 DEF Fresh
    <3>2. p[k] \in Nat
      BY <1>3, <2>3 DEF TreeOK, Paths
    <3> QED
      BY <1>1, <1>3, <3>1, <3>2
  <2> QED
    BY <1>5, <2>2, <2>3
<1>d. TopTiles'
  <2>1. \A q \in DOMAIN tree : tree[q] \in Int \X Int
    BY DEF TreeOK
  <2>2. CASE Depth = 1
    <3>1. EndOf(1) = pos /\ EndOf(1)' = pos' /\ Len(path) = 1
      BY <1>3, <1>6, <1>7, <2>2
    <3>2. tree'[path] = <<pos, pos' - 1>>
      BY <1>2, <1>5
    <3>3. Tiled(tree', pos')
      BY <1>2, <1>4, <1>5, <2>1, <3>1, <3>2, OneMore DEF TopTiles
    <3> QED
      BY <3>1, <3>3 DEF TopTiles, Tiled, TopFields
  <2>3. CASE Depth > 1
    <3>1. EndOf(1)' = EndOf(1) /\ Len(path) # 1
      BY <1>3, <1>6, <2>3
    <3>2. Tiled(tree', EndOf(1))
      BY <1>5, <3>1, OneBelow DEF TopTiles
    <3> QED
      BY <3>1, <3>2 DEF TopTiles, Tiled, TopFields
  <2> QED
    BY <1>3, <2>2, <2>3
<1>e. Within'
  <2> SUFFICES ASSUME NEW p \in DOMAIN tree', Len(p) > 1, Nonempty(p)'
               PROVE  Enclosed(p)'
    BY DEF Within
  <2>1. CASE p = path
    <3>1. Len(p) <= Depth' /\ Follows(p, Len(p))'
      BY <1>1, <1>2, <1>3, <2>1 DEF Follows
    <3>2. starts'[Len(p)] <= tree'[p][1]
      BY <1>2, <1>3, <1>5, <1>7, <2>1 DEF GroupsOK
    <3> QED
      BY <3>1, <3>2 DEF Enclosed
  <2>2. CASE p \in DOMAIN tree
    <3>1. tree'[p] = tree[p] /\ Nonempty(p)
      BY <1>5, <2>2 DEF Nonempty
    <3>2. Enclosed(p)
      BY <2>2, <3>1 DEF Within
    <3>3. CASE /\ Parent(p) \in DOMAIN tree
               /\ tree[Parent(p)][1] <= tree[p][1] /\ tree[p][2] <= tree[Parent(p)][2]
      BY <1>5, <3>1, <3>3 DEF Enclosed
    <3>4. CASE Len(p) <= Depth /\ Follows(p, Len(p)) /\ starts[Len(p)] <= tree[p][1]
      <4>1. Len(p) \in Nat
        BY <2>2 DEF TreeOK, Paths
      <4>2. Follows(p, Len(p))'
        BY <1>1, <1>3, <3>4, <4>1 DEF Follows
      <4> QED
        BY <1>2, <3>1, <3>4, <4>2 DEF Enclosed
    <3> QED
      BY <3>2, <3>3, <3>4 DEF Enclosed
  <2> QED
    BY <1>5, <2>1, <2>2
<1>f. Chains'
  <2> SUFFICES ASSUME NEW p \in DOMAIN tree', Len(p) > 1 PROVE Chained(p)'
    BY DEF Chains
  <2>1. \A q \in DOMAIN tree : q \in Paths /\ Len(q) \in Nat /\ Len(q) > 0
    BY DEF TreeOK, Paths
  <2>2. \A q \in Paths : InOpen(q)' <=> InOpen(q)
    <3> SUFFICES ASSUME NEW q \in Paths PROVE InOpen(q)' <=> InOpen(q)
      OBVIOUS
    <3>1. Len(q) \in Nat /\ Depth' = Depth /\ Depth \in Nat
      BY <1>1, <1>2, <1>3 DEF Paths
    <3>2. \A k \in 1 .. Depth - 1 : path'[k] = path[k]
      BY <1>1, <1>2, <1>3, <3>1
    <3>3. Len(q) <= Depth => (Follows(q, Len(q))' <=> Follows(q, Len(q)))
      BY <3>1, <3>2 DEF Follows
    <3> QED
      BY <3>1, <3>3 DEF InOpen
  <2>3. CASE p = path
    <3>1. InOpen(p) /\ InOpen(p)' /\ Len(p) = Depth
      BY <1>3, <2>2, <2>3 DEF InOpen, Follows
    <3>2. tree'[p][1] = pos /\ tree'[p][2] = pos + w - 1
      BY <1>5, <2>3
    <3>3. p[Len(p)] = 1 => StartsGroup(p)'
      <4>1. path[Depth] = 1 => starts[Depth] = pos
        BY <1>3, <1>7 DEF GroupsOK
      <4> QED
        BY <1>2, <2>3, <3>1, <3>2, <4>1 DEF StartsGroup
    <3>4. Sibling(p) \notin DOMAIN tree'
      <4>1. /\ Sibling(p) # path /\ Sibling(p) \in Paths /\ Len(Sibling(p)) = Depth
            /\ Sibling(p)[Depth] = path[Depth] + 1
            /\ \A j \in 1 .. Depth - 1 : Sibling(p)[j] = path[j]
        BY <1>3, <2>3, SiblingOf
      <4>2. InOpen(Sibling(p))
        BY <1>3, <4>1 DEF InOpen, Follows
      <4>3. Sibling(p) \notin DOMAIN tree
        BY SMTT(30), <1>3, <4>1, <4>2, Before
      <4> QED
        BY <1>5, <4>1, <4>3
    <3>5. EndsGroup(p)'
      <4>1. p[Len(p)] = path'[Len(p)] - 1
        <5>1. path[Depth] \in Nat /\ path'[Depth] = path[Depth] + 1
          BY <1>1, <1>3
        <5>2. path[Depth] = path'[Depth] - 1
          BY <5>1
        <5> QED
          BY <2>3, <3>1, <5>2
      <4>2. EndOf(Len(p))' = pos + w
        BY <1>2, <1>3, <1>6, <3>1
      <4> QED
        BY <3>1, <3>2, <4>1, <4>2 DEF EndsGroup
    <3> QED
      BY <3>3, <3>4, <3>5 DEF Chained
  <2>4. CASE p \in DOMAIN tree
    <3>1. /\ p \in Paths /\ Len(p) \in Nat /\ tree'[p] = tree[p] /\ Chained(p)
          /\ \A q \in DOMAIN tree : q \in DOMAIN tree' /\ tree'[q] = tree[q]
      BY <1>5, <2>1, <2>4 DEF Chains
    <3>2. p[Len(p)] = 1 => StartsGroup(p)'
      <4>1. StartsGroup(p) => StartsGroup(p)'
        BY <1>2, <2>2, <3>1 DEF StartsGroup
      <4> QED
        BY <3>1, <4>1 DEF Chained
    <3>3. CASE Sibling(p) \in DOMAIN tree
      BY <3>1, <3>2, <3>3 DEF Chained
    <3>4. CASE Sibling(p) = path
      <4>1. Sibling(p) \notin DOMAIN tree /\ EndsGroup(p)
        BY <1>4, <3>1, <3>4 DEF Chained
      <4>2. Len(p) = Depth /\ \A j \in 1 .. Depth - 1 : path[j] = p[j]
        BY <1>3, <3>1, <3>4, SiblingOf
      <4>3. Parent(p) \notin DOMAIN tree
        <5>1. Parent(p) = SubSeq(path, 1, Depth - 1)
          <6>1. Parent(path) = Parent(p)
            BY <1>3, <3>1, <4>2, SiblingsParent
          <6> QED
            BY <1>3, <6>1 DEF Parent
        <5>2. /\ Len(Parent(p)) = Depth - 1 /\ Depth - 1 > 0
              /\ \A j \in 1 .. Depth - 1 : Parent(p)[j] = path[j]
          BY <1>3, <4>2, <5>1 DEF Paths
        <5>3. InOpen(Parent(p)) /\ Parent(p)[Len(Parent(p))] = path[Len(Parent(p))] /\ path[Depth - 1] \in Nat
          BY <1>3, <5>2 DEF InOpen, Follows
        <5> QED
          BY <1>3, <5>2, <5>3, Before
      <4>4. tree[p][2] = pos - 1
        BY <1>7, <4>1, <4>2, <4>3 DEF EndsGroup
      <4>5. tree'[Sibling(p)][1] = pos /\ Sibling(p) \in DOMAIN tree'
        BY <1>5, <3>4
      <4> QED
        BY <3>1, <3>2, <4>4, <4>5 DEF Chained
    <3>5. CASE Sibling(p) \notin DOMAIN tree /\ Sibling(p) # path
      <4>1. Sibling(p) \notin DOMAIN tree' /\ EndsGroup(p)
        BY <1>5, <3>1, <3>5 DEF Chained
      <4>2. CASE Parent(p) \in DOMAIN tree /\ tree[p][2] = tree[Parent(p)][2]
        BY <3>1, <3>2, <4>1, <4>2 DEF Chained, EndsGroup
      <4>3. CASE InOpen(p) /\ p[Len(p)] = path[Len(p)] - 1 /\ tree[p][2] = EndOf(Len(p)) - 1
        <5>1. Len(p) # Depth
          <6> SUFFICES ASSUME Len(p) = Depth PROVE FALSE
            OBVIOUS
          <6>1. Sibling(p) = path
            BY <1>3, <3>1, <4>3, PrecedesNext
          <6> QED
            BY <3>5, <6>1
        <5>2. Len(p) \in 1 .. Depth - 1
          BY <1>3, <3>1, <4>3, <5>1 DEF InOpen
        <5>3. path'[Len(p)] = path[Len(p)] /\ EndOf(Len(p))' = EndOf(Len(p))
          BY <1>1, <1>3, <1>6, <5>2
        <5> QED
          BY <2>2, <3>1, <3>2, <4>1, <4>3, <5>3 DEF Chained, EndsGroup
      <4> QED
        BY <4>1, <4>2, <4>3 DEF EndsGroup
    <3> QED
      BY <3>3, <3>4, <3>5
  <2> QED
    BY <1>5, <2>3, <2>4
<1> QED
  BY <1>a, <1>b, <1>c, <1>d, <1>e, <1>f

-----------------------------------------------------------------------------
(* The other steps of a case.                                              *)

LEMMA BeginInv == ASSUME NEW reads, Begin(reads) PROVE ReadingInv'
<1>1. pos' = 0 /\ tree' = <<>> /\ starts' = <<0>> /\ path' = <<1>>
  BY DEF Begin, NoFields
<1>2. DOMAIN tree' = {}
  BY <1>1
<1>3. Depth' = 1 /\ EndOf(1)' = 0 /\ path' \in Paths /\ starts' \in Seq(0 .. 0) /\ Len(starts') = 1
  BY <1>1 DEF Depth, EndOf, Paths
<1>4. GroupsOK'
  BY <1>1, <1>3 DEF GroupsOK
<1>5. TreeOK' /\ Fresh' /\ Within' /\ Chains'
  BY <1>2 DEF TreeOK, Fresh, Within, Chains
<1>6. TopTiles'
  <2>1. TopFields(tree)' = {}
    BY <1>2 DEF TopFields
  <2> QED
    BY <1>3, <2>1 DEF TopTiles, Tiled
<1> QED
  BY <1>4, <1>5, <1>6 DEF ReadingInv

LEMMA SameFields ==
  ASSUME ReadingInv, UNCHANGED <<pos, starts, path, tree>>
  PROVE  ReadingInv'
<1>1. GroupsOK' /\ TreeOK'
  BY DEF ReadingInv, GroupsOK, TreeOK, EndOf, Depth
<1>2. Fresh' /\ TopTiles' /\ Within'
  BY DEF ReadingInv, Fresh, Follows, TopTiles, Tiled, TopFields, EndOf, Depth, Within, Enclosed, Nonempty
<1>3. Chains'
  BY DEF ReadingInv, Chains, Chained, StartsGroup, EndsGroup, InOpen, Follows, EndOf, Depth
<1> QED
  BY <1>1, <1>2, <1>3 DEF ReadingInv

LEMMA OpenGroupInv == ASSUME ReadingInv, pos \in Nat, OpenGroup PROVE ReadingInv'
<1> USE DEF ReadingInv
<1> DEFINE d == Depth
<1>1. /\ d \in Nat /\ d > 0 /\ path \in Paths /\ Len(path) = d
      /\ starts \in Seq(Nat) /\ Len(starts) = d
      /\ \A k \in 1 .. d : path[k] \in Nat /\ path[k] > 0 /\ starts[k] \in Nat
  BY StartsAre DEF GroupsOK, Paths, Depth
<1>2. path' = Append(path, 1) /\ starts' = Append(starts, pos) /\ pos' = pos /\ tree' = tree
  BY DEF OpenGroup
<1>3. /\ path' \in Paths /\ Len(path') = d + 1 /\ path'[d + 1] = 1
      /\ \A k \in 1 .. d : path'[k] = path[k]
  BY <1>1, <1>2 DEF Paths
<1>4. /\ starts' \in Seq(Nat) /\ Len(starts') = d + 1 /\ starts'[d + 1] = pos
      /\ \A k \in 1 .. d : starts'[k] = starts[k]
  BY <1>1, <1>2
<1>5. Depth' = d + 1
  BY <1>3 DEF Depth
<1>6. \A k \in 1 .. d + 1 : EndOf(k)' = IF k = d + 1 THEN pos ELSE EndOf(k)
  BY <1>1, <1>2, <1>4, <1>5 DEF EndOf
<1>a. GroupsOK'
  <2>1. \A k \in 1 .. d + 1 : starts'[k] <= EndOf(k)' /\ (path'[k] = 1 => starts'[k] = EndOf(k)')
    BY <1>1, <1>3, <1>4, <1>6 DEF GroupsOK
  <2>2. starts' \in Seq(0 .. pos)
    <3>1. \A k \in 1 .. d + 1 : starts'[k] <= pos
      BY <1>1, <1>4, StartsAre
    <3> QED
      BY <1>1, <1>4, <3>1, StartsUpTo
  <2> QED
    BY <1>1, <1>2, <1>3, <1>4, <1>5, <2>1, <2>2 DEF GroupsOK
<1>b. TreeOK'
  BY <1>2 DEF TreeOK
<1>c. Fresh'
  <2> SUFFICES ASSUME NEW p \in DOMAIN tree, NEW k \in 1 .. d + 1, k <= Len(p), Follows(p, k)'
               PROVE  p[k] < path'[k] \/ (p[k] = path'[k] /\ k < d + 1 /\ k < Len(p))
    BY <1>2, <1>5 DEF Fresh
  <2>1. CASE k <= d
    <3>1. Follows(p, k)
      BY <1>1, <1>3, <2>1 DEF Follows
    <3> QED
      BY <1>1, <1>3, <2>1, <3>1 DEF Fresh
  <2>2. CASE k = d + 1
    <3>1. Follows(p, d) /\ p[d] = path[d] /\ d <= Len(p)
      <4>1. Len(p) \in Nat
        BY DEF TreeOK, Paths
      <4> QED
        BY <1>1, <1>3, <2>2, <4>1 DEF Follows
    <3>2. p[d] < path[d]
      BY <1>1, <3>1 DEF Fresh
    <3> QED
      BY <1>1, <3>1, <3>2
  <2> QED
    BY <1>1, <2>1, <2>2
<1>d. TopTiles'
  BY <1>1, <1>2, <1>6 DEF TopTiles, Tiled, TopFields
<1>e. Within'
  <2> SUFFICES ASSUME NEW p \in DOMAIN tree, Len(p) > 1, Nonempty(p)
               PROVE  Enclosed(p)'
    BY <1>2 DEF Within, Nonempty
  <2>1. Enclosed(p)
    BY DEF Within
  <2>2. CASE Len(p) <= d /\ Follows(p, Len(p)) /\ starts[Len(p)] <= tree[p][1]
    <3>1. Len(p) \in Nat
      BY DEF TreeOK, Paths
    <3>2. Follows(p, Len(p))' /\ starts'[Len(p)] = starts[Len(p)]
      BY SMTT(30), <1>1, <1>3, <1>4, <2>2, <3>1 DEF Follows
    <3> QED
      BY <1>1, <1>2, <1>5, <2>2, <3>1, <3>2 DEF Enclosed
  <2> QED
    BY <1>2, <2>1, <2>2 DEF Enclosed
<1>f. Chains'
  <2> SUFFICES ASSUME NEW p \in DOMAIN tree, Len(p) > 1 PROVE Chained(p)'
    BY <1>2 DEF Chains
  <2>1. Len(p) \in Nat /\ Chained(p)
    BY DEF TreeOK, Paths, Chains
  <2>2. InOpen(p) => /\ InOpen(p)' /\ starts'[Len(p)] = starts[Len(p)]
                     /\ path'[Len(p)] = path[Len(p)] /\ EndOf(Len(p))' = EndOf(Len(p))
    BY <1>1, <1>3, <1>4, <1>5, <1>6, <2>1 DEF InOpen, Follows
  <2>3. StartsGroup(p) => StartsGroup(p)'
    BY <1>2, <2>2 DEF StartsGroup
  <2>4. EndsGroup(p) => EndsGroup(p)'
    BY <1>2, <2>2 DEF EndsGroup
  <2> QED
    BY <1>2, <2>1, <2>3, <2>4 DEF Chained
<1> QED
  BY <1>a, <1>b, <1>c, <1>d, <1>e, <1>f

(* A group that closes keeps its fields within its range, if it is kept;   *)
(* one that is dropped has neither fields nor bytes.                       *)
LEMMA CloseGroupInv == ASSUME ReadingInv, pos \in Nat, CloseGroup PROVE ReadingInv'
<1> USE DEF ReadingInv
<1> DEFINE d == Depth
           outer == SubSeq(path, 1, d - 1)
           kept  == Top.keep \/ path[d] > 1
<1>1. /\ d \in Nat /\ d > 1 /\ path \in Paths /\ Len(path) = d
      /\ starts \in Seq(Nat) /\ Len(starts) = d
      /\ \A k \in 1 .. d : path[k] \in Nat /\ path[k] > 0 /\ starts[k] \in Nat
  BY StartsAre DEF GroupsOK, Paths, Depth, CloseGroup
<1>2. outer \in Paths /\ Len(outer) = d - 1 /\ \A k \in 1 .. d - 1 : outer[k] = path[k]
  BY <1>1 DEF Paths
<1>3. /\ starts' \in Seq(Nat) /\ Len(starts') = d - 1
      /\ \A k \in 1 .. d - 1 : starts'[k] = starts[k]
  <2>1. starts' = SubSeq(starts, 1, d - 1)
    BY DEF CloseGroup
  <2> QED
    BY <1>1, <2>1
<1>4. pos' = pos /\ phase' = phase
  BY DEF CloseGroup
<1>5. /\ kept => /\ tree' = Annotated(outer, <<starts[d], pos - 1>>)
                 /\ path' = [outer EXCEPT ![d - 1] = @ + 1]
      /\ ~kept => tree' = tree /\ path' = outer
  BY DEF CloseGroup, GroupStart, ByteRange
<1>6. /\ path' \in Paths /\ Len(path') = d - 1
      /\ \A k \in 1 .. d - 2 : path'[k] = path[k]
      /\ path'[d - 1] = IF kept THEN path[d - 1] + 1 ELSE path[d - 1]
  <2>1. CASE kept
    <3>1. path' = [outer EXCEPT ![d - 1] = path[d - 1] + 1]
      BY <1>1, <1>2, <1>5, <2>1
    <3>2. path[d - 1] + 1 \in Nat \ {0} /\ d - 1 \in 1 .. Len(outer)
      BY <1>1, <1>2
    <3> HIDE DEF outer
    <3> QED
      BY <1>1, <1>2, <2>1, <3>1, <3>2, SMTT(60) DEF Paths
  <2>2. CASE ~kept
    <3>1. path' = outer
      BY <1>5, <2>2
    <3>2. d - 1 \in 1 .. d - 1 /\ \A k \in 1 .. d - 2 : k \in 1 .. d - 1
      BY <1>1
    <3> HIDE DEF outer, kept, d
    <3> QED
      BY <1>2, <2>2, <3>1, <3>2
  <2> QED
    BY <2>1, <2>2
<1>7. Depth' = d - 1
  BY <1>6 DEF Depth
<1>8. \A k \in 1 .. d - 1 : EndOf(k)' = IF k = d - 1 THEN pos ELSE EndOf(k)
  BY <1>1, <1>3, <1>4, <1>7 DEF EndOf
<1>9. EndOf(d) = pos /\ EndOf(d - 1) = starts[d] /\ starts[d] <= pos
  BY <1>1 DEF EndOf, GroupsOK
<1>10. ~kept => starts[d] = pos
  BY <1>1, <1>9 DEF GroupsOK
<1>11. outer \notin DOMAIN tree
  <2> SUFFICES ASSUME outer \in DOMAIN tree PROVE FALSE
    OBVIOUS
  <2>1. Follows(outer, d - 1)
    BY <1>1, <1>2 DEF Follows
  <2> HIDE DEF outer
  <2> QED
    BY <1>1, <1>2, <2>1 DEF Fresh
<1>12. kept => /\ DOMAIN tree' = DOMAIN tree \cup {outer} /\ tree'[outer] = <<starts[d], pos - 1>>
               /\ \A q \in DOMAIN tree : q # outer /\ tree'[q] = tree[q]
  <2> HIDE DEF outer
  <2> QED
    BY <1>5, <1>11, AnnotatedTree
<1> HIDE DEF outer, kept
(* No field lies below a dropped group.                                    *)
<1>13. ASSUME ~kept, NEW p \in DOMAIN tree, d <= Len(p), Follows(p, d)
       PROVE  FALSE
  <2>1. p[d] < path[d]
    BY <1>1, <1>13 DEF Fresh
  <2>2. path[d] = 1 /\ p[d] \in Nat /\ p[d] > 0
    <3>1. Len(p) \in Nat /\ p \in Seq(Nat \ {0})
      BY <1>13 DEF TreeOK, Paths
    <3> QED
      BY <1>1, <1>13, <3>1 DEF kept
  <2> QED
    BY <1>1, <2>1, <2>2
<1>a. GroupsOK'
  <2>1. \A k \in 1 .. d - 1 : starts'[k] <= EndOf(k)' /\ (path'[k] = 1 => starts'[k] = EndOf(k)')
    <3> SUFFICES ASSUME NEW k \in 1 .. d - 1
                 PROVE  starts'[k] <= EndOf(k)' /\ (path'[k] = 1 => starts'[k] = EndOf(k)')
      OBVIOUS
    <3>1. CASE k = d - 1
      <4>1. starts[d - 1] <= starts[d] /\ (path[d - 1] = 1 => starts[d - 1] = starts[d])
        BY <1>1, <1>9 DEF GroupsOK
      <4>2. starts'[k] = starts[d - 1] /\ EndOf(k)' = pos
        BY <1>1, <1>3, <1>8, <3>1
      <4>3. CASE kept
        BY <1>1, <1>6, <1>9, <3>1, <4>1, <4>2, <4>3
      <4>4. CASE ~kept
        BY <1>1, <1>6, <1>9, <1>10, <3>1, <4>1, <4>2, <4>4
      <4> QED
        BY <4>3, <4>4
    <3>2. CASE k < d - 1
      <4>1. starts[k] <= EndOf(k) /\ (path[k] = 1 => starts[k] = EndOf(k))
        BY <1>1, <3>2 DEF GroupsOK
      <4>2. starts'[k] = starts[k] /\ path'[k] = path[k] /\ EndOf(k)' = EndOf(k)
        BY SMTT(30), <1>1, <1>3, <1>6, <1>8, <3>2
      <4> QED
        BY <4>1, <4>2
    <3> QED
      BY <1>1, <3>1, <3>2
  <2>2. starts'[1] = 0
    BY <1>1, <1>3 DEF GroupsOK
  <2>3. starts' \in Seq(0 .. pos)
    <3>1. \A k \in 1 .. d - 1 : starts'[k] <= pos
      BY <1>1, <1>3, StartsAre
    <3> QED
      BY <1>3, <3>1, StartsUpTo
  <2> QED
    BY SMTT(30), <1>1, <1>3, <1>4, <1>6, <1>7, <2>1, <2>2, <2>3 DEF GroupsOK
<1>b. TreeOK'
  <2>1. outer \in Paths /\ outer # <<>>
    BY <1>1, <1>2
  <2>2. starts[d] \in Nat /\ starts[d] <= pos
    BY <1>1, <1>9
  <2>3. CASE kept
    <3> SUFFICES ASSUME NEW p \in DOMAIN tree'
                 PROVE  /\ p \in Paths /\ p # <<>>
                        /\ tree'[p] \in Int \X Int
                        /\ 0 <= tree'[p][1] /\ tree'[p][1] <= tree'[p][2] + 1
                        /\ tree'[p][2] < pos
      BY <1>4 DEF TreeOK
    <3>1. CASE p = outer
      <4>1. tree'[p] = <<starts[d], pos - 1>>
        BY <1>12, <2>3, <3>1
      <4> QED
        BY <2>1, <2>2, <3>1, <4>1
    <3>2. CASE p \in DOMAIN tree
      <4>1. tree'[p] = tree[p]
        BY <1>12, <2>3, <3>2
      <4> QED
        BY <3>2, <4>1 DEF TreeOK
    <3> QED
      BY <1>12, <2>3, <3>1, <3>2
  <2>4. CASE ~kept
    BY <1>4, <1>5, <2>4 DEF TreeOK
  <2> QED
    BY <2>3, <2>4
<1>c. Fresh'
  <2> SUFFICES ASSUME NEW p \in DOMAIN tree', NEW k \in 1 .. d - 1, k <= Len(p), Follows(p, k)'
               PROVE  p[k] < path'[k] \/ (p[k] = path'[k] /\ k < d - 1 /\ k < Len(p))
    BY <1>7 DEF Fresh
  <2>1. Follows(p, k)
    BY <1>1, <1>6 DEF Follows
  <2>2. CASE kept /\ p = outer
    BY SMTT(30), <1>1, <1>2, <1>6, <2>2
  <2>3. CASE p \in DOMAIN tree
    <3>1. p[k] < path[k] \/ (p[k] = path[k] /\ k < d /\ k < Len(p))
      BY <1>1, <2>1, <2>3 DEF Fresh
    <3>2. p[k] \in Nat /\ Len(p) \in Nat
      BY SMTT(30), <1>1, <2>3 DEF TreeOK, Paths
    <3>3. CASE k < d - 1
      BY SMTT(30), <1>1, <1>6, <3>1, <3>3
    <3>4. CASE k = d - 1 /\ kept
      BY <1>1, <1>6, <3>1, <3>2, <3>4
    <3>5. CASE k = d - 1 /\ ~kept
      <4>1. p[k] # path[k] \/ k >= Len(p)
        <5> SUFFICES ASSUME p[k] = path[k], k < Len(p) PROVE FALSE
          BY <3>2
        <5>1. d <= Len(p) /\ Follows(p, d)
          BY <1>1, <2>1, <3>2, <3>5 DEF Follows
        <5> QED
          BY <1>13, <2>3, <3>5, <5>1
      <4> QED
        BY <1>1, <1>6, <3>1, <3>2, <3>5, <4>1
    <3> QED
      BY <1>1, <3>3, <3>4, <3>5
  <2> QED
    BY <1>5, <1>12, <2>2, <2>3
<1>d. TopTiles'
  <2>1. \A q \in DOMAIN tree : tree[q] \in Int \X Int
    BY DEF TreeOK
  <2>2. CASE d = 2 /\ kept
    <3>1. EndOf(1) = starts[d] /\ EndOf(1)' = pos /\ Len(outer) = 1
      BY <1>1, <1>2, <1>8, <1>9, <2>2
    <3>2. starts[d] \in Nat /\ starts[d] <= pos
      BY <1>1, <1>9
    <3>3. Tiled(tree', pos)
      BY <1>11, <1>12, <2>1, <2>2, <3>1, <3>2, OneMore DEF TopTiles
    <3> QED
      BY <3>1, <3>3 DEF TopTiles, Tiled, TopFields
  <2>3. CASE d = 2 /\ ~kept
    <3>1. EndOf(1)' = EndOf(1)
      BY <1>1, <1>8, <1>9, <1>10, <2>3
    <3> QED
      BY <1>5, <2>3, <3>1 DEF TopTiles, Tiled, TopFields
  <2>4. CASE d > 2
    <3>1. EndOf(1)' = EndOf(1) /\ Len(outer) # 1
      BY <1>1, <1>2, <1>8, <2>4
    <3>2. CASE kept
      <4>1. Tiled(tree', EndOf(1))
        BY <1>12, <3>1, <3>2, OneBelow DEF TopTiles
      <4> QED
        BY <3>1, <4>1 DEF TopTiles, Tiled, TopFields
    <3>3. CASE ~kept
      BY <1>5, <3>1, <3>3 DEF TopTiles, Tiled, TopFields
    <3> QED
      BY <3>2, <3>3
  <2> QED
    BY <1>1, <2>2, <2>3, <2>4
<1>e. Within'
  <2> SUFFICES ASSUME NEW p \in DOMAIN tree', Len(p) > 1, Nonempty(p)'
               PROVE  Enclosed(p)'
    BY DEF Within
  <2>1. CASE kept /\ p = outer
    <3>1. Len(p) <= Depth' /\ Follows(p, Len(p))'
      BY <1>1, <1>2, <1>6, <1>7, <2>1 DEF Follows
    <3>2. starts'[Len(p)] <= tree'[p][1]
      <4>1. starts[d - 1] <= starts[d]
        BY <1>1, <1>9 DEF GroupsOK
      <4>2. Len(p) = d - 1 /\ starts'[d - 1] = starts[d - 1] /\ tree'[p][1] = starts[d]
        BY <1>1, <1>2, <1>3, <1>12, <2>1
      <4> QED
        BY <4>1, <4>2
    <3> QED
      BY <3>1, <3>2 DEF Enclosed
  <2>2. CASE p \in DOMAIN tree
    <3>1. tree'[p] = tree[p] /\ Nonempty(p) /\ DOMAIN tree \subseteq DOMAIN tree'
      BY <1>5, <1>12, <2>2 DEF Nonempty
    <3>2. Enclosed(p)
      BY <2>2, <3>1 DEF Within
    <3>3. CASE /\ Parent(p) \in DOMAIN tree
               /\ tree[Parent(p)][1] <= tree[p][1] /\ tree[p][2] <= tree[Parent(p)][2]
      <4>1. tree'[Parent(p)] = tree[Parent(p)]
        BY <1>5, <1>12, <3>3
      <4> QED
        BY <3>1, <3>3, <4>1 DEF Enclosed
    <3>4. CASE Len(p) <= d /\ Follows(p, Len(p)) /\ starts[Len(p)] <= tree[p][1]
      <4>1. Len(p) \in Nat /\ p \in Seq(Nat \ {0})
        BY <2>2 DEF TreeOK, Paths
      <4>2. CASE Len(p) < d
        <5>1. Follows(p, Len(p))'
          BY <1>1, <1>6, <3>4, <4>1, <4>2 DEF Follows
        <5> QED
          BY <1>1, <1>3, <1>7, <3>1, <3>4, <4>1, <4>2, <5>1 DEF Enclosed
      <4>3. CASE Len(p) = d
        <5>1. kept
          BY <1>1, <1>13, <2>2, <3>4, <4>3
        <5>2. Parent(p) = outer
          BY <1>1, <1>2, <3>4, <4>1, <4>3 DEF Follows, Parent, outer
        <5>3. tree[p][2] < pos /\ tree[p] \in Int \X Int
          BY <2>2 DEF TreeOK
        <5> QED
          BY <1>1, <1>12, <3>1, <3>4, <4>3, <5>1, <5>2, <5>3 DEF Enclosed
      <4> QED
        BY <1>1, <3>4, <4>1, <4>2, <4>3
    <3> QED
      BY <3>2, <3>3, <3>4 DEF Enclosed
  <2> QED
    BY <1>5, <1>12, <2>1, <2>2
<1>f. Chains'
  <2>0. PICK e \in Nat : e = d - 1
    BY <1>1
  <2>o. PICK group : group = outer
    OBVIOUS
  <2>1. /\ e \in Nat /\ e > 0 /\ Depth \in Nat /\ Depth = e + 1 /\ path[e] \in Nat /\ path[d] \in Nat
        /\ \A q \in DOMAIN tree : q \in Paths /\ Len(q) \in Nat /\ Len(q) > 0
    BY <1>1, <2>0 DEF TreeOK, Paths
  <2>2. \A q \in Paths : InOpen(q)' <=> InOpen(q) /\ Len(q) <= e
    <3> SUFFICES ASSUME NEW q \in Paths PROVE InOpen(q)' <=> InOpen(q) /\ Len(q) <= e
      OBVIOUS
    <3>1. Len(q) \in Nat /\ Depth' = e /\ Depth = e + 1
      BY <1>1, <1>7, <2>0 DEF Paths
    <3>2. \A k \in 1 .. e - 1 : path'[k] = path[k]
      BY <1>1, <1>6, <2>0
    <3>3. Len(q) <= e => (Follows(q, Len(q))' <=> Follows(q, Len(q)))
      BY <3>1, <3>2 DEF Follows
    <3> QED
      BY <3>1, <3>3 DEF InOpen
  <2>3. /\ Len(group) = e /\ InOpen(group) /\ group \in Paths
        /\ \A j \in 1 .. e : group[j] = path[j]
    BY <1>1, <1>2, <2>0, <2>o DEF InOpen, Follows
  <2>4. \A q \in DOMAIN tree : q \in DOMAIN tree' /\ tree'[q] = tree[q]
    BY <2>0, <2>o, <1>5, <1>12
  <2>5. ASSUME kept, Len(group) > 1 PROVE Chained(group)'
    <3>1. tree'[group] = <<starts[d], pos - 1>> /\ InOpen(group)'
      BY <2>0, <2>o, <1>12, <2>1, <2>2, <2>3, <2>5
    <3>2. group[Len(group)] = 1 => StartsGroup(group)'
      <4>1. path[e] = 1 => starts[e] = starts[d]
        BY <2>0, <2>o, <1>1, <1>9 DEF GroupsOK
      <4>2. starts'[e] = starts[e]
        BY <2>0, <2>o, <1>3, <2>1
      <4> QED
        BY <2>1, <2>3, <3>1, <4>1, <4>2 DEF StartsGroup
    <3>3. Sibling(group) \notin DOMAIN tree'
      <4>1. /\ Sibling(group) # group /\ Sibling(group) \in Paths /\ Len(Sibling(group)) = e
            /\ Sibling(group)[e] = path[e] + 1
            /\ \A j \in 1 .. e - 1 : Sibling(group)[j] = path[j]
        <5>1. e \in 1 .. e /\ Len(group) > 0
          BY <2>1, <2>3
        <5>2. Len(group) = e /\ group \in Paths /\ group[e] = path[e]
          BY <2>3, <5>1
        <5>3. Sibling(group)[e] = path[e] + 1 /\ \A j \in 1 .. e - 1 : Sibling(group)[j] = group[j]
          BY <5>1, <5>2, SiblingOf
        <5>4. \A j \in 1 .. e - 1 : Sibling(group)[j] = path[j]
          BY <2>1, <2>3, <5>3
        <5> QED
          BY <5>1, <5>2, <5>3, <5>4, SiblingOf
      <4>2. InOpen(Sibling(group))
        BY <2>1, <4>1 DEF InOpen, Follows
      <4>3. Sibling(group) \notin DOMAIN tree
        BY <2>1, <4>1, <4>2, Before
      <4> QED
        BY <2>0, <2>o, <1>12, <2>5, <4>1, <4>3
    <3>4. EndsGroup(group)'
      <4>1. path'[e] = path[e] + 1 /\ EndOf(e)' = pos
        BY <2>0, <2>o, <1>6, <1>8, <2>1, <2>5
      <4>2. group[e] = path'[e] - 1
        BY <2>1, <2>3, <4>1
      <4> QED
        BY <2>3, <3>1, <4>1, <4>2 DEF EndsGroup
    <3> QED
      BY <3>2, <3>3, <3>4 DEF Chained
  <2>6. ASSUME NEW p \in DOMAIN tree, Len(p) > 1 PROVE Chained(p)'
    <3>1. p \in Paths /\ Len(p) \in Nat /\ tree'[p] = tree[p] /\ Chained(p)
      BY <2>1, <2>4, <2>6 DEF Chains
    (* A field of the group that closes.                                   *)
    <3>2. ASSUME InOpen(p), Len(p) = d
          PROVE  kept /\ Parent(p) = group /\ Parent(p) \in DOMAIN tree'
      <4>1. kept
        BY <2>0, <2>o, <1>1, <1>13, <2>6, <3>2 DEF InOpen
      <4>2. Parent(p) = group
        BY <2>0, <2>o, <1>1, <1>2, <3>1, <3>2 DEF InOpen, Follows, Parent, outer
      <4> QED
        BY <2>0, <2>o, <1>12, <4>1, <4>2
    <3>3. p[Len(p)] = 1 => StartsGroup(p)'
      <4> SUFFICES ASSUME p[Len(p)] = 1 PROVE StartsGroup(p)'
        OBVIOUS
      <4>1. CASE Parent(p) \in DOMAIN tree /\ tree[p][1] = tree[Parent(p)][1]
        BY <2>4, <3>1, <4>1 DEF StartsGroup
      <4>2. CASE InOpen(p) /\ tree[p][1] = starts[Len(p)] /\ Len(p) = d
        BY <2>0, <2>o, <1>12, <3>1, <3>2, <4>2 DEF StartsGroup
      <4>3. CASE InOpen(p) /\ tree[p][1] = starts[Len(p)] /\ Len(p) # d
        <5>1. Len(p) \in 1 .. e
          BY <2>1, <3>1, <4>3 DEF InOpen
        <5> QED
          BY <2>0, <2>o, <1>3, <2>2, <3>1, <4>3, <5>1 DEF StartsGroup
      <4> QED
        BY <3>1, <4>1, <4>2, <4>3 DEF Chained, StartsGroup
    <3>4. CASE Sibling(p) \in DOMAIN tree
      BY <2>4, <3>1, <3>3, <3>4 DEF Chained
    <3>5. CASE Sibling(p) = group
      <4>1. EndsGroup(p)
        BY <2>0, <2>o, <1>11, <3>1, <3>5 DEF Chained
      <4>2. Len(p) = e /\ \A j \in 1 .. e - 1 : group[j] = p[j]
        BY <2>3, <3>1, <3>5, <2>6, SiblingOf
      <4>3. Parent(p) \notin DOMAIN tree
        <5>1. Parent(p) = SubSeq(group, 1, e - 1)
          <6>1. Parent(group) = Parent(p)
            BY <2>3, <2>6, <3>1, <4>2, SiblingsParent
          <6> QED
            BY <2>3, <6>1 DEF Parent
        <5>2. /\ Len(Parent(p)) = e - 1 /\ e - 1 > 0
              /\ \A j \in 1 .. e - 1 : Parent(p)[j] = path[j]
          BY <2>1, <2>3, <2>6, <4>2, <5>1 DEF Paths
        <5>3. InOpen(Parent(p)) /\ Parent(p)[Len(Parent(p))] = path[Len(Parent(p))] /\ path[e - 1] \in Nat
          BY <2>0, <2>o, <1>1, <2>1, <5>2 DEF InOpen, Follows
        <5> QED
          BY <2>1, <5>2, <5>3, Before
      <4>4. tree[p][2] = starts[d] - 1
        BY <2>0, <2>o, <1>9, <4>1, <4>2, <4>3 DEF EndsGroup
      <4>5. CASE kept
        BY <2>0, <2>o, <1>12, <3>1, <3>3, <3>5, <4>4, <4>5 DEF Chained
      <4>6. CASE ~kept
        <5>1. InOpen(p) /\ p[Len(p)] = path[Len(p)] - 1
          BY <4>1, <4>3 DEF EndsGroup
        <5>2. path'[e] = path[e] /\ EndOf(e)' = pos /\ starts[d] = pos
          BY <2>0, <2>o, <1>6, <1>8, <1>10, <2>1, <4>6
        <5>3. EndsGroup(p)'
          BY <2>1, <2>2, <3>1, <4>2, <4>4, <5>1, <5>2 DEF EndsGroup
        <5>4. Sibling(p) \notin DOMAIN tree'
          BY <2>0, <2>o, <1>5, <1>11, <3>5, <4>6
        <5> QED
          BY <3>3, <5>3, <5>4 DEF Chained
      <4> QED
        BY <4>5, <4>6
    <3>6. CASE Sibling(p) \notin DOMAIN tree /\ Sibling(p) # group
      <4>1. Sibling(p) \notin DOMAIN tree' /\ EndsGroup(p)
        BY <2>0, <2>o, <1>5, <1>12, <3>1, <3>6 DEF Chained
      <4>2. CASE Parent(p) \in DOMAIN tree /\ tree[p][2] = tree[Parent(p)][2]
        BY <2>4, <3>1, <3>3, <4>1, <4>2 DEF Chained, EndsGroup
      <4>3. CASE InOpen(p) /\ p[Len(p)] = path[Len(p)] - 1 /\ tree[p][2] = EndOf(Len(p)) - 1
        <5>1. CASE Len(p) = d
          <6>1. tree'[p][2] = tree'[Parent(p)][2]
            BY <2>0, <2>o, <1>9, <1>12, <3>1, <3>2, <4>3, <5>1
          <6> QED
            BY <3>2, <3>3, <4>1, <4>3, <5>1, <6>1 DEF Chained, EndsGroup
        <5>2. Len(p) # e
          <6> SUFFICES ASSUME Len(p) = e PROVE FALSE
            OBVIOUS
          <6>1. Sibling(p) = group
            BY <2>1, <2>3, <3>1, <4>3, PrecedesNext
          <6> QED
            BY <3>6, <6>1
        <5>3. CASE Len(p) # d
          <6>1. Len(p) \in 1 .. e - 1
            BY <2>1, <3>1, <4>3, <5>2, <5>3 DEF InOpen
          <6>2. path'[Len(p)] = path[Len(p)] /\ EndOf(Len(p))' = EndOf(Len(p)) /\ Len(p) <= e
            BY <2>0, <2>o, <1>6, <1>8, <2>1, <6>1
          <6> QED
            BY <2>2, <3>1, <3>3, <4>1, <4>3, <6>2 DEF Chained, EndsGroup
        <5> QED
          BY <5>1, <5>3
      <4> QED
        BY <4>1, <4>2, <4>3 DEF EndsGroup
    <3> QED
      BY <3>4, <3>5, <3>6
  <2> QED
    <3>1. \A p \in DOMAIN tree' : p \in DOMAIN tree \/ (p = group /\ kept)
      BY <2>0, <2>o, <1>5, <1>12
    <3> QED
      BY <2>5, <2>6, <3>1 DEF Chains
<1> QED
  BY <1>a, <1>b, <1>c, <1>d, <1>e, <1>f
-----------------------------------------------------------------------------
(* The end of a case.                                                      *)

(* The one field of a panic.                                               *)
LEMMA OneField ==
  ASSUME NEW t, NEW n \in Nat, n > 0, DOMAIN t = {<< 1 >>}, t[<< 1 >>] = <<0, n - 1>>
  PROVE  TilesPacket(t, n) /\ ChildrenWithin(t) /\ ChildrenMeet(t)
<1>1. \A p \in DOMAIN t : p = << 1 >> /\ Len(p) = 1
  OBVIOUS
<1>2. \A b \in 0 .. n - 1 : Covers(t[<< 1 >>], b)
  BY DEF Covers
<1>3. TilesPacket(t, n)
  BY <1>1, <1>2 DEF TilesPacket
<1>4. \A p \in DOMAIN t : ~(Len(p) > 1)
  BY <1>1
<1> QED
  BY <1>3, <1>4 DEF ChildrenWithin, ChildrenMeet

LEMMA PanicInv == ASSUME frame \in Frames, Panic PROVE DoneInv'
<1>1. Len(raw) \in Nat /\ Len(raw) > 0 /\ Len(raw)' = Len(raw)
  BY FrameLength DEF raw, Panic
<1>2. DOMAIN tree' = {<< 1 >>} /\ tree'[<< 1 >>] = <<0, Len(raw) - 1>>
  BY DEF Panic, ByteRange
<1>3. TilesPacket(tree', Len(raw)) /\ ChildrenWithin(tree') /\ ChildrenMeet(tree')
  BY <1>1, <1>2, OneField
<1>4. \A p \in DOMAIN tree' :
        /\ tree'[p] \in Int \X Int /\ 0 <= tree'[p][1]
        /\ tree'[p][1] <= tree'[p][2] + 1 /\ tree'[p][2] < Len(raw)
  <2> SUFFICES tree'[<< 1 >>] \in Int \X Int /\ 0 - 1 < Len(raw) - 1
    BY <1>1, <1>2
  <2> QED
    BY <1>1, <1>2
<1> QED
  BY <1>1, <1>3, <1>4 DEF DoneInv, TilesPacket, ChildrenWithin, ChildrenMeet

LEMMA FinishInv ==
  ASSUME ReadingInv, frame \in Frames, pos \in 0 .. Len(raw), Finish
  PROVE  DoneInv'
<1> USE DEF ReadingInv
<1>1. /\ Len(raw) \in Nat /\ Len(raw)' = Len(raw) /\ pos \in Nat /\ pos <= Len(raw)
      /\ Depth = 1 /\ Len(path) = 1
  BY FrameLength DEF raw, Finish, Depth
<1>2. Tiled(tree, pos)
  BY <1>1 DEF TopTiles, EndOf
<1>3. path \notin DOMAIN tree
  BY PathIsNew
<1>4. \A p \in DOMAIN tree :
        /\ tree[p] \in Int \X Int /\ 0 <= tree[p][1]
        /\ tree[p][1] <= tree[p][2] + 1 /\ tree[p][2] < Len(raw)
  BY <1>1 DEF TreeOK
<1>5. \A p \in DOMAIN tree : Len(p) > 1 /\ Nonempty(p) =>
        /\ Parent(p) \in DOMAIN tree
        /\ tree[Parent(p)][1] <= tree[p][1] /\ tree[p][2] <= tree[Parent(p)][2]
  <2>1. \A p \in DOMAIN tree : Len(p) \in Nat
    BY DEF TreeOK, Paths
  <2> QED
    BY <1>1, <2>1 DEF Within, Enclosed
<1>8. ChildrenMeet(tree)
  <2> SUFFICES ASSUME NEW p \in DOMAIN tree, Len(p) > 1
               PROVE  /\ p[Len(p)] = 1 => tree[p][1] = tree[Parent(p)][1]
                      /\ tree[p][2] = IF Sibling(p) \in DOMAIN tree THEN tree[Sibling(p)][1] - 1
                                      ELSE tree[Parent(p)][2]
    BY DEF ChildrenMeet
  <2>1. Chained(p) /\ ~InOpen(p)
    BY <1>1 DEF Chains, InOpen, TreeOK, Paths
  <2> QED
    BY <2>1 DEF Chained, StartsGroup, EndsGroup
<1>6. CASE Remaining = 0
  <2>1. tree' = tree /\ pos = Len(raw)
    BY <1>1, <1>6 DEF Finish, Trailing, Remaining
  <2>2. TilesPacket(tree, Len(raw))
    BY <1>2, <2>1 DEF Tiled, TopFields, TilesPacket
  <2>3. ChildrenWithin(tree)
    BY <1>4, <1>5 DEF ChildrenWithin, isEmptyRange, Covers, Nonempty, Parent
  <2> QED
    BY <1>1, <1>4, <1>8, <2>1, <2>2, <2>3 DEF DoneInv, TilesPacket, ChildrenWithin, ChildrenMeet
<1>7. CASE Remaining # 0
  <2>1. tree' = Annotated(path, <<pos, Len(raw) - 1>>)
    BY <1>7 DEF Finish, Trailing, ByteRange
  <2>2. /\ DOMAIN tree' = DOMAIN tree \cup {path}
        /\ tree'[path] = <<pos, Len(raw) - 1>>
        /\ \A q \in DOMAIN tree : q # path /\ tree'[q] = tree[q]
    BY <1>3, <2>1, AnnotatedTree
  <2>3. Tiled(tree', Len(raw))
    <3>1. \A q \in DOMAIN tree : tree[q] \in Int \X Int
      BY <1>4
    <3> QED
      BY <1>1, <1>2, <1>3, <2>2, <3>1, OneMore
  <2>4. TilesPacket(tree', Len(raw))
    BY <2>3 DEF Tiled, TopFields, TilesPacket
  <2>5. ChildrenWithin(tree')
    <3> SUFFICES ASSUME NEW p \in DOMAIN tree', ~isEmptyRange(tree'[p]), Len(p) > 1
                 PROVE  /\ Covers(tree'[Parent(p)], tree'[p][1])
                        /\ Covers(tree'[Parent(p)], tree'[p][2])
      BY DEF ChildrenWithin, Parent
    <3>1. p \in DOMAIN tree /\ tree'[p] = tree[p]
      <4>1. Len(path) = 1
        BY <1>1
      <4>2. ASSUME p = path PROVE FALSE
        <5>1. Len(p) = 1
          BY <4>1, <4>2
        <5> QED
          BY <5>1
      <4> QED
        BY <2>2, <4>2
    <3>2. Nonempty(p)
      BY <1>4, <3>1 DEF isEmptyRange, Nonempty
    <3>3. tree'[Parent(p)] = tree[Parent(p)] /\ Parent(p) \in DOMAIN tree
      BY <1>5, <2>2, <3>1, <3>2
    <3> QED
      BY <1>4, <1>5, <3>1, <3>2, <3>3 DEF Nonempty, Covers
  <2>6. \A p \in DOMAIN tree' :
          /\ tree'[p] \in Int \X Int /\ 0 <= tree'[p][1]
          /\ tree'[p][1] <= tree'[p][2] + 1 /\ tree'[p][2] < Len(raw)
    <3> SUFFICES ASSUME NEW p \in DOMAIN tree'
                 PROVE  /\ tree'[p] \in Int \X Int /\ 0 <= tree'[p][1]
                        /\ tree'[p][1] <= tree'[p][2] + 1 /\ tree'[p][2] < Len(raw)
      OBVIOUS
    <3>1. CASE p = path
      <4>1. tree'[p] = <<pos, Len(raw) - 1>>
        BY <2>2, <3>1
      <4> QED
        BY <1>1, <4>1
    <3>2. CASE p \in DOMAIN tree
      <4>1. tree'[p] = tree[p]
        BY <2>2, <3>2
      <4> QED
        BY <1>4, <3>2, <4>1
    <3> QED
      BY <2>2, <3>1, <3>2
  <2>7. ChildrenMeet(tree')
    <3> SUFFICES ASSUME NEW p \in DOMAIN tree', Len(p) > 1
                 PROVE  /\ p[Len(p)] = 1 => tree'[p][1] = tree'[Parent(p)][1]
                        /\ tree'[p][2] = IF Sibling(p) \in DOMAIN tree' THEN tree'[Sibling(p)][1] - 1
                                         ELSE tree'[Parent(p)][2]
      BY DEF ChildrenMeet
    <3>1. p \in DOMAIN tree /\ p \in Paths /\ Len(p) \in Nat
      <4>1. ASSUME p = path PROVE FALSE
        <5>1. Len(p) = 1
          BY <1>1, <4>1
        <5> QED
          BY <5>1
      <4> QED
        BY <2>2, <4>1 DEF TreeOK, Paths
    <3>2. Sibling(p) # path /\ Len(Sibling(p)) = Len(p)
      BY <1>1, <3>1, SiblingOf
    <3>3. Sibling(p) \in DOMAIN tree' <=> Sibling(p) \in DOMAIN tree
      BY <2>2, <3>2
    <3>4. Sibling(p) \notin DOMAIN tree \/ p[Len(p)] = 1 => Parent(p) \in DOMAIN tree
      <4>1. Chained(p) /\ ~InOpen(p)
        BY <1>1, <3>1 DEF Chains, InOpen
      <4> QED
        BY <4>1 DEF Chained, StartsGroup, EndsGroup
    <3> QED
      BY <1>8, <2>2, <3>1, <3>3, <3>4 DEF ChildrenMeet
  <2> QED
    BY <1>1, <2>4, <2>5, <2>6, <2>7 DEF DoneInv, TilesPacket, ChildrenWithin, ChildrenMeet
<1> QED
  BY <1>6, <1>7
-----------------------------------------------------------------------------
(* Every step.                                                             *)

LEMMA StillReading ==
  ASSUME phase' = "reading", frame' \in Frames, ReadingInv', pos' \in 0 .. Len(raw')
  PROVE  Inv'
<1>1. path' \in Paths /\ starts' \in Seq(0 .. pos') /\ Len(starts') = Len(path')
  BY DEF ReadingInv, GroupsOK, Depth
<1> QED
  BY <1>1 DEF Inv, Finished, raw

LEMMA EmitStep ==
  ASSUME Inv, phase = "reading", NEW w, NEW reads, Fits(w), Emit(w, reads)
  PROVE  Inv'
<1>1. frame \in Frames /\ pos \in 0 .. Len(raw) /\ ReadingInv
  BY DEF Inv
<1>2. Len(raw) \in Nat
  BY <1>1, FrameLength DEF raw
<1>3. pos \in Nat /\ w \in Nat /\ pos + w \in 0 .. Len(raw)
  BY <1>1, <1>2 DEF Fits, Remaining
<1>4. phase' = "reading" /\ frame' = frame /\ pos' = pos + w /\ raw' = raw
  BY DEF Emit, raw
<1>5. ReadingInv'
  BY <1>1, <1>3, EmitInv
<1> QED
  BY <1>1, <1>3, <1>4, <1>5, StillReading

LEMMA Starting ==
  ASSUME phase' = "reading", frame' \in Frames, NEW reads, Begin(reads)
  PROVE  Inv'
<1>1. Len(raw') \in Nat
  BY FrameLength DEF raw
<1>2. pos' \in 0 .. Len(raw')
  BY <1>1 DEF Begin
<1>3. ReadingInv'
  BY BeginInv
<1> QED
  BY <1>2, <1>3, StillReading

LEMMA InitInv == ASSUME Init PROVE Inv
  BY DEF Init, Inv, Finished

LEMMA StepInv == ASSUME Inv, [Next]_vars PROVE Inv'
<1>1. phase = "reading" => frame \in Frames /\ pos \in 0 .. Len(raw) /\ pos \in Nat /\ ReadingInv
  <2>1. \A f \in Frames : Len(f.raw) \in Nat
    BY FrameLength
  <2> QED
    BY <2>1 DEF Inv, raw
<1>2. ASSUME phase = "idle", NEW f \in Frames, Decode(f) PROVE Inv'
  <2>1. PICK reads \in MayRead(f) : Begin(reads)
    BY <1>2 DEF Decode
  <2>2. phase' = "reading" /\ frame' = f
    BY <1>2 DEF Decode
  <2> QED
    BY <2>1, <2>2, Starting
<1>3. CASE Field
  BY <1>3, EmitStep DEF Field, Reading
<1>4. CASE Count
  BY <1>4, EmitStep DEF Count, Reading
<1>5. CASE DataLength
  BY <1>5, EmitStep DEF DataLength, Reading
<1>6. CASE Refuse
  <2>1. phase' = "reading" /\ frame' \in Frames /\ Begin(UnknownReads(frame))
    BY <1>1, <1>6 DEF Refuse, Reading
  <2> QED
    BY <2>1, Starting
<1>7. CASE Loop
  <2>1. phase = "reading" /\ UNCHANGED <<frame, phase, pos, starts, path, tree>> /\ raw' = raw
    BY <1>7 DEF Loop, Reading, raw
  <2>2. ReadingInv'
    BY <1>1, <2>1, SameFields
  <2> QED
    BY <1>1, <2>1, <2>2, StillReading
<1>8. CASE OpenGroup
  <2>1. phase = "reading" /\ UNCHANGED <<frame, phase, pos>> /\ raw' = raw
    BY <1>8 DEF OpenGroup, Reading, raw
  <2>2. ReadingInv'
    BY <1>1, <1>8, <2>1, OpenGroupInv
  <2> QED
    BY <1>1, <2>1, <2>2, StillReading
<1>9. CASE CloseGroup
  <2>1. phase = "reading" /\ UNCHANGED <<frame, phase, pos>> /\ raw' = raw
    BY <1>9 DEF CloseGroup, CaseOver, raw
  <2>2. ReadingInv'
    BY <1>1, <1>9, <2>1, CloseGroupInv
  <2> QED
    BY <1>1, <2>1, <2>2, StillReading
<1>10. CASE Panic
  <2>1. phase = "reading" /\ phase' = "panicked" /\ raw' = raw
        /\ UNCHANGED <<frame, pos, starts, path>>
    BY <1>10 DEF Panic, Reading, groups, raw
  <2>2. path \in Paths /\ starts \in Seq(0 .. pos) /\ Len(starts) = Len(path)
    BY <2>1 DEF Inv
  <2>3. DoneInv'
    BY <1>1, <1>10, <2>1, PanicInv
  <2> QED
    BY <1>1, <2>1, <2>2, <2>3 DEF Inv, Finished
<1>11. CASE Finish
  <2>1. phase = "reading" /\ phase' = "done" /\ raw' = raw
        /\ UNCHANGED <<frame, starts, path>>
    BY <1>11 DEF Finish, CaseOver, groups, raw
  <2>2. pos' \in 0 .. Len(raw) /\ pos \in Nat /\ pos' \in Nat /\ pos <= pos'
    <3>1. Len(raw) \in Nat
      BY <1>1, <2>1, FrameLength DEF raw
    <3> QED
      BY <1>1, <1>11, <2>1, <3>1 DEF Finish, Trailing
  <2>3. path \in Paths /\ starts \in Seq(0 .. pos') /\ Len(starts) = Len(path)
    <3>1. GroupsOK
      BY <1>1, <2>1 DEF ReadingInv
    <3>2. starts \in Seq(Nat) /\ \A k \in 1 .. Len(starts) : starts[k] <= pos'
      BY <2>2, <3>1, StartsAre DEF GroupsOK
    <3> QED
      BY <2>2, <3>1, <3>2, StartsUpTo DEF GroupsOK, Depth
  <2>4. DoneInv'
    BY <1>1, <1>11, <2>1, FinishInv
  <2> QED
    BY <1>1, <2>1, <2>2, <2>3, <2>4 DEF Inv, Finished
<1>12. CASE Return
  BY <1>12 DEF Return, Inv, Finished
<1>13. CASE UNCHANGED vars
  <2>1. UNCHANGED <<frame, phase, pos, starts, path, tree>> /\ raw' = raw
    BY <1>13 DEF vars, groups, raw
  <2>2. phase = "reading" => ReadingInv'
    BY <1>1, <2>1, SameFields
  <2>3. DoneInv => DoneInv'
    BY <2>1 DEF DoneInv, TilesPacket, ChildrenWithin, ChildrenMeet
  <2> QED
    BY <2>1, <2>2, <2>3 DEF Inv, Finished
<1> QED
  BY <1>2, <1>3, <1>4, <1>5, <1>6, <1>7, <1>8, <1>9, <1>10, <1>11, <1>12, <1>13 DEF Next

LEMMA InvType == ASSUME Inv PROVE TypeOK
<1>1. CASE phase = "idle"
  BY <1>1 DEF Inv, TypeOK, NoFrame, NoFields, raw
<1>2. CASE phase # "idle"
  <2>1. /\ frame \in Frames /\ pos \in 0 .. Len(raw)
        /\ path \in Paths /\ starts \in Seq(0 .. pos) /\ Len(starts) = Len(path)
    BY <1>2 DEF Inv
  <2>2. Len(raw) \in Nat
    BY <2>1, FrameLength DEF raw
  <2>3. \A p \in DOMAIN tree :
          /\ tree[p] \in Int \X Int /\ 0 <= tree[p][1]
          /\ tree[p][1] <= tree[p][2] + 1 /\ tree[p][2] < Len(raw)
    <3>1. CASE phase = "reading"
      BY <2>1, <2>2, <3>1 DEF Inv, ReadingInv, TreeOK
    <3>2. CASE Finished
      BY <3>2 DEF Inv, DoneInv
    <3> QED
      BY <1>2, <3>1, <3>2 DEF Inv, Finished
  <2>4. \A p \in DOMAIN tree :
          tree[p][1] \in 0 .. Len(raw) /\ tree[p][2] \in tree[p][1] - 1 .. Len(raw) - 1
    BY <2>2, <2>3
  <2> QED
    BY <2>1, <2>4 DEF Inv, TypeOK, Paths
<1> QED
  BY <1>1, <1>2

(* The state of annotateFields is well typed at every step, whatever the   *)
(* frame: no range leaves it, and no group starts beyond what is explained. *)
THEOREM AnnotateType == Spec => []TypeOK
<1>1. Init => Inv
  BY InitInv
<1>2. Inv /\ [Next]_vars => Inv'
  BY StepInv
<1>3. Inv => TypeOK
  BY InvType
<1> QED
  BY <1>1, <1>2, <1>3, PTL DEF Spec

(* What Decode returns tiles the packet and nests, whatever the frame: the *)
(* assumption about field trees that Explorer and the hex dump rest on.    *)
THEOREM AnnotatedRangesTile == Spec => []RangesTile
<1>1. Init => Inv
  BY InitInv
<1>2. Inv /\ [Next]_vars => Inv'
  BY StepInv
<1>3. Inv => RangesTile
  BY DEF Inv, DoneInv, RangesTile
<1> QED
  BY <1>1, <1>2, <1>3, PTL DEF Spec

(* The children of a field explain it without a gap or an overlap, from    *)
(* its first byte to its last.                                             *)
THEOREM ChildrenAlwaysTile == Spec => []ChildrenTile
<1>1. Init => Inv
  BY InitInv
<1>2. Inv /\ [Next]_vars => Inv'
  BY StepInv
<1>3. Inv => ChildrenTile
  BY DEF Inv, DoneInv, ChildrenMeet, ChildrenTile
<1> QED
  BY <1>1, <1>2, <1>3, PTL DEF Spec

-----------------------------------------------------------------------------
(* What Decode returns is a tree: what the explorer's lookups assume.      *)

SameGroup(p, q) == Len(p) = Len(q) /\ \A i \in 1 .. Len(p) - 1 : p[i] = q[i]
Earlier(p)      == {[p EXCEPT ![Len(p)] = i] : i \in 1 .. p[Len(p)] - 1}

(* The paths of the open groups and of their next fields: a field may lie  *)
(* in a group that is open, the fields of each are numbered up to the next *)
(* one, and end where that one will start.                                 *)
NextPaths == Above(path) \cup {path}
Rooted    == \A p \in DOMAIN tree : Above(p) \subseteq DOMAIN tree \cup Above(path)
Numbered  == \A p \in DOMAIN tree \cup NextPaths : Earlier(p) \subseteq DOMAIN tree
Ended     == \A a \in NextPaths : \A q \in DOMAIN tree : SameGroup(a, q) => tree[q][2] < EndOf(Len(a))

Growing == IsFiniteSet(DOMAIN tree) /\ Rooted /\ Numbered /\ Ended /\ SiblingsApart(tree)

FieldsAreTree == Finished => IsTree(tree) /\ SiblingsApart(tree)

(* The paths around a path.                                                *)
LEMMA SamePrefix ==
  ASSUME NEW s \in Paths, NEW p \in Paths, NEW k \in Nat, k <= Len(s), k <= Len(p),
         \A j \in 1 .. k : s[j] = p[j]
  PROVE  SubSeq(s, 1, k) = SubSeq(p, 1, k)
<1> DEFINE a == SubSeq(s, 1, k)
           b == SubSeq(p, 1, k)
<1>1. a \in Paths /\ Len(a) = k /\ \A j \in 1 .. k : a[j] = s[j]
  BY DEF Paths
<1>2. b \in Paths /\ Len(b) = k /\ \A j \in 1 .. k : b[j] = p[j]
  BY DEF Paths
<1> HIDE DEF a, b
<1>3. a = b
  BY <1>1, <1>2, SeqEqual DEF Paths
<1> QED
  BY <1>3 DEF a, b

LEMMA SiblingPaths ==
  ASSUME NEW p \in Paths, Len(p) > 0
  PROVE  /\ Sibling(p) \in Paths /\ Len(Sibling(p)) = Len(p)
         /\ Above(Sibling(p)) = Above(p)
         /\ Earlier(Sibling(p)) = Earlier(p) \cup {p}
<1> DEFINE s == Sibling(p)
           n == Len(p)
<1>1. /\ s \in Paths /\ Len(s) = n /\ s[n] = p[n] + 1 /\ p[n] \in Nat
      /\ \A j \in 1 .. n - 1 : s[j] = p[j]
      /\ s = [p EXCEPT ![n] = p[n] + 1]
  BY SiblingOf DEF Sibling
<1>2. n \in Nat /\ n > 0 /\ p \in [1 .. n -> Nat \ {0}]
  BY DEF Paths
<1> HIDE DEF s
<1>3. ASSUME NEW k \in 1 .. n - 1 PROVE SubSeq(s, 1, k) = SubSeq(p, 1, k)
  <2>1. k \in Nat /\ k <= n /\ \A j \in 1 .. k : j \in 1 .. n - 1
    BY <1>2
  <2>2. \A j \in 1 .. k : s[j] = p[j]
    BY <1>1, <2>1
  <2> QED
    BY <1>1, <2>1, <2>2, SamePrefix DEF n
<1>4. \A i : [s EXCEPT ![n] = i] = [p EXCEPT ![n] = i]
  BY <1>1
<1>5. [p EXCEPT ![n] = p[n]] = p
  BY <1>2
<1>6. 1 .. s[n] - 1 = (1 .. p[n] - 1) \cup {p[n]}
  <2> DEFINE m == p[n]
  <2>1. m \in Nat \ {0}
    BY <1>2
  <2> HIDE DEF m
  <2>2. 1 .. (m + 1) - 1 = (1 .. m - 1) \cup {m}
    BY <2>1
  <2> QED
    BY <1>1, <2>2 DEF m
<1>7. Above(s) = Above(p)
  BY <1>1, <1>3 DEF Above
<1>8. Earlier(s) = Earlier(p) \cup {p}
  <2>1. Earlier(s) = {[p EXCEPT ![n] = i] : i \in 1 .. s[n] - 1}
    BY <1>1, <1>4 DEF Earlier
  <2>2. Earlier(s) = {[p EXCEPT ![n] = i] : i \in (1 .. p[n] - 1) \cup {p[n]}}
    BY <1>6, <2>1
  <2> DEFINE before == 1 .. p[n] - 1
  <2>3. Earlier(p) = {[p EXCEPT ![n] = i] : i \in before}
    BY DEF Earlier
  <2> HIDE DEF before, n
  <2> QED
    BY <1>5, <2>2, <2>3 DEF before
<1> QED
  BY <1>1, <1>7, <1>8 DEF s

LEMMA FirstChild ==
  ASSUME NEW p \in Paths, Len(p) > 0
  PROVE  Above(Append(p, 1)) = Above(p) \cup {p} /\ Earlier(Append(p, 1)) = {}
<1> DEFINE q == Append(p, 1)
           n == Len(p)
<1>1. n \in Nat /\ n > 0 /\ Len(q) = n + 1 /\ q[n + 1] = 1
  BY DEF Paths
<1>2. \A k \in 1 .. n - 1 : SubSeq(q, 1, k) = SubSeq(p, 1, k)
  BY DEF Paths
<1>3. SubSeq(q, 1, n) = p
  BY DEF Paths
<1> HIDE DEF q, n
<1>4. 1 .. Len(q) - 1 = (1 .. n - 1) \cup {n}
  BY <1>1
<1>5. Above(q) = Above(p) \cup {p}
  BY <1>2, <1>3, <1>4 DEF Above, n
<1>6. 1 .. q[Len(q)] - 1 = {}
  BY <1>1
<1>7. Earlier(q) = {}
  BY <1>6 DEF Earlier
<1> QED
  BY <1>5, <1>7 DEF q

LEMMA GroupsPath ==
  ASSUME NEW p \in Paths, Len(p) > 1
  PROVE  /\ Parent(p) \in Paths /\ Len(Parent(p)) = Len(p) - 1
         /\ \A j \in 1 .. Len(p) - 1 : Parent(p)[j] = p[j]
         /\ Above(p) = Above(Parent(p)) \cup {Parent(p)}
<1> DEFINE o == Parent(p)
           n == Len(p)
<1>1. n \in Nat /\ n > 1 /\ o \in Paths /\ Len(o) = n - 1 /\ \A j \in 1 .. n - 1 : o[j] = p[j]
  BY DEF Paths, Parent
<1>2. \A k \in 1 .. n - 2 : SubSeq(o, 1, k) = SubSeq(p, 1, k)
  <2>1. \A k \in 1 .. n - 2 : k <= n - 1 /\ k \in Nat
    BY <1>1
  <2> QED
    BY <1>1, <2>1 DEF Paths
<1>3. SubSeq(p, 1, n - 1) = o
  BY DEF Parent
<1> HIDE DEF o, n
<1>4. 1 .. n - 1 = (1 .. Len(o) - 1) \cup {n - 1} /\ Len(o) - 1 = n - 2
  BY <1>1
<1>5. Above(p) = Above(o) \cup {o}
  BY <1>2, <1>3, <1>4 DEF Above, n
<1> QED
  BY <1>1, <1>5 DEF o, n

LEMMA AboveIsShorter ==
  ASSUME NEW p \in Paths, NEW a \in Above(p)
  PROVE  Len(a) \in 1 .. Len(p) - 1 /\ \A j \in 1 .. Len(a) : a[j] = p[j]
<1>1. PICK k \in 1 .. Len(p) - 1 : a = SubSeq(p, 1, k)
  BY DEF Above
<1>2. Len(p) \in Nat /\ k \in Nat /\ k <= Len(p)
  BY DEF Paths
<1>3. Len(a) = k /\ \A j \in 1 .. k : a[j] = p[j]
  BY <1>1, <1>2 DEF Paths
<1> QED
  BY <1>3

(* A field that begins where those before it in its group have ended.      *)
LEMMA OneMoreSibling ==
  ASSUME NEW t, NEW u, NEW p, IsFiniteSet(DOMAIN t), SiblingsApart(t),
         DOMAIN u = DOMAIN t \cup {p}, \A q \in DOMAIN t : u[q] = t[q],
         \A q \in DOMAIN t : SameGroup(p, q) => t[q][2] < u[p][1]
  PROVE  IsFiniteSet(DOMAIN u) /\ SiblingsApart(u)
<1>1. IsFiniteSet(DOMAIN u)
  BY FS_AddElement
<1>2. ASSUME NEW q \in DOMAIN u, NEW r \in DOMAIN u, q # r, Len(q) = Len(r),
             \A i \in 1 .. Len(q) - 1 : q[i] = r[i]
      PROVE  u[q][2] < u[r][1] \/ u[r][2] < u[q][1] \/ isEmptyRange(u[q]) \/ isEmptyRange(u[r])
  <2>1. CASE q = p
    BY <1>2, <2>1 DEF SameGroup
  <2>2. CASE r = p
    BY <1>2, <2>2 DEF SameGroup
  <2>3. CASE q # p /\ r # p
    BY <1>2, <2>3 DEF SiblingsApart
  <2> QED
    BY <2>1, <2>2, <2>3
<1> QED
  BY <1>1, <1>2 DEF SiblingsApart

LEMMA BeginGrows == ASSUME NEW reads, Begin(reads) PROVE Growing'
<1>1. tree' = NoFields /\ path' = << 1 >>
  BY DEF Begin
<1>2. DOMAIN tree' = {}
  BY <1>1 DEF NoFields
<1>3. Above(<< 1 >>) = {} /\ Earlier(<< 1 >>) = {}
  BY DEF Above, Earlier
<1> QED
  BY <1>1, <1>2, <1>3, FS_EmptySet
     DEF Growing, Rooted, Numbered, Ended, NextPaths, SiblingsApart

LEMMA OpenPaths ==
  ASSUME GroupsOK, NEW a \in Above(path)
  PROVE  Len(a) \in 1 .. Depth - 1 /\ Depth \in Nat
<1>1. path \in Paths /\ Depth = Len(path) /\ Depth \in Nat
  BY DEF GroupsOK, Depth, Paths
<1> QED
  BY <1>1, AboveIsShorter

LEMMA EmitGrows ==
  ASSUME ReadingInv, Growing, pos \in Nat, NEW w \in Nat, NEW reads, Emit(w, reads), ReadingInv'
  PROVE  Growing'
<1>1. /\ GroupsOK /\ TreeOK /\ path \in Paths /\ Depth = Len(path) /\ Depth > 0
      /\ path \notin DOMAIN tree
  BY PathIsNew DEF ReadingInv, GroupsOK, Depth
<1>2. /\ path' = Sibling(path) /\ pos' = pos + w /\ starts' = starts
      /\ tree' = Annotated(path, <<pos, pos + w - 1>>)
  BY DEF Emit, Sibling, ByteRange, Depth
<1>3. /\ DOMAIN tree' = DOMAIN tree \cup {path} /\ tree'[path] = <<pos, pos + w - 1>>
      /\ \A q \in DOMAIN tree : q # path /\ tree'[q] = tree[q]
  BY <1>1, <1>2, AnnotatedTree
<1>4. /\ Len(path') = Len(path) /\ Above(path') = Above(path)
      /\ Earlier(path') = Earlier(path) \cup {path}
  BY <1>1, <1>2, SiblingPaths
<1>5. Depth' = Depth
  BY <1>4 DEF Depth
<1>6. IsFiniteSet(DOMAIN tree') /\ SiblingsApart(tree')
  <2>1. \A q \in DOMAIN tree : tree[q][2] < pos
    BY <1>1 DEF TreeOK
  <2> QED
    BY <1>3, <2>1, OneMoreSibling DEF Growing
<1>7. Rooted'
  BY <1>3, <1>4 DEF Growing, Rooted
<1>8. Numbered'
  BY <1>3, <1>4 DEF Growing, Numbered, NextPaths
<1>9. Ended'
  <2> SUFFICES ASSUME NEW a \in Above(path) \cup {path'}, NEW q \in DOMAIN tree', SameGroup(a, q)
               PROVE  tree'[q][2] < EndOf(Len(a))'
    BY <1>4 DEF Ended, NextPaths
  <2>1. CASE a = path'
    <3>1. EndOf(Len(a))' = pos'
      BY <2>1 DEF EndOf, Depth
    <3>2. tree'[q][2] < pos'
      BY DEF ReadingInv, TreeOK
    <3> QED
      BY <3>1, <3>2
  <2>2. CASE a \in Above(path)
    <3>1. Len(a) \in 1 .. Depth - 1 /\ Depth \in Nat
      BY <1>1, <2>2, OpenPaths
    <3>2. Len(a) # Depth
      BY <3>1
    <3>3. EndOf(Len(a))' = EndOf(Len(a))
      BY <1>2, <1>5, <3>2 DEF EndOf
    <3>4. q # path
      BY <1>1, <3>2 DEF SameGroup
    <3> QED
      BY <1>3, <2>2, <3>3, <3>4 DEF Growing, Ended, NextPaths
  <2> QED
    BY <2>1, <2>2
<1> QED
  BY <1>6, <1>7, <1>8, <1>9 DEF Growing, SiblingsApart

LEMMA OpenGroupGrows ==
  ASSUME ReadingInv, Growing, pos \in Nat, OpenGroup, ReadingInv'
  PROVE  Growing'
<1>1. /\ GroupsOK /\ path \in Paths /\ Depth = Len(path) /\ Depth \in Nat /\ Depth > 0
      /\ starts \in Seq(0 .. pos) /\ Len(starts) = Depth
  BY DEF ReadingInv, GroupsOK, Depth, Paths
<1>2. /\ path' = Append(path, 1) /\ tree' = tree /\ pos' = pos /\ starts' = Append(starts, pos)
  BY DEF OpenGroup
<1>3. Above(path') = Above(path) \cup {path} /\ Earlier(path') = {} /\ Len(path') = Depth + 1
  BY <1>1, <1>2, FirstChild DEF Paths
<1>4. Rooted' /\ Numbered'
  BY <1>2, <1>3 DEF Growing, Rooted, Numbered, NextPaths
<1>5. Ended'
  <2> SUFFICES ASSUME NEW a \in NextPaths \cup {path'}, NEW q \in DOMAIN tree, SameGroup(a, q)
               PROVE  tree[q][2] < EndOf(Len(a))'
    BY <1>2, <1>3 DEF Ended, NextPaths
  <2>1. CASE a = path'
    <3>1. EndOf(Len(a))' = pos
      BY <1>2, <2>1 DEF EndOf, Depth
    <3> QED
      BY <3>1 DEF ReadingInv, TreeOK
  <2>2. CASE a \in NextPaths
    <3>1. Len(a) \in 1 .. Depth
      BY <1>1, <2>2, OpenPaths DEF NextPaths
    <3>2. EndOf(Len(a))' = starts'[Len(a) + 1]
      BY <1>1, <1>3, <3>1 DEF EndOf, Depth
    <3>3. starts'[Len(a) + 1] = EndOf(Len(a))
      <4>1. CASE Len(a) = Depth
        BY <1>1, <1>2, <4>1 DEF EndOf
      <4>2. CASE Len(a) # Depth
        <5>1. Len(a) + 1 \in 1 .. Depth
          BY <1>1, <3>1, <4>2
        <5> QED
          BY <1>1, <1>2, <4>2, <5>1 DEF EndOf
      <4> QED
        BY <4>1, <4>2
    <3> QED
      BY <2>2, <3>2, <3>3 DEF Growing, Ended
  <2> QED
    BY <2>1, <2>2
<1> QED
  BY <1>2, <1>4, <1>5 DEF Growing, SiblingsApart

LEMMA CloseGroupGrows ==
  ASSUME ReadingInv, Growing, pos \in Nat, CloseGroup, ReadingInv'
  PROVE  Growing'
<1> DEFINE outer == Parent(path)
<1>1. /\ GroupsOK /\ TreeOK /\ path \in Paths /\ Depth = Len(path) /\ Depth \in Nat /\ Depth > 1
      /\ starts \in Seq(0 .. pos) /\ Len(starts) = Depth
  BY DEF ReadingInv, GroupsOK, Depth, Paths, CloseGroup
<1>2. /\ outer \in Paths /\ Len(outer) = Depth - 1
      /\ \A j \in 1 .. Depth - 1 : outer[j] = path[j]
      /\ Above(path) = Above(outer) \cup {outer}
  BY <1>1, GroupsPath
<1>3. /\ pos' = pos /\ starts' = SubSeq(starts, 1, Depth - 1)
      /\ \/ tree' = Annotated(outer, <<starts[Depth], pos - 1>>) /\ path' = Sibling(outer)
         \/ tree' = tree /\ path' = outer /\ ~(path[Depth] > 1)
  <2>1. SubSeq(path, 1, Depth - 1) = outer /\ [outer EXCEPT ![Depth - 1] = @ + 1] = Sibling(outer)
    BY <1>1, <1>2 DEF Parent, Sibling
  <2> QED
    BY <2>1 DEF CloseGroup, GroupStart, ByteRange
<1>4. \A k \in 1 .. Depth - 1 : starts'[k] = starts[k]
  BY <1>1, <1>3
<1> HIDE DEF outer
<1>5. ASSUME Above(path') = Above(outer), Len(path') = Depth - 1,
             NEW a \in Above(path') \cup {path'}, NEW q \in DOMAIN tree', SameGroup(a, q),
             (q \in DOMAIN tree /\ tree'[q] = tree[q]) \/ q = outer
      PROVE  tree'[q][2] < EndOf(Len(a))'
  <2>1. CASE a = path'
    <3>1. EndOf(Len(a))' = pos'
      BY <2>1 DEF EndOf, Depth
    <3>2. tree'[q][2] < pos'
      BY DEF ReadingInv, TreeOK
    <3> QED
      BY <3>1, <3>2
  <2>2. CASE a \in Above(outer)
    <3>1. Len(a) \in 1 .. Depth - 2
      <4>1. Len(a) \in 1 .. Len(outer) - 1
        BY <1>2, <2>2, AboveIsShorter
      <4> QED
        BY <1>1, <1>2, <4>1
    <3>2. Depth' = Depth - 1
      BY <1>5 DEF Depth
    <3>3. Len(a) + 1 \in 1 .. Depth - 1 /\ Len(a) # Depth - 1 /\ Len(a) # Depth
      BY <1>1, <3>1
    <3>4. EndOf(Len(a))' = EndOf(Len(a))
      BY <1>4, <3>2, <3>3 DEF EndOf
    <3>5. q # outer
      BY <1>2, <1>5, <3>3 DEF SameGroup
    <3>6. a \in NextPaths
      BY <1>2, <2>2 DEF NextPaths
    <3> QED
      BY <1>5, <3>4, <3>5, <3>6 DEF Growing, Ended
  <2> QED
    BY <1>5, <2>1, <2>2
<1>6. CASE tree' = Annotated(outer, <<starts[Depth], pos - 1>>) /\ path' = Sibling(outer)
  <2>1. outer \notin DOMAIN tree
    <3> SUFFICES ASSUME outer \in DOMAIN tree PROVE FALSE
      OBVIOUS
    <3>1. Depth - 1 \in 1 .. Depth /\ Depth - 1 <= Len(outer) /\ ~(Depth - 1 < Len(outer))
      BY <1>1, <1>2
    <3>2. \A j \in 1 .. (Depth - 1) - 1 : j \in 1 .. Depth - 1
      BY <1>1
    <3>3. Follows(outer, Depth - 1)
      BY <1>2, <3>2 DEF Follows
    <3>4. outer[Depth - 1] < path[Depth - 1]
      BY <3>1, <3>3 DEF ReadingInv, Fresh
    <3>5. Depth - 1 \in 1 .. Depth - 1 /\ path[Depth - 1] \in Nat
      BY <1>1 DEF Paths
    <3> QED
      BY <1>2, <3>4, <3>5
  <2>2. /\ DOMAIN tree' = DOMAIN tree \cup {outer} /\ tree'[outer] = <<starts[Depth], pos - 1>>
        /\ \A q \in DOMAIN tree : q # outer /\ tree'[q] = tree[q]
    BY <1>6, <2>1, AnnotatedTree
  <2>3. /\ Len(path') = Depth - 1 /\ Above(path') = Above(outer)
        /\ Earlier(path') = Earlier(outer) \cup {outer}
    BY <1>1, <1>2, <1>6, SiblingPaths
  <2>4. outer \in NextPaths
    BY <1>2 DEF NextPaths
  <2>5. IsFiniteSet(DOMAIN tree') /\ SiblingsApart(tree')
    <3>1. EndOf(Depth - 1) = starts[Depth]
      BY <1>1 DEF EndOf
    <3>2. \A q \in DOMAIN tree : SameGroup(outer, q) => tree[q][2] < starts[Depth]
      BY <1>2, <2>4, <3>1 DEF Growing, Ended
    <3> QED
      BY <2>2, <3>2, OneMoreSibling DEF Growing
  <2>6. Rooted'
    BY <1>2, <2>2, <2>3 DEF Growing, Rooted
  <2>7. Numbered'
    BY <1>2, <2>2, <2>3, <2>4 DEF Growing, Numbered, NextPaths
  <2>8. Ended'
    BY <1>5, <2>2, <2>3 DEF Ended, NextPaths
  <2> QED
    BY <2>5, <2>6, <2>7, <2>8 DEF Growing, SiblingsApart
<1>7. CASE tree' = tree /\ path' = outer /\ ~(path[Depth] > 1)
  <2>1. path[Depth] = 1
    <3>1. path[Depth] \in Nat \ {0}
      BY <1>1 DEF Paths
    <3> DEFINE n == path[Depth]
    <3> HIDE DEF n
    <3>2. n = 1
      BY <1>7, <3>1 DEF n
    <3> QED
      BY <3>2 DEF n
  <2>2. ASSUME NEW p \in DOMAIN tree PROVE outer \notin Above(p)
    <3> SUFFICES ASSUME outer \in Above(p) PROVE FALSE
      OBVIOUS
    <3>1. p \in Paths /\ Len(p) \in Nat
      BY <1>1 DEF TreeOK, Paths
    <3>2. Depth - 1 \in 1 .. Len(p) - 1 /\ \A j \in 1 .. Depth - 1 : p[j] = path[j]
      BY <1>2, <3>1, AboveIsShorter
    <3>3. Depth \in 1 .. Depth /\ Depth <= Len(p) /\ Depth \in 1 .. Len(p)
      BY <1>1, <3>1, <3>2
    <3>4. p[Depth] < path[Depth]
      BY <3>2, <3>3 DEF ReadingInv, Fresh, Follows
    <3>5. p[Depth] \in Nat \ {0}
      BY <3>1, <3>3 DEF Paths
    <3> QED
      BY <2>1, <3>4, <3>5
  <2>3. Rooted'
    BY <1>2, <1>7, <2>2 DEF Growing, Rooted
  <2>4. Numbered'
    BY <1>2, <1>7 DEF Growing, Numbered, NextPaths
  <2>5. Ended'
    BY <1>2, <1>5, <1>7 DEF Ended, NextPaths
  <2> QED
    BY <1>7, <2>3, <2>4, <2>5 DEF Growing, SiblingsApart
<1> QED
  BY <1>3, <1>6, <1>7

LEMMA GrownIsTree ==
  ASSUME NEW t, IsFiniteSet(DOMAIN t),
         \A p \in DOMAIN t :
           /\ p \in Paths /\ p # NoPath /\ t[p] \in Int \X Int
           /\ Above(p) \subseteq DOMAIN t /\ Earlier(p) \subseteq DOMAIN t
  PROVE  IsTree(t)
  BY DEF IsTree, Earlier, Paths

LEMMA PanicIsTree ==
  ASSUME frame \in Frames, Panic PROVE IsTree(tree') /\ SiblingsApart(tree')
<1>1. DOMAIN tree' = {<< 1 >>} /\ tree'[<< 1 >>] = <<0, Len(raw) - 1>>
  BY DEF Panic, ByteRange
<1>2. << 1 >> \in Paths /\ << 1 >> # NoPath /\ Above(<< 1 >>) = {} /\ Earlier(<< 1 >>) = {}
  BY DEF Paths, NoPath, Above, Earlier
<1>3. tree'[<< 1 >>] \in Int \X Int
  <2>1. Len(raw) \in Nat
    BY FrameLength DEF raw
  <2> QED
    BY <1>1, <2>1
<1>4. IsTree(tree')
  <2>1. IsFiniteSet(DOMAIN tree')
    BY <1>1, FS_Singleton
  <2>2. \A p \in DOMAIN tree' :
          /\ p \in Paths /\ p # NoPath /\ tree'[p] \in Int \X Int
          /\ Above(p) \subseteq DOMAIN tree' /\ Earlier(p) \subseteq DOMAIN tree'
    BY <1>1, <1>2, <1>3
  <2> QED
    BY <2>1, <2>2, GrownIsTree
<1>5. SiblingsApart(tree')
  BY <1>1 DEF SiblingsApart
<1> QED
  BY <1>4, <1>5

LEMMA FinishIsTree ==
  ASSUME ReadingInv, Growing, frame \in Frames, pos \in 0 .. Len(raw), Finish
  PROVE  IsTree(tree') /\ SiblingsApart(tree')
<1>1. /\ GroupsOK /\ TreeOK /\ path \in Paths /\ Len(path) = 1 /\ path # NoPath
      /\ path \notin DOMAIN tree /\ Len(raw) \in Nat /\ pos \in Nat
  BY PathIsNew, FrameLength DEF ReadingInv, GroupsOK, Depth, Finish, raw, NoPath
<1>2. Above(path) = {} /\ Earlier(path) \subseteq DOMAIN tree
  BY <1>1 DEF Above, Growing, Numbered, NextPaths
<1>3. \A p \in DOMAIN tree :
        /\ p \in Paths /\ p # NoPath /\ tree[p] \in Int \X Int
        /\ Above(p) \subseteq DOMAIN tree /\ Earlier(p) \subseteq DOMAIN tree
  BY <1>1, <1>2 DEF TreeOK, Growing, Rooted, Numbered, NoPath
<1>4. CASE tree' = tree
  BY <1>3, <1>4, GrownIsTree DEF Growing
<1>5. CASE tree' = Annotated(path, <<pos, Len(raw) - 1>>)
  <2>1. /\ DOMAIN tree' = DOMAIN tree \cup {path} /\ tree'[path] = <<pos, Len(raw) - 1>>
        /\ \A q \in DOMAIN tree : q # path /\ tree'[q] = tree[q]
    BY <1>1, <1>5, AnnotatedTree
  <2>2. \A q \in DOMAIN tree : tree[q][2] < pos
    BY <1>1 DEF TreeOK
  <2>3. IsFiniteSet(DOMAIN tree') /\ SiblingsApart(tree')
    BY <2>1, <2>2, OneMoreSibling DEF Growing
  <2>4. tree'[path] \in Int \X Int
    BY <1>1, <2>1
  <2>5. \A p \in DOMAIN tree' :
          /\ p \in Paths /\ p # NoPath /\ tree'[p] \in Int \X Int
          /\ Above(p) \subseteq DOMAIN tree' /\ Earlier(p) \subseteq DOMAIN tree'
    BY <1>1, <1>2, <1>3, <2>1, <2>4
  <2> QED
    BY <2>3, <2>5, GrownIsTree
<1> QED
  BY <1>4, <1>5 DEF Finish, Trailing, ByteRange

TreeInv ==
  /\ phase = "reading" => Growing
  /\ FieldsAreTree

LEMMA SameTree ==
  ASSUME TreeInv, UNCHANGED <<phase, pos, starts, path, tree>>
  PROVE  TreeInv'
<1>1. Depth' = Depth /\ \A k : EndOf(k)' = EndOf(k)
  BY DEF Depth, EndOf
<1>2. Ended => Ended'
  BY <1>1 DEF Ended, NextPaths
<1> QED
  BY <1>2 DEF TreeInv, Growing, Rooted, Numbered, NextPaths, FieldsAreTree, Finished,
              IsTree, SiblingsApart

LEMMA StepTreeInv == ASSUME Inv, TreeInv, [Next]_vars PROVE TreeInv'
<1>1. phase = "reading" =>
        frame \in Frames /\ pos \in 0 .. Len(raw) /\ pos \in Nat /\ ReadingInv /\ Growing
  <2>1. \A f \in Frames : Len(f.raw) \in Nat
    BY FrameLength
  <2> QED
    BY <2>1 DEF Inv, TreeInv, raw
<1>2. phase' = "reading" => ReadingInv'
  BY StepInv DEF Inv
<1>3. ASSUME phase' = "reading", NEW reads, Begin(reads) PROVE TreeInv'
  BY <1>3, BeginGrows DEF TreeInv, FieldsAreTree, Finished
<1>4. ASSUME phase = "reading", NEW w, NEW reads, Fits(w), Emit(w, reads) PROVE TreeInv'
  <2>1. phase' = "reading" /\ w \in Nat
    BY <1>4 DEF Emit, Fits
  <2> QED
    BY <1>1, <1>2, <1>4, <2>1, EmitGrows DEF TreeInv, FieldsAreTree, Finished
<1>5. CASE phase = "idle" /\ \E f \in Frames : Decode(f)
  BY <1>3, <1>5 DEF Decode
<1>6. CASE Field
  BY <1>4, <1>6 DEF Field, Reading
<1>7. CASE Count
  BY <1>4, <1>7 DEF Count, Reading
<1>8. CASE DataLength
  BY <1>4, <1>8 DEF DataLength, Reading
<1>9. CASE Refuse
  BY <1>3, <1>9 DEF Refuse, Reading
<1>10. CASE Loop
  BY <1>10, SameTree DEF Loop
<1>11. CASE OpenGroup
  <2>1. phase = "reading" /\ phase' = "reading"
    BY <1>11 DEF OpenGroup, Reading
  <2> QED
    BY <1>1, <1>2, <1>11, <2>1, OpenGroupGrows DEF TreeInv, FieldsAreTree, Finished
<1>12. CASE CloseGroup
  <2>1. phase = "reading" /\ phase' = "reading"
    BY <1>12 DEF CloseGroup, CaseOver
  <2> QED
    BY <1>1, <1>2, <1>12, <2>1, CloseGroupGrows DEF TreeInv, FieldsAreTree, Finished
<1>13. CASE Panic
  <2>1. phase = "reading" /\ phase' = "panicked"
    BY <1>13 DEF Panic, Reading
  <2> QED
    BY <1>1, <1>13, <2>1, PanicIsTree DEF TreeInv, FieldsAreTree, IsTree, SiblingsApart
<1>14. CASE Finish
  <2>1. phase = "reading" /\ phase' = "done"
    BY <1>14 DEF Finish, CaseOver
  <2> QED
    BY <1>1, <1>14, <2>1, FinishIsTree DEF TreeInv, FieldsAreTree, IsTree, SiblingsApart
<1>15. CASE Return
  BY <1>15 DEF Return, TreeInv, FieldsAreTree, Finished
<1>16. CASE UNCHANGED vars
  BY <1>16, SameTree DEF vars, groups
<1> QED
  BY <1>5, <1>6, <1>7, <1>8, <1>9, <1>10, <1>11, <1>12, <1>13, <1>14, <1>15, <1>16 DEF Next

(* What Decode returns is a tree whose fields are numbered without a gap   *)
(* and of which no two of one group share a byte: with RangesTile, all     *)
(* that Explorer's CapturesAssumption asks of a packet's fields.           *)
THEOREM AnnotatedFieldsAreTree == Spec => []FieldsAreTree
<1>1. Init => Inv /\ TreeInv
  BY InitInv DEF Init, TreeInv, FieldsAreTree, Finished
<1>2. Inv /\ TreeInv /\ [Next]_vars => (Inv /\ TreeInv)'
  BY StepInv, StepTreeInv
<1>3. TreeInv => FieldsAreTree
  BY DEF TreeInv
<1> QED
  BY <1>1, <1>2, <1>3, PTL DEF Spec

-----------------------------------------------------------------------------
(* The way of a packet through the file.                                   *)

(* Two digits for a byte.                                                  *)
LEMMA DigitsOf ==
  ASSUME NEW bytes \in Seq(0 .. 255)
  PROVE  /\ EncodeToString(bytes) \in Seq(Json!HexDigits)
         /\ Len(EncodeToString(bytes)) = 2 * Len(bytes)
         /\ Len(EncodeToString(bytes)) \div 2 = Len(bytes)
         /\ Len(EncodeToString(bytes)) % 2 = 0
<1> DEFINE n == Len(bytes)
           digit(i) == IF i % 2 = 1 THEN bytes[(i + 1) \div 2] \div 16 ELSE bytes[i \div 2] % 16
<1>1. n \in Nat /\ \A k \in 1 .. n : bytes[k] \in 0 .. 255
  <2>1. Len(bytes) \in Nat /\ bytes \in [1 .. Len(bytes) -> 0 .. 255]
    BY LenProperties
  <2> QED
    BY <2>1
<1> HIDE DEF n
<1>2. ASSUME NEW i \in 1 .. 2 * n PROVE digit(i) \in 0 .. 15
  <2>1. CASE i % 2 = 1
    <3>1. (i + 1) \div 2 \in 1 .. n
      BY <1>1, <2>1
    <3>2. bytes[(i + 1) \div 2] \in 0 .. 255
      BY <1>1, <3>1
    <3>3. \A b \in 0 .. 255 : b \div 16 \in 0 .. 15
      OBVIOUS
    <3> QED
      BY <2>1, <3>2, <3>3
  <2>2. CASE i % 2 # 1
    <3>1. i \div 2 \in 1 .. n
      BY <1>1, <2>2
    <3>2. bytes[i \div 2] \in 0 .. 255
      BY <1>1, <3>1
    <3>3. \A b \in 0 .. 255 : b % 16 \in 0 .. 15
      OBVIOUS
    <3> QED
      BY <2>2, <3>2, <3>3
  <2> QED
    BY <2>1, <2>2
<1>3. EncodeToString(bytes) = [i \in 1 .. 2 * n |-> digit(i)]
  BY DEF EncodeToString, n
<1> HIDE DEF digit
<1>4. 2 * n \in Nat /\ (2 * n) \div 2 = n /\ (2 * n) % 2 = 0
  BY <1>1
<1>5. EncodeToString(bytes) \in Seq(0 .. 15) /\ Len(EncodeToString(bytes)) = 2 * n
  BY <1>2, <1>3, <1>4
<1> QED
  BY <1>4, <1>5 DEF n, Json!HexDigits

(* Leaving members out changes no other.                                   *)
LEMMA OthersKept ==
  ASSUME NEW names, NEW members, NEW m \in DOMAIN members \ names
  PROVE  Json!Member(Json!Object(Json!Without(names, members)), m) = members[m]
BY DEF Json!Member, Json!Object, Json!Json, Json!Without

LEMMA LeftOut ==
  ASSUME NEW names, NEW members, NEW m \in names
  PROVE  Json!Member(Json!Object(Json!Without(names, members)), m) = Json!Missing
BY DEF Json!Member, Json!Object, Json!Json, Json!Without

(* What of a packet is in the file.                                        *)
EncodedFields(fields) ==
  Json!Array([path_ \in DOMAIN fields |->
    Json!Object([bytes |-> Json!Array([k \in 1 .. 2 |-> Json!Number(fields[path_][k])])])])
LEMMA EncodedMembers ==
  ASSUME NEW p
  PROVE  LET e == Json!encodePacket(p)
         IN  /\ Json!Is(e, "object")
             /\ Json!Member(e, "direction") = Json!Text(p.direction)
             /\ Json!Member(e, "length") = Json!Number(Len(p.raw_hex) \div 2)
             /\ Json!Member(e, "raw_hex") = Json!Text(p.raw_hex)
             /\ Json!Member(e, "type_name") = Json!Text(p.type_name)
             /\ Json!Member(e, "fields") =
                  IF p.fields = NoFields THEN Json!Missing ELSE EncodedFields(p.fields)
<1> DEFINE names == Json!OmitEmpty(p.type_char = "", "type_char") \cup Json!OmitEmpty(p.fields = NoFields, "fields")
           members == [ id |-> Json!Number(p.id), direction |-> Json!Text(p.direction),
              timestamp_ms |-> Json!Number(p.timestamp_ms), stream_offset |-> Json!Number(p.stream_offset),
              length |-> Json!Number(Len(p.raw_hex) \div 2), raw_hex |-> Json!Text(p.raw_hex),
              type_char |-> Json!Text(p.type_char), type_name |-> Json!Text(p.type_name),
              fields |-> EncodedFields(p.fields) ]
           e == Json!Object(Json!Without(names, members))
<1>1. Json!encodePacket(p) = e
  BY DEF Json!encodePacket, EncodedFields, Json!NoFields, NoFields
<1>2. /\ {"direction", "length", "raw_hex", "type_name"} \subseteq DOMAIN members \ names
      /\ "fields" \in DOMAIN members
      /\ "fields" \in names <=> p.fields = NoFields
  BY DEF Json!OmitEmpty
<1>3. /\ members["direction"] = Json!Text(p.direction)
      /\ members["length"] = Json!Number(Len(p.raw_hex) \div 2)
      /\ members["raw_hex"] = Json!Text(p.raw_hex)
      /\ members["type_name"] = Json!Text(p.type_name)
      /\ members["fields"] = EncodedFields(p.fields)
  OBVIOUS
<1> HIDE DEF names, members
<1>4. Json!Is(e, "object")
  BY DEF Json!Is, Json!Object, Json!Json
<1>5. \A m \in DOMAIN members \ names : Json!Member(e, m) = members[m]
  BY OthersKept
<1>6. p.fields = NoFields => Json!Member(e, "fields") = Json!Missing
  BY <1>2, LeftOut
<1> HIDE DEF e
<1> QED
  BY <1>1, <1>2, <1>3, <1>4, <1>5, <1>6

(* A field within its packet is read back.                                 *)
LEMMA FieldReadBack ==
  ASSUME NEW r \in Int \X Int, NEW n \in Nat,
         0 <= r[1], r[1] <= r[2] + 1, r[2] < n
  PROVE  LET f == Json!Object([bytes |-> Json!Array([k \in 1 .. 2 |-> Json!Number(r[k])])])
         IN  Json!validateField(f, n) = [ok |-> TRUE, value |-> r]
<1> DEFINE pair == [k \in 1 .. 2 |-> Json!Number(r[k])]
           f == Json!Object([bytes |-> Json!Array(pair)])
<1>1. Json!Is(f, "object") /\ Json!Member(f, "bytes") = Json!Array(pair)
  BY DEF Json!Is, Json!Member, Json!Object, Json!Json
<1>2. Json!Is(Json!Array(pair), "array") /\ Json!Array(pair).value = pair
  BY DEF Json!Is, Json!Array, Json!Json
<1>3. Len(pair) = 2 /\ pair[1] = Json!Number(r[1]) /\ pair[2] = Json!Number(r[2])
  OBVIOUS
<1>4. \A x, y : Json!num(Json!Number(x), y) = x
  BY DEF Json!num, Json!Number, Json!Is, Json!Json
<1>5. Json!num(pair[1], 0) = r[1] /\ Json!num(pair[2], -1) = r[2]
  BY <1>3, <1>4
<1>6. Json!RangeAllowed(r[1], r[2], n)
  BY DEF Json!RangeAllowed
<1>7. r = <<r[1], r[2]>>
  OBVIOUS
<1> HIDE DEF pair, f
<1>8. Json!validateField(f, n) = Json!Accept(<<r[1], r[2]>>)
  BY <1>1, <1>2, <1>3, <1>5, <1>6 DEF Json!validateField
<1> QED
  BY <1>7, <1>8 DEF Json!Accept, f, pair

LEMMA FieldsReadBack ==
  ASSUME NEW t, t = [p \in DOMAIN t |-> t[p]], NEW n \in Nat,
         \A p \in DOMAIN t : t[p] \in Int \X Int /\ 0 <= t[p][1] /\ t[p][1] <= t[p][2] + 1 /\ t[p][2] < n
  PROVE  Json!validateFields(IF t = NoFields THEN Json!Missing ELSE EncodedFields(t), n)
           = [ok |-> TRUE, value |-> t]
<1>1. CASE t = NoFields
  BY <1>1 DEF Json!validateFields, Json!Is, Json!Missing, Json!Json, Json!Accept, Json!NoFields, NoFields
<1>2. CASE t # NoFields
  <2> DEFINE field(p) == Json!Object([bytes |-> Json!Array([k \in 1 .. 2 |-> Json!Number(t[p][k])])])
             encoded == [p \in DOMAIN t |-> field(p)]
             results == [p \in DOMAIN encoded |-> Json!validateField(encoded[p], n)]
  <2>1. EncodedFields(t) = Json!Array(encoded)
    BY DEF EncodedFields
  <2>2. \A p \in DOMAIN t : Json!validateField(field(p), n) = [ok |-> TRUE, value |-> t[p]]
    BY FieldReadBack
  <2>3. DOMAIN encoded = DOMAIN t /\ \A p \in DOMAIN t : encoded[p] = field(p)
    OBVIOUS
  <2> HIDE DEF field, encoded
  <2>4. DOMAIN results = DOMAIN t /\ \A p \in DOMAIN t : results[p] = [ok |-> TRUE, value |-> t[p]]
    BY <2>2, <2>3
  <2>5. Json!Is(Json!Array(encoded), "array") /\ Json!Array(encoded).value = encoded
    BY DEF Json!Is, Json!Array, Json!Json
  <2>6. Json!validateFields(Json!Array(encoded), n) =
          IF \E p \in DOMAIN results : ~results[p].ok THEN Json!Refuse("field")
          ELSE Json!Accept([p \in DOMAIN results |-> results[p].value])
    BY <2>5 DEF Json!validateFields
  <2> HIDE DEF results
  <2>7. [p \in DOMAIN results |-> results[p].value] = [p \in DOMAIN t |-> t[p]]
    BY <2>4
  <2>8. ~\E p \in DOMAIN results : ~results[p].ok
    BY <2>4
  <2>9. Json!validateFields(Json!Array(encoded), n) = Json!Accept(t)
    BY <2>6, <2>7, <2>8
  <2> QED
    BY <1>2, <2>1, <2>9 DEF Json!Accept
<1> QED
  BY <1>1, <1>2

(* A packet whose digits are those of bytes and whose fields lie within    *)
(* them is accepted as it was.                                             *)
LEMMA PacketReadBack ==
  ASSUME NEW p, NEW n \in Nat,
         p.raw_hex \in Seq(Json!HexDigits), Len(p.raw_hex) = 2 * n,
         Len(p.raw_hex) \div 2 = n, Len(p.raw_hex) % 2 = 0,
         p.direction \in {"C2S", "S2C"},
         p.fields = [f \in DOMAIN p.fields |-> p.fields[f]],
         \A f \in DOMAIN p.fields :
           /\ p.fields[f] \in Int \X Int /\ 0 <= p.fields[f][1]
           /\ p.fields[f][1] <= p.fields[f][2] + 1 /\ p.fields[f][2] < n
  PROVE  LET read == Json!validatePacket(Json!encodePacket(p), 0)
         IN  /\ read.ok
             /\ read.value.fields = p.fields /\ read.value.length = n
             /\ read.value.raw_hex = p.raw_hex /\ read.value.type_name = p.type_name
<1> DEFINE e == Json!encodePacket(p)
           fields == Json!validateFields(Json!Member(e, "fields"), n)
<1>1. /\ Json!Is(e, "object")
      /\ Json!Member(e, "direction") = Json!Text(p.direction)
      /\ Json!Member(e, "length") = Json!Number(n)
      /\ Json!Member(e, "raw_hex") = Json!Text(p.raw_hex)
      /\ Json!Member(e, "type_name") = Json!Text(p.type_name)
  BY EncodedMembers
<1>2. /\ \A x, y : Json!num(Json!Number(x), y) = x
      /\ \A x, y : Json!str(Json!Text(x), y) = x
  BY DEF Json!num, Json!str, Json!Number, Json!Text, Json!Is, Json!Json
<1>3. fields = [ok |-> TRUE, value |-> p.fields]
  <2> DEFINE t == p.fields
  <2>1. Json!Member(e, "fields") = IF t = NoFields THEN Json!Missing ELSE EncodedFields(t)
    BY EncodedMembers
  <2>2. /\ t = [f \in DOMAIN t |-> t[f]]
        /\ \A f \in DOMAIN t : t[f] \in Int \X Int /\ 0 <= t[f][1] /\ t[f][1] <= t[f][2] + 1 /\ t[f][2] < n
    OBVIOUS
  <2> HIDE DEF e, t
  <2>3. fields = [ok |-> TRUE, value |-> t]
    BY <2>1, <2>2, FieldsReadBack
  <2> QED
    BY <2>3 DEF t
<1>4. \A k \in DOMAIN p.raw_hex : p.raw_hex[k] \in Json!HexDigits
  OBVIOUS
<1> HIDE DEF e, fields
<1>5. Json!validatePacket(e, 0) =
        Json!Accept(
          [ id |-> Json!IdOf(e, 0), direction |-> p.direction,
            timestamp_ms |-> Json!num(Json!Member(e, "timestamp_ms"), 0),
            stream_offset |-> Json!num(Json!Member(e, "stream_offset"), 0),
            length |-> n, raw_hex |-> p.raw_hex,
            type_char |-> Json!str(Json!Member(e, "type_char"), ""),
            type_name |-> p.type_name,
            fields |-> fields.value ])
  <2>1. /\ Json!str(Json!Member(e, "raw_hex"), <<>>) = p.raw_hex
        /\ Json!str(Json!Member(e, "direction"), "none") = p.direction
        /\ Json!str(Json!Member(e, "type_name"), "Unknown") = p.type_name
        /\ Json!num(Json!Member(e, "length"), n) = n
    BY <1>1, <1>2
  <2>2. fields.ok
    BY <1>3
  <2> QED
    BY <1>1, <1>4, <2>1, <2>2 DEF Json!validatePacket, fields
<1> DEFINE read == Json!validatePacket(e, 0)
           packet == [ id |-> Json!IdOf(e, 0), direction |-> p.direction,
            timestamp_ms |-> Json!num(Json!Member(e, "timestamp_ms"), 0),
            stream_offset |-> Json!num(Json!Member(e, "stream_offset"), 0),
            length |-> n, raw_hex |-> p.raw_hex,
            type_char |-> Json!str(Json!Member(e, "type_char"), ""),
            type_name |-> p.type_name,
            fields |-> fields.value ]
<1>6. /\ packet.fields = fields.value /\ packet.length = n
      /\ packet.raw_hex = p.raw_hex /\ packet.type_name = p.type_name
  OBVIOUS
<1>7. read = [ok |-> TRUE, value |-> packet]
  BY <1>5 DEF Json!Accept
<1> HIDE DEF packet, read
<1>8. read.ok /\ read.value = packet
  BY <1>7
<1>9. /\ read.value.fields = p.fields /\ read.value.length = n
      /\ read.value.raw_hex = p.raw_hex /\ read.value.type_name = p.type_name
  <2>1. fields.value = p.fields
    BY <1>3
  <2> QED
    BY <1>6, <1>8, <2>1
<1> QED
  BY <1>8, <1>9 DEF e, read

TreeIsFunction == tree = [p \in DOMAIN tree |-> tree[p]]

LEMMA FunctionAgain ==
  ASSUME TreeIsFunction, [Next]_vars PROVE TreeIsFunction'
<1>1. CASE UNCHANGED tree
  BY <1>1 DEF TreeIsFunction
<1>2. ASSUME NEW p, NEW range, tree' = Annotated(p, range) PROVE TreeIsFunction'
  <2> DEFINE S == DOMAIN tree \cup {p}
             at(q) == IF q = p THEN range ELSE tree[q]
  <2>1. tree' = [q \in S |-> at(q)]
    BY <1>2 DEF Annotated
  <2> HIDE DEF S, at
  <2> QED
    BY <2>1 DEF TreeIsFunction
<1>3. CASE tree' = NoFields
  BY <1>3 DEF TreeIsFunction, NoFields
<1>4. CASE Panic
  <2>1. tree' = [p \in {<< 1 >>} |-> ByteRange(0, Len(raw))]
    BY <1>4 DEF Panic
  <2> HIDE DEF ByteRange, raw
  <2> QED
    BY <2>1 DEF TreeIsFunction
<1>5. CASE CloseGroup \/ Finish
  BY <1>1, <1>2, <1>5 DEF CloseGroup, Finish, Trailing
<1>6. CASE (\E f \in Frames : Decode(f)) \/ Refuse \/ Return
  BY <1>3, <1>6 DEF Decode, Refuse, Begin, Return
<1>7. CASE Field \/ Count \/ DataLength
  BY <1>2, <1>7 DEF Field, Count, DataLength, Emit
<1>8. CASE Loop \/ OpenGroup
  BY <1>1, <1>8 DEF Loop, OpenGroup
<1> QED
  BY <1>1, <1>4, <1>5, <1>6, <1>7, <1>8 DEF Next, vars

(* Whatever Decode makes of a frame passes through the file: the explorer's *)
(* validation refuses no packet the recorder writes, and returns its digits *)
(* and fields as they were.                                                *)
THEOREM RecordedAlwaysAccepted == Spec => []RecordedIsAccepted
<1>1. Init => Inv /\ TreeIsFunction
  <2>1. Init => TreeIsFunction
    BY DEF Init, TreeIsFunction, NoFields
  <2> QED
    BY <2>1, InitInv
<1>2. Inv /\ TreeIsFunction /\ [Next]_vars => (Inv /\ TreeIsFunction)'
  BY StepInv, FunctionAgain
<1>3. Inv /\ TreeIsFunction => RecordedIsAccepted
  <2> SUFFICES ASSUME Inv, TreeIsFunction, Finished
               PROVE  LET read == Json!validatePacket(Json!encodePacket(Record), 0)
                      IN  /\ read.ok
                          /\ read.value.fields = tree
                          /\ read.value.length = Len(raw)
                          /\ read.value.raw_hex = Record.raw_hex
                          /\ read.value.type_name = Record.type_name
    BY DEF RecordedIsAccepted
  <2>1. DoneInv /\ raw \in Seq(0 .. 255)
    BY FramesAssumption DEF Inv, Finished, raw
  <2>2. Len(raw) \in Nat
    BY <2>1
  <2>3. /\ Record.raw_hex = EncodeToString(raw) /\ Record.direction = "C2S"
        /\ Record.fields = tree
    BY DEF Record
  <2> HIDE DEF Record, raw
  <2>4. /\ Record.raw_hex \in Seq(Json!HexDigits) /\ Len(Record.raw_hex) = 2 * Len(raw)
        /\ Len(Record.raw_hex) \div 2 = Len(raw) /\ Len(Record.raw_hex) % 2 = 0
    BY <2>1, <2>3, DigitsOf
  <2>5. Record.fields = [p \in DOMAIN Record.fields |-> Record.fields[p]]
    BY <2>3 DEF TreeIsFunction
  <2>6. \A f \in DOMAIN Record.fields :
          /\ Record.fields[f] \in Int \X Int /\ 0 <= Record.fields[f][1]
          /\ Record.fields[f][1] <= Record.fields[f][2] + 1 /\ Record.fields[f][2] < Len(raw)
    BY <2>1, <2>3 DEF DoneInv
  <2> QED
    BY <2>2, <2>3, <2>4, <2>5, <2>6, PacketReadBack
<1> QED
  BY <1>1, <1>2, <1>3, PTL DEF Spec

-----------------------------------------------------------------------------
(* How many fields a frame can have. Every byte read pays for three; the   *)
(* reads that may explain none are paid out of what is left over.          *)

(* What a case is made of: reads of one field, groups of such reads, loops *)
(* over one of either, counts of two bytes and groups of a loop.           *)
FlatReads  == [op : {"take"}, width : Nat] \cup {CString, Rest, Length}
FlatGroups == [op : {"group"}, body : Seq(FlatReads), keep : BOOLEAN]
Bodies     == {s \in Seq(FlatReads \cup FlatGroups) : Len(s) = 1}

(* The read explains a byte, or panics, if n bytes are left; and so does   *)
(* the first read of the group.                                            *)
Explains(r, n) ==
  \/ r.op = "take" /\ r.width > 0
  \/ r.op \in {"count", "length"}
  \/ r.op \in {"cstring", "rest"} /\ n > 0
Advances(r, n) ==
  \/ Explains(r, n)
  \/ r.op = "group" /\ r.body # <<>> /\ Explains(Head(r.body), n)

Inner(r) == IF r \in FlatGroups THEN Len(r.body) ELSE 0
(* Each turn of the loop explains a byte.                                  *)
Feeds(body, need, most) == Advances(Head(body), need) /\ Inner(Head(body)) <= most

Loops(most) ==
  {r \in [op : {"while", "untilNul"}, need : Nat, body : Bodies]
           \cup [op : {"repeat"}, times : Int, need : Nat, body : Bodies] :
     Feeds(r.body, r.need, most)}
Counts ==
  {r \in [op : {"count"}, width : {2}, need : Nat, body : Bodies, grouped : BOOLEAN] :
     Feeds(r.body, r.need, IF r.grouped THEN 2 ELSE 1)}
LoopGroups == [op : {"group"}, body : {s \in Seq(Loops(2)) : Len(s) = 1}, keep : BOOLEAN]

Pieces(d) ==
  CASE d = 1 -> FlatReads \cup FlatGroups \cup Loops(1) \cup Counts \cup LoopGroups
    [] d = 2 -> FlatReads \cup FlatGroups \cup Loops(2)
    [] d = 3 -> FlatReads
Lists(d) == {s \in Seq(Pieces(d)) : \A i \in 2 .. Len(s) : s[i] \notin FlatGroups}

(* What is set aside for a list: for each of its reads, for the group it   *)
(* may open, and for the fields of the one at its head.                    *)
ListCost(s, d) ==
  (IF d = 1 THEN Len(s) + Len(s) ELSE Len(s)) + (IF s = <<>> THEN 0 ELSE Inner(Head(s)))

Left(k)  == todo[k].reads
Cost(k)  == IF k <= Depth THEN ListCost(Left(k), k) ELSE 0
Debt     == Cost(1) + Cost(2) + Cost(3)
Promised == Left(Depth) # <<>> /\ Advances(Head(Left(Depth)), Remaining)
Fields   == Cardinality(DOMAIN tree)

Stacked ==
  /\ Depth \in Nat \ {0} /\ Len(todo) = Depth
  /\ \E S : todo \in Seq([reads : S, keep : BOOLEAN])
  /\ IsFiniteSet(DOMAIN tree)

Budgeted ==
  /\ Depth <= 3 /\ \A k \in 1 .. Depth : Left(k) \in Lists(k)
  /\ Fields + Depth + 2 + Debt <= 3 * pos + (IF Promised THEN 3 ELSE 0)

(* Two cases are no such lists. A column may start with an empty name, but *)
(* has eighteen bytes to come.                                             *)
ColumnsLeft == <<Listed(<<Column>>)>>
ColumnLoop(n) == Repeat(n, 0, <<Column>>)
Wide         == [op : {"take"}, width : Nat \ {0, 1}]
ColumnWidths == TakeAll(<<4, 2, 4, 2, 4, 2>>)
ColumnReads  == <<CString>> \o ColumnWidths
InColumns ==
  \/ /\ Depth = 1 /\ Fields <= 3 * pos - 11
     /\ \/ Left(1) = <<>> \/ Left(1) = ColumnsLeft
        \/ \E n \in Int : Left(1) = <<ColumnLoop(n)>> \/ Left(1) = <<Column, ColumnLoop(n)>>
  \/ /\ Depth = 2 /\ \E n \in Int : Left(1) = <<ColumnLoop(n)>>
     /\ \/ Left(2) = ColumnReads /\ Fields <= 3 * pos - 11
        \/ /\ Left(2) \in Seq(Wide) /\ Len(Left(2)) <= 6
           /\ Fields <= 3 * pos - (IF Len(Left(2)) = 6 THEN 10 ELSE 12)

(* The options of NegotiateProtocolVersion do not outnumber its bytes.     *)
OptionCount    == Counted(4, 0, <<CString>>)
OptionsLeft    == <<Take(4), OptionCount>>
OptionLoop(n)  == Repeat(n, 0, <<CString>>)
OptionGroup(n) == Group(<<OptionLoop(n)>>, TRUE)
InOptions ==
  /\ pos >= 5
  /\ \/ Depth = 1 /\ Left(1) = OptionsLeft /\ Fields <= 2
     \/ Depth = 1 /\ Left(1) = <<OptionCount>> /\ Fields <= 3
     \/ Depth = 1 /\ Left(1) = <<>> /\ Fields <= Len(raw) + 5
     \/ Depth = 1 /\ Fields <= 4 /\ \E n \in 0 .. Len(raw) : Left(1) = <<OptionGroup(n)>>
     \/ /\ Depth = 2 /\ Left(1) = <<>>
        /\ \/ Left(2) = <<>> /\ Fields <= Len(raw) + 4
           \/ \E n \in Nat : Left(2) = <<OptionLoop(n)>> /\ Fields <= Len(raw) + 4 - n
           \/ \E n \in Nat : Left(2) = <<CString, OptionLoop(n)>> /\ Fields <= Len(raw) + 3 - n

(* The header, before anything is owed.                                    *)
Payloads   == {s \in Lists(1) : ListCost(s, 1) <= 10}
AfterHeader(s) == s \in Payloads \/ s = ColumnsLeft \/ s = OptionsLeft
InHeader ==
  /\ Depth = 1
  /\ \/ Left(1) = <<>> /\ pos = 0 /\ Fields = 0
     \/ \E a \in {1, 4} : \E s : AfterHeader(s) /\ Left(1) = <<Take(a), Take(4)>> \o s /\ pos = 0 /\ Fields = 0
     \/ \E s : AfterHeader(s) /\ Left(1) = <<Take(4)>> \o s /\ pos \in {1, 4} /\ Fields <= 1

FewInv ==
  /\ Finished => IsFiniteSet(DOMAIN tree) /\ Fields <= 3 * Len(raw)
  /\ phase = "reading" => Stacked /\ (InHeader \/ Budgeted \/ InColumns \/ InOptions)

-----------------------------------------------------------------------------
(* Reads and lists of them.                                                *)

LEMMA LeastOf ==
  ASSUME NEW T \in SUBSET Nat, T # {} PROVE \E x \in T : \A y \in T : x <= y
<1> DEFINE R == OpToRel(<, Nat)
<1>1. \E x \in T : \A y \in T : ~(<<y, x>> \in R)
  <2>1. IsWellFoundedOn(R, Nat) /\ T \subseteq Nat
    BY NatLessThanWellFounded
  <2> HIDE DEF R
  <2> QED
    BY <2>1, WFMin
<1>2. PICK x \in T : \A y \in T : ~(<<y, x>> \in R)
  BY <1>1
<1>3. ASSUME NEW y \in T PROVE x <= y
  <2>1. x \in Nat /\ y \in Nat /\ <<y, x>> \in Nat \X Nat
    OBVIOUS
  <2> QED
    BY <1>2, <2>1 DEF OpToRel
<1> QED
  BY <1>3

(* A string explains a byte if there is one.                               *)
LEMMA StringWidth ==
  ASSUME Remaining \in Nat
  PROVE  CStringWidth \in 0 .. Remaining /\ (Remaining > 0 => CStringWidth > 0)
<1>1. CASE Nuls = {}
  BY <1>1 DEF CStringWidth
<1>2. CASE Nuls # {}
  <2>1. Nuls \in SUBSET Nat /\ Nuls \subseteq 1 .. Remaining
    BY DEF Nuls
  <2>2. \E i \in Nuls : \A j \in Nuls : i <= j
    BY <1>2, <2>1, LeastOf
  <2>3. CStringWidth \in Nuls
    BY <1>2, <2>2 DEF CStringWidth
  <2> QED
    BY <2>1, <2>3
<1> QED
  BY <1>1, <1>2

LEMMA KindsOfReads ==
  /\ \A r \in FlatReads :
       /\ r.op \in {"take", "cstring", "rest", "length"} /\ r \notin FlatGroups
       /\ r.op = "take" => r.width \in Nat
  /\ \A r \in FlatGroups : r.op = "group" /\ r.body \in Seq(FlatReads)
  /\ \A most : \A r \in Loops(most) :
       r.op \in {"repeat", "while", "untilNul"} /\ r \notin FlatGroups
  /\ \A r \in Counts : r.op = "count" /\ r.width = 2 /\ r \notin FlatGroups
  /\ \A r \in LoopGroups : r.op = "group" /\ r.body \in Seq(Loops(2)) /\ Len(r.body) = 1
<1>1. \A r \in FlatReads :
       /\ r.op \in {"take", "cstring", "rest", "length"}
       /\ r.op = "take" => r.width \in Nat
  BY DEF FlatReads, CString, Rest, Length
<1>2. \A r \in FlatGroups : r.op = "group" /\ r.body \in Seq(FlatReads)
  BY DEF FlatGroups
<1>3. \A most : \A r \in Loops(most) : r.op \in {"repeat", "while", "untilNul"}
  BY DEF Loops
<1>4. \A r \in Counts : r.op = "count" /\ r.width = 2
  BY DEF Counts
<1>5. \A r \in LoopGroups : r.op = "group" /\ r.body \in Seq(Loops(2)) /\ Len(r.body) = 1
  BY DEF LoopGroups
<1> QED
  BY <1>1, <1>2, <1>3, <1>4, <1>5

(* No read is both a group of reads and one of a loop.                     *)
LEMMA LoopGroupsApart == ASSUME NEW r \in LoopGroups PROVE r \notin FlatGroups
<1> SUFFICES ASSUME r \in FlatGroups PROVE FALSE
  OBVIOUS
<1>1. r.body \in Seq(FlatReads) /\ r.body \in Seq(Loops(2)) /\ Len(r.body) = 1
  BY KindsOfReads
<1>2. r.body[1] \in FlatReads /\ r.body[1] \in Loops(2)
  BY <1>1, ElementOfSeq
<1> QED
  BY <1>2, KindsOfReads

LEMMA CostType ==
  ASSUME NEW d \in 1 .. 3, NEW s \in Lists(d)
  PROVE  /\ Len(s) \in Nat /\ ListCost(s, d) \in Nat
         /\ s # <<>> => /\ Head(s) \in Pieces(d) /\ Head(s) = s[1] /\ Len(s) > 0
                        /\ Inner(Head(s)) \in Nat
                        /\ ListCost(s, d) = (IF d = 1 THEN Len(s) + Len(s) ELSE Len(s)) + Inner(Head(s))
<1>1. s \in Seq(Pieces(d)) /\ Len(s) \in Nat
  BY LenProperties DEF Lists
<1>2. CASE s = <<>>
  BY <1>1, <1>2 DEF ListCost
<1>3. CASE s # <<>>
  <2>1. Head(s) \in Pieces(d) /\ Head(s) = s[1] /\ Len(s) > 0
    BY <1>1, <1>3, HeadTailProperties, EmptySeq
  <2>2. Inner(Head(s)) \in Nat
    <3>1. Head(s) \in FlatGroups => Head(s).body \in Seq(FlatReads)
      BY KindsOfReads
    <3> QED
      BY <3>1, LenProperties DEF Inner
  <2> QED
    BY <1>1, <1>3, <2>1, <2>2 DEF ListCost
<1> QED
  BY <1>2, <1>3

(* The rest of a list.                                                     *)
LEMMA ListPops ==
  ASSUME NEW d \in 1 .. 3, NEW s \in Lists(d), s # <<>>
  PROVE  /\ Tail(s) \in Lists(d) /\ Len(Tail(s)) = Len(s) - 1
         /\ <<>> \o Tail(s) = Tail(s)
         /\ Tail(s) = <<>> \/ Head(Tail(s)) \notin FlatGroups
         /\ ListCost(Tail(s), d) + Inner(Head(s)) + (IF d = 1 THEN 2 ELSE 1) = ListCost(s, d)
<1>1. s \in Seq(Pieces(d)) /\ \A i \in 2 .. Len(s) : s[i] \notin FlatGroups
  BY DEF Lists
<1>2. /\ Tail(s) \in Seq(Pieces(d)) /\ Len(Tail(s)) = Len(s) - 1
      /\ \A i \in 1 .. Len(Tail(s)) : Tail(s)[i] = s[i + 1]
  BY <1>1, HeadTailProperties
<1>3. Len(s) \in Nat /\ Len(s) > 0
  BY CostType
<1>4. \A i \in 1 .. Len(Tail(s)) : Tail(s)[i] \notin FlatGroups
  BY <1>1, <1>2, <1>3
<1>5. Tail(s) \in Lists(d)
  <2>1. \A i \in 2 .. Len(Tail(s)) : Tail(s)[i] \notin FlatGroups
    BY <1>2, <1>3, <1>4
  <2> QED
    BY <1>2, <2>1 DEF Lists
<1>6. Tail(s) # <<>> => Head(Tail(s)) \notin FlatGroups /\ Inner(Head(Tail(s))) = 0
  <2> SUFFICES ASSUME Tail(s) # <<>> PROVE Head(Tail(s)) \notin FlatGroups /\ Inner(Head(Tail(s))) = 0
    OBVIOUS
  <2>1. Head(Tail(s)) = Tail(s)[1] /\ Len(Tail(s)) \in Nat /\ Len(Tail(s)) > 0
    BY <1>5, CostType
  <2>2. Head(Tail(s)) \notin FlatGroups
    BY <1>4, <2>1
  <2> QED
    BY <2>2 DEF Inner
<1>7. ListCost(Tail(s), d) = IF d = 1 THEN Len(Tail(s)) + Len(Tail(s)) ELSE Len(Tail(s))
  BY <1>2, <1>3, <1>6 DEF ListCost
<1>8. ListCost(s, d) = (IF d = 1 THEN Len(s) + Len(s) ELSE Len(s)) + Inner(Head(s)) /\ Inner(Head(s)) \in Nat
  BY CostType
<1>9. <<>> \o Tail(s) = Tail(s)
  BY <1>2, ConcatEmptySeq
<1> QED
  BY <1>2, <1>3, <1>5, <1>6, <1>7, <1>8, <1>9

(* A read in the place of the last one.                                    *)
LEMMA ListGrows ==
  ASSUME NEW d \in 1 .. 3, NEW s \in Lists(d), NEW b \in Pieces(d),
         s = <<>> \/ Head(s) \notin FlatGroups
  PROVE  /\ <<b>> \o s \in Lists(d) /\ <<b>> \o s # <<>> /\ Head(<<b>> \o s) = b
         /\ Tail(<<b>> \o s) = s
         /\ ListCost(<<b>> \o s, d) = ListCost(s, d) + Inner(b) + (IF d = 1 THEN 2 ELSE 1)
<1> DEFINE t == <<b>> \o s
<1>1. s \in Seq(Pieces(d)) /\ Len(s) \in Nat /\ \A i \in 2 .. Len(s) : s[i] \notin FlatGroups
  BY LenProperties DEF Lists
<1>2. <<b>> \in Seq(Pieces(d)) /\ Len(<<b>>) = 1 /\ <<b>>[1] = b
  OBVIOUS
<1>3. /\ t \in Seq(Pieces(d)) /\ Len(t) = 1 + Len(s)
      /\ \A i \in 1 .. 1 + Len(s) : t[i] = IF i <= 1 THEN <<b>>[i] ELSE s[i - 1]
  BY <1>1, <1>2, ConcatProperties
<1>4. t[1] = b
  BY <1>1, <1>2, <1>3
<1>5. \A i \in 2 .. Len(t) : t[i] \notin FlatGroups
  <2> SUFFICES ASSUME NEW i \in 2 .. Len(t) PROVE t[i] \notin FlatGroups
    OBVIOUS
  <2>1. t[i] = s[i - 1] /\ i - 1 \in 1 .. Len(s)
    BY <1>1, <1>3
  <2>2. s # <<>> /\ Head(s) = s[1]
    BY <1>1, <2>1, EmptySeq, CostType
  <2> QED
    BY <1>1, <2>1, <2>2
<1> HIDE DEF t
<1>6. t \in Lists(d) /\ t # <<>>
  BY <1>1, <1>3, <1>5, EmptySeq DEF Lists
<1>7. Head(t) = b
  BY <1>4, <1>6, CostType
<1>8. Tail(t) = s
  <2>1. /\ Tail(t) \in Seq(Pieces(d)) /\ Len(Tail(t)) = Len(t) - 1
        /\ \A i \in 1 .. Len(Tail(t)) : Tail(t)[i] = t[i + 1]
    BY <1>3, <1>6, HeadTailProperties
  <2>2. Len(Tail(t)) = Len(s) /\ \A i \in 1 .. Len(s) : Tail(t)[i] = s[i]
    BY <1>1, <1>3, <2>1
  <2> QED
    BY <1>1, <2>1, <2>2, SeqEqual
<1>9. ListCost(t, d) = ListCost(s, d) + Inner(b) + (IF d = 1 THEN 2 ELSE 1)
  BY <1>6, <1>7, <1>8, ListPops
<1> QED
  BY <1>6, <1>7, <1>8, <1>9 DEF t

-----------------------------------------------------------------------------
(* What the actions do to the groups and to the number of fields.          *)

LEMMA LevelChanged ==
  ASSUME NEW S, NEW r \in [reads : S, keep : BOOLEAN], NEW y
  PROVE  [r EXCEPT !.reads = y] = [reads |-> y, keep |-> r.keep]
  OBVIOUS

LEMMA ThenLeaves ==
  ASSUME Stacked, NEW x, todo' = Then(x), Depth' = Depth
  PROVE  /\ Len(todo') = Depth' /\ \E S : todo' \in Seq([reads : S, keep : BOOLEAN])
         /\ Left(Depth)' = x \o Tail(Left(Depth))
         /\ \A k \in 1 .. Depth - 1 : Left(k)' = Left(k)
<1>1. PICK S : todo \in Seq([reads : S, keep : BOOLEAN])
  BY DEF Stacked
<1>2. Depth \in 1 .. Len(todo) /\ Len(todo) = Depth /\ Depth \in Nat
  BY DEF Stacked
<1> DEFINE y == x \o Tail(todo[Depth].reads)
           U == S \cup {y}
           level == [reads |-> y, keep |-> todo[Depth].keep]
<1>3. todo[Depth] \in [reads : S, keep : BOOLEAN]
  BY <1>1, <1>2, ElementOfSeq
<1>4. todo \in Seq([reads : U, keep : BOOLEAN])
  <2>1. [reads : S, keep : BOOLEAN] \subseteq [reads : U, keep : BOOLEAN]
    OBVIOUS
  <2> QED
    BY <1>1, <2>1, SeqMonotonic
<1>5. level \in [reads : U, keep : BOOLEAN] /\ level.reads = y
  BY <1>3
<1>6. todo' = [todo EXCEPT ![Depth] = level]
  <2>1. [todo[Depth] EXCEPT !.reads = y] = level
    <3> HIDE DEF y
    <3> QED
      BY <1>3, LevelChanged
  <2>2. todo' = [todo EXCEPT ![Depth] = [todo[Depth] EXCEPT !.reads = y]]
    BY DEF Then
  <2> QED
    BY <2>1, <2>2
<1> HIDE DEF level, U, y
<1>7. /\ todo' \in Seq([reads : U, keep : BOOLEAN]) /\ Len(todo') = Len(todo)
      /\ \A k \in 1 .. Len(todo) : todo'[k] = IF k = Depth THEN level ELSE todo[k]
  BY <1>2, <1>4, <1>5, <1>6, ExceptSeq
<1>8. \A k \in 1 .. Depth - 1 : k \in 1 .. Len(todo) /\ k # Depth
  BY <1>2
<1> QED
  BY <1>2, <1>5, <1>7, <1>8 DEF Left, y

(* One field more.                                                         *)
LEMMA FieldMore ==
  ASSUME IsFiniteSet(DOMAIN tree), NEW p, NEW range, tree' = Annotated(p, range)
  PROVE  IsFiniteSet(DOMAIN tree') /\ Fields \in Nat /\ Fields' \in Nat /\ Fields' <= Fields + 1
<1>1. DOMAIN tree' = DOMAIN tree \cup {p}
  BY DEF Annotated
<1> QED
  BY <1>1, FS_AddElement, FS_CardinalityType DEF Fields

LEMMA EmitLeaves ==
  ASSUME Stacked, path \in Paths, pos \in Nat, NEW w \in Nat, NEW x, Emit(w, x)
  PROVE  /\ Stacked' /\ Depth' = Depth /\ pos' = pos + w
         /\ Fields \in Nat /\ Fields' \in Nat /\ Fields' <= Fields + 1
         /\ Left(Depth)' = x \o Tail(Left(Depth))
         /\ \A k \in 1 .. Depth - 1 : Left(k)' = Left(k)
<1>1. Depth \in Nat \ {0} /\ IsFiniteSet(DOMAIN tree)
  BY DEF Stacked
<1>2. Depth' = Depth
  <2>1. path' = [path EXCEPT ![Depth] = path[Depth] + 1]
    BY DEF Emit
  <2>2. path \in Seq(Nat \ {0}) /\ Depth \in 1 .. Len(path)
    BY <1>1 DEF Paths, Depth
  <2> QED
    BY <2>1, <2>2 DEF Depth
<1>3. IsFiniteSet(DOMAIN tree') /\ Fields \in Nat /\ Fields' \in Nat /\ Fields' <= Fields + 1
  BY <1>1, FieldMore DEF Emit
<1>4. todo' = Then(x) /\ pos' = pos + w
  BY DEF Emit
<1>5. /\ Len(todo') = Depth' /\ \E S : todo' \in Seq([reads : S, keep : BOOLEAN])
      /\ Left(Depth)' = x \o Tail(Left(Depth))
      /\ \A k \in 1 .. Depth - 1 : Left(k)' = Left(k)
  BY <1>2, <1>4, ThenLeaves
<1> QED
  BY <1>1, <1>2, <1>3, <1>4, <1>5 DEF Stacked

LEMMA OpenLeaves ==
  ASSUME Stacked, path \in Paths, OpenGroup, Read.keep \in BOOLEAN
  PROVE  /\ Stacked' /\ Depth' = Depth + 1
         /\ \A k \in 1 .. Depth' : Left(k)' = CASE k = Depth + 1 -> Read.body
                                                 [] k = Depth -> <<>> \o Tail(Left(k))
                                                 [] OTHER -> Left(k)
<1> DEFINE t == Then(<<>>)
           level == Level(Read.body, Read.keep)
           y == <<>> \o Tail(todo[Depth].reads)
<1>1. Depth \in Nat \ {0} /\ Len(todo) = Depth /\ Depth \in 1 .. Len(todo)
  BY DEF Stacked
<1>2. PICK S : todo \in Seq([reads : S, keep : BOOLEAN])
  BY DEF Stacked
<1> DEFINE U == S \cup {y, Read.body}
           R == [reads : U, keep : BOOLEAN]
<1>3. todo[Depth] \in [reads : S, keep : BOOLEAN]
  BY <1>1, <1>2, ElementOfSeq
<1>4. todo \in Seq(R)
  <2>1. [reads : S, keep : BOOLEAN] \subseteq R
    OBVIOUS
  <2> QED
    BY <1>2, <2>1, SeqMonotonic
<1>5. [todo[Depth] EXCEPT !.reads = y] \in R /\ [todo[Depth] EXCEPT !.reads = y].reads = y
  BY <1>3
<1>6. t = [todo EXCEPT ![Depth] = [todo[Depth] EXCEPT !.reads = y]]
  BY DEF Then
<1> HIDE DEF t, y
<1>7. /\ t \in Seq(R) /\ Len(t) = Len(todo)
      /\ \A k \in 1 .. Len(todo) : t[k] = IF k = Depth THEN [todo[Depth] EXCEPT !.reads = y] ELSE todo[k]
  <2> HIDE DEF R
  <2> QED
    BY <1>1, <1>4, <1>5, <1>6, ExceptSeq
<1>8. level \in R /\ level.reads = Read.body
  BY DEF Level
<1>9. todo' = Append(t, level) /\ path' = Append(path, 1) /\ tree' = tree
  BY DEF OpenGroup, t
<1> HIDE DEF level
<1>10. todo' \in Seq(R) /\ Len(todo') = Len(t) + 1
       /\ \A k \in 1 .. Len(t) : todo'[k] = t[k]
       /\ todo'[Len(t) + 1] = level
  <2> HIDE DEF R
  <2> QED
    BY <1>7, <1>8, <1>9, AppendProperties
<1>11. Depth' = Depth + 1
  BY <1>9 DEF Depth, Paths
<1>12. Stacked'
  <2>1. \E T : todo' \in Seq([reads : T, keep : BOOLEAN])
    <3> HIDE DEF U
    <3> QED
      BY <1>10
  <2>2. IsFiniteSet(DOMAIN tree') /\ Len(todo') = Depth' /\ Depth' \in Nat \ {0}
    BY <1>1, <1>7, <1>9, <1>10, <1>11 DEF Stacked
  <2> QED
    BY <2>1, <2>2 DEF Stacked
<1>13. ASSUME NEW k \in 1 .. Depth'
       PROVE  todo'[k].reads = CASE k = Depth + 1 -> Read.body [] k = Depth -> y [] OTHER -> todo[k].reads
  <2>1. CASE k = Depth + 1
    BY <1>1, <1>7, <1>8, <1>10, <2>1
  <2>2. CASE k = Depth
    BY <1>1, <1>5, <1>7, <1>10, <2>2
  <2>3. CASE k \in 1 .. Depth - 1
    BY <1>1, <1>7, <1>10, <2>3
  <2> QED
    BY <1>1, <1>11, <2>1, <2>2, <2>3
<1> QED
  BY <1>11, <1>12, <1>13 DEF Left, y

(* A group that is emitted is a field in the place of an open group.       *)
LEMMA CloseLeaves ==
  ASSUME Stacked, path \in Paths, CloseGroup
  PROVE  /\ Stacked' /\ Depth' = Depth - 1 /\ Depth > 1
         /\ Fields \in Nat /\ Fields' \in Nat /\ Fields' <= Fields + 1
         /\ \A k \in 1 .. Depth - 1 : Left(k)' = Left(k)
<1> DEFINE outer == SubSeq(path, 1, Depth - 1)
<1>1. Depth \in Nat /\ Depth > 1 /\ Len(todo) = Depth /\ IsFiniteSet(DOMAIN tree)
  BY DEF Stacked, CloseGroup
<1>2. PICK S : todo \in Seq([reads : S, keep : BOOLEAN])
  BY DEF Stacked
<1>3. path \in Seq(Nat \ {0}) /\ Len(path) = Depth
  BY DEF Paths, Depth
<1>4. outer \in Seq(Nat \ {0}) /\ Len(outer) = Depth - 1
  <2>1. \A i \in 1 .. Depth - 1 : path[i] \in Nat \ {0}
    BY <1>1, <1>3, ElementOfSeq
  <2> QED
    BY <1>1, <2>1, SubSeqProperties
<1> HIDE DEF outer
<1>5. Depth' = Depth - 1
  <2>1. path' = outer \/ path' = [outer EXCEPT ![Depth - 1] = outer[Depth - 1] + 1]
    BY DEF CloseGroup, outer
  <2>2. Len(path') = Depth - 1
    BY <1>1, <1>4, <2>1
  <2> QED
    BY <2>2 DEF Depth
<1>6. /\ IsFiniteSet(DOMAIN tree') /\ Fields \in Nat /\ Fields' \in Nat /\ Fields' <= Fields + 1
  <2>1. \/ tree' = tree
        \/ tree' = Annotated(outer, ByteRange(GroupStart, pos))
    BY DEF CloseGroup, outer
  <2> QED
    BY <1>1, <2>1, FieldMore, FS_CardinalityType DEF Fields
<1>7. todo' = SubSeq(todo, 1, Depth - 1)
  BY DEF CloseGroup
<1>8. /\ todo' \in Seq([reads : S, keep : BOOLEAN]) /\ Len(todo') = Depth - 1
      /\ \A k \in 1 .. Depth - 1 : todo'[k] = todo[k]
  <2>1. \A i \in 1 .. Depth - 1 : todo[i] \in [reads : S, keep : BOOLEAN]
    <3>1. \A i \in 1 .. Depth - 1 : i \in 1 .. Len(todo)
      BY <1>1
    <3> QED
      BY <1>2, <3>1, ElementOfSeq
  <2>2. /\ todo' \in Seq([reads : S, keep : BOOLEAN]) /\ Len(todo') = Depth - 1
        /\ \A i \in 1 .. Depth - 1 : todo'[i] = todo[1 + i - 1]
    BY <1>1, <1>7, <2>1, SubSeqProperties
  <2> QED
    BY <1>1, <2>2
<1>9. Stacked'
  <2>1. \E T : todo' \in Seq([reads : T, keep : BOOLEAN])
    BY <1>8
  <2>2. IsFiniteSet(DOMAIN tree') /\ Len(todo') = Depth' /\ Depth' \in Nat \ {0}
    BY <1>1, <1>5, <1>6, <1>8
  <2> QED
    BY <2>1, <2>2 DEF Stacked
<1> QED
  BY <1>1, <1>5, <1>6, <1>8, <1>9 DEF Left

(* A read is of the kind its op says.                                      *)
LEMMA PieceKinds ==
  ASSUME NEW d \in 1 .. 3, NEW r \in Pieces(d)
  PROVE  /\ r.op \in {"take", "cstring", "rest", "length"} => r \in FlatReads
         /\ r.op \in {"repeat", "while", "untilNul"} => d < 3 /\ r \in Loops(IF d = 1 THEN 1 ELSE 2)
         /\ r.op = "count" => d = 1 /\ r \in Counts
         /\ r.op = "group" => d < 3 /\ (r \in FlatGroups \/ (d = 1 /\ r \in LoopGroups))
         /\ r.op # "group" => Inner(r) = 0
<1>1. CASE d = 1
  <2>1. r \in FlatReads \cup FlatGroups \cup Loops(1) \cup Counts \cup LoopGroups
    BY <1>1 DEF Pieces
  <2> QED
    BY <1>1, <2>1, KindsOfReads DEF Inner
<1>2. CASE d = 2
  <2>1. r \in FlatReads \cup FlatGroups \cup Loops(2)
    BY <1>2 DEF Pieces
  <2> QED
    BY <1>2, <2>1, KindsOfReads DEF Inner
<1>3. CASE d = 3
  <2>1. r \in FlatReads
    BY <1>3 DEF Pieces
  <2> QED
    BY <1>3, <2>1, KindsOfReads DEF Inner
<1> QED
  BY <1>1, <1>2, <1>3

LEMMA FlatPieces ==
  ASSUME NEW d \in 1 .. 3
  PROVE  /\ FlatReads \subseteq Pieces(d)
         /\ d < 3 => FlatGroups \subseteq Pieces(d) /\ Loops(IF d = 1 THEN 1 ELSE 2) \subseteq Pieces(d)
<1>1. CASE d = 1
  BY <1>1 DEF Pieces
<1>2. CASE d = 2
  BY <1>2 DEF Pieces
<1>3. CASE d = 3
  BY <1>3 DEF Pieces
<1> QED
  BY <1>1, <1>2, <1>3

(* The body of a loop is one read, and so is what follows its turn.        *)
LEMMA LoopUnfolds ==
  ASSUME NEW most, NEW r \in Loops(most)
  PROVE  /\ r.need \in Nat
         /\ \E b \in FlatReads \cup FlatGroups :
              r.body = <<b>> /\ Advances(b, r.need) /\ Inner(b) <= most
         /\ r.op = "repeat" => r.times \in Int /\ [r EXCEPT !.times = @ - 1] \in Loops(most)
<1>1. /\ r.need \in Nat /\ r.body \in Bodies /\ Feeds(r.body, r.need, most)
      /\ r.op = "repeat" => r \in [op : {"repeat"}, times : Int, need : Nat, body : Bodies]
  BY DEF Loops
<1>2. \E b \in FlatReads \cup FlatGroups : r.body = <<b>> /\ Head(r.body) = b
  <2>1. r.body \in Seq(FlatReads \cup FlatGroups) /\ Len(r.body) = 1
    BY <1>1 DEF Bodies
  <2>2. r.body[1] \in FlatReads \cup FlatGroups
    BY <2>1, ElementOfSeq
  <2>3. r.body # <<>>
    <3>1. Len(<<>>) = 0 /\ 0 # 1
      OBVIOUS
    <3> QED
      BY <2>1, <3>1, Zenon
  <2>4. r.body = <<r.body[1]>>
    <3>1. <<r.body[1]>> \in Seq(FlatReads \cup FlatGroups) /\ Len(<<r.body[1]>>) = 1
      BY <2>2
    <3> QED
      BY <2>1, <3>1, SeqEqual
  <2> QED
    BY <2>2, <2>3, <2>4
<1>3. ASSUME r.op = "repeat" PROVE r.times \in Int /\ [r EXCEPT !.times = @ - 1] \in Loops(most)
  <2> DEFINE again == [r EXCEPT !.times = r.times - 1]
  <2>1. r \in [op : {"repeat"}, times : Int, need : Nat, body : Bodies]
    BY <1>1, <1>3
  <2>2. /\ again \in [op : {"repeat"}, times : Int, need : Nat, body : Bodies]
        /\ again.body = r.body /\ again.need = r.need
    BY <2>1
  <2> HIDE DEF again
  <2>3. again \in Loops(most)
    BY <1>1, <2>2 DEF Loops
  <2> QED
    BY <2>1, <2>3 DEF again
<1> QED
  BY <1>1, <1>2, <1>3 DEF Feeds

LEMMA DebtChanges ==
  ASSUME Depth \in 1 .. 3, Depth' = Depth, \A k \in 1 .. Depth - 1 : Left(k)' = Left(k),
         \A k \in 1 .. Depth : Left(k) \in Lists(k), Left(Depth)' \in Lists(Depth)
  PROVE  /\ Debt \in Nat /\ Debt' \in Nat
         /\ \A k \in 1 .. Depth : Left(k)' \in Lists(k)
         /\ Debt' = Debt - ListCost(Left(Depth), Depth) + ListCost(Left(Depth)', Depth)
<1>1. \A k \in 1 .. Depth : Left(k)' \in Lists(k)
  OBVIOUS
<1>2. \A k \in 1 .. Depth : ListCost(Left(k), k) \in Nat /\ ListCost(Left(k)', k) \in Nat
  BY <1>1, CostType
<1>3. /\ \A k \in 1 .. 3 : Cost(k) = IF k <= Depth THEN ListCost(Left(k), k) ELSE 0
      /\ \A k \in 1 .. 3 : Cost(k)' = IF k <= Depth THEN ListCost(Left(k)', k) ELSE 0
  BY DEF Cost
<1>4. Debt = Cost(1) + Cost(2) + Cost(3) /\ Debt' = Cost(1)' + Cost(2)' + Cost(3)'
  BY DEF Debt
<1>5. CASE Depth = 1
  BY <1>1, <1>2, <1>3, <1>4, <1>5
<1>6. CASE Depth = 2
  <2>1. Left(1)' = Left(1)
    BY <1>6
  <2> QED
    BY <1>1, <1>2, <1>3, <1>4, <1>6, <2>1
<1>7. CASE Depth = 3
  <2>1. Left(1)' = Left(1) /\ Left(2)' = Left(2)
    BY <1>7
  <2> QED
    BY <1>1, <1>2, <1>3, <1>4, <1>7, <2>1
<1> QED
  BY <1>5, <1>6, <1>7

-----------------------------------------------------------------------------
(* The steps of a case whose reads pay for themselves.                     *)

LEMMA BudgetEmit ==
  ASSUME Stacked, Budgeted, path \in Paths, pos \in Nat, NEW w \in Nat, NEW x, Emit(w, x),
         Left(Depth) # <<>>, Inner(Head(Left(Depth))) = 0,
         \/ x = <<>> /\ (w > 0 \/ ~Promised)
         \/ w >= 2 /\ \E b \in Pieces(Depth) : x = <<b>> /\ Inner(b) = 0
  PROVE  Stacked' /\ Budgeted'
<1>1. /\ Stacked' /\ Depth' = Depth /\ pos' = pos + w
      /\ Fields \in Nat /\ Fields' \in Nat /\ Fields' <= Fields + 1
      /\ Left(Depth)' = x \o Tail(Left(Depth))
      /\ \A k \in 1 .. Depth - 1 : Left(k)' = Left(k)
  BY EmitLeaves
<1>2. Depth \in 1 .. 3 /\ \A k \in 1 .. Depth : Left(k) \in Lists(k)
  BY DEF Stacked, Budgeted
<1> DEFINE s == Left(Depth)
           d == Depth
<1>3. s \in Lists(d) /\ d \in 1 .. 3 /\ s # <<>>
  BY <1>2
<1> HIDE DEF s, d
<1>4. /\ Tail(s) \in Lists(d) /\ <<>> \o Tail(s) = Tail(s)
      /\ Tail(s) = <<>> \/ Head(Tail(s)) \notin FlatGroups
      /\ ListCost(Tail(s), d) + Inner(Head(s)) + (IF d = 1 THEN 2 ELSE 1) = ListCost(s, d)
  BY <1>3, ListPops
<1>5. /\ x \o Tail(s) \in Lists(d)
      /\ ListCost(x \o Tail(s), d) = ListCost(s, d) - (IF x = <<>> THEN IF d = 1 THEN 2 ELSE 1 ELSE 0)
  <2>1. ListCost(Tail(s), d) \in Nat /\ ListCost(s, d) \in Nat
    BY <1>3, <1>4, CostType
  <2>2. CASE x = <<>>
    <3>1. x \o Tail(s) = Tail(s) /\ Inner(Head(s)) = 0
      BY <1>4, <2>2 DEF s
    <3> QED
      BY <1>3, <1>4, <2>1, <2>2, <3>1
  <2>3. CASE \E b \in Pieces(d) : x = <<b>> /\ Inner(b) = 0
    <3>2. PICK b \in Pieces(d) : x = <<b>> /\ Inner(b) = 0
      BY <2>3
    <3>3. x # <<>>
      BY <3>2
    <3>1. x \o Tail(s) \in Lists(d)
          /\ ListCost(x \o Tail(s), d) = ListCost(Tail(s), d) + Inner(b) + (IF d = 1 THEN 2 ELSE 1)
      BY <1>3, <1>4, <3>2, ListGrows
    <3>4. Inner(Head(s)) = 0
      BY DEF s
    <3> QED
      BY <1>3, <1>4, <2>1, <3>1, <3>2, <3>3, <3>4
  <2> QED
    BY <2>2, <2>3 DEF d
<1>6. /\ Debt \in Nat /\ Debt' \in Nat
      /\ \A k \in 1 .. Depth : Left(k)' \in Lists(k)
      /\ Debt' = Debt - ListCost(Left(Depth), Depth) + ListCost(Left(Depth)', Depth)
  BY <1>1, <1>2, <1>5, DebtChanges DEF s, d
<1>7. Debt' = Debt - (IF x = <<>> THEN IF Depth = 1 THEN 2 ELSE 1 ELSE 0)
  <2>1. ListCost(Left(Depth), Depth) \in Nat
    BY <1>2, CostType
  <2> QED
    BY <1>1, <1>5, <1>6, <2>1 DEF s, d
<1>8. Fields + Depth + 2 + Debt <= 3 * pos + (IF Promised THEN 3 ELSE 0)
  BY DEF Budgeted
<1>9. Fields' + Depth' + 2 + Debt' <= 3 * pos'
  <2>1. CASE x = <<>> /\ w > 0
    BY <1>1, <1>2, <1>6, <1>7, <1>8, <2>1
  <2>2. CASE x = <<>> /\ w = 0 /\ ~Promised
    BY <1>1, <1>2, <1>6, <1>7, <1>8, <2>2
  <2>3. CASE x # <<>> /\ w >= 2
    BY <1>1, <1>2, <1>6, <1>7, <1>8, <2>3
  <2> QED
    BY <2>1, <2>2, <2>3
<1>10. Fields' + Depth' + 2 + Debt' <= 3 * pos' + (IF Promised' THEN 3 ELSE 0)
  BY <1>1, <1>2, <1>6, <1>9
<1> QED
  BY <1>1, <1>2, <1>6, <1>10 DEF Budgeted

LEMMA AdvancesMore ==
  ASSUME NEW r, NEW m \in Nat, NEW n \in Nat, m <= n, Advances(r, m) PROVE Advances(r, n)
  BY DEF Advances, Explains

LEMMA BudgetLoop ==
  ASSUME Stacked, Budgeted, pos \in Nat, Remaining \in Nat, Loop
  PROVE  Stacked' /\ Budgeted'
<1> DEFINE s == Left(Depth)
           d == Depth
           most == IF d = 1 THEN 1 ELSE 2
           x == IF More THEN Append(Read.body, Again) ELSE <<>>
<1>1. Depth \in 1 .. 3 /\ \A k \in 1 .. Depth : Left(k) \in Lists(k)
  BY DEF Stacked, Budgeted
<1>2. Depth' = Depth /\ pos' = pos /\ Fields' = Fields /\ Remaining' = Remaining
      /\ IsFiniteSet(DOMAIN tree)' /\ todo' = Then(x)
  BY DEF Loop, Depth, Fields, Remaining, raw, Stacked
<1>3. s # <<>> /\ Read = Head(s) /\ Read.op \in {"repeat", "while", "untilNul"}
  BY DEF Loop, Reading, Read, Top, Left
<1>4. s \in Lists(d) /\ d \in 1 .. 3
  BY <1>1
<1> HIDE DEF s, d, x
<1>5. Read \in Loops(most) /\ d < 3 /\ Inner(Read) = 0
  BY <1>3, <1>4, CostType, PieceKinds
<1>6. /\ Len(todo') = Depth' /\ \E S : todo' \in Seq([reads : S, keep : BOOLEAN])
      /\ Left(Depth)' = x \o Tail(Left(Depth))
      /\ \A k \in 1 .. Depth - 1 : Left(k)' = Left(k)
  BY <1>2, ThenLeaves
<1>7. /\ Tail(s) \in Lists(d) /\ <<>> \o Tail(s) = Tail(s)
      /\ Tail(s) = <<>> \/ Head(Tail(s)) \notin FlatGroups
      /\ ListCost(Tail(s), d) + Inner(Head(s)) + (IF d = 1 THEN 2 ELSE 1) = ListCost(s, d)
      /\ ListCost(Tail(s), d) \in Nat
  BY <1>3, <1>4, ListPops, CostType
<1>8. ASSUME More
      PROVE  /\ x \o Tail(s) \in Lists(d) /\ x \o Tail(s) # <<>>
             /\ Advances(Head(x \o Tail(s)), Remaining)
             /\ ListCost(x \o Tail(s), d) <= ListCost(s, d) + 3
  <2>1. /\ Read.need \in Nat
        /\ Read.op = "repeat" => Read.times \in Int /\ [Read EXCEPT !.times = @ - 1] \in Loops(most)
    BY <1>5, LoopUnfolds
  <2>2. PICK b \in FlatReads \cup FlatGroups :
          Read.body = <<b>> /\ Advances(b, Read.need) /\ Inner(b) <= most
    BY <1>5, LoopUnfolds
  <2>3. Again \in Loops(most)
    <3> HIDE DEF most
    <3>1. CASE Read.op = "repeat"
      <4>1. [Read EXCEPT !.times = @ - 1] \in Loops(most)
        BY <2>1, <3>1
      <4>2. Again = [Read EXCEPT !.times = @ - 1]
        BY <3>1 DEF Again
      <4> QED
        BY <4>1, <4>2
    <3>2. CASE Read.op # "repeat"
      BY <1>5, <3>2 DEF Again
    <3> QED
      BY <3>1, <3>2
  <2>4. Again \in Pieces(d) /\ b \in Pieces(d) /\ Again \notin FlatGroups
    BY <1>4, <1>5, <2>3, FlatPieces, KindsOfReads
  <2> DEFINE t == <<Again>> \o Tail(s)
  <2>5. /\ t \in Lists(d) /\ t # <<>> /\ Head(t) = Again
        /\ ListCost(t, d) = ListCost(Tail(s), d) + Inner(Again) + (IF d = 1 THEN 2 ELSE 1)
    BY <1>4, <1>7, <2>4, ListGrows
  <2>6. Inner(Again) = 0
    BY <2>4 DEF Inner
  <2> HIDE DEF t
  <2>7. /\ <<b>> \o t \in Lists(d) /\ <<b>> \o t # <<>> /\ Head(<<b>> \o t) = b
        /\ ListCost(<<b>> \o t, d) = ListCost(t, d) + Inner(b) + (IF d = 1 THEN 2 ELSE 1)
    BY <1>4, <2>4, <2>5, ListGrows
  <2>8. x \o Tail(s) = <<b>> \o t
    <3>1. x = Append(<<b>>, Again)
      BY <1>8, <2>2 DEF x
    <3>2. x = <<b>> \o <<Again>>
      BY <3>1
    <3>3. <<b>> \in Seq(Pieces(d)) /\ <<Again>> \in Seq(Pieces(d)) /\ Tail(s) \in Seq(Pieces(d))
      BY <1>7, <2>4 DEF Lists
    <3> QED
      BY <3>2, <3>3, ConcatAssociative DEF t
  <2>9. Advances(b, Remaining)
    <3>1. Read.need <= Remaining
      BY <1>8 DEF More
    <3> DEFINE m == Read.need
               n == Remaining
    <3>2. m \in Nat /\ n \in Nat /\ m <= n /\ Advances(b, m)
      BY <2>1, <2>2, <3>1
    <3> HIDE DEF m, n
    <3>3. Advances(b, n)
      BY <3>2, AdvancesMore
    <3> QED
      BY <3>3 DEF n
  <2>10. Inner(b) \in Nat
    BY <2>7, CostType, <1>4
  <2>11. ListCost(<<b>> \o t, d) <= ListCost(s, d) + 3
    <3>1. ListCost(s, d) = ListCost(Tail(s), d) + (IF d = 1 THEN 2 ELSE 1)
      BY <1>3, <1>5, <1>7
    <3>2. ListCost(<<b>> \o t, d) = ListCost(s, d) + Inner(b) + (IF d = 1 THEN 2 ELSE 1)
      BY <1>7, <2>5, <2>6, <2>7, <3>1
    <3>3. ListCost(s, d) \in Nat
      BY <1>4, CostType
    <3> QED
      BY <2>2, <2>10, <3>2, <3>3
  <2> QED
    BY <2>7, <2>8, <2>9, <2>11
<1>9. ASSUME ~More
      PROVE  x \o Tail(s) \in Lists(d) /\ ListCost(x \o Tail(s), d) <= ListCost(s, d)
  BY <1>3, <1>4, <1>5, <1>7, <1>9 DEF x
<1>10. /\ Debt \in Nat /\ Debt' \in Nat
       /\ \A k \in 1 .. Depth : Left(k)' \in Lists(k)
       /\ Debt' = Debt - ListCost(Left(Depth), Depth) + ListCost(Left(Depth)', Depth)
  BY <1>1, <1>2, <1>6, <1>8, <1>9, DebtChanges DEF s, d
<1>11. ListCost(s, d) \in Nat /\ ListCost(x \o Tail(s), d) \in Nat
  BY <1>4, <1>8, <1>9, CostType
<1>12. ~Promised
  BY <1>3, <1>5 DEF Promised, s, Advances, Explains
<1>13. More => Promised'
  BY <1>2, <1>6, <1>8 DEF Promised, s
<1>14. Fields' + Depth' + 2 + Debt' <= 3 * pos' + (IF Promised' THEN 3 ELSE 0)
  <2>1. Fields + Depth + 2 + Debt <= 3 * pos
    BY <1>12 DEF Budgeted
  <2>2. Fields \in Nat
    BY FS_CardinalityType DEF Fields, Stacked
  <2>3. Debt' <= Debt + (IF More THEN 3 ELSE 0)
    BY <1>6, <1>8, <1>9, <1>10, <1>11 DEF s, d
  <2> QED
    BY <1>1, <1>2, <1>10, <1>13, <2>1, <2>2, <2>3
<1>15. Stacked'
  BY <1>1, <1>2, <1>6 DEF Stacked
<1> QED
  BY <1>1, <1>2, <1>10, <1>14, <1>15 DEF Budgeted

(* The body of a group, in a list of its own.                              *)
LEMMA BodyIsList ==
  ASSUME NEW e \in 2 .. 3, NEW s \in Seq(FlatReads) PROVE s \in Lists(e) /\ ListCost(s, e) = Len(s)
<1>1. Len(s) \in Nat /\ \A i \in 1 .. Len(s) : s[i] \in FlatReads
  BY LenProperties, ElementOfSeq
<1>2. FlatReads \subseteq Pieces(e)
  BY FlatPieces
<1>3. s \in Seq(Pieces(e))
  BY <1>2, SeqMonotonic
<1>4. \A i \in 1 .. Len(s) : s[i] \notin FlatGroups
  BY <1>1, KindsOfReads
<1>5. s \in Lists(e)
  BY <1>1, <1>3, <1>4 DEF Lists
<1>6. s # <<>> => Inner(Head(s)) = 0
  BY <1>1, <1>4, <1>5, CostType DEF Inner
<1> QED
  BY <1>1, <1>5, <1>6 DEF ListCost

LEMMA LoopIsList ==
  ASSUME NEW s \in Seq(Loops(2)), Len(s) = 1
  PROVE  s \in Lists(2) /\ ListCost(s, 2) = 1 /\ s # <<>> /\ Head(s) \in Loops(2)
<1>1. s[1] \in Loops(2) /\ s[1] \notin FlatGroups
  BY ElementOfSeq, KindsOfReads
<1>2. s \in Seq(Pieces(2))
  <2>1. Loops(2) \subseteq Pieces(2)
    BY DEF Pieces
  <2> QED
    BY <2>1, SeqMonotonic
<1>3. s \in Lists(2)
  <2>1. 2 .. Len(s) = {}
    OBVIOUS
  <2> QED
    BY <1>2, <2>1 DEF Lists
<1>4. s # <<>>
  <2>1. Len(<<>>) = 0 /\ 0 # 1
    OBVIOUS
  <2> QED
    BY <2>1, Zenon
<1>5. Head(s) = s[1] /\ Inner(Head(s)) = 0
  BY <1>1, <1>3, <1>4, CostType DEF Inner
<1> QED
  BY <1>1, <1>3, <1>4, <1>5 DEF ListCost

LEMMA BudgetOpen ==
  ASSUME Stacked, Budgeted, path \in Paths, pos \in Nat, OpenGroup
  PROVE  Stacked' /\ Budgeted'
<1> DEFINE s == Left(Depth)
           d == Depth
           body == Read.body
<1>1. d \in 1 .. 3 /\ \A k \in 1 .. d : Left(k) \in Lists(k)
  BY DEF Stacked, Budgeted
<1>2. s # <<>> /\ Read = Head(s) /\ Read.op = "group"
  BY DEF OpenGroup, Reading, Read, Top, Left
<1>3. s \in Lists(d)
  BY <1>1
<1> HIDE DEF s, d
<1>4. Read \in Pieces(d)
  BY <1>1, <1>2, <1>3, CostType
<1>5. d < 3 /\ (Read \in FlatGroups \/ (d = 1 /\ Read \in LoopGroups))
  BY <1>1, <1>2, <1>4, PieceKinds
<1>6. Read.keep \in BOOLEAN
  BY <1>5 DEF FlatGroups, LoopGroups
<1>7. /\ Stacked' /\ Depth' = d + 1
      /\ \A k \in 1 .. Depth' : Left(k)' = CASE k = d + 1 -> Read.body
                                              [] k = d -> <<>> \o Tail(Left(k))
                                              [] OTHER -> Left(k)
  BY <1>6, OpenLeaves DEF d
<1>8. /\ Tail(s) \in Lists(d) /\ <<>> \o Tail(s) = Tail(s)
      /\ ListCost(Tail(s), d) + Inner(Read) + (IF d = 1 THEN 2 ELSE 1) = ListCost(s, d)
      /\ ListCost(Tail(s), d) \in Nat
  BY <1>1, <1>2, <1>3, ListPops, CostType
<1>9. /\ body \in Lists(d + 1)
      /\ ListCost(body, d + 1) + ListCost(Tail(s), d) + 1 <= ListCost(s, d)
      /\ ListCost(body, d + 1) \in Nat
  <2>1. CASE Read \in FlatGroups
    <3>1. body \in Seq(FlatReads) /\ Inner(Read) = Len(body) /\ d + 1 \in 2 .. 3
      BY <1>1, <1>5, <2>1, KindsOfReads DEF Inner
    <3>2. Len(body) \in Nat
      BY <3>1, LenProperties
    <3>3. body \in Lists(d + 1) /\ ListCost(body, d + 1) = Len(body)
      BY <3>1, BodyIsList
    <3> QED
      BY <1>1, <1>8, <3>1, <3>2, <3>3
  <2>2. CASE d = 1 /\ Read \in LoopGroups
    <3>1. body \in Seq(Loops(2)) /\ Len(body) = 1
      BY <2>2, KindsOfReads
    <3>2. Inner(Read) = 0
      BY <2>2, LoopGroupsApart DEF Inner
    <3>3. body \in Lists(2) /\ ListCost(body, 2) = 1 /\ d + 1 = 2
      BY <2>2, <3>1, LoopIsList
    <3> QED
      BY <1>8, <2>2, <3>2, <3>3
  <2> QED
    BY <1>5, <2>1, <2>2
<1>10. Promised => Promised'
  <2> SUFFICES ASSUME Promised PROVE Promised'
    OBVIOUS
  <2>1. Advances(Read, Remaining)
    BY <1>2 DEF Promised, s
  <2>2. body # <<>> /\ Explains(Head(body), Remaining)
    BY <1>2, <2>1 DEF Advances, Explains
  <2>3. Left(Depth)' = body /\ Remaining' = Remaining
    <3>1. Depth' \in 1 .. Depth' /\ Depth' = d + 1
      BY <1>1, <1>7
    <3>2. Remaining' = Remaining
      BY DEF OpenGroup, Remaining, raw
    <3> QED
      BY <1>7, <3>1, <3>2
  <2> HIDE DEF body
  <2> QED
    BY <2>2, <2>3 DEF Promised, Advances
<1>11. \A k \in 1 .. Depth' : Left(k)' \in Lists(k)
  <2> SUFFICES ASSUME NEW k \in 1 .. Depth' PROVE Left(k)' \in Lists(k)
    OBVIOUS
  <2>1. CASE k = d + 1
    BY <1>7, <1>9, <2>1
  <2>2. CASE k = d
    <3>1. Left(k) = s
      BY <2>2 DEF s, d
    <3>2. Left(k)' = <<>> \o Tail(Left(k))
      BY <1>1, <1>7, <2>2
    <3> QED
      BY <1>8, <2>2, <3>1, <3>2
  <2>3. CASE k \in 1 .. d - 1
    BY <1>1, <1>7, <2>3
  <2> QED
    BY <1>1, <1>7, <2>1, <2>2, <2>3
<1>12. Debt \in Nat /\ Debt' \in Nat /\ Debt' + 1 <= Debt
  <2>1. \A k \in 1 .. d : ListCost(Left(k), k) \in Nat
    BY <1>1, CostType
  <2>2. /\ Debt = Cost(1) + Cost(2) + Cost(3) /\ Debt' = Cost(1)' + Cost(2)' + Cost(3)'
        /\ \A k \in 1 .. 3 : Cost(k) = IF k <= d THEN ListCost(Left(k), k) ELSE 0
        /\ \A k \in 1 .. 3 : Cost(k)' = IF k <= d + 1 THEN ListCost(Left(k)', k) ELSE 0
    BY <1>7 DEF Debt, Cost, d
  <2>3. CASE d = 1
    <3>1. Left(1)' = Tail(s) /\ Left(2)' = body /\ Left(1) = s
      BY <1>7, <1>8, <2>3 DEF s, d
    <3> HIDE DEF body
    <3>2. Cost(1) = ListCost(s, 1) /\ Cost(2) = 0 /\ Cost(3) = 0
      BY <2>2, <2>3, <3>1
    <3>3. Cost(1)' = ListCost(Tail(s), 1) /\ Cost(2)' = ListCost(body, 2) /\ Cost(3)' = 0
      <4>1. /\ Cost(1)' = (IF 1 <= d + 1 THEN ListCost(Left(1)', 1) ELSE 0)
            /\ Cost(2)' = (IF 2 <= d + 1 THEN ListCost(Left(2)', 2) ELSE 0)
            /\ Cost(3)' = (IF 3 <= d + 1 THEN ListCost(Left(3)', 3) ELSE 0)
        BY <2>2
      <4>2. 1 <= d + 1 /\ 2 <= d + 1 /\ ~(3 <= d + 1)
        BY <2>3
      <4> QED
        BY <3>1, <4>1, <4>2, Zenon
    <3>4. /\ ListCost(body, 2) + ListCost(Tail(s), 1) + 1 <= ListCost(s, 1) /\ ListCost(s, 1) \in Nat
          /\ ListCost(body, 2) \in Nat /\ ListCost(Tail(s), 1) \in Nat
      BY <1>8, <1>9, <2>1, <2>3, <3>1
    <3> QED
      BY <2>2, <3>2, <3>3, <3>4
  <2>4. CASE d = 2
    <3>1. Left(1)' = Left(1) /\ Left(2)' = Tail(s) /\ Left(3)' = body /\ Left(2) = s
      BY <1>7, <1>8, <2>4 DEF s, d
    <3> HIDE DEF body
    <3>2. Cost(1) = ListCost(Left(1), 1) /\ Cost(2) = ListCost(s, 2) /\ Cost(3) = 0
      BY <2>2, <2>4, <3>1
    <3>3. Cost(1)' = ListCost(Left(1), 1) /\ Cost(2)' = ListCost(Tail(s), 2) /\ Cost(3)' = ListCost(body, 3)
      <4>1. /\ Cost(1)' = (IF 1 <= d + 1 THEN ListCost(Left(1)', 1) ELSE 0)
            /\ Cost(2)' = (IF 2 <= d + 1 THEN ListCost(Left(2)', 2) ELSE 0)
            /\ Cost(3)' = (IF 3 <= d + 1 THEN ListCost(Left(3)', 3) ELSE 0)
        BY <2>2
      <4>2. 1 <= d + 1 /\ 2 <= d + 1 /\ 3 <= d + 1
        BY <2>4
      <4> QED
        BY <3>1, <4>1, <4>2, Zenon
    <3>4. /\ ListCost(body, 3) + ListCost(Tail(s), 2) + 1 <= ListCost(s, 2) /\ ListCost(s, 2) \in Nat
          /\ ListCost(body, 3) \in Nat /\ ListCost(Tail(s), 2) \in Nat /\ ListCost(Left(1), 1) \in Nat
      BY <1>8, <1>9, <2>1, <2>4, <3>1
    <3> QED
      BY <2>2, <3>2, <3>3, <3>4
  <2> QED
    BY <1>1, <1>5, <2>3, <2>4
<1>13. Fields' = Fields /\ pos' = pos /\ Fields \in Nat
  BY FS_CardinalityType DEF OpenGroup, Fields, Stacked
<1>14. Fields' + Depth' + 2 + Debt' <= 3 * pos' + (IF Promised' THEN 3 ELSE 0)
  <2>1. Fields + d + 2 + Debt <= 3 * pos + (IF Promised THEN 3 ELSE 0)
    BY DEF Budgeted, d
  <2>2. Fields' + Depth' + 2 + Debt' <= Fields + d + 2 + Debt
    BY <1>1, <1>7, <1>12, <1>13
  <2> QED
    BY <1>1, <1>7, <1>10, <1>12, <1>13, <2>1, <2>2
<1>15. Depth' <= 3
  BY <1>1, <1>5, <1>7
<1> QED
  BY <1>7, <1>11, <1>14, <1>15 DEF Budgeted

LEMMA BudgetClose ==
  ASSUME Stacked, Budgeted, path \in Paths, pos \in Nat, CloseGroup
  PROVE  Stacked' /\ Budgeted'
<1> DEFINE d == Depth
<1>1. d \in 1 .. 3 /\ \A k \in 1 .. d : Left(k) \in Lists(k)
  BY DEF Stacked, Budgeted
<1>2. /\ Stacked' /\ Depth' = d - 1 /\ d > 1
      /\ Fields \in Nat /\ Fields' \in Nat /\ Fields' <= Fields + 1
      /\ \A k \in 1 .. d - 1 : Left(k)' = Left(k)
  BY CloseLeaves
<1>3. Left(d) = <<>> /\ pos' = pos /\ ~Promised
  BY DEF CloseGroup, CaseOver, Top, Left, Promised
<1> HIDE DEF d
<1>4. \A k \in 1 .. d - 1 : Left(k)' \in Lists(k)
  BY <1>1, <1>2
<1>5. Debt \in Nat /\ Debt' \in Nat /\ Debt' <= Debt
  <2>1. \A k \in 1 .. d : ListCost(Left(k), k) \in Nat
    BY <1>1, CostType
  <2>2. /\ Debt = Cost(1) + Cost(2) + Cost(3) /\ Debt' = Cost(1)' + Cost(2)' + Cost(3)'
        /\ \A k \in 1 .. 3 : Cost(k) = IF k <= d THEN ListCost(Left(k), k) ELSE 0
        /\ \A k \in 1 .. 3 : Cost(k)' = IF k <= d - 1 THEN ListCost(Left(k)', k) ELSE 0
    BY <1>2 DEF Debt, Cost, d
  <2>3. CASE d = 2
    <3>1. Left(1)' = Left(1)
      BY <1>2, <2>3
    <3> QED
      BY <2>1, <2>2, <2>3, <3>1
  <2>4. CASE d = 3
    <3>1. Left(1)' = Left(1) /\ Left(2)' = Left(2)
      BY <1>2, <2>4
    <3> QED
      BY <2>1, <2>2, <2>4, <3>1
  <2> QED
    BY <1>1, <1>2, <2>3, <2>4
<1>6. Fields' + Depth' + 2 + Debt' <= 3 * pos' + (IF Promised' THEN 3 ELSE 0)
  <2>1. Fields + d + 2 + Debt <= 3 * pos
    BY <1>3 DEF Budgeted, d
  <2> DEFINE f == Fields
             g == Fields'
             b == Debt
             c == Debt'
  <2>2. f \in Nat /\ g \in Nat /\ b \in Nat /\ c \in Nat /\ g <= f + 1 /\ c <= b
        /\ f + d + 2 + b <= 3 * pos
    BY <1>2, <1>5, <2>1
  <2> HIDE DEF f, g, b, c
  <2>3. g + (d - 1) + 2 + c <= 3 * pos
    BY <1>1, <2>2
  <2>4. Fields' + Depth' + 2 + Debt' <= 3 * pos'
    BY <1>2, <1>3, <2>3 DEF g, c
  <2>5. Fields' + Depth' + 2 + Debt' \in Int /\ 3 * pos' \in Int
    BY <1>1, <1>2, <1>3, <1>5
  <2> QED
    BY <2>4, <2>5
<1>7. Depth' <= 3 /\ \A k \in 1 .. Depth' : Left(k)' \in Lists(k)
  BY <1>1, <1>2, <1>4
<1> QED
  BY <1>2, <1>6, <1>7 DEF Budgeted

(* What is owed leaves enough of what was read.                            *)
LEMMA BudgetIsFew ==
  ASSUME Stacked, Budgeted, pos \in Nat PROVE Fields \in Nat /\ Fields < 3 * pos
<1>1. Depth \in 1 .. 3 /\ \A k \in 1 .. Depth : Left(k) \in Lists(k) /\ Fields \in Nat
  BY FS_CardinalityType DEF Stacked, Budgeted, Fields
<1>2. \A k \in 1 .. 3 : Cost(k) \in Nat /\ (k <= Depth => Cost(k) = ListCost(Left(k), k))
  BY <1>1, CostType DEF Cost
<1>3. Debt \in Nat /\ ListCost(Left(Depth), Depth) <= Debt
  <2>1. Debt = Cost(1) + Cost(2) + Cost(3)
    BY DEF Debt
  <2> QED
    BY <1>1, <1>2, <2>1
<1>4. Promised => ListCost(Left(Depth), Depth) >= 1
  <2> DEFINE s == Left(Depth)
             d == Depth
  <2>1. s \in Lists(d) /\ d \in 1 .. 3
    BY <1>1
  <2> HIDE DEF s, d
  <2>2. s # <<>> => ListCost(s, d) >= 1
    BY <2>1, CostType
  <2> QED
    BY <2>2 DEF Promised, s, d
<1>5. Fields + Depth + 2 + Debt <= 3 * pos + (IF Promised THEN 3 ELSE 0)
  BY DEF Budgeted
<1> DEFINE f == Fields
           d == Depth
           b == Debt
           c == ListCost(Left(Depth), Depth)
<1>6. f \in Nat /\ d \in 1 .. 3 /\ b \in Nat /\ c <= b
  BY <1>1, <1>3
<1>7. c \in Nat
  BY <1>1, CostType
<1>8. CASE Promised
  <2>1. f + d + 2 + b <= 3 * pos + 3 /\ c >= 1
    BY <1>4, <1>5, <1>8
  <2> HIDE DEF f, d, b, c
  <2>2. f < 3 * pos
    BY <1>6, <1>7, <2>1
  <2> QED
    BY <1>1, <2>2 DEF f
<1>9. CASE ~Promised
  <2>1. f + d + 2 + b <= 3 * pos
    BY <1>5, <1>9
  <2> HIDE DEF f, d, b, c
  <2>2. f < 3 * pos
    BY <1>6, <1>7, <2>1
  <2> QED
    BY <1>1, <2>2 DEF f
<1> QED
  BY <1>8, <1>9

-----------------------------------------------------------------------------
(* The columns of RowDescription.                                          *)

LEMMA ReadIs ==
  ASSUME NEW ops, Reading(ops)
  PROVE  Left(Depth) # <<>> /\ Read = Head(Left(Depth)) /\ Read.op \in ops
  BY DEF Reading, Read, Top, Left

LEMMA FieldsOf == ASSUME Stacked PROVE Fields \in Nat /\ Depth \in Nat \ {0}
  BY FS_CardinalityType DEF Stacked, Fields

(* A sequence that starts with a.                                          *)
LEMMA SeqStarts ==
  ASSUME NEW S, NEW a \in S, NEW s \in Seq(S)
  PROVE  /\ <<a>> \o s \in Seq(S) /\ <<a>> \o s # <<>> /\ Head(<<a>> \o s) = a /\ Tail(<<a>> \o s) = s
         /\ Len(<<a>> \o s) = Len(s) + 1
         /\ <<>> \o s = s /\ s \o <<>> = s
<1> DEFINE t == <<a>> \o s
<1>1. <<a>> \in Seq(S) /\ Len(<<a>>) = 1 /\ <<a>>[1] = a /\ Len(s) \in Nat
  BY LenProperties
<1>2. /\ t \in Seq(S) /\ Len(t) = 1 + Len(s)
      /\ \A i \in 1 .. 1 + Len(s) : t[i] = IF i <= 1 THEN <<a>>[i] ELSE s[i - 1]
  BY <1>1, ConcatProperties
<1>3. t[1] = a /\ \A i \in 1 .. Len(s) : t[i + 1] = s[i]
  BY <1>1, <1>2
<1> HIDE DEF t
<1>4. t # <<>> 
  BY <1>1, <1>2, EmptySeq
<1>5. Head(t) = t[1] /\ Tail(t) \in Seq(S) /\ Len(Tail(t)) = Len(t) - 1
      /\ \A i \in 1 .. Len(Tail(t)) : Tail(t)[i] = t[i + 1]
  BY <1>2, <1>4, HeadTailProperties
<1>6. Tail(t) = s
  BY <1>1, <1>2, <1>3, <1>5, SeqEqual
<1> QED
  BY <1>1, <1>2, <1>3, <1>4, <1>5, <1>6, ConcatEmptySeq DEF t

LEMMA ShortLists ==
  ASSUME NEW a, NEW b
  PROVE  /\ <<a>> # <<>> /\ Head(<<a>>) = a /\ <<a, b>> # <<>> /\ Head(<<a, b>>) = a
         /\ <<>> \o Tail(<<a>>) = <<>> /\ <<b>> \o Tail(<<a>>) = <<b>>
         /\ <<>> \o Tail(<<a, b>>) = <<b>> /\ Append(<<a>>, b) = <<a, b>>
<1>1. <<a>> # <<>> /\ <<a, b>> # <<>>
  OBVIOUS
<1>2. Head(<<a>>) = a /\ Head(<<a, b>>) = a
  OBVIOUS
<1>3. <<>> \o Tail(<<a>>) = <<>>
  OBVIOUS
<1>4. <<b>> \o Tail(<<a>>) = <<b>>
  OBVIOUS
<1>5. <<>> \o Tail(<<a, b>>) = <<b>>
  OBVIOUS
<1>6. Append(<<a>>, b) = <<a, b>>
  <2> DEFINE s == Append(<<a>>, b)
             t == <<a, b>>
  <2>1. <<a>> \in Seq({a, b}) /\ Len(<<a>>) = 1 /\ <<a>>[1] = a
    OBVIOUS
  <2>2. s \in Seq({a, b}) /\ Len(s) = 2 /\ s[1] = a /\ s[2] = b
    BY <2>1, AppendProperties
  <2>3. t \in Seq({a, b}) /\ Len(t) = 2 /\ t[1] = a /\ t[2] = b
    OBVIOUS
  <2> HIDE DEF s, t
  <2>4. \A i \in 1 .. Len(s) : s[i] = t[i]
    BY <2>2, <2>3
  <2>5. s = t
    BY <2>2, <2>3, <2>4, SeqEqual
  <2> QED
    BY <2>5 DEF s, t
<1> QED
  BY <1>1, <1>2, <1>3, <1>4, <1>5, <1>6

LEMMA PairFirst == ASSUME NEW a, NEW b, NEW c PROVE <<b, c>> \o Tail(<<a>>) = <<b, c>>
  OBVIOUS

LEMMA ColumnParts ==
  /\ Column.op = "group" /\ Column.body = ColumnReads /\ Column.keep \in BOOLEAN
  /\ ColumnReads # <<>> /\ Head(ColumnReads) = CString /\ <<>> \o Tail(ColumnReads) = ColumnWidths
  /\ CString.op = "cstring" /\ ColumnWidths \in Seq(Wide) /\ Len(ColumnWidths) = 6
<1>1. Column.op = "group" /\ Column.body = ColumnReads /\ Column.keep \in BOOLEAN
  BY DEF Column, Group, ColumnReads, ColumnWidths
<1>2. ColumnWidths \in Seq(Wide) /\ Len(ColumnWidths) = 6
  <2> DEFINE ws == <<4, 2, 4, 2, 4, 2>>
  <2>1. ws \in Seq(Nat \ {0, 1}) /\ DOMAIN ws = 1 .. 6
    OBVIOUS
  <2>2. \A i \in 1 .. 6 : ws[i] \in Nat \ {0, 1}
    BY <2>1
  <2> HIDE DEF ws
  <2>3. ColumnWidths = [i \in 1 .. 6 |-> Take(ws[i])]
    BY <2>1 DEF ColumnWidths, TakeAll, ws
  <2>4. \A i \in 1 .. 6 : Take(ws[i]) \in Wide
    BY <2>2 DEF Take, Wide
  <2> QED
    BY <2>3, <2>4
<1>3. CString.op = "cstring"
  BY DEF CString
<1> HIDE DEF ColumnWidths
<1>4. CString \in Wide \cup {CString} /\ ColumnWidths \in Seq(Wide \cup {CString})
  BY <1>2
<1>5. /\ ColumnReads # <<>> /\ Head(ColumnReads) = CString /\ Tail(ColumnReads) = ColumnWidths
      /\ <<>> \o ColumnWidths = ColumnWidths
  BY <1>4, SeqStarts DEF ColumnReads
<1> QED
  BY <1>1, <1>2, <1>3, <1>5

LEMMA ColumnCount ==
  LET c == Listed(<<Column>>)
  IN  c.op = "count" /\ c.width = 2 /\ c.need = 0 /\ c.body = <<Column>> /\ c.grouped = FALSE
  BY DEF Listed

LEMMA ColumnTurn ==
  ASSUME NEW n \in Int
  PROVE  /\ ColumnLoop(n).op = "repeat" /\ ColumnLoop(n).body = <<Column>>
         /\ [ColumnLoop(n) EXCEPT !.times = @ - 1] = ColumnLoop(n - 1)
  BY DEF ColumnLoop, Repeat

(* Where the columns are, by the next read.                                *)
LEMMA ColumnHeads ==
  ASSUME Stacked, InColumns, Left(Depth) # <<>>
  PROVE  \/ Depth = 1 /\ Left(1) = ColumnsLeft /\ Head(Left(1)).op = "count" /\ Fields <= 3 * pos - 11
         \/ /\ Depth = 1 /\ Fields <= 3 * pos - 11
            /\ \E n \in Int : Left(1) = <<ColumnLoop(n)>> /\ Head(Left(1)).op = "repeat"
         \/ /\ Depth = 1 /\ Fields <= 3 * pos - 11
            /\ \E n \in Int : Left(1) = <<Column, ColumnLoop(n)>> /\ Head(Left(1)).op = "group"
         \/ /\ Depth = 2 /\ \E n \in Int : Left(1) = <<ColumnLoop(n)>>
            /\ Left(2) = ColumnReads /\ Head(Left(2)).op = "cstring" /\ Fields <= 3 * pos - 11
         \/ /\ Depth = 2 /\ \E n \in Int : Left(1) = <<ColumnLoop(n)>>
            /\ Left(2) \in Seq(Wide) /\ Len(Left(2)) <= 6 /\ Head(Left(2)).op = "take" /\ Head(Left(2)).width \in Nat \ {0, 1}
            /\ Fields <= 3 * pos - (IF Len(Left(2)) = 6 THEN 10 ELSE 12)
<1>1. CASE Depth = 1 /\ Left(1) = ColumnsLeft /\ Fields <= 3 * pos - 11
  <2>1. Head(Left(1)).op = "count"
    BY <1>1, ShortLists, ColumnCount DEF ColumnsLeft
  <2> QED
    BY <1>1, <2>1
<1>2. CASE Depth = 1 /\ Fields <= 3 * pos - 11 /\ \E n \in Int : Left(1) = <<ColumnLoop(n)>>
  <2>1. PICK n \in Int : Left(1) = <<ColumnLoop(n)>>
    BY <1>2
  <2>2. Head(Left(1)).op = "repeat"
    BY <2>1, ShortLists, ColumnTurn
  <2> QED
    BY <1>2, <2>1, <2>2
<1>3. CASE Depth = 1 /\ Fields <= 3 * pos - 11 /\ \E n \in Int : Left(1) = <<Column, ColumnLoop(n)>>
  <2>1. PICK n \in Int : Left(1) = <<Column, ColumnLoop(n)>>
    BY <1>3
  <2>2. Head(Left(1)).op = "group"
    BY <2>1, ShortLists, ColumnParts
  <2> QED
    BY <1>3, <2>1, <2>2
<1>4. CASE /\ Depth = 2 /\ \E n \in Int : Left(1) = <<ColumnLoop(n)>>
           /\ Left(2) = ColumnReads /\ Fields <= 3 * pos - 11
  <2>1. Head(Left(2)).op = "cstring"
    BY <1>4, ColumnParts
  <2> QED
    BY <1>4, <2>1
<1>5. CASE /\ Depth = 2 /\ \E n \in Int : Left(1) = <<ColumnLoop(n)>>
           /\ Left(2) \in Seq(Wide) /\ Len(Left(2)) <= 6
           /\ Fields <= 3 * pos - (IF Len(Left(2)) = 6 THEN 10 ELSE 12)
  <2>1. Left(2) # <<>> /\ Left(2) \in Seq(Wide)
    BY <1>5
  <2>2. Head(Left(2)) \in Wide
    BY <2>1, HeadTailProperties
  <2>3. Head(Left(2)).op = "take" /\ Head(Left(2)).width \in Nat \ {0, 1}
    BY <2>2 DEF Wide
  <2> QED
    BY <1>5, <2>3
<1> QED
  BY <1>1, <1>2, <1>3, <1>4, <1>5 DEF InColumns

LEMMA ColumnField ==
  ASSUME Stacked, InColumns, path \in Paths, pos \in Nat, Field
  PROVE  Stacked' /\ InColumns'
<1>1. /\ Left(Depth) # <<>> /\ Read = Head(Left(Depth)) /\ Read.op \in {"take", "rest", "cstring"}
      /\ Width \in Nat /\ Emit(Width, <<>>)
  BY ReadIs DEF Field, Fits
<1>2. /\ Stacked' /\ Depth' = Depth /\ pos' = pos + Width
      /\ Fields \in Nat /\ Fields' \in Nat /\ Fields' <= Fields + 1
      /\ Left(Depth)' = <<>> \o Tail(Left(Depth))
      /\ \A k \in 1 .. Depth - 1 : Left(k)' = Left(k)
  BY <1>1, EmitLeaves
<1>3. Depth = 2
  BY <1>1, ColumnHeads
<1>4. /\ Left(1)' = Left(1) /\ Left(2)' = <<>> \o Tail(Left(2))
      /\ \E n \in Int : Left(1) = <<ColumnLoop(n)>>
  BY <1>2, <1>3 DEF InColumns
<1>5. CASE Left(2) = ColumnReads /\ Fields <= 3 * pos - 11
  <2>1. Left(2)' \in Seq(Wide) /\ Len(Left(2)') = 6
    BY <1>4, <1>5, ColumnParts
  <2>2. Fields' <= 3 * pos' - 10
    BY <1>1, <1>2, <1>5
  <2>3. Fields' <= 3 * pos' - (IF Len(Left(2)') = 6 THEN 10 ELSE 12) /\ Len(Left(2)') <= 6
    <3> DEFINE m == Len(Left(2)')
    <3>1. m = 6
      BY <2>1
    <3> HIDE DEF m
    <3>2. Fields' <= 3 * pos' - (IF m = 6 THEN 10 ELSE 12) /\ m <= 6
      BY <2>2, <3>1
    <3> QED
      BY <3>2 DEF m
  <2>4. Depth' = 2 /\ \E n \in Int : Left(1)' = <<ColumnLoop(n)>>
    BY <1>2, <1>3, <1>4
  <2> QED
    BY <1>2, <2>1, <2>3, <2>4 DEF InColumns
<1>6. CASE /\ Left(2) \in Seq(Wide) /\ Len(Left(2)) <= 6 /\ Read.op = "take" /\ Read.width \in Nat \ {0, 1}
           /\ Fields <= 3 * pos - (IF Len(Left(2)) = 6 THEN 10 ELSE 12)
  <2>1. Left(2) # <<>>
    BY <1>1, <1>3
  <2>2. Tail(Left(2)) \in Seq(Wide) /\ Len(Tail(Left(2))) = Len(Left(2)) - 1 /\ Len(Left(2)) \in Nat
    BY <1>6, <2>1, HeadTailProperties, LenProperties
  <2>3. Left(2)' \in Seq(Wide) /\ Len(Left(2)') <= 5
    <3>1. Left(2)' = Tail(Left(2))
      BY <1>4, <2>2, ConcatEmptySeq
    <3> QED
      BY <1>6, <2>2, <3>1
  <2>4. Width >= 2
    BY <1>6 DEF Width
  <2>5. Fields' <= 3 * pos' - 12
    BY <1>1, <1>2, <1>6, <2>4
  <2> DEFINE m == Len(Left(2)')
  <2>6. m \in Nat /\ m <= 5
    BY <2>3, LenProperties
  <2> HIDE DEF m
  <2>8. m # 6 /\ m <= 6
    BY <2>6
  <2>9. Fields' <= 3 * pos' - (IF m = 6 THEN 10 ELSE 12)
    BY <2>5, <2>8
  <2>7. Depth' = 2 /\ \E n \in Int : Left(1)' = <<ColumnLoop(n)>>
    BY <1>2, <1>3, <1>4
  <2> QED
    BY <1>2, <2>3, <2>7, <2>8, <2>9 DEF InColumns, m
<1> QED
  BY <1>1, <1>3, <1>5, <1>6, ColumnHeads

LEMMA ColumnsCounted ==
  ASSUME Stacked, InColumns, path \in Paths, pos \in Nat, Count, Uint16 \in Int
  PROVE  Stacked' /\ InColumns'
<1>1. /\ Left(Depth) # <<>> /\ Read = Head(Left(Depth)) /\ Read.op = "count"
      /\ Width \in Nat /\ Emit(Width, Elements(CountRead))
  BY ReadIs DEF Count, Fits
<1>2. Depth = 1 /\ Left(1) = ColumnsLeft /\ Fields <= 3 * pos - 11
  BY <1>1, ColumnHeads
<1>3. Read = Listed(<<Column>>)
  BY <1>1, <1>2, ShortLists DEF ColumnsLeft
<1>4. Width = 2 /\ CountRead = Uint16
  BY <1>1, <1>3, ColumnCount DEF Width, CountRead
<1> DEFINE n == Uint16
<1>5. Elements(n) = IF n = 0 THEN <<>> ELSE <<ColumnLoop(n)>>
  BY <1>3, ColumnCount DEF Elements, ColumnLoop
<1>6. /\ Stacked' /\ Depth' = Depth /\ pos' = pos + 2
      /\ Fields \in Nat /\ Fields' \in Nat /\ Fields' <= Fields + 1
      /\ Left(Depth)' = Elements(n) \o Tail(Left(Depth))
  BY <1>1, <1>4, EmitLeaves
<1>7. Left(1)' = <<>> \/ Left(1)' = <<ColumnLoop(n)>>
  <2>1. Left(1)' = Elements(n) \o Tail(<<Listed(<<Column>>)>>)
    BY <1>2, <1>6 DEF ColumnsLeft
  <2> QED
    BY <1>5, <2>1, ShortLists
<1>8. Fields' <= 3 * pos' - 11
  BY <1>2, <1>6
<1> HIDE DEF n
<1>9. n \in Int
  BY DEF n
<1> QED
  BY <1>2, <1>6, <1>7, <1>8, <1>9 DEF InColumns

LEMMA ColumnsLoop ==
  ASSUME Stacked, InColumns, Loop PROVE Stacked' /\ InColumns'
<1>1. /\ Left(Depth) # <<>> /\ Read = Head(Left(Depth)) /\ Read.op \in {"repeat", "while", "untilNul"}
      /\ todo' = Then(IF More THEN Append(Read.body, Again) ELSE <<>>)
      /\ Depth' = Depth /\ pos' = pos /\ tree' = tree
  BY ReadIs DEF Loop, Depth
<1>2. Depth = 1 /\ Fields <= 3 * pos - 11 /\ \E n \in Int : Left(1) = <<ColumnLoop(n)>>
  BY <1>1, ColumnHeads
<1>3. PICK n \in Int : Left(1) = <<ColumnLoop(n)>>
  BY <1>2
<1>4. Read = ColumnLoop(n) /\ Read.op = "repeat"
  BY <1>1, <1>2, <1>3, ShortLists, ColumnTurn
<1>5. Again = ColumnLoop(n - 1) /\ Read.body = <<Column>>
  BY <1>4, ColumnTurn DEF Again
<1>6. /\ Len(todo') = Depth' /\ \E S : todo' \in Seq([reads : S, keep : BOOLEAN])
      /\ Left(Depth)' = (IF More THEN Append(Read.body, Again) ELSE <<>>) \o Tail(Left(Depth))
  BY <1>1, ThenLeaves
<1>7. Left(1)' = <<>> \/ Left(1)' = <<Column, ColumnLoop(n - 1)>>
  <2>0. Left(1)' = (IF More THEN Append(Read.body, Again) ELSE <<>>) \o Tail(Left(1))
    BY <1>1, <1>2, <1>6
  <2>1. CASE More
    <3>1. Left(1)' = Append(<<Column>>, ColumnLoop(n - 1)) \o Tail(Left(1))
      <4>1. (IF More THEN Append(Read.body, Again) ELSE <<>>) = Append(<<Column>>, ColumnLoop(n - 1))
        BY <1>5, <2>1, Zenon
      <4> QED
        BY <2>0, <4>1, Zenon
    <3>2. Append(<<Column>>, ColumnLoop(n - 1)) = <<Column, ColumnLoop(n - 1)>>
      BY ShortLists
    <3>3. Left(1)' = <<Column, ColumnLoop(n - 1)>> \o Tail(<<ColumnLoop(n)>>)
      BY <1>3, <3>1, <3>2, Zenon
    <3> QED
      BY <3>3, PairFirst
  <2>2. CASE ~More
    <3>1. Left(1)' = <<>> \o Tail(Left(1))
      BY <2>0, <2>2, Zenon
    <3> QED
      BY <1>3, <3>1, ShortLists
  <2> QED
    BY <2>1, <2>2
<1>8. Stacked'
  BY <1>1, <1>2, <1>6 DEF Stacked
<1>9. n - 1 \in Int
  OBVIOUS
<1>10. Fields' <= 3 * pos' - 11 /\ Depth' = 1
  BY <1>1, <1>2 DEF Fields
<1> QED
  BY <1>7, <1>8, <1>9, <1>10 DEF InColumns

LEMMA ColumnOpens ==
  ASSUME Stacked, InColumns, path \in Paths, OpenGroup PROVE Stacked' /\ InColumns'
<1>1. /\ Left(Depth) # <<>> /\ Read = Head(Left(Depth)) /\ Read.op = "group"
      /\ pos' = pos /\ tree' = tree
  BY ReadIs DEF OpenGroup
<1>2. Depth = 1 /\ Fields <= 3 * pos - 11 /\ \E n \in Int : Left(1) = <<Column, ColumnLoop(n)>>
  BY <1>1, ColumnHeads
<1>3. PICK n \in Int : Left(1) = <<Column, ColumnLoop(n)>>
  BY <1>2
<1>4. Read = Column
  BY <1>1, <1>2, <1>3, ShortLists
<1>5. /\ Stacked' /\ Depth' = Depth + 1
      /\ \A k \in 1 .. Depth' : Left(k)' = CASE k = Depth + 1 -> Read.body
                                              [] k = Depth -> <<>> \o Tail(Left(k))
                                              [] OTHER -> Left(k)
  BY <1>4, ColumnParts, OpenLeaves
<1>6. Depth' = 2 /\ Left(2)' = ColumnReads /\ Left(1)' = <<>> \o Tail(Left(1))
  BY <1>2, <1>4, <1>5, ColumnParts
<1>7. Left(1)' = <<ColumnLoop(n)>>
  BY <1>3, <1>6, ShortLists
<1>8. Fields' <= 3 * pos' - 11
  BY <1>1, <1>2 DEF Fields
<1> QED
  BY <1>5, <1>6, <1>7, <1>8 DEF InColumns

LEMMA ColumnCloses ==
  ASSUME Stacked, InColumns, path \in Paths, pos \in Nat, CloseGroup PROVE Stacked' /\ InColumns'
<1>1. /\ Stacked' /\ Depth' = Depth - 1 /\ Depth > 1
      /\ Fields \in Nat /\ Fields' \in Nat /\ Fields' <= Fields + 1
      /\ \A k \in 1 .. Depth - 1 : Left(k)' = Left(k)
  BY CloseLeaves
<1>2. Left(Depth) = <<>> /\ pos' = pos
  BY DEF CloseGroup, CaseOver, Top, Left
<1>3. Depth = 2 /\ \E n \in Int : Left(1) = <<ColumnLoop(n)>>
  BY <1>1 DEF InColumns
<1>4. Fields <= 3 * pos - 12
  <2>1. Left(2) = <<>>
    BY <1>2, <1>3
  <2>2. Left(2) # ColumnReads
    BY <2>1, ColumnParts
  <2>3. Fields <= 3 * pos - (IF Len(Left(2)) = 6 THEN 10 ELSE 12)
    BY <1>3, <2>2 DEF InColumns
  <2>4. Len(Left(2)) # 6
    BY <2>1
  <2> QED
    BY <2>3, <2>4
<1>5. Fields' <= 3 * pos' - 11
  BY <1>1, <1>2, <1>4
<1>6. Left(1)' = Left(1) /\ Depth' = 1
  BY <1>1, <1>3
<1> QED
  BY <1>1, <1>3, <1>5, <1>6 DEF InColumns

-----------------------------------------------------------------------------
(* The options of NegotiateProtocolVersion.                                *)

LEMMA OptionParts ==
  /\ Take(4).op = "take" /\ Take(4).width = 4
  /\ OptionCount.op = "count" /\ OptionCount.width = 4 /\ OptionCount.need = 0
  /\ OptionCount.body = <<CString>> /\ OptionCount.grouped = TRUE
  /\ CString.op = "cstring"
  BY DEF Take, OptionCount, Counted, CString

LEMMA OptionTurn ==
  ASSUME NEW n \in Int
  PROVE  /\ OptionLoop(n).op = "repeat" /\ OptionLoop(n).times = n /\ OptionLoop(n).body = <<CString>>
         /\ [OptionLoop(n) EXCEPT !.times = @ - 1] = OptionLoop(n - 1)
         /\ OptionGroup(n).op = "group" /\ OptionGroup(n).body = <<OptionLoop(n)>>
         /\ OptionGroup(n).keep \in BOOLEAN
<1>1. /\ OptionLoop(n).op = "repeat" /\ OptionLoop(n).times = n /\ OptionLoop(n).body = <<CString>>
      /\ [OptionLoop(n) EXCEPT !.times = @ - 1] = OptionLoop(n - 1)
  BY DEF OptionLoop, Repeat
<1>2. /\ OptionGroup(n).op = "group" /\ OptionGroup(n).body = <<OptionLoop(n)>>
      /\ OptionGroup(n).keep \in BOOLEAN
  BY DEF OptionGroup, Group
<1> QED
  BY <1>1, <1>2

(* Where the options are, by the next read.                                *)
LEMMA OptionHeads ==
  ASSUME InOptions, Left(Depth) # <<>>
  PROVE  \/ Depth = 1 /\ Left(1) = OptionsLeft /\ Head(Left(1)) = Take(4) /\ Fields <= 2
         \/ Depth = 1 /\ Left(1) = <<OptionCount>> /\ Head(Left(1)) = OptionCount /\ Fields <= 3
         \/ /\ Depth = 1 /\ Fields <= 4
            /\ \E n \in 0 .. Len(raw) :
                 Left(1) = <<OptionGroup(n)>> /\ Head(Left(1)) = OptionGroup(n) /\ OptionGroup(n).op = "group"
         \/ /\ Depth = 2 /\ Left(1) = <<>>
            /\ \E n \in Nat : /\ Left(2) = <<OptionLoop(n)>> /\ Head(Left(2)) = OptionLoop(n)
                              /\ OptionLoop(n).op = "repeat" /\ Fields <= Len(raw) + 4 - n
         \/ /\ Depth = 2 /\ Left(1) = <<>>
            /\ \E n \in Nat : /\ Left(2) = <<CString, OptionLoop(n)>> /\ Head(Left(2)) = CString
                              /\ Fields <= Len(raw) + 3 - n
<1>1. CASE Depth = 1 /\ Left(1) = OptionsLeft /\ Fields <= 2
  BY <1>1, ShortLists DEF OptionsLeft
<1>2. CASE Depth = 1 /\ Left(1) = <<OptionCount>> /\ Fields <= 3
  BY <1>2, ShortLists
<1>3. CASE Depth = 1 /\ Fields <= 4 /\ \E n \in 0 .. Len(raw) : Left(1) = <<OptionGroup(n)>>
  <2>1. PICK n \in 0 .. Len(raw) : Left(1) = <<OptionGroup(n)>>
    BY <1>3
  <2>2. n \in Int
    OBVIOUS
  <2>3. Head(Left(1)) = OptionGroup(n) /\ OptionGroup(n).op = "group"
    BY <2>1, <2>2, ShortLists, OptionTurn
  <2> QED
    BY <1>3, <2>1, <2>3
<1>4. CASE /\ Depth = 2 /\ Left(1) = <<>>
           /\ \E n \in Nat : Left(2) = <<OptionLoop(n)>> /\ Fields <= Len(raw) + 4 - n
  <2>1. PICK n \in Nat : Left(2) = <<OptionLoop(n)>> /\ Fields <= Len(raw) + 4 - n
    BY <1>4
  <2>2. n \in Int
    OBVIOUS
  <2>3. Head(Left(2)) = OptionLoop(n) /\ OptionLoop(n).op = "repeat"
    BY <2>1, <2>2, ShortLists, OptionTurn
  <2> QED
    BY <1>4, <2>1, <2>3
<1>5. CASE /\ Depth = 2 /\ Left(1) = <<>>
           /\ \E n \in Nat : Left(2) = <<CString, OptionLoop(n)>> /\ Fields <= Len(raw) + 3 - n
  <2>1. PICK n \in Nat : Left(2) = <<CString, OptionLoop(n)>> /\ Fields <= Len(raw) + 3 - n
    BY <1>5
  <2>2. Head(Left(2)) = CString
    BY <2>1, ShortLists
  <2> QED
    BY <1>5, <2>1, <2>2
<1> QED
  BY <1>1, <1>2, <1>3, <1>4, <1>5 DEF InOptions

LEMMA OptionField ==
  ASSUME Stacked, InOptions, path \in Paths, pos \in Nat, Len(raw) \in Nat, Field
  PROVE  Stacked' /\ InOptions'
<1>1. /\ Left(Depth) # <<>> /\ Read = Head(Left(Depth)) /\ Read.op \in {"take", "rest", "cstring"}
      /\ Width \in Nat /\ Emit(Width, <<>>) /\ raw' = raw
  BY ReadIs DEF Field, Fits, Emit, raw
<1>2. /\ Stacked' /\ Depth' = Depth /\ pos' = pos + Width
      /\ Fields \in Nat /\ Fields' \in Nat /\ Fields' <= Fields + 1
      /\ Left(Depth)' = <<>> \o Tail(Left(Depth))
      /\ \A k \in 1 .. Depth - 1 : Left(k)' = Left(k)
  BY <1>1, EmitLeaves
<1>3. pos' >= 5
  BY <1>1, <1>2 DEF InOptions
<1>4. CASE Depth = 1 /\ Left(1) = OptionsLeft /\ Fields <= 2
  <2>1. Left(1)' = <<>> \o Tail(Left(1)) /\ Depth' = 1
    BY <1>2, <1>4
  <2>2. Left(1)' = <<OptionCount>>
    BY <1>4, <2>1, ShortLists DEF OptionsLeft
  <2>3. Fields' <= 3
    BY <1>2, <1>4
  <2> QED
    BY <1>2, <1>3, <2>1, <2>2, <2>3 DEF InOptions
<1>5. CASE /\ Depth = 2 /\ Left(1) = <<>>
           /\ \E n \in Nat : Left(2) = <<CString, OptionLoop(n)>> /\ Fields <= Len(raw) + 3 - n
  <2>1. PICK n \in Nat : Left(2) = <<CString, OptionLoop(n)>> /\ Fields <= Len(raw) + 3 - n
    BY <1>5
  <2>2. Left(2)' = <<>> \o Tail(Left(2)) /\ Left(1)' = <<>> /\ Depth' = 2
    BY <1>2, <1>5
  <2>3. Left(2)' = <<OptionLoop(n)>>
    BY <2>1, <2>2, ShortLists
  <2>4. Fields' <= Len(raw)' + 4 - n
    BY <1>1, <1>2, <2>1
  <2> QED
    BY <1>2, <1>3, <2>2, <2>3, <2>4 DEF InOptions
<1>6. Read.op \notin {"count", "group", "repeat"}
  BY <1>1
<1> QED
  BY <1>1, <1>4, <1>5, <1>6, OptionHeads, OptionParts

LEMMA OptionsCounted ==
  ASSUME Stacked, InOptions, path \in Paths, pos \in Nat, Len(raw) \in Nat, Count
  PROVE  Stacked' /\ InOptions'
<1>1. /\ Left(Depth) # <<>> /\ Read = Head(Left(Depth)) /\ Read.op = "count" /\ ~Refused
      /\ Width \in Nat /\ Emit(Width, Elements(CountRead)) /\ raw' = raw
  BY ReadIs DEF Count, Fits, Emit, raw
<1>2. Depth = 1 /\ Left(1) = <<OptionCount>> /\ Read = OptionCount /\ Fields <= 3
  BY <1>1, OptionHeads, OptionParts
<1>3. CountRead = Int32
  BY <1>2, OptionParts DEF CountRead
<1> DEFINE n == CountRead
<1>4. n \in 0 .. Remaining
  BY <1>1, <1>2, <1>3, OptionParts DEF Refused
<1>5. n \in 0 .. Len(raw)
  BY <1>4 DEF Remaining
<1>6. Elements(n) = IF n = 0 THEN <<>> ELSE <<OptionGroup(n)>>
  BY <1>2, OptionParts DEF Elements, OptionGroup, OptionLoop
<1> HIDE DEF n
<1>7. /\ Stacked' /\ Depth' = Depth /\ pos' = pos + Width
      /\ Fields \in Nat /\ Fields' \in Nat /\ Fields' <= Fields + 1
      /\ Left(Depth)' = Elements(n) \o Tail(Left(Depth))
  BY <1>1, EmitLeaves DEF n
<1>8. Left(1)' = <<>> \/ Left(1)' = <<OptionGroup(n)>>
  <2>1. Left(1)' = Elements(n) \o Tail(Left(1))
    BY <1>2, <1>7
  <2> QED
    BY <1>2, <1>6, <2>1, ShortLists
<1>9. pos' >= 5 /\ Depth' = 1
  BY <1>1, <1>2, <1>7 DEF InOptions
<1>10. Fields' <= 4
  BY <1>2, <1>7
<1>11. CASE Left(1)' = <<>>
  <2>1. Fields' <= Len(raw)' + 5
    BY <1>1, <1>7, <1>10
  <2> QED
    BY <1>7, <1>9, <1>11, <2>1 DEF InOptions
<1>12. CASE Left(1)' = <<OptionGroup(n)>>
  <2>1. n \in 0 .. Len(raw)'
    BY <1>1, <1>5
  <2> QED
    BY <1>7, <1>9, <1>10, <1>12, <2>1 DEF InOptions
<1> QED
  BY <1>8, <1>11, <1>12

LEMMA OptionsLoop ==
  ASSUME Stacked, InOptions, Len(raw) \in Nat, Loop PROVE Stacked' /\ InOptions'
<1>1. /\ Left(Depth) # <<>> /\ Read = Head(Left(Depth)) /\ Read.op \in {"repeat", "while", "untilNul"}
      /\ todo' = Then(IF More THEN Append(Read.body, Again) ELSE <<>>)
      /\ Depth' = Depth /\ pos' = pos /\ tree' = tree /\ raw' = raw
  BY ReadIs DEF Loop, Depth, raw
<1>2. /\ Depth = 2 /\ Left(1) = <<>>
      /\ \E n \in Nat : Left(2) = <<OptionLoop(n)>> /\ Read = OptionLoop(n) /\ Fields <= Len(raw) + 4 - n
  BY <1>1, OptionHeads, OptionParts
<1>3. PICK n \in Nat : Left(2) = <<OptionLoop(n)>> /\ Read = OptionLoop(n) /\ Fields <= Len(raw) + 4 - n
  BY <1>2
<1>4. Read.op = "repeat" /\ Read.body = <<CString>> /\ Read.times = n /\ Again = OptionLoop(n - 1)
  <2>1. n \in Int
    OBVIOUS
  <2> QED
    BY <1>3, <2>1, OptionTurn DEF Again
<1>5. /\ Len(todo') = Depth' /\ \E S : todo' \in Seq([reads : S, keep : BOOLEAN])
      /\ Left(Depth)' = (IF More THEN Append(Read.body, Again) ELSE <<>>) \o Tail(Left(Depth))
      /\ \A k \in 1 .. Depth - 1 : Left(k)' = Left(k)
  BY <1>1, ThenLeaves
<1>6. /\ Left(2)' = (IF More THEN Append(Read.body, Again) ELSE <<>>) \o Tail(Left(2))
      /\ Left(1)' = <<>> /\ Depth' = 2
  <2>1. Depth = 2 /\ Depth' = 2 /\ 1 \in 1 .. Depth - 1
    BY <1>1, <1>2
  <2>2. Left(1)' = <<>>
    BY <1>2, <1>5, <2>1
  <2> DEFINE x == IF More THEN Append(Read.body, Again) ELSE <<>>
  <2>3. Left(Depth)' = x \o Tail(Left(Depth))
    BY <1>5
  <2> HIDE DEF x
  <2>4. Left(2)' = x \o Tail(Left(2))
    BY <2>1, <2>3
  <2> QED
    BY <2>1, <2>2, <2>4 DEF x
<1>7. Stacked' /\ Fields' = Fields /\ pos' >= 5 /\ Fields \in Nat
  BY <1>1, <1>2, <1>5, FieldsOf DEF Stacked, Fields, InOptions
<1>8. CASE More
  <2>1. Left(2)' = Append(<<CString>>, OptionLoop(n - 1)) \o Tail(Left(2))
    BY <1>4, <1>6, <1>8, Zenon
  <2>2. Append(<<CString>>, OptionLoop(n - 1)) = <<CString, OptionLoop(n - 1)>>
    BY ShortLists
  <2>3. Left(2)' = <<CString, OptionLoop(n - 1)>> \o Tail(<<OptionLoop(n)>>)
    BY <1>3, <2>1, <2>2, Zenon
  <2>4. Left(2)' = <<CString, OptionLoop(n - 1)>>
    BY <2>3, PairFirst
  <2>5. n > 0
    BY <1>4, <1>8 DEF More
  <2>6. n - 1 \in Nat
    BY <2>5
  <2>7. Fields' <= Len(raw)' + 3 - (n - 1)
    BY <1>1, <1>3, <1>7
  <2> QED
    BY <1>6, <1>7, <2>4, <2>6, <2>7 DEF InOptions
<1>9. CASE ~More
  <2>1. Left(2)' = <<>> \o Tail(Left(2))
    BY <1>6, <1>9, Zenon
  <2>2. Left(2)' = <<>>
    BY <1>3, <2>1, ShortLists
  <2>3. Fields' <= Len(raw)' + 4
    BY <1>1, <1>3, <1>7
  <2> QED
    BY <1>6, <1>7, <2>2, <2>3 DEF InOptions
<1> QED
  BY <1>8, <1>9

LEMMA OptionOpens ==
  ASSUME Stacked, InOptions, path \in Paths, Len(raw) \in Nat, OpenGroup PROVE Stacked' /\ InOptions'
<1>1. /\ Left(Depth) # <<>> /\ Read = Head(Left(Depth)) /\ Read.op = "group"
      /\ pos' = pos /\ tree' = tree /\ raw' = raw
  BY ReadIs DEF OpenGroup, raw
<1>2. /\ Depth = 1 /\ Fields <= 4
      /\ \E n \in 0 .. Len(raw) : Left(1) = <<OptionGroup(n)>> /\ Read = OptionGroup(n)
  BY <1>1, OptionHeads, OptionParts
<1>3. PICK n \in 0 .. Len(raw) : Left(1) = <<OptionGroup(n)>> /\ Read = OptionGroup(n)
  BY <1>2
<1>4. Read.body = <<OptionLoop(n)>> /\ Read.keep \in BOOLEAN
  <2>1. n \in Int
    OBVIOUS
  <2> QED
    BY <1>3, <2>1, OptionTurn
<1>5. /\ Stacked' /\ Depth' = Depth + 1
      /\ \A k \in 1 .. Depth' : Left(k)' = CASE k = Depth + 1 -> Read.body
                                              [] k = Depth -> <<>> \o Tail(Left(k))
                                              [] OTHER -> Left(k)
  BY <1>4, OpenLeaves
<1>6. Depth' = 2 /\ Left(2)' = <<OptionLoop(n)>> /\ Left(1)' = <<>> \o Tail(Left(1))
  BY <1>2, <1>4, <1>5
<1>7. Left(1)' = <<>>
  BY <1>3, <1>6, ShortLists
<1>8. Fields' = Fields /\ Fields \in Nat /\ pos' >= 5
  BY <1>1, FieldsOf DEF Fields, InOptions
<1>9. n \in Nat /\ Fields' <= Len(raw)' + 4 - n
  BY <1>1, <1>2, <1>3, <1>8
<1> QED
  BY <1>5, <1>6, <1>7, <1>8, <1>9 DEF InOptions

LEMMA OptionCloses ==
  ASSUME Stacked, InOptions, path \in Paths, pos \in Nat, Len(raw) \in Nat, CloseGroup
  PROVE  Stacked' /\ InOptions'
<1>1. /\ Stacked' /\ Depth' = Depth - 1 /\ Depth > 1
      /\ Fields \in Nat /\ Fields' \in Nat /\ Fields' <= Fields + 1
      /\ \A k \in 1 .. Depth - 1 : Left(k)' = Left(k)
  BY CloseLeaves
<1>2. Left(Depth) = <<>> /\ pos' = pos /\ raw' = raw
  BY DEF CloseGroup, CaseOver, Top, Left, raw
<1>3. Depth = 2 /\ Left(1) = <<>>
  BY <1>1 DEF InOptions
<1>4. Fields <= Len(raw) + 4
  BY <1>1, <1>2, <1>3 DEF InOptions
<1>5. Fields' <= Len(raw)' + 5
  BY <1>1, <1>2, <1>4
<1>6. Left(1)' = <<>> /\ Depth' = 1 /\ pos' >= 5
  BY <1>1, <1>2, <1>3 DEF InOptions
<1> QED
  BY <1>1, <1>5, <1>6 DEF InOptions

-----------------------------------------------------------------------------
(* The header.                                                             *)

LEMMA AfterHeaderIsList ==
  ASSUME NEW s, AfterHeader(s) PROVE \E S : s \in Seq(S) /\ {Take(1), Take(4)} \subseteq S
<1>1. CASE s \in Payloads
  <2>1. s \in Seq(Pieces(1)) /\ Take(1) \in Pieces(1) /\ Take(4) \in Pieces(1)
    BY <1>1, FlatPieces DEF Payloads, Lists, FlatReads, Take
  <2> QED
    BY <2>1
<1>2. CASE s = ColumnsLeft
  <2>1. s \in Seq({Listed(<<Column>>), Take(1), Take(4)})
    BY <1>2 DEF ColumnsLeft
  <2> QED
    BY <2>1
<1>3. CASE s = OptionsLeft
  <2>1. s \in Seq({OptionCount, Take(1), Take(4)})
    BY <1>3 DEF OptionsLeft
  <2> QED
    BY <2>1
<1> QED
  BY <1>1, <1>2, <1>3 DEF AfterHeader

LEMMA HeaderHeads ==
  ASSUME NEW s, AfterHeader(s), NEW a \in {1, 4}
  PROVE  /\ <<Take(a), Take(4)>> \o s # <<>> /\ Head(<<Take(a), Take(4)>> \o s) = Take(a)
         /\ Tail(<<Take(a), Take(4)>> \o s) = <<Take(4)>> \o s
         /\ <<Take(4)>> \o s # <<>> /\ Head(<<Take(4)>> \o s) = Take(4) /\ Tail(<<Take(4)>> \o s) = s
         /\ <<>> \o s = s /\ <<>> \o (<<Take(4)>> \o s) = <<Take(4)>> \o s
<1>1. PICK S : s \in Seq(S) /\ {Take(1), Take(4)} \subseteq S
  BY AfterHeaderIsList
<1>2. Take(a) \in S /\ Take(4) \in S
  BY <1>1
<1> DEFINE t == <<Take(4)>> \o s
<1>3. /\ t \in Seq(S) /\ t # <<>> /\ Head(t) = Take(4) /\ Tail(t) = s /\ <<>> \o s = s
  BY <1>1, <1>2, SeqStarts
<1>4. <<Take(a), Take(4)>> \o s = <<Take(a)>> \o t
  <2>1. <<Take(a)>> \in Seq(S) /\ <<Take(4)>> \in Seq(S)
    BY <1>2
  <2>2. <<Take(a), Take(4)>> = <<Take(a)>> \o <<Take(4)>>
    OBVIOUS
  <2> QED
    BY <1>1, <2>1, <2>2, ConcatAssociative
<1> HIDE DEF t
<1>5. /\ <<Take(a)>> \o t # <<>> /\ Head(<<Take(a)>> \o t) = Take(a) /\ Tail(<<Take(a)>> \o t) = t /\ <<>> \o t = t
  BY <1>2, <1>3, SeqStarts
<1> QED
  BY <1>3, <1>4, <1>5 DEF t

LEMMA HeaderField ==
  ASSUME Stacked, InHeader, path \in Paths, Field
  PROVE  Stacked' /\ (InHeader' \/ Budgeted' \/ InColumns' \/ InOptions')
<1>1. /\ Left(Depth) # <<>> /\ Read = Head(Left(Depth)) /\ Width \in Nat /\ Emit(Width, <<>>)
      /\ Depth = 1
  BY ReadIs DEF Field, Fits, InHeader
<1>0. pos \in Nat
  BY DEF InHeader
<1>2. /\ Stacked' /\ Depth' = Depth /\ pos' = pos + Width
      /\ Fields \in Nat /\ Fields' \in Nat /\ Fields' <= Fields + 1
      /\ Left(Depth)' = <<>> \o Tail(Left(Depth))
  BY <1>0, <1>1, EmitLeaves
<1>3. Left(1)' = <<>> \o Tail(Left(1)) /\ Read = Head(Left(1)) /\ Depth' = 1
  BY <1>1, <1>2
<1>4. ASSUME NEW a \in {1, 4}, NEW s, AfterHeader(s), Left(1) = <<Take(a), Take(4)>> \o s, pos = 0, Fields = 0
      PROVE  InHeader'
  <2>1. Left(1)' = <<Take(4)>> \o s /\ Read = Take(a)
    BY <1>3, <1>4, HeaderHeads
  <2>2. Width = a
    BY <2>1 DEF Width, Take
  <2>3. pos' \in {1, 4} /\ Fields' <= 1
    BY <1>2, <1>4, <2>2
  <2> QED
    BY <1>3, <1>4, <2>1, <2>3 DEF InHeader
<1>5. ASSUME NEW s, AfterHeader(s), Left(1) = <<Take(4)>> \o s, pos \in {1, 4}, Fields <= 1
      PROVE  Budgeted' \/ InColumns' \/ InOptions'
  <2>1. Left(1)' = s /\ Read = Take(4)
    <3>1. 4 \in {1, 4}
      OBVIOUS
    <3> QED
      BY <1>3, <1>5, <3>1, HeaderHeads
  <2>2. Width = 4
    BY <2>1 DEF Width, Take
  <2>3. pos' \in Nat /\ pos' >= 5 /\ Fields' <= 2
    BY <1>2, <1>5, <2>2
  <2>4. CASE s \in Payloads
    <3>1. Left(1)' \in Lists(1) /\ ListCost(Left(1)', 1) \in Nat /\ ListCost(Left(1)', 1) <= 10
      BY <2>1, <2>4, CostType DEF Payloads
    <3>2. Cost(1)' = ListCost(Left(1)', 1) /\ Cost(2)' = 0 /\ Cost(3)' = 0
      BY <1>3 DEF Cost
    <3>3. Debt' = ListCost(Left(1)', 1)
      BY <3>1, <3>2 DEF Debt
    <3> DEFINE f == Fields'
               c == ListCost(Left(1)', 1)
               p == pos'
    <3>4. f \in Nat /\ f <= 2 /\ c \in Nat /\ c <= 10 /\ p \in Nat /\ p >= 5
      BY <1>2, <2>3, <3>1
    <3> HIDE DEF f, c, p
    <3>5. f + 1 + 2 + c <= 3 * p + 0 /\ f + 1 + 2 + c <= 3 * p + 3
      BY <3>4
    <3>6. f + 1 + 2 + c <= 3 * p + (IF Promised' THEN 3 ELSE 0)
      BY <3>5
    <3>7. Fields' + Depth' + 2 + Debt' <= 3 * pos' + (IF Promised' THEN 3 ELSE 0)
      BY <1>3, <3>3, <3>6 DEF f, c, p
    <3>8. Depth' <= 3 /\ \A k \in 1 .. Depth' : Left(k)' \in Lists(k)
      BY <1>3, <3>1
    <3> QED
      BY <3>7, <3>8 DEF Budgeted
  <2>5. CASE s = ColumnsLeft
    <3>1. Fields' <= 3 * pos' - 11
      BY <1>2, <2>3
    <3> QED
      BY <1>3, <2>1, <2>5, <3>1 DEF InColumns
  <2>6. CASE s = OptionsLeft
    BY <1>3, <2>1, <2>3, <2>6 DEF InOptions
  <2> QED
    BY <1>5, <2>4, <2>5, <2>6 DEF AfterHeader
<1>6. \/ \E a \in {1, 4} : \E s : AfterHeader(s) /\ Left(1) = <<Take(a), Take(4)>> \o s /\ pos = 0 /\ Fields = 0
      \/ \E s : AfterHeader(s) /\ Left(1) = <<Take(4)>> \o s /\ pos \in {1, 4} /\ Fields <= 1
  BY <1>1 DEF InHeader
<1> QED
  BY <1>2, <1>4, <1>5, <1>6

(* Nothing but fields is read there.                                       *)
LEMMA HeaderReads ==
  ASSUME InHeader, Left(Depth) # <<>> PROVE Head(Left(Depth)).op = "take"
<1>1. \A w : Take(w).op = "take"
  BY DEF Take
<1>2. \E w : Head(Left(1)) = Take(w)
  <2>1. \A s, a : AfterHeader(s) /\ a \in {1, 4} => Head(<<Take(a), Take(4)>> \o s) = Take(a)
    BY HeaderHeads
  <2>2. \A s : AfterHeader(s) => Head(<<Take(4)>> \o s) = Take(4)
    BY HeaderHeads
  <2> QED
    BY <2>1, <2>2 DEF InHeader
<1> QED
  BY <1>1, <1>2 DEF InHeader

-----------------------------------------------------------------------------
(* The layouts.                                                            *)

(* What is no group of reads: it costs two.                                *)
Plain == Pieces(1) \ FlatGroups

LEMMA PlainPayload == ASSUME NEW s \in Seq(Plain), Len(s) <= 5 PROVE s \in Payloads
<1>1. s \in Seq(Pieces(1)) /\ Len(s) \in Nat
  <2>1. Plain \subseteq Pieces(1)
    BY DEF Plain
  <2> QED
    BY <2>1, SeqMonotonic, LenProperties
<1>2. \A i \in 1 .. Len(s) : s[i] \notin FlatGroups
  BY ElementOfSeq DEF Plain
<1>3. s \in Lists(1)
  BY <1>1, <1>2 DEF Lists
<1>4. ListCost(s, 1) = Len(s) + Len(s)
  <2>1. CASE s = <<>>
    BY <1>1, <2>1 DEF ListCost
  <2>2. CASE s # <<>>
    <3>1. Head(s) = s[1] /\ Len(s) > 0
      BY <1>3, <2>2, CostType
    <3>2. Inner(Head(s)) = 0
      BY <1>1, <1>2, <3>1 DEF Inner
    <3> QED
      BY <1>1, <2>2, <3>2 DEF ListCost
  <2> QED
    BY <2>1, <2>2
<1> QED
  BY <1>1, <1>3, <1>4 DEF Payloads

LEMMA FieldsArePlain ==
  /\ \A w \in Nat : Take(w) \in FlatReads /\ Take(w).op = "take" /\ Take(w).width = w
  /\ CString \in FlatReads /\ CString.op = "cstring"
  /\ Rest \in FlatReads /\ Rest.op = "rest"
  /\ Length \in FlatReads /\ Length.op = "length"
  /\ FlatReads \subseteq Plain
<1>1. \A w \in Nat : Take(w) \in FlatReads /\ Take(w).op = "take" /\ Take(w).width = w
  BY DEF FlatReads, Take
<1>2. /\ CString \in FlatReads /\ CString.op = "cstring"
      /\ Rest \in FlatReads /\ Rest.op = "rest"
      /\ Length \in FlatReads /\ Length.op = "length"
  BY DEF FlatReads, CString, Rest, Length
<1>3. FlatReads \subseteq Plain
  BY FlatPieces, KindsOfReads DEF Plain
<1> QED
  BY <1>1, <1>2, <1>3

LEMMA GroupOfReads ==
  ASSUME NEW s \in Seq(FlatReads), NEW keep \in BOOLEAN
  PROVE  /\ Group(s, keep) \in FlatGroups /\ Group(s, keep).op = "group"
         /\ Group(s, keep).body = s /\ Inner(Group(s, keep)) = Len(s)
<1>1. Group(s, keep) \in FlatGroups /\ Group(s, keep).op = "group" /\ Group(s, keep).body = s
  BY DEF Group, FlatGroups
<1> QED
  BY <1>1 DEF Inner

LEMMA OneGroup ==
  ASSUME NEW s \in Seq(FlatReads), Len(s) <= 8 PROVE <<Group(s, TRUE)>> \in Payloads
<1> DEFINE g == Group(s, TRUE)
<1>1. g \in FlatGroups /\ Inner(g) = Len(s) /\ Len(s) \in Nat
  BY GroupOfReads, LenProperties
<1> HIDE DEF g
<1>2. g \in Pieces(1)
  BY <1>1, FlatPieces
<1>3. <<g>> \in Lists(1)
  <2>1. <<g>> \in Seq(Pieces(1)) /\ Len(<<g>>) = 1
    BY <1>2
  <2>2. 2 .. 1 = {}
    OBVIOUS
  <2> QED
    BY <2>1, <2>2 DEF Lists
<1>4. ListCost(<<g>>, 1) = 1 + 1 + Len(s)
  <2>1. <<g>> # <<>> /\ Head(<<g>>) = g /\ Len(<<g>>) = 1
    BY ShortLists
  <2> QED
    BY <1>1, <2>1 DEF ListCost
<1> QED
  BY <1>1, <1>3, <1>4 DEF Payloads, g

LEMMA BodyOf ==
  ASSUME NEW b \in FlatReads \cup FlatGroups
  PROVE  <<b>> \in Bodies /\ Head(<<b>>) = b
<1>1. <<b>> \in Seq(FlatReads \cup FlatGroups) /\ Len(<<b>>) = 1
  OBVIOUS
<1> QED
  BY <1>1, ShortLists DEF Bodies

LEMMA LoopOf ==
  ASSUME NEW b \in FlatReads \cup FlatGroups, NEW need \in Nat, NEW most, Advances(b, need), Inner(b) <= most
  PROVE  /\ \A n \in Int : Repeat(n, need, <<b>>) \in Loops(most)
         /\ While(need, <<b>>) \in Loops(most)
         /\ need = 1 => UntilNul(<<b>>) \in Loops(most)
<1> DEFINE body == <<b>>
<1>1. body \in Bodies /\ Feeds(body, need, most)
  BY BodyOf DEF Feeds
<1> HIDE DEF body
<1>2. \A n \in Int : /\ Repeat(n, need, body) \in [op : {"repeat"}, times : Int, need : Nat, body : Bodies]
                     /\ Repeat(n, need, body).body = body /\ Repeat(n, need, body).need = need
  BY <1>1 DEF Repeat
<1>3. /\ While(need, body) \in [op : {"while", "untilNul"}, need : Nat, body : Bodies]
      /\ While(need, body).body = body /\ While(need, body).need = need
  BY <1>1 DEF While
<1>4. /\ UntilNul(body) \in [op : {"while", "untilNul"}, need : Nat, body : Bodies]
      /\ UntilNul(body).body = body /\ UntilNul(body).need = 1
  BY <1>1 DEF UntilNul
<1>5. \A n \in Int : Repeat(n, need, body) \in Loops(most)
  BY <1>1, <1>2 DEF Loops
<1>6. While(need, body) \in Loops(most)
  BY <1>1, <1>3 DEF Loops
<1>7. need = 1 => UntilNul(body) \in Loops(most)
  BY <1>1, <1>4 DEF Loops
<1> QED
  BY <1>5, <1>6, <1>7 DEF body

LEMMA CountOf ==
  ASSUME NEW b \in FlatReads \cup FlatGroups, NEW need \in Nat, Advances(b, need), Inner(b) <= 1, Inner(b) \in Nat
  PROVE  Counted(2, need, <<b>>) \in Plain /\ (need = 0 => Listed(<<b>>) \in Plain)
<1> DEFINE body == <<b>>
<1>1. body \in Bodies /\ Feeds(body, need, 1) /\ Feeds(body, need, 2)
  BY BodyOf DEF Feeds
<1> HIDE DEF body
<1>2. LET c == Counted(2, need, body)
      IN  /\ c \in [op : {"count"}, width : {2}, need : Nat, body : Bodies, grouped : BOOLEAN]
          /\ c.body = body /\ c.need = need /\ c.grouped = TRUE
  BY <1>1 DEF Counted
<1>3. LET c == Listed(body)
      IN  /\ c \in [op : {"count"}, width : {2}, need : Nat, body : Bodies, grouped : BOOLEAN]
          /\ c.body = body /\ c.need = 0 /\ c.grouped = FALSE
  BY <1>1 DEF Listed
<1>4. Counted(2, need, body) \in Counts
  BY <1>1, <1>2 DEF Counts
<1>5. need = 0 => Listed(body) \in Counts
  BY <1>1, <1>3 DEF Counts
<1>6. Counts \subseteq Plain
  <2>1. Counts \subseteq Pieces(1)
    BY DEF Pieces
  <2> QED
    BY <2>1, KindsOfReads DEF Plain
<1> QED
  BY <1>4, <1>5, <1>6 DEF body

LEMMA GroupOfLoop ==
  ASSUME NEW r \in Loops(2), NEW keep \in BOOLEAN
  PROVE  Group(<<r>>, keep) \in LoopGroups /\ Group(<<r>>, keep) \in Plain
<1>1. <<r>> \in Seq(Loops(2)) /\ Len(<<r>>) = 1
  OBVIOUS
<1>2. Group(<<r>>, keep) \in LoopGroups
  <2> DEFINE s == <<r>>
  <2> HIDE DEF s
  <2>1. s \in {x \in Seq(Loops(2)) : Len(x) = 1}
    BY <1>1 DEF s
  <2>2. Group(s, keep) \in LoopGroups
    BY <2>1 DEF Group, LoopGroups
  <2> QED
    BY <2>2 DEF s
<1>3. LoopGroups \subseteq Pieces(1)
  BY DEF Pieces
<1> QED
  BY <1>2, <1>3, LoopGroupsApart DEF Plain

(* The reads the layouts are made of.                                      *)
LEMMA LayoutReads ==
  /\ \A w \in Nat : Take(w) \in Plain
  /\ CString \in Plain /\ Rest \in Plain
  /\ Optional(1, Rest) \in Plain /\ Optional(1, Take(1)) \in Plain /\ Optional(2, Take(2)) \in Plain
  /\ \A need \in Nat : \A w \in Nat \ {0} : Counted(2, need, <<Take(w)>>) \in Plain
  /\ \A need \in Nat : Counted(2, need, <<LengthPrefixedOrNull>>) \in Plain
  /\ Listed(<<LengthPrefixedOrNull>>) \in Plain
  /\ LengthPrefixedOrNull \in FlatGroups
<1>1. Loops(1) \subseteq Plain
  BY FlatPieces, KindsOfReads DEF Plain
<1>2. ASSUME NEW r \in FlatReads, NEW n \in Nat, r.op = "take" => r.width > 0, r.op # "take" => n > 0
      PROVE  r \in FlatReads \cup FlatGroups /\ Advances(r, n) /\ Inner(r) = 0
  BY <1>2, KindsOfReads DEF Advances, Explains, Inner
<1>3. /\ Take(1) \in FlatReads /\ Advances(Take(1), 1) /\ Inner(Take(1)) = 0
      /\ Take(2) \in FlatReads /\ Advances(Take(2), 2) /\ Inner(Take(2)) = 0
      /\ Rest \in FlatReads /\ Advances(Rest, 1) /\ Inner(Rest) = 0
  <2>1. Take(1) \in FlatReads /\ Take(1).op = "take" /\ Take(1).width = 1 /\ Take(2) \in FlatReads
        /\ Take(2).op = "take" /\ Take(2).width = 2 /\ Rest \in FlatReads /\ Rest.op = "rest"
    BY FieldsArePlain
  <2> QED
    BY <1>2, <2>1
<1>4. Optional(1, Rest) \in Plain /\ Optional(1, Take(1)) \in Plain /\ Optional(2, Take(2)) \in Plain
  <2>1. ASSUME NEW r \in FlatReads, NEW n \in Nat, Advances(r, n), Inner(r) = 0
        PROVE  Optional(n, r) \in Plain
    <3>1. Repeat(1, n, <<r>>) \in Loops(1)
      BY <2>1, LoopOf
    <3> QED
      BY <1>1, <3>1 DEF Optional
  <2> QED
    BY <1>3, <2>1
<1>5. ASSUME NEW need \in Nat, NEW w \in Nat \ {0} PROVE Counted(2, need, <<Take(w)>>) \in Plain
  <2>1. Take(w) \in FlatReads /\ Take(w).op = "take" /\ Take(w).width > 0
    BY FieldsArePlain
  <2>2. Advances(Take(w), need) /\ Inner(Take(w)) = 0 /\ Take(w) \in FlatReads \cup FlatGroups
    BY <1>2, <2>1
  <2> QED
    BY <2>2, CountOf
<1>6. /\ LengthPrefixedOrNull \in FlatGroups /\ Inner(LengthPrefixedOrNull) = 1
      /\ \A need \in Nat : Advances(LengthPrefixedOrNull, need)
  <2>1. <<Length>> \in Seq(FlatReads) /\ Len(<<Length>>) = 1 /\ <<Length>> # <<>> /\ Head(<<Length>>) = Length
    BY FieldsArePlain, ShortLists
  <2>2. /\ LengthPrefixedOrNull \in FlatGroups /\ LengthPrefixedOrNull.op = "group"
        /\ LengthPrefixedOrNull.body = <<Length>> /\ Inner(LengthPrefixedOrNull) = 1
    BY <2>1, GroupOfReads DEF LengthPrefixedOrNull
  <2>3. \A need \in Nat : Explains(Length, need)
    BY FieldsArePlain DEF Explains
  <2> QED
    BY <2>1, <2>2, <2>3 DEF Advances
<1>7. \A need \in Nat : Counted(2, need, <<LengthPrefixedOrNull>>) \in Plain
  BY <1>6, CountOf
<1>8. Listed(<<LengthPrefixedOrNull>>) \in Plain
  BY <1>6, CountOf
<1> QED
  BY <1>4, <1>5, <1>6, <1>7, <1>8, FieldsArePlain

LEMMA LayoutGroups ==
  /\ Group(<<While(2, <<CString>>)>>, FALSE) \in Plain
  /\ Group(<<While(4, <<Take(4)>>)>>, FALSE) \in Plain
  /\ Group(<<While(2, <<Group(<<CString, CString>>, TRUE)>>)>>, FALSE) \in Plain
  /\ Group(<<UntilNul(<<Group(<<Take(1), CString>>, TRUE)>>)>>, FALSE) \in Plain
<1>1. CString \in FlatReads /\ CString.op = "cstring" /\ Take(1) \in FlatReads /\ Take(1).op = "take" /\ Take(1).width = 1
      /\ Take(4) \in FlatReads /\ Take(4).op = "take" /\ Take(4).width = 4
  BY FieldsArePlain
<1>2. Inner(CString) = 0 /\ Inner(Take(4)) = 0
  BY <1>1, KindsOfReads DEF Inner
<1>3. Explains(CString, 2) /\ Explains(Take(4), 4) /\ Explains(Take(1), 1)
  BY <1>1 DEF Explains
<1>4. While(2, <<CString>>) \in Loops(2) /\ While(4, <<Take(4)>>) \in Loops(2)
  BY <1>1, <1>2, <1>3, LoopOf DEF Advances
<1>5. ASSUME NEW a \in FlatReads, NEW n \in Nat, Explains(a, n)
      PROVE  /\ While(n, <<Group(<<a, CString>>, TRUE)>>) \in Loops(2)
             /\ n = 1 => UntilNul(<<Group(<<a, CString>>, TRUE)>>) \in Loops(2)
  <2> DEFINE g == Group(<<a, CString>>, TRUE)
  <2>1. <<a, CString>> \in Seq(FlatReads) /\ Len(<<a, CString>>) = 2
    BY <1>1
  <2>2. g \in FlatGroups /\ g.op = "group" /\ g.body = <<a, CString>> /\ Inner(g) = 2
    BY <2>1, GroupOfReads
  <2>3. <<a, CString>> # <<>> /\ Head(<<a, CString>>) = a
    BY ShortLists
  <2> HIDE DEF g
  <2>4. Advances(g, n)
    BY <1>5, <2>2, <2>3 DEF Advances
  <2>5. While(n, <<g>>) \in Loops(2) /\ (n = 1 => UntilNul(<<g>>) \in Loops(2))
    BY <2>2, <2>4, LoopOf
  <2> QED
    BY <2>5 DEF g
<1>6. While(2, <<Group(<<CString, CString>>, TRUE)>>) \in Loops(2)
  BY <1>1, <1>3, <1>5
<1>7. UntilNul(<<Group(<<Take(1), CString>>, TRUE)>>) \in Loops(2)
  BY <1>1, <1>3, <1>5
<1> QED
  BY <1>4, <1>6, <1>7, GroupOfLoop

LEMMA TakenReads ==
  ASSUME NEW ws \in Seq(Nat) PROVE TakeAll(ws) \in Seq(FlatReads) /\ Len(TakeAll(ws)) = Len(ws)
<1>1. DOMAIN ws = 1 .. Len(ws) /\ Len(ws) \in Nat
  BY LenProperties
<1>2. \A i \in 1 .. Len(ws) : Take(ws[i]) \in FlatReads
  BY ElementOfSeq, FieldsArePlain
<1>3. TakeAll(ws) = [i \in 1 .. Len(ws) |-> Take(ws[i])]
  BY <1>1 DEF TakeAll
<1> QED
  BY <1>1, <1>2, <1>3

LEMMA CopyDataCase == ASSUME NEW bytes PROVE CopyDataPayload(bytes) \in Payloads
<1>1. <<Group(TakeAll(<<1, 8, 8, 8>>) \o <<Rest>>, TRUE)>> \in Payloads
  <2> DEFINE s == TakeAll(<<1, 8, 8, 8>>)
  <2>1. <<1, 8, 8, 8>> \in Seq(Nat) /\ Len(<<1, 8, 8, 8>>) = 4
    OBVIOUS
  <2>2. s \in Seq(FlatReads) /\ Len(s) = 4
    BY <2>1, TakenReads
  <2>3. <<Rest>> \in Seq(FlatReads) /\ Len(<<Rest>>) = 1
    BY FieldsArePlain
  <2> DEFINE r == <<Rest>>
             t == s \o r
  <2> HIDE DEF s, r
  <2>4. t \in Seq(FlatReads) /\ Len(t) = Len(s) + Len(r)
    BY <2>2, <2>3, ConcatProperties DEF r
  <2>5. Len(t) <= 8
    BY <2>2, <2>3, <2>4 DEF r
  <2> HIDE DEF t
  <2>6. <<Group(t, TRUE)>> \in Payloads
    BY <2>4, <2>5, OneGroup
  <2> QED
    BY <2>6 DEF s, r, t
<1>2. <<Group(TakeAll(<<1, 8, 8, 1>>), TRUE)>> \in Payloads
  <2> DEFINE s == TakeAll(<<1, 8, 8, 1>>)
  <2>1. <<1, 8, 8, 1>> \in Seq(Nat) /\ Len(<<1, 8, 8, 1>>) = 4
    OBVIOUS
  <2>2. s \in Seq(FlatReads) /\ Len(s) = 4
    BY <2>1, TakenReads
  <2> HIDE DEF s
  <2>3. s \in Seq(FlatReads) /\ Len(s) <= 8
    BY <2>2
  <2>4. <<Group(s, TRUE)>> \in Payloads
    BY <2>3, OneGroup
  <2> QED
    BY <2>4 DEF s
<1>3. <<Group(TakeAll(<<1, 8, 8, 8, 8, 1>>), TRUE)>> \in Payloads
  <2> DEFINE s == TakeAll(<<1, 8, 8, 8, 8, 1>>)
  <2>1. <<1, 8, 8, 8, 8, 1>> \in Seq(Nat) /\ Len(<<1, 8, 8, 8, 8, 1>>) = 6
    OBVIOUS
  <2>2. s \in Seq(FlatReads) /\ Len(s) = 6
    BY <2>1, TakenReads
  <2> HIDE DEF s
  <2>3. s \in Seq(FlatReads) /\ Len(s) <= 8
    BY <2>2
  <2>4. <<Group(s, TRUE)>> \in Payloads
    BY <2>3, OneGroup
  <2> QED
    BY <2>4 DEF s
<1>4. <<Group(TakeAll(<<1, 8, 4, 4, 4, 4>>), TRUE)>> \in Payloads
  <2> DEFINE s == TakeAll(<<1, 8, 4, 4, 4, 4>>)
  <2>1. <<1, 8, 4, 4, 4, 4>> \in Seq(Nat) /\ Len(<<1, 8, 4, 4, 4, 4>>) = 6
    OBVIOUS
  <2>2. s \in Seq(FlatReads) /\ Len(s) = 6
    BY <2>1, TakenReads
  <2> HIDE DEF s
  <2>3. s \in Seq(FlatReads) /\ Len(s) <= 8
    BY <2>2
  <2>4. <<Group(s, TRUE)>> \in Payloads
    BY <2>3, OneGroup
  <2> QED
    BY <2>4 DEF s
<1>5. <<Rest>> \in Payloads
  <2>1. <<Rest>> \in Seq(Plain) /\ Len(<<Rest>>) <= 5
    BY LayoutReads
  <2> QED
    BY <2>1, PlainPayload
<1> QED
  BY <1>1, <1>2, <1>3, <1>4, <1>5 DEF CopyDataPayload

(* Lists of up to five reads that are no groups of reads.                  *)
LEMMA ShortPayloads ==
  /\ <<>> \in Payloads
  /\ \A a \in Plain : <<a>> \in Payloads
  /\ \A a, b \in Plain : <<a, b>> \in Payloads
  /\ \A a, b, c \in Plain : <<a, b, c>> \in Payloads
  /\ \A a, b, c, d \in Plain : <<a, b, c, d>> \in Payloads
  /\ \A a, b, c, d, e \in Plain : <<a, b, c, d, e>> \in Payloads
<1>1. <<>> \in Payloads
  <2>1. <<>> \in Seq(Plain) /\ Len(<<>>) <= 5
    OBVIOUS
  <2> QED
    BY <2>1, PlainPayload
<1>2. ASSUME NEW a \in Plain PROVE <<a>> \in Payloads
  <2>1. <<a>> \in Seq(Plain) /\ Len(<<a>>) <= 5
    OBVIOUS
  <2> QED
    BY <2>1, PlainPayload
<1>3. ASSUME NEW a \in Plain, NEW b \in Plain PROVE <<a, b>> \in Payloads
  <2>1. <<a, b>> \in Seq(Plain) /\ Len(<<a, b>>) <= 5
    OBVIOUS
  <2> QED
    BY <2>1, PlainPayload
<1>4. ASSUME NEW a \in Plain, NEW b \in Plain, NEW c \in Plain PROVE <<a, b, c>> \in Payloads
  <2>1. <<a, b, c>> \in Seq(Plain) /\ Len(<<a, b, c>>) <= 5
    OBVIOUS
  <2> QED
    BY <2>1, PlainPayload
<1>5. ASSUME NEW a \in Plain, NEW b \in Plain, NEW c \in Plain, NEW d \in Plain
      PROVE  <<a, b, c, d>> \in Payloads
  <2>1. <<a, b, c, d>> \in Seq(Plain) /\ Len(<<a, b, c, d>>) <= 5
    OBVIOUS
  <2> QED
    BY <2>1, PlainPayload
<1>6. ASSUME NEW a \in Plain, NEW b \in Plain, NEW c \in Plain, NEW d \in Plain, NEW e \in Plain
      PROVE  <<a, b, c, d, e>> \in Payloads
  <2>1. <<a, b, c, d, e>> \in Seq(Plain) /\ Len(<<a, b, c, d, e>>) <= 5
    OBVIOUS
  <2> QED
    BY <2>1, PlainPayload
<1> QED
  BY <1>1, <1>2, <1>3, <1>4, <1>5, <1>6

LEMMA StartupCase == ASSUME NEW name, NEW bytes PROVE StartupPayload(name, bytes) \in Payloads
<1>1. /\ Rest \in Plain /\ Take(4) \in Plain /\ Optional(1, Rest) \in Plain /\ Optional(1, Take(1)) \in Plain
      /\ Group(<<While(2, <<Group(<<CString, CString>>, TRUE)>>)>>, FALSE) \in Plain
  BY LayoutReads, LayoutGroups
<1>2. /\ <<Rest>> \in Payloads /\ <<Take(4), Optional(1, Rest)>> \in Payloads /\ <<>> \in Payloads
      /\ <<Group(<<While(2, <<Group(<<CString, CString>>, TRUE)>>)>>, FALSE), Optional(1, Take(1))>> \in Payloads
  BY <1>1, ShortPayloads
<1> QED
  BY <1>2 DEF StartupPayload

LEMMA ClientCase == ASSUME NEW name PROVE ClientPayload(name) \in Payloads
<1>1. /\ \A w \in {1, 2, 4} : Take(w) \in Plain
      /\ Rest \in Plain /\ CString \in Plain /\ Optional(1, Rest) \in Plain /\ Optional(2, Take(2)) \in Plain
      /\ Counted(2, 4, <<Take(4)>>) \in Plain /\ Counted(2, 2, <<Take(2)>>) \in Plain
      /\ Counted(2, 4, <<LengthPrefixedOrNull>>) \in Plain
  BY LayoutReads
<1>2. /\ <<Rest>> \in Payloads /\ <<>> \in Payloads /\ <<CString>> \in Payloads
      /\ <<Take(1), CString>> \in Payloads /\ <<CString, Take(4)>> \in Payloads
      /\ <<CString, CString, Counted(2, 4, <<Take(4)>>)>> \in Payloads
      /\ <<CString, Take(4), Optional(1, Rest)>> \in Payloads
  BY <1>1, ShortPayloads
<1>3. <<CString, CString, Counted(2, 2, <<Take(2)>>),
        Counted(2, 4, <<LengthPrefixedOrNull>>), Counted(2, 2, <<Take(2)>>)>> \in Payloads
  BY <1>1, ShortPayloads
<1>4. <<Take(4), Counted(2, 2, <<Take(2)>>), Counted(2, 4, <<LengthPrefixedOrNull>>),
        Optional(2, Take(2))>> \in Payloads
  BY <1>1, ShortPayloads
<1> QED
  BY <1>2, <1>3, <1>4 DEF ClientPayload

LEMMA ServerCase == ASSUME NEW name PROVE AfterHeader(ServerPayload(name))
<1>1. /\ \A w \in {1, 2, 4} : Take(w) \in Plain
      /\ Rest \in Plain /\ CString \in Plain /\ Optional(1, Rest) \in Plain /\ Optional(1, Take(1)) \in Plain
      /\ Counted(2, 2, <<Take(2)>>) \in Plain /\ Listed(<<LengthPrefixedOrNull>>) \in Plain
  BY LayoutReads
<1>2. /\ <<>> \in Payloads /\ <<Take(4)>> \in Payloads /\ <<Take(4), Take(4)>> \in Payloads
      /\ <<Take(4), Optional(1, Rest)>> \in Payloads /\ <<CString, CString>> \in Payloads
      /\ <<Take(1)>> \in Payloads /\ <<Rest>> \in Payloads /\ <<Listed(<<LengthPrefixedOrNull>>)>> \in Payloads
      /\ <<Take(4), CString, CString>> \in Payloads /\ <<Take(1), Counted(2, 2, <<Take(2)>>)>> \in Payloads
  BY <1>1, ShortPayloads
<1>3. /\ <<Take(4), Group(<<While(2, <<CString>>)>>, FALSE), Optional(1, Take(1))>> \in Payloads
      /\ <<Take(2), Group(<<While(4, <<Take(4)>>)>>, FALSE)>> \in Payloads
      /\ ErrorOrNotice \in Payloads
  BY <1>1, LayoutGroups, ShortPayloads DEF ErrorOrNotice
<1>4. <<LengthPrefixedOrNull>> \in Payloads
  <2>1. <<Length>> \in Seq(FlatReads) /\ Len(<<Length>>) <= 8
    BY FieldsArePlain
  <2> QED
    BY <2>1, OneGroup DEF LengthPrefixedOrNull
<1>5. <<Listed(<<Column>>)>> = ColumnsLeft /\ <<Take(4), Counted(4, 0, <<CString>>)>> = OptionsLeft
  BY DEF ColumnsLeft, OptionsLeft, OptionCount
<1>6. \A s : s \in Payloads \/ s = ColumnsLeft \/ s = OptionsLeft => AfterHeader(s)
  BY DEF AfterHeader
<1>7. ServerPayload(name) \in Payloads \cup {ColumnsLeft, OptionsLeft}
  BY <1>2, <1>3, <1>4, <1>5 DEF ServerPayload
<1> QED
  BY <1>6, <1>7

LEMMA HeaderOf ==
  ASSUME NEW a \in Nat, NEW b \in Nat PROVE TakeAll(<<a, b>>) = <<Take(a), Take(b)>>
<1> DEFINE s == TakeAll(<<a, b>>)
           t == <<Take(a), Take(b)>>
<1>1. <<a, b>> \in Seq(Nat) /\ Len(<<a, b>>) = 2 /\ DOMAIN <<a, b>> = 1 .. 2
  OBVIOUS
<1>2. s \in Seq(FlatReads) /\ Len(s) = 2
  BY <1>1, TakenReads
<1>3. s[1] = Take(a) /\ s[2] = Take(b)
  BY <1>1 DEF TakeAll
<1>4. t \in Seq(FlatReads) /\ Len(t) = 2 /\ t[1] = Take(a) /\ t[2] = Take(b)
  BY FieldsArePlain
<1> HIDE DEF s, t
<1>5. \A i \in 1 .. Len(s) : s[i] = t[i]
  BY <1>2, <1>3, <1>4
<1>6. s = t
  BY <1>2, <1>4, <1>5, SeqEqual
<1> QED
  BY <1>6 DEF s, t

(* Every case starts with the header and goes on with a payload.           *)
HeaderReadsOf(reads) == \E a \in {1, 4} : \E s : AfterHeader(s) /\ reads = <<Take(a), Take(4)>> \o s

LEMMA OneSide ==
  ASSUME NEW name PROVE ClientPayload(name) = <<>> \/ ServerPayload(name) = <<>>
<1> DEFINE sent == {"Query", "PasswordMessage", "SASLResponse", "GSSResponse", "Parse", "Bind", "Describe",
                    "Close", "Execute", "SASLInitialResponse", "FunctionCall", "CopyFail"}
<1>1. CASE name \in sent
  BY <1>1 DEF ServerPayload
<1>2. CASE name \notin sent
  BY <1>2 DEF ClientPayload
<1> QED
  BY <1>1, <1>2

LEMMA ReadsStart == ASSUME NEW f PROVE HeaderReadsOf(Reads(f))
<1>1. TakeAll(<<4, 4>>) = <<Take(4), Take(4)>> /\ TakeAll(<<1, 4>>) = <<Take(1), Take(4)>>
  BY HeaderOf
<1>2. \A s : s \in Payloads => AfterHeader(s)
  BY DEF AfterHeader
<1>3. ASSUME NEW s, AfterHeader(s)
      PROVE HeaderReadsOf(TakeAll(<<4, 4>>) \o s) /\ HeaderReadsOf(TakeAll(<<1, 4>>) \o s)
  <2>1. HeaderReadsOf(<<Take(4), Take(4)>> \o s)
    BY <1>3 DEF HeaderReadsOf
  <2>2. HeaderReadsOf(<<Take(1), Take(4)>> \o s)
    BY <1>3 DEF HeaderReadsOf
  <2> DEFINE h == TakeAll(<<4, 4>>)
             k == TakeAll(<<1, 4>>)
  <2>3. h = <<Take(4), Take(4)>> /\ k = <<Take(1), Take(4)>>
    BY <1>1
  <2> HIDE DEF h, k
  <2>4. HeaderReadsOf(h \o s) /\ HeaderReadsOf(k \o s)
    BY <2>1, <2>2, <2>3
  <2> QED
    BY <2>4 DEF h, k
<1>4. CASE f.name \in Untagged
  <2>1. Reads(f) = TakeAll(<<4, 4>>) \o StartupPayload(f.name, f.raw)
    BY <1>4 DEF Reads, Untagged
  <2>2. AfterHeader(StartupPayload(f.name, f.raw))
    BY <1>2, StartupCase
  <2>3. HeaderReadsOf(TakeAll(<<4, 4>>) \o StartupPayload(f.name, f.raw))
    BY <1>3, <2>2
  <2> QED
    BY <2>1, <2>3, Zenon
<1>5. CASE f.name \notin Untagged /\ f.name = "CopyData"
  BY <1>2, <1>3, <1>5, CopyDataCase DEF Reads
<1>6. CASE f.name \notin Untagged /\ f.name # "CopyData"
  <2> DEFINE h == TakeAll(<<1, 4>>)
             c == ClientPayload(f.name)
             s == ServerPayload(f.name)
  <2>1. Reads(f) = (h \o c) \o s
    BY <1>6 DEF Reads
  <2>2. AfterHeader(c) /\ AfterHeader(s) /\ (c = <<>> \/ s = <<>>)
    BY <1>2, ClientCase, ServerCase, OneSide
  <2>3. PICK S : c \in Seq(S) /\ {Take(1), Take(4)} \subseteq S
    BY <2>2, AfterHeaderIsList
  <2>4. h \in Seq(S)
    <3>1. <<Take(1), Take(4)>> \in Seq(S)
      BY <2>3
    <3> QED
      BY <1>1, <3>1, Zenon
  <2>5. h \o c \in Seq(S)
    BY <2>3, <2>4, ConcatProperties
  <2> HIDE DEF h, c, s
  <2>6. CASE c = <<>>
    <3>1. h \o c = h
      BY <2>4, <2>6, ConcatEmptySeq
    <3>2. Reads(f) = h \o s
      BY <2>1, <3>1
    <3> QED
      BY <1>3, <2>2, <3>2 DEF h
  <2>7. CASE s = <<>>
    <3>1. Reads(f) = h \o c
      BY <2>1, <2>5, <2>7, ConcatEmptySeq
    <3> QED
      BY <1>3, <2>2, <3>1 DEF h
  <2> QED
    BY <2>2, <2>6, <2>7
<1> QED
  BY <1>4, <1>5, <1>6

LEMMA UnknownStart == ASSUME NEW f PROVE UnknownReads(f) = <<>> \/ HeaderReadsOf(UnknownReads(f))
<1>1. TakeAll(<<1, 4>>) = <<Take(1), Take(4)>>
  BY HeaderOf
<1>2. AfterHeader(<<>>) /\ <<Take(1), Take(4)>> \o <<>> = <<Take(1), Take(4)>>
  BY ShortPayloads DEF AfterHeader
<1>3. HeaderReadsOf(TakeAll(<<1, 4>>))
  BY <1>1, <1>2 DEF HeaderReadsOf
<1> QED
  BY <1>3 DEF UnknownReads

LEMMA BeginsFew ==
  ASSUME NEW reads, Begin(reads), reads = <<>> \/ HeaderReadsOf(reads) PROVE Stacked' /\ InHeader'
<1> DEFINE level == Level(reads, TRUE)
<1>1. pos' = 0 /\ tree' = NoFields /\ todo' = <<level>> /\ path' = <<1>>
  BY DEF Begin
<1>2. level \in [reads : {reads}, keep : BOOLEAN] /\ level.reads = reads
  BY DEF Level
<1> HIDE DEF level
<1>3. Depth' = 1 /\ Len(todo') = 1 /\ todo' \in Seq([reads : {reads}, keep : BOOLEAN]) /\ todo'[1] = level
  BY <1>1, <1>2 DEF Depth
<1>4. DOMAIN tree' = {}
  BY <1>1 DEF NoFields
<1>5. IsFiniteSet(DOMAIN tree') /\ Fields' = 0
  BY <1>4, FS_EmptySet DEF Fields
<1>6. Left(1)' = reads
  BY <1>2, <1>3 DEF Left
<1>7. Stacked'
  <2>1. \E S : todo' \in Seq([reads : S, keep : BOOLEAN])
    BY <1>3
  <2>2. Depth' \in Nat \ {0} /\ Len(todo') = Depth'
    BY <1>3
  <2> QED
    BY <1>5, <2>1, <2>2 DEF Stacked
<1> QED
  BY <1>1, <1>3, <1>5, <1>6, <1>7 DEF InHeader, HeaderReadsOf

-----------------------------------------------------------------------------
(* The steps, whatever is being read.                                      *)

LEMMA BytesAtPos ==
  ASSUME raw \in Seq(0 .. 255), pos \in Nat, NEW i \in Nat \ {0}, i <= Remaining PROVE Byte(i) \in Nat
<1>1. Len(raw) \in Nat
  BY LenProperties
<1>2. pos + i \in 1 .. Len(raw)
  BY <1>1 DEF Remaining
<1>3. raw[pos + i] \in 0 .. 255
  BY <1>2, ElementOfSeq
<1>4. \A x \in 0 .. 255 : x \in Nat
  OBVIOUS
<1>5. raw[pos + i] \in Nat
  BY <1>3, <1>4, Zenon
<1> QED
  BY <1>5, Zenon DEF Byte

LEMMA TwoBytes ==
  ASSUME raw \in Seq(0 .. 255), pos \in Nat, 2 <= Remaining PROVE Byte(1) \in Nat /\ Byte(2) \in Nat
<1>1. Remaining \in Int
  BY LenProperties DEF Remaining
<1>2. 1 <= Remaining /\ 1 \in Nat \ {0} /\ 2 \in Nat \ {0}
  BY <1>1
<1> QED
  BY <1>2, BytesAtPos

LEMMA FourBytes ==
  ASSUME raw \in Seq(0 .. 255), pos \in Nat, 4 <= Remaining
  PROVE  Byte(1) \in Nat /\ Byte(2) \in Nat /\ Byte(3) \in Nat /\ Byte(4) \in Nat
<1>1. Remaining \in Int
  BY LenProperties DEF Remaining
<1>2. /\ 1 <= Remaining /\ 2 <= Remaining /\ 3 <= Remaining
      /\ 1 \in Nat \ {0} /\ 2 \in Nat \ {0} /\ 3 \in Nat \ {0} /\ 4 \in Nat \ {0}
  BY <1>1
<1> QED
  BY <1>2, BytesAtPos

LEMMA UintOf == ASSUME NEW a \in Nat, NEW b \in Nat PROVE 256 * a + b \in Nat
  BY SMT

LEMMA IntOf ==
  ASSUME NEW a \in Int, NEW b \in Int, NEW c \in Int, NEW d \in Int
  PROVE  16777216 * (((a + 128) % 256) - 128) + 65536 * b + 256 * c + d \in Int
<1> DEFINE u == (a + 128) % 256
<1>1. u \in Int
  <2> DEFINE x == a + 128
  <2>1. x \in Int
    BY SMT
  <2> HIDE DEF x
  <2>2. x % 256 \in 0 .. 255
    BY <2>1, SMT
  <2> QED
    BY <2>2, SMT DEF x
<1> HIDE DEF u
<1>2. 16777216 * (u - 128) + 65536 * b + 256 * c + d \in Int
  BY <1>1, SMT
<1> QED
  BY <1>2, SMT DEF u

LEMMA BudgetHead ==
  ASSUME Stacked, Budgeted, NEW ops, Reading(ops)
  PROVE  /\ Depth \in 1 .. 3 /\ Left(Depth) \in Lists(Depth) /\ Left(Depth) # <<>>
         /\ Read = Head(Left(Depth)) /\ Read \in Pieces(Depth) /\ Read.op \in ops
<1>1. Depth \in 1 .. 3 /\ Left(Depth) \in Lists(Depth)
  BY DEF Stacked, Budgeted
<1>2. Left(Depth) # <<>> /\ Read = Head(Left(Depth)) /\ Read.op \in ops
  BY ReadIs
<1> DEFINE d == Depth
           s == Left(Depth)
<1>3. d \in 1 .. 3 /\ s \in Lists(d) /\ s # <<>>
  BY <1>1, <1>2
<1> HIDE DEF d, s
<1>4. Head(s) \in Pieces(d)
  BY <1>3, CostType
<1> QED
  BY <1>1, <1>2, <1>4 DEF d, s

LEMMA BudgetField ==
  ASSUME Stacked, Budgeted, path \in Paths, pos \in Nat, Remaining \in Nat, Field
  PROVE  Stacked' /\ Budgeted'
<1>1. /\ Depth \in 1 .. 3 /\ Left(Depth) # <<>> /\ Read = Head(Left(Depth)) /\ Read \in Pieces(Depth)
      /\ Read.op \in {"take", "rest", "cstring"}
  BY BudgetHead DEF Field
<1>2. Width \in Nat /\ Emit(Width, <<>>)
  BY DEF Field, Fits
<1>3. Read \in FlatReads /\ Inner(Read) = 0
  BY <1>1, PieceKinds
<1>4. Width > 0 \/ ~Promised
  <2> SUFFICES ASSUME Advances(Read, Remaining) PROVE Width > 0
    BY <1>1, <1>2 DEF Promised
  <2>1. Explains(Read, Remaining)
    BY <1>1 DEF Advances
  <2>2. CASE Read.op = "take"
    BY <2>1, <2>2 DEF Explains, Width
  <2>3. CASE Read.op = "rest"
    BY <2>1, <2>3 DEF Explains, Width
  <2>4. CASE Read.op = "cstring"
    BY <2>1, <2>4, StringWidth DEF Explains, Width
  <2> QED
    BY <1>1, <2>2, <2>3, <2>4
<1>5. Inner(Head(Left(Depth))) = 0
  BY <1>1, <1>3
<1> DEFINE w == Width
<1> HIDE DEF w
<1>6. w \in Nat /\ Emit(w, <<>>) /\ (w > 0 \/ ~Promised)
  BY <1>2, <1>4 DEF w
<1> QED
  BY <1>1, <1>5, <1>6, BudgetEmit

LEMMA BudgetCount ==
  ASSUME Stacked, Budgeted, path \in Paths, pos \in Nat, raw \in Seq(0 .. 255), Count
  PROVE  Stacked' /\ Budgeted'
<1>1. /\ Depth \in 1 .. 3 /\ Left(Depth) # <<>> /\ Read = Head(Left(Depth)) /\ Read \in Pieces(Depth)
      /\ Read.op = "count"
  BY BudgetHead DEF Count
<1>2. Depth = 1 /\ Read \in Counts /\ Inner(Read) = 0
  BY <1>1, PieceKinds
<1>3. /\ Read.width = 2 /\ Read.need \in Nat /\ Read.body \in Bodies
      /\ Feeds(Read.body, Read.need, IF Read.grouped THEN 2 ELSE 1) /\ Read.grouped \in BOOLEAN
  BY <1>2 DEF Counts
<1>4. Width = 2 /\ CountRead = Uint16 /\ Emit(2, Elements(Uint16)) /\ 2 <= Remaining
  BY <1>1, <1>3 DEF Count, Width, CountRead, Fits
<1>5. Uint16 \in Nat
  <2>1. Byte(1) \in Nat /\ Byte(2) \in Nat
    BY <1>4, TwoBytes
  <2> QED
    BY <2>1, UintOf DEF Uint16
<1> DEFINE n == Uint16
           loop == Repeat(n, Read.need, Read.body)
           x == Elements(n)
<1>6. x = IF n = 0 THEN <<>> ELSE IF Read.grouped THEN <<Group(<<loop>>, TRUE)>> ELSE <<loop>>
  BY DEF Elements
<1> HIDE DEF n
<1>7. /\ loop \in [op : {"repeat"}, times : Int, need : Nat, body : Bodies]
      /\ loop.body = Read.body /\ loop.need = Read.need
  BY <1>3, <1>5 DEF Repeat, n
<1> HIDE DEF loop, x
<1>8. x = <<>> \/ \E b \in Pieces(Depth) : x = <<b>> /\ Inner(b) = 0
  <2>1. CASE n = 0
    BY <1>6, <2>1
  <2>2. CASE n # 0 /\ Read.grouped
    <3>1. loop \in Loops(2)
      BY <1>3, <1>7, <2>2 DEF Loops
    <3>2. Group(<<loop>>, TRUE) \in Plain
      BY <3>1, GroupOfLoop
    <3>3. Group(<<loop>>, TRUE) \in Pieces(1) /\ Inner(Group(<<loop>>, TRUE)) = 0
      BY <3>2 DEF Plain, Inner
    <3> QED
      BY <1>2, <1>6, <2>2, <3>3
  <2>3. CASE n # 0 /\ ~Read.grouped
    <3>1. loop \in Loops(1)
      BY <1>3, <1>7, <2>3 DEF Loops
    <3>2. loop \in Pieces(1) /\ loop \notin FlatGroups
      BY <3>1, FlatPieces, KindsOfReads
    <3>3. Inner(loop) = 0
      BY <3>2 DEF Inner
    <3> QED
      BY <1>2, <1>6, <2>3, <3>2, <3>3
  <2> QED
    BY <2>1, <2>2, <2>3
<1>9. Emit(2, x) /\ Inner(Head(Left(Depth))) = 0
  BY <1>1, <1>2, <1>4 DEF x, n
<1> DEFINE w == 2
<1>10. w \in Nat /\ w >= 2 /\ w > 0 /\ Emit(w, x)
  BY <1>9
<1> HIDE DEF w
<1> QED
  BY <1>1, <1>8, <1>9, <1>10, BudgetEmit

LEMMA BudgetLength ==
  ASSUME Stacked, Budgeted, path \in Paths, pos \in Nat, raw \in Seq(0 .. 255), DataLength
  PROVE  Stacked' /\ Budgeted'
<1>1. /\ Depth \in 1 .. 3 /\ Left(Depth) # <<>> /\ Read = Head(Left(Depth)) /\ Read \in Pieces(Depth)
      /\ Read.op = "length"
  BY BudgetHead DEF DataLength
<1>2. Inner(Head(Left(Depth))) = 0
  BY <1>1, PieceKinds
<1> DEFINE n == Int32
           x == IF n = -1 THEN <<>> ELSE <<Take(n)>>
<1>3. Width = 4 /\ Emit(4, x) /\ 4 <= Remaining /\ ~(n < -1)
  BY <1>1 DEF DataLength, Width, Fits, Refused
<1>4. n \in Int
  <2>1. Byte(1) \in Nat /\ Byte(2) \in Nat /\ Byte(3) \in Nat /\ Byte(4) \in Nat
    BY <1>3, FourBytes
  <2>2. Byte(1) \in Int /\ Byte(2) \in Int /\ Byte(3) \in Int /\ Byte(4) \in Int
    BY <2>1
  <2> QED
    BY <2>2, IntOf, SMT DEF Int32
<1> HIDE DEF n
<1>5. x = <<>> \/ \E b \in Pieces(Depth) : x = <<b>> /\ Inner(b) = 0
  <2>1. CASE n = -1
    BY <2>1
  <2>2. CASE n # -1
    <3>1. n \in Nat
      BY <1>3, <1>4, <2>2
    <3>2. Take(n) \in FlatReads
      BY <3>1, FieldsArePlain
    <3>3. Take(n) \in Pieces(Depth) /\ Inner(Take(n)) = 0
      BY <1>1, <3>2, FlatPieces, KindsOfReads DEF Inner
    <3> QED
      BY <2>2, <3>3
  <2> QED
    BY <2>1, <2>2
<1> HIDE DEF x
<1> DEFINE w == 4
<1>6. w \in Nat /\ w >= 2 /\ w > 0 /\ Emit(w, x)
  BY <1>3
<1> HIDE DEF w
<1> QED
  BY <1>1, <1>2, <1>5, <1>6, BudgetEmit

Mode == InHeader \/ Budgeted \/ InColumns \/ InOptions
ReadingFrame ==
  /\ pos \in Nat /\ pos <= Len(raw) /\ Remaining \in Nat /\ Len(raw) \in Nat \ {0}
  /\ raw \in Seq(0 .. 255) /\ path \in Paths

LEMMA FieldFew == ASSUME ReadingFrame, Stacked, Mode, Field PROVE Stacked' /\ Mode'
  BY HeaderField, BudgetField, ColumnField, OptionField DEF Mode, ReadingFrame

LEMMA CountFew == ASSUME ReadingFrame, Stacked, Mode, Count PROVE Stacked' /\ Mode'
<1>1. Left(Depth) # <<>> /\ Head(Left(Depth)).op = "count"
  BY ReadIs DEF Count
<1>2. ~InHeader
  BY <1>1, HeaderReads
<1>3. InColumns => Uint16 \in Int
  <2> SUFFICES ASSUME InColumns PROVE Uint16 \in Int
    OBVIOUS
  <2>1. Read = Listed(<<Column>>)
    BY <1>1, ColumnHeads, ReadIs, ShortLists DEF ColumnsLeft, Count
  <2>2. Width = 2 /\ 2 <= Remaining
    <3>1. Read.op = "count" /\ Read.width = 2
      BY <2>1, ColumnCount
    <3>2. Width = 2
      BY <3>1 DEF Width
    <3> QED
      BY <3>2 DEF Count, Fits
  <2>3. Byte(1) \in Nat /\ Byte(2) \in Nat
    BY <2>2, TwoBytes DEF ReadingFrame
  <2>4. Uint16 \in Nat
    BY <2>3, UintOf DEF Uint16
  <2> QED
    BY <2>4
<1> QED
  BY <1>2, <1>3, BudgetCount, ColumnsCounted, OptionsCounted DEF Mode, ReadingFrame

LEMMA LengthFew == ASSUME ReadingFrame, Stacked, Mode, DataLength PROVE Stacked' /\ Mode'
<1>1. Left(Depth) # <<>> /\ Head(Left(Depth)).op = "length"
  BY ReadIs DEF DataLength
<1>2. ~InHeader /\ ~InColumns /\ ~InOptions
  BY <1>1, HeaderReads, ColumnHeads, OptionHeads, OptionParts
<1> QED
  BY <1>2, BudgetLength DEF Mode, ReadingFrame

LEMMA LoopFew == ASSUME ReadingFrame, Stacked, Mode, Loop PROVE Stacked' /\ Mode'
<1>1. Left(Depth) # <<>> /\ Head(Left(Depth)).op \in {"repeat", "while", "untilNul"}
  BY ReadIs DEF Loop
<1>2. ~InHeader
  BY <1>1, HeaderReads
<1> QED
  BY <1>2, BudgetLoop, ColumnsLoop, OptionsLoop DEF Mode, ReadingFrame

LEMMA OpenFew == ASSUME ReadingFrame, Stacked, Mode, OpenGroup PROVE Stacked' /\ Mode'
<1>1. Left(Depth) # <<>> /\ Head(Left(Depth)).op = "group"
  BY ReadIs DEF OpenGroup
<1>2. ~InHeader
  BY <1>1, HeaderReads
<1> QED
  BY <1>2, BudgetOpen, ColumnOpens, OptionOpens DEF Mode, ReadingFrame

LEMMA CloseFew == ASSUME ReadingFrame, Stacked, Mode, CloseGroup PROVE Stacked' /\ Mode'
<1>1. ~InHeader
  BY DEF InHeader, CloseGroup
<1> QED
  BY <1>1, BudgetClose, ColumnCloses, OptionCloses DEF Mode, ReadingFrame

LEMMA ModeIsFew == ASSUME ReadingFrame, Stacked, Mode PROVE Fields \in Nat /\ Fields + 1 <= 3 * Len(raw)
<1>1. Fields \in Nat /\ pos \in Nat /\ pos <= Len(raw) /\ Len(raw) \in Nat \ {0}
  BY FieldsOf DEF ReadingFrame
<1>2. CASE InHeader
  <2>1. Fields <= 1
    BY <1>1, <1>2 DEF InHeader
  <2> QED
    BY <1>1, <2>1
<1>3. CASE Budgeted
  <2>1. Fields < 3 * pos
    BY <1>1, <1>3, BudgetIsFew
  <2> QED
    BY <1>1, <2>1
<1>4. CASE InColumns
  <2>1. Fields <= 3 * pos - 10
    BY <1>1, <1>4 DEF InColumns
  <2> QED
    BY <1>1, <2>1
<1>5. CASE InOptions
  <2>1. pos >= 5
    BY <1>5 DEF InOptions
  <2>2. Fields <= Len(raw) + 5
    BY <1>1, <1>5, <2>1 DEF InOptions
  <2> QED
    BY <1>1, <2>1, <2>2
<1> QED
  BY <1>2, <1>3, <1>4, <1>5 DEF Mode

LEMMA FewStep == ASSUME Inv, FewInv, [Next]_vars PROVE FewInv'
<1>1. ASSUME phase = "reading" PROVE ReadingFrame /\ Stacked /\ Mode
  <2>1. frame \in Frames /\ pos \in 0 .. Len(raw) /\ path \in Paths
    BY <1>1 DEF Inv
  <2>2. raw \in Seq(0 .. 255) /\ Len(raw) \in Nat /\ Len(raw) > 0
    BY <2>1, FrameLength, FramesAssumption DEF raw
  <2>3. Stacked /\ Mode
    BY <1>1 DEF FewInv, Mode
  <2> QED
    BY <2>1, <2>2, <2>3 DEF ReadingFrame, Remaining
<1>2. ASSUME phase' = "reading", Stacked', Mode' PROVE FewInv'
  BY <1>2 DEF FewInv, Finished, Mode
<1>3. ASSUME phase' = "reading", NEW reads, Begin(reads), reads = <<>> \/ HeaderReadsOf(reads) PROVE FewInv'
  BY <1>2, <1>3, BeginsFew DEF Mode
<1>4. ASSUME NEW f \in Frames, Decode(f) PROVE FewInv'
  <2>1. PICK reads \in MayRead(f) : Begin(reads)
    BY <1>4 DEF Decode
  <2>2. reads = Reads(f) \/ reads = UnknownReads(f)
    BY DEF MayRead
  <2>3. reads = <<>> \/ HeaderReadsOf(reads)
    BY <2>2, ReadsStart, UnknownStart
  <2>4. phase' = "reading"
    BY <1>4 DEF Decode
  <2> QED
    BY <1>3, <2>1, <2>3, <2>4
<1>5. CASE Field
  BY <1>1, <1>2, <1>5, FieldFew DEF Field, Reading, Emit
<1>6. CASE Count
  BY <1>1, <1>2, <1>6, CountFew DEF Count, Reading, Emit
<1>7. CASE DataLength
  BY <1>1, <1>2, <1>7, LengthFew DEF DataLength, Reading, Emit
<1>8. CASE Refuse
  <2>1. phase' = "reading" /\ Begin(UnknownReads(frame))
    BY <1>8 DEF Refuse, Reading
  <2> QED
    BY <1>3, <2>1, UnknownStart
<1>9. CASE Loop
  BY <1>1, <1>2, <1>9, LoopFew DEF Loop, Reading
<1>10. CASE OpenGroup
  BY <1>1, <1>2, <1>10, OpenFew DEF OpenGroup, Reading
<1>11. CASE CloseGroup
  BY <1>1, <1>2, <1>11, CloseFew DEF CloseGroup, CaseOver
<1>12. CASE Panic
  <2>1. phase = "reading" /\ phase' = "panicked" /\ raw' = raw /\ DOMAIN tree' = {<<1>>}
    BY <1>12 DEF Panic, Reading, raw
  <2>2. IsFiniteSet(DOMAIN tree') /\ Fields' = 1
    BY <2>1, FS_Singleton DEF Fields
  <2>3. Fields' <= 3 * Len(raw)'
    BY <1>1, <2>1, <2>2 DEF ReadingFrame
  <2> QED
    BY <2>1, <2>2, <2>3 DEF FewInv
<1>13. CASE Finish
  <2>1. phase = "reading" /\ phase' = "done" /\ raw' = raw /\ (tree' = tree \/ tree' = Annotated(path, ByteRange(pos, Len(raw))))
    BY <1>13 DEF Finish, CaseOver, raw, Trailing
  <2>2. ReadingFrame /\ Stacked /\ Mode /\ IsFiniteSet(DOMAIN tree)
    BY <1>1, <2>1 DEF Stacked
  <2>3. Fields \in Nat /\ Fields + 1 <= 3 * Len(raw) /\ Len(raw) \in Nat
    BY <2>2, ModeIsFew DEF ReadingFrame
  <2>4. IsFiniteSet(DOMAIN tree') /\ Fields' \in Nat /\ Fields' <= Fields + 1
    <3>1. CASE tree' = tree
      BY <2>2, <2>3, <3>1 DEF Fields
    <3>2. CASE tree' = Annotated(path, ByteRange(pos, Len(raw)))
      BY <2>2, <3>2, FieldMore
    <3> QED
      BY <2>1, <3>1, <3>2
  <2>5. Fields' <= 3 * Len(raw)'
    BY <2>1, <2>3, <2>4
  <2> QED
    BY <2>1, <2>4, <2>5 DEF FewInv
<1>14. CASE Return
  BY <1>14 DEF Return, FewInv, Finished
<1>15. CASE UNCHANGED vars
  <2>1. UNCHANGED <<frame, phase, pos, todo, starts, path, tree>>
    BY <1>15 DEF vars, groups
  <2> QED
    BY <2>1 DEF FewInv, Finished, Stacked, InHeader, Budgeted, InColumns, InOptions, Depth, Left, Cost, Debt,
                Promised, Fields, Remaining, raw
<1> QED
  BY <1>4, <1>5, <1>6, <1>7, <1>8, <1>9, <1>10, <1>11, <1>12, <1>13, <1>14, <1>15 DEF Next

LEMMA InvIsFew == ASSUME Inv, FewInv PROVE FieldsAreFew
<1>1. CASE phase = "idle"
  <2>1. Fields = 0 /\ Len(raw) = 0
    BY <1>1, FS_EmptySet DEF Inv, NoFields, NoFrame, Fields, raw
  <2> QED
    BY <2>1 DEF FieldsAreFew, Fields
<1>2. CASE phase = "reading"
  <2>1. frame \in Frames /\ pos \in 0 .. Len(raw) /\ path \in Paths /\ Stacked /\ Mode
    BY <1>2 DEF Inv, FewInv, Mode
  <2>2. raw \in Seq(0 .. 255) /\ Len(raw) \in Nat /\ Len(raw) > 0
    BY <2>1, FrameLength, FramesAssumption DEF raw
  <2>3. ReadingFrame
    BY <2>1, <2>2 DEF ReadingFrame, Remaining
  <2>4. Fields \in Nat /\ Fields + 1 <= 3 * Len(raw)
    BY <2>1, <2>3, ModeIsFew
  <2>5. Fields <= 3 * Len(raw)
    BY <2>2, <2>4
  <2> QED
    BY <2>5 DEF FieldsAreFew, Fields
<1>3. CASE Finished
  BY <1>3 DEF FewInv, FieldsAreFew, Fields
<1> QED
  BY <1>1, <1>2, <1>3 DEF Inv, Finished

(* Fields never outnumber three times the bytes of the frame, in any frame *)
(* and at any time: every read of a case pays for the fields it emits, for *)
(* the groups it opens and for the turn of the loop it is in (the loops of *)
(* annotate.go, which run on what the peer has sent).                      *)
THEOREM FieldsStayFew == Spec => []FieldsAreFew
<1>1. Init => FewInv
  BY DEF Init, FewInv, Finished
<1>2. Inv /\ FewInv /\ [Next]_vars => FewInv'
  BY FewStep
<1>3. Init => Inv
  BY InitInv
<1>4. Inv /\ [Next]_vars => Inv'
  BY StepInv
<1>5. Inv /\ FewInv => FieldsAreFew
  BY InvIsFew
<1> QED
  BY <1>1, <1>2, <1>3, <1>4, <1>5, PTL DEF Spec
=============================================================================
