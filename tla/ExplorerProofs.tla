--------------------------- MODULE ExplorerProofs ----------------------------
(***************************************************************************)
(* What the reader selects, pins and hovers is what the explorer screen    *)
(* shows: theorems about Explorer for any captures, and the facts about    *)
(* numbers, field trees and windowed lists that the panes' proofs share.   *)
(***************************************************************************)
EXTENDS Explorer, VirtualList, FiniteSetTheorems, FunctionTheorems, WellFoundedInduction, SequenceTheorems, TLAPS

(***************************************************************************)
(* The field tree.                                                         *)
(***************************************************************************)

(* A set of naturals has a least element.                                  *)
LEMMA Smallest ==
  ASSUME NEW S \in SUBSET Nat, S # {}
  PROVE  \E m \in S : \A k \in S : m <= k
<1> DEFINE T == {0 .. n : n \in S}
<1>1. \A n \in S : 0 .. n \in FiniteSubsetsOf(Nat)
  BY FS_Interval DEF FiniteSubsetsOf
<1>2. T \subseteq FiniteSubsetsOf(Nat) /\ T # {}
  BY <1>1
<1>3. PICK x \in T : \A y \in T : <<y, x>> \notin StrictSubsetOrdering(Nat)
  <2> HIDE DEF T
  <2> QED
    BY <1>2, FS_StrictSubsetOrderingWellFounded, WFMin
<1>4. PICK m \in S : x = 0 .. m
  BY <1>3
<1>5. ASSUME NEW k \in S, k < m PROVE FALSE
  <2>1. 0 .. k \subseteq 0 .. m /\ m \in 0 .. m /\ m \notin 0 .. k
    BY <1>5
  <2>2. <<0 .. k, x>> \in StrictSubsetOrdering(Nat)
    BY <1>4, <2>1 DEF StrictSubsetOrdering
  <2> QED
    BY <1>3, <2>2
<1> QED
  BY <1>5

(* A set of numbers up to n has a greatest.                                *)
LEMMA Largest ==
  ASSUME NEW n \in Nat, NEW S \in SUBSET (0 .. n), S # {}
  PROVE  \E m \in S : \A k \in S : k <= m
<1> DEFINE T == {k \in 0 .. n : n - k \in S}
<1>1. T \in SUBSET Nat /\ T # {}
  <2>1. PICK k \in S : TRUE
    OBVIOUS
  <2>2. n - k \in T
    <3>1. k \in Nat /\ k <= n
      OBVIOUS
    <3>2. n - k \in 0 .. n /\ n - (n - k) = k
      BY <3>1
    <3>3. n - (n - k) \in S
      BY <3>2
    <3> QED
      BY <3>2, <3>3
  <2>3. T \in SUBSET Nat
    OBVIOUS
  <2> HIDE DEF T
  <2> QED
    BY <2>2, <2>3
<1>2. PICK t \in T : \A k \in T : t <= k
  <2> HIDE DEF T
  <2> QED
    BY <1>1, Smallest
<1>3. ASSUME NEW k \in S PROVE k <= n - t
  <2>1. n - k \in 0 .. n /\ n - (n - k) = k /\ t \in 0 .. n
    OBVIOUS
  <2>2. t <= n - k
    BY <1>2, <2>1
  <2> QED
    BY <2>1, <2>2
<1> QED
  BY <1>3

LEMMA Multiples ==
  ASSUME NEW m \in Nat, NEW n \in Nat, NEW k \in Nat, m <= n
  PROVE  /\ m * k \in Nat /\ n * k \in Nat
         /\ m * k <= n * k
<1>1. PICK d \in Nat : n = m + d
  <2>1. n - m \in Nat /\ n = m + (n - m)
    OBVIOUS
  <2> QED
    BY <2>1
<1>2. n * k = m * k + d * k
  BY <1>1
<1>3. m * k \in Nat /\ d * k \in Nat /\ n * k \in Nat
  BY <1>1
<1> QED
  BY <1>2, <1>3

(* Of finitely many paths one is the longest.                              *)
LEMMA Longest ==
  ASSUME NEW Q, IsFiniteSet(Q), Q # {}, \A q \in Q : Len(q) \in Nat
  PROVE  \E p \in Q : \A q \in Q : Len(q) <= Len(p)
<1> DEFINE LongerThan(p) == {q \in Q : Len(q) > Len(p)}
           T == {LongerThan(p) : p \in Q}
<1>1. \A p \in Q : LongerThan(p) \in FiniteSubsetsOf(Q)
  BY FS_Subset DEF FiniteSubsetsOf
<1>2. T \subseteq FiniteSubsetsOf(Q) /\ T # {}
  BY <1>1
<1>3. PICK x \in T : \A y \in T : <<y, x>> \notin StrictSubsetOrdering(Q)
  <2> HIDE DEF T
  <2> QED
    BY <1>2, FS_StrictSubsetOrderingWellFounded, WFMin
<1>4. PICK p \in Q : x = LongerThan(p)
  BY <1>3
<1>5. ASSUME NEW q \in Q, Len(q) > Len(p) PROVE FALSE
  <2>1. LongerThan(q) \subseteq LongerThan(p) /\ q \in LongerThan(p) /\ q \notin LongerThan(q)
    BY <1>5
  <2>2. <<LongerThan(q), x>> \in StrictSubsetOrdering(Q)
    BY <1>4, <2>1 DEF StrictSubsetOrdering
  <2> QED
    BY <1>3, <2>2
<1> QED
  BY <1>5

LEMMA TreePaths ==
  ASSUME NEW tree, IsTree(tree), NEW p \in DOMAIN tree
  PROVE  /\ p \in Seq(Nat \ {0}) /\ Len(p) \in Nat /\ Len(p) > 0
         /\ \A k \in 1 .. Len(p) :
              /\ SubSeq(p, 1, k) \in DOMAIN tree /\ SubSeq(p, 1, k) \in Seq(Nat \ {0})
              /\ Len(SubSeq(p, 1, k)) = k
              /\ \A i \in 1 .. k : SubSeq(p, 1, k)[i] = p[i]
         /\ SubSeq(p, 1, Len(p)) = p
<1>1. p \in Seq(Nat \ {0}) /\ p # <<>> /\ Above(p) \subseteq DOMAIN tree
  BY DEF IsTree, NoPath
<1>2. Len(p) \in Nat /\ Len(p) > 0 /\ SubSeq(p, 1, Len(p)) = p
  BY <1>1
<1>3. ASSUME NEW k \in 1 .. Len(p)
      PROVE  SubSeq(p, 1, k) \in DOMAIN tree
  <2>1. CASE k = Len(p)
    BY <1>2, <2>1
  <2>2. CASE k \in 1 .. Len(p) - 1
    BY <1>1, <2>2 DEF Above
  <2>3. k = Len(p) \/ k \in 1 .. Len(p) - 1
    <3>1. Len(p) \in Nat
      BY <1>2
    <3> QED
      BY ONLY <3>1, k \in 1 .. Len(p)
  <2> QED
    BY <2>1, <2>2, <2>3
<1>4. ASSUME NEW k \in 1 .. Len(p)
      PROVE  /\ SubSeq(p, 1, k) \in DOMAIN tree /\ SubSeq(p, 1, k) \in Seq(Nat \ {0})
             /\ Len(SubSeq(p, 1, k)) = k
             /\ \A i \in 1 .. k : SubSeq(p, 1, k)[i] = p[i]
  <2>1. SubSeq(p, 1, k) \in Seq(Nat \ {0}) /\ Len(SubSeq(p, 1, k)) = k
    BY <1>1, <1>2
  <2>2. \A i \in 1 .. k : SubSeq(p, 1, k)[i] = p[i]
    BY <1>1, <1>2
  <2> QED
    BY <1>3, <2>1, <2>2
<1> QED
  <2>1. /\ p \in Seq(Nat \ {0}) /\ Len(p) \in Nat /\ Len(p) > 0
        /\ SubSeq(p, 1, Len(p)) = p
    BY <1>1, <1>2
  <2> QED
    BY <2>1, <1>4, Zenon

Covering(tree, b) == {p \in DOMAIN tree : Covers(tree[p], b)}

GoodTree(tree) == IsTree(tree) /\ ChildrenWithin(tree) /\ SiblingsApart(tree)

LEMMA TreeRange ==
  ASSUME NEW tree, GoodTree(tree), NEW p \in DOMAIN tree
  PROVE  tree[p][1] \in Int /\ tree[p][2] \in Int
<1>1. tree[p] \in Int \X Int
  BY DEF GoodTree, IsTree
<1> QED
  BY <1>1

(* What a field covers, every field above it covers.                       *)
LEMMA AboveCovers ==
  ASSUME NEW tree, GoodTree(tree), NEW b \in Int, NEW p \in Covering(tree, b)
  PROVE  \A k \in 1 .. Len(p) : SubSeq(p, 1, k) \in Covering(tree, b)
<1> DEFINE n == Len(p)
           S == {j \in 0 .. n - 1 : SubSeq(p, 1, n - j) \notin Covering(tree, b)}
<1>1. p \in DOMAIN tree /\ n \in Nat /\ n > 0
  BY TreePaths DEF Covering, GoodTree
<1>2. CASE S = {}
  <2> SUFFICES ASSUME NEW k \in 1 .. n PROVE SubSeq(p, 1, k) \in Covering(tree, b)
    OBVIOUS
  <2>1. n - k \in 0 .. n - 1 /\ n - (n - k) = k
    BY <1>1
  <2> QED
    BY <1>2, <2>1
<1>3. CASE S # {}
  <2>1. PICK m \in S : \A j \in S : m <= j
    <3>1. S \in SUBSET Nat
      BY <1>1
    <3> HIDE DEF S
    <3> QED
      BY <1>3, <3>1, Smallest
  <2>2. m \in Nat /\ m > 0 /\ m < n
    <3>1. m # 0
      <4>1. SubSeq(p, 1, n) \in Covering(tree, b)
        BY <1>1, TreePaths DEF GoodTree
      <4> QED
        BY <1>1, <4>1
    <3> QED
      BY <1>1, <3>1
  <2> DEFINE q == SubSeq(p, 1, n - (m - 1))
             r == SubSeq(p, 1, n - m)
  <2>3. q \in Covering(tree, b)
    <3>1. m - 1 \in 0 .. n - 1 /\ ~(m <= m - 1)
      BY <1>1, <2>2
    <3> QED
      BY <2>1, <3>1
  <2>4. r \in DOMAIN tree /\ n - (m - 1) \in 1 .. n /\ n - m \in 1 .. n
    BY <1>1, <2>2, TreePaths DEF GoodTree
  <2>5. Len(q) = n - (m - 1) /\ q \in DOMAIN tree /\ SubSeq(q, 1, Len(q) - 1) = r
    <3>1. Len(q) = n - (m - 1) /\ q \in DOMAIN tree /\ p \in Seq(Nat \ {0})
      BY <1>1, <2>4, TreePaths DEF GoodTree
    <3>2. Len(q) - 1 = n - m
      BY <1>1, <2>2, <3>1
    <3>3. SubSeq(q, 1, n - m) = r
      BY <1>1, <2>2, <2>4, <3>1
    <3> QED
      BY <3>1, <3>2, <3>3
  <2>6. Covers(tree[r], b)
    <3>1. ~isEmptyRange(tree[q]) /\ Len(q) > 1
      BY <1>1, <2>2, <2>3, <2>5, TreeRange DEF Covering, Covers, isEmptyRange
    <3>2. Covers(tree[r], tree[q][1]) /\ Covers(tree[r], tree[q][2])
      BY <2>5, <3>1 DEF GoodTree, ChildrenWithin
    <3> QED
      BY <2>3, <2>4, <2>5, <3>2, TreeRange DEF Covering, Covers
  <2> QED
    BY <2>1, <2>4, <2>6 DEF Covering
<1> QED
  BY <1>2, <1>3
(* Two fields that cover the same byte lie one in the other.               *)
LEMMA CoveringChain ==
  ASSUME NEW tree, GoodTree(tree), NEW b \in Int,
         NEW p \in Covering(tree, b), NEW q \in Covering(tree, b), Len(p) <= Len(q)
  PROVE  p = SubSeq(q, 1, Len(p))
<1> DEFINE S == {k \in 1 .. Len(p) : p[k] # q[k]}
<1>1. /\ p \in DOMAIN tree /\ q \in DOMAIN tree
      /\ p \in Seq(Nat \ {0}) /\ q \in Seq(Nat \ {0})
      /\ Len(p) \in Nat /\ Len(q) \in Nat /\ Len(p) > 0
  BY TreePaths DEF Covering, GoodTree
<1>2. CASE S = {}
  <2>1. \A k \in 1 .. Len(p) : p[k] = q[k]
    BY <1>2
  <2>2. /\ SubSeq(q, 1, Len(p)) \in Seq(Nat \ {0})
        /\ Len(SubSeq(q, 1, Len(p))) = Len(p)
        /\ \A k \in 1 .. Len(p) : SubSeq(q, 1, Len(p))[k] = q[k]
    <3>1. Len(p) \in 1 .. Len(q)
      BY <1>1
    <3> QED
      BY <1>1, <3>1, TreePaths DEF GoodTree
  <2> QED
    BY <1>1, <2>1, <2>2, SeqEqual
<1>3. CASE S # {}
  <2>1. PICK m \in S : \A j \in S : m <= j
    <3>1. S \in SUBSET Nat
      BY <1>1
    <3> HIDE DEF S
    <3> QED
      BY <1>3, <3>1, Smallest
  <2> DEFINE u == SubSeq(p, 1, m)
             v == SubSeq(q, 1, m)
  <2>2. m \in 1 .. Len(p) /\ m \in 1 .. Len(q) /\ p[m] # q[m]
    BY <1>1
  <2>3. u \in Covering(tree, b) /\ v \in Covering(tree, b)
    BY <2>2, AboveCovers
  <2>4. /\ Len(u) = m /\ Len(v) = m
        /\ \A i \in 1 .. m : u[i] = p[i] /\ v[i] = q[i]
    BY <1>1, <2>2, TreePaths DEF GoodTree
  <2>5. \A i \in 1 .. m - 1 : p[i] = q[i]
    <3> SUFFICES ASSUME NEW i \in 1 .. m - 1, p[i] # q[i] PROVE FALSE
      OBVIOUS
    <3>1. i \in S /\ ~(m <= i)
      BY <1>1, <2>2
    <3> QED
      BY <2>1, <3>1
  <2>6. u # v /\ Len(u) = Len(v) /\ \A i \in 1 .. Len(u) - 1 : u[i] = v[i]
    <3>1. u[m] = p[m] /\ v[m] = q[m]
      BY <2>2, <2>4
    <3>2. \A i \in 1 .. m - 1 : i \in 1 .. m
      BY <2>2
    <3> HIDE DEF u, v
    <3> QED
      BY <2>2, <2>4, <2>5, <3>1, <3>2
  <2>7. u \in DOMAIN tree /\ v \in DOMAIN tree
    BY <2>3 DEF Covering
  <2>8. \/ tree[u][2] < tree[v][1] \/ tree[v][2] < tree[u][1]
        \/ isEmptyRange(tree[u]) \/ isEmptyRange(tree[v])
    <3> HIDE DEF u, v
    <3> QED
      BY <2>6, <2>7 DEF GoodTree, SiblingsApart
  <2> QED
    <3> HIDE DEF u, v
    <3> QED
      BY <2>3, <2>7, <2>8, TreeRange DEF Covering, Covers, isEmptyRange
<1> QED
  BY <1>2, <1>3

(* So the first sibling that covers a byte is the only one.                *)
LEMMA CoveringEntered ==
  ASSUME NEW tree, GoodTree(tree), NEW b \in Int, NEW p \in Covering(tree, b)
  PROVE  Entered(tree, p, b)
<1> DEFINE n == Len(p)
<1>1. p \in DOMAIN tree /\ p \in Seq(Nat \ {0}) /\ n \in Nat /\ n > 0 /\ SubSeq(p, 1, n) = p
  BY TreePaths DEF Covering, GoodTree
<1>2. ASSUME NEW i \in 1 .. p[n] - 1, Covers(tree[[p EXCEPT ![n] = i]], b)
      PROVE  FALSE
  <2> DEFINE r == [p EXCEPT ![n] = i]
  <2>1. r \in DOMAIN tree
    BY <1>1 DEF GoodTree, IsTree
  <2>2. r \in Covering(tree, b)
    BY <1>2, <2>1 DEF Covering
  <2>3. Len(r) = n /\ r[n] = i /\ p[n] \in Nat
    BY <1>1
  <2>4. r = SubSeq(p, 1, n)
    <3> HIDE DEF r
    <3> QED
      BY <1>1, <2>2, <2>3, CoveringChain
  <2>5. r[n] = p[n]
    BY <1>1, <2>4
  <2> HIDE DEF r
  <2> QED
    BY <2>3, <2>5
<1> QED
  BY <1>2 DEF Entered, Covering

OnTheWay(tree, b) == {q \in DOMAIN tree : \A p \in Above(q) \cup {q} : Entered(tree, p, b)}

LEMMA HitIsLongest ==
  ASSUME NEW tree, IsTree(tree), NEW b, OnTheWay(tree, b) # {}
  PROVE  /\ fieldAtOffset(tree, b) \in OnTheWay(tree, b)
         /\ \A q \in OnTheWay(tree, b) : Len(q) <= Len(fieldAtOffset(tree, b))
<1>1. OnTheWay(tree, b) \subseteq DOMAIN tree
  BY DEF OnTheWay
<1>2. IsFiniteSet(OnTheWay(tree, b)) /\ \A q \in OnTheWay(tree, b) : Len(q) \in Nat
  BY <1>1, FS_Subset, TreePaths DEF IsTree
<1>3. \E p \in OnTheWay(tree, b) : \A q \in OnTheWay(tree, b) : Len(q) <= Len(p)
  BY <1>2, Longest
<1>4. fieldAtOffset(tree, b) =
        CHOOSE p \in OnTheWay(tree, b) : \A q \in OnTheWay(tree, b) : Len(q) <= Len(p)
  BY DEF fieldAtOffset, OnTheWay
<1> QED
  BY <1>3, <1>4

(* A hit is a field of the tree.                                           *)
LEMMA HitIsField ==
  ASSUME NEW tree, IsTree(tree), NEW b, fieldAtOffset(tree, b) # NoPath
  PROVE  fieldAtOffset(tree, b) \in DOMAIN tree
<1>1. OnTheWay(tree, b) # {}
  BY DEF fieldAtOffset, OnTheWay
<1> QED
  BY <1>1, HitIsLongest DEF OnTheWay

(* hex.ts, the walk down the tree: if a field covers the byte, it ends at  *)
(* one that does, and those that do are that field and the ones above it.  *)
THEOREM WalkFindsInnermost ==
  ASSUME NEW tree, GoodTree(tree), NEW b \in Int, Covering(tree, b) # {}
  PROVE  /\ fieldAtOffset(tree, b) \in Covering(tree, b)
         /\ Covering(tree, b) = Above(fieldAtOffset(tree, b)) \cup {fieldAtOffset(tree, b)}
<1> DEFINE hit == fieldAtOffset(tree, b)
<1>1. \A p \in Covering(tree, b) : Above(p) \subseteq Covering(tree, b)
  <2> SUFFICES ASSUME NEW p \in Covering(tree, b), NEW k \in 1 .. Len(p) - 1
               PROVE  SubSeq(p, 1, k) \in Covering(tree, b)
    BY DEF Above
  <2>1. Len(p) \in Nat
    BY TreePaths DEF Covering, GoodTree
  <2> QED
    BY <2>1, AboveCovers
<1>2. OnTheWay(tree, b) = Covering(tree, b)
  <2>1. OnTheWay(tree, b) \subseteq Covering(tree, b)
    BY DEF OnTheWay, Covering, Entered
  <2>2. ASSUME NEW p \in Covering(tree, b) PROVE p \in OnTheWay(tree, b)
    <3>1. \A q \in Above(p) \cup {p} : Entered(tree, q, b)
      BY <1>1, CoveringEntered
    <3> QED
      BY <3>1 DEF OnTheWay, Covering
  <2> QED
    BY <2>1, <2>2
<1>3. hit \in Covering(tree, b) /\ \A q \in Covering(tree, b) : Len(q) <= Len(hit)
  BY <1>2, HitIsLongest DEF GoodTree
<1>4. ASSUME NEW q \in Covering(tree, b) PROVE q \in Above(hit) \cup {hit}
  <2>1. q = SubSeq(hit, 1, Len(q)) /\ Len(q) <= Len(hit)
    BY <1>3, CoveringChain
  <2>2. /\ Len(q) \in Nat /\ Len(q) > 0 /\ Len(hit) \in Nat
        /\ SubSeq(hit, 1, Len(hit)) = hit
    BY <1>3, TreePaths DEF Covering, GoodTree
  <2> DEFINE m == Len(q)
             n == Len(hit)
  <2>3. m = n \/ m \in 1 .. n - 1
    <3>1. m \in Nat /\ n \in Nat /\ m > 0 /\ m <= n
      BY <2>1, <2>2
    <3> QED
      BY ONLY <3>1
  <2> QED
    BY <2>1, <2>2, <2>3 DEF Above
<1> QED
  BY <1>1, <1>3, <1>4
-----------------------------------------------------------------------------
(* Windowed lists: rows that follow one another, each of some height.      *)
GoodList(list) ==
  /\ list.count \in Nat /\ list.view \in Nat /\ list.overscan \in Nat
  /\ \A i \in 0 .. list.count - 1 :
       /\ RowStart(list, i) \in Nat /\ RowEnd(list, i) \in Nat
       /\ RowStart(list, i) < RowEnd(list, i)
  /\ \A i, j \in 0 .. list.count - 1 : i < j => RowEnd(list, i) <= RowStart(list, j)

(* The rows the virtualizer takes to be in view.                           *)
LEMMA RangeInView ==
  ASSUME NEW list, GoodList(list), list.count # 0, NEW seen \in Nat
  PROVE  LET s == startIndex(list, seen)
             e == endIndex(list, seen)
         IN  /\ s \in 0 .. list.count - 1 /\ e \in s .. list.count - 1
             /\ s = 0 \/ RowStart(list, s) <= seen
             /\ e = list.count - 1 \/ RowEnd(list, e) >= seen + list.view
<1> DEFINE c == list.count
           V == list.view
           Before == {j \in 0 .. c - 1 : RowStart(list, j) <= seen}
           s == startIndex(list, seen)
           e == endIndex(list, seen)
<1>1. c \in Nat \ {0} /\ V \in Nat
  BY DEF GoodList
<1>2. \A j \in 0 .. c - 1 : RowStart(list, j) \in Nat /\ RowEnd(list, j) \in Nat
  BY DEF GoodList
<1>3. /\ s \in 0 .. c - 1
      /\ s = 0 \/ RowStart(list, s) <= seen
  <2>1. \E i \in 0 .. c - 1 :
          /\ i = 0 \/ RowStart(list, i) <= seen
          /\ \A j \in 0 .. c - 1 : RowStart(list, j) <= seen => j <= i
    <3>1. CASE Before = {}
      <4>1. 0 \in 0 .. c - 1
        BY <1>1
      <4> QED
        BY <3>1, <4>1
    <3>2. CASE Before # {}
      <4>1. c - 1 \in Nat /\ Before \in SUBSET (0 .. c - 1)
        BY <1>1
      <4> HIDE DEF Before
      <4>2. PICK m \in Before : \A k \in Before : k <= m
        BY <3>2, <4>1, Largest
      <4> QED
        BY <4>2 DEF Before
    <3> QED
      BY <3>1, <3>2
  <2> QED
    BY <2>1 DEF startIndex, Rows
<1> HIDE DEF s
<1>4. /\ e \in 0 .. c - 1 /\ e >= s
      /\ e = c - 1 \/ RowEnd(list, e) >= seen + V
  <2> DEFINE Ending == {i \in s .. c - 1 : i = c - 1 \/ RowEnd(list, i) >= seen + V}
  <2>1. Ending \in SUBSET Nat /\ c - 1 \in Ending
    BY <1>1, <1>3
  <2>2. PICK m \in Ending : \A k \in Ending : m <= k
    <3> HIDE DEF Ending
    <3> QED
      BY <2>1, Smallest
  <2>3. \A j \in s .. m - 1 : RowEnd(list, j) < seen + V
    <3> SUFFICES ASSUME NEW j \in s .. m - 1, ~(RowEnd(list, j) < seen + V) PROVE FALSE
      OBVIOUS
    <3>1. j \in s .. c - 1 /\ j \in 0 .. c - 1 /\ m \in Int /\ ~(m <= j)
      BY <1>1, <1>3
    <3>2. RowEnd(list, j) >= seen + V
      BY <1>1, <1>2, <3>1
    <3> QED
      BY <2>2, <3>1, <3>2
  <2>4. m \in 0 .. c - 1 /\ m >= s
    BY <1>1, <1>3
  <2>5. \E i \in 0 .. c - 1 :
          /\ i >= s
          /\ i = c - 1 \/ RowEnd(list, i) >= seen + V
          /\ \A j \in s .. i - 1 : RowEnd(list, j) < seen + V
    BY <2>2, <2>3, <2>4
  <2> QED
    BY <2>5 DEF endIndex, Rows, s
<1> HIDE DEF e
<1>5. e \in s .. c - 1
  BY <1>1, <1>3, <1>4
<1> QED
  BY <1>3, <1>4, <1>5 DEF s, e

(* The rows in the DOM are consecutive, and all that are in view are there. *)
LEMMA MountedRun ==
  ASSUME NEW list, GoodList(list), list.count # 0, NEW seen \in Nat
  PROVE  \E lo \in 0 .. list.count - 1 : \E hi \in lo .. list.count - 1 :
           /\ Mounted(list, seen) = lo .. hi
           /\ \A r \in 0 .. list.count - 1 : Overlaps(list, seen, r) => r \in lo .. hi
<1> DEFINE c == list.count
           s == startIndex(list, seen)
           e == endIndex(list, seen)
           v == list.overscan
           lo == IF s - v < 0 THEN 0 ELSE s - v
           hi == IF e + v > c - 1 THEN c - 1 ELSE e + v
<1>1. c \in Nat \ {0} /\ v \in Nat
  BY DEF GoodList
<1>2. /\ s \in 0 .. c - 1 /\ e \in s .. c - 1
      /\ s = 0 \/ RowStart(list, s) <= seen
      /\ e = c - 1 \/ RowEnd(list, e) >= seen + list.view
  BY RangeInView
<1>3. Mounted(list, seen) = {i \in 0 .. c - 1 : i >= s - v /\ i <= e + v}
  BY <1>1 DEF Mounted, Rows
<1>4. /\ \A i \in 0 .. c - 1 : RowStart(list, i) \in Nat /\ RowEnd(list, i) \in Nat
      /\ list.view \in Nat
  BY DEF GoodList
<1>5. \A i, j \in 0 .. c - 1 : i < j => RowEnd(list, i) <= RowStart(list, j)
  BY DEF GoodList
<1> HIDE DEF s, e, v, c
<1>6. lo \in 0 .. c - 1 /\ hi \in lo .. c - 1 /\ lo <= s /\ e <= hi
  BY <1>1, <1>2
<1>7. Mounted(list, seen) = lo .. hi
  BY <1>1, <1>2, <1>3
<1>8. ASSUME NEW r \in 0 .. c - 1, Overlaps(list, seen, r)
      PROVE  r \in lo .. hi
  <2>1. RowStart(list, r) < seen + list.view /\ seen < RowEnd(list, r)
    BY <1>8 DEF Overlaps
  <2>2. r >= s
    <3> SUFFICES ASSUME r < s PROVE FALSE
      BY <1>2
    <3>1. RowEnd(list, r) <= RowStart(list, s) /\ RowStart(list, s) <= seen
      BY <1>2, <1>5
    <3> QED
      BY <1>2, <1>4, <2>1, <3>1
  <2>3. r <= e
    <3> SUFFICES ASSUME r > e PROVE FALSE
      BY <1>1, <1>2
    <3>1. e \in 0 .. c - 1 /\ e # c - 1
      BY <1>1, <1>2
    <3>2. RowEnd(list, e) <= RowStart(list, r) /\ RowEnd(list, e) >= seen + list.view
      BY <1>2, <1>5, <3>1
    <3> QED
      BY <1>4, <2>1, <3>1, <3>2
  <2> QED
    BY <1>1, <1>2, <1>6, <2>2, <2>3
<1> QED
  <2> HIDE DEF lo, hi
  <2> QED
    BY <1>6, <1>7, <1>8 DEF c

(* A row that is drawn in full is in that range.                           *)
LEMMA ShownInRange ==
  ASSUME NEW list, GoodList(list), NEW top \in Nat,
         NEW row \in 0 .. list.count - 1, Shows(list, top, row)
  PROVE  InRange(list, top, row)
<1> DEFINE c == list.count
           s == startIndex(list, top)
           e == endIndex(list, top)
<1>1. c \in Nat /\ c # 0 /\ list.view \in Nat
  BY DEF GoodList
<1>2. /\ s \in 0 .. c - 1 /\ e \in s .. c - 1
      /\ s = 0 \/ RowStart(list, s) <= top
      /\ e = c - 1 \/ RowEnd(list, e) >= top + list.view
  BY <1>1, RangeInView
<1>3. /\ \A i \in 0 .. c - 1 :
           RowStart(list, i) \in Nat /\ RowEnd(list, i) \in Nat /\ RowStart(list, i) < RowEnd(list, i)
      /\ \A i, j \in 0 .. c - 1 : i < j => RowEnd(list, i) <= RowStart(list, j)
  BY DEF GoodList
<1>4. top <= RowStart(list, row) /\ RowEnd(list, row) <= top + list.view
  BY DEF Shows
<1> HIDE DEF s, e, c
<1>5. row \in 0 .. c - 1
  BY DEF c
<1>6. s <= row
  <2> SUFFICES ASSUME row < s PROVE FALSE
    BY <1>1, <1>2, <1>5
  <2>1. RowEnd(list, row) <= RowStart(list, s) /\ RowStart(list, s) <= top
    BY <1>1, <1>2, <1>3, <1>5
  <2> QED
    BY <1>2, <1>3, <1>4, <1>5, <2>1
<1>7. row <= e
  <2> SUFFICES ASSUME e < row PROVE FALSE
    BY <1>1, <1>2, <1>5
  <2>1. e \in 0 .. c - 1 /\ e # c - 1
    BY <1>1, <1>2, <1>5
  <2>2. RowEnd(list, e) <= RowStart(list, row) /\ RowEnd(list, e) >= top + list.view
    BY <1>2, <1>3, <1>5, <2>1
  <2> QED
    BY <1>1, <1>3, <1>4, <1>5, <2>1, <2>2
<1> QED
  BY <1>5, <1>6, <1>7 DEF InRange, Rows, s, e, c

-----------------------------------------------------------------------------
(***************************************************************************)
(* Lists in an order.                                                      *)
(***************************************************************************)

TotalOrder(S, order) ==
  /\ \A x \in S : <<x, x>> \notin order
  /\ \A x, y, z \in S : <<x, y>> \in order /\ <<y, z>> \in order => <<x, z>> \in order
  /\ \A x, y \in S : x = y \/ <<x, y>> \in order \/ <<y, x>> \in order

Before(S, order, x) == {y \in S : <<y, x>> \in order}

(* How many come before an element tells it from the others.               *)
LEMMA RankIsStrict ==
  ASSUME NEW S, IsFiniteSet(S), NEW order, TotalOrder(S, order), NEW x \in S
  PROVE  /\ Cardinality(Before(S, order, x)) \in 0 .. Cardinality(S) - 1
         /\ \A y \in S : <<y, x>> \in order =>
              Cardinality(Before(S, order, y)) < Cardinality(Before(S, order, x))
<1>1. /\ IsFiniteSet(Before(S, order, x)) /\ Before(S, order, x) \in SUBSET S
      /\ x \notin Before(S, order, x)
  BY FS_Subset DEF Before, TotalOrder
<1>2. /\ Cardinality(Before(S, order, x)) \in Nat /\ Cardinality(S) \in Nat
      /\ Cardinality(Before(S, order, x)) <= Cardinality(S)
      /\ Cardinality(Before(S, order, x)) # Cardinality(S)
  BY <1>1, FS_Subset, FS_CardinalityType
<1>3. ASSUME NEW y \in S, <<y, x>> \in order
      PROVE  Cardinality(Before(S, order, y)) < Cardinality(Before(S, order, x))
  <2>1. /\ Before(S, order, y) \in SUBSET Before(S, order, x)
        /\ y \in Before(S, order, x) /\ y \notin Before(S, order, y)
    BY <1>3 DEF Before, TotalOrder
  <2>2. /\ IsFiniteSet(Before(S, order, y))
        /\ Cardinality(Before(S, order, y)) <= Cardinality(Before(S, order, x))
        /\ Cardinality(Before(S, order, y)) # Cardinality(Before(S, order, x))
    BY <1>1, <2>1, FS_Subset
  <2>3. Cardinality(Before(S, order, y)) \in Nat
    BY <2>2, FS_CardinalityType
  <2> QED
    BY <1>2, <2>2, <2>3
<1> QED
  BY <1>2, <1>3

(* Every place has an element.                                             *)
LEMMA RankIsOnto ==
  ASSUME NEW S, IsFiniteSet(S), NEW order, TotalOrder(S, order), NEW n \in 1 .. Cardinality(S)
  PROVE  \E x \in S : Cardinality(Before(S, order, x)) = n - 1
<1> DEFINE c    == Cardinality(S)
           f[x \in S] == Cardinality(Before(S, order, x)) + 1
<1>1. c \in Nat
  BY FS_CardinalityType
<1>2. \A x \in S : f[x] \in 1 .. c /\ f[x] = Cardinality(Before(S, order, x)) + 1
  BY <1>1, RankIsStrict
<1>3. \A x, y \in S : f[x] = f[y] => x = y
  <2> SUFFICES ASSUME NEW x \in S, NEW y \in S, f[x] = f[y], x # y PROVE FALSE
    OBVIOUS
  <2>1. <<x, y>> \in order \/ <<y, x>> \in order
    BY DEF TotalOrder
  <2>2. Cardinality(Before(S, order, x)) \in Int /\ Cardinality(Before(S, order, y)) \in Int
    BY <1>1, RankIsStrict
  <2>3. Cardinality(Before(S, order, x)) = Cardinality(Before(S, order, y))
    BY <1>2, <2>2
  <2> QED
    BY <2>1, <2>2, <2>3, RankIsStrict
<1>4. f \in Injection(S, 1 .. c)
  <2>1. f \in [S -> 1 .. c]
    <3>1. f = [x \in S |-> f[x]]
      OBVIOUS
    <3> HIDE DEF f
    <3> QED
      BY <1>2, <3>1
  <2> HIDE DEF f
  <2> QED
    BY <1>3, <2>1, Fun_IsInj
<1>5. IsFiniteSet(1 .. c) /\ Cardinality(1 .. c) = c
  BY <1>1, FS_Interval
<1>6. f \in Surjection(S, 1 .. c)
  <2> HIDE DEF f
  <2> QED
    BY <1>4, <1>5, FS_Injection
<1>7. PICK x \in S : f[x] = n
  <2> HIDE DEF f
  <2> QED
    BY <1>6 DEF Surjection
<1>8. Cardinality(Before(S, order, x)) \in Int
  BY <1>1, RankIsStrict
<1> QED
  BY <1>2, <1>7, <1>8

LEMMA SortedList ==
  ASSUME NEW S, IsFiniteSet(S), NEW order, TotalOrder(S, order)
  PROVE  LET s == Sorted(S, order)
         IN  /\ s \in Seq(S) /\ Len(s) = Cardinality(S) /\ Len(s) \in Nat
             /\ \A n \in 1 .. Len(s) : /\ s[n] \in S
                                       /\ Cardinality(Before(S, order, s[n])) = n - 1
             /\ \A j, k \in 1 .. Len(s) : j < k => <<s[j], s[k]>> \in order
             /\ \A x \in S : \E n \in 1 .. Len(s) : s[n] = x
<1> DEFINE c == Cardinality(S)
           Nth(n) == CHOOSE x \in S : Cardinality(Before(S, order, x)) = n - 1
           t == [n \in 1 .. c |-> Nth(n)]
<1>1. c \in Nat
  BY FS_CardinalityType
<1>2. \A n \in 1 .. c : Nth(n) \in S /\ Cardinality(Before(S, order, Nth(n))) = n - 1
  BY RankIsOnto
<1> HIDE DEF Nth
<1>3. t \in Seq(S) /\ Len(t) = c
  BY <1>1, <1>2
<1>4. Sorted(S, order) = t
  <2>1. Sorted(S, order) = t \o <<>>
    BY DEF Sorted, Nth, Before
  <2> HIDE DEF t
  <2> QED
    BY <1>3, <2>1, ConcatEmptySeq
<1>5. \A n \in 1 .. c : t[n] \in S /\ Cardinality(Before(S, order, t[n])) = n - 1
  BY <1>2
<1> HIDE DEF t
<1>6. ASSUME NEW j \in 1 .. c, NEW k \in 1 .. c, j < k PROVE <<t[j], t[k]>> \in order
  <2>1. t[j] \in S /\ t[k] \in S
    BY <1>5
  <2>2. t[j] # t[k] /\ <<t[k], t[j]>> \notin order
    BY <1>1, <1>5, <1>6, RankIsStrict
  <2> QED
    BY <2>1, <2>2 DEF TotalOrder
<1>7. ASSUME NEW x \in S PROVE \E n \in 1 .. c : t[n] = x
  <2> DEFINE n == Cardinality(Before(S, order, x)) + 1
  <2>1. n \in 1 .. c /\ n - 1 = Cardinality(Before(S, order, x))
    BY <1>1, RankIsStrict
  <2>2. t[n] \in S /\ Cardinality(Before(S, order, t[n])) = Cardinality(Before(S, order, x))
    BY <1>5, <2>1
  <2>3. t[n] = x
    <3>1. \A y \in S : Cardinality(Before(S, order, y)) \in Int
      BY <1>1, RankIsStrict
    <3>2. <<t[n], x>> \notin order /\ <<x, t[n]>> \notin order
      BY <2>2, <3>1, RankIsStrict
    <3> QED
      BY <2>2, <3>2 DEF TotalOrder
  <2> QED
    BY <2>1, <2>3
<1> QED
  BY <1>1, <1>3, <1>4, <1>5, <1>6, <1>7

-----------------------------------------------------------------------------
LEMMA ImageFinite ==
  ASSUME NEW S, IsFiniteSet(S), NEW f, DOMAIN f = S, NEW T, T = {f[x] : x \in S}
  PROVE  IsFiniteSet(T)
<1> DEFINE g == [x \in S |-> f[x]]
<1>1. g \in Surjection(S, T)
  BY DEF Surjection
<1> HIDE DEF g
<1> QED
  BY <1>1, FS_Surjection

(***************************************************************************)
(* The rows.                                                               *)
(***************************************************************************)

(* What the recorder and validateCapture make of a list of sessions.       *)
Sessions(s) ==
  /\ IsSequence(s)
  /\ \A i \in DOMAIN s :
       /\ s[i].start \in Int /\ IsSequence(s[i].packets)
       /\ \A k \in DOMAIN s[i].packets : s[i].packets[k].at \in Int

LEMMA CapturesAreSessions ==
  ASSUME NEW c \in DOMAIN Captures
  PROVE  Sessions(SessionsOf(c)) /\ SessionsOf(c) # <<>>
  BY CapturesAssumption DEF Sessions, SessionsOf

LEMMA SequenceDomain ==
  ASSUME NEW s, IsSequence(s)
  PROVE  Len(s) \in Nat /\ DOMAIN s = 1 .. Len(s) /\ IsFiniteSet(DOMAIN s) /\ s \in Seq(Range(s))
<1>1. s \in Seq(Range(s))
  BY DEF IsSequence
<1>2. Len(s) \in Nat /\ DOMAIN s = 1 .. Len(s)
  BY <1>1
<1> QED
  BY <1>1, <1>2, FS_Interval

(* The rows of the sessions shown, and the time of each.                   *)
LEMMA PushedRows ==
  ASSUME NEW s, Sessions(s), NEW shown \in SUBSET DOMAIN s
  PROVE  /\ IsFiniteSet(Pushed(s, shown))
         /\ \A r \in Pushed(s, shown) :
              /\ r.session \in shown /\ r.packet \in Nat
              /\ r = [session |-> r.session, packet |-> r.packet]
              /\ r.packet + 1 \in DOMAIN s[r.session].packets
              /\ PacketOf(s, r).at \in Int /\ s[r.session].start \in Int
              /\ Time(s, r) \in Int
<1>1. IsFiniteSet(Pushed(s, shown))
  <2> DEFINE rowsOf == [i \in shown |-> {Row(i, k) : k \in DOMAIN s[i].packets}]
             parts  == {rowsOf[i] : i \in shown}
  <2>1. \A i \in shown : IsFiniteSet(rowsOf[i])
    <3> SUFFICES ASSUME NEW i \in shown PROVE IsFiniteSet(rowsOf[i])
      OBVIOUS
    <3> DEFINE f == [k \in DOMAIN s[i].packets |-> Row(i, k)]
    <3>1. IsFiniteSet(DOMAIN s[i].packets)
      BY SequenceDomain DEF Sessions
    <3>2. rowsOf[i] = {f[k] : k \in DOMAIN s[i].packets} /\ DOMAIN f = DOMAIN s[i].packets
      OBVIOUS
    <3> HIDE DEF rowsOf, f
    <3> QED
      BY <3>1, <3>2, ImageFinite
  <2>2. IsFiniteSet(shown)
    BY SequenceDomain, FS_Subset DEF Sessions
  <2>3. Pushed(s, shown) = UNION parts
    BY DEF Pushed
  <2>4. DOMAIN rowsOf = shown
    OBVIOUS
  <2> HIDE DEF rowsOf
  <2>5. IsFiniteSet(parts) /\ \A T \in parts : IsFiniteSet(T)
    BY <2>1, <2>2, <2>4, ImageFinite
  <2> HIDE DEF parts
  <2> QED
    BY <2>3, <2>5, FS_UNION
<1>2. ASSUME NEW r \in Pushed(s, shown)
      PROVE  /\ r.session \in shown /\ r.packet \in Nat
             /\ r = [session |-> r.session, packet |-> r.packet]
             /\ r.packet + 1 \in DOMAIN s[r.session].packets
  <2>1. PICK i \in shown : \E k \in DOMAIN s[i].packets : r = Row(i, k)
    BY DEF Pushed
  <2>2. PICK k \in DOMAIN s[i].packets : r = Row(i, k)
    BY <2>1
  <2>3. k \in Nat /\ k > 0
    BY SequenceDomain DEF Sessions
  <2> QED
    BY <2>2, <2>3 DEF Row
<1>3. ASSUME NEW r \in Pushed(s, shown)
      PROVE  /\ PacketOf(s, r).at \in Int /\ s[r.session].start \in Int /\ Time(s, r) \in Int
  <2>1. PacketOf(s, r).at \in Int /\ s[r.session].start \in Int
    BY <1>2 DEF PacketOf, Sessions
  <2>2. s[r.session].start % TicksPerMs \in Int
    BY <2>1, TicksAssumption
  <2> QED
    BY <2>1, <2>2 DEF Time, wallClock, ParsedStart
<1> QED
  BY <1>1, <1>2, <1>3

RowOrder(s, shown) == {p \in Pushed(s, shown) \X Pushed(s, shown) : RowBefore(s, p[1], p[2])}

LEMMA RowsTotallyOrdered ==
  ASSUME NEW s, Sessions(s), NEW shown \in SUBSET DOMAIN s
  PROVE  /\ TotalOrder(Pushed(s, shown), RowOrder(s, shown))
         /\ \A q, r \in Pushed(s, shown) : <<q, r>> \in RowOrder(s, shown) <=> RowBefore(s, q, r)
<1> DEFINE pushed == Pushed(s, shown)
<1>1. \A q, r \in pushed : <<q, r>> \in RowOrder(s, shown) <=> RowBefore(s, q, r)
  BY DEF RowOrder
<1>2. \A r \in pushed : r.session \in Nat /\ r.packet \in Nat /\ Time(s, r) \in Int
                        /\ r = [session |-> r.session, packet |-> r.packet]
  <2>1. \A i \in DOMAIN s : i \in Nat
    BY SequenceDomain DEF Sessions
  <2> QED
    BY <2>1, PushedRows
<1> HIDE DEF pushed
<1>3. \A r \in pushed : ~RowBefore(s, r, r)
  BY <1>2 DEF RowBefore
<1>4. \A q, r, t \in pushed : RowBefore(s, q, r) /\ RowBefore(s, r, t) => RowBefore(s, q, t)
  BY <1>2 DEF RowBefore
<1>5. \A q, r \in pushed : q = r \/ RowBefore(s, q, r) \/ RowBefore(s, r, q)
  BY <1>2 DEF RowBefore
<1>6. TotalOrder(pushed, RowOrder(s, shown))
  BY <1>1, <1>3, <1>4, <1>5 DEF TotalOrder
<1> QED
  BY <1>1, <1>6 DEF pushed

LEMMA MergedRows ==
  ASSUME NEW s, Sessions(s), NEW shown \in SUBSET DOMAIN s
  PROVE  LET list == mergeSessions(s, shown)
         IN  /\ list \in Seq(Pushed(s, shown)) /\ Len(list) \in Nat
             /\ Len(list) = Cardinality(Pushed(s, shown))
             /\ \A n \in 1 .. Len(list) :
                  /\ list[n] \in Pushed(s, shown)
                  /\ Cardinality(Before(Pushed(s, shown), RowOrder(s, shown), list[n])) = n - 1
             /\ \A j, k \in 1 .. Len(list) : j < k => RowBefore(s, list[j], list[k])
             /\ \A r \in Pushed(s, shown) : \E n \in 1 .. Len(list) : list[n] = r
<1> DEFINE pushed == Pushed(s, shown)
           order  == RowOrder(s, shown)
<1>1. IsFiniteSet(pushed) /\ TotalOrder(pushed, order)
  BY PushedRows, RowsTotallyOrdered
<1>2. \A q, r \in pushed : <<q, r>> \in order => RowBefore(s, q, r)
  BY RowsTotallyOrdered
<1>3. mergeSessions(s, shown) = Sorted(pushed, order)
  BY DEF mergeSessions, RowOrder
<1> HIDE DEF pushed, order
<1> DEFINE list == Sorted(pushed, order)
<1>4. /\ list \in Seq(pushed) /\ Len(list) = Cardinality(pushed) /\ Len(list) \in Nat
      /\ \A n \in 1 .. Len(list) : /\ list[n] \in pushed
                                   /\ Cardinality(Before(pushed, order, list[n])) = n - 1
      /\ \A j, k \in 1 .. Len(list) : j < k => <<list[j], list[k]>> \in order
      /\ \A x \in pushed : \E n \in 1 .. Len(list) : list[n] = x
  BY <1>1, SortedList
<1> HIDE DEF list
<1>5. \A j, k \in 1 .. Len(list) : j < k => RowBefore(s, list[j], list[k])
  BY <1>2, <1>4
<1> QED
  BY <1>3, <1>4, <1>5 DEF pushed, order, list

LEMMA RowsAreMerged ==
  ASSUME NEW c \in DOMAIN Captures, NEW ids
  PROVE  RowsFor(c, ids) = mergeSessions(SessionsOf(c), Selected(c, ids))
<1> DEFINE m == [capture |-> c, shown |-> Selected(c, ids),
                 rows |-> mergeSessions(SessionsOf(c), Selected(c, ids))]
<1>1. Selected(c, ids) \in SUBSET DOMAIN SessionsOf(c)
  BY DEF Selected
<1>2. m \in Merge /\ m.capture = c /\ m.shown = Selected(c, ids)
  BY <1>1 DEF Merge
<1>3. \A x \in Merge : x.rows = mergeSessions(SessionsOf(x.capture), x.shown)
  BY DEF Merge
<1> HIDE DEF m
<1> QED
  BY <1>2, <1>3 DEF RowsFor

LEMMA RowsType ==
  ASSUME NEW c \in DOMAIN Captures, NEW ids
  PROVE  /\ RowsFor(c, ids) \in Seq([session : DOMAIN SessionsOf(c), packet : Nat])
         /\ Len(RowsFor(c, ids)) \in Nat
         /\ RowsFor(c, ids) # <<>> => Len(RowsFor(c, ids)) > 0
<1> DEFINE list == RowsFor(c, ids)
           type == [session : DOMAIN SessionsOf(c), packet : Nat]
           pushed == Pushed(SessionsOf(c), Selected(c, ids))
<1>1. Selected(c, ids) \in SUBSET DOMAIN SessionsOf(c) /\ Sessions(SessionsOf(c))
  BY CapturesAreSessions DEF Selected
<1>2. list \in Seq(pushed)
  BY <1>1, RowsAreMerged, MergedRows
<1>3. pushed \subseteq type
  <2> SUFFICES ASSUME NEW r \in pushed PROVE r \in type
    OBVIOUS
  <2>1. /\ r.session \in DOMAIN SessionsOf(c) /\ r.packet \in Nat
        /\ r = [session |-> r.session, packet |-> r.packet]
    BY <1>1, PushedRows
  <2> QED
    BY <2>1
<1> HIDE DEF list, type, pushed
<1>4. list \in Seq(type)
  BY <1>2, <1>3, SeqMonotonic
<1>5. Len(list) \in Nat /\ (list # <<>> => Len(list) > 0)
  BY <1>4
<1> QED
  BY <1>4, <1>5 DEF list, type

(* Every row is that of a packet of a session on screen.                   *)
LEMMA RowsArePackets ==
  ASSUME NEW c \in DOMAIN Captures, NEW ids, NEW n \in DOMAIN RowsFor(c, ids)
  PROVE  LET row == RowsFor(c, ids)[n]
         IN  /\ row \in Pushed(SessionsOf(c), Selected(c, ids))
             /\ row.session \in Selected(c, ids)
             /\ row.packet \in Nat /\ row.packet + 1 \in DOMAIN SessionsOf(c)[row.session].packets
<1>1. Selected(c, ids) \in SUBSET DOMAIN SessionsOf(c) /\ Sessions(SessionsOf(c))
  BY CapturesAreSessions DEF Selected
<1>2. n \in 1 .. Len(RowsFor(c, ids))
  <2>1. RowsFor(c, ids) \in Seq([session : DOMAIN SessionsOf(c), packet : Nat])
    BY RowsType
  <2> HIDE DEF RowsFor
  <2> QED
    BY <2>1
<1>3. RowsFor(c, ids)[n] \in Pushed(SessionsOf(c), Selected(c, ids))
  BY <1>1, <1>2, RowsAreMerged, MergedRows
<1> QED
  BY <1>1, <1>3, PushedRows

-----------------------------------------------------------------------------
(* What the reader has selected and pinned.                                *)

LEMMA InSequence == ASSUME NEW S, NEW s \in Seq(S), NEW n \in DOMAIN s PROVE s[n] \in S
  OBVIOUS

(* The packet of a row is one of the capture.                              *)
LEMMA RecordedRow ==
  ASSUME NEW c \in DOMAIN Captures, NEW ids, NEW index, HasPacket(RowsFor(c, ids), index)
  PROVE  LET row == RowsFor(c, ids)[Clamped(RowsFor(c, ids), index)]
         IN  /\ row.session \in DOMAIN SessionsOf(c)
             /\ row.packet + 1 \in DOMAIN SessionsOf(c)[row.session].packets
             /\ PacketAt(c, RowsFor(c, ids), index) = SessionsOf(c)[row.session].packets[row.packet + 1]
<1> DEFINE list   == RowsFor(c, ids)
           n      == Clamped(list, index)
           i      == list[n].session
           k      == list[n].packet + 1
<1>1. n \in DOMAIN list
  BY DEF HasPacket
<1>2. Selected(c, ids) \in SUBSET DOMAIN SessionsOf(c)
  BY DEF Selected
<1>3. k \in DOMAIN SessionsOf(c)[i].packets
  BY <1>1, RowsArePackets
<1>4. i \in DOMAIN SessionsOf(c)
  <2>1. list[n] \in [session : DOMAIN SessionsOf(c), packet : Nat]
    <3>1. list \in Seq([session : DOMAIN SessionsOf(c), packet : Nat])
      BY RowsType
    <3> HIDE DEF list, n
    <3> QED
      BY <1>1, <3>1, InSequence
  <2> QED
    BY <2>1
<1>5. PacketAt(c, list, index) = SessionsOf(c)[i].packets[k]
  BY DEF PacketAt, PacketOf
<1> QED
  BY <1>3, <1>4, <1>5

LEMMA FieldsOfPacket ==
  ASSUME NEW c \in DOMAIN Captures, NEW ids, NEW index, HasPacket(RowsFor(c, ids), index)
  PROVE  LET packet == PacketAt(c, RowsFor(c, ids), index)
         IN  GoodTree(packet.fields) /\ TilesPacket(packet.fields, packet.length)
<1> DEFINE packet == PacketAt(c, RowsFor(c, ids), index)
<1>1. PICK i \in DOMAIN SessionsOf(c) : \E k \in DOMAIN SessionsOf(c)[i].packets :
        packet = SessionsOf(c)[i].packets[k]
  BY RecordedRow
<1> HIDE DEF packet
<1>2. /\ IsTree(packet.fields) /\ TilesPacket(packet.fields, packet.length)
      /\ ChildrenWithin(packet.fields) /\ SiblingsApart(packet.fields)
  BY <1>1, CapturesAssumption DEF SessionsOf
<1> QED
  BY <1>2 DEF GoodTree, packet

LEMMA FieldsAreTree ==
  ASSUME NEW c \in DOMAIN Captures, NEW ids, NEW index
  PROVE  GoodTree(FieldsAt(c, RowsFor(c, ids), index))
<1>1. CASE HasPacket(RowsFor(c, ids), index)
  BY <1>1, FieldsOfPacket DEF FieldsAt
<1>2. CASE ~HasPacket(RowsFor(c, ids), index)
  <2>1. DOMAIN NoFields = {}
    BY DEF NoFields
  <2>2. GoodTree(NoFields)
    BY <2>1, FS_EmptySet DEF GoodTree, IsTree, ChildrenWithin, SiblingsApart
  <2> QED
    BY <1>2, <2>2 DEF FieldsAt
<1> QED
  BY <1>1, <1>2

ReaderInv ==
  /\ capture \in DOMAIN Captures /\ rowIndex \in Int
  /\ CursorOnARow
  /\ PinnedFieldIsShown

LEMMA InitReaderInv == Init => ReaderInv
<1> SUFFICES ASSUME Init PROVE ReaderInv
  OBVIOUS
<1>1. capture \in DOMAIN Captures /\ rowIndex = 0 /\ fieldPath = NoPath
  BY DEF Init
<1>2. rows # <<>> => Len(rows) \in Nat /\ Len(rows) > 0
  BY <1>1, RowsType DEF rows
<1> QED
  BY <1>1, <1>2 DEF ReaderInv, CursorOnARow, PinnedFieldIsShown

(* A selection of sessions, and a capture that was reset, start at the     *)
(* first row.                                                              *)
LEMMA FirstRow ==
  ASSUME capture' \in DOMAIN Captures, rowIndex' = 0, fieldPath' = NoPath
  PROVE  ReaderInv'
<1>1. rows' # <<>> => Len(rows') \in Nat /\ Len(rows') > 0
  BY RowsType DEF rows
<1> QED
  BY <1>1 DEF ReaderInv, CursorOnARow, PinnedFieldIsShown

LEMMA SelectRowKeeps ==
  ASSUME ReaderInv, NEW index \in Int, rows # <<>> => index \in 0 .. Len(rows) - 1, SelectRow(index)
  PROVE  ReaderInv'
<1>1. capture' = capture /\ rows' = rows /\ rowIndex' = index /\ fieldPath' = NoPath
  BY DEF SelectRow, Show, PinAfterMove, rows
<1> QED
  BY <1>1 DEF ReaderInv, CursorOnARow, PinnedFieldIsShown

LEMMA SameRows ==
  ASSUME ReaderInv, UNCHANGED <<capture, selectedIds, rowIndex, resetDue>>,
         fieldPath' # NoPath => fieldPath' \in DOMAIN fields \/ fieldPath' = fieldPath
  PROVE  ReaderInv'
<1>1. rows' = rows /\ fields' = fields
  BY DEF rows, fields
<1> QED
  BY <1>1 DEF ReaderInv, CursorOnARow, PinnedFieldIsShown

LEMMA ReaderKeepsReaderInv ==
  ASSUME ReaderInv, NEW offsets, ReaderOver(offsets)
  PROVE  ReaderInv'
<1>1. capture \in DOMAIN Captures /\ rowIndex \in Int /\ Len(rows) \in Nat /\ (rows # <<>> => Len(rows) > 0)
  BY RowsType DEF ReaderInv, rows
<1>2. CASE selectPacket
  <2>1. PICK k \in 0 .. Len(rows) - 1 : SelectRow(k)
    BY <1>2 DEF selectPacket
  <2> QED
    BY <1>1, <2>1, SelectRowKeeps
<1>3. CASE step
  <2>1. PICK delta \in {-1, 1} : SelectRow(Stepped(rowIndex + delta))
    BY <1>3 DEF step
  <2> DEFINE k == Stepped(rowIndex + delta)
             n == Len(rows)
  <2>2. k \in Int /\ (n > 0 => k \in 0 .. n - 1)
    <3>1. rowIndex + delta \in Int /\ n \in Nat
      BY <1>1
    <3> QED
      BY <3>1 DEF Stepped
  <2> QED
    BY <1>1, <2>1, <2>2, SelectRowKeeps
<1>4. CASE HomeOrEnd
  <2>1. PICK k \in {0, Len(rows) - 1} : SelectRow(k)
    BY <1>4 DEF HomeOrEnd
  <2>2. k \in Int /\ (Len(rows) > 0 => k \in 0 .. Len(rows) - 1)
    BY <1>1
  <2> QED
    BY <1>1, <2>1, <2>2, SelectRowKeeps
<1>5. ASSUME NEW ids, SelectSessions(ids) PROVE ReaderInv'
  BY <1>1, <1>5, FirstRow DEF SelectSessions, Show, RowAfterSelection
<1>6. ASSUME NEW path \in flattenFields(fields, collapsed), SelectField(path) PROVE ReaderInv'
  <2>1. path \in DOMAIN fields
    BY DEF flattenFields
  <2>2. fieldPath' = path \/ fieldPath' = NoPath
    BY <1>6 DEF SelectField
  <2> QED
    BY <1>6, <2>1, <2>2, SameRows DEF SelectField
<1>7. ASSUME NEW offset, selectByteOffset(offset) PROVE ReaderInv'
  <2>1. fieldPath' = fieldAtOffset(fields, offset) /\ fieldPath' # NoPath
    BY <1>7 DEF selectByteOffset
  <2>2. IsTree(fields)
    BY <1>1, FieldsAreTree DEF fields, rows, GoodTree
  <2>3. fieldPath' \in DOMAIN fields
    BY <2>1, <2>2, HitIsField
  <2> QED
    BY <1>7, <2>3, SameRows DEF selectByteOffset
<1>8. ASSUME NEW path, toggleCollapsed(path) \/ HoverField(path) PROVE ReaderInv'
  BY <1>8, SameRows DEF toggleCollapsed, HoverField, screen
<1>9. ASSUME NEW offset, HoverByte(offset) PROVE ReaderInv'
  BY <1>9, SameRows DEF HoverByte, screen
<1>10. CASE Leave
  BY <1>10, SameRows DEF Leave, screen
<1>11. ASSUME NEW c \in DOMAIN Captures, LoadCapture(c) PROVE ReaderInv'
  <2>1. capture' = c /\ rowIndex' = rowIndex /\ resetDue' = TRUE
    BY <1>11 DEF LoadCapture
  <2> QED
    BY <1>1, <2>1 DEF ReaderInv, CursorOnARow, PinnedFieldIsShown
<1> QED
  BY <1>2, <1>3, <1>4, <1>5, <1>6, <1>7, <1>8, <1>9, <1>10, <1>11
     DEF ReaderOver, toggleSession, selectOnlySession

LEMMA StepKeepsReaderInv == ReaderInv /\ [Next]_vars => ReaderInv'
<1> SUFFICES ASSUME ReaderInv, [Next]_vars PROVE ReaderInv'
  OBVIOUS
<1>1. CASE ReaderOver(Offsets)
  BY <1>1, ReaderKeepsReaderInv
<1>2. CASE Reset
  <2>1. capture' = capture /\ rowIndex' = 0 /\ fieldPath' = NoPath
    BY <1>2 DEF Reset, Show
  <2> QED
    BY <2>1, FirstRow DEF ReaderInv
<1>3. CASE UNCHANGED vars
  BY <1>3, SameRows DEF vars, screen
<1> QED
  BY <1>1, <1>2, <1>3 DEF Next

(* Controls.tsx, PacketList.tsx: whatever is selected, in whatever order   *)
(* and of whatever capture, the index is that of a row.                    *)
THEOREM CursorStaysOnARow == Spec => []CursorOnARow
<1>1. ReaderInv => CursorOnARow
  BY DEF ReaderInv
<1> QED
  BY <1>1, InitReaderInv, StepKeepsReaderInv, PTL DEF Spec

(* PacketDetail.tsx: the pinned path is that of a field of the packet on   *)
(* screen, although it is kept as a path and the packets change.           *)
THEOREM PinnedFieldStaysShown == Spec => []PinnedFieldIsShown
<1>1. ReaderInv => PinnedFieldIsShown
  BY DEF ReaderInv
<1> QED
  BY <1>1, InitReaderInv, StepKeepsReaderInv, PTL DEF Spec

(* A field that is newly pinned has a row in the tree: a click on a byte   *)
(* opens every level above it.                                             *)
LEMMA StepReveals ==
  ASSUME ReaderInv, [Next]_vars, fieldPath' # fieldPath, fieldPath' # NoPath
  PROVE  fieldPath' \in flattenFields(fields', collapsed')
<1>1. capture \in DOMAIN Captures /\ IsTree(fields)
  BY FieldsAreTree DEF ReaderInv, fields, rows, GoodTree
<1>2. ASSUME NEW path \in flattenFields(fields, collapsed), SelectField(path)
      PROVE  fieldPath' \in flattenFields(fields', collapsed')
  <2>1. fieldPath' = path /\ fields' = fields /\ collapsed' = collapsed
    BY <1>2 DEF SelectField, fields, rows
  <2> QED
    BY <2>1
<1>3. ASSUME NEW offset, selectByteOffset(offset)
      PROVE  fieldPath' \in flattenFields(fields', collapsed')
  <2> DEFINE hit == fieldAtOffset(fields, offset)
  <2>1. /\ fieldPath' = hit /\ hit # NoPath /\ fields' = fields
        /\ collapsed' = collapsed \ Above(hit)
    BY <1>3 DEF selectByteOffset, fields, rows, ancestorPaths
  <2>2. hit \in DOMAIN fields
    BY <1>1, <2>1, HitIsField
  <2>3. Above(hit) \cap collapsed' = {}
    BY <2>1
  <2> HIDE DEF hit
  <2> QED
    BY <2>1, <2>2, <2>3 DEF flattenFields
<1>4. ASSUME NEW index, SelectRow(index) PROVE FALSE
  BY <1>4 DEF SelectRow, PinAfterMove
<1>5. ASSUME NEW ids, SelectSessions(ids) PROVE FALSE
  BY <1>5 DEF SelectSessions
<1>6. ASSUME NEW path, toggleCollapsed(path) \/ HoverField(path) PROVE FALSE
  BY <1>6 DEF toggleCollapsed, HoverField, screen
<1>7. ASSUME NEW offset, HoverByte(offset) PROVE FALSE
  BY <1>7 DEF HoverByte, screen
<1>8. ASSUME Leave \/ Reset \/ \E c \in DOMAIN Captures : LoadCapture(c) PROVE FALSE
  BY <1>8 DEF Leave, Reset, LoadCapture, screen
<1>9. ~UNCHANGED vars
  BY DEF vars, screen
<1> QED
  BY <1>2, <1>3, <1>4, <1>5, <1>6, <1>7, <1>8, <1>9
     DEF Next, ReaderOver, selectPacket, step, HomeOrEnd, toggleSession, selectOnlySession

(* PacketDetail.tsx: pinning a byte's field always reveals it.             *)
THEOREM PinnedFieldIsRevealed == Spec => PinningReveals
<1>1. ReaderInv /\ [Next]_vars
        => [fieldPath' # fieldPath /\ fieldPath' # NoPath =>
              fieldPath' \in flattenFields(fields', collapsed')]_vars
  BY StepReveals
<1> QED
  BY <1>1, InitReaderInv, StepKeepsReaderInv, PTL DEF Spec, PinningReveals

LEMMA ByteIsInnermost ==
  ASSUME capture \in DOMAIN Captures PROVE ByteHasInnermostField
<1> SUFFICES ASSUME hoveredByte \in Offsets, fields # NoFields
             PROVE  LET hit      == fieldAtOffset(fields, hoveredByte)
                        covering == {p \in DOMAIN fields : Covers(fields[p], hoveredByte)}
                    IN  hit \in covering /\ covering = Above(hit) \cup {hit}
  BY DEF ByteHasInnermostField
<1> DEFINE packet == PacketAt(capture, rows, rowIndex)
<1>1. HasPacket(rows, rowIndex) /\ hoveredByte \in 0 .. packet.length - 1
  BY DEF Offsets
<1>2. fields = packet.fields
  BY <1>1 DEF fields, FieldsAt
<1>3. GoodTree(packet.fields) /\ TilesPacket(packet.fields, packet.length)
  BY <1>1, FieldsOfPacket DEF rows
<1> HIDE DEF packet
<1>4. GoodTree(fields) /\ TilesPacket(fields, packet.length)
  BY <1>2, <1>3
<1>5. \E p \in DOMAIN fields : Covers(fields[p], hoveredByte)
  BY <1>1, <1>4 DEF TilesPacket
<1>6. hoveredByte \in Int /\ Covering(fields, hoveredByte) # {}
  BY <1>1, <1>5 DEF Covering
<1> QED
  BY <1>4, <1>6, WalkFindsInnermost DEF Covering

(* PacketDetail.tsx: every byte under the pointer belongs to exactly one   *)
(* innermost field, and the walk finds it.                                 *)
THEOREM HoveredByteHasField == Spec => []ByteHasInnermostField
<1>1. ReaderInv => ByteHasInnermostField
  BY ByteIsInnermost DEF ReaderInv
<1> QED
  BY <1>1, InitReaderInv, StepKeepsReaderInv, PTL DEF Spec

LEMMA ActiveIsMarked ==
  ASSUME capture \in DOMAIN Captures PROVE ActiveRowIsMarked
<1> SUFFICES ASSUME activePath \in DOMAIN fields
             PROVE  /\ activeRowPath \in Above(activePath) \cup {activePath}
                    /\ activeRowPath \in flattenFields(fields, collapsed)
  BY DEF ActiveRowIsMarked
<1> DEFINE onScreen == (ancestorPaths(activePath) \cup {activePath}) \cap flattenFields(fields, collapsed)
           top      == SubSeq(activePath, 1, 1)
<1>1. GoodTree(fields) /\ IsTree(fields)
  BY FieldsAreTree DEF fields, rows, GoodTree
<1>2. activePath \in Seq(Nat \ {0}) /\ Len(activePath) \in Nat /\ Len(activePath) > 0
  BY <1>1, TreePaths
<1>3. top \in DOMAIN fields /\ Len(top) = 1 /\ SubSeq(activePath, 1, Len(activePath)) = activePath
  BY <1>1, <1>2, TreePaths
<1>4. top \in onScreen
  <2>1. Above(top) = {}
    <3> HIDE DEF top
    <3>1. Len(top) - 1 = 0 /\ 1 .. 0 = {}
      BY <1>3
    <3> QED
      BY <3>1 DEF Above
  <2>2. top \in Above(activePath) \cup {activePath}
    <3>1. CASE Len(activePath) = 1
      BY <1>3, <3>1
    <3>2. CASE Len(activePath) > 1
      <4>1. 1 \in 1 .. Len(activePath) - 1
        BY <1>2, <3>2
      <4> QED
        BY <4>1 DEF Above
    <3>3. Len(activePath) = 1 \/ Len(activePath) > 1
      <4> DEFINE n == Len(activePath)
      <4>1. n \in Nat /\ n > 0
        BY <1>2
      <4> HIDE DEF n
      <4>2. n = 1 \/ n > 1
        BY <4>1
      <4> QED
        BY <4>2 DEF n
    <3> QED
      BY <3>1, <3>2, <3>3
  <2> HIDE DEF top
  <2>3. top \in flattenFields(fields, collapsed)
    BY <1>3, <2>1 DEF flattenFields
  <2> QED
    BY <2>2, <2>3 DEF ancestorPaths
<1>5. onScreen \subseteq DOMAIN fields
  BY DEF flattenFields
<1>6. IsFiniteSet(onScreen) /\ \A q \in onScreen : Len(q) \in Nat
  BY <1>1, <1>5, FS_Subset, TreePaths DEF IsTree
<1>7. \E p \in onScreen : \A q \in onScreen : Len(q) <= Len(p)
  <2> HIDE DEF onScreen
  <2> QED
    BY <1>4, <1>6, Longest
<1>8. activeRowPath = CHOOSE p \in onScreen : \A q \in onScreen : Len(q) <= Len(p)
  BY <1>4 DEF activeRowPath
<1>9. activeRowPath \in onScreen
  <2> HIDE DEF onScreen
  <2> QED
    BY <1>7, <1>8
<1> QED
  BY <1>9 DEF ancestorPaths

(* PacketDetail.tsx: a field that is active always has a row marked for it, *)
(* its own or that of the nearest field above it on screen.                *)
THEOREM ActiveFieldIsMarked == Spec => []ActiveRowIsMarked
<1>1. ReaderInv => ActiveRowIsMarked
  BY ActiveIsMarked DEF ReaderInv
<1> QED
  BY <1>1, InitReaderInv, StepKeepsReaderInv, PTL DEF Spec

-----------------------------------------------------------------------------
(* The order of the rows.                                                  *)

(* What Date.parse drops is less than a millisecond.                       *)
LEMMA TimeIsNearReal ==
  ASSUME NEW s, NEW r, s[r.session].start \in Int, PacketOf(s, r).at \in Int
  PROVE  /\ Time(s, r) \in Int /\ RealTime(s[r.session], PacketOf(s, r)) \in Int
         /\ Time(s, r) <= RealTime(s[r.session], PacketOf(s, r))
         /\ RealTime(s[r.session], PacketOf(s, r)) < Time(s, r) + TicksPerMs
         /\ RealTime(s[r.session], PacketOf(s, r)) = Time(s, r) + (s[r.session].start % TicksPerMs)
         /\ s[r.session].start % TicksPerMs \in Int
<1> DEFINE start == s[r.session].start
           at    == PacketOf(s, r).at
           lost  == start % TicksPerMs
<1>1. start \in Int /\ at \in Int /\ TicksPerMs \in Nat /\ TicksPerMs > 0
  BY TicksAssumption
<1>2. lost \in Nat /\ lost < TicksPerMs
  BY <1>1
<1>3. Time(s, r) = (start - lost) + at /\ RealTime(s[r.session], PacketOf(s, r)) = start + at
  BY DEF Time, wallClock, ParsedStart, RealTime
<1> HIDE DEF start, at, lost
<1>4. /\ Time(s, r) \in Int /\ RealTime(s[r.session], PacketOf(s, r)) = Time(s, r) + lost
      /\ RealTime(s[r.session], PacketOf(s, r)) \in Int
  BY <1>1, <1>2, <1>3
<1> QED
  BY <1>1, <1>2, <1>4 DEF lost, start

LEMMA RowsInOrder == ASSUME capture \in DOMAIN Captures PROVE MergedByWallClock
<1> DEFINE shown == Selected(capture, selectedIds)
           list  == rows
           Real(n) == RealTime(sessions[list[n].session], PacketOf(sessions, list[n]))
<1>1. shown \in SUBSET DOMAIN sessions /\ Sessions(sessions)
  BY CapturesAreSessions DEF Selected, sessions
<1>2. list = mergeSessions(sessions, shown)
  BY RowsAreMerged DEF rows, sessions
<1>3. /\ Len(list) \in Nat /\ DOMAIN list = 1 .. Len(list)
      /\ \A n \in 1 .. Len(list) : list[n] \in Pushed(sessions, shown)
      /\ \A j, k \in 1 .. Len(list) : j < k => RowBefore(sessions, list[j], list[k])
  <2>1. /\ list \in Seq(Pushed(sessions, shown)) /\ Len(list) \in Nat
        /\ \A n \in 1 .. Len(list) : list[n] \in Pushed(sessions, shown)
        /\ \A j, k \in 1 .. Len(list) : j < k => RowBefore(sessions, list[j], list[k])
    BY <1>1, <1>2, MergedRows
  <2> HIDE DEF list, shown
  <2> QED
    BY <2>1
<1>4. \A n \in 1 .. Len(list) :
        /\ sessions[list[n].session].start \in Int /\ PacketOf(sessions, list[n]).at \in Int
        /\ list[n].packet \in Nat /\ list[n].session \in Nat
  <2>1. \A i \in DOMAIN sessions : i \in Nat
    BY <1>1, SequenceDomain DEF Sessions
  <2> QED
    BY <1>1, <1>3, <2>1, PushedRows
<1> HIDE DEF list
<1>5. ASSUME NEW j \in DOMAIN list, NEW k \in j + 1 .. Len(list)
      PROVE  IF list[j].session = list[k].session
               THEN \/ Real(j) < Real(k)
                    \/ Real(j) = Real(k) /\ list[j].packet < list[k].packet
               ELSE Real(j) < Real(k) + TicksPerMs
  <2>1. j \in 1 .. Len(list) /\ k \in 1 .. Len(list) /\ j < k
    BY <1>3
  <2>2. RowBefore(sessions, list[j], list[k])
    BY <1>3, <2>1
  <2> DEFINE lost(n) == sessions[list[n].session].start % TicksPerMs
             T(n)    == Time(sessions, list[n])
  <2>3. /\ T(j) \in Int /\ T(k) \in Int /\ Real(j) \in Int /\ Real(k) \in Int
        /\ Real(j) < T(j) + TicksPerMs /\ T(k) <= Real(k)
        /\ Real(j) = T(j) + lost(j) /\ Real(k) = T(k) + lost(k)
        /\ lost(j) \in Int /\ lost(k) \in Int
    BY <1>4, <2>1, TimeIsNearReal
  <2>4. T(j) < T(k) \/ (T(j) = T(k) /\ (\/ list[j].session < list[k].session
                                       \/ /\ list[j].session = list[k].session
                                          /\ list[j].packet < list[k].packet))
    BY <2>2 DEF RowBefore
  <2>5. list[j].session = list[k].session => lost(j) = lost(k)
    OBVIOUS
  <2>6. list[j].session \in Nat /\ list[k].session \in Nat /\ TicksPerMs \in Nat
    BY <1>4, <2>1, TicksAssumption
  <2> HIDE DEF Real, lost, T
  <2>7. CASE list[j].session = list[k].session
    <3>1. T(j) < T(k) \/ (T(j) = T(k) /\ list[j].packet < list[k].packet)
      BY <2>4, <2>6, <2>7
    <3>2. T(j) < T(k) => Real(j) < Real(k)
      BY <2>3, <2>5, <2>7
    <3>3. T(j) = T(k) => Real(j) = Real(k)
      BY <2>3, <2>5, <2>7
    <3> QED
      BY <2>7, <3>1, <3>2, <3>3
  <2>8. CASE list[j].session # list[k].session
    <3>1. T(j) <= T(k)
      BY <2>3, <2>4
    <3>2. Real(j) < Real(k) + TicksPerMs
      BY <2>3, <2>6, <3>1
    <3> QED
      BY <2>8, <3>2
  <2> QED
    BY <2>7, <2>8
<1> DEFINE real == [n \in DOMAIN list |-> Real(n)]
<1>6. MergedByWallClock <=>
        \A j \in DOMAIN list : \A k \in j + 1 .. Len(list) :
          IF list[j].session = list[k].session
            THEN real[j] < real[k] \/ (real[j] = real[k] /\ list[j].packet < list[k].packet)
            ELSE real[j] < real[k] + TicksPerMs
  BY DEF MergedByWallClock, list
<1>7. ASSUME NEW j \in DOMAIN list, NEW k \in j + 1 .. Len(list)
      PROVE  real[j] = Real(j) /\ real[k] = Real(k)
  <2>1. k \in DOMAIN list
    BY <1>3
  <2> QED
    BY <2>1
<1> HIDE DEF real, Real
<1> QED
  BY <1>5, <1>6, <1>7

(* merge.ts: packets of different sessions are never shown in the wrong    *)
(* order of time, and those of one session stay in the order recorded,     *)
(* though Date.parse drops what is below a millisecond.                    *)
THEOREM RowsStayInOrder == Spec => []MergedByWallClock
<1>1. ReaderInv => MergedByWallClock
  BY RowsInOrder DEF ReaderInv
<1> QED
  BY <1>1, InitReaderInv, StepKeepsReaderInv, PTL DEF Spec

-----------------------------------------------------------------------------
(***************************************************************************)
(* The marks.                                                              *)
(***************************************************************************)

LEMMA RangesInOrder ==
  ASSUME NEW R \in SUBSET (Int \X Int), IsFiniteSet(R)
  PROVE  LET s == InOrder(R)
         IN  /\ s \in Seq(R) /\ Len(s) \in Nat
             /\ \A n \in 1 .. Len(s) : s[n] \in R
             /\ \A j, k \in 1 .. Len(s) : j < k => RangeBefore(s[j], s[k])
             /\ \A r \in R : \E n \in 1 .. Len(s) : s[n] = r
<1> DEFINE order == {p \in R \X R : RangeBefore(p[1], p[2])}
<1>1. \A q, r \in R : <<q, r>> \in order <=> RangeBefore(q, r)
  OBVIOUS
<1>2. InOrder(R) = Sorted(R, order)
  BY DEF InOrder
<1> HIDE DEF order
<1>3. \A r \in R : r[1] \in Int /\ r[2] \in Int /\ r = <<r[1], r[2]>>
  OBVIOUS
<1>4. TotalOrder(R, order)
  <2>1. \A r \in R : ~RangeBefore(r, r)
    BY <1>3 DEF RangeBefore
  <2>2. \A q, r, t \in R : RangeBefore(q, r) /\ RangeBefore(r, t) => RangeBefore(q, t)
    BY <1>3 DEF RangeBefore
  <2>3. \A q, r \in R : q = r \/ RangeBefore(q, r) \/ RangeBefore(r, q)
    <3> SUFFICES ASSUME NEW q \in R, NEW r \in R, ~RangeBefore(q, r), ~RangeBefore(r, q)
                 PROVE  q = r
      OBVIOUS
    <3>1. q[1] = r[1] /\ q[2] = r[2]
      BY <1>3 DEF RangeBefore
    <3> QED
      BY <1>3, <3>1
  <2> QED
    BY <1>1, <2>1, <2>2, <2>3 DEF TotalOrder
<1> DEFINE s == Sorted(R, order)
<1>5. /\ s \in Seq(R) /\ Len(s) \in Nat
      /\ \A n \in 1 .. Len(s) : s[n] \in R
      /\ \A j, k \in 1 .. Len(s) : j < k => <<s[j], s[k]>> \in order
      /\ \A x \in R : \E n \in 1 .. Len(s) : s[n] = x
  BY <1>4, SortedList
<1> HIDE DEF s
<1>6. \A j, k \in 1 .. Len(s) : j < k => RangeBefore(s[j], s[k])
  BY <1>1, <1>5
<1> QED
  BY <1>2, <1>5, <1>6 DEF s

(* Ranges of integers, none of them inverted.                              *)
Ranges(s) ==
  /\ Len(s) \in Nat /\ DOMAIN s = 1 .. Len(s)
  /\ \A k \in 1 .. Len(s) : s[k][1] \in Int /\ s[k][2] \in Int /\ s[k][1] <= s[k][2]

Covered(s, index) == \E k \in 1 .. Len(s) : index \in s[k][1] .. s[k][2]

LEMMA ApartFar ==
  ASSUME NEW s, Ranges(s), SortedAndApart(s), NEW j \in 1 .. Len(s), NEW k \in 1 .. Len(s), j < k
  PROVE  s[j][2] + 1 < s[k][1]
<1> DEFINE T == {m \in Nat : m \in 1 .. Len(s) /\ j < m /\ ~(s[j][2] + 1 < s[m][1])}
<1>1. SUFFICES ASSUME T # {} PROVE FALSE
  BY DEF Ranges
<1>2. PICK m \in T : \A i \in T : m <= i
  <2>1. T \in SUBSET Nat
    OBVIOUS
  <2> HIDE DEF T
  <2> QED
    BY <1>1, <2>1, Smallest
<1>3. m \in 1 .. Len(s) /\ j < m /\ ~(s[j][2] + 1 < s[m][1]) /\ j \in Nat /\ m \in Nat
  BY <1>2
<1>4. m - 1 \in 1 .. Len(s) - 1 /\ m - 1 \in 1 .. Len(s) /\ m - 1 \in Nat /\ (m - 1) + 1 = m
  BY <1>3 DEF Ranges
<1>5. s[m - 1][2] + 1 < s[m][1]
  BY <1>4 DEF SortedAndApart
<1>6. CASE j = m - 1
  BY <1>3, <1>5, <1>6
<1>7. CASE j # m - 1
  <2>1. m - 1 \notin T /\ j < m - 1
    BY <1>2, <1>3, <1>4, <1>7
  <2>2. s[j][2] + 1 < s[m - 1][1]
    BY <1>4, <2>1
  <2>3. s[j][2] \in Int /\ s[m - 1][1] \in Int /\ s[m - 1][2] \in Int /\ s[m][1] \in Int
        /\ s[m - 1][1] <= s[m - 1][2]
    BY <1>3, <1>4 DEF Ranges
  <2> QED
    BY <1>3, <1>5, <2>2, <2>3
<1> QED
  BY <1>6, <1>7

(* The scan, which stops early, finds whatever range covers the index.     *)
LEMMA ScanFinds ==
  ASSUME NEW s, Ranges(s), SortedAndApart(s), NEW index \in Int
  PROVE  inRanges(s, index) <=> Covered(s, index)
<1>1. ASSUME NEW k \in 1 .. Len(s), index \in s[k][1] .. s[k][2], NEW j \in 1 .. k
      PROVE  s[j][1] <= index
  <2>1. j \in 1 .. Len(s) /\ k \in Nat /\ j \in Nat
    BY DEF Ranges
  <2>2. s[j][1] \in Int /\ s[j][2] \in Int /\ s[k][1] \in Int /\ s[j][1] <= s[j][2]
    BY <2>1 DEF Ranges
  <2>3. s[k][1] <= index
    BY <1>1, <2>2
  <2>4. CASE j = k
    BY <2>3, <2>4
  <2>5. CASE j < k
    <3>1. s[j][2] + 1 < s[k][1]
      BY <2>1, <2>5, ApartFar
    <3> QED
      BY <2>2, <2>3, <3>1
  <2> QED
    BY <2>1, <2>4, <2>5
<1> QED
  BY <1>1 DEF inRanges, Covered, Ranges

(***************************************************************************)
(* The merged view: a mark is a run of declared rows.                      *)
(***************************************************************************)
Runs(hit) ==
  {r \in hit \X hit : /\ r[1] <= r[2] /\ r[1] .. r[2] \subseteq hit
                      /\ {r[1] - 1, r[2] + 1} \cap hit = {}}

LEMMA EveryHitIsInARun ==
  ASSUME NEW n \in Nat, NEW hit \in SUBSET (0 .. n - 1), NEW h \in hit
  PROVE  \E r \in Runs(hit) : h \in r[1] .. r[2]
<1> DEFINE B == {a \in 0 .. h : a .. h \subseteq hit}
           E == {b \in 0 .. n : b >= h /\ h .. b \subseteq hit}
<1>1. h \in Nat /\ h < n /\ h .. h = {h}
  OBVIOUS
<1>2. PICK a \in B : \A x \in B : a <= x
  <2>1. B \in SUBSET Nat /\ h \in B
    BY <1>1
  <2> HIDE DEF B
  <2> QED
    BY <2>1, Smallest
<1>3. PICK b \in E : \A x \in E : x <= b
  <2>1. E \in SUBSET (0 .. n) /\ h \in E
    BY <1>1
  <2> HIDE DEF E
  <2> QED
    BY <2>1, Largest
<1>4. a \in Nat /\ b \in Nat /\ a <= h /\ h <= b /\ a .. h \subseteq hit /\ h .. b \subseteq hit
  BY <1>2, <1>3
<1>5. a .. b \subseteq hit
  <2> SUFFICES ASSUME NEW x \in a .. b PROVE x \in hit
    OBVIOUS
  <2>1. x \in a .. h \/ x \in h .. b
    BY <1>1, <1>4
  <2> QED
    BY <1>4, <2>1
<1>6. a \in hit /\ b \in hit
  BY <1>4, <1>5
<1>7. a - 1 \notin hit
  <2> SUFFICES ASSUME a - 1 \in hit PROVE FALSE
    OBVIOUS
  <2>1. a - 1 \in 0 .. h
    BY <1>1, <1>4
  <2>2. (a - 1) .. h \subseteq hit
    <3> SUFFICES ASSUME NEW x \in (a - 1) .. h PROVE x \in hit
      OBVIOUS
    <3>1. x = a - 1 \/ x \in a .. h
      BY <1>1, <1>4
    <3> QED
      BY <1>4, <3>1
  <2>3. a <= a - 1
    BY <1>2, <2>1, <2>2
  <2> QED
    BY <1>4, <2>3
<1>8. b + 1 \notin hit
  <2> SUFFICES ASSUME b + 1 \in hit PROVE FALSE
    OBVIOUS
  <2>1. b + 1 \in 0 .. n /\ b + 1 >= h
    BY <1>1, <1>4
  <2>2. h .. (b + 1) \subseteq hit
    <3> SUFFICES ASSUME NEW x \in h .. (b + 1) PROVE x \in hit
      OBVIOUS
    <3>1. x = b + 1 \/ x \in h .. b
      BY <1>1, <1>4
    <3> QED
      BY <1>4, <3>1
  <2>3. b + 1 <= b
    BY <1>3, <2>1, <2>2
  <2> QED
    BY <1>4, <2>3
<1> DEFINE r == <<a, b>>
<1>9. r \in hit \X hit /\ r[1] = a /\ r[2] = b
  BY <1>6
<1> HIDE DEF r
<1>10. r \in Runs(hit)
  BY <1>4, <1>5, <1>7, <1>8, <1>9 DEF Runs
<1>11. h \in a .. b
  BY <1>1, <1>4
<1> QED
  BY <1>9, <1>10, <1>11

LEMMA RunsAreMarks ==
  ASSUME NEW n \in Nat, NEW hit \in SUBSET (0 .. n - 1)
  PROVE  LET s == InOrder(Runs(hit))
         IN  /\ Ranges(s) /\ SortedAndApart(s)
             /\ \A k \in 0 .. n - 1 : Covered(s, k) <=> k \in hit
<1> DEFINE R == Runs(hit)
           s == InOrder(R)
<1>1. /\ R \in SUBSET (Int \X Int)
      /\ \A r \in R : /\ r[1] \in hit /\ r[2] \in hit /\ r[1] <= r[2] /\ r[1] .. r[2] \subseteq hit
                      /\ r[1] - 1 \notin hit /\ r[2] + 1 \notin hit
                      /\ r[1] \in Int /\ r[2] \in Int
  <2>1. hit \subseteq Int
    OBVIOUS
  <2> QED
    BY <2>1 DEF Runs
<1>2. IsFiniteSet(R)
  <2>1. IsFiniteSet(0 .. n - 1)
    BY FS_Interval
  <2>2. IsFiniteSet(hit)
    BY <2>1, FS_Subset
  <2>3. IsFiniteSet(hit \X hit)
    BY <2>2, FS_Product
  <2>4. R \in SUBSET (hit \X hit)
    BY DEF Runs
  <2> QED
    BY <2>3, <2>4, FS_Subset
<1>3. \A h \in hit : \E r \in R : h \in r[1] .. r[2]
  BY EveryHitIsInARun
<1> HIDE DEF R
<1>4. /\ s \in Seq(R) /\ Len(s) \in Nat
      /\ \A k \in 1 .. Len(s) : s[k] \in R
      /\ \A j, k \in 1 .. Len(s) : j < k => RangeBefore(s[j], s[k])
      /\ \A r \in R : \E k \in 1 .. Len(s) : s[k] = r
  BY <1>1, <1>2, RangesInOrder
<1> HIDE DEF s
<1>5. Ranges(s)
  <2>1. DOMAIN s = 1 .. Len(s)
    BY <1>4
  <2> QED
    BY <1>1, <1>4, <2>1 DEF Ranges
<1>6. SortedAndApart(s)
  <2> SUFFICES ASSUME NEW k \in 1 .. Len(s) - 1 PROVE s[k][2] + 1 < s[k + 1][1]
    BY DEF SortedAndApart
  <2> DEFINE q == s[k]
             t == s[k + 1]
  <2>1. q \in R /\ t \in R /\ RangeBefore(q, t)
    <3>1. k \in 1 .. Len(s) /\ k + 1 \in 1 .. Len(s) /\ k < k + 1
      BY <1>4
    <3> QED
      BY <1>4, <3>1
  <2>2. /\ q[1] \in Int /\ q[2] \in Int /\ t[1] \in Int /\ t[2] \in Int
        /\ q[1] <= q[2] /\ t[1] <= t[2]
        /\ q[1] .. q[2] \subseteq hit /\ t[1] .. t[2] \subseteq hit
        /\ t[1] - 1 \notin hit /\ q[2] + 1 \notin hit
    BY <1>1, <2>1
  <2> HIDE DEF q, t
  <2>3. t[1] - 1 \notin q[1] .. q[2] /\ q[2] + 1 \notin t[1] .. t[2]
    BY <2>2
  <2>4. q[1] < t[1] \/ (q[1] = t[1] /\ q[2] < t[2])
    BY <2>1 DEF RangeBefore
  <2>5. q[2] + 1 < t[1]
    BY <2>2, <2>3, <2>4
  <2> QED
    BY <2>5 DEF q, t
<1>7. ASSUME NEW k \in 0 .. n - 1 PROVE Covered(s, k) <=> k \in hit
  <2>1. Covered(s, k) => k \in hit
    BY <1>1, <1>4 DEF Covered
  <2>2. k \in hit => Covered(s, k)
    <3> SUFFICES ASSUME k \in hit PROVE Covered(s, k)
      OBVIOUS
    <3>1. PICK r \in R : k \in r[1] .. r[2]
      BY <1>3
    <3>2. PICK j \in 1 .. Len(s) : s[j] = r
      BY <1>4
    <3> QED
      BY <3>1, <3>2 DEF Covered
  <2> QED
    BY <2>1, <2>2
<1> QED
  BY <1>5, <1>6, <1>7 DEF s, R

(***************************************************************************)
(* The view of one session: declared ranges are sorted and joined.         *)
(***************************************************************************)

LEMMA MaxOfPositions ==
  ASSUME NEW n \in Nat, NEW S \in SUBSET (1 .. n), S # {}
  PROVE  Max(S) \in S /\ \A i \in S : i <= Max(S)
<1>1. S \in SUBSET (0 .. n)
  OBVIOUS
<1>2. PICK m \in S : \A k \in S : k <= m
  BY <1>1, Largest
<1>3. m \in S /\ \A k \in S : m >= k
  BY <1>2
<1>4. Max(S) \in S /\ \A k \in S : Max(S) >= k
  BY <1>3 DEF Max
<1> QED
  BY <1>4

(* The fold of merge, by the positions folded.                             *)
JoinedAt(f, s, S)    == IF S = {} THEN <<>> ELSE Joined(f[S \ {Max(S)}], s[Max(S)])
IsJoining(f, s, n)   == f = [S \in SUBSET (1 .. n) |-> JoinedAt(f, s, S)]

LEMMA JoiningExtends ==
  ASSUME NEW s, NEW n \in Nat, NEW f, IsJoining(f, s, n) PROVE \E g : IsJoining(g, s, n + 1)
<1> DEFINE g == [S \in SUBSET (1 .. n + 1) |->
                   IF n + 1 \in S THEN Joined(f[S \ {n + 1}], s[n + 1]) ELSE f[S]]
<1>1. ASSUME NEW S \in SUBSET (1 .. n + 1), n + 1 \in S PROVE g[S] = JoinedAt(g, s, S)
  <2>1. Max(S) = n + 1
    <3>1. n + 1 \in Nat /\ S # {}
      BY <1>1
    <3>2. Max(S) \in S /\ \A i \in S : i <= Max(S)
      BY <3>1, MaxOfPositions
    <3>3. Max(S) \in 1 .. n + 1 /\ n + 1 <= Max(S)
      BY <1>1, <3>2
    <3> QED
      BY <3>3
  <2>2. S \ {n + 1} \in SUBSET (1 .. n + 1) /\ n + 1 \notin S \ {n + 1} /\ S # {}
    BY <1>1
  <2>3. g[S \ {n + 1}] = f[S \ {n + 1}]
    BY <2>2
  <2>4. g[S] = Joined(f[S \ {n + 1}], s[n + 1])
    BY <1>1
  <2> QED
    BY <2>1, <2>2, <2>3, <2>4 DEF JoinedAt
<1>2. ASSUME NEW S \in SUBSET (1 .. n + 1), n + 1 \notin S PROVE g[S] = JoinedAt(g, s, S)
  <2>1. S \in SUBSET (1 .. n)
    BY <1>2
  <2>2. g[S] = JoinedAt(f, s, S)
    BY <1>2, <2>1 DEF IsJoining
  <2>3. g[S \ {Max(S)}] = f[S \ {Max(S)}]
    BY <1>2
  <2> QED
    BY <2>2, <2>3 DEF JoinedAt
<1>3. g = [S \in SUBSET (1 .. n + 1) |-> g[S]]
  OBVIOUS
<1> HIDE DEF g
<1>4. g = [S \in SUBSET (1 .. n + 1) |-> JoinedAt(g, s, S)]
  BY <1>1, <1>2, <1>3
<1> QED
  BY <1>4 DEF IsJoining

LEMMA JoiningExists == ASSUME NEW s, NEW n \in Nat PROVE \E f : IsJoining(f, s, n)
<1> DEFINE T == {m \in Nat : ~\E f : IsJoining(f, s, m)}
<1>1. SUFFICES ASSUME T # {} PROVE FALSE
  OBVIOUS
<1>2. PICK m \in T : \A k \in T : m <= k
  <2>1. T \in SUBSET Nat
    OBVIOUS
  <2> HIDE DEF T
  <2> QED
    BY <1>1, <2>1, Smallest
<1>3. CASE m = 0
  <2> DEFINE f == [S \in SUBSET (1 .. 0) |-> <<>>]
  <2>1. \A S \in SUBSET (1 .. 0) : S = {}
    OBVIOUS
  <2>2. IsJoining(f, s, 0)
    BY <2>1 DEF IsJoining, JoinedAt
  <2> QED
    BY <1>2, <1>3, <2>2
<1>4. CASE m # 0
  <2>1. m - 1 \in Nat /\ m - 1 \notin T /\ (m - 1) + 1 = m
    BY <1>2, <1>4
  <2> QED
    BY <1>2, <2>1, JoiningExtends
<1> QED
  BY <1>3, <1>4

(* What has been joined of the first k ranges of a list in order.          *)
JoinedSoFar(out, s, k) ==
  /\ out \in Seq(Int \X Int) /\ Ranges(out) /\ SortedAndApart(out)
  /\ \A index \in Int : Covered(out, index) <=> \E m \in 1 .. k : index \in s[m][1] .. s[m][2]
  /\ k > 0 => Len(out) > 0 /\ out[Len(out)][1] <= s[k][1]

LEMMA NothingJoined == ASSUME NEW s PROVE JoinedSoFar(<<>>, s, 0)
<1>1. <<>> \in Seq(Int \X Int) /\ Len(<<>>) = 0 /\ DOMAIN <<>> = 1 .. 0
  OBVIOUS
<1>2. Ranges(<<>>) /\ SortedAndApart(<<>>)
  BY <1>1 DEF Ranges, SortedAndApart
<1> QED
  BY <1>1, <1>2 DEF JoinedSoFar, Covered

LEMMA JoinAppends ==
  ASSUME NEW s, Ranges(s), NEW k \in Nat, k + 1 \in 1 .. Len(s),
         NEW out, JoinedSoFar(out, s, k), s[k + 1] \in Int \X Int,
         ~(out # <<>> /\ s[k + 1][1] <= Last(out)[2] + 1)
  PROVE  JoinedSoFar(Append(out, s[k + 1]), s, k + 1)
<1> DEFINE r   == s[k + 1]
           new == Append(out, r)
           n   == Len(out)
<1>1. /\ out \in Seq(Int \X Int) /\ n \in Nat /\ r \in Int \X Int
      /\ r[1] \in Int /\ r[2] \in Int /\ r[1] <= r[2]
      /\ \A j \in 1 .. n : out[j][1] \in Int /\ out[j][2] \in Int /\ out[j][1] <= out[j][2]
  BY DEF JoinedSoFar, Ranges
<1>2. n > 0 => out[n][2] + 1 < r[1]
  <2> SUFFICES ASSUME n > 0 PROVE out[n][2] + 1 < r[1]
    OBVIOUS
  <2>1. out # <<>> /\ Last(out) = out[n] /\ n \in 1 .. n
    BY <1>1 DEF Last
  <2> QED
    BY <1>1, <2>1
<1> HIDE DEF r
<1>3. /\ new \in Seq(Int \X Int) /\ Len(new) = n + 1 /\ DOMAIN new = 1 .. n + 1
      /\ new[n + 1] = r /\ \A j \in 1 .. n : new[j] = out[j]
  BY <1>1
<1> HIDE DEF new, n
<1>4. \A j \in 1 .. n + 1 : j = n + 1 \/ j \in 1 .. n
  BY <1>1
<1>5. Ranges(new)
  <2>1. n + 1 \in Nat
    BY <1>1
  <2> SUFFICES ASSUME NEW j \in 1 .. n + 1
               PROVE  new[j][1] \in Int /\ new[j][2] \in Int /\ new[j][1] <= new[j][2]
    BY <1>3, <2>1 DEF Ranges
  <2>2. CASE j = n + 1
    BY <1>1, <1>3, <2>2
  <2>3. CASE j \in 1 .. n
    BY <1>1, <1>3, <2>3
  <2> QED
    BY <1>4, <2>2, <2>3
<1>6. SortedAndApart(new)
  <2> SUFFICES ASSUME NEW j \in 1 .. n PROVE new[j][2] + 1 < new[j + 1][1]
    BY <1>1, <1>3 DEF SortedAndApart
  <2>1. CASE j = n
    BY <1>1, <1>2, <1>3, <2>1
  <2>2. CASE j # n
    <3>1. j \in 1 .. n - 1 /\ j + 1 \in 1 .. n
      BY <1>1, <2>2
    <3>2. out[j][2] + 1 < out[j + 1][1]
      BY <3>1 DEF JoinedSoFar, SortedAndApart, n
    <3> QED
      BY <1>3, <3>1, <3>2
  <2> QED
    BY <2>1, <2>2
<1>7. ASSUME NEW index \in Int
      PROVE  Covered(new, index) <=> \E m \in 1 .. k + 1 : index \in s[m][1] .. s[m][2]
  <2>1. Covered(out, index) <=> \E m \in 1 .. k : index \in s[m][1] .. s[m][2]
    BY DEF JoinedSoFar
  <2>2. Covered(new, index) <=> Covered(out, index) \/ index \in r[1] .. r[2]
    <3>1. Covered(new, index) <=> \E j \in 1 .. n + 1 : index \in new[j][1] .. new[j][2]
      BY <1>3 DEF Covered
    <3>2. Covered(out, index) <=> \E j \in 1 .. n : index \in out[j][1] .. out[j][2]
      BY DEF Covered, n
    <3>3. n + 1 \in 1 .. n + 1 /\ \A j \in 1 .. n : j \in 1 .. n + 1
      BY <1>1
    <3> QED
      BY <1>3, <1>4, <3>1, <3>2, <3>3
  <2>3. /\ k + 1 \in 1 .. k + 1
        /\ \A m \in 1 .. k : m \in 1 .. k + 1
        /\ \A m \in 1 .. k + 1 : m = k + 1 \/ m \in 1 .. k
    OBVIOUS
  <2> QED
    BY <2>1, <2>2, <2>3 DEF r
<1> QED
  BY <1>1, <1>3, <1>5, <1>6, <1>7 DEF JoinedSoFar, r, new

LEMMA JoinWidens ==
  ASSUME NEW s, Ranges(s), NEW k \in Nat, k + 1 \in 1 .. Len(s),
         k > 0 => s[k][1] <= s[k + 1][1],
         NEW out, JoinedSoFar(out, s, k), out # <<>>, s[k + 1][1] <= Last(out)[2] + 1
  PROVE  JoinedSoFar([out EXCEPT ![Len(out)][2] = JoinedEnd(Last(out), s[k + 1])], s, k + 1)
<1> DEFINE r   == s[k + 1]
           n   == Len(out)
           e   == JoinedEnd(Last(out), r)
           new == [out EXCEPT ![n][2] = e]
<1>1. /\ out \in Seq(Int \X Int) /\ n \in Nat /\ n > 0 /\ n \in 1 .. n /\ DOMAIN out = 1 .. n
      /\ r[1] \in Int /\ r[2] \in Int /\ r[1] <= r[2]
      /\ \A j \in 1 .. n : out[j][1] \in Int /\ out[j][2] \in Int /\ out[j][1] <= out[j][2]
      /\ \A j \in 1 .. n : out[j] \in Int \X Int
  <2>1. out \in Seq(Int \X Int) /\ Ranges(out)
    BY DEF JoinedSoFar
  <2>2. n \in Nat /\ n > 0 /\ n \in 1 .. n /\ DOMAIN out = 1 .. n /\ \A j \in 1 .. n : out[j] \in Int \X Int
    BY <2>1
  <2> QED
    BY <2>1, <2>2 DEF Ranges
<1>2. Last(out) = out[n] /\ r[1] <= out[n][2] + 1
  BY DEF Last
<1>3. out[n][1] <= r[1]
  <2>1. k > 0
    <3> SUFFICES ASSUME k = 0 PROVE FALSE
      OBVIOUS
    <3>1. out[n][1] \in out[n][1] .. out[n][2]
      BY <1>1
    <3>2. Covered(out, out[n][1])
      BY <1>1, <3>1 DEF Covered
    <3>3. \E m \in 1 .. k : out[n][1] \in s[m][1] .. s[m][2]
      BY <1>1, <3>2 DEF JoinedSoFar
    <3> QED
      BY <3>3
  <2>2. out[n][1] <= s[k][1] /\ s[k][1] <= r[1] /\ s[k][1] \in Int
    <3>1. k \in 1 .. Len(s)
      BY <2>1 DEF Ranges
    <3> QED
      BY <2>1, <3>1 DEF JoinedSoFar, Ranges
  <2> QED
    BY <1>1, <2>2
<1>4. e \in Int /\ out[n][2] <= e /\ r[2] <= e /\ (e = out[n][2] \/ e = r[2])
  BY <1>1, <1>2 DEF JoinedEnd, Greatest
<1> HIDE DEF e, r, n
<1>5. /\ DOMAIN new = 1 .. n /\ new[n] = <<out[n][1], e>>
      /\ \A j \in 1 .. n - 1 : new[j] = out[j]
  <2>1. out[n] = <<out[n][1], out[n][2]>>
    BY <1>1
  <2>2. new = [out EXCEPT ![n] = [out[n] EXCEPT ![2] = e]]
    BY <1>1
  <2>3. [out[n] EXCEPT ![2] = e] = <<out[n][1], e>>
    BY <2>1
  <2> HIDE DEF new
  <2> QED
    BY <1>1, <2>2, <2>3
<1>6. new \in Seq(Int \X Int) /\ Len(new) = n
  <2>1. \A j \in 1 .. n : new[j] \in Int \X Int
    <3> SUFFICES ASSUME NEW j \in 1 .. n PROVE new[j] \in Int \X Int
      OBVIOUS
    <3>1. CASE j = n
      BY <1>1, <1>4, <1>5, <3>1
    <3>2. CASE j # n
      <4>1. j \in 1 .. n - 1
        BY <1>1, <3>2
      <4> QED
        BY <1>1, <1>5, <4>1
    <3> QED
      BY <3>1, <3>2
  <2>2. new = [j \in 1 .. n |-> new[j]]
    BY <1>5
  <2> HIDE DEF new
  <2>3. new \in [1 .. n -> Int \X Int] /\ n \in Nat
    BY <1>1, <2>1, <2>2
  <2> QED
    BY <1>5, <2>3
<1> HIDE DEF new
<1>7. new[n][1] = out[n][1] /\ new[n][2] = e
  BY <1>5
<1>8. Ranges(new)
  <2> SUFFICES ASSUME NEW j \in 1 .. n
               PROVE  new[j][1] \in Int /\ new[j][2] \in Int /\ new[j][1] <= new[j][2]
    BY <1>1, <1>5, <1>6 DEF Ranges
  <2>1. CASE j = n
    BY <1>1, <1>4, <1>7, <2>1
  <2>2. CASE j # n
    <3>1. j \in 1 .. n - 1
      BY <1>1, <2>2
    <3> QED
      BY <1>1, <1>5, <3>1
  <2> QED
    BY <2>1, <2>2
<1>9. SortedAndApart(new)
  <2> SUFFICES ASSUME NEW j \in 1 .. n - 1 PROVE new[j][2] + 1 < new[j + 1][1]
    BY <1>6 DEF SortedAndApart
  <2>1. out[j][2] + 1 < out[j + 1][1]
    BY DEF JoinedSoFar, SortedAndApart, n
  <2>2. new[j] = out[j] /\ new[j + 1][1] = out[j + 1][1]
    <3>1. j + 1 = n \/ j + 1 \in 1 .. n - 1
      BY <1>1
    <3> QED
      BY <1>5, <1>7, <3>1
  <2> QED
    BY <2>1, <2>2
<1>10. ASSUME NEW index \in Int
       PROVE  Covered(new, index) <=> \E m \in 1 .. k + 1 : index \in s[m][1] .. s[m][2]
  <2>1. Covered(out, index) <=> \E m \in 1 .. k : index \in s[m][1] .. s[m][2]
    BY DEF JoinedSoFar
  <2>2. index \in out[n][1] .. e <=> index \in out[n][1] .. out[n][2] \/ index \in r[1] .. r[2]
    BY <1>1, <1>2, <1>3, <1>4
  <2>3. Covered(new, index) <=> Covered(out, index) \/ index \in r[1] .. r[2]
    <3>1. Covered(new, index) <=>
            (\E j \in 1 .. n - 1 : index \in out[j][1] .. out[j][2]) \/ index \in out[n][1] .. e
      <4>1. \A j \in 1 .. n : j = n \/ j \in 1 .. n - 1
        BY <1>1
      <4>2. \A j \in 1 .. n - 1 : j \in 1 .. n
        BY <1>1
      <4> QED
        BY <1>1, <1>5, <1>6, <1>7, <4>1, <4>2 DEF Covered
    <3>2. Covered(out, index) <=>
            (\E j \in 1 .. n - 1 : index \in out[j][1] .. out[j][2])
            \/ index \in out[n][1] .. out[n][2]
      <4>1. \A j \in 1 .. n : j = n \/ j \in 1 .. n - 1
        BY <1>1
      <4>2. \A j \in 1 .. n - 1 : j \in 1 .. n
        BY <1>1
      <4> QED
        BY <1>1, <4>1, <4>2 DEF Covered, n
    <3> QED
      BY <2>2, <3>1, <3>2
  <2>4. /\ k + 1 \in 1 .. k + 1
        /\ \A m \in 1 .. k : m \in 1 .. k + 1
        /\ \A m \in 1 .. k + 1 : m = k + 1 \/ m \in 1 .. k
    OBVIOUS
  <2> QED
    BY <2>1, <2>3, <2>4 DEF r
<1> QED
  BY <1>1, <1>3, <1>6, <1>7, <1>8, <1>9, <1>10 DEF JoinedSoFar, r, new, e, n

LEMMA JoinsOneMore ==
  ASSUME NEW s, Ranges(s), NEW k \in Nat, k + 1 \in 1 .. Len(s), s[k + 1] \in Int \X Int,
         k > 0 => s[k][1] <= s[k + 1][1],
         NEW out, JoinedSoFar(out, s, k)
  PROVE  JoinedSoFar(Joined(out, s[k + 1]), s, k + 1)
<1>1. CASE out # <<>> /\ s[k + 1][1] <= Last(out)[2] + 1
  BY <1>1, JoinWidens DEF Joined
<1>2. CASE ~(out # <<>> /\ s[k + 1][1] <= Last(out)[2] + 1)
  BY <1>2, JoinAppends DEF Joined
<1> QED
  BY <1>1, <1>2

LEMMA MergeIsJoining ==
  ASSUME NEW s, NEW n \in Nat, DOMAIN s = 1 .. n
  PROVE  \E f : IsJoining(f, s, n) /\ FoldLeft(Joined, <<>>, s) = f[1 .. n]
<1>1. FoldLeft(Joined, <<>>, s) = (CHOOSE f : f = [S \in SUBSET (DOMAIN s) |->
         IF S = {} THEN <<>> ELSE Joined(f[S \ {Max(S)}], s[Max(S)])])[DOMAIN s]
  BY DEF FoldLeft, MapThenFoldSet
<1>2. FoldLeft(Joined, <<>>, s) = (CHOOSE f : IsJoining(f, s, n))[1 .. n]
  BY <1>1 DEF IsJoining, JoinedAt
<1>3. IsJoining(CHOOSE f : IsJoining(f, s, n), s, n)
  BY JoiningExists
<1> QED
  BY <1>2, <1>3

(* Ranges that overlap, nest or touch become ranges that do neither and    *)
(* cover the same.                                                         *)
LEMMA MergeCovers ==
  ASSUME NEW R \in SUBSET (Int \X Int), IsFiniteSet(R), \A r \in R : r[1] <= r[2]
  PROVE  LET m == merge(R)
         IN  /\ Ranges(m) /\ SortedAndApart(m)
             /\ \A index \in Int : Covered(m, index) <=> \E r \in R : index \in r[1] .. r[2]
<1> DEFINE s == InOrder(R)
           n == Len(s)
<1>1. /\ s \in Seq(R) /\ n \in Nat
      /\ \A k \in 1 .. n : s[k] \in R
      /\ \A j, k \in 1 .. n : j < k => RangeBefore(s[j], s[k])
      /\ \A r \in R : \E k \in 1 .. n : s[k] = r
  BY RangesInOrder
<1> HIDE DEF s
<1>2. DOMAIN s = 1 .. n /\ Ranges(s) /\ \A k \in 1 .. n : s[k] \in Int \X Int
  <2>1. DOMAIN s = 1 .. n
    BY <1>1
  <2>2. \A k \in 1 .. n : s[k] \in Int \X Int /\ s[k][1] \in Int /\ s[k][2] \in Int
                          /\ s[k][1] <= s[k][2]
    BY <1>1
  <2> QED
    BY <1>1, <2>1, <2>2 DEF Ranges
<1> HIDE DEF n
<1>3. PICK f : IsJoining(f, s, n) /\ merge(R) = f[1 .. n]
  <2>1. PICK f : IsJoining(f, s, n) /\ FoldLeft(Joined, <<>>, s) = f[1 .. n]
    BY <1>1, <1>2, MergeIsJoining
  <2> QED
    BY <2>1 DEF merge, s
<1>4. f[1 .. 0] = <<>> /\ \A k \in Nat : k + 1 \in 1 .. n => f[1 .. k + 1] = Joined(f[1 .. k], s[k + 1])
  <2>1. f[1 .. 0] = <<>>
    <3>1. 1 .. 0 = {} /\ 1 .. 0 \in SUBSET (1 .. n)
      OBVIOUS
    <3> QED
      BY <1>3, <3>1 DEF IsJoining, JoinedAt
  <2>2. ASSUME NEW k \in Nat, k + 1 \in 1 .. n
        PROVE  f[1 .. k + 1] = Joined(f[1 .. k], s[k + 1])
    <3>1. /\ 1 .. k + 1 \in SUBSET (1 .. n) /\ k + 1 \in 1 .. k + 1
          /\ 1 .. k + 1 # {}
      <4>1. k + 1 <= n /\ k + 1 \in Nat /\ k + 1 >= 1
        BY <1>1, <2>2
      <4>2. \A i \in 1 .. k + 1 : i \in 1 .. n
        BY <1>1, <4>1
      <4>3. k + 1 \in 1 .. k + 1
        BY <4>1
      <4> QED
        BY <4>2, <4>3
    <3>2. (1 .. k + 1) \ {k + 1} = 1 .. k
      <4>1. \A i : i \in (1 .. k + 1) \ {k + 1} <=> i \in 1 .. k
        OBVIOUS
      <4> QED
        BY <4>1
    <3>3. Max(1 .. k + 1) = k + 1
      <4> DEFINE S == 1 .. k + 1
      <4>1. Max(S) \in S /\ \A i \in S : i <= Max(S)
        BY <1>1, <3>1, MaxOfPositions
      <4> QED
        BY <3>1, <4>1
    <3> DEFINE S == 1 .. k + 1
    <3>4. f[S] = JoinedAt(f, s, S)
      BY <1>3, <3>1 DEF IsJoining
    <3> QED
      BY <3>1, <3>2, <3>3, <3>4 DEF JoinedAt
  <2> QED
    BY <2>1, <2>2
<1>5. \A k \in 0 .. n : JoinedSoFar(f[1 .. k], s, k)
  <2> DEFINE T == {k \in Nat : k <= n /\ ~JoinedSoFar(f[1 .. k], s, k)}
  <2>1. SUFFICES ASSUME T # {} PROVE FALSE
    BY <1>1
  <2>2. PICK k \in T : \A j \in T : k <= j
    <3>1. T \in SUBSET Nat
      OBVIOUS
    <3> HIDE DEF T
    <3> QED
      BY <2>1, <3>1, Smallest
  <2>3. k \in Nat /\ k <= n /\ ~JoinedSoFar(f[1 .. k], s, k)
    BY <2>2
  <2>4. CASE k = 0
    <3>1. f[1 .. k] = <<>>
      BY <1>4, <2>4
    <3> QED
      BY <2>3, <2>4, <3>1, NothingJoined
  <2>5. CASE k # 0
    <3> DEFINE j == k - 1
    <3>1. j \in Nat /\ j + 1 = k /\ j + 1 \in 1 .. n /\ j <= n /\ ~(k <= j)
      BY <1>1, <2>3, <2>5
    <3>2. JoinedSoFar(f[1 .. j], s, j)
      BY <2>2, <3>1
    <3>3. j > 0 => s[j][1] <= s[j + 1][1]
      <4> SUFFICES ASSUME j > 0 PROVE s[j][1] <= s[j + 1][1]
        OBVIOUS
      <4>1. j \in 1 .. n /\ j < j + 1
        BY <1>1, <3>1
      <4>2. RangeBefore(s[j], s[j + 1])
        BY <1>1, <3>1, <4>1
      <4>3. s[j][1] \in Int /\ s[j + 1][1] \in Int
        BY <1>2, <3>1, <4>1
      <4> QED
        BY <4>2, <4>3 DEF RangeBefore
    <3> HIDE DEF j
    <3>4. s[j + 1] \in Int \X Int /\ j + 1 \in 1 .. Len(s)
      BY <1>2, <3>1 DEF n
    <3>5. JoinedSoFar(Joined(f[1 .. j], s[j + 1]), s, j + 1)
      BY <1>2, <3>1, <3>2, <3>3, <3>4, JoinsOneMore
    <3>6. JoinedSoFar(f[1 .. j + 1], s, j + 1)
      BY <1>4, <3>1, <3>5
    <3> QED
      BY <2>3, <3>1, <3>6
  <2> QED
    BY <2>4, <2>5
<1>6. JoinedSoFar(merge(R), s, n)
  <2>1. n \in 0 .. n
    BY <1>1
  <2> QED
    BY <1>3, <1>5, <2>1
<1>7. ASSUME NEW index \in Int
      PROVE  (\E m \in 1 .. n : index \in s[m][1] .. s[m][2]) <=> \E r \in R : index \in r[1] .. r[2]
  BY <1>1
<1> QED
  BY <1>6, <1>7 DEF JoinedSoFar

(* What a session of n packets declares, ranges that begin inside of it,   *)
(* is what its marks cover.                                                *)
LEMMA SessionMarks ==
  ASSUME NEW n \in Nat, n > 0, NEW declared \in SUBSET (Int \X Int), IsFiniteSet(declared),
         \A r \in declared : r[1] \in 1 .. n /\ r[1] <= r[2]
  PROVE  LET m == rangesForSession(n, declared)
         IN  /\ Ranges(m) /\ SortedAndApart(m)
             /\ \A k \in 0 .. n - 1 : Covered(m, k) <=> \E r \in declared : k + 1 \in r[1] .. r[2]
<1> DEFINE Clamp(id) == Least(id - 1, n - 1)
           Start(r)  == Greatest(0, Clamp(r[1]))
           End(r)    == Greatest(Start(r), Clamp(r[2]))
           f == [r \in declared |-> <<Start(r), End(r)>>]
           R == {f[r] : r \in declared}
<1>1. ASSUME NEW r \in declared
      PROVE  /\ Start(r) = r[1] - 1 /\ Start(r) \in Int /\ End(r) \in Int /\ Start(r) <= End(r)
             /\ \A k \in 0 .. n - 1 : k \in Start(r) .. End(r) <=> k + 1 \in r[1] .. r[2]
  <2>1. r[1] \in 1 .. n /\ r[2] \in Int /\ r[1] \in Int /\ r[1] <= r[2]
    OBVIOUS
  <2>2. Start(r) = r[1] - 1
    BY <2>1 DEF Least, Greatest
  <2>3. End(r) = IF r[2] < n THEN r[2] - 1 ELSE n - 1
    BY <2>1, <2>2 DEF Least, Greatest
  <2> HIDE DEF Start, End
  <2> QED
    BY <2>1, <2>2, <2>3
<1>2. \A r \in declared : f[r] = <<Start(r), End(r)>>
  OBVIOUS
<1>3. rangesForSession(n, declared) = merge(R)
  <2>1. R = {<<Start(r), End(r)>> : r \in declared}
    BY <1>2
  <2> HIDE DEF f, R
  <2> QED
    BY <2>1 DEF rangesForSession
<1>4. DOMAIN f = declared
  OBVIOUS
<1> HIDE DEF f, Start, End
<1>5. IsFiniteSet(R)
  BY <1>4, ImageFinite
<1>6. R \in SUBSET (Int \X Int) /\ \A q \in R : q[1] <= q[2]
  BY <1>1, <1>2
<1>7. \A k \in 0 .. n - 1 :
        (\E q \in R : k \in q[1] .. q[2]) <=> \E r \in declared : k + 1 \in r[1] .. r[2]
  <2>1. \A k : (\E q \in R : k \in q[1] .. q[2]) <=> \E r \in declared : k \in Start(r) .. End(r)
    BY <1>2
  <2> QED
    BY <1>1, <2>1
<1> HIDE DEF R
<1>8. LET m == merge(R)
      IN  /\ Ranges(m) /\ SortedAndApart(m)
          /\ \A index \in Int : Covered(m, index) <=> \E r \in R : index \in r[1] .. r[2]
  BY <1>5, <1>6, MergeCovers
<1> QED
  BY <1>3, <1>7, <1>8

(***************************************************************************)
(* A session whose packets are in the order of their times is shown as it  *)
(* is.                                                                     *)
(***************************************************************************)
FirstRows(i, k) == {Row(i, j) : j \in 1 .. k}

LEMMA RowCount ==
  ASSUME NEW i, NEW k \in Nat
  PROVE  IsFiniteSet(FirstRows(i, k)) /\ Cardinality(FirstRows(i, k)) = k
<1> DEFINE f == [j \in 1 .. k |-> Row(i, j)]
<1>1. IsFiniteSet(1 .. k) /\ Cardinality(1 .. k) = k
  BY FS_Interval
<1>2. \A j \in 1 .. k : f[j] = [session |-> i, packet |-> j - 1]
  BY DEF Row
<1>3. \A j, m \in 1 .. k : f[j] = f[m] => j = m
  <2> SUFFICES ASSUME NEW j \in 1 .. k, NEW m \in 1 .. k, f[j] = f[m] PROVE j = m
    OBVIOUS
  <2>1. f[j].packet = j - 1 /\ f[m].packet = m - 1
    BY <1>2
  <2> HIDE DEF f
  <2> QED
    BY <2>1
<1>4. f \in Surjection(1 .. k, FirstRows(i, k))
  <2>1. f \in [1 .. k -> FirstRows(i, k)]
    BY DEF FirstRows
  <2>2. \A r \in FirstRows(i, k) : \E j \in 1 .. k : f[j] = r
    BY DEF FirstRows
  <2> HIDE DEF f
  <2> QED
    BY <2>1, <2>2 DEF Surjection
<1>5. f \in Injection(1 .. k, FirstRows(i, k))
  <2>1. f \in [1 .. k -> FirstRows(i, k)]
    BY DEF FirstRows
  <2> HIDE DEF f
  <2> QED
    BY <1>3, <2>1, Fun_IsInj
<1> HIDE DEF f
<1>6. /\ IsFiniteSet(FirstRows(i, k))
      /\ Cardinality(FirstRows(i, k)) = Cardinality(1 .. k)
  BY <1>1, <1>4, <1>5, FS_Surjection
<1> QED
  BY <1>1, <1>6

LEMMA LoneSession ==
  ASSUME NEW s, Sessions(s), NEW i \in DOMAIN s,
         \A j, k \in DOMAIN s[i].packets : j <= k => s[i].packets[j].at <= s[i].packets[k].at
  PROVE  LET list == mergeSessions(s, {i})
         IN  /\ Len(list) = Len(s[i].packets)
             /\ \A n \in 1 .. Len(list) : list[n].session = i /\ list[n].packet = n - 1
<1> DEFINE m      == Len(s[i].packets)
           pushed == Pushed(s, {i})
           order  == RowOrder(s, {i})
           list   == mergeSessions(s, {i})
<1>1. /\ m \in Nat /\ DOMAIN s[i].packets = 1 .. m /\ i \in Nat
  BY SequenceDomain DEF Sessions
<1>2. pushed = FirstRows(i, m)
  BY <1>1 DEF Pushed, FirstRows
<1>3. \A j \in 1 .. m : Row(i, j) \in pushed /\ Row(i, j).session = i /\ Row(i, j).packet = j - 1
  BY <1>1 DEF Pushed, Row
<1>4. \A r \in pushed : \E j \in 1 .. m : r = Row(i, j)
  BY <1>2 DEF FirstRows
<1>5. ASSUME NEW j \in 1 .. m, NEW k \in 1 .. m
      PROVE  <<Row(i, j), Row(i, k)>> \in order <=> j < k
  <2>1. Row(i, j) \in pushed /\ Row(i, k) \in pushed
    BY <1>3
  <2>2. <<Row(i, j), Row(i, k)>> \in order <=> RowBefore(s, Row(i, j), Row(i, k))
    BY <2>1, RowsTotallyOrdered
  <2>3. /\ s[i].start \in Int /\ s[i].packets[j].at \in Int /\ s[i].packets[k].at \in Int
        /\ s[i].start % TicksPerMs \in Int
    BY <1>1, TicksAssumption DEF Sessions
  <2>4. /\ j - 1 + 1 = j /\ k - 1 + 1 = k /\ j \in Int /\ k \in Int
        /\ j <= k => s[i].packets[j].at <= s[i].packets[k].at
        /\ k <= j => s[i].packets[k].at <= s[i].packets[j].at
    BY <1>1
  <2>5. /\ Time(s, Row(i, j)) = (s[i].start - (s[i].start % TicksPerMs)) + s[i].packets[j].at
        /\ Time(s, Row(i, k)) = (s[i].start - (s[i].start % TicksPerMs)) + s[i].packets[k].at
    BY <2>4 DEF Time, wallClock, ParsedStart, PacketOf, Row
  <2> DEFINE Tj == Time(s, Row(i, j))
             Tk == Time(s, Row(i, k))
  <2>6. Tj \in Int /\ Tk \in Int /\ (j <= k => Tj <= Tk) /\ (k <= j => Tk <= Tj)
    BY <2>3, <2>4, <2>5
  <2>7. RowBefore(s, Row(i, j), Row(i, k)) <=> Tj < Tk \/ (Tj = Tk /\ (i < i \/ j - 1 < k - 1))
    BY <1>3 DEF RowBefore
  <2> HIDE DEF Tj, Tk
  <2> QED
    BY <1>1, <2>2, <2>4, <2>6, <2>7
<1>6. ASSUME NEW k \in 1 .. m
      PROVE  Before(pushed, order, Row(i, k)) = FirstRows(i, k - 1)
  <2>1. ASSUME NEW r \in Before(pushed, order, Row(i, k)) PROVE r \in FirstRows(i, k - 1)
    <3>1. r \in pushed /\ <<r, Row(i, k)>> \in order
      BY DEF Before
    <3>2. PICK j \in 1 .. m : r = Row(i, j)
      BY <1>4, <3>1
    <3>3. j < k
      BY <1>5, <3>1, <3>2
    <3>4. j \in 1 .. k - 1
      BY <1>1, <3>3
    <3> QED
      BY <3>2, <3>4 DEF FirstRows
  <2>2. ASSUME NEW r \in FirstRows(i, k - 1) PROVE r \in Before(pushed, order, Row(i, k))
    <3>1. PICK j \in 1 .. k - 1 : r = Row(i, j)
      BY DEF FirstRows
    <3>2. j \in 1 .. m /\ j < k
      BY <1>1
    <3> QED
      BY <1>3, <1>5, <3>1, <3>2 DEF Before
  <2> QED
    BY <2>1, <2>2
<1>7. /\ Len(list) \in Nat /\ Len(list) = Cardinality(pushed)
      /\ \A n \in 1 .. Len(list) :
           list[n] \in pushed /\ Cardinality(Before(pushed, order, list[n])) = n - 1
  BY MergedRows
<1>8. Len(list) = m
  BY <1>1, <1>2, <1>7, RowCount
<1>9. ASSUME NEW n \in 1 .. Len(list) PROVE list[n].session = i /\ list[n].packet = n - 1
  <2>1. PICK k \in 1 .. m : list[n] = Row(i, k)
    BY <1>4, <1>7
  <2>2. Cardinality(FirstRows(i, k - 1)) = n - 1
    BY <1>6, <1>7, <2>1
  <2>3. k - 1 \in Nat /\ n \in Nat
    BY <1>1, <1>7
  <2>4. k - 1 = n - 1
    BY <2>2, <2>3, RowCount
  <2> QED
    BY <1>3, <2>1, <2>4
<1> QED
  BY <1>8, <1>9

LEMMA DeclaredMarked ==
  ASSUME NEW s, Ranges(s), SortedAndApart(s), s = ranges,
         \A k \in 0 .. Len(rows) - 1 : Covered(s, k) <=> Declared(sessions, spec, rows[k + 1])
  PROVE  MarksAreDeclared
<1>1. \A k \in 0 .. Len(rows) - 1 : inRanges(s, k) <=> Covered(s, k)
  BY ScanFinds
<1> QED
  BY <1>1 DEF MarksAreDeclared

LEMMA NoMarks == Ranges(<<>>) /\ SortedAndApart(<<>>) /\ \A k : ~Covered(<<>>, k)
<1>1. Len(<<>>) = 0 /\ DOMAIN <<>> = 1 .. 0
  OBVIOUS
<1> QED
  BY <1>1 DEF Ranges, SortedAndApart, Covered

LEMMA MarksAreRight == ASSUME capture \in DOMAIN Captures, rowIndex \in Int PROVE MarksAreDeclared
<1> DEFINE shown == Selected(capture, selectedIds)
           n     == Len(rows)
<1>1. shown \in SUBSET DOMAIN sessions /\ Sessions(sessions) /\ sessions # <<>>
  BY CapturesAreSessions DEF Selected, sessions
<1>2. rows = mergeSessions(sessions, shown)
  BY RowsAreMerged DEF rows, sessions
<1>3. n \in Nat /\ DOMAIN rows = 1 .. n /\ IsFiniteSet(shown)
  <2>1. rows \in Seq([session : DOMAIN SessionsOf(capture), packet : Nat]) /\ n \in Nat
    BY RowsType DEF rows
  <2>2. IsFiniteSet(shown)
    BY <1>1, SequenceDomain, FS_Subset DEF Sessions
  <2> QED
    BY <2>1, <2>2
<1> HIDE DEF n
<1>4. CASE merged
  <2> DEFINE hit == {k \in 0 .. n - 1 : Declared(sessions, spec, rows[k + 1])}
             s   == InOrder(Runs(hit))
  <2>1. ranges = s
    BY <1>4 DEF ranges, rangesForMerged, Runs, n
  <2>2. hit \in SUBSET (0 .. n - 1)
    OBVIOUS
  <2>3. \A k \in 0 .. n - 1 : k \in hit <=> Declared(sessions, spec, rows[k + 1])
    OBVIOUS
  <2> HIDE DEF hit
  <2>4. /\ Ranges(s) /\ SortedAndApart(s)
        /\ \A k \in 0 .. n - 1 : Covered(s, k) <=> k \in hit
    BY <1>3, <2>2, RunsAreMarks
  <2> HIDE DEF s
  <2> QED
    BY <2>1, <2>3, <2>4, DeclaredMarked DEF n
<1>5. CASE shown = {}
  <2>1. ~merged
    BY <1>5, FS_EmptySet DEF merged
  <2>2. n = 0
    <3>1. Pushed(sessions, {}) = {}
      BY DEF Pushed
    <3>2. Len(mergeSessions(sessions, shown)) = Cardinality(Pushed(sessions, shown))
      BY <1>1, MergedRows
    <3> QED
      BY <1>2, <1>5, <3>1, <3>2, FS_EmptySet DEF n
  <2>3. ranges = <<>>
    BY <2>1, <2>2 DEF ranges, rangesForSession, n
  <2>4. 0 .. Len(rows) - 1 = {}
    BY <2>2 DEF n
  <2> QED
    BY <2>3, <2>4, NoMarks, DeclaredMarked
<1>6. CASE ~merged /\ shown # {}
  <2>1. PICK i : shown = {i}
    <3>1. Cardinality(shown) \in Nat /\ ~(Cardinality(shown) > 1) /\ Cardinality(shown) # 0
      BY <1>3, <1>6, FS_CardinalityType, FS_EmptySet DEF merged
    <3>2. Cardinality(shown) = 1
      BY <3>1
    <3> QED
      BY <1>3, <3>2, FS_Singleton
  <2>2. i \in DOMAIN sessions /\ sessions[i].id = i /\ i \in Nat
    <3>1. i \in DOMAIN sessions
      BY <1>1, <2>1
    <3>2. i \in Nat
      BY <1>1, <3>1, SequenceDomain DEF Sessions
    <3> QED
      BY <3>1, <3>2, CapturesAssumption DEF sessions, SessionsOf
  <2>3. activeSession = i
    <3>1. CASE HasPacket(rows, rowIndex)
      <4>1. Clamped(rows, rowIndex) \in 1 .. n
        BY <1>3, <3>1 DEF HasPacket
      <4>2. rows[Clamped(rows, rowIndex)].session \in shown
        BY <3>1, RowsArePackets DEF HasPacket, rows
      <4> QED
        BY <2>1, <3>1, <4>2 DEF activeSession
    <3>2. CASE ~HasPacket(rows, rowIndex)
      <4>1. activeSession = CHOOSE k \in shown : \A j \in shown : k <= j
        BY <1>6, <3>2 DEF activeSession
      <4>2. i \in shown /\ \A j \in shown : i <= j
        BY <2>1, <2>2
      <4> QED
        BY <2>1, <4>1, <4>2
    <3> QED
      BY <3>1, <3>2
  <2>4. ranges = rangesForSession(n, IF i \in DOMAIN spec THEN spec[i] ELSE {})
    BY <1>6, <2>2, <2>3 DEF ranges, n
  <2>5. \A k \in 1 .. n : rows[k].session = i /\ rows[k] \in Pushed(sessions, shown)
    <3>1. \A k \in 1 .. n : rows[k] \in Pushed(sessions, shown)
      BY <1>1, <1>2, MergedRows DEF n
    <3> QED
      BY <1>1, <2>1, <3>1, PushedRows
  <2>6. CASE n = 0
    <3>1. ranges = <<>>
      BY <2>4, <2>6 DEF rangesForSession
    <3>2. 0 .. Len(rows) - 1 = {}
      BY <2>6 DEF n
    <3> QED
      BY <3>1, <3>2, NoMarks, DeclaredMarked
  <2>7. CASE n # 0 /\ i \notin DOMAIN spec
    <3>1. ranges = rangesForSession(n, {})
      BY <2>4, <2>7
    <3>2. {} \in SUBSET (Int \X Int) /\ IsFiniteSet({}) /\ n > 0
      BY <1>3, <2>7, FS_EmptySet
    <3>3. /\ Ranges(ranges) /\ SortedAndApart(ranges)
          /\ \A k \in 0 .. n - 1 : Covered(ranges, k) <=> \E r \in {} : k + 1 \in r[1] .. r[2]
      BY <1>3, <3>1, <3>2, SessionMarks
    <3>4. \A k \in 0 .. n - 1 : ~Declared(sessions, spec, rows[k + 1])
      <4> SUFFICES ASSUME NEW k \in 0 .. n - 1 PROVE ~Declared(sessions, spec, rows[k + 1])
        OBVIOUS
      <4>1. k + 1 \in 1 .. n
        BY <1>3
      <4> QED
        BY <2>2, <2>5, <2>7, <4>1 DEF Declared
    <3> QED
      BY <3>3, <3>4, DeclaredMarked DEF n
  <2>8. CASE n # 0 /\ i \in DOMAIN spec
    <3> DEFINE packets  == sessions[i].packets
               declared == spec[i]
    <3>1. /\ \A j, k \in DOMAIN packets : j <= k => packets[j].at <= packets[k].at
          /\ IsFiniteSet(declared) /\ declared \in SUBSET (Int \X Int)
          /\ packets # <<>> => \A r \in declared : r[1] \in DOMAIN packets /\ r[1] <= r[2]
      BY <2>2, <2>8, HighlightAssumption DEF sessions, spec, SessionsOf
    <3>2. /\ n = Len(packets)
          /\ \A k \in 1 .. n : rows[k].session = i /\ rows[k].packet = k - 1
      BY <1>1, <1>2, <2>1, <2>2, <3>1, LoneSession DEF n
    <3>3. Len(packets) \in Nat /\ DOMAIN packets = 1 .. n
      BY <1>1, <2>2, <3>2, SequenceDomain DEF Sessions
    <3>4. n > 0 /\ packets # <<>>
      <4>1. n \in Nat /\ n # 0
        BY <1>3, <2>8
      <4>2. Len(<<>>) = 0
        OBVIOUS
      <4> QED
        BY <3>2, <4>1, <4>2
    <3>5. ranges = rangesForSession(n, declared)
      BY <2>4, <2>8
    <3> HIDE DEF packets, declared
    <3>6. /\ Ranges(ranges) /\ SortedAndApart(ranges)
          /\ \A k \in 0 .. n - 1 : Covered(ranges, k) <=> \E r \in declared : k + 1 \in r[1] .. r[2]
      BY <1>3, <3>1, <3>3, <3>4, <3>5, SessionMarks
    <3>7. \A k \in 0 .. n - 1 :
            Declared(sessions, spec, rows[k + 1]) <=> \E r \in declared : k + 1 \in r[1] .. r[2]
      <4> SUFFICES ASSUME NEW k \in 0 .. n - 1
                   PROVE  Declared(sessions, spec, rows[k + 1]) <=>
                            \E r \in declared : k + 1 \in r[1] .. r[2]
        OBVIOUS
      <4>1. k + 1 \in 1 .. n /\ (k + 1) - 1 + 1 = k + 1
        BY <1>3
      <4>2. rows[k + 1].session = i /\ rows[k + 1].packet + 1 = k + 1
        BY <3>2, <4>1
      <4> QED
        BY <2>2, <2>8, <4>2 DEF Declared, declared
    <3> QED
      BY <3>6, <3>7, DeclaredMarked DEF n
  <2> QED
    BY <1>6, <2>6, <2>7, <2>8
<1> QED
  BY <1>4, <1>5, <1>6

(* highlight.ts and the scrubber: what the timeline marks is what the      *)
(* recorder declared and no more, in ranges that are sorted and apart,     *)
(* through every change of the sessions shown.                             *)
THEOREM MarksStayRight == Spec => []MarksAreDeclared
<1>1. ReaderInv => MarksAreDeclared
  BY MarksAreRight DEF ReaderInv
<1> QED
  BY <1>1, InitReaderInv, StepKeepsReaderInv, PTL DEF Spec
=============================================================================
