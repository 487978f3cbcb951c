--------------------------- MODULE JsonTreeProofs ---------------------------
(***************************************************************************)
(* A client who navigates a document sees a tree that never changes         *)
(* (module JsonTree), for documents of any size, in any number of segments, *)
(* and however objects are sorted on the way.                              *)
(***************************************************************************)
EXTENDS DocumentProofs

----------------------------------------------------------------------------
(* The tree of a document.                                                 *)

(* Where it has cells, and what holds a value's tree or no value.           *)
CellsIn(segs) == {h \in Places : HasCell(segs, h)}
SpotsIn(segs) == CellsIn(segs) \cup {First, NotFound}

(* Every cell has its place in the tree.                                   *)
InTree(segs) ==
  /\ Len(segs) <= NotFound[1]
  /\ \A h \in CellsIn(segs) : IsInTree(segs, h)

(* What FollowHandle, ReadScalar, ReadComposite and Elements read.          *)
TargetOf(segs, h) == IF HasTag(segs, h, {"handle"}) THEN CellOf(segs, h).value ELSE h

ScalarOf(token) ==
  CASE token.kind = "int"          -> ReadInt(token.data)
    [] TypeOfLeaf(token) = "bool" -> token.data = "true"
    [] OTHER                      -> token.data

CompositeIn(segs, h) ==
  [type |-> CellOf(segs, h).tag, segment_no |-> h[1],
   table |-> IF CellOf(segs, h).count = 0 THEN 0 ELSE CellOf(segs, h).table,
   first |-> 1, count |-> CellOf(segs, h).count]

(* The place of an element's value.                                        *)
PlaceOf(kind, n, cellNo) == <<n, IF kind = "array" THEN cellNo ELSE cellNo + 1>>

ElementIn(segs, kind, n, cellNo, f) ==
  [key   |-> IF kind = "array" THEN <<>> ELSE CellOf(segs, <<n, cellNo>>).token.data,
   value |-> f[TargetOf(segs, PlaceOf(kind, n, cellNo))]]

SliceIn(segs, t, f) ==
  [k \in 1 .. t.count |->
     ElementIn(segs, Kind(t), t.segment_no, OffsetsOf(segs, t)[t.first + (k - 1)], f)]

(* A tree by the trees of its elements.                                    *)
TreeIn(segs, h, f) ==
  IF ~HasTag(segs, h, Values) THEN Missing
  ELSE IF CellOf(segs, h).tag = "leaf"
  THEN <<TypeOfLeaf(CellOf(segs, h).token), ScalarOf(CellOf(segs, h).token)>>
  ELSE <<CellOf(segs, h).tag, SliceIn(segs, CompositeIn(segs, h), f)>>

----------------------------------------------------------------------------
(* Trees are well founded.                                                 *)

(* How many cells there are from a handle on, those of the segments that    *)
(* handles lead to counted first.                                          *)
Behind(segs, most, h) == Len(segs[h[1] + 1]) - h[2] + (IF h[1] = 0 THEN most ELSE 0)

Bounds(segs, most) == most \in Nat /\ \A n \in DOMAIN segs : Len(segs[n]) <= most

(* The segments of a document have a longest.                              *)
LEMMA SegmentsAreBounded ==
  ASSUME NEW segs, Sound(segs)
  PROVE  \E most : Bounds(segs, most)
<1>1. PICK cells : segs \in Seq(Seq(cells))
  BY DEF Sound
<1>2. Len(segs) \in Nat /\ \A n \in 1 .. Len(segs) : Len(segs[n]) \in Nat
      /\ DOMAIN segs = 1 .. Len(segs)
  BY <1>1
<1> DEFINE Good == {m \in Nat : \E most \in Nat :
                      \A n \in 1 .. Len(segs) : n <= m => Len(segs[n]) <= most}
<1>3. ASSUME NEW m \in Nat, \A l \in Nat : l < m => l \in Good
      PROVE  m \in Good
  <2>1. CASE m = 0
    BY <2>1
  <2>2. CASE m # 0
    <3>1. m - 1 \in Nat /\ m - 1 < m
      BY <2>2
    <3>2. PICK most \in Nat : \A n \in 1 .. Len(segs) : n <= m - 1 => Len(segs[n]) <= most
      BY <1>3, <3>1
    <3>3. CASE m \in 1 .. Len(segs)
      <4> DEFINE larger == most + Len(segs[m])
      <4>1. larger \in Nat /\ most <= larger /\ Len(segs[m]) <= larger
        BY <1>2, <3>3
      <4> HIDE DEF larger
      <4>2. ASSUME NEW n \in 1 .. Len(segs), n <= m
            PROVE  Len(segs[n]) <= larger
        <5>1. n = m \/ n <= m - 1
          BY <4>2
        <5> QED BY <1>2, <3>2, <4>1, <5>1
      <4> QED BY <4>1, <4>2
    <3>4. CASE m \notin 1 .. Len(segs)
      <4>1. \A n \in 1 .. Len(segs) : n <= m => n <= m - 1
        BY <1>2, <3>1, <3>4
      <4> QED BY <3>2, <4>1
    <3> QED BY <3>3, <3>4
  <2> QED BY <2>1, <2>2
<1>4. Good \in SUBSET Nat
  OBVIOUS
<1> HIDE DEF Good
<1>5. \A m \in Nat : m \in Good
  BY <1>3, <1>4, StrongInduction
<1>6. Len(segs) \in Good
  BY <1>2, <1>5
<1>7. PICK most \in Nat : \A n \in 1 .. Len(segs) : n <= Len(segs) => Len(segs[n]) <= most
  BY <1>6 DEF Good
<1>8. \A n \in 1 .. Len(segs) : n <= Len(segs)
  BY <1>2
<1>9. \A n \in DOMAIN segs : Len(segs[n]) <= most
  <2> SUFFICES ASSUME NEW n \in 1 .. Len(segs)  PROVE Len(segs[n]) <= most
    BY <1>2
  <2> QED BY <1>7, <1>8
<1> QED BY <1>7, <1>9, Zenon DEF Bounds

(* Some cells are behind every handle; fewer are behind another segment's   *)
(* than behind the main one's.                                             *)
LEMMA CellsBehind ==
  ASSUME NEW segs, Sound(segs), NEW most, Bounds(segs, most)
  PROVE  /\ \A h \in CellsIn(segs) : Behind(segs, most, h) \in Nat
         /\ \A g, h \in CellsIn(segs) :
              \/ g[1] = h[1] /\ h[2] < g[2]
              \/ h[1] = 0 /\ g[1] # 0
              => Behind(segs, most, g) < Behind(segs, most, h)
<1>1. PICK cells : segs \in Seq(Seq(cells))
  BY DEF Sound
<1>2. ASSUME NEW h \in CellsIn(segs)
      PROVE  /\ h[1] \in Nat /\ h[2] \in Nat /\ h[1] + 1 \in DOMAIN segs
             /\ Len(segs[h[1] + 1]) \in Nat /\ h[2] < Len(segs[h[1] + 1])
             /\ Len(segs[h[1] + 1]) <= most
  <2>1. /\ h[1] \in Nat /\ h[2] \in Nat /\ h[1] + 1 \in DOMAIN segs
        /\ h[2] + 1 \in DOMAIN segs[h[1] + 1]
    BY DEF CellsIn, Places, HasCell
  <2>2. segs[h[1] + 1] \in Seq(cells)
    BY <1>1, <2>1
  <2> QED BY <2>1, <2>2 DEF Bounds
<1>3. most \in Nat
  BY DEF Bounds
<1>4. \A h \in CellsIn(segs) : Behind(segs, most, h) \in Nat
  <2> TAKE h \in CellsIn(segs)
  <2>1. Len(segs[h[1] + 1]) - h[2] \in Nat
    BY <1>2
  <2> QED BY <1>3, <2>1 DEF Behind
<1>5. ASSUME NEW g \in CellsIn(segs), NEW h \in CellsIn(segs), g[1] = h[1], h[2] < g[2]
      PROVE  Behind(segs, most, g) < Behind(segs, most, h)
  <2> DEFINE n == Len(segs[h[1] + 1])
             extra == IF h[1] = 0 THEN most ELSE 0
  <2>1. Behind(segs, most, g) = n - g[2] + extra /\ Behind(segs, most, h) = n - h[2] + extra
    BY <1>5 DEF Behind
  <2>2. n \in Nat /\ extra \in Nat /\ g[2] \in Nat /\ h[2] \in Nat
    BY <1>2, <1>3
  <2> HIDE DEF n, extra
  <2> QED BY <1>5, <2>1, <2>2
<1>6. ASSUME NEW g \in CellsIn(segs), NEW h \in CellsIn(segs), h[1] = 0, g[1] # 0
      PROVE  Behind(segs, most, g) < Behind(segs, most, h)
  <2> DEFINE m == Len(segs[g[1] + 1])
             n == Len(segs[h[1] + 1])
  <2>1. Behind(segs, most, g) = m - g[2] + 0 /\ Behind(segs, most, h) = n - h[2] + most
    BY <1>6 DEF Behind
  <2>2. m \in Nat /\ n \in Nat /\ g[2] \in Nat /\ h[2] \in Nat /\ h[2] < n /\ m <= most
    BY <1>2
  <2> HIDE DEF m, n
  <2> QED BY <1>3, <2>1, <2>2
<1> QED BY <1>4, <1>5, <1>6

(* Where an element's value is, and how its handle is followed.            *)
LEMMA ElementsHaveValues ==
  ASSUME NEW segs, Sound(segs), NEW n \in Nat, NEW cellNo \in Nat, NEW kind,
         IsElement(segs, kind, <<n, cellNo>>)
  PROVE  LET g == PlaceOf(kind, n, cellNo)
         IN  /\ g \in CellsIn(segs) /\ g[1] = n /\ cellNo <= g[2]
             /\ HasTag(segs, g, Values \cup {"handle"})
             /\ TargetOf(segs, g) \in CellsIn(segs) /\ HasTag(segs, TargetOf(segs, g), Values)
             /\ TargetOf(segs, g) # g => CellOf(segs, g).tag = "handle"
<1> DEFINE g == PlaceOf(kind, n, cellNo)
<1>1. g \in Places /\ g[1] = n /\ cellNo <= g[2]
  BY DEF PlaceOf, Places
<1>2. HasTag(segs, g, Values \cup {"handle"})
  BY DEF IsElement, PlaceOf
<1> HIDE DEF g
<1>3. g \in CellsIn(segs) /\ HasCell(segs, g)
  BY <1>1, <1>2 DEF CellsIn, HasTag
<1>4. CASE CellOf(segs, g).tag = "handle"
  <2>1. CellOf(segs, g).value \in Places /\ HasTag(segs, CellOf(segs, g).value, Values)
    BY <1>1, <1>3, <1>4, CellsByTag
  <2>2. TargetOf(segs, g) = CellOf(segs, g).value
    BY <1>3, <1>4 DEF TargetOf, HasTag
  <2> QED BY <1>1, <1>2, <1>3, <1>4, <2>1, <2>2 DEF CellsIn, HasTag, g
<1>5. CASE CellOf(segs, g).tag # "handle"
  <2>1. TargetOf(segs, g) = g
    BY <1>5 DEF TargetOf, HasTag
  <2>2. HasTag(segs, g, Values)
    BY <1>2, <1>5 DEF HasTag
  <2> QED BY <1>1, <1>2, <1>3, <2>1, <2>2 DEF g
<1> QED BY <1>4, <1>5

(* The table of a composite.                                               *)
LEMMA CompositesAreHeld ==
  ASSUME NEW segs, Sound(segs), NEW h \in CellsIn(segs), HasTag(segs, h, {"array", "object"})
  PROVE  LET t == CompositeIn(segs, h)
         IN  /\ HoldsIn(segs, t) /\ t.type # "sorted"
             /\ t.type = CellOf(segs, h).tag /\ Kind(t) = CellOf(segs, h).tag
             /\ t.segment_no = h[1] /\ t.first = 1 /\ t.count = CellOf(segs, h).count
             /\ t.count > 0 => t.table = CellOf(segs, h).table
<1> DEFINE cell == CellOf(segs, h)
           t == CompositeIn(segs, h)
<1>1. cell.tag \in {"array", "object"} /\ HasCell(segs, h) /\ h \in Places /\ h[1] \in Nat
  BY DEF HasTag, CellsIn, Places
<1>2. /\ cell.count \in Nat
      /\ cell.count > 0 =>
           cell.table \in Nat /\ IsTableOf(segs, cell.tag, <<h[1], cell.table>>, cell.count)
  BY <1>1, CellsByTag
<1>3. t = [type |-> cell.tag, segment_no |-> h[1],
           table |-> IF cell.count = 0 THEN 0 ELSE cell.table, first |-> 1, count |-> cell.count]
  BY DEF CompositeIn
<1> HIDE DEF cell, t
<1>4. /\ t.type = cell.tag /\ t.segment_no = h[1] /\ t.first = 1 /\ t.count = cell.count
      /\ t.count > 0 => t.table = cell.table
      /\ t \in Tables
  BY <1>1, <1>2, <1>3 DEF Tables
<1>5. Kind(t) = cell.tag /\ t.type # "sorted"
  BY <1>1, <1>4 DEF Kind
<1>6. HoldsIn(segs, t)
  <2>1. CASE t.count = 0
    BY <1>4, <2>1 DEF HoldsIn
  <2>2. CASE t.count # 0
    <3>1. IsTableOf(segs, Kind(t), <<t.segment_no, t.table>>, t.count)
      BY <1>2, <1>4, <1>5, <2>2
    <3> QED BY <1>4, <1>5, <3>1, HeadersLeadToElements
  <2> QED BY <2>1, <2>2
<1> QED BY <1>4, <1>5, <1>6 DEF cell, t

(* The elements that a held table leads to.                                *)
LEMMA HeldElements ==
  ASSUME NEW segs, Sound(segs), NEW t, HoldsIn(segs, t), NEW k \in 1 .. t.count
  PROVE  LET cellNo == OffsetsOf(segs, t)[t.first + (k - 1)]
         IN  /\ t.first + (k - 1) \in 1 .. Len(OffsetsOf(segs, t))
             /\ OffsetsOf(segs, t) \in Seq(Nat) /\ HasTag(segs, <<t.segment_no, t.table>>, {"table"})
             /\ cellNo \in Nat /\ t.segment_no \in Nat
             /\ IsElement(segs, Kind(t), <<t.segment_no, cellNo>>)
<1> DEFINE offsets == OffsetsOf(segs, t)
           c == <<t.segment_no, t.table>>
<1>1. /\ t.count \in Nat /\ t.count > 0 /\ t.first \in Nat \ {0}
      /\ t.segment_no \in Nat /\ t.table \in Nat
  BY DEF HoldsIn, Tables
<1>2. /\ HasTag(segs, c, {"table"}) /\ t.first + t.count - 1 = Len(offsets)
      /\ \A l \in 1 .. Len(offsets) : IsElement(segs, Kind(t), <<t.segment_no, offsets[l]>>)
  BY <1>1 DEF HoldsIn, LeadsToElements
<1>3. c \in Places /\ HasCell(segs, c) /\ CellOf(segs, c).tag = "table"
  BY <1>1, <1>2 DEF Places, HasTag
<1>4. offsets \in Seq(Nat)
  BY <1>3, CellsByTag DEF OffsetsOf
<1> HIDE DEF offsets, c
<1>5. t.first + (k - 1) \in 1 .. Len(offsets)
  BY <1>1, <1>2
<1>6. offsets[t.first + (k - 1)] \in Nat
  BY <1>4, <1>5
<1> QED BY <1>1, <1>2, <1>4, <1>5, <1>6 DEF offsets, c

(* A tree depends on those of cells further behind only.                   *)
LEMMA TreesAreLocal ==
  ASSUME NEW segs, Sound(segs), InTree(segs), NEW most, Bounds(segs, most),
         NEW h \in SpotsIn(segs), NEW f, NEW g,
         \A v \in CellsIn(segs) : Behind(segs, most, v) < Behind(segs, most, h) => f[v] = g[v]
  PROVE  TreeIn(segs, h, f) = TreeIn(segs, h, g)
<1>1. CASE ~HasTag(segs, h, {"array", "object"})
  <2>1. ~HasTag(segs, h, Values) \/ CellOf(segs, h).tag = "leaf"
    BY <1>1 DEF HasTag, Values
  <2> QED BY <2>1 DEF TreeIn
<1>2. CASE HasTag(segs, h, {"array", "object"})
  <2> DEFINE t == CompositeIn(segs, h)
             cellNo(k) == OffsetsOf(segs, t)[t.first + (k - 1)]
  <2>1. h \in CellsIn(segs)
    <3>1. First \in Places /\ NotFound \in Places
      BY DEF First, NotFound, Places
    <3> QED BY <1>2, <3>1 DEF SpotsIn, CellsIn, HasTag
  <2>2. /\ HoldsIn(segs, t) /\ t.segment_no = h[1] /\ t.first = 1
        /\ Kind(t) = CellOf(segs, h).tag /\ t.count = CellOf(segs, h).count
        /\ t.count > 0 => t.table = CellOf(segs, h).table
    BY <1>2, <2>1, CompositesAreHeld
  <2>3. ASSUME NEW k \in 1 .. t.count
        PROVE  ElementIn(segs, Kind(t), t.segment_no, cellNo(k), f)
                 = ElementIn(segs, Kind(t), t.segment_no, cellNo(k), g)
    <3> DEFINE v == PlaceOf(Kind(t), t.segment_no, cellNo(k))
               w == TargetOf(segs, v)
    <3>1. /\ cellNo(k) \in Nat /\ t.segment_no \in Nat
          /\ IsElement(segs, Kind(t), <<t.segment_no, cellNo(k)>>)
      BY <2>2, HeldElements
    <3>2. /\ v \in CellsIn(segs) /\ v[1] = h[1] /\ cellNo(k) <= v[2] /\ w \in CellsIn(segs)
          /\ w # v => CellOf(segs, v).tag = "handle"
      <4> HIDE DEF cellNo, t
      <4> QED BY <2>2, <3>1, ElementsHaveValues
    <3>3. h[2] < cellNo(k)
      <4>1. t.count \in Nat /\ t.count > 0
        BY <2>2 DEF HoldsIn, Tables
      <4>2. IsInTree(segs, h) /\ HasElements(CellOf(segs, h))
        BY <1>2, <2>1, <2>2, <4>1 DEF InTree, HasElements, HasTag
      <4>3. cellNo(k) = CellOf(segs, <<h[1], CellOf(segs, h).table>>).offsets[k]
        <5>1. t.first + (k - 1) = k
          BY <2>2, <4>1
        <5>2. t.table = CellOf(segs, h).table /\ t.segment_no = h[1]
          BY <2>2, <4>1
        <5> HIDE DEF t
        <5> QED BY <5>1, <5>2 DEF OffsetsOf
      <4>4. k \in 1 .. CellOf(segs, h).count
        BY <2>2
      <4> HIDE DEF cellNo, t
      <4> QED BY <4>2, <4>3, <4>4 DEF IsInTree
    <3> HIDE DEF cellNo, t, v
    <3>4. h[2] \in Nat /\ v[2] \in Nat /\ h[2] < v[2]
      BY <2>1, <3>1, <3>2, <3>3 DEF CellsIn, Places
    <3>5. CASE w = v
      <4>1. Behind(segs, most, w) < Behind(segs, most, h)
        BY <2>1, <3>2, <3>4, <3>5, CellsBehind
      <4>2. f[w] = g[w]
        BY <3>2, <4>1
      <4> QED BY <4>2 DEF ElementIn, v
    <3>6. CASE w # v
      <4>1. IsInTree(segs, v) /\ CellOf(segs, v).tag = "handle"
        BY <3>2, <3>6 DEF InTree
      <4>2. v[1] = 0 /\ CellOf(segs, v).value[1] # 0
        BY <4>1 DEF IsInTree
      <4>3. w = CellOf(segs, v).value
        BY <3>6 DEF TargetOf
      <4>4. Behind(segs, most, w) < Behind(segs, most, h)
        BY <2>1, <3>2, <4>2, <4>3, CellsBehind
      <4>5. f[w] = g[w]
        BY <3>2, <4>4
      <4> QED BY <4>5 DEF ElementIn, v
    <3> QED BY <3>5, <3>6
  <2>4. SliceIn(segs, t, f) = SliceIn(segs, t, g)
    <3> DEFINE A(k) == ElementIn(segs, Kind(t), t.segment_no, cellNo(k), f)
               B(k) == ElementIn(segs, Kind(t), t.segment_no, cellNo(k), g)
    <3>1. \A k \in 1 .. t.count : A(k) = B(k)
      BY <2>3
    <3>2. SliceIn(segs, t, f) = [k \in 1 .. t.count |-> A(k)]
      BY Zenon DEF SliceIn
    <3>3. SliceIn(segs, t, g) = [k \in 1 .. t.count |-> B(k)]
      BY Zenon DEF SliceIn
    <3> HIDE DEF A, B
    <3> QED BY <3>1, <3>2, <3>3
  <2> QED BY <2>4 DEF TreeIn
<1> QED BY <1>1, <1>2

(* The trees of what is in a document, by themselves.                      *)
AreTrees(segs, S, f) == f = [h \in S |-> TreeIn(segs, h, f)]

(* All values of a document have trees: their definition is one.           *)
LEMMA TreesExist ==
  ASSUME NEW segs, Sound(segs), InTree(segs)
  PROVE  \E f : AreTrees(segs, SpotsIn(segs), f)
<1>1. PICK most : Bounds(segs, most)
  BY SegmentsAreBounded
<1> DEFINE behind(h) == Behind(segs, most, h)
           near(n) == {h \in CellsIn(segs) : behind(h) < n}
           Exist == {n \in Nat : \E f : AreTrees(segs, near(n), f)}
<1>2. \A h \in CellsIn(segs) : behind(h) \in Nat
  BY <1>1, CellsBehind
<1>3. \A n : near(n) \subseteq SpotsIn(segs)
  BY DEF SpotsIn
<1>4. ASSUME NEW h \in SpotsIn(segs), NEW f, NEW g,
             \A v \in CellsIn(segs) : behind(v) < behind(h) => f[v] = g[v]
      PROVE  TreeIn(segs, h, f) = TreeIn(segs, h, g)
  BY <1>1, <1>4, TreesAreLocal
<1>5. most \in Nat /\ 2 * most + 1 \in Nat
  BY <1>1 DEF Bounds
<1>6. near(2 * most + 1) = CellsIn(segs)
  <2> SUFFICES ASSUME NEW h \in CellsIn(segs)
               PROVE  behind(h) < 2 * most + 1
    OBVIOUS
  <2>1. h[2] \in Nat /\ h[1] + 1 \in DOMAIN segs
    BY DEF CellsIn, Places, HasCell
  <2>2. Len(segs[h[1] + 1]) <= most
    BY <1>1, <2>1 DEF Bounds
  <2>3. Len(segs[h[1] + 1]) \in Nat
    <3>1. PICK cells : segs \in Seq(Seq(cells))
      BY DEF Sound
    <3>2. segs[h[1] + 1] \in Seq(cells)
      BY <2>1, <3>1
    <3> QED BY <3>2
  <2> DEFINE n == Len(segs[h[1] + 1])
             extra == IF h[1] = 0 THEN most ELSE 0
  <2>4. behind(h) = n - h[2] + extra /\ extra \in Nat /\ extra <= most
    BY <1>5 DEF Behind
  <2>5. n \in Nat /\ n <= most
    BY <2>2, <2>3
  <2> HIDE DEF behind, n, extra
  <2> QED BY <1>5, <2>1, <2>4, <2>5
<1> HIDE DEF behind
<1>7. ASSUME NEW n \in Nat, \A m \in Nat : m < n => m \in Exist
      PROVE  n \in Exist
  <2>1. CASE n = 0
    <3>1. near(n) = {}
      BY <1>2, <2>1
    <3> DEFINE f == [h \in near(n) |-> <<>>]
    <3>2. f = [h \in near(n) |-> TreeIn(segs, h, f)]
      BY <3>1
    <3> QED BY <3>2 DEF AreTrees
  <2>2. CASE n # 0
    <3>1. n - 1 \in Nat /\ n - 1 < n
      BY <2>2
    <3>2. PICK f : AreTrees(segs, near(n - 1), f)
      BY <1>7, <3>1
    <3> DEFINE g == [h \in near(n) |-> TreeIn(segs, h, f)]
    <3>3. ASSUME NEW v \in CellsIn(segs), behind(v) < n - 1
          PROVE  f[v] = g[v]
      <4>1. v \in near(n - 1) /\ v \in near(n)
        BY <1>2, <3>1, <3>3
      <4> HIDE DEF near
      <4> QED BY <3>2, <4>1, Zenon DEF AreTrees
    <3>4. ASSUME NEW h \in near(n)
          PROVE  TreeIn(segs, h, f) = TreeIn(segs, h, g)
      <4>1. h \in CellsIn(segs) /\ behind(h) < n /\ h \in SpotsIn(segs)
        BY <1>3
      <4>2. \A v \in CellsIn(segs) : behind(v) < behind(h) => behind(v) < n - 1
        BY <1>2, <3>1, <4>1
      <4>3. \A v \in CellsIn(segs) : behind(v) < behind(h) => f[v] = g[v]
        BY <3>3, <4>2, Zenon
      <4> HIDE DEF g
      <4> QED BY <1>4, <4>1, <4>3
    <3>5. g = [h \in near(n) |-> TreeIn(segs, h, g)]
      <4> HIDE DEF near
      <4> QED BY <3>4, Zenon
    <3> HIDE DEF g, near
    <3> QED BY <3>5 DEF AreTrees
  <2> QED BY <2>1, <2>2
<1>8. Exist \in SUBSET Nat
  OBVIOUS
<1> HIDE DEF Exist
<1>9. \A n \in Nat : n \in Exist
  BY <1>7, <1>8, StrongInduction
<1>10. 2 * most + 1 \in Exist
  BY <1>5, <1>9
<1>11. PICK f : AreTrees(segs, CellsIn(segs), f)
  BY <1>6, <1>10 DEF Exist
<1> DEFINE g == [h \in SpotsIn(segs) |-> TreeIn(segs, h, f)]
<1>12. \A v \in CellsIn(segs) : f[v] = g[v]
  <2> TAKE v \in CellsIn(segs)
  <2>1. v \in SpotsIn(segs)
    BY DEF SpotsIn
  <2> QED BY <1>11, <2>1, Zenon DEF AreTrees
<1>13. ASSUME NEW h \in SpotsIn(segs)
       PROVE  TreeIn(segs, h, f) = TreeIn(segs, h, g)
  <2> HIDE DEF g
  <2> QED BY <1>4, <1>12
<1>14. g = [h \in SpotsIn(segs) |-> TreeIn(segs, h, g)]
  BY <1>13, Zenon
<1> QED BY <1>14, Zenon DEF AreTrees

(* They have one tree each.                                                *)
LEMMA TreesAreUnique ==
  ASSUME NEW segs, Sound(segs), InTree(segs), NEW f, NEW g,
         AreTrees(segs, SpotsIn(segs), f), AreTrees(segs, SpotsIn(segs), g)
  PROVE  f = g
<1>1. PICK most : Bounds(segs, most)
  BY SegmentsAreBounded
<1> DEFINE behind(h) == Behind(segs, most, h)
           Agree == {n \in Nat : \A h \in CellsIn(segs) : behind(h) = n => f[h] = g[h]}
<1>2. \A h \in CellsIn(segs) : behind(h) \in Nat /\ h \in SpotsIn(segs)
  BY <1>1, CellsBehind DEF SpotsIn
<1>3. \A h \in SpotsIn(segs) : f[h] = TreeIn(segs, h, f) /\ g[h] = TreeIn(segs, h, g)
  BY Zenon DEF AreTrees
<1>4. ASSUME NEW h \in SpotsIn(segs),
             \A v \in CellsIn(segs) : behind(v) < behind(h) => f[v] = g[v]
      PROVE  TreeIn(segs, h, f) = TreeIn(segs, h, g)
  BY <1>1, <1>4, TreesAreLocal
<1> HIDE DEF behind
<1>5. ASSUME NEW n \in Nat, \A m \in Nat : m < n => m \in Agree
      PROVE  n \in Agree
  <2> SUFFICES ASSUME NEW h \in CellsIn(segs), behind(h) = n
               PROVE  f[h] = g[h]
    OBVIOUS
  <2>1. \A v \in CellsIn(segs) : behind(v) < behind(h) => f[v] = g[v]
    BY <1>2, <1>5
  <2> QED BY <1>2, <1>3, <1>4, <2>1
<1>6. Agree \in SUBSET Nat
  OBVIOUS
<1> HIDE DEF Agree
<1>7. \A n \in Nat : n \in Agree
  BY <1>5, <1>6, StrongInduction
<1>8. \A v \in CellsIn(segs) : f[v] = g[v]
  BY <1>2, <1>7 DEF Agree
<1>9. \A h \in SpotsIn(segs) : f[h] = g[h]
  BY <1>3, <1>4, <1>8
<1>10. f = [h \in SpotsIn(segs) |-> f[h]] /\ g = [h \in SpotsIn(segs) |-> g[h]]
  <2>1. f = [h \in SpotsIn(segs) |-> TreeIn(segs, h, f)]
        /\ g = [h \in SpotsIn(segs) |-> TreeIn(segs, h, g)]
    BY DEF AreTrees
  <2> DEFINE F == [h \in SpotsIn(segs) |-> TreeIn(segs, h, f)]
             G == [h \in SpotsIn(segs) |-> TreeIn(segs, h, g)]
  <2>2. F = [h \in SpotsIn(segs) |-> F[h]] /\ G = [h \in SpotsIn(segs) |-> G[h]]
    OBVIOUS
  <2> QED BY <2>1, <2>2
<1> QED BY <1>9, <1>10

----------------------------------------------------------------------------
(* What a client sees of a document are its trees.                         *)

(* Following a handle.                                                     *)
LEMMA FollowedTargets ==
  ASSUME Sound(segments), NEW h \in Places
  PROVE  FollowHandle(h) = TargetOf(segments, h)
<1>1. PICK cells : segments \in Seq(Seq(cells))
  BY DEF Sound
<1>2. CASE HasCell(segments, h)
  <2>1. h \in Handles
    BY <1>1, <1>2, HandlesAreCells
  <2>2. FollowHandle(h) = IF Cell(h).tag = "handle" THEN Cell(h).value ELSE h
    BY <2>1, HandlesAreFollowed
  <2> QED BY <1>2, <2>2 DEF TargetOf, HasTag, Cell
<1>3. CASE ~HasCell(segments, h)
  <2>1. FollowHandle(h) = h
    BY <1>3, Zenon DEF FollowHandle, Readable
  <2> QED BY <1>3, <2>1 DEF TargetOf, HasTag
<1> QED BY <1>2, <1>3

(* The elements of a table that somebody holds.                            *)
LEMMA ElementsAreRead ==
  ASSUME Sound(segments), NEW t, HoldsIn(segments, t), NEW f
  PROVE  Elements(t, LAMBDA value : f[value]) = SliceIn(segments, t, f)
<1> DEFINE cellNo(k) == OffsetsOf(segments, t)[t.first + (k - 1)]
           A(k) == [key |-> KeyOf(t, OffsetAt(t, k - 1)),
                    value |-> f[ValueOf(t, OffsetAt(t, k - 1))]]
           B(k) == ElementIn(segments, Kind(t), t.segment_no, cellNo(k), f)
<1>1. ASSUME NEW k \in 1 .. t.count
      PROVE  A(k) = B(k)
  <2>1. /\ cellNo(k) \in Nat /\ t.segment_no \in Nat
        /\ IsElement(segments, Kind(t), <<t.segment_no, cellNo(k)>>)
    BY <1>1, HeldElements
  <2>2. OffsetAt(t, k - 1) = cellNo(k)
    BY DEF OffsetAt, TableCell, OffsetsOf, Cell
  <2> HIDE DEF cellNo
  <2>3. Kind(t) = "array" <=> t.type = "array"
    BY DEF Kind
  <2>4. PlaceOf(Kind(t), t.segment_no, cellNo(k)) \in Places
    BY <2>1 DEF PlaceOf, Places
  <2>5. ValueOf(t, cellNo(k)) = TargetOf(segments, PlaceOf(Kind(t), t.segment_no, cellNo(k)))
    <3>1. ValueOf(t, cellNo(k)) = FollowHandle(PlaceOf(Kind(t), t.segment_no, cellNo(k)))
      BY <2>3 DEF ValueOf, PlaceOf
    <3> QED BY <2>4, <3>1, FollowedTargets
  <2>6. KeyOf(t, cellNo(k)) = IF Kind(t) = "array" THEN <<>>
                              ELSE CellOf(segments, <<t.segment_no, cellNo(k)>>).token.data
    BY <2>3 DEF KeyOf, KeyAt, Cell
  <2> QED BY <2>2, <2>5, <2>6 DEF ElementIn
<1>2. Elements(t, LAMBDA value : f[value]) = [k \in 1 .. t.count |-> A(k)]
  BY Zenon DEF Elements
<1>3. SliceIn(segments, t, f) = [k \in 1 .. t.count |-> B(k)]
  BY Zenon DEF SliceIn
<1> HIDE DEF A, B
<1> QED BY <1>1, <1>2, <1>3

(* The table of a composite.                                               *)
LEMMA CompositesAreRead ==
  ASSUME Sound(segments), NEW h \in Places, HasTag(segments, h, {"array", "object"})
  PROVE  ReadComposite(h) = CompositeIn(segments, h)
<1> DEFINE cell == CellOf(segments, h)
<1>1. cell.tag \in {"array", "object"} /\ HasCell(segments, h)
  BY DEF HasTag
<1>2. CASE cell.count = 0
  BY <1>2 DEF ReadComposite, CompositeIn, Cell, EmptyTable
<1>3. CASE cell.count # 0
  <2>1. ReadComposite(h) = [EmptyTable(cell.tag, h[1]) EXCEPT !.table = cell.table,
                                                             !.count = cell.count]
    BY <1>3 DEF ReadComposite, PlainTable, Cell
  <2>2. [EmptyTable(cell.tag, h[1]) EXCEPT !.table = cell.table, !.count = cell.count]
          = [type |-> cell.tag, segment_no |-> h[1], table |-> cell.table,
             first |-> 1, count |-> cell.count]
    <3> DEFINE type == cell.tag
               n == h[1]
               table == cell.table
               count == cell.count
    <3>1. type \in {"array", "object", "sorted"}
      BY <1>1
    <3> HIDE DEF type, n, table, count
    <3>2. [EmptyTable(type, n) EXCEPT !.table = table, !.count = count]
            = [type |-> type, segment_no |-> n, table |-> table, first |-> 1, count |-> count]
      BY <3>1, FilledTables
    <3> QED BY <3>2 DEF type, n, table, count
  <2>3. CompositeIn(segments, h) = [type |-> cell.tag, segment_no |-> h[1], table |-> cell.table,
                                    first |-> 1, count |-> cell.count]
    BY <1>3 DEF CompositeIn
  <2> QED BY <2>1, <2>2, <2>3
<1> QED BY <1>2, <1>3

(* The tree of a value.                                                    *)
TreeStep(h, f) ==
  IF ValueType(h) = "error" THEN Missing
  ELSE <<ValueType(h),
         IF ValueType(h) \in {"array", "object"}
         THEN Elements(ReadComposite(h), LAMBDA value : f[value])
         ELSE ReadScalar(h)>>

(* It is read from the cells.                                              *)
LEMMA TreeStepIsRead ==
  ASSUME Sound(segments), NEW h \in Places, NEW f
  PROVE  TreeStep(h, f) = TreeIn(segments, h, f)
<1>1. CASE ~HasTag(segments, h, Values)
  <2>1. ValueType(h) = "error"
    BY <1>1, TypesOfValues
  <2> QED BY <1>1, <2>1 DEF TreeStep, TreeIn
<1>2. CASE HasTag(segments, h, {"leaf"})
  <2>1. HasCell(segments, h) /\ CellOf(segments, h).tag = "leaf" /\ HasTag(segments, h, Values)
    BY <1>2 DEF HasTag, Values
  <2>2. ValueType(h) = TypeOfLeaf(CellOf(segments, h).token) /\ ValueType(h) \in Scalars
    BY <2>1, CellsByTag DEF ValueType, Readable, Cell
  <2>3. ReadScalar(h) = ScalarOf(CellOf(segments, h).token)
    BY <2>2, Zenon DEF ReadScalar, ScalarOf, Cell
  <2>4. ValueType(h) # "error" /\ ValueType(h) \notin {"array", "object"}
    BY <2>2 DEF Scalars
  <2>5. TreeStep(h, f) = <<ValueType(h), ReadScalar(h)>>
    BY <2>4 DEF TreeStep
  <2> QED BY <2>1, <2>2, <2>3, <2>5 DEF TreeIn
<1>3. CASE HasTag(segments, h, {"array", "object"})
  <2>1. HasCell(segments, h) /\ CellOf(segments, h).tag \in {"array", "object"}
        /\ HasTag(segments, h, Values)
    BY <1>3 DEF HasTag, Values
  <2>2. ValueType(h) = CellOf(segments, h).tag
    BY <2>1 DEF ValueType, Readable, Cell
  <2>3. ReadComposite(h) = CompositeIn(segments, h)
    BY <1>3, CompositesAreRead
  <2>4. HoldsIn(segments, CompositeIn(segments, h))
    BY <1>3, <2>1, CompositesAreHeld DEF CellsIn
  <2>5. Elements(ReadComposite(h), LAMBDA value : f[value])
          = SliceIn(segments, CompositeIn(segments, h), f)
    BY <2>3, <2>4, ElementsAreRead
  <2>6. TreeStep(h, f)
          = <<ValueType(h), Elements(ReadComposite(h), LAMBDA value : f[value])>>
    BY <2>1, <2>2 DEF TreeStep
  <2> QED BY <2>1, <2>2, <2>5, <2>6 DEF TreeIn
<1> QED BY <1>1, <1>2, <1>3 DEF HasTag, Values

(* The trees of the document are what TreeAt is defined to be.              *)
LEMMA TreesAreRead ==
  ASSUME Sound(segments), InTree(segments)
  PROVE  AreTrees(segments, SpotsIn(segments), TreeAt)
<1> DEFINE S == Handles \cup {First, NotFound}
           Is(f) == f = [h \in S |-> TreeStep(h, f)]
<1>1. S = SpotsIn(segments) /\ \A h \in S : h \in Places
  <2>1. PICK cells : segments \in Seq(Seq(cells))
    BY DEF Sound
  <2>2. \A h : h \in Handles <=> h \in Places /\ HasCell(segments, h)
    BY <2>1, HandlesAreCells
  <2>3. First \in Places /\ NotFound \in Places
    BY DEF First, NotFound, Places
  <2> QED BY <2>2, <2>3 DEF SpotsIn, CellsIn
<1>2. TreeAt = CHOOSE f : Is(f)
  BY Zenon DEF TreeAt, TreeStep
<1>3. ASSUME NEW f  PROVE Is(f) <=> AreTrees(segments, SpotsIn(segments), f)
  <2>1. \A h \in S : TreeStep(h, f) = TreeIn(segments, h, f)
    BY <1>1, TreeStepIsRead
  <2>2. [h \in S |-> TreeStep(h, f)] = [h \in S |-> TreeIn(segments, h, f)]
    BY <2>1, Zenon
  <2> HIDE DEF S
  <2> QED BY <1>1, <2>2 DEF AreTrees
<1>4. \E f : Is(f)
  <2> HIDE DEF Is
  <2> QED BY <1>3, TreesExist
<1>5. Is(TreeAt)
  <2> HIDE DEF Is
  <2> QED BY <1>2, <1>4
<1> HIDE DEF Is
<1> QED BY <1>3, <1>5

----------------------------------------------------------------------------
(* Sorting an object changes no tree.                                      *)

(* A handle leads to the same value when some table is rearranged.          *)
LEMMA TargetsKept ==
  ASSUME NEW segs, NEW segs2, NEW c, NEW arranged, Rearranged(segs, segs2, c, arranged),
         NEW h \in Places
  PROVE  TargetOf(segs2, h) = TargetOf(segs, h)
<1>1. HasTag(segs2, h, {"handle"}) <=> HasTag(segs, h, {"handle"})
  BY TagsKept
<1>2. CASE HasTag(segs, h, {"handle"})
  <2>1. HasCell(segs, h) /\ CellOf(segs, h).tag = "handle"
    BY <1>2 DEF HasTag
  <2>2. CellOf(segs2, h) = CellOf(segs, h)
    BY <2>1, CellsKept
  <2> QED BY <1>1, <1>2, <2>2 DEF TargetOf
<1>3. CASE ~HasTag(segs, h, {"handle"})
  BY <1>1, <1>3 DEF TargetOf
<1> QED BY <1>2, <1>3

(* A table that is held has the same elements, unless it is the one.        *)
LEMMA SlicesKept ==
  ASSUME NEW segs, NEW segs2, NEW c, NEW arranged, Rearranged(segs, segs2, c, arranged),
         NEW t, HoldsIn(segs, t), t.count > 0 => <<t.segment_no, t.table>> # c, NEW f
  PROVE  SliceIn(segs2, t, f) = SliceIn(segs, t, f)
<1> DEFINE kind == Kind(t)
           n == t.segment_no
           A(k) == ElementIn(segs2, kind, n, OffsetsOf(segs2, t)[t.first + (k - 1)], f)
           B(k) == ElementIn(segs, kind, n, OffsetsOf(segs, t)[t.first + (k - 1)], f)
<1>1. ASSUME NEW k \in 1 .. t.count
      PROVE  A(k) = B(k)
  <2> DEFINE cellNo == OffsetsOf(segs, t)[t.first + (k - 1)]
  <2>1. Sound(segs)
    BY DEF Rearranged
  <2>2. /\ cellNo \in Nat /\ n \in Nat /\ IsElement(segs, kind, <<n, cellNo>>)
        /\ HasTag(segs, <<n, t.table>>, {"table"}) /\ t.table \in Nat /\ t.count > 0
    <3>1. t.table \in Nat /\ t.count \in Nat
      BY DEF HoldsIn, Tables
    <3>2. t.count > 0
      BY <3>1
    <3> QED BY <2>1, <3>1, <3>2, HeldElements
  <2>3. OffsetsOf(segs2, t) = OffsetsOf(segs, t)
    <3>1. <<n, t.table>> \in Places /\ HasCell(segs, <<n, t.table>>) /\ <<n, t.table>> # c
      BY <2>2 DEF Places, HasTag
    <3>2. CellOf(segs2, <<n, t.table>>) = CellOf(segs, <<n, t.table>>)
      BY <3>1 DEF Rearranged
    <3> QED BY <3>2 DEF OffsetsOf
  <2> HIDE DEF cellNo, kind, n
  <2>4. <<n, cellNo>> \in Places /\ PlaceOf(kind, n, cellNo) \in Places
    BY <2>2 DEF Places, PlaceOf
  <2>5. TargetOf(segs2, PlaceOf(kind, n, cellNo)) = TargetOf(segs, PlaceOf(kind, n, cellNo))
    BY <2>4, TargetsKept
  <2>6. kind # "array" => CellOf(segs2, <<n, cellNo>>) = CellOf(segs, <<n, cellNo>>)
    BY <2>2, <2>4, ElementsKept
  <2>7. ElementIn(segs2, kind, n, cellNo, f) = ElementIn(segs, kind, n, cellNo, f)
    BY <2>5, <2>6 DEF ElementIn
  <2> QED BY <2>3, <2>7 DEF cellNo
<1>2. SliceIn(segs2, t, f) = [k \in 1 .. t.count |-> A(k)]
  BY Zenon DEF SliceIn
<1>3. SliceIn(segs, t, f) = [k \in 1 .. t.count |-> B(k)]
  BY Zenon DEF SliceIn
<1> HIDE DEF A, B
<1> QED BY <1>1, <1>2, <1>3

(* Where values are is the same, too.                                      *)
LEMMA SpotsKept ==
  ASSUME NEW segs, NEW segs2, NEW c, NEW arranged, Rearranged(segs, segs2, c, arranged)
  PROVE  CellsIn(segs2) = CellsIn(segs) /\ SpotsIn(segs2) = SpotsIn(segs)
<1>1. \A h : HasCell(segs2, h) <=> HasCell(segs, h)
  BY DEF Rearranged
<1> QED BY <1>1, Zenon DEF CellsIn, SpotsIn

(* No table cell that a composite is read from.                            *)
NotRead(segs, c) ==
  \A h \in CellsIn(segs) :
    HasElements(CellOf(segs, h)) => <<h[1], CellOf(segs, h).table>> # c

(* The tree at a place is made of the same trees.                          *)
LEMMA TreeKept ==
  ASSUME NEW segs, NEW segs2, NEW c, NEW arranged, Rearranged(segs, segs2, c, arranged),
         NotRead(segs, c), NEW h \in SpotsIn(segs), NEW f
  PROVE  TreeIn(segs2, h, f) = TreeIn(segs, h, f)
<1>1. h \in Places
  BY DEF SpotsIn, CellsIn, First, NotFound, Places
<1>2. CASE ~HasTag(segs, h, Values)
  <2>1. ~HasTag(segs2, h, Values)
    BY <1>1, <1>2, TagsKept
  <2> QED BY <1>2, <2>1 DEF TreeIn
<1>3. CASE HasTag(segs, h, Values)
  <2>1. HasCell(segs, h) /\ CellOf(segs, h).tag \in Values /\ h \in CellsIn(segs)
    BY <1>1, <1>3 DEF HasTag, CellsIn
  <2>2. CellOf(segs2, h) = CellOf(segs, h) /\ HasTag(segs2, h, Values)
    <3>1. CellOf(segs, h).tag # "table"
      BY <2>1 DEF Values
    <3> QED BY <1>1, <1>3, <2>1, <3>1, CellsKept, TagsKept
  <2>3. CASE CellOf(segs, h).tag = "leaf"
    BY <1>3, <2>2, <2>3 DEF TreeIn
  <2>4. CASE CellOf(segs, h).tag # "leaf"
    <3> DEFINE t == CompositeIn(segs, h)
    <3>1. HasTag(segs, h, {"array", "object"}) /\ CellOf(segs, h).tag \in {"array", "object"}
      BY <2>1, <2>4 DEF HasTag, Values
    <3>2. Sound(segs)
      BY DEF Rearranged
    <3>3. /\ HoldsIn(segs, t) /\ t.segment_no = h[1] /\ t.count = CellOf(segs, h).count
          /\ t.count > 0 => t.table = CellOf(segs, h).table
      BY <2>1, <3>1, <3>2, CompositesAreHeld
    <3>4. CompositeIn(segs2, h) = t
      BY <2>2 DEF CompositeIn
    <3> HIDE DEF t
    <3>5. t.count > 0 => <<t.segment_no, t.table>> # c
      BY <2>1, <3>1, <3>3 DEF NotRead, HasElements
    <3>6. SliceIn(segs2, t, f) = SliceIn(segs, t, f)
      BY <3>3, <3>5, SlicesKept
    <3> QED BY <1>3, <2>2, <2>4, <3>4, <3>6 DEF TreeIn, t
  <2> QED BY <2>3, <2>4
<1> QED BY <1>2, <1>3

(* A document stays a tree.                                                *)
LEMMA InTreeKept ==
  ASSUME NEW segs, NEW segs2, NEW c, NEW arranged, Rearranged(segs, segs2, c, arranged),
         NotRead(segs, c), InTree(segs)
  PROVE  InTree(segs2)
<1>1. CellsIn(segs2) = CellsIn(segs) /\ Sound(segs)
  BY SpotsKept DEF Rearranged
<1>2. ASSUME NEW h \in CellsIn(segs)
      PROVE  /\ CellOf(segs2, h).tag = CellOf(segs, h).tag
             /\ HasElements(CellOf(segs2, h)) => HasElements(CellOf(segs, h))
             /\ CellOf(segs, h).tag # "table" => CellOf(segs2, h) = CellOf(segs, h)
  <2>1. h \in Places /\ HasCell(segs, h)
    BY DEF CellsIn
  <2>2. /\ CellOf(segs2, h).tag = CellOf(segs, h).tag
        /\ CellOf(segs, h).tag # "table" => CellOf(segs2, h) = CellOf(segs, h)
    BY <2>1, CellsKept
  <2> QED BY <2>2 DEF HasElements
<1>3. ASSUME NEW h \in CellsIn(segs)
      PROVE  IsInTree(segs2, h)
  <2> DEFINE cell == CellOf(segs, h)
             row == DOMAIN segs[h[1] + 1] \ {h[2] + 1}
  <2>1. IsInTree(segs, h)
    BY DEF InTree
  <2>2. h \in Places /\ HasCell(segs, h) /\ h[1] \in Nat /\ h[2] \in Nat
    BY DEF CellsIn, Places
  <2>3. CASE cell.tag = "table"
    <3>1. CellOf(segs2, h).tag = "table"
      BY <1>2, <2>3
    <3> QED BY <3>1 DEF IsInTree, HasElements
  <2>4. CASE cell.tag # "table"
    <3>1. CellOf(segs2, h) = cell
      BY <1>2, <2>4
    <3>2. cell.tag = "handle" => h[1] = 0 /\ cell.value[1] # 0
      BY <2>1 DEF IsInTree
    <3>3. ASSUME HasElements(cell)
          PROVE  \A k \in 1 .. cell.count :
                   h[2] < CellOf(segs2, <<h[1], cell.table>>).offsets[k]
      <4>1. cell.table \in Nat /\ IsTableOf(segs, cell.tag, <<h[1], cell.table>>, cell.count)
        BY <1>1, <2>2, <3>3, CellsByTag DEF HasElements
      <4>2. <<h[1], cell.table>> \in Places /\ HasCell(segs, <<h[1], cell.table>>)
        BY <2>2, <4>1 DEF Places, IsTableOf, HasTag
      <4>3. <<h[1], cell.table>> # c
        BY <3>3 DEF NotRead
      <4>4. CellOf(segs2, <<h[1], cell.table>>) = CellOf(segs, <<h[1], cell.table>>)
        BY <4>2, <4>3 DEF Rearranged
      <4> QED BY <2>1, <3>3, <4>4 DEF IsInTree
    <3>4. ASSUME HasElements(cell), NEW o \in DOMAIN segs2[h[1] + 1] \ {h[2] + 1},
                 HasElements(CellOf(segs2, <<h[1], o - 1>>))
          PROVE  TablesOf(cell) \cap TablesOf(CellOf(segs2, <<h[1], o - 1>>)) = {}
      <4> DEFINE v == <<h[1], o - 1>>
      <4>1. o \in row /\ h[1] + 1 \in DOMAIN segs
        BY <2>2 DEF Rearranged, HasCell
      <4>2. o \in Nat \ {0}
        BY <1>1, <4>1 DEF Sound
      <4>3. v \in CellsIn(segs)
        <5>1. v \in Places /\ v[1] = h[1] /\ v[2] + 1 = o
          BY <2>2, <4>2 DEF Places
        <5> QED BY <4>1, <5>1 DEF CellsIn, HasCell
      <4> HIDE DEF v, row
      <4>4. HasElements(CellOf(segs, v)) /\ CellOf(segs, v).tag # "table"
        BY <1>2, <3>4, <4>3 DEF v, HasElements
      <4>5. CellOf(segs2, v) = CellOf(segs, v)
        BY <1>2, <4>3, <4>4
      <4>6. TablesOf(cell) \cap TablesOf(CellOf(segs, v)) = {}
        BY <2>1, <3>4, <4>1, <4>4, Zenon DEF IsInTree, v, row
      <4> QED BY <4>5, <4>6 DEF v
    <3> HIDE DEF cell
    <3> QED BY <3>1, <3>2, <3>3, <3>4, Zenon DEF IsInTree
  <2> QED BY <2>3, <2>4
<1>4. Len(segs2) = Len(segs)
  <2>1. PICK cells : segs \in Seq(Seq(cells))
    BY <1>1 DEF Sound
  <2>2. PICK cells2 : segs2 \in Seq(Seq(cells2))
    BY DEF Rearranged
  <2>3. DOMAIN segs = 1 .. Len(segs) /\ DOMAIN segs2 = 1 .. Len(segs2)
        /\ Len(segs) \in Nat /\ Len(segs2) \in Nat
    BY <2>1, <2>2
  <2>4. DOMAIN segs2 = DOMAIN segs
    BY DEF Rearranged
  <2>5. \A k \in Nat : k \in 1 .. Len(segs2) <=> k \in 1 .. Len(segs)
    BY <2>3, <2>4
  <2> HIDE <2>1, <2>2, <2>3, <2>4
  <2>6. \A m, n \in Nat : (\A k \in Nat : k \in 1 .. m <=> k \in 1 .. n) => m = n
    <3>1. \A m, n \in Nat : n < m => ~(m \in 1 .. n) /\ m \in 1 .. m
      OBVIOUS
    <3>2. \A m, n \in Nat : m = n \/ n < m \/ m < n
      OBVIOUS
    <3> QED BY <3>1, <3>2
  <2> QED BY <2>3, <2>5, <2>6
<1> QED BY <1>1, <1>3, <1>4 DEF InTree

----------------------------------------------------------------------------
(* Sorting changes the second table of one object, and no tree is read from *)
(* second tables: what the client sees of the document does not change.    *)

IsObject(segs, h) == HasElements(CellOf(segs, h)) /\ CellOf(segs, h).tag = "object"

FirstTable(segs, h)  == <<h[1], CellOf(segs, h).table>>
SecondTable(segs, h) == <<h[1], CellOf(segs, h).table + 1>>

(* The tables of composites that are not empty are cells.                  *)
LEMMA CompositesHaveTables ==
  ASSUME NEW segs, Sound(segs), NEW h \in CellsIn(segs), HasElements(CellOf(segs, h))
  PROVE  /\ h[1] \in Nat /\ CellOf(segs, h).table \in Nat
         /\ FirstTable(segs, h) \in Places /\ HasTag(segs, FirstTable(segs, h), {"table"})
         /\ IsObject(segs, h) =>
              /\ SecondTable(segs, h) \in Places
              /\ HasTag(segs, SecondTable(segs, h), {"table"})
<1> DEFINE cell == CellOf(segs, h)
<1>1. h \in Places /\ HasCell(segs, h) /\ h[1] \in Nat
  BY DEF CellsIn, Places
<1>2. cell.table \in Nat /\ IsTableOf(segs, cell.tag, <<h[1], cell.table>>, cell.count)
  BY <1>1, CellsByTag DEF HasElements
<1>3. cell.tag = "object" => IsTableOf(segs, cell.tag, <<h[1], cell.table + 1>>, cell.count)
  BY <1>1, CellsByTag DEF HasElements
<1>4. <<h[1], cell.table>> \in Places /\ <<h[1], cell.table + 1>> \in Places
  BY <1>1, <1>2 DEF Places
<1> QED BY <1>1, <1>2, <1>3, <1>4 DEF IsTableOf, IsObject, FirstTable, SecondTable

(* Two composites share no table.                                          *)
LEMMA TablesAreApart ==
  ASSUME NEW segs, Sound(segs), InTree(segs), NEW g \in CellsIn(segs), NEW h \in CellsIn(segs),
         HasElements(CellOf(segs, g)), IsObject(segs, h)
  PROVE  /\ FirstTable(segs, g) # SecondTable(segs, h)
         /\ IsObject(segs, g) /\ g # h => SecondTable(segs, g) # SecondTable(segs, h)
<1> DEFINE one == CellOf(segs, g)
           two == CellOf(segs, h)
<1>1. /\ g \in Places /\ h \in Places /\ HasCell(segs, g) /\ HasCell(segs, h)
      /\ g[1] \in Nat /\ h[1] \in Nat /\ g[2] \in Nat /\ h[2] \in Nat
  BY DEF CellsIn, Places
<1>2. one.table \in Nat /\ two.table \in Nat
  BY CompositesHaveTables DEF IsObject
<1>3. CASE g = h
  BY <1>2, <1>3 DEF FirstTable, SecondTable
<1>4. CASE g[1] # h[1]
  BY <1>4 DEF FirstTable, SecondTable
<1>5. CASE g[1] = h[1] /\ g # h
  <2> DEFINE row == DOMAIN segs[h[1] + 1] \ {h[2] + 1}
  <2>1. g[2] # h[2]
    BY <1>1, <1>5 DEF Places
  <2>2. g[2] + 1 \in row
    BY <1>1, <1>5, <2>1 DEF HasCell
  <2>3. <<h[1], (g[2] + 1) - 1>> = g
    BY <1>1, <1>5 DEF Places
  <2>4. IsInTree(segs, h) /\ HasElements(two)
    BY DEF InTree, IsObject
  <2> HIDE DEF row
  <2>5. \A o \in row : HasElements(CellOf(segs, <<h[1], o - 1>>)) =>
          TablesOf(two) \cap TablesOf(CellOf(segs, <<h[1], o - 1>>)) = {}
    BY <2>4 DEF IsInTree, row
  <2>6. TablesOf(two) \cap TablesOf(one) = {}
    <3>1. HasElements(CellOf(segs, <<h[1], (g[2] + 1) - 1>>)) =>
            TablesOf(two) \cap TablesOf(CellOf(segs, <<h[1], (g[2] + 1) - 1>>)) = {}
      BY <2>2, <2>5, Zenon
    <3> QED BY <2>3, <3>1
  <2>7. two.table + 1 \in TablesOf(two) /\ one.table \in TablesOf(one)
        /\ (IsObject(segs, g) => one.table + 1 \in TablesOf(one))
    BY DEF IsObject, TablesOf
  <2> QED BY <2>6, <2>7 DEF FirstTable, SecondTable
<1> QED BY <1>3, <1>4, <1>5

(* No tree is read from the second table of an object.                     *)
LEMMA SecondTablesAreNotRead ==
  ASSUME NEW segs, Sound(segs), InTree(segs), NEW h \in CellsIn(segs), IsObject(segs, h)
  PROVE  NotRead(segs, SecondTable(segs, h))
  BY TablesAreApart DEF NotRead, FirstTable

----------------------------------------------------------------------------

(* Of a sequence arranged twice the last is an arrangement of the first.    *)
LEMMA ShufflesCompose ==
  ASSUME NEW a, NEW b, NEW c, Len(c) \in Nat, Shuffled(a, b), Shuffled(b, c)
  PROVE  Shuffled(a, c)
<1>1. Len(a) = Len(c) /\ Len(b) = Len(c)
  BY DEF Shuffled
<1>2. PICK p : Moves(p, 1 .. Len(b), 1 .. Len(a), a, b)
  BY DEF Shuffled
<1>3. PICK q : Moves(q, 1 .. Len(c), 1 .. Len(b), b, c)
  BY DEF Shuffled
<1> DEFINE S == 1 .. Len(c)
           r == [i \in S |-> p[q[i]]]
<1>4. /\ p \in [S -> S] /\ q \in [S -> S]
      /\ \A i, j \in S : p[i] = p[j] => i = j
      /\ \A i, j \in S : q[i] = q[j] => i = j
      /\ \A i \in S : a[p[i]] = b[i]
      /\ \A i \in S : b[q[i]] = c[i]
  BY <1>1, <1>2, <1>3 DEF Moves
<1> HIDE DEF S
<1>5. Moves(r, S, S, a, c)
  BY <1>4, Zenon DEF Moves
<1> QED BY <1>1, <1>5 DEF Shuffled, S

(* The second table of an object that is not empty is the first one in some *)
(* order.                                                                  *)
ShuffledIn(segs) ==
  \A h \in CellsIn(segs) : IsObject(segs, h) =>
    Shuffled(CellOf(segs, SecondTable(segs, h)).offsets,
             CellOf(segs, FirstTable(segs, h)).offsets)

(* It is so in every document that a parser has finished, which is a tree.  *)
LEMMA ParsedAreTrees ==
  ASSUME NEW segs, IsDocument(segs)
  PROVE  Sound(segs) /\ InTree(segs) /\ ShuffledIn(segs)
<1>1. Sound(segs) /\ Len(segs) <= NotFound[1]
  BY Zenon DEF IsDocument, Sound
<1>2. ASSUME NEW h \in CellsIn(segs)
      PROVE  IsInTree(segs, h) /\ IsCopied(segs, h)
  <2>1. h \in Places /\ h[1] + 1 \in DOMAIN segs /\ h[2] + 1 \in DOMAIN segs[h[1] + 1]
    BY DEF CellsIn, HasCell
  <2>2. <<(h[1] + 1) - 1, (h[2] + 1) - 1>> = h
    BY <2>1 DEF Places
  <2>3. /\ IsInTree(segs, <<(h[1] + 1) - 1, (h[2] + 1) - 1>>)
        /\ IsCopied(segs, <<(h[1] + 1) - 1, (h[2] + 1) - 1>>)
    BY <2>1, Zenon DEF IsDocument
  <2> QED BY <2>2, <2>3
<1>3. ASSUME NEW h \in CellsIn(segs), IsObject(segs, h)
      PROVE  Shuffled(CellOf(segs, SecondTable(segs, h)).offsets,
                      CellOf(segs, FirstTable(segs, h)).offsets)
  <2> DEFINE s == CellOf(segs, FirstTable(segs, h)).offsets
             S == 1 .. Len(s)
             q == [i \in S |-> i]
  <2>1. CellOf(segs, SecondTable(segs, h)).offsets = s
    BY <1>2, <1>3 DEF IsCopied, IsObject, FirstTable, SecondTable
  <2> HIDE DEF s, S
  <2>2. Moves(q, S, S, s, s)
    BY DEF Moves
  <2>3. Shuffled(s, s)
    BY <2>2 DEF Shuffled, S
  <2> QED BY <2>1, <2>3 DEF s
<1> QED BY <1>1, <1>2, <1>3 DEF InTree, ShuffledIn

(* It stays so when the second table of an object is sorted.               *)
LEMMA ShuffledKept ==
  ASSUME NEW segs, NEW segs2, NEW c, NEW arranged, Rearranged(segs, segs2, c, arranged),
         InTree(segs), ShuffledIn(segs), NEW h \in CellsIn(segs), IsObject(segs, h),
         c = SecondTable(segs, h), Shuffled(arranged, CellOf(segs, c).offsets)
  PROVE  ShuffledIn(segs2)
<1>1. Sound(segs)
  BY DEF Rearranged
<1>2. CellsIn(segs2) = CellsIn(segs)
  BY SpotsKept
<1>3. ASSUME NEW g \in CellsIn(segs), IsObject(segs2, g)
      PROVE  Shuffled(CellOf(segs2, SecondTable(segs2, g)).offsets,
                      CellOf(segs2, FirstTable(segs2, g)).offsets)
  <2> DEFINE first  == FirstTable(segs, g)
             second == SecondTable(segs, g)
  <2>1. g \in Places /\ HasCell(segs, g)
    BY DEF CellsIn
  <2>2. CellOf(segs2, g) = CellOf(segs, g)
    <3>1. CellOf(segs2, g).tag = "object"
      BY <1>3 DEF IsObject
    <3> QED BY <2>1, <3>1, CellsKept
  <2>3. IsObject(segs, g) /\ FirstTable(segs2, g) = first /\ SecondTable(segs2, g) = second
    BY <1>3, <2>2 DEF IsObject, FirstTable, SecondTable
  <2>4. HasElements(CellOf(segs, g))
    BY <2>3 DEF IsObject
  <2>5. /\ first \in Places /\ HasTag(segs, first, {"table"})
        /\ second \in Places /\ HasTag(segs, second, {"table"})
    BY <1>1, <2>3, <2>4, CompositesHaveTables
  <2>6. first # c
    BY <1>1, <2>4, TablesAreApart
  <2>7. Shuffled(CellOf(segs, second).offsets, CellOf(segs, first).offsets)
    BY <2>3 DEF ShuffledIn
  <2> HIDE DEF first, second
  <2>8. CellOf(segs2, first) = CellOf(segs, first)
    BY <2>5, <2>6 DEF Rearranged, HasTag
  <2>9. CASE g = h
    <3>1. second = c
      BY <2>9 DEF second
    <3>2. CellOf(segs2, c).offsets = arranged
      BY <2>5, <3>1 DEF Rearranged, HasTag, P!Table
    <3>3. Len(CellOf(segs, first).offsets) \in Nat
      BY <1>1, <2>5, OffsetsKept
    <3>4. Shuffled(arranged, CellOf(segs, first).offsets)
      BY <2>7, <3>1, <3>3, ShufflesCompose
    <3> QED BY <2>3, <2>8, <3>1, <3>2, <3>4
  <2>10. CASE g # h
    <3>1. second # c
      BY <1>1, <2>3, <2>4, <2>10, TablesAreApart DEF second
    <3>2. CellOf(segs2, second) = CellOf(segs, second)
      BY <2>5, <3>1 DEF Rearranged, HasTag
    <3> QED BY <2>3, <2>7, <2>8, <3>2
  <2> QED BY <2>9, <2>10
<1> QED BY <1>2, <1>3 DEF ShuffledIn

(* A table that is held is that of a header, the second one only if the     *)
(* object at it was sorted.                                                *)
Belongs(segs, S, t) ==
  t.count > 0 =>
    \E h \in CellsIn(segs) :
      /\ HasElements(CellOf(segs, h))
      /\ \/ t.type # "sorted" /\ <<t.segment_no, t.table>> = FirstTable(segs, h)
         \/ IsObject(segs, h) /\ h \in S /\ <<t.segment_no, t.table>> = SecondTable(segs, h)

(* It is no second table of an object that was not.                         *)
LEMMA TablesOfOthers ==
  ASSUME NEW segs, Sound(segs), InTree(segs), NEW S, NEW t, Belongs(segs, S, t), t.count > 0,
         NEW h \in CellsIn(segs), IsObject(segs, h), h \notin S
  PROVE  <<t.segment_no, t.table>> # SecondTable(segs, h)
  BY TablesAreApart DEF Belongs

(* It stays one when a table cell is arranged anew.                         *)
LEMMA BelongsKept ==
  ASSUME NEW segs, NEW segs2, NEW c, NEW arranged, Rearranged(segs, segs2, c, arranged),
         NEW S, NEW S2, S \subseteq S2, NEW t, Belongs(segs, S, t)
  PROVE  Belongs(segs2, S2, t)
<1> SUFFICES ASSUME t.count > 0
             PROVE  \E h \in CellsIn(segs2) :
                      /\ HasElements(CellOf(segs2, h))
                      /\ \/ /\ t.type # "sorted"
                            /\ <<t.segment_no, t.table>> = FirstTable(segs2, h)
                         \/ /\ IsObject(segs2, h) /\ h \in S2
                            /\ <<t.segment_no, t.table>> = SecondTable(segs2, h)
  BY DEF Belongs
<1>1. PICK h \in CellsIn(segs) :
        /\ HasElements(CellOf(segs, h))
        /\ \/ t.type # "sorted" /\ <<t.segment_no, t.table>> = FirstTable(segs, h)
           \/ IsObject(segs, h) /\ h \in S /\ <<t.segment_no, t.table>> = SecondTable(segs, h)
  BY DEF Belongs
<1>2. h \in CellsIn(segs2) /\ h \in Places /\ HasCell(segs, h)
  BY SpotsKept DEF CellsIn
<1>3. CellOf(segs2, h) = CellOf(segs, h)
  BY <1>1, <1>2, CellsKept DEF HasElements
<1>4. /\ HasElements(CellOf(segs2, h)) /\ (IsObject(segs, h) => IsObject(segs2, h))
      /\ FirstTable(segs2, h) = FirstTable(segs, h)
      /\ SecondTable(segs2, h) = SecondTable(segs, h)
  BY <1>1, <1>3 DEF IsObject, FirstTable, SecondTable
<1> QED BY <1>1, <1>2, <1>4

(* What sorting leaves as it was: the trees of all values, and the elements *)
(* of every table that somebody holds.                                     *)
SameTrees(segs, segs2, S) ==
  /\ CellsIn(segs2) = CellsIn(segs) /\ SpotsIn(segs2) = SpotsIn(segs)
  /\ \A h \in Places : TargetOf(segs2, h) = TargetOf(segs, h)
  /\ \A h \in SpotsIn(segs) : \A f : TreeIn(segs2, h, f) = TreeIn(segs, h, f)
  /\ \A t : HoldsIn(segs, t) /\ Belongs(segs, S, t) =>
       \A f : SliceIn(segs2, t, f) = SliceIn(segs, t, f)

(* As it was without sorting.                                              *)
LEMMA NothingSorted ==
  ASSUME NEW segs, NEW S
  PROVE  SameTrees(segs, segs, S)
  BY DEF SameTrees

(* A tree, in which the second tables are shuffled, is no other tree after  *)
(* one of them is sorted that nobody holds.                                *)
TreeShaped(segs) == InTree(segs) /\ ShuffledIn(segs)

(* Sorting the second table of an object, which nobody holds sorted yet,   *)
(* leaves the tree shape of the document, all the trees that are read from *)
(* it, and whose elements the tables in hand are.                          *)
LEMMA SortingKeepsTrees ==
  ASSUME NEW segs, NEW segs2, NEW c, NEW arranged, Rearranged(segs, segs2, c, arranged),
         TreeShaped(segs), NEW h \in CellsIn(segs), IsObject(segs, h),
         c = SecondTable(segs, h), Shuffled(arranged, CellOf(segs, c).offsets),
         NEW S, h \notin S
  PROVE  /\ TreeShaped(segs2) /\ SameTrees(segs, segs2, S)
         /\ \A t : Belongs(segs, S, t) => Belongs(segs2, S \cup {h}, t)
         /\ \A t : Belongs(segs, S \cup {h}, t) => Belongs(segs2, S \cup {h}, t)
<1>1. Sound(segs) /\ InTree(segs) /\ ShuffledIn(segs)
  BY DEF Rearranged, TreeShaped
<1>2. NotRead(segs, c)
  BY <1>1, SecondTablesAreNotRead
<1>3. TreeShaped(segs2)
  <2>1. InTree(segs2)
    BY <1>1, <1>2, InTreeKept
  <2>2. ShuffledIn(segs2)
    BY <1>1, ShuffledKept
  <2> QED BY <2>1, <2>2 DEF TreeShaped
<1>4. CellsIn(segs2) = CellsIn(segs) /\ SpotsIn(segs2) = SpotsIn(segs)
  BY SpotsKept
<1>5. \A g \in Places : TargetOf(segs2, g) = TargetOf(segs, g)
  BY TargetsKept
<1>6. \A g \in SpotsIn(segs) : \A f : TreeIn(segs2, g, f) = TreeIn(segs, g, f)
  BY <1>2, TreeKept
<1>7. ASSUME NEW t, HoldsIn(segs, t), Belongs(segs, S, t), NEW f
      PROVE  SliceIn(segs2, t, f) = SliceIn(segs, t, f)
  <2>1. t.count > 0 => <<t.segment_no, t.table>> # c
    BY <1>1, <1>7, TablesOfOthers
  <2> QED BY <1>7, <2>1, SlicesKept
<1>8. ASSUME NEW t, Belongs(segs, S, t) PROVE Belongs(segs2, S \cup {h}, t)
  BY <1>8, BelongsKept
<1>9. ASSUME NEW t, Belongs(segs, S \cup {h}, t) PROVE Belongs(segs2, S \cup {h}, t)
  BY <1>9, BelongsKept
<1> QED BY <1>3, <1>4, <1>5, <1>6, <1>7, <1>8, <1>9 DEF SameTrees

(* So thsn_document_read_object_sorted changes nothing that anybody sees.   *)
LEMMA SortKeepsTrees ==
  ASSUME Sound(segments), TreeShaped(segments), NEW h \in Places, Sort(h)
  PROVE  /\ TreeShaped(segments') /\ SameTrees(segments, segments', sorted)
         /\ \A t : Belongs(segments, sorted, t) => Belongs(segments', sorted', t)
         /\ \A t : Belongs(segments, sorted', t) => Belongs(segments', sorted', t)
         /\ h \in CellsIn(segments) /\ HasTag(segments, h, {"object"})
         /\ Cell(h).count > 0 => h \in sorted'
<1>1. HasTag(segments, h, {"object"}) /\ HasCell(segments, h) /\ h \in CellsIn(segments)
  <2>1. ValueType(h) = "object"
    BY DEF Sort
  <2> QED BY <2>1, TypesOfValues DEF HasTag, CellsIn
<1>2. /\ ReadSorted(h).count = Cell(h).count /\ Cell(h).count \in Nat
      /\ ReadSorted(h).count > 0 => ReadSorted(h).table = Cell(h).table + 1
  BY <1>1, SecondTables
<1>3. CASE ReadSorted(h).count = 0 \/ h \in sorted
  <2>1. segments' = segments /\ sorted' = sorted
    BY <1>3 DEF Sort
  <2>2. SameTrees(segments, segments, sorted)
    BY NothingSorted
  <2> QED BY <1>1, <1>2, <1>3, <2>1, <2>2
<1>4. CASE ~(ReadSorted(h).count = 0 \/ h \in sorted)
  <2>1. PICK arranged \in Sortings(h[1], TableCell(ReadSorted(h)).offsets) :
          segments' = [segments EXCEPT ![h[1] + 1][ReadSorted(h).table + 1].offsets = arranged]
    BY <1>4 DEF Sort
  <2>2. sorted' = sorted \cup {h}
    BY <1>4 DEF Sort
  <2> DEFINE c == <<h[1], ReadSorted(h).table>>
  <2>3. /\ Rearranged(segments, segments', c, arranged)
        /\ Shuffled(arranged, CellOf(segments, c).offsets)
    BY <1>1, <1>4, <2>1, SortingArranges
  <2>4. IsObject(segments, h) /\ c = SecondTable(segments, h)
    BY <1>1, <1>2, <1>4 DEF IsObject, HasElements, HasTag, SecondTable, Cell
  <2> HIDE DEF c
  <2>5. h \notin sorted
    BY <1>4
  <2> HIDE <2>1
  <2>6. /\ TreeShaped(segments') /\ SameTrees(segments, segments', sorted)
        /\ \A t : Belongs(segments, sorted, t) => Belongs(segments', sorted \cup {h}, t)
        /\ \A t : Belongs(segments, sorted \cup {h}, t)
                    => Belongs(segments', sorted \cup {h}, t)
    BY <1>1, <2>3, <2>4, <2>5, SortingKeepsTrees
  <2> QED BY <1>1, <2>2, <2>6
<1> QED BY <1>3, <1>4

----------------------------------------------------------------------------
(* The elements of the tables that the client reads.                       *)

EntryIn(segs, t, f, k) ==
  ElementIn(segs, Kind(t), t.segment_no, OffsetsOf(segs, t)[t.first + (k - 1)], f)

(* They are a sequence, of as many elements as the table counts.            *)
LEMMA SlicesAreSequences ==
  ASSUME NEW segs, NEW t \in Tables, NEW f
  PROVE  /\ \E T : SliceIn(segs, t, f) \in Seq(T)
         /\ Len(SliceIn(segs, t, f)) = t.count /\ DOMAIN SliceIn(segs, t, f) = 1 .. t.count
         /\ \A k \in 1 .. t.count : SliceIn(segs, t, f)[k] = EntryIn(segs, t, f, k)
<1> DEFINE e(k) == EntryIn(segs, t, f, k)
           n == t.count
           T == {e(k) : k \in 1 .. n}
           s == [k \in 1 .. n |-> e(k)]
<1>1. SliceIn(segs, t, f) = s
  BY Zenon DEF SliceIn, EntryIn
<1>2. n \in Nat
  BY DEF Tables
<1> HIDE DEF e, n
<1>3. s \in Seq(T) /\ Len(s) = n /\ DOMAIN s = 1 .. n /\ \A k \in 1 .. n : s[k] = e(k)
  BY <1>2
<1> HIDE DEF s, T
<1> QED BY <1>1, <1>3 DEF e, n

(* The table of what is left of a table.                                   *)
LEMMA RestOfTable ==
  ASSUME NEW t \in Tables, t.count > 0
  PROVE  LET u == Rest(t)
         IN  /\ u \in Tables /\ u.count = t.count - 1 /\ u.first = t.first + 1
             /\ u.type = t.type /\ u.segment_no = t.segment_no /\ u.table = t.table
<1> DEFINE u == [t EXCEPT !.first = t.first + 1]
<1>1. u = [type |-> t.type, segment_no |-> t.segment_no, table |-> t.table,
           first |-> t.first + 1, count |-> t.count]
  BY DEF Tables
<1>2. Rest(t) = [u EXCEPT !.count = t.count - 1]
  BY DEF Rest, AtOffset, Tables
<1> HIDE DEF u
<1>3. Rest(t) = [type |-> t.type, segment_no |-> t.segment_no, table |-> t.table,
                 first |-> t.first + 1, count |-> t.count - 1]
  BY <1>1, <1>2
<1>4. t.first + 1 \in Nat \ {0} /\ t.count - 1 \in Nat
  BY DEF Tables
<1>5. Rest(t) \in Tables
  BY <1>3, <1>4 DEF Tables
<1> QED BY <1>3, <1>5

(* All elements but the first are left when that is consumed.               *)
LEMMA RestsOfSlices ==
  ASSUME NEW segs, NEW t \in Tables, t.count > 0, NEW f
  PROVE  /\ SliceIn(segs, t, f) # <<>>
         /\ Head(SliceIn(segs, t, f)) = SliceIn(segs, t, f)[1]
         /\ SliceIn(segs, Rest(t), f) = Tail(SliceIn(segs, t, f))
<1> DEFINE s == SliceIn(segs, t, f)
           u == Rest(t)
           r == SliceIn(segs, u, f)
<1>1. /\ u \in Tables /\ u.count = t.count - 1 /\ u.first = t.first + 1
      /\ u.type = t.type /\ u.segment_no = t.segment_no /\ u.table = t.table
      /\ t.count \in Nat \ {0} /\ t.first \in Nat
  BY RestOfTable DEF Tables
<1>2. \A k \in 1 .. u.count : EntryIn(segs, u, f, k) = EntryIn(segs, t, f, k + 1)
  <2> SUFFICES ASSUME NEW k \in 1 .. u.count
               PROVE  EntryIn(segs, u, f, k) = EntryIn(segs, t, f, k + 1)
    OBVIOUS
  <2>1. u.first + (k - 1) = t.first + ((k + 1) - 1)
    BY <1>1
  <2>2. Kind(u) = Kind(t) /\ OffsetsOf(segs, u) = OffsetsOf(segs, t)
    BY <1>1 DEF Kind, OffsetsOf
  <2> HIDE DEF u
  <2> QED BY <1>1, <2>1, <2>2 DEF EntryIn
<1> HIDE DEF u
<1>3. PICK T : s \in Seq(T)
  BY SlicesAreSequences
<1>4. Len(s) = t.count /\ \A k \in 1 .. t.count : s[k] = EntryIn(segs, t, f, k)
  BY SlicesAreSequences
<1>5. PICK T2 : r \in Seq(T2)
  BY <1>1, SlicesAreSequences
<1>6. Len(r) = u.count /\ \A k \in 1 .. u.count : r[k] = EntryIn(segs, u, f, k)
  BY <1>1, SlicesAreSequences
<1> HIDE DEF s, r
<1>7. s # <<>> /\ Head(s) = s[1]
  BY <1>1, <1>3, <1>4
<1>8. Tail(s) \in Seq(T) /\ Len(Tail(s)) = t.count - 1
      /\ \A k \in 1 .. t.count - 1 : Tail(s)[k] = s[k + 1]
  BY <1>1, <1>3, <1>4
<1>9. \A k \in 1 .. Len(r) : r[k] = Tail(s)[k]
  BY <1>1, <1>2, <1>4, <1>6, <1>8
<1>10. r = Tail(s)
  BY <1>1, <1>5, <1>6, <1>8, <1>9
<1> QED BY <1>7, <1>10 DEF s, r, u

(* An element that the client reads by its offset.                         *)
LEMMA EntriesAreRead ==
  ASSUME Sound(segments), NEW t, HoldsIn(segments, t), NEW k \in 0 .. t.count - 1, NEW f
  PROVE  LET g == ValueOf(t, OffsetAt(t, k))
         IN  /\ k + 1 \in 1 .. t.count
             /\ SliceIn(segments, t, f)[k + 1] = [key |-> KeyOf(t, OffsetAt(t, k)), value |-> f[g]]
             /\ g = TargetOf(segments, PlaceOf(Kind(t), t.segment_no, OffsetAt(t, k)))
             /\ g \in CellsIn(segments) /\ TargetOf(segments, g) = g
<1> DEFINE cellNo == OffsetsOf(segments, t)[t.first + ((k + 1) - 1)]
           place  == PlaceOf(Kind(t), t.segment_no, cellNo)
<1>1. t \in Tables /\ t.count \in Nat /\ t.first \in Nat /\ k \in Nat /\ k + 1 \in 1 .. t.count
  BY DEF HoldsIn, Tables
<1>2. /\ cellNo \in Nat /\ t.segment_no \in Nat
      /\ IsElement(segments, Kind(t), <<t.segment_no, cellNo>>)
  BY <1>1, HeldElements
<1>3. OffsetAt(t, k) = cellNo
  <2>1. t.first + ((k + 1) - 1) = t.first + k
    BY <1>1
  <2> QED BY <2>1 DEF OffsetAt, TableCell, OffsetsOf, Cell
<1> HIDE DEF cellNo
<1>4. /\ place \in CellsIn(segments) /\ TargetOf(segments, place) \in CellsIn(segments)
      /\ HasTag(segments, TargetOf(segments, place), Values)
  BY <1>2, ElementsHaveValues
<1>5. Kind(t) = "array" <=> t.type = "array"
  BY DEF Kind
<1>6. ValueOf(t, cellNo) = TargetOf(segments, place)
  <2>1. ValueOf(t, cellNo) = FollowHandle(place)
    BY <1>5 DEF ValueOf, PlaceOf
  <2>2. place \in Places
    BY <1>4 DEF CellsIn
  <2> HIDE DEF place
  <2> QED BY <2>1, <2>2, FollowedTargets
<1>7. TargetOf(segments, TargetOf(segments, place)) = TargetOf(segments, place)
  <2> DEFINE g == TargetOf(segments, place)
  <2>1. HasTag(segments, g, Values)
    BY <1>4
  <2> HIDE DEF g
  <2>2. TargetOf(segments, g) = g
    BY <2>1 DEF TargetOf, HasTag, Values
  <2> QED BY <2>2 DEF g
<1>8. KeyOf(t, cellNo) = IF Kind(t) = "array" THEN <<>>
                         ELSE CellOf(segments, <<t.segment_no, cellNo>>).token.data
  BY <1>5 DEF KeyOf, KeyAt, Cell
<1>9. SliceIn(segments, t, f)[k + 1] = ElementIn(segments, Kind(t), t.segment_no, cellNo, f)
  BY <1>1, SlicesAreSequences DEF EntryIn, cellNo
<1>10. ElementIn(segments, Kind(t), t.segment_no, cellNo, f)
         = [key |-> KeyOf(t, cellNo), value |-> f[TargetOf(segments, place)]]
  BY <1>8 DEF ElementIn
<1> HIDE DEF place
<1>11. SliceIn(segments, t, f)[k + 1]
         = [key |-> KeyOf(t, cellNo), value |-> f[ValueOf(t, cellNo)]]
  BY <1>6, <1>9, <1>10
<1> QED BY <1>1, <1>3, <1>4, <1>6, <1>7, <1>11 DEF place

----------------------------------------------------------------------------
(* A sorted table is the plain one in an order of keys.                    *)

(* What memcmp and the sizes say of two keys is their lexicographic order.  *)
LEMMA ComparedKeys ==
  ASSUME NEW s \in Seq(Nat), NEW t \in Seq(Nat), Compare(s, t) <= 0
  PROVE  JsonTree!Precedes(s, t)
<1>1. CASE s = t
  <2>1. SubSeq(t, 1, Len(s)) = s /\ Len(s) <= Len(t)
    BY <1>1
  <2> QED BY <2>1 DEF JsonTree!Precedes
<1>2. CASE s # t
  <2>1. Before(s, t)
    <3>1. Compare(s, t) \in Int /\ (Compare(s, t) = 0 <=> s = t)
          /\ (Compare(s, t) < 0 <=> Before(s, t))
      BY CompareTells
    <3> QED BY <1>2, <3>1
  <2>2. PICK k \in Nat : DiffersFirstAt(s, t, k) /\ ByteAt(s, k) < ByteAt(t, k)
    BY <2>1 DEF Before
  <2>3. k \in Nat \ {0} /\ \A l \in Nat \ {0} : l < k => ByteAt(s, l) = ByteAt(t, l)
    BY <2>2 DEF DiffersFirstAt
  <2>4. \A l \in Nat \ {0} : /\ ByteAt(s, l) \in Nat /\ (l <= Len(s) <=> ByteAt(s, l) # 0)
                             /\ ByteAt(t, l) \in Nat /\ (l <= Len(t) <=> ByteAt(t, l) # 0)
    BY ByteAtType
  <2>5. Len(s) \in Nat /\ Len(t) \in Nat
    OBVIOUS
  <2>6. ASSUME NEW l \in Nat \ {0}, l < k, l <= Len(s)
        PROVE  l <= Len(t) /\ s[l] = t[l]
    <3>1. ByteAt(s, l) = ByteAt(t, l) /\ l <= Len(t)
      BY <2>3, <2>4, <2>6
    <3>2. s[l] \in Nat /\ t[l] \in Nat
      BY <2>6, <3>1
    <3>3. s[l] + 1 = t[l] + 1
      BY <2>6, <3>1 DEF ByteAt
    <3> QED BY <3>1, <3>2, <3>3
  <2>7. CASE k > Len(s)
    <3>1. Len(s) <= Len(t)
      BY <2>5, <2>6, <2>7
    <3>2. SubSeq(t, 1, Len(s)) \in Seq(Nat) /\ Len(SubSeq(t, 1, Len(s))) = Len(s)
          /\ \A l \in 1 .. Len(s) : SubSeq(t, 1, Len(s))[l] = t[l]
      BY <2>5, <3>1
    <3>3. \A l \in 1 .. Len(s) : SubSeq(t, 1, Len(s))[l] = s[l]
      BY <2>3, <2>5, <2>6, <2>7, <3>2
    <3>4. SubSeq(t, 1, Len(s)) = s
      BY <3>2, <3>3
    <3> QED BY <3>1, <3>4 DEF JsonTree!Precedes
  <2>8. CASE k <= Len(s)
    <3>1. k <= Len(t) /\ s[k] < t[k]
      <4>1. ByteAt(t, k) # 0
        BY <2>2, <2>3, <2>4
      <4>2. k <= Len(t)
        BY <2>3, <2>4, <4>1
      <4>3. s[k] \in Nat /\ t[k] \in Nat
        BY <2>3, <2>8, <4>2
      <4>4. s[k] + 1 < t[k] + 1
        BY <2>2, <2>8, <4>2 DEF ByteAt
      <4> QED BY <4>2, <4>3, <4>4
    <3>2. /\ SubSeq(s, 1, k - 1) \in Seq(Nat) /\ Len(SubSeq(s, 1, k - 1)) = k - 1
          /\ \A l \in 1 .. k - 1 : SubSeq(s, 1, k - 1)[l] = s[l]
      BY <2>3, <2>5, <2>8
    <3>3. /\ SubSeq(t, 1, k - 1) \in Seq(Nat) /\ Len(SubSeq(t, 1, k - 1)) = k - 1
          /\ \A l \in 1 .. k - 1 : SubSeq(t, 1, k - 1)[l] = t[l]
      BY <2>3, <2>5, <3>1
    <3>4. \A l \in 1 .. k - 1 : s[l] = t[l]
      BY <2>3, <2>5, <2>6, <2>8
    <3>5. SubSeq(s, 1, k - 1) = SubSeq(t, 1, k - 1)
      BY <3>2, <3>3, <3>4
    <3>6. k \in DOMAIN s \cap DOMAIN t
      BY <2>3, <2>5, <2>8, <3>1
    <3> QED BY <3>1, <3>5, <3>6 DEF JsonTree!Precedes
  <2> QED BY <2>3, <2>5, <2>7, <2>8
<1> QED BY <1>1, <1>2

(* The elements of an object's table of which none was consumed.           *)
LEMMA FullSlices ==
  ASSUME NEW segs, NEW t \in Tables, t.first = 1, Kind(t) = "object", NEW f
  PROVE  LET s == SliceIn(segs, t, f)
         IN  /\ Len(s) = t.count /\ DOMAIN s = 1 .. t.count
             /\ \A k \in 1 .. t.count :
                  s[k] = ElementIn(segs, "object", t.segment_no, OffsetsOf(segs, t)[k], f)
<1>1. t.count \in Nat
  BY DEF Tables
<1>2. \A k \in 1 .. t.count : t.first + (k - 1) = k
  BY <1>1
<1> DEFINE s == SliceIn(segs, t, f)
<1>3. Len(s) = t.count /\ DOMAIN s = 1 .. t.count
      /\ \A k \in 1 .. t.count : s[k] = EntryIn(segs, t, f, k)
  BY SlicesAreSequences
<1> HIDE DEF s
<1>4. ASSUME NEW k \in 1 .. t.count
      PROVE  s[k] = ElementIn(segs, "object", t.segment_no, OffsetsOf(segs, t)[k], f)
  BY <1>2, <1>3, Zenon DEF EntryIn
<1> QED BY <1>3, <1>4 DEF s

(* The elements of the second table of an object are those of the first in  *)
(* an order of their keys, once it is sorted.                              *)
LEMMA SortingsAreRead ==
  ASSUME NEW segs, Sound(segs), TreeShaped(segs), NEW h \in CellsIn(segs),
         HasTag(segs, h, {"object"}), NEW t, HoldsIn(segs, t), t.type = "sorted",
         t.segment_no = h[1], t.first = 1, t.count = CellOf(segs, h).count,
         t.count > 0 => t.table = CellOf(segs, h).table + 1, NEW f
  PROVE  JsonTree!IsSorting(SliceIn(segs, t, f), SliceIn(segs, CompositeIn(segs, h), f))
<1> DEFINE u  == CompositeIn(segs, h)
           n  == t.count
           to == OffsetsOf(segs, t)
           uo == OffsetsOf(segs, u)
           ts == SliceIn(segs, t, f)
           us == SliceIn(segs, u, f)
           Entry(cellNo) == ElementIn(segs, "object", h[1], cellNo, f)
<1>1. /\ HoldsIn(segs, u) /\ Kind(u) = "object" /\ u.segment_no = h[1] /\ u.first = 1
      /\ u.count = n /\ (n > 0 => u.table = CellOf(segs, h).table)
  <2>1. HasTag(segs, h, {"array", "object"}) /\ CellOf(segs, h).tag = "object"
    BY DEF HasTag
  <2> QED BY <2>1, CompositesAreHeld
<1>2. t \in Tables /\ u \in Tables /\ n \in Nat /\ Kind(t) = "object"
  BY <1>1 DEF HoldsIn, Tables, Kind
<1> HIDE DEF u
<1>3. Len(ts) = n /\ DOMAIN ts = 1 .. n /\ \A k \in 1 .. n : ts[k] = Entry(to[k])
  <2>1. /\ Len(ts) = n /\ DOMAIN ts = 1 .. n
        /\ \A k \in 1 .. n : ts[k] = ElementIn(segs, "object", t.segment_no, to[k], f)
    BY <1>2, FullSlices
  <2> HIDE DEF ts, to
  <2> QED BY <2>1
<1>4. Len(us) = n /\ DOMAIN us = 1 .. n /\ \A k \in 1 .. n : us[k] = Entry(uo[k])
  <2> u \in Tables /\ u.first = 1 /\ Kind(u) = "object"
    BY <1>1, <1>2
  <2>1. /\ Len(us) = u.count /\ DOMAIN us = 1 .. u.count
        /\ \A k \in 1 .. u.count : us[k] = ElementIn(segs, "object", u.segment_no, uo[k], f)
    BY FullSlices
  <2> HIDE DEF us, uo
  <2>2. u.count = n /\ u.segment_no = h[1]
    BY <1>1
  <2>3. \A k \in 1 .. n : us[k] = ElementIn(segs, "object", h[1], uo[k], f)
    BY <2>1, <2>2, Zenon
  <2>4. Len(us) = n /\ DOMAIN us = 1 .. n
    BY <2>1, <2>2, Zenon
  <2> QED BY <2>3, <2>4
<1>5. n > 0 => Shuffled(to, uo) /\ Len(to) = n /\ Len(uo) = n
  <2> SUFFICES ASSUME n > 0 PROVE Shuffled(to, uo) /\ Len(to) = n /\ Len(uo) = n
    OBVIOUS
  <2>1. IsObject(segs, h)
    BY DEF IsObject, HasElements, HasTag
  <2>2. Shuffled(CellOf(segs, SecondTable(segs, h)).offsets, CellOf(segs, FirstTable(segs, h)).offsets)
    BY <2>1 DEF TreeShaped, ShuffledIn
  <2>3. to = CellOf(segs, SecondTable(segs, h)).offsets /\ uo = CellOf(segs, FirstTable(segs, h)).offsets
    BY <1>1 DEF OffsetsOf, SecondTable, FirstTable
  <2>4. LeadsToElements(segs, t) /\ LeadsToElements(segs, u)
    BY <1>1 DEF HoldsIn
  <2>5. t.first + t.count - 1 = Len(to) /\ u.first + u.count - 1 = Len(uo)
    BY <2>4 DEF LeadsToElements
  <2> QED BY <1>1, <1>2, <2>2, <2>3, <2>5
<1> HIDE DEF to, uo, ts, us, Entry
<1>6. ASSUME NEW k \in DOMAIN us
      PROVE  \E g \in [JsonTree!Occurrences(us[k], us) -> JsonTree!Occurrences(us[k], ts)] :
               \A i, j \in DOMAIN g : g[i] = g[j] => i = j
  <2>1. PICK q : Moves(q, 1 .. Len(uo), 1 .. Len(to), to, uo)
    BY <1>2, <1>4, <1>5, <1>6 DEF Shuffled
  <2>2. /\ q \in [1 .. n -> 1 .. n]
        /\ \A i, j \in 1 .. n : q[i] = q[j] => i = j
        /\ \A i \in 1 .. n : to[q[i]] = uo[i]
    BY <1>2, <1>4, <1>5, <1>6, <2>1 DEF Moves
  <2> DEFINE D == JsonTree!Occurrences(us[k], us)
             E == JsonTree!Occurrences(us[k], ts)
             g == [i \in D |-> q[i]]
  <2>3. D = {i \in 1 .. n : us[i] = us[k]} /\ E = {i \in 1 .. n : ts[i] = us[k]}
    BY <1>3, <1>4 DEF JsonTree!Occurrences
  <2>4. ASSUME NEW i \in D PROVE q[i] \in E
    <3>1. i \in 1 .. n /\ us[i] = us[k] /\ q[i] \in 1 .. n /\ to[q[i]] = uo[i]
      BY <2>2, <2>3
    <3>2. ts[q[i]] = us[i]
      BY <1>3, <1>4, <3>1
    <3> QED BY <2>3, <3>1, <3>2
  <2>5. D \subseteq 1 .. n
    BY <2>3
  <2> HIDE DEF D, E
  <2>6. g \in [D -> E] /\ \A i, j \in DOMAIN g : g[i] = g[j] => i = j
    BY <2>2, <2>4, <2>5
  <2> HIDE DEF g
  <2> QED BY <2>6 DEF D, E
<1>7. ASSUME NEW k \in 2 .. Len(ts)
      PROVE  JsonTree!Precedes(ts[k - 1].key, ts[k].key)
  <2>1. k \in 1 .. n /\ k - 1 \in 1 .. n /\ n > 0 /\ k - 1 + 1 = k /\ k - 1 \in 1 .. n - 1
    BY <1>2, <1>3, <1>7
  <2> DEFINE Key(cellNo) == CellOf(segs, <<h[1], cellNo>>).token.data
  <2>2. ts[k - 1].key = Key(to[k - 1]) /\ ts[k].key = Key(to[k])
    <3>1. \A cellNo : Entry(cellNo).key = Key(cellNo)
      BY DEF Entry, ElementIn
    <3> HIDE DEF Key
    <3> QED BY <1>3, <2>1, <3>1
  <2>3. LeadsToElements(segs, t) /\ Len(to) = n
    BY <1>5, <2>1 DEF HoldsIn
  <2>4. \A i \in 1 .. n : IsElement(segs, "object", <<h[1], to[i]>>)
    BY <1>2, <2>3 DEF LeadsToElements, to
  <2>5. Key(to[k - 1]) \in Seq(Nat) /\ Key(to[k]) \in Seq(Nat)
    BY <2>1, <2>4 DEF IsElement
  <2>6. Compare(Key(to[k - 1]), Key(to[k])) <= 0
    <3>1. OrderedIn(segs, h[1], to)
      BY <2>3 DEF LeadsToElements, to
    <3>2. k - 1 \in 1 .. Len(to) - 1
      BY <2>1, <2>3
    <3>3. Compare(Key(to[k - 1]), Key(to[k - 1 + 1])) <= 0
      BY <3>1, <3>2 DEF OrderedIn
    <3> QED BY <2>1, <3>3
  <2> HIDE DEF Key
  <2> QED BY <2>2, <2>5, <2>6, ComparedKeys
<1>8. JsonTree!IsSorting(ts, us)
  BY <1>3, <1>4, <1>6, <1>7, Zenon DEF JsonTree!IsSorting
<1> QED BY <1>8 DEF ts, us, u

(* Where a key is found, if it is: the handle leads to the value of one of  *)
(* the elements that have it, or to no value when none has.                *)
LEMMA LookupsAreRead ==
  ASSUME Sound(segments), InTree(segments), NEW f, AreTrees(segments, SpotsIn(segments), f),
         NEW t, HoldsIn(segments, t), t.type = "sorted", NEW key \in Seq(Nat)
  PROVE  LET found == f[TargetOf(segments, Search(t, key).handle)]
             named == JsonTree!ValuesOf(key, SliceIn(segments, t, f))
         IN  found \in IF named = {} THEN {Missing} ELSE named
<1> DEFINE s == SliceIn(segments, t, f)
           g == Search(t, key).handle
           found == f[TargetOf(segments, g)]
           named == JsonTree!ValuesOf(key, s)
           K == 0 .. t.count - 1
<1>1. t \in Tables /\ t.count \in Nat
  BY DEF HoldsIn, Tables
<1>2. Finds(t, key, g)
  BY <1>1, HeldAreOrdered, SearchFinds
<1>3. DOMAIN s = 1 .. t.count
  BY <1>1, SlicesAreSequences
<1>4. ASSUME NEW k \in K
      PROVE  /\ k + 1 \in DOMAIN s /\ s[k + 1].key = ElementKey(t, k)
             /\ s[k + 1].value = f[TargetOf(segments, <<t.segment_no, OffsetAt(t, k) + 1>>)]
  <2> DEFINE v == ValueOf(t, OffsetAt(t, k))
  <2>1. /\ k + 1 \in 1 .. t.count
        /\ s[k + 1] = [key |-> KeyOf(t, OffsetAt(t, k)), value |-> f[v]]
        /\ v = TargetOf(segments, PlaceOf(Kind(t), t.segment_no, OffsetAt(t, k)))
    BY EntriesAreRead
  <2>2. Kind(t) = "object"
    BY DEF Kind
  <2>3. v = TargetOf(segments, <<t.segment_no, OffsetAt(t, k) + 1>>)
    BY <2>1, <2>2 DEF PlaceOf
  <2>4. KeyOf(t, OffsetAt(t, k)) = ElementKey(t, k)
    BY DEF KeyOf, ElementKey
  <2> HIDE DEF v, s
  <2> QED BY <1>3, <2>1, <2>3, <2>4
<1>5. \A l \in DOMAIN s : l - 1 \in K /\ l - 1 + 1 = l
  BY <1>1, <1>3
<1> HIDE DEF s, g, K
<1>6. named = {s[l].value : l \in {i \in DOMAIN s : s[i].key = key}}
  BY Zenon DEF JsonTree!ValuesOf
<1> HIDE DEF named
<1>7. CASE g = NotFound /\ \A k \in K : ElementKey(t, k) # key
  <2>1. \A l \in DOMAIN s : s[l].key # key
    BY <1>4, <1>5, <1>7
  <2>2. named = {}
    BY <1>6, <2>1
  <2>3. ~HasCell(segments, NotFound)
    <3>1. PICK cells : segments \in Seq(Seq(cells))
      BY DEF Sound
    <3>2. DOMAIN segments = 1 .. Len(segments) /\ Len(segments) \in Nat /\ Len(segments) <= 255
      BY <3>1 DEF InTree, NotFound
    <3>3. ~(256 \in 1 .. Len(segments))
      BY <3>2
    <3> QED BY <3>2, <3>3 DEF HasCell, NotFound
  <2>4. TargetOf(segments, g) = NotFound
    BY <1>7, <2>3 DEF TargetOf, HasTag
  <2>5. f[NotFound] = TreeIn(segments, NotFound, f)
    <3>1. NotFound \in SpotsIn(segments)
      BY DEF SpotsIn
    <3> QED BY <3>1 DEF AreTrees
  <2>6. TreeIn(segments, NotFound, f) = Missing
    BY <2>3 DEF TreeIn, HasTag
  <2> QED BY <2>2, <2>4, <2>5, <2>6 DEF named, s, g
<1>8. CASE \E k \in K : ElementKey(t, k) = key /\ g = <<t.segment_no, OffsetAt(t, k) + 1>>
  <2>1. PICK k \in K : ElementKey(t, k) = key /\ g = <<t.segment_no, OffsetAt(t, k) + 1>>
    BY <1>8
  <2>2. k + 1 \in {i \in DOMAIN s : s[i].key = key} /\ s[k + 1].value = found
    BY <1>4, <2>1
  <2> HIDE DEF found
  <2>3. found \in named
    BY <1>6, <2>2
  <2>4. found \in IF named = {} THEN {Missing} ELSE named
    BY <2>3
  <2> QED BY <2>4 DEF named, s, g, found
<1> QED BY <1>2, <1>7, <1>8 DEF Finds, K

----------------------------------------------------------------------------
(* What the client sees, by the cells.                                     *)

(* The tables that are held are those of headers.                          *)
TreeInv ==
  /\ TreeShaped(segments)
  /\ \A s \in DOMAIN tables : Belongs(segments, sorted, tables[s])

(* The tree at the first handle is the one that the text spells.            *)
RootInv == TreeAt[TargetOf(segments, First)] = tree

(* The value that the client stands on and the elements that it has left.   *)
Views ==
  /\ AreTrees(segments, SpotsIn(segments), TreeAt)
  /\ Standing = TreeAt[TargetOf(segments, handle)]
  /\ Rests = [s \in DOMAIN tables |-> SliceIn(segments, tables[s], TreeAt)]

(* That is what the mapping to JsonTree makes of handles and tables.        *)
LEMMA ViewsAreRead == DocInv /\ TreeShaped(segments) => Views
<1> SUFFICES ASSUME DocInv, TreeShaped(segments) PROVE Views
  OBVIOUS
<1>1. Sound(segments) /\ InTree(segments) /\ handle \in Places
      /\ \A s \in DOMAIN tables : HoldsIn(segments, tables[s])
  BY DEF DocInv, TreeShaped
<1>2. AreTrees(segments, SpotsIn(segments), TreeAt)
  BY <1>1, TreesAreRead
<1>3. Standing = TreeAt[TargetOf(segments, handle)]
  <2>1. FollowHandle(handle) = TargetOf(segments, handle)
    BY <1>1, FollowedTargets
  <2> QED BY <2>1, Zenon DEF Standing, Held
<1>4. Rests = [s \in DOMAIN tables |-> SliceIn(segments, tables[s], TreeAt)]
  <2> DEFINE A(s) == ElementsOf(tables[s])
             B(s) == SliceIn(segments, tables[s], TreeAt)
  <2>1. \A f : \A s \in DOMAIN tables :
          Elements(tables[s], LAMBDA value : f[value]) = SliceIn(segments, tables[s], f)
    BY <1>1, ElementsAreRead
  <2>2. \A s \in DOMAIN tables :
          Elements(tables[s], LAMBDA value : TreeAt[value]) = SliceIn(segments, tables[s], TreeAt)
    BY <2>1
  <2>3. \A s \in DOMAIN tables : A(s) = B(s)
    BY <2>2 DEF ElementsOf
  <2>4. Rests = [s \in DOMAIN tables |-> A(s)]
    BY DEF Rests
  <2> HIDE DEF A, B
  <2>5. Rests = [s \in DOMAIN tables |-> B(s)]
    BY <2>3, <2>4
  <2> QED BY <2>5 DEF B
<1> QED BY <1>2, <1>3, <1>4 DEF Views

(* The trees are the same after a step that sorts an object, or none.       *)
LEMMA TreesStay ==
  ASSUME DocInv, TreeInv, Sound(segments'),
         UNCHANGED <<segments, sorted>> \/ \E h \in Places : Sort(h)
  PROVE  /\ TreeShaped(segments') /\ SameTrees(segments, segments', sorted)
         /\ \A t : Belongs(segments, sorted, t) => Belongs(segments', sorted', t)
         /\ DocInv' => TreeAt' = TreeAt
<1>1. Sound(segments) /\ TreeShaped(segments)
  BY DEF DocInv, TreeInv
<1>2. /\ TreeShaped(segments') /\ SameTrees(segments, segments', sorted)
      /\ \A t : Belongs(segments, sorted, t) => Belongs(segments', sorted', t)
  <2>1. CASE UNCHANGED <<segments, sorted>>
    <3>1. SameTrees(segments, segments, sorted)
      BY NothingSorted
    <3> QED BY <1>1, <2>1, <3>1
  <2>2. CASE \E h \in Places : Sort(h)
    BY <1>1, <2>2, SortKeepsTrees
  <2> QED BY <2>1, <2>2
<1>3. ASSUME DocInv' PROVE TreeAt' = TreeAt
  <2>1. Views' /\ Views
    <3>1. Views
      BY <1>1, ViewsAreRead
    <3>2. (DocInv /\ TreeShaped(segments))' => Views'
      BY ViewsAreRead, PTL
    <3> QED BY <1>2, <1>3, <3>1, <3>2
  <2>2. AreTrees(segments', SpotsIn(segments'), TreeAt')
    BY <2>1 DEF Views
  <2>3. AreTrees(segments, SpotsIn(segments), TreeAt)
    BY <2>1 DEF Views
  <2>4. AreTrees(segments', SpotsIn(segments'), TreeAt)
    <3> DEFINE f == TreeAt
               A(h) == TreeIn(segments, h, f)
               B(h) == TreeIn(segments', h, f)
               S == SpotsIn(segments)
    <3>1. SpotsIn(segments') = S /\ \A h \in S : A(h) = B(h)
      BY <1>2 DEF SameTrees
    <3>2. f = [h \in S |-> A(h)]
      BY <2>3, Zenon DEF AreTrees
    <3> HIDE DEF A, B, S, f
    <3>3. f = [h \in S |-> B(h)]
      BY <3>1, <3>2
    <3> QED BY <3>1, <3>3 DEF AreTrees, B, f
  <2>5. InTree(segments')
    BY <1>2 DEF TreeShaped
  <2> QED BY <2>2, <2>4, <2>5, TreesAreUnique
<1> QED BY <1>2, <1>3

(* A step that changes neither document nor tables keeps the invariant, and *)
(* so does sorting.                                                        *)
LEMMA UnchangedTablesKeep ==
  ASSUME DocInv, TreeInv, DocInv', UNCHANGED tables,
         UNCHANGED <<segments, sorted>> \/ \E h \in Places : Sort(h)
  PROVE  TreeInv'
<1>1. Sound(segments')
  BY DEF DocInv
<1>2. /\ TreeShaped(segments')
      /\ \A t : Belongs(segments, sorted, t) => Belongs(segments', sorted', t)
  BY <1>1, TreesStay
<1> QED BY <1>2 DEF TreeInv

(* A step by which the client gets one table keeps it, if that is a         *)
(* header's.                                                               *)
LEMMA NewTableKeeps ==
  ASSUME DocInv, TreeInv, DocInv',
         UNCHANGED <<segments, sorted>> \/ \E h \in Places : Sort(h),
         NEW s \in DOMAIN tables, NEW t, tables' = [tables EXCEPT ![s] = t],
         Belongs(segments', sorted', t)
  PROVE  TreeInv'
<1>1. Sound(segments')
  BY DEF DocInv
<1>2. /\ TreeShaped(segments')
      /\ \A u : Belongs(segments, sorted, u) => Belongs(segments', sorted', u)
  BY <1>1, TreesStay
<1>3. \A u \in DOMAIN tables' : Belongs(segments', sorted', tables'[u])
  BY <1>2 DEF TreeInv
<1> QED BY <1>2, <1>3 DEF TreeInv

(* The tables that are read belong to headers.                             *)
LEMMA ReadTablesBelong ==
  ASSUME Sound(segments), NEW h \in Places, HasTag(segments, h, {"array", "object"}), NEW S
  PROVE  /\ Belongs(segments, S, ReadComposite(h))
         /\ HasTag(segments, h, {"object"}) /\ (Cell(h).count > 0 => h \in S)
              => Belongs(segments, S, ReadSorted(h))
<1>1. h \in CellsIn(segments) /\ ReadComposite(h) = CompositeIn(segments, h)
  BY CompositesAreRead DEF CellsIn, HasTag
<1>2. LET t == CompositeIn(segments, h)
      IN  /\ t.type # "sorted" /\ t.segment_no = h[1] /\ t.count = Cell(h).count
          /\ t.count > 0 => t.table = Cell(h).table
  BY <1>1, CompositesAreHeld DEF Cell
<1>3. Belongs(segments, S, CompositeIn(segments, h))
  <2> DEFINE t == CompositeIn(segments, h)
  <2> SUFFICES ASSUME t.count > 0 PROVE Belongs(segments, S, t)
    BY DEF Belongs
  <2>1. HasElements(CellOf(segments, h))
    BY <1>2 DEF HasElements, HasTag, Cell
  <2>2. <<t.segment_no, t.table>> = FirstTable(segments, h) /\ t.type # "sorted"
    BY <1>2 DEF FirstTable, Cell
  <2> HIDE DEF t
  <2> QED BY <1>1, <2>1, <2>2 DEF Belongs
<1>4. ASSUME HasTag(segments, h, {"object"}), Cell(h).count > 0 => h \in S
      PROVE  Belongs(segments, S, ReadSorted(h))
  <2> DEFINE t == ReadSorted(h)
  <2>1. /\ t.segment_no = h[1] /\ t.count = Cell(h).count
        /\ t.count > 0 => t.table = Cell(h).table + 1
    BY <1>4, SecondTables
  <2> HIDE DEF t
  <2> SUFFICES ASSUME t.count > 0 PROVE Belongs(segments, S, t)
    BY DEF Belongs, t
  <2>2. IsObject(segments, h) /\ HasElements(CellOf(segments, h))
    BY <1>4, <2>1 DEF IsObject, HasElements, HasTag, Cell
  <2>3. <<t.segment_no, t.table>> = SecondTable(segments, h)
    BY <2>1 DEF SecondTable, Cell
  <2> QED BY <1>1, <1>4, <2>1, <2>2, <2>3 DEF Belongs
<1> QED BY <1>1, <1>3, <1>4

(* What is left of a table belongs to the same header.                      *)
LEMMA RestBelongs ==
  ASSUME NEW segs, NEW S, NEW t \in Tables, t.count > 0, Belongs(segs, S, t)
  PROVE  Belongs(segs, S, Rest(t))
<1>1. Rest(t).type = t.type /\ Rest(t).segment_no = t.segment_no /\ Rest(t).table = t.table
  BY RestOfTable
<1> HIDE DEF Rest
<1> QED BY <1>1 DEF Belongs

(* What is read by thsn_document_read_object_sorted.                       *)
LEMMA SortedTableRead ==
  ASSUME DocInv, TreeInv, DocInv', Sort(handle)
  PROVE  Belongs(segments', sorted', ReadSorted(handle))
<1>1. Sound(segments) /\ TreeShaped(segments) /\ handle \in Places /\ Sound(segments')
  BY DEF DocInv, TreeInv
<1>2. /\ TreeShaped(segments')
      /\ \A t : Belongs(segments, sorted', t) => Belongs(segments', sorted', t)
      /\ handle \in CellsIn(segments) /\ HasTag(segments, handle, {"object"})
      /\ Cell(handle).count > 0 => handle \in sorted'
  BY <1>1, SortKeepsTrees
<1>3. HasTag(segments, handle, {"array", "object"})
  BY <1>2 DEF HasTag
<1>4. Belongs(segments, sorted', ReadSorted(handle))
  BY <1>1, <1>2, <1>3, ReadTablesBelong
<1> QED BY <1>1, <1>2, <1>3, <1>4

(* The client's calls keep the invariant.                                  *)
LEMMA NavigateKeepsTrees ==
  ASSUME DocInv, TreeInv, DocInv', Navigate
  PROVE  TreeInv'
<1>1. Sound(segments) /\ handle \in Places
  BY DEF DocInv
<1>2. CASE GoToRoot
  <2>1. UNCHANGED tables /\ UNCHANGED <<segments, sorted>>
    BY <1>2 DEF GoToRoot
  <2> QED BY <2>1, UnchangedTablesKeep
<1>3. CASE \E s \in DOMAIN tables : ReadElements(s)
  <2>1. PICK s \in DOMAIN tables : ReadElements(s)
    BY <1>3
  <2>2. HasTag(segments, handle, {"array", "object"})
    BY <1>1, <2>1, TypesOfValues DEF ReadElements, HasTag
  <2>3. tables' = [tables EXCEPT ![s] = ReadComposite(handle)]
        /\ UNCHANGED <<segments, sorted>>
    BY <2>1 DEF ReadElements, Keep
  <2>4. Belongs(segments', sorted', ReadComposite(handle))
    BY <1>1, <2>2, <2>3, ReadTablesBelong
  <2> QED BY <2>3, <2>4, NewTableKeeps
<1>4. CASE \E s \in DOMAIN tables : ReadObjectSorted(s)
  <2>1. PICK s \in DOMAIN tables : ReadObjectSorted(s)
    BY <1>4
  <2>2. Sort(handle) /\ tables' = [tables EXCEPT ![s] = ReadSorted(handle)]
    BY <2>1 DEF ReadObjectSorted, Keep
  <2>3. Belongs(segments', sorted', ReadSorted(handle))
    BY <2>2, SortedTableRead
  <2>4. \E h \in Places : Sort(h)
    BY <1>1, <2>2
  <2> QED BY <2>2, <2>3, <2>4, NewTableKeeps
<1>5. CASE \E s \in DOMAIN tables : IndexElement(s)
  <2>1. UNCHANGED tables /\ UNCHANGED <<segments, sorted>>
    BY <1>5 DEF IndexElement
  <2> QED BY <2>1, UnchangedTablesKeep
<1>6. CASE \E s \in DOMAIN tables : ConsumeElement(s)
  <2>1. PICK s \in DOMAIN tables : ConsumeElement(s)
    BY <1>6
  <2>2. /\ tables[s].count > 0 /\ UNCHANGED <<segments, sorted>>
        /\ tables' = [tables EXCEPT ![s] = Rest(tables[s])]
    BY <2>1 DEF ConsumeElement, Keep
  <2>3. tables[s] \in Tables /\ Belongs(segments, sorted, tables[s])
    BY DEF DocInv, HoldsIn, TreeInv
  <2>4. Belongs(segments', sorted', Rest(tables[s]))
    BY <2>2, <2>3, RestBelongs
  <2> QED BY <2>2, <2>4, NewTableKeeps
<1>7. CASE \E s \in DOMAIN tables, key \in Keys : ObjectIndex(s, key)
  <2>1. UNCHANGED tables /\ UNCHANGED <<segments, sorted>>
    BY <1>7 DEF ObjectIndex
  <2> QED BY <2>1, UnchangedTablesKeep
<1> QED BY <1>2, <1>3, <1>4, <1>5, <1>6, <1>7 DEF Navigate

(* The other steps sort an object, or leave the document alone.            *)
LEMMA OtherSteps ==
  ASSUME DocInv, [Next]_vars, ~(Navigate /\ client = "navigator")
  PROVE  /\ UNCHANGED <<handle, tables, tree>>
         /\ UNCHANGED <<segments, sorted>> \/ \E h \in Places : Sort(h)
<1>1. CASE VisitorSteps
  BY <1>1 DEF VisitorSteps, docVars
<1>2. CASE CallbackSorts /\ UNCHANGED <<handle, tables, tree, visitVars, mainVars>>
  <2>1. PICK h \in Handles : Sort(h)
    BY <1>2 DEF CallbackSorts
  <2>2. h \in Places
    <3>1. PICK cells : segments \in Seq(Seq(cells))
      BY DEF DocInv, Sound
    <3> QED BY <3>1, HandlesAreCells
  <2> QED BY <1>2, <2>1, <2>2
<1>3. CASE FormatterSteps
  <2>1. CASE MainGoesOn
    BY <2>1 DEF MainGoesOn, docVars
  <2>2. CASE Format
    BY <2>2 DEF Format, docVars
  <2>3. CASE VisitReturns
    BY <2>3 DEF VisitReturns, docVars
  <2>4. CASE ErrorCleanup
    BY <2>4 DEF ErrorCleanup, docVars
  <2> QED BY <1>3, <2>1, <2>2, <2>3, <2>4 DEF FormatterSteps
<1>4. CASE UNCHANGED vars
  BY <1>4 DEF vars, docVars
<1> QED BY <1>1, <1>2, <1>3, <1>4 DEF Next

(* So every step of every client keeps it.                                 *)
LEMMA NextKeepsTrees == IInv /\ TreeInv /\ [Next]_vars => TreeInv'
<1> SUFFICES ASSUME IInv, TreeInv, [Next]_vars PROVE TreeInv'
  OBVIOUS
<1>1. DocInv /\ DocInv'
  BY NextKeeps DEF IInv
<1>2. CASE Navigate
  BY <1>1, <1>2, NavigateKeepsTrees
<1>3. CASE ~Navigate
  <2>1. /\ UNCHANGED <<handle, tables, tree>>
        /\ UNCHANGED <<segments, sorted>> \/ \E h \in Places : Sort(h)
    BY <1>1, <1>3, OtherSteps
  <2> QED BY <1>1, <2>1, UnchangedTablesKeep
<1> QED BY <1>2, <1>3

(* They sort an object, or leave the document alone, and change no tree.    *)
LEMMA StepsKeepTrees ==
  ASSUME IInv, TreeInv, [Next]_vars
  PROVE  /\ UNCHANGED <<segments, sorted>> \/ \E h \in Places : Sort(h)
         /\ tree' = tree /\ TreeAt' = TreeAt
         /\ TargetOf(segments', First) = TargetOf(segments, First)
<1>1. DocInv /\ DocInv' /\ Sound(segments')
  BY NextKeeps DEF IInv, DocInv
<1>2. UNCHANGED <<segments, sorted>> \/ \E h \in Places : Sort(h)
  <2>1. CASE Navigate
    <3>1. CASE \E s \in DOMAIN tables : ReadObjectSorted(s)
      <4>1. Sort(handle) /\ handle \in Places
        BY <1>1, <3>1 DEF ReadObjectSorted, DocInv
      <4> QED BY <4>1
    <3>2. CASE ~\E s \in DOMAIN tables : ReadObjectSorted(s)
      BY <2>1, <3>2 DEF Navigate, GoToRoot, ReadElements, IndexElement, ConsumeElement,
                        ObjectIndex
    <3> QED BY <3>1, <3>2
  <2>2. CASE ~Navigate
    BY <1>1, <2>2, OtherSteps
  <2> QED BY <2>1, <2>2
<1>3. tree' = tree
  <2>1. CASE Navigate
    BY <2>1 DEF Navigate, GoToRoot, ReadElements, ReadObjectSorted, IndexElement,
                ConsumeElement, ObjectIndex
  <2>2. CASE ~Navigate
    BY <1>1, <2>2, OtherSteps
  <2> QED BY <2>1, <2>2
<1>4. TreeAt' = TreeAt /\ SameTrees(segments, segments', sorted)
  BY <1>1, <1>2, TreesStay
<1>5. First \in Places
  BY DEF First, Places
<1>6. TargetOf(segments', First) = TargetOf(segments, First)
  BY <1>4, <1>5 DEF SameTrees
<1> QED BY <1>2, <1>3, <1>4, <1>6

(* The root stays the tree of the text.                                    *)
LEMMA NextKeepsRoot == IInv /\ TreeInv /\ RootInv /\ [Next]_vars => RootInv'
  BY StepsKeepTrees DEF RootInv

----------------------------------------------------------------------------
(* Every step is one of JsonTree, or none.                                 *)

(* A value that has elements, as the client sees it.                       *)
LEMMA CompositeSeen ==
  ASSUME NEW segs, NEW f, AreTrees(segs, SpotsIn(segs), f), NEW h \in CellsIn(segs),
         HasTag(segs, h, {"array", "object"})
  PROVE  /\ TargetOf(segs, h) = h
         /\ f[h] = <<CellOf(segs, h).tag, SliceIn(segs, CompositeIn(segs, h), f)>>
<1>1. CellOf(segs, h).tag \in {"array", "object"} /\ HasCell(segs, h)
  BY DEF HasTag
<1>2. TargetOf(segs, h) = h
  BY <1>1 DEF TargetOf, HasTag
<1>3. f[h] = TreeIn(segs, h, f)
  <2>1. h \in SpotsIn(segs)
    BY DEF SpotsIn
  <2> QED BY <2>1 DEF AreTrees
<1>4. HasTag(segs, h, Values) /\ CellOf(segs, h).tag # "leaf"
  BY <1>1 DEF HasTag, Values
<1>5. TreeIn(segs, h, f) = <<CellOf(segs, h).tag, SliceIn(segs, CompositeIn(segs, h), f)>>
  BY <1>4, Zenon DEF TreeIn
<1> QED BY <1>2, <1>3, <1>5

(* What of the client's view is before and after a step.                   *)
Seen(f) ==
  /\ Standing = f[TargetOf(segments, handle)]
  /\ Standing' = f[TargetOf(segments, handle')]
  /\ Rests = [s \in DOMAIN tables |-> SliceIn(segments, tables[s], f)]
  /\ Rests' = [s \in DOMAIN tables' |-> SliceIn(segments', tables'[s], f)]
  /\ AreTrees(segments, SpotsIn(segments), f) /\ AreTrees(segments', SpotsIn(segments'), f)
  /\ SameTrees(segments, segments', sorted)

(* It is the same trees before and after.                                  *)
LEMMA StepsAreSeen ==
  ASSUME DocInv, TreeInv, DocInv', TreeInv',
         UNCHANGED <<segments, sorted>> \/ \E h \in Places : Sort(h)
  PROVE  Seen(TreeAt)
<1>1. Sound(segments') /\ handle' \in Places
  BY DEF DocInv
<1>2. SameTrees(segments, segments', sorted) /\ TreeAt' = TreeAt
  BY <1>1, TreesStay
<1>3. Views /\ Views'
  <2>1. Views
    BY ViewsAreRead DEF TreeInv
  <2>2. (DocInv /\ TreeShaped(segments))' => Views'
    BY ViewsAreRead, PTL
  <2>3. TreeShaped(segments)'
    BY DEF TreeInv
  <2> QED BY <2>1, <2>2, <2>3
<1>4. TargetOf(segments', handle') = TargetOf(segments, handle')
  BY <1>1, <1>2 DEF SameTrees
<1>5. /\ Standing' = TreeAt[TargetOf(segments, handle')]
      /\ Rests' = [s \in DOMAIN tables' |-> SliceIn(segments', tables'[s], TreeAt)]
      /\ AreTrees(segments', SpotsIn(segments'), TreeAt)
  BY <1>2, <1>3, <1>4 DEF Views
<1>6. /\ Standing = TreeAt[TargetOf(segments, handle)]
      /\ Rests = [s \in DOMAIN tables |-> SliceIn(segments, tables[s], TreeAt)]
      /\ AreTrees(segments, SpotsIn(segments), TreeAt)
  BY <1>3 DEF Views
<1> HIDE DEF TreeAt
<1> QED BY <1>2, <1>5, <1>6 DEF Seen

(* The elements of the tables stay the same, but those of one that is read  *)
(* or shortened.                                                           *)
LEMMA RestsStay ==
  ASSUME DocInv, TreeInv, NEW f, Seen(f), tables' = tables
  PROVE  Rests' = Rests
<1> DEFINE A(s) == SliceIn(segments, tables[s], f)
           B(s) == SliceIn(segments', tables[s], f)
           D == DOMAIN tables
<1>1. \A s \in D : A(s) = B(s)
  BY DEF DocInv, TreeInv, Seen, SameTrees
<1>2. Rests = [s \in D |-> A(s)] /\ Rests' = [s \in D |-> B(s)]
  BY DEF Seen
<1> HIDE DEF A, B, D
<1> QED BY <1>1, <1>2

(* One that is read or shortened has the elements of its new slice.         *)
LEMMA OneRestChanges ==
  ASSUME DocInv, TreeInv, NEW f, Seen(f), NEW s \in DOMAIN tables, NEW t,
         tables' = [tables EXCEPT ![s] = t]
  PROVE  /\ s \in DOMAIN Rests /\ DOMAIN Rests = DOMAIN tables
         /\ Rests' = [Rests EXCEPT ![s] = SliceIn(segments', t, f)]
         /\ Rests[s] = SliceIn(segments, tables[s], f)
         /\ Rests'[s] = SliceIn(segments', t, f)
<1> DEFINE A(u) == SliceIn(segments, tables[u], f)
           B(u) == SliceIn(segments', tables'[u], f)
           D == DOMAIN tables
           last == SliceIn(segments', t, f)
<1>1. \A u \in D : u # s => A(u) = B(u)
  <2>1. \A u \in D : u # s => tables'[u] = tables[u]
    OBVIOUS
  <2>2. \A u \in D : SliceIn(segments', tables[u], f) = SliceIn(segments, tables[u], f)
    BY DEF DocInv, TreeInv, Seen, SameTrees
  <2> QED BY <2>1, <2>2
<1>2. B(s) = last /\ DOMAIN tables' = D /\ s \in D
  OBVIOUS
<1>3. Rests = [u \in D |-> A(u)] /\ Rests' = [u \in D |-> B(u)]
  BY <1>2 DEF Seen
<1> HIDE DEF A, B, D, last
<1>4. Rests' = [Rests EXCEPT ![s] = last]
  BY <1>1, <1>2, <1>3
<1>5. s \in DOMAIN Rests /\ DOMAIN Rests = D /\ Rests[s] = A(s) /\ Rests'[s] = last
  BY <1>2, <1>3
<1> QED BY <1>4, <1>5 DEF A, D, last

(* thsn_document_read_array and _object give the elements of the value.     *)
LEMMA ReadElementsSeen ==
  ASSUME DocInv, TreeInv, NEW f, Seen(f), NEW s \in DOMAIN tables, ReadElements(s)
  PROVE  s \in DOMAIN Rests /\ JsonTree!ReadElements(s)
<1>1. Sound(segments) /\ handle \in Places
  BY DEF DocInv
<1>2. /\ HasTag(segments, handle, {"array", "object"})
      /\ handle \in CellsIn(segments)
  <2>1. HasTag(segments, handle, {"array", "object"})
    BY <1>1, TypesOfValues DEF ReadElements, HasTag
  <2> QED BY <1>1, <2>1 DEF HasTag, CellsIn
<1>3. /\ tables' = [tables EXCEPT ![s] = ReadComposite(handle)]
      /\ handle' = handle /\ segments' = segments
  BY DEF ReadElements, Keep
<1>4. /\ TargetOf(segments, handle) = handle
      /\ f[handle] = <<Cell(handle).tag, SliceIn(segments, CompositeIn(segments, handle), f)>>
  BY <1>2, CompositeSeen DEF Seen, Cell
<1>5. Standing = <<Cell(handle).tag, SliceIn(segments, ReadComposite(handle), f)>>
  BY <1>1, <1>2, <1>4, CompositesAreRead DEF Seen
<1>6. Standing' = Standing
  BY <1>3 DEF Seen
<1>7. /\ s \in DOMAIN Rests
      /\ Rests' = [Rests EXCEPT ![s] = SliceIn(segments', ReadComposite(handle), f)]
  BY <1>3, OneRestChanges
<1>8. Rests' = [Rests EXCEPT ![s] = Standing[2]]
  BY <1>3, <1>5, <1>7
<1>9. JsonTree!Composite(Standing)
  BY <1>2, <1>5 DEF JsonTree!Composite, HasTag, Cell
<1> QED BY <1>6, <1>7, <1>8, <1>9 DEF JsonTree!ReadElements

(* thsn_document_read_object_sorted gives them in an order of their keys,   *)
(* and changes nothing of what the client sees otherwise.                  *)
LEMMA ReadObjectSortedSeen ==
  ASSUME DocInv, TreeInv, DocInv', TreeInv', NEW f, Seen(f),
         NEW s \in DOMAIN tables, ReadObjectSorted(s)
  PROVE  s \in DOMAIN Rests /\ JsonTree!ReadSorted(s)
<1> DEFINE t == ReadSorted(handle)
           u == CompositeIn(segments', handle)
<1>1. /\ Sound(segments) /\ Sound(segments') /\ handle \in Places
      /\ TreeShaped(segments) /\ TreeShaped(segments') /\ SortedObjects(segments, sorted)
  BY DEF DocInv, TreeInv
<1>2. Sort(handle) /\ handle' = handle /\ tables' = [tables EXCEPT ![s] = t]
  BY DEF ReadObjectSorted, Keep
<1>3. handle \in CellsIn(segments) /\ HasTag(segments, handle, {"object"})
  BY <1>1, <1>2, SortKeepsTrees
<1>4. HoldsIn(segments', t)
  BY <1>1, <1>2, SortKeeps
<1>5. /\ t.type = "sorted" /\ t.segment_no = handle[1] /\ t.first = 1
      /\ t.count = Cell(handle).count
      /\ t.count > 0 => t.table = Cell(handle).table + 1
  BY <1>1, <1>3, SecondTables
<1>6. handle \in CellsIn(segments') /\ CellOf(segments', handle) = Cell(handle)
  <2>1. CellsIn(segments') = CellsIn(segments)
    BY DEF Seen, SameTrees
  <2>2. CASE t.count = 0 \/ handle \in sorted
    BY <1>2, <1>3, <2>2 DEF Sort, Cell
  <2>3. CASE ~(t.count = 0 \/ handle \in sorted)
    <3>1. PICK arranged \in Sortings(handle[1], TableCell(t).offsets) :
            segments' = [segments EXCEPT ![handle[1] + 1][t.table + 1].offsets = arranged]
      BY <1>2, <2>3 DEF Sort
    <3>2. Rearranged(segments, segments', <<handle[1], t.table>>, arranged)
      BY <1>1, <1>3, <2>3, <3>1, SortingArranges
    <3> HIDE DEF t
    <3>3. HasCell(segments, handle) /\ CellOf(segments, handle).tag # "table"
      BY <1>3 DEF HasTag
    <3>4. CellOf(segments', handle) = CellOf(segments, handle)
      BY <1>1, <3>2, <3>3, CellsKept
    <3> QED BY <1>3, <2>1, <3>4 DEF Cell
  <2> QED BY <2>1, <2>2, <2>3, <1>3
<1>7. HasTag(segments', handle, {"object"}) /\ HasTag(segments', handle, {"array", "object"})
  BY <1>3, <1>6 DEF HasTag, CellsIn, Cell
<1> HIDE DEF t
<1>8. JsonTree!IsSorting(SliceIn(segments', t, f), SliceIn(segments', u, f))
  BY <1>1, <1>4, <1>5, <1>6, <1>7, SortingsAreRead
<1>9. AreTrees(segments', SpotsIn(segments'), f) /\ AreTrees(segments, SpotsIn(segments), f)
  BY DEF Seen
<1>10. /\ TargetOf(segments, handle) = handle /\ Standing' = Standing
       /\ f[handle] = <<"object", SliceIn(segments', u, f)>>
  <2>1. HasTag(segments, handle, {"array", "object"})
    BY <1>3 DEF HasTag
  <2>2. TargetOf(segments, handle) = handle
    BY <1>3, <1>9, <2>1, CompositeSeen
  <2>3. f[handle] = <<CellOf(segments', handle).tag, SliceIn(segments', u, f)>>
    BY <1>6, <1>7, <1>9, CompositeSeen
  <2>4. CellOf(segments', handle).tag = "object"
    BY <1>7 DEF HasTag
  <2>5. Standing' = Standing
    BY <1>2 DEF Seen
  <2> QED BY <2>2, <2>3, <2>4, <2>5
<1>11. Standing = <<"object", SliceIn(segments', u, f)>>
  BY <1>10 DEF Seen
<1>12. /\ s \in DOMAIN Rests
       /\ Rests' = [Rests EXCEPT ![s] = SliceIn(segments', t, f)]
       /\ Rests'[s] = SliceIn(segments', t, f)
  BY <1>2, OneRestChanges
<1> HIDE DEF u
<1>13. Rests' = [Rests EXCEPT ![s] = Rests'[s]] /\ JsonTree!IsSorting(Rests'[s], Standing[2])
       /\ Standing[1] = "object"
  BY <1>8, <1>11, <1>12
<1> QED BY <1>10, <1>12, <1>13 DEF JsonTree!ReadSorted

(* An element that is read by its number is the one that the table has.     *)
LEMMA IndexElementSeen ==
  ASSUME DocInv, TreeInv, NEW f, Seen(f), NEW s \in DOMAIN tables, IndexElement(s)
  PROVE  s \in DOMAIN Rests /\ JsonTree!Index(s)
<1>1. HoldsIn(segments, tables[s]) /\ tables[s] \in Tables /\ Sound(segments)
  BY DEF DocInv, HoldsIn
<1>2. PICK k \in 0 .. tables[s].count - 1 : handle' = ValueOf(tables[s], OffsetAt(tables[s], k))
  BY DEF IndexElement
<1>3. tables' = tables
  BY DEF IndexElement
<1>4. /\ k + 1 \in 1 .. tables[s].count
      /\ SliceIn(segments, tables[s], f)[k + 1].value = f[handle']
      /\ TargetOf(segments, handle') = handle'
  <2> DEFINE t == tables[s]
             cellNo == OffsetAt(t, k)
             v == SliceIn(segments, t, f)[k + 1]
  <2>1. /\ k + 1 \in 1 .. t.count
        /\ v = [key |-> KeyOf(t, cellNo), value |-> f[ValueOf(t, cellNo)]]
        /\ TargetOf(segments, ValueOf(t, cellNo)) = ValueOf(t, cellNo)
    BY <1>1, EntriesAreRead
  <2> HIDE DEF t, cellNo, v
  <2>2. handle' = ValueOf(t, cellNo)
    BY <1>2 DEF t, cellNo
  <2> QED BY <2>1, <2>2 DEF t, v
<1>5. s \in DOMAIN Rests /\ Rests[s] = SliceIn(segments, tables[s], f)
  BY DEF Seen
<1>6. k + 1 \in DOMAIN Rests[s]
  BY <1>1, <1>4, <1>5, SlicesAreSequences
<1>7. Standing' = Rests[s][k + 1].value
  BY <1>4, <1>5 DEF Seen
<1>8. Rests' = Rests
  BY <1>3, RestsStay
<1> QED BY <1>5, <1>6, <1>7, <1>8 DEF JsonTree!Index

(* The element that is consumed is the first, and the others are left.      *)
LEMMA ConsumeElementSeen ==
  ASSUME DocInv, TreeInv, NEW f, Seen(f), NEW s \in DOMAIN tables, ConsumeElement(s)
  PROVE  s \in DOMAIN Rests /\ JsonTree!Consume(s)
<1>1. HoldsIn(segments, tables[s]) /\ tables[s] \in Tables /\ Sound(segments)
  BY DEF DocInv, HoldsIn
<1>2. /\ tables[s].count > 0 /\ tables' = [tables EXCEPT ![s] = Rest(tables[s])]
      /\ handle' = ValueOf(tables[s], OffsetAt(tables[s], 0)) /\ segments' = segments
  BY DEF ConsumeElement, Keep
<1>3. 0 \in 0 .. tables[s].count - 1
  BY <1>1, <1>2 DEF Tables
<1>4. /\ 0 + 1 \in 1 .. tables[s].count
      /\ SliceIn(segments, tables[s], f)[0 + 1].value = f[handle']
      /\ TargetOf(segments, handle') = handle'
  <2> DEFINE t == tables[s]
             cellNo == OffsetAt(t, 0)
             v == SliceIn(segments, t, f)[0 + 1]
  <2>1. /\ 0 + 1 \in 1 .. t.count
        /\ v = [key |-> KeyOf(t, cellNo), value |-> f[ValueOf(t, cellNo)]]
        /\ TargetOf(segments, ValueOf(t, cellNo)) = ValueOf(t, cellNo)
    BY <1>1, <1>3, EntriesAreRead
  <2> HIDE DEF t, cellNo, v
  <2>2. handle' = ValueOf(t, cellNo)
    BY <1>2 DEF t, cellNo
  <2> QED BY <2>1, <2>2 DEF t, v
<1>5. /\ SliceIn(segments, tables[s], f) # <<>>
      /\ Head(SliceIn(segments, tables[s], f)) = SliceIn(segments, tables[s], f)[1]
      /\ SliceIn(segments, Rest(tables[s]), f) = Tail(SliceIn(segments, tables[s], f))
  BY <1>1, <1>2, RestsOfSlices
<1>6. /\ s \in DOMAIN Rests
      /\ Rests' = [Rests EXCEPT ![s] = SliceIn(segments', Rest(tables[s]), f)]
      /\ Rests[s] = SliceIn(segments, tables[s], f)
  BY <1>2, OneRestChanges
<1>7. Standing' = Head(Rests[s]).value
  BY <1>4, <1>5, <1>6 DEF Seen
<1>8. Rests[s] # <<>> /\ Rests' = [Rests EXCEPT ![s] = Tail(@)]
  BY <1>2, <1>5, <1>6
<1> QED BY <1>6, <1>7, <1>8 DEF JsonTree!Consume

(* A key that is looked up leads to the value of an element that has it, or *)
(* to none when no element does.                                           *)
LEMMA ObjectIndexSeen ==
  ASSUME DocInv, TreeInv, NEW f, Seen(f), NEW s \in DOMAIN tables, NEW key \in Keys,
         ObjectIndex(s, key)
  PROVE  s \in DOMAIN Rests /\ JsonTree!LookUp(s, key)
<1>1. HoldsIn(segments, tables[s]) /\ Sound(segments) /\ InTree(segments) /\ key \in Seq(Nat)
  BY KeysAssumption DEF DocInv, TreeInv, TreeShaped
<1>2. /\ tables[s].type = "sorted" /\ handle' = Search(tables[s], key).handle
      /\ tables' = tables
  BY DEF ObjectIndex
<1>3. s \in DOMAIN Rests /\ Rests[s] = SliceIn(segments, tables[s], f)
  BY DEF Seen
<1>4. AreTrees(segments, SpotsIn(segments), f) /\ Standing' = f[TargetOf(segments, handle')]
  BY DEF Seen
<1> DEFINE named == JsonTree!ValuesOf(key, SliceIn(segments, tables[s], f))
<1>5. f[TargetOf(segments, Search(tables[s], key).handle)]
        \in IF named = {} THEN {Missing} ELSE named
  BY <1>1, <1>2, <1>4, LookupsAreRead
<1> HIDE DEF named
<1>6. Standing' \in IF named = {} THEN {JsonTree!Missing} ELSE named
  BY <1>2, <1>4, <1>5 DEF Missing, JsonTree!Missing
<1>7. named = JsonTree!ValuesOf(key, Rests[s])
  BY <1>3 DEF named
<1>8. Rests' = Rests
  BY <1>2, RestsStay
<1> QED BY <1>3, <1>6, <1>7, <1>8 DEF JsonTree!LookUp

(* The document is a tree that the client walks through.                   *)
LEMMA StepsRefine ==
  IInv /\ TreeInv /\ RootInv /\ [Next]_vars => [JsonTree!Next]_(JsonTree!vars)
<1> SUFFICES ASSUME IInv, TreeInv, RootInv, [Next]_vars
             PROVE  JsonTree!Next \/ UNCHANGED JsonTree!vars
  OBVIOUS
<1>1. DocInv /\ DocInv' /\ TreeInv'
  BY NextKeeps, NextKeepsTrees DEF IInv
<1>2. UNCHANGED <<segments, sorted>> \/ \E h \in Places : Sort(h)
  BY StepsKeepTrees
<1>3. PICK f : f = TreeAt
  OBVIOUS
<1>4. Seen(f)
  BY <1>1, <1>2, <1>3, StepsAreSeen
<1>5. CASE Navigate
  <2>1. tree' = tree
    BY StepsKeepTrees
  <2>2. CASE GoToRoot
    <3>1. handle' = First /\ tables' = tables
      BY <2>2 DEF GoToRoot
    <3>2. Standing' = tree
      <4>1. Standing' = f[TargetOf(segments, First)]
        BY <1>4, <3>1 DEF Seen
      <4> QED BY <1>3, <4>1 DEF RootInv
    <3>3. Rests' = Rests
      BY <1>1, <1>4, <3>1, RestsStay
    <3> QED BY <2>1, <3>2, <3>3 DEF JsonTree!Next, JsonTree!GoToRoot
  <2>3. ASSUME NEW s \in DOMAIN tables, ReadElements(s) PROVE JsonTree!Next
    <3>1. s \in DOMAIN Rests /\ JsonTree!ReadElements(s)
      BY <1>1, <1>4, <2>3, ReadElementsSeen
    <3> QED BY <2>1, <3>1 DEF JsonTree!Next
  <2>4. ASSUME NEW s \in DOMAIN tables, ReadObjectSorted(s) PROVE JsonTree!Next
    <3>1. s \in DOMAIN Rests /\ JsonTree!ReadSorted(s)
      BY <1>1, <1>4, <2>4, ReadObjectSortedSeen
    <3> QED BY <2>1, <3>1 DEF JsonTree!Next
  <2>5. ASSUME NEW s \in DOMAIN tables, IndexElement(s) PROVE JsonTree!Next
    <3>1. s \in DOMAIN Rests /\ JsonTree!Index(s)
      BY <1>1, <1>4, <2>5, IndexElementSeen
    <3> QED BY <2>1, <3>1 DEF JsonTree!Next
  <2>6. ASSUME NEW s \in DOMAIN tables, ConsumeElement(s) PROVE JsonTree!Next
    <3>1. s \in DOMAIN Rests /\ JsonTree!Consume(s)
      BY <1>1, <1>4, <2>6, ConsumeElementSeen
    <3> QED BY <2>1, <3>1 DEF JsonTree!Next
  <2>7. ASSUME NEW s \in DOMAIN tables, NEW key \in Keys, ObjectIndex(s, key)
        PROVE  JsonTree!Next
    <3>1. s \in DOMAIN Rests /\ JsonTree!LookUp(s, key)
      BY <1>1, <1>4, <2>7, ObjectIndexSeen
    <3> QED BY <2>1, <3>1 DEF JsonTree!Next
  <2> QED BY <1>5, <2>2, <2>3, <2>4, <2>5, <2>6, <2>7 DEF Navigate
<1>6. CASE ~Navigate
  <2>1. UNCHANGED <<handle, tables, tree>>
    BY <1>1, <1>6, OtherSteps
  <2>2. Standing' = Standing
    BY <1>4, <2>1 DEF Seen
  <2>3. Rests' = Rests
    BY <1>1, <1>4, <2>1, RestsStay
  <2> QED BY <2>1, <2>2, <2>3 DEF JsonTree!vars
<1> QED BY <1>5, <1>6

(* What the parser has finished is read as the tree that the text spells.   *)
ReadAsSpelled == Standing = tree

(* At first the client stands on the root and its tables are empty.        *)
LEMMA StartRefines ==
  Init => TreeInv /\ (ReadAsSpelled => RootInv /\ JsonTree!Init)
<1> SUFFICES ASSUME Init PROVE TreeInv /\ (ReadAsSpelled => RootInv /\ JsonTree!Init)
  OBVIOUS
<1>1. PICK k \in DOMAIN Texts :
        /\ segments = Parsed(Texts[k].tokens)
        /\ tables = [s \in Texts[k].slots |-> EmptyTable("array", 0)]
  BY DEF Init, DocumentInit
<1>2. handle = First
  BY DEF Init, DocumentInit
<1>3. IsDocument(segments)
  BY <1>1, TextsAssumption
<1>4. DocInv /\ TreeShaped(segments)
  BY <1>3, InitHolds, ParsedAreTrees DEF IInv, TreeShaped
<1>5. Views
  BY <1>4, ViewsAreRead
<1>6. \A s \in DOMAIN tables : tables[s] = EmptyTable("array", 0)
  BY <1>1
<1>7. EmptyTable("array", 0).count = 0
  BY DEF EmptyTable
<1>8. ReadAsSpelled => RootInv
  BY <1>2, <1>5 DEF Views, ReadAsSpelled, RootInv
<1>9. \A s \in DOMAIN tables : Belongs(segments, sorted, tables[s])
  BY <1>6, <1>7 DEF Belongs
<1>10. Rests = [s \in DOMAIN Rests |-> <<>>]
  <2> DEFINE D == DOMAIN tables
             A(s) == SliceIn(segments, tables[s], TreeAt)
  <2>1. ASSUME NEW f, NEW t, t.count = 0 PROVE SliceIn(segments, t, f) = <<>>
    BY <2>1 DEF SliceIn
  <2>2. \A s \in D : A(s) = <<>>
    BY <1>6, <1>7, <2>1
  <2>3. Rests = [s \in D |-> A(s)]
    BY <1>5 DEF Views
  <2> HIDE DEF D, A
  <2> QED BY <2>2, <2>3
<1>11. ReadAsSpelled => JsonTree!Init
  BY <1>10 DEF JsonTree!Init, ReadAsSpelled
<1> QED BY <1>4, <1>8, <1>9, <1>11 DEF TreeInv

----------------------------------------------------------------------------
(* Theorems.                                                               *)

(* segment.h:418 sorts tables in place, on behalf of a client who reads or  *)
(* of a visitor's callback: no call of anybody ever changes what is at any  *)
(* handle of a document.                                                   *)
THEOREM TreesNeverChange == Spec => [][TreeAt' = TreeAt]_vars
<1>1. Init => IInv /\ TreeInv
  BY InitHolds, StartRefines
<1>2. IInv /\ TreeInv /\ [Next]_vars => (IInv /\ TreeInv)' /\ TreeAt' = TreeAt
  BY NextKeeps, NextKeepsTrees, StepsKeepTrees
<1> QED BY <1>1, <1>2, PTL DEF Spec

(* thsn_document_read_*, _index_* and thsn_document_object_index: in a       *)
(* document of any size and shape, with any keys, the client walks through  *)
(* the tree of the text, whatever objects it or a visitor's callbacks sort  *)
(* in place meanwhile (segment.h:418): a table's elements stay the same, a  *)
(* sorted table is the plain one in an order of keys, and a key is found    *)
(* exactly if an element that is left has it.                              *)
THEOREM DocumentsAreTrees == Spec /\ ReadAsSpelled => ImplementsJsonTree
<1>1. Init /\ ReadAsSpelled => IInv /\ TreeInv /\ RootInv /\ JsonTree!Init
  BY InitHolds, StartRefines
<1>2. IInv /\ TreeInv /\ RootInv /\ [Next]_vars => (IInv /\ TreeInv /\ RootInv)'
  BY NextKeeps, NextKeepsTrees, NextKeepsRoot
<1>3. IInv /\ TreeInv /\ RootInv /\ [Next]_vars => [JsonTree!Next]_(JsonTree!vars)
  BY StepsRefine
<1> QED BY <1>1, <1>2, <1>3, PTL DEF Spec, ImplementsJsonTree, JsonTree!Spec

----------------------------------------------------------------------------
(* A visit is a walk through the tree.                                     *)

(* Sequences put one behind the other, the last one first.                 *)
IsJoin(L, parts) ==
  L = [n \in 0 .. Len(parts) |-> IF n = 0 THEN <<>> ELSE parts[n] \o L[n - 1]]

Joined(parts) == LET L == CHOOSE L : IsJoin(L, parts) IN L[Len(parts)]

(* They can be.                                                            *)
LEMMA JoinsExist ==
  ASSUME NEW parts, Len(parts) \in Nat
  PROVE  \E L : IsJoin(L, parts)
<1> DEFINE step(L, n) == IF n = 0 THEN <<>> ELSE parts[n] \o L[n - 1]
           is(L, m)   == L = [n \in 0 .. m |-> step(L, n)]
           Exist      == {m \in Nat : \E L : is(L, m)}
<1>1. ASSUME NEW m \in Nat, \A k \in Nat : k < m => k \in Exist
      PROVE  m \in Exist
  <2>1. CASE m = 0
    <3> DEFINE L == [n \in 0 .. 0 |-> <<>>]
    <3>1. \A n \in 0 .. 0 : step(L, n) = <<>>
      OBVIOUS
    <3> HIDE DEF step
    <3>2. is(L, 0)
      BY <3>1
    <3> HIDE DEF is
    <3> QED BY <2>1, <3>2
  <2>2. CASE m # 0
    <3>1. m - 1 \in Nat /\ m - 1 < m
      BY <2>2
    <3>2. PICK L : is(L, m - 1)
      BY <1>1, <3>1
    <3> DEFINE M == [n \in 0 .. m |-> step(L, n)]
    <3>3. \A n \in 0 .. m - 1 : M[n] = L[n]
      <4> TAKE n \in 0 .. m - 1
      <4>1. n \in 0 .. m
        BY <3>1
      <4> HIDE DEF step
      <4>2. M[n] = step(L, n)
        BY <4>1
      <4>3. L[n] = step(L, n)
        BY <3>2, Zenon
      <4> QED BY <4>2, <4>3
    <3>4. \A n \in 0 .. m : step(M, n) = step(L, n)
      <4> HIDE DEF M
      <4> TAKE n \in 0 .. m
      <4>1. n # 0 => n - 1 \in 0 .. m - 1
        BY <3>1
      <4> QED BY <3>3, <4>1
    <3>5. is(M, m)
      <4> HIDE DEF step
      <4> QED BY <3>4, Zenon
    <3> HIDE DEF is, M
    <3> QED BY <3>5
  <2> QED BY <2>1, <2>2
<1>2. Exist \in SUBSET Nat
  OBVIOUS
<1> HIDE DEF Exist
<1>3. \A m \in Nat : m \in Exist
  BY <1>1, <1>2, StrongInduction
<1>4. Len(parts) \in Exist
  BY <1>3
<1> QED BY <1>4, Zenon DEF Exist, IsJoin

(* In one way.                                                             *)
LEMMA JoinsAgree ==
  ASSUME NEW a, NEW b, Len(a) \in Nat, Len(b) \in Nat, NEW most \in Nat,
         most <= Len(a), most <= Len(b), \A k \in 1 .. most : a[k] = b[k],
         NEW L, IsJoin(L, a), NEW M, IsJoin(M, b)
  PROVE  L[most] = M[most]
<1> DEFINE Agree == {m \in Nat : m <= most => L[m] = M[m]}
<1>1. ASSUME NEW m \in Nat, \A k \in Nat : k < m => k \in Agree
      PROVE  m \in Agree
  <2> SUFFICES ASSUME m <= most PROVE L[m] = M[m]
    OBVIOUS
  <2>1. m \in 0 .. Len(a) /\ m \in 0 .. Len(b)
    OBVIOUS
  <2>2. L[m] = IF m = 0 THEN <<>> ELSE a[m] \o L[m - 1]
    BY <2>1, Zenon DEF IsJoin
  <2>3. M[m] = IF m = 0 THEN <<>> ELSE b[m] \o M[m - 1]
    BY <2>1, Zenon DEF IsJoin
  <2>4. m # 0 => m \in 1 .. most /\ m - 1 \in Nat /\ m - 1 < m /\ m - 1 <= most
    OBVIOUS
  <2>5. m # 0 => a[m] = b[m] /\ L[m - 1] = M[m - 1]
    BY <1>1, <2>4
  <2> QED BY <2>2, <2>3, <2>5
<1>2. Agree \in SUBSET Nat
  OBVIOUS
<1> HIDE DEF Agree
<1>3. most \in Agree
  BY <1>1, <1>2, StrongInduction
<1> QED BY <1>3 DEF Agree

(* The last one comes before those in front of it.                         *)
LEMMA JoinStep ==
  ASSUME NEW parts, NEW front, Len(front) \in Nat, Len(parts) = Len(front) + 1,
         \A k \in 1 .. Len(front) : front[k] = parts[k]
  PROVE  Joined(parts) = parts[Len(parts)] \o Joined(front)
<1> DEFINE L == CHOOSE L : IsJoin(L, parts)
           M == CHOOSE M : IsJoin(M, front)
<1>1. IsJoin(L, parts) /\ IsJoin(M, front)
  BY JoinsExist
<1>2. Joined(parts) = L[Len(parts)] /\ Joined(front) = M[Len(front)]
  BY DEF Joined
<1> HIDE DEF L, M
<1>3. L[Len(front)] = M[Len(front)]
  BY <1>1, JoinsAgree
<1>4. L[Len(parts)] = parts[Len(parts)] \o L[Len(parts) - 1]
  <2>1. Len(parts) \in 0 .. Len(parts) /\ Len(parts) # 0
    OBVIOUS
  <2> QED BY <1>1, <2>1, Zenon DEF IsJoin
<1>5. Len(parts) - 1 = Len(front)
  OBVIOUS
<1> QED BY <1>2, <1>3, <1>4, <1>5

(* Of none there is nothing.                                               *)
LEMMA JoinOfNone ==
  ASSUME NEW parts, Len(parts) = 0
  PROVE  Joined(parts) = <<>>
<1> DEFINE L == CHOOSE L : IsJoin(L, parts)
<1>1. IsJoin(L, parts)
  BY JoinsExist
<1> HIDE DEF L
<1>2. 0 \in 0 .. Len(parts)
  OBVIOUS
<1>3. L[0] = <<>>
  BY <1>1, <1>2, Zenon DEF IsJoin
<1> QED BY <1>3 DEF Joined, L

(* Sequences of one kind are a sequence of that kind when they are joined.  *)
LEMMA JoinType ==
  ASSUME NEW parts, Len(parts) \in Nat, NEW T, \A k \in 1 .. Len(parts) : parts[k] \in Seq(T)
  PROVE  Joined(parts) \in Seq(T)
<1> DEFINE L == CHOOSE L : IsJoin(L, parts)
           Typed == {m \in Nat : m <= Len(parts) => L[m] \in Seq(T)}
<1>1. IsJoin(L, parts)
  BY JoinsExist
<1> HIDE DEF L
<1>2. ASSUME NEW m \in Nat, \A k \in Nat : k < m => k \in Typed
      PROVE  m \in Typed
  <2> SUFFICES ASSUME m <= Len(parts) PROVE L[m] \in Seq(T)
    OBVIOUS
  <2>1. m \in 0 .. Len(parts)
    OBVIOUS
  <2>2. L[m] = IF m = 0 THEN <<>> ELSE parts[m] \o L[m - 1]
    BY <1>1, <2>1, Zenon DEF IsJoin
  <2>3. m # 0 => m \in 1 .. Len(parts) /\ m - 1 \in Nat /\ m - 1 < m /\ m - 1 <= Len(parts)
    OBVIOUS
  <2>4. m # 0 => parts[m] \in Seq(T) /\ L[m - 1] \in Seq(T)
    BY <1>2, <2>3
  <2> QED BY <2>2, <2>4
<1>3. Typed \in SUBSET Nat
  OBVIOUS
<1> HIDE DEF Typed
<1>4. Len(parts) \in Typed
  BY <1>2, <1>3, StrongInduction
<1> QED BY <1>4 DEF Typed, Joined, L

(* What is due of a table and of a composite on the stack, by the cells.    *)
DueOf(segs, t, depth, f) ==
  [k \in 1 .. t.count |->
     Due(SliceIn(segs, t, f)[k].value,
         [key       |-> SliceIn(segs, t, f)[k].key,
          in_array  |-> t.type = "array",
          in_object |-> t.type = "object",
          last      |-> k = t.count],
         depth)]

FrameDue(segs, frame, depth, f) ==
  DueOf(segs, frame.table, depth, f)
    \o <<Due(<<EndOf[frame.table.type]>>, frame.context, depth - 1)>>

FramesDue(segs, frames, f) ==
  [n \in 1 .. Len(frames) |-> FrameDue(segs, frames[n], n, f)]

TodoIn(segs, where, h, at, frames, f) ==
  CASE where = "visit"  -> <<Due(f[h], at, Len(frames))>> \o Joined(FramesDue(segs, frames, f))
    [] where = "ascend" -> Joined(FramesDue(segs, frames, f))
    [] OTHER            -> <<>>

(* The elements that a table on the stack has left.                        *)
LEMMA ElementsDueAreRead ==
  ASSUME Sound(segments), NEW t, HoldsIn(segments, t), NEW depth
  PROVE  ElementsDue(t, depth) = DueOf(segments, t, depth, TreeAt)
<1> DEFINE f    == TreeAt
           A(k) == Due(f[ValueOf(t, OffsetAt(t, k - 1))], ContextOf(AtOffset(t, k - 1)), depth)
           B(k) == Due(SliceIn(segments, t, f)[k].value,
                       [key       |-> SliceIn(segments, t, f)[k].key,
                        in_array  |-> t.type = "array",
                        in_object |-> t.type = "object",
                        last      |-> k = t.count], depth)
<1>1. t \in Tables /\ t.count \in Nat /\ t.first \in Nat
  BY DEF HoldsIn, Tables
<1>2. ASSUME NEW k \in 1 .. t.count PROVE A(k) = B(k)
  <2> DEFINE u == AtOffset(t, k - 1)
             o == OffsetAt(t, k - 1)
             s == SliceIn(segments, t, f)[k]
  <2>1. k - 1 \in 0 .. t.count - 1 /\ (k - 1) + 1 = k
    BY <1>1
  <2>2. s = [key |-> KeyOf(t, o), value |-> f[ValueOf(t, o)]]
    <3> HIDE DEF f, o
    <3>1. SliceIn(segments, t, f)[(k - 1) + 1]
            = [key |-> KeyOf(t, OffsetAt(t, k - 1)), value |-> f[ValueOf(t, OffsetAt(t, k - 1))]]
      BY <2>1, EntriesAreRead
    <3> QED BY <2>1, <3>1 DEF o
  <2>3. /\ u.type = t.type /\ u.segment_no = t.segment_no /\ u.table = t.table
        /\ u.first = t.first + (k - 1) /\ u.count = t.count - (k - 1)
    BY <1>1 DEF AtOffset, Tables
  <2>4. OffsetAt(u, 0) = o
    <3>1. u.first + 0 = t.first + (k - 1)
      BY <1>1, <2>1, <2>3
    <3> HIDE DEF u
    <3> QED BY <2>3, <3>1 DEF OffsetAt, TableCell
  <2> HIDE DEF u, o, s, f
  <2>5. KeyOf(u, o) = KeyOf(t, o)
    BY <2>3 DEF KeyOf
  <2>6. (u.count = 1) = (k = t.count)
    BY <1>1, <2>1, <2>3
  <2>7. ContextOf(u) = [key |-> s.key, in_array |-> t.type = "array",
                        in_object |-> t.type = "object", last |-> k = t.count]
    <3>1. s.key = KeyOf(t, o)
      BY <2>2
    <3> QED BY <2>3, <2>4, <2>5, <2>6, <3>1 DEF ContextOf, IsLast
  <2>8. s.value = f[ValueOf(t, o)]
    BY <2>2
  <2> QED BY <2>7, <2>8 DEF u, o, s
<1>3. ElementsDue(t, depth) = [k \in 1 .. t.count |-> A(k)]
  BY DEF ElementsDue
<1>4. DueOf(segments, t, depth, TreeAt) = [k \in 1 .. t.count |-> B(k)]
  BY DEF DueOf
<1> HIDE DEF A, B
<1> QED BY <1>2, <1>3, <1>4

(* What is left to be called back for.                                     *)
LEMMA TodoIsRead ==
  DocInv /\ VisitInv => Todo = TodoIn(segments, pc, current, context, stack, TreeAt)
<1> SUFFICES ASSUME DocInv, VisitInv
             PROVE  Todo = TodoIn(segments, pc, current, context, stack, TreeAt)
  OBVIOUS
<1> DEFINE parts == FramesDue(segments, stack, TreeAt)
           D == 0 .. Len(stack)
           end(n)     == <<Due(<<EndOf[stack[n].table.type]>>, stack[n].context, n - 1)>>
           step(L, n) == IF n = 0 THEN <<>>
                         ELSE ElementsDue(stack[n].table, n) \o end(n) \o L[n - 1]
           join(L, n) == IF n = 0 THEN <<>> ELSE parts[n] \o L[n - 1]
           Is(L) == L = [n \in D |-> step(L, n)]
<1>1. Sound(segments) /\ Len(stack) \in Nat
  BY DEF DocInv, VisitInv
<1>2. parts = [n \in 1 .. Len(stack) |-> FrameDue(segments, stack[n], n, TreeAt)]
  BY DEF FramesDue
<1>3. Len(parts) = Len(stack)
  BY <1>1, <1>2
<1>4. DueIn = CHOOSE L : Is(L)
  BY Zenon DEF DueIn
<1>5. ASSUME NEW L PROVE Is(L) <=> IsJoin(L, parts)
  <2>1. ASSUME NEW n \in D PROVE step(L, n) = join(L, n)
    <3>1. CASE n = 0
      BY <3>1
    <3>2. CASE n # 0
      <4>1. n \in 1 .. Len(stack)
        BY <1>1, <3>2
      <4>2. HoldsIn(segments, stack[n].table)
        BY <4>1 DEF VisitInv
      <4>3. ElementsDue(stack[n].table, n) = DueOf(segments, stack[n].table, n, TreeAt)
        BY <1>1, <4>2, ElementsDueAreRead
      <4>4. parts[n] = DueOf(segments, stack[n].table, n, TreeAt) \o end(n)
        BY <1>2, <4>1 DEF FrameDue
      <4> HIDE DEF end, parts
      <4> QED BY <4>3, <4>4
    <3> QED BY <3>1, <3>2
  <2> HIDE DEF step, join
  <2>2. [n \in D |-> step(L, n)] = [n \in D |-> join(L, n)]
    BY <2>1, Zenon
  <2>3. IsJoin(L, parts) <=> L = [n \in D |-> join(L, n)]
    BY <1>3 DEF IsJoin, join
  <2> QED BY <2>2, <2>3
<1>6. \E L : Is(L)
  <2>1. \E L : IsJoin(L, parts)
    BY <1>1, <1>3, JoinsExist
  <2> HIDE DEF Is
  <2> QED BY <1>5, <2>1
<1>7. IsJoin(DueIn, parts)
  <2> HIDE DEF Is
  <2> QED BY <1>4, <1>5, <1>6
<1> HIDE DEF parts, Is
<1>8. DueIn[Len(stack)] = Joined(parts)
  <2> DEFINE L == CHOOSE L : IsJoin(L, parts)
             M == DueIn
  <2>1. IsJoin(L, parts)
    BY <1>7
  <2>2. IsJoin(M, parts)
    BY <1>7
  <2> HIDE DEF L, M
  <2>3. M[Len(parts)] = L[Len(parts)]
    BY <1>1, <1>3, <2>1, <2>2, JoinsAgree
  <2> QED BY <1>3, <2>3 DEF L, M, Joined
<1> QED BY <1>8 DEF Todo, TodoIn, parts

(* What is due of several composites is a sequence.                        *)
LEMMA FramesAreSequences ==
  ASSUME NEW segs, NEW frames, Len(frames) \in Nat,
         \A n \in 1 .. Len(frames) : frames[n].table \in Tables, NEW f
  PROVE  \E T : Joined(FramesDue(segs, frames, f)) \in Seq(T)
<1> DEFINE N == 1 .. Len(frames)
           count(n) == frames[n].table.count
           due(n)   == DueOf(segs, frames[n].table, n, f)
           end(n)   == Due(<<EndOf[frames[n].table.type]>>, frames[n].context, n - 1)
           T == UNION {{due(n)[k] : k \in 1 .. count(n)} \cup {end(n)} : n \in N}
           parts == FramesDue(segs, frames, f)
<1>1. parts = [n \in N |-> due(n) \o <<end(n)>>]
  BY DEF FramesDue, FrameDue
<1>2. Len(parts) = Len(frames)
  <2> HIDE DEF due, end
  <2> QED BY <1>1
<1>3. ASSUME NEW n \in N PROVE due(n) \in Seq(T) /\ <<end(n)>> \in Seq(T)
  <2> DEFINE e(k) == due(n)[k]
             d == due(n)
             c == count(n)
  <2>1. c \in Nat
    BY DEF Tables
  <2>2. \A k \in 1 .. c : e(k) \in T
    OBVIOUS
  <2>3. end(n) \in T
    OBVIOUS
  <2>4. d = [k \in 1 .. c |-> e(k)]
    BY DEF DueOf
  <2> HIDE DEF e, d, c, T, end, due
  <2>5. d \in Seq(T)
    BY <2>1, <2>2, <2>4
  <2> QED BY <2>3, <2>5 DEF d
<1> HIDE DEF due, end, T, parts
<1>4. \A n \in 1 .. Len(parts) : parts[n] \in Seq(T)
  BY <1>1, <1>2, <1>3
<1>5. Joined(parts) \in Seq(T)
  BY <1>2, <1>4, JoinType
<1> QED BY <1>5 DEF parts

(* The composites around the innermost one.                                *)
IsFront(front, frames) ==
  /\ Len(front) \in Nat /\ Len(frames) = Len(front) + 1
  /\ \A k \in 1 .. Len(front) : front[k] = frames[k]

(* The innermost composite comes first.                                    *)
LEMMA InnermostFirst ==
  ASSUME NEW segs, NEW f, NEW frames, NEW front, IsFront(front, frames)
  PROVE  Joined(FramesDue(segs, frames, f))
           = FrameDue(segs, frames[Len(frames)], Len(frames), f) \o Joined(FramesDue(segs, front, f))
<1> DEFINE parts == FramesDue(segs, frames, f)
           outer == FramesDue(segs, front, f)
           n == Len(front)
           A(k) == FrameDue(segs, frames[k], k, f)
           B(k) == FrameDue(segs, front[k], k, f)
<1>0. n \in Nat /\ Len(frames) = n + 1 /\ \A k \in 1 .. n : front[k] = frames[k]
  BY DEF IsFront
<1>1. parts = [k \in 1 .. Len(frames) |-> A(k)] /\ outer = [k \in 1 .. Len(front) |-> B(k)]
  BY DEF FramesDue
<1>2. \A k \in 1 .. n : B(k) = A(k)
  BY <1>0
<1> HIDE DEF A, B, parts, outer
<1>3. Len(parts) = Len(frames) /\ Len(outer) = n /\ parts[Len(frames)] = A(Len(frames))
  BY <1>0, <1>1
<1>4. \A k \in 1 .. Len(outer) : outer[k] = parts[k]
  <2> TAKE k \in 1 .. Len(outer)
  <2>1. k \in 1 .. n /\ k \in 1 .. Len(front) /\ k \in 1 .. Len(frames)
    BY <1>0, <1>3
  <2> QED BY <1>1, <1>2, <2>1
<1>5. Joined(parts) = parts[Len(parts)] \o Joined(outer)
  BY <1>0, <1>3, <1>4, JoinStep
<1> QED BY <1>3, <1>5 DEF A, parts, outer

(* Taking the first off a sequence.                                        *)
LEMMA FirstOff ==
  ASSUME NEW x, NEW s, \E T : s \in Seq(T)
  PROVE  /\ Head(<<x>> \o s) = x /\ Tail(<<x>> \o s) = s /\ <<x>> \o s # <<>>
         /\ <<>> \o s = s
<1>1. PICK T : s \in Seq(T)
  OBVIOUS
<1>2. s \in Seq(T \cup {x}) /\ <<x>> \in Seq(T \cup {x})
  BY <1>1
<1> QED BY <1>2

(* An element that is consumed was due first of its table.                 *)
LEMMA FirstIsDue ==
  ASSUME NEW segs, NEW t \in Tables, t.count > 0, NEW depth, NEW f
  PROVE  /\ 1 \in 1 .. t.count /\ \E T : DueOf(segs, Rest(t), depth, f) \in Seq(T)
         /\ DueOf(segs, t, depth, f)
              = <<DueOf(segs, t, depth, f)[1]>> \o DueOf(segs, Rest(t), depth, f)
<1> DEFINE s    == SliceIn(segs, t, f)
           r    == SliceIn(segs, Rest(t), f)
           u    == Rest(t)
           A(k) == Due(s[k].value, [key |-> s[k].key, in_array |-> t.type = "array",
                                    in_object |-> t.type = "object", last |-> k = t.count], depth)
           B(k) == Due(r[k].value, [key |-> r[k].key, in_array |-> u.type = "array",
                                    in_object |-> u.type = "object", last |-> k = u.count], depth)
           a == DueOf(segs, t, depth, f)
           b == DueOf(segs, Rest(t), depth, f)
<1>1. /\ u \in Tables /\ u.count = t.count - 1 /\ u.type = t.type
      /\ t.count \in Nat \ {0} /\ u.count \in Nat
  BY RestOfTable DEF Tables
<1>2. /\ \E T : s \in Seq(T)
      /\ Len(s) = t.count /\ r = Tail(s)
  BY SlicesAreSequences, RestsOfSlices
<1>3. \A k \in 1 .. u.count : k + 1 \in 1 .. t.count /\ r[k] = s[k + 1]
  <2> HIDE DEF s, r, u
  <2> QED BY <1>1, <1>2
<1>4. \A k \in 1 .. u.count : B(k) = A(k + 1)
  <2> TAKE k \in 1 .. u.count
  <2>1. (k = u.count) = (k + 1 = t.count)
    BY <1>1
  <2>2. r[k] = s[k + 1]
    BY <1>3
  <2>3. u.type = t.type
    BY <1>1
  <2> HIDE DEF r, s, u
  <2> QED BY <2>1, <2>2, <2>3
<1>5. a = [k \in 1 .. t.count |-> A(k)] /\ b = [k \in 1 .. u.count |-> B(k)]
  BY DEF DueOf
<1> DEFINE T == {A(k) : k \in 1 .. t.count}
<1>6. \A k \in 1 .. t.count : A(k) \in T
  OBVIOUS
<1> HIDE DEF a, b, A, B, T, u, r, s
<1>7. \A k \in 1 .. u.count : B(k) \in T
  BY <1>3, <1>4, <1>6
<1>8. a \in Seq(T) /\ b \in Seq(T) /\ Len(a) = t.count /\ Len(b) = u.count
  BY <1>1, <1>5, <1>6, <1>7
<1>9. a[1] = A(1) /\ A(1) \in T /\ 1 \in 1 .. t.count
  BY <1>1, <1>5, <1>6
<1> DEFINE c == <<A(1)>> \o b
<1>10. c \in Seq(T) /\ Len(c) = 1 + u.count /\ c[1] = A(1)
       /\ \A k \in 1 .. u.count : c[k + 1] = b[k]
  <2>1. \A x \in T : \A q \in Seq(T) :
          /\ <<x>> \o q \in Seq(T) /\ Len(<<x>> \o q) = 1 + Len(q) /\ (<<x>> \o q)[1] = x
          /\ \A k \in 1 .. Len(q) : (<<x>> \o q)[k + 1] = q[k]
    <3> TAKE x \in T
    <3> TAKE q \in Seq(T)
    <3> DEFINE one == <<x>>
    <3>1. one \in Seq(T) /\ Len(one) = 1 /\ one[1] = x /\ Len(q) \in Nat
      OBVIOUS
    <3> HIDE DEF one
    <3>2. /\ one \o q \in Seq(T) /\ Len(one \o q) = 1 + Len(q)
          /\ \A i \in 1 .. 1 + Len(q) :
               (one \o q)[i] = IF i <= 1 THEN one[i] ELSE q[i - 1]
      <4>1. /\ one \o q \in Seq(T) /\ Len(one \o q) = Len(one) + Len(q)
            /\ \A i \in 1 .. Len(one) + Len(q) :
                 (one \o q)[i] = IF i <= Len(one) THEN one[i] ELSE q[i - Len(one)]
        BY <3>1, ConcatProperties, Zenon
      <4> QED BY <3>1, <4>1
    <3>3. (one \o q)[1] = x
      BY <3>1, <3>2
    <3>4. \A k \in 1 .. Len(q) : (one \o q)[k + 1] = q[k]
      <4> TAKE k \in 1 .. Len(q)
      <4>1. k + 1 \in 1 .. 1 + Len(q) /\ ~(k + 1 <= 1) /\ (k + 1) - 1 = k
        BY <3>1
      <4> QED BY <3>2, <4>1
    <3> QED BY <3>2, <3>3, <3>4 DEF one
  <2> QED BY <1>8, <1>9, <2>1
<1>11. \A k \in 1 .. t.count : a[k] = c[k]
  <2> TAKE k \in 1 .. t.count
  <2>1. CASE k = 1
    BY <1>9, <1>10, <2>1
  <2>2. CASE k # 1
    <3>1. k - 1 \in 1 .. u.count /\ (k - 1) + 1 = k
      BY <1>1, <2>2
    <3>2. c[(k - 1) + 1] = b[k - 1]
      BY <1>10, <3>1
    <3>3. b[k - 1] = B(k - 1) /\ a[k] = A(k) /\ B(k - 1) = A((k - 1) + 1)
      BY <1>4, <1>5, <3>1
    <3> QED BY <3>1, <3>2, <3>3
  <2> QED BY <2>1, <2>2
<1>12. Len(a) = Len(c)
  BY <1>1, <1>8, <1>10
<1> HIDE DEF c
<1>13. a = c
  <2>1. a = [k \in 1 .. Len(a) |-> a[k]] /\ c = [k \in 1 .. Len(c) |-> c[k]]
    BY <1>8, <1>10
  <2> QED BY <1>8, <1>11, <1>12, <2>1
<1>14. a = <<a[1]>> \o b
  BY <1>9, <1>13 DEF c
<1> QED BY <1>8, <1>9, <1>14 DEF a, b

----------------------------------------------------------------------------
(* The tables on the stack.                                                *)

(* They are those of headers, and the visit is at a value or at none.       *)
WalkInv ==
  /\ current \in SpotsIn(segments)
  /\ \A k \in 1 .. Len(stack) : Belongs(segments, sorted, stack[k].table)

(* A composite that is entered is put on the stack.                        *)
LEMMA StackGrows ==
  ASSUME VisitInv, NEW x, stack' = Append(stack, x)
  PROVE  /\ Len(stack) \in Nat /\ Len(stack') = Len(stack) + 1 /\ stack'[Len(stack) + 1] = x
         /\ \A k \in 1 .. Len(stack) : stack'[k] = stack[k]
<1>1. PICK T : stack \in Seq(T)
  BY DEF VisitInv
<1>2. stack \in Seq(T \cup {x}) /\ x \in T \cup {x}
  BY <1>1
<1> QED BY <1>2

(* One that is left is taken off.                                          *)
LEMMA StackShrinks ==
  ASSUME VisitInv, Ascend
  PROVE  LET n == Len(stack)
         IN  /\ n \in Nat \ {0} /\ n \in 1 .. n /\ Last(stack) = stack[n]
             /\ Len(stack') = n - 1 /\ Len(stack') \in Nat
             /\ \A k \in 1 .. n - 1 : stack'[k] = stack[k]
<1>1. PICK T : stack \in Seq(T)
  BY DEF VisitInv
<1>2. stack # <<>> /\ stack' = Front(stack)
  BY DEF Ascend
<1>3. Len(stack) \in Nat \ {0}
  BY <1>1, <1>2
<1>4. /\ Len(Front(stack)) = Len(stack) - 1
      /\ \A k \in 1 .. Len(stack) - 1 : Front(stack)[k] = stack[k]
  BY <1>1, <1>3, FrontOfSequence
<1> QED BY <1>2, <1>3, <1>4 DEF Last

(* The innermost one has one element less when that is visited.            *)
LEMMA StackAdvances ==
  ASSUME VisitInv, Descend
  PROVE  LET n == Len(stack)
             t == stack[n].table
         IN  /\ n \in Nat \ {0} /\ n \in 1 .. n /\ n - 1 \in Nat /\ Last(stack) = stack[n]
             /\ HoldsIn(segments, t) /\ t \in Tables /\ t.type # "sorted" /\ t.count > 0
             /\ 0 \in 0 .. t.count - 1
             /\ Len(stack') = n /\ stack'[n].table = Rest(t)
             /\ stack'[n].context = stack[n].context
             /\ \A k \in 1 .. n - 1 : stack'[k] = stack[k]
<1> DEFINE n == Len(stack)
           t == stack[n].table
           frame == [stack[n] EXCEPT !.table = Rest(t)]
<1>1. PICK C : stack \in Seq([table : Tables, context : C])
  BY DEF VisitInv
<1>2. n \in Nat \ {0} /\ n \in 1 .. n /\ n - 1 \in Nat
  BY <1>1 DEF Descend
<1>3. Last(stack) = stack[n]
  BY DEF Last
<1>4. t.count > 0 /\ stack' = [stack EXCEPT ![n] = frame]
  BY <1>3 DEF Descend
<1>5. HoldsIn(segments, t) /\ t.type # "sorted"
  BY <1>2 DEF VisitInv
<1>6. t \in Tables /\ 0 \in 0 .. t.count - 1
  BY <1>4, <1>5 DEF HoldsIn, Tables
<1>7. stack[n] \in [table : Tables, context : C]
  <2> DEFINE F == [table : Tables, context : C]
  <2>1. stack \in Seq(F)
    BY <1>1
  <2> HIDE DEF F, t, frame
  <2>2. stack[n] \in F
    BY <1>2, <2>1
  <2> QED BY <2>2 DEF F
<1>8. frame.table = Rest(t) /\ frame.context = stack[n].context
  BY <1>7
<1> HIDE DEF frame, t
<1>9. DOMAIN stack = 1 .. n
  BY <1>1
<1> HIDE DEF n
<1>10. /\ DOMAIN stack' = 1 .. n /\ stack'[n] = frame
       /\ \A k \in 1 .. n - 1 : stack'[k] = stack[k]
  BY <1>2, <1>4, <1>9
<1>11. Len(stack') = n
  <2>1. \A T : \A s \in Seq(T) : \A k, x : Len([s EXCEPT ![k] = x]) = Len(s)
    OBVIOUS
  <2>2. stack \in Seq([table : Tables, context : C])
    BY <1>1
  <2> QED BY <1>4, <2>1, <2>2 DEF n
<1> QED BY <1>2, <1>3, <1>4, <1>5, <1>6, <1>8, <1>10, <1>11 DEF n, t

(* A visit's step keeps to headers' tables.                                *)
LEMMA VisitKeepsWalk ==
  ASSUME DocInv, VisitInv, WalkInv, Visit, UNCHANGED docVars
  PROVE  WalkInv'
<1>1. segments' = segments /\ sorted' = sorted /\ Sound(segments) /\ current \in Places
  BY DEF docVars, DocInv, VisitInv
<1>2. ASSUME UNCHANGED <<current, stack>> PROVE WalkInv'
  BY <1>1, <1>2 DEF WalkInv
<1>3. CASE VisitComposite
  <2> DEFINE frame == [table |-> ReadComposite(current), context |-> context]
             n == Len(stack)
  <2>1. current' = current /\ (stack' = stack \/ stack' = Append(stack, frame))
    BY <1>3 DEF VisitComposite
  <2>2. CASE stack' = stack
    BY <1>2, <2>1, <2>2
  <2>3. CASE stack' = Append(stack, frame)
    <3>1. /\ n \in Nat /\ Len(stack') = n + 1 /\ stack'[n + 1] = frame
          /\ \A k \in 1 .. n : stack'[k] = stack[k]
      BY <2>3, StackGrows
    <3>2. HasTag(segments, current, {"array", "object"})
      BY <1>1, <1>3, TypesOfValues DEF VisitComposite, HasTag
    <3>3. Belongs(segments, sorted, ReadComposite(current))
      BY <1>1, <3>2, ReadTablesBelong
    <3>4. frame.table = ReadComposite(current)
      OBVIOUS
    <3>5. \A k \in 1 .. Len(stack') : Belongs(segments, sorted, stack'[k].table)
      <4> HIDE DEF frame
      <4> TAKE k \in 1 .. Len(stack')
      <4>1. k = n + 1 \/ k \in 1 .. n
        BY <3>1
      <4> QED BY <3>1, <3>3, <3>4, <4>1 DEF WalkInv
    <3> QED BY <1>1, <2>1, <3>5 DEF WalkInv
  <2> QED BY <2>1, <2>2, <2>3
<1>4. CASE Ascend
  <2> DEFINE n == Len(stack)
  <2>1. /\ n \in Nat /\ Len(stack') = n - 1
        /\ \A k \in 1 .. n - 1 : stack'[k] = stack[k]
    BY <1>4, StackShrinks
  <2>2. current' = current
    BY <1>4 DEF Ascend
  <2>3. \A k \in 1 .. Len(stack') : k \in 1 .. n /\ stack'[k] = stack[k]
    BY <2>1
  <2> QED BY <1>1, <2>2, <2>3 DEF WalkInv
<1>5. CASE Descend
  <2> DEFINE n == Len(stack)
             t == stack[n].table
  <2>1. /\ n \in Nat \ {0} /\ n \in 1 .. n /\ Last(stack) = stack[n]
        /\ HoldsIn(segments, t) /\ t \in Tables /\ t.count > 0 /\ 0 \in 0 .. t.count - 1
        /\ Len(stack') = n /\ stack'[n].table = Rest(t)
        /\ \A k \in 1 .. n - 1 : stack'[k] = stack[k]
    BY <1>5, StackAdvances
  <2>2. current' = ValueOf(t, OffsetAt(t, 0))
    BY <1>5, <2>1 DEF Descend
  <2>3. Belongs(segments, sorted, Rest(t))
    <3>1. Belongs(segments, sorted, t)
      BY <2>1 DEF WalkInv
    <3> HIDE DEF t
    <3> QED BY <2>1, <3>1, RestBelongs
  <2> HIDE DEF t, n
  <2>4. current' \in SpotsIn(segments)
    <3>1. ValueOf(t, OffsetAt(t, 0)) \in CellsIn(segments)
      BY <1>1, <2>1, EntriesAreRead
    <3> QED BY <2>2, <3>1 DEF SpotsIn
  <2>5. \A k \in 1 .. Len(stack') : Belongs(segments, sorted, stack'[k].table)
    <3> TAKE k \in 1 .. Len(stack')
    <3>1. k = n \/ (k \in 1 .. n - 1 /\ k \in 1 .. Len(stack))
      BY <2>1 DEF n
    <3> QED BY <2>1, <2>3, <3>1 DEF WalkInv
  <2> QED BY <1>1, <2>4, <2>5 DEF WalkInv
<1>6. CASE VisitScalar \/ VisitFails \/ EndVisit
  BY <1>2, <1>6 DEF VisitScalar, VisitFails, EndVisit
<1> QED BY <1>3, <1>4, <1>5, <1>6 DEF Visit

(* What is due stays so when objects are sorted.                           *)
LEMMA TodoStays ==
  ASSUME DocInv, VisitInv, TreeInv, WalkInv, DocInv', VisitInv', UNCHANGED visitVars,
         UNCHANGED <<segments, sorted>> \/ \E h \in Places : Sort(h)
  PROVE  WalkInv' /\ Todo' = Todo
<1>1. Sound(segments')
  BY DEF DocInv
<1>2. /\ SameTrees(segments, segments', sorted) /\ TreeAt' = TreeAt
      /\ \A t : Belongs(segments, sorted, t) => Belongs(segments', sorted', t)
  BY <1>1, TreesStay
<1>3. /\ pc' = pc /\ current' = current /\ context' = context /\ stack' = stack
  BY DEF visitVars
<1>4. WalkInv'
  BY <1>2, <1>3 DEF WalkInv, SameTrees
<1>5. Todo = TodoIn(segments, pc, current, context, stack, TreeAt)
  BY TodoIsRead
<1>6. Todo' = TodoIn(segments', pc', current', context', stack', TreeAt')
  <2>1. (DocInv /\ VisitInv)'
          => (Todo = TodoIn(segments, pc, current, context, stack, TreeAt))'
    BY TodoIsRead, PTL
  <2> QED BY <2>1
<1>7. FramesDue(segments', stack, TreeAt) = FramesDue(segments, stack, TreeAt)
  <2> DEFINE f == TreeAt
             A(n) == FrameDue(segments', stack[n], n, f)
             B(n) == FrameDue(segments, stack[n], n, f)
  <2>1. ASSUME NEW n \in 1 .. Len(stack) PROVE A(n) = B(n)
    <3>1. HoldsIn(segments, stack[n].table) /\ Belongs(segments, sorted, stack[n].table)
      BY <2>1 DEF VisitInv, WalkInv
    <3>2. SliceIn(segments', stack[n].table, f) = SliceIn(segments, stack[n].table, f)
      <4> HIDE DEF f
      <4> QED BY <1>2, <3>1 DEF SameTrees
    <3>3. DueOf(segments', stack[n].table, n, f) = DueOf(segments, stack[n].table, n, f)
      <4> HIDE DEF f
      <4> QED BY <3>2 DEF DueOf
    <3> HIDE DEF f
    <3> QED BY <3>3 DEF FrameDue
  <2>2. /\ FramesDue(segments', stack, TreeAt) = [n \in 1 .. Len(stack) |-> A(n)]
        /\ FramesDue(segments, stack, TreeAt) = [n \in 1 .. Len(stack) |-> B(n)]
    BY DEF FramesDue
  <2> HIDE DEF A, B
  <2> QED BY <2>1, <2>2
<1>8. TodoIn(segments', pc, current, context, stack, TreeAt)
        = TodoIn(segments, pc, current, context, stack, TreeAt)
  BY <1>7 DEF TodoIn
<1> QED BY <1>2, <1>3, <1>4, <1>5, <1>6, <1>8

----------------------------------------------------------------------------
(* Every step of a visit is one of TreeWalk, or none.                      *)

(* The tables on the stack stay those of headers.                          *)
LEMMA NextKeepsWalk == IInv /\ TreeInv /\ WalkInv /\ [Next]_vars => WalkInv'
<1> SUFFICES ASSUME IInv, TreeInv, WalkInv, [Next]_vars PROVE WalkInv'
  OBVIOUS
<1>1. DocInv /\ VisitInv /\ DocInv' /\ VisitInv'
  BY NextKeeps DEF IInv
<1>2. UNCHANGED <<segments, sorted>> \/ \E h \in Places : Sort(h)
  BY StepsKeepTrees
<1>3. ASSUME UNCHANGED visitVars PROVE WalkInv'
  BY <1>1, <1>2, <1>3, TodoStays
<1>4. CASE Visit /\ UNCHANGED docVars
  BY <1>1, <1>4, VisitKeepsWalk
<1>5. CASE FormatterSteps
  <2>1. CASE MainGoesOn \/ VisitReturns \/ ErrorCleanup
    BY <1>3, <2>1 DEF MainGoesOn, VisitReturns, ErrorCleanup
  <2>2. CASE Format
    BY <1>4, <2>2 DEF Format
  <2> QED BY <1>5, <2>1, <2>2 DEF FormatterSteps
<1>6. CASE VisitorSteps
  BY <1>4, <1>6 DEF VisitorSteps
<1>7. CASE UNCHANGED vars
  BY <1>3, <1>7 DEF vars
<1> QED BY <1>3, <1>5, <1>6, <1>7 DEF Next

(* What a visit calls back for: scalars, starts and ends.                  *)
CompositeTypes == {"array", "object"}
Ends           == {"array_end", "object_end"}

(* Each has its callback.                                                  *)
LEMMA CallbacksOfItems ==
  ASSUME NEW item, item.value[1] \in Scalars \cup CompositeTypes \cup Ends
  PROVE  /\ item.value # TreeWalk!Missing
         /\ TreeWalk!Callback(item)[1] \in Callbacks
         /\ TreeWalk!Composite(item.value) <=> item.value[1] \in CompositeTypes
         /\ TreeWalk!IsEnd(item.value) <=> item.value[1] \in Ends
         /\ TreeWalk!Callback(item)[1] \in Starts <=> item.value[1] \in CompositeTypes
         /\ TreeWalk!Callback(item)[1] \in Scalars <=> item.value[1] \in Scalars
<1> DEFINE type == item.value[1]
<1>1. item.value = TreeWalk!Missing => type = "missing"
  BY DEF TreeWalk!Missing
<1>2. /\ TreeWalk!Composite(item.value) <=> type \in CompositeTypes
      /\ TreeWalk!IsEnd(item.value) <=> type \in Ends
  BY DEF TreeWalk!Composite, TreeWalk!IsEnd, CompositeTypes, Ends
<1>3. CASE type \in CompositeTypes
  <2>1. TreeWalk!Callback(item) = <<TreeWalk!StartOf[type]>>
    BY <1>2, <1>3 DEF TreeWalk!Callback, TreeWalk!Start
  <2>2. TreeWalk!StartOf[type] \in Starts
    BY <1>3 DEF CompositeTypes, TreeWalk!StartOf, Starts
  <2>3. TreeWalk!Callback(item)[1] = TreeWalk!StartOf[type]
    BY <2>1
  <2> HIDE DEF type
  <2> QED BY <1>1, <1>2, <1>3, <2>2, <2>3
        DEF type, CompositeTypes, Ends, Scalars, Starts, Callbacks
<1>4. CASE type \notin CompositeTypes
  <2>1. TreeWalk!Callback(item) = item.value
    BY <1>2, <1>4 DEF TreeWalk!Callback
  <2> QED BY <1>1, <1>2, <1>4, <2>1 DEF CompositeTypes, Ends, Scalars, Starts, Callbacks
<1> QED BY <1>3, <1>4

(* Who is called and what is printed in a step of a visit.                  *)
Reported ==
  \/ client # "formatter" /\ UNCHANGED lines
  \/ /\ client = "formatter"
     /\ IF calls' # calls THEN Printed(Last(calls')) ELSE UNCHANGED <<offset, lines>>

(* The program prints the line of what it is called back for.               *)
LEMMA LinesArePrinted ==
  ASSUME VisitInv, MainInv, Reported, NEW item, NEW answer,
         item.value[1] \in Scalars \cup CompositeTypes \cup Ends, item.depth \in Nat,
         Len(stack) = item.depth + (IF item.value[1] \in Ends THEN 1 ELSE 0),
         Call(TreeWalk!Callback(item), item.context, answer)
  PROVE  lines' = IF client = "formatter" THEN Append(lines, TreeWalk!Line(item)) ELSE lines
<1>1. CASE client # "formatter"
  BY <1>1 DEF Reported
<1>2. CASE client = "formatter"
  <2> DEFINE call == TreeWalk!Callback(item)
             at   == item.context
             type == item.value[1]
  <2>1. visitor = FormatterVisitor /\ offset = Len(stack)
    BY <1>2 DEF MainInv
  <2>2. /\ call[1] \in Callbacks
        /\ TreeWalk!Composite(item.value) <=> type \in CompositeTypes
        /\ TreeWalk!IsEnd(item.value) <=> type \in Ends
        /\ call[1] \in Starts <=> type \in CompositeTypes
        /\ call[1] \in Scalars <=> type \in Scalars
    BY CallbacksOfItems
  <2> DEFINE line == TreeWalk!Line(item)
             key  == IF at.in_object /\ type \notin Ends THEN <<at.key>> ELSE <<>>
             comma == /\ at.in_array \/ at.in_object
                      /\ ~at.last /\ type \notin CompositeTypes
  <2>3. line = [offset |-> item.depth, key |-> key, item |-> call, comma |-> comma]
    BY <2>2 DEF TreeWalk!Line
  <2>4. calls' # calls /\ Last(calls').call = call /\ Last(calls').context = at
    <3> HIDE DEF call, at
    <3>1. Call(call, at, answer)
      BY DEF call, at
    <3> QED BY <2>1, <2>2, <3>1, FormatterIsCalled
  <2>5. Printed(Last(calls'))
    BY <1>2, <2>4 DEF Reported
  <2> DEFINE called == Last(calls')
  <2> HIDE DEF call, line, called
  <2>6. called.call = call /\ called.context = at /\ Printed(called)
    BY <2>4, <2>5 DEF called
  <2>7. CASE type \in Scalars
    <3>1. /\ call[1] \in Scalars /\ call[1] \notin Starts
          /\ type \notin Ends /\ type \notin CompositeTypes
      BY <2>2, <2>7 DEF Scalars, Ends, CompositeTypes
    <3>2. lines' = Append(lines, PrintedLine(offset, Prefix(at), call, Comma(at)))
      BY <2>6, <3>1 DEF Printed
    <3>3. PrintedLine(offset, Prefix(at), call, Comma(at)) = line
      <4>1. item.depth = offset
        BY <2>1, <3>1
      <4>2. Prefix(at) = key
        BY <3>1 DEF Prefix, NoKey
      <4>3. Comma(at) = comma
        BY <3>1 DEF Comma
      <4> HIDE DEF key, comma
      <4> QED BY <2>3, <4>1, <4>2, <4>3 DEF PrintedLine
    <3> QED BY <1>2, <3>2, <3>3 DEF line
  <2>8. CASE type \in CompositeTypes
    <3>1. call[1] \in Starts /\ call[1] \notin Scalars /\ type \notin Ends
      BY <2>2, <2>8 DEF Scalars, Ends, CompositeTypes, Starts
    <3>2. lines' = Append(lines, PrintedLine(offset, Prefix(at), call, FALSE))
      BY <2>6, <3>1 DEF Printed
    <3>3. PrintedLine(offset, Prefix(at), call, FALSE) = line
      <4>1. item.depth = offset
        BY <2>1, <3>1
      <4>2. Prefix(at) = key
        BY <3>1 DEF Prefix, NoKey
      <4>3. comma = FALSE
        BY <2>8
      <4> HIDE DEF key, comma
      <4> QED BY <2>3, <4>1, <4>2, <4>3 DEF PrintedLine
    <3> QED BY <1>2, <3>2, <3>3 DEF line
  <2>9. CASE type \in Ends
    <3>1. call[1] \notin Starts /\ call[1] \notin Scalars /\ type \notin CompositeTypes
      BY <2>2, <2>9 DEF Scalars, Ends, CompositeTypes, Starts
    <3>2. lines' = Append(lines, PrintedLine(offset - 1, NoKey, call, Comma(at)))
      BY <2>6, <3>1 DEF Printed
    <3>3. PrintedLine(offset - 1, NoKey, call, Comma(at)) = line
      <4>1. item.depth = offset - 1
        BY <2>1, <2>9
      <4>2. NoKey = key
        BY <2>9 DEF NoKey
      <4>3. Comma(at) = comma
        BY <3>1 DEF Comma
      <4> HIDE DEF key, comma
      <4> QED BY <2>3, <4>1, <4>2, <4>3 DEF PrintedLine
    <3> QED BY <1>2, <3>2, <3>3 DEF line
  <2> QED BY <2>7, <2>8, <2>9
<1> QED BY <1>1, <1>2

(* A callback takes the first that is due off, whatever it answers.         *)
LEMMA CallsAreWalked ==
  ASSUME NEW item, item.value[1] \in Scalars \cup CompositeTypes \cup Ends,
         NEW rest, \E T : rest \in Seq(T), Todo = <<item>> \o rest,
         pc \in {"visit", "ascend"},
         NEW answer \in Answers, Call(TreeWalk!Callback(item), item.context, answer),
         lines' = IF client = "formatter" THEN Append(lines, TreeWalk!Line(item)) ELSE lines,
         UNCHANGED <<tree, visitor, client>>,
         pc' = "ascend" =>
           Todo' = IF answer = "SKIP" /\ item.value[1] \in CompositeTypes THEN rest
                   ELSE TreeWalk!Inside(item) \o rest
  PROVE  TreeWalk!Next
<1> DEFINE call == TreeWalk!Callback(item)
           at   == item.context
           skip == answer = "SKIP" /\ call[1] \in Starts
<1>1. Head(Todo) = item /\ Tail(Todo) = rest /\ Todo # <<>>
  BY FirstOff
<1>2. /\ item.value # TreeWalk!Missing
      /\ TreeWalk!Composite(item.value) <=> item.value[1] \in CompositeTypes
      /\ call[1] \in Starts <=> item.value[1] \in CompositeTypes
  BY CallbacksOfItems
<1>3. TreeWalk!Known <=> call[1] \in visitor.vtable
  BY <1>1 DEF TreeWalk!Known
<1> HIDE DEF call, at
<1>4. Call(call, at, answer)
  BY DEF call, at
<1>5. calls' = IF TreeWalk!Known THEN Append(calls, [call |-> call, context |-> at, skip |-> skip])
               ELSE calls
  BY <1>3, <1>4 DEF Call
<1>6. ~TreeWalk!Known => answer = "CONTINUE"
  BY <1>3, <1>4 DEF Call
<1>7. Status = "walking"
  BY DEF Status
<1>8. TreeWalk!Call(skip)
  <2> HIDE DEF skip
  <2> QED BY <1>1, <1>2, <1>5, <1>7 DEF TreeWalk!Call, call, at
<1>9. CASE answer = "ABORT_SUCCESS" \/ answer = "ABORT_ERROR"
  <2>1. skip = FALSE /\ TreeWalk!Known
    BY <1>6, <1>9
  <2>2. pc' \in {"aborted", "failed"}
    BY <1>4, <1>9 DEF Call
  <2>3. Todo' = <<>> /\ Status' \in {"aborted", "failed"}
    BY <2>2 DEF Todo, Status
  <2>4. TreeWalk!Abort
    BY <1>8, <2>1, <2>3 DEF TreeWalk!Abort
  <2> QED BY <2>4 DEF TreeWalk!Next
<1>10. CASE answer \in {"CONTINUE", "SKIP"}
  <2>1. pc' = "ascend"
    BY <1>4, <1>10 DEF Call
  <2>2. Status' = Status
    BY <1>7, <2>1 DEF Status
  <2>3. CASE skip
    <3>1. TreeWalk!Known /\ TreeWalk!Composite(item.value) /\ skip = TRUE
      BY <1>2, <1>6, <2>3
    <3>2. Todo' = Tail(Todo)
      BY <1>1, <1>2, <2>1, <2>3
    <3>3. TreeWalk!Skip
      <4> HIDE DEF skip
      <4> QED BY <1>1, <1>8, <2>2, <3>1, <3>2 DEF TreeWalk!Skip
    <3> QED BY <3>3 DEF TreeWalk!Next
  <2>4. CASE ~skip
    <3>1. skip = FALSE
      BY <2>4
    <3>2. Todo' = TreeWalk!Inside(Head(Todo)) \o Tail(Todo)
      BY <1>1, <1>2, <2>1, <2>4
    <3>3. TreeWalk!Continue
      <4> HIDE DEF skip
      <4> QED BY <1>8, <2>2, <3>1, <3>2 DEF TreeWalk!Continue
    <3> QED BY <3>3 DEF TreeWalk!Next
  <2> QED BY <2>3, <2>4
<1> QED BY <1>9, <1>10 DEF Answers

(* What is due before and after a step of a visit, by the trees there are.  *)
Walked(f) ==
  /\ Todo = TodoIn(segments, pc, current, context, stack, f)
  /\ Todo' = TodoIn(segments, pc', current', context', stack', f)
  /\ AreTrees(segments, SpotsIn(segments), f)
  /\ UNCHANGED <<segments, tree, visitor, client>>

(* A visit leaves the document alone.                                      *)
LEMMA VisitsAreWalked ==
  ASSUME DocInv, VisitInv, TreeInv, DocInv', VisitInv', Visit, UNCHANGED docVars,
         UNCHANGED client
  PROVE  Walked(TreeAt)
<1>1. UNCHANGED <<segments, sorted, tree, visitor, client>> /\ Sound(segments')
  BY DEF docVars, Visit, DocInv
<1>2. TreeAt' = TreeAt
  BY <1>1, TreesStay
<1>3. Todo = TodoIn(segments, pc, current, context, stack, TreeAt)
  BY TodoIsRead
<1>4. Todo' = TodoIn(segments', pc', current', context', stack', TreeAt')
  <2>1. (DocInv /\ VisitInv)'
          => (Todo = TodoIn(segments, pc, current, context, stack, TreeAt))'
    BY TodoIsRead, PTL
  <2> QED BY <2>1
<1>5. AreTrees(segments, SpotsIn(segments), TreeAt)
  BY TreesAreRead DEF DocInv, TreeInv, TreeShaped
<1> QED BY <1>1, <1>2, <1>3, <1>4, <1>5 DEF Walked

(* The tree of the value at hand.                                          *)
LEMMA TreeAtHand ==
  ASSUME Sound(segments), NEW h \in SpotsIn(segments), h \in Places, NEW f,
         AreTrees(segments, SpotsIn(segments), f)
  PROVE  /\ ValueType(h) = "error" => f[h] = Missing
         /\ ValueType(h) \in Scalars => f[h] = <<ValueType(h), ReadScalar(h)>>
         /\ ValueType(h) \in CompositeTypes =>
              /\ ReadComposite(h) \in Tables /\ ReadComposite(h).type = ValueType(h)
              /\ f[h] = <<ValueType(h), SliceIn(segments, ReadComposite(h), f)>>
<1>1. f[h] = TreeIn(segments, h, f)
  BY DEF AreTrees
<1>2. TreeStep(h, f) = TreeIn(segments, h, f)
  BY TreeStepIsRead
<1>3. ValueType(h) = "error" => f[h] = Missing
  BY <1>1, <1>2 DEF TreeStep
<1>4. ASSUME ValueType(h) \in Scalars PROVE f[h] = <<ValueType(h), ReadScalar(h)>>
  <2>1. ValueType(h) # "error" /\ ValueType(h) \notin {"array", "object"}
    BY <1>4 DEF Scalars
  <2> QED BY <1>1, <1>2, <2>1 DEF TreeStep
<1>5. ASSUME ValueType(h) \in CompositeTypes
      PROVE  /\ ReadComposite(h) \in Tables /\ ReadComposite(h).type = ValueType(h)
             /\ f[h] = <<ValueType(h), SliceIn(segments, ReadComposite(h), f)>>
  <2>1. HasTag(segments, h, {ValueType(h)})
    BY <1>5, TypesOfValues DEF CompositeTypes
  <2>2. /\ HasTag(segments, h, {"array", "object"}) /\ h \in CellsIn(segments)
        /\ CellOf(segments, h).tag = ValueType(h)
    BY <1>5, <2>1 DEF HasTag, CompositeTypes, CellsIn
  <2>3. ReadComposite(h) = CompositeIn(segments, h)
    BY <2>2, CompositesAreRead
  <2>4. f[h] = <<CellOf(segments, h).tag, SliceIn(segments, CompositeIn(segments, h), f)>>
    BY <2>2, CompositeSeen
  <2>5. HoldsIn(segments, CompositeIn(segments, h))
        /\ CompositeIn(segments, h).type = CellOf(segments, h).tag
    BY <2>2, CompositesAreHeld
  <2> QED BY <2>2, <2>3, <2>4, <2>5 DEF HoldsIn
<1> QED BY <1>3, <1>4, <1>5

(* What is due of the composites on the stack is a sequence.               *)
LEMMA RestIsSequence ==
  ASSUME VisitInv, NEW f
  PROVE  /\ Len(stack) \in Nat
         /\ \E T : Joined(FramesDue(segments, stack, f)) \in Seq(T)
<1>1. Len(stack) \in Nat
  BY DEF VisitInv
<1>2. \A n \in 1 .. Len(stack) : stack[n].table \in Tables
  BY DEF VisitInv, HoldsIn
<1> QED BY <1>1, <1>2, FramesAreSequences

(* What is inside a composite is what its table has when it is entered.     *)
LEMMA InsideIsDue ==
  ASSUME NEW item, NEW t \in Tables, t.type \in CompositeTypes, NEW f, NEW segs,
         item.value = <<t.type, SliceIn(segs, t, f)>>, item.depth \in Nat,
         NEW frame, frame.table = t, frame.context = item.context
  PROVE  TreeWalk!Inside(item) = FrameDue(segs, frame, item.depth + 1, f)
<1> DEFINE s     == SliceIn(segs, t, f)
           d     == item.depth + 1
           value == item.value
           A(k) == TreeWalk!Item(s[k].value,
                     [key |-> s[k].key, in_array |-> t.type = "array",
                      in_object |-> t.type = "object", last |-> k = t.count], d)
           B(k) == Due(s[k].value,
                     [key |-> s[k].key, in_array |-> t.type = "array",
                      in_object |-> t.type = "object", last |-> k = t.count], d)
<1>1. DOMAIN s = 1 .. t.count /\ Len(s) = t.count
  BY SlicesAreSequences
<1>2. value[1] = t.type /\ value[2] = s
  OBVIOUS
<1>3. \A k : A(k) = B(k)
  BY DEF TreeWalk!Item, Due
<1>4. TreeWalk!Items(value, d) = [k \in 1 .. t.count |-> A(k)]
  <2> HIDE DEF value, s, d
  <2> QED BY <1>1, <1>2 DEF TreeWalk!Items
<1>5. DueOf(segs, t, d, f) = [k \in 1 .. t.count |-> B(k)]
  BY DEF DueOf
<1>6. TreeWalk!Items(value, d) = DueOf(segs, t, d, f)
  <2> HIDE DEF A, B, d, value
  <2> QED BY <1>3, <1>4, <1>5
<1>7. TreeWalk!Composite(value)
  BY <1>2 DEF TreeWalk!Composite, CompositeTypes
<1>8. TreeWalk!End(value) = <<EndOf[t.type]>>
  BY <1>2 DEF TreeWalk!End, TreeWalk!EndOf, EndOf
<1>9. TreeWalk!Item(TreeWalk!End(value), item.context, item.depth)
        = Due(<<EndOf[t.type]>>, frame.context, d - 1)
  <2>1. d - 1 = item.depth
    OBVIOUS
  <2> HIDE DEF d, value
  <2> QED BY <1>8, <2>1 DEF TreeWalk!Item, Due
<1> HIDE DEF s, A, B
<1>10. TreeWalk!Inside(item)
         = TreeWalk!Items(value, d)
             \o <<TreeWalk!Item(TreeWalk!End(value), item.context, item.depth)>>
  BY <1>7 DEF TreeWalk!Inside
<1>11. FrameDue(segs, frame, d, f)
         = DueOf(segs, t, d, f) \o <<Due(<<EndOf[t.type]>>, frame.context, d - 1)>>
  BY DEF FrameDue
<1> QED BY <1>6, <1>9, <1>10, <1>11

(* A scalar.                                                               *)
LEMMA ScalarIsWalked ==
  ASSUME VisitInv, MainInv, WalkInv, Sound(segments), Reported, VisitScalar, NEW f, Walked(f)
  PROVE  TreeWalk!Next
<1> DEFINE value == f[current]
           item  == Due(value, context, Len(stack))
           rest  == Joined(FramesDue(segments, stack, f))
<1>1. current \in SpotsIn(segments) /\ current \in Places
  BY DEF WalkInv, VisitInv
<1>2. ValueType(current) \in Scalars /\ pc = "visit" /\ stack' = stack
  BY DEF VisitScalar
<1>3. value = <<ValueType(current), ReadScalar(current)>>
  BY <1>1, <1>2, TreeAtHand DEF Walked
<1>4. PICK answer \in Answers :
        Call(<<ValueType(current), ReadScalar(current)>>, context, answer)
  BY DEF VisitScalar
<1> HIDE DEF value
<1>5. item.value = value /\ item.context = context /\ item.depth = Len(stack)
  BY DEF Due
<1>6. value[1] \in Scalars
  BY <1>2, <1>3
<1>7. Todo = <<item>> \o rest
  BY <1>2 DEF Walked, TodoIn, value
<1> HIDE DEF item
<1>8. ~TreeWalk!Composite(item.value) /\ item.value[1] \notin CompositeTypes
      /\ item.value[1] \notin Ends
  BY <1>5, <1>6 DEF TreeWalk!Composite, Scalars, CompositeTypes, Ends
<1>9. TreeWalk!Callback(item) = value /\ TreeWalk!Inside(item) = <<>>
  BY <1>5, <1>8 DEF TreeWalk!Callback, TreeWalk!Inside
<1>10. Call(TreeWalk!Callback(item), item.context, answer)
  BY <1>3, <1>4, <1>5, <1>9
<1>11. Len(stack) \in Nat /\ \E T : rest \in Seq(T)
  BY RestIsSequence
<1>12. pc' = "ascend" => Todo' = rest
  BY <1>2 DEF Walked, TodoIn
<1> HIDE DEF rest
<1>13. TreeWalk!Inside(item) \o rest = rest
  BY <1>9, <1>11, FirstOff
<1>14. lines' = IF client = "formatter" THEN Append(lines, TreeWalk!Line(item)) ELSE lines
  <2>1. Len(stack) = item.depth + (IF item.value[1] \in Ends THEN 1 ELSE 0)
        /\ item.depth \in Nat
    BY <1>5, <1>8, <1>11
  <2> QED BY <1>5, <1>6, <1>10, <2>1, LinesArePrinted
<1>15. UNCHANGED <<tree, visitor, client>>
  BY DEF Walked
<1> QED BY <1>2, <1>5, <1>6, <1>7, <1>8, <1>10, <1>11, <1>12, <1>13, <1>14, <1>15, CallsAreWalked

(* The start of a composite.                                               *)
LEMMA StartIsWalked ==
  ASSUME VisitInv, MainInv, WalkInv, Sound(segments), Reported, VisitComposite, NEW f, Walked(f)
  PROVE  TreeWalk!Next
<1> DEFINE value == f[current]
           t     == ReadComposite(current)
           frame == [table |-> t, context |-> context]
           item  == Due(value, context, Len(stack))
           rest  == Joined(FramesDue(segments, stack, f))
<1>1. current \in SpotsIn(segments) /\ current \in Places
  BY DEF WalkInv, VisitInv
<1>2. ValueType(current) \in CompositeTypes /\ pc = "visit"
  BY DEF VisitComposite, CompositeTypes
<1>3. /\ t \in Tables /\ t.type = ValueType(current)
      /\ value = <<t.type, SliceIn(segments, t, f)>>
  BY <1>1, <1>2, TreeAtHand DEF Walked
<1>4. PICK answer \in Answers :
        /\ Call(<<StartOf[ValueType(current)]>>, context, answer)
        /\ stack' = IF answer # "CONTINUE" THEN stack ELSE Append(stack, frame)
  BY DEF VisitComposite
<1>5. frame.table = t /\ frame.context = context
  OBVIOUS
<1> HIDE DEF value, t, frame
<1>6. item.value = value /\ item.context = context /\ item.depth = Len(stack)
  BY DEF Due
<1>7. value[1] = t.type /\ t.type \in CompositeTypes
  BY <1>2, <1>3
<1>8. Todo = <<item>> \o rest
  BY <1>2 DEF Walked, TodoIn, value
<1> HIDE DEF item
<1>9. TreeWalk!Composite(item.value) /\ item.value[1] \notin Ends
  BY <1>6, <1>7 DEF TreeWalk!Composite, CompositeTypes, Ends
<1>10. TreeWalk!Callback(item) = <<StartOf[ValueType(current)]>>
  BY <1>3, <1>6, <1>7, <1>9 DEF TreeWalk!Callback, TreeWalk!Start, TreeWalk!StartOf, StartOf
<1>11. Call(TreeWalk!Callback(item), item.context, answer)
  BY <1>4, <1>6, <1>10
<1>12. Len(stack) \in Nat /\ \E T : rest \in Seq(T)
  BY RestIsSequence
<1>13. TreeWalk!Inside(item) = FrameDue(segments, frame, Len(stack) + 1, f)
  <2>1. TreeWalk!Inside(item) = FrameDue(segments, frame, item.depth + 1, f)
    BY <1>3, <1>5, <1>6, <1>7, <1>12, InsideIsDue
  <2> QED BY <1>6, <2>1
<1>14. pc' = "ascend" => Todo' = Joined(FramesDue(segments, stack', f))
  BY DEF Walked, TodoIn
<1>15. ASSUME pc' = "ascend"
       PROVE  Todo' = IF answer = "SKIP" /\ item.value[1] \in CompositeTypes THEN rest
                      ELSE TreeWalk!Inside(item) \o rest
  <2>1. answer = "CONTINUE" \/ answer = "SKIP"
    BY <1>4, <1>15 DEF Call, Answers
  <2>2. CASE answer = "SKIP"
    BY <1>4, <1>6, <1>7, <1>14, <1>15, <2>2
  <2>3. CASE answer = "CONTINUE"
    <3>1. stack' = Append(stack, frame)
      BY <1>4, <2>3
    <3>2. /\ Len(stack') = Len(stack) + 1 /\ stack'[Len(stack) + 1] = frame
          /\ \A k \in 1 .. Len(stack) : stack[k] = stack'[k]
      BY <3>1, StackGrows
    <3>3. Joined(FramesDue(segments, stack', f))
            = FrameDue(segments, stack'[Len(stack')], Len(stack'), f) \o rest
      <4>1. IsFront(stack, stack')
        BY <1>12, <3>2 DEF IsFront
      <4> QED BY <4>1, InnermostFirst
    <3>4. Todo' = TreeWalk!Inside(item) \o rest
      BY <1>13, <1>14, <1>15, <3>2, <3>3
    <3> QED BY <2>3, <3>4
  <2> QED BY <2>1, <2>2, <2>3
<1> HIDE DEF rest
<1>16. lines' = IF client = "formatter" THEN Append(lines, TreeWalk!Line(item)) ELSE lines
  <2>1. Len(stack) = item.depth + (IF item.value[1] \in Ends THEN 1 ELSE 0)
        /\ item.depth \in Nat
    BY <1>6, <1>9, <1>12
  <2> QED BY <1>6, <1>7, <1>11, <2>1, LinesArePrinted
<1>17. UNCHANGED <<tree, visitor, client>>
  BY DEF Walked
<1> QED BY <1>2, <1>6, <1>7, <1>8, <1>11, <1>12, <1>15, <1>16, <1>17, CallsAreWalked

(* The end of one.                                                         *)
LEMMA EndIsWalked ==
  ASSUME VisitInv, MainInv, Reported, Ascend, NEW f, Walked(f)
  PROVE  TreeWalk!Next
<1> DEFINE n     == Len(stack)
           t     == stack[n].table
           item  == Due(<<EndOf[t.type]>>, stack[n].context, n - 1)
           rest  == Joined(FramesDue(segments, stack', f))
<1>1. /\ n \in Nat \ {0} /\ n \in 1 .. n /\ Last(stack) = stack[n]
      /\ Len(stack') = n - 1 /\ Len(stack') \in Nat
      /\ \A k \in 1 .. n - 1 : stack'[k] = stack[k]
  BY StackShrinks
<1>2. HoldsIn(segments, t) /\ t.type # "sorted"
  BY <1>1 DEF VisitInv
<1>3. t.type \in CompositeTypes
  BY <1>2 DEF HoldsIn, Tables, CompositeTypes
<1>4. t.count = 0 /\ pc = "ascend"
  BY <1>1 DEF Ascend
<1>5. PICK answer \in Answers : Call(<<EndOf[t.type]>>, stack[n].context, answer)
  BY <1>1 DEF Ascend
<1>6. /\ item.value = <<EndOf[t.type]>> /\ item.context = stack[n].context
      /\ item.depth = n - 1
  BY DEF Due
<1>7. EndOf[t.type] \in Ends
  BY <1>3 DEF CompositeTypes, Ends, EndOf
<1>8. FrameDue(segments, stack[n], n, f) = <<item>>
  <2>1. ASSUME NEW u, u.count = 0, NEW depth PROVE DueOf(segments, u, depth, f) = <<>>
    BY <2>1 DEF DueOf
  <2>2. DueOf(segments, t, n, f) = <<>>
    BY <1>4, <2>1
  <2>3. <<>> \o <<item>> = <<item>>
    <3> HIDE DEF item
    <3> QED BY FirstOff
  <2> HIDE DEF n
  <2> QED BY <2>2, <2>3 DEF FrameDue
<1>9. Joined(FramesDue(segments, stack, f)) = FrameDue(segments, stack[n], n, f) \o rest
  <2>1. IsFront(stack', stack)
    BY <1>1 DEF IsFront
  <2> QED BY <2>1, InnermostFirst
<1> HIDE DEF item, t
<1>10. Todo = <<item>> \o rest
  BY <1>4, <1>8, <1>9 DEF Walked, TodoIn
<1>11. \E T : rest \in Seq(T)
  <2>1. \A k \in 1 .. Len(stack') : stack'[k].table \in Tables
    <3> TAKE k \in 1 .. Len(stack')
    <3>1. k \in 1 .. Len(stack) /\ stack'[k] = stack[k]
      BY <1>1
    <3> QED BY <3>1 DEF VisitInv, HoldsIn
  <2> QED BY <1>1, <2>1, FramesAreSequences
<1>12. pc' = "ascend" => Todo' = rest
  BY DEF Walked, TodoIn
<1> HIDE DEF rest
<1>13. item.value[1] \in Ends /\ item.value[1] \notin CompositeTypes
       /\ ~TreeWalk!Composite(item.value)
  BY <1>6, <1>7 DEF Ends, CompositeTypes, TreeWalk!Composite
<1>14. TreeWalk!Callback(item) = <<EndOf[t.type]>> /\ TreeWalk!Inside(item) = <<>>
  BY <1>6, <1>13 DEF TreeWalk!Callback, TreeWalk!Inside
<1>15. Call(TreeWalk!Callback(item), item.context, answer)
  BY <1>5, <1>6, <1>14 DEF t
<1>16. TreeWalk!Inside(item) \o rest = rest
  BY <1>11, <1>14, FirstOff
<1>17. lines' = IF client = "formatter" THEN Append(lines, TreeWalk!Line(item)) ELSE lines
  <2>1. Len(stack) = item.depth + (IF item.value[1] \in Ends THEN 1 ELSE 0)
        /\ item.depth \in Nat
    BY <1>1, <1>6, <1>13
  <2> QED BY <1>13, <1>15, <2>1, LinesArePrinted
<1>18. UNCHANGED <<tree, visitor, client>>
  BY DEF Walked
<1> QED BY <1>4, <1>10, <1>11, <1>12, <1>13, <1>15, <1>16, <1>17, <1>18, CallsAreWalked

(* An element is due as the first of its table before a visit descends to   *)
(* it.                                                                     *)
LEMMA ElementIsDue ==
  ASSUME Sound(segments), NEW t, HoldsIn(segments, t), t.count > 0, NEW f, NEW depth
  PROVE  DueOf(segments, t, depth, f)[1]
           = Due(f[ValueOf(t, OffsetAt(t, 0))], ContextOf(t), depth)
<1> DEFINE cellNo == OffsetAt(t, 0)
           g == ValueOf(t, cellNo)
           s == SliceIn(segments, t, f)
<1>1. t.count \in Nat /\ 0 \in 0 .. t.count - 1 /\ 1 \in 1 .. t.count
  BY DEF HoldsIn, Tables
<1>2. s[1] = [key |-> KeyOf(t, cellNo), value |-> f[g]]
  <2>1. SliceIn(segments, t, f)[0 + 1]
          = [key |-> KeyOf(t, OffsetAt(t, 0)), value |-> f[ValueOf(t, OffsetAt(t, 0))]]
    BY <1>1, EntriesAreRead
  <2> QED BY <2>1
<1>3. s[1].key = KeyOf(t, cellNo) /\ s[1].value = f[g]
  <2> HIDE DEF s, g, cellNo
  <2> QED BY <1>2
<1>4. DueOf(segments, t, depth, f)[1]
        = Due(s[1].value, [key |-> s[1].key, in_array |-> t.type = "array",
                           in_object |-> t.type = "object", last |-> 1 = t.count], depth)
  BY <1>1 DEF DueOf
<1>5. ContextOf(t) = [key |-> KeyOf(t, cellNo), in_array |-> t.type = "array",
                      in_object |-> t.type = "object", last |-> 1 = t.count]
  <2>1. (t.count = 1) = (1 = t.count)
    OBVIOUS
  <2> QED BY <2>1 DEF ContextOf, IsLast
<1> HIDE DEF s, g, cellNo
<1>6. DueOf(segments, t, depth, f)[1] = Due(f[g], ContextOf(t), depth)
  BY <1>3, <1>4, <1>5
<1> QED BY <1>6 DEF g, cellNo

(* Descending, a visit does not call back: what is due stays so.           *)
LEMMA DescentIsNotWalked ==
  ASSUME VisitInv, Sound(segments), Reported, Descend, NEW f, Walked(f)
  PROVE  UNCHANGED TreeWalk!vars
<1> DEFINE n     == Len(stack)
           t     == stack[n].table
           front == Front(stack)
           end   == Due(<<EndOf[t.type]>>, stack[n].context, n - 1)
           more  == DueOf(segments, Rest(t), n, f)
           first == DueOf(segments, t, n, f)[1]
           outer == Joined(FramesDue(segments, front, f))
<1>1. /\ n \in Nat \ {0} /\ n \in 1 .. n /\ n - 1 \in Nat /\ Last(stack) = stack[n]
      /\ HoldsIn(segments, t) /\ t \in Tables /\ t.count > 0
      /\ Len(stack') = n /\ stack'[n].table = Rest(t) /\ stack'[n].context = stack[n].context
      /\ \A k \in 1 .. n - 1 : stack'[k] = stack[k]
  BY StackAdvances
<1>2. /\ Len(front) = n - 1 /\ \A k \in 1 .. n - 1 : front[k] = stack[k]
      /\ \E T : outer \in Seq(T)
  <2>1. PICK T : stack \in Seq(T)
    BY DEF VisitInv
  <2>2. Len(front) = n - 1 /\ \A k \in 1 .. n - 1 : front[k] = stack[k]
    BY <1>1, <2>1, FrontOfSequence
  <2>3. \A k \in 1 .. Len(front) : front[k].table \in Tables
    <3> HIDE DEF front
    <3> TAKE k \in 1 .. Len(front)
    <3>1. k \in 1 .. Len(stack) /\ front[k] = stack[k]
      BY <1>1, <2>2
    <3> QED BY <3>1 DEF VisitInv, HoldsIn
  <2> HIDE DEF front
  <2>4. Len(front) \in Nat
    BY <1>1, <2>2
  <2> QED BY <2>2, <2>3, <2>4, FramesAreSequences
<1> HIDE DEF front
<1>3. IsFront(front, stack) /\ IsFront(front, stack')
  BY <1>1, <1>2 DEF IsFront
<1>4. Joined(FramesDue(segments, stack, f)) = FrameDue(segments, stack[n], n, f) \o outer
  BY <1>3, InnermostFirst
<1>5. Joined(FramesDue(segments, stack', f)) = FrameDue(segments, stack'[n], n, f) \o outer
  <2>1. Joined(FramesDue(segments, stack', f))
          = FrameDue(segments, stack'[Len(stack')], Len(stack'), f) \o outer
    BY <1>3, InnermostFirst
  <2> QED BY <1>1, <2>1
<1>6. Rest(t).type = t.type
  BY <1>1, RestOfTable
<1>7. FrameDue(segments, stack[n], n, f) = DueOf(segments, t, n, f) \o <<end>>
  BY DEF FrameDue
<1>8. FrameDue(segments, stack'[n], n, f) = more \o <<end>>
  <2>1. FrameDue(segments, stack'[n], n, f)
          = DueOf(segments, stack'[n].table, n, f)
              \o <<Due(<<EndOf[stack'[n].table.type]>>, stack'[n].context, n - 1)>>
    BY DEF FrameDue
  <2> QED BY <1>1, <1>6, <2>1
<1>9. DueOf(segments, t, n, f) = <<first>> \o more /\ \E T : more \in Seq(T)
  <2> HIDE DEF t, n
  <2> QED BY <1>1, FirstIsDue
<1>10. first = Due(f[current'], context', n)
  <2>1. first = Due(f[ValueOf(t, OffsetAt(t, 0))], ContextOf(t), n)
    BY <1>1, ElementIsDue
  <2>2. current' = ValueOf(t, OffsetAt(t, 0)) /\ context' = ContextOf(t)
    BY <1>1 DEF Descend
  <2> QED BY <2>1, <2>2
<1> HIDE DEF end, more, first, outer
<1>11. ((<<first>> \o more) \o <<end>>) \o outer = <<first>> \o ((more \o <<end>>) \o outer)
  <2>1. PICK T : more \in Seq(T)
    BY <1>9
  <2>2. PICK U : outer \in Seq(U)
    BY <1>2
  <2> DEFINE All == T \cup U \cup {first, end}
  <2>3. /\ more \in Seq(All) /\ outer \in Seq(All)
        /\ <<first>> \in Seq(All) /\ <<end>> \in Seq(All)
    BY <2>1, <2>2
  <2> HIDE DEF All
  <2>4. \A a, b, c \in Seq(All) : (a \o b) \o c = a \o (b \o c) /\ a \o b \in Seq(All)
    <3>1. \A a, b \in Seq(All) : a \o b \in Seq(All)
      BY ConcatProperties, Zenon
    <3>2. \A a, b, c \in Seq(All) : (a \o b) \o c = a \o (b \o c)
      BY ConcatAssociative
    <3> QED BY <3>1, <3>2
  <2>5. (<<first>> \o more) \o <<end>> = <<first>> \o (more \o <<end>>)
        /\ more \o <<end>> \in Seq(All)
    BY <2>3, <2>4
  <2>6. (<<first>> \o (more \o <<end>>)) \o outer = <<first>> \o ((more \o <<end>>) \o outer)
    BY <2>3, <2>4, <2>5
  <2> QED BY <2>5, <2>6
<1>12. pc = "ascend" /\ pc' = "visit" /\ calls' = calls
  BY DEF Descend
<1>13. Todo = FrameDue(segments, stack[n], n, f) \o outer
  BY <1>4, <1>12 DEF Walked, TodoIn
<1>14. Todo' = <<Due(f[current'], context', n)>> \o (FrameDue(segments, stack'[n], n, f) \o outer)
  BY <1>1, <1>5, <1>12 DEF Walked, TodoIn
<1>15. Todo' = Todo
  BY <1>7, <1>8, <1>9, <1>10, <1>11, <1>13, <1>14
<1>16. Status' = Status
  BY <1>12 DEF Status
<1>17. lines' = lines
  BY <1>12 DEF Reported
<1> QED BY <1>12, <1>15, <1>16, <1>17 DEF Walked, TreeWalk!vars

(* So a visit is a walk, whatever it comes to.                             *)
LEMMA VisitIsWalk ==
  ASSUME IInv, TreeInv, WalkInv, IInv', Visit, UNCHANGED docVars, UNCHANGED client, Reported
  PROVE  TreeWalk!Next \/ UNCHANGED TreeWalk!vars
<1>1. DocInv /\ VisitInv /\ MainInv /\ DocInv' /\ VisitInv' /\ Sound(segments)
  BY DEF IInv, DocInv
<1>2. PICK f : f = TreeAt
  OBVIOUS
<1>3. Walked(f)
  BY <1>1, <1>2, VisitsAreWalked
<1>4. CASE VisitScalar
  BY <1>1, <1>3, <1>4, ScalarIsWalked
<1>5. CASE VisitComposite
  BY <1>1, <1>3, <1>5, StartIsWalked
<1>6. CASE Ascend
  BY <1>1, <1>3, <1>6, EndIsWalked
<1>7. CASE Descend
  BY <1>1, <1>3, <1>7, DescentIsNotWalked
<1>8. CASE VisitFails
  <2> DEFINE item == Due(f[current], context, Len(stack))
             rest == Joined(FramesDue(segments, stack, f))
  <2>1. /\ pc = "visit" /\ pc' = "failed" /\ ValueType(current) = "error"
        /\ calls' = calls
    BY <1>8 DEF VisitFails
  <2>2. current \in SpotsIn(segments) /\ current \in Places
    BY <1>1 DEF WalkInv, VisitInv
  <2>3. item.value = TreeWalk!Missing
    <3>1. f[current] = Missing
      BY <1>1, <1>3, <2>1, <2>2, TreeAtHand DEF Walked
    <3> QED BY <3>1 DEF Due, Missing, TreeWalk!Missing
  <2>4. Todo = <<item>> \o rest /\ \E T : rest \in Seq(T)
    BY <1>1, <1>3, <2>1, RestIsSequence DEF Walked, TodoIn
  <2> HIDE DEF item, rest
  <2>5. Head(Todo) = item /\ Todo # <<>>
    BY <2>4, FirstOff
  <2>6. Todo' = <<>> /\ Status = "walking" /\ Status' = "failed"
    BY <2>1 DEF Todo, Status
  <2>7. UNCHANGED <<calls, lines>>
    BY <2>1 DEF Reported
  <2>8. TreeWalk!Fail
    BY <2>3, <2>5, <2>6, <2>7 DEF TreeWalk!Fail
  <2> QED BY <1>3, <2>8 DEF Walked, TreeWalk!Next
<1>9. CASE EndVisit
  <2>1. /\ pc = "ascend" /\ pc' = "done" /\ stack = <<>> /\ calls' = calls
    BY <1>9 DEF EndVisit
  <2>2. Todo = Joined(FramesDue(segments, stack, f))
    BY <1>3, <2>1 DEF Walked, TodoIn
  <2>3. FramesDue(segments, <<>>, f) = <<>>
    BY DEF FramesDue
  <2>4. Todo = <<>>
    BY <2>1, <2>2, <2>3, JoinOfNone
  <2>5. Todo' = <<>> /\ Status = "walking" /\ Status' = "done"
    BY <2>1 DEF Todo, Status
  <2>6. UNCHANGED <<calls, lines>>
    BY <2>1 DEF Reported
  <2>7. TreeWalk!Finish
    BY <2>4, <2>5, <2>6 DEF TreeWalk!Finish
  <2> QED BY <1>3, <2>7 DEF Walked, TreeWalk!Next
<1> QED BY <1>4, <1>5, <1>6, <1>7, <1>8, <1>9 DEF Visit

(* And what else is done with a document is none of it.                    *)
LEMMA StepsAreWalked ==
  IInv /\ TreeInv /\ WalkInv /\ [Next]_vars => [TreeWalk!Next]_(TreeWalk!vars)
<1> SUFFICES ASSUME IInv, TreeInv, WalkInv, [Next]_vars
             PROVE  TreeWalk!Next \/ UNCHANGED TreeWalk!vars
  OBVIOUS
<1>1. DocInv /\ VisitInv /\ IInv' /\ DocInv' /\ VisitInv'
  BY NextKeeps DEF IInv
<1>2. (UNCHANGED <<segments, sorted>> \/ \E h \in Places : Sort(h)) /\ tree' = tree
  BY StepsKeepTrees
<1>3. ASSUME UNCHANGED visitVars, UNCHANGED <<client, lines>> PROVE UNCHANGED TreeWalk!vars
  <2>1. Todo' = Todo
    BY <1>1, <1>2, <1>3, TodoStays
  <2>2. pc' = pc /\ visitor' = visitor /\ calls' = calls
    BY <1>3 DEF visitVars
  <2>3. Status' = Status
    BY <2>2 DEF Status
  <2> QED BY <1>2, <1>3, <2>1, <2>2, <2>3 DEF TreeWalk!vars
<1>4. CASE FormatterSteps
  <2>1. client = "formatter"
    BY <1>4 DEF FormatterSteps
  <2>2. CASE MainGoesOn \/ VisitReturns \/ ErrorCleanup
    BY <1>3, <2>2 DEF MainGoesOn, VisitReturns, ErrorCleanup
  <2>3. CASE Format
    <3>1. Visit /\ UNCHANGED docVars /\ UNCHANGED client /\ Reported
      BY <2>1, <2>3 DEF Format, Reported
    <3> QED BY <1>1, <3>1, VisitIsWalk
  <2> QED BY <1>4, <2>2, <2>3 DEF FormatterSteps
<1>5. CASE VisitorSteps
  <2>1. Visit /\ UNCHANGED docVars /\ UNCHANGED client /\ Reported
    BY <1>5 DEF VisitorSteps, mainVars, Reported
  <2> QED BY <1>1, <2>1, VisitIsWalk
<1>6. CASE client = "navigator" /\ Navigate /\ UNCHANGED <<visitVars, mainVars>>
  BY <1>3, <1>6 DEF mainVars
<1>7. CASE CallbackSorts /\ UNCHANGED <<handle, tables, tree, visitVars, mainVars>>
  BY <1>3, <1>7 DEF mainVars
<1>8. CASE UNCHANGED vars
  BY <1>3, <1>8 DEF vars, mainVars
<1> QED BY <1>4, <1>5, <1>6, <1>7, <1>8 DEF Next

(* At first there is the whole document to walk through.                   *)
LEMMA StartIsAtRoot ==
  Init => WalkInv /\ (ReadAsSpelled => TreeWalk!Init)
<1> SUFFICES ASSUME Init PROVE WalkInv /\ (ReadAsSpelled => TreeWalk!Init)
  OBVIOUS
<1>1. DocInv /\ VisitInv /\ TreeInv
  BY InitHolds, StartRefines DEF IInv
<1>2. /\ pc = "visit" /\ current = First /\ context = Outside /\ stack = <<>>
      /\ calls = <<>> /\ lines = <<>>
  BY DEF Init, VisitInit
<1>3. First \in SpotsIn(segments) /\ First \in Places
  BY DEF SpotsIn, First, Places
<1>4. WalkInv
  BY <1>2, <1>3 DEF WalkInv
<1>5. tree # Missing => segments = <<>> \/ HasTag(segments, First, Values)
  BY TextsAssumption DEF Init, DocumentInit
<1>6. ASSUME ReadAsSpelled PROVE TreeAt[First] = tree
  <2>1. TreeAt[TargetOf(segments, First)] = tree
    BY <1>6, StartRefines DEF RootInv
  <2>2. CASE HasTag(segments, First, {"handle"})
    <3>1. ~HasTag(segments, First, Values) /\ segments # <<>>
      BY <2>2 DEF HasTag, HasCell, Values
    <3>2. TreeAt[First] = TreeIn(segments, First, TreeAt)
      <4>1. AreTrees(segments, SpotsIn(segments), TreeAt)
        BY <1>1, TreesAreRead DEF DocInv, TreeInv, TreeShaped
      <4> DEFINE f == TreeAt
      <4> HIDE DEF f
      <4>2. f = [h \in SpotsIn(segments) |-> TreeIn(segments, h, f)]
        BY <4>1 DEF AreTrees, f
      <4>3. f[First] = TreeIn(segments, First, f)
        BY <1>3, <4>2, Zenon
      <4> QED BY <4>3 DEF f
    <3>3. tree = Missing
      BY <1>5, <3>1
    <3> QED BY <3>1, <3>2, <3>3 DEF TreeIn
  <2>3. CASE ~HasTag(segments, First, {"handle"})
    BY <2>1, <2>3 DEF TargetOf
  <2> QED BY <2>2, <2>3
<1>7. Todo = <<Due(TreeAt[First], Outside, 0)>>
  <2> DEFINE parts == FramesDue(segments, stack, TreeAt)
             item  == Due(TreeAt[current], context, Len(stack))
  <2>1. Todo = <<item>> \o Joined(parts)
    BY <1>1, <1>2, TodoIsRead DEF TodoIn
  <2>2. parts = <<>>
    BY <1>2 DEF FramesDue
  <2>3. Joined(parts) = <<>> /\ Len(stack) = 0
    BY <1>2, <2>2, JoinOfNone
  <2> HIDE DEF item, parts
  <2>4. <<item>> \o <<>> = <<item>>
    OBVIOUS
  <2> QED BY <1>2, <2>1, <2>3, <2>4 DEF item
<1>8. ASSUME ReadAsSpelled PROVE TreeWalk!Init
  <2>1. Status = "walking"
    BY <1>2 DEF Status
  <2>2. Todo = <<TreeWalk!Item(tree, TreeWalk!Outside, 0)>>
    BY <1>6, <1>7, <1>8 DEF Due, TreeWalk!Item, Outside, TreeWalk!Outside
  <2> QED BY <1>2, <2>1, <2>2 DEF TreeWalk!Init
<1> QED BY <1>4, <1>8

(* thsn_document_visit (visitor.c:40) with its stack of tables, which are   *)
(* consumed from the left, and formater.c's callbacks with their offset:    *)
(* in a document of any size and depth, with any callbacks, whatever they   *)
(* answer and whatever objects they sort meanwhile, the visit calls back    *)
(* for every value once, in the order of the text, with its key and place,  *)
(* and the program prints each as deep as it lies.                         *)
THEOREM VisitsAreWalks == Spec /\ ReadAsSpelled => ImplementsTreeWalk
<1>1. Init /\ ReadAsSpelled => IInv /\ TreeInv /\ WalkInv /\ TreeWalk!Init
  BY InitHolds, StartRefines, StartIsAtRoot
<1>2. IInv /\ TreeInv /\ WalkInv /\ [Next]_vars => (IInv /\ TreeInv /\ WalkInv)'
  BY NextKeeps, NextKeepsTrees, NextKeepsWalk
<1>3. IInv /\ TreeInv /\ WalkInv /\ [Next]_vars => [TreeWalk!Next]_(TreeWalk!vars)
  BY StepsAreWalked
<1> QED BY <1>1, <1>2, <1>3, PTL DEF Spec, ImplementsTreeWalk, TreeWalk!Spec
=============================================================================
