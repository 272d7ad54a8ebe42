---------------------------- MODULE AnalysisProofs ----------------------------
(***************************************************************************)
(* Proofs about the analysis of layers for every value of its constants:   *)
(* every tree a squash goes through is rooted, the index of a layer        *)
(* accounts for its files, and the squashed tree is the overlay of the     *)
(* layer over the one beneath, whatever order its members came in; of any  *)
(* two points, that their comparison adds up, that browsing it by what     *)
(* changed finds every change, that its pages resume where they ended, and *)
(* that a level sent in advance is the page that would have been sent; and *)
(* that the graph of two stacks of layers says what is so.                 *)
(***************************************************************************)
EXTENDS Analysis, FiniteSums, SequenceTheorems

-------------------------------------------------------------------------------
(* The inductive invariant, part by part.                                    *)

\* The trees: functions from paths to nodes.
Trees == UNION {[S -> Node] : S \in SUBSET Path}

\* What each phase has to do is of the layer, and the trees are trees.
ShapeInv ==
    /\ index \in Layer
    /\ phase \in Phase
    /\ phase = "index" => todo = {}
    /\ phase = "opaques" => todo \subseteq Markers("opaque")
    /\ phase = "whiteouts" => todo \subseteq Markers("whiteout")
    /\ phase = "entries" => todo \subseteq DOMAIN index.entries
    /\ tree \in Trees /\ points \in Seq(Trees) /\ Len(points) >= 1

\* The layer is finite, and its bytes are its files'.
BytesBy(entries) == [p \in DOMAIN entries |-> Bytes(entries[p])]
LedgerInv ==
    /\ IsFiniteSet(DOMAIN index.entries) /\ IsFiniteSet(index.markers)
    /\ index.bytes = SumOver(BytesBy(index.entries), DOMAIN index.entries)
    /\ EntryCount(index) <= MaxEntries

\* The directories that some entries of a layer lie in, what is left of the tree
\* beneath by the layer's markers and these entries, and their overlay.
DirsOf(own) == {p \in Path : \E q \in own : p \in Above[q]}
LeftBy(lower, x, own) ==
    {p \in DOMAIN lower :
        /\ \A m \in x.markers :
            /\ m.kind = "whiteout" => p \notin Beneath(m.path) \cup {m.path}
            /\ m.kind = "opaque" => p \notin Beneath(m.path)
        /\ \A q \in Above[p] \cap own : x.entries[q].kind = "dir"}
OverlayOf(lower, x, own) ==
    LET dirs == DirsOf(own)
        left == LeftBy(lower, x, own)
    IN  [p \in own \cup dirs \cup left |->
           IF p \in own /\ (p \notin dirs \/ x.entries[p].kind = "dir") THEN NodeFrom(x.entries[p])
           ELSE IF p \in dirs /\ (p \in own \/ p \notin left \/ lower[p].kind # "dir") THEN Implicit
           ELSE lower[p]]

\* The tree beneath the layer.
Lower == points[Len(points)]

\* How far the layer has been applied.
OverlayInv ==
    /\ phase = "index" => tree = Lower
    /\ phase = "opaques" =>
            tree = Restrict(Lower, {p \in DOMAIN Lower :
                                        \A d \in Markers("opaque") \ todo : p \notin Beneath(d)})
    /\ phase = "whiteouts" =>
            tree = Restrict(Lower, {p \in DOMAIN Lower :
                        /\ \A d \in Markers("opaque") : p \notin Beneath(d)
                        /\ \A w \in Markers("whiteout") \ todo : p \notin Beneath(w) \cup {w}})
    /\ phase = "entries" =>
            /\ tree = OverlayOf(Lower, index, DOMAIN index.entries \ todo)
            /\ \A p \in DOMAIN index.entries \ todo : Above[p] \cap todo = {}

-------------------------------------------------------------------------------
(* Trees.                                                                    *)

\* A tree is determined by its paths and what is at them.
LEMMA TreeForm ==
    ASSUME NEW t \in Trees
    PROVE  /\ DOMAIN t \in SUBSET Path /\ t = [p \in DOMAIN t |-> t[p]]
           /\ \A p \in DOMAIN t : t[p] \in Node
           /\ IsTree(t)
BY DEF Trees, IsTree

\* So two trees with the same are the same.
LEMMA TreesEqual ==
    ASSUME NEW t, NEW u, t = [p \in DOMAIN t |-> t[p]], u = [p \in DOMAIN u |-> u[p]],
           DOMAIN t = DOMAIN u, \A p \in DOMAIN t : t[p] = u[p]
    PROVE  t = u
<1>1. [p \in DOMAIN t |-> t[p]] = [p \in DOMAIN u |-> u[p]] OBVIOUS
<1> QED BY <1>1

\* What functions from paths to nodes are trees.
LEMMA TreeMade ==
    ASSUME NEW t, t = [p \in DOMAIN t |-> t[p]], DOMAIN t \in SUBSET Path,
           \A p \in DOMAIN t : t[p] \in Node
    PROVE  t \in Trees
<1>1. t \in [DOMAIN t -> Node] OBVIOUS
<1> QED BY <1>1 DEF Trees

\* A part of a tree is a tree.
LEMMA PartOfTree ==
    ASSUME NEW t \in Trees, NEW S \in SUBSET DOMAIN t
    PROVE  /\ Restrict(t, S) \in Trees /\ DOMAIN Restrict(t, S) = S
           /\ \A p \in S : Restrict(t, S)[p] = t[p]
<1>1. S \in SUBSET Path /\ \A p \in S : t[p] \in Node BY TreeForm
<1>2. [p \in S |-> t[p]] \in [S -> Node] BY <1>1
<1> QED BY <1>1, <1>2 DEF Trees, Restrict

\* An implicit directory is a directory.
LEMMA ImplicitIsDir == Implicit \in Node /\ Implicit.kind = "dir"
BY AttrAssumption DEF Implicit, Node, Kind

\* The node of an entry has its kind.
LEMMA NodeOfEntry == ASSUME NEW e \in Entry PROVE NodeFrom(e) \in Node /\ NodeFrom(e).kind = e.kind
BY DEF NodeFrom, Node, Entry

\* What lies beneath: whatever is beneath something beneath, is beneath; nothing
\* is beneath itself.
LEMMA BeneathDown ==
    ASSUME NEW d \in Path \cup {Root}, NEW p \in Path
    PROVE  /\ \A a \in Above[p] : a \in Path
           /\ \A a \in Above[p] : a \in Beneath(d) => p \in Beneath(d)
           /\ d \in Above[p] => p \in Beneath(d)
           /\ d # Root /\ p \in Beneath(d) => d \in Above[p]
           /\ p \notin Above[p]
           /\ \A a \in Above[p] : a \notin Beneath(p)
           /\ Beneath(d) \subseteq Path
BY AboveAssumption, RootAssumption DEF Beneath

-------------------------------------------------------------------------------
(* The operations of the loops keep a tree rooted.                           *)

\* An opaque marker: what is beneath a directory goes, and if nothing is a
\* directory there, there was nothing beneath.
LEMMA ClearedTree ==
    ASSUME NEW t \in Trees, Rooted(t), NEW d \in Path \cup {Root}
    PROVE  /\ Cleared(t, d) = Restrict(t, DOMAIN t \ Beneath(d))
           /\ Cleared(t, d) \in Trees /\ Rooted(Cleared(t, d))
<1> DEFINE S == DOMAIN t \ Beneath(d)
           u == Restrict(t, S)
<1>1. u \in Trees /\ DOMAIN u = S /\ \A p \in S : u[p] = t[p] BY PartOfTree
<1>2. Cleared(t, d) = u
  <2>1. CASE d = Root \/ IsDir(t, d) BY <2>1 DEF Cleared
  <2>2. CASE ~(d = Root \/ IsDir(t, d))
    <3>1. S = DOMAIN t BY <2>2, TreeForm, BeneathDown DEF Rooted
    <3>2. t = u BY <1>1, <3>1, TreeForm DEF Restrict
    <3> QED BY <2>2, <3>2 DEF Cleared
  <2> QED BY <2>1, <2>2
<1>3. Rooted(u)
  <2> SUFFICES ASSUME NEW p \in S, NEW a \in Above[p] PROVE IsDir(u, a)
      BY <1>1 DEF Rooted
  <2>1. IsDir(t, a) /\ p \in Path BY TreeForm DEF Rooted
  <2>2. a \notin Beneath(d) BY <2>1, BeneathDown
  <2> QED BY <1>1, <2>1, <2>2 DEF IsDir
<1> QED BY <1>1, <1>2, <1>3

\* A whiteout: a path and what is beneath it goes.
LEMMA RemovedTree ==
    ASSUME NEW t \in Trees, Rooted(t), NEW w \in Path
    PROVE  Removed(t, w) \in Trees /\ Rooted(Removed(t, w))
<1> DEFINE S == DOMAIN t \ (Beneath(w) \cup {w})
           u == Restrict(t, S)
<1>1. u \in Trees /\ DOMAIN u = S /\ \A p \in S : u[p] = t[p] BY PartOfTree
<1>2. Rooted(u)
  <2> SUFFICES ASSUME NEW p \in S, NEW a \in Above[p] PROVE IsDir(u, a)
      BY <1>1 DEF Rooted
  <2>1. IsDir(t, a) /\ p \in Path BY TreeForm DEF Rooted
  <2>2. a \notin Beneath(w) /\ a # w BY <2>1, BeneathDown
  <2> QED BY <1>1, <2>1, <2>2 DEF IsDir
<1> QED BY <1>1, <1>2 DEF Removed

\* The directories above an entry: there, or made.
LEMMA WithDirsTree ==
    ASSUME NEW t \in Trees, Rooted(t), NEW p \in Path
    PROVE  /\ WithDirs(t, p) \in Trees /\ Rooted(WithDirs(t, p))
           /\ DOMAIN WithDirs(t, p) = DOMAIN t \cup Above[p]
           /\ \A a \in Above[p] : IsDir(WithDirs(t, p), a)
<1> DEFINE S == DOMAIN t \cup Above[p]
           F(q) == IF q \in Above[p] /\ ~IsDir(t, q) THEN Implicit ELSE t[q]
           u == [q \in S |-> F(q)]
<1>1. S \in SUBSET Path BY TreeForm, BeneathDown
<1>2. \A q \in S : F(q) \in Node BY TreeForm, ImplicitIsDir DEF IsDir
<1>3. u \in Trees
  <2>1. DOMAIN u = S /\ (\A q \in S : u[q] = F(q)) /\ u = [q \in DOMAIN u |-> u[q]] OBVIOUS
  <2> HIDE DEF S, F, u
  <2> QED BY <1>1, <1>2, <2>1, TreeMade
<1>4. \A a \in Above[p] : IsDir(u, a) BY ImplicitIsDir DEF IsDir
<1>5. \A a : IsDir(t, a) => IsDir(u, a) BY DEF IsDir
<1>6. Rooted(u)
  <2> SUFFICES ASSUME NEW q \in S, NEW a \in Above[q] PROVE IsDir(u, a) BY DEF Rooted
  <2>1. CASE q \in DOMAIN t BY <1>5, <2>1 DEF Rooted
  <2>2. CASE q \in Above[p]
    <3>1. a \in Above[p] BY <2>2, AboveAssumption
    <3> QED BY <1>4, <3>1
  <2> QED BY <2>1, <2>2
<1> QED BY <1>3, <1>4, <1>6 DEF WithDirs

\* An entry: nothing is beneath it, unless it is a directory.
LEMMA UpsertedTree ==
    ASSUME NEW t \in Trees, Rooted(t), NEW p \in Path, NEW e \in Entry
    PROVE  Upserted(t, p, e) \in Trees /\ Rooted(Upserted(t, p, e))
<1> DEFINE u == WithDirs(t, p)
           kept == IF e.kind = "dir" THEN DOMAIN u ELSE DOMAIN u \ Beneath(p)
           S == kept \cup {p}
           F(q) == IF q = p THEN NodeFrom(e) ELSE u[q]
           v == [q \in S |-> F(q)]
<1>0. /\ u \in Trees /\ Rooted(u) /\ \A a \in Above[p] : IsDir(u, a)
      /\ DOMAIN u \in SUBSET Path /\ \A q \in DOMAIN u : u[q] \in Node
    BY WithDirsTree, TreeForm
<1>1. Upserted(t, p, e) = v BY DEF Upserted
<1> HIDE DEF u
<1>2. S \in SUBSET Path /\ \A q \in S : F(q) \in Node BY <1>0, NodeOfEntry
<1>3. v \in Trees
  <2>1. DOMAIN v = S /\ (\A q \in S : v[q] = F(q)) /\ v = [q \in DOMAIN v |-> v[q]] OBVIOUS
  <2> HIDE DEF S, F, v
  <2> QED BY <1>2, <2>1, TreeMade
<1>4. \A a : IsDir(u, a) /\ a \in S /\ a # p => IsDir(v, a) BY DEF IsDir
<1>5. Rooted(v)
  <2> SUFFICES ASSUME NEW q \in S, NEW a \in Above[q] PROVE IsDir(v, a) BY DEF Rooted
  <2>1. a \in Path /\ q \in Path BY <1>2, BeneathDown
  <2>2. CASE q = p
    <3>1. IsDir(u, a) /\ a # p /\ a \notin Beneath(p) BY <1>0, <2>1, <2>2, BeneathDown
    <3> QED BY <1>4, <3>1 DEF IsDir
  <2>3. CASE q # p
    <3>1. IsDir(u, a) BY <1>0, <2>3 DEF Rooted
    <3>2. CASE a = p
      <4>1. e.kind = "dir" BY <2>1, <2>3, <3>2, BeneathDown
      <4> QED BY <3>2, <4>1, NodeOfEntry DEF IsDir
    <3>3. CASE a # p
      <4>1. e.kind = "dir" \/ a \notin Beneath(p) BY <2>1, <2>3, BeneathDown
      <4> QED BY <1>4, <3>1, <3>3, <4>1 DEF IsDir
    <3> QED BY <3>2, <3>3
  <2> QED BY <2>2, <2>3
<1> QED BY <1>1, <1>3, <1>5

-------------------------------------------------------------------------------
(* The overlay, one entry after the other.                                   *)

\* The entries of a layer.
LEMMA EntryTyped ==
    ASSUME NEW x \in Layer
    PROVE  /\ DOMAIN x.entries \in SUBSET Path /\ x.markers \in SUBSET Marker /\ x.bytes \in Nat
           /\ \A p \in DOMAIN x.entries : x.entries[p] \in Entry
BY DEF Layer

\* With all its entries it is the overlay that was promised.
LEMMA WholeOverlay ==
    ASSUME NEW lower, NEW x
    PROVE  OverlayOf(lower, x, DOMAIN x.entries) = Overlay(lower, x)
<1>1. DirsOf(DOMAIN x.entries) = {p \in Path : HoldsEntries(x, p)} BY DEF DirsOf, HoldsEntries
<1>2. LeftBy(lower, x, DOMAIN x.entries) = {p \in DOMAIN lower : Survives(lower, x, p)}
    BY DEF LeftBy, Survives
<1> QED BY <1>1, <1>2 DEF OverlayOf, Overlay

\* With none of them it is the tree beneath without what the markers hide.
LEMMA BareOverlay ==
    ASSUME NEW lower \in Trees, NEW x \in Layer
    PROVE  OverlayOf(lower, x, {}) = Restrict(lower, LeftBy(lower, x, {}))
<1>1. DirsOf({}) = {} BY DEF DirsOf
<1> QED BY <1>1 DEF OverlayOf, Restrict

\* upsert adds an entry to the overlay, if none that lies in it came before.
LEMMA UpsertOverlays ==
    ASSUME NEW lower \in Trees, NEW x \in Layer, NEW own \in SUBSET DOMAIN x.entries,
           NEW p \in DOMAIN x.entries \ own, \A q \in own : p \notin Above[q]
    PROVE  Upserted(OverlayOf(lower, x, own), p, x.entries[p]) = OverlayOf(lower, x, own \cup {p})
<1> DEFINE e == x.entries[p]
           all == own \cup {p}
           D == DirsOf(own)
           L == LeftBy(lower, x, own)
           DD == DirsOf(all)
           LL == LeftBy(lower, x, all)
           t == OverlayOf(lower, x, own)
           w == WithDirs(t, p)
           u == Upserted(t, p, e)
           v == OverlayOf(lower, x, all)
<1>0. /\ p \in Path /\ own \in SUBSET Path /\ L \in SUBSET Path /\ Above[p] \in SUBSET Path
      /\ D \in SUBSET Path
    BY EntryTyped, TreeForm, BeneathDown DEF LeftBy, DirsOf
<1>1. DD = D \cup Above[p] /\ p \notin D BY <1>0 DEF DirsOf
<1>2. LL = {q \in L : e.kind = "dir" \/ p \notin Above[q]} BY DEF LeftBy
<1>3. /\ \A q \in own \cup D : p \notin Above[q]
      /\ \A q \in Above[p] : p \notin Above[q] /\ q # p
  <2>1. \A q \in D : p \notin Above[q]
      BY <1>0, AboveAssumption DEF DirsOf
  <2> QED BY <1>0, <2>1, BeneathDown, AboveAssumption
<1>4. Beneath(p) = {q \in Path : p \in Above[q]} BY <1>0, RootAssumption DEF Beneath
<1>5. DOMAIN t = own \cup D \cup L /\ DOMAIN v = all \cup DD \cup LL BY DEF OverlayOf
<1>6. \A q \in DOMAIN t :
        t[q] = IF q \in own /\ (q \notin D \/ x.entries[q].kind = "dir") THEN NodeFrom(x.entries[q])
               ELSE IF q \in D /\ (q \in own \/ q \notin L \/ lower[q].kind # "dir") THEN Implicit
               ELSE lower[q]
    BY DEF OverlayOf
<1>7. \A q \in DOMAIN v :
        v[q] = IF q \in all /\ (q \notin DD \/ x.entries[q].kind = "dir") THEN NodeFrom(x.entries[q])
               ELSE IF q \in DD /\ (q \in all \/ q \notin LL \/ lower[q].kind # "dir") THEN Implicit
               ELSE lower[q]
    BY DEF OverlayOf
<1>8. /\ DOMAIN w = DOMAIN t \cup Above[p]
      /\ \A q \in DOMAIN w : w[q] = IF q \in Above[p] /\ ~IsDir(t, q) THEN Implicit ELSE t[q]
    BY DEF WithDirs
<1>9. /\ DOMAIN u = (IF e.kind = "dir" THEN DOMAIN w ELSE DOMAIN w \ Beneath(p)) \cup {p}
      /\ \A q \in DOMAIN u : u[q] = IF q = p THEN NodeFrom(e) ELSE w[q]
    BY DEF Upserted
<1>10. u = [q \in DOMAIN u |-> u[q]] /\ v = [q \in DOMAIN v |-> v[q]] BY DEF Upserted, OverlayOf
<1>11. \A q \in own : x.entries[q] \in Entry BY EntryTyped
<1> HIDE DEF D, L, DD, LL, t, w, u, v, e
<1>12. DOMAIN u = DOMAIN v
    BY <1>0, <1>1, <1>2, <1>3, <1>4, <1>5, <1>8, <1>9
<1>13. ASSUME NEW q \in DOMAIN v PROVE u[q] = v[q]
  <2>1. CASE q = p
    <3>1. v[p] = NodeFrom(e)
      <4>1. p \in all /\ p \notin DD BY <1>1, <1>3
      <4> QED BY <1>7, <2>1, <4>1 DEF e
    <3> QED BY <1>9, <1>12, <2>1, <3>1
  <2>2. CASE q # p /\ q \notin Above[p]
    <3>1. u[q] = t[q] /\ q \in DOMAIN t
        BY <1>1, <1>2, <1>5, <1>8, <1>9, <1>12, <2>2
    <3>2. (q \in DD <=> q \in D) /\ (q \in all <=> q \in own) BY <1>1, <2>2
    <3>3. q \in LL <=> q \in L
      <4>1. e.kind = "dir" \/ p \notin Above[q]
          BY <1>2, <1>3, <1>5, <3>2
      <4> QED BY <1>2, <4>1
    <3> QED BY <1>6, <1>7, <3>1, <3>2, <3>3
  <2>3. CASE q \in Above[p]
    <3>1. q # p /\ q \in DD /\ (q \in LL <=> q \in L) /\ (q \in all <=> q \in own)
        BY <1>1, <1>2, <1>3, <2>3
    <3>2. u[q] = IF IsDir(t, q) THEN t[q] ELSE Implicit
        BY <1>8, <1>9, <1>12, <2>3, <3>1
    <3>3. CASE q \in own /\ x.entries[q].kind = "dir"
      <4>1. t[q] = NodeFrom(x.entries[q]) /\ q \in DOMAIN t BY <1>5, <1>6, <3>3
      <4>2. IsDir(t, q) BY <1>11, <3>3, <4>1, NodeOfEntry DEF IsDir
      <4> QED BY <1>7, <3>1, <3>2, <3>3, <4>1, <4>2
    <3>4. CASE q \in own /\ x.entries[q].kind # "dir"
      <4>1. v[q] = Implicit BY <1>7, <3>1, <3>4
      <4>2. CASE q \in D
        <5>1. t[q] = Implicit BY <1>5, <1>6, <3>4, <4>2
        <5> QED BY <3>2, <4>1, <5>1
      <4>3. CASE q \notin D
        <5>1. t[q] = NodeFrom(x.entries[q]) BY <1>5, <1>6, <3>4, <4>3
        <5>2. ~IsDir(t, q) BY <1>11, <3>4, <5>1, NodeOfEntry DEF IsDir
        <5> QED BY <3>2, <4>1, <5>2
      <4> QED BY <4>2, <4>3
    <3>5. CASE q \notin own /\ q \in L /\ lower[q].kind = "dir"
      <4>1. t[q] = lower[q] /\ q \in DOMAIN t BY <1>5, <1>6, <3>5
      <4>2. IsDir(t, q) BY <3>5, <4>1 DEF IsDir
      <4> QED BY <1>7, <3>1, <3>2, <3>5, <4>1, <4>2
    <3>6. CASE q \notin own /\ ~(q \in L /\ lower[q].kind = "dir")
      <4>1. v[q] = Implicit BY <1>7, <3>1, <3>6
      <4>2. CASE q \in D
        <5>1. t[q] = Implicit BY <1>5, <1>6, <3>6, <4>2
        <5> QED BY <3>2, <4>1, <5>1
      <4>3. CASE q \notin D
        <5>1. ~IsDir(t, q) BY <1>5, <1>6, <3>6, <4>3 DEF IsDir
        <5> QED BY <3>2, <4>1, <5>1
      <4> QED BY <4>2, <4>3
    <3> QED BY <3>3, <3>4, <3>5, <3>6
  <2> QED BY <2>1, <2>2, <2>3
<1>14. u = v BY <1>10, <1>12, <1>13, TreesEqual
<1> QED BY <1>14 DEF u, v, t, e

-------------------------------------------------------------------------------
(* The index of a layer.                                                     *)

\* The property TLC checks is the equation the proofs are about.
LEMMA LedgerForm ==
    LedgerExact <=> /\ index.bytes = SumOver(BytesBy(index.entries), DOMAIN index.entries)
                    /\ EntryCount(index) <= MaxEntries
<1> DEFINE D == DOMAIN index.entries
           b == BytesBy(index.entries)
           A(k) == [s \in SUBSET D |->
                        IF s = {} THEN 0 ELSE Bytes(index.entries[Pick(s)]) + k[s \ {Pick(s)}]]
           B(k) == [s \in SUBSET D |-> IF s = {} THEN 0 ELSE b[Pick(s)] + k[s \ {Pick(s)}]]
<1>1. MapThenSumSet(LAMBDA p : Bytes(index.entries[p]), D) = (CHOOSE k : k = A(k))[D]
    BY DEF MapThenSumSet, MapThenFoldSet, Pick
<1>2. SumOver(b, D) = (CHOOSE k : k = B(k))[D]
    BY DEF SumOver, MapThenSumSet, MapThenFoldSet, Pick
<1>3. \A k : A(k) = B(k)
  <2> SUFFICES ASSUME NEW k, NEW s \in SUBSET D, s # {}
               PROVE  Bytes(index.entries[Pick(s)]) = b[Pick(s)]
      OBVIOUS
  <2>1. Pick(s) \in s BY DEF Pick
  <2> QED BY <2>1 DEF BytesBy
<1> HIDE DEF A, B
<1>4. (CHOOSE k : k = A(k)) = (CHOOSE k : k = B(k)) BY <1>3
<1> QED BY <1>1, <1>2, <1>4 DEF LedgerExact

\* The bytes of an entry are a number.
LEMMA BytesTyped == ASSUME NEW e \in Entry PROVE Bytes(e) \in Nat
BY ContentAssumption DEF Bytes, Entry

\* The empty layer.
LEMMA NoEntriesTyped ==
    /\ NoEntries \in Layer /\ IsFiniteSet(DOMAIN NoEntries.entries) /\ IsFiniteSet(NoEntries.markers)
    /\ NoEntries.bytes = SumOver(BytesBy(NoEntries.entries), DOMAIN NoEntries.entries)
    /\ EntryCount(NoEntries) <= MaxEntries
<1>1. EmptyTree \in [{} -> Entry] BY DEF EmptyTree
<1>2. EmptyTree \in UNION {[S -> Entry] : S \in SUBSET Path} BY <1>1
<1>3. NoEntries \in Layer BY <1>2 DEF NoEntries, Layer
<1>4. DOMAIN NoEntries.entries = {} /\ NoEntries.markers = {} /\ NoEntries.bytes = 0
    BY DEF NoEntries, EmptyTree
<1>5. EntryCount(NoEntries) = 0
  <2>1. EntryCount(NoEntries) = Cardinality({}) + Cardinality({}) BY <1>4 DEF EntryCount
  <2> QED BY <2>1, FS_EmptySet
<1> QED BY <1>3, <1>4, <1>5, FS_EmptySet, SumEmpty, MaxEntriesAssumption

\* put replaces a path's bytes by those of its last member, and takes a place
\* only for a new path.
LEMMA EntryAdded ==
    ASSUME index \in Layer, LedgerInv, NEW p \in Path, NEW e \in Entry, AddEntry(p, e)
    PROVE  index' \in Layer /\ LedgerInv'
<1> DEFINE D == DOMAIN index.entries
           f == BytesBy(index.entries)
           new == [q \in D \cup {p} |-> IF q = p THEN e ELSE index.entries[q]]
           g == BytesBy(new)
           b == index.bytes - (IF p \in D THEN Bytes(index.entries[p]) ELSE 0) + Bytes(e)
<1>0. /\ D \in SUBSET Path /\ \A q \in D : index.entries[q] \in Entry
      /\ index.bytes \in Nat /\ index.markers \in SUBSET Marker
      /\ index = [entries |-> index.entries, markers |-> index.markers, bytes |-> index.bytes]
    BY EntryTyped DEF Layer
<1>1. index'.entries = new /\ index'.markers = index.markers /\ index'.bytes = b
      /\ index' = [entries |-> new, markers |-> index.markers, bytes |-> b]
    BY <1>0 DEF AddEntry, Put
<1>2. \A q \in D \cup {p} : new[q] \in Entry BY <1>0
<1>3. new \in UNION {[S -> Entry] : S \in SUBSET Path}
  <2>1. new \in [D \cup {p} -> Entry] BY <1>2
  <2> HIDE DEF new
  <2> QED BY <1>0, <2>1
<1>4. /\ \A q \in D : f[q] \in Nat /\ f[q] = Bytes(index.entries[q])
      /\ \A q \in D \cup {p} : g[q] \in Nat
      /\ g[p] = Bytes(e) /\ \A q \in D \ {p} : g[q] = f[q]
    BY <1>0, <1>2, BytesTyped DEF BytesBy
<1>5. IsFiniteSet(D) /\ IsFiniteSet(index.markers) /\ index.bytes = SumOver(f, D)
      /\ EntryCount(index) <= MaxEntries
    BY DEF LedgerInv
<1>6. SumOver(f, D) \in Nat BY <1>4, <1>5, SumTyped
<1>7. b = SumOver(g, D \cup {p})
  <2> HIDE DEF f, g, D, new
  <2>1. CASE p \in D
    <3>1. SumOver(g, D) = SumOver(f, D) - f[p] + g[p]
      <4>1. \A q \in D : f[q] \in Int /\ g[q] \in Int BY <1>4
      <4> QED BY <1>4, <1>5, <2>1, <4>1, SumChange
    <3>2. D \cup {p} = D BY <2>1
    <3>3. b = SumOver(f, D) - f[p] + g[p] BY <1>4, <1>5, <2>1
    <3> QED BY <3>1, <3>2, <3>3
  <2>2. CASE p \notin D
    <3>1. SumOver(g, D \cup {p}) = g[p] + SumOver(g, D)
      <4>1. \A q \in D \cup {p} : g[q] \in Int BY <1>4
      <4> QED BY <1>5, <2>2, <4>1, SumInsert
    <3>2. SumOver(g, D) = SumOver(f, D)
      <4>1. \A q \in D : g[q] = f[q] BY <1>4, <2>2
      <4> QED BY <1>5, <4>1, SumSame
    <3>3. b = SumOver(f, D) + g[p] BY <1>4, <1>5, <1>6, <2>2
    <3> QED BY <1>4, <1>6, <3>1, <3>2, <3>3
  <2> QED BY <2>1, <2>2
<1>8. b \in Nat
  <2>1. IsFiniteSet(D \cup {p}) BY <1>5, FS_AddElement
  <2> HIDE DEF b, g, D
  <2> QED BY <1>4, <1>7, <2>1, SumTyped
<1>9. DOMAIN new = D \cup {p} /\ IsFiniteSet(D \cup {p}) BY <1>5, FS_AddElement
<1>10. Cardinality(D \cup {p}) + Cardinality(index.markers) <= MaxEntries
  <2>1. /\ Cardinality(D) \in Nat /\ Cardinality(index.markers) \in Nat
        /\ Cardinality(D \cup {p}) = IF p \in D THEN Cardinality(D) ELSE Cardinality(D) + 1
      BY <1>5, FS_CardinalityType, FS_AddElement
  <2>2. EntryCount(index) = Cardinality(D) + Cardinality(index.markers) BY DEF EntryCount
  <2>3. p \in D \/ ~(EntryCount(index) >= MaxEntries) BY DEF AddEntry, Full
  <2> HIDE DEF D
  <2> QED BY <1>5, <2>1, <2>2, <2>3, MaxEntriesAssumption
<1>11. EntryCount(index') <= MaxEntries BY <1>1, <1>9, <1>10 DEF EntryCount
<1> HIDE DEF new, b
<1>12. index' \in Layer BY <1>0, <1>1, <1>3, <1>8 DEF Layer
<1> QED BY <1>1, <1>5, <1>7, <1>9, <1>11, <1>12 DEF LedgerInv

\* A marker takes a place, too, unless it is there.
LEMMA MarkerAdded ==
    ASSUME index \in Layer, LedgerInv, NEW m \in Marker, AddMarker(m)
    PROVE  index' \in Layer /\ LedgerInv'
<1> DEFINE M == index.markers
           D == DOMAIN index.entries
<1>1. /\ index' = [index EXCEPT !.markers = M \cup {m}]
      /\ m \in M \/ ~(EntryCount(index) >= MaxEntries)
    BY DEF AddMarker, Full
<1>2. /\ index'.entries = index.entries /\ index'.markers = M \cup {m}
      /\ index'.bytes = index.bytes /\ index' \in Layer
    BY <1>1 DEF Layer
<1>3. IsFiniteSet(D) /\ IsFiniteSet(M) /\ index.bytes = SumOver(BytesBy(index.entries), D)
      /\ EntryCount(index) <= MaxEntries
    BY DEF LedgerInv
<1>4. /\ IsFiniteSet(M \cup {m}) /\ Cardinality(D) \in Nat /\ Cardinality(M) \in Nat
      /\ Cardinality(M \cup {m}) = IF m \in M THEN Cardinality(M) ELSE Cardinality(M) + 1
    BY <1>3, FS_CardinalityType, FS_AddElement
<1>5. EntryCount(index) = Cardinality(D) + Cardinality(M) BY DEF EntryCount
<1>6. EntryCount(index') = Cardinality(D) + Cardinality(M \cup {m}) BY <1>2 DEF EntryCount
<1> HIDE DEF M, D
<1>7. EntryCount(index') <= MaxEntries
    BY <1>1, <1>3, <1>4, <1>5, <1>6, MaxEntriesAssumption
<1> QED BY <1>2, <1>3, <1>4, <1>7 DEF LedgerInv, D

-------------------------------------------------------------------------------
(* Every step of the squasher.                                               *)

\* The inductive invariant: beside the parts above, every tree is rooted.
IndInv == ShapeInv /\ TreeRooted /\ LedgerInv /\ OverlayInv

\* Where the markers of a layer are, and that the set of their paths stands for them.
LEMMA MarkersTyped ==
    ASSUME index \in Layer
    PROVE  /\ Markers("opaque") \subseteq Path \cup {Root} /\ Markers("whiteout") \subseteq Path
           /\ \A p : (\A m \in index.markers : m.kind = "opaque" => p \notin Beneath(m.path))
                        <=> \A d \in Markers("opaque") : p \notin Beneath(d)
           /\ \A p : (\A m \in index.markers :
                            m.kind = "whiteout" => p \notin Beneath(m.path) \cup {m.path})
                        <=> \A w \in Markers("whiteout") : p \notin Beneath(w) \cup {w}
<1>1. \A m \in index.markers : /\ m.kind = "opaque" => m.path \in Path \cup {Root}
                               /\ m.kind = "whiteout" => m.path \in Path
    BY EntryTyped DEF Marker
<1> QED BY <1>1 DEF Markers

\* A part of a part is a part.
LEMMA RestrictTwice ==
    ASSUME NEW t, NEW S \in SUBSET DOMAIN t, NEW T \in SUBSET S
    PROVE  Restrict(Restrict(t, S), T) = Restrict(t, T)
<1>1. \A p \in T : Restrict(t, S)[p] = t[p] BY DEF Restrict
<1> QED BY <1>1 DEF Restrict

\* The tree beneath a layer is a rooted tree.
LEMMA LowerTyped == ASSUME IndInv PROVE Lower \in Trees /\ Rooted(Lower) /\ Len(points) \in DOMAIN points
<1>1. points \in Seq(Trees) /\ Len(points) >= 1 /\ \A n \in DOMAIN points : Rooted(points[n])
    BY DEF IndInv, ShapeInv, TreeRooted
<1>2. Len(points) \in DOMAIN points BY <1>1
<1> QED BY <1>1, <1>2 DEF Lower

\* The invariant holds of the first state.
LEMMA InitInv == ASSUME Init PROVE IndInv
<1>1. EmptyTree \in Trees
  <2>1. EmptyTree \in [{} -> Node] BY DEF EmptyTree
  <2> QED BY <2>1 DEF Trees
<1>2. Rooted(EmptyTree) BY DEF Rooted, EmptyTree
<1>3. points = <<EmptyTree>> /\ tree = EmptyTree /\ todo = {} /\ phase = "index"
      /\ index = NoEntries
    BY DEF Init
<1> HIDE DEF EmptyTree
<1>4. points \in Seq(Trees) /\ Len(points) = 1 /\ DOMAIN points = {1} /\ points[1] = EmptyTree
    BY <1>1, <1>3
<1>5. ShapeInv BY <1>1, <1>3, <1>4, NoEntriesTyped DEF ShapeInv, Phase
<1>6. TreeRooted BY <1>2, <1>3, <1>4 DEF TreeRooted
<1>7. LedgerInv BY <1>3, NoEntriesTyped DEF LedgerInv
<1>8. OverlayInv BY <1>3, <1>4 DEF OverlayInv, Lower
<1> QED BY <1>5, <1>6, <1>7, <1>8 DEF IndInv

\* While a layer is read, only its index changes.
LEMMA IndexStep ==
    ASSUME IndInv, phase = "index", index' \in Layer, LedgerInv',
           UNCHANGED <<phase, todo, tree, points>>
    PROVE  IndInv'
<1>1. ShapeInv' BY DEF IndInv, ShapeInv
<1>2. TreeRooted' BY DEF IndInv, TreeRooted
<1>3. OverlayInv' BY DEF IndInv, OverlayInv, Lower
<1> QED BY <1>1, <1>2, <1>3 DEF IndInv

\* A tar member is read.
LEMMA ReadStep == ASSUME IndInv, Read PROVE IndInv'
<1>0. index \in Layer /\ LedgerInv /\ phase = "index" /\ UNCHANGED <<phase, todo, tree, points>>
    BY DEF IndInv, ShapeInv, Read
<1>1. CASE \E p \in Path : \E e \in Member[p] : AddEntry(p, e)
  <2>0. PICK p \in Path : \E e \in Member[p] : AddEntry(p, e) BY <1>1
  <2>1. PICK e \in Member[p] : AddEntry(p, e) BY <2>0
  <2>2. e \in Entry BY MemberAssumption
  <2>3. index' \in Layer /\ LedgerInv' BY <1>0, <2>1, <2>2, EntryAdded
  <2> QED BY <1>0, <2>3, IndexStep
<1>2. CASE \E m \in Marker : AddMarker(m)
  <2>1. PICK m \in Marker : AddMarker(m) BY <1>2
  <2>2. index' \in Layer /\ LedgerInv' BY <1>0, <2>1, MarkerAdded
  <2> QED BY <1>0, <2>2, IndexStep
<1> QED BY <1>1, <1>2 DEF Read, IndexNext

\* A layer is given up.
LEMMA FailStep == ASSUME IndInv, Fail PROVE IndInv'
<1>1. index' = NoEntries BY DEF Fail, Abandon
<1>2. index' \in Layer /\ LedgerInv' BY <1>1, NoEntriesTyped DEF LedgerInv
<1> QED BY <1>2, IndexStep DEF Fail

\* The first loop starts on the tree beneath.
LEMMA ApplyStep == ASSUME IndInv, Apply PROVE IndInv'
<1>0. /\ phase = "index" /\ phase' = "opaques" /\ todo' = Markers("opaque")
      /\ UNCHANGED <<index, tree, points>> /\ Markers("opaque")' = Markers("opaque")
      /\ Lower' = Lower
    BY DEF Apply, Markers, Lower
<1>1. ShapeInv' BY <1>0 DEF IndInv, ShapeInv, Phase
<1>2. TreeRooted' BY <1>0 DEF IndInv, TreeRooted
<1>3. LedgerInv' BY <1>0 DEF IndInv, LedgerInv
<1>4. OverlayInv'
  <2>1. tree = Lower BY <1>0 DEF IndInv, OverlayInv
  <2>2. Restrict(Lower, DOMAIN Lower) = Lower BY LowerTyped, TreeForm DEF Restrict
  <2>3. {p \in DOMAIN Lower : \A d \in Markers("opaque") \ todo' : p \notin Beneath(d)} = DOMAIN Lower
      BY <1>0
  <2> QED BY <1>0, <2>1, <2>2, <2>3 DEF OverlayInv
<1> QED BY <1>1, <1>2, <1>3, <1>4 DEF IndInv

\* One step of a loop: what is left is to show for the tree alone.
LEMMA LoopStep ==
    ASSUME IndInv, NEW p \in todo, NEW t \in Trees, Rooted(t), Step(p, t)
    PROVE  /\ UNCHANGED <<index, phase, points>> /\ tree' = t /\ todo' = todo \ {p}
           /\ Lower' = Lower /\ \A kind : Markers(kind)' = Markers(kind)
           /\ OverlayInv' => IndInv'
<1>0. UNCHANGED <<index, phase, points>> /\ tree' = t /\ todo' = todo \ {p} BY DEF Step
<1>1. Lower' = Lower /\ \A kind : Markers(kind)' = Markers(kind) BY <1>0 DEF Lower, Markers
<1>2. ShapeInv' BY <1>0, <1>1 DEF IndInv, ShapeInv
<1>3. TreeRooted' BY <1>0 DEF IndInv, TreeRooted
<1>4. LedgerInv' BY <1>0 DEF IndInv, LedgerInv
<1> QED BY <1>0, <1>1, <1>2, <1>3, <1>4 DEF IndInv

\* An opaque marker is applied.
LEMMA OpaqueStep == ASSUME IndInv, NEW d \in todo, ApplyOpaque(d) PROVE IndInv'
<1>0. /\ phase = "opaques" /\ tree \in Trees /\ Rooted(tree) /\ todo \subseteq Markers("opaque")
      /\ index \in Layer /\ Lower \in Trees /\ Step(d, Cleared(tree, d))
    BY LowerTyped DEF IndInv, ShapeInv, TreeRooted, ApplyOpaque
<1>1. d \in Path \cup {Root} /\ d \in Markers("opaque") BY <1>0, MarkersTyped
<1>2. PICK t : t = Cleared(tree, d) OBVIOUS
<1>3. t \in Trees /\ Rooted(t) /\ t = Restrict(tree, DOMAIN tree \ Beneath(d))
    BY <1>0, <1>1, <1>2, ClearedTree
<1>4. /\ UNCHANGED <<index, phase, points>> /\ tree' = t /\ todo' = todo \ {d}
      /\ Lower' = Lower /\ \A kind : Markers(kind)' = Markers(kind)
      /\ OverlayInv' => IndInv'
    BY <1>0, <1>2, <1>3, LoopStep
<1>5. PICK S : S = {p \in DOMAIN Lower : \A a \in Markers("opaque") \ todo : p \notin Beneath(a)}
    OBVIOUS
<1>6. PICK T : T = {p \in DOMAIN Lower : \A a \in Markers("opaque") \ todo' : p \notin Beneath(a)}
    OBVIOUS
<1>7. tree = Restrict(Lower, S) BY <1>0, <1>5 DEF IndInv, OverlayInv
<1>8. T = S \ Beneath(d) BY <1>0, <1>1, <1>4, <1>5, <1>6
<1>9. DOMAIN tree = S BY <1>7 DEF Restrict
<1>10. S \in SUBSET DOMAIN Lower /\ T \in SUBSET S BY <1>5, <1>8
<1>11. t = Restrict(Lower, T) BY <1>3, <1>7, <1>8, <1>9, <1>10, RestrictTwice
<1>12. OverlayInv' BY <1>0, <1>4, <1>6, <1>11 DEF OverlayInv
<1> QED BY <1>4, <1>12

\* A whiteout is applied.
LEMMA WhiteoutStep == ASSUME IndInv, NEW w \in todo, ApplyWhiteout(w) PROVE IndInv'
<1>0. /\ phase = "whiteouts" /\ tree \in Trees /\ Rooted(tree)
      /\ todo \subseteq Markers("whiteout") /\ index \in Layer /\ Lower \in Trees
      /\ Step(w, Removed(tree, w))
    BY LowerTyped DEF IndInv, ShapeInv, TreeRooted, ApplyWhiteout
<1>1. w \in Path /\ w \in Markers("whiteout") BY <1>0, MarkersTyped
<1>2. PICK t : t = Removed(tree, w) OBVIOUS
<1>3. t \in Trees /\ Rooted(t) /\ t = Restrict(tree, DOMAIN tree \ (Beneath(w) \cup {w}))
    BY <1>0, <1>1, <1>2, RemovedTree DEF Removed
<1>4. /\ UNCHANGED <<index, phase, points>> /\ tree' = t /\ todo' = todo \ {w}
      /\ Lower' = Lower /\ \A kind : Markers(kind)' = Markers(kind)
      /\ OverlayInv' => IndInv'
    BY <1>0, <1>2, <1>3, LoopStep
<1>5. PICK S : S = {p \in DOMAIN Lower :
                        /\ \A d \in Markers("opaque") : p \notin Beneath(d)
                        /\ \A a \in Markers("whiteout") \ todo : p \notin Beneath(a) \cup {a}}
    OBVIOUS
<1>6. PICK T : T = {p \in DOMAIN Lower :
                        /\ \A d \in Markers("opaque") : p \notin Beneath(d)
                        /\ \A a \in Markers("whiteout") \ todo' : p \notin Beneath(a) \cup {a}}
    OBVIOUS
<1>7. tree = Restrict(Lower, S) BY <1>0, <1>5 DEF IndInv, OverlayInv
<1>8. T = S \ (Beneath(w) \cup {w}) BY <1>0, <1>1, <1>4, <1>5, <1>6
<1>9. DOMAIN tree = S BY <1>7 DEF Restrict
<1>10. S \in SUBSET DOMAIN Lower /\ T \in SUBSET S BY <1>5, <1>8
<1>11. t = Restrict(Lower, T) BY <1>3, <1>7, <1>8, <1>9, <1>10, RestrictTwice
<1>12. OverlayInv' BY <1>0, <1>4, <1>6, <1>11 DEF OverlayInv
<1> QED BY <1>4, <1>12

\* An entry is applied, after those it lies in.
LEMMA EntryStep == ASSUME IndInv, NEW p \in todo, ApplyEntry(p) PROVE IndInv'
<1>0. /\ phase = "entries" /\ tree \in Trees /\ Rooted(tree)
      /\ todo \subseteq DOMAIN index.entries /\ index \in Layer /\ Lower \in Trees
      /\ Above[p] \cap todo = {} /\ Step(p, Upserted(tree, p, index.entries[p]))
    BY LowerTyped DEF IndInv, ShapeInv, TreeRooted, ApplyEntry
<1>1. p \in Path /\ index.entries[p] \in Entry /\ p \in DOMAIN index.entries
      /\ DOMAIN index.entries \subseteq Path
    BY <1>0, EntryTyped
<1>2. PICK t : t = Upserted(tree, p, index.entries[p]) OBVIOUS
<1>3. t \in Trees /\ Rooted(t) BY <1>0, <1>1, <1>2, UpsertedTree
<1>4. /\ UNCHANGED <<index, phase, points>> /\ tree' = t /\ todo' = todo \ {p}
      /\ Lower' = Lower /\ (OverlayInv' => IndInv')
    BY <1>0, <1>2, <1>3, LoopStep
<1>5. PICK own : own = DOMAIN index.entries \ todo OBVIOUS
<1>6. PICK all : all = DOMAIN index.entries \ todo' OBVIOUS
<1>7. all = own \cup {p} /\ own \in SUBSET DOMAIN index.entries
      /\ p \in DOMAIN index.entries \ own
    BY <1>0, <1>1, <1>4, <1>5, <1>6
<1>8. tree = OverlayOf(Lower, index, own) /\ \A q \in own : Above[q] \cap todo = {}
    BY <1>0, <1>5 DEF IndInv, OverlayInv
<1>9. t = OverlayOf(Lower, index, all)
  <2>1. \A q \in own : p \notin Above[q] BY <1>8
  <2> QED BY <1>0, <1>2, <1>7, <1>8, <2>1, UpsertOverlays
<1>10. \A q \in all : Above[q] \cap todo' = {} BY <1>0, <1>4, <1>7, <1>8
<1>11. OverlayInv' BY <1>0, <1>4, <1>6, <1>9, <1>10 DEF OverlayInv
<1> QED BY <1>4, <1>11

\* The whiteouts follow the opaque markers.
LEMMA WhiteoutsNext ==
    ASSUME IndInv, NextLoop("opaques", "whiteouts", Markers("whiteout")) PROVE IndInv'
<1>0. /\ phase = "opaques" /\ todo = {} /\ phase' = "whiteouts" /\ todo' = Markers("whiteout")
      /\ UNCHANGED <<index, tree, points>> /\ Markers("opaque")' = Markers("opaque")
      /\ Markers("whiteout")' = Markers("whiteout") /\ Lower' = Lower
    BY DEF NextLoop, Markers, Lower
<1>1. ShapeInv' BY <1>0 DEF IndInv, ShapeInv, Phase
<1>2. TreeRooted' BY <1>0 DEF IndInv, TreeRooted
<1>3. LedgerInv' BY <1>0 DEF IndInv, LedgerInv
<1>4. OverlayInv'
  <2>1. PICK S : S = {p \in DOMAIN Lower : \A d \in Markers("opaque") \ todo : p \notin Beneath(d)}
      OBVIOUS
  <2>2. tree = Restrict(Lower, S) BY <1>0, <2>1 DEF IndInv, OverlayInv
  <2>3. S = {p \in DOMAIN Lower :
                /\ \A d \in Markers("opaque") : p \notin Beneath(d)
                /\ \A a \in Markers("whiteout") \ todo' : p \notin Beneath(a) \cup {a}}
      BY <1>0, <2>1
  <2> QED BY <1>0, <2>2, <2>3 DEF OverlayInv
<1> QED BY <1>1, <1>2, <1>3, <1>4 DEF IndInv

\* The entries follow the whiteouts.
LEMMA EntriesNext ==
    ASSUME IndInv, NextLoop("whiteouts", "entries", DOMAIN index.entries) PROVE IndInv'
<1>0. /\ phase = "whiteouts" /\ todo = {} /\ phase' = "entries" /\ todo' = DOMAIN index.entries
      /\ UNCHANGED <<index, tree, points>> /\ Lower' = Lower
      /\ index \in Layer /\ Lower \in Trees
    BY LowerTyped DEF NextLoop, Lower, IndInv, ShapeInv
<1>1. ShapeInv' BY <1>0 DEF IndInv, ShapeInv, Phase
<1>2. TreeRooted' BY <1>0 DEF IndInv, TreeRooted
<1>3. LedgerInv' BY <1>0 DEF IndInv, LedgerInv
<1>4. OverlayInv'
  <2>1. PICK S : S = {p \in DOMAIN Lower :
                        /\ \A d \in Markers("opaque") : p \notin Beneath(d)
                        /\ \A a \in Markers("whiteout") \ todo : p \notin Beneath(a) \cup {a}}
      OBVIOUS
  <2>2. tree = Restrict(Lower, S) BY <1>0, <2>1 DEF IndInv, OverlayInv
  <2>3. S = LeftBy(Lower, index, {})
    <3>1. S = {p \in DOMAIN Lower :
                /\ \A m \in index.markers : m.kind = "opaque" => p \notin Beneath(m.path)
                /\ \A m \in index.markers :
                        m.kind = "whiteout" => p \notin Beneath(m.path) \cup {m.path}}
        BY <1>0, <2>1, MarkersTyped
    <3> QED BY <3>1 DEF LeftBy
  <2>4. DOMAIN index.entries \ todo' = {} BY <1>0
  <2> QED BY <1>0, <2>2, <2>3, <2>4, BareOverlay DEF OverlayInv
<1> QED BY <1>1, <1>2, <1>3, <1>4 DEF IndInv

\* The next layer starts on what this one left.
LEMMA PointStep == ASSUME IndInv, Point PROVE IndInv'
<1>0. /\ points' = Append(points, tree) /\ index' = NoEntries /\ phase' = "index" /\ todo' = {}
      /\ tree' = tree /\ tree \in Trees /\ points \in Seq(Trees) /\ Rooted(tree)
      /\ \A n \in DOMAIN points : Rooted(points[n])
    BY DEF IndInv, ShapeInv, TreeRooted, Point, Applied
<1>1. /\ points' \in Seq(Trees) /\ Len(points') = Len(points) + 1 /\ Len(points) \in Nat
      /\ DOMAIN points = 1..Len(points) /\ DOMAIN points' = 1..(Len(points) + 1)
      /\ points'[Len(points')] = tree /\ \A n \in DOMAIN points : points'[n] = points[n]
    BY <1>0
<1>2. ShapeInv' BY <1>0, <1>1, NoEntriesTyped DEF ShapeInv, Phase
<1>3. TreeRooted'
  <2>1. ASSUME NEW n \in DOMAIN points' PROVE Rooted(points'[n])
    <3>1. n \in DOMAIN points \/ n = Len(points') BY <1>1
    <3> QED BY <1>0, <1>1, <3>1
  <2> QED BY <1>0, <2>1 DEF TreeRooted
<1>4. LedgerInv' BY <1>0, NoEntriesTyped DEF LedgerInv
<1>5. OverlayInv' BY <1>0, <1>1 DEF OverlayInv, Lower
<1> QED BY <1>2, <1>3, <1>4, <1>5 DEF IndInv

\* Every step keeps the invariant.
LEMMA NextInv == ASSUME IndInv, [Next]_vars PROVE IndInv'
<1>1. CASE Read BY <1>1, ReadStep
<1>2. CASE Fail BY <1>2, FailStep
<1>3. CASE Apply BY <1>3, ApplyStep
<1>4. CASE Loops BY <1>4, WhiteoutsNext, EntriesNext DEF Loops
<1>5. CASE Point BY <1>5, PointStep
<1>6. ASSUME NEW p \in todo, ApplyOpaque(p) PROVE IndInv' BY <1>6, OpaqueStep
<1>7. ASSUME NEW p \in todo, ApplyWhiteout(p) PROVE IndInv' BY <1>7, WhiteoutStep
<1>8. ASSUME NEW p \in todo, ApplyEntry(p) PROVE IndInv' BY <1>8, EntryStep
<1>9. CASE UNCHANGED vars
  <2>1. index' = index /\ phase' = phase /\ todo' = todo /\ tree' = tree /\ points' = points
      BY <1>9 DEF vars
  <2>2. ShapeInv' BY <2>1 DEF IndInv, ShapeInv, Markers
  <2>3. TreeRooted' BY <2>1 DEF IndInv, TreeRooted
  <2>4. LedgerInv' BY <2>1 DEF IndInv, LedgerInv
  <2>5. Lower' = Lower /\ \A kind : Markers(kind)' = Markers(kind) BY <2>1 DEF Lower, Markers
  <2>6. OverlayInv' BY <2>1, <2>5 DEF IndInv, OverlayInv
  <2> QED BY <2>2, <2>3, <2>4, <2>6 DEF IndInv
<1> QED BY <1>1, <1>2, <1>3, <1>4, <1>5, <1>6, <1>7, <1>8, <1>9 DEF Next

\* What the squasher keeps is typed.
LEMMA ShapeTyped == ASSUME IndInv PROVE TypeOK
<1>1. /\ DOMAIN index.entries \subseteq Path /\ index.markers \subseteq Marker /\ index.bytes \in Nat
      /\ \A p \in DOMAIN index.entries : index.entries[p] \in Entry
    BY EntryTyped DEF IndInv, ShapeInv
<1>2. todo \subseteq Path \cup {Root}
    BY <1>1, MarkersTyped DEF IndInv, ShapeInv, Phase
<1>3. IsTree(tree) BY TreeForm DEF IndInv, ShapeInv
<1>4. \A n \in DOMAIN points : IsTree(points[n])
  <2>1. \A n \in DOMAIN points : points[n] \in Trees BY DEF IndInv, ShapeInv
  <2> QED BY <2>1, TreeForm
<1>5. phase \in Phase BY DEF IndInv, ShapeInv
<1> QED BY <1>1, <1>2, <1>3, <1>4, <1>5 DEF TypeOK

-------------------------------------------------------------------------------
(* The theorems.                                                             *)

\* The invariant holds of every reachable state.
LEMMA Always == Spec => []IndInv
<1>1. Init => IndInv BY InitInv
<1>2. IndInv /\ [Next]_vars => IndInv' BY NextInv
<1> QED BY <1>1, <1>2, PTL DEF Spec

\* Whatever the layers hold, in whatever order: every tree is a tree of files in
\* directories, and the index is the size of its files, within its cap
\* (analyze.IndexLayer, Squasher.Apply).
THEOREM SquasherSound == Spec => []Inv
<1>1. IndInv => TypeOK BY ShapeTyped
<1>2. IndInv => TreeRooted BY DEF IndInv
<1>3. IndInv => LedgerExact BY LedgerForm DEF IndInv, LedgerInv
<1>4. IndInv => Inv BY <1>1, <1>2, <1>3 DEF Inv
<1> QED BY <1>4, Always, PTL

\* A squashed layer is the overlay of its changeset over the layers beneath,
\* whatever order its members, and the markers among them, came in.
THEOREM SquashesOverlay == Spec => []SquashIsOverlay
<1>1. ASSUME IndInv, Applied PROVE tree = Overlay(Lower, index)
  <2>1. tree = OverlayOf(Lower, index, DOMAIN index.entries \ todo) /\ todo = {}
      BY <1>1 DEF IndInv, OverlayInv, Applied
  <2>2. DOMAIN index.entries \ todo = DOMAIN index.entries BY <2>1
  <2> QED BY <2>1, <2>2, WholeOverlay
<1>2. IndInv => SquashIsOverlay BY <1>1 DEF SquashIsOverlay, Lower
<1> QED BY <1>2, Always, PTL

-------------------------------------------------------------------------------
(* The shape of a comparison.                                                *)

\* What of a set of paths lies beneath a directory, and the directory with it.
Under(S, p) == {q \in S : q \in Beneath(p)}
Within(S, p) == {q \in S : q = p \/ q \in Beneath(p)}

\* The sets of rows: the root, and paths with the directories they lie in.
Closed(S) ==
    /\ IsFiniteSet(S) /\ Root \in S /\ S \subseteq Path \cup {Root}
    /\ \A p \in S \ {Root} : Above[p] \subseteq S

\* The directory above a path is the deepest of those it lies in.
LEMMA ParentAbove ==
    ASSUME NEW p \in Path
    PROVE  /\ Above[p] = {} => Parent(p) = Root
           /\ Above[p] # {} => Parent(p) \in Above[p] /\ Above[p] = Above[Parent(p)] \cup {Parent(p)}
<1>0. IsFiniteSet(Above[p]) /\ Above[p] \subseteq Path BY AboveAssumption
<1>1. ASSUME Above[p] # {}
      PROVE  \E a \in Above[p] : Above[p] = Above[a] \cup {a}
  <2> DEFINE R(a) == Above[p] \ Above[a]
             B == {R(a) : a \in Above[p]}
  <2>1. B \subseteq SUBSET Above[p] /\ B # {} BY <1>1
  <2>2. PICK U \in B : \A V \in B : V \subseteq U => V = U
    <3> HIDE DEF B
    <3> QED BY <1>0, <2>1, MinimalSubset
  <2>3. PICK a \in Above[p] : U = R(a) BY <2>2
  <2>4. ASSUME NEW b \in Above[p], b # a, b \notin Above[a] PROVE FALSE
    <3>1. a \in Above[b] /\ a \in Path /\ b \in Path BY <1>0, <2>4, AboveAssumption
    <3>2. Above[a] \subseteq Above[b] /\ a \notin Above[a] BY <3>1, AboveAssumption
    <3>3. R(b) \subseteq R(a) /\ a \in R(a) /\ a \notin R(b) BY <3>1, <3>2
    <3> QED BY <2>2, <2>3, <3>3
  <2>5. Above[a] \subseteq Above[p] BY <1>0, AboveAssumption
  <2> QED BY <2>4, <2>5
<1>2. Above[p] = {} => Parent(p) = Root BY DEF Parent
<1>3. ASSUME Above[p] # {}
      PROVE  Parent(p) \in Above[p] /\ Above[p] = Above[Parent(p)] \cup {Parent(p)}
  <2>1. Parent(p) = CHOOSE a \in Above[p] : Above[p] = Above[a] \cup {a} BY <1>3 DEF Parent
  <2> QED BY <1>1, <1>3, <2>1
<1> QED BY <1>2, <1>3

\* The children of a directory lie in it, and in what it lies in.
LEMMA ChildAbove ==
    ASSUME NEW S, Closed(S), NEW p \in S, NEW c \in ChildrenIn(S, p)
    PROVE  /\ c \in S /\ c \in Path /\ c \in Beneath(p) /\ c # p
           /\ Above[c] = IF p = Root THEN {} ELSE Above[p] \cup {p}
<1>1. c \in S /\ c # Root /\ c \in Path /\ Parent(c) = p BY DEF ChildrenIn, Closed
<1>2. Above[c] = IF p = Root THEN {} ELSE Above[p] \cup {p}
  <2>1. CASE Above[c] = {} BY <1>1, <2>1, ParentAbove
  <2>2. CASE Above[c] # {}
    <3>1. p \in Above[c] /\ Above[c] = Above[p] \cup {p} BY <1>1, <2>2, ParentAbove
    <3>2. p # Root BY <1>1, <3>1, AboveAssumption, RootAssumption
    <3> QED BY <3>1, <3>2
  <2> QED BY <2>1, <2>2
<1>3. c \in Beneath(p) BY <1>1, <1>2 DEF Beneath
<1>4. c # p BY <1>1, <1>2, AboveAssumption
<1> QED BY <1>1, <1>2, <1>3, <1>4

\* What lies beneath a directory is one of its children or beneath one.
LEMMA ChildBetween ==
    ASSUME NEW S, Closed(S), NEW p \in S, NEW q \in S, q \in Beneath(p)
    PROVE  \E c \in ChildrenIn(S, p) : q \in Within(S, c)
<1>0. q \in Path /\ q # Root /\ IsFiniteSet(Above[q]) /\ Above[q] \subseteq Path
      /\ Above[q] \subseteq S
    BY AboveAssumption, RootAssumption DEF Beneath, Closed
<1> DEFINE T == {a \in Above[q] \cup {q} : a \in Beneath(p)}
           B == {Above[a] : a \in T}
<1>1. B \subseteq SUBSET Above[q] /\ B # {} BY <1>0, AboveAssumption
<1>2. PICK U \in B : \A V \in B : V \subseteq U => V = U
  <2> HIDE DEF B
  <2> QED BY <1>0, <1>1, MinimalSubset
<1>3. PICK c \in T : U = Above[c] BY <1>2
<1>4. c \in S /\ c \in Path /\ c # Root /\ c \in Beneath(p) BY <1>0, RootAssumption
<1>5. ASSUME NEW a \in Above[c], a \in Beneath(p) PROVE FALSE
  <2>1. a \in T BY <1>0, <1>3, <1>5, AboveAssumption
  <2>2. Above[a] \subseteq Above[c] /\ a \notin Above[a] BY <1>4, <1>5, AboveAssumption
  <2> QED BY <1>2, <1>3, <1>5, <2>1, <2>2
<1>6. Parent(c) = p
  <2>1. CASE p = Root
    <3>1. Above[c] = {} BY <1>4, <1>5, <2>1, AboveAssumption DEF Beneath
    <3> QED BY <1>4, <2>1, <3>1, ParentAbove
  <2>2. CASE p # Root
    <3>1. p \in Above[c] BY <1>4, <2>2 DEF Beneath
    <3>2. PICK x : x = Parent(c) OBVIOUS
    <3>3. x \in Above[c] /\ Above[c] = Above[x] \cup {x} BY <1>4, <3>1, <3>2, ParentAbove
    <3>4. x = p \/ x \in Beneath(p) BY <1>4, <2>2, <3>1, <3>3, AboveAssumption DEF Beneath
    <3> QED BY <1>5, <3>2, <3>3, <3>4
  <2> QED BY <2>1, <2>2
<1>7. q \in Within(S, c) BY <1>0, <1>3, <1>4 DEF Within, Beneath
<1> QED BY <1>4, <1>6, <1>7 DEF ChildrenIn

\* What lies within a directory: itself, and what lies within one of its children,
\* each beneath it.
LEMMA WithinSplit ==
    ASSUME NEW S, Closed(S), NEW p \in S
    PROVE  /\ Within(S, p) = {p} \cup UNION {Within(S, c) : c \in ChildrenIn(S, p)}
           /\ \A c \in ChildrenIn(S, p) : p \notin Within(S, c) /\ Within(S, c) \subseteq Under(S, p)
           /\ \A c, e \in ChildrenIn(S, p) : c # e => Within(S, c) \cap Within(S, e) = {}
<1>1. ASSUME NEW c \in ChildrenIn(S, p), NEW q \in Within(S, c)
      PROVE  q \in Under(S, p) /\ q # p
  <2>1. /\ c \in S /\ c \in Path /\ c \in Beneath(p) /\ c # p
        /\ Above[c] = IF p = Root THEN {} ELSE Above[p] \cup {p}
      BY ChildAbove
  <2>2. q \in S /\ (q = c \/ (q \in Path /\ c \in Above[q]))
      BY <2>1, RootAssumption DEF Within, Beneath
  <2>3. q \in Path BY <2>1, <2>2
  <2>4. p # Root => p \in Above[q] BY <2>1, <2>2, <2>3, AboveAssumption
  <2>5. q # p BY <2>3, <2>4, AboveAssumption, RootAssumption
  <2> QED BY <2>2, <2>3, <2>4, <2>5 DEF Under, Beneath
<1>2. ASSUME NEW c \in ChildrenIn(S, p), NEW e \in ChildrenIn(S, p), c # e,
             NEW q \in Within(S, c) \cap Within(S, e)
      PROVE  FALSE
  <2>1. /\ c \in Path /\ Above[c] = IF p = Root THEN {} ELSE Above[p] \cup {p}
        /\ e \in Path /\ Above[e] = IF p = Root THEN {} ELSE Above[p] \cup {p}
      BY ChildAbove
  <2>2. q = c \/ (q \in Path /\ c \in Above[q]) BY <2>1, RootAssumption DEF Within, Beneath
  <2>3. q = e \/ (q \in Path /\ e \in Above[q]) BY <2>1, RootAssumption DEF Within, Beneath
  <2>4. c \in Above[e] \/ e \in Above[c] BY <1>2, <2>1, <2>2, <2>3, AboveAssumption
  <2> QED BY <2>1, <2>4, AboveAssumption
<1>3. Within(S, p) = {p} \cup Under(S, p) BY DEF Within, Under
<1>4. \A q \in Under(S, p) : \E c \in ChildrenIn(S, p) : q \in Within(S, c)
    BY ChildBetween DEF Under
<1> QED BY <1>1, <1>2, <1>3, <1>4

\* The children are in the set, and beneath.
LEMMA ChildrenUnder ==
    ASSUME NEW S, Closed(S), NEW p \in S
    PROVE  ChildrenIn(S, p) \subseteq Under(S, p)
BY ChildAbove DEF Under

\* Some row of a set of rows has none of them beneath it.
LEMMA Deepest ==
    ASSUME NEW S, Closed(S), NEW B \in SUBSET S, B # {}
    PROVE  \E p \in B : B \cap Under(S, p) = {}
<1> DEFINE F == {Under(S, p) : p \in B}
<1>0. IsFiniteSet(S) BY DEF Closed
<1>1. F \subseteq SUBSET S /\ F # {} BY DEF Under
<1>2. PICK U \in F : \A V \in F : V \subseteq U => V = U
  <2> HIDE DEF F
  <2> QED BY <1>0, <1>1, MinimalSubset
<1>3. PICK p \in B : U = Under(S, p) BY <1>2
<1>4. ASSUME NEW q \in B \cap Under(S, p) PROVE FALSE
  <2>1. q \in Path /\ q # Root BY RootAssumption, AboveAssumption DEF Under, Beneath
  <2>2. Under(S, q) \subseteq Under(S, p)
    <3> SUFFICES ASSUME NEW x \in Under(S, q) PROVE x \in Beneath(p) BY DEF Under
    <3>1. x \in Path /\ q \in Above[x] BY <2>1 DEF Under, Beneath
    <3>2. q \in Beneath(p) BY <1>4 DEF Under
    <3> QED BY <3>1, <3>2, AboveAssumption DEF Beneath
  <2>3. q \notin Under(S, q) BY <2>1, AboveAssumption DEF Under, Beneath
  <2> QED BY <1>2, <1>3, <1>4, <2>2, <2>3
<1> QED BY <1>4

-------------------------------------------------------------------------------
(* The rows of a comparison, and their statuses.                             *)

\* The trees that are compared.
FiniteTree(t) == t \in Trees /\ Rooted(t) /\ IsFiniteSet(DOMAIN t)

\* What is shown keeps its directories.
LEMMA ShownClosed ==
    ASSUME NEW l, NEW r, FiniteTree(l), FiniteTree(r)
    PROVE  Closed(Shown(l, r))
<1> DEFINE S == Shown(l, r)
           D == DOMAIN l \cup DOMAIN r
<1>0. D \subseteq Path /\ IsFiniteSet(D) /\ S \subseteq D \cup {Root} /\ Root \in S
    BY TreeForm, FS_Union DEF FiniteTree, Shown
<1>1. IsFiniteSet(S)
  <2>1. IsFiniteSet(D \cup {Root}) BY <1>0, FS_AddElement
  <2> QED BY <1>0, <2>1, FS_Subset
<1>2. ASSUME NEW p \in S \ {Root}, NEW a \in Above[p] PROVE a \in S
  <2>1. p \in D /\ \A b \in Above[p] : OnBoth(l, r, b) => DirOnBoth(l, r, b)
      BY <1>2 DEF Shown
  <2>2. a \in D BY <2>1 DEF FiniteTree, Rooted, IsDir
  <2>3. Above[a] \subseteq Above[p] BY <1>0, <2>1, AboveAssumption
  <2> QED BY <2>1, <2>2, <2>3 DEF Shown
<1> QED BY <1>0, <1>1, <1>2 DEF Closed

\* Which side is which does not matter to what is shown and to what differs.
LEMMA SidesAlike ==
    ASSUME NEW l, NEW r
    PROVE  /\ Shown(l, r) = Shown(r, l)
           /\ \A p : OwnChange(l, r, p) <=> OwnChange(r, l, p)
<1>1. \A p : OnBoth(l, r, p) <=> OnBoth(r, l, p) BY DEF OnBoth
<1>2. \A p : DirOnBoth(l, r, p) <=> DirOnBoth(r, l, p) BY <1>1 DEF DirOnBoth
<1>3. Shown(l, r) = Shown(r, l) BY <1>1, <1>2 DEF Shown
<1>4. ASSUME NEW m, NEW n PROVE MetaDiffers(m, n) <=> MetaDiffers(n, m)
    BY DEF MetaDiffers
<1>5. \A p : OwnChange(l, r, p) <=> OwnChange(r, l, p) BY <1>1, <1>4 DEF OwnChange
<1> QED BY <1>3, <1>5

\* Something changed at or beneath a row.
Changed(l, r, p) == \E q \in Within(Shown(l, r), p) : OwnChange(l, r, q)

\* It changed in the row itself or at or beneath one of its children.
LEMMA ChangedStep ==
    ASSUME NEW l, NEW r, Closed(Shown(l, r)), NEW p \in Shown(l, r)
    PROVE  Changed(l, r, p) <=>
             \/ OwnChange(l, r, p)
             \/ \E c \in ChildrenIn(Shown(l, r), p) : Changed(l, r, c)
<1> DEFINE S == Shown(l, r)
<1>1. Within(S, p) = {p} \cup UNION {Within(S, c) : c \in ChildrenIn(S, p)} BY WithinSplit
<1> HIDE DEF S
<1>2. Changed(l, r, p) <=> \E q \in Within(S, p) : OwnChange(l, r, q) BY DEF Changed, S
<1>3. \A c : Changed(l, r, c) <=> \E q \in Within(S, c) : OwnChange(l, r, q) BY DEF Changed, S
<1> QED BY <1>1, <1>2, <1>3 DEF S

\* The statuses, without the recursion.
StatusAt(l, r, p) ==
    IF At(l, p) = None THEN "added"
    ELSE IF At(r, p) = None THEN "removed"
    ELSE IF Changed(l, r, p) THEN "modified" ELSE "unchanged"

\* A row that is there on one side only has changed.
LEMMA StatusChanged ==
    ASSUME NEW l, NEW r, NEW p \in Shown(l, r)
    PROVE  StatusAt(l, r, p) # "unchanged" <=> Changed(l, r, p)
<1>1. p \in Within(Shown(l, r), p) BY DEF Within
<1>2. At(l, p) = None \/ At(r, p) = None => OwnChange(l, r, p) BY DEF OwnChange, OnBoth
<1>3. OwnChange(l, r, p) => Changed(l, r, p) BY <1>1 DEF Changed
<1> QED BY <1>2, <1>3 DEF StatusAt

\* The recursion finds these statuses and no others.
LEMMA StatusForm ==
    ASSUME NEW l, NEW r, Closed(Shown(l, r))
    PROVE  StatusOf(l, r) = [p \in Shown(l, r) |-> StatusAt(l, r, p)]
<1> DEFINE S == Shown(l, r)
           Body(f, p) == IF At(l, p) = None THEN "added"
                         ELSE IF At(r, p) = None THEN "removed"
                         ELSE IF \/ OwnChange(l, r, p)
                                 \/ \E c \in ChildrenIn(S, p) : f[c] # "unchanged"
                              THEN "modified" ELSE "unchanged"
           g == [p \in S |-> StatusAt(l, r, p)]
<1>1. StatusOf(l, r) = CHOOSE f : f = [p \in S |-> Body(f, p)] BY DEF StatusOf
<1>2. \A p \in S : ChildrenIn(S, p) \subseteq S BY DEF ChildrenIn
<1>3. \A p \in S : Body(g, p) = StatusAt(l, r, p)
  <2> SUFFICES ASSUME NEW p \in S PROVE Body(g, p) = StatusAt(l, r, p) OBVIOUS
  <2>1. \A c \in ChildrenIn(S, p) : g[c] # "unchanged" <=> Changed(l, r, c)
      BY <1>2, StatusChanged
  <2>2. Changed(l, r, p) <=>
             \/ OwnChange(l, r, p)
             \/ \E c \in ChildrenIn(S, p) : g[c] # "unchanged"
      BY <2>1, ChangedStep
  <2> HIDE DEF g
  <2> QED BY <2>2 DEF StatusAt
<1>4. g = [p \in S |-> Body(g, p)] BY <1>3
<1>5. ASSUME NEW f, f = [p \in S |-> Body(f, p)] PROVE f = g
  <2> HIDE DEF g
  <2> DEFINE B == {p \in S : f[p] # g[p]}
  <2>1. ASSUME B # {} PROVE FALSE
    <3>1. PICK p \in B : B \cap Under(S, p) = {} BY <2>1, Deepest
    <3>2. \A c \in ChildrenIn(S, p) : f[c] = g[c] BY <1>2, <3>1, ChildrenUnder
    <3>3. f[p] = Body(f, p) /\ g[p] = Body(g, p) BY <1>4, <1>5
    <3>4. Body(f, p) = Body(g, p) BY <3>2
    <3> QED BY <3>1, <3>3, <3>4
  <2>2. \A p \in S : f[p] = g[p] BY <2>1
  <2> HIDE DEF Body
  <2>3. DOMAIN f = S /\ DOMAIN g = S /\ f = [p \in S |-> f[p]] /\ g = [p \in S |-> g[p]]
      BY <1>4, <1>5
  <2> QED BY <2>2, <2>3
<1> HIDE DEF g, Body
<1>6. (CHOOSE f : f = [p \in S |-> Body(f, p)]) = g BY <1>4, <1>5
<1> QED BY <1>1, <1>6 DEF g

-------------------------------------------------------------------------------
(* Listings: rows in order.                                                  *)

\* What a strict order has before an element of a set.
Before(S, before, p) == {q \in S : <<q, p>> \in before}

\* In a finite set, strictly and totally ordered, there is one element for every
\* count of those before it; and the order is that of the counts.
LEMMA Ranked ==
    ASSUME NEW S, IsFiniteSet(S), NEW before,
           \A p \in S : <<p, p>> \notin before,
           \A p, q \in S : p # q => <<p, q>> \in before \/ <<q, p>> \in before,
           \A p, q, s \in S : <<p, q>> \in before /\ <<q, s>> \in before => <<p, s>> \in before
    PROVE  LET rank(p) == Cardinality(Before(S, before, p))
           IN  /\ Cardinality(S) \in Nat
               /\ \A p \in S : rank(p) \in 0..Cardinality(S) - 1
               /\ \A p, q \in S : <<p, q>> \in before <=> rank(p) < rank(q)
               /\ \A n \in 0..Cardinality(S) - 1 : \E p \in S : rank(p) = n
<1> DEFINE rank(p) == Cardinality(Before(S, before, p))
           N == Cardinality(S)
<1>0. N \in Nat BY FS_CardinalityType
<1>1. ASSUME NEW p \in S
      PROVE  IsFiniteSet(Before(S, before, p)) /\ rank(p) \in 0..N-1
  <2>1. Before(S, before, p) \in SUBSET S /\ p \notin Before(S, before, p) BY DEF Before
  <2>2. IsFiniteSet(Before(S, before, p)) /\ rank(p) \in Nat /\ rank(p) <= N /\ rank(p) # N
      BY <2>1, FS_Subset, FS_CardinalityType
  <2> QED BY <1>0, <2>2
<1>2. ASSUME NEW p \in S, NEW q \in S, <<p, q>> \in before
      PROVE  rank(p) < rank(q)
  <2>1. Before(S, before, p) \in SUBSET Before(S, before, q) BY <1>2 DEF Before
  <2>2. p \in Before(S, before, q) /\ p \notin Before(S, before, p) BY <1>2 DEF Before
  <2>3. rank(p) <= rank(q) /\ rank(p) # rank(q) BY <1>1, <2>1, <2>2, FS_Subset
  <2> QED BY <1>0, <1>1, <2>3
<1>3. ASSUME NEW p \in S, NEW q \in S, rank(p) < rank(q)
      PROVE  <<p, q>> \in before
  <2>1. CASE <<q, p>> \in before
    <3>1. rank(q) < rank(p) BY <1>2, <2>1
    <3> QED BY <1>0, <1>1, <1>3, <3>1
  <2>2. CASE p = q BY <1>0, <1>1, <1>3, <2>2
  <2> QED BY <2>1, <2>2
<1> DEFINE f == [p \in S |-> rank(p)]
<1>4. f \in Injection(S, 0..N-1)
  <2>1. f \in [S -> 0..N-1] BY <1>1
  <2>2. ASSUME NEW p \in S, NEW q \in S, f[p] = f[q] PROVE p = q
    <3>1. rank(p) = rank(q) /\ rank(p) \in Nat BY <1>0, <1>1, <2>2
    <3>2. ~(rank(p) < rank(q)) /\ ~(rank(q) < rank(p)) BY <3>1
    <3> QED BY <1>2, <3>2
  <2> HIDE DEF f
  <2> QED BY <2>1, <2>2 DEF Injection, IsInjective
<1>5. IsFiniteSet(0..N-1) /\ Cardinality(0..N-1) = N
  <2> HIDE DEF N
  <2>1. 0 \in Int /\ N-1 \in Int /\ (IF 0 > N-1 THEN 0 ELSE (N-1) - 0 + 1) = N BY <1>0
  <2> QED BY <2>1, FS_Interval
<1>6. f \in Surjection(S, 0..N-1)
  <2> HIDE DEF f
  <2> QED BY <1>4, <1>5, FS_Injection
<1>7. \A n \in 0..N-1 : \E p \in S : rank(p) = n BY <1>6 DEF Surjection
<1> QED BY <1>0, <1>1, <1>2, <1>3, <1>7

\* So sorting keeps all members, once, and puts them in order.
LEMMA InOrderForm ==
    ASSUME NEW S, IsFiniteSet(S), NEW before,
           \A p \in S : <<p, p>> \notin before,
           \A p, q \in S : p # q => <<p, q>> \in before \/ <<q, p>> \in before,
           \A p, q, s \in S : <<p, q>> \in before /\ <<q, s>> \in before => <<p, s>> \in before
    PROVE  LET rows == InOrder(S, before)
           IN  /\ rows \in Seq(S) /\ Len(rows) = Cardinality(S) /\ Len(rows) \in Nat
               /\ DOMAIN rows = 1..Len(rows)
               /\ \A p \in S : \E n \in DOMAIN rows : rows[n] = p
               /\ \A m, n \in DOMAIN rows : m < n <=> <<rows[m], rows[n]>> \in before
<1> DEFINE N == Cardinality(S)
           rank(p) == Cardinality({q \in S : <<q, p>> \in before})
           rows == InOrder(S, before)
<1>1. /\ N \in Nat /\ \A p \in S : rank(p) \in 0..N-1
      /\ \A p, q \in S : <<p, q>> \in before <=> rank(p) < rank(q)
      /\ \A n \in 0..N-1 : \E p \in S : rank(p) = n
  <2> DEFINE card(p) == Cardinality(Before(S, before, p))
  <2>1. /\ N \in Nat /\ \A p \in S : card(p) \in 0..N-1
        /\ \A p, q \in S : <<p, q>> \in before <=> card(p) < card(q)
        /\ \A n \in 0..N-1 : \E p \in S : card(p) = n
      BY Ranked
  <2>2. \A p \in S : card(p) = rank(p) BY DEF Before
  <2> HIDE DEF card, rank, N
  <2> QED BY <2>1, <2>2
<1>2. rows = [n \in 1..N |-> CHOOSE p \in S : rank(p) = n - 1] BY DEF InOrder
<1> HIDE DEF N, rank, rows
<1>3. DOMAIN rows = 1..N BY <1>2
<1>4. ASSUME NEW n \in 1..N PROVE rows[n] \in S /\ rank(rows[n]) = n - 1
  <2>1. n - 1 \in 0..N-1 BY <1>1
  <2>2. \E p \in S : rank(p) = n - 1 BY <1>1, <2>1
  <2>3. rows[n] = CHOOSE p \in S : rank(p) = n - 1 BY <1>2
  <2> QED BY <2>2, <2>3
<1>5. rows \in Seq(S)
  <2>1. rows \in [1..N -> S] BY <1>2, <1>4
  <2> QED BY <1>1, <2>1
<1>6. Len(rows) = N BY <1>1, <1>3, <1>5
<1>7. ASSUME NEW p \in S PROVE \E n \in 1..N : rows[n] = p
  <2>1. rank(p) \in 0..N-1 BY <1>1
  <2>2. rank(p) + 1 \in 1..N /\ (rank(p) + 1) - 1 = rank(p) BY <1>1, <2>1
  <2>3. rows[rank(p) + 1] \in S /\ rank(rows[rank(p) + 1]) = rank(p) BY <1>4, <2>2
  <2>4. PICK q : q = rows[rank(p) + 1] OBVIOUS
  <2>5. rank(p) \in Nat /\ ~(rank(p) < rank(q)) /\ ~(rank(q) < rank(p)) BY <2>1, <2>3, <2>4
  <2>6. q \in S /\ <<p, q>> \notin before /\ <<q, p>> \notin before BY <1>1, <2>3, <2>4, <2>5
  <2>7. q = p BY <2>6
  <2> QED BY <2>2, <2>4, <2>7
<1>8. ASSUME NEW m \in 1..N, NEW n \in 1..N
      PROVE  m < n <=> <<rows[m], rows[n]>> \in before
  <2>1. rows[m] \in S /\ rows[n] \in S /\ rank(rows[m]) = m - 1 /\ rank(rows[n]) = n - 1 BY <1>4
  <2>2. <<rows[m], rows[n]>> \in before <=> rank(rows[m]) < rank(rows[n]) BY <1>1, <2>1
  <2>3. m < n <=> m - 1 < n - 1 BY <1>1
  <2> QED BY <2>1, <2>2, <2>3
<1>9. Len(rows) = Cardinality(S) BY <1>6 DEF N
<1> QED BY <1>1, <1>3, <1>5, <1>6, <1>7, <1>8, <1>9 DEF rows

\* SortDiffChildren orders the rows of a set of paths, one way.
LEMMA RowOrder ==
    ASSUME NEW d, NEW S \in SUBSET Path
    PROVE  /\ \A p \in S : ~SortsBefore(d, p, p)
           /\ \A p, q \in S : p # q => SortsBefore(d, p, q) \/ SortsBefore(d, q, p)
           /\ \A p, q, s \in S :
                 SortsBefore(d, p, q) /\ SortsBefore(d, q, s) => SortsBefore(d, p, s)
<1>1. \A p \in S : NameRank[p] \in Nat BY NameRankAssumption
<1>2. \A p, q \in S : NameRank[p] = NameRank[q] => p = q BY NameRankAssumption
<1>3. \A p : IsDirRow(d[p]) \in BOOLEAN BY DEF IsDirRow
<1> QED BY <1>1, <1>2, <1>3 DEF SortsBefore

\* Sorting keeps all rows, once, and puts them in order.
LEMMA SortedRows ==
    ASSUME NEW d, NEW S \in SUBSET Path, IsFiniteSet(S)
    PROVE  LET rows == Sorted(d, S)
           IN  /\ rows \in Seq(S) /\ Len(rows) = Cardinality(S) /\ Len(rows) \in Nat
               /\ DOMAIN rows = 1..Len(rows)
               /\ ToSet(rows) = S
               /\ \A m, n \in DOMAIN rows : m < n <=> SortsBefore(d, rows[m], rows[n])
<1> DEFINE before == {x \in S \X S : SortsBefore(d, x[1], x[2])}
           rows == InOrder(S, before)
<1>1. \A p, q \in S : <<p, q>> \in before <=> SortsBefore(d, p, q) OBVIOUS
<1>2. Sorted(d, S) = rows BY DEF Sorted
<1> HIDE DEF before
<1>3. /\ \A p \in S : <<p, p>> \notin before
      /\ \A p, q \in S : p # q => <<p, q>> \in before \/ <<q, p>> \in before
      /\ \A p, q, s \in S : <<p, q>> \in before /\ <<q, s>> \in before => <<p, s>> \in before
    BY <1>1, RowOrder
<1>4. /\ rows \in Seq(S) /\ Len(rows) = Cardinality(S) /\ Len(rows) \in Nat
      /\ DOMAIN rows = 1..Len(rows)
      /\ \A p \in S : \E n \in DOMAIN rows : rows[n] = p
      /\ \A m, n \in DOMAIN rows : m < n <=> <<rows[m], rows[n]>> \in before
    BY <1>3, InOrderForm
<1> HIDE DEF rows
<1>5. \A n \in DOMAIN rows : rows[n] \in S BY <1>4
<1>6. ToSet(rows) = S BY <1>4, <1>5 DEF ToSet
<1>7. \A m, n \in DOMAIN rows : m < n <=> SortsBefore(d, rows[m], rows[n]) BY <1>1, <1>4, <1>5
<1> QED BY <1>2, <1>4, <1>6, <1>7

\* The rows of a comparison, their sums left aside.
LEMMA DiffForm ==
    ASSUME NEW l, NEW r, Closed(Shown(l, r))
    PROVE  /\ DOMAIN Diff(l, r) = Shown(l, r)
           /\ \A p \in Shown(l, r) :
                 /\ Diff(l, r)[p].left = At(l, p)
                 /\ Diff(l, r)[p].right = At(r, p)
                 /\ Diff(l, r)[p].status = StatusAt(l, r, p)
<1>1. \A p \in Shown(l, r) : StatusOf(l, r)[p] = StatusAt(l, r, p) BY StatusForm
<1> QED BY <1>1 DEF Diff

\* A page lists the children its filter asks for, each once.
LEMMA Listed ==
    ASSUME NEW d, Closed(DOMAIN d), NEW at, NEW filter
    PROVE  LET rows == Listing(d, at, filter)
           IN  /\ Rows(d, at, filter) \subseteq Path /\ Rows(d, at, filter) \subseteq DOMAIN d
               /\ rows \in Seq(Rows(d, at, filter)) /\ Len(rows) \in Nat
               /\ DOMAIN rows = 1..Len(rows) /\ ToSet(rows) = Rows(d, at, filter)
               /\ \A m, n \in DOMAIN rows : m < n <=> SortsBefore(d, rows[m], rows[n])
<1> DEFINE S == Rows(d, at, filter)
<1>1. S \subseteq DOMAIN d \ {Root} BY DEF Rows, ChildrenIn
<1>2. S \in SUBSET Path /\ IsFiniteSet(S)
  <2>1. S \in SUBSET DOMAIN d BY <1>1
  <2> QED BY <1>1, <2>1, FS_Subset DEF Closed
<1> HIDE DEF S
<1>3. LET rows == Sorted(d, S)
      IN  /\ rows \in Seq(S) /\ Len(rows) \in Nat
          /\ DOMAIN rows = 1..Len(rows) /\ ToSet(rows) = S
          /\ \A m, n \in DOMAIN rows : m < n <=> SortsBefore(d, rows[m], rows[n])
    BY <1>2, SortedRows
<1>4. Listing(d, at, filter) = Sorted(d, S) BY DEF Listing, S
<1> QED BY <1>1, <1>2, <1>3, <1>4 DEF S

-------------------------------------------------------------------------------
(* The points that are compared.                                             *)

\* What is squashed is finite: a layer has finitely many entries, and each lies in
\* finitely many directories.
TreesFinite ==
    /\ IsFiniteSet(DOMAIN tree)
    /\ \A n \in DOMAIN points : IsFiniteSet(DOMAIN points[n])

\* A step of a loop leaves a finite tree.
LEMMA StepFinite ==
    ASSUME IndInv, IsFiniteSet(DOMAIN tree), NEW p \in todo,
           ApplyOpaque(p) \/ ApplyWhiteout(p) \/ ApplyEntry(p)
    PROVE  IsFiniteSet(DOMAIN tree') /\ points' = points
<1>1. CASE ApplyOpaque(p)
  <2>1. tree' = Cleared(tree, p) /\ points' = points BY <1>1 DEF ApplyOpaque, Step
  <2>2. DOMAIN Cleared(tree, p) \in SUBSET DOMAIN tree BY DEF Cleared, Restrict
  <2> QED BY <2>1, <2>2, FS_Subset
<1>2. CASE ApplyWhiteout(p)
  <2>1. tree' = Removed(tree, p) /\ points' = points BY <1>2 DEF ApplyWhiteout, Step
  <2>2. DOMAIN Removed(tree, p) \in SUBSET DOMAIN tree BY DEF Removed, Restrict
  <2> QED BY <2>1, <2>2, FS_Subset
<1>3. CASE ApplyEntry(p)
  <2>1. tree' = Upserted(tree, p, index.entries[p]) /\ points' = points /\ phase = "entries"
      BY <1>3 DEF ApplyEntry, Step
  <2>2. p \in Path BY <2>1, EntryTyped DEF IndInv, ShapeInv
  <2>3. IsFiniteSet(DOMAIN tree \cup Above[p] \cup {p})
    <3>1. IsFiniteSet(Above[p]) BY <2>2, AboveAssumption
    <3>2. IsFiniteSet(DOMAIN tree \cup Above[p]) BY <3>1, FS_Union
    <3> QED BY <3>2, FS_AddElement
  <2>4. DOMAIN Upserted(tree, p, index.entries[p]) \in SUBSET (DOMAIN tree \cup Above[p] \cup {p})
      BY DEF Upserted, WithDirs
  <2> QED BY <2>1, <2>3, <2>4, FS_Subset
<1> QED BY <1>1, <1>2, <1>3

\* So every point is a finite tree.
LEMMA PointsFinite == Spec => []TreesFinite
<1>1. Init => TreesFinite
  <2> SUFFICES ASSUME Init PROVE TreesFinite OBVIOUS
  <2>1. tree = EmptyTree /\ points = <<EmptyTree>> /\ DOMAIN EmptyTree = {}
      BY DEF Init, EmptyTree
  <2>2. DOMAIN points = {1} /\ points[1] = EmptyTree BY <2>1
  <2> QED BY <2>1, <2>2, FS_EmptySet DEF TreesFinite
<1>2. IndInv /\ TreesFinite /\ [Next]_vars => TreesFinite'
  <2> SUFFICES ASSUME IndInv, TreesFinite, [Next]_vars PROVE TreesFinite' OBVIOUS
  <2>1. CASE UNCHANGED <<tree, points>> BY <2>1 DEF TreesFinite
  <2>2. CASE Point
    <3>1. points' = Append(points, tree) /\ tree' = tree /\ points \in Seq(Trees)
        BY <2>2 DEF Point, IndInv, ShapeInv
    <3>2. /\ DOMAIN points' = 1..(Len(points) + 1) /\ DOMAIN points = 1..Len(points)
          /\ Len(points) \in Nat
          /\ points'[Len(points) + 1] = tree /\ \A n \in DOMAIN points : points'[n] = points[n]
        BY <3>1
    <3>3. ASSUME NEW n \in DOMAIN points' PROVE IsFiniteSet(DOMAIN points'[n])
      <4>1. n \in DOMAIN points \/ n = Len(points) + 1 BY <3>2
      <4> QED BY <3>2, <4>1 DEF TreesFinite
    <3> QED BY <3>1, <3>3 DEF TreesFinite
  <2>3. ASSUME NEW p \in todo, ApplyOpaque(p) \/ ApplyWhiteout(p) \/ ApplyEntry(p)
        PROVE  TreesFinite'
      BY <2>3, StepFinite DEF TreesFinite
  <2>4. Read \/ Fail \/ Apply \/ Loops \/ UNCHANGED vars => UNCHANGED <<tree, points>>
      BY DEF Read, Fail, Apply, Loops, NextLoop, vars
  <2> QED BY <2>1, <2>2, <2>3, <2>4 DEF Next
<1> QED BY <1>1, <1>2, Always, PTL DEF Spec

\* Any two points can be compared.
LEMMA PointsCompare ==
    ASSUME IndInv, TreesFinite, NEW m \in DOMAIN points, NEW n \in DOMAIN points
    PROVE  /\ FiniteTree(points[m]) /\ FiniteTree(points[n])
           /\ Closed(Shown(points[m], points[n]))
<1>1. points \in Seq(Trees) /\ \A k \in DOMAIN points : Rooted(points[k])
    BY DEF IndInv, ShapeInv, TreeRooted
<1>2. FiniteTree(points[m]) /\ FiniteTree(points[n]) BY <1>1 DEF TreesFinite, FiniteTree
<1> QED BY <1>2, ShownClosed

\* A row is listed under "changed" exactly when something at or beneath it has
\* changed: browsing by that filter misses nothing and leads nowhere in vain.
THEOREM ChangesFound == Spec => []ChangesAreFound
<1>1. ASSUME IndInv, TreesFinite, NEW m \in DOMAIN points, NEW n \in DOMAIN points
      PROVE  ChangesLead(m, n)
  <2> DEFINE l == points[m]
             r == points[n]
             d == Compared(m, n)
  <2>1. Closed(Shown(l, r)) BY <1>1, PointsCompare
  <2>2. /\ DOMAIN d = Shown(l, r)
        /\ \A p \in DOMAIN d : d[p].status = StatusAt(l, r, p)
      BY <2>1, DiffForm DEF Compared
  <2> HIDE DEF d, l, r
  <2>3. ASSUME NEW p \in DOMAIN d \ {Root}
        PROVE  p \in ToSet(Listing(d, Parent(p), "changed"))
                  <=> \E q \in DOMAIN d : (q = p \/ q \in Beneath(p)) /\ OwnChange(l, r, q)
    <3>1. ToSet(Listing(d, Parent(p), "changed")) = Rows(d, Parent(p), "changed")
        BY <2>1, <2>2, Listed
    <3>2. p \in Rows(d, Parent(p), "changed") <=> d[p].status # "unchanged"
        BY <2>3 DEF Rows, ChildrenIn
    <3>3. d[p].status # "unchanged" <=> Changed(l, r, p) BY <2>2, <2>3, StatusChanged
    <3> QED BY <2>2, <3>1, <3>2, <3>3 DEF Changed, Within
  <2> QED BY <2>3 DEF ChangesLead, d, l, r
<1>2. IndInv => Len(points) \in DOMAIN points BY LowerTyped
<1>3. IndInv /\ TreesFinite => ChangesAreFound
    BY <1>1, <1>2 DEF ChangesAreFound, Chosen
<1> QED BY <1>3, Always, PointsFinite, PTL

-------------------------------------------------------------------------------
(* The sums of a row.                                                        *)

\* What is summed.
Sums == {"leftBytes", "rightBytes", "leftFiles", "rightFiles", "addedBytes", "removedBytes",
         "modifiedBytesLeft", "modifiedBytesRight", "addedFiles", "removedFiles", "modifiedFiles"}

\* The sums of a directory's own row and those of its children.
Folded(base, f, C) ==
    MapThenFoldSet(AddAgg, base, LAMBDA c : f[c], LAMBDA S : CHOOSE c \in S : TRUE, C)

\* g satisfies the recursion of that fold.
Folds(g, base, f, C) ==
    g = [s \in SUBSET C |-> IF s = {} THEN base ELSE AddAgg(f[Pick(s)], g[s \ {Pick(s)}])]

\* One column of a table of sums.
ColumnOf(f, C, x) == [c \in C |-> f[c][x]]

\* The fold adds up column by column.
LEMMA FoldedForm ==
    ASSUME NEW C, IsFiniteSet(C), NEW base \in [Sums -> Int], NEW f,
           \A c \in C : f[c] \in [Sums -> Int]
    PROVE  Folded(base, f, C) = [x \in Sums |-> base[x] + SumOver(ColumnOf(f, C, x), C)]
<1> DEFINE G(s) == [x \in Sums |-> base[x] + SumOver(ColumnOf(f, C, x), s)]
           g == [s \in SUBSET C |-> G(s)]
<1>1. Folded(base, f, C) = (CHOOSE k : Folds(k, base, f, C))[C]
    BY DEF Folded, MapThenFoldSet, Folds, Pick
<1>2. \A x \in Sums, c \in C : ColumnOf(f, C, x)[c] = f[c][x] /\ f[c][x] \in Int BY DEF ColumnOf
<1>3. G({}) = base
  <2>1. \A x \in Sums : SumOver(ColumnOf(f, C, x), {}) = 0 BY SumEmpty
  <2> QED BY <2>1
<1>4. ASSUME NEW s \in SUBSET C, s # {}
      PROVE  G(s) = AddAgg(f[Pick(s)], G(s \ {Pick(s)}))
  <2>1. PICK c : c = Pick(s) OBVIOUS
  <2>2. c \in s BY <1>4, <2>1 DEF Pick
  <2>3. IsFiniteSet(s) /\ IsFiniteSet(s \ {c}) BY FS_Subset
  <2>4. ASSUME NEW x \in Sums
        PROVE  base[x] + SumOver(ColumnOf(f, C, x), s)
                 = f[c][x] + (base[x] + SumOver(ColumnOf(f, C, x), s \ {c}))
    <3>1. SumOver(ColumnOf(f, C, x), s) = f[c][x] + SumOver(ColumnOf(f, C, x), s \ {c})
        BY <1>2, <1>4, <2>1, <2>2, <2>3, SumStep
    <3>2. SumOver(ColumnOf(f, C, x), s \ {c}) \in Int BY <1>2, <2>3, SumTyped
    <3>3. f[c][x] \in Int /\ base[x] \in Int BY <1>2, <2>2
    <3> QED BY <3>1, <3>2, <3>3
  <2>5. DOMAIN f[c] = Sums BY <2>2
  <2>6. AddAgg(f[c], G(s \ {c})) = [x \in Sums |-> f[c][x] + G(s \ {c})[x]] BY <2>5 DEF AddAgg
  <2> QED BY <2>1, <2>4, <2>6
<1>5. Folds(g, base, f, C)
  <2>1. ASSUME NEW s \in SUBSET C
        PROVE  G(s) = IF s = {} THEN base ELSE AddAgg(f[Pick(s)], g[s \ {Pick(s)}])
    <3>1. s \ {Pick(s)} \in SUBSET C OBVIOUS
    <3>2. g[s \ {Pick(s)}] = G(s \ {Pick(s)}) BY <3>1
    <3> HIDE DEF G, g
    <3> QED BY <1>3, <1>4, <3>2
  <2> HIDE DEF G
  <2> QED BY <2>1 DEF Folds
<1>6. ASSUME NEW k, Folds(k, base, f, C) PROVE k[C] = G(C)
  <2> DEFINE B == {s \in SUBSET C : k[s] # G(s)}
  <2>1. ASSUME B # {} PROVE FALSE
    <3>0. B \subseteq SUBSET C OBVIOUS
    <3>1. PICK U \in B : \A V \in B : V \subseteq U => V = U
      <4> HIDE DEF B
      <4> QED BY <2>1, <3>0, MinimalSubset
    <3>2. k[U] = IF U = {} THEN base ELSE AddAgg(f[Pick(U)], k[U \ {Pick(U)}])
        BY <1>6 DEF Folds
    <3>3. U # {} BY <1>3, <3>2
    <3>4. Pick(U) \in U BY <3>3 DEF Pick
    <3>5. U \ {Pick(U)} \in SUBSET C /\ U \ {Pick(U)} \notin B BY <3>1, <3>4
    <3>6. k[U \ {Pick(U)}] = G(U \ {Pick(U)}) BY <3>5
    <3> HIDE DEF G
    <3> QED BY <1>4, <3>2, <3>3, <3>6
  <2> QED BY <2>1
<1>7. Folds(CHOOSE k : Folds(k, base, f, C), base, f, C)
  <2> HIDE DEF g
  <2> QED BY <1>5
<1> QED BY <1>1, <1>6, <1>7

\* The row of a path, without its sums, and what it adds to them.
RowAt(l, r, p) == [left |-> At(l, p), right |-> At(r, p), status |-> StatusOf(l, r)[p]]
OwnSums(l, r) == [p \in Shown(l, r) |-> OwnAgg(RowAt(l, r, p))]

\* What a path is on one side.
LEMMA AtTyped ==
    ASSUME NEW t \in Trees, NEW p \in Path \cup {Root}
    PROVE  At(t, p) \in Node \cup {None}
BY TreeForm, ImplicitIsDir DEF At

\* A node has a size, which is zero unless it is a file.
LEMMA NodeBytes ==
    ASSUME NEW m \in Node
    PROVE  Bytes(m) \in Nat /\ (m.kind # "file" => Bytes(m) = 0)
BY ContentAssumption DEF Bytes, Node

\* What a row adds is a number in every column.
LEMMA OwnTyped ==
    ASSUME NEW row, row.left = None \/ Bytes(row.left) \in Nat, row.right = None \/ Bytes(row.right) \in Nat
    PROVE  OwnAgg(row) \in [Sums -> Int]
BY DEF OwnAgg, Sums

\* The sums of a row, without the recursion: over the row and all beneath it.
AggAt(l, r, p) ==
    [x \in Sums |-> SumOver(ColumnOf(OwnSums(l, r), Shown(l, r), x), Within(Shown(l, r), p))]

\* The rows add numbers.
LEMMA OwnSumsTyped ==
    ASSUME NEW l, NEW r, FiniteTree(l), FiniteTree(r), NEW p \in Shown(l, r)
    PROVE  /\ OwnSums(l, r)[p] = OwnAgg(RowAt(l, r, p))
           /\ OwnSums(l, r)[p] \in [Sums -> Int]
           /\ \A x \in Sums : /\ ColumnOf(OwnSums(l, r), Shown(l, r), x)[p] = OwnSums(l, r)[p][x]
                              /\ OwnSums(l, r)[p][x] \in Int
<1>1. p \in Path \cup {Root} BY ShownClosed DEF Closed
<1>2. At(l, p) \in Node \cup {None} /\ At(r, p) \in Node \cup {None}
    BY <1>1, AtTyped DEF FiniteTree
<1>3. PICK row : row = RowAt(l, r, p) OBVIOUS
<1>4. row.left = At(l, p) /\ row.right = At(r, p) BY <1>3 DEF RowAt
<1>5. OwnAgg(row) \in [Sums -> Int] BY <1>2, <1>4, NodeBytes, OwnTyped
<1>6. OwnSums(l, r)[p] = OwnAgg(row) BY <1>3 DEF OwnSums
<1> QED BY <1>3, <1>5, <1>6 DEF ColumnOf

\* A row's sums are its own and those of its children.
LEMMA AggStep ==
    ASSUME NEW l, NEW r, FiniteTree(l), FiniteTree(r), NEW p \in Shown(l, r), NEW f,
           \A c \in ChildrenIn(Shown(l, r), p) : f[c] = AggAt(l, r, c)
    PROVE  AggAt(l, r, p) = Folded(OwnAgg(RowAt(l, r, p)), f, ChildrenIn(Shown(l, r), p))
<1> DEFINE S == Shown(l, r)
           C == ChildrenIn(S, p)
           own == OwnSums(l, r)
           Col(x) == ColumnOf(own, S, x)
           W == [c \in C |-> Within(S, c)]
<1>1. Closed(S) /\ IsFiniteSet(S) BY ShownClosed DEF Closed
<1>2. C \subseteq S /\ IsFiniteSet(C)
  <2>1. C \in SUBSET S BY DEF ChildrenIn
  <2> QED BY <1>1, <2>1, FS_Subset
<1>3. \A q \in S : /\ own[q] \in [Sums -> Int]
                   /\ \A x \in Sums : Col(x)[q] = own[q][x] /\ own[q][x] \in Int
    BY OwnSumsTyped
<1>4. own[p] = OwnAgg(RowAt(l, r, p)) BY OwnSumsTyped
<1>5. /\ Within(S, p) = {p} \cup UNION {W[c] : c \in C}
      /\ \A c \in C : p \notin W[c] /\ IsFiniteSet(W[c]) /\ W[c] \subseteq S
      /\ \A c, e \in C : c # e => W[c] \cap W[e] = {}
  <2>1. \A c \in C : Within(S, c) \in SUBSET S BY DEF Within
  <2>2. \A c \in C : IsFiniteSet(Within(S, c)) BY <1>1, <2>1, FS_Subset
  <2>3. /\ Within(S, p) = {p} \cup UNION {Within(S, c) : c \in C}
        /\ \A c \in C : p \notin Within(S, c)
        /\ \A c, e \in C : c # e => Within(S, c) \cap Within(S, e) = {}
      BY <1>1, WithinSplit
  <2> HIDE DEF C, S
  <2> QED BY <2>1, <2>2, <2>3
<1> HIDE DEF S, C, W, own
<1>6. \A c \in C : f[c] = [x \in Sums |-> SumOver(Col(x), W[c])]
    BY DEF AggAt, W, S, C, own
<1>7. \A c \in C, x \in Sums : SumOver(Col(x), W[c]) \in Int
  <2> SUFFICES ASSUME NEW c \in C, NEW x \in Sums PROVE SumOver(Col(x), W[c]) \in Int
      OBVIOUS
  <2>1. \A q \in W[c] : Col(x)[q] \in Int BY <1>3, <1>5
  <2> HIDE DEF Col
  <2> QED BY <1>5, <2>1, SumTyped
<1>8. \A c \in C : f[c] \in [Sums -> Int] BY <1>6, <1>7
<1>9. Folded(own[p], f, C) = [x \in Sums |-> own[p][x] + SumOver(ColumnOf(f, C, x), C)]
  <2>1. own[p] \in [Sums -> Int] BY <1>3 DEF S
  <2> QED BY <1>2, <1>8, <2>1, FoldedForm
<1>10. ASSUME NEW x \in Sums
       PROVE  SumOver(Col(x), Within(S, p)) = own[p][x] + SumOver(ColumnOf(f, C, x), C)
  <2>1. PICK U : U = UNION {W[c] : c \in C} OBVIOUS
  <2>2. PICK g : g = ColumnOf(f, C, x) OBVIOUS
  <2>3. PICK col : col = Col(x) OBVIOUS
  <2>4. \A c \in C : g[c] = SumOver(col, W[c]) BY <1>6, <2>2, <2>3 DEF ColumnOf
  <2>5. \A c \in C : \A q \in W[c] : col[q] \in Int BY <1>3, <1>5, <2>3
  <2>6. IsFiniteSet(U) /\ SumOver(col, U) = SumOver(g, C)
    <3>1. \A c \in C : IsFiniteSet(W[c]) /\ \A q \in W[c] : col[q] \in Int BY <1>5, <2>5
    <3>2. \A c, e \in C : c # e => W[c] \cap W[e] = {} BY <1>5
    <3>3. LET V == UNION {W[c] : c \in C} IN IsFiniteSet(V) /\ SumOver(col, V) = SumOver(g, C)
        BY ONLY <1>2, <3>1, <3>2, <2>4, SumFamily
    <3> QED BY <2>1, <3>3
  <2>7. p \notin U /\ Within(S, p) = U \cup {p} BY <1>5, <2>1
  <2>8. p \in S BY DEF S
  <2>9. \A q \in U \cup {p} : col[q] \in Int BY <1>3, <2>1, <2>3, <2>5, <2>8
  <2>10. SumOver(col, U \cup {p}) = col[p] + SumOver(col, U) BY <2>6, <2>7, <2>9, SumInsert
  <2>11. col[p] = own[p][x] BY <1>3, <2>3, <2>8
  <2> QED BY <2>2, <2>3, <2>6, <2>7, <2>10, <2>11
<1>11. AggAt(l, r, p) = [x \in Sums |-> SumOver(Col(x), Within(S, p))] BY DEF AggAt, S, own
<1>12. AggAt(l, r, p) = Folded(own[p], f, C)
  <2> HIDE DEF Col
  <2> QED BY <1>9, <1>10, <1>11
<1> QED BY <1>4, <1>12 DEF S, C

\* The recursion finds these sums and no others.
LEMMA AggForm ==
    ASSUME NEW l, NEW r, FiniteTree(l), FiniteTree(r), NEW p \in Shown(l, r)
    PROVE  Diff(l, r)[p].agg = AggAt(l, r, p)
<1> DEFINE S == Shown(l, r)
           Body(f, q) == Folded(OwnAgg(RowAt(l, r, q)), f, ChildrenIn(S, q))
           g == [q \in S |-> AggAt(l, r, q)]
           a == CHOOSE f : f = [q \in S |-> Body(f, q)]
<1>1. Diff(l, r)[p].agg = a[p] BY DEF Diff, Folded, RowAt
<1>0. Closed(S) /\ \A q \in S : ChildrenIn(S, q) \subseteq S BY ShownClosed DEF ChildrenIn
<1>2. \A q \in S : Body(g, q) = AggAt(l, r, q)
  <2> SUFFICES ASSUME NEW q \in S PROVE Body(g, q) = AggAt(l, r, q) OBVIOUS
  <2>1. \A c \in ChildrenIn(S, q) : g[c] = AggAt(l, r, c) BY <1>0
  <2> HIDE DEF g
  <2> QED BY <2>1, AggStep
<1>3. g = [q \in S |-> Body(g, q)]
  <2> HIDE DEF Body
  <2> QED BY <1>2
<1>4. ASSUME NEW f, f = [q \in S |-> Body(f, q)], NEW q \in S PROVE f[q] = AggAt(l, r, q)
  <2> DEFINE B == {s \in S : f[s] # AggAt(l, r, s)}
  <2>1. ASSUME B # {} PROVE FALSE
    <3>1. PICK s \in B : B \cap Under(S, s) = {} BY <1>0, <2>1, Deepest
    <3>2. \A c \in ChildrenIn(S, s) : f[c] = AggAt(l, r, c) BY <1>0, <3>1, ChildrenUnder
    <3>3. Body(f, s) = AggAt(l, r, s) BY <3>2, AggStep
    <3>4. f[s] = Body(f, s)
      <4> HIDE DEF Body
      <4> QED BY <1>4
    <3> QED BY <3>1, <3>3, <3>4
  <2> QED BY <2>1
<1>5. a = [q \in S |-> Body(a, q)]
  <2> HIDE DEF g, Body
  <2> QED BY <1>3
<1> HIDE DEF a, Body
<1> QED BY <1>1, <1>4, <1>5

\* The bytes of what is on one side of a row.
SizeAt(m) == IF m = None THEN 0 ELSE Bytes(m)

\* What a row adds to the sums that are looked at.
LEMMA ColumnValues ==
    ASSUME NEW l, NEW r, FiniteTree(l), FiniteTree(r), NEW p \in Shown(l, r)
    PROVE  LET Col(x) == ColumnOf(OwnSums(l, r), Shown(l, r), x)
               status == StatusAt(l, r, p)
           IN  /\ Col("leftBytes")[p] = SizeAt(At(l, p))
               /\ Col("rightFiles")[p] = IF At(r, p) # None /\ At(r, p).kind = "file" THEN 1 ELSE 0
               /\ Col("addedBytes")[p] = IF status = "added" THEN SizeAt(At(r, p)) ELSE 0
               /\ Col("removedBytes")[p] = IF status = "removed" THEN SizeAt(At(l, p)) ELSE 0
               /\ Col("modifiedBytesLeft")[p] = IF status = "modified" THEN SizeAt(At(l, p)) ELSE 0
               /\ Col("modifiedBytesRight")[p] = IF status = "modified" THEN SizeAt(At(r, p)) ELSE 0
<1>1. PICK row : row = RowAt(l, r, p) OBVIOUS
<1>2. row.left = At(l, p) /\ row.right = At(r, p) BY <1>1 DEF RowAt
<1>3. row.status = StatusAt(l, r, p)
  <2>1. StatusOf(l, r) = [q \in Shown(l, r) |-> StatusAt(l, r, q)] BY ShownClosed, StatusForm
  <2> QED BY <1>1, <2>1 DEF RowAt
<1>4. \A x \in Sums : ColumnOf(OwnSums(l, r), Shown(l, r), x)[p] = OwnAgg(row)[x]
    BY <1>1, OwnSumsTyped
<1>5. /\ OwnAgg(row).leftBytes = SizeAt(row.left)
      /\ OwnAgg(row).rightFiles = IF row.right # None /\ row.right.kind = "file" THEN 1 ELSE 0
      /\ OwnAgg(row).addedBytes = IF row.status = "added" THEN SizeAt(row.right) ELSE 0
      /\ OwnAgg(row).removedBytes = IF row.status = "removed" THEN SizeAt(row.left) ELSE 0
      /\ OwnAgg(row).modifiedBytesLeft = IF row.status = "modified" THEN SizeAt(row.left) ELSE 0
      /\ OwnAgg(row).modifiedBytesRight = IF row.status = "modified" THEN SizeAt(row.right) ELSE 0
    BY DEF OwnAgg, SizeAt
<1> QED BY <1>2, <1>3, <1>4, <1>5 DEF Sums

\* Every row is there on some side; the other way round, it has the other status.
LEMMA StatusSwapped ==
    ASSUME NEW l, NEW r, FiniteTree(l), FiniteTree(r), NEW p \in Shown(l, r)
    PROVE  StatusAt(r, l, p) = Swapped(StatusAt(l, r, p))
<1>1. At(l, p) # None \/ At(r, p) # None
  <2>1. p = Root \/ p \in DOMAIN l \/ p \in DOMAIN r BY DEF Shown
  <2>2. /\ \A q \in DOMAIN l : l[q] # None /\ q # Root
        /\ \A q \in DOMAIN r : r[q] # None /\ q # Root
        /\ Implicit # None
      BY TreeForm, ImplicitIsDir, NoNodeAssumption, RootAssumption DEF FiniteTree
  <2> QED BY <2>1, <2>2 DEF At
<1>2. Changed(l, r, p) <=> Changed(r, l, p) BY SidesAlike DEF Changed
<1> QED BY <1>1, <1>2 DEF StatusAt, Swapped

\* The bytes of one side of a set of rows, as the property states them.
SideBytes(d, side, S) == MapThenSumSet(LAMBDA q : Bytes(d[q][side]), S)

\* They are a sum.
LEMMA SideSum ==
    ASSUME NEW d, NEW side, NEW S
    PROVE  SideBytes(d, side, S) = SumOver([q \in S |-> Bytes(d[q][side])], S)
<1> DEFINE f == [q \in S |-> Bytes(d[q][side])]
           A(k) == [s \in SUBSET S |->
                       IF s = {} THEN 0 ELSE Bytes(d[Pick(s)][side]) + k[s \ {Pick(s)}]]
           B(k) == [s \in SUBSET S |-> IF s = {} THEN 0 ELSE f[Pick(s)] + k[s \ {Pick(s)}]]
<1>1. SideBytes(d, side, S) = (CHOOSE k : k = A(k))[S]
    BY DEF SideBytes, MapThenSumSet, MapThenFoldSet, Pick
<1>2. SumOver(f, S) = (CHOOSE k : k = B(k))[S]
    BY DEF SumOver, MapThenSumSet, MapThenFoldSet, Pick
<1>3. \A k : A(k) = B(k)
  <2> SUFFICES ASSUME NEW k, NEW s \in SUBSET S, s # {}
               PROVE  Bytes(d[Pick(s)][side]) = f[Pick(s)]
      OBVIOUS
  <2>1. Pick(s) \in s BY DEF Pick
  <2> QED BY <2>1
<1> HIDE DEF A, B, f
<1>4. (CHOOSE k : k = A(k)) = (CHOOSE k : k = B(k)) BY <1>3
<1> QED BY <1>1, <1>2, <1>4 DEF f

\* A column that is the bytes of some files and zero elsewhere adds up to theirs.
LEMMA FilesAddUp ==
    ASSUME NEW col, NEW W, IsFiniteSet(W), NEW d, NEW side, NEW F \in SUBSET W,
           \A q \in W : col[q] \in Int,
           \A q \in F : col[q] = Bytes(d[q][side]),
           \A q \in W \ F : col[q] = 0
    PROVE  SumOver(col, W) = SideBytes(d, side, F)
<1>1. IsFiniteSet(F) BY FS_Subset
<1>2. SumOver(col, W) = SumOver(col, F) BY SumSupport
<1>3. PICK g : g = [q \in F |-> Bytes(d[q][side])] OBVIOUS
<1>4. \A q \in F : col[q] = g[q] BY <1>3
<1>5. SumOver(col, F) = SumOver(g, F) BY <1>1, <1>4, SumSame
<1> QED BY <1>2, <1>3, <1>5, SideSum

\* A row's sums are those of the files among the rows within it.
SumsAre(d, e, p, within) ==
    LET Files(T, side) == {q \in T : d[q][side] # None /\ d[q][side].kind = "file"}
        With(T, status) == {q \in T : d[q].status = status}
    IN  /\ d[p].agg.leftBytes = SideBytes(d, "left", Files(within, "left"))
        /\ d[p].agg.rightFiles = Cardinality(Files(within, "right"))
        /\ d[p].agg.addedBytes = SideBytes(d, "right", Files(With(within, "added"), "right"))
        /\ d[p].agg.modifiedBytesRight
             = SideBytes(d, "right", Files(With(within, "modified"), "right"))
        /\ e[p].agg.removedBytes = d[p].agg.addedBytes
        /\ e[p].agg.modifiedBytesLeft = d[p].agg.modifiedBytesRight

\* The sums of a comparison are those of the files it shows, alike on both sides.
LEMMA ComparisonAddsUp ==
    ASSUME NEW l, NEW r, FiniteTree(l), FiniteTree(r), NEW p \in Shown(l, r)
    PROVE  SumsAre(Diff(l, r), Diff(r, l), p, Within(Shown(l, r), p))
<1> DEFINE S == Shown(l, r)
           W == Within(S, p)
           Col(x) == ColumnOf(OwnSums(l, r), S, x)
           Lac(x) == ColumnOf(OwnSums(r, l), S, x)
<1>1. PICK d : d = Diff(l, r) OBVIOUS
<1>2. PICK e : e = Diff(r, l) OBVIOUS
<1>3. S = Shown(r, l) BY SidesAlike
<1>4. Closed(S) /\ IsFiniteSet(W) /\ W \subseteq S
  <2>1. W \in SUBSET S BY DEF Within
  <2> QED BY <2>1, ShownClosed, FS_Subset DEF Closed
<1>5. \A q \in S : /\ d[q].left = At(l, q) /\ d[q].right = At(r, q)
                   /\ d[q].status = StatusAt(l, r, q)
    BY <1>1, <1>4, DiffForm
<1>6. \A x \in Sums : d[p].agg[x] = SumOver(Col(x), W)
  <2>1. d[p].agg = AggAt(l, r, p) BY <1>1, AggForm
  <2> QED BY <2>1 DEF AggAt
<1>7. \A x \in Sums : e[p].agg[x] = SumOver(Lac(x), W)
  <2>1. e[p].agg = AggAt(r, l, p) BY <1>2, <1>3, AggForm
  <2> QED BY <1>3, <2>1 DEF AggAt
<1>8. \A q \in S : At(l, q) \in Node \cup {None} /\ At(r, q) \in Node \cup {None}
  <2>1. S \subseteq Path \cup {Root} BY <1>4 DEF Closed
  <2> QED BY <2>1, AtTyped DEF FiniteTree
<1>9. \A q \in S : /\ SizeAt(At(l, q)) \in Nat /\ SizeAt(At(r, q)) \in Nat
                   /\ ~(At(l, q) # None /\ At(l, q).kind = "file") => SizeAt(At(l, q)) = 0
                   /\ ~(At(r, q) # None /\ At(r, q).kind = "file") => SizeAt(At(r, q)) = 0
    BY <1>8, NodeBytes DEF SizeAt
<1>10. \A q \in S :
         /\ Col("leftBytes")[q] = SizeAt(At(l, q))
         /\ Col("rightFiles")[q] = IF At(r, q) # None /\ At(r, q).kind = "file" THEN 1 ELSE 0
         /\ Col("addedBytes")[q] = IF StatusAt(l, r, q) = "added" THEN SizeAt(At(r, q)) ELSE 0
         /\ Col("modifiedBytesRight")[q] =
               IF StatusAt(l, r, q) = "modified" THEN SizeAt(At(r, q)) ELSE 0
    BY ColumnValues
<1>11. \A q \in S :
         /\ Lac("removedBytes")[q] = IF StatusAt(l, r, q) = "added" THEN SizeAt(At(r, q)) ELSE 0
         /\ Lac("modifiedBytesLeft")[q] =
               IF StatusAt(l, r, q) = "modified" THEN SizeAt(At(r, q)) ELSE 0
  <2> SUFFICES ASSUME NEW q \in S
               PROVE /\ Lac("removedBytes")[q] =
                            IF StatusAt(l, r, q) = "added" THEN SizeAt(At(r, q)) ELSE 0
                     /\ Lac("modifiedBytesLeft")[q] =
                            IF StatusAt(l, r, q) = "modified" THEN SizeAt(At(r, q)) ELSE 0
      OBVIOUS
  <2>1. /\ Lac("removedBytes")[q] = IF StatusAt(r, l, q) = "removed" THEN SizeAt(At(r, q)) ELSE 0
        /\ Lac("modifiedBytesLeft")[q] =
              IF StatusAt(r, l, q) = "modified" THEN SizeAt(At(r, q)) ELSE 0
      BY <1>3, ColumnValues
  <2>2. StatusAt(r, l, q) = Swapped(StatusAt(l, r, q)) BY StatusSwapped
  <2> QED BY <2>1, <2>2 DEF Swapped, StatusAt
<1> DEFINE Files(T, side) == {q \in T : d[q][side] # None /\ d[q][side].kind = "file"}
           With(T, status) == {q \in T : d[q].status = status}
<1> HIDE DEF S, W, Col, Lac
<1>12. SumOver(Col("leftBytes"), W) = SideBytes(d, "left", Files(W, "left"))
  <2>1. PICK F : F = Files(W, "left") OBVIOUS
  <2>2. PICK col : col = Col("leftBytes") OBVIOUS
  <2>3. F \in SUBSET W /\ \A q \in W : col[q] \in Int BY <1>4, <1>9, <1>10, <2>1, <2>2
  <2>4. \A q \in F : col[q] = Bytes(d[q]["left"])
      BY <1>4, <1>5, <1>10, <2>1, <2>2 DEF SizeAt
  <2>5. \A q \in W \ F : col[q] = 0 BY <1>4, <1>5, <1>9, <1>10, <2>1, <2>2
  <2>6. SumOver(col, W) = SideBytes(d, "left", F) BY <1>4, <2>3, <2>4, <2>5, FilesAddUp
  <2> QED BY <2>1, <2>2, <2>6
<1>13. SumOver(Col("rightFiles"), W) = Cardinality(Files(W, "right"))
  <2>1. PICK F : F = Files(W, "right") OBVIOUS
  <2>2. PICK col : col = Col("rightFiles") OBVIOUS
  <2>3. F \in SUBSET W /\ \A q \in W : col[q] \in Int BY <1>4, <1>10, <2>1, <2>2
  <2>4. \A q \in F : col[q] = 1 BY <1>4, <1>5, <1>10, <2>1, <2>2
  <2>5. \A q \in W \ F : col[q] = 0 BY <1>4, <1>5, <1>10, <2>1, <2>2
  <2>6. SumOver(col, W) = SumOver(col, F) BY <1>4, <2>3, <2>5, SumSupport
  <2>7. IsFiniteSet(F) BY <1>4, <2>3, FS_Subset
  <2>8. SumOver(col, F) = Cardinality(F) BY <2>4, <2>7, SumCount
  <2> QED BY <2>1, <2>2, <2>6, <2>8
<1>14. ASSUME NEW x, NEW status,
              \A q \in S : Col(x)[q] = IF StatusAt(l, r, q) = status THEN SizeAt(At(r, q)) ELSE 0
       PROVE  SumOver(Col(x), W) = SideBytes(d, "right", Files(With(W, status), "right"))
  <2>1. PICK F : F = Files(With(W, status), "right") OBVIOUS
  <2>2. PICK col : col = Col(x) OBVIOUS
  <2>3. F \in SUBSET W /\ \A q \in W : col[q] \in Int BY <1>4, <1>9, <1>14, <2>1, <2>2
  <2>4. \A q \in F : col[q] = Bytes(d[q]["right"])
      BY <1>4, <1>5, <1>14, <2>1, <2>2 DEF SizeAt
  <2>5. \A q \in W \ F : col[q] = 0 BY <1>4, <1>5, <1>9, <1>14, <2>1, <2>2
  <2>6. SumOver(col, W) = SideBytes(d, "right", F) BY <1>4, <2>3, <2>4, <2>5, FilesAddUp
  <2> QED BY <2>1, <2>2, <2>6
<1>15. SumOver(Lac("removedBytes"), W) = SumOver(Col("addedBytes"), W)
  <2>1. \A q \in W : Lac("removedBytes")[q] = Col("addedBytes")[q] BY <1>4, <1>10, <1>11
  <2> QED BY <1>4, <2>1, SumSame
<1>16. SumOver(Lac("modifiedBytesLeft"), W) = SumOver(Col("modifiedBytesRight"), W)
  <2>1. \A q \in W : Lac("modifiedBytesLeft")[q] = Col("modifiedBytesRight")[q]
      BY <1>4, <1>10, <1>11
  <2> QED BY <1>4, <2>1, SumSame
<1> HIDE DEF Files, With
<1>17. SumOver(Col("addedBytes"), W) = SideBytes(d, "right", Files(With(W, "added"), "right"))
    BY <1>10, <1>14
<1>18. SumOver(Col("modifiedBytesRight"), W)
         = SideBytes(d, "right", Files(With(W, "modified"), "right"))
    BY <1>10, <1>14
<1>19. /\ d[p].agg.leftBytes = SumOver(Col("leftBytes"), W)
       /\ d[p].agg.rightFiles = SumOver(Col("rightFiles"), W)
       /\ d[p].agg.addedBytes = SumOver(Col("addedBytes"), W)
       /\ d[p].agg.modifiedBytesRight = SumOver(Col("modifiedBytesRight"), W)
       /\ e[p].agg.removedBytes = SumOver(Lac("removedBytes"), W)
       /\ e[p].agg.modifiedBytesLeft = SumOver(Lac("modifiedBytesLeft"), W)
    BY <1>6, <1>7 DEF Sums
<1>20. SumsAre(d, e, p, W)
    BY <1>12, <1>13, <1>15, <1>16, <1>17, <1>18, <1>19 DEF SumsAre, Files, With
<1> QED BY <1>1, <1>2, <1>20 DEF W, S

\* A tree does not differ from itself.
LEMMA SelfUnchanged ==
    ASSUME NEW t, FiniteTree(t)
    PROVE  AllUnchanged(Diff(t, t))
<1>1. Closed(Shown(t, t)) BY ShownClosed
<1>2. \A p \in Shown(t, t) : At(t, p) # None
  <2>1. \A q \in DOMAIN t : t[q] # None BY TreeForm, NoNodeAssumption DEF FiniteTree
  <2> QED BY <2>1, ImplicitIsDir, NoNodeAssumption DEF Shown, At
<1>3. \A p \in Shown(t, t) : ~OwnChange(t, t, p) BY <1>2 DEF OwnChange, OnBoth, MetaDiffers
<1>4. \A p \in Shown(t, t) : ~Changed(t, t, p) BY <1>3 DEF Changed, Within
<1> QED BY <1>1, <1>4, DiffForm, StatusChanged DEF AllUnchanged

\* Browsing loses no byte and counts none twice: a row's sums are those of the
\* files shown at or beneath it, whatever the two trees (analyze.Diff, fillAgg).
THEOREM DiffsAddUp == Spec => []DiffAddsUp
<1>1. ASSUME IndInv, TreesFinite, NEW m \in DOMAIN points, NEW n \in DOMAIN points
      PROVE  RowsAddUp(m, n)
  <2>1. PICK l : l = points[m] OBVIOUS
  <2>2. PICK r : r = points[n] OBVIOUS
  <2>3. FiniteTree(l) /\ FiniteTree(r) BY <1>1, <2>1, <2>2, PointsCompare
  <2>4. PICK d : d = Diff(l, r) OBVIOUS
  <2>5. PICK e : e = Diff(r, l) OBVIOUS
  <2>6. Shown(l, r) = Shown(r, l) /\ Closed(Shown(l, r)) BY <2>3, SidesAlike, ShownClosed
  <2>7. /\ DOMAIN d = Shown(l, r) /\ DOMAIN e = Shown(l, r)
        /\ \A p \in Shown(l, r) : d[p].status = StatusAt(l, r, p) /\ e[p].status = StatusAt(r, l, p)
      BY <2>4, <2>5, <2>6, DiffForm
  <2>8. \A p \in DOMAIN d : e[p].status = Swapped(d[p].status) BY <2>3, <2>7, StatusSwapped
  <2> DEFINE W(p) == {q \in DOMAIN d : q = p \/ q \in Beneath(p)}
  <2>9. \A p : W(p) = Within(Shown(l, r), p) BY <2>7 DEF Within
  <2>10. ASSUME NEW p \in DOMAIN d PROVE SumsAre(d, e, p, W(p))
    <3>1. SumsAre(Diff(l, r), Diff(r, l), p, Within(Shown(l, r), p))
        BY <2>3, <2>7, ComparisonAddsUp
    <3> HIDE DEF W
    <3> QED BY <2>4, <2>5, <2>9, <3>1
  <2>11. l = r => AllUnchanged(d) BY <2>3, <2>4, SelfUnchanged
  <2>12. d = Compared(m, n) /\ e = Compared(n, m) BY <2>1, <2>2, <2>4, <2>5 DEF Compared
  <2> DEFINE D == Compared(m, n)
             E == Compared(n, m)
  <2>13. d = D /\ e = E BY <2>12
  <2> HIDE DEF D, E
  <2>14. /\ DOMAIN E = DOMAIN D
         /\ \A p \in DOMAIN D :
              /\ E[p].status = Swapped(D[p].status)
              /\ SumsAre(D, E, p, {q \in DOMAIN D : q = p \/ q \in Beneath(p)})
         /\ points[m] = points[n] => AllUnchanged(D)
      BY <2>1, <2>2, <2>7, <2>8, <2>10, <2>11, <2>13
  <2> QED BY <2>14 DEF RowsAddUp, SumsAre, SideBytes, D, E
<1>2. IndInv => Len(points) \in DOMAIN points BY LowerTyped
<1>3. IndInv /\ TreesFinite => DiffAddsUp
    BY <1>1, <1>2 DEF DiffAddsUp, Chosen
<1> QED BY <1>3, Always, PointsFinite, PTL

-------------------------------------------------------------------------------
(* The pages.                                                                *)

\* The least number of a finite set.
LEMMA MinOf ==
    ASSUME NEW S \in SUBSET Int, NEW m \in S, \A k \in S : m <= k
    PROVE  Min(S) = m
<1>1. PICK x : x = Min(S) OBVIOUS
<1>2. x = CHOOSE y \in S : \A k \in S : y =< k BY <1>1, Zenon DEF Min
<1>3. x \in S /\ \A k \in S : x <= k BY <1>2
<1>4. x <= m /\ m <= x /\ x \in Int /\ m \in Int BY <1>3
<1> QED BY <1>1, <1>4

\* The parameters of a request for a page.
Params ==
    [leftLayers: Nat, rightLayers: Nat, path: Path \cup {Root}, depth: 1..2,
     limit: 1..MaxTreeLimit, filter: Filter]

\* The limits that may be sent, one of them none.
Limits == {None} \cup 1..MaxTreeLimit

\* The defaults of what is left out.
LimitOf(limit) == IF limit = None THEN DefaultTreeLimit ELSE limit
DepthOf(depth) == IF depth = None THEN 1 ELSE depth

\* What is asked for is taken as it is, and what is left out has its default.
LEMMA AskedForm ==
    ASSUME NEW m \in DOMAIN points, NEW n \in DOMAIN points, points \in Seq(Trees),
           NEW at \in Path \cup {Root}, NEW depth \in {None, 1, 2},
           NEW limit \in Limits, NEW filter \in Filter
    PROVE  LET params == Asked(m, n, at, depth, limit, filter)
           IN  /\ params \in Params /\ params.path = at /\ params.filter = filter
               /\ params.depth = DepthOf(depth) /\ params.limit = LimitOf(limit)
<1>1. /\ m - 1 \in 0..Len(points) - 1 /\ n - 1 \in 0..Len(points) - 1 /\ Len(points) \in Nat
      /\ m - 1 # None /\ n - 1 # None /\ at # None /\ filter # None
    BY OmittedAssumption
<1>2. LimitOf(limit) \in 1..MaxTreeLimit
    BY LimitAssumption DEF LimitOf, Limits
<1>3. DepthOf(depth) \in 1..2 BY OmittedAssumption DEF DepthOf
<1>4. Asked(m, n, at, depth, limit, filter)
        = [leftLayers |-> m - 1, rightLayers |-> n - 1, path |-> at,
           depth |-> DepthOf(depth), limit |-> LimitOf(limit), filter |-> filter]
    BY <1>1, <1>2, <1>3 DEF Asked, TreeParams, Given, LimitOf, DepthOf
<1> QED BY <1>1, <1>2, <1>3, <1>4 DEF Params

\* What a cursor says of the row it was issued for, and what it is good for.
CursorSays(cur, d, params, p) ==
    /\ cur # None
    /\ cur.section = Section(d[p]) /\ cur.lastName = NameRank[p]
    /\ cur.query = CursorQuery(params)

\* A cursor says so, and is told from none.
LEMMA CursorForm ==
    ASSUME NEW d, NEW p \in Path, NEW params \in Params
    PROVE  CursorSays(Cursor(d, params, p), d, params, p)
<1>1. CursorQuery(params) \in Query BY DEF CursorQuery, Query, Params
<1>2. Section(d[p]) \in {0, 1} /\ NameRank[p] \in Nat BY NameRankAssumption DEF Section
<1>3. PICK cur : cur = Cursor(d, params, p) OBVIOUS
<1>4. cur = [section |-> Section(d[p]), lastName |-> NameRank[p], query |-> CursorQuery(params)]
    BY <1>3 DEF Cursor
<1>5. cur \in CursorState BY <1>1, <1>2, <1>4 DEF CursorState
<1>6. cur # None BY <1>5, OmittedAssumption
<1> QED BY <1>3, <1>4, <1>6 DEF CursorSays

\* The cursor of a row is where the next one starts.
LEMMA PageStarts ==
    ASSUME NEW d, Closed(DOMAIN d), NEW at, NEW filter, NEW cur, cur # None,
           NEW done \in DOMAIN Listing(d, at, filter),
           cur.section = Section(d[Listing(d, at, filter)[done]]),
           cur.lastName = NameRank[Listing(d, at, filter)[done]]
    PROVE  PageStart(d, Listing(d, at, filter), cur) = done
<1>1. PICK rows : rows = Listing(d, at, filter) OBVIOUS
<1>2. /\ Len(rows) \in Nat /\ DOMAIN rows = 1..Len(rows)
      /\ \A m, n \in DOMAIN rows : m < n <=> SortsBefore(d, rows[m], rows[n])
    BY <1>1, Listed
<1> DEFINE After(n) == IF Section(d[rows[n]]) # cur.section THEN Section(d[rows[n]]) > cur.section
                       ELSE NameRank[rows[n]] > cur.lastName
           first == {n \in DOMAIN rows : After(n)}
<1>3. \A n \in DOMAIN rows : NameRank[rows[n]] \in Nat
  <2>1. rows \in Seq(Rows(d, at, filter)) /\ Rows(d, at, filter) \subseteq Path BY <1>1, Listed
  <2> QED BY <1>2, <2>1, NameRankAssumption
<1>4. ASSUME NEW n \in DOMAIN rows PROVE After(n) <=> done < n
  <2>1. After(n) <=> SortsBefore(d, rows[done], rows[n])
    <3>1. IsDirRow(d[rows[done]]) \in BOOLEAN /\ IsDirRow(d[rows[n]]) \in BOOLEAN BY DEF IsDirRow
    <3>2. NameRank[rows[done]] \in Nat /\ NameRank[rows[n]] \in Nat BY <1>1, <1>3
    <3> QED BY <1>1, <3>1, <3>2 DEF Section, SortsBefore
  <2> QED BY <1>1, <1>2, <2>1
<1> HIDE DEF After
<1>5. first = {n \in 1..Len(rows) : done < n} BY <1>2, <1>4
<1>6. done \in 1..Len(rows) BY <1>1, <1>2
<1>7. PageStart(d, rows, cur) = IF first = {} THEN Len(rows) ELSE Min(first) - 1
    BY DEF PageStart, After
<1>8. CASE done = Len(rows)
  <2>1. first = {} BY <1>2, <1>5, <1>8
  <2> QED BY <1>1, <1>7, <1>8, <2>1
<1>9. CASE done # Len(rows)
  <2>1. first \in SUBSET Int /\ done + 1 \in first /\ \A k \in first : done + 1 <= k
      BY <1>2, <1>5, <1>6, <1>9
  <2>2. Min(first) = done + 1
    <3> HIDE DEF first
    <3> QED BY <2>1, MinOf
  <2> QED BY <1>1, <1>6, <1>7, <2>1, <2>2
<1> QED BY <1>8, <1>9

\* The lesser of two numbers.
LEMMA MinOfTwo ==
    ASSUME NEW a \in Int, NEW b \in Int
    PROVE  Min({a, b}) = IF a <= b THEN a ELSE b
<1>1. CASE a <= b
  <2>1. {a, b} \in SUBSET Int /\ a \in {a, b} /\ \A k \in {a, b} : a <= k BY <1>1
  <2> QED BY <1>1, <2>1, MinOf
<1>2. CASE ~(a <= b)
  <2>1. {a, b} \in SUBSET Int /\ b \in {a, b} /\ \A k \in {a, b} : b <= k BY <1>2
  <2> QED BY <1>2, <2>1, MinOf
<1> QED BY <1>1, <1>2

\* A directory is found exactly when the comparison shows it.
LEMMA FoundShown ==
    ASSUME NEW d, Closed(DOMAIN d), NEW at
    PROVE  Found(d, at) <=> at \in DOMAIN d
BY DEF Found, Closed

\* The budget a page hands out to its rows, from the row before each.
BudgetOf(d, rows, limit, filter, start, end) ==
    LET budget[n \in start..end] ==
            IF n = start THEN MaxEmbeddedRows
            ELSE budget[n - 1] - Embedded(Listing(d, rows[n], filter), limit, budget[n - 1])
    IN  budget

\* A page, once it is known where it starts and ends.
PageFrom(d, params, rows, start, end) ==
    [rows |-> [n \in 1..(end - start) |->
                 TreeRow(d, rows[start + n], params.depth, params.limit, params.filter,
                         BudgetOf(d, rows, params.limit, params.filter, start, end)[start + n - 1])],
     totalRows |-> Len(rows),
     maxSiblingBytes |-> MaxSiblingBytes(d, rows),
     nextCursor |-> IF end < Len(rows) THEN Cursor(d, params, rows[end]) ELSE None]

\* It starts where its cursor says.
LEMMA PageForm ==
    ASSUME NEW d, Closed(DOMAIN d), NEW params, NEW cur,
           params.path \in DOMAIN d, CursorFits(cur, params),
           NEW rows, rows = Listing(d, params.path, params.filter),
           NEW start, start = PageStart(d, rows, cur),
           NEW end, end = Min({start + params.limit, Len(rows)})
    PROVE  TreePage(d, params, cur) = PageFrom(d, params, rows, start, end)
<1>1. Found(d, params.path) BY FoundShown
<1> QED BY <1>1 DEF TreePage, PageFrom, BudgetOf

\* A page that starts where the cursor says goes on from there.
LEMMA PageFollows ==
    ASSUME NEW d, Closed(DOMAIN d), NEW params, params.limit \in Nat \ {0}, NEW cur,
           params.path \in DOMAIN d, CursorFits(cur, params),
           NEW done \in 0..Len(Listing(d, params.path, params.filter)),
           PageStart(d, Listing(d, params.path, params.filter), cur) = done
    PROVE  Follows(d, params, Listing(d, params.path, params.filter), TreePage(d, params, cur), done)
<1>1. PICK rows : rows = Listing(d, params.path, params.filter) OBVIOUS
<1>2. rows \in Seq(ToSet(rows)) /\ Len(rows) \in Nat /\ DOMAIN rows = 1..Len(rows)
    BY <1>1, Listed
<1>3. PICK end : end = Min({done + params.limit, Len(rows)}) OBVIOUS
<1>4. end \in Nat /\ done <= end /\ end <= Len(rows) /\ done \in Nat
  <2>1. PICK count \in Nat : count = Len(rows) BY <1>2
  <2>2. PICK limit \in Nat \ {0} : limit = params.limit OBVIOUS
  <2>3. done \in Nat /\ done <= count /\ done + limit \in Int /\ count \in Int
      BY <1>1, <2>1
  <2>4. end = IF done + limit <= count THEN done + limit ELSE count
      BY <1>3, <2>1, <2>2, <2>3, MinOfTwo
  <2>5. end \in Nat /\ done <= end /\ end <= count BY <2>2, <2>3, <2>4
  <2> QED BY <2>1, <2>3, <2>5
<1>5. PICK page : page = TreePage(d, params, cur) OBVIOUS
<1>6. /\ \E budget : page.rows = [n \in 1..(end - done) |->
                                   TreeRow(d, rows[done + n], params.depth, params.limit,
                                           params.filter, budget[done + n - 1])]
      /\ page.totalRows = Len(rows)
      /\ page.nextCursor = IF end < Len(rows) THEN Cursor(d, params, rows[end]) ELSE None
  <2>1. PICK budget : budget = BudgetOf(d, rows, params.limit, params.filter, done, end) OBVIOUS
  <2>2. done = PageStart(d, rows, cur) BY <1>1
  <2>3. page = PageFrom(d, params, rows, done, end)
      BY <1>1, <1>3, <1>5, <2>2, PageForm
  <2> QED BY <2>1, <2>3 DEF PageFrom
<1>7. DOMAIN page.rows = 1..(end - done)
      /\ \A k \in 1..(end - done) : page.rows[k].path = rows[done + k]
    BY <1>6 DEF TreeRow
<1>8. [k \in DOMAIN page.rows |-> page.rows[k].path] = SubSeq(rows, done + 1, end)
  <2> DEFINE part == SubSeq(rows, done + 1, end)
  <2>1. \A k \in (done + 1)..end : rows[k] \in ToSet(rows) BY <1>2, <1>4 DEF ToSet
  <2>2. /\ part \in Seq(ToSet(rows))
        /\ Len(part) = IF done + 1 <= end THEN end - (done + 1) + 1 ELSE 0
        /\ \A k \in 1..(end - (done + 1) + 1) : part[k] = rows[(done + 1) + k - 1]
    <3>1. done + 1 \in Int /\ end \in Int BY <1>4
    <3> QED BY <2>1, <3>1, SubSeqProperties
  <2> HIDE DEF part
  <2>3. Len(part) = end - done /\ end - (done + 1) + 1 = end - done BY <1>4, <2>2
  <2>4. \A k \in 1..(end - done) : part[k] = rows[done + k] BY <1>4, <2>2, <2>3
  <2>5. part = [k \in 1..(end - done) |-> part[k]] BY <2>2, <2>3
  <2>6. \A k \in 1..(end - done) : page.rows[k].path = part[k] BY <1>7, <2>4
  <2>7. [k \in DOMAIN page.rows |-> page.rows[k].path] = [k \in 1..(end - done) |-> part[k]]
      BY <1>7, <2>6
  <2> QED BY <2>5, <2>7 DEF part
<1>9. end < Len(rows) <=> end # Len(rows)
  <2>1. PICK count \in Nat : count = Len(rows) BY <1>2
  <2> QED BY <1>4, <2>1
<1> QED BY <1>1, <1>3, <1>5, <1>6, <1>8, <1>9 DEF Follows

\* What is known of the parameters of a request.
AsksFor(params, at, filter, limit) ==
    /\ params \in Params /\ params.limit \in Nat \ {0}
    /\ params.path = at /\ params.filter = filter /\ params.limit = LimitOf(limit)
    /\ CursorQuery(params)["path"] = at /\ CursorQuery(params)["filter"] = filter

\* So for a page whose depth is left out.
LEMMA AskedPage ==
    ASSUME NEW m \in DOMAIN points, NEW n \in DOMAIN points, points \in Seq(Trees),
           NEW at \in Path \cup {Root}, NEW limit \in Limits,
           NEW filter \in Filter
    PROVE  AsksFor(Asked(m, n, at, None, limit, filter), at, filter, limit)
<1>1. PICK params : params = Asked(m, n, at, None, limit, filter) OBVIOUS
<1>2. /\ params \in Params /\ params.path = at /\ params.filter = filter
      /\ params.limit = LimitOf(limit)
    BY <1>1, AskedForm
<1>3. params.limit \in Nat \ {0} BY <1>2, LimitAssumption DEF Params
<1>4. CursorQuery(params)["path"] = at /\ CursorQuery(params)["filter"] = filter
    BY <1>2 DEF CursorQuery
<1> QED BY <1>1, <1>2, <1>3, <1>4 DEF AsksFor

\* The row a cursor was issued for.
CursorOf(cur, d, params, rows) == \E done \in DOMAIN rows : cur = Cursor(d, params, rows[done])

\* Who issued a cursor: the same listing, if the cursor is taken at all.
LEMMA IssuedForm ==
    ASSUME NEW m \in DOMAIN points, NEW n \in DOMAIN points, points \in Seq(Trees),
           NEW d, Closed(DOMAIN d), NEW cur \in Issued(d, m, n),
           NEW at \in Path \cup {Root}, NEW filter \in Filter, NEW limit \in Limits,
           CursorFits(cur, Asked(m, n, at, None, limit, filter))
    PROVE  CursorOf(cur, d, Asked(m, n, at, None, limit, filter), Listing(d, at, filter))
<1>1. PICK p \in DOMAIN d, lim \in 1..MaxTreeLimit, fil \in Filter :
            /\ cur = TreePage(d, Asked(m, n, p, None, lim, fil), None).nextCursor
            /\ cur # None
    BY DEF Issued
<1>2. p \in Path \cup {Root} /\ MaxTreeLimit \in Nat BY LimitAssumption DEF Closed
<1>3. PICK asked : asked = Asked(m, n, p, None, lim, fil) OBVIOUS
<1>4. PICK params : params = Asked(m, n, at, None, limit, filter) OBVIOUS
<1>5. lim \in Nat \ {0} /\ lim # None /\ lim \in Limits
    BY <1>2, OmittedAssumption DEF Limits
<1>6. /\ asked \in Params /\ asked.path = p /\ asked.filter = fil /\ asked.limit = lim
      /\ CursorQuery(asked)["path"] = p /\ CursorQuery(asked)["filter"] = fil
  <2>1. LimitOf(lim) = lim BY <1>5 DEF LimitOf
  <2>2. p \in Path \cup {Root} /\ lim \in Limits BY <1>2, <1>5
  <2>3. AsksFor(asked, p, fil, lim) BY <1>3, <2>2, AskedPage
  <2> QED BY <2>1, <2>3 DEF AsksFor
<1>7. /\ params \in Params
      /\ CursorQuery(params)["path"] = at /\ CursorQuery(params)["filter"] = filter
  <2>1. AsksFor(params, at, filter, limit) BY <1>4, AskedPage
  <2> QED BY <2>1 DEF AsksFor
<1>8. PICK rows : rows = Listing(d, p, fil) OBVIOUS
<1>9. Len(rows) \in Nat /\ DOMAIN rows = 1..Len(rows) /\ rows \in Seq(Rows(d, p, fil))
      /\ Rows(d, p, fil) \subseteq Path
    BY <1>8, Listed
<1>10. PICK end : end = Min({0 + lim, Len(rows)}) OBVIOUS
<1>11. cur = IF end = Len(rows) THEN None ELSE Cursor(d, asked, rows[end])
  <2>2. CursorFits(None, asked) /\ PageStart(d, rows, None) = 0 BY DEF CursorFits, PageStart
  <2>3. 0 \in 0..Len(Listing(d, asked.path, asked.filter)) BY <1>6, <1>8, <1>9
  <2>4. Follows(d, asked, rows, TreePage(d, asked, None), 0)
      BY <1>5, <1>6, <1>8, <2>2, <2>3, PageFollows
  <2> QED BY <1>1, <1>3, <1>6, <1>10, <2>4 DEF Follows
<1>12. end \in DOMAIN rows /\ cur = Cursor(d, asked, rows[end])
  <2>1. PICK count \in Nat : count = Len(rows) BY <1>9
  <2>2. end = IF lim <= count THEN lim ELSE count
    <3>1. 0 + lim = lim /\ lim \in Int /\ count \in Int BY <1>5, <2>1
    <3> QED BY <1>10, <2>1, <3>1, MinOfTwo
  <2>3. end # Len(rows) BY <1>1, <1>11
  <2>4. end \in Nat /\ end < count /\ 1 <= end BY <1>5, <2>1, <2>2, <2>3
  <2>5. end \in 1..count BY <2>1, <2>4
  <2> QED BY <1>9, <1>11, <2>1, <2>3, <2>5
<1>13. PICK last \in Path : last = rows[end] BY <1>9, <1>12
<1>14. cur # None /\ cur.query = CursorQuery(asked)
  <2>1. cur = Cursor(d, asked, last) BY <1>12, <1>13
  <2>2. CursorSays(cur, d, asked, last) BY <1>6, <2>1, CursorForm
  <2> QED BY <2>2 DEF CursorSays
<1>15. cur.query = CursorQuery(params) BY <1>4, <1>14 DEF CursorFits
<1>17. p = at /\ fil = filter BY <1>6, <1>7, <1>14, <1>15
<1>18. cur = Cursor(d, params, rows[end]) BY <1>12, <1>14, <1>15 DEF Cursor
<1> QED BY <1>4, <1>8, <1>12, <1>17, <1>18 DEF CursorOf

\* Pages of a directory that is shown, from the start and from any of its cursors.
LEMMA PagesGoOn ==
    ASSUME NEW m \in DOMAIN points, NEW n \in DOMAIN points, points \in Seq(Trees),
           NEW d, Closed(DOMAIN d), NEW at \in DOMAIN d, NEW filter \in Filter,
           NEW limit \in Limits,
           NEW params, params = Asked(m, n, at, None, limit, filter),
           NEW rows, rows = Listing(d, at, filter)
    PROVE  /\ Follows(d, params, rows, TreePage(d, params, None), 0)
           /\ \A done \in DOMAIN rows :
                Follows(d, params, rows, TreePage(d, params, Cursor(d, params, rows[done])), done)
<1>1. at \in Path \cup {Root} /\ MaxTreeLimit \in Nat BY LimitAssumption DEF Closed
<1>2. params \in Params /\ params.limit \in Nat \ {0} /\ params.path = at /\ params.filter = filter
  <2>1. AsksFor(params, at, filter, limit) BY <1>1, AskedPage
  <2> QED BY <2>1 DEF AsksFor
<1>5. Len(rows) \in Nat /\ DOMAIN rows = 1..Len(rows) /\ rows \in Seq(Rows(d, at, filter))
      /\ Rows(d, at, filter) \subseteq Path
    BY Listed
<1>6. Follows(d, params, rows, TreePage(d, params, None), 0)
  <2>1. CursorFits(None, params) /\ PageStart(d, rows, None) = 0 BY DEF CursorFits, PageStart
  <2>2. 0 \in 0..Len(rows) BY <1>5
  <2> QED BY <1>2, <2>1, <2>2, PageFollows
<1>7. ASSUME NEW done \in DOMAIN rows
      PROVE  Follows(d, params, rows, TreePage(d, params, Cursor(d, params, rows[done])), done)
  <2>1. PICK cur : cur = Cursor(d, params, rows[done]) OBVIOUS
  <2>2. rows[done] \in Path /\ done \in 0..Len(rows) BY <1>5
  <2>3. /\ cur # None /\ cur.section = Section(d[rows[done]]) /\ cur.lastName = NameRank[rows[done]]
        /\ cur.query = CursorQuery(params)
    <3>1. PICK last \in Path : last = rows[done] BY <2>2
    <3>2. cur = Cursor(d, params, last) BY <2>1, <3>1
    <3>3. /\ cur # None /\ cur.section = Section(d[last]) /\ cur.lastName = NameRank[last]
          /\ cur.query = CursorQuery(params)
      <4>1. CursorSays(cur, d, params, last) BY <1>2, <3>2, CursorForm
      <4> QED BY <4>1 DEF CursorSays
    <3> QED BY <3>1, <3>3
  <2>4. CursorFits(cur, params) BY <2>3 DEF CursorFits
  <2>5. PageStart(d, rows, cur) = done BY <2>3, PageStarts
  <2> QED BY <1>2, <2>1, <2>2, <2>4, <2>5, PageFollows
<1> QED BY <1>6, <1>7

\* Whichever cursor of an earlier answer a client sends is refused or resumes
\* exactly after the row it was issued for, whatever the limits are.
THEOREM PagesAlwaysResume == Spec => []PagesResume
<1>1. ASSUME IndInv, TreesFinite, NEW m \in DOMAIN points, NEW n \in DOMAIN points
      PROVE  Resume(m, n)
  <2>1. PICK d : d = Compared(m, n) OBVIOUS
  <2>2. Closed(DOMAIN d) BY <1>1, <2>1, PointsCompare, DiffForm DEF Compared
  <2>3. points \in Seq(Trees) BY <1>1 DEF IndInv, ShapeInv
  <2>4. ASSUME NEW at \in Path \cup {Root}, NEW filter \in Filter, NEW limit \in {None, MaxTreeLimit}
        PROVE  ResumeAt(d, Issued(d, m, n), Asked(m, n, at, None, limit, filter), at, filter)
    <3> DEFINE params == Asked(m, n, at, None, limit, filter)
               rows == Listing(d, at, filter)
    <3> HIDE DEF params, rows
    <3>0. params = Asked(m, n, at, None, limit, filter) /\ rows = Listing(d, at, filter)
        BY DEF params, rows
    <3>1. limit \in Limits BY LimitAssumption DEF Limits
    <3>2. CASE at \notin DOMAIN d
      <4>1. params.path = at BY <2>3, <3>0, <3>1, AskedPage DEF AsksFor
      <4>2. ~Found(d, params.path) BY <2>2, <3>2, <4>1, FoundShown
      <4>3. TreePage(d, params, None) = None BY <4>2 DEF TreePage
      <4> QED BY <3>0, <3>2, <4>3 DEF ResumeAt
    <3>3. CASE at \in DOMAIN d
      <4>1. /\ Follows(d, params, rows, TreePage(d, params, None), 0)
            /\ \A done \in DOMAIN rows :
                  Follows(d, params, rows, TreePage(d, params, Cursor(d, params, rows[done])), done)
          BY <2>2, <2>3, <3>0, <3>1, <3>3, PagesGoOn
      <4>2. Len(rows) \in Nat /\ DOMAIN rows = 1..Len(rows) BY <2>2, <3>0, Listed
      <4>3. ASSUME NEW cur \in Issued(d, m, n), TreePage(d, params, cur) # None
            PROVE  \E done \in DOMAIN rows : cur = Cursor(d, params, rows[done])
        <5>1. CursorFits(cur, params) BY <4>3 DEF TreePage
        <5>3. CursorFits(cur, Asked(m, n, at, None, limit, filter)) BY <3>0, <5>1
        <5>2. CursorOf(cur, d, Asked(m, n, at, None, limit, filter), Listing(d, at, filter))
            BY <2>2, <2>3, <3>0, <3>1, <4>3, <5>3, IssuedForm
        <5> QED BY <3>0, <5>2 DEF CursorOf
      <4> QED BY <3>0, <3>3, <4>1, <4>2, <4>3 DEF ResumeAt
    <3> QED BY <3>2, <3>3
  <2> QED BY <2>1, <2>4 DEF Resume
<1>2. IndInv => Len(points) \in DOMAIN points BY LowerTyped
<1>3. IndInv /\ TreesFinite => PagesResume
    BY <1>1, <1>2 DEF PagesResume, Chosen
<1> QED BY <1>3, Always, PointsFinite, PTL

-------------------------------------------------------------------------------
(* Levels in advance.                                                        *)

\* How much of a level is embedded, within what is left of the budget.
LEMMA EmbeddedForm ==
    ASSUME NEW children, Len(children) \in Nat, NEW limit \in Nat, NEW budget \in Nat
    PROVE  /\ Embedded(children, limit, budget) \in Nat
           /\ Embedded(children, limit, budget) <= budget
           /\ Embedded(children, limit, budget) <= Len(children)
<1> DEFINE S == {limit, MaxEmbeddedChildren, Len(children), budget}
<1>1. S \in SUBSET Nat /\ S \in SUBSET Int /\ budget \in S /\ Len(children) \in S
    BY LimitAssumption
<1>2. Embedded(children, limit, budget) = Min(S) BY DEF Embedded
<1> HIDE DEF S
<1>3. PICK x \in S : \A y \in S : x <= y BY <1>1, LeastNat
<1>4. Min(S) = x BY <1>1, <1>3, MinOf
<1> QED BY <1>1, <1>2, <1>3, <1>4

\* The recursion of a page's budget, for a page of N rows from the first on.
Spends(b, d, rows, limit, filter, N) ==
    b = [n \in 0..N |->
            IF n = 0 THEN MaxEmbeddedRows
            ELSE b[n - 1] - Embedded(Listing(d, rows[n], filter), limit, b[n - 1])]

\* The recursion has a solution.
LEMMA SpendExists ==
    ASSUME NEW d, NEW rows, NEW limit, NEW filter, NEW N \in Nat
    PROVE  \E b : Spends(b, d, rows, limit, filter, N)
<1> DEFINE Solved(k) == \E b : Spends(b, d, rows, limit, filter, k)
           L == {k \in Nat : ~Solved(k)}
<1> SUFFICES ASSUME L # {} PROVE FALSE OBVIOUS
<1>1. PICK k \in L : \A j \in L : k <= j
  <2> HIDE DEF Solved
  <2> QED BY LeastNat
<1>2. CASE k = 0
  <2>1. Spends([n \in 0..0 |-> MaxEmbeddedRows], d, rows, limit, filter, 0) BY DEF Spends
  <2> QED BY <1>1, <1>2, <2>1
<1>3. CASE k # 0
  <2>1. k \in Nat /\ k - 1 \in Nat /\ k - 1 \notin L BY <1>1, <1>3
  <2>2. PICK c : Spends(c, d, rows, limit, filter, k - 1) BY <2>1
  <2>3. PICK b : b = [n \in 0..k |->
                        IF n = k THEN c[k - 1] - Embedded(Listing(d, rows[k], filter), limit, c[k - 1])
                        ELSE c[n]]
      OBVIOUS
  <2>4. /\ \A n \in 0..k : n = k \/ n \in 0..(k - 1)
        /\ \A n \in 0..(k - 1) : n \in 0..k /\ n # k /\ (n # 0 => n - 1 \in 0..(k - 1))
      BY <2>1
  <2>5. \A n \in 0..(k - 1) : b[n] = c[n] BY <2>3, <2>4
  <2>6. ASSUME NEW n \in 0..k
        PROVE  b[n] = IF n = 0 THEN MaxEmbeddedRows
                      ELSE b[n - 1] - Embedded(Listing(d, rows[n], filter), limit, b[n - 1])
    <3>1. CASE n = k
      <4>1. k - 1 \in 0..(k - 1) /\ k \in 0..k BY <2>1
      <4> QED BY <1>3, <2>3, <2>5, <3>1, <4>1
    <3>2. CASE n # k
      <4>1. n \in 0..(k - 1) BY <2>4, <3>2
      <4>2. c[n] = IF n = 0 THEN MaxEmbeddedRows
                   ELSE c[n - 1] - Embedded(Listing(d, rows[n], filter), limit, c[n - 1])
          BY <2>2, <4>1 DEF Spends
      <4>3. b[n] = c[n] /\ (n # 0 => b[n - 1] = c[n - 1]) BY <2>4, <2>5, <4>1
      <4> QED BY <4>2, <4>3
    <3> QED BY <3>1, <3>2
  <2>7. b = [n \in 0..k |-> b[n]] BY <2>3
  <2>8. Spends(b, d, rows, limit, filter, k) BY <2>6, <2>7 DEF Spends
  <2> QED BY <1>1, <2>8
<1> QED BY <1>2, <1>3

\* So the budget of a page from the first row on is one.
LEMMA BudgetSpends ==
    ASSUME NEW d, NEW rows, NEW limit, NEW filter, NEW N \in Nat
    PROVE  Spends(BudgetOf(d, rows, limit, filter, 0, N), d, rows, limit, filter, N)
<1>1. BudgetOf(d, rows, limit, filter, 0, N) = CHOOSE b : Spends(b, d, rows, limit, filter, N)
    BY DEF BudgetOf, Spends
<1> QED BY <1>1, SpendExists

\* What each row of a page takes.
TakenOf(b, d, rows, limit, filter, N) ==
    [n \in 1..N |-> Embedded(Listing(d, rows[n], filter), limit, b[n - 1])]

\* The budget is never overdrawn, and what the rows take comes out of it.
LEMMA BudgetHolds ==
    ASSUME NEW d, Closed(DOMAIN d), NEW rows, NEW limit \in Nat, NEW filter, NEW N \in Nat,
           NEW b, Spends(b, d, rows, limit, filter, N)
    PROVE  LET taken == TakenOf(b, d, rows, limit, filter, N)
           IN  /\ \A n \in 0..N : b[n] \in Nat
               /\ \A n \in 1..N : taken[n] \in Nat
               /\ SumOver(taken, 1..N) <= MaxEmbeddedRows
<1>1. PICK taken : taken = TakenOf(b, d, rows, limit, filter, N) OBVIOUS
<1>2. MaxEmbeddedRows \in Nat BY LimitAssumption
<1>3. /\ b[0] = MaxEmbeddedRows
      /\ \A n \in 1..N : b[n] = b[n - 1] - taken[n]
  <2>1. \A n \in 1..N : n \in 0..N /\ n # 0 OBVIOUS
  <2>2. 0 \in 0..N OBVIOUS
  <2> QED BY <1>1, <2>1, <2>2 DEF Spends, TakenOf
<1>4. ASSUME NEW n \in 1..N, b[n - 1] \in Nat PROVE taken[n] \in Nat /\ taken[n] <= b[n - 1]
  <2>1. PICK children : children = Listing(d, rows[n], filter) OBVIOUS
  <2>2. Len(children) \in Nat BY <2>1, Listed
  <2>3. taken[n] = Embedded(children, limit, b[n - 1]) BY <1>1, <2>1 DEF TakenOf
  <2> QED BY <1>4, <2>2, <2>3, EmbeddedForm
<1> DEFINE Good(k) == b[k] \in Nat /\ SumOver(taken, 1..k) = MaxEmbeddedRows - b[k]
           L == {k \in Nat : k <= N /\ ~((\A j \in 1..k : taken[j] \in Nat) /\ Good(k))}
<1>5. L = {}
  <2> SUFFICES ASSUME L # {} PROVE FALSE OBVIOUS
  <2>1. PICK k \in L : \A j \in L : k <= j
    <3> HIDE DEF Good
    <3> QED BY LeastNat
  <2>2. CASE k = 0
    <3>1. 1..0 = {} /\ SumOver(taken, {}) = 0 BY SumEmpty
    <3>2. SumOver(taken, 1..0) = MaxEmbeddedRows - b[0] BY <1>2, <1>3, <3>1
    <3> QED BY <1>2, <1>3, <2>1, <2>2, <3>1, <3>2
  <2>3. CASE k # 0
    <3>1. k \in Nat /\ k <= N /\ k - 1 \in Nat /\ k - 1 \notin L /\ k \in 1..N BY <2>1, <2>3
    <3>2. (\A j \in 1..(k - 1) : taken[j] \in Nat) /\ Good(k - 1)
      <4> HIDE DEF Good
      <4> QED BY <3>1
    <3>3. b[k - 1] \in Nat /\ SumOver(taken, 1..(k - 1)) = MaxEmbeddedRows - b[k - 1] BY <3>2
    <3>4. taken[k] \in Nat /\ taken[k] <= b[k - 1] BY <1>4, <3>1, <3>3
    <3>5. b[k] = b[k - 1] - taken[k] BY <1>3, <3>1
    <3>6. b[k] \in Nat BY <3>3, <3>4, <3>5
    <3>7. 1..k = 1..(k - 1) \cup {k} /\ k \notin 1..(k - 1) BY <3>1
    <3>8. \A j \in 1..k : taken[j] \in Nat BY <3>2, <3>4, <3>7
    <3>9. IsFiniteSet(1..(k - 1))
      <4>1. 1 \in Int /\ k - 1 \in Int BY <3>1
      <4> QED BY <4>1, FS_Interval
    <3>10. SumOver(taken, 1..k) = taken[k] + SumOver(taken, 1..(k - 1))
      <4>1. PICK before : before = 1..(k - 1) OBVIOUS
      <4>2. \A j \in before \cup {k} : taken[j] \in Int
        <5>1. PICK all : all = before \cup {k} OBVIOUS
        <5>2. all = 1..k BY <3>7, <4>1, <5>1
        <5>3. \A j \in all : taken[j] \in Int BY <3>8, <5>2
        <5> QED BY <5>1, <5>3
      <4>3. IsFiniteSet(before) /\ k \notin before BY <3>7, <3>9, <4>1
      <4>4. SumOver(taken, before \cup {k}) = taken[k] + SumOver(taken, before)
          BY <4>2, <4>3, SumInsert
      <4> QED BY <3>7, <4>1, <4>4
    <3>11. SumOver(taken, 1..k) = MaxEmbeddedRows - b[k] BY <1>2, <3>3, <3>4, <3>5, <3>10
    <3> QED BY <2>1, <3>6, <3>8, <3>11
  <2> QED BY <2>2, <2>3
<1>6. ASSUME NEW k \in 0..N PROVE (\A j \in 1..k : taken[j] \in Nat) /\ Good(k)
  <2> HIDE DEF Good
  <2>1. k \in Nat /\ k <= N /\ k \notin L BY <1>5
  <2> QED BY <2>1
<1>7. \A n \in 0..N : b[n] \in Nat BY <1>6
<1>8. N \in 0..N OBVIOUS
<1>9. \A n \in 1..N : taken[n] \in Nat BY <1>6, <1>8
<1>10. SumOver(taken, 1..N) = MaxEmbeddedRows - b[N] /\ b[N] \in Nat BY <1>6, <1>8
<1>11. SumOver(taken, 1..N) <= MaxEmbeddedRows BY <1>2, <1>10
<1> QED BY <1>1, <1>7, <1>9, <1>11

\* What a page embeds, as a sum over its rows.
LEMMA EmbeddedSum ==
    ASSUME NEW page
    PROVE  EmbeddedRows(page)
             = SumOver([k \in DOMAIN page.rows |-> Len(page.rows[k].children)], DOMAIN page.rows)
<1> DEFINE S == DOMAIN page.rows
           f == [k \in S |-> Len(page.rows[k].children)]
           A(g) == [s \in SUBSET S |->
                       IF s = {} THEN 0 ELSE Len(page.rows[Pick(s)].children) + g[s \ {Pick(s)}]]
           B(g) == [s \in SUBSET S |-> IF s = {} THEN 0 ELSE f[Pick(s)] + g[s \ {Pick(s)}]]
<1>1. EmbeddedRows(page) = (CHOOSE g : g = A(g))[S]
    BY DEF EmbeddedRows, MapThenSumSet, MapThenFoldSet, Pick
<1>2. SumOver(f, S) = (CHOOSE g : g = B(g))[S]
    BY DEF SumOver, MapThenSumSet, MapThenFoldSet, Pick
<1>3. \A g : A(g) = B(g)
  <2> SUFFICES ASSUME NEW g, NEW s \in SUBSET S, s # {}
               PROVE  Len(page.rows[Pick(s)].children) = f[Pick(s)]
      OBVIOUS
  <2>1. Pick(s) \in s BY DEF Pick
  <2> QED BY <2>1
<1> HIDE DEF A, B, f
<1>4. (CHOOSE g : g = A(g)) = (CHOOSE g : g = B(g)) BY <1>3
<1> QED BY <1>1, <1>2, <1>4 DEF f

\* A listing has no more rows than the comparison.
LEMMA ListedFits ==
    ASSUME NEW d, Closed(DOMAIN d), NEW at, NEW filter
    PROVE  /\ Len(Listing(d, at, filter)) <= Cardinality(DOMAIN d)
           /\ Cardinality(DOMAIN d) \in Nat \ {0}
<1> DEFINE S == Rows(d, at, filter)
<1>1. S \in SUBSET DOMAIN d /\ Root \notin S BY DEF Rows, ChildrenIn
<1>2. IsFiniteSet(DOMAIN d) /\ DOMAIN d # {} /\ DOMAIN d \subseteq Path \cup {Root} BY DEF Closed
<1>3. S \in SUBSET Path /\ IsFiniteSet(S) /\ Cardinality(S) <= Cardinality(DOMAIN d)
    BY <1>1, <1>2, FS_Subset
<1>4. Cardinality(DOMAIN d) \in Nat \ {0} BY <1>2, FS_CardinalityType, FS_EmptySet
<1>5. Listing(d, at, filter) = Sorted(d, S) BY DEF Listing
<1> HIDE DEF S
<1>6. Len(Sorted(d, S)) = Cardinality(S) BY <1>3, SortedRows
<1> QED BY <1>3, <1>4, <1>5, <1>6

\* A row of a page of depth two.
LEMMA RowForm ==
    ASSUME NEW d, Closed(DOMAIN d), NEW p, NEW limit \in Nat, NEW filter, NEW budget \in Nat
    PROVE  LET row == TreeRow(d, p, 2, limit, filter, budget)
               children == Listing(d, p, filter)
           IN  /\ row.path = p /\ row.childCount = Len(children)
               /\ Len(row.children) = Embedded(children, limit, budget)
               /\ ~row.childrenTruncated => row.children = children
<1>1. PICK children : children = Listing(d, p, filter) OBVIOUS
<1>2. PICK some : some = Embedded(children, limit, budget) OBVIOUS
<1>3. children \in Seq(ToSet(children)) /\ Len(children) \in Nat /\ DOMAIN children = 1..Len(children)
    BY <1>1, Listed
<1>4. some \in Nat /\ some <= Len(children) BY <1>2, <1>3, EmbeddedForm
<1>5. TreeRow(d, p, 2, limit, filter, budget)
        = [path |-> p, childCount |-> Len(children), children |-> SubSeq(children, 1, some),
           childrenTruncated |-> Len(children) > some]
    BY <1>1, <1>2 DEF TreeRow, Truncated
<1>6. Len(SubSeq(children, 1, some)) = some
  <2>1. \A k \in 1..some : children[k] \in ToSet(children) BY <1>3, <1>4 DEF ToSet
  <2>2. 1 \in Int /\ some \in Int BY <1>4
  <2>3. Len(SubSeq(children, 1, some)) = IF 1 <= some THEN some - 1 + 1 ELSE 0
      BY <2>1, <2>2, SubSeqProperties
  <2> QED BY <1>4, <2>3
<1>7. SubSeq(children, 1, Len(children)) = children BY <1>3, SubSeqFull
<1>8. ~(Len(children) > some) => some = Len(children)
  <2>1. PICK count \in Nat : count = Len(children) BY <1>3
  <2> QED BY <1>4, <2>1
<1>9. PICK row : row = TreeRow(d, p, 2, limit, filter, budget) OBVIOUS
<1>10. /\ row.path = p /\ row.childCount = Len(children)
       /\ row.children = SubSeq(children, 1, some)
       /\ row.childrenTruncated = (Len(children) > some)
    BY <1>5, <1>9
<1>11. ~row.childrenTruncated => row.children = children BY <1>7, <1>8, <1>10
<1> QED BY <1>1, <1>2, <1>6, <1>9, <1>10, <1>11

\* A level taken over from a row is the page that would have been sent.
LEMMA SeedForm ==
    ASSUME NEW d, Closed(DOMAIN d), NEW params \in Params, NEW p \in DOMAIN d, NEW budget \in Nat
    PROVE  SeedOf(d, params, TreeRow(d, p, 2, params.limit, params.filter, budget))
<1>1. PICK row : row = TreeRow(d, p, 2, params.limit, params.filter, budget) OBVIOUS
<1>2. PICK children : children = Listing(d, p, params.filter) OBVIOUS
<1>3. Len(children) \in Nat /\ children \in Seq(ToSet(children)) BY <1>2, Listed
<1>4. PICK limit \in Nat : limit = params.limit BY LimitAssumption DEF Params
<1>5. PICK filter : filter = params.filter OBVIOUS
<1>6. /\ row.path = p /\ row.childCount = Len(children)
      /\ ~row.childrenTruncated => row.children = children
    BY <1>1, <1>2, <1>4, <1>5, RowForm
<1>7. PICK own : own = [params EXCEPT !.path = p, !.depth = 1, !.limit = Cardinality(DOMAIN d)] OBVIOUS
<1>8. own.path = p /\ own.filter = filter /\ own.limit = Cardinality(DOMAIN d)
    BY <1>5, <1>7 DEF Params
<1>9. PICK card \in Nat \ {0} : card = Cardinality(DOMAIN d) BY ListedFits
<1>10. Len(children) <= card BY <1>2, <1>9, ListedFits
<1>11. PICK page : page = TreePage(d, own, None) OBVIOUS
<1>12. CursorFits(None, own) /\ PageStart(d, children, None) = 0 BY DEF CursorFits, PageStart
<1>13. Follows(d, own, children, page, 0)
  <2>1. 0 \in 0..Len(children) BY <1>3
  <2>2. own.limit \in Nat \ {0} /\ own.path \in DOMAIN d BY <1>8, <1>9
  <2>3. children = Listing(d, own.path, own.filter) BY <1>2, <1>5, <1>8
  <2> QED BY <1>11, <1>12, <2>1, <2>2, <2>3, PageFollows
<1>14. Min({0 + own.limit, Len(children)}) = Len(children)
  <2>1. own.limit \in Nat /\ Len(children) <= own.limit BY <1>8, <1>9, <1>10
  <2>2. PICK most \in Nat : most = own.limit BY <2>1
  <2>3. PICK count \in Nat : count = Len(children) BY <1>3
  <2>4. 0 + most = most /\ most \in Int /\ count \in Int BY <2>2, <2>3
  <2>5. Min({most, count}) = IF most <= count THEN most ELSE count BY <2>4, MinOfTwo
  <2>6. count <= most BY <2>1, <2>2, <2>3
  <2>7. Min({most, count}) = count BY <2>5, <2>6
  <2> QED BY <2>2, <2>3, <2>4, <2>7
<1>15. /\ [k \in DOMAIN page.rows |-> page.rows[k].path] = children
       /\ page.totalRows = Len(children)
  <2>1. SubSeq(children, 0 + 1, Len(children)) = children
    <3>1. 0 + 1 = 1 OBVIOUS
    <3> QED BY <1>3, <3>1, SubSeqFull
  <2> QED BY <1>13, <1>14, <2>1 DEF Follows
<1>16. page.maxSiblingBytes = MaxSiblingBytes(d, children)
  <2>1. PICK start : start = PageStart(d, children, None) OBVIOUS
  <2>2. PICK end : end = Min({start + own.limit, Len(children)}) OBVIOUS
  <2>3. own.path \in DOMAIN d /\ children = Listing(d, own.path, own.filter)
      BY <1>2, <1>5, <1>8
  <2>4. TreePage(d, own, None) = PageFrom(d, own, children, start, end)
      BY <1>12, <2>1, <2>2, <2>3, PageForm
  <2> QED BY <1>11, <2>4 DEF PageFrom
<1>17. ASSUME SeedPage(d, row) # None
       PROVE  /\ SeedPage(d, row).rows = children
              /\ SeedPage(d, row).totalRows = Len(children)
              /\ SeedPage(d, row).maxSiblingBytes = MaxSiblingBytes(d, children)
  <2>1. ~row.childrenTruncated BY <1>17 DEF SeedPage
  <2>2. row.children = children BY <1>6, <2>1
  <2> QED BY <1>6, <1>17, <2>2 DEF SeedPage
<1>18. SeedOf(d, params, row)
  <2>1. TreePage(d, [params EXCEPT !.path = row.path, !.depth = 1, !.limit = Cardinality(DOMAIN d)],
                 None) = page
      BY <1>6, <1>7, <1>11
  <2> QED BY <1>15, <1>16, <1>17, <2>1 DEF SeedOf
<1> QED BY <1>1, <1>18

\* A page of depth two: its rows seed what they open, within its budget.
LEMMA PageSeeds ==
    ASSUME NEW d, Closed(DOMAIN d), NEW params \in Params, params.depth = 2, params.path \in DOMAIN d
    PROVE  LET page == TreePage(d, params, None)
           IN  /\ \A k \in DOMAIN page.rows : SeedOf(d, params, page.rows[k])
               /\ EmbeddedRows(page) <= MaxEmbeddedRows
<1>1. PICK rows : rows = Listing(d, params.path, params.filter) OBVIOUS
<1>2. Len(rows) \in Nat /\ DOMAIN rows = 1..Len(rows) /\ rows \in Seq(Rows(d, params.path, params.filter))
      /\ Rows(d, params.path, params.filter) \subseteq DOMAIN d
    BY <1>1, Listed
<1>3. PICK limit \in Nat \ {0} : limit = params.limit BY LimitAssumption DEF Params
<1>4. PICK filter : filter = params.filter OBVIOUS
<1>5. PICK end : end = Min({0 + limit, Len(rows)}) OBVIOUS
<1>6. end \in Nat /\ end <= Len(rows)
  <2>1. PICK count \in Nat : count = Len(rows) BY <1>2
  <2>2. 0 + limit \in Int /\ count \in Int /\ 0 + limit = limit BY <2>1
  <2>3. end = IF limit <= count THEN limit ELSE count BY <1>5, <2>1, <2>2, MinOfTwo
  <2> QED BY <2>1, <2>3
<1>7. PICK b : b = BudgetOf(d, rows, limit, filter, 0, end) OBVIOUS
<1>8. PICK taken : taken = TakenOf(b, d, rows, limit, filter, end) OBVIOUS
<1>9. /\ \A n \in 0..end : b[n] \in Nat
      /\ \A n \in 1..end : taken[n] \in Nat
      /\ SumOver(taken, 1..end) <= MaxEmbeddedRows
  <2>1. Spends(b, d, rows, limit, filter, end) BY <1>6, <1>7, BudgetSpends
  <2> QED BY <1>6, <1>8, <2>1, BudgetHolds
<1>10. PICK page : page = TreePage(d, params, None) OBVIOUS
<1>11. page.rows = [n \in 1..end |-> TreeRow(d, rows[n], 2, limit, filter, b[n - 1])]
  <2>1. PageStart(d, rows, None) = 0 BY DEF PageStart
  <2>2. CursorFits(None, params) BY DEF CursorFits
  <2>3. end = Min({0 + params.limit, Len(rows)}) BY <1>3, <1>5
  <2>4. page = PageFrom(d, params, rows, 0, end)
      BY <1>1, <1>10, <2>1, <2>2, <2>3, PageForm
  <2>5. page.rows = [n \in 1..(end - 0) |-> TreeRow(d, rows[0 + n], 2, limit, filter, b[0 + n - 1])]
      BY <1>3, <1>4, <1>7, <2>4 DEF PageFrom
  <2>6. end - 0 = end /\ \A n \in 1..end : 0 + n = n BY <1>6
  <2> QED BY <2>5, <2>6
<1>12. ASSUME NEW n \in 1..end
       PROVE  /\ SeedOf(d, params, page.rows[n])
              /\ Len(page.rows[n].children) = taken[n]
  <2>1. PICK p \in DOMAIN d : p = rows[n] BY <1>2, <1>6
  <2>2. n - 1 \in 0..end /\ b[n - 1] \in Nat BY <1>6, <1>9
  <2>3. PICK budget \in Nat : budget = b[n - 1] BY <2>2
  <2>4. page.rows[n] = TreeRow(d, p, 2, limit, filter, budget) BY <1>11, <2>1, <2>3
  <2>5. SeedOf(d, params, page.rows[n]) BY <1>3, <1>4, <2>4, SeedForm
  <2>6. Len(page.rows[n].children) = Embedded(Listing(d, p, filter), limit, budget)
      BY <2>4, RowForm
  <2>7. taken[n] = Embedded(Listing(d, p, filter), limit, budget) BY <1>8, <2>1, <2>3 DEF TakenOf
  <2> QED BY <2>5, <2>6, <2>7
<1>13. DOMAIN page.rows = 1..end BY <1>11
<1>14. EmbeddedRows(page) = SumOver(taken, 1..end)
  <2>1. PICK f : f = [k \in DOMAIN page.rows |-> Len(page.rows[k].children)] OBVIOUS
  <2>2. EmbeddedRows(page) = SumOver(f, 1..end) BY <1>13, <2>1, EmbeddedSum
  <2>3. \A k \in 1..end : f[k] = taken[k] BY <1>12, <1>13, <2>1
  <2>4. IsFiniteSet(1..end)
    <3>1. 1 \in Int /\ end \in Int BY <1>6
    <3> QED BY <3>1, FS_Interval
  <2>5. SumOver(f, 1..end) = SumOver(taken, 1..end) BY <2>3, <2>4, SumSame
  <2> QED BY <2>2, <2>5
<1> QED BY <1>9, <1>10, <1>12, <1>13, <1>14

\* A level taken over from its parent's page is the page that would have been sent,
\* and no response embeds more rows than its budget.
THEOREM SeedsAlwaysWhole == Spec => []SeedsAreWhole
<1>1. ASSUME IndInv, TreesFinite, NEW m \in DOMAIN points, NEW n \in DOMAIN points
      PROVE  Seeds(m, n)
  <2>1. PICK d : d = Compared(m, n) OBVIOUS
  <2>2. Closed(DOMAIN d) BY <1>1, <2>1, PointsCompare, DiffForm DEF Compared
  <2>3. points \in Seq(Trees) BY <1>1 DEF IndInv, ShapeInv
  <2>4. ASSUME NEW at \in DOMAIN d, NEW filter \in Filter, NEW limit \in 1..MaxTreeLimit
        PROVE  LET page == TreePage(d, Asked(m, n, at, 2, limit, filter), None)
               IN  /\ \A k \in DOMAIN page.rows :
                        SeedOf(d, Asked(m, n, at, 2, limit, filter), page.rows[k])
                   /\ EmbeddedRows(page) <= MaxEmbeddedRows
    <3>1. at \in Path \cup {Root} BY <2>2 DEF Closed
    <3>2. limit \in Limits BY DEF Limits
    <3>3. PICK two \in {None, 1, 2} : two = 2 OBVIOUS
    <3>4. DepthOf(two) = 2 BY <3>3, OmittedAssumption DEF DepthOf
    <3>5. PICK params : params = Asked(m, n, at, two, limit, filter) OBVIOUS
    <3>6. params \in Params /\ params.path = at /\ params.depth = 2
        BY <2>3, <3>1, <3>2, <3>4, <3>5, AskedForm
    <3>7. LET page == TreePage(d, params, None)
          IN  /\ \A k \in DOMAIN page.rows : SeedOf(d, params, page.rows[k])
              /\ EmbeddedRows(page) <= MaxEmbeddedRows
        BY <2>2, <3>6, PageSeeds
    <3> QED BY <3>3, <3>5, <3>7
  <2> QED BY <2>1, <2>4 DEF Seeds
<1>2. IndInv => Len(points) \in DOMAIN points BY LowerTyped
<1>3. IndInv /\ TreesFinite => SeedsAreWhole
    BY <1>1, <1>2 DEF SeedsAreWhole, Chosen
<1> QED BY <1>3, Always, PointsFinite, PTL

-------------------------------------------------------------------------------
(* Layers of one digest.                                                     *)

\* What two layers of one changeset digest have in common.
SameChangeset(x, v) ==
    /\ DOMAIN v.entries = DOMAIN x.entries /\ v.markers = x.markers
    /\ \A p \in DOMAIN x.entries :
        /\ v.entries[p] \in Entry
        /\ Fields(v.entries[p]) = Fields(x.entries[p])

\* Nodes that differ at most in their time.
Retimes(m, n) == m.kind = n.kind /\ m.implicit = n.implicit /\ Fields(m) = Fields(n)

\* The variants of a layer that are looked at have its paths, and their entries are
\* ones a tar may carry.
LEMMA VariantForm ==
    ASSUME NEW x \in Layer, NEW v \in Variants(x)
    PROVE  /\ DOMAIN v.entries = DOMAIN x.entries
           /\ \A p \in DOMAIN x.entries : v.entries[p] \in Entry
<1> DEFINE times(p) == Member[p] \cup {Retimed(f) : f \in Member[p]}
           kinds == {k \in Marker : \E j \in x.markers : k.path = j.path}
<1>0. /\ DOMAIN x.entries \subseteq Path
      /\ \A p \in DOMAIN x.entries : x.entries[p] \in Entry
      /\ x.entries = [p \in DOMAIN x.entries |-> x.entries[p]]
  <2>1. x.entries \in UNION {[S -> Entry] : S \in SUBSET Path} BY DEF Layer
  <2> QED BY <2>1, EntryTyped
<1>1. x = [entries |-> x.entries, markers |-> x.markers, bytes |-> x.bytes] BY DEF Layer
<1>2. ASSUME NEW p \in Path, NEW e \in times(p) PROVE e \in Entry
  <2>1. Member[p] \subseteq Entry BY MemberAssumption
  <2>2. ASSUME NEW f \in Member[p] PROVE Retimed(f) \in Entry
      BY <2>1 DEF Retimed, Entry
  <2> QED BY <1>2, <2>1, <2>2
<1>3. CASE \E p \in DOMAIN x.entries : \E e \in times(p) : v = [x EXCEPT !.entries[p] = e]
  <2>0. PICK p \in DOMAIN x.entries : \E e \in times(p) : v = [x EXCEPT !.entries[p] = e] BY <1>3
  <2>1. PICK e \in times(p) : v = [x EXCEPT !.entries[p] = e] BY <2>0
  <2>2. v.entries = [x.entries EXCEPT ![p] = e] BY <1>1, <2>1
  <2>3. e \in Entry BY <1>0, <1>2
  <2> HIDE DEF times
  <2>4. DOMAIN v.entries = DOMAIN x.entries BY <1>0, <2>2
  <2>5. \A q \in DOMAIN x.entries : v.entries[q] = IF q = p THEN e ELSE x.entries[q]
      BY <1>0, <2>2
  <2> QED BY <1>0, <2>3, <2>4, <2>5
<1>4. CASE \E m \in x.markers, n \in kinds : v = [x EXCEPT !.markers = (@ \ {m}) \cup {n}]
  <2>1. v.entries = x.entries BY <1>1, <1>4
  <2> QED BY <1>0, <2>1
<1>5. \/ \E p \in DOMAIN x.entries : \E e \in times(p) : v = [x EXCEPT !.entries[p] = e]
      \/ \E m \in x.markers, n \in kinds : v = [x EXCEPT !.markers = (@ \ {m}) \cup {n}]
  <2> DEFINE A(p) == {[x EXCEPT !.entries[p] = e] : e \in times(p)}
             B == {[x EXCEPT !.markers = (@ \ {m}) \cup {n}] : m \in x.markers, n \in kinds}
  <2>1. v \in (UNION {A(p) : p \in DOMAIN x.entries}) \cup B BY DEF Variants
  <2>2. CASE v \in B BY <2>2
  <2>3. CASE \E p \in DOMAIN x.entries : v \in A(p) BY <2>3
  <2> QED BY <2>1, <2>2, <2>3
<1> QED BY <1>3, <1>4, <1>5

\* Layers are joined only if their digests are one.
LEMMA JoinedDigests ==
    ASSUME NEW a, NEW b, CouldBeShared(<<a>>, <<b>>, 0) # <<>>
    PROVE  a.changesetDigest = b.changesetDigest
<1> DEFINE E == Edges(<<a>>, <<b>>, 0)
           before == {p \in E \X E : Sooner(p[1], p[2])}
<1> SUFFICES ASSUME a.changesetDigest # b.changesetDigest PROVE FALSE OBVIOUS
<1>1. Branch(<<a>>, 0) \subseteq {1} /\ Branch(<<b>>, 0) \subseteq {1} BY DEF Branch
<1>2. E = {}
  <2>1. \A q \in Branch(<<a>>, 0) \X Branch(<<b>>, 0) :
            <<a>>[q[1]].changesetDigest # <<b>>[q[2]].changesetDigest
    <3> SUFFICES ASSUME NEW q \in Branch(<<a>>, 0) \X Branch(<<b>>, 0)
                 PROVE  <<a>>[q[1]].changesetDigest # <<b>>[q[2]].changesetDigest
        OBVIOUS
    <3>1. q[1] = 1 /\ q[2] = 1 BY <1>1
    <3>2. <<a>>[1] = a /\ <<b>>[1] = b OBVIOUS
    <3> QED BY <3>1, <3>2
  <2> QED BY <2>1 DEF Edges
<1> HIDE DEF E
<1>3. before = {} BY <1>2
<1> HIDE DEF before
<1>4. /\ \A p \in E : <<p, p>> \notin before
      /\ \A p, q \in E : p # q => <<p, q>> \in before \/ <<q, p>> \in before
      /\ \A p, q, s \in E : <<p, q>> \in before /\ <<q, s>> \in before => <<p, s>> \in before
    BY <1>2
<1>5. IsFiniteSet(E) /\ Cardinality(E) = 0 BY <1>2, FS_EmptySet
<1>6. InOrder(E, before) \in Seq(E) /\ Len(InOrder(E, before)) = Cardinality(E)
    BY <1>4, <1>5, InOrderForm
<1>7. InOrder(E, before) = <<>> BY <1>5, <1>6, EmptySeq
<1> QED BY <1>7 DEF CouldBeShared, E, before

\* One digest, one changeset: the digest has everything but the times.
LEMMA DigestTells ==
    ASSUME NEW x \in Layer, NEW v, DOMAIN v.entries = DOMAIN x.entries,
           \A p \in DOMAIN x.entries : v.entries[p] \in Entry,
           ChangesetDigest(v) = ChangesetDigest(x)
    PROVE  SameChangeset(x, v)
<1> DEFINE fx == [p \in DOMAIN x.entries |-> Fields(x.entries[p])]
           fv == [p \in DOMAIN v.entries |-> Fields(v.entries[p])]
<1>1. [entries |-> fv, markers |-> v.markers] = [entries |-> fx, markers |-> x.markers]
    BY DEF ChangesetDigest
<1>2. fv = fx /\ v.markers = x.markers
  <2> HIDE DEF fx, fv
  <2> QED BY <1>1
<1>3. \A p \in DOMAIN x.entries : fv[p] = Fields(v.entries[p]) /\ fx[p] = Fields(x.entries[p])
    OBVIOUS
<1> HIDE DEF fx, fv
<1>4. \A p \in DOMAIN x.entries : Fields(v.entries[p]) = Fields(x.entries[p]) BY <1>2, <1>3
<1> QED BY <1>2, <1>4 DEF SameChangeset

\* Over the same tree they lead to the same paths, and to nodes that differ at
\* most in their time.
LEMMA OverlaysAlike ==
    ASSUME NEW lower \in Trees, NEW x \in Layer, NEW v, SameChangeset(x, v)
    PROVE  /\ DOMAIN Overlay(lower, v) = DOMAIN Overlay(lower, x)
           /\ Overlay(lower, v) \in Trees
           /\ \A p \in DOMAIN Overlay(lower, x) :
                 Retimes(Overlay(lower, v)[p], Overlay(lower, x)[p])
<1> DEFINE own == DOMAIN x.entries
           dirs == {p \in Path : HoldsEntries(x, p)}
           left == {p \in DOMAIN lower : Survives(lower, x, p)}
           at(y, p) == IF p \in own /\ (p \notin dirs \/ y.entries[p].kind = "dir")
                       THEN NodeFrom(y.entries[p])
                       ELSE IF p \in dirs /\ (p \in own \/ p \notin left \/ lower[p].kind # "dir")
                            THEN Implicit
                       ELSE lower[p]
           S == own \cup dirs \cup left
<1>1. \A p \in own : /\ x.entries[p] \in Entry /\ v.entries[p] \in Entry
                     /\ Fields(v.entries[p]) = Fields(x.entries[p])
                     /\ v.entries[p].kind = x.entries[p].kind
  <2>1. \A p \in own : x.entries[p] \in Entry /\ v.entries[p] \in Entry
                       /\ Fields(v.entries[p]) = Fields(x.entries[p])
      BY EntryTyped DEF SameChangeset
  <2>2. \A e, f : Fields(e) = Fields(f) => e.kind = f.kind BY DEF Fields
  <2> QED BY <2>1, <2>2
<1>2. DOMAIN v.entries = own /\ v.markers = x.markers BY DEF SameChangeset
<1>3. {p \in Path : HoldsEntries(v, p)} = dirs BY <1>2 DEF HoldsEntries
<1>4. \A p : Survives(lower, v, p) <=> Survives(lower, x, p) BY <1>1, <1>2 DEF Survives
<1>5. {p \in DOMAIN lower : Survives(lower, v, p)} = left BY <1>4
<1>6. Overlay(lower, x) = [p \in S |-> at(x, p)] BY DEF Overlay
<1>7. Overlay(lower, v) = [p \in S |-> at(v, p)] BY <1>2, <1>3, <1>5 DEF Overlay
<1>8. DOMAIN lower \subseteq Path /\ \A p \in DOMAIN lower : lower[p] \in Node BY TreeForm DEF IsTree
<1>9. S \subseteq Path BY <1>8, EntryTyped
<1>10. ASSUME NEW p \in S PROVE at(v, p) \in Node /\ Retimes(at(v, p), at(x, p))
  <2>1. ASSUME p \in own PROVE NodeFrom(v.entries[p]) \in Node /\ Retimes(NodeFrom(v.entries[p]), NodeFrom(x.entries[p]))
    <3>1. NodeFrom(v.entries[p]) \in Node BY <1>1, <2>1, NodeOfEntry
    <3>2. \A e, f : Fields(e) = Fields(f) => Retimes(NodeFrom(e), NodeFrom(f))
        BY DEF Fields, Retimes, NodeFrom
    <3> QED BY <1>1, <2>1, <3>1, <3>2
  <2>2. \A n : Retimes(n, n) BY DEF Retimes
  <2>3. CASE p \in own /\ (p \notin dirs \/ x.entries[p].kind = "dir")
    <3>1. at(v, p) = NodeFrom(v.entries[p]) /\ at(x, p) = NodeFrom(x.entries[p]) BY <1>1, <2>3
    <3> QED BY <2>1, <2>3, <3>1
  <2>4. CASE ~(p \in own /\ (p \notin dirs \/ x.entries[p].kind = "dir"))
    <3>1. at(v, p) = at(x, p) BY <1>1, <2>4
    <3>2. at(v, p) \in {Implicit, lower[p]} /\ (at(v, p) = lower[p] /\ at(v, p) # Implicit => p \in left)
        BY <1>1, <2>4
    <3>3. at(v, p) \in Node BY <1>8, <3>2, ImplicitIsDir
    <3> QED BY <2>2, <3>1, <3>3
  <2> QED BY <2>3, <2>4
<1> HIDE DEF at, S
<1>11. Overlay(lower, v) \in Trees
  <2>1. Overlay(lower, v) \in [S -> Node] BY <1>7, <1>10
  <2> QED BY <1>9, <2>1 DEF Trees
<1>12. \A p \in S : Retimes(Overlay(lower, v)[p], Overlay(lower, x)[p]) BY <1>6, <1>7, <1>10
<1> QED BY <1>6, <1>7, <1>11, <1>12

\* So that a comparison of these shows no change.
LEMMA SameEffect ==
    ASSUME NEW lower \in Trees, NEW x \in Layer, NEW v, SameChangeset(x, v),
           FiniteTree(Overlay(lower, x))
    PROVE  AllUnchanged(Diff(Overlay(lower, x), Overlay(lower, v)))
<1> DEFINE t == Overlay(lower, x)
           u == Overlay(lower, v)
<1>1. DOMAIN u = DOMAIN t /\ u \in Trees /\ \A p \in DOMAIN t : Retimes(u[p], t[p])
    BY OverlaysAlike
<1> HIDE DEF t, u
<1>2. t \in Trees /\ Rooted(t) /\ IsFiniteSet(DOMAIN t) BY DEF FiniteTree, t
<1>3. Rooted(u) BY <1>1, <1>2 DEF Rooted, IsDir, Retimes
<1>4. Closed(Shown(t, u)) BY <1>1, <1>2, <1>3, ShownClosed DEF FiniteTree
<1>5. ASSUME NEW p \in Shown(t, u)
      PROVE  OnBoth(t, u, p) /\ ~MetaDiffers(At(t, p), At(u, p))
  <2>1. \A m, n : Retimes(n, m) => ~MetaDiffers(m, n) BY DEF MetaDiffers, Retimes
  <2>2. Implicit # None BY ImplicitIsDir, NoNodeAssumption
  <2>3. CASE p = Root
    <3>1. At(t, p) = Implicit /\ At(u, p) = Implicit BY <2>3 DEF At
    <3>2. Retimes(Implicit, Implicit) BY DEF Retimes
    <3> QED BY <2>1, <2>2, <3>1, <3>2 DEF OnBoth
  <2>4. CASE p # Root
    <3>1. p \in DOMAIN t BY <1>1, <2>4 DEF Shown
    <3>2. At(t, p) = t[p] /\ At(u, p) = u[p] BY <1>1, <2>4, <3>1 DEF At
    <3>3. t[p] \in Node /\ u[p] \in Node BY <1>1, <1>2, <3>1, TreeForm DEF IsTree
    <3> QED BY <1>1, <2>1, <3>1, <3>2, <3>3, NoNodeAssumption DEF OnBoth
  <2> QED BY <2>3, <2>4
<1>6. ASSUME NEW p \in Shown(t, u) PROVE StatusAt(t, u, p) = "unchanged"
  <2>1. ~Changed(t, u, p) BY <1>5 DEF Changed, Within, OwnChange
  <2> QED BY <1>6, <2>1, StatusChanged
<1>7. AllUnchanged(Diff(t, u)) BY <1>4, <1>6, DiffForm DEF AllUnchanged
<1> QED BY <1>7 DEF t, u

\* Layers that could be shared have one effect on whatever lies beneath them.
LEMMA SharedAreEqual ==
    ASSUME IndInv, TreesFinite, SquashIsOverlay, Applied
    PROVE  JoinsEquals
<1> SUFFICES ASSUME NEW v \in Variants(index),
                    CouldBeShared(<<StackLayer(None, v)>>, <<StackLayer(None, index)>>, 0) # <<>>
             PROVE  AllUnchanged(Diff(tree, Overlay(points[Len(points)], v)))
    BY DEF JoinsEquals
<1>1. index \in Layer /\ Lower \in Trees BY LowerTyped DEF IndInv, ShapeInv
<1>2. DOMAIN v.entries = DOMAIN index.entries /\ \A p \in DOMAIN index.entries : v.entries[p] \in Entry
    BY <1>1, VariantForm
<1>3. StackLayer(None, v).changesetDigest = StackLayer(None, index).changesetDigest
    BY JoinedDigests
<1>4. ChangesetDigest(v) = ChangesetDigest(index) BY <1>3 DEF StackLayer
<1>5. SameChangeset(index, v) BY <1>1, <1>2, <1>4, DigestTells
<1>6. tree = Overlay(Lower, index) BY DEF SquashIsOverlay, Lower
<1>7. FiniteTree(tree) BY DEF IndInv, ShapeInv, TreeRooted, TreesFinite, FiniteTree
<1>8. AllUnchanged(Diff(Overlay(Lower, index), Overlay(Lower, v)))
    BY <1>1, <1>5, <1>6, <1>7, SameEffect
<1> QED BY <1>6, <1>8 DEF Lower

-------------------------------------------------------------------------------
(* The trunk.                                                                *)

\* A stack is a sequence of its layers.
Layers(s) == Len(s) \in Nat /\ DOMAIN s = 1..Len(s)

\* The chain over the first n layers.
Chains(c, s, n) ==
    c = [k \in 1..n |-> IF k = 1 THEN s[1].diffId ELSE <<c[k - 1], s[k].diffId>>]

\* There is one.
LEMMA ChainExists == ASSUME NEW s, NEW N \in Nat PROVE \E c : Chains(c, s, N)
<1> DEFINE Solved(n) == \E c : Chains(c, s, n)
           L == {n \in Nat : ~Solved(n)}
<1> SUFFICES ASSUME L # {} PROVE FALSE OBVIOUS
<1>1. PICK n \in L : \A j \in L : n <= j
  <2> HIDE DEF Solved
  <2> QED BY LeastNat
<1>2. CASE n = 0
  <2>1. \A k \in 1..0 : FALSE OBVIOUS
  <2>2. Chains([k \in 1..0 |-> None], s, 0) BY <2>1 DEF Chains
  <2> QED BY <1>1, <1>2, <2>2
<1>3. CASE n # 0
  <2>1. n \in Nat /\ n - 1 \in Nat /\ n - 1 \notin L BY <1>1, <1>3
  <2>2. PICK c : Chains(c, s, n - 1) BY <2>1
  <2>3. PICK b : b = [k \in 1..n |->
                        IF k = n THEN IF n = 1 THEN s[1].diffId ELSE <<c[n - 1], s[n].diffId>>
                        ELSE c[k]]
      OBVIOUS
  <2>4. /\ \A k \in 1..n : k = n \/ k \in 1..(n - 1)
        /\ \A k \in 1..(n - 1) : k \in 1..n /\ k # n /\ (k # 1 => k - 1 \in 1..(n - 1))
        /\ n \in 1..n /\ (n # 1 => n - 1 \in 1..(n - 1))
      BY <1>3, <2>1
  <2>5. \A k \in 1..(n - 1) : b[k] = c[k] BY <2>3, <2>4
  <2>6. ASSUME NEW k \in 1..n
        PROVE  b[k] = IF k = 1 THEN s[1].diffId ELSE <<b[k - 1], s[k].diffId>>
    <3>1. CASE k = n BY <2>3, <2>4, <2>5, <3>1
    <3>2. CASE k # n
      <4>1. k \in 1..(n - 1) BY <2>4, <3>2
      <4>2. c[k] = IF k = 1 THEN s[1].diffId ELSE <<c[k - 1], s[k].diffId>>
          BY <2>2, <4>1 DEF Chains
      <4>3. b[k] = c[k] /\ (k # 1 => b[k - 1] = c[k - 1]) BY <2>4, <2>5, <4>1
      <4> QED BY <4>2, <4>3
    <3> QED BY <3>1, <3>2
  <2>7. b = [k \in 1..n |-> b[k]] BY <2>3
  <2>8. Chains(b, s, n) BY <2>6, <2>7 DEF Chains
  <2> QED BY <1>1, <2>8
<1> QED BY <1>2, <1>3

\* ChainIDs is it.
LEMMA ChainForm ==
    ASSUME NEW s, Layers(s)
    PROVE  \A k \in DOMAIN s :
              ChainIDs(s)[k] = IF k = 1 THEN s[1].diffId ELSE <<ChainIDs(s)[k - 1], s[k].diffId>>
<1>1. PICK N \in Nat : N = Len(s) BY DEF Layers
<1>2. PICK c : Chains(c, s, N) BY ChainExists
<1>3. DOMAIN s = 1..N BY <1>1 DEF Layers
<1>4. ChainIDs(s) = CHOOSE f : f = [k \in 1..N |->
                                      IF k = 1 THEN s[1].diffId ELSE <<f[k - 1], s[k].diffId>>]
    BY <1>3 DEF ChainIDs
<1>5. \E f : f = [k \in 1..N |-> IF k = 1 THEN s[1].diffId ELSE <<f[k - 1], s[k].diffId>>]
    BY <1>2 DEF Chains
<1>6. PICK f : f = ChainIDs(s) OBVIOUS
<1>7. f = [k \in 1..N |-> IF k = 1 THEN s[1].diffId ELSE <<f[k - 1], s[k].diffId>>]
    BY <1>4, <1>5, <1>6
<1>8. \A k \in 1..N : f[k] = IF k = 1 THEN s[1].diffId ELSE <<f[k - 1], s[k].diffId>> BY <1>7
<1> QED BY <1>3, <1>6, <1>8

\* Two stacks have the same first n layers.
Alike(l, r, n) == \A m \in 1..n : l[m].diffId = r[m].diffId

\* A chain is what its layers are, in their order.
LEMMA ChainsMatch ==
    ASSUME NEW l, NEW r, Layers(l), Layers(r), NEW N \in DOMAIN l \cap DOMAIN r
    PROVE  ChainIDs(l)[N] = ChainIDs(r)[N] <=> Alike(l, r, N)
<1> DEFINE Match(n) == n \in DOMAIN l \cap DOMAIN r =>
                          (ChainIDs(l)[n] = ChainIDs(r)[n] <=> Alike(l, r, n))
           L == {n \in Nat : ~Match(n)}
<1>0. N \in Nat BY DEF Layers
<1>1. ASSUME L # {} PROVE FALSE
  <2>1. PICK n \in L : \A j \in L : n <= j
    <3> HIDE DEF Match
    <3> QED BY <1>1, LeastNat
  <2>2. n \in Nat /\ n \in DOMAIN l /\ n \in DOMAIN r /\ n # 0 BY <2>1 DEF Layers
  <2>3. /\ ChainIDs(l)[n] = IF n = 1 THEN l[1].diffId ELSE <<ChainIDs(l)[n - 1], l[n].diffId>>
        /\ ChainIDs(r)[n] = IF n = 1 THEN r[1].diffId ELSE <<ChainIDs(r)[n - 1], r[n].diffId>>
      BY <2>2, ChainForm
  <2>4. CASE n = 1
    <3>1. Alike(l, r, n) <=> l[1].diffId = r[1].diffId BY <2>4 DEF Alike
    <3> QED BY <2>1, <2>3, <2>4, <3>1
  <2>5. CASE n # 1
    <3>1. n - 1 \in Nat /\ n - 1 \notin L BY <2>1, <2>2, <2>5
    <3>2. n - 1 \in DOMAIN l /\ n - 1 \in DOMAIN r BY <2>2, <2>5 DEF Layers
    <3>3. ChainIDs(l)[n - 1] = ChainIDs(r)[n - 1] <=> Alike(l, r, n - 1) BY <3>1, <3>2
    <3>4. Alike(l, r, n) <=> Alike(l, r, n - 1) /\ l[n].diffId = r[n].diffId
      <4>1. \A m : m \in 1..n <=> m \in 1..(n - 1) \/ m = n BY <2>2
      <4> QED BY <4>1 DEF Alike
    <3>5. ChainIDs(l)[n] = ChainIDs(r)[n] <=>
            ChainIDs(l)[n - 1] = ChainIDs(r)[n - 1] /\ l[n].diffId = r[n].diffId
        BY <2>3, <2>5
    <3> QED BY <2>1, <3>3, <3>4, <3>5
  <2> QED BY <2>4, <2>5
<1> QED BY <1>0, <1>1

\* The trunk ends before the first layer that differs or has no digest.
LEMMA TrunkForm ==
    ASSUME NEW l, NEW r, Layers(l), Layers(r)
    PROVE  /\ TrunkLCP(l, r) \in Nat
           /\ \A n \in DOMAIN l \cap DOMAIN r :
                n <= TrunkLCP(l, r) <=> Alike(l, r, n) /\ \A m \in 1..n : l[m].diffId # None
<1>1. PICK a \in Nat, b \in Nat : a = Len(l) /\ b = Len(r) BY DEF Layers
<1>2. PICK N \in Nat : N = Min({a, b}) /\ N <= a /\ N <= b /\ N \in {a, b}
    BY MinOfTwo
<1>3. DOMAIN l \cap DOMAIN r = 1..N BY <1>1, <1>2 DEF Layers
<1> DEFINE forks == {i \in 1..N : l[i].diffId = None \/ l[i].diffId # r[i].diffId}
           Same(n) == Alike(l, r, n) /\ \A m \in 1..n : l[m].diffId # None
<1>4. TrunkLCP(l, r) = IF forks = {} THEN N ELSE Min(forks) - 1 BY <1>1, <1>2 DEF TrunkLCP
<1>5. \A n \in 1..N : Same(n) <=> \A m \in 1..n : m \notin forks BY DEF Alike
<1> HIDE DEF forks, Same
<1>6. forks \subseteq 1..N BY DEF forks
<1>7. CASE forks = {} BY <1>3, <1>4, <1>5, <1>7 DEF Same
<1>8. CASE forks # {}
  <2>1. PICK f \in forks : \A j \in forks : f <= j
    <3>1. forks \in SUBSET Nat BY <1>6
    <3> QED BY <1>8, <3>1, LeastNat
  <2>2. Min(forks) = f
    <3>1. forks \in SUBSET Int BY <1>6
    <3> QED BY <2>1, <3>1, MinOf
  <2>3. \A n \in 1..N : n <= f - 1 <=> \A m \in 1..n : m \notin forks BY <1>6, <2>1
  <2>4. f \in 1..N BY <1>6, <2>1
  <2>5. TrunkLCP(l, r) = f - 1 /\ f - 1 \in Nat BY <1>4, <1>8, <2>2, <2>4
  <2>6. \A n \in 1..N : n <= f - 1 <=> Same(n) BY <1>5, <2>3
  <2>7. \A n \in 1..N : n <= TrunkLCP(l, r) <=> Same(n) BY <2>5, <2>6
  <2> QED BY <1>3, <2>5, <2>7 DEF Same
<1> QED BY <1>7, <1>8

-------------------------------------------------------------------------------
(* The edges.                                                                *)

\* The edges of two branches: finitely many, told apart by what they join.
LEMMA EdgeSet ==
    ASSUME NEW l, NEW r, Layers(l), Layers(r), NEW k \in Nat
    PROVE  /\ IsFiniteSet(Edges(l, r, k))
           /\ \A e \in Edges(l, r, k) :
                /\ e.leftIndex \in k+1..Len(l) /\ e.rightIndex \in k+1..Len(r)
                /\ e = Edge(l, r, e.leftIndex, e.rightIndex)
           /\ \A i \in DOMAIN l, j \in DOMAIN r :
                Edge(l, r, i, j) \in Edges(l, r, k) <=>
                    /\ i > k /\ j > k /\ Eligible(l[i]) /\ Eligible(r[j])
                    /\ l[i].changesetDigest = r[j].changesetDigest
<1>1. PICK a \in Nat, b \in Nat : a = Len(l) /\ b = Len(r) BY DEF Layers
<1> DEFINE A == Branch(l, k)
           B == Branch(r, k)
           twins == {q \in A \X B : l[q[1]].changesetDigest = r[q[2]].changesetDigest}
           f == [p \in twins |-> Edge(l, r, p[1], p[2])]
<1>2. A \subseteq k+1..a /\ B \subseteq k+1..b BY <1>1 DEF Branch
<1>3. IsFiniteSet(twins)
  <2>1. IsFiniteSet(k+1..a) /\ IsFiniteSet(k+1..b)
    <3>1. k + 1 \in Int /\ a \in Int /\ b \in Int OBVIOUS
    <3> QED BY <3>1, FS_Interval
  <2>2. IsFiniteSet(A) /\ IsFiniteSet(B) BY <1>2, <2>1, FS_Subset
  <2>3. IsFiniteSet(A \X B) BY <2>2, FS_Product
  <2>4. twins \in SUBSET (A \X B) OBVIOUS
  <2> QED BY <2>3, <2>4, FS_Subset
<1>4. Edges(l, r, k) = {Edge(l, r, p[1], p[2]) : p \in twins} BY DEF Edges
<1>5. \A p \in twins : p[1] \in A /\ p[2] \in B /\ p = <<p[1], p[2]>>
                       /\ l[p[1]].changesetDigest = r[p[2]].changesetDigest
    OBVIOUS
<1>6. \A i \in A, j \in B : <<i, j>> \in twins <=> l[i].changesetDigest = r[j].changesetDigest
    OBVIOUS
<1> HIDE DEF twins
<1>7. IsFiniteSet(Edges(l, r, k))
  <2>1. Edges(l, r, k) = {f[p] : p \in twins} BY <1>4
  <2>2. f \in Surjection(twins, Edges(l, r, k))
    <3>1. DOMAIN f = twins /\ f = [p \in twins |-> f[p]] OBVIOUS
    <3> HIDE DEF f
    <3> QED BY <2>1, <3>1 DEF Surjection
  <2> HIDE DEF f
  <2> QED BY <1>3, <2>2, FS_Surjection
<1>8. \A i, j : Edge(l, r, i, j).leftIndex = i /\ Edge(l, r, i, j).rightIndex = j BY DEF Edge
<1> HIDE DEF A, B
<1>9. ASSUME NEW e \in Edges(l, r, k)
      PROVE  /\ e.leftIndex \in k+1..a /\ e.rightIndex \in k+1..b
             /\ e = Edge(l, r, e.leftIndex, e.rightIndex)
  <2>1. PICK p \in twins : e = Edge(l, r, p[1], p[2]) BY <1>4
  <2> QED BY <1>2, <1>5, <1>8, <2>1
<1>10. ASSUME NEW i \in DOMAIN l, NEW j \in DOMAIN r
       PROVE  Edge(l, r, i, j) \in Edges(l, r, k) <=>
                    /\ i > k /\ j > k /\ Eligible(l[i]) /\ Eligible(r[j])
                    /\ l[i].changesetDigest = r[j].changesetDigest
  <2>1. Edge(l, r, i, j) \in Edges(l, r, k) <=> <<i, j>> \in twins
    <3>1. ASSUME NEW p \in twins, Edge(l, r, i, j) = Edge(l, r, p[1], p[2])
          PROVE  <<i, j>> = p
        BY <1>5, <1>8, <3>1
    <3>2. ASSUME <<i, j>> \in twins PROVE Edge(l, r, i, j) \in Edges(l, r, k)
      <4>1. PICK p \in twins : p = <<i, j>> BY <3>2
      <4>2. p[1] = i /\ p[2] = j BY <4>1
      <4> QED BY <1>4, <4>2
    <3> QED BY <1>4, <3>1, <3>2
  <2>2. <<i, j>> \in twins => i \in A /\ j \in B
    <3>1. <<i, j>>[1] = i /\ <<i, j>>[2] = j OBVIOUS
    <3> QED BY <1>5, <3>1
  <2>3. i \in A <=> i > k /\ Eligible(l[i]) BY <1>1 DEF A, Branch, Layers
  <2>4. j \in B <=> j > k /\ Eligible(r[j]) BY <1>1 DEF B, Branch, Layers
  <2> QED BY <1>6, <2>1, <2>2, <2>3, <2>4
<1> QED BY <1>1, <1>7, <1>9, <1>10

\* They are listed in one order, each once.
LEMMA EdgesListed ==
    ASSUME NEW l, NEW r, Layers(l), Layers(r), NEW k \in Nat
    PROVE  LET list == CouldBeShared(l, r, k)
           IN  /\ Len(list) \in Nat /\ DOMAIN list = 1..Len(list)
               /\ \A n \in DOMAIN list : list[n] \in Edges(l, r, k)
               /\ \A e \in Edges(l, r, k) : \E n \in DOMAIN list : list[n] = e
               /\ \A m, n \in DOMAIN list : list[m] = list[n] => m = n
<1> DEFINE E == Edges(l, r, k)
           before == {p \in E \X E : Sooner(p[1], p[2])}
           list == InOrder(E, before)
<1>1. \A e, f \in E : <<e, f>> \in before <=> Sooner(e, f) OBVIOUS
<1>2. CouldBeShared(l, r, k) = list BY DEF CouldBeShared
<1>3. IsFiniteSet(E) BY EdgeSet
<1>4. \A e \in E : /\ e.leftIndex \in Int /\ e.rightIndex \in Int
                   /\ e = Edge(l, r, e.leftIndex, e.rightIndex)
  <2>1. PICK a \in Nat, b \in Nat : a = Len(l) /\ b = Len(r) BY DEF Layers
  <2>2. \A e \in E : /\ e.leftIndex \in k+1..a /\ e.rightIndex \in k+1..b
                     /\ e = Edge(l, r, e.leftIndex, e.rightIndex)
      BY <2>1, EdgeSet
  <2> QED BY <2>2
<1> HIDE DEF E, before
<1>5. \A e \in E : ~Sooner(e, e) BY <1>4 DEF Sooner
<1>6. \A e, f \in E : e # f => Sooner(e, f) \/ Sooner(f, e) BY <1>4 DEF Sooner
<1>7. \A e, f, g \in E : Sooner(e, f) /\ Sooner(f, g) => Sooner(e, g) BY <1>4 DEF Sooner
<1>8. /\ \A p \in E : <<p, p>> \notin before
      /\ \A p, q \in E : p # q => <<p, q>> \in before \/ <<q, p>> \in before
      /\ \A p, q, s \in E : <<p, q>> \in before /\ <<q, s>> \in before => <<p, s>> \in before
    BY <1>1, <1>5, <1>6, <1>7
<1>9. /\ list \in Seq(E) /\ Len(list) \in Nat /\ DOMAIN list = 1..Len(list)
      /\ \A p \in E : \E n \in DOMAIN list : list[n] = p
      /\ \A m, n \in DOMAIN list : m < n <=> <<list[m], list[n]>> \in before
    BY <1>3, <1>8, InOrderForm
<1> HIDE DEF list
<1>10. PICK N \in Nat : N = Len(list) BY <1>9
<1>11. ASSUME NEW m \in DOMAIN list, NEW n \in DOMAIN list, list[m] = list[n]
       PROVE  m = n
  <2>1. list[m] \in E /\ <<list[m], list[m]>> \notin before BY <1>8, <1>9
  <2>2. ~(m < n) /\ ~(n < m) BY <1>9, <1>11, <2>1
  <2>3. m \in 1..N /\ n \in 1..N BY <1>9, <1>10
  <2> QED BY <2>2, <2>3
<1>12. \A n \in DOMAIN list : list[n] \in E BY <1>9
<1> QED BY <1>2, <1>9, <1>11, <1>12 DEF E

\* What DiffLayers says of two stacks is so.
LEMMA GraphSound ==
    ASSUME NEW l \in Stack, NEW r \in Stack
    PROVE  TrunkIsOneChain(l, r)
<1> DEFINE k == TrunkLCP(l, r)
           list == CouldBeShared(l, r, k)
           Joins(i, j) == {n \in DOMAIN list : /\ list[n].leftIndex = i
                                               /\ list[n].rightIndex = j
                                               /\ list[n].diffIdEqual}
           Repeats(i, j) == l[i].diffId = r[j].diffId /\ l[i].diffId # None /\ Eligible(l[i])
<1>1. Layers(l) /\ Layers(r) BY StackAssumption DEF Layers
<1>2. DiffLayers(l, r).trunkLength = k /\ DiffLayers(l, r).couldBeShared = list BY DEF DiffLayers
<1>3. /\ k \in Nat
      /\ \A n \in DOMAIN l \cap DOMAIN r :
            n <= k <=> Alike(l, r, n) /\ \A m \in 1..n : l[m].diffId # None
    BY <1>1, TrunkForm
<1>4. \A n \in DOMAIN l \cap DOMAIN r : ChainIDs(l)[n] = ChainIDs(r)[n] <=> Alike(l, r, n)
    BY <1>1, ChainsMatch
<1> HIDE DEF k, list
<1>5. ASSUME NEW i \in DOMAIN l, NEW j \in DOMAIN r
      PROVE  Cardinality(Joins(i, j)) = IF Repeats(i, j) /\ i > k /\ j > k THEN 1 ELSE 0
  <2>1. /\ \A n \in DOMAIN list : list[n] \in Edges(l, r, k)
        /\ \A e \in Edges(l, r, k) : \E n \in DOMAIN list : list[n] = e
        /\ \A m, n \in DOMAIN list : list[m] = list[n] => m = n
      BY <1>1, <1>3, EdgesListed DEF list
  <2>2. /\ \A e \in Edges(l, r, k) : e = Edge(l, r, e.leftIndex, e.rightIndex)
        /\ Edge(l, r, i, j) \in Edges(l, r, k) <=>
                /\ i > k /\ j > k /\ Eligible(l[i]) /\ Eligible(r[j])
                /\ l[i].changesetDigest = r[j].changesetDigest
      BY <1>1, <1>3, EdgeSet
  <2>3. /\ Edge(l, r, i, j).leftIndex = i /\ Edge(l, r, i, j).rightIndex = j
        /\ Edge(l, r, i, j).diffIdEqual <=> l[i].diffId # None /\ l[i].diffId = r[j].diffId
      BY DEF Edge
  <2>4. Repeats(i, j) => l[i] = r[j] BY StackAssumption
  <2>5. \A n \in DOMAIN list :
            n \in Joins(i, j) <=> /\ list[n] = Edge(l, r, i, j)
                                  /\ l[i].diffId # None /\ l[i].diffId = r[j].diffId
      BY <2>1, <2>2, <2>3
  <2>6. CASE Repeats(i, j) /\ i > k /\ j > k
    <3>1. Edge(l, r, i, j) \in Edges(l, r, k) BY <2>2, <2>4, <2>6
    <3>2. PICK n \in DOMAIN list : list[n] = Edge(l, r, i, j) BY <2>1, <3>1
    <3>3. Joins(i, j) = {n}
      <4>1. n \in Joins(i, j) BY <2>5, <2>6, <3>2
      <4>2. \A m \in Joins(i, j) : m = n BY <2>1, <2>5, <3>2
      <4> HIDE DEF Joins
      <4> QED BY <4>1, <4>2
    <3> HIDE DEF Joins
    <3> QED BY <2>6, <3>3, FS_Singleton
  <2>7. CASE ~(Repeats(i, j) /\ i > k /\ j > k)
    <3>1. Joins(i, j) = {}
      <4> SUFFICES ASSUME NEW n \in Joins(i, j) PROVE FALSE OBVIOUS
      <4>1. n \in DOMAIN list /\ list[n] = Edge(l, r, i, j)
            /\ l[i].diffId # None /\ l[i].diffId = r[j].diffId
          BY <2>5
      <4>2. Edge(l, r, i, j) \in Edges(l, r, k) BY <2>1, <4>1
      <4> QED BY <2>2, <2>7, <4>1, <4>2
    <3> HIDE DEF Joins
    <3> QED BY <2>7, <3>1, FS_EmptySet
  <2> QED BY <2>6, <2>7
<1> HIDE DEF Repeats, Joins
<1> QED BY <1>2, <1>3, <1>4, <1>5 DEF TrunkIsOneChain, Alike, Repeats, Joins

\* Layers joined by "could be shared" have one effect on whatever lies beneath
\* them, the trunk is the longest chain that both images have, and beyond it each
\* repetition of a layer is joined once (analyze.ChangesetDigest, TrunkLCP,
\* CouldBeSharedEdges, handleDiffLayers).
THEOREM GraphTellsTruth == Spec => []SharingIsReal
<1>1. IndInv /\ TreesFinite /\ SquashIsOverlay => SharingIsReal
    BY SharedAreEqual, GraphSound DEF SharingIsReal
<1> QED BY <1>1, Always, PointsFinite, SquashesOverlay, PTL
===============================================================================
