------------------------------ MODULE LayerGraph ------------------------------
(***************************************************************************)
(* GET /api/v1/diff/layers: two stacks of layers side by side, the trunk   *)
(* they share, and the edges between layers that are stored apart but have *)
(* one effect.  A layer of a stack is a DiffID and what its index says.    *)
(***************************************************************************)
EXTENDS LayerIndex, SequencesExt

CONSTANT DiffId   \* the digests of uncompressed tars; None is no digest

ASSUME DiffIdAssumption == None \notin DiffId

\* indexOne's layer of a record.
StackLayer(id, x) ==
    [diffId |-> id, changesetDigest |-> ChangesetDigest(x), entryCount |-> EntryCount(x),
     contentBytes |-> x.bytes]

\* ChainIDs: a digest over the chain below and the layer, which nothing else
\* has.
ChainIDs(layers) ==
    LET chain[n \in DOMAIN layers] ==
            IF n = 1 THEN layers[1].diffId ELSE <<chain[n - 1], layers[n].diffId>>
    IN  chain

\* TrunkLCP: the layers before the first that differs.
TrunkLCP(a, b) ==
    LET n == Min({Len(a), Len(b)})
        forks == {i \in 1..n : a[i].diffId = None \/ a[i].diffId # b[i].diffId}
    IN  IF forks = {} THEN n ELSE Min(forks) - 1

\* Layers that change nothing are not worth an edge.
Eligible(layer) == layer.entryCount > 0

\* CouldBeSharedEdges beyond the trunk of k layers: every two layers worth an
\* edge that have one digest are joined, by right index, then left.
Branch(s, k) == {i \in k + 1..Len(s) : Eligible(s[i])}
Edge(a, b, i, j) ==
    [leftIndex |-> i, rightIndex |-> j,
     diffIdEqual |-> a[i].diffId # None /\ a[i].diffId = b[j].diffId]
Edges(a, b, k) ==
    {Edge(a, b, p[1], p[2]) :
        p \in {q \in Branch(a, k) \X Branch(b, k) :
                a[q[1]].changesetDigest = b[q[2]].changesetDigest}}
Sooner(e, f) ==
    \/ e.rightIndex < f.rightIndex
    \/ e.rightIndex = f.rightIndex /\ e.leftIndex < f.leftIndex
CouldBeShared(a, b, k) ==
    LET edges == Edges(a, b, k)
    IN  InOrder(edges, {p \in edges \X edges : Sooner(p[1], p[2])})

MaxLayerBytes(left, right) == Max({0} \cup {layer.contentBytes : layer \in ToSet(left \o right)})

\* handleDiffLayers.
DiffLayers(left, right) ==
    LET k == TrunkLCP(left, right)
    IN  [trunkLength |-> k,
         trunk |-> SubSeq(left, 1, k),
         leftBranch |-> SubSeq(left, k + 1, Len(left)),
         rightBranch |-> SubSeq(right, k + 1, Len(right)),
         couldBeShared |-> CouldBeShared(left, right, k),
         maxLayerBytes |-> MaxLayerBytes(left, right)]
===============================================================================
