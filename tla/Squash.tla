-------------------------------- MODULE Squash --------------------------------
(***************************************************************************)
(* analyze.Squasher: layers applied one after the other to a cumulative    *)
(* tree.  A layer is indexed, then applied in three loops over its sorted  *)
(* entries: opaque markers, whiteouts, and its own entries.  The two       *)
(* loops over markers take them here in any order, and the last one any    *)
(* order that puts a path after the directories above it.                  *)
(***************************************************************************)
EXTENDS LayerIndex, Sequences

CONSTANT MaxLayers   \* layers of the image

ASSUME MaxLayersAssumption == MaxLayers \in Nat

VARIABLES
    phase,   \* where applyLayer stands; "index" while a layer is read
    todo,    \* what the loop has still to apply
    tree,    \* Squasher.root
    points   \* the tree at every layer point reached, the empty one first

vars == <<index, phase, todo, tree, points>>

Phase == {"index", "opaques", "whiteouts", "entries"}

IsTree(t) == DOMAIN t \subseteq Path /\ \A p \in DOMAIN t : t[p] \in Node
IsDir(t, p) == p \in DOMAIN t /\ t[p].kind = "dir"

Init ==
    /\ index = NoEntries
    /\ phase = "index"
    /\ todo = {}
    /\ tree = EmptyTree
    /\ points = <<EmptyTree>>

Markers(kind) == {m.path : m \in {n \in index.markers : n.kind = kind}}

-------------------------------------------------------------------------------
(* One step of each loop.                                                    *)

\* The directory stays, what lies in it goes; no directory there, no effect.
\* Mutant: the directory goes too.
ClearedWhole(t, d) == Restrict(t, DOMAIN t \ (Beneath(d) \cup {d}))
Cleared(t, d) == IF d = Root \/ IsDir(t, d) THEN Restrict(t, DOMAIN t \ Beneath(d)) ELSE t

\* removeSubtree.
Removed(t, p) == Restrict(t, DOMAIN t \ (Beneath(p) \cup {p}))

\* ensureDirs: a missing directory above, or something else in its place,
\* becomes an implicit directory.
WithDirs(t, p) ==
    [q \in DOMAIN t \cup Above[p] |-> IF q \in Above[p] /\ ~IsDir(t, q) THEN Implicit ELSE t[q]]

NodeFrom(e) == [kind |-> e.kind, attr |-> e.attr, content |-> e.content, mtime |-> e.mtime,
                implicit |-> FALSE]

\* upsert: a directory keeps the children of the directory it restates, and
\* everything else hides what lay beneath.  Mutant: a file keeps them as well.
UpsertedOver(t, p, e) ==
    LET u == WithDirs(t, p)
    IN  [q \in DOMAIN u \cup {p} |-> IF q = p THEN NodeFrom(e) ELSE u[q]]
Upserted(t, p, e) ==
    LET u == WithDirs(t, p)
        kept == IF e.kind = "dir" THEN DOMAIN u ELSE DOMAIN u \ Beneath(p)
    IN  [q \in kept \cup {p} |-> IF q = p THEN NodeFrom(e) ELSE u[q]]

-------------------------------------------------------------------------------
(* Actions.                                                                  *)

\* A tar member is read.
Read ==
    /\ phase = "index"
    /\ Len(points) <= MaxLayers
    /\ IndexNext
    /\ UNCHANGED <<phase, todo, tree, points>>

\* The layer cannot be indexed; another ingest reads it from the start.
Fail ==
    /\ phase = "index"
    /\ Abandon
    /\ UNCHANGED <<phase, todo, tree, points>>

\* finish, and the first loop of applyLayer.
Apply ==
    /\ phase = "index"
    /\ Len(points) <= MaxLayers
    /\ phase' = "opaques"
    /\ todo' = Markers("opaque")
    /\ UNCHANGED <<index, tree, points>>

Step(p, now) ==
    /\ p \in todo
    /\ tree' = now
    /\ todo' = todo \ {p}
    /\ UNCHANGED <<index, phase, points>>

ApplyOpaque(d) == phase = "opaques" /\ Step(d, Cleared(tree, d))
ApplyWhiteout(p) == phase = "whiteouts" /\ Step(p, Removed(tree, p))
ApplyEntry(p) ==
    /\ phase = "entries"
    /\ Above[p] \cap todo = {}
    /\ Step(p, Upserted(tree, p, index.entries[p]))

NextLoop(from, to, work) ==
    /\ phase = from
    /\ todo = {}
    /\ phase' = to
    /\ todo' = work
    /\ UNCHANGED <<index, tree, points>>

Loops ==
    \/ NextLoop("opaques", "whiteouts", Markers("whiteout"))
    \/ NextLoop("whiteouts", "entries", DOMAIN index.entries)

\* Apply returns: the next layer point.
Applied == phase = "entries" /\ todo = {}
Point ==
    /\ Applied
    /\ points' = Append(points, tree)
    /\ index' = NoEntries
    /\ phase' = "index"
    /\ UNCHANGED <<todo, tree>>

Next ==
    \/ Read \/ Fail \/ Apply \/ Loops \/ Point
    \/ \E p \in todo : ApplyOpaque(p) \/ ApplyWhiteout(p) \/ ApplyEntry(p)

Spec == Init /\ [][Next]_vars

-------------------------------------------------------------------------------
(* What squashing promises.                                                  *)

TypeOK ==
    /\ DOMAIN index.entries \subseteq Path
    /\ \A p \in DOMAIN index.entries : index.entries[p] \in Entry
    /\ index.markers \subseteq Marker
    /\ index.bytes \in Nat
    /\ phase \in Phase
    /\ todo \subseteq Path \cup {Root}
    /\ IsTree(tree)
    /\ \A n \in DOMAIN points : IsTree(points[n])

\* What the three loops amount to, whichever order the tar had: the lower
\* tree without what the markers hide, overlaid by the layer's own entries.
\* In a path both listed as something else and used as a directory, the
\* directory wins.
Survives(lower, x, p) ==
    /\ p \in DOMAIN lower
    /\ \A m \in x.markers :
        /\ m.kind = "whiteout" => p \notin Beneath(m.path) \cup {m.path}
        /\ m.kind = "opaque" => p \notin Beneath(m.path)
    /\ \A q \in Above[p] \cap DOMAIN x.entries : x.entries[q].kind = "dir"
HoldsEntries(x, p) == \E q \in DOMAIN x.entries : p \in Above[q]
Overlay(lower, x) ==
    LET own == DOMAIN x.entries
        dirs == {p \in Path : HoldsEntries(x, p)}
        left == {p \in DOMAIN lower : Survives(lower, x, p)}
    IN  [p \in own \cup dirs \cup left |->
           IF p \in own /\ (p \notin dirs \/ x.entries[p].kind = "dir") THEN NodeFrom(x.entries[p])
           ELSE IF p \in dirs /\ (p \in own \/ p \notin left \/ lower[p].kind # "dir") THEN Implicit
           ELSE lower[p]]

\* A squashed layer is the overlay of its changeset, whatever order its
\* members and its markers came in.
SquashIsOverlay == Applied => tree = Overlay(points[Len(points)], index)

\* Every path of a tree lies in directories of the tree: no step of a layer
\* leaves an orphan, or a child in something that is not a directory, and what
\* a comparison of two layer points walks is a tree on either side.
Rooted(t) == \A p \in DOMAIN t : \A d \in Above[p] : IsDir(t, d)
TreeRooted == Rooted(tree) /\ \A n \in DOMAIN points : Rooted(points[n])

\* indexState: the bytes of a layer are those of the files it ends up with,
\* however often a path was replaced, and the cap holds.
LedgerExact ==
    /\ index.bytes = MapThenSumSet(LAMBDA p : Bytes(index.entries[p]), DOMAIN index.entries)
    /\ EntryCount(index) <= MaxEntries

\* Whatever the layers were, the squasher is in a state it can go on from.
Inv == TypeOK /\ TreeRooted /\ LedgerExact
===============================================================================
