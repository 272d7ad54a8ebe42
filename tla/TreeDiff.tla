------------------------------- MODULE TreeDiff -------------------------------
(***************************************************************************)
(* analyze.Diff: two trees merged into one, each row with its status and   *)
(* the sums of what it holds.  A diff is a function from the paths it      *)
(* shows, the root among them, to their rows.                              *)
(***************************************************************************)
EXTENDS LayerTree, SequencesExt

OnBoth(l, r, p) == At(l, p) # None /\ At(r, p) # None
DirOnBoth(l, r, p) == OnBoth(l, r, p) /\ At(l, p).kind = "dir" /\ At(r, p).kind = "dir"

\* A directory that is something else on the other side is a leaf: what it
\* holds is no part of the comparison.
Shown(l, r) ==
    {Root} \cup {p \in DOMAIN l \cup DOMAIN r :
                    \A a \in Above[p] : OnBoth(l, r, a) => DirOnBoth(l, r, a)}

\* The metadata of an implicit directory is nobody's.  Mutant: an implicit
\* directory on the left counts as stated.
MetaDiffersOneWay(m, n) ==
    \/ m.kind # n.kind
    \/ Fields(m) # Fields(n) /\ ~(m.kind = "dir" /\ n.implicit)
MetaDiffers(m, n) ==
    \/ m.kind # n.kind
    \/ Fields(m) # Fields(n) /\ ~(m.kind = "dir" /\ (m.implicit \/ n.implicit))

\* A row whose own presence or metadata differs.
OwnChange(l, r, p) == IF OnBoth(l, r, p) THEN MetaDiffers(At(l, p), At(r, p)) ELSE TRUE

\* fillAgg: only regular files count, a modified one on both sides.
OwnAgg(row) ==
    LET File(m) == m # None /\ m.kind = "file"
        Size(m) == IF m = None THEN 0 ELSE Bytes(m)
        Count(m) == IF File(m) THEN 1 ELSE 0
        If(status, n) == IF row.status = status THEN n ELSE 0
    IN  [leftBytes |-> Size(row.left), rightBytes |-> Size(row.right),
         leftFiles |-> Count(row.left), rightFiles |-> Count(row.right),
         addedBytes |-> If("added", Size(row.right)),
         removedBytes |-> If("removed", Size(row.left)),
         modifiedBytesLeft |-> If("modified", Size(row.left)),
         modifiedBytesRight |-> If("modified", Size(row.right)),
         addedFiles |-> If("added", Count(row.right)),
         removedFiles |-> If("removed", Count(row.left)),
         modifiedFiles |-> If("modified", IF File(row.left) \/ File(row.right) THEN 1 ELSE 0)]
AddAgg(x, y) == [f \in DOMAIN x |-> x[f] + y[f]]

ChildrenIn(paths, p) == {c \in paths \ {Root} : Parent(c) = p}

\* A directory is modified when something in it changed.  Mutant: only when
\* its own metadata did.
OwnStatus(l, r) ==
    [p \in Shown(l, r) |->
        IF At(l, p) = None THEN "added"
        ELSE IF At(r, p) = None THEN "removed"
        ELSE IF OwnChange(l, r, p) THEN "modified" ELSE "unchanged"]
StatusOf(l, r) ==
    LET shown == Shown(l, r)
        status[p \in shown] ==
            IF At(l, p) = None THEN "added"
            ELSE IF At(r, p) = None THEN "removed"
            ELSE IF \/ OwnChange(l, r, p)
                    \/ \E c \in ChildrenIn(shown, p) : status[c] # "unchanged"
                 THEN "modified" ELSE "unchanged"
    IN  status

\* The rows, and the sums over each and what lies beneath it.
Diff(l, r) ==
    LET shown == Shown(l, r)
        status == StatusOf(l, r)
        row(p) == [left |-> At(l, p), right |-> At(r, p), status |-> status[p]]
        agg[p \in shown] ==
            MapThenFoldSet(AddAgg, OwnAgg(row(p)), LAMBDA c : agg[c],
                           LAMBDA S : CHOOSE c \in S : TRUE, ChildrenIn(shown, p))
    IN  [p \in shown |-> [left |-> At(l, p), right |-> At(r, p), status |-> status[p], agg |-> agg[p]]]

\* The diff without a change.
AllUnchanged(d) == \A p \in DOMAIN d : d[p].status = "unchanged"
===============================================================================
