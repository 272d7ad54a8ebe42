------------------------------- MODULE Analysis -------------------------------
(***************************************************************************)
(* What the parts of the analysis promise together: any two of the layer   *)
(* points an image goes through, compared and browsed; and the graph of    *)
(* the layers of two images.                                               *)
(***************************************************************************)
EXTENDS Squash, TreePages, LayerGraph

CONSTANT Stack   \* the stacks of layers whose graphs are looked at

\* What a DiffID names is one tar, with one index.
ASSUME StackAssumption ==
    /\ Stack \subseteq Seq(UNION {ToSet(s) : s \in Stack})
    /\ \A l, r \in Stack : \A i \in DOMAIN l, j \in DOMAIN r :
            l[i].diffId = r[j].diffId /\ l[i].diffId # None => l[i] = r[j]

\* Properties of points are looked at when one was reached, against every
\* point before it: the sides a client may choose.
AtPoint == phase = "index" /\ index = NoEntries
Chosen(P(_, _)) ==
    \A n \in DOMAIN points : P(n, Len(points)) /\ (n # Len(points) => P(Len(points), n))
Compared(m, n) == Diff(points[m], points[n])

\* A client asks for a page of such a comparison.
Asked(m, n, at, depth, limit, filter) ==
    TreeParams([leftLayers |-> m - 1, rightLayers |-> n - 1, path |-> at, depth |-> depth,
                limit |-> limit, filter |-> filter], Len(points) - 1, Len(points) - 1)

Swapped(s) == CASE s = "added" -> "removed" [] s = "removed" -> "added" [] OTHER -> s

\* The sums of a row are those of the files shown at or beneath it, so that no
\* byte is lost between a row and the page it opens; both sides are treated
\* alike, and a tree does not differ from itself.
RowsAddUp(m, n) ==
    LET d == Compared(m, n)
        e == Compared(n, m)
        Within(p) == {q \in DOMAIN d : q = p \/ q \in Beneath(p)}
        Files(S, side) == {q \in S : d[q][side] # None /\ d[q][side].kind = "file"}
        Total(S, side) == MapThenSumSet(LAMBDA q : Bytes(d[q][side]), Files(S, side))
        With(S, status) == {q \in S : d[q].status = status}
    IN  /\ DOMAIN e = DOMAIN d
        /\ \A p \in DOMAIN d :
            /\ e[p].status = Swapped(d[p].status)
            /\ d[p].agg.leftBytes = Total(Within(p), "left")
            /\ d[p].agg.rightFiles = Cardinality(Files(Within(p), "right"))
            /\ d[p].agg.addedBytes = Total(With(Within(p), "added"), "right")
            /\ d[p].agg.modifiedBytesRight = Total(With(Within(p), "modified"), "right")
            /\ e[p].agg.removedBytes = d[p].agg.addedBytes
            /\ e[p].agg.modifiedBytesLeft = d[p].agg.modifiedBytesRight
        /\ points[m] = points[n] => AllUnchanged(d)
DiffAddsUp == AtPoint => Chosen(RowsAddUp)

\* filter=changed hides no change and leads nowhere in vain: a row is listed
\* exactly when it, or something to be found beneath it, differs in itself.
ChangesLead(m, n) ==
    LET d == Compared(m, n)
    IN  \A p \in DOMAIN d \ {Root} :
            p \in ToSet(Listing(d, Parent(p), "changed"))
                <=> \E q \in DOMAIN d :
                        (q = p \/ q \in Beneath(p)) /\ OwnChange(points[m], points[n], q)
ChangesAreFound == AtPoint => Chosen(ChangesLead)

\* The cursors a client was given, and a page that goes on after the rows it was
\* sent, as far as its limit allows.
Issued(d, m, n) ==
    {cur \in {TreePage(d, Asked(m, n, p, None, limit, filter), None).nextCursor :
                p \in DOMAIN d, limit \in 1..MaxTreeLimit, filter \in Filter} : cur # None}
Follows(d, params, rows, page, done) ==
    LET end == Min({done + params.limit, Len(rows)})
    IN  /\ [k \in DOMAIN page.rows |-> page.rows[k].path] = SubSeq(rows, done + 1, end)
        /\ page.nextCursor = IF end = Len(rows) THEN None ELSE Cursor(d, params, rows[end])
        /\ page.totalRows = Len(rows)

\* Whichever cursor of an earlier answer a client sends, it is refused or resumes
\* exactly after the row it was issued for, whatever the limits were before: no
\* row is skipped or sent twice, and every page agrees on the size of the listing.
\* A path that is not there has no pages.
ResumeAt(d, issued, params, at, filter) ==
    LET rows == Listing(d, at, filter)
        Page(cur) == TreePage(d, params, cur)
    IN  IF at \notin DOMAIN d THEN Page(None) = None
        ELSE /\ Follows(d, params, rows, Page(None), 0)
             /\ \A cur \in issued :
                    Page(cur) # None =>
                        \E done \in DOMAIN rows :
                            /\ cur = Cursor(d, params, rows[done])
                            /\ Follows(d, params, rows, Page(cur), done)
             /\ \A done \in 1..Len(rows) - 1 :
                    Follows(d, params, rows, Page(Cursor(d, params, rows[done])), done)
Resume(m, n) ==
    LET d == Compared(m, n)
        issued == Issued(d, m, n)
    IN  \A at \in Path \cup {Root}, filter \in Filter, limit \in {None, MaxTreeLimit} :
            ResumeAt(d, issued, Asked(m, n, at, None, limit, filter), at, filter)
PagesResume == AtPoint => Chosen(Resume)

\* A level the client takes over from its parent's page is the page it would
\* have been sent, and one response never embeds more than its budget.
EmbeddedRows(page) == MapThenSumSet(LAMBDA k : Len(page.rows[k].children), DOMAIN page.rows)
SeedOf(d, params, row) ==
    LET seed == SeedPage(d, row)
        own == TreePage(d, [params EXCEPT !.path = row.path, !.depth = 1,
                                          !.limit = Cardinality(DOMAIN d)], None)
    IN  seed # None =>
            /\ seed.rows = [j \in DOMAIN own.rows |-> own.rows[j].path]
            /\ seed.totalRows = own.totalRows
            /\ seed.maxSiblingBytes = own.maxSiblingBytes
Seeds(m, n) ==
    LET d == Compared(m, n)
    IN  \A at \in DOMAIN d, filter \in Filter, limit \in 1..MaxTreeLimit :
            LET params == Asked(m, n, at, 2, limit, filter)
                page == TreePage(d, params, None)
            IN  /\ \A k \in DOMAIN page.rows : SeedOf(d, params, page.rows[k])
                /\ EmbeddedRows(page) <= MaxEmbeddedRows
SeedsAreWhole == AtPoint => Chosen(Seeds)

\* What the graph says of two layers is so.  Layers joined by "could be shared"
\* have one effect: over the same tree they lead to trees without a difference
\* (the layers looked at differ from the finished one in one entry or one marker).
\* A layer is on the trunk exactly when its chain is the same in both images,
\* which is what a pull shares; and beyond it every repetition of a layer that
\* has an effect is joined, once.
Retimed(e) == [e EXCEPT !.mtime = 1]
Variants(x) ==
    (UNION {{[x EXCEPT !.entries[p] = e] : e \in Member[p] \cup {Retimed(f) : f \in Member[p]}} :
              p \in DOMAIN x.entries})
    \cup {[x EXCEPT !.markers = (@ \ {m}) \cup {n}] :
            m \in x.markers, n \in {k \in Marker : \E j \in x.markers : k.path = j.path}}
JoinsEquals ==
    \A v \in Variants(index) :
        CouldBeShared(<<StackLayer(None, v)>>, <<StackLayer(None, index)>>, 0) # <<>> =>
            AllUnchanged(Diff(tree, Overlay(points[Len(points)], v)))
TrunkIsOneChain(l, r) ==
    LET graph == DiffLayers(l, r)
        Whole(s, n) == \A m \in 1..n : s[m].diffId # None
        Repeats(i, j) == l[i].diffId = r[j].diffId /\ l[i].diffId # None /\ Eligible(l[i])
    IN  /\ \A n \in DOMAIN l \cap DOMAIN r :
            n <= graph.trunkLength <=> Whole(l, n) /\ ChainIDs(l)[n] = ChainIDs(r)[n]
        /\ \A i \in DOMAIN l, j \in DOMAIN r :
            Cardinality({n \in DOMAIN graph.couldBeShared :
                            /\ graph.couldBeShared[n].leftIndex = i
                            /\ graph.couldBeShared[n].rightIndex = j
                            /\ graph.couldBeShared[n].diffIdEqual})
                = IF Repeats(i, j) /\ i > graph.trunkLength /\ j > graph.trunkLength THEN 1 ELSE 0
SharingIsReal ==
    /\ Applied => JoinsEquals
    /\ AtPoint /\ Len(points) = 1 => \A l, r \in Stack : TrunkIsOneChain(l, r)
===============================================================================
