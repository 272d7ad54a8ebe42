------------------------------ MODULE MCAnalysis ------------------------------
(* Instances of Analysis for TLC: a directory that may hold a file and a      *)
(* directory that may hold another.                                          *)
EXTENDS Analysis

CONSTANTS a, b, c, x, y, big, small, plain, other, id1, id2, id3

\* a/b/c and a/x/y.
MCAbove == a :> {} @@ b :> {a} @@ c :> {a, b} @@ x :> {a} @@ y :> {a, x}
MCNameRank == a :> 1 @@ b :> 2 @@ c :> 3 @@ x :> 0 @@ y :> 4
MCSizeOf == big :> 2 @@ small :> 1

File(k) == [kind |-> "file", attr |-> plain, content |-> k, mtime |-> 0]
Dir(m) == [kind |-> "dir", attr |-> m, content |-> None, mtime |-> 0]
Link == [kind |-> "link", attr |-> plain, content |-> None, mtime |-> 0]
MCMember == a :> {File(small), Dir(other)} @@ b :> {File(big), Dir(other), Link}
            @@ c :> {File(big), File(small)} @@ x :> {File(small), Dir(other)} @@ y :> {File(small)}

\* id1 and id2 hold one file at two times, id3 holds nothing; up to three layers.
OneFile(m) == [entries |-> [p \in {x} |-> [File(small) EXCEPT !.mtime = m]], markers |-> {}, bytes |-> 1]
MCLayers == {StackLayer(id1, OneFile(0)), StackLayer(id2, OneFile(1)), StackLayer(id3, NoEntries),
             StackLayer(None, OneFile(0))}
MCStack == UNION {[1..n -> MCLayers] : n \in 0..3}
===============================================================================
