------------------------------- MODULE LayerTree -------------------------------
(***************************************************************************)
(* The data the analysis works on, internal/domain and internal/analyze:   *)
(* the entries a layer holds and the trees they are squashed into.  A path *)
(* is a model value; where it lies is given by the directories above it.   *)
(* Everything the changeset digest reads of an entry beside its kind and   *)
(* its content (mode, owner, xattrs, link target, device) is its attr.     *)
(* A tree is a function from its paths to its nodes, the root left out: no *)
(* layer can restate it.                                                   *)
(***************************************************************************)
EXTENDS Naturals, FiniteSets

CONSTANTS
    Path,
    Root,
    Above,      \* the directories a path lies in, the root left out
    Content,    \* what files hold
    SizeOf,     \* its bytes
    Attr,
    Synthetic,  \* implicitDirMode, owned by nobody in particular
    None

ASSUME RootAssumption == Root \notin Path
ASSUME AboveAssumption ==
    /\ Above \in [Path -> SUBSET Path]
    /\ \A p \in Path : p \notin Above[p] /\ IsFiniteSet(Above[p])
    /\ \A p \in Path : \A a \in Above[p] : Above[a] \subseteq Above[p]
    /\ \A p \in Path : \A a, b \in Above[p] : a = b \/ a \in Above[b] \/ b \in Above[a]
ASSUME ContentAssumption == SizeOf \in [Content -> Nat] /\ None \notin Content
ASSUME AttrAssumption == Synthetic \in Attr

\* Symlinks, hardlinks, devices and fifos hold no bytes and no children.
Kind == {"file", "dir", "link"}
Entry == {e \in [kind: Kind, attr: Attr, content: Content \cup {None}, mtime: Nat] :
            (e.content # None) = (e.kind = "file")}
Node == {n \in [kind: Kind, attr: Attr, content: Content \cup {None}, mtime: Nat, implicit: BOOLEAN] :
            (n.content # None) = (n.kind = "file")}

ASSUME NoNodeAssumption == None \notin Node

Marker == [path: Path, kind: {"whiteout"}] \cup [path: Path \cup {Root}, kind: {"opaque"}]

\* The paths beneath a directory.
Beneath(d) == IF d = Root THEN Path ELSE {p \in Path : d \in Above[p]}

Parent(p) ==
    IF Above[p] = {} THEN Root ELSE CHOOSE a \in Above[p] : Above[p] = Above[a] \cup {a}

Bytes(e) == IF e.kind = "file" THEN SizeOf[e.content] ELSE 0

\* tarsumFields: what makes two entries differ, the mtime left out.  The size
\* of a file is its content's, and projectDir leaves a directory neither.
Fields(e) == [kind |-> e.kind, attr |-> e.attr, content |-> e.content]

EmptyTree == [p \in {} |-> None]

\* A directory that is there because a child needed a parent.
Implicit == [kind |-> "dir", attr |-> Synthetic, content |-> None, mtime |-> 0, implicit |-> TRUE]

\* A set sorted by a strict order: a member comes after as many as are before it.
InOrder(S, before) ==
    [n \in 1..Cardinality(S) |->
        CHOOSE p \in S : Cardinality({q \in S : <<q, p>> \in before}) = n - 1]

\* What a path is on one side of a comparison.  The root is always there.
At(t, p) == IF p = Root THEN Implicit ELSE IF p \in DOMAIN t THEN t[p] ELSE None
===============================================================================
