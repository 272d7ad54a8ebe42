------------------------------- MODULE LayerIndex -------------------------------
(***************************************************************************)
(* analyze.IndexLayer: one pass over the members of a layer's tar, in any  *)
(* order and with any repetition.  Members that name nothing the            *)
(* filesystem holds (pax headers, the root, unsafe names, aufs metadata,   *)
(* malformed whiteouts, unknown types) leave a warning at most.            *)
(***************************************************************************)
EXTENDS LayerTree, FiniteSetsExt, Functions

CONSTANTS
    Member,     \* the entries a tar may carry, for every path
    MaxEntries  \* LayerSource.MaxEntries

ASSUME MemberAssumption == Member \in [Path -> SUBSET Entry]
ASSUME MaxEntriesAssumption == MaxEntries \in Nat \ {0}

VARIABLE index   \* indexState

NoEntries == [entries |-> EmptyTree, markers |-> {}, bytes |-> 0]
Layer == [entries: UNION {[S -> Entry] : S \in SUBSET Path}, markers: SUBSET Marker, bytes: Nat]

EntryCount(x) == Cardinality(DOMAIN x.entries) + Cardinality(x.markers)

\* reserveEntry: no room for one more key.
Full(x) == EntryCount(x) >= MaxEntries

\* put: the last member of a path wins, and takes the bytes of the one before.
Put(x, p, e) ==
    [x EXCEPT !.entries = [q \in DOMAIN @ \cup {p} |-> IF q = p THEN e ELSE @[q]],
              !.bytes = (@ - (IF p \in DOMAIN x.entries THEN Bytes(x.entries[p]) ELSE 0)) + Bytes(e)]

\* A member for a path: a file, a directory, a link, a device, a fifo.
AddEntry(p, e) ==
    /\ p \in DOMAIN index.entries \/ ~Full(index)
    /\ index' = Put(index, p, e)

\* A marker never displaces the entry of the path it names.
AddMarker(m) ==
    /\ m \in index.markers \/ ~Full(index)
    /\ index' = [index EXCEPT !.markers = @ \cup {m}]

\* The pass fails: a member past the cap, a body or a tar that cannot be read,
\* a digest that is not the declared one, a context that is done.
Abandon == index' = NoEntries

IndexNext ==
    \/ \E p \in Path : \E e \in Member[p] : AddEntry(p, e)
    \/ \E m \in Marker : AddMarker(m)

\* ChangesetDigest: equal for two layers exactly when these are.  Mutant: what
\* kind of marker it is stays out of the digest.
UnmarkedDigest(x) ==
    [entries |-> [p \in DOMAIN x.entries |-> Fields(x.entries[p])],
     markers |-> {m.path : m \in x.markers}]
ChangesetDigest(x) ==
    [entries |-> [p \in DOMAIN x.entries |-> Fields(x.entries[p])], markers |-> x.markers]
===============================================================================
