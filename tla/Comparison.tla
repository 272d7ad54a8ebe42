------------------------------- MODULE Comparison -------------------------------
(***************************************************************************)
(* GET /api/v1/diff/tree up to its answer, internal/server: the two image  *)
(* lookups, the comparison cache (a small LRU with single-flight           *)
(* assembly), and the assembly itself, which loads the layers of both      *)
(* images one at a time while the analysis cache goes on evicting and      *)
(* ingesting.  The analysis cache is its catalog, ImageCatalog.            *)
(*                                                                         *)
(* A comparison stands for its tree by the layers squashed on either side. *)
(* A request slot is used again once nobody waits on its last assembly.    *)
(***************************************************************************)
EXTENDS Naturals, SequencesExt

CONSTANTS
    Request,   \* requests in progress
    Image,
    Layer,
    Stack,     \* the layers of an image, bottom first
    Key,       \* the comparisons asked for
    Capacity,  \* DefaultComparisonCacheSize
    None

Selection == [left: Image, right: Image, leftLayers: Nat, rightLayers: Nat]

ASSUME StackAssumption == Stack \in [Image -> Seq(Layer)]
ASSUME KeyAssumption ==
    /\ Key \subseteq Selection
    /\ \A k \in Key : k.leftLayers <= Len(Stack[k.left]) /\ k.rightLayers <= Len(Stack[k.right])
ASSUME CapacityAssumption == Capacity \in Nat \ {0}
ASSUME NoRequestAssumption == None \notin Request \cup Image \cup Key

VARIABLES
    entries,   \* comparisonCache.entries, most recently used first
    inflight,  \* comparisonCache.inflight: the request that leads an assembly
    req,       \* the handler goroutines
    gone,      \* requests whose client has left: their context is done
    status, readable  \* the analysis cache

cache == <<status, readable>>
vars == <<entries, inflight, req, gone, status, readable>>

LayersOf == [i \in Image |-> ToSet(Stack[i])]
Catalog == INSTANCE ImageCatalog

-------------------------------------------------------------------------------
(* Types.                                                                    *)

\* A comparison and how a request can end.
Built == [key: Key, left: Seq(Layer), right: Seq(Layer)]
Found(cmp) == [kind |-> "found", cmp |-> cmp]
NotFound(i) == [kind |-> "notFound", image |-> i]
Internal == [kind |-> "internal"]
Cancelled == [kind |-> "cancelled"]

\* left and right are loadPair's lookups, lookup is get's first hold of mu,
\* load and open the assembly (a layer's lookup, and then its file), publish
\* its second hold, close what follows it.
Pc == {"idle", "left", "right", "lookup", "wait", "load", "open", "publish", "close", "answered"}
Outcome == {Internal, Cancelled} \cup [kind: {"notFound"}, image: Image]
           \cup [kind: {"found"}, cmp: Built]
Handler == [pc: Pc, key: Key \cup {None}, on: Request \cup {None}, left: Seq(Layer),
            right: Seq(Layer), closed: BOOLEAN, out: Outcome \cup {None}]

ASSUME NoOutcomeAssumption == None \notin Outcome

Idle == [pc |-> "idle", key |-> None, on |-> None, left |-> <<>>, right |-> <<>>,
         closed |-> FALSE, out |-> None]

Init ==
    /\ entries = <<>>
    /\ inflight = [k \in Key |-> None]
    /\ req = [r \in Request |-> Idle]
    /\ gone = {}
    /\ Catalog!Init

-------------------------------------------------------------------------------
(* The handler.                                                              *)

Answer(r, out) == req' = [req EXCEPT ![r].pc = "answered", ![r].out = out]

Arrive(r, k) ==
    /\ req[r].pc = "idle"
    /\ req' = [req EXCEPT ![r] = [Idle EXCEPT !.pc = "left", !.key = k]]
    /\ UNCHANGED <<entries, inflight, gone, cache>>

\* The client closes its connection.
Leave(r) ==
    /\ req[r].pc \notin {"idle", "answered"}
    /\ gone' = gone \cup {r}
    /\ UNCHANGED <<entries, inflight, req, cache>>

\* loadPair: one of the two images, by its id.
LoadImage(r, pc, i, next) ==
    /\ req[r].pc = pc
    /\ IF r \in gone THEN Answer(r, Cancelled)
       ELSE IF i \in Catalog!Listed THEN req' = [req EXCEPT ![r].pc = next]
       ELSE Answer(r, NotFound(i))
    /\ UNCHANGED <<entries, inflight, gone, cache>>

\* The response is on the wire and nobody holds the request's assembly.
Leaves(r) ==
    /\ req[r].pc = "answered"
    /\ \A w \in Request : req[w].on # r
    /\ req' = [req EXCEPT ![r] = Idle]
    /\ gone' = gone \ {r}
    /\ UNCHANGED <<entries, inflight, cache>>

-------------------------------------------------------------------------------
(* comparisonCache.get.                                                      *)

Entry(k) == {n \in DOMAIN entries : entries[n].key = k}

\* lookupLocked: the entry moves to the front.
Promoted(n) == <<entries[n]>> \o RemoveAt(entries, n)

Hit(r) ==
    /\ req[r].pc = "lookup"
    /\ \E n \in Entry(req[r].key) :
        /\ entries' = Promoted(n)
        /\ Answer(r, Found(entries[n]))
    /\ UNCHANGED <<inflight, gone, cache>>

\* The assembly to wait for.  Mutants: nobody waits, everyone assembles; the
\* layer selection is left out of the key.
NoFlight(k) == None
PairFlight(k) ==
    LET pair == {j \in Key : j.left = k.left /\ j.right = k.right /\ inflight[j] # None}
    IN  IF pair = {} THEN None ELSE inflight[CHOOSE j \in pair : TRUE]
Flight(k) == inflight[k]

Join(r) ==
    /\ req[r].pc = "lookup"
    /\ Entry(req[r].key) = {}
    /\ Flight(req[r].key) # None
    /\ req' = [req EXCEPT ![r].pc = "wait", ![r].on = Flight(req[r].key)]
    /\ UNCHANGED <<entries, inflight, gone, cache>>

Lead(r) ==
    /\ req[r].pc = "lookup"
    /\ Entry(req[r].key) = {}
    /\ Flight(req[r].key) = None
    /\ inflight' = [inflight EXCEPT ![req[r].key] = r]
    /\ req' = [req EXCEPT ![r].pc = "load"]
    /\ UNCHANGED <<entries, gone, cache>>

\* The assembly runs on a detached context.  Mutant: on its leader's.
OwnContext(r) == r \in gone
Interrupted(r) == FALSE

\* squash: the layers still to be applied, left side first.  Mutant: one
\* layer count serves both sides.
OneCount(r) ==
    LET k == req[r].key
    IN  IF Len(req[r].left) < k.leftLayers THEN "left"
        ELSE IF Len(req[r].right) < k.leftLayers /\ Len(req[r].right) < Len(Stack[k.right])
        THEN "right" ELSE "none"
Pending(r) ==
    LET k == req[r].key
    IN  IF Len(req[r].left) < k.leftLayers THEN "left"
        ELSE IF Len(req[r].right) < k.rightLayers THEN "right" ELSE "none"

\* The image an error is attributed to.  Mutant: always the left one.
LeftImage(r) == req[r].key.left
Side(r) == IF Pending(r) = "left" THEN req[r].key.left ELSE req[r].key.right

NextLayer(r) ==
    IF Pending(r) = "left" THEN Stack[req[r].key.left][Len(req[r].left) + 1]
    ELSE Stack[req[r].key.right][Len(req[r].right) + 1]

\* LayerIndex finds the layer in its table ...
FindLayer(r) ==
    /\ req[r].pc = "load"
    /\ ~Interrupted(r)
    /\ Pending(r) # "none"
    /\ NextLayer(r) \in readable
    /\ req' = [req EXCEPT ![r].pc = "open"]
    /\ UNCHANGED <<entries, inflight, gone, cache>>

\* ... and opens the file, with no lock held; the index is applied.
LoadLayer(r) ==
    /\ req[r].pc = "open"
    /\ NextLayer(r) \in readable
    /\ req' = IF Pending(r) = "left"
              THEN [req EXCEPT ![r].pc = "load", ![r].left = Append(@, NextLayer(r))]
              ELSE [req EXCEPT ![r].pc = "load", ![r].right = Append(@, NextLayer(r))]
    /\ UNCHANGED <<entries, inflight, gone, cache>>

\* In between or before it was evicted, or it cannot be read.
LoadFails(r) ==
    /\ req[r].pc \in {"load", "open"}
    /\ Pending(r) # "none"
    /\ \E out \in {NotFound(Side(r)), Internal, Cancelled} :
        /\ out = NotFound(Side(r)) => NextLayer(r) \notin readable
        /\ out = Cancelled => Interrupted(r)
        /\ req' = [req EXCEPT ![r].pc = "publish", ![r].out = out]
    /\ UNCHANGED <<entries, inflight, gone, cache>>

\* Both sides are squashed: Diff merges them.
Diff(r) ==
    /\ req[r].pc = "load"
    /\ Pending(r) = "none"
    /\ req' = [req EXCEPT ![r].pc = "publish",
                          ![r].out = Found([key |-> req[r].key, left |-> req[r].left,
                                            right |-> req[r].right])]
    /\ UNCHANGED <<entries, inflight, gone, cache>>

\* insertLocked.
Inserted(cmp) ==
    IF Entry(cmp.key) # {} THEN Promoted(CHOOSE n \in Entry(cmp.key) : TRUE)
    ELSE SubSeq(<<cmp>> \o entries, 1, IF Len(entries) < Capacity THEN Len(entries) + 1 ELSE Capacity)

\* The key is no longer in flight.
Landed(r) == [inflight EXCEPT ![req[r].key] = None]

Publish(r) ==
    /\ req[r].pc = "publish"
    /\ inflight' = Landed(r)
    /\ entries' = IF req[r].out.kind = "found" THEN Inserted(req[r].out.cmp) ELSE entries
    /\ req' = [req EXCEPT ![r].pc = "close"]
    /\ UNCHANGED <<gone, cache>>

\* The result is set and done is closed.  Mutant: only a success closes it.
ClosedOnSuccess(r) == req[r].out.kind = "found"
Closed(r) == TRUE

Close(r) ==
    /\ req[r].pc = "close"
    /\ req' = [req EXCEPT ![r].pc = "answered", ![r].closed = Closed(r)]
    /\ UNCHANGED <<entries, inflight, gone, cache>>

\* A waiter's select: the assembly is done, or its own client has left.
Wake(r) ==
    /\ req[r].pc = "wait"
    /\ req[req[r].on].closed
    /\ req' = [req EXCEPT ![r].pc = "answered", ![r].on = None, ![r].out = req[req[r].on].out]
    /\ UNCHANGED <<entries, inflight, gone, cache>>

GiveUp(r) ==
    /\ req[r].pc = "wait"
    /\ r \in gone
    /\ req' = [req EXCEPT ![r].pc = "answered", ![r].on = None, ![r].out = Cancelled]
    /\ UNCHANGED <<entries, inflight, gone, cache>>

-------------------------------------------------------------------------------
(* The specification.                                                        *)

\* What the analysis cache does meanwhile.  A restart takes the server along.
CacheStep ==
    /\ \/ \E l \in Layer : Catalog!Store(l) \/ Catalog!Drop({l})
       \/ \E i \in Image : Catalog!Publish(i, "listed") \/ Catalog!Evict(i)
    /\ UNCHANGED <<entries, inflight, req, gone>>

HandlerStep(r) ==
    \/ \E k \in Key : req[r].key = k /\ \/ LoadImage(r, "left", k.left, "right")
                                        \/ LoadImage(r, "right", k.right, "lookup")
    \/ Hit(r) \/ Join(r) \/ Lead(r)
    \/ FindLayer(r) \/ LoadLayer(r) \/ LoadFails(r) \/ Diff(r) \/ Publish(r) \/ Close(r)
    \/ Wake(r) \/ GiveUp(r)

Next ==
    \/ \E r \in Request : \/ \E k \in Key : Arrive(r, k)
                          \/ Leave(r) \/ Leaves(r) \/ HandlerStep(r)
    \/ CacheStep

Spec == Init /\ [][Next]_vars

\* Goroutines are scheduled; every hold of mu is short and every read of a
\* layer file returns.
FairSpec == Spec /\ \A r \in Request : WF_vars(HandlerStep(r))

-------------------------------------------------------------------------------
(* Safety.                                                                   *)

Assembling(k) == {r \in Request : req[r].key = k /\ req[r].pc \in {"load", "open", "publish"}}

TypeOK ==
    /\ entries \in Seq(Built)
    /\ inflight \in [Key -> Request \cup {None}]
    /\ req \in [Request -> Handler]
    /\ gone \subseteq Request

\* The most expensive thing the server does is never done twice at once for a
\* key, nor for a key that is cached ("assembling it at most once even under
\* concurrent callers").
AssembledOnce ==
    \A k \in Key : \A r, s \in Assembling(k) : r = s /\ Entry(k) = {}

\* A key is in flight exactly while somebody assembles it: a failure is not
\* remembered, and the next request tries again.
FlightHasLeader == \A k \in Key : \A r \in Request : inflight[k] = r <=> r \in Assembling(k)

\* What is cached is bounded, without duplicates, and is the comparison of its
\* key: no eviction in the middle of an assembly leaves half a tree behind.
Whole(cmp) ==
    /\ cmp.left = SubSeq(Stack[cmp.key.left], 1, cmp.key.leftLayers)
    /\ cmp.right = SubSeq(Stack[cmp.key.right], 1, cmp.key.rightLayers)

EntriesSound ==
    /\ Len(entries) <= Capacity
    /\ \A m, n \in DOMAIN entries : entries[m].key = entries[n].key => m = n
    /\ \A n \in DOMAIN entries : Whole(entries[n])

\* A request that is answered with a comparison is answered with its own, be it
\* cached, assembled, or another request's.
AnswersMatch ==
    \A r \in Request : req[r].out # None /\ req[r].out.kind = "found" =>
        req[r].out.cmp.key = req[r].key /\ Whole(req[r].out.cmp)

\* One assembly serves every waiter: a client that leaves cancels nobody's
\* request but its own (get: WithoutCancel).
OnlyOwnClientCancels == \A r \in Request : req[r].out = Cancelled => r \in gone

\* A waiter waits for its own key, on an assembly that is under way or closed:
\* never on one that nobody will finish.
WaitersHaveLeaders ==
    \A r \in Request :
        /\ req[r].pc = "wait" =>
              /\ req[r].on \in Request
              /\ req[req[r].on].key = req[r].key
              /\ req[req[r].on].pc \in {"load", "open", "publish", "close"} \/ req[req[r].on].closed
        /\ req[r].pc # "wait" => req[r].on = None
        /\ req[r].closed => req[r].pc = "answered"

\* An assembly has an outcome from its end on, and it is not a cancellation.
OutcomesSet ==
    \A r \in Request :
        /\ req[r].pc \in {"publish", "close"} \/ req[r].closed => req[r].out \notin {None, Cancelled}
        /\ req[r].pc \in {"idle", "left", "right", "lookup", "wait", "load", "open"} => req[r].out = None

\* What an assembly has applied are the first layers of either side.
AppliedInOrder ==
    \A r \in Request : req[r].pc # "idle" =>
        LET k == req[r].key
        IN  /\ k \in Key
            /\ req[r].pc = "open" => Pending(r) # "none"
            /\ Len(req[r].left) <= k.leftLayers /\ Len(req[r].right) <= k.rightLayers
            /\ req[r].left = SubSeq(Stack[k.left], 1, Len(req[r].left))
            /\ req[r].right = SubSeq(Stack[k.right], 1, Len(req[r].right))

\* The inductive invariant.
IndInv ==
    /\ TypeOK
    /\ AssembledOnce
    /\ FlightHasLeader
    /\ EntriesSound
    /\ AnswersMatch
    /\ OnlyOwnClientCancels
    /\ WaitersHaveLeaders
    /\ OutcomesSet
    /\ AppliedInOrder

-------------------------------------------------------------------------------
(* Action properties.                                                        *)

\* The image an error envelope names is one the cache does not list at the
\* moment its lookup, a lookup of its layers or the opening of a file fails, and
\* never the other side of the comparison (imageError).
ErrorNamesEvicted ==
    [][\A r \in Request, i \in Image :
            req[r].pc \in {"left", "right", "load", "open"} /\ req'[r].out = NotFound(i) =>
                i \notin Catalog!Listed]_vars

-------------------------------------------------------------------------------
(* Liveness.                                                                 *)

\* Every request is answered, whatever its leader meets and whoever leaves.
RequestsAnswered == \A r \in Request : req[r].pc # "idle" ~> req[r].pc \in {"answered", "idle"}
===============================================================================
