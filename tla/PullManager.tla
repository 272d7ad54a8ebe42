------------------------------ MODULE PullManager ------------------------------
(***************************************************************************)
(* The lifecycle of every pull, internal/ingest/manager.go: submissions    *)
(* that join, record or launch a pull, the admission slots, the goroutine  *)
(* of each launched pull with the progress it reports, DELETE, the         *)
(* wall-clock deadline, and the bounded table of statuses.                 *)
(*                                                                         *)
(* One hold of Manager.mu, or of one pull's mu, is one action; consecutive *)
(* reports of one goroutine that no other step can tell apart are merged.  *)
(* Pull ids are random in the code; here they are allocated in order, so   *)
(* that Manager.order is the table in ascending order.                     *)
(***************************************************************************)
EXTENDS Integers, FiniteSets

CONSTANTS
    Id,           \* pull ids, in order of allocation
    Key,          \* "source|reference", the deduplication key
    DockerKey,    \* the keys whose source is docker
    Cacheable,    \* the keys whose reference a cached image may carry
    Caller,       \* HTTP requests in progress
    MaxInFlight,  \* admission limit
    MaxRetained,  \* maxRetainedPulls
    LayerCount,   \* layers of an image
    MaxMembers,   \* bound on the members of a docker save stream
    None

ASSUME IdAssumption == Id \subseteq Nat /\ IsFiniteSet(Id)
ASSUME KeyAssumption == DockerKey \subseteq Key /\ Cacheable \subseteq Key
ASSUME LimitAssumption ==
    /\ MaxInFlight \in Nat \ {0}
    /\ MaxRetained \in Nat \ {0}
    /\ LayerCount \in Nat \ {0}
    /\ MaxMembers \in Nat

VARIABLES
    \* the Manager, guarded by its mu
    table,     \* the ids of Manager.pulls and Manager.order
    byKey,     \* Manager.byKey
    inFlight,  \* Manager.inFlight
    \* the pull objects, each guarded by its own mu; a goroutine or a request
    \* keeps its object after the table has dropped it
    pull,
    \* control
    run,       \* the goroutine of a launched pull
    caller,    \* where a POST or DELETE stands
    \* environment
    cached     \* the keys whose reference a cached image carries now

vars == <<table, byKey, inFlight, pull, run, caller, cached>>

-------------------------------------------------------------------------------
(* Types.                                                                    *)

State == {"resolving", "running", "done", "failed", "cancelled"}

\* total = 0 stands for a nil layersTotal, current for currentLayer # nil,
\* image for a non-empty imageID; ctx is the run's context.
Pull == [key: Key, state: State, terminal: BOOLEAN,
         ctx: {"live", "cancelled", "expired"},
         total: {0, LayerCount}, done: Nat, current: BOOLEAN, image: BOOLEAN]

ASSUME NoPullAssumption == None \notin Id \cup Key \cup Pull

\* Where a run stands: resolve (Phase, Inspect), fetch (registry open, stored
\* image, manifest), totals (docker save about to start), stream (between two
\* layers), layer (inside one), commit, setImage, reset (fall back from the
\* registry shortcut), finish, release, exited.  read counts the blobs, or the
\* members of the save stream, it has come to.
RunPc == {"none", "resolve", "fetch", "totals", "stream", "layer", "commit",
          "setImage", "reset", "finish", "release", "exited"}
Run == [pc: RunPc, path: {"registry", "shortcut", "save"}, err: BOOLEAN, read: Nat]

\* A request: lookup, record, settle and admit belong to Start, mark and stop
\* to Cancel.
CallerPc == {"idle", "lookup", "record", "settle", "admit", "mark", "stop"}
Request == [pc: CallerPc, key: Key \cup {None}, id: Id \cup {None}]

NewPull(k) == [key |-> k, state |-> "resolving", terminal |-> FALSE, ctx |-> "live",
               total |-> 0, done |-> 0, current |-> FALSE, image |-> FALSE]
NoRun == [pc |-> "none", path |-> "registry", err |-> FALSE, read |-> 0]
Idle == [pc |-> "idle", key |-> None, id |-> None]

TypeOK ==
    /\ table \in SUBSET Id
    /\ byKey \in [Key -> Id \cup {None}]
    /\ inFlight \in Nat
    /\ pull \in [Id -> Pull \cup {None}]
    /\ run \in [Id -> Run]
    /\ caller \in [Caller -> Request]
    /\ cached \in SUBSET Cacheable

Init ==
    /\ table = {}
    /\ byKey = [k \in Key |-> None]
    /\ inFlight = 0
    /\ pull = [i \in Id |-> None]
    /\ run = [i \in Id |-> NoRun]
    /\ caller = [c \in Caller |-> Idle]
    /\ cached = {}

-------------------------------------------------------------------------------
(* The table.                                                                *)

Known == {i \in Id : pull[i] # None}
Terminal == {i \in Known : pull[i].terminal}

\* The goroutines that hold a slot.
Running == {i \in Id : run[i].pc \notin {"none", "exited"}}

\* An identical request is already in flight.
Covered(k) == byKey[k] \in table \ Terminal

\* The next id to be minted.
Fresh(i) == i \notin Known /\ \A j \in Id \ Known : i <= j

\* What evictLocked drops from T: the oldest terminal pulls, as many as are
\* over the cap; a live pull is never dropped.  Mutants: the oldest whatever
\* its state; nothing.
OldestOfAll(T) ==
    {i \in T \ {j \in T : \A m \in T : m <= j} :
        Cardinality({j \in T : j < i}) < Cardinality(T) - MaxRetained}
OldestNever(T) == {}
Oldest(T) ==
    {i \in T \cap Terminal :
        Cardinality({j \in T \cap Terminal : j < i}) < Cardinality(T) - MaxRetained}

\* evictLocked, over the table T and the index keys.
Trim(T, keys) ==
    /\ table' = T \ Oldest(T)
    /\ byKey' = [k \in Key |-> IF keys[k] \in Oldest(T) THEN None ELSE keys[k]]

\* newPullLocked.
Insert(i, k) ==
    /\ Fresh(i)
    /\ pull' = [pull EXCEPT ![i] = NewPull(k)]
    /\ Trim(table \cup {i}, [byKey EXCEPT ![k] = i])

-------------------------------------------------------------------------------
(* Start.                                                                    *)

Call(c, pc, k, i) == caller' = [caller EXCEPT ![c] = [pc |-> pc, key |-> k, id |-> i]]

\* Bound: an id is left for every submission under way.
Submitting == {c \in Caller : caller[c].pc \in {"lookup", "record", "admit"}}
IdsLeft == Cardinality(Submitting) < Cardinality(Id \ Known)

\* existing, first half: a submission that is covered joins and changes
\* nothing, any other goes on to look at the cache.
Submit(c, k) ==
    /\ caller[c].pc = "idle"
    /\ IdsLeft
    /\ ~Covered(k)
    /\ Call(c, "lookup", k, None)
    /\ UNCHANGED <<table, byKey, inFlight, pull, run, cached>>

\* cachedByRef, with no lock of the Manager held.
LookupCached(c) ==
    /\ caller[c].pc = "lookup"
    /\ Call(c, IF caller[c].key \in cached THEN "record" ELSE "admit", caller[c].key, None)
    /\ UNCHANGED <<table, byKey, inFlight, pull, run, cached>>

\* record: the entry is inserted, then, under its own mu, made a finished one.
Record(c, i) ==
    /\ caller[c].pc = "record"
    /\ Insert(i, caller[c].key)
    /\ Call(c, "settle", caller[c].key, i)
    /\ UNCHANGED <<inFlight, run, cached>>

Settle(c) ==
    /\ caller[c].pc = "settle"
    /\ pull' = [pull EXCEPT ![caller[c].id].state = "done",
                            ![caller[c].id].image = TRUE,
                            ![caller[c].id].terminal = TRUE]
    /\ caller' = [caller EXCEPT ![c] = Idle]
    /\ UNCHANGED <<table, byKey, inFlight, run, cached>>

\* admit and launch.  A covered submission joins, one over the limit is
\* refused: both only return.  Mutant: no second look at the index.
NeverJoins(k) == FALSE
Joins(k) == Covered(k)
Full == inFlight >= MaxInFlight

JoinOrRefuse(c) ==
    /\ caller[c].pc = "admit"
    /\ Joins(caller[c].key) \/ Full
    /\ caller' = [caller EXCEPT ![c] = Idle]
    /\ UNCHANGED <<table, byKey, inFlight, pull, run, cached>>

Launch(c, i) ==
    /\ caller[c].pc = "admit"
    /\ ~Joins(caller[c].key) /\ ~Full
    /\ inFlight' = inFlight + 1
    /\ Insert(i, caller[c].key)
    /\ run' = [run EXCEPT ![i].pc = "resolve"]
    /\ caller' = [caller EXCEPT ![c] = Idle]
    /\ UNCHANGED cached

-------------------------------------------------------------------------------
(* Cancel.                                                                   *)

Cancel(c, i) ==
    /\ caller[c].pc = "idle"
    /\ i \in table
    /\ Call(c, "mark", None, i)
    /\ UNCHANGED <<table, byKey, inFlight, pull, run, cached>>

\* markCancelled.
Marked(p) ==
    IF p.terminal THEN p
    ELSE [p EXCEPT !.state = "cancelled", !.terminal = TRUE, !.current = FALSE]

MarkCancelled(c) ==
    /\ caller[c].pc = "mark"
    /\ pull' = [pull EXCEPT ![caller[c].id] = Marked(@)]
    /\ caller' = [caller EXCEPT ![c].pc = "stop"]
    /\ UNCHANGED <<table, byKey, inFlight, run, cached>>

\* p.cancel(): the run's context, if there is a run and it is not over.
Stop(c) ==
    /\ caller[c].pc = "stop"
    /\ pull' = [pull EXCEPT ![caller[c].id].ctx =
                    IF @ = "live" /\ caller[c].id \in Running THEN "cancelled" ELSE @]
    /\ caller' = [caller EXCEPT ![c] = Idle]
    /\ UNCHANGED <<table, byKey, inFlight, run, cached>>

-------------------------------------------------------------------------------
(* A run, and what it reports.                                               *)

\* The run of i goes on at pc, having reported p.
Report(i, pc, p) ==
    /\ run' = [run EXCEPT ![i].pc = pc]
    /\ pull' = [pull EXCEPT ![i] = p]
    /\ UNCHANGED <<table, byKey, inFlight, caller, cached>>

\* Phase: ignored once the pull is terminal.
InPhase(p, state) == IF p.terminal THEN p ELSE [p EXCEPT !.state = state]

Totals(p) == [p EXCEPT !.total = LayerCount]

\* An error returns from the run, unless it came from the registry shortcut
\* and the context is live: then the run falls back to docker save.
Failed(i) ==
    IF run[i].path = "shortcut" /\ pull[i].ctx = "live"
    THEN [run EXCEPT ![i].pc = "reset"]
    ELSE [run EXCEPT ![i].pc = "finish", ![i].err = TRUE]

\* The stored image now carries the reference of i's pull.
Named(i) == cached' = cached \cup ({pull[i].key} \cap Cacheable)

\* How an image is to be had: a local one over the registry, when a RepoDigest
\* of it is allowlisted, or else as a docker save.
Paths(k) == IF k \in DockerKey THEN {"shortcut", "save"} ELSE {"registry"}

Resolve(i) ==
    /\ run[i].pc = "resolve"
    /\ pull' = [pull EXCEPT ![i] = InPhase(@, "resolving")]
    /\ \E path \in Paths(pull[i].key) :
        run' = [run EXCEPT ![i].pc = IF path = "save" THEN "totals" ELSE "fetch",
                           ![i].path = path]
    /\ UNCHANGED <<table, byKey, inFlight, caller, cached>>

\* Ingest finds the image in the store, upgrades its record and reports every
\* layer as skipped.
FetchKnown(i) ==
    /\ run[i].pc = "fetch"
    /\ run' = [run EXCEPT ![i].pc = "setImage"]
    /\ pull' = [pull EXCEPT ![i].total = LayerCount, ![i].done = @ + LayerCount,
                            ![i].current = FALSE]
    /\ Named(i)
    /\ UNCHANGED <<table, byKey, inFlight, caller>>

FetchManifest(i) ==
    /\ run[i].pc = "fetch"
    /\ Report(i, "stream", InPhase(Totals(pull[i]), "running"))

\* reset, then Totals and the downloading phase of the save stream.  Mutant:
\* the layers the shortcut counted stay counted.
ResetTotalOnly(p) == [p EXCEPT !.total = 0, !.current = FALSE]
ResetOf(p) == [p EXCEPT !.done = 0, !.total = 0, !.current = FALSE]

Reset(i) ==
    /\ run[i].pc = "reset"
    /\ run' = [run EXCEPT ![i].pc = "totals", ![i].path = "save", ![i].read = 0]
    /\ pull' = [pull EXCEPT ![i] = ResetOf(@)]
    /\ UNCHANGED <<table, byKey, inFlight, caller, cached>>

StartSave(i) ==
    /\ run[i].pc = "totals"
    /\ Report(i, "stream", InPhase(Totals(pull[i]), "running"))

\* Another layer, once the context is read: a blob of the manifest, or one of
\* the large members of a save stream, which may hold any number up to its cap
\* (the members that report nothing are left out).  Mutant: the position is
\* not advanced.
Another(i) ==
    /\ run[i].pc = "stream"
    /\ pull[i].ctx = "live"
    /\ run[i].read < IF run[i].path = "save" THEN MaxMembers ELSE LayerCount

CountNothing(i) == run[i].read
Counted(i) == run[i].read + 1

LayerStarted(p) == [p EXCEPT !.current = TRUE]

StartLayer(i) ==
    /\ Another(i)
    /\ run' = [run EXCEPT ![i].pc = "layer", ![i].read = Counted(i)]
    /\ pull' = [pull EXCEPT ![i] = LayerStarted(@)]
    /\ UNCHANGED <<table, byKey, inFlight, caller, cached>>

\* LayerFinished.  Mutant: a skipped layer is not counted.
FinishedUncounted(p) == [p EXCEPT !.current = FALSE]
Finished(p) == [p EXCEPT !.done = @ + 1, !.current = FALSE]

FinishLayer(i) ==
    /\ run[i].pc = "layer"
    /\ Report(i, "stream", Finished(pull[i]))

\* A save stream: a member that is no layer after all, or one that is known
\* and drained.
NotALayer(i) ==
    /\ run[i].pc = "layer"
    /\ run[i].path = "save"
    /\ pull[i].ctx = "live"
    /\ Report(i, "stream", pull[i])

DrainKnown(i) ==
    /\ Another(i)
    /\ run[i].path = "save"
    /\ run' = [run EXCEPT ![i].read = Counted(i)]
    /\ pull' = [pull EXCEPT ![i] = Finished(@)]
    /\ UNCHANGED <<table, byKey, inFlight, caller, cached>>

\* The manifest has no more layers; or the save stream, before whose end the
\* context is read, has ended, and its small layers are indexed out of memory
\* without a report.
EndStream(i) ==
    /\ run[i].pc = "stream"
    /\ IF run[i].path = "save" THEN pull[i].ctx = "live" ELSE run[i].read = LayerCount
    /\ Report(i, "commit", InPhase(pull[i], "running"))

\* The record is committed, then read back, which fails when it has been
\* evicted meanwhile.
Commit(i) ==
    /\ run[i].pc = "commit"
    /\ run' \in {[run EXCEPT ![i].pc = "setImage"], Failed(i)}
    /\ Named(i)
    /\ UNCHANGED <<table, byKey, inFlight, pull, caller>>

SetImage(i) ==
    /\ run[i].pc = "setImage"
    /\ Report(i, "finish", [pull[i] EXCEPT !.image = TRUE])

\* An upstream, the daemon, the stream, the cache, or the context fails it.
Error(i) ==
    /\ run[i].pc \in {"resolve", "fetch", "totals", "stream", "layer", "commit"}
    /\ run' = Failed(i)
    /\ UNCHANGED <<table, byKey, inFlight, pull, caller, cached>>

\* finish.  It says "cancelled" of a context.Canceled error under a live context,
\* too, but no run ends with one: what else is cancelled is the round trip of a
\* body, by the watchdog, which reads as ErrStalled.  Mutants: the deadline is
\* reported as a cancellation; a cancelled pull takes the outcome of its run.
OutcomeByContext(i) ==
    IF ~run[i].err THEN "done"
    ELSE IF pull[i].ctx # "live" THEN "cancelled" ELSE "failed"
Outcome(i) ==
    IF ~run[i].err THEN "done"
    ELSE IF pull[i].ctx = "cancelled" THEN "cancelled" ELSE "failed"

Overwritten(i) ==
    [pull[i] EXCEPT !.state = Outcome(i), !.terminal = TRUE, !.current = FALSE]
Ended(i) ==
    IF pull[i].terminal THEN pull[i]
    ELSE [pull[i] EXCEPT !.state = Outcome(i), !.terminal = TRUE, !.current = FALSE]

Finish(i) ==
    /\ run[i].pc = "finish"
    /\ Report(i, "release", Ended(i))

\* The deferred releaseSlot; the goroutine then only closes done.
ReleaseSlot(i) ==
    /\ run[i].pc = "release"
    /\ inFlight' = IF inFlight > 0 THEN inFlight - 1 ELSE inFlight
    /\ Trim(table, byKey)
    /\ run' = [run EXCEPT ![i].pc = "exited"]
    /\ UNCHANGED <<pull, caller, cached>>

-------------------------------------------------------------------------------
(* The environment: the deadline, and the cache as other work changes it.    *)

Expire(i) ==
    /\ i \in Running
    /\ pull[i].ctx = "live"
    /\ pull' = [pull EXCEPT ![i].ctx = "expired"]
    /\ UNCHANGED <<table, byKey, inFlight, run, caller, cached>>

CacheChanges(k) ==
    /\ cached' = IF k \in cached THEN cached \ {k} ELSE cached \cup {k}
    /\ UNCHANGED <<table, byKey, inFlight, pull, run, caller>>

-------------------------------------------------------------------------------
(* The specification.                                                        *)

CallerStep(c) ==
    \/ \E k \in Key : Submit(c, k)
    \/ LookupCached(c) \/ Settle(c) \/ JoinOrRefuse(c)
    \/ \E i \in Id : Record(c, i) \/ Launch(c, i) \/ Cancel(c, i)
    \/ MarkCancelled(c) \/ Stop(c)

RunStep(i) ==
    \/ Resolve(i) \/ FetchKnown(i) \/ FetchManifest(i) \/ Reset(i) \/ StartSave(i)
    \/ StartLayer(i) \/ FinishLayer(i) \/ NotALayer(i) \/ DrainKnown(i)
    \/ EndStream(i) \/ Commit(i) \/ SetImage(i)
    \/ Error(i) \/ Finish(i) \/ ReleaseSlot(i)

Next ==
    \/ \E c \in Caller : CallerStep(c)
    \/ \E i \in Id : RunStep(i)
    \/ \E i \in Id : Expire(i)
    \/ \E k \in Cacheable : CacheChanges(k)

Spec == Init /\ [][Next]_vars

\* Goroutines are scheduled, and no step of a run waits for another process
\* for ever: the deadline of pullContext interrupts whatever it reads.
FairSpec == Spec /\ \A i \in Id : WF_vars(RunStep(i))
-------------------------------------------------------------------------------
(* Safety.                                                                   *)

\* Pulls whose goroutine was launched; the others are record's.
Launched == {i \in Known : run[i].pc # "none"}

\* The admission count is the number of goroutines that have not given their
\* slot back, and it never passes the limit -- whatever DELETE, the deadline
\* and retries do to the pulls (admit, the deferred releaseSlot).
SlotsMatchRuns == inFlight = Cardinality(Running) /\ inFlight <= MaxInFlight

\* A pull that is not over can be polled and cancelled: evictLocked never
\* drops it, so no run goes on where DELETE cannot reach it.
LivePullsListed == Known \ Terminal \subseteq table

\* The index names pulls of the table, each under its own key: a submission
\* never joins a pull that was dropped, nor one of another reference.
KeysPointIntoTable ==
    \A k \in Key : byKey[k] # None => byKey[k] \in table /\ pull[byKey[k]].key = k

\* As long as no cached image answers for a key, identical submissions share
\* one live pull (admit: "join an identical in-flight pull, take an admission
\* slot, or be refused").
UncachedKeysHaveOnePull ==
    \A i, j \in Launched \ Terminal :
        pull[i].key = pull[j].key /\ pull[i].key \notin Cacheable => i = j

\* Over the retention cap, the table holds live pulls, pulls whose run has yet
\* to give its slot back and trim, and record's, which wait for the next insert
\* (evictLocked: "the cap yields rather than cancelling live work").
TableTrimmed ==
    Cardinality(table) > MaxRetained =>
        \A i \in table \cap Terminal : i \in Running \/ run[i].pc = "none"

\* What GET /pulls/{id} answers of a pull (snapshot).
Snapshot(i) ==
    [state |-> pull[i].state, layersTotal |-> pull[i].total, layersDone |-> pull[i].done,
     currentLayer |-> pull[i].current, imageId |-> pull[i].image]

\* A pull reported done is over and shows its image, and one that came from
\* the registry counts all of its layers.
DoneIsComplete ==
    \A i \in Launched : LET status == Snapshot(i) IN
        status.state = "done" =>
            /\ pull[i].terminal /\ status.imageId /\ ~status.currentLayer
            /\ run[i].path # "save" => status.layersDone = status.layersTotal

\* A registry pull never counts more layers than its manifest has, and a docker
\* save counts the members of its own stream only: what a failed registry
\* shortcut had counted is forgotten (reset).
LayersCountedOnce ==
    \A i \in Launched \ {j \in Id : run[j].pc = "reset"} :
        LET status == Snapshot(i)
        IN  status.layersDone <= IF run[i].path = "save" THEN run[i].read ELSE status.layersTotal

\* A request is inside record only for a reference a cached image may carry,
\* and what it inserted has no run.
RequestsHoldPulls ==
    \A c \in Caller :
        /\ caller[c].pc \in {"lookup", "record", "settle", "admit"} => caller[c].key \in Key
        /\ caller[c].pc \in {"record", "settle"} => caller[c].key \in Cacheable
        /\ caller[c].pc \in {"settle", "mark", "stop"} => caller[c].id \in Known
        /\ caller[c].pc = "settle" => run[caller[c].id].pc = "none"
        /\ caller[c].pc = "stop" => caller[c].id \in Terminal

\* A run has a pull; it reports the end before it gives back its slot; only a
\* DELETE that has marked the pull cancels its context.
RunsHavePulls ==
    \A i \in Id :
        /\ i \notin Known => run[i].pc = "none" /\ i \notin table
        /\ run[i].pc \in {"release", "exited"} => i \in Terminal
        /\ i \in Launched /\ pull[i].ctx = "cancelled" => i \in Terminal

\* The live pull of an uncached key is the one the index names.
IndexCoversLive ==
    \A i \in Launched \ Terminal : pull[i].key \notin Cacheable => byKey[pull[i].key] = i

\* The inductive invariant of the proofs.
IndInv ==
    /\ TypeOK
    /\ SlotsMatchRuns
    /\ LivePullsListed
    /\ KeysPointIntoTable
    /\ RequestsHoldPulls
    /\ RunsHavePulls
    /\ IndexCoversLive

\* Identical live pulls are never run twice (existing: "an identical request
\* that is already in flight ... returns the pull that covers it").
OneLivePullPerKey ==
    \A i, j \in Launched \ Terminal : pull[i].key = pull[j].key => i = j

-------------------------------------------------------------------------------
(* Action properties.                                                        *)

\* The outcome of a launched pull is final: a late run does not overwrite a
\* DELETE, nor a late DELETE an outcome (finish, markCancelled).
OutcomeIsFinal ==
    [][\A i \in Terminal \cap Launched :
            pull'[i].terminal /\ pull'[i].state = pull[i].state]_vars

\* "Cancelled" is said only of a pull somebody asked to cancel; the deadline
\* is a failure (finish).
OnlyDeleteCancels ==
    [][\A i \in Known : pull[i].state # "cancelled" /\ pull'[i].state = "cancelled" =>
            \E c \in Caller : caller[c].pc = "mark" /\ caller[c].id = i]_vars

-------------------------------------------------------------------------------
(* Liveness.                                                                 *)

\* Every launched pull comes to an end and gives its slot back, cancelled,
\* timed out, failed or fallen back as it may be.
RunsEnd == \A i \in Id : i \in Running ~> run[i].pc = "exited" /\ i \in Terminal
===============================================================================
