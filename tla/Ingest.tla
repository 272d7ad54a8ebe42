-------------------------------- MODULE Ingest --------------------------------
(***************************************************************************)
(* The two ways into the analysis cache, internal/ingest, side by side:    *)
(* Ingester.Ingest, which fetches the layers of an image one by one        *)
(* through the stall guard, and IngestDockerSave, which meets the members  *)
(* of a save stream in whatever order they come.  Either holds what it     *)
(* counts on by its transaction; beside them other ingests store, evict    *)
(* and drop.  The analysis cache is its catalog, ImageCatalog, with the    *)
(* layers its open transactions name kept.                                 *)
(***************************************************************************)
EXTENDS StallGuard, SequencesExt

CONSTANTS
    Image, Layer,
    Saved, Pulled,   \* the image in the save stream, and the registry's
    Elsewhere,       \* the layers that other ingests bring, too
    DiffIds,         \* the layers of an image, as its config declares them
    Metadata,        \* the members that name the image: index, manifest, config
    Blob,            \* the other members of the save stream
    Holds,           \* the layer a blob holds, or None
    ManifestLayers,  \* the blobs of the saved image, as its manifest lists them
    Large,           \* blobs past maxSmallMember: these are not buffered
    MaxSaveMembers,
    MaxSmall         \* maxSmallTotal, in members

ASSUME ImagesAssumption ==
    /\ {Saved, Pulled} \subseteq Image
    /\ DiffIds \in [Image -> Seq(Layer)]
    /\ Elsewhere \subseteq Layer /\ None \notin Layer
ASSUME StreamAssumption ==
    /\ Metadata \cap Blob = {}
    /\ Holds \in [Blob -> Layer \cup {None}]
    /\ ManifestLayers \in Seq(Blob)
    /\ Large \subseteq Blob
    /\ MaxSaveMembers \in Nat /\ MaxSmall \in Nat

VARIABLES
    status, readable,  \* the analysis cache
    uses,              \* the layers each of the two transactions counts on
    save,              \* IngestDockerSave and its saveParser
    pull               \* Ingest

cache == <<status, readable>>
vars == <<status, readable, uses, save, pull, guard>>

LayersOf == [i \in Image |-> ToSet(DiffIds[i])]
Catalog == INSTANCE ImageCatalog
Txn == {"save", "pull"}

-------------------------------------------------------------------------------
(* Types.                                                                    *)

\* Why an ingest failed; "fault" is the context, the network, the daemon or
\* the cache refusing.
Cause == {"fault", "tooLarge", "noTarget", "missing", "mismatch", "vanished", "evicted", "stalled"}
Why == Cause \cup {None}

ASSUME NoCauseAssumption == None \notin Cause

\* seen is every member the stream has brought, small its share that is
\* buffered, known the latched target.
Save == [pc: {"idle", "next", "large", "put", "reconcile", "index", "commit", "stored", "done", "failed"},
         seen: SUBSET (Metadata \cup Blob), members: 0..MaxSaveMembers + 1, small: 0..MaxSmall,
         member: Blob \cup {None}, known: BOOLEAN, indexed: SUBSET Layer, at: Nat,
         layersIndexed: Nat, layersSkipped: Nat, why: Why]
Pull == [pc: {"idle", "use", "open", "read", "close", "put", "again", "stored", "done", "failed"},
         at: Nat, why: Why]

TypeOK ==
    /\ status \in [Image -> Catalog!Status] /\ readable \subseteq Layer
    /\ uses \in [Txn -> SUBSET Layer]
    /\ save \in Save
    /\ pull \in Pull
    /\ GuardOK

NoSave == [pc |-> "idle", seen |-> {}, members |-> 0, small |-> 0, member |-> None,
           known |-> FALSE, indexed |-> {}, at |-> 1,
           layersIndexed |-> 0, layersSkipped |-> 0, why |-> None]
NoPull == [pc |-> "idle", at |-> 1, why |-> None]

Init ==
    /\ Catalog!Init
    /\ uses = [t \in Txn |-> {}]
    /\ save = NoSave
    /\ pull = NoPull
    /\ GuardInit

-------------------------------------------------------------------------------
(* The transaction, as an ingest sees it.                                    *)

\* UseLayer and PutLayer keep the layer from then on.  Mutant: UseLayer only
\* says that it is there.
UsesNothing(t, l) == uses
Uses(t, l) == [uses EXCEPT ![t] = @ \cup {l}]

UseLayer(t, l) ==
    /\ l \in readable
    /\ uses' = Uses(t, l)
    /\ UNCHANGED cache

PutLayer(t, l) ==
    /\ Catalog!Store(l)
    /\ uses' = [uses EXCEPT ![t] = @ \cup {l}]

Ended(t) == [uses EXCEPT ![t] = {}]

-------------------------------------------------------------------------------
(* IngestDockerSave.                                                         *)

\* The parser goes; what it had seen is kept for the properties.
SaveFails(why) ==
    /\ save' = [NoSave EXCEPT !.pc = "failed", !.why = why, !.seen = save.seen]
    /\ uses' = Ended("save")
    /\ UNCHANGED <<cache, pull, guard>>

SaveBegin ==
    /\ save.pc = "idle"
    /\ save' = [save EXCEPT !.pc = "next"]
    /\ UNCHANGED <<cache, uses, pull, guard>>

\* resolveTarget over what is buffered.
Resolves(seen) == Metadata \subseteq seen

\* A member is counted before it is looked at; one that is no regular file is
\* passed over.
Counted == save.members + 1
TooMany == save.pc = "next" /\ Counted > MaxSaveMembers /\ SaveFails("tooLarge")
Passed ==
    /\ save.pc = "next"
    /\ Counted <= MaxSaveMembers
    /\ save' = [save EXCEPT !.members = Counted]
    /\ UNCHANGED <<cache, uses, pull, guard>>

\* buffer: the small members have one budget.  Mutant: it is looked at when it
\* has been passed.
SmallPassed == save.small > MaxSmall
SmallFull == save.small = MaxSmall

Buffer(m) ==
    /\ save.pc = "next"
    /\ Counted <= MaxSaveMembers
    /\ m \notin Large
    /\ IF SmallFull THEN SaveFails("tooLarge")
       ELSE /\ save' = [save EXCEPT !.seen = @ \cup {m}, !.members = Counted, !.small = @ + 1,
                                    !.known = @ \/ Resolves(save.seen \cup {m})]
            /\ UNCHANGED <<cache, uses, pull, guard>>

\* diffIDForManifestLayer: the layer the config declares where the manifest
\* first lists this blob.
Declared(b) ==
    LET at == {n \in DOMAIN ManifestLayers : ManifestLayers[n] = b}
        n == CHOOSE m \in at : \A k \in at : m <= k
    IN  IF at = {} \/ n > Len(DiffIds[Saved]) THEN None ELSE DiffIds[Saved][n]
Known(b) == save.known /\ Declared(b) \in readable

\* streamLayer: drained, because its layer is there ...  Mutant: the pass does
\* not note that it has dealt with it.
DrainedUnnoted(s, b) ==
    [s EXCEPT !.seen = @ \cup {b}, !.members = Counted, !.layersSkipped = @ + 1]
Drained(s, b) ==
    [s EXCEPT !.seen = @ \cup {b}, !.members = Counted, !.layersSkipped = @ + 1,
              !.indexed = @ \cup {Declared(b)}]

Drain(b) ==
    /\ save.pc = "next"
    /\ Counted <= MaxSaveMembers
    /\ b \in Large
    /\ Known(b)
    /\ UseLayer("save", Declared(b))
    /\ save' = Drained(save, b)
    /\ UNCHANGED <<pull, guard>>

\* ... or indexed as what it turns out to be ...
Stream(b) ==
    /\ save.pc = "next"
    /\ Counted <= MaxSaveMembers
    /\ b \in Large
    /\ ~Known(b)
    /\ save' = [save EXCEPT !.pc = "large", !.seen = @ \cup {b}, !.members = Counted, !.member = b]
    /\ UNCHANGED <<cache, uses, pull, guard>>

\* ... which may be no layer: a warning.
NotALayer ==
    /\ save.pc = "large"
    /\ Holds[save.member] = None
    /\ save' = [save EXCEPT !.pc = "next", !.member = None]
    /\ UNCHANGED <<cache, uses, pull, guard>>

PutStreamed ==
    /\ save.pc = "large"
    /\ Holds[save.member] # None
    /\ PutLayer("save", Holds[save.member])
    /\ save' = [save EXCEPT !.pc = "next", !.member = None, !.layersIndexed = @ + 1,
                            !.indexed = @ \cup {Holds[save.member]}]
    /\ UNCHANGED <<pull, guard>>

\* The stream ends.
EndOfStream ==
    /\ save.pc = "next"
    /\ IF Resolves(save.seen)
       THEN save' = [save EXCEPT !.pc = "reconcile"] /\ UNCHANGED <<cache, uses, pull, guard>>
       ELSE SaveFails("noTarget")

\* reconcile: one declared layer after the other.
Wanted == DiffIds[Saved][save.at]
Advanced(s) == [s EXCEPT !.pc = "reconcile", !.at = @ + 1]

Reconcile ==
    /\ save.pc = "reconcile"
    /\ save.at <= Len(DiffIds[Saved])
    /\ UseLayer("save", Wanted)
    /\ save' = Advanced(IF Wanted \in save.indexed THEN save
                        ELSE [save EXCEPT !.layersSkipped = @ + 1])
    /\ UNCHANGED <<pull, guard>>

\* indexBuffered: the manifest's layer at this position, if it was small
\* enough to be buffered.
NotThere ==
    /\ save.pc = "reconcile"
    /\ save.at <= Len(DiffIds[Saved])
    /\ Wanted \notin readable
    /\ IF save.at > Len(ManifestLayers) \/ ManifestLayers[save.at] \notin save.seen \ Large
       THEN SaveFails("missing")
       ELSE IF Holds[ManifestLayers[save.at]] # Wanted THEN SaveFails("mismatch")
       ELSE save' = [save EXCEPT !.pc = "put"] /\ UNCHANGED <<cache, uses, pull, guard>>

PutBuffered ==
    /\ save.pc = "put"
    /\ PutLayer("save", Wanted)
    /\ save' = [save EXCEPT !.pc = "index"]
    /\ UNCHANGED <<pull, guard>>

UseBuffered ==
    /\ save.pc = "index"
    /\ IF Wanted \in readable
       THEN /\ UseLayer("save", Wanted)
            /\ save' = [Advanced(save) EXCEPT !.layersIndexed = @ + 1]
            /\ UNCHANGED <<pull, guard>>
       ELSE SaveFails("vanished")

Reconciled ==
    /\ save.pc = "reconcile"
    /\ save.at > Len(DiffIds[Saved])
    /\ save' = [save EXCEPT !.pc = "commit"]
    /\ UNCHANGED <<cache, uses, pull, guard>>

\* Txn.Commit: the layers of the record are there, or it fails.
SaveCommit ==
    /\ save.pc = "commit"
    /\ IF LayersOf[Saved] \subseteq readable
       THEN /\ Catalog!Publish(Saved, "listed")
            /\ save' = [save EXCEPT !.pc = "stored"]
            /\ uses' = Ended("save")
            /\ UNCHANGED <<pull, guard>>
       ELSE SaveFails("vanished")

\* The record is read back, after the transaction.
SaveReadBack ==
    /\ save.pc = "stored"
    /\ IF Saved \in Catalog!Listed
       THEN save' = [save EXCEPT !.pc = "done"] /\ UNCHANGED <<cache, uses, pull, guard>>
       ELSE SaveFails("evicted")

SaveFault == save.pc \notin {"idle", "done", "failed"} /\ SaveFails("fault")

SaveStep ==
    \/ TooMany \/ Passed
    \/ \E m \in Metadata \cup (Blob \ Large) : Buffer(m)
    \/ \E b \in Blob : Drain(b) \/ Stream(b)
    \/ NotALayer \/ PutStreamed \/ EndOfStream
    \/ Reconcile \/ NotThere \/ PutBuffered \/ UseBuffered \/ Reconciled
    \/ SaveCommit \/ SaveReadBack

-------------------------------------------------------------------------------
(* Ingester.Ingest, of an image in a registry.                               *)

PullMoves(pc) == pull' = [pull EXCEPT !.pc = pc]
PullFails(why) ==
    /\ pull' = [NoPull EXCEPT !.pc = "failed", !.why = why]
    /\ uses' = Ended("pull")
    /\ UNCHANGED <<cache, save>>

\* An image that is there is not analysed again: its provenance is upgraded.
PullBegin ==
    /\ pull.pc = "idle"
    /\ PullMoves(IF Pulled \in Catalog!Listed THEN "stored" ELSE "use")
    /\ UNCHANGED <<cache, uses, save, guard>>

Fetched == DiffIds[Pulled][pull.at]

\* indexOne: a layer that is there costs nothing, another is read.
PullUse ==
    /\ pull.pc = "use"
    /\ pull.at <= Len(DiffIds[Pulled])
    /\ UseLayer("pull", Fetched)
    /\ pull' = [pull EXCEPT !.at = @ + 1]
    /\ UNCHANGED <<save, guard>>

PullOpen ==
    /\ pull.pc = "use"
    /\ pull.at <= Len(DiffIds[Pulled])
    /\ Fetched \notin readable
    /\ Open
    /\ PullMoves("read")
    /\ UNCHANGED <<cache, uses, save>>

\* IndexLayer has read to the end, or gives up on what it has read: the body is
\* closed either way.
PullClose ==
    /\ pull.pc = "read"
    /\ Close
    /\ PullMoves("close")
    /\ UNCHANGED <<cache, uses, save>>
PullEnds == reader.pc = "over" /\ PullClose
PullGivesUp == reader.pc = "ready" /\ PullClose

\* The declared DiffID settles whether it was the layer.
PullIndexed ==
    /\ pull.pc = "close"
    /\ IF reader.end = "eof" /\ read = BodySize
       THEN PullMoves("put") /\ UNCHANGED <<cache, uses, save>>
       ELSE PullFails(IF reader.end = "stalled" THEN "stalled"
                      ELSE IF reader.end = "eof" THEN "mismatch" ELSE "fault")
    /\ Discard

PullPut ==
    /\ pull.pc = "put"
    /\ PutLayer("pull", Fetched)
    /\ PullMoves("again")
    /\ UNCHANGED <<save, guard>>

PullAgain ==
    /\ pull.pc = "again"
    /\ IF Fetched \in readable
       THEN /\ UseLayer("pull", Fetched)
            /\ pull' = [pull EXCEPT !.pc = "use", !.at = @ + 1]
            /\ UNCHANGED save
       ELSE PullFails("vanished")
    /\ UNCHANGED guard

PullCommit ==
    /\ pull.pc = "use"
    /\ pull.at > Len(DiffIds[Pulled])
    /\ IF LayersOf[Pulled] \subseteq readable
       THEN /\ Catalog!Publish(Pulled, "listed")
            /\ PullMoves("stored")
            /\ uses' = Ended("pull")
            /\ UNCHANGED save
       ELSE PullFails("vanished")
    /\ UNCHANGED guard

\* Ingest reads the record back; UpgradeProvenance needs it, too.
PullReadBack ==
    /\ pull.pc = "stored"
    /\ IF Pulled \in Catalog!Listed
       THEN PullMoves("done") /\ UNCHANGED <<cache, uses, save>>
       ELSE PullFails("evicted")
    /\ UNCHANGED guard

\* The context between two layers, or the cache refusing a layer or the record.
PullFault ==
    /\ pull.pc \in {"use", "put", "stored"}
    /\ PullFails("fault")
    /\ UNCHANGED guard

PullStep ==
    \/ PullBegin \/ PullUse \/ PullOpen \/ PullEnds \/ PullIndexed
    \/ PullPut \/ PullAgain \/ PullCommit \/ PullReadBack

-------------------------------------------------------------------------------
(* The specification.                                                        *)

\* The other ingests: they store, and evict what no transaction counts on.
CacheStep ==
    /\ \/ \E l \in Elsewhere : Catalog!Store(l)
       \/ \E l \in Layer : (\A t \in Txn : l \notin uses[t]) /\ Catalog!Drop({l})
       \/ \E i \in Image : Catalog!Evict(i)
    /\ UNCHANGED <<uses, save, pull, guard>>

BodyStep == GuardStep /\ UNCHANGED <<cache, uses, save, pull>>

Next ==
    \/ SaveBegin \/ SaveStep \/ SaveFault
    \/ PullStep \/ PullGivesUp \/ PullFault
    \/ BodyStep
    \/ CacheStep

Spec == Init /\ [][Next]_vars

\* Both ingests are scheduled, and so is the watchdog: its ticker fires.  The
\* daemon's stream goes on or ends; nothing obliges a registry to send.
FairSpec ==
    /\ Spec
    /\ WF_vars(SaveStep) /\ WF_vars(PullStep)
    /\ WF_vars(ReaderStep /\ UNCHANGED <<cache, uses, save, pull>>)
    /\ WF_vars(WatchdogStep /\ UNCHANGED <<cache, uses, save, pull>>)

-------------------------------------------------------------------------------
(* What the two ingests promise.                                             *)

\* An ingest fails only for a cause of its own: whatever else the cache takes
\* in and throws out, a layer this pass has drained, indexed or found is there
\* when the record names it.  Only an image evicted before it was read back is
\* reported as a failure although all went well.
Arrived(n) == n \in DOMAIN ManifestLayers /\ ManifestLayers[n] \in save.seen
Wrong(n) == n \in DOMAIN ManifestLayers /\ Holds[ManifestLayers[n]] # DiffIds[Saved][n]
FailsForCause ==
    /\ save.why # "vanished" /\ pull.why # "vanished"
    /\ save.why = "noTarget" => ~(Metadata \subseteq save.seen)
    /\ save.why \in {"missing", "mismatch"} =>
            \E n \in DOMAIN DiffIds[Saved] : ~Arrived(n) \/ Wrong(n)

\* What a finished save reports, if no member and no declared layer repeats: each
\* declared layer once, as indexed or as skipped, and beside those the layers of
\* other images it came across.
Strangers == {b \in save.seen \cap Large : Holds[b] # None /\ Holds[b] \notin LayersOf[Saved]}
CountsAddUp ==
    /\ save.pc = "done"
    /\ save.members = Cardinality(save.seen)
    /\ Len(DiffIds[Saved]) = Cardinality(LayersOf[Saved])
    =>
        save.layersIndexed + save.layersSkipped = Len(DiffIds[Saved]) + Cardinality(Strangers)

\* Every ingest that has begun ends, though the registry may never send another
\* byte: the watchdog sees to it.
IngestsEnd ==
    /\ save.pc # "idle" ~> save.pc \in {"done", "failed"}
    /\ pull.pc # "idle" ~> pull.pc \in {"done", "failed"}
===============================================================================
