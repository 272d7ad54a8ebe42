------------------------------ MODULE CacheStore ------------------------------
(***************************************************************************)
(* The on-disk analysis cache, internal/cachestore: ingest transactions    *)
(* that put layers and commit image records, the byte budget with its LRU  *)
(* eviction, the two in-place record rewrites (Touch, UpgradeProvenance),  *)
(* process crashes, and the sweep Open runs afterwards.                    *)
(*                                                                         *)
(* A DiffID determines its index and an image id (a config digest) the     *)
(* layers it names, so both are constants.  Everything done under one hold *)
(* of Store.mu without touching the disk is one action; every rename, and  *)
(* every image the eviction loop removes while it holds mu, is an action   *)
(* of its own, because a crash or another goroutine can come between.      *)
(***************************************************************************)
EXTENDS Integers, FiniteSetsExt

CONSTANTS
    Image,         \* image ids, compared as LRU tie-breaks: naturals
    Layer,         \* DiffIDs
    Ref,           \* display references a record can carry
    Txn,           \* goroutines that run an ingest, one transaction at a time
    Writer,        \* goroutines inside Touch or UpgradeProvenance
    LayersOf,      \* the layers an image's record names
    Stray,         \* layers a save stream may bring whatever image it is for
    LayerSize,     \* index bytes plus sidecar bytes of a layer
    RecordBase,    \* size of a record file that carries no reference
    MaxBytes,      \* --cache-max-bytes
    PinnedIngest,  \* images whose ingest may ask for Pinned (the fixtures)
    Debounce,      \* Touch debounce interval
    IoFaults,      \* whether a rename or a directory sync may fail
    MaxTime,       \* bound: how far the clock runs
    MaxCrashes,    \* bound: how often the process dies
    None           \* no entry, no file, no holder

\* What the store keeps: a record, its table entry, its file.
Record == [pinned: BOOLEAN, refs: SUBSET Ref, used: Nat]
Entry == [rec: Record, bytes: Nat]
File == [rec: Record, size: Nat, whole: BOOLEAN]

ASSUME ImageAssumption == Image \subseteq Nat
ASSUME LayersOfAssumption == LayersOf \in [Image -> SUBSET Layer]
ASSUME SizeAssumption ==
    /\ LayerSize \in [Layer -> Nat \ {0}]
    /\ RecordBase \in Nat \ {0}
    /\ MaxBytes \in Nat
    /\ Stray \subseteq Layer
    /\ IsFiniteSet(Ref)
\* Digests have a fixed length, and a process runs finitely many goroutines.
ASSUME FiniteAssumption == IsFiniteSet(Image) /\ IsFiniteSet(Layer) /\ IsFiniteSet(Txn)
ASSUME NoneAssumption == None \notin Image \cup Layer \cup Txn \cup Entry \cup File
ASSUME BoundAssumption ==
    /\ PinnedIngest \subseteq Image
    /\ Debounce \in Nat /\ MaxTime \in Nat /\ MaxCrashes \in Nat
    /\ IoFaults \in BOOLEAN

VARIABLES
    \* memory of the Store
    up,         \* the process holds the data directory and has swept it
    layers,     \* Store.layers: the layers a lookup finds
    images,     \* Store.images: the image entries a lookup finds
    accounted,  \* Store.accounted
    mu,         \* the transaction inside reserve's eviction loop, holding mu
    victim,     \* the image that loop removed, its layers not dropped yet
    txn,        \* ingest transactions, one per goroutine
    writer,     \* record rewrites in progress
    \* the data directory
    layerDir,   \* layers/<hex>: absent, index renamed in, or complete
    recFile,    \* images/<hex>.json
    tmpFile,    \* staging/<hex>.json.tmp, which every rewrite of an id shares
    \* environment
    now, crashes

memory == <<up, layers, images, accounted, mu, victim, txn, writer>>
disk == <<layerDir, recFile, tmpFile>>
vars == <<memory, disk, now, crashes>>

-------------------------------------------------------------------------------
(* Types.  txn[t].pc is where the ingest goroutine stands:                   *)
(*   open        between calls                                               *)
(*   putReserve  PutLayer staged the index and sidecar, asks for the bytes   *)
(*   putIndex, putDoc   the next rename of commitLayer                       *)
(*   putInstall  both renamed, the table entry still to be installed         *)
(*   recReserve, recRename, recInstall   the same three points of Commit     *)
(*   failed      a call returned an error, Abort is next                     *)
(*   committed   Commit installed the record, finish is next                 *)

NewRecord == [pinned |-> FALSE, refs |-> {}, used |-> 0]
Size(rec) == RecordBase + Cardinality(rec.refs)
\* Mutant of Written: the bytes are renamed into place before they are flushed.
WrittenUnflushed(rec) == [rec |-> rec, size |-> Size(rec), whole |-> FALSE]
Written(rec) == [rec |-> rec, size |-> Size(rec), whole |-> TRUE]
Truncated == [rec |-> NewRecord, size |-> 0, whole |-> FALSE]

PutPc == {"putReserve", "putIndex", "putDoc", "putInstall"}
RecPc == {"recReserve", "recRename", "recInstall"}
WriterPc == {"idle", "stage", "write", "rename", "account"}
TxnPc == {"idle", "open", "failed", "committed"} \cup PutPc \cup RecPc

IdleTxn == [pc |-> "idle", image |-> None, layer |-> None, deps |-> {},
            own |-> 0, rec |-> NewRecord]
OpenTxn(i) == [pc |-> "open", image |-> i, layer |-> None, deps |-> {},
               own |-> 0, rec |-> NewRecord]
IdleWriter == [pc |-> "idle", image |-> None, rec |-> NewRecord,
               fd |-> "gone", size |-> 0]
Rewrite(i, rec) == [pc |-> "stage", image |-> i, rec |-> rec,
                    fd |-> "gone", size |-> 0]

Transaction == [pc: TxnPc, image: Image \cup {None}, layer: Layer \cup {None},
                deps: SUBSET Layer, own: Int, rec: Record]
RecordRewrite == [pc: WriterPc, image: Image \cup {None}, rec: Record,
                  fd: {"tmp", "final", "gone"}, size: Nat]

\* Everything but the byte counter and the bounds.
TablesOK ==
    /\ up \in BOOLEAN
    /\ layers \in SUBSET Layer
    /\ images \in [Image -> Entry \cup {None}]
    /\ mu \in Txn \cup {None}
    /\ victim \in Image \cup {None}
    /\ txn \in [Txn -> Transaction]
    /\ writer \in [Writer -> RecordRewrite]
    /\ layerDir \in [Layer -> {"none", "index", "full"}]
    /\ recFile \in [Image -> File \cup {None}]
    /\ tmpFile \in [Image -> File \cup {None}]
    /\ now \in Nat

Init ==
    /\ up = TRUE
    /\ layers = {}
    /\ images = [i \in Image |-> None]
    /\ accounted = 0
    /\ mu = None
    /\ victim = None
    /\ txn = [t \in Txn |-> IdleTxn]
    /\ writer = [w \in Writer |-> IdleWriter]
    /\ layerDir = [l \in Layer |-> "none"]
    /\ recFile = [i \in Image |-> None]
    /\ tmpFile = [i \in Image |-> None]
    /\ now = 0
    /\ crashes = 0

-------------------------------------------------------------------------------
(* What the tables say.                                                      *)

LayerBytes(S) == MapThenSumSet(LAMBDA l : LayerSize[l], S)
EntryBytes(S) == MapThenSumSet(LAMBDA i : images[i].bytes, S)

Cached == {i \in Image : images[i] # None}
Pinned == {i \in Cached : images[i].rec.pinned}
InFlight == {t \in Txn : txn[t].pc # "idle"}

\* What eviction can never reclaim: pinned records and their layers, once each.
PinnedLayers == layers \cap UNION {LayersOf[i] : i \in Pinned}
PinnedBytes == EntryBytes(Pinned) + LayerBytes(PinnedLayers)

\* What eviction may take.  Mutant: the pinned flag is not looked at.
EvictableAll == Cached
Evictable == Cached \ Pinned

\* The bytes a new record file of i takes the place of.  Mutant: none.
ReplacedNothing(i) == 0
Replaced(i) == IF i \in Cached THEN images[i].bytes ELSE 0

\* A retained record or an open ingest depends on the layer.  Mutant:
\* only the records are looked at.
ReferencedByImages(l) == \E i \in Cached : l \in LayersOf[i]
Referenced(l) ==
    \/ \E i \in Cached : l \in LayersOf[i]
    \/ \E t \in InFlight : l \in txn[t].deps

Older(i, j) ==
    \/ images[i].rec.used < images[j].rec.used
    \/ images[i].rec.used = images[j].rec.used /\ i < j

IsLRU(i) ==
    /\ i \in Evictable
    /\ \A j \in Evictable \ {i} : Older(i, j)

\* The mutex of a DiffID is held from PutLayer's lookup to its return.
\* Mutant: there is none.
DigestNeverLocked(l) == FALSE
DigestLocked(l) == \E t \in Txn : txn[t].pc \in PutPc /\ txn[t].layer = l

\* Store.mu is free, so that a critical section can run.
MuFree == up /\ mu = None

Goto(t, pc) == txn' = [txn EXCEPT ![t].pc = pc]

-------------------------------------------------------------------------------
(* Begin, UseLayer, and PutLayer up to its request for bytes.                *)

Begin(t, i) ==
    /\ MuFree
    /\ txn[t].pc = "idle"
    /\ txn' = [txn EXCEPT ![t] = OpenTxn(i)]
    /\ UNCHANGED <<up, layers, images, accounted, mu, victim, writer, disk, now, crashes>>

\* What the blobs of an ingest can hold: layers of its image, and in a save
\* stream any others.
Brought(t) == LayersOf[txn[t].image] \cup Stray

\* UseLayer, and PutLayer when its lookup under the digest lock finds the layer.
UseLayer(t, l) ==
    /\ MuFree
    /\ txn[t].pc = "open"
    /\ l \in Brought(t) \ txn[t].deps
    /\ l \in layers
    /\ txn' = [txn EXCEPT ![t].deps = @ \cup {l}]
    /\ UNCHANGED <<up, layers, images, accounted, mu, victim, writer, disk, now, crashes>>

\* PutLayer misses and stages the two files.  The ceiling on the staged bytes
\* is reserve's own refusal test read early, so an over-budget write is the
\* ReserveRefuse step below.
PutLayer(t, l) ==
    /\ MuFree
    /\ txn[t].pc = "open"
    /\ l \in Brought(t) \ txn[t].deps
    /\ l \notin layers
    /\ ~DigestLocked(l)
    /\ txn' = [txn EXCEPT ![t].pc = "putReserve", ![t].layer = l]
    /\ UNCHANGED <<up, layers, images, accounted, mu, victim, writer, disk, now, crashes>>

-------------------------------------------------------------------------------
(* reserve: the refusal test, then the eviction loop, all under mu.          *)

Need(t) ==
    IF txn[t].pc = "putReserve" THEN LayerSize[txn[t].layer] ELSE Size(txn[t].rec)

Reserving(t) == up /\ txn[t].pc \in {"putReserve", "recReserve"}

FitsAlone(t) == txn[t].own + Need(t) <= MaxBytes - PinnedBytes

\* The loop's test.  Mutant: the bytes asked for are not counted.
FitsBefore(t) == accounted <= MaxBytes
Fits(t) == accounted + Need(t) <= MaxBytes

\* What a grant leaves in the accounting.
Charged(t) == accounted + Need(t)

\* t is past the refusal test and at the head of the loop.
InLoop(t) ==
    /\ Reserving(t)
    /\ \/ mu = None /\ FitsAlone(t)
       \/ mu = t /\ victim = None

ReserveRefuse(t) ==
    /\ Reserving(t)
    /\ mu = None
    /\ ~FitsAlone(t)
    /\ Goto(t, "failed")
    /\ UNCHANGED <<up, layers, images, accounted, mu, victim, writer, disk, now, crashes>>

\* A rewrite holding images/<hex>.json open loses its name when the file goes.
Unlinked(i) ==
    [w \in Writer |->
        IF writer[w].image = i /\ writer[w].pc = "write" /\ writer[w].fd = "final"
        THEN [writer[w] EXCEPT !.fd = "gone"]
        ELSE writer[w]]

\* evictLRULocked, first half: the record goes before any of its layers.
EvictRecord(t) ==
    /\ InLoop(t)
    /\ ~Fits(t)
    /\ \E i \in Image :
        /\ IsLRU(i)
        /\ images' = [images EXCEPT ![i] = None]
        /\ recFile' = [recFile EXCEPT ![i] = None]
        /\ writer' = Unlinked(i)
        /\ accounted' = accounted - images[i].bytes
        /\ victim' = i
    /\ mu' = t
    /\ UNCHANGED <<up, layers, txn, layerDir, tmpFile, now, crashes>>

\* evictLRULocked, second half: layers of the victim nothing depends on.
DropLayers(t) ==
    /\ up
    /\ mu = t
    /\ victim # None
    /\ LET dropped == {l \in LayersOf[victim] \cap layers : ~Referenced(l)}
       IN  /\ layers' = layers \ dropped
           /\ layerDir' = [l \in Layer |-> IF l \in dropped THEN "none" ELSE layerDir[l]]
           /\ accounted' = accounted - LayerBytes(dropped)
    /\ victim' = None
    /\ UNCHANGED <<up, images, mu, txn, writer, recFile, tmpFile, now, crashes>>

ReserveGrant(t) ==
    /\ InLoop(t)
    /\ Fits(t)
    /\ accounted' = Charged(t)
    /\ txn' = [txn EXCEPT ![t].own = @ + Need(t),
                          ![t].pc = IF @ = "putReserve" THEN "putIndex" ELSE "recRename"]
    /\ mu' = None
    /\ UNCHANGED <<up, layers, images, victim, writer, disk, now, crashes>>

\* "nothing else is evictable": whatever the loop has evicted stays evicted.
\* Mutant: the loop is left only once the table is empty.
NothingCached == Cached = {}
NothingEvictable == Evictable = {}

ReserveExhausted(t) ==
    /\ InLoop(t)
    /\ ~Fits(t)
    /\ NothingEvictable
    /\ Goto(t, "failed")
    /\ mu' = None
    /\ UNCHANGED <<up, layers, images, accounted, victim, writer, disk, now, crashes>>

-------------------------------------------------------------------------------
(* PutLayer after its bytes are granted: commitLayer, then the install.      *)

\* Mutant of RenameIndex: the layer is installed without its sidecar.
RenameIndexOnly(t) ==
    /\ up
    /\ txn[t].pc = "putIndex"
    /\ layerDir' = [layerDir EXCEPT ![txn[t].layer] = "index"]
    /\ Goto(t, "putInstall")
    /\ UNCHANGED <<up, layers, images, accounted, mu, victim, writer, recFile, tmpFile, now, crashes>>
RenameIndex(t) ==
    /\ up
    /\ txn[t].pc = "putIndex"
    /\ layerDir' = [layerDir EXCEPT ![txn[t].layer] = IF @ = "none" THEN "index" ELSE @]
    /\ Goto(t, "putDoc")
    /\ UNCHANGED <<up, layers, images, accounted, mu, victim, writer, recFile, tmpFile, now, crashes>>

RenameDoc(t) ==
    /\ up
    /\ txn[t].pc = "putDoc"
    /\ layerDir' = [layerDir EXCEPT ![txn[t].layer] = "full"]
    /\ Goto(t, "putInstall")
    /\ UNCHANGED <<up, layers, images, accounted, mu, victim, writer, recFile, tmpFile, now, crashes>>

\* The re-check under mu: an entry that appeared meanwhile keeps the
\* accounting and this transaction's bytes are released.
InstallLayer(t) ==
    LET l == txn[t].layer
        dup == l \in layers
    IN  /\ MuFree
        /\ txn[t].pc = "putInstall"
        /\ layers' = layers \cup {l}
        /\ accounted' = IF dup THEN accounted - LayerSize[l] ELSE accounted
        /\ txn' = [txn EXCEPT ![t].pc = "open", ![t].layer = None,
                              ![t].deps = @ \cup {l},
                              ![t].own = IF dup THEN @ - LayerSize[l] ELSE @]
        /\ UNCHANGED <<up, images, mu, victim, writer, disk, now, crashes>>

\* release: the bytes go back to the cap, and the call returns its error.
Release(t, n) ==
    /\ accounted' = accounted - n
    /\ txn' = [txn EXCEPT ![t].pc = "failed", ![t].own = @ - n]

\* A rename, or the directory sync after it, fails: release the bytes.  What
\* was renamed before the failure stays where it is.
PutFails(t) ==
    /\ IoFaults
    /\ MuFree
    /\ txn[t].pc \in {"putIndex", "putDoc", "putInstall"}
    /\ Release(t, LayerSize[txn[t].layer])
    /\ UNCHANGED <<up, layers, images, mu, victim, writer, disk, now, crashes>>

-------------------------------------------------------------------------------
(* Commit, Abort and finish.                                                 *)

\* Commit reads the clock and stages the record once every layer is declared.
\* Mutant of the check: present in the cache, not declared by t.
DeclaredOrPresent(t) == LayersOf[txn[t].image] \subseteq layers
Declared(t) == LayersOf[txn[t].image] \subseteq txn[t].deps

CommitStart(t, pin, refs) ==
    /\ up
    /\ txn[t].pc = "open"
    /\ Declared(t)
    /\ pin => txn[t].image \in PinnedIngest
    /\ txn' = [txn EXCEPT ![t].pc = "recReserve",
                          ![t].rec = [pinned |-> pin, refs |-> refs, used |-> now]]
    /\ UNCHANGED <<up, layers, images, accounted, mu, victim, writer, disk, now, crashes>>

RenameRecord(t) ==
    /\ up
    /\ txn[t].pc = "recRename"
    /\ recFile' = [recFile EXCEPT ![txn[t].image] = Written(txn[t].rec)]
    /\ writer' = Unlinked(txn[t].image)
    /\ Goto(t, "recInstall")
    /\ UNCHANGED <<up, layers, images, accounted, mu, victim, layerDir, tmpFile, now, crashes>>

\* The new entry replaces a previous one wholesale; the replaced file's bytes
\* leave the accounting.
InstallRecord(t) ==
    LET i == txn[t].image
    IN  /\ MuFree
        /\ txn[t].pc = "recInstall"
        /\ images' = [images EXCEPT ![i] = [rec |-> txn[t].rec, bytes |-> Size(txn[t].rec)]]
        /\ accounted' = accounted - Replaced(i)
        /\ Goto(t, "committed")
        /\ UNCHANGED <<up, layers, mu, victim, writer, disk, now, crashes>>

RecordFails(t) ==
    /\ IoFaults
    /\ MuFree
    /\ txn[t].pc \in {"recRename", "recInstall"}
    /\ Release(t, Size(txn[t].rec))
    /\ UNCHANGED <<up, layers, images, mu, victim, writer, disk, now, crashes>>

\* finish: the tail of Commit, and the whole of Abort -- after an error, or
\* from the open state when the ingest is cancelled or its stream fails.
Finish(t) ==
    /\ MuFree
    /\ txn[t].pc \in {"open", "failed", "committed"}
    /\ txn' = [txn EXCEPT ![t] = IdleTxn]
    /\ UNCHANGED <<up, layers, images, accounted, mu, victim, writer, disk, now, crashes>>

-------------------------------------------------------------------------------
(* Touch and UpgradeProvenance publish the new record in memory under mu,    *)
(* then write the snapshot they took to disk with no lock held.              *)

StartRewrite(w, i, rec) ==
    /\ images' = [images EXCEPT ![i].rec = rec]
    /\ writer' = [writer EXCEPT ![w] = Rewrite(i, rec)]
    /\ UNCHANGED <<up, layers, accounted, mu, victim, txn, disk, now, crashes>>

Touch(w, i) ==
    /\ MuFree
    /\ writer[w].pc = "idle"
    /\ i \in Cached
    /\ now - images[i].rec.used >= Debounce
    /\ StartRewrite(w, i, [images[i].rec EXCEPT !.used = now])

\* The merge; when it changes nothing, nothing is rewritten.
UpgradeProvenance(w, i, pin, refs) ==
    /\ MuFree
    /\ writer[w].pc = "idle"
    /\ i \in Cached
    /\ pin => i \in PinnedIngest
    /\ LET merged == [images[i].rec EXCEPT !.pinned = @ \/ pin, !.refs = @ \cup refs]
       IN  /\ merged # images[i].rec
           /\ StartRewrite(w, i, merged)

\* writeStaged opens the shared path with O_CREATE|O_TRUNC ...
\* Mutant of OpenTmp: the record is rewritten in place.
OpenInPlace(w) ==
    /\ up
    /\ writer[w].pc = "stage"
    /\ recFile' = [recFile EXCEPT ![writer[w].image] = Truncated]
    /\ writer' = [writer EXCEPT ![w].pc = "write", ![w].fd = "final"]
    /\ UNCHANGED <<up, layers, images, accounted, mu, victim, txn, layerDir, tmpFile, now, crashes>>
OpenTmp(w) ==
    /\ up
    /\ writer[w].pc = "stage"
    /\ tmpFile' = [tmpFile EXCEPT ![writer[w].image] = Truncated]
    /\ writer' = [writer EXCEPT ![w].pc = "write", ![w].fd = "tmp"]
    /\ UNCHANGED <<up, layers, images, accounted, mu, victim, txn, layerDir, recFile, now, crashes>>

\* ... and writes from offset 0 into the file it opened, wherever a rename has
\* moved that file since: a longer content keeps its tail.
Overlay(file, rec) ==
    [rec |-> rec,
     size |-> IF Size(rec) >= file.size THEN Size(rec) ELSE file.size,
     whole |-> Size(rec) >= file.size]

WriteTmp(w) ==
    LET i == writer[w].image
        at == writer[w].fd
    IN  /\ up
        /\ writer[w].pc = "write"
        /\ tmpFile' = IF at = "tmp"
                      THEN [tmpFile EXCEPT ![i] = Overlay(@, writer[w].rec)]
                      ELSE tmpFile
        /\ recFile' = IF at = "final"
                      THEN [recFile EXCEPT ![i] = Overlay(@, writer[w].rec)]
                      ELSE recFile
        /\ writer' = [writer EXCEPT
                        ![w].pc = "rename",
                        ![w].size = CASE at = "tmp" -> tmpFile'[i].size
                                      [] at = "final" -> recFile'[i].size
                                      [] at = "gone" -> Size(writer[w].rec)]
        /\ UNCHANGED <<up, layers, images, accounted, mu, victim, txn, layerDir, now, crashes>>

\* The rename moves whatever the shared path names now, with any descriptor
\* another rewrite still holds on it.
RenameTmp(w) ==
    LET i == writer[w].image
    IN  /\ up
        /\ writer[w].pc = "rename"
        /\ tmpFile[i] # None
        /\ recFile' = [recFile EXCEPT ![i] = tmpFile[i]]
        /\ tmpFile' = [tmpFile EXCEPT ![i] = None]
        /\ writer' = [v \in Writer |->
                        CASE v = w -> [writer[v] EXCEPT !.pc = "account"]
                          [] v # w /\ writer[v].image = i /\ writer[v].pc = "write" ->
                                [writer[v] EXCEPT !.fd = IF @ = "tmp" THEN "final" ELSE "gone"]
                          [] OTHER -> writer[v]]
        /\ UNCHANGED <<up, layers, images, accounted, mu, victim, txn, layerDir, now, crashes>>

\* The rename fails, always when another rewrite moved the shared path away
\* (ENOENT), or the directory sync after it: writeRecord returns the error, and
\* neither the table nor the ledger learns what reached the disk.
RenameFails(w) == tmpFile[writer[w].image] = None \/ IoFaults
RewriteFails(w) ==
    /\ up
    /\ writer[w].pc = "rename" => RenameFails(w)
    /\ writer[w].pc = "account" => IoFaults
    /\ writer[w].pc \in {"rename", "account"}
    /\ writer' = [writer EXCEPT ![w] = IdleWriter]
    /\ UNCHANGED <<up, layers, images, accounted, mu, victim, txn, disk, now, crashes>>

AccountRewrite(w) ==
    LET i == writer[w].image
    IN  /\ MuFree
        /\ writer[w].pc = "account"
        /\ IF i \in Cached
           THEN /\ accounted' = accounted + writer[w].size - Replaced(i)
                /\ images' = [images EXCEPT ![i].bytes = writer[w].size]
           ELSE UNCHANGED <<accounted, images>>
        /\ writer' = [writer EXCEPT ![w] = IdleWriter]
        /\ UNCHANGED <<up, layers, mu, victim, txn, disk, now, crashes>>

-------------------------------------------------------------------------------
(* Time, crashes, and Open.                                                  *)

Tick ==
    /\ now < MaxTime
    /\ now' = now + 1
    /\ UNCHANGED <<memory, disk, crashes>>

\* The process dies, or Close ends it: only the directory survives.
Crash ==
    /\ up
    /\ crashes < MaxCrashes
    /\ crashes' = crashes + 1
    /\ up' = FALSE
    /\ layers' = {}
    /\ images' = [i \in Image |-> None]
    /\ accounted' = 0
    /\ mu' = None
    /\ victim' = None
    /\ txn' = [t \in Txn |-> IdleTxn]
    /\ writer' = [w \in Writer |-> IdleWriter]
    /\ UNCHANGED <<disk, now>>

CompleteLayers == {l \in Layer : layerDir[l] = "full"}

\* A record file the sweep keeps: it decodes and every layer it names is there.
\* Mutant: the layers are not looked for.
UsableAlone(i) == recFile[i] # None /\ recFile[i].whole
Usable(i) ==
    /\ recFile[i] # None
    /\ recFile[i].whole
    /\ LayersOf[i] \subseteq CompleteLayers

\* The accounting the sweep rebuilds.  Mutant: record files are not counted.
SweptLayerBytes(kept) == LayerBytes(CompleteLayers)
SweptBytes(kept) ==
    LayerBytes(CompleteLayers) + MapThenSumSet(LAMBDA i : recFile[i].size, kept)

\* Open under the flock: clear staging, sweep the layers, then the records,
\* and rebuild the tables and the accounting from what is left.
Open ==
    LET kept == {i \in Image : Usable(i)}
    IN  /\ ~up
        /\ up' = TRUE
        /\ layerDir' = [l \in Layer |-> IF l \in CompleteLayers THEN "full" ELSE "none"]
        /\ recFile' = [i \in Image |-> IF i \in kept THEN recFile[i] ELSE None]
        /\ tmpFile' = [i \in Image |-> None]
        /\ layers' = CompleteLayers
        /\ images' = [i \in Image |->
                        IF i \in kept
                        THEN [rec |-> recFile[i].rec, bytes |-> recFile[i].size]
                        ELSE None]
        /\ accounted' = SweptBytes(kept)
        /\ UNCHANGED <<mu, victim, txn, writer, now, crashes>>

-------------------------------------------------------------------------------
(* The specification.                                                        *)

\* What a goroutine does inside a call it has made.
InCall(t) ==
    \/ ReserveRefuse(t) \/ EvictRecord(t) \/ DropLayers(t)
    \/ ReserveGrant(t) \/ ReserveExhausted(t)
    \/ RenameIndex(t) \/ RenameDoc(t) \/ InstallLayer(t)
    \/ RenameRecord(t) \/ InstallRecord(t)
    \/ PutFails(t) \/ RecordFails(t)

TxnStep(t) ==
    \/ \E i \in Image : Begin(t, i)
    \/ \E l \in Layer : UseLayer(t, l) \/ PutLayer(t, l)
    \/ \E pin \in BOOLEAN, refs \in SUBSET Ref : CommitStart(t, pin, refs)
    \/ InCall(t)
    \/ Finish(t)

Rewriting(w) ==
    \/ OpenTmp(w) \/ WriteTmp(w) \/ RenameTmp(w) \/ RewriteFails(w)
    \/ AccountRewrite(w)

WriterStep(w) ==
    \/ \E i \in Image :
        \/ Touch(w, i)
        \/ \E pin \in BOOLEAN, refs \in SUBSET Ref : UpgradeProvenance(w, i, pin, refs)
    \/ Rewriting(w)

Next ==
    \/ \E t \in Txn : TxnStep(t)
    \/ \E w \in Writer : WriterStep(w)
    \/ Tick
    \/ Crash
    \/ Open

Spec == Init /\ [][Next]_vars

\* A call the process is inside of goes on: goroutines are scheduled, and
\* sync.RWMutex hands mu to a waiter (it does not starve writers), hence strong
\* fairness for the steps that need it.  No caller is obliged to make a call.
FairSpec ==
    /\ Spec
    /\ \A t \in Txn : SF_vars(InCall(t))
    /\ \A w \in Writer : SF_vars(Rewriting(w))

-------------------------------------------------------------------------------
(* Safety.                                                                   *)

\* A record a reader can look up has every layer it names installed, so a
\* comparison never finds half an image (Commit's declared-layers check,
\* layerReferencedLocked, the record-first order of evictLRULocked).
ImagesHaveLayers == \A i \in Cached : LayersOf[i] \subseteq layers

\* A layer the table lists is complete under its final name, so LayerIndex
\* opens it or, once it is evicted, finds nothing (commitLayer's order, the
\* digest lock held from the lookup to the install).
InstalledLayersComplete == \A l \in layers : layerDir[l] = "full"

\* PutLayer's re-check of the table never finds a duplicate: whoever is past
\* the lookup under the digest lock is the only one writing that layer, and the
\* layer is not in the table ("belt and braces against any future path").
PutsAreFirst ==
    \A t \in Txn : txn[t].pc \in PutPc =>
        /\ txn[t].layer \notin layers
        /\ \A u \in Txn \ {t} : txn[u].pc \in PutPc => txn[u].layer # txn[t].layer

\* What a transaction counts on: its layers stay installed until it finishes,
\* and a record past Commit's check names declared layers only.
TxnsHoldLayers ==
    \A t \in Txn :
        /\ txn[t].deps \subseteq layers
        /\ txn[t].pc = "idle" => txn[t].deps = {}
        /\ txn[t].pc # "idle" => txn[t].image \in Image
        /\ txn[t].pc \in PutPc => txn[t].layer \in Layer
        /\ txn[t].pc = "putInstall" => layerDir[txn[t].layer] = "full"
        /\ txn[t].pc \in RecPc => LayersOf[txn[t].image] \subseteq txn[t].deps

\* A rewrite's descriptor names the file it says.
WritersHoldFiles ==
    \A w \in Writer :
        /\ writer[w].pc # "idle" => writer[w].image \in Image
        /\ writer[w].pc = "write" /\ writer[w].fd = "tmp" => tmpFile[writer[w].image] # None
        /\ writer[w].pc = "write" /\ writer[w].fd = "final" => recFile[writer[w].image] # None

\* Nothing is in memory while the process is down.
DownIsEmpty ==
    ~up => /\ layers = {} /\ Cached = {}
           /\ txn = [t \in Txn |-> IdleTxn]
           /\ writer = [w \in Writer |-> IdleWriter]

\* The inductive invariant of the proofs.
IndInv ==
    /\ TablesOK
    /\ ImagesHaveLayers
    /\ InstalledLayersComplete
    /\ PutsAreFirst
    /\ TxnsHoldLayers
    /\ WritersHoldFiles
    /\ DownIsEmpty

\* Bytes granted to a transaction and not yet in a table.
Granted(t) ==
    CASE txn[t].pc \in {"putIndex", "putDoc", "putInstall"} -> LayerSize[txn[t].layer]
      [] txn[t].pc \in {"recRename", "recInstall"} -> Size(txn[t].rec)
      [] OTHER -> 0

\* Store.accounted is what the tables hold plus what is granted: no path
\* charges a directory twice or frees it twice ("the drift is monotonic").
Held == LayerBytes(layers) + EntryBytes(Cached) + MapThenSumSet(Granted, Txn)
AccountingExact == accounted = Held

\* The accounted bytes stay within the cap (reserve grants nothing beyond it).
CapHeld == accounted <= MaxBytes

\* Every record file on disk that decodes names complete layers only: the
\* state sweep's comment says the commit order forbids never arises.
DiskRecordsComplete ==
    \A i \in Image : recFile[i] # None /\ recFile[i].whole => LayersOf[i] \subseteq CompleteLayers

\* A record file under its final name is never partial (writeRecord's comment).
RecordFilesWhole == \A i \in Image : recFile[i] # None => recFile[i].whole

\* What a reader finds in the table survives a crash: its file is there, whole,
\* and the sweep keeps it.
CachedIsDurable == up => \A i \in Cached : Usable(i)

-------------------------------------------------------------------------------
(* Action properties.                                                        *)

\* A pinned image leaves the table only with the process.
PinnedStays ==
    [][\A i \in Pinned : images'[i] # None \/ ~up']_vars

\* Pinning is monotonic: no step of a running store clears it (Provenance).
PinIsMonotonic ==
    [][\A i \in Pinned : images'[i] = None \/ images'[i].rec.pinned]_vars

\* reserve refused t although it passed the refusal test.
Exhausted(t) == txn[t].pc \in {"putReserve", "recReserve"} /\ txn'[t].pc = "failed" /\ FitsAlone(t)

\* Room is short for t: what the tables and the grants really hold, less the
\* layers that were the last victim's alone, leaves too little for its request.
LeftByVictim == {l \in layers : victim # None /\ l \in LayersOf[victim] /\ ~Referenced(l)}
ShortOfRoom(t) ==
    Reserving(t) /\ Held - LayerBytes(LeftByVictim) + Need(t) > MaxBytes

\* Eviction takes no more images than it has to: one goes, and a request that
\* could fit is turned away, only while some reservation finds the bytes really
\* there too many -- nothing is charged twice, freed too late or released for
\* less than it was charged ("accounted keeps matching the bytes on disk").
EvictsOnlyForRoom ==
    [][/\ \A i \in Cached : images'[i] = None /\ up' => \E t \in Txn : ShortOfRoom(t)
       /\ \A t \in Txn : Exhausted(t) => ShortOfRoom(t)]_vars

\* All t keeps or asks for fits beside what is pinned: its image's layers and
\* any other it took, reused ones included, and the largest record it may write.
FitsWhole(t) ==
    LET kept == LayersOf[txn[t].image] \cup txn[t].deps \cup {l \in Layer : l = txn[t].layer}
    IN  LayerBytes(kept \ PinnedLayers) + RecordBase + Cardinality(Ref) <= MaxBytes - PinnedBytes

\* Anything an aborted transaction leaves unreferenced is evictable once it
\* closed (Abort's comment): an ingest alone in the store, which as a whole fits
\* beside what pinning keeps, is never refused.
AloneIsNeverRefused ==
    [][\A t \in Txn : Exhausted(t) /\ FitsWhole(t) => InFlight # {t}]_vars

-------------------------------------------------------------------------------
(* Liveness.                                                                 *)

\* Every PutLayer and Commit returns: the eviction loop ends, and the digest
\* lock and mu are never waited for in a circle.
CallsReturn ==
    \A t \in Txn : txn[t].pc \in PutPc \cup RecPc ~> txn[t].pc \notin PutPc \cup RecPc
===============================================================================
