----------------------------- MODULE IngestProofs -----------------------------
(***************************************************************************)
(* Proofs about Ingest, and the stall guard under it, for every value of   *)
(* their constants: the state stays typed, no ingest fails but for a cause *)
(* of its own, no short body is taken for a whole one, what a finished     *)
(* save reports adds up, and the steps of both ingests wear out.           *)
(***************************************************************************)
EXTENDS Ingest, FiniteSums

-------------------------------------------------------------------------------
(* The inductive invariant, part by part.                                    *)

\* The guard: bytes are read after they are sent; who cancels a body that is
\* still open has marked it first, so a clean end that is handed out is either
\* the body's own, or comes too late to be taken at its word.
GuardInv ==
    /\ GuardOK
    /\ read <= sent
    /\ reader.pc = "got" => read + reader.n <= sent
    /\ watchdog.pc = "cancel" => tripped
    /\ cancelled => closed \/ tripped
    /\ reader.pc = "got" /\ reader.end = "eof" =>
            read + reader.n = BodySize \/ tripped \/ line = "left"
    /\ EofMeansWhole

\* The cache keeps the layers that an open transaction counts on.
CacheInv ==
    /\ status \in [Image -> Catalog!Status] /\ readable \subseteq Layer
    /\ uses \in [Txn -> SUBSET Layer]
    /\ \A t \in Txn : uses[t] \subseteq readable

\* A large blob that has gone by was no layer, was stored as the layer it holds,
\* or was drained because the layer its place declares is there.
Met(b) ==
    \/ Holds[b] = None
    \/ Holds[b] \in uses["save"]
    \/ Declared(b) # None /\ Declared(b) \in uses["save"]

\* While reconcile runs.
Reconciling == {"reconcile", "put", "index", "commit"}

\* IngestDockerSave: the declared layers before the one it looks at, and the
\* large blobs that have gone by, are settled.
SaveInv ==
    /\ save \in Save
    /\ save.at >= 1
    /\ save.pc = "idle" => save.seen = {}
    /\ save.pc \in {"idle", "next", "large"} => save.at = 1
    /\ save.why # None => save.pc = "failed"
    /\ save.why # "vanished"
    /\ save.why = "noTarget" => ~(Metadata \subseteq save.seen)
    /\ save.why \in {"missing", "mismatch"} =>
            \E n \in DOMAIN DiffIds[Saved] : ~Arrived(n) \/ Wrong(n)
    /\ save.pc = "large" => save.member \in save.seen \cap Large
    /\ save.pc \in {"put", "index"} => save.at <= Len(DiffIds[Saved])
    /\ save.pc = "commit" => save.at > Len(DiffIds[Saved])
    /\ save.pc = "index" => Wanted \in uses["save"]
    /\ save.pc \in Reconciling =>
            \A n \in DOMAIN DiffIds[Saved] : n < save.at => DiffIds[Saved][n] \in uses["save"]
    /\ save.pc \in {"next", "large"} \cup Reconciling =>
            \A b \in save.seen \cap Large : Met(b) \/ (save.pc = "large" /\ save.member = b)

\* Ingest: the layers before the one it looks at are settled.
PullInv ==
    /\ pull \in Pull
    /\ pull.at >= 1
    /\ pull.pc = "idle" => pull.at = 1
    /\ pull.why # "vanished"
    /\ pull.pc \in {"read", "close", "put", "again"} => pull.at <= Len(DiffIds[Pulled])
    /\ pull.pc = "again" => Fetched \in uses["pull"]
    /\ pull.pc \in {"use", "read", "close", "put", "again"} =>
            \A n \in DOMAIN DiffIds[Pulled] : n < pull.at => DiffIds[Pulled][n] \in uses["pull"]

\* All of it.
IInv == GuardInv /\ CacheInv /\ SaveInv /\ PullInv

-------------------------------------------------------------------------------
(* What the constants give.                                                  *)

\* The layers an image declares, by position.
LEMMA DeclaredLayers ==
    ASSUME NEW i \in {Saved, Pulled}
    PROVE  /\ i \in Image /\ DiffIds[i] \in Seq(Layer) /\ Len(DiffIds[i]) \in Nat
           /\ DOMAIN DiffIds[i] = 1..Len(DiffIds[i])
           /\ \A n \in DOMAIN DiffIds[i] : DiffIds[i][n] \in Layer
           /\ LayersOf[i] = {DiffIds[i][n] : n \in DOMAIN DiffIds[i]}
<1>1. i \in Image /\ DiffIds[i] \in Seq(Layer) BY ImagesAssumption
<1>2. /\ Len(DiffIds[i]) \in Nat /\ DOMAIN DiffIds[i] = 1..Len(DiffIds[i])
      /\ \A n \in 1..Len(DiffIds[i]) : DiffIds[i][n] \in Layer
    BY <1>1
<1> QED BY <1>1, <1>2 DEF LayersOf, ToSet

\* The layer a blob's place declares is declared where the manifest lists it.
LEMMA DeclaredWhere ==
    ASSUME NEW b \in Blob, Declared(b) # None
    PROVE  \E n \in DOMAIN ManifestLayers \cap DOMAIN DiffIds[Saved] :
                ManifestLayers[n] = b /\ Declared(b) = DiffIds[Saved][n]
<1> DEFINE at == {n \in DOMAIN ManifestLayers : ManifestLayers[n] = b}
           m == CHOOSE k \in at : \A j \in at : k <= j
<1>1. at # {} BY DEF Declared
<1>2. at \in SUBSET Nat BY StreamAssumption
<1>3. m \in at
  <2> HIDE DEF at
  <2> QED BY <1>1, <1>2, LeastNat
<1>4. m <= Len(DiffIds[Saved]) /\ Declared(b) = DiffIds[Saved][m]
  <2>1. Declared(b) = IF at = {} \/ m > Len(DiffIds[Saved]) THEN None ELSE DiffIds[Saved][m]
      BY DEF Declared
  <2>2. m \in Nat BY <1>2, <1>3
  <2> HIDE DEF m, at
  <2> QED BY <1>1, <2>1, <2>2, DeclaredLayers
<1>5. m \in DOMAIN DiffIds[Saved]
  <2>1. m \in DOMAIN ManifestLayers /\ DOMAIN ManifestLayers = 1..Len(ManifestLayers)
      BY <1>3, StreamAssumption
  <2> HIDE DEF m
  <2> QED BY <1>4, <2>1, DeclaredLayers, StreamAssumption
<1> QED BY <1>3, <1>4, <1>5

-------------------------------------------------------------------------------
(* The stall guard.                                                          *)

\* What an ingest does to the guard.
GuardMove == GuardStep \/ Open \/ Close \/ Discard

\* A step of the two ingests moves the guard by one of its operations.
LEMMA GuardMoves == ASSUME [Next]_vars PROVE [GuardMove]_guard
BY DEF Next, vars, GuardMove, SaveBegin, SaveStep, SaveFault, PullStep, PullGivesUp, PullFault,
       BodyStep, CacheStep, TooMany, Passed, Buffer, Drain, Stream, NotALayer, PutStreamed,
       EndOfStream, Reconcile, NotThere, PutBuffered, UseBuffered, Reconciled, SaveCommit,
       SaveReadBack, SaveFails, PullBegin, PullUse, PullOpen, PullEnds, PullClose, PullIndexed,
       PullPut, PullAgain, PullCommit, PullReadBack

\* What the watchdog, the connection and the reader do keeps the guard's invariant.
LEMMA GuardKept == ASSUME GuardInv, [GuardMove]_guard PROVE GuardInv'
<1> USE BodySizeAssumption DEF GuardInv, GuardOK, EofMeansWhole, Watchdog, Reader, End
<1>1. CASE Send BY <1>1 DEF Send
<1>2. CASE Break BY <1>2 DEF Break
<1>3. CASE Tick BY <1>3 DEF Tick
<1>4. CASE Trip BY <1>4 DEF Trip, Mark
<1>5. CASE Dismissed BY <1>5 DEF Dismissed
<1>6. CASE ReadInner BY <1>6 DEF ReadInner
<1>7. CASE Return
  <2> DEFINE e == Ends(reader.end)
             p == IF reader.end = None THEN "ready" ELSE "over"
  <2>1. /\ reader'.pc = p /\ reader'.n = 0 /\ reader'.end = e /\ reader' \in Reader
        /\ reader.pc = "got" /\ read' = read + reader.n
    <3>1. reader' = [pc |-> p, n |-> 0, end |-> e] BY <1>7 DEF Return
    <3>2. p \in {"ready", "over"} /\ e \in End BY DEF Ends
    <3>3. reader.pc = "got" /\ read' = read + reader.n BY <1>7 DEF Return
    <3> HIDE DEF e, p
    <3>4. reader' \in Reader BY <3>1, <3>2
    <3> QED BY <3>1, <3>3, <3>4
  <2>2. e = "eof" => ~tripped /\ reader.end = "eof" BY NoEndAssumption DEF Ends
  <2>3. GuardOK' BY <1>7, <2>1 DEF Return
  <2>4. EofMeansWhole' BY <1>7, <2>1, <2>2 DEF Return
  <2> HIDE DEF e, p
  <2> QED BY <1>7, <2>1, <2>3, <2>4 DEF Return
<1>8. CASE Open
  <2>1. watchdog'.pc = "wait" /\ watchdog' \in Watchdog BY <1>8 DEF Open
  <2>2. reader'.pc = "ready" /\ reader'.end = None /\ reader' \in Reader BY <1>8 DEF Open
  <2>3. /\ sent' = 0 /\ read' = 0 /\ line' = "up"
        /\ tripped' \in BOOLEAN /\ cancelled' \in BOOLEAN /\ closed' \in BOOLEAN
        /\ cancelled' => closed'
      BY <1>8, Zenon DEF Open
  <2> QED BY <1>8, <2>1, <2>2, <2>3, NoEndAssumption DEF Open
<1>9. CASE Close BY <1>9 DEF Close
<1>10. CASE Discard
  <2>1. watchdog'.pc = "gone" /\ watchdog' \in Watchdog BY <1>10 DEF Discard
  <2>2. reader'.pc = "over" /\ reader'.end = None /\ reader' \in Reader BY <1>10 DEF Discard
  <2>3. /\ sent' = 0 /\ read' = 0 /\ line' = "up"
        /\ tripped' \in BOOLEAN /\ cancelled' \in BOOLEAN /\ closed' \in BOOLEAN
        /\ cancelled' => closed'
      BY <1>10, Zenon DEF Discard
  <2> QED BY <1>10, <2>1, <2>2, <2>3, NoEndAssumption DEF Discard
<1>11. CASE UNCHANGED guard BY <1>11 DEF guard
<1> QED BY <1>1, <1>2, <1>3, <1>4, <1>5, <1>6, <1>7, <1>8, <1>9, <1>10, <1>11
        DEF GuardMove, GuardStep, WatchdogStep, ReaderStep

-------------------------------------------------------------------------------
(* The cache and the transactions.                                           *)

\* What an ingest does to the cache in one step: it uses a layer, stores one,
\* lists an image, or ends its transaction.
TxnStep(t) ==
    \/ UNCHANGED <<cache, uses>>
    \/ UNCHANGED cache /\ uses' = Ended(t)
    \/ \E l \in Layer : UseLayer(t, l) \/ PutLayer(t, l)
    \/ /\ \E i \in Image : Catalog!Publish(i, "listed")
       /\ uses' = Ended(t)

\* The cache and the transactions keep their invariant whichever ingest steps,
\* and nothing another ingest does takes away a layer in use.
LEMMA CacheKept ==
    ASSUME CacheInv, NEW t \in Txn, TxnStep(t)
    PROVE  CacheInv' /\ \A u \in Txn : u # t => uses'[u] = uses[u]
<1> USE DEF CacheInv, cache
<1>1. CASE UNCHANGED <<cache, uses>> BY <1>1
<1>2. CASE UNCHANGED cache /\ uses' = Ended(t) BY <1>2 DEF Ended
<1>3. ASSUME NEW l \in Layer, UseLayer(t, l) PROVE CacheInv' /\ \A u \in Txn : u # t => uses'[u] = uses[u]
    BY <1>3 DEF UseLayer, Uses
<1>4. ASSUME NEW l \in Layer, PutLayer(t, l) PROVE CacheInv' /\ \A u \in Txn : u # t => uses'[u] = uses[u]
  <2>1. readable' = readable \cup {l} /\ status' = status
      BY <1>4 DEF PutLayer, Catalog!Store
  <2>2. uses' = [uses EXCEPT ![t] = @ \cup {l}] BY <1>4 DEF PutLayer
  <2> QED BY <2>1, <2>2
<1>5. ASSUME NEW i \in Image, Catalog!Publish(i, "listed"), uses' = Ended(t)
      PROVE  CacheInv' /\ \A u \in Txn : u # t => uses'[u] = uses[u]
  <2>1. status' = [status EXCEPT ![i] = "listed"] /\ readable' = readable
      BY <1>5 DEF Catalog!Publish
  <2>2. status' \in [Image -> Catalog!Status] BY <2>1 DEF Catalog!Status
  <2> QED BY <1>5, <2>1, <2>2 DEF Ended
<1> QED BY <1>1, <1>2, <1>3, <1>4, <1>5 DEF TxnStep

\* A step of IngestDockerSave is, to the cache, a step of its transaction.
LEMMA SaveTxn ==
    ASSUME IInv, SaveBegin \/ SaveStep \/ SaveFault
    PROVE  TxnStep("save") /\ UNCHANGED <<pull, guard>>
<1>1. \A w : SaveFails(w) => TxnStep("save") /\ UNCHANGED <<pull, guard>>
    BY DEF SaveFails, TxnStep, guard
<1>2. ASSUME NEW b \in Blob, Drain(b) PROVE TxnStep("save")
  <2>1. Declared(b) \in Layer BY <1>2 DEF IInv, CacheInv, Drain, UseLayer
  <2> QED BY <1>2, <2>1 DEF TxnStep, Drain
<1>3. ASSUME PutStreamed PROVE TxnStep("save")
  <2>1. Holds[save.member] \in Layer
      BY <1>3, StreamAssumption DEF IInv, SaveInv, PutStreamed
  <2> QED BY <1>3, <2>1 DEF TxnStep, PutStreamed
<1>4. save.at <= Len(DiffIds[Saved]) => Wanted \in Layer
    BY DeclaredLayers DEF IInv, SaveInv, Save, Wanted
<1>5. Reconcile \/ PutBuffered => TxnStep("save")
    BY <1>4 DEF TxnStep, Reconcile, PutBuffered, IInv, SaveInv
<1>6. UseBuffered => TxnStep("save")
    BY <1>1, <1>4 DEF TxnStep, UseBuffered, IInv, SaveInv
<1>7. SaveCommit => TxnStep("save")
    BY <1>1, ImagesAssumption DEF TxnStep, SaveCommit
<1> QED BY <1>1, <1>2, <1>3, <1>5, <1>6, <1>7
        DEF SaveBegin, SaveStep, SaveFault, TooMany, Passed, Buffer, Drain, Stream, NotALayer,
            PutStreamed, EndOfStream, Reconcile, NotThere, PutBuffered, UseBuffered, Reconciled,
            SaveCommit, SaveReadBack, TxnStep, UseLayer, PutLayer, guard

\* And so is a step of Ingest.
LEMMA PullTxn ==
    ASSUME IInv, PullStep \/ PullGivesUp \/ PullFault
    PROVE  TxnStep("pull") /\ UNCHANGED save
<1>1. \A w : PullFails(w) => TxnStep("pull") /\ UNCHANGED save
    BY DEF PullFails, TxnStep
<1>2. pull.at <= Len(DiffIds[Pulled]) => Fetched \in Layer
    BY DeclaredLayers DEF IInv, PullInv, Pull, Fetched
<1>3. PullUse \/ PullPut \/ PullAgain => TxnStep("pull")
    BY <1>1, <1>2 DEF TxnStep, PullUse, PullPut, PullAgain, IInv, PullInv
<1>4. PullCommit => TxnStep("pull")
    BY <1>1, ImagesAssumption DEF TxnStep, PullCommit
<1> QED BY <1>1, <1>3, <1>4
        DEF PullStep, PullGivesUp, PullFault, PullBegin, PullUse, PullOpen, PullEnds, PullClose,
            PullIndexed, PullPut, PullAgain, PullCommit, PullReadBack, TxnStep

\* The other ingests drop only what no transaction counts on.
LEMMA OthersKeepCache == ASSUME CacheInv, CacheStep PROVE CacheInv'
<1> USE DEF CacheInv, CacheStep
<1>1. ASSUME NEW l \in Elsewhere, Catalog!Store(l) PROVE CacheInv'
  <2>1. readable' = readable \cup {l} /\ status' = status BY <1>1 DEF Catalog!Store
  <2> QED BY <2>1, ImagesAssumption
<1>2. ASSUME NEW l \in Layer, \A t \in Txn : l \notin uses[t], Catalog!Drop({l}) PROVE CacheInv'
  <2>1. readable' = readable \ {l} /\ status' = status BY <1>2 DEF Catalog!Drop
  <2> QED BY <1>2, <2>1
<1>3. ASSUME NEW i \in Image, Catalog!Evict(i) PROVE CacheInv'
  <2>1. readable' = readable /\ status' = [status EXCEPT ![i] = "absent"]
      BY <1>3 DEF Catalog!Evict
  <2> QED BY <2>1 DEF Catalog!Status
<1> QED BY <1>1, <1>2, <1>3

-------------------------------------------------------------------------------
(* IngestDockerSave.                                                         *)

\* The invariant is about the parser and its transaction only.
LEMMA SaveFrame == ASSUME SaveInv, save' = save, uses'["save"] = uses["save"] PROVE SaveInv'
BY DEF SaveInv, Reconciling, Wanted, Met, Arrived, Wrong

\* The parser before a save begins, and after it has failed, is typed.
LEMMA NoSaveTyped == NoSave \in Save
<1>1. MaxSaveMembers + 1 \in Nat /\ MaxSmall \in Nat BY StreamAssumption
<1>2. 0 \in 0..MaxSaveMembers + 1 /\ 0 \in 0..MaxSmall BY <1>1
<1>3. None \in Why BY DEF Why
<1> QED BY <1>2, <1>3 DEF NoSave, Save

\* A save that fails has a cause.
LEMMA SaveFailure ==
    ASSUME SaveInv, NEW w \in Cause, SaveFails(w), w # "vanished",
           w = "noTarget" => ~(Metadata \subseteq save.seen),
           w \in {"missing", "mismatch"} =>
                \E n \in DOMAIN DiffIds[Saved] : ~Arrived(n) \/ Wrong(n)
    PROVE  SaveInv'
<1>1. /\ save' = [NoSave EXCEPT !.pc = "failed", !.why = w, !.seen = save.seen]
      /\ save \in Save
    BY DEF SaveFails, SaveInv
<1>2. save' \in Save
  <2>1. save.seen \in SUBSET (Metadata \cup Blob) BY <1>1 DEF Save
  <2>2. save' = [NoSave EXCEPT !.pc = "failed", !.why = w, !.seen = save.seen] BY <1>1
  <2>3. w \in Why BY DEF Why
  <2> QED BY <2>1, <2>2, <2>3, NoSaveTyped DEF Save
<1>3. /\ save'.pc = "failed" /\ save'.why = w /\ save'.seen = save.seen /\ save'.at = 1
    BY <1>1 DEF NoSave
<1>4. \A n : Arrived(n)' = Arrived(n) /\ Wrong(n)' = Wrong(n)
    BY <1>3 DEF Arrived, Wrong
<1> QED BY <1>2, <1>3, <1>4 DEF SaveInv, Reconciling

\* A blob that is there when its layer is missed holds another one, or is
\* listed in a place that declares another one.
LEMMA MissedForCause ==
    ASSUME IInv, NotThere,
           save.at > Len(ManifestLayers) \/ ManifestLayers[save.at] \notin save.seen \ Large
    PROVE  \E n \in DOMAIN DiffIds[Saved] : ~Arrived(n) \/ Wrong(n)
<1> DEFINE b == ManifestLayers[save.at]
<1>1. save.at \in DOMAIN DiffIds[Saved] /\ Wanted = DiffIds[Saved][save.at]
    BY DeclaredLayers DEF IInv, SaveInv, Save, NotThere, Wanted
<1>2. CASE save.at \notin DOMAIN ManifestLayers BY <1>1, <1>2 DEF Arrived
<1>3. CASE save.at \in DOMAIN ManifestLayers /\ b \notin save.seen BY <1>1, <1>3 DEF Arrived
<1>4. CASE save.at \in DOMAIN ManifestLayers /\ b \in save.seen
  <2>1. b \in save.seen \cap Large /\ b \in Blob
      BY <1>4, StreamAssumption
  <2>2. Met(b) BY <2>1 DEF IInv, SaveInv, Reconciling, NotThere
  <2>3. uses["save"] \subseteq readable /\ Wanted \notin readable /\ Wanted \in Layer
      BY <1>1, DeclaredLayers DEF IInv, CacheInv, Txn, NotThere
  <2>4. CASE Holds[b] = None \/ Holds[b] \in uses["save"]
      BY <1>1, <1>4, <2>3, <2>4, ImagesAssumption DEF Wrong
  <2>5. CASE Declared(b) # None /\ Declared(b) \in uses["save"]
    <3>1. PICK n \in DOMAIN ManifestLayers \cap DOMAIN DiffIds[Saved] :
                    ManifestLayers[n] = b /\ Declared(b) = DiffIds[Saved][n]
        BY <2>1, <2>5, DeclaredWhere
    <3>2. Declared(b) # Wanted BY <2>3, <2>5
    <3> QED BY <1>1, <1>4, <3>1, <3>2 DEF Wrong
  <2> QED BY <2>2, <2>4, <2>5 DEF Met
<1>5. save.at \in Nat /\ save.at >= 1 BY DEF IInv, SaveInv, Save
<1> QED BY <1>2, <1>3, <1>4

\* What is used stays used, so a large blob that was dealt with stays so.
LEMMA MetStays == ASSUME uses["save"] \subseteq uses'["save"], NEW b, Met(b) PROVE Met(b)'
BY DEF Met

\* A save that goes on: the parts of its invariant that a step can disturb.
LEMMA SaveGoesOn ==
    ASSUME SaveInv, save.pc # "failed", save' \in Save, save'.why = save.why, save'.at >= 1,
           save'.pc # "idle",
           save'.pc \in {"next", "large"} => save'.at = 1,
           save'.pc = "large" => save'.member \in save'.seen \cap Large,
           save'.pc \in {"put", "index"} => save'.at <= Len(DiffIds[Saved]),
           save'.pc = "commit" => save'.at > Len(DiffIds[Saved]),
           save'.pc = "index" => Wanted' \in uses'["save"],
           save'.pc \in Reconciling =>
                \A n \in DOMAIN DiffIds[Saved] : n < save'.at => DiffIds[Saved][n] \in uses'["save"],
           save'.pc \in {"next", "large"} \cup Reconciling =>
                \A b \in save'.seen \cap Large :
                    Met(b)' \/ (save'.pc = "large" /\ save'.member = b)
    PROVE  SaveInv'
BY NoCauseAssumption DEF SaveInv, Reconciling, Cause

\* Before the stream ends, a member is counted, buffered, drained, or streamed
\* and met.
Meets ==
    \/ SaveBegin \/ Passed \/ EndOfStream \/ NotALayer \/ PutStreamed
    \/ \E m \in Metadata \cup (Blob \ Large) : Buffer(m)
    \/ \E b \in Blob : Drain(b) \/ Stream(b)

\* That keeps the invariant.
LEMMA MeetsKept == ASSUME IInv, Meets PROVE SaveInv'
<1> USE DEF IInv
<1>0. save \in Save /\ save.at \in Nat /\ save.at >= 1 BY DEF SaveInv, Save
<1>1. CASE SaveBegin
  <2>1. /\ save' = [save EXCEPT !.pc = "next"] /\ save.pc = "idle" /\ uses' = uses
      BY <1>1 DEF SaveBegin
  <2> QED BY <1>0, <2>1, SaveGoesOn DEF Save, SaveInv, Reconciling
<1>2. CASE Passed
  <2>1. /\ save' = [save EXCEPT !.members = Counted] /\ save.pc = "next" /\ uses' = uses
        /\ Counted \in 0..MaxSaveMembers + 1
      BY <1>0, <1>2, StreamAssumption DEF Passed, Counted, Save
  <2>2. \A b : Met(b) => Met(b)' BY <2>1, MetStays
  <2> QED BY <1>0, <2>1, <2>2, SaveGoesOn DEF Save, SaveInv, Reconciling
<1>3. ASSUME NEW m \in Metadata \cup (Blob \ Large), Buffer(m) PROVE SaveInv'
  <2>1. CASE SmallFull
    <3>1. SaveFails("tooLarge") BY <1>3, <2>1 DEF Buffer
    <3> QED BY <3>1, SaveFailure DEF Cause
  <2>2. CASE ~SmallFull
    <3> DEFINE known == save.known \/ Resolves(save.seen \cup {m})
    <3>1. /\ save' = [save EXCEPT !.seen = @ \cup {m}, !.members = Counted, !.small = @ + 1,
                                  !.known = known]
          /\ save.pc = "next" /\ uses' = uses /\ m \notin Large
        BY <1>3, <2>2 DEF Buffer
    <3>2. Counted \in 0..MaxSaveMembers + 1 /\ save.small + 1 \in 0..MaxSmall
        BY SMTT(20), <1>0, <1>3, <2>2, StreamAssumption DEF Buffer, Counted, Save, SmallFull
    <3>3. known \in BOOLEAN BY Zenon
    <3>4. save.seen \cup {m} \in SUBSET (Metadata \cup Blob) BY <1>0, <1>3 DEF Save
    <3> HIDE DEF known
    <3>5. save' \in Save BY <1>0, <3>1, <3>2, <3>3, <3>4 DEF Save
    <3>6. /\ save'.pc = "next" /\ save'.seen = save.seen \cup {m} /\ save'.why = save.why
          /\ save'.at = save.at
        BY <1>0, <3>1 DEF Save
    <3>7. \A b : Met(b) => Met(b)' BY <3>1, MetStays
    <3> QED BY <1>0, <3>1, <3>5, <3>6, <3>7, SaveGoesOn DEF SaveInv, Reconciling
  <2> QED BY <2>1, <2>2
<1>4. ASSUME NEW b \in Blob, Drain(b) PROVE SaveInv'
  <2>1. /\ save' = Drained(save, b) /\ save.pc = "next"
        /\ uses' = Uses("save", Declared(b)) /\ Declared(b) \in Layer
      BY <1>4 DEF Drain, UseLayer, CacheInv
  <2>2. /\ save'.pc = "next" /\ save'.seen = save.seen \cup {b} /\ save'.why = save.why
        /\ save'.at = save.at /\ save' \in Save
    <3>1. Counted \in 0..MaxSaveMembers + 1
        BY <1>0, <1>4, StreamAssumption DEF Drain, Counted, Save
    <3>2. save.seen \cup {b} \in SUBSET (Metadata \cup Blob) BY <1>0 DEF Save
    <3>3. /\ save.layersSkipped + 1 \in Nat
          /\ save.indexed \cup {Declared(b)} \in SUBSET Layer
        BY <1>0, <2>1 DEF Save
    <3>4. save' = [save EXCEPT !.seen = @ \cup {b}, !.members = Counted, !.layersSkipped = @ + 1,
                               !.indexed = @ \cup {Declared(b)}]
        BY <2>1 DEF Drained
    <3> QED BY ZenonT(40), <1>0, <2>1, <3>1, <3>2, <3>3, <3>4 DEF Save
  <2>3. uses'["save"] = uses["save"] \cup {Declared(b)} BY <2>1 DEF Uses, CacheInv, Txn
  <2>4. \A c : Met(c) => Met(c)' BY <2>3, MetStays
  <2>5. Met(b)' BY <2>1, <2>3, ImagesAssumption DEF Met
  <2> QED BY <1>0, <2>1, <2>2, <2>4, <2>5, SaveGoesOn DEF SaveInv, Reconciling
<1>5. ASSUME NEW b \in Blob, Stream(b) PROVE SaveInv'
  <2>1. /\ save' = [save EXCEPT !.pc = "large", !.seen = @ \cup {b}, !.members = Counted, !.member = b]
        /\ save.pc = "next" /\ uses' = uses /\ b \in Large
      BY <1>5 DEF Stream
  <2>2. /\ save'.pc = "large" /\ save'.seen = save.seen \cup {b} /\ save'.why = save.why
        /\ save'.at = save.at /\ save'.member = b /\ save' \in Save
    <3>1. Counted \in 0..MaxSaveMembers + 1
        BY <1>0, <1>5, StreamAssumption DEF Stream, Counted, Save
    <3>2. save.seen \cup {b} \in SUBSET (Metadata \cup Blob) BY <1>0 DEF Save
    <3> QED BY <1>0, <2>1, <3>1, <3>2 DEF Save
  <2>3. \A c : Met(c) => Met(c)' BY <2>1, MetStays
  <2> QED BY <1>0, <2>1, <2>2, <2>3, SaveGoesOn DEF SaveInv, Reconciling
<1>6. CASE NotALayer
  <2>1. /\ save' = [save EXCEPT !.pc = "next", !.member = None] /\ save.pc = "large"
        /\ uses' = uses /\ Holds[save.member] = None
      BY <1>6 DEF NotALayer
  <2>2. /\ save'.pc = "next" /\ save'.seen = save.seen /\ save'.why = save.why
        /\ save'.at = save.at /\ save' \in Save
      BY <1>0, <2>1 DEF Save
  <2>3. \A c : Met(c) => Met(c)' BY <2>1, MetStays
  <2>4. \A c : c = save.member => Met(c)' BY <2>1, MetStays DEF Met
  <2> QED BY <1>0, <2>1, <2>2, <2>3, <2>4, SaveGoesOn DEF SaveInv, Reconciling
<1>7. CASE PutStreamed
  <2>1. /\ save' = [save EXCEPT !.pc = "next", !.member = None, !.layersIndexed = @ + 1,
                                !.indexed = @ \cup {Holds[save.member]}]
        /\ save.pc = "large" /\ uses' = [uses EXCEPT !["save"] = @ \cup {Holds[save.member]}]
        /\ Holds[save.member] \in Layer
      BY <1>7, StreamAssumption DEF PutStreamed, PutLayer, SaveInv
  <2>2. /\ save'.pc = "next" /\ save'.seen = save.seen /\ save'.why = save.why
        /\ save'.at = save.at /\ save' \in Save
    <3>1. /\ save.layersIndexed + 1 \in Nat
          /\ save.indexed \cup {Holds[save.member]} \in SUBSET Layer
        BY <1>0, <2>1 DEF Save
    <3> QED BY <1>0, <2>1, <3>1 DEF Save
  <2>3. uses'["save"] = uses["save"] \cup {Holds[save.member]} BY <2>1 DEF CacheInv, Txn
  <2>4. \A c : Met(c) => Met(c)' BY <2>3, MetStays
  <2>5. \A c : c = save.member => Met(c)' BY <2>3 DEF Met
  <2> QED BY <1>0, <2>1, <2>2, <2>4, <2>5, SaveGoesOn DEF SaveInv, Reconciling
<1>8. CASE EndOfStream
  <2>1. CASE Resolves(save.seen)
    <3>1. save' = [save EXCEPT !.pc = "reconcile"] /\ save.pc = "next" /\ uses' = uses
        BY <1>8, <2>1 DEF EndOfStream
    <3>2. /\ save'.pc = "reconcile" /\ save'.seen = save.seen /\ save'.why = save.why
          /\ save'.at = save.at /\ save' \in Save
        BY <1>0, <3>1 DEF Save
    <3>3. \A c : Met(c) => Met(c)' BY <3>1, MetStays
    <3>4. \A n \in DOMAIN DiffIds[Saved] : ~(n < save.at)
        BY <3>1, DeclaredLayers DEF SaveInv
    <3> QED BY <1>0, <3>1, <3>2, <3>3, <3>4, SaveGoesOn DEF SaveInv, Reconciling
  <2>2. CASE ~Resolves(save.seen)
    <3>1. SaveFails("noTarget") BY <1>8, <2>2 DEF EndOfStream
    <3> QED BY <2>2, <3>1, SaveFailure DEF Cause, Resolves
  <2> QED BY <2>1, <2>2
<1> QED BY <1>1, <1>2, <1>3, <1>4, <1>5, <1>6, <1>7, <1>8 DEF Meets

\* After the stream, one declared layer after the other is found or stored.
Settles ==
    \/ TooMany \/ Reconcile \/ NotThere \/ PutBuffered \/ UseBuffered \/ Reconciled
    \/ SaveCommit \/ SaveReadBack \/ SaveFault

\* That keeps it, too.
LEMMA SettlesKept == ASSUME IInv, Settles PROVE SaveInv'
<1> USE DEF IInv
<1>0. /\ save \in Save /\ save.at \in Nat /\ save.at >= 1 /\ save.at + 1 \in Nat
      /\ uses["save"] \subseteq readable
    BY DEF SaveInv, Save, CacheInv, Txn
<1>1. CASE TooMany
  <2>1. SaveFails("tooLarge") BY <1>1 DEF TooMany
  <2> QED BY <2>1, SaveFailure DEF Cause
<1>2. CASE Reconcile
  <2> DEFINE s == IF Wanted \in save.indexed THEN save
                  ELSE [save EXCEPT !.layersSkipped = @ + 1]
  <2>1. /\ save' = Advanced(s) /\ save.pc = "reconcile" /\ Wanted \in readable
        /\ uses' = Uses("save", Wanted)
      BY <1>2 DEF Reconcile, UseLayer
  <2>2. s \in Save /\ s.at = save.at /\ s.seen = save.seen /\ s.why = save.why
    <3>1. save.layersSkipped + 1 \in Nat BY <1>0 DEF Save
    <3> QED BY <1>0, <3>1 DEF Save
  <2> HIDE DEF s
  <2>3. /\ save'.pc = "reconcile" /\ save'.seen = save.seen /\ save'.why = save.why
        /\ save'.at = save.at + 1 /\ save' \in Save
      BY <1>0, <2>1, <2>2 DEF Save, Advanced
  <2>4. uses'["save"] = uses["save"] \cup {Wanted} BY <2>1 DEF Uses, CacheInv, Txn
  <2>5. \A c : Met(c) => Met(c)' BY <2>4, MetStays
  <2>6. \A n \in DOMAIN DiffIds[Saved] : n < save.at + 1 => DiffIds[Saved][n] \in uses'["save"]
    <3> SUFFICES ASSUME NEW n \in DOMAIN DiffIds[Saved], n < save.at + 1
                 PROVE  DiffIds[Saved][n] \in uses'["save"]
        OBVIOUS
    <3>1. n < save.at \/ n = save.at BY <1>0, DeclaredLayers
    <3> QED BY <2>1, <2>4, <3>1 DEF SaveInv, Reconciling, Wanted
  <2> QED BY <1>0, <2>1, <2>3, <2>5, <2>6, SaveGoesOn DEF SaveInv, Reconciling
<1>3. CASE NotThere
  <2>1. CASE save.at > Len(ManifestLayers) \/ ManifestLayers[save.at] \notin save.seen \ Large
    <3>1. SaveFails("missing") BY <1>3, <2>1 DEF NotThere
    <3> QED BY <1>3, <2>1, <3>1, SaveFailure, MissedForCause DEF Cause
  <2>2. CASE /\ ~(save.at > Len(ManifestLayers) \/ ManifestLayers[save.at] \notin save.seen \ Large)
             /\ Holds[ManifestLayers[save.at]] # Wanted
    <3>1. SaveFails("mismatch") BY <1>3, <2>2 DEF NotThere
    <3>2. save.at \in DOMAIN DiffIds[Saved] BY <1>0, <1>3, DeclaredLayers DEF NotThere
    <3>3. save.at \in DOMAIN ManifestLayers BY <1>0, <2>2, StreamAssumption
    <3>4. Wrong(save.at) BY <2>2, <3>3 DEF Wrong, Wanted
    <3> QED BY <3>1, <3>2, <3>4, SaveFailure DEF Cause
  <2>3. CASE /\ ~(save.at > Len(ManifestLayers) \/ ManifestLayers[save.at] \notin save.seen \ Large)
             /\ Holds[ManifestLayers[save.at]] = Wanted
    <3>1. /\ save' = [save EXCEPT !.pc = "put"] /\ save.pc = "reconcile" /\ uses' = uses
          /\ save.at <= Len(DiffIds[Saved])
        BY <1>3, <2>3 DEF NotThere
    <3>2. /\ save'.pc = "put" /\ save'.seen = save.seen /\ save'.why = save.why
          /\ save'.at = save.at /\ save' \in Save
        BY <1>0, <3>1 DEF Save
    <3>3. \A c : Met(c) => Met(c)' BY <3>1, MetStays
    <3> QED BY <1>0, <3>1, <3>2, <3>3, SaveGoesOn DEF SaveInv, Reconciling
  <2> QED BY <2>1, <2>2, <2>3
<1>4. CASE PutBuffered
  <2>1. /\ save' = [save EXCEPT !.pc = "index"] /\ save.pc = "put"
        /\ uses' = [uses EXCEPT !["save"] = @ \cup {Wanted}]
      BY <1>4 DEF PutBuffered, PutLayer
  <2>2. /\ save'.pc = "index" /\ save'.seen = save.seen /\ save'.why = save.why
        /\ save'.at = save.at /\ save' \in Save
      BY <1>0, <2>1 DEF Save
  <2>3. uses'["save"] = uses["save"] \cup {Wanted} BY <2>1 DEF CacheInv, Txn
  <2>4. \A c : Met(c) => Met(c)' BY <2>3, MetStays
  <2>5. Wanted' = Wanted BY <2>2 DEF Wanted
  <2> QED BY <1>0, <2>1, <2>2, <2>3, <2>4, <2>5, SaveGoesOn DEF SaveInv, Reconciling
<1>5. CASE UseBuffered
  <2>1. save.pc = "index" /\ Wanted \in readable /\ UseLayer("save", Wanted)
        /\ save' = [Advanced(save) EXCEPT !.layersIndexed = @ + 1]
      BY <1>0, <1>5 DEF UseBuffered, SaveInv
  <2>2. /\ save'.pc = "reconcile" /\ save'.seen = save.seen /\ save'.why = save.why
        /\ save'.at = save.at + 1 /\ save' \in Save
    <3>1. save.layersIndexed + 1 \in Nat BY <1>0 DEF Save
    <3> QED BY <1>0, <2>1, <3>1 DEF Save, Advanced
  <2>3. uses'["save"] = uses["save"] \cup {Wanted}
      BY <2>1 DEF UseLayer, Uses, CacheInv, Txn
  <2>4. \A c : Met(c) => Met(c)' BY <2>3, MetStays
  <2>5. \A n \in DOMAIN DiffIds[Saved] : n < save.at + 1 => DiffIds[Saved][n] \in uses'["save"]
    <3> SUFFICES ASSUME NEW n \in DOMAIN DiffIds[Saved], n < save.at + 1
                 PROVE  DiffIds[Saved][n] \in uses'["save"]
        OBVIOUS
    <3>1. n < save.at \/ n = save.at BY <1>0, DeclaredLayers
    <3> QED BY <2>1, <2>3, <3>1 DEF SaveInv, Reconciling, Wanted
  <2> QED BY <1>0, <2>1, <2>2, <2>4, <2>5, SaveGoesOn DEF SaveInv, Reconciling
<1>6. CASE Reconciled
  <2>1. /\ save' = [save EXCEPT !.pc = "commit"] /\ save.pc = "reconcile" /\ uses' = uses
        /\ save.at > Len(DiffIds[Saved])
      BY <1>6 DEF Reconciled
  <2>2. /\ save'.pc = "commit" /\ save'.seen = save.seen /\ save'.why = save.why
        /\ save'.at = save.at /\ save' \in Save
      BY <1>0, <2>1 DEF Save
  <2>3. \A c : Met(c) => Met(c)' BY <2>1, MetStays
  <2> QED BY <1>0, <2>1, <2>2, <2>3, SaveGoesOn DEF SaveInv, Reconciling
<1>7. CASE SaveCommit
  <2>1. save.pc = "commit" BY <1>7 DEF SaveCommit
  <2>2. LayersOf[Saved] \subseteq readable
    <3> SUFFICES ASSUME NEW n \in DOMAIN DiffIds[Saved] PROVE DiffIds[Saved][n] \in readable
        BY DeclaredLayers
    <3>1. n < save.at BY <1>0, <2>1, DeclaredLayers DEF SaveInv
    <3> QED BY <1>0, <2>1, <3>1 DEF SaveInv, Reconciling
  <2>3. save' = [save EXCEPT !.pc = "stored"] BY <1>7, <2>2 DEF SaveCommit
  <2>4. /\ save'.pc = "stored" /\ save'.why = save.why /\ save'.at = save.at /\ save' \in Save
      BY <1>0, <2>3 DEF Save
  <2> QED BY <1>0, <2>1, <2>4, SaveGoesOn DEF Reconciling
<1>8. CASE SaveReadBack
  <2>1. CASE Saved \in Catalog!Listed
    <3>1. save' = [save EXCEPT !.pc = "done"] /\ save.pc = "stored"
        BY <1>8, <2>1 DEF SaveReadBack
    <3>2. /\ save'.pc = "done" /\ save'.why = save.why /\ save'.at = save.at /\ save' \in Save
        BY <1>0, <3>1 DEF Save
    <3> QED BY <1>0, <3>1, <3>2, SaveGoesOn DEF Reconciling
  <2>2. CASE Saved \notin Catalog!Listed
    <3>1. SaveFails("evicted") BY <1>8, <2>2 DEF SaveReadBack
    <3> QED BY <3>1, SaveFailure DEF Cause
  <2> QED BY <2>1, <2>2
<1>9. CASE SaveFault
  <2>1. SaveFails("fault") BY <1>9 DEF SaveFault
  <2> QED BY <2>1, SaveFailure DEF Cause
<1> QED BY <1>1, <1>2, <1>3, <1>4, <1>5, <1>6, <1>7, <1>8, <1>9 DEF Settles

-------------------------------------------------------------------------------
(* Ingest.                                                                   *)

\* The invariant is about the ingest and its transaction only.
LEMMA PullFrame == ASSUME PullInv, pull' = pull, uses'["pull"] = uses["pull"] PROVE PullInv'
BY DEF PullInv, Fetched

\* A failed ingest holds nothing, and has no reason not to.
LEMMA PullFailure == ASSUME NEW w \in Cause, w # "vanished", PullFails(w) PROVE PullInv'
<1>1. pull' = [NoPull EXCEPT !.pc = "failed", !.why = w] BY DEF PullFails
<1>2. pull'.pc = "failed" /\ pull'.why = w /\ pull'.at = 1 BY <1>1 DEF NoPull
<1>3. pull' \in Pull
  <2>1. w \in Why BY DEF Why
  <2> HIDE DEF Cause
  <2> QED BY <1>1, <2>1 DEF NoPull, Pull
<1> QED BY <1>2, <1>3 DEF PullInv

\* Each layer is in use before the next one is looked at.
LEMMA PullKept == ASSUME IInv, PullStep \/ PullGivesUp \/ PullFault PROVE PullInv'
<1> USE DEF IInv
<1>0. /\ pull \in Pull /\ pull.at \in Nat /\ pull.at >= 1 /\ pull.at + 1 \in Nat
      /\ uses["pull"] \subseteq readable
    BY DEF PullInv, Pull, CacheInv, Txn
<1>1. CASE PullBegin \/ PullOpen \/ PullClose
  <2>1. PICK p \in {"stored", "use", "read", "close"} : PullMoves(p)
      BY <1>1 DEF PullBegin, PullOpen, PullClose
  <2>2. pull'.pc = p /\ pull'.at = pull.at /\ pull'.why = pull.why /\ pull' \in Pull
      BY <1>0, <2>1 DEF PullMoves, Pull
  <2>3. uses' = uses BY <1>1 DEF PullBegin, PullOpen, PullClose
  <2>4. CASE PullBegin
    <3>1. pull.pc = "idle" /\ p \in {"stored", "use"} BY <1>0, <2>2, <2>4 DEF PullBegin, PullMoves, Pull
    <3>2. pull.at = 1 BY <3>1 DEF PullInv
    <3>3. \A n \in DOMAIN DiffIds[Pulled] : ~(n < 1) BY DeclaredLayers
    <3> QED BY <2>2, <3>1, <3>2, <3>3 DEF PullInv
  <2>5. CASE PullOpen
    <3>1. pull.pc = "use" /\ p = "read" /\ pull.at <= Len(DiffIds[Pulled])
        BY <1>0, <2>2, <2>5 DEF PullOpen, PullMoves, Pull
    <3> QED BY <2>2, <2>3, <3>1 DEF PullInv
  <2>6. CASE PullClose
    <3>1. pull.pc = "read" /\ p = "close" BY <1>0, <2>2, <2>6 DEF PullClose, PullMoves, Pull
    <3> QED BY <2>2, <2>3, <3>1 DEF PullInv
  <2> QED BY <1>1, <2>4, <2>5, <2>6
<1>2. CASE PullIndexed
  <2>1. CASE reader.end = "eof" /\ read = BodySize
    <3>1. pull' = [pull EXCEPT !.pc = "put"] /\ pull.pc = "close" /\ uses' = uses
        BY <1>2, <2>1 DEF PullIndexed, PullMoves
    <3>2. pull'.pc = "put" /\ pull'.at = pull.at /\ pull'.why = pull.why /\ pull' \in Pull
        BY <1>0, <3>1 DEF Pull
    <3> QED BY <3>1, <3>2 DEF PullInv
  <2>2. CASE ~(reader.end = "eof" /\ read = BodySize)
    <3>1. PullFails("stalled") \/ PullFails("mismatch") \/ PullFails("fault")
        BY <1>2, <2>2 DEF PullIndexed
    <3> QED BY <3>1, PullFailure DEF Cause
  <2> QED BY <2>1, <2>2
<1>3. CASE PullPut
  <2>1. /\ pull' = [pull EXCEPT !.pc = "again"] /\ pull.pc = "put"
        /\ uses' = [uses EXCEPT !["pull"] = @ \cup {Fetched}]
      BY <1>3 DEF PullPut, PullMoves, PutLayer
  <2>2. pull'.pc = "again" /\ pull'.at = pull.at /\ pull'.why = pull.why /\ pull' \in Pull
      BY <1>0, <2>1 DEF Pull
  <2>3. uses'["pull"] = uses["pull"] \cup {Fetched} BY <2>1 DEF CacheInv, Txn
  <2>4. Fetched' = Fetched BY <2>2 DEF Fetched
  <2> QED BY <2>1, <2>2, <2>3, <2>4 DEF PullInv
<1>4. CASE PullUse \/ PullAgain
  <2>1. UseLayer("pull", Fetched) /\ pull.pc \in {"use", "again"}
      BY <1>0, <1>4 DEF PullUse, PullAgain, PullInv
  <2>2. pull'.pc = "use" /\ pull'.at = pull.at + 1 /\ pull'.why = pull.why /\ pull' \in Pull
    <3>1. pull' = [pull EXCEPT !.pc = "use", !.at = @ + 1]
        BY <1>0, <1>4 DEF PullUse, PullAgain, Pull, PullInv
    <3> QED BY <1>0, <3>1 DEF Pull
  <2>3. uses'["pull"] = uses["pull"] \cup {Fetched} BY <2>1 DEF UseLayer, Uses, CacheInv, Txn
  <2>4. \A n \in DOMAIN DiffIds[Pulled] : n < pull.at + 1 => DiffIds[Pulled][n] \in uses'["pull"]
    <3> SUFFICES ASSUME NEW n \in DOMAIN DiffIds[Pulled], n < pull.at + 1
                 PROVE  DiffIds[Pulled][n] \in uses'["pull"]
        OBVIOUS
    <3>1. n < pull.at \/ n = pull.at BY <1>0, DeclaredLayers
    <3> QED BY <2>1, <2>3, <3>1 DEF PullInv, Fetched
  <2> QED BY <1>0, <2>2, <2>4 DEF PullInv
<1>5. CASE PullCommit
  <2>1. pull.pc = "use" /\ pull.at > Len(DiffIds[Pulled]) BY <1>5 DEF PullCommit
  <2>2. LayersOf[Pulled] \subseteq readable
    <3> SUFFICES ASSUME NEW n \in DOMAIN DiffIds[Pulled] PROVE DiffIds[Pulled][n] \in readable
        BY DeclaredLayers
    <3>1. n < pull.at BY <1>0, <2>1, DeclaredLayers
    <3> QED BY <1>0, <2>1, <3>1 DEF PullInv
  <2>3. pull' = [pull EXCEPT !.pc = "stored"] BY <1>5, <2>2 DEF PullCommit, PullMoves
  <2>4. pull'.pc = "stored" /\ pull'.at = pull.at /\ pull'.why = pull.why /\ pull' \in Pull
      BY <1>0, <2>3 DEF Pull
  <2> QED BY <2>4 DEF PullInv
<1>6. CASE PullReadBack
  <2>1. CASE Pulled \in Catalog!Listed
    <3>1. pull' = [pull EXCEPT !.pc = "done"] BY <1>6, <2>1 DEF PullReadBack, PullMoves
    <3>2. pull'.pc = "done" /\ pull'.at = pull.at /\ pull'.why = pull.why /\ pull' \in Pull
        BY <1>0, <3>1 DEF Pull
    <3> QED BY <3>2 DEF PullInv
  <2>2. CASE Pulled \notin Catalog!Listed
    <3>1. PullFails("evicted") BY <1>6, <2>2 DEF PullReadBack
    <3> QED BY <3>1, PullFailure DEF Cause
  <2> QED BY <2>1, <2>2
<1>7. CASE PullFault
  <2>1. PullFails("fault") BY <1>7 DEF PullFault
  <2> QED BY <2>1, PullFailure DEF Cause
<1> QED BY <1>1, <1>2, <1>3, <1>4, <1>5, <1>6, <1>7
        DEF PullStep, PullGivesUp, PullEnds

-------------------------------------------------------------------------------
(* The theorems.                                                             *)

\* The initial state: nothing is cached, nobody has begun.
LEMMA InitInv == ASSUME Init PROVE IInv
<1> USE DEF Init
<1>1. GuardInv
  <2>1. /\ sent = 0 /\ read = 0 /\ line = "up"
        /\ tripped \in BOOLEAN /\ cancelled \in BOOLEAN /\ closed \in BOOLEAN
        /\ cancelled => closed
      BY Zenon DEF GuardInit
  <2>2. watchdog \in Watchdog /\ watchdog.pc = "gone" BY DEF GuardInit, Watchdog
  <2>3. reader \in Reader /\ reader.pc = "over" /\ reader.end = None
      BY DEF GuardInit, Reader, End
  <2> QED BY <2>1, <2>2, <2>3, BodySizeAssumption, NoEndAssumption
          DEF GuardInv, GuardOK, EofMeansWhole
<1>2. CacheInv BY DEF CacheInv, Catalog!Init, Catalog!Status, Txn
<1>3. SaveInv
  <2>1. save = NoSave /\ save \in Save BY NoSaveTyped
  <2>2. save.pc = "idle" /\ save.seen = {} /\ save.at = 1 /\ save.why = None
      BY <2>1 DEF NoSave
  <2> QED BY <2>1, <2>2, NoCauseAssumption DEF SaveInv, Reconciling, Cause
<1>4. PullInv
  <2>1. pull = NoPull /\ pull \in Pull BY DEF NoPull, Pull, Why
  <2>2. pull.pc = "idle" /\ pull.at = 1 /\ pull.why = None BY <2>1 DEF NoPull
  <2> QED BY <2>1, <2>2, NoCauseAssumption DEF PullInv, Cause
<1> QED BY <1>1, <1>2, <1>3, <1>4 DEF IInv

\* Every step keeps the invariant.
LEMMA NextInv == ASSUME IInv, [Next]_vars PROVE IInv'
<1>1. GuardInv' BY GuardMoves, GuardKept DEF IInv
<1>2. CASE SaveBegin \/ SaveStep \/ SaveFault
  <2>1. TxnStep("save") /\ pull' = pull BY <1>2, SaveTxn
  <2>2. CacheInv' /\ uses'["pull"] = uses["pull"] BY <2>1, CacheKept DEF IInv, Txn
  <2>3. PullInv' BY <2>1, <2>2, PullFrame DEF IInv
  <2>4. Meets \/ Settles BY <1>2 DEF SaveStep, Meets, Settles
  <2> QED BY <1>1, <2>2, <2>3, <2>4, MeetsKept, SettlesKept DEF IInv
<1>3. CASE PullStep \/ PullGivesUp \/ PullFault
  <2>1. TxnStep("pull") /\ save' = save BY <1>3, PullTxn
  <2>2. CacheInv' /\ uses'["save"] = uses["save"] BY <2>1, CacheKept DEF IInv, Txn
  <2>3. SaveInv' BY <2>1, <2>2, SaveFrame DEF IInv
  <2> QED BY <1>1, <1>3, <2>2, <2>3, PullKept DEF IInv
<1>4. CASE BodyStep \/ CacheStep \/ UNCHANGED vars
  <2>1. uses' = uses /\ save' = save /\ pull' = pull
      BY <1>4 DEF BodyStep, CacheStep, vars
  <2>2. CacheInv'
    <3>1. CASE CacheStep BY <3>1, OthersKeepCache DEF IInv
    <3>2. CASE UNCHANGED cache BY <2>1, <3>2 DEF IInv, CacheInv, cache
    <3> QED BY <1>4, <3>1, <3>2 DEF BodyStep, vars, cache
  <2> QED BY <1>1, <2>1, <2>2, SaveFrame, PullFrame DEF IInv
<1> QED BY <1>2, <1>3, <1>4 DEF Next

\* The invariant holds throughout.
LEMMA Sound == Spec => []IInv
<1> QED BY InitInv, NextInv, PTL DEF Spec

\* Type correctness, with the budgets of the save stream: the members it has
\* looked at and the small ones it has buffered stay within their limits.
THEOREM IngestTyped == Spec => []TypeOK
<1>1. IInv => TypeOK BY DEF IInv, GuardInv, CacheInv, SaveInv, PullInv, TypeOK
<1> QED BY <1>1, Sound, PTL

\* No ingest fails because the cache took back a layer it had counted on, or over
\* a stream that had all it needed: whatever the other ingests store and evict.
THEOREM IngestsFailForCause == Spec => []FailsForCause
<1>1. IInv => FailsForCause BY DEF IInv, SaveInv, PullInv, FailsForCause
<1> QED BY <1>1, Sound, PTL

\* No short body is handed out as a whole one, at whatever moment of a Read the
\* watchdog strikes and whatever its rate, except to a caller that has left.
THEOREM ShortBodiesShow == Spec => []EofMeansWhole
<1>1. IInv => EofMeansWhole BY DEF IInv, GuardInv
<1> QED BY <1>1, Sound, PTL

-------------------------------------------------------------------------------
(* What a finished save reports.                                             *)

\* The stream keeps its word: a listed blob holds the layer its place declares,
\* and no two large blobs hold the same layer.
HonestStream ==
    /\ \A n \in DOMAIN ManifestLayers \cap DOMAIN DiffIds[Saved] :
            Holds[ManifestLayers[n]] = DiffIds[Saved][n]
    /\ \A b, c \in Large : Holds[b] # None /\ Holds[b] = Holds[c] => b = c

\* The large blobs whose layer has been dealt with as they went by, and the
\* declared layers dealt with later.
GoneBy == {b \in save.seen \cap Large :
                Holds[b] # None /\ ~(save.pc = "large" /\ save.member = b)}
Found == {n \in DOMAIN DiffIds[Saved] : n < save.at /\ DiffIds[Saved][n] \notin save.indexed}

\* As long as no member has come twice, each blob gone by and each layer found
\* later counts once.
CountInv ==
    save.pc # "failed" =>
        /\ IsFiniteSet(save.seen) /\ Cardinality(save.seen) <= save.members
        /\ save.pc \in {"idle", "next", "large"} \cup Reconciling => save.indexed \subseteq uses["save"]
        /\ save.pc \in {"put", "index"} => Wanted \notin save.indexed
        /\ save.pc \in {"commit", "stored", "done"} => save.at > Len(DiffIds[Saved])
        /\ save.members = Cardinality(save.seen) =>
            /\ save.indexed = {Holds[b] : b \in GoneBy}
            /\ save.layersIndexed + save.layersSkipped
                    = Cardinality(GoneBy) + Cardinality(Found)

\* What is counted is finite.
LEMMA CountsFinite ==
    ASSUME IsFiniteSet(save.seen)
    PROVE  /\ IsFiniteSet(GoneBy) /\ Cardinality(GoneBy) \in Nat
           /\ IsFiniteSet(Found) /\ Cardinality(Found) \in Nat
<1>1. GoneBy \in SUBSET save.seen BY DEF GoneBy
<1>2. Found \in SUBSET (1..Len(DiffIds[Saved])) BY DeclaredLayers DEF Found
<1>3. IsFiniteSet(1..Len(DiffIds[Saved])) BY SMTT(20), DeclaredLayers, FS_Interval
<1> HIDE DEF GoneBy, Found
<1> QED BY <1>1, <1>2, <1>3, FS_Subset, FS_CardinalityType

\* A member that leaves no more members than names has not come before, and
\* neither has any other.
LEMMA FirstTime ==
    ASSUME NEW S, IsFiniteSet(S), NEW n \in Nat, Cardinality(S) <= n, NEW m
    PROVE  /\ IsFiniteSet(S \cup {m}) /\ Cardinality(S \cup {m}) <= n + 1
           /\ n + 1 = Cardinality(S \cup {m}) => n = Cardinality(S) /\ m \notin S
<1>1. Cardinality(S) \in Nat BY FS_CardinalityType
<1>2. /\ IsFiniteSet(S \cup {m})
      /\ Cardinality(S \cup {m}) = IF m \in S THEN Cardinality(S) ELSE Cardinality(S) + 1
    BY FS_AddElement
<1> QED BY <1>1, <1>2

\* A step that leaves the parser's counters alone leaves what they count alone.
LEMMA CountsStay ==
    ASSUME save'.seen = save.seen, save'.indexed = save.indexed, save'.at = save.at,
           save.pc # "large", save'.pc # "large"
    PROVE  GoneBy' = GoneBy /\ Found' = Found
BY DEF GoneBy, Found

\* The layer at hand joins those found later, unless the stream had brought it.
LEMMA FoundGrows ==
    ASSUME save \in Save, save'.indexed = save.indexed, save'.at = save.at + 1,
           save.at >= 1, save.at <= Len(DiffIds[Saved])
    PROVE  /\ save.at \notin Found
           /\ Found' = IF Wanted \in save.indexed THEN Found ELSE Found \cup {save.at}
<1>1. save.at \in Nat BY DEF Save
<1>2. /\ save.at \in DOMAIN DiffIds[Saved]
      /\ \A n \in DOMAIN DiffIds[Saved] : n \in Nat /\ (n < save.at + 1 <=> n < save.at \/ n = save.at)
    BY <1>1, DeclaredLayers
<1>3. Found' = {n \in DOMAIN DiffIds[Saved] :
                    (n < save.at \/ n = save.at) /\ DiffIds[Saved][n] \notin save.indexed}
    BY <1>2 DEF Found
<1>4. ~(save.at < save.at) BY <1>1
<1> QED BY <1>2, <1>3, <1>4 DEF Found, Wanted

\* The counts hold while the stream is read ...
LEMMA MeetsCounted == ASSUME HonestStream, IInv, CountInv, Meets PROVE CountInv'
<1>0. /\ save \in Save /\ save.at \in Nat /\ save.members \in Nat
      /\ save.layersIndexed \in Nat /\ save.layersSkipped \in Nat
      /\ save.seen \in SUBSET (Metadata \cup Blob) /\ save.indexed \in SUBSET Layer
    BY StreamAssumption DEF IInv, SaveInv, Save
<1>1. save.pc \in {"idle", "next", "large"} => save.at = 1 /\ Found = {}
    BY DeclaredLayers DEF IInv, SaveInv, Found
<1>2. CASE SaveBegin
  <2>1. /\ save' = [save EXCEPT !.pc = "next"] /\ save.pc = "idle" /\ uses' = uses
      BY <1>2 DEF SaveBegin
  <2>2. /\ save'.pc = "next" /\ save'.seen = save.seen /\ save'.indexed = save.indexed
        /\ save'.at = save.at /\ save'.members = save.members
        /\ save'.layersIndexed = save.layersIndexed /\ save'.layersSkipped = save.layersSkipped
      BY <1>0, <2>1 DEF Save
  <2> QED BY <2>1, <2>2, CountsStay DEF CountInv, Reconciling
<1>3. CASE Passed
  <2>1. /\ save' = [save EXCEPT !.members = Counted] /\ save.pc = "next" /\ uses' = uses
      BY <1>3 DEF Passed
  <2>2. /\ save'.pc = "next" /\ save'.seen = save.seen /\ save'.indexed = save.indexed
        /\ save'.members = save.members + 1
      BY <1>0, <2>1 DEF Save, Counted
  <2>3. Cardinality(save.seen) \in Nat /\ Cardinality(save.seen) <= save.members
      BY <2>1, FS_CardinalityType DEF CountInv
  <2> QED BY <1>0, <2>1, <2>2, <2>3 DEF CountInv, Reconciling
<1>4. ASSUME NEW m \in Metadata \cup (Blob \ Large), Buffer(m) PROVE CountInv'
  <2>1. CASE SmallFull
    <3>1. save'.pc = "failed" BY <1>4, <2>1 DEF Buffer, SaveFails, NoSave
    <3> QED BY <3>1 DEF CountInv
  <2>2. CASE ~SmallFull
    <3> DEFINE known == save.known \/ Resolves(save.seen \cup {m})
    <3>1. /\ save' = [save EXCEPT !.seen = @ \cup {m}, !.members = Counted, !.small = @ + 1,
                                  !.known = known]
          /\ save.pc = "next" /\ uses' = uses /\ m \notin Large
        BY <1>4, <2>2 DEF Buffer
    <3> HIDE DEF known
    <3>2. /\ save'.pc = "next" /\ save'.seen = save.seen \cup {m} /\ save'.indexed = save.indexed
          /\ save'.at = save.at /\ save'.members = save.members + 1
          /\ save'.layersIndexed = save.layersIndexed /\ save'.layersSkipped = save.layersSkipped
        BY <1>0, <3>1 DEF Save, Counted
    <3>3. GoneBy' = GoneBy /\ Found' = Found BY <3>1, <3>2 DEF GoneBy, Found
    <3>4. IsFiniteSet(save.seen) /\ Cardinality(save.seen) <= save.members
        BY <3>1 DEF CountInv
    <3>5. /\ IsFiniteSet(save'.seen) /\ Cardinality(save'.seen) <= save'.members
          /\ save'.members = Cardinality(save'.seen) => save.members = Cardinality(save.seen)
        BY SMTT(20), <1>0, <3>2, <3>4, FirstTime
    <3> QED BY <3>1, <3>2, <3>3, <3>5 DEF CountInv, Reconciling
  <2> QED BY <2>1, <2>2
<1>5. ASSUME NEW b \in Blob, Drain(b) PROVE CountInv'
  <2>1. /\ save' = Drained(save, b) /\ save.pc = "next" /\ b \in Large
        /\ uses' = Uses("save", Declared(b)) /\ Declared(b) \in Layer
      BY <1>5 DEF Drain, UseLayer, IInv, CacheInv
  <2>2. Declared(b) = Holds[b] /\ Holds[b] # None
    <3>1. Declared(b) # None BY <2>1, ImagesAssumption
    <3> QED BY <3>1, DeclaredWhere DEF HonestStream
  <2>3. /\ save'.pc = "next" /\ save'.seen = save.seen \cup {b}
        /\ save'.indexed = save.indexed \cup {Holds[b]}
        /\ save'.at = save.at /\ save'.members = save.members + 1
        /\ save'.layersIndexed = save.layersIndexed /\ save'.layersSkipped = save.layersSkipped + 1
      BY <1>0, <2>1, <2>2 DEF Save, Drained, Counted
  <2>4. uses'["save"] = uses["save"] \cup {Holds[b]}
      BY <2>1, <2>2 DEF Uses, IInv, CacheInv, Txn
  <2>5. Found' = {} BY <1>1, <2>1, <2>3, DeclaredLayers DEF Found
  <2>6. GoneBy' = GoneBy \cup {b} BY <2>1, <2>2, <2>3 DEF GoneBy
  <2>7. IsFiniteSet(save.seen) /\ Cardinality(save.seen) <= save.members
      BY <2>1 DEF CountInv
  <2>8. /\ IsFiniteSet(save'.seen) /\ Cardinality(save'.seen) <= save'.members
        /\ save'.members = Cardinality(save'.seen)
                => save.members = Cardinality(save.seen) /\ b \notin save.seen
      BY <1>0, <2>3, <2>7, FirstTime
  <2>9. ASSUME save'.members = Cardinality(save'.seen)
        PROVE  /\ save'.indexed = {Holds[c] : c \in GoneBy'}
               /\ save'.layersIndexed + save'.layersSkipped
                    = Cardinality(GoneBy') + Cardinality(Found')
    <3>1. /\ save.indexed = {Holds[c] : c \in GoneBy}
          /\ save.layersIndexed + save.layersSkipped = Cardinality(GoneBy) + Cardinality(Found)
        BY <2>1, <2>8, <2>9 DEF CountInv
    <3>2. b \notin GoneBy BY <2>8, <2>9 DEF GoneBy
    <3>3. Cardinality(GoneBy') = Cardinality(GoneBy) + 1 /\ Cardinality(GoneBy) \in Nat
        BY <2>6, <2>7, <3>2, CountsFinite, FS_AddElement
    <3>4. Cardinality(Found') = 0 /\ Cardinality(Found) = 0
        BY <1>1, <2>1, <2>5, FS_EmptySet
    <3> QED BY <1>0, <2>3, <2>6, <3>1, <3>3, <3>4
  <2> QED BY <2>1, <2>3, <2>4, <2>8, <2>9 DEF CountInv, Reconciling
<1>6. ASSUME NEW b \in Blob, Stream(b) PROVE CountInv'
  <2>1. /\ save' = [save EXCEPT !.pc = "large", !.seen = @ \cup {b}, !.members = Counted, !.member = b]
        /\ save.pc = "next" /\ uses' = uses /\ b \in Large
      BY <1>6 DEF Stream
  <2>2. /\ save'.pc = "large" /\ save'.member = b /\ save'.seen = save.seen \cup {b}
        /\ save'.indexed = save.indexed
        /\ save'.at = save.at /\ save'.members = save.members + 1
        /\ save'.layersIndexed = save.layersIndexed /\ save'.layersSkipped = save.layersSkipped
      BY <1>0, <2>1 DEF Save, Counted
  <2>3. IsFiniteSet(save.seen) /\ Cardinality(save.seen) <= save.members
      BY <2>1 DEF CountInv
  <2>4. /\ IsFiniteSet(save'.seen) /\ Cardinality(save'.seen) <= save'.members
        /\ save'.members = Cardinality(save'.seen)
                => save.members = Cardinality(save.seen) /\ b \notin save.seen
      BY <1>0, <2>2, <2>3, FirstTime
  <2>5. Found' = Found BY <2>2 DEF Found
  <2>6. b \notin save.seen => GoneBy' = GoneBy BY <2>1, <2>2 DEF GoneBy
  <2> QED BY <2>1, <2>2, <2>4, <2>5, <2>6 DEF CountInv, Reconciling
<1>7. CASE NotALayer
  <2>1. /\ save' = [save EXCEPT !.pc = "next", !.member = None] /\ save.pc = "large"
        /\ uses' = uses /\ Holds[save.member] = None
      BY <1>7 DEF NotALayer
  <2>2. /\ save'.pc = "next" /\ save'.seen = save.seen /\ save'.indexed = save.indexed
        /\ save'.at = save.at /\ save'.members = save.members
        /\ save'.layersIndexed = save.layersIndexed /\ save'.layersSkipped = save.layersSkipped
      BY <1>0, <2>1 DEF Save
  <2>3. GoneBy' = GoneBy /\ Found' = Found BY <2>1, <2>2 DEF GoneBy, Found
  <2> QED BY <2>1, <2>2, <2>3 DEF CountInv, Reconciling
<1>8. CASE PutStreamed
  <2> DEFINE b == save.member
  <2>1. /\ save' = [save EXCEPT !.pc = "next", !.member = None, !.layersIndexed = @ + 1,
                                !.indexed = @ \cup {Holds[b]}]
        /\ save.pc = "large" /\ uses' = [uses EXCEPT !["save"] = @ \cup {Holds[b]}]
        /\ Holds[b] # None /\ b \in save.seen \cap Large
      BY <1>8 DEF PutStreamed, PutLayer, IInv, SaveInv
  <2>2. /\ save'.pc = "next" /\ save'.seen = save.seen
        /\ save'.indexed = save.indexed \cup {Holds[b]}
        /\ save'.at = save.at /\ save'.members = save.members
        /\ save'.layersIndexed = save.layersIndexed + 1 /\ save'.layersSkipped = save.layersSkipped
      BY <1>0, <2>1 DEF Save
  <2>3. uses'["save"] = uses["save"] \cup {Holds[b]} BY <2>1 DEF IInv, CacheInv, Txn
  <2>4. Found' = {} BY <1>1, <2>1, <2>2, DeclaredLayers DEF Found
  <2>5. GoneBy' = GoneBy \cup {b} /\ b \notin GoneBy BY <2>1, <2>2 DEF GoneBy
  <2>6. IsFiniteSet(save.seen) BY <2>1 DEF CountInv
  <2>7. Cardinality(GoneBy') = Cardinality(GoneBy) + 1 /\ Cardinality(GoneBy) \in Nat
      BY <2>5, <2>6, CountsFinite, FS_AddElement
  <2>8. Cardinality(Found') = 0 /\ Cardinality(Found) = 0
      BY <1>1, <2>1, <2>4, FS_EmptySet
  <2> HIDE DEF b
  <2>9. ASSUME save'.members = Cardinality(save'.seen)
        PROVE  /\ save'.indexed = {Holds[c] : c \in GoneBy'}
               /\ save'.layersIndexed + save'.layersSkipped
                    = Cardinality(GoneBy') + Cardinality(Found')
    <3>1. /\ save.indexed = {Holds[c] : c \in GoneBy}
          /\ save.layersIndexed + save.layersSkipped = Cardinality(GoneBy) + Cardinality(Found)
        BY <2>1, <2>2, <2>9 DEF CountInv
    <3> QED BY <1>0, <2>2, <2>5, <2>7, <2>8, <3>1
  <2> QED BY <2>1, <2>2, <2>3, <2>9 DEF CountInv, Reconciling
<1>9. CASE EndOfStream
  <2>1. CASE Resolves(save.seen)
    <3>1. save' = [save EXCEPT !.pc = "reconcile"] /\ save.pc = "next" /\ uses' = uses
        BY <1>9, <2>1 DEF EndOfStream
    <3>2. /\ save'.pc = "reconcile" /\ save'.seen = save.seen /\ save'.indexed = save.indexed
          /\ save'.at = save.at /\ save'.members = save.members
          /\ save'.layersIndexed = save.layersIndexed /\ save'.layersSkipped = save.layersSkipped
        BY <1>0, <3>1 DEF Save
    <3> QED BY <3>1, <3>2, CountsStay DEF CountInv, Reconciling
  <2>2. CASE ~Resolves(save.seen)
    <3>1. save'.pc = "failed" BY <1>9, <2>2 DEF EndOfStream, SaveFails, NoSave
    <3> QED BY <3>1 DEF CountInv
  <2> QED BY <2>1, <2>2
<1> QED BY <1>2, <1>3, <1>4, <1>5, <1>6, <1>7, <1>8, <1>9 DEF Meets

\* ... and while the declared layers are looked up.
LEMMA SettlesCounted == ASSUME IInv, CountInv, Settles PROVE CountInv'
<1>0. /\ save \in Save /\ save.at \in Nat /\ save.at >= 1
      /\ save.layersIndexed \in Nat /\ save.layersSkipped \in Nat
      /\ uses["save"] \subseteq readable
    BY DEF IInv, SaveInv, Save, CacheInv, Txn
<1>1. ASSUME NEW w, SaveFails(w) PROVE CountInv'
  <2>1. save'.pc = "failed" BY <1>1 DEF SaveFails, NoSave
  <2> QED BY <2>1 DEF CountInv
<1>2. CASE Reconcile
  <2> DEFINE s == IF Wanted \in save.indexed THEN save
                  ELSE [save EXCEPT !.layersSkipped = @ + 1]
  <2>1. /\ save' = Advanced(s) /\ save.pc = "reconcile" /\ uses' = Uses("save", Wanted)
        /\ save.at <= Len(DiffIds[Saved])
      BY <1>2 DEF Reconcile, UseLayer
  <2>2. /\ s \in Save /\ s.at = save.at /\ s.seen = save.seen /\ s.indexed = save.indexed
        /\ s.members = save.members /\ s.layersIndexed = save.layersIndexed
        /\ s.layersSkipped = IF Wanted \in save.indexed THEN save.layersSkipped
                             ELSE save.layersSkipped + 1
    <3>1. save.layersSkipped + 1 \in Nat BY <1>0
    <3> QED BY <1>0, <3>1 DEF Save
  <2> HIDE DEF s
  <2>3. /\ save'.pc = "reconcile" /\ save'.seen = save.seen /\ save'.indexed = save.indexed
        /\ save'.at = save.at + 1 /\ save'.members = save.members
        /\ save'.layersIndexed = save.layersIndexed /\ save'.layersSkipped = s.layersSkipped
      BY <2>1, <2>2 DEF Save, Advanced
  <2>4. uses["save"] \subseteq uses'["save"] BY <2>1 DEF Uses, IInv, CacheInv, Txn
  <2>5. GoneBy' = GoneBy BY <2>1, <2>3 DEF GoneBy
  <2>6. /\ save.at \notin Found
        /\ Found' = IF Wanted \in save.indexed THEN Found ELSE Found \cup {save.at}
      BY <1>0, <2>1, <2>3, FoundGrows
  <2>7. IsFiniteSet(save.seen) BY <2>1 DEF CountInv
  <2>8. Cardinality(Found') = (IF Wanted \in save.indexed THEN Cardinality(Found)
                               ELSE Cardinality(Found) + 1)
      BY <2>6, <2>7, CountsFinite, FS_AddElement
  <2>9. Cardinality(GoneBy) \in Nat /\ Cardinality(Found) \in Nat BY <2>7, CountsFinite
  <2>10. save.members = Cardinality(save.seen) =>
            /\ save.indexed = {Holds[b] : b \in GoneBy'}
            /\ save'.layersIndexed + save'.layersSkipped
                    = Cardinality(GoneBy') + Cardinality(Found')
    <3> SUFFICES ASSUME save.members = Cardinality(save.seen)
                 PROVE  /\ save.indexed = {Holds[b] : b \in GoneBy}
                        /\ save'.layersIndexed + save'.layersSkipped
                                = Cardinality(GoneBy) + Cardinality(Found')
        BY <2>5
    <3>1. /\ save.indexed = {Holds[b] : b \in GoneBy}
          /\ save.layersIndexed + save.layersSkipped = Cardinality(GoneBy) + Cardinality(Found)
        BY <2>1 DEF CountInv
    <3> QED BY <1>0, <2>2, <2>3, <2>8, <2>9, <3>1
  <2> QED BY <2>1, <2>3, <2>4, <2>10 DEF CountInv, Reconciling
<1>3. CASE NotThere
  <2>1. CASE \E w : SaveFails(w) BY <1>1, <2>1
  <2>2. CASE save' = [save EXCEPT !.pc = "put"] /\ UNCHANGED <<cache, uses, pull, guard>>
    <3>1. save.pc = "reconcile" /\ uses' = uses /\ Wanted \notin readable
        BY <1>3, <2>2 DEF NotThere
    <3>2. /\ save'.pc = "put" /\ save'.seen = save.seen /\ save'.indexed = save.indexed
          /\ save'.at = save.at /\ save'.members = save.members
          /\ save'.layersIndexed = save.layersIndexed /\ save'.layersSkipped = save.layersSkipped
        BY <1>0, <2>2 DEF Save
    <3>3. Wanted' = Wanted /\ Wanted \notin save.indexed
        BY <1>0, <3>1, <3>2 DEF Wanted, CountInv, Reconciling
    <3> QED BY <3>1, <3>2, <3>3, CountsStay DEF CountInv, Reconciling
  <2> QED BY <1>3, <2>1, <2>2 DEF NotThere
<1>4. CASE PutBuffered
  <2>1. /\ save' = [save EXCEPT !.pc = "index"] /\ save.pc = "put"
        /\ uses' = [uses EXCEPT !["save"] = @ \cup {Wanted}]
      BY <1>4 DEF PutBuffered, PutLayer
  <2>2. /\ save'.pc = "index" /\ save'.seen = save.seen /\ save'.indexed = save.indexed
        /\ save'.at = save.at /\ save'.members = save.members
        /\ save'.layersIndexed = save.layersIndexed /\ save'.layersSkipped = save.layersSkipped
      BY <1>0, <2>1 DEF Save
  <2>3. uses["save"] \subseteq uses'["save"] BY <2>1 DEF IInv, CacheInv, Txn
  <2>4. Wanted' = Wanted BY <2>2 DEF Wanted
  <2> QED BY <2>1, <2>2, <2>3, <2>4, CountsStay DEF CountInv, Reconciling
<1>5. CASE UseBuffered
  <2>1. /\ save.pc = "index" /\ UseLayer("save", Wanted)
        /\ save' = [Advanced(save) EXCEPT !.layersIndexed = @ + 1]
        /\ save.at <= Len(DiffIds[Saved])
      BY <1>0, <1>5 DEF UseBuffered, IInv, SaveInv
  <2>2. /\ save'.pc = "reconcile" /\ save'.seen = save.seen /\ save'.indexed = save.indexed
        /\ save'.at = save.at + 1 /\ save'.members = save.members
        /\ save'.layersIndexed = save.layersIndexed + 1 /\ save'.layersSkipped = save.layersSkipped
      BY <1>0, <2>1 DEF Save, Advanced
  <2>3. uses["save"] \subseteq uses'["save"]
      BY <2>1 DEF UseLayer, Uses, IInv, CacheInv, Txn
  <2>4. GoneBy' = GoneBy BY <2>1, <2>2 DEF GoneBy
  <2>5. Wanted \notin save.indexed BY <2>1 DEF CountInv
  <2>6. save.at \notin Found /\ Found' = Found \cup {save.at}
      BY <1>0, <2>1, <2>2, <2>5, FoundGrows
  <2>7. IsFiniteSet(save.seen) BY <2>1 DEF CountInv
  <2>8. /\ Cardinality(Found') = Cardinality(Found) + 1
        /\ Cardinality(GoneBy) \in Nat /\ Cardinality(Found) \in Nat
      BY <2>6, <2>7, CountsFinite, FS_AddElement
  <2>9. save.members = Cardinality(save.seen) =>
            /\ save.indexed = {Holds[b] : b \in GoneBy'}
            /\ save'.layersIndexed + save'.layersSkipped
                    = Cardinality(GoneBy') + Cardinality(Found')
    <3> SUFFICES ASSUME save.members = Cardinality(save.seen)
                 PROVE  /\ save.indexed = {Holds[b] : b \in GoneBy}
                        /\ save'.layersIndexed + save'.layersSkipped
                                = Cardinality(GoneBy) + Cardinality(Found')
        BY <2>4
    <3>1. /\ save.indexed = {Holds[b] : b \in GoneBy}
          /\ save.layersIndexed + save.layersSkipped = Cardinality(GoneBy) + Cardinality(Found)
        BY <2>1 DEF CountInv
    <3> QED BY <1>0, <2>2, <2>8, <3>1
  <2> QED BY <2>1, <2>2, <2>3, <2>9 DEF CountInv, Reconciling
<1>6. CASE Reconciled
  <2>1. /\ save' = [save EXCEPT !.pc = "commit"] /\ save.pc = "reconcile" /\ uses' = uses
        /\ save.at > Len(DiffIds[Saved])
      BY <1>6 DEF Reconciled
  <2>2. /\ save'.pc = "commit" /\ save'.seen = save.seen /\ save'.indexed = save.indexed
        /\ save'.at = save.at /\ save'.members = save.members
        /\ save'.layersIndexed = save.layersIndexed /\ save'.layersSkipped = save.layersSkipped
      BY <1>0, <2>1 DEF Save
  <2> QED BY <2>1, <2>2, CountsStay DEF CountInv, Reconciling
<1>7. CASE SaveCommit \/ SaveReadBack
  <2>1. CASE \E w : SaveFails(w) BY <1>1, <2>1
  <2>2. CASE \E p \in {"stored", "done"} : save' = [save EXCEPT !.pc = p]
    <3>1. PICK p \in {"stored", "done"} : save' = [save EXCEPT !.pc = p] BY <2>2
    <3>2. /\ save'.pc = p /\ save'.seen = save.seen /\ save'.indexed = save.indexed
          /\ save'.at = save.at /\ save'.members = save.members
          /\ save'.layersIndexed = save.layersIndexed /\ save'.layersSkipped = save.layersSkipped
        BY <1>0, <3>1 DEF Save
    <3>3. save.pc \in {"commit", "stored"} BY <1>7 DEF SaveCommit, SaveReadBack
    <3> QED BY <3>2, <3>3, CountsStay DEF CountInv, Reconciling
  <2> QED BY <1>7, <2>1, <2>2 DEF SaveCommit, SaveReadBack
<1> QED BY <1>1, <1>2, <1>3, <1>4, <1>5, <1>6, <1>7 DEF Settles, TooMany, SaveFault

\* The counts hold throughout.
LEMMA CountsHold == ASSUME HonestStream PROVE Spec => []CountInv
<1>1. Init => CountInv
  <2> SUFFICES ASSUME Init PROVE CountInv OBVIOUS
  <2>1. /\ save.pc = "idle" /\ save.seen = {} /\ save.members = 0 /\ save.indexed = {}
        /\ save.at = 1 /\ save.layersIndexed = 0 /\ save.layersSkipped = 0
      BY DEF Init, NoSave
  <2>2. GoneBy = {} /\ Found = {} BY <2>1, DeclaredLayers DEF GoneBy, Found
  <2>3. uses["save"] = {} BY DEF Init, Txn
  <2> QED BY <2>1, <2>2, <2>3, FS_EmptySet DEF CountInv, Reconciling
<1>2. ASSUME IInv, CountInv, [Next]_vars PROVE CountInv'
  <2>1. CASE SaveBegin \/ SaveStep \/ SaveFault
    <3>1. Meets \/ Settles BY <2>1 DEF SaveStep, Meets, Settles
    <3> QED BY <1>2, <3>1, MeetsCounted, SettlesCounted
  <2>2. CASE PullStep \/ PullGivesUp \/ PullFault
    <3>1. TxnStep("pull") /\ save' = save BY <1>2, <2>2, PullTxn
    <3>2. uses'["save"] = uses["save"] BY <1>2, <3>1, CacheKept DEF IInv, Txn
    <3> QED BY <1>2, <3>1, <3>2 DEF CountInv, GoneBy, Found, Wanted, Reconciling
  <2>3. CASE BodyStep \/ CacheStep \/ UNCHANGED vars
    <3>1. uses' = uses /\ save' = save BY <2>3 DEF BodyStep, CacheStep, vars
    <3> QED BY <1>2, <3>1 DEF CountInv, GoneBy, Found, Wanted, Reconciling
  <2> QED BY <1>2, <2>1, <2>2, <2>3 DEF Next
<1> QED BY <1>1, <1>2, Sound, PTL DEF Spec

\* The blobs gone by that hold a declared layer are as many as the declared
\* layers they hold, if neither repeats: the rest of the one are strangers, the
\* rest of the other are found later.
LEMMA Tally ==
    ASSUME HonestStream, Len(DiffIds[Saved]) = Cardinality(LayersOf[Saved]),
           NEW C, C \subseteq Large, IsFiniteSet(C), \A b \in C : Holds[b] # None
    PROVE  Cardinality(C) + Cardinality({n \in DOMAIN DiffIds[Saved] :
                                            DiffIds[Saved][n] \notin {Holds[b] : b \in C}})
                = Len(DiffIds[Saved]) + Cardinality({b \in C : Holds[b] \notin LayersOf[Saved]})
<1> DEFINE D == DOMAIN DiffIds[Saved]
           l(n) == DiffIds[Saved][n]
           S == {b \in C : Holds[b] \notin LayersOf[Saved]}
           P == {n \in D : l(n) \in {Holds[b] : b \in C}}
           Q == {n \in D : l(n) \notin {Holds[b] : b \in C}}
           f == [n \in D |-> l(n)]
           g == [n \in P |-> CHOOSE b \in C : Holds[b] = l(n)]
<1>1. IsFiniteSet(D) /\ Cardinality(D) = Len(DiffIds[Saved])
  <2>1. PICK n \in Nat : n = Len(DiffIds[Saved]) /\ D = 1..n BY DeclaredLayers
  <2>2. IsFiniteSet(1..n) /\ Cardinality(1..n) = n BY FS_Interval
  <2> QED BY <2>1, <2>2
<1>2. \A m, n \in D : l(m) = l(n) => m = n
  <2>1. f \in Surjection(D, LayersOf[Saved]) BY DeclaredLayers DEF Surjection
  <2>2. f \in Injection(D, LayersOf[Saved])
    <3> HIDE DEF f, D
    <3> QED BY <1>1, <2>1, FS_Surjection
  <2>3. \A m, n \in D : f[m] = f[n] => m = n BY <2>2 DEF Injection, IsInjective
  <2> QED BY <2>3
<1>3. g \in Bijection(P, C \ S)
  <2>1. \A n \in P : g[n] \in C \ S /\ Holds[g[n]] = l(n)
    <3> SUFFICES ASSUME NEW n \in P PROVE g[n] \in C \ S /\ Holds[g[n]] = l(n) OBVIOUS
    <3>1. \E b \in C : Holds[b] = l(n) OBVIOUS
    <3>2. g[n] \in C /\ Holds[g[n]] = l(n) BY <3>1
    <3>3. l(n) \in LayersOf[Saved] BY DeclaredLayers
    <3> QED BY <3>2, <3>3
  <2>2. \A m, n \in P : g[m] = g[n] => m = n BY <1>2, <2>1
  <2>3. \A b \in C \ S : \E n \in P : g[n] = b
    <3> SUFFICES ASSUME NEW b \in C \ S PROVE \E n \in P : g[n] = b OBVIOUS
    <3>1. PICK n \in D : Holds[b] = l(n) BY DeclaredLayers
    <3>2. n \in P BY <3>1
    <3>3. g[n] = b BY <2>1, <3>1, <3>2 DEF HonestStream
    <3> QED BY <3>2, <3>3
  <2>4. g \in [P -> C \ S] BY <2>1
  <2> HIDE DEF g, P, S
  <2> QED BY <2>2, <2>3, <2>4 DEF Bijection, Injection, Surjection, IsInjective
<1>4. P \in SUBSET D /\ S \in SUBSET C /\ D \cap P = P /\ C \cap S = S /\ Q = D \ P
    OBVIOUS
<1> HIDE DEF D, P, Q, S, g
<1>5. IsFiniteSet(P) /\ Cardinality(P) \in Nat /\ Cardinality(D) \in Nat
    BY <1>1, <1>4, FS_Subset, FS_CardinalityType
<1>6. Cardinality(C \ S) = Cardinality(P)
    BY <1>3, <1>5, FS_Bijection DEF ExistsBijection
<1>7. Cardinality(C \ S) = Cardinality(C) - Cardinality(S)
  <2>1. Cardinality(C \ S) = Cardinality(C) - Cardinality(C \cap S) BY FS_Difference
  <2> QED BY <1>4, <2>1
<1>8. Cardinality(Q) = Cardinality(D) - Cardinality(P)
  <2>1. Cardinality(D \ P) = Cardinality(D) - Cardinality(D \cap P) BY <1>1, FS_Difference
  <2> QED BY <1>4, <2>1
<1>9. Cardinality(C) \in Nat /\ Cardinality(S) \in Nat /\ Cardinality(Q) \in Nat
  <2>1. IsFiniteSet(S) /\ IsFiniteSet(Q) BY <1>1, <1>4, FS_Subset
  <2> QED BY <2>1, FS_CardinalityType
<1>10. Cardinality(C) + Cardinality(Q) = Cardinality(D) + Cardinality(S)
    BY <1>5, <1>6, <1>7, <1>8, <1>9
<1> QED BY <1>1, <1>10 DEF D, Q, S

\* What a finished save reports adds up, in whatever order the members came and
\* whatever was drained, streamed, buffered or found: each declared layer once,
\* and the layers of others it came across.
THEOREM SaveCountsAddUp == ASSUME HonestStream PROVE Spec => []CountsAddUp
<1>1. ASSUME IInv, CountInv PROVE CountsAddUp
  <2> SUFFICES ASSUME save.pc = "done", save.members = Cardinality(save.seen),
                      Len(DiffIds[Saved]) = Cardinality(LayersOf[Saved])
               PROVE  save.layersIndexed + save.layersSkipped
                        = Len(DiffIds[Saved]) + Cardinality(Strangers)
      BY DEF CountsAddUp
  <2>1. /\ save.indexed = {Holds[b] : b \in GoneBy}
        /\ save.layersIndexed + save.layersSkipped = Cardinality(GoneBy) + Cardinality(Found)
        /\ save.at > Len(DiffIds[Saved]) /\ IsFiniteSet(save.seen)
      BY <1>1 DEF CountInv
  <2>2. Found = {n \in DOMAIN DiffIds[Saved] :
                    DiffIds[Saved][n] \notin {Holds[b] : b \in GoneBy}}
    <3>1. \A n \in DOMAIN DiffIds[Saved] : n < save.at
        BY <1>1, <2>1, DeclaredLayers DEF IInv, SaveInv, Save
    <3> QED BY <2>1, <3>1 DEF Found
  <2>3. Strangers = {b \in GoneBy : Holds[b] \notin LayersOf[Saved]}
      BY DEF Strangers, GoneBy
  <2>4. GoneBy \subseteq Large /\ \A b \in GoneBy : Holds[b] # None BY DEF GoneBy
  <2>5. IsFiniteSet(GoneBy) BY <2>1, CountsFinite
  <2> HIDE DEF GoneBy, Found, Strangers
  <2> QED BY <2>1, <2>2, <2>3, <2>4, <2>5, Tally
<1>2. Spec => []CountInv BY CountsHold
<1> QED BY <1>1, <1>2, Sound, PTL

-------------------------------------------------------------------------------
(* Why the ingests end: each of their steps leaves them fewer, and a body     *)
(* that is being read is watched, by a watchdog whose steps wear out.         *)

\* The declared layers from the one an ingest looks at.
LayersLeft(i, at) == Len(DiffIds[i]) + 1 - at

\* The steps a save has before it, at most: a large member takes two, and a
\* declared layer three.
SaveLeft(s) ==
    LET layers == 3 * LayersLeft(Saved, s.at)
        members == 2 * (MaxSaveMembers + 1 - s.members)
    IN  CASE s.pc = "idle" -> layers + members + 5
          [] s.pc = "large" -> layers + members + 5
          [] s.pc = "next" -> layers + members + 4
          [] s.pc = "reconcile" -> layers + 3
          [] s.pc = "put" -> layers + 2
          [] s.pc = "index" -> layers + 1
          [] s.pc = "commit" -> 2
          [] s.pc = "stored" -> 1
          [] OTHER -> 0

\* The steps an ingest from a registry has before it, those of a body left out.
PullLeft(p) ==
    LET layers == 5 * LayersLeft(Pulled, p.at)
    IN  CASE p.pc = "idle" -> layers + 3
          [] p.pc = "use" -> layers + 2
          [] p.pc = "read" -> layers + 1
          [] p.pc = "close" -> layers
          [] p.pc = "put" -> layers - 1
          [] p.pc = "again" -> layers - 2
          [] p.pc = "stored" -> 1
          [] OTHER -> 0

\* The steps a reader has before it, at most: a Read brings a byte or the end.
ReadsLeft ==
    CASE reader.pc = "ready" -> 2 * (BodySize - read) + 2
      [] reader.pc = "got" -> 2 * (BodySize - read) + 1
      [] OTHER -> 0

\* The steps a watchdog has before it, at most: a window brings a byte or the mark.
WindowsLeft ==
    CASE watchdog.pc = "wait" -> BodySize - watchdog.last + 3
      [] watchdog.pc = "trip" -> 2
      [] watchdog.pc = "cancel" -> 1
      [] OTHER -> 0

\* Those of a body, taken together.
BodyLeft == ReadsLeft + WindowsLeft

\* Nobody waits for bytes unwatched: the watchdog of a body that is being read
\* is there, or it has cancelled the request and the Read returns.
ReadsAreWatched == pull.pc = "read" => ~closed /\ (cancelled \/ watchdog.pc # "gone")

\* What the ranks rest on: no ingest goes past its last layer, the watchdog never
\* remembers more than was read, and a Read that meets no end brings a byte.
RankInv ==
    /\ save.at <= Len(DiffIds[Saved]) + 1
    /\ pull.at <= Len(DiffIds[Pulled]) + 1
    /\ watchdog.last <= read
    /\ reader.pc = "got" /\ reader.end = None => reader.n = 1
    /\ ~closed => cancelled \/ watchdog.pc # "gone"
    /\ pull.pc = "read" => ~closed

\* What is left is a natural number.
RanksAreNat == SaveLeft(save) \in Nat /\ PullLeft(pull) \in Nat /\ BodyLeft \in Nat

\* A step of an ingest leaves it fewer, a step of the reader or of the watchdog
\* leaves the body fewer, and nobody else's step adds to them.
IngestsDescend ==
    [][/\ SaveBegin \/ SaveStep \/ SaveFault => SaveLeft(save') < SaveLeft(save)
       /\ ~(SaveBegin \/ SaveStep \/ SaveFault) => save' = save
       /\ PullStep \/ PullGivesUp \/ PullFault => PullLeft(pull') < PullLeft(pull)
       /\ ~(PullStep \/ PullGivesUp \/ PullFault) => pull' = pull
       /\ ReaderStep \/ WatchdogStep => BodyLeft' < BodyLeft
       /\ pull' = pull => BodyLeft' <= BodyLeft]_vars

\* The numbers that the ranks are made of.
LEMMA RankNumbers ==
    ASSUME IInv, RankInv
    PROVE  /\ \A i \in {Saved, Pulled} : Len(DiffIds[i]) \in Nat
           /\ save.at \in 1..Len(DiffIds[Saved]) + 1 /\ pull.at \in 1..Len(DiffIds[Pulled]) + 1
           /\ save.members \in 0..MaxSaveMembers + 1 /\ MaxSaveMembers \in Nat
           /\ read \in 0..BodySize /\ watchdog.last \in 0..read /\ BodySize \in Nat
           /\ save \in Save /\ pull \in Pull /\ reader \in Reader /\ watchdog \in Watchdog
<1>1. \A i \in {Saved, Pulled} : Len(DiffIds[i]) \in Nat BY DeclaredLayers
<1>2. save \in Save /\ save.at \in Nat /\ save.at >= 1 /\ save.members \in 0..MaxSaveMembers + 1
    BY DEF IInv, SaveInv, Save
<1>3. pull \in Pull /\ pull.at \in Nat /\ pull.at >= 1 BY DEF IInv, PullInv, Pull
<1>4. /\ read \in 0..BodySize /\ reader \in Reader /\ watchdog \in Watchdog
      /\ watchdog.last \in Nat
    BY DEF IInv, GuardInv, GuardOK, Watchdog
<1>5. BodySize \in Nat /\ MaxSaveMembers \in Nat BY BodySizeAssumption, StreamAssumption
<1> QED BY <1>1, <1>2, <1>3, <1>4, <1>5 DEF RankInv

\* The ranks are natural numbers.
LEMMA RanksCount == ASSUME IInv, RankInv PROVE RanksAreNat
<1> DEFINE L == Len(DiffIds[Saved])
           K == Len(DiffIds[Pulled])
<1>1. /\ L \in Nat /\ K \in Nat /\ save.at \in 1..L + 1 /\ pull.at \in 1..K + 1
      /\ save.members \in 0..MaxSaveMembers + 1 /\ MaxSaveMembers \in Nat
      /\ read \in 0..BodySize /\ watchdog.last \in 0..read /\ BodySize \in Nat
    BY RankNumbers
<1>2. save.pc \in {"put", "index"} => save.at <= L BY DEF IInv, SaveInv
<1>3. pull.pc \in {"read", "close", "put", "again"} => pull.at <= K BY DEF IInv, PullInv
<1>4. LayersLeft(Saved, save.at) = L + 1 - save.at /\ LayersLeft(Pulled, pull.at) = K + 1 - pull.at
    BY DEF LayersLeft
<1> HIDE DEF L, K
<1>5. SaveLeft(save) \in Nat BY <1>1, <1>2, <1>4 DEF SaveLeft
<1>6. PullLeft(pull) \in Nat BY <1>1, <1>3, <1>4 DEF PullLeft
<1>7. ReadsLeft \in Nat BY <1>1 DEF ReadsLeft
<1>8. WindowsLeft \in Nat BY <1>1 DEF WindowsLeft
<1> QED BY <1>5, <1>6, <1>7, <1>8 DEF RanksAreNat, BodyLeft

\* The reader's steps and the watchdog's wear the body out.
LEMMA BodyWears ==
    ASSUME IInv, RankInv, ReaderStep \/ WatchdogStep
    PROVE  BodyLeft' < BodyLeft
<1>0. /\ read \in 0..BodySize /\ watchdog.last \in 0..read /\ BodySize \in Nat
      /\ reader \in Reader /\ watchdog \in Watchdog
    BY RankNumbers
<1>n. ReadsLeft \in Nat /\ WindowsLeft \in Nat BY <1>0 DEF ReadsLeft, WindowsLeft
<1>s. ASSUME \/ ReadsLeft' < ReadsLeft /\ ReadsLeft' \in Nat /\ WindowsLeft' = WindowsLeft
             \/ ReadsLeft' = ReadsLeft /\ WindowsLeft' < WindowsLeft /\ WindowsLeft' \in Nat
      PROVE  BodyLeft' < BodyLeft
  <2> DEFINE a == ReadsLeft
             b == WindowsLeft
             c == a'
             d == b'
  <2>1. a \in Nat /\ b \in Nat /\ ((c < a /\ c \in Nat /\ d = b) \/ (c = a /\ d < b /\ d \in Nat))
      BY <1>n, <1>s
  <2>2. BodyLeft = a + b /\ BodyLeft' = c + d BY DEF BodyLeft
  <2> HIDE DEF a, b, c, d
  <2> QED BY <2>1, <2>2
<1>1. CASE ReadInner
  <2>1. reader.pc = "ready" /\ reader'.pc = "got" /\ read' = read /\ watchdog' = watchdog
      BY <1>1 DEF ReadInner
  <2>2. ReadsLeft' < ReadsLeft /\ ReadsLeft' \in Nat BY <1>0, <2>1 DEF ReadsLeft
  <2>3. WindowsLeft' = WindowsLeft BY <2>1 DEF WindowsLeft
  <2> QED BY <1>n, <1>s, <2>2, <2>3
<1>2. CASE Return
  <2>1. reader.pc = "got" /\ read' = read + reader.n /\ watchdog' = watchdog
      BY <1>2 DEF Return
  <2>2. reader'.pc = IF reader.end = None THEN "ready" ELSE "over"
      BY <1>0, <1>2 DEF Return, Reader
  <2>3. reader.end = None => reader.n = 1 BY <2>1 DEF RankInv
  <2>4. read + reader.n <= BodySize /\ reader.n \in 0..1
      BY <1>0, <2>1 DEF IInv, GuardInv, GuardOK, Reader
  <2>5. ReadsLeft = 2 * (BodySize - read) + 1 BY <2>1 DEF ReadsLeft
  <2>6. ReadsLeft' < ReadsLeft /\ ReadsLeft' \in Nat
    <3>1. CASE reader.end = None
      <4>1. ReadsLeft' = 2 * (BodySize - (read + 1)) + 2 BY <2>1, <2>2, <2>3, <3>1 DEF ReadsLeft
      <4> QED BY <1>0, <2>3, <2>4, <2>5, <3>1, <4>1
    <3>2. CASE reader.end # None
      <4>1. ReadsLeft' = 0 BY <2>2, <3>2 DEF ReadsLeft
      <4> QED BY <1>0, <2>5, <4>1
    <3> QED BY <3>1, <3>2
  <2>7. WindowsLeft' = WindowsLeft BY <2>1 DEF WindowsLeft
  <2> QED BY <1>n, <1>s, <2>6, <2>7
<1>3. CASE WatchdogStep
  <2>1. reader' = reader /\ read' = read BY <1>3 DEF WatchdogStep, Tick, Trip, Dismissed
  <2>2. ReadsLeft' = ReadsLeft BY <2>1 DEF ReadsLeft
  <2>3. WindowsLeft' < WindowsLeft /\ WindowsLeft' \in Nat
    <3>1. CASE Tick
      <4>1. watchdog.pc = "wait" BY <3>1 DEF Tick
      <4>2. WindowsLeft = BodySize - watchdog.last + 3 BY <4>1 DEF WindowsLeft
      <4>3. CASE read - watchdog.last < Floor
        <5>1. watchdog'.pc = "trip" BY <1>0, <3>1, <4>3 DEF Tick, Watchdog
        <5>2. WindowsLeft' = 2 BY <5>1 DEF WindowsLeft
        <5> QED BY <1>0, <4>2, <5>2
      <4>4. CASE ~(read - watchdog.last < Floor)
        <5>1. watchdog'.pc = "wait" /\ watchdog'.last = read
            BY <1>0, <3>1, <4>1, <4>4 DEF Tick, Watchdog
        <5>2. WindowsLeft' = BodySize - read + 3 BY <5>1 DEF WindowsLeft
        <5>3. Floor \in Nat /\ Floor >= 1 BY ExpectedAssumption DEF Floor
        <5>4. watchdog.last < read BY <1>0, <4>4, <5>3
        <5> QED BY <1>0, <4>2, <5>2, <5>4
      <4> QED BY <4>3, <4>4
    <3>2. CASE Trip
      <4>1. \/ watchdog.pc = "trip" /\ watchdog'.pc = "cancel"
            \/ watchdog.pc = "cancel" /\ watchdog'.pc = "gone"
          BY <1>0, <3>2 DEF Trip, Watchdog
      <4> QED BY <4>1 DEF WindowsLeft
    <3>3. CASE Dismissed
      <4>1. watchdog.pc = "wait" /\ watchdog'.pc = "gone" BY <3>3 DEF Dismissed
      <4> QED BY <1>0, <4>1 DEF WindowsLeft
    <3> QED BY <1>3, <3>1, <3>2, <3>3 DEF WatchdogStep
  <2> QED BY <1>n, <1>s, <2>2, <2>3
<1> QED BY <1>1, <1>2, <1>3 DEF ReaderStep

\* A step of the save leaves it fewer.
LEMMA SaveFalls ==
    ASSUME IInv, RankInv, SaveBegin \/ SaveStep \/ SaveFault
    PROVE  SaveLeft(save') < SaveLeft(save) /\ save'.at <= Len(DiffIds[Saved]) + 1
<1> DEFINE s == save
           t == save'
           L == Len(DiffIds[Saved])
           M == MaxSaveMembers
<1>0. /\ L \in Nat /\ M \in Nat /\ s \in Save /\ s.at \in 1..L + 1 /\ s.members \in 0..M + 1
    BY RankNumbers
<1>l. \A at : LayersLeft(Saved, at) = L + 1 - at BY DEF LayersLeft
<1>i. /\ s.pc \in {"idle", "next", "large"} => s.at = 1
      /\ s.pc \in {"put", "index"} => s.at <= L
    BY DEF IInv, SaveInv
<1> DEFINE Fails == \E w \in Cause : SaveFails(w)
           Same == t.at = s.at /\ t.members = s.members
           More == t.at = s.at /\ t.members = s.members + 1 /\ s.members + 1 <= M
           Next1 == t.at = s.at + 1 /\ t.pc = "reconcile" /\ s.at <= L
           Moved == \/ s.pc = "idle" /\ t.pc = "next" /\ Same
                    \/ s.pc = "next" /\ t.pc \in {"next", "large"} /\ More
                    \/ s.pc = "large" /\ t.pc = "next" /\ Same
                    \/ s.pc = "next" /\ t.pc = "reconcile" /\ Same
                    \/ s.pc \in {"reconcile", "index"} /\ Next1
                    \/ s.pc = "reconcile" /\ s.at <= L /\ t.pc = "put" /\ Same
                    \/ s.pc = "put" /\ t.pc = "index" /\ Same
                    \/ s.pc = "reconcile" /\ t.pc = "commit" /\ Same
                    \/ s.pc = "commit" /\ t.pc = "stored" /\ Same
                    \/ s.pc = "stored" /\ t.pc = "done" /\ Same
<1>1. CASE Fails
  <2>1. t.pc = "failed" /\ t.at = 1 BY <1>1 DEF SaveFails, NoSave
  <2>2. s.pc \in {"next", "reconcile", "index", "put", "large", "commit", "stored"}
    <3>1. s.pc \notin {"idle", "done", "failed"}
      <4>1. CASE SaveBegin BY <1>0, <2>1, <4>1 DEF SaveBegin, Save
      <4>2. CASE SaveStep
          BY <4>2 DEF SaveStep, TooMany, Passed, Buffer, Drain, Stream, NotALayer, PutStreamed,
             EndOfStream, Reconcile, NotThere, PutBuffered, UseBuffered, Reconciled, SaveCommit,
             SaveReadBack
      <4>3. CASE SaveFault BY <4>3 DEF SaveFault
      <4> QED BY <4>1, <4>2, <4>3
    <3> QED BY <1>0, <3>1 DEF Save
  <2> HIDE DEF s, t, L, M
  <2>3. SaveLeft(t) = 0 BY <2>1 DEF SaveLeft
  <2>4. SaveLeft(s) > 0 BY <1>0, <1>l, <1>i, <2>2 DEF SaveLeft, M
  <2> QED BY <1>0, <2>1, <2>3, <2>4 DEF s, t, L
<1>2. CASE Moved
  <2> HIDE DEF s, t, L, M
  <2>1. t.at <= L + 1 BY <1>0, <1>2
  <2>2. SaveLeft(t) < SaveLeft(s)
    <3>1. CASE s.pc = "idle" /\ t.pc = "next" /\ Same BY <1>0, <1>l, <3>1 DEF SaveLeft, M
    <3>2. CASE s.pc = "next" /\ t.pc \in {"next", "large"} /\ More
        BY <1>0, <1>l, <3>2 DEF SaveLeft, M
    <3>3. CASE s.pc = "large" /\ t.pc = "next" /\ Same BY <1>0, <1>l, <3>3 DEF SaveLeft, M
    <3>4. CASE s.pc = "next" /\ t.pc = "reconcile" /\ Same
        BY <1>0, <1>l, <1>i, <3>4 DEF SaveLeft, M
    <3>5. CASE s.pc \in {"reconcile", "index"} /\ Next1 BY <1>0, <1>l, <3>5 DEF SaveLeft
    <3>6. CASE s.pc = "reconcile" /\ s.at <= L /\ t.pc = "put" /\ Same
        BY <1>0, <1>l, <3>6 DEF SaveLeft
    <3>7. CASE s.pc = "put" /\ t.pc = "index" /\ Same BY <1>0, <1>l, <3>7 DEF SaveLeft
    <3>8. CASE s.pc = "reconcile" /\ t.pc = "commit" /\ Same BY <1>0, <1>l, <3>8 DEF SaveLeft
    <3>9. CASE \/ s.pc = "commit" /\ t.pc = "stored" /\ Same
               \/ s.pc = "stored" /\ t.pc = "done" /\ Same
        BY <3>9 DEF SaveLeft
    <3> QED BY <1>2, <3>1, <3>2, <3>3, <3>4, <3>5, <3>6, <3>7, <3>8, <3>9
  <2> QED BY <2>1, <2>2 DEF s, t, L
<1>3. Fails \/ Moved
  <2> USE <1>0 DEF Save
  <2>1. CASE SaveBegin \/ NotALayer \/ PutStreamed
    <3>1. s.pc \in {"idle", "large"} /\ t.pc = "next" /\ Same
        BY <2>1 DEF SaveBegin, NotALayer, PutStreamed
    <3> QED BY <3>1
  <2>2. CASE TooMany BY <2>2 DEF TooMany, Cause
  <2>3. ASSUME Passed \/ (\E m \in Metadata \cup (Blob \ Large) : Buffer(m))
               \/ (\E b \in Blob : Drain(b) \/ Stream(b))
        PROVE  Fails \/ Moved
    <3>1. SaveFails("tooLarge") \/ (s.pc = "next" /\ t.pc \in {"next", "large"} /\ More)
        BY <2>3 DEF Passed, Buffer, Drain, Drained, Stream, Counted
    <3> QED BY <3>1 DEF Cause
  <2>4. CASE EndOfStream
    <3>1. SaveFails("noTarget") \/ (s.pc = "next" /\ t.pc = "reconcile" /\ Same)
        BY <2>4 DEF EndOfStream
    <3> QED BY <3>1 DEF Cause
  <2>5. CASE Reconcile
    <3>1. s.pc = "reconcile" /\ Next1 BY <2>5 DEF Reconcile, Advanced
    <3> QED BY <3>1
  <2>6. CASE NotThere
    <3>1. \/ SaveFails("missing") \/ SaveFails("mismatch")
          \/ s.pc = "reconcile" /\ s.at <= L /\ t.pc = "put" /\ Same
        BY <2>6 DEF NotThere
    <3> QED BY <3>1 DEF Cause
  <2>7. CASE PutBuffered
    <3>1. s.pc = "put" /\ t.pc = "index" /\ Same BY <2>7 DEF PutBuffered
    <3> QED BY <3>1
  <2>8. CASE UseBuffered
    <3>1. SaveFails("vanished") \/ (s.pc = "index" /\ Next1)
        BY <1>i, <2>8 DEF UseBuffered, Advanced
    <3> QED BY <3>1 DEF Cause
  <2>9. CASE Reconciled \/ SaveCommit \/ SaveReadBack
    <3>1. \/ SaveFails("vanished") \/ SaveFails("evicted")
          \/ s.pc = "reconcile" /\ t.pc = "commit" /\ Same
          \/ s.pc = "commit" /\ t.pc = "stored" /\ Same
          \/ s.pc = "stored" /\ t.pc = "done" /\ Same
        BY <2>9 DEF Reconciled, SaveCommit, SaveReadBack
    <3> QED BY <3>1 DEF Cause
  <2>10. CASE SaveFault BY <2>10 DEF SaveFault, Cause
  <2> QED BY <2>1, <2>2, <2>3, <2>4, <2>5, <2>6, <2>7, <2>8, <2>9, <2>10 DEF SaveStep
<1> QED BY <1>1, <1>2, <1>3

\* A step of the ingest from a registry leaves it fewer.
LEMMA PullFalls ==
    ASSUME IInv, RankInv, PullStep \/ PullGivesUp \/ PullFault
    PROVE  PullLeft(pull') < PullLeft(pull) /\ pull'.at <= Len(DiffIds[Pulled]) + 1
<1> DEFINE p == pull
           q == pull'
           L == Len(DiffIds[Pulled])
<1>0. L \in Nat /\ p \in Pull /\ p.at \in 1..L + 1 BY RankNumbers
<1>l. \A at : LayersLeft(Pulled, at) = L + 1 - at BY DEF LayersLeft
<1>i. p.pc \in {"read", "close", "put", "again"} => p.at <= L BY DEF IInv, PullInv
<1> DEFINE Fails == q.pc = "failed" /\ q.at = 1 /\ p.pc \in {"use", "close", "put", "again", "stored"}
           Moved == \/ p.pc = "idle" /\ q.pc \in {"stored", "use"}
                    \/ p.pc = "use" /\ p.at <= L /\ q.pc = "read"
                    \/ p.pc = "read" /\ q.pc = "close"
                    \/ p.pc = "close" /\ q.pc = "put"
                    \/ p.pc = "put" /\ q.pc = "again"
                    \/ p.pc = "use" /\ q.pc = "stored"
                    \/ p.pc = "stored" /\ q.pc = "done"
           Past == p.pc \in {"use", "again"} /\ p.at <= L /\ q.pc = "use" /\ q.at = p.at + 1
<1>1. Fails \/ (Moved /\ q.at = p.at) \/ Past
  <2> USE <1>0 DEF Pull
  <2>1. CASE PullBegin BY <2>1 DEF PullBegin, PullMoves
  <2>2. CASE PullUse BY <2>2 DEF PullUse
  <2>3. CASE PullOpen BY <2>3 DEF PullOpen, PullMoves
  <2>4. CASE PullClose BY <2>4 DEF PullClose, PullMoves
  <2>5. CASE PullIndexed BY <2>5 DEF PullIndexed, PullMoves, PullFails, NoPull
  <2>6. CASE PullPut BY <2>6 DEF PullPut, PullMoves
  <2>7. CASE PullAgain BY <1>i, <2>7 DEF PullAgain, PullFails, NoPull
  <2>8. CASE PullCommit BY <2>8 DEF PullCommit, PullMoves, PullFails, NoPull
  <2>9. CASE PullReadBack BY <2>9 DEF PullReadBack, PullMoves, PullFails, NoPull
  <2>10. CASE PullFault BY <2>10 DEF PullFault, PullFails, NoPull
  <2> QED BY <2>1, <2>2, <2>3, <2>4, <2>5, <2>6, <2>7, <2>8, <2>9, <2>10
          DEF PullStep, PullGivesUp, PullEnds
<1> HIDE DEF p, q, L
<1>2. CASE Fails
  <2>1. PullLeft(q) = 0 BY <1>2 DEF PullLeft
  <2>2. PullLeft(p) > 0 BY <1>0, <1>l, <1>i, <1>2 DEF PullLeft
  <2> QED BY <1>0, <1>2, <2>1, <2>2 DEF p, q, L
<1>3. CASE Moved /\ q.at = p.at
  <2>1. PullLeft(q) < PullLeft(p) BY <1>0, <1>l, <1>i, <1>3 DEF PullLeft
  <2> QED BY <1>0, <1>3, <2>1 DEF p, q, L
<1>4. CASE Past
  <2>1. PullLeft(q) < PullLeft(p) BY <1>0, <1>l, <1>4 DEF PullLeft
  <2> QED BY <1>0, <1>4, <2>1 DEF p, q, L
<1> QED BY <1>1, <1>2, <1>3, <1>4

\* What the ranks rest on holds at first ...
LEMMA RankInit == ASSUME Init PROVE RankInv
<1>1. save.at = 1 /\ pull.at = 1 /\ pull.pc = "idle" BY DEF Init, NoSave, NoPull
<1>2. /\ watchdog.last = 0 /\ read = 0 /\ closed = TRUE /\ reader.pc = "over"
    BY DEF Init, GuardInit
<1>3. \A i \in {Saved, Pulled} : Len(DiffIds[i]) \in Nat BY DeclaredLayers
<1> QED BY <1>1, <1>2, <1>3 DEF RankInv

\* ... and after every step.
LEMMA RankKept == ASSUME IInv, RankInv, [Next]_vars PROVE RankInv'
<1>0. /\ read \in Nat /\ watchdog.last \in Nat /\ reader \in Reader /\ watchdog \in Watchdog
      /\ reader.n \in 0..1 /\ watchdog.last <= read
    BY RankNumbers, BodySizeAssumption DEF Reader
<1>1. save'.at <= Len(DiffIds[Saved]) + 1
  <2>1. CASE SaveBegin \/ SaveStep \/ SaveFault BY <2>1, SaveFalls
  <2>2. CASE save' = save BY <2>2 DEF RankInv
  <2>3. PullStep \/ PullGivesUp \/ PullFault => save' = save BY PullTxn
  <2> QED BY <2>1, <2>2, <2>3 DEF Next, BodyStep, CacheStep, vars
<1>2. pull'.at <= Len(DiffIds[Pulled]) + 1
  <2>1. CASE PullStep \/ PullGivesUp \/ PullFault BY <2>1, PullFalls
  <2>2. CASE pull' = pull BY <2>2 DEF RankInv
  <2>3. SaveBegin \/ SaveStep \/ SaveFault => pull' = pull BY SaveTxn DEF IInv
  <2> QED BY <2>1, <2>2, <2>3 DEF Next, BodyStep, CacheStep, vars
<1>3. /\ watchdog'.last <= read'
      /\ reader'.pc = "got" /\ reader'.end = None => reader'.n = 1
      /\ ~closed' => cancelled' \/ watchdog'.pc # "gone"
  <2> USE <1>0 DEF RankInv, Watchdog, Reader
  <2>1. CASE Send \/ Break \/ Close BY <2>1 DEF Send, Break, Close
  <2>2. CASE Tick BY <2>2 DEF Tick
  <2>3. CASE Trip BY <2>3 DEF Trip, Mark
  <2>4. CASE Dismissed BY <2>4 DEF Dismissed
  <2>5. CASE ReadInner
    <3>1. reader'.pc = "got" /\ reader'.end = None => reader'.n = 1 BY <2>5 DEF ReadInner
    <3> QED BY <2>5, <3>1 DEF ReadInner
  <2>6. CASE Return
    <3>1. reader'.pc # "got" BY <2>6 DEF Return
    <3>2. read' = read + reader.n /\ UNCHANGED <<closed, cancelled, watchdog>> BY <2>6 DEF Return
    <3> QED BY <3>1, <3>2
  <2>7. CASE Open BY <2>7 DEF Open
  <2>8. CASE Discard BY <2>8 DEF Discard
  <2>9. CASE UNCHANGED guard BY <2>9 DEF guard
  <2> QED BY <2>1, <2>2, <2>3, <2>4, <2>5, <2>6, <2>7, <2>8, <2>9, GuardMoves
          DEF GuardMove, GuardStep, WatchdogStep, ReaderStep
<1>4. pull'.pc = "read" => ~closed'
  <2>1. CASE PullOpen BY <2>1 DEF PullOpen, Open
  <2>2. CASE (PullStep \/ PullGivesUp \/ PullFault) /\ ~PullOpen
    <3>1. pull'.pc # "read"
      <4> USE RankNumbers DEF Pull, PullMoves, PullFails, NoPull
      <4>1. CASE PullBegin BY <4>1 DEF PullBegin
      <4>2. CASE PullUse BY <4>2 DEF PullUse
      <4>3. CASE PullClose BY <4>3 DEF PullClose
      <4>4. CASE PullIndexed BY <4>4 DEF PullIndexed
      <4>5. CASE PullPut BY <4>5 DEF PullPut
      <4>6. CASE PullAgain BY <4>6 DEF PullAgain
      <4>7. CASE PullCommit BY <4>7 DEF PullCommit
      <4>8. CASE PullReadBack BY <4>8 DEF PullReadBack
      <4>9. CASE PullFault BY <4>9 DEF PullFault
      <4> QED BY <2>2, <4>1, <4>2, <4>3, <4>4, <4>5, <4>6, <4>7, <4>8, <4>9
              DEF PullStep, PullGivesUp, PullEnds
    <3> QED BY <3>1
  <2>3. CASE pull' = pull /\ closed' = closed BY <2>3 DEF RankInv
  <2>4. SaveBegin \/ SaveStep \/ SaveFault => pull' = pull /\ closed' = closed
    <3>1. SaveBegin \/ SaveStep \/ SaveFault => UNCHANGED <<pull, guard>>
        BY DEF SaveBegin, SaveStep, SaveFault, TooMany, Passed, Buffer, Drain, Stream,
           NotALayer, PutStreamed, EndOfStream, Reconcile, NotThere, PutBuffered, UseBuffered,
           Reconciled, SaveCommit, SaveReadBack, SaveFails
    <3> QED BY <3>1 DEF guard
  <2>5. BodyStep => pull' = pull /\ closed' = closed
      BY DEF BodyStep, GuardStep, Send, Break, WatchdogStep, Tick, Trip, Dismissed, ReaderStep,
         ReadInner, Return
  <2> QED BY <2>1, <2>2, <2>3, <2>4, <2>5 DEF Next, CacheStep, vars, guard
<1> QED BY <1>1, <1>2, <1>3, <1>4 DEF RankInv

\* The ranks and what they rest on, throughout.
LEMMA RanksHold == Spec => [](IInv /\ RankInv)
<1>1. Init => IInv /\ RankInv BY InitInv, RankInit
<1>2. IInv /\ RankInv /\ [Next]_vars => (IInv /\ RankInv)' BY NextInv, RankKept
<1> QED BY <1>1, <1>2, PTL DEF Spec

\* A registry that never sends another byte holds up no ingest unnoticed: while
\* one reads a body, newStallGuard's watchdog is running, or has cancelled the
\* request already.
THEOREM ReadsAlwaysWatched == Spec => []ReadsAreWatched
<1>1. IInv /\ RankInv => ReadsAreWatched BY DEF RankInv, ReadsAreWatched
<1> QED BY <1>1, RanksHold, PTL

\* No ingest loops: IngestDockerSave's members and declared layers, Ingest's
\* layers, and the bytes and windows of a body are used up step by step, and
\* nothing the cache, the registry or the other ingest does brings them back.
THEOREM IngestsAlwaysDescend == Spec => []RanksAreNat /\ IngestsDescend
<1>1. IInv /\ RankInv => RanksAreNat BY RanksCount
<1>2. ASSUME IInv, RankInv, [Next]_vars
      PROVE  /\ SaveBegin \/ SaveStep \/ SaveFault => SaveLeft(save') < SaveLeft(save)
             /\ ~(SaveBegin \/ SaveStep \/ SaveFault) => save' = save
             /\ PullStep \/ PullGivesUp \/ PullFault => PullLeft(pull') < PullLeft(pull)
             /\ ~(PullStep \/ PullGivesUp \/ PullFault) => pull' = pull
             /\ ReaderStep \/ WatchdogStep => BodyLeft' < BodyLeft
             /\ pull' = pull => BodyLeft' <= BodyLeft
  <2> DEFINE SaveMoves == SaveBegin \/ SaveStep \/ SaveFault
             PullMoved == PullStep \/ PullGivesUp \/ PullFault
             BodyMoves == ReaderStep \/ WatchdogStep
  <2>0. Next => SaveMoves \/ PullMoved \/ BodyStep \/ CacheStep BY DEF Next
  <2>1. SaveMoves => pull' = pull BY <1>2, SaveTxn DEF IInv
  <2>2. PullMoved => save' = save BY <1>2, PullTxn
  <2>3. BodyStep \/ CacheStep \/ UNCHANGED vars => save' = save /\ pull' = pull
      BY DEF BodyStep, CacheStep, vars
  <2>4. SaveMoves => SaveLeft(save') < SaveLeft(save) BY <1>2, SaveFalls
  <2>5. PullMoved => PullLeft(pull') < PullLeft(pull) BY <1>2, PullFalls
  <2>6. BodyMoves => BodyLeft' < BodyLeft BY <1>2, BodyWears
  <2>7. BodyLeft \in Nat /\ PullLeft(pull) \in Nat /\ RanksAreNat'
    <3>1. IInv' /\ RankInv' BY <1>2, NextInv, RankKept
    <3>2. RanksAreNat BY <1>2, RanksCount
    <3>3. IInv' /\ RankInv' => RanksAreNat' BY <1>1, PTL
    <3> QED BY <3>1, <3>2, <3>3 DEF RanksAreNat
  <2>8. UNCHANGED guard => BodyLeft' = BodyLeft
      BY DEF guard, BodyLeft, ReadsLeft, WindowsLeft
  <2>9. SaveMoves => UNCHANGED guard
      BY DEF SaveBegin, SaveStep, SaveFault, TooMany, Passed, Buffer, Drain, Stream, NotALayer,
         PutStreamed, EndOfStream, Reconcile, NotThere, PutBuffered, UseBuffered, Reconciled,
         SaveCommit, SaveReadBack, SaveFails
  <2>10. Send \/ Break => BodyLeft' = BodyLeft
      BY DEF Send, Break, BodyLeft, ReadsLeft, WindowsLeft
  <2>11. CacheStep \/ UNCHANGED vars => UNCHANGED guard BY DEF CacheStep, vars, guard
  <2>12. BodyStep => Send \/ Break \/ BodyMoves BY DEF BodyStep, GuardStep
  <2> HIDE DEF SaveMoves, PullMoved, BodyMoves
  <2>13. pull' = pull => ~PullMoved
    <3>1. ~(PullLeft(pull) < PullLeft(pull)) BY <2>7
    <3> QED BY <2>5, <3>1
  <2>14. pull' = pull => BodyLeft' = BodyLeft \/ BodyLeft' < BodyLeft
      BY <1>2, <2>0, <2>6, <2>8, <2>9, <2>10, <2>11, <2>12, <2>13
  <2>15. pull' = pull => BodyLeft' <= BodyLeft BY <2>7, <2>14 DEF RanksAreNat
  <2>16. (~SaveMoves => save' = save) /\ (~PullMoved => pull' = pull)
      BY <1>2, <2>0, <2>1, <2>2, <2>3
  <2> QED BY <2>4, <2>5, <2>6, <2>15, <2>16 DEF SaveMoves, PullMoved, BodyMoves
<1> QED BY <1>1, <1>2, RanksHold, PTL DEF Spec, IngestsDescend
===============================================================================
