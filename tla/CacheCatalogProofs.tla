--------------------------- MODULE CacheCatalogProofs ---------------------------
(***************************************************************************)
(* CacheStore implements ImageCatalog, for every value of the constants:   *)
(* its initial state maps to the catalog's and every step maps to a step   *)
(* of the catalog or leaves it alone.  The inductive invariant supplies    *)
(* the guards: a published image's layers are installed because its        *)
(* transaction declared them, a dropped layer is named by no listed image. *)
(***************************************************************************)
EXTENDS CacheCatalog, CacheStoreProofs

USE DEF Cached, Pinned, Evictable, MuFree, disk

\* The steps that change neither table leave the catalog alone.
LEMMA SameTables ==
    ASSUME UNCHANGED <<images, layers>>
    PROVE  UNCHANGED Catalog!vars
BY DEF statusBar, Catalog!vars

\* What one entry shows.
LEMMA StatusOf ==
    ASSUME NEW i \in Image
    PROVE  /\ statusBar[i] # "absent" <=> images[i] # None
           /\ statusBar[i] = "pinned" <=> images[i] # None /\ images[i].rec.pinned
           /\ statusBar[i] = "listed" <=> images[i] # None /\ ~images[i].rec.pinned
BY DEF statusBar

\* An empty cache is an empty catalog.
LEMMA CatalogInit == Init => Catalog!Init
BY DEF Init, Catalog!Init, statusBar

\* A victim leaves the catalog.
LEMMA EvictRecordStep ==
    ASSUME IndInv, NEW t \in Txn, EvictRecord(t)
    PROVE  Catalog!Next
<1>1. PICK i \in Image : IsLRU(i) /\ images' = [images EXCEPT ![i] = None]
    BY DEF EvictRecord
<1>2. images \in [Image -> Entry \cup {None}] /\ layers' = layers
    BY DEF EvictRecord, IndInv, TablesOK
<1>3. images[i] # None /\ ~images[i].rec.pinned
    BY <1>1 DEF IsLRU
<1>4. statusBar' = [statusBar EXCEPT ![i] = "absent"]
    BY <1>1, <1>2 DEF statusBar
<1>5. Catalog!Evict(i)
    BY <1>2, <1>3, <1>4, StatusOf DEF Catalog!Evict
<1> QED BY <1>5 DEF Catalog!Next

\* Layers no listed image needs leave the catalog.
LEMMA DropLayersStep ==
    ASSUME IndInv, NEW t \in Txn, DropLayers(t)
    PROVE  Catalog!Next
<1> DEFINE dropped == {l \in LayersOf[victim] \cap layers : ~Referenced(l)}
<1>1. layers' = layers \ dropped /\ images' = images
    BY DEF DropLayers
<1>2. \A i \in Cached : LayersOf[i] \cap dropped = {}
    BY DEF Referenced
<1>3. dropped \in SUBSET Layer
    BY DEF IndInv, TablesOK
<1> HIDE DEF dropped
<1>4. \A i \in Catalog!Listed : LayersOf[i] \cap dropped = {}
    BY <1>2, StatusOf DEF Catalog!Listed
<1>5. Catalog!Drop(dropped)
    BY <1>1, <1>4 DEF Catalog!Drop, statusBar
<1> QED BY <1>3, <1>5 DEF Catalog!Next

\* A layer enters the catalog.
LEMMA InstallLayerStep ==
    ASSUME IndInv, NEW t \in Txn, InstallLayer(t)
    PROVE  Catalog!Next
<1>1. txn[t].layer \in Layer
    BY DEF InstallLayer, IndInv, TxnsHoldLayers, PutPc
<1>2. Catalog!Store(txn[t].layer)
    BY DEF InstallLayer, Catalog!Store, statusBar
<1> QED BY <1>1, <1>2 DEF Catalog!Next

\* An image whose layers are all listed enters the catalog.
LEMMA InstallRecordStep ==
    ASSUME IndInv, NEW t \in Txn, InstallRecord(t)
    PROVE  Catalog!Next
<1> DEFINE i == txn[t].image
           rec == txn[t].rec
           e == [rec |-> rec, bytes |-> Size(rec)]
           s == IF rec.pinned THEN "pinned" ELSE "listed"
<1>1. /\ i \in Image
      /\ LayersOf[i] \subseteq layers
      /\ rec \in Record
    BY DEF InstallRecord, IndInv, TxnsHoldLayers, RecPc, TablesOK, Transaction
<1>2. e # None
    BY <1>1, SizeIsNat, NoneIsNothing DEF Entry
<1>3. images \in [Image -> Entry \cup {None}] /\ images' = [images EXCEPT ![i] = e]
      /\ layers' = layers
    BY DEF InstallRecord, IndInv, TablesOK
<1>4. statusBar' = [statusBar EXCEPT ![i] = s]
  <2>1. e.rec.pinned = rec.pinned OBVIOUS
  <2> HIDE DEF e, i, rec
  <2> QED BY <1>1, <1>2, <1>3, <2>1 DEF statusBar
<1>5. Catalog!Publish(i, s)
    BY <1>1, <1>3, <1>4 DEF Catalog!Publish
<1>6. s \in {"listed", "pinned"} OBVIOUS
<1> QED BY <1>1, <1>5, <1>6 DEF Catalog!Next

\* A step of a transaction is a step of the catalog or leaves it alone.
LEMMA TxnStepCatalog ==
    ASSUME IndInv, NEW t \in Txn, TxnStep(t)
    PROVE  [Catalog!Next]_(Catalog!vars)
<1>1. CASE \/ \E i \in Image : Begin(t, i)
           \/ \E l \in Layer : UseLayer(t, l) \/ PutLayer(t, l)
           \/ \E pin \in BOOLEAN, refs \in SUBSET Ref : CommitStart(t, pin, refs)
           \/ Finish(t)
    BY <1>1, SameTables DEF Begin, UseLayer, PutLayer, CommitStart, Finish
<1>2. CASE \/ ReserveRefuse(t) \/ ReserveGrant(t) \/ ReserveExhausted(t)
           \/ RenameIndex(t) \/ RenameDoc(t) \/ RenameRecord(t)
           \/ PutFails(t) \/ RecordFails(t)
    BY <1>2, SameTables DEF ReserveRefuse, ReserveGrant, ReserveExhausted,
       RenameIndex, RenameDoc, RenameRecord, PutFails, RecordFails
<1>3. CASE EvictRecord(t) \/ DropLayers(t) \/ InstallLayer(t) \/ InstallRecord(t)
    BY <1>3, EvictRecordStep, DropLayersStep, InstallLayerStep, InstallRecordStep
<1> QED BY <1>1, <1>2, <1>3 DEF TxnStep, InCall

\* A rewrite that changes an entry's record keeps or sets its pin.
LEMMA RewriteStep ==
    ASSUME IndInv, NEW w \in Writer, NEW i \in Cached, NEW rec \in Record,
           StartRewrite(w, i, rec), images[i].rec.pinned => rec.pinned
    PROVE  [Catalog!Next]_(Catalog!vars)
<1> DEFINE e == [images[i] EXCEPT !.rec = rec]
<1>1. images \in [Image -> Entry \cup {None}] /\ layers' = layers /\ i \in Image
    BY DEF StartRewrite, IndInv, TablesOK
<1>2. images[i] \in Entry
    BY <1>1
<1>3. e \in Entry /\ e.rec = rec /\ images' = [images EXCEPT ![i] = e]
    BY <1>1, <1>2 DEF StartRewrite, Entry
<1>4. e # None BY <1>3, NoneIsNothing
<1> HIDE DEF e
<1>5. CASE rec.pinned
  <2>1. statusBar' = [statusBar EXCEPT ![i] = "pinned"]
      BY <1>1, <1>3, <1>4, <1>5 DEF statusBar
  <2>2. Catalog!Pin(i)
      BY <1>1, <2>1, StatusOf DEF Catalog!Pin, Catalog!Listed
  <2> QED BY <1>1, <2>2 DEF Catalog!Next
<1>6. CASE ~rec.pinned
  <2>1. statusBar' = statusBar
      BY <1>1, <1>3, <1>4, <1>6 DEF statusBar
  <2> QED BY <1>1, <2>1 DEF Catalog!vars
<1> QED BY <1>5, <1>6

\* A step of a rewrite leaves the catalog alone.
LEMMA WriterStepCatalog ==
    ASSUME IndInv, NEW w \in Writer, WriterStep(w)
    PROVE  [Catalog!Next]_(Catalog!vars)
<1>t. images \in [Image -> Entry \cup {None}] /\ now \in Nat
    BY DEF IndInv, TablesOK
<1>1. ASSUME NEW i \in Image, Touch(w, i)
      PROVE  [Catalog!Next]_(Catalog!vars)
  <2> DEFINE rec == [images[i].rec EXCEPT !.used = now]
  <2>1. i \in Cached /\ StartRewrite(w, i, rec)
      BY <1>1 DEF Touch
  <2>2. images[i] \in Entry BY <1>t, <2>1
  <2>3. rec \in Record /\ rec.pinned = images[i].rec.pinned
      BY <1>t, <2>2 DEF Entry, Record
  <2> HIDE DEF rec
  <2> QED BY <2>1, <2>3, RewriteStep
<1>2. ASSUME NEW i \in Image, NEW pin \in BOOLEAN, NEW refs \in SUBSET Ref,
             UpgradeProvenance(w, i, pin, refs)
      PROVE  [Catalog!Next]_(Catalog!vars)
  <2> DEFINE rec == [images[i].rec EXCEPT !.pinned = @ \/ pin, !.refs = @ \cup refs]
  <2>1. i \in Cached /\ StartRewrite(w, i, rec)
      BY <1>2 DEF UpgradeProvenance
  <2>2. images[i] \in Entry BY <1>t, <2>1
  <2>3. rec \in Record /\ (images[i].rec.pinned => rec.pinned)
      BY <2>2 DEF Entry, Record
  <2> HIDE DEF rec
  <2> QED BY <2>1, <2>3, RewriteStep
<1>3. CASE OpenTmp(w) \/ WriteTmp(w) \/ RenameTmp(w) \/ RewriteFails(w)
    BY <1>3, SameTables DEF OpenTmp, WriteTmp, RenameTmp, RewriteFails
<1>4. CASE AccountRewrite(w)
  <2> DEFINE i == writer[w].image
  <2>1. CASE i \in Cached
    <3> DEFINE e == [images[i] EXCEPT !.bytes = writer[w].size]
    <3>1. layers' = layers /\ images' = [images EXCEPT ![i] = e]
        BY <1>t, <1>4, <2>1 DEF AccountRewrite
    <3>2. images[i] \in Entry /\ writer[w].size \in Nat
        BY <1>t, <2>1 DEF IndInv, TablesOK, RecordRewrite
    <3>3. e \in Entry /\ e.rec = images[i].rec
        BY <3>2 DEF Entry
    <3>4. e # None BY <3>3, NoneIsNothing
    <3> HIDE DEF e, i
    <3>5. statusBar' = statusBar
        BY <1>t, <2>1, <3>1, <3>3, <3>4 DEF statusBar
    <3> QED BY <3>1, <3>5 DEF Catalog!vars
  <2>2. CASE i \notin Cached
      BY <1>4, <2>2, SameTables DEF AccountRewrite
  <2> QED BY <2>1, <2>2
<1> QED BY <1>1, <1>2, <1>3, <1>4 DEF WriterStep, Rewriting

\* A crash is the catalog's restart.
LEMMA CrashStep == Crash => Catalog!Next
BY DEF Crash, Catalog!Next, Catalog!Lose, statusBar

\* So is the sweep.
LEMMA OpenStep ==
    ASSUME IndInv, Open
    PROVE  Catalog!Next
<1>1. /\ layers = {} /\ Cached = {}
    BY DEF IndInv, DownIsEmpty, Open
<1>2. Catalog!Listed = {}
    BY <1>1, StatusOf DEF Catalog!Listed
<1>3. layers' = CompleteLayers /\ layers' \in SUBSET Layer
    BY DEF Open, CompleteLayers
<1>4. \A i \in Image : images'[i] # None => Usable(i)
    BY DEF Open
<1>5. statusBar' \in [Image -> Catalog!Status]
    BY DEF statusBar, Catalog!Status
<1>6. \A i \in Image : statusBar'[i] # "absent" => LayersOf[i] \subseteq layers'
    BY <1>3, <1>4 DEF statusBar, Usable
<1>7. Catalog!Recover
    BY <1>1, <1>2, <1>3, <1>5, <1>6 DEF Catalog!Recover
<1> QED BY <1>7 DEF Catalog!Next

\* Every step is a step of the catalog or leaves it alone.
LEMMA CatalogStep == IndInv /\ [Next]_vars => [Catalog!Next]_(Catalog!vars)
<1> SUFFICES ASSUME IndInv, [Next]_vars PROVE [Catalog!Next]_(Catalog!vars)
    OBVIOUS
<1>1. CASE \E t \in Txn : TxnStep(t) BY <1>1, TxnStepCatalog
<1>2. CASE \E w \in Writer : WriterStep(w) BY <1>2, WriterStepCatalog
<1>3. CASE Tick BY <1>3, SameTables DEF Tick, memory
<1>4. CASE Crash BY <1>4, CrashStep
<1>5. CASE Open BY <1>5, OpenStep
<1>6. CASE UNCHANGED vars BY <1>6, SameTables DEF vars, memory
<1> QED BY <1>1, <1>2, <1>3, <1>4, <1>5, <1>6 DEF Next

\* The cache keeps its readers' catalog: every behaviour of the store, with its
\* evictions, rewrites, crashes and restarts, is one of ImageCatalog.
THEOREM CatalogRefined == Spec => ImplementsCatalog
<1>1. Init => Catalog!Init BY CatalogInit
<1>2. IndInv /\ [Next]_vars => [Catalog!Next]_(Catalog!vars) BY CatalogStep
<1>3. Spec => []IndInv BY Inductive
<1> QED BY <1>1, <1>2, <1>3, PTL DEF Spec, ImplementsCatalog, Catalog!Spec
===============================================================================
