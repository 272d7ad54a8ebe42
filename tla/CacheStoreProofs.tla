--------------------------- MODULE CacheStoreProofs ---------------------------
(***************************************************************************)
(* Proofs about CacheStore for every value of its constants: IndInv is     *)
(* inductive, hence the tables are typed, a cached image has all of its    *)
(* layers, and the duplicate branch of PutLayer is dead.  One lemma per    *)
(* action, one step per conjunct of IndInv.  Then what may leave the       *)
(* table, and what the record files promise and on which conditions.       *)
(***************************************************************************)
EXTENDS CacheStore, TLAPS, FiniteSetTheorems

USE DEF Cached, Pinned, Evictable, MuFree, disk

\* A record has a size.
LEMMA SizeIsNat == ASSUME NEW rec \in Record PROVE Size(rec) \in Nat
<1>1. rec.refs \subseteq Ref BY DEF Record
<1>2. IsFiniteSet(rec.refs) BY <1>1, SizeAssumption, FS_Subset
<1> QED BY <1>2, FS_CardinalityType, SizeAssumption DEF Size

\* A file made of a record is a file.
LEMMA WrittenIsFile == ASSUME NEW rec \in Record PROVE Written(rec) \in File
BY SizeIsNat DEF Written, File

\* Writing over a file that lost its name still leaves a file.
LEMMA OverlayIsFile ==
    ASSUME NEW rec \in Record, NEW file \in File
    PROVE  Overlay(file, rec) \in File
BY SizeIsNat DEF Overlay, File

\* The sentinel is none of the things it stands beside.
LEMMA NoneIsNothing ==
    /\ \A e \in Entry : e # None
    /\ \A f \in File : f # None
    /\ \A i \in Image : i # None
BY NoneAssumption

\* The bytes a reservation asks for are a number.
LEMMA NeedIsNat ==
    ASSUME TablesOK, TxnsHoldLayers, NEW t \in Txn, Reserving(t)
    PROVE  Need(t) \in Nat
BY SizeIsNat, SizeAssumption
   DEF Need, TablesOK, Transaction, TxnsHoldLayers, PutPc, Reserving

\* A step that only moves a transaction to another point leaves it typed.
LEMMA GotoTyped ==
    ASSUME txn \in [Txn -> Transaction], NEW t \in Txn, NEW pc \in TxnPc, Goto(t, pc)
    PROVE  txn' \in [Txn -> Transaction]
BY DEF Goto, Transaction

\* Nor does one that also changes its bytes, its record or its layer.
LEMMA OwnTyped ==
    ASSUME NEW f \in [Txn -> Transaction], NEW t \in Txn, NEW pc \in TxnPc, NEW own \in Int
    PROVE  [f EXCEPT ![t].pc = pc, ![t].own = own] \in [Txn -> Transaction]
<1> DEFINE r == [f[t] EXCEPT !.pc = pc, !.own = own]
<1>1. r \in Transaction BY DEF Transaction
<1>2. [f EXCEPT ![t].pc = pc, ![t].own = own] = [f EXCEPT ![t] = r] BY DEF Transaction
<1> HIDE DEF r
<1> QED BY <1>1, <1>2

\* Nor does one that takes up a record to write.
LEMMA RecTyped ==
    ASSUME NEW f \in [Txn -> Transaction], NEW t \in Txn, NEW pc \in TxnPc, NEW rec \in Record
    PROVE  [f EXCEPT ![t].pc = pc, ![t].rec = rec] \in [Txn -> Transaction]
<1> DEFINE r == [f[t] EXCEPT !.pc = pc, !.rec = rec]
<1>1. r \in Transaction BY DEF Transaction
<1>2. [f EXCEPT ![t].pc = pc, ![t].rec = rec] = [f EXCEPT ![t] = r] BY DEF Transaction
<1> HIDE DEF r
<1> QED BY <1>1, <1>2

\* Nor does one that takes up a layer.
LEMMA LayerTyped ==
    ASSUME NEW f \in [Txn -> Transaction], NEW t \in Txn, NEW pc \in TxnPc, NEW l \in Layer
    PROVE  [f EXCEPT ![t].pc = pc, ![t].layer = l] \in [Txn -> Transaction]
<1> DEFINE r == [f[t] EXCEPT !.pc = pc, !.layer = l]
<1>1. r \in Transaction BY DEF Transaction
<1>2. [f EXCEPT ![t].pc = pc, ![t].layer = l] = [f EXCEPT ![t] = r] BY DEF Transaction
<1> HIDE DEF r
<1> QED BY <1>1, <1>2

\* A rewrite that moves on, with another descriptor or size, stays typed.
LEMMA FdTyped ==
    ASSUME NEW f \in [Writer -> RecordRewrite], NEW w \in Writer, NEW pc \in WriterPc,
           NEW fd \in {"tmp", "final", "gone"}
    PROVE  [f EXCEPT ![w].pc = pc, ![w].fd = fd] \in [Writer -> RecordRewrite]
<1> DEFINE r == [f[w] EXCEPT !.pc = pc, !.fd = fd]
<1>1. r \in RecordRewrite BY DEF RecordRewrite
<1>2. [f EXCEPT ![w].pc = pc, ![w].fd = fd] = [f EXCEPT ![w] = r] BY DEF RecordRewrite
<1> HIDE DEF r
<1> QED BY <1>1, <1>2

\* Nor one that learns a size.
LEMMA SizeTyped ==
    ASSUME NEW f \in [Writer -> RecordRewrite], NEW w \in Writer, NEW pc \in WriterPc,
           NEW n \in Nat
    PROVE  [f EXCEPT ![w].pc = pc, ![w].size = n] \in [Writer -> RecordRewrite]
<1> DEFINE r == [f[w] EXCEPT !.pc = pc, !.size = n]
<1>1. r \in RecordRewrite BY DEF RecordRewrite
<1>2. [f EXCEPT ![w].pc = pc, ![w].size = n] = [f EXCEPT ![w] = r] BY DEF RecordRewrite
<1> HIDE DEF r
<1> QED BY <1>1, <1>2

\* A rewrite that loses its file's name stays typed.
LEMMA UnlinkedTyped ==
    ASSUME writer \in [Writer -> RecordRewrite], NEW i
    PROVE  Unlinked(i) \in [Writer -> RecordRewrite]
BY DEF Unlinked, RecordRewrite

\* From here to StutterInv, one lemma for each action: it keeps the invariant.
\* A transaction that begins holds no layer yet.
LEMMA BeginInv ==
    ASSUME IndInv, NEW t \in Txn, NEW i \in Image, Begin(t, i)
    PROVE  IndInv'
<1> USE DEF IndInv
<1>1. TablesOK'
    BY DEF Begin, TablesOK, Transaction, OpenTxn, TxnPc, NewRecord, Record
<1>2. ImagesHaveLayers' /\ InstalledLayersComplete'
    BY DEF Begin, ImagesHaveLayers, InstalledLayersComplete
<1>3. PutsAreFirst'
    BY DEF Begin, PutsAreFirst, PutPc, OpenTxn, TablesOK, Transaction
<1>4. TxnsHoldLayers'
    BY DEF Begin, TxnsHoldLayers, PutPc, RecPc, OpenTxn, TablesOK, Transaction
<1>5. WritersHoldFiles'
    BY DEF Begin, WritersHoldFiles
<1>6. DownIsEmpty'
    BY DEF Begin, DownIsEmpty
<1> QED BY <1>1, <1>2, <1>3, <1>4, <1>5, <1>6

\* It comes to hold only layers the table lists.
LEMMA UseLayerInv ==
    ASSUME IndInv, NEW t \in Txn, NEW l \in Layer, UseLayer(t, l)
    PROVE  IndInv'
<1> USE DEF IndInv
<1>1. TablesOK'
    BY DEF UseLayer, TablesOK, Transaction
<1>2. ImagesHaveLayers' /\ InstalledLayersComplete'
    BY DEF UseLayer, ImagesHaveLayers, InstalledLayersComplete
<1>3. PutsAreFirst'
    BY DEF UseLayer, PutsAreFirst, PutPc, TablesOK, Transaction
<1>4. TxnsHoldLayers'
    BY DEF UseLayer, TxnsHoldLayers, PutPc, RecPc, TablesOK, Transaction
<1>5. WritersHoldFiles'
    BY DEF UseLayer, WritersHoldFiles
<1>6. DownIsEmpty'
    BY DEF UseLayer, DownIsEmpty
<1> QED BY <1>1, <1>2, <1>3, <1>4, <1>5, <1>6

\* A put claims a layer no other put claims, since its digest is locked.
LEMMA PutLayerInv ==
    ASSUME IndInv, NEW t \in Txn, NEW l \in Layer, PutLayer(t, l)
    PROVE  IndInv'
<1> USE DEF IndInv
<1>t. txn' \in [Txn -> Transaction]
  <2>1. txn \in [Txn -> Transaction] /\ "putReserve" \in TxnPc
      BY DEF TablesOK, TxnPc, PutPc
  <2>2. txn' = [txn EXCEPT ![t].pc = "putReserve", ![t].layer = l]
      BY DEF PutLayer
  <2> QED BY <2>1, <2>2, LayerTyped
<1>1. TablesOK'
    BY <1>t DEF PutLayer, TablesOK
<1>2. ImagesHaveLayers' /\ InstalledLayersComplete'
    BY DEF PutLayer, ImagesHaveLayers, InstalledLayersComplete
<1>3. PutsAreFirst'
    BY DEF PutLayer, PutsAreFirst, PutPc, DigestLocked, TablesOK, Transaction
<1>4. TxnsHoldLayers'
    BY DEF PutLayer, TxnsHoldLayers, PutPc, RecPc, TablesOK, Transaction
<1>5. WritersHoldFiles'
    BY DEF PutLayer, WritersHoldFiles
<1>6. DownIsEmpty'
    BY DEF PutLayer, DownIsEmpty
<1> QED BY <1>1, <1>2, <1>3, <1>4, <1>5, <1>6

\* A refused put gives its claim up.
LEMMA ReserveRefuseInv ==
    ASSUME IndInv, NEW t \in Txn, ReserveRefuse(t)
    PROVE  IndInv'
<1> USE DEF IndInv
<1>t. txn' \in [Txn -> Transaction]
    BY GotoTyped DEF ReserveRefuse, TablesOK, TxnPc, PutPc
<1>1. TablesOK'
    BY <1>t DEF ReserveRefuse, TablesOK
<1>2. ImagesHaveLayers' /\ InstalledLayersComplete'
    BY DEF ReserveRefuse, ImagesHaveLayers, InstalledLayersComplete
<1>3. PutsAreFirst'
    BY DEF ReserveRefuse, PutsAreFirst, PutPc, Reserving, Goto, TablesOK, Transaction
<1>4. TxnsHoldLayers'
    BY DEF ReserveRefuse, TxnsHoldLayers, PutPc, RecPc, Reserving, Goto, TablesOK, Transaction
<1>5. WritersHoldFiles'
    BY DEF ReserveRefuse, WritersHoldFiles
<1>6. DownIsEmpty'
    BY DEF ReserveRefuse, DownIsEmpty, Reserving
<1> QED BY <1>1, <1>2, <1>3, <1>4, <1>5, <1>6

\* A victim leaves the tables; what it shared stays for the others.
LEMMA EvictRecordInv ==
    ASSUME IndInv, NEW t \in Txn, EvictRecord(t)
    PROVE  IndInv'
<1> USE DEF IndInv
<1> PICK i \in Image :
        /\ images' = [images EXCEPT ![i] = None]
        /\ recFile' = [recFile EXCEPT ![i] = None]
        /\ writer' = Unlinked(i)
        /\ victim' = i
    BY DEF EvictRecord
<1> mu' = t /\ up /\ UNCHANGED <<up, layers, txn, layerDir, tmpFile, now>>
    BY DEF EvictRecord, InLoop, Reserving
<1>w. writer' \in [Writer -> RecordRewrite]
    BY UnlinkedTyped DEF TablesOK
<1>1. TablesOK'
    BY <1>w DEF TablesOK
<1>2. ImagesHaveLayers' /\ InstalledLayersComplete'
    BY DEF Unlinked, ImagesHaveLayers, InstalledLayersComplete, TablesOK
<1>3. PutsAreFirst'
    BY DEF Unlinked, PutsAreFirst, PutPc
<1>4. TxnsHoldLayers'
    BY DEF Unlinked, TxnsHoldLayers, PutPc, RecPc
<1>5. WritersHoldFiles'
    BY DEF Unlinked, WritersHoldFiles, TablesOK, RecordRewrite
<1>6. DownIsEmpty'
    BY DEF Unlinked, DownIsEmpty
<1> QED BY <1>1, <1>2, <1>3, <1>4, <1>5, <1>6

\* Only layers that no image and no transaction refers to are dropped.
LEMMA DropLayersInv ==
    ASSUME IndInv, NEW t \in Txn, DropLayers(t)
    PROVE  IndInv'
<1> USE DEF IndInv
<1> DEFINE dropped == {l \in LayersOf[victim] \cap layers : ~Referenced(l)}
<1>d. /\ layers' = layers \ dropped
      /\ layerDir' = [l \in Layer |-> IF l \in dropped THEN "none" ELSE layerDir[l]]
      /\ victim' = None /\ up
      /\ UNCHANGED <<up, images, mu, txn, writer, recFile, tmpFile, now>>
    BY DEF DropLayers
<1>i. \A j \in Cached : LayersOf[j] \cap dropped = {}
    BY DEF Referenced
<1>u. \A u \in Txn : txn[u].deps \cap dropped = {}
    BY DEF Referenced, InFlight, TxnsHoldLayers
<1> HIDE DEF dropped
<1>1. TablesOK'
    BY <1>d DEF TablesOK
<1>2. ImagesHaveLayers' /\ InstalledLayersComplete'
    BY <1>d, <1>i DEF ImagesHaveLayers, InstalledLayersComplete, TablesOK
<1>3. PutsAreFirst'
    BY <1>d DEF PutsAreFirst, PutPc
<1>4. TxnsHoldLayers'
  <2> SUFFICES ASSUME NEW u \in Txn
               PROVE  /\ txn[u].deps \subseteq layers'
                      /\ txn[u].pc = "putInstall" => layerDir'[txn[u].layer] = "full"
      BY <1>d DEF TxnsHoldLayers
  <2>1. txn[u].deps \subseteq layers' BY <1>d, <1>u DEF TxnsHoldLayers
  <2>2. txn[u].pc = "putInstall" => txn[u].layer \in Layer \ layers
      BY DEF TxnsHoldLayers, PutsAreFirst, PutPc
  <2>3. dropped \subseteq layers BY DEF dropped
  <2> QED BY <1>d, <2>1, <2>2, <2>3 DEF TxnsHoldLayers
<1>5. WritersHoldFiles'
    BY <1>d DEF WritersHoldFiles
<1>6. DownIsEmpty'
    BY <1>d DEF DownIsEmpty
<1> QED BY <1>1, <1>2, <1>3, <1>4, <1>5, <1>6

\* A grant changes no table but the ledger.
LEMMA ReserveGrantInv ==
    ASSUME IndInv, NEW t \in Txn, ReserveGrant(t)
    PROVE  IndInv'
<1> USE DEF IndInv
<1> DEFINE own == txn[t].own + Need(t)
           pc == IF txn[t].pc = "putReserve" THEN "putIndex" ELSE "recRename"
<1>a. own \in Int /\ pc \in TxnPc
    BY NeedIsNat DEF ReserveGrant, InLoop, TablesOK, TxnPc, PutPc, RecPc, Transaction
<1>b. txn' = [txn EXCEPT ![t].pc = pc, ![t].own = own]
    BY DEF ReserveGrant
<1>t. txn' \in [Txn -> Transaction]
  <2> HIDE DEF own, pc
  <2> txn \in [Txn -> Transaction] BY DEF TablesOK
  <2> QED BY <1>a, <1>b, OwnTyped
<1>e. /\ \A u \in Txn \ {t} : txn'[u] = txn[u]
      /\ txn'[t].deps = txn[t].deps /\ txn'[t].image = txn[t].image
      /\ txn'[t].layer = txn[t].layer /\ txn'[t].pc = pc
    BY <1>b DEF TablesOK, Transaction
<1>p. \/ txn[t].pc = "putReserve" /\ pc = "putIndex"
      \/ txn[t].pc = "recReserve" /\ pc = "recRename"
    BY DEF ReserveGrant, InLoop, Reserving
<1>s. UNCHANGED <<layers, layerDir>>
    BY DEF ReserveGrant
<1>1. TablesOK'
    BY <1>t DEF ReserveGrant, TablesOK
<1>2. ImagesHaveLayers' /\ InstalledLayersComplete'
    BY DEF ReserveGrant, ImagesHaveLayers, InstalledLayersComplete
<1>3. PutsAreFirst'
    BY DEF ReserveGrant, PutsAreFirst, PutPc, InLoop, Reserving, TablesOK, Transaction
<1>4. TxnsHoldLayers'
  <2> HIDE DEF own, pc
  <2> QED BY <1>e, <1>p, <1>s DEF TxnsHoldLayers, PutPc, RecPc
<1>5. WritersHoldFiles'
    BY DEF ReserveGrant, WritersHoldFiles
<1>6. DownIsEmpty'
    BY DEF ReserveGrant, DownIsEmpty, InLoop, Reserving
<1> QED BY <1>1, <1>2, <1>3, <1>4, <1>5, <1>6

\* A reservation that finds no victim gives its claim up.
LEMMA ReserveExhaustedInv ==
    ASSUME IndInv, NEW t \in Txn, ReserveExhausted(t)
    PROVE  IndInv'
<1> USE DEF IndInv
<1>t. txn' \in [Txn -> Transaction]
    BY GotoTyped DEF ReserveExhausted, TablesOK, TxnPc
<1>1. TablesOK'
    BY <1>t DEF ReserveExhausted, TablesOK
<1>2. ImagesHaveLayers' /\ InstalledLayersComplete'
    BY DEF ReserveExhausted, ImagesHaveLayers, InstalledLayersComplete
<1>3. PutsAreFirst'
    BY DEF ReserveExhausted, PutsAreFirst, PutPc, InLoop, Reserving, Goto, TablesOK, Transaction
<1>4. TxnsHoldLayers'
    BY DEF ReserveExhausted, TxnsHoldLayers, PutPc, RecPc, InLoop, Reserving, Goto, TablesOK, Transaction
<1>5. WritersHoldFiles'
    BY DEF ReserveExhausted, WritersHoldFiles
<1>6. DownIsEmpty'
    BY DEF ReserveExhausted, DownIsEmpty, InLoop, Reserving
<1> QED BY <1>1, <1>2, <1>3, <1>4, <1>5, <1>6

\* Half a layer on disk is not yet in the table.
LEMMA RenameIndexInv ==
    ASSUME IndInv, NEW t \in Txn, RenameIndex(t)
    PROVE  IndInv'
<1> USE DEF IndInv
<1>t. txn' \in [Txn -> Transaction]
    BY GotoTyped DEF RenameIndex, TablesOK, TxnPc, PutPc
<1>1. TablesOK'
    BY <1>t DEF RenameIndex, TablesOK
<1>2. ImagesHaveLayers' /\ InstalledLayersComplete'
    BY DEF RenameIndex, ImagesHaveLayers, InstalledLayersComplete, TablesOK, Transaction, PutsAreFirst, PutPc, TxnsHoldLayers
<1>3. PutsAreFirst'
    BY DEF RenameIndex, PutsAreFirst, PutPc, Goto, TablesOK, Transaction
<1>4. TxnsHoldLayers'
    BY DEF RenameIndex, TxnsHoldLayers, PutPc, RecPc, PutsAreFirst, Goto, TablesOK, Transaction
<1>5. WritersHoldFiles'
    BY DEF RenameIndex, WritersHoldFiles
<1>6. DownIsEmpty'
    BY DEF RenameIndex, DownIsEmpty, Goto
<1> QED BY <1>1, <1>2, <1>3, <1>4, <1>5, <1>6

\* The directory is whole before the table lists it.
LEMMA RenameDocInv ==
    ASSUME IndInv, NEW t \in Txn, RenameDoc(t)
    PROVE  IndInv'
<1> USE DEF IndInv
<1>t. txn' \in [Txn -> Transaction]
    BY GotoTyped DEF RenameDoc, TablesOK, TxnPc, PutPc
<1>1. TablesOK'
    BY <1>t DEF RenameDoc, TablesOK
<1>2. ImagesHaveLayers' /\ InstalledLayersComplete'
    BY DEF RenameDoc, ImagesHaveLayers, InstalledLayersComplete, TablesOK, Transaction, PutsAreFirst, PutPc, TxnsHoldLayers
<1>3. PutsAreFirst'
    BY DEF RenameDoc, PutsAreFirst, PutPc, Goto, TablesOK, Transaction
<1>4. TxnsHoldLayers'
    BY DEF RenameDoc, TxnsHoldLayers, PutPc, RecPc, PutsAreFirst, Goto, TablesOK, Transaction
<1>5. WritersHoldFiles'
    BY DEF RenameDoc, WritersHoldFiles
<1>6. DownIsEmpty'
    BY DEF RenameDoc, DownIsEmpty, Goto
<1> QED BY <1>1, <1>2, <1>3, <1>4, <1>5, <1>6

\* The layer enters the table and its transaction's holdings together.
LEMMA InstallLayerInv ==
    ASSUME IndInv, NEW t \in Txn, InstallLayer(t)
    PROVE  IndInv'
<1> USE DEF IndInv
<1> DEFINE l == txn[t].layer
<1>l. l \in Layer /\ l \notin layers /\ txn[t].pc = "putInstall" /\ up
    BY DEF InstallLayer, TxnsHoldLayers, PutsAreFirst, PutPc
<1>n. /\ layers' = layers \cup {l}
      /\ txn' = [txn EXCEPT ![t].pc = "open", ![t].layer = None,
                            ![t].deps = @ \cup {l}, ![t].own = @]
      /\ UNCHANGED <<up, images, mu, victim, writer, disk, now>>
    BY <1>l DEF InstallLayer
<1>t. txn' \in [Txn -> Transaction]
  <2> DEFINE deps == txn[t].deps \cup {l}
             done == [txn[t] EXCEPT !.pc = "open", !.layer = None, !.deps = deps]
  <2>1. txn \in [Txn -> Transaction] /\ txn[t] \in Transaction
      BY DEF TablesOK
  <2>2. deps \in SUBSET Layer
      BY <1>l, <2>1 DEF Transaction
  <2>3. done \in Transaction
    <3> HIDE DEF deps
    <3> QED BY <2>1, <2>2 DEF Transaction, TxnPc
  <2>4. txn' = [txn EXCEPT ![t] = done]
      BY <1>n, <2>1 DEF Transaction
  <2> HIDE DEF done
  <2> QED BY <2>1, <2>3, <2>4
<1>e. /\ \A u \in Txn \ {t} : txn'[u] = txn[u]
      /\ txn'[t].pc = "open" /\ txn'[t].deps = txn[t].deps \cup {l}
      /\ txn'[t].image = txn[t].image
    BY <1>n DEF TablesOK, Transaction
<1>1. TablesOK'
    BY <1>l, <1>n, <1>t DEF TablesOK
<1>2. ImagesHaveLayers' /\ InstalledLayersComplete'
    BY <1>l, <1>n DEF ImagesHaveLayers, InstalledLayersComplete, TxnsHoldLayers
<1>3. PutsAreFirst'
  <2>1. \A u \in Txn : txn'[u].pc \in PutPc => u # t /\ txn'[u] = txn[u]
      BY <1>e DEF PutPc
  <2>2. \A u \in Txn \ {t} : txn[u].pc \in PutPc => txn[u].layer # l
      BY <1>l DEF PutsAreFirst, PutPc
  <2>3. layers' = layers \cup {l} BY <1>n
  <2>4. \A u \in Txn \ {t} : txn[u].pc \in PutPc =>
            /\ txn[u].layer \notin layers
            /\ \A v \in Txn \ {u} : txn[v].pc \in PutPc => txn[v].layer # txn[u].layer
      BY DEF PutsAreFirst
  <2> HIDE DEF l
  <2> QED BY <2>1, <2>2, <2>3, <2>4 DEF PutsAreFirst
<1>4. TxnsHoldLayers'
  <2> HIDE DEF l
  <2> SUFFICES ASSUME NEW u \in Txn
               PROVE  /\ txn'[u].deps \subseteq layers'
                      /\ txn'[u].pc = "idle" => txn'[u].deps = {}
                      /\ txn'[u].pc # "idle" => txn'[u].image \in Image
                      /\ txn'[u].pc \in PutPc => txn'[u].layer \in Layer
                      /\ txn'[u].pc = "putInstall" => layerDir'[txn'[u].layer] = "full"
                      /\ txn'[u].pc \in RecPc => LayersOf[txn'[u].image] \subseteq txn'[u].deps
      BY DEF TxnsHoldLayers
  <2>1. CASE u # t
    <3>1. txn'[u] = txn[u] /\ layers \subseteq layers' /\ layerDir' = layerDir
        BY <1>n, <1>e, <2>1 DEF InstallLayer
    <3> QED BY <3>1 DEF TxnsHoldLayers
  <2>2. CASE u = t
      BY <1>l, <1>n, <1>e, <2>2 DEF TxnsHoldLayers, PutPc, RecPc
  <2> QED BY <2>1, <2>2
<1>5. WritersHoldFiles'
    BY <1>n DEF WritersHoldFiles
<1>6. DownIsEmpty'
    BY <1>l, <1>n DEF DownIsEmpty
<1> QED BY <1>1, <1>2, <1>3, <1>4, <1>5, <1>6

\* A failed put leaves a directory the table does not list.
LEMMA PutFailsInv ==
    ASSUME IndInv, NEW t \in Txn, PutFails(t)
    PROVE  IndInv'
<1> USE DEF IndInv
<1> DEFINE own == txn[t].own - LayerSize[txn[t].layer]
<1>t. /\ txn' \in [Txn -> Transaction]
      /\ \A u \in Txn \ {t} : txn'[u] = txn[u]
      /\ txn'[t].pc = "failed" /\ txn'[t].deps = txn[t].deps /\ txn'[t].image = txn[t].image
  <2>1. /\ txn \in [Txn -> Transaction] /\ own \in Int
        /\ txn' = [txn EXCEPT ![t].pc = "failed", ![t].own = own]
      BY SizeAssumption DEF PutFails, Release, TablesOK, Transaction, TxnsHoldLayers, PutPc
  <2>2. "failed" \in TxnPc BY DEF TxnPc, RecPc
  <2> HIDE DEF own
  <2>3. txn' \in [Txn -> Transaction] BY <2>1, <2>2, OwnTyped
  <2> QED BY <2>1, <2>3 DEF Transaction
<1>s. UNCHANGED <<layers, layerDir>>
    BY DEF PutFails
<1>1. TablesOK'
    BY <1>t DEF PutFails, Release, TablesOK
<1>2. ImagesHaveLayers' /\ InstalledLayersComplete'
    BY DEF PutFails, Release, ImagesHaveLayers, InstalledLayersComplete
<1>3. PutsAreFirst'
    BY <1>t DEF PutFails, Release, PutsAreFirst, PutPc
<1>4. TxnsHoldLayers'
  <2>1. txn[t].pc # "idle"
      BY DEF PutFails
  <2>2. "failed" # "idle" /\ "failed" \notin PutPc \cup RecPc /\ "failed" # "putInstall"
      BY DEF PutPc, RecPc
  <2> QED BY <1>t, <1>s, <2>1, <2>2 DEF TxnsHoldLayers
<1>5. WritersHoldFiles'
    BY DEF PutFails, Release, WritersHoldFiles
<1>6. DownIsEmpty'
    BY DEF PutFails, Release, DownIsEmpty
<1> QED BY <1>1, <1>2, <1>3, <1>4, <1>5, <1>6

\* A failed commit leaves the image as it was.
LEMMA RecordFailsInv ==
    ASSUME IndInv, NEW t \in Txn, RecordFails(t)
    PROVE  IndInv'
<1> USE DEF IndInv
<1> DEFINE own == txn[t].own - Size(txn[t].rec)
<1>t. /\ txn' \in [Txn -> Transaction]
      /\ \A u \in Txn \ {t} : txn'[u] = txn[u]
      /\ txn'[t].pc = "failed" /\ txn'[t].deps = txn[t].deps /\ txn'[t].image = txn[t].image
  <2>1. /\ txn \in [Txn -> Transaction] /\ own \in Int
        /\ txn' = [txn EXCEPT ![t].pc = "failed", ![t].own = own]
      BY SizeIsNat DEF RecordFails, Release, TablesOK, Transaction, TxnsHoldLayers, PutPc
  <2>2. "failed" \in TxnPc BY DEF TxnPc, RecPc
  <2> HIDE DEF own
  <2>3. txn' \in [Txn -> Transaction] BY <2>1, <2>2, OwnTyped
  <2> QED BY <2>1, <2>3 DEF Transaction
<1>s. UNCHANGED <<layers, layerDir>>
    BY DEF RecordFails
<1>1. TablesOK'
    BY <1>t DEF RecordFails, Release, TablesOK
<1>2. ImagesHaveLayers' /\ InstalledLayersComplete'
    BY DEF RecordFails, Release, ImagesHaveLayers, InstalledLayersComplete
<1>3. PutsAreFirst'
    BY <1>t DEF RecordFails, Release, PutsAreFirst, PutPc
<1>4. TxnsHoldLayers'
  <2>1. txn[t].pc # "idle"
      BY DEF RecordFails
  <2>2. "failed" # "idle" /\ "failed" \notin PutPc \cup RecPc /\ "failed" # "putInstall"
      BY DEF PutPc, RecPc
  <2> QED BY <1>t, <1>s, <2>1, <2>2 DEF TxnsHoldLayers
<1>5. WritersHoldFiles'
    BY DEF RecordFails, Release, WritersHoldFiles
<1>6. DownIsEmpty'
    BY DEF RecordFails, Release, DownIsEmpty
<1> QED BY <1>1, <1>2, <1>3, <1>4, <1>5, <1>6

\* A commit starts only with every layer of its image held.
LEMMA CommitStartInv ==
    ASSUME IndInv, NEW t \in Txn, NEW pin \in BOOLEAN, NEW refs \in SUBSET Ref, CommitStart(t, pin, refs)
    PROVE  IndInv'
<1> USE DEF IndInv
<1> DEFINE r == [pinned |-> pin, refs |-> refs, used |-> now]
<1>t. /\ txn' \in [Txn -> Transaction]
      /\ \A u \in Txn \ {t} : txn'[u] = txn[u]
      /\ txn'[t].pc = "recReserve" /\ txn'[t].deps = txn[t].deps /\ txn'[t].image = txn[t].image
  <2>1. /\ txn \in [Txn -> Transaction] /\ r \in Record
        /\ txn' = [txn EXCEPT ![t].pc = "recReserve", ![t].rec = r]
      BY DEF CommitStart, Declared, TablesOK, Record
  <2>2. "recReserve" \in TxnPc BY DEF TxnPc, RecPc
  <2> HIDE DEF r
  <2>3. txn' \in [Txn -> Transaction] BY <2>1, <2>2, RecTyped
  <2> QED BY <2>1, <2>3 DEF Transaction
<1>s. UNCHANGED <<layers, layerDir>>
    BY DEF CommitStart
<1>1. TablesOK'
    BY <1>t DEF CommitStart, Declared, TablesOK
<1>2. ImagesHaveLayers' /\ InstalledLayersComplete'
    BY DEF CommitStart, Declared, ImagesHaveLayers, InstalledLayersComplete
<1>3. PutsAreFirst'
    BY <1>t DEF CommitStart, Declared, PutsAreFirst, PutPc
<1>4. TxnsHoldLayers'
    BY <1>t, <1>s DEF TxnsHoldLayers, PutPc, RecPc, CommitStart, Declared
<1>5. WritersHoldFiles'
    BY DEF CommitStart, Declared, WritersHoldFiles
<1>6. DownIsEmpty'
    BY DEF CommitStart, Declared, DownIsEmpty
<1> QED BY <1>1, <1>2, <1>3, <1>4, <1>5, <1>6

\* The record is on disk before the table lists it.
LEMMA RenameRecordInv ==
    ASSUME IndInv, NEW t \in Txn, RenameRecord(t)
    PROVE  IndInv'
<1> USE DEF IndInv
<1> DEFINE i == txn[t].image
<1>i. i \in Image BY DEF RenameRecord, TxnsHoldLayers
<1>f. Written(txn[t].rec) \in File BY WrittenIsFile DEF TablesOK, Transaction
<1>w. writer' \in [Writer -> RecordRewrite] BY DEF RenameRecord, Unlinked, TablesOK, RecordRewrite
<1>t. txn' \in [Txn -> Transaction]
    BY GotoTyped DEF RenameRecord, TablesOK, TxnPc, RecPc
<1>1. TablesOK'
    BY <1>f, <1>w, <1>t DEF RenameRecord, TablesOK
<1>2. ImagesHaveLayers' /\ InstalledLayersComplete'
    BY DEF RenameRecord, ImagesHaveLayers, InstalledLayersComplete, Goto
<1>3. PutsAreFirst'
    BY DEF RenameRecord, PutsAreFirst, PutPc, Goto, TablesOK, Transaction
<1>4. TxnsHoldLayers'
    BY DEF RenameRecord, TxnsHoldLayers, PutPc, RecPc, Goto, TablesOK, Transaction
<1>5. WritersHoldFiles'
    BY <1>i, <1>f, NoneIsNothing DEF RenameRecord, WritersHoldFiles, Unlinked, TablesOK, RecordRewrite
<1>6. DownIsEmpty'
    BY DEF RenameRecord, DownIsEmpty, Goto
<1> QED BY <1>1, <1>2, <1>3, <1>4, <1>5, <1>6

\* The image enters the table while its transaction still holds its layers.
LEMMA InstallRecordInv ==
    ASSUME IndInv, NEW t \in Txn, InstallRecord(t)
    PROVE  IndInv'
<1> USE DEF IndInv
<1> DEFINE i == txn[t].image
           e == [rec |-> txn[t].rec, bytes |-> Size(txn[t].rec)]
<1>i. i \in Image /\ LayersOf[i] \subseteq layers
    BY DEF InstallRecord, TxnsHoldLayers, RecPc
<1>e. e \in Entry BY SizeIsNat DEF TablesOK, Transaction, Entry
<1>m. images' = [images EXCEPT ![i] = e] BY DEF InstallRecord
<1> HIDE DEF e
<1>t. txn' \in [Txn -> Transaction]
    BY GotoTyped DEF InstallRecord, TablesOK, TxnPc
<1>g. images' \in [Image -> Entry \cup {None}]
    BY <1>i, <1>e, <1>m DEF TablesOK
<1>1. TablesOK'
    BY <1>t, <1>g DEF InstallRecord, TablesOK
<1>2. ImagesHaveLayers' /\ InstalledLayersComplete'
    BY <1>i, <1>m DEF InstallRecord, ImagesHaveLayers, InstalledLayersComplete, TablesOK
<1>3. PutsAreFirst'
    BY DEF InstallRecord, PutsAreFirst, PutPc, Goto, TablesOK, Transaction
<1>4. TxnsHoldLayers'
    BY DEF InstallRecord, TxnsHoldLayers, PutPc, RecPc, Goto, TablesOK, Transaction
<1>5. WritersHoldFiles'
    BY DEF InstallRecord, WritersHoldFiles
<1>6. DownIsEmpty'
    BY DEF InstallRecord, DownIsEmpty
<1> QED BY <1>1, <1>2, <1>3, <1>4, <1>5, <1>6

\* A transaction lets its layers go; installed images keep theirs.
LEMMA FinishInv ==
    ASSUME IndInv, NEW t \in Txn, Finish(t)
    PROVE  IndInv'
<1> USE DEF IndInv
<1>1. TablesOK'
    BY DEF Finish, TablesOK, Transaction, IdleTxn, TxnPc, NewRecord, Record
<1>2. ImagesHaveLayers' /\ InstalledLayersComplete'
    BY DEF Finish, ImagesHaveLayers, InstalledLayersComplete
<1>3. PutsAreFirst'
    BY DEF Finish, PutsAreFirst, PutPc, IdleTxn, TablesOK, Transaction
<1>4. TxnsHoldLayers'
    BY DEF Finish, TxnsHoldLayers, PutPc, RecPc, IdleTxn, TablesOK, Transaction
<1>5. WritersHoldFiles'
    BY DEF Finish, WritersHoldFiles
<1>6. DownIsEmpty'
    BY DEF Finish, DownIsEmpty
<1> QED BY <1>1, <1>2, <1>3, <1>4, <1>5, <1>6

\* Publishing a record and starting to write it, for Touch and UpgradeProvenance.
LEMMA StartRewriteInv ==
    ASSUME IndInv, NEW w \in Writer, NEW i \in Cached, NEW rec \in Record, up,
           StartRewrite(w, i, rec)
    PROVE  IndInv'
<1> USE DEF IndInv
<1>i. i \in Image /\ images[i] \in Entry BY DEF TablesOK
<1>m. /\ images' \in [Image -> Entry \cup {None}]
      /\ \A j \in Image : images'[j] # None => images[j] # None
    BY <1>i DEF StartRewrite, TablesOK, Entry
<1>w. /\ writer' \in [Writer -> RecordRewrite]
      /\ writer'[w].pc = "stage" /\ writer'[w].image = i
      /\ \A v \in Writer \ {w} : writer'[v] = writer[v]
    BY <1>i DEF StartRewrite, Rewrite, TablesOK, RecordRewrite, WriterPc
<1>1. TablesOK' BY <1>m, <1>w DEF StartRewrite, TablesOK
<1>2. ImagesHaveLayers' /\ InstalledLayersComplete'
    BY <1>m DEF StartRewrite, ImagesHaveLayers, InstalledLayersComplete
<1>3. PutsAreFirst' BY DEF StartRewrite, PutsAreFirst
<1>4. TxnsHoldLayers' BY DEF StartRewrite, TxnsHoldLayers
<1>5. WritersHoldFiles' BY <1>i, <1>w DEF StartRewrite, WritersHoldFiles
<1>6. DownIsEmpty' BY DEF StartRewrite, DownIsEmpty
<1> QED BY <1>1, <1>2, <1>3, <1>4, <1>5, <1>6

\* A touch works from the entry it found.
LEMMA TouchInv ==
    ASSUME IndInv, NEW w \in Writer, NEW i \in Image, Touch(w, i)
    PROVE  IndInv'
<1>1. i \in Cached /\ images[i].rec \in Record /\ now \in Nat
    BY DEF Touch, IndInv, TablesOK, Entry
<1>2. [images[i].rec EXCEPT !.used = now] \in Record BY <1>1 DEF Record
<1> QED BY <1>1, <1>2, StartRewriteInv DEF Touch

\* So does an upgrade of provenance.
LEMMA UpgradeProvenanceInv ==
    ASSUME IndInv, NEW w \in Writer, NEW i \in Image, NEW pin \in BOOLEAN,
           NEW refs \in SUBSET Ref, UpgradeProvenance(w, i, pin, refs)
    PROVE  IndInv'
<1> DEFINE merged == [images[i].rec EXCEPT !.pinned = @ \/ pin, !.refs = @ \cup refs]
<1>1. i \in Cached /\ images[i].rec \in Record /\ up
    BY DEF UpgradeProvenance, IndInv, TablesOK, Entry
<1>2. merged \in Record
  <2> DEFINE p == images[i].rec.pinned \/ pin
             s == images[i].rec.refs \cup refs
  <2>1. p \in BOOLEAN OBVIOUS
  <2>2. s \in SUBSET Ref BY <1>1 DEF Record
  <2>3. merged = [images[i].rec EXCEPT !.pinned = p, !.refs = s] OBVIOUS
  <2> HIDE DEF p, s, merged
  <2> QED BY <1>1, <2>1, <2>2, <2>3 DEF Record
<1>3. StartRewrite(w, i, merged) BY DEF UpgradeProvenance
<1> HIDE DEF merged
<1> QED BY <1>1, <1>2, <1>3, StartRewriteInv

\* An opened file is a file of the record being written.
LEMMA OpenTmpInv ==
    ASSUME IndInv, NEW w \in Writer, OpenTmp(w)
    PROVE  IndInv'
<1> USE DEF IndInv
<1> DEFINE i == writer[w].image
<1>i. i \in Image /\ up BY DEF OpenTmp, WritersHoldFiles
<1>f. Truncated \in File BY DEF Truncated, File, NewRecord, Record
<1>w. /\ writer' \in [Writer -> RecordRewrite]
      /\ writer'[w].pc = "write" /\ writer'[w].fd = "tmp" /\ writer'[w].image = i
      /\ \A v \in Writer \ {w} : writer'[v] = writer[v]
  <2>1. /\ writer \in [Writer -> RecordRewrite] /\ "write" \in WriterPc
        /\ writer' = [writer EXCEPT ![w].pc = "write", ![w].fd = "tmp"]
      BY DEF OpenTmp, TablesOK, WriterPc
  <2>2. writer' \in [Writer -> RecordRewrite] BY <2>1, FdTyped
  <2> QED BY <2>1, <2>2 DEF RecordRewrite
<1>1. TablesOK'
    BY <1>i, <1>f, <1>w DEF OpenTmp, TablesOK
<1>2. ImagesHaveLayers' /\ InstalledLayersComplete'
    BY DEF OpenTmp, ImagesHaveLayers, InstalledLayersComplete
<1>3. PutsAreFirst'
    BY DEF OpenTmp, PutsAreFirst, PutPc
<1>4. TxnsHoldLayers'
    BY DEF OpenTmp, TxnsHoldLayers, PutPc, RecPc
<1>5. WritersHoldFiles'
    BY <1>i, <1>f, <1>w, NoneIsNothing DEF OpenTmp, WritersHoldFiles, TablesOK
<1>6. DownIsEmpty'
    BY DEF OpenTmp, DownIsEmpty
<1> QED BY <1>1, <1>2, <1>3, <1>4, <1>5, <1>6

\* Bytes reach the file behind the descriptor, under whatever name it has.
LEMMA WriteTmpInv ==
    ASSUME IndInv, NEW w \in Writer, WriteTmp(w)
    PROVE  IndInv'
<1> USE DEF IndInv
<1> DEFINE i == writer[w].image
<1>i. i \in Image /\ up BY DEF WriteTmp, WritersHoldFiles
<1>r. /\ writer[w].rec \in Record /\ writer[w].pc = "write"
      /\ writer[w].fd \in {"tmp", "final", "gone"}
    BY DEF WriteTmp, TablesOK, RecordRewrite
<1>t. /\ tmpFile' \in [Image -> File \cup {None}]
      /\ \A j \in Image : tmpFile[j] # None => tmpFile'[j] # None
      /\ writer[w].fd = "tmp" => tmpFile'[i].size \in Nat
  <2>1. CASE writer[w].fd = "tmp"
    <3>1. tmpFile[i] \in File BY <1>i, <1>r, <2>1 DEF WritersHoldFiles, TablesOK
    <3>2. Overlay(tmpFile[i], writer[w].rec) \in File BY <1>r, <3>1, OverlayIsFile
    <3>3. tmpFile' = [tmpFile EXCEPT ![i] = Overlay(tmpFile[i], writer[w].rec)]
        BY <2>1 DEF WriteTmp
    <3> QED BY <1>i, <3>2, <3>3, NoneIsNothing DEF TablesOK, File
  <2>2. CASE writer[w].fd # "tmp" BY <2>2 DEF WriteTmp, TablesOK
  <2> QED BY <2>1, <2>2
<1>f. /\ recFile' \in [Image -> File \cup {None}]
      /\ \A j \in Image : recFile[j] # None => recFile'[j] # None
      /\ writer[w].fd = "final" => recFile'[i].size \in Nat
  <2>1. CASE writer[w].fd = "final"
    <3>1. recFile[i] \in File BY <1>i, <1>r, <2>1 DEF WritersHoldFiles, TablesOK
    <3>2. Overlay(recFile[i], writer[w].rec) \in File BY <1>r, <3>1, OverlayIsFile
    <3>3. recFile' = [recFile EXCEPT ![i] = Overlay(recFile[i], writer[w].rec)]
        BY <2>1 DEF WriteTmp
    <3> QED BY <1>i, <3>2, <3>3, NoneIsNothing DEF TablesOK, File
  <2>2. CASE writer[w].fd # "final" BY <2>2 DEF WriteTmp, TablesOK
  <2> QED BY <2>1, <2>2
<1>w. /\ writer' \in [Writer -> RecordRewrite]
      /\ writer'[w].pc = "rename" /\ writer'[w].image = i
      /\ \A v \in Writer \ {w} : writer'[v] = writer[v]
  <2> DEFINE n == CASE writer[w].fd = "tmp" -> tmpFile'[i].size
                    [] writer[w].fd = "final" -> recFile'[i].size
                    [] writer[w].fd = "gone" -> Size(writer[w].rec)
  <2>1. n \in Nat BY <1>r, <1>t, <1>f, SizeIsNat
  <2>2. writer' = [writer EXCEPT ![w].pc = "rename", ![w].size = n] BY DEF WriteTmp
  <2>3. writer \in [Writer -> RecordRewrite] BY DEF TablesOK
  <2> HIDE DEF n
  <2>4. "rename" \in WriterPc BY DEF WriterPc
  <2>5. writer' \in [Writer -> RecordRewrite] BY <2>1, <2>2, <2>3, <2>4, SizeTyped
  <2> QED BY <2>2, <2>3, <2>5 DEF RecordRewrite
<1>1. TablesOK'
    BY <1>t, <1>f, <1>w DEF WriteTmp, TablesOK
<1>2. ImagesHaveLayers' /\ InstalledLayersComplete'
    BY DEF WriteTmp, ImagesHaveLayers, InstalledLayersComplete
<1>3. PutsAreFirst'
    BY DEF WriteTmp, PutsAreFirst, PutPc
<1>4. TxnsHoldLayers'
    BY DEF WriteTmp, TxnsHoldLayers, PutPc, RecPc
<1>5. WritersHoldFiles'
    BY <1>i, <1>t, <1>f, <1>w DEF WritersHoldFiles
<1>6. DownIsEmpty'
    BY DEF WriteTmp, DownIsEmpty
<1> QED BY <1>1, <1>2, <1>3, <1>4, <1>5, <1>6

\* A rename moves a file and disturbs no table.
LEMMA RenameTmpInv ==
    ASSUME IndInv, NEW w \in Writer, RenameTmp(w)
    PROVE  IndInv'
<1> USE DEF IndInv
<1> DEFINE i == writer[w].image
<1>i. i \in Image /\ up BY DEF RenameTmp, WritersHoldFiles
<1>w. /\ writer' \in [Writer -> RecordRewrite]
      /\ writer'[w] = [writer[w] EXCEPT !.pc = "account"]
      /\ \A v \in Writer \ {w} :
            writer'[v] = IF writer[v].image = i /\ writer[v].pc = "write"
                         THEN [writer[v] EXCEPT !.fd = IF @ = "tmp" THEN "final" ELSE "gone"]
                         ELSE writer[v]
    BY DEF RenameTmp, TablesOK, RecordRewrite, WriterPc
<1>f. /\ recFile' = [recFile EXCEPT ![i] = tmpFile[i]]
      /\ tmpFile' = [tmpFile EXCEPT ![i] = None]
      /\ tmpFile[i] # None
    BY DEF RenameTmp
<1>1. TablesOK'
    BY <1>i, <1>f, <1>w DEF RenameTmp, TablesOK
<1>2. ImagesHaveLayers' /\ InstalledLayersComplete'
    BY DEF RenameTmp, ImagesHaveLayers, InstalledLayersComplete
<1>3. PutsAreFirst'
    BY DEF RenameTmp, PutsAreFirst, PutPc
<1>4. TxnsHoldLayers'
    BY DEF RenameTmp, TxnsHoldLayers, PutPc, RecPc
<1>5. WritersHoldFiles'
  <2> SUFFICES ASSUME NEW v \in Writer
               PROVE  /\ writer'[v].pc # "idle" => writer'[v].image \in Image
                      /\ writer'[v].pc = "write" /\ writer'[v].fd = "tmp" => tmpFile'[writer'[v].image] # None
                      /\ writer'[v].pc = "write" /\ writer'[v].fd = "final" => recFile'[writer'[v].image] # None
      BY DEF WritersHoldFiles
  <2>1. CASE v = w BY <1>i, <1>w, <2>1 DEF TablesOK, RecordRewrite
  <2>2. CASE v # w /\ writer[v].image = i /\ writer[v].pc = "write"
      BY <1>i, <1>w, <1>f, <2>2 DEF TablesOK, RecordRewrite
  <2>3. CASE v # w /\ ~(writer[v].image = i /\ writer[v].pc = "write")
      BY <1>i, <1>w, <1>f, <2>3 DEF TablesOK, RecordRewrite, WritersHoldFiles
  <2> QED BY <2>1, <2>2, <2>3
<1>6. DownIsEmpty'
    BY DEF RenameTmp, DownIsEmpty
<1> QED BY <1>1, <1>2, <1>3, <1>4, <1>5, <1>6

\* A failed rename or sync ends the rewrite.
LEMMA RewriteFailsInv ==
    ASSUME IndInv, NEW w \in Writer, RewriteFails(w)
    PROVE  IndInv'
<1> USE DEF IndInv
<1>1. TablesOK'
    BY DEF RewriteFails, TablesOK, RecordRewrite, IdleWriter, WriterPc, NewRecord, Record
<1>2. ImagesHaveLayers' /\ InstalledLayersComplete'
    BY DEF RewriteFails, ImagesHaveLayers, InstalledLayersComplete
<1>3. PutsAreFirst'
    BY DEF RewriteFails, PutsAreFirst, PutPc
<1>4. TxnsHoldLayers'
    BY DEF RewriteFails, TxnsHoldLayers, PutPc, RecPc
<1>5. WritersHoldFiles'
    BY DEF RewriteFails, WritersHoldFiles, TablesOK, IdleWriter
<1>6. DownIsEmpty'
    BY DEF RewriteFails, DownIsEmpty
<1> QED BY <1>1, <1>2, <1>3, <1>4, <1>5, <1>6

\* The entry takes the new size, if it is still there.
LEMMA AccountRewriteInv ==
    ASSUME IndInv, NEW w \in Writer, AccountRewrite(w)
    PROVE  IndInv'
<1> USE DEF IndInv
<1> DEFINE i == writer[w].image
<1>i. i \in Image /\ up BY DEF AccountRewrite, WritersHoldFiles
<1>m. /\ images' \in [Image -> Entry \cup {None}]
      /\ \A j \in Image : images'[j] # None => images[j] # None
  <2>1. CASE i \in Cached
    <3>1. images[i] \in Entry /\ writer[w].size \in Nat BY <2>1 DEF TablesOK, RecordRewrite
    <3>2. images' = [images EXCEPT ![i].bytes = writer[w].size] BY <2>1 DEF AccountRewrite
    <3> QED BY <1>i, <2>1, <3>1, <3>2 DEF TablesOK, Entry
  <2>2. CASE i \notin Cached BY <2>2 DEF AccountRewrite, TablesOK
  <2> QED BY <2>1, <2>2
<1>w. writer' \in [Writer -> RecordRewrite]
    BY DEF AccountRewrite, TablesOK, RecordRewrite, IdleWriter, WriterPc, NewRecord, Record
<1>1. TablesOK'
    BY <1>m, <1>w DEF AccountRewrite, TablesOK
<1>2. ImagesHaveLayers' /\ InstalledLayersComplete'
    BY <1>m DEF AccountRewrite, ImagesHaveLayers, InstalledLayersComplete
<1>3. PutsAreFirst'
    BY DEF AccountRewrite, PutsAreFirst, PutPc
<1>4. TxnsHoldLayers'
    BY DEF AccountRewrite, TxnsHoldLayers, PutPc, RecPc
<1>5. WritersHoldFiles'
    BY DEF AccountRewrite, WritersHoldFiles, TablesOK, IdleWriter
<1>6. DownIsEmpty'
    BY DEF AccountRewrite, DownIsEmpty
<1> QED BY <1>1, <1>2, <1>3, <1>4, <1>5, <1>6

\* Time alone changes nothing.
LEMMA TickInv ==
    ASSUME IndInv, Tick
    PROVE  IndInv'
<1> USE DEF IndInv
<1>1. TablesOK'
    BY DEF Tick, memory, TablesOK
<1>2. ImagesHaveLayers' /\ InstalledLayersComplete'
    BY DEF Tick, memory, ImagesHaveLayers, InstalledLayersComplete
<1>3. PutsAreFirst'
    BY DEF Tick, memory, PutsAreFirst, PutPc
<1>4. TxnsHoldLayers'
    BY DEF Tick, memory, TxnsHoldLayers, PutPc, RecPc
<1>5. WritersHoldFiles'
    BY DEF Tick, memory, WritersHoldFiles
<1>6. DownIsEmpty'
    BY DEF Tick, memory, DownIsEmpty
<1> QED BY <1>1, <1>2, <1>3, <1>4, <1>5, <1>6

\* A crash empties memory and leaves the disk.
LEMMA CrashInv ==
    ASSUME IndInv, Crash
    PROVE  IndInv'
<1> USE DEF IndInv
<1>1. TablesOK'
  <2>1. NewRecord \in Record BY DEF NewRecord, Record
  <2>2. IdleTxn \in Transaction BY <2>1 DEF IdleTxn, Transaction, TxnPc
  <2>3. IdleWriter \in RecordRewrite BY <2>1 DEF IdleWriter, RecordRewrite, WriterPc
  <2> QED BY <2>2, <2>3 DEF Crash, TablesOK
<1>2. ImagesHaveLayers' /\ InstalledLayersComplete'
    BY DEF Crash, ImagesHaveLayers, InstalledLayersComplete
<1>3. PutsAreFirst'
    BY DEF Crash, PutsAreFirst, PutPc, IdleTxn
<1>4. TxnsHoldLayers'
    BY DEF Crash, TxnsHoldLayers, PutPc, RecPc, IdleTxn
<1>5. WritersHoldFiles'
    BY DEF Crash, WritersHoldFiles, IdleWriter
<1>6. DownIsEmpty'
    BY DEF Crash, DownIsEmpty
<1> QED BY <1>1, <1>2, <1>3, <1>4, <1>5, <1>6

\* The sweep lists only images whose layers it found complete.
LEMMA OpenInv ==
    ASSUME IndInv, Open
    PROVE  IndInv'
<1> USE DEF IndInv
<1>d. /\ ~up /\ up' = TRUE
      /\ txn = [t \in Txn |-> IdleTxn] /\ writer = [w \in Writer |-> IdleWriter]
      /\ UNCHANGED <<mu, victim, txn, writer, now>>
      /\ layers' = CompleteLayers
    BY DEF Open, DownIsEmpty
<1>k. \A i \in Image : Usable(i) => recFile[i] \in File /\ LayersOf[i] \subseteq CompleteLayers
    BY DEF Usable, TablesOK
<1>m. /\ images' \in [Image -> Entry \cup {None}]
      /\ recFile' \in [Image -> File \cup {None}]
      /\ \A i \in Image : images'[i] # None => Usable(i)
    BY <1>k DEF Open, Entry, File
<1>1. TablesOK'
    BY <1>d, <1>m DEF Open, TablesOK, CompleteLayers
<1>2. ImagesHaveLayers' /\ InstalledLayersComplete'
    BY <1>d, <1>k, <1>m DEF Open, ImagesHaveLayers, InstalledLayersComplete, CompleteLayers
<1>3. PutsAreFirst'
    BY <1>d DEF PutsAreFirst, IdleTxn, PutPc
<1>4. TxnsHoldLayers'
    BY <1>d DEF TxnsHoldLayers, IdleTxn, PutPc, RecPc
<1>5. WritersHoldFiles'
    BY <1>d DEF WritersHoldFiles, IdleWriter
<1>6. DownIsEmpty'
    BY <1>d DEF DownIsEmpty
<1> QED BY <1>1, <1>2, <1>3, <1>4, <1>5, <1>6

-------------------------------------------------------------------------------

\* An empty cache satisfies the invariant.
LEMMA InitInv == Init => IndInv
<1> SUFFICES ASSUME Init PROVE IndInv OBVIOUS
<1>1. TablesOK
    BY DEF Init, TablesOK, Transaction, IdleTxn, TxnPc, NewRecord, Record,
           RecordRewrite, IdleWriter, WriterPc
<1>2. ImagesHaveLayers /\ InstalledLayersComplete
    BY DEF Init, ImagesHaveLayers, InstalledLayersComplete
<1>3. PutsAreFirst /\ TxnsHoldLayers
    BY DEF Init, PutsAreFirst, TxnsHoldLayers, IdleTxn, PutPc, RecPc
<1>4. WritersHoldFiles BY DEF Init, WritersHoldFiles, IdleWriter
<1>5. DownIsEmpty BY DEF Init, DownIsEmpty
<1> QED BY <1>1, <1>2, <1>3, <1>4, <1>5 DEF IndInv

\* A stuttering step keeps it.
LEMMA StutterInv == IndInv /\ UNCHANGED vars => IndInv'
BY DEF vars, memory, IndInv, TablesOK, ImagesHaveLayers, InstalledLayersComplete,
       PutsAreFirst, TxnsHoldLayers, WritersHoldFiles, DownIsEmpty

\* Every step of a transaction keeps it.
LEMMA TxnStepInv ==
    ASSUME IndInv, NEW t \in Txn, TxnStep(t)
    PROVE  IndInv'
<1>1. CASE \E i \in Image : Begin(t, i) BY <1>1, BeginInv
<1>2. CASE \E l \in Layer : UseLayer(t, l) \/ PutLayer(t, l)
    BY <1>2, UseLayerInv, PutLayerInv
<1>3. CASE \E pin \in BOOLEAN, refs \in SUBSET Ref : CommitStart(t, pin, refs)
    BY <1>3, CommitStartInv
<1>4. CASE InCall(t)
    BY <1>4, ReserveRefuseInv, EvictRecordInv, DropLayersInv, ReserveGrantInv,
       ReserveExhaustedInv, RenameIndexInv, RenameDocInv, InstallLayerInv,
       RenameRecordInv, InstallRecordInv, PutFailsInv, RecordFailsInv DEF InCall
<1>5. CASE Finish(t) BY <1>5, FinishInv
<1> QED BY <1>1, <1>2, <1>3, <1>4, <1>5 DEF TxnStep

\* Every step of a rewrite keeps it.
LEMMA WriterStepInv ==
    ASSUME IndInv, NEW w \in Writer, WriterStep(w)
    PROVE  IndInv'
<1>1. CASE \E i \in Image :
              \/ Touch(w, i)
              \/ \E pin \in BOOLEAN, refs \in SUBSET Ref : UpgradeProvenance(w, i, pin, refs)
    BY <1>1, TouchInv, UpgradeProvenanceInv
<1>2. CASE Rewriting(w)
    BY <1>2, OpenTmpInv, WriteTmpInv, RenameTmpInv, RewriteFailsInv,
       AccountRewriteInv DEF Rewriting
<1> QED BY <1>1, <1>2 DEF WriterStep

\* Every step keeps it.
LEMMA NextInv == IndInv /\ [Next]_vars => IndInv'
<1> SUFFICES ASSUME IndInv, [Next]_vars PROVE IndInv' OBVIOUS
<1>1. CASE \E t \in Txn : TxnStep(t) BY <1>1, TxnStepInv
<1>2. CASE \E w \in Writer : WriterStep(w) BY <1>2, WriterStepInv
<1>3. CASE Tick BY <1>3, TickInv
<1>4. CASE Crash BY <1>4, CrashInv
<1>5. CASE Open BY <1>5, OpenInv
<1>6. CASE UNCHANGED vars BY <1>6, StutterInv
<1> QED BY <1>1, <1>2, <1>3, <1>4, <1>5, <1>6 DEF Next

\* Every reachable state satisfies the inductive invariant, whatever the
\* number of ingests, rewrites, images and layers.
THEOREM Inductive == Spec => []IndInv
<1>1. Init => IndInv BY InitInv
<1>2. IndInv /\ [Next]_vars => IndInv' BY NextInv
<1> QED BY <1>1, <1>2, PTL DEF Spec

\* The tables and files of the store keep their types.
THEOREM TablesTyped == Spec => []TablesOK
<1>1. IndInv => TablesOK BY DEF IndInv
<1> QED BY <1>1, Inductive, PTL

\* A record a lookup finds has every layer it names installed: neither an
\* eviction, an abort, a crash nor a concurrent ingest leaves half an image.
THEOREM ImagesComplete == Spec => []ImagesHaveLayers
<1>1. IndInv => ImagesHaveLayers BY DEF IndInv
<1> QED BY <1>1, Inductive, PTL

\* A layer the table lists is complete on disk under its final name.
THEOREM LayersComplete == Spec => []InstalledLayersComplete
<1>1. IndInv => InstalledLayersComplete BY DEF IndInv
<1> QED BY <1>1, Inductive, PTL

\* Two transactions never write one layer, and PutLayer's duplicate branch is
\* never taken.
THEOREM PutsNeverCollide == Spec => []PutsAreFirst
<1>1. IndInv => PutsAreFirst BY DEF IndInv
<1> QED BY <1>1, Inductive, PTL

-------------------------------------------------------------------------------
(* What leaves the table.                                                     *)

\* Publishing a rewritten record leaves an entry where there was one.
LEMMA RewriteKeepsEntry ==
    ASSUME IndInv, IndInv', NEW w \in Writer, NEW j \in Cached, NEW rec, StartRewrite(w, j, rec)
    PROVE  \A i \in Cached : images'[i] # None
<1>1. rec \in Record BY DEF StartRewrite, Rewrite, IndInv, TablesOK, RecordRewrite
<1>2. images[j] \in Entry /\ images \in [Image -> Entry \cup {None}] BY DEF IndInv, TablesOK
<1>3. images' = [images EXCEPT ![j].rec = rec] BY DEF StartRewrite
<1>4. images'[j] \in Entry BY <1>1, <1>2, <1>3 DEF Entry
<1> QED BY <1>2, <1>3, <1>4, NoneIsNothing

\* While the process runs, an entry leaves the table only by eviction.
LEMMA OnlyEvictionRemoves ==
    ASSUME IndInv, IndInv', [Next]_vars, up', NEW i \in Cached, images'[i] = None
    PROVE  IsLRU(i) /\ \E t \in Txn : EvictRecord(t)
<1>1. ASSUME NEW t \in Txn, TxnStep(t)
      PROVE  IsLRU(i) /\ EvictRecord(t)
  <2>1. CASE EvictRecord(t)
    <3>1. PICK j \in Image : IsLRU(j) /\ images' = [images EXCEPT ![j] = None]
        BY <2>1 DEF EvictRecord
    <3>2. i = j BY <3>1 DEF IndInv, TablesOK
    <3> QED BY <2>1, <3>1, <3>2
  <2>2. CASE InstallRecord(t)
    <3>1. images' = [images EXCEPT ![txn[t].image] =
                        [rec |-> txn[t].rec, bytes |-> Size(txn[t].rec)]]
        BY <2>2 DEF InstallRecord
    <3>2. [rec |-> txn[t].rec, bytes |-> Size(txn[t].rec)] \in Entry
        BY SizeIsNat DEF IndInv, TablesOK, Transaction, Entry
    <3> QED BY <3>1, <3>2, NoneIsNothing DEF IndInv, TablesOK
  <2>3. CASE ~EvictRecord(t) /\ ~InstallRecord(t)
      BY <1>1, <2>3 DEF TxnStep, Begin, UseLayer, PutLayer, CommitStart, InCall, ReserveRefuse,
         DropLayers, ReserveGrant, ReserveExhausted, RenameIndex, RenameDoc, InstallLayer,
         RenameRecord, PutFails, RecordFails, Finish
  <2> QED BY <2>1, <2>2, <2>3
<1>2. ASSUME NEW w \in Writer, WriterStep(w) PROVE FALSE
  <2>1. ASSUME NEW j \in Image, Touch(w, j) PROVE FALSE
      BY <2>1, RewriteKeepsEntry DEF Touch
  <2>2. ASSUME NEW j \in Image, NEW pin \in BOOLEAN, NEW refs \in SUBSET Ref,
               UpgradeProvenance(w, j, pin, refs)
        PROVE  FALSE
      BY <2>2, RewriteKeepsEntry DEF UpgradeProvenance
  <2>3. CASE AccountRewrite(w)
    <3>1. images[i] \in Entry /\ images \in [Image -> Entry \cup {None}]
          /\ writer[w].size \in Nat
        BY DEF IndInv, TablesOK, RecordRewrite
    <3>2. images' = images \/ images' = [images EXCEPT ![writer[w].image].bytes = writer[w].size]
        BY <2>3 DEF AccountRewrite
    <3>3. [images[i] EXCEPT !.bytes = writer[w].size] \in Entry BY <3>1 DEF Entry
    <3> QED BY <3>1, <3>2, <3>3, NoneIsNothing
  <2>4. CASE OpenTmp(w) \/ WriteTmp(w) \/ RenameTmp(w) \/ RewriteFails(w)
      BY <2>4 DEF OpenTmp, WriteTmp, RenameTmp, RewriteFails
  <2> QED BY <1>2, <2>1, <2>2, <2>3, <2>4 DEF WriterStep, Rewriting
<1>3. ~Tick /\ ~(UNCHANGED vars) BY DEF Tick, vars, memory
<1>4. ~Crash /\ ~Open BY DEF Crash, Open, IndInv, DownIsEmpty
<1> QED BY <1>1, <1>2, <1>3, <1>4 DEF Next

\* The budget never takes a pinned image, whatever else it has to give up: one
\* leaves the table only with the process.
THEOREM PinnedIsNeverEvicted == Spec => PinnedStays
<1>1. IndInv /\ IndInv' /\ [Next]_vars
        => [\A i \in Pinned : images'[i] # None \/ ~up']_vars
    BY OnlyEvictionRemoves DEF IsLRU
<1> QED BY <1>1, Inductive, PTL DEF Spec, PinnedStays

-------------------------------------------------------------------------------
(* What the disk holds, under the conditions the code leaves to its callers. *)

\* No two rewrites of one record overlap: nothing in Touch or UpgradeProvenance
\* sees to it, since the path they stage at is derived from the id alone.
RewritesApart ==
    \A v, w \in Writer :
        v # w /\ writer[v].pc # "idle" /\ writer[w].pc # "idle" => writer[v].image # writer[w].image

\* What a rewrite that is alone on its record finds under the staged path.
StagedAlone ==
    \A w \in Writer :
        /\ writer[w].pc = "write" =>
              writer[w].fd = "tmp" /\ tmpFile[writer[w].image] = Truncated
        /\ writer[w].pc = "rename" /\ tmpFile[writer[w].image] # None =>
              tmpFile[writer[w].image].whole

\* Files under their final names are whole, with what that rests on.
WholeInv == RecordFilesWhole /\ StagedAlone

\* Unlinking a file changes nothing for rewrites that write to the staged one.
LEMMA UnlinkedAlone ==
    ASSUME StagedAlone, NEW i
    PROVE  Unlinked(i) = [w \in Writer |-> writer[w]]
BY DEF StagedAlone, Unlinked

\* A record is written whole over an empty file.
LEMMA OverlayOfTruncated ==
    ASSUME NEW rec \in Record PROVE Overlay(Truncated, rec).whole
<1>1. Size(rec) \in Nat BY SizeIsNat
<1>2. Size(rec) >= 0 BY <1>1
<1>3. Overlay(Truncated, rec).whole = (Size(rec) >= 0) BY DEF Overlay, Truncated
<1> QED BY <1>2, <1>3, Zenon

\* Every step keeps the records whole, while no two rewrites share a path.
LEMMA NextWhole ==
    IndInv /\ IndInv' /\ RewritesApart /\ WholeInv /\ [Next]_vars => WholeInv'
<1> SUFFICES ASSUME IndInv, IndInv', RewritesApart, WholeInv, [Next]_vars PROVE WholeInv' OBVIOUS
<1> USE DEF WholeInv
<1>1. CASE UNCHANGED <<recFile, tmpFile, writer>> \/ (UNCHANGED <<recFile, tmpFile>> /\ writer' = [w \in Writer |-> IdleWriter])
    BY <1>1 DEF RecordFilesWhole, StagedAlone, IdleWriter
<1>2. ASSUME NEW t \in Txn, TxnStep(t) PROVE WholeInv'
  <2>1. CASE EvictRecord(t)
    <3>1. PICK i \in Image : recFile' = [recFile EXCEPT ![i] = None] /\ writer' = Unlinked(i)
        BY <2>1 DEF EvictRecord
    <3>2. tmpFile' = tmpFile BY <2>1 DEF EvictRecord
    <3> QED BY <3>1, <3>2, UnlinkedAlone DEF RecordFilesWhole, StagedAlone, IndInv, TablesOK
  <2>2. CASE RenameRecord(t)
    <3>1. /\ recFile' = [recFile EXCEPT ![txn[t].image] = Written(txn[t].rec)]
          /\ writer' = Unlinked(txn[t].image) /\ tmpFile' = tmpFile
        BY <2>2 DEF RenameRecord
    <3>2. RecordFilesWhole' BY <3>1 DEF RecordFilesWhole, Written, IndInv, TablesOK
    <3>3. StagedAlone' BY <3>1, UnlinkedAlone DEF StagedAlone
    <3> QED BY <3>2, <3>3
  <2>3. CASE ~EvictRecord(t) /\ ~RenameRecord(t)
      BY <1>1, <1>2, <2>3 DEF TxnStep, Begin, UseLayer, PutLayer, CommitStart, InCall, ReserveRefuse,
         DropLayers, ReserveGrant, ReserveExhausted, RenameIndex, RenameDoc, InstallLayer,
         InstallRecord, PutFails, RecordFails, Finish
  <2> QED BY <2>1, <2>2, <2>3
<1>3. ASSUME NEW w \in Writer, NEW i \in Image, NEW rec, StartRewrite(w, i, rec) PROVE WholeInv'
  <2>1. /\ writer' = [writer EXCEPT ![w] = Rewrite(i, rec)]
        /\ UNCHANGED <<recFile, tmpFile>>
      BY <1>3 DEF StartRewrite
  <2> QED BY <2>1 DEF RecordFilesWhole, StagedAlone, Rewrite, IndInv, TablesOK
<1>4. ASSUME NEW w \in Writer, Rewriting(w) PROVE WholeInv'
  <2> DEFINE i == writer[w].image
  <2>w. writer \in [Writer -> RecordRewrite] BY DEF IndInv, TablesOK
  <2>a. \A v \in Writer \ {w} : writer[v].pc # "idle" /\ writer[w].pc # "idle" => writer[v].image # i
      BY DEF RewritesApart
  <2>i. i \in Image BY <1>4 DEF Rewriting, OpenTmp, WriteTmp, RenameTmp, RewriteFails,
                                AccountRewrite, IndInv, WritersHoldFiles
  <2>1. CASE OpenTmp(w)
    <3>1. /\ tmpFile' = [tmpFile EXCEPT ![i] = Truncated]
          /\ writer' = [writer EXCEPT ![w].pc = "write", ![w].fd = "tmp"]
          /\ recFile' = recFile /\ writer[w].pc # "idle"
        BY <2>1 DEF OpenTmp
    <3>2. /\ writer'[w].pc = "write" /\ writer'[w].fd = "tmp" /\ writer'[w].image = i
          /\ tmpFile'[i] = Truncated
          /\ \A v \in Writer \ {w} : writer'[v] = writer[v]
        BY <2>w, <2>i, <3>1 DEF RecordRewrite, IndInv, TablesOK
    <3>3. \A v \in Writer \ {w} : writer[v].pc # "idle" => tmpFile'[writer[v].image] = tmpFile[writer[v].image]
        BY <2>a, <3>1 DEF IndInv, TablesOK
    <3>4. RecordFilesWhole' BY <3>1 DEF RecordFilesWhole
    <3>5. StagedAlone' BY <3>2, <3>3 DEF StagedAlone
    <3> QED BY <3>4, <3>5
  <2>2. CASE WriteTmp(w)
    <3>1. /\ writer[w].pc = "write" /\ writer[w].fd = "tmp" /\ tmpFile[i] = Truncated
        BY <2>2 DEF WriteTmp, StagedAlone
    <3>2. /\ tmpFile' = [tmpFile EXCEPT ![i] = Overlay(Truncated, writer[w].rec)]
          /\ recFile' = recFile
          /\ writer' = [writer EXCEPT ![w].pc = "rename", ![w].size = tmpFile'[i].size]
        BY <2>2, <3>1 DEF WriteTmp
    <3>3. /\ writer'[w].pc = "rename" /\ writer'[w].image = i
          /\ \A v \in Writer \ {w} : writer'[v] = writer[v]
        BY <2>w, <3>2 DEF RecordRewrite
    <3>4. tmpFile'[i].whole
      <4>1. writer[w].rec \in Record BY <2>w DEF RecordRewrite
      <4> QED BY <2>i, <3>2, <4>1, OverlayOfTruncated DEF IndInv, TablesOK
    <3>5. \A v \in Writer \ {w} : writer[v].pc # "idle" => tmpFile'[writer[v].image] = tmpFile[writer[v].image]
        BY <2>a, <3>1, <3>2 DEF IndInv, TablesOK
    <3>6. RecordFilesWhole' BY <3>2 DEF RecordFilesWhole
    <3>7. StagedAlone' BY <3>3, <3>4, <3>5 DEF StagedAlone
    <3> QED BY <3>6, <3>7
  <2>3. CASE RenameTmp(w)
    <3>1. /\ recFile' = [recFile EXCEPT ![i] = tmpFile[i]]
          /\ tmpFile' = [tmpFile EXCEPT ![i] = None]
          /\ tmpFile[i] # None /\ writer[w].pc = "rename"
        BY <2>3 DEF RenameTmp
    <3>2. /\ writer'[w].pc = "account"
          /\ \A v \in Writer \ {w} : writer[v].pc # "idle" => writer'[v] = writer[v]
          /\ \A v \in Writer \ {w} : writer[v].pc = "idle" => writer'[v].pc = "idle"
        BY <2>3, <2>w, <2>a, <3>1 DEF RenameTmp, RecordRewrite
    <3>3. \A v \in Writer \ {w} : writer[v].pc # "idle" => tmpFile'[writer[v].image] = tmpFile[writer[v].image]
        BY <2>a, <3>1 DEF IndInv, TablesOK
    <3>4. tmpFile[i].whole BY <3>1 DEF StagedAlone
    <3>5. RecordFilesWhole' BY <3>1, <3>4 DEF RecordFilesWhole, IndInv, TablesOK
    <3> QED BY <3>2, <3>3, <3>5 DEF StagedAlone
  <2>4. CASE RewriteFails(w) \/ AccountRewrite(w)
    <3>1. writer' = [writer EXCEPT ![w] = IdleWriter] /\ UNCHANGED <<recFile, tmpFile>>
        BY <2>4 DEF RewriteFails, AccountRewrite
    <3> QED BY <2>w, <3>1 DEF RecordFilesWhole, StagedAlone, IdleWriter
  <2> QED BY <1>4, <2>1, <2>2, <2>3, <2>4 DEF Rewriting
<1>5. CASE Tick \/ UNCHANGED vars BY <1>1, <1>5 DEF Tick, vars, memory
<1>6. CASE Crash BY <1>1, <1>6 DEF Crash
<1>7. CASE Open
  <2>1. writer' = [w \in Writer |-> IdleWriter] BY <1>7 DEF Open, IndInv, DownIsEmpty
  <2>2. recFile' = [i \in Image |-> IF i \in {j \in Image : Usable(j)} THEN recFile[i] ELSE None]
      BY <1>7 DEF Open
  <2> QED BY <2>1, <2>2 DEF RecordFilesWhole, StagedAlone, IdleWriter
<1>8. CASE \E w \in Writer : WriterStep(w)
    BY <1>3, <1>4, <1>8 DEF WriterStep, Touch, UpgradeProvenance
<1> QED BY <1>2, <1>5, <1>6, <1>7, <1>8 DEF Next

\* A record file under its final name is whole as long as no two rewrites of
\* one record overlap; the torn run shows what happens when they do.
THEOREM ApartRewritesAreWhole == Spec /\ []RewritesApart => []RecordFilesWhole
<1>1. Init => WholeInv
    BY DEF Init, WholeInv, RecordFilesWhole, StagedAlone, IdleWriter
<1>2. IndInv /\ IndInv' /\ RewritesApart /\ WholeInv /\ [Next]_vars => WholeInv' BY NextWhole
<1>3. WholeInv => RecordFilesWhole BY DEF WholeInv
<1> QED BY <1>1, <1>2, <1>3, Inductive, PTL DEF Spec

-------------------------------------------------------------------------------

\* No image is evicted between the rename of its new record and the install of
\* its entry: Commit does not see to that either.
CommitsUncrossed == \A t \in Txn : txn[t].pc = "recInstall" => victim # txn[t].image

\* An entry, or one about to be installed, has its file.
EntriesHaveFiles ==
    /\ \A i \in Cached : recFile[i] # None
    /\ \A t \in Txn : txn[t].pc = "recInstall" => recFile[txn[t].image] # None

\* Every step keeps files under entries, while no eviction crosses a commit.
LEMMA NextFiles ==
    IndInv /\ IndInv' /\ CommitsUncrossed' /\ EntriesHaveFiles /\ [Next]_vars => EntriesHaveFiles'
<1> SUFFICES ASSUME IndInv, IndInv', CommitsUncrossed', EntriesHaveFiles, [Next]_vars
             PROVE EntriesHaveFiles' OBVIOUS
<1>0. ASSUME Cached' \subseteq Cached, \A i \in Image : recFile[i] # None => recFile'[i] # None,
             \A t \in Txn : txn'[t].pc = "recInstall" =>
                txn[t].pc = "recInstall" /\ txn'[t].image = txn[t].image
      PROVE  EntriesHaveFiles'
    BY <1>0 DEF EntriesHaveFiles, IndInv, TablesOK, TxnsHoldLayers
<1>1. ASSUME NEW t \in Txn, TxnStep(t) PROVE EntriesHaveFiles'
  <2>1. CASE EvictRecord(t)
    <3>1. PICK i \in Image : /\ images' = [images EXCEPT ![i] = None]
                             /\ recFile' = [recFile EXCEPT ![i] = None]
                             /\ victim' = i
        BY <2>1 DEF EvictRecord
    <3>2. txn' = txn BY <2>1 DEF EvictRecord
    <3>3. \A u \in Txn : txn[u].pc = "recInstall" => txn[u].image \in Image \ {i}
        BY <3>1, <3>2 DEF CommitsUncrossed, IndInv, TxnsHoldLayers
    <3> QED BY <3>1, <3>2, <3>3 DEF EntriesHaveFiles, IndInv, TablesOK
  <2>2. CASE RenameRecord(t)
    <3> DEFINE i == txn[t].image
    <3>1. /\ recFile' = [recFile EXCEPT ![i] = Written(txn[t].rec)] /\ images' = images
          /\ i \in Image
          /\ txn' = [txn EXCEPT ![t].pc = "recInstall"]
        BY <2>2 DEF RenameRecord, Goto, IndInv, TxnsHoldLayers
    <3>2. Written(txn[t].rec) # None BY WrittenIsFile, NoneIsNothing DEF IndInv, TablesOK, Transaction
    <3>3. \A u \in Txn : txn'[u].image = txn[u].image /\ (u # t => txn'[u] = txn[u])
        BY <3>1 DEF IndInv, TablesOK, Transaction
    <3> QED BY <3>1, <3>2, <3>3 DEF EntriesHaveFiles, IndInv, TablesOK
  <2>3. CASE InstallRecord(t)
    <3> DEFINE i == txn[t].image
    <3>1. /\ Cached' \subseteq Cached \cup {i} /\ recFile' = recFile
          /\ recFile[i] # None
        BY <2>3 DEF InstallRecord, EntriesHaveFiles, IndInv, TablesOK
    <3>2. \A u \in Txn : txn'[u].pc = "recInstall" => txn[u] = txn'[u]
        BY <2>3 DEF InstallRecord, Goto, IndInv, TablesOK, Transaction
    <3> QED BY <3>1, <3>2 DEF EntriesHaveFiles
  <2>4. CASE ~EvictRecord(t) /\ ~RenameRecord(t) /\ ~InstallRecord(t)
    <3>1. recFile' = recFile /\ images' = images
      BY <1>1, <2>4 DEF TxnStep, Begin, UseLayer, PutLayer, CommitStart, InCall, ReserveRefuse,
         DropLayers, ReserveGrant, ReserveExhausted, RenameIndex, RenameDoc, InstallLayer,
         PutFails, RecordFails, Finish
    <3>2. \A u \in Txn : txn'[u].pc = "recInstall" => txn[u] = txn'[u]
      <4>0. txn \in [Txn -> Transaction] BY DEF IndInv, TablesOK
      <4>1. CASE DropLayers(t) BY <4>1 DEF DropLayers
      <4>2. CASE ~DropLayers(t)
        <5> SUFFICES \E x : txn' = [txn EXCEPT ![t] = x] /\ x.pc # "recInstall" BY <4>0
        <5>1. CASE (\E i \in Image : Begin(t, i)) \/ Finish(t)
            BY <5>1 DEF Begin, Finish, OpenTxn, IdleTxn
        <5>2. CASE \/ \E l \in Layer : UseLayer(t, l) \/ PutLayer(t, l)
                   \/ \E pin \in BOOLEAN, refs \in SUBSET Ref : CommitStart(t, pin, refs)
            BY <4>0, <5>2 DEF UseLayer, PutLayer, CommitStart, Transaction
        <5>3. CASE ReserveRefuse(t) \/ ReserveGrant(t) \/ ReserveExhausted(t)
            BY <4>0, <5>3 DEF ReserveRefuse, ReserveGrant, ReserveExhausted, Goto, Transaction,
               Reserving, InLoop
        <5>4. CASE RenameIndex(t) \/ RenameDoc(t) \/ InstallLayer(t)
            BY <4>0, <5>4 DEF RenameIndex, RenameDoc, InstallLayer, Goto, Transaction
        <5>5. CASE PutFails(t) \/ RecordFails(t)
            BY <4>0, <5>5 DEF PutFails, RecordFails, Release, Transaction
        <5> QED BY <1>1, <2>4, <4>2, <5>1, <5>2, <5>3, <5>4, <5>5 DEF TxnStep, InCall
      <4> QED BY <4>1, <4>2
    <3> QED BY <1>0, <3>1, <3>2
  <2> QED BY <2>1, <2>2, <2>3, <2>4
<1>2. ASSUME NEW w \in Writer, NEW i \in Cached, NEW rec, StartRewrite(w, i, rec) PROVE EntriesHaveFiles'
  <2>1. images' = [images EXCEPT ![i].rec = rec] /\ UNCHANGED <<recFile, txn>> BY <1>2 DEF StartRewrite
  <2>2. Cached' \subseteq Cached BY <2>1 DEF IndInv, TablesOK
  <2> QED BY <1>0, <2>1, <2>2
<1>3. ASSUME NEW w \in Writer, Rewriting(w) PROVE EntriesHaveFiles'
  <2>1. txn' = txn /\ Cached' \subseteq Cached
    <3>1. /\ txn' = txn
          /\ \/ images' = images
             \/ /\ writer[w].image \in Cached
                /\ images' = [images EXCEPT ![writer[w].image].bytes = writer[w].size]
        BY <1>3 DEF Rewriting, OpenTmp, WriteTmp, RenameTmp, RewriteFails, AccountRewrite
    <3> QED BY <3>1 DEF IndInv, TablesOK
  <2>2. \A i \in Image : recFile[i] # None => recFile'[i] # None
    <3>1. CASE WriteTmp(w)
      <4> DEFINE i == writer[w].image
      <4>1. CASE writer[w].fd = "final"
        <5>1. recFile' = [recFile EXCEPT ![i] = Overlay(recFile[i], writer[w].rec)]
            BY <3>1, <4>1 DEF WriteTmp
        <5>2. recFile[i] \in File /\ writer[w].rec \in Record
            BY ZenonT(40), <3>1, <4>1 DEF WriteTmp, IndInv, WritersHoldFiles, TablesOK, RecordRewrite
        <5>3. Overlay(recFile[i], writer[w].rec) # None BY <5>2, OverlayIsFile, NoneIsNothing
        <5> QED BY <5>1, <5>3 DEF IndInv, TablesOK
      <4>2. CASE writer[w].fd # "final" BY <3>1, <4>2 DEF WriteTmp
      <4> QED BY <4>1, <4>2
    <3>2. CASE RenameTmp(w) BY <3>2 DEF RenameTmp, IndInv, TablesOK
    <3>3. CASE OpenTmp(w) \/ RewriteFails(w) \/ AccountRewrite(w)
        BY <3>3 DEF OpenTmp, RewriteFails, AccountRewrite
    <3> QED BY <1>3, <3>1, <3>2, <3>3 DEF Rewriting
  <2> QED BY <1>0, <2>1, <2>2
<1>4. CASE Tick \/ UNCHANGED vars BY <1>0, <1>4 DEF Tick, vars, memory
<1>5. CASE Crash BY <1>5 DEF Crash, EntriesHaveFiles, IdleTxn
<1>6. CASE Open
  <2>1. /\ \A i \in Image : images'[i] # None => Usable(i) /\ recFile'[i] = recFile[i]
        /\ txn' = [t \in Txn |-> IdleTxn]
      BY <1>6 DEF Open, IndInv, DownIsEmpty
  <2> QED BY <2>1 DEF EntriesHaveFiles, Usable, IdleTxn
<1>7. CASE \E w \in Writer : WriterStep(w)
    BY <1>2, <1>3, <1>7 DEF WriterStep, Touch, UpgradeProvenance
<1> QED BY <1>1, <1>4, <1>5, <1>6, <1>7 DEF Next

\* What a reader finds in the table survives a crash as long as no two rewrites
\* of a record overlap and no image is evicted under the commit that replaces
\* its record: the two interleavings the code leaves open.
THEOREM UncrossedEntriesAreDurable ==
    Spec /\ []RewritesApart /\ []CommitsUncrossed => []CachedIsDurable
<1>1. Init => EntriesHaveFiles BY DEF Init, EntriesHaveFiles, IdleTxn
<1>2. IndInv /\ IndInv' /\ CommitsUncrossed' /\ EntriesHaveFiles /\ [Next]_vars => EntriesHaveFiles'
    BY NextFiles
<1>3. IndInv /\ EntriesHaveFiles /\ RecordFilesWhole => CachedIsDurable
    BY DEF IndInv, ImagesHaveLayers, InstalledLayersComplete, EntriesHaveFiles, RecordFilesWhole,
           CachedIsDurable, Usable, CompleteLayers, TablesOK
<1> QED BY <1>1, <1>2, <1>3, ApartRewritesAreWhole, Inductive, PTL DEF Spec

-------------------------------------------------------------------------------
\* A rewrite renames its file while its image is still cached: writeRecord does
\* not look.
RewritesTimely == \A w \in Writer : writer[w].pc = "rename" => writer[w].image \in Cached

\* A record file belongs to an entry or to a commit about to install one, and
\* the layers it names are complete.
FilesAreKnown ==
    /\ up => \A i \in Image : recFile[i] # None =>
            i \in Cached \/ \E t \in Txn : txn[t].pc = "recInstall" /\ txn[t].image = i
    /\ \A i \in Image : recFile[i] # None => LayersOf[i] \subseteq CompleteLayers

\* A listed layer is complete.
LEMMA ListedIsComplete == ASSUME IndInv PROVE layers \subseteq CompleteLayers
BY DEF IndInv, TablesOK, InstalledLayersComplete, CompleteLayers

\* Every step keeps the files known, unless a rename fails or is late.
LEMMA NextKnown ==
    IoFaults = FALSE /\ IndInv /\ IndInv' /\ RewritesTimely /\ FilesAreKnown /\ [Next]_vars
        => FilesAreKnown'
<1> SUFFICES ASSUME ~IoFaults, IndInv, IndInv', RewritesTimely, FilesAreKnown, [Next]_vars
             PROVE  FilesAreKnown' OBVIOUS
<1> DEFINE Owned(i) == i \in Cached \/ \E t \in Txn : txn[t].pc = "recInstall" /\ txn[t].image = i
<1>0. ASSUME up' => up, \A i \in Image : recFile'[i] # None => recFile[i] # None,
             CompleteLayers \subseteq CompleteLayers', Cached \subseteq Cached',
             \A t \in Txn : txn[t].pc = "recInstall" =>
                \/ txn'[t].pc = "recInstall" /\ txn'[t].image = txn[t].image
                \/ txn[t].image \in Cached'
      PROVE  FilesAreKnown'
    BY <1>0 DEF FilesAreKnown
<1>1. ASSUME NEW t \in Txn, TxnStep(t), UNCHANGED <<images, recFile, up>>,
             CompleteLayers \subseteq CompleteLayers', ~RecordFails(t), ~InstallRecord(t)
      PROVE  FilesAreKnown'
  <2>1. \A u \in Txn : txn[u].pc = "recInstall" => txn'[u] = txn[u]
      BY <1>1 DEF TxnStep, Begin, UseLayer, PutLayer, CommitStart, InCall, ReserveRefuse, EvictRecord,
         DropLayers, ReserveGrant, ReserveExhausted, RenameIndex, RenameDoc, InstallLayer, RenameRecord,
         PutFails, Release, Finish, Goto, IndInv, TablesOK, Transaction, Reserving, InLoop
  <2> QED BY <1>0, <1>1, <2>1
<1>2. ASSUME NEW t \in Txn, TxnStep(t) PROVE FilesAreKnown'
  <2>1. CASE EvictRecord(t)
    <3>1. PICK i \in Image : /\ images' = [images EXCEPT ![i] = None]
                             /\ recFile' = [recFile EXCEPT ![i] = None]
        BY <2>1 DEF EvictRecord
    <3>2. txn' = txn /\ layerDir' = layerDir /\ up' = up BY <2>1 DEF EvictRecord
    <3> QED BY <3>1, <3>2 DEF FilesAreKnown, IndInv, TablesOK, CompleteLayers
  <2>2. CASE DropLayers(t)
    <3> DEFINE dropped == {l \in LayersOf[victim] \cap layers : ~Referenced(l)}
    <3>1. /\ layerDir' = [l \in Layer |-> IF l \in dropped THEN "none" ELSE layerDir[l]]
          /\ UNCHANGED <<up, images, txn, recFile>> /\ up
        BY <2>2 DEF DropLayers
    <3>2. \A i \in Image : recFile[i] # None => LayersOf[i] \cap dropped = {}
      <4> TAKE i \in Image
      <4>1. CASE i \in Cached BY <4>1 DEF Referenced
      <4>2. ASSUME NEW u \in Txn, txn[u].pc = "recInstall", txn[u].image = i
            PROVE  LayersOf[i] \cap dropped = {}
          BY <4>2 DEF Referenced, InFlight, IndInv, TxnsHoldLayers, RecPc
      <4> QED BY <3>1, <4>1, <4>2 DEF FilesAreKnown
    <3> HIDE DEF dropped
    <3>3. CompleteLayers' = CompleteLayers \ dropped BY <3>1 DEF CompleteLayers
    <3> QED BY <3>1, <3>2, <3>3 DEF FilesAreKnown
  <2>3. CASE RenameIndex(t) \/ RenameDoc(t)
    <3>1. CompleteLayers \subseteq CompleteLayers'
        BY <2>3 DEF RenameIndex, RenameDoc, CompleteLayers, IndInv, TablesOK
    <3> QED BY <1>1, <1>2, <2>3, <3>1 DEF RenameIndex, RenameDoc, RecordFails, InstallRecord
  <2>4. CASE RenameRecord(t)
    <3> DEFINE i == txn[t].image
    <3>1. /\ i \in Image /\ recFile' = [recFile EXCEPT ![i] = Written(txn[t].rec)]
          /\ txn' = [txn EXCEPT ![t].pc = "recInstall"]
          /\ UNCHANGED <<up, images, layerDir>>
        BY <2>4 DEF RenameRecord, Goto, IndInv, TxnsHoldLayers
    <3>2. LayersOf[i] \subseteq CompleteLayers
        BY <2>4, ListedIsComplete DEF RenameRecord, IndInv, TxnsHoldLayers, RecPc
    <3>3. /\ \A u \in Txn : txn[u].pc = "recInstall" => txn'[u] = txn[u]
          /\ txn'[t].pc = "recInstall" /\ txn'[t].image = i
        BY <2>4, <3>1 DEF RenameRecord, IndInv, TablesOK, Transaction
    <3>4. CompleteLayers' = CompleteLayers BY <3>1 DEF CompleteLayers
    <3> QED BY <3>1, <3>2, <3>3, <3>4 DEF FilesAreKnown, IndInv, TablesOK
  <2>5. CASE InstallRecord(t)
    <3> DEFINE i == txn[t].image
    <3>1. /\ i \in Image /\ Cached' = Cached \cup {i}
          /\ UNCHANGED <<up, recFile, layerDir>>
      <4>1. [rec |-> txn[t].rec, bytes |-> Size(txn[t].rec)] \in Entry
          BY SizeIsNat DEF IndInv, TablesOK, Transaction, Entry
      <4> QED BY <2>5, <4>1, NoneIsNothing DEF InstallRecord, IndInv, TxnsHoldLayers, TablesOK
    <3>2. \A u \in Txn \ {t} : txn'[u] = txn[u]
        BY <2>5 DEF InstallRecord, Goto, IndInv, TablesOK, Transaction
    <3> QED BY <1>0, <3>1, <3>2 DEF CompleteLayers
  <2>6. CASE PutFails(t) \/ RecordFails(t) BY <2>6 DEF PutFails, RecordFails
  <2>7. CASE ~EvictRecord(t) /\ ~DropLayers(t) /\ ~RenameIndex(t) /\ ~RenameDoc(t)
             /\ ~RenameRecord(t) /\ ~InstallRecord(t) /\ ~RecordFails(t)
    <3>1. UNCHANGED <<images, recFile, up, layerDir>>
        BY <1>2, <2>7 DEF TxnStep, Begin, UseLayer, PutLayer, CommitStart, InCall, ReserveRefuse,
           ReserveGrant, ReserveExhausted, InstallLayer, PutFails, Finish
    <3> QED BY <1>1, <1>2, <2>7, <3>1 DEF CompleteLayers
  <2> QED BY <2>1, <2>2, <2>3, <2>4, <2>5, <2>6, <2>7
<1>3. ASSUME NEW w \in Writer, NEW i \in Cached, NEW rec, StartRewrite(w, i, rec) PROVE FilesAreKnown'
  <2>1. UNCHANGED <<up, recFile, layerDir, txn>> BY <1>3 DEF StartRewrite
  <2>2. \A j \in Cached : images'[j] # None BY <1>3, RewriteKeepsEntry
  <2> QED BY <1>0, <2>1, <2>2 DEF CompleteLayers
<1>4. ASSUME NEW w \in Writer, Rewriting(w) PROVE FilesAreKnown'
  <2> DEFINE i == writer[w].image
  <2>1. UNCHANGED <<up, layerDir, txn>>
      BY <1>4 DEF Rewriting, OpenTmp, WriteTmp, RenameTmp, RewriteFails, AccountRewrite
  <2>2. CASE RenameTmp(w)
    <3>1. /\ i \in Cached /\ recFile' = [recFile EXCEPT ![i] = tmpFile[i]] /\ images' = images
        BY <2>2 DEF RenameTmp, RewritesTimely
    <3>2. LayersOf[i] \subseteq CompleteLayers
        BY <3>1, ListedIsComplete DEF IndInv, ImagesHaveLayers
    <3> QED BY <2>1, <3>1, <3>2 DEF FilesAreKnown, CompleteLayers, IndInv, TablesOK
  <2>3. CASE WriteTmp(w)
    <3>1. \A j \in Image : recFile'[j] # None => recFile[j] # None
        BY ZenonT(40), <2>3 DEF WriteTmp, IndInv, TablesOK, WritersHoldFiles
    <3> QED BY <1>0, <2>1, <2>3, <3>1 DEF WriteTmp, CompleteLayers
  <2>4. CASE OpenTmp(w) \/ RewriteFails(w)
      BY <1>0, <2>1, <2>4 DEF OpenTmp, RewriteFails, CompleteLayers
  <2>5. CASE AccountRewrite(w)
    <3>1. recFile' = recFile BY <2>5 DEF AccountRewrite
    <3>2. CASE i \notin Cached BY <1>0, <2>1, <2>5, <3>1, <3>2 DEF AccountRewrite, CompleteLayers
    <3>3. CASE i \in Cached
      <4>1. images' = [images EXCEPT ![i].bytes = writer[w].size] BY <2>5, <3>3 DEF AccountRewrite
      <4>2. [images[i] EXCEPT !.bytes = writer[w].size] \in Entry
          BY <3>3 DEF IndInv, TablesOK, Entry, RecordRewrite
      <4>3. Cached \subseteq Cached' BY <3>3, <4>1, <4>2, NoneIsNothing DEF IndInv, TablesOK
      <4> QED BY <1>0, <2>1, <3>1, <4>3 DEF CompleteLayers
    <3> QED BY <3>2, <3>3
  <2> QED BY <1>4, <2>2, <2>3, <2>4, <2>5 DEF Rewriting
<1>5. CASE Tick \/ UNCHANGED vars BY <1>0, <1>5 DEF Tick, vars, memory, CompleteLayers
<1>6. CASE Crash BY <1>6 DEF Crash, FilesAreKnown, CompleteLayers
<1>7. CASE Open
  <2>1. /\ \A i \in Image : recFile'[i] # None => Usable(i)
        /\ layerDir' = [l \in Layer |-> IF l \in CompleteLayers THEN "full" ELSE "none"]
      BY <1>7 DEF Open
  <2>2. \A i \in Image : Usable(i) => i \in Cached'
    <3>1. \A i \in Image : Usable(i) => [rec |-> recFile[i].rec, bytes |-> recFile[i].size] \in Entry
        BY DEF Usable, IndInv, TablesOK, File, Entry
    <3> QED BY <1>7, <3>1, NoneIsNothing DEF Open
  <2>3. CompleteLayers' = CompleteLayers BY <2>1 DEF CompleteLayers
  <2> QED BY <2>1, <2>2, <2>3 DEF FilesAreKnown, Usable
<1>8. CASE \E w \in Writer : WriterStep(w)
    BY <1>3, <1>4, <1>8 DEF WriterStep, Touch, UpgradeProvenance
<1> QED BY <1>2, <1>5, <1>6, <1>7, <1>8 DEF Next

\* Without failed renames and without a rewrite renamed after its image was
\* evicted, a crash at any point leaves no record whose layers are gone.
THEOREM TimelyRecordsAreComplete ==
    ASSUME IoFaults = FALSE
    PROVE  Spec /\ []RewritesTimely => []DiskRecordsComplete
<1>1. Init => FilesAreKnown BY DEF Init, FilesAreKnown
<1>2. IndInv /\ IndInv' /\ RewritesTimely /\ FilesAreKnown /\ [Next]_vars => FilesAreKnown'
    BY NextKnown
<1>3. FilesAreKnown => DiskRecordsComplete BY DEF FilesAreKnown, DiskRecordsComplete
<1> QED BY <1>1, <1>2, <1>3, Inductive, PTL DEF Spec
===============================================================================
