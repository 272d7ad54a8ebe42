--------------------------- MODULE CacheLedgerProofs ---------------------------
(***************************************************************************)
(* The byte ledger of CacheStore: Store.accounted is, in every reachable   *)
(* state, what the tables hold plus what is granted and not yet installed. *)
(* The three sums are over sets of any finite size; each action is shown   *)
(* to move the counter by what it moves the sums.  Then the cap, first for *)
(* one life of the process and then across crashes and restarts; why calls *)
(* return: none is ever stuck, and each of their steps brings them nearer  *)
(* their end; and last what eviction is for.                               *)
(***************************************************************************)
EXTENDS CacheStoreProofs, FiniteSums

USE DEF Cached, Pinned, Evictable, MuFree, disk

\* The three sums, over functions instead of expressions of the state.
entryBytes == [i \in Image |-> images[i].bytes]
granted == [t \in Txn |-> Granted(t)]
Ledger == SumOver(LayerSize, layers) + SumOver(entryBytes, Cached) + SumOver(granted, Txn)
LedgerExact == accounted = Ledger

\* A sum of layer sizes is a sum of the function that gives them.
LEMMA LayerSum == ASSUME NEW S PROVE LayerBytes(S) = SumOver(LayerSize, S)
BY DEF LayerBytes, SumOver

\* The bytes of a set of images, likewise.
LEMMA EntrySum == ASSUME NEW S \in SUBSET Image PROVE EntryBytes(S) = SumOver(entryBytes, S)
<1> DEFINE A(k) == [s \in SUBSET S |->
                        IF s = {} THEN 0 ELSE images[Pick(s)].bytes + k[s \ {Pick(s)}]]
           B(k) == [s \in SUBSET S |->
                        IF s = {} THEN 0 ELSE entryBytes[Pick(s)] + k[s \ {Pick(s)}]]
<1>1. EntryBytes(S) = (CHOOSE k : k = A(k))[S]
    BY DEF EntryBytes, MapThenSumSet, MapThenFoldSet, Pick
<1>2. SumOver(entryBytes, S) = (CHOOSE k : k = B(k))[S]
    BY DEF SumOver, MapThenSumSet, MapThenFoldSet, Pick
<1>3. \A k : A(k) = B(k)
  <2> SUFFICES ASSUME NEW k, NEW s \in SUBSET S, s # {}
               PROVE  images[Pick(s)].bytes = entryBytes[Pick(s)]
      OBVIOUS
  <2>1. Pick(s) \in s BY DEF Pick
  <2> QED BY <2>1 DEF entryBytes
<1> HIDE DEF A, B
<1>4. (CHOOSE k : k = A(k)) = (CHOOSE k : k = B(k)) BY <1>3
<1> QED BY <1>1, <1>2, <1>4

\* And the bytes granted.
LEMMA GrantedSum == MapThenSumSet(Granted, Txn) = SumOver(granted, Txn)
<1> DEFINE A(k) == [s \in SUBSET Txn |->
                        IF s = {} THEN 0 ELSE Granted(Pick(s)) + k[s \ {Pick(s)}]]
           B(k) == [s \in SUBSET Txn |->
                        IF s = {} THEN 0 ELSE granted[Pick(s)] + k[s \ {Pick(s)}]]
<1>1. MapThenSumSet(Granted, Txn) = (CHOOSE k : k = A(k))[Txn]
    BY DEF MapThenSumSet, MapThenFoldSet, Pick
<1>2. SumOver(granted, Txn) = (CHOOSE k : k = B(k))[Txn]
    BY DEF SumOver, MapThenSumSet, MapThenFoldSet, Pick
<1>3. \A k : A(k) = B(k)
  <2> SUFFICES ASSUME NEW k, NEW s \in SUBSET Txn, s # {}
               PROVE  Granted(Pick(s)) = granted[Pick(s)]
      OBVIOUS
  <2>1. Pick(s) \in s BY DEF Pick
  <2> QED BY <2>1 DEF granted
<1> HIDE DEF A, B
<1>4. (CHOOSE k : k = A(k)) = (CHOOSE k : k = B(k)) BY <1>3
<1> QED BY <1>1, <1>2, <1>4

\* So the property TLC checks is the equation the proofs are about.
LEMMA LedgerForm == AccountingExact <=> LedgerExact
<1>1. Cached \in SUBSET Image OBVIOUS
<1> QED BY <1>1, LayerSum, EntrySum, GrantedSum DEF AccountingExact, Held, LedgerExact, Ledger

\* The summands are numbers over finite sets, so their sums are numbers.
SumsAreNumbers ==
    /\ IsFiniteSet(layers) /\ layers \subseteq Layer
    /\ \A l \in Layer : LayerSize[l] \in Int
    /\ IsFiniteSet(Cached) /\ \A i \in Cached : entryBytes[i] \in Int
    /\ IsFiniteSet(Txn) /\ \A t \in Txn : granted[t] \in Int
    /\ SumOver(LayerSize, layers) \in Int
    /\ SumOver(entryBytes, Cached) \in Int
    /\ SumOver(granted, Txn) \in Int

\* The invariant makes them so.
LEMMA SumsTyped == IndInv => SumsAreNumbers
<1> SUFFICES ASSUME IndInv PROVE SumsAreNumbers OBVIOUS
<1>1. IsFiniteSet(layers) /\ IsFiniteSet(Cached) /\ IsFiniteSet(Txn)
    BY FiniteAssumption, FS_Subset DEF IndInv, TablesOK
<1>2. layers \subseteq Layer /\ \A l \in Layer : LayerSize[l] \in Int
    BY SizeAssumption DEF IndInv, TablesOK
<1>3. \A i \in Cached : entryBytes[i] \in Nat
    BY DEF entryBytes, IndInv, TablesOK, Entry
<1>4. \A t \in Txn : granted[t] \in Nat
  <2> TAKE t \in Txn
  <2>1. Size(txn[t].rec) \in Nat BY SizeIsNat DEF IndInv, TablesOK, Transaction
  <2>2. txn[t].pc \in PutPc => LayerSize[txn[t].layer] \in Nat
      BY SizeAssumption DEF IndInv, TxnsHoldLayers
  <2> QED BY <2>1, <2>2 DEF granted, Granted, PutPc
<1> QED BY <1>1, <1>2, <1>3, <1>4, SumTyped DEF SumsAreNumbers

\* A step that touches none of the sums keeps the ledger as it is.
LEMMA SameLedger ==
    ASSUME IndInv, LedgerExact, accounted' = accounted, layers' = layers, Cached' = Cached,
           \A i \in Cached : images'[i].bytes = images[i].bytes,
           \A t \in Txn : Granted(t)' = Granted(t)
    PROVE  LedgerExact'
<1>1. SumOver(entryBytes', Cached) = SumOver(entryBytes, Cached)
    BY SumsTyped, SumSame DEF entryBytes, SumsAreNumbers
<1>2. SumOver(granted', Txn) = SumOver(granted, Txn)
    BY SumsTyped, SumSame DEF granted, SumsAreNumbers
<1> QED BY <1>1, <1>2 DEF LedgerExact, Ledger

\* One that leaves the tables alone and moves the counter by what it moves
\* the grant of one transaction keeps it, too.
LEMMA OneGrant ==
    ASSUME IndInv, IndInv', LedgerExact, NEW t \in Txn,
           layers' = layers, images' = images,
           accounted' = accounted - granted[t] + granted'[t],
           \A u \in Txn \ {t} : Granted(u)' = Granted(u)
    PROVE  LedgerExact'
<1>1. \A u \in Txn \ {t} : granted[u] = granted'[u] BY DEF granted
<1>2. SumsAreNumbers /\ SumsAreNumbers' BY SumsTyped, PTL
<1>3. SumOver(granted', Txn) = SumOver(granted, Txn) - granted[t] + granted'[t]
    BY <1>1, <1>2, SumChange DEF SumsAreNumbers
<1>4. entryBytes' = entryBytes /\ Cached' = Cached BY DEF entryBytes
<1> QED BY <1>2, <1>3, <1>4 DEF LedgerExact, Ledger, SumsAreNumbers

-------------------------------------------------------------------------------

\* From here on, one lemma for each action.  A transaction between two calls, or
\* in one that was granted nothing, is charged for nothing.
LEMMA TxnsMove ==
    ASSUME IndInv, LedgerExact, NEW t \in Txn,
           \/ \E i \in Image : Begin(t, i)
           \/ \E l \in Layer : UseLayer(t, l) \/ PutLayer(t, l)
           \/ \E pin \in BOOLEAN, refs \in SUBSET Ref : CommitStart(t, pin, refs)
           \/ ReserveRefuse(t) \/ ReserveExhausted(t) \/ Finish(t)
    PROVE  LedgerExact'
<1>1. UNCHANGED <<accounted, layers, images>>
    BY DEF Begin, UseLayer, PutLayer, CommitStart, ReserveRefuse, ReserveExhausted, Finish
<1>2. /\ \A u \in Txn \ {t} : txn'[u] = txn[u]
      /\ Granted(t) = 0 /\ Granted(t)' = 0
    BY DEF Begin, UseLayer, PutLayer, CommitStart, ReserveRefuse, ReserveExhausted, Finish,
           Goto, Reserving, InLoop, Granted, IndInv, TablesOK, Transaction, OpenTxn, IdleTxn
<1>3. \A u \in Txn : Granted(u)' = Granted(u) BY <1>2 DEF Granted
<1> QED BY <1>1, <1>3, SameLedger

\* A rename of commitLayer or of Commit moves no bytes: they are charged already.
LEMMA RenamesKeepLedger ==
    ASSUME IndInv, LedgerExact, NEW t \in Txn,
           RenameIndex(t) \/ RenameDoc(t) \/ RenameRecord(t)
    PROVE  LedgerExact'
<1>1. UNCHANGED <<accounted, layers, images>>
    BY DEF RenameIndex, RenameDoc, RenameRecord
<1>2. \A u \in Txn : Granted(u)' = Granted(u)
    BY DEF RenameIndex, RenameDoc, RenameRecord, Goto, Granted, IndInv, TablesOK, Transaction
<1> QED BY <1>1, <1>2, SameLedger

\* The victim's bytes leave the counter with its entry.
LEMMA EvictRecordLedger ==
    ASSUME IndInv, LedgerExact, NEW t \in Txn, EvictRecord(t)
    PROVE  LedgerExact'
<1>1. PICK i \in Image : /\ i \in Cached
                         /\ images' = [images EXCEPT ![i] = None]
                         /\ accounted' = accounted - images[i].bytes
    BY DEF EvictRecord, IsLRU
<1>2. layers' = layers /\ txn' = txn BY DEF EvictRecord
<1>3. SumsAreNumbers BY SumsTyped
<1>4. Cached' = Cached \ {i} BY <1>1 DEF IndInv, TablesOK
<1>5. \A j \in Cached \ {i} : entryBytes'[j] = entryBytes[j]
    BY <1>1 DEF entryBytes, IndInv, TablesOK
<1> HIDE DEF Cached
<1>6. SumOver(entryBytes, Cached) = entryBytes[i] + SumOver(entryBytes, Cached \ {i})
    BY <1>1, <1>3, SumRemove DEF SumsAreNumbers
<1>7. IsFiniteSet(Cached \ {i}) BY <1>3, FS_Subset DEF SumsAreNumbers
<1>8. SumOver(entryBytes', Cached \ {i}) = SumOver(entryBytes, Cached \ {i})
    BY <1>5, <1>7, SumSame
<1>9. SumOver(entryBytes, Cached \ {i}) \in Int /\ entryBytes[i] \in Int
    BY <1>1, <1>3, <1>7, SumTyped DEF SumsAreNumbers
<1>10. SumOver(granted', Txn) = SumOver(granted, Txn)
    BY <1>2 DEF granted, Granted
<1>11. accounted' = accounted - entryBytes[i] BY <1>1 DEF entryBytes
<1>12. SumOver(entryBytes', Cached') = SumOver(entryBytes, Cached) - entryBytes[i]
    BY <1>4, <1>6, <1>8, <1>9
<1> QED BY <1>2, <1>3, <1>9, <1>10, <1>11, <1>12 DEF LedgerExact, Ledger, SumsAreNumbers

\* So do the bytes of the layers dropped after it.
LEMMA DropLayersLedger ==
    ASSUME IndInv, LedgerExact, NEW t \in Txn, DropLayers(t)
    PROVE  LedgerExact'
<1> DEFINE dropped == {l \in LayersOf[victim] \cap layers : ~Referenced(l)}
<1>1. /\ layers' = layers \ dropped
      /\ accounted' = accounted - LayerBytes(dropped)
      /\ images' = images /\ txn' = txn
    BY DEF DropLayers
<1>2. dropped \in SUBSET layers OBVIOUS
<1> HIDE DEF dropped
<1>3. SumsAreNumbers BY SumsTyped
<1>4. SumOver(LayerSize, layers \ dropped) = SumOver(LayerSize, layers) - SumOver(LayerSize, dropped)
    BY <1>2, <1>3, SumWithout DEF SumsAreNumbers
<1>5. LayerBytes(dropped) = SumOver(LayerSize, dropped) BY LayerSum
<1>6. SumOver(LayerSize, dropped) \in Int
    BY <1>2, <1>3, FS_Subset, SumTyped DEF SumsAreNumbers
<1>7. entryBytes' = entryBytes /\ granted' = granted /\ Cached' = Cached
    BY <1>1 DEF entryBytes, granted, Granted
<1> QED BY <1>1, <1>3, <1>4, <1>5, <1>6, <1>7 DEF LedgerExact, Ledger, SumsAreNumbers

\* A reservation charges what the transaction then holds.
LEMMA ReserveGrantLedger ==
    ASSUME IndInv, IndInv', LedgerExact, NEW t \in Txn, ReserveGrant(t)
    PROVE  LedgerExact'
<1>1. accounted' = accounted + Need(t) /\ layers' = layers /\ images' = images
    BY DEF ReserveGrant, Charged
<1>2. Granted(t) = 0 /\ Granted(t)' = Need(t) /\ \A u \in Txn \ {t} : Granted(u)' = Granted(u)
  <2>1. txn[t].pc \in {"putReserve", "recReserve"}
      BY DEF ReserveGrant, InLoop, Reserving
  <2>2. /\ \A u \in Txn \ {t} : txn'[u] = txn[u]
        /\ txn'[t].pc = IF txn[t].pc = "putReserve" THEN "putIndex" ELSE "recRename"
        /\ txn'[t].layer = txn[t].layer /\ txn'[t].rec = txn[t].rec
      BY DEF ReserveGrant, IndInv, TablesOK, Transaction
  <2> QED BY <2>1, <2>2 DEF Granted, Need, Size
<1>3. Need(t) \in Int /\ accounted \in Int
  <2>1. Reserving(t) BY DEF ReserveGrant, InLoop
  <2>2. Need(t) \in Nat BY <2>1, NeedIsNat DEF IndInv
  <2> QED BY <2>2, SumsTyped DEF LedgerExact, Ledger, SumsAreNumbers
<1> QED BY <1>1, <1>2, <1>3, OneGrant DEF granted

\* What a failed call releases is what it held.
LEMMA FailuresLedger ==
    ASSUME IndInv, IndInv', LedgerExact, NEW t \in Txn, PutFails(t) \/ RecordFails(t)
    PROVE  LedgerExact'
<1>1. accounted' = accounted - Granted(t) /\ layers' = layers /\ images' = images
    BY DEF PutFails, RecordFails, Release, Granted
<1>2. /\ \A u \in Txn \ {t} : txn'[u] = txn[u]
      /\ txn'[t].pc = "failed"
    BY DEF PutFails, RecordFails, Release, IndInv, TablesOK, Transaction
<1>3. Granted(t)' = 0 /\ \A u \in Txn \ {t} : Granted(u)' = Granted(u)
    BY <1>2 DEF Granted, Size
<1>4. accounted - Granted(t) \in Int
  <2>1. granted[t] \in Int BY SumsTyped DEF SumsAreNumbers
  <2> QED BY <2>1, SumsTyped DEF LedgerExact, Ledger, SumsAreNumbers, granted
<1> QED BY <1>1, <1>3, <1>4, OneGrant DEF granted

\* An installed layer carries its grant into the table: it is never a duplicate.
LEMMA InstallLayerLedger ==
    ASSUME IndInv, IndInv', LedgerExact, NEW t \in Txn, InstallLayer(t)
    PROVE  LedgerExact'
<1> DEFINE l == txn[t].layer
<1>1. l \in Layer /\ l \notin layers /\ txn[t].pc = "putInstall"
    BY DEF InstallLayer, IndInv, TxnsHoldLayers, PutsAreFirst, PutPc
<1>2. /\ layers' = layers \cup {l} /\ accounted' = accounted /\ images' = images
      /\ \A u \in Txn \ {t} : txn'[u] = txn[u]
      /\ txn'[t].pc = "open"
    BY <1>1 DEF InstallLayer, IndInv, TablesOK, Transaction
<1>3. SumsAreNumbers /\ SumsAreNumbers' BY SumsTyped, PTL
<1>4. SumOver(LayerSize, layers') = LayerSize[l] + SumOver(LayerSize, layers)
  <2>1. \A k \in layers \cup {l} : LayerSize[k] \in Int BY <1>1, <1>3 DEF SumsAreNumbers
  <2>2. IsFiniteSet(layers) BY <1>3 DEF SumsAreNumbers
  <2> HIDE DEF l
  <2> QED BY <1>1, <1>2, <2>1, <2>2, SumInsert
<1>5. granted[t] = LayerSize[l] /\ granted'[t] = 0 /\ \A u \in Txn \ {t} : granted[u] = granted'[u]
    BY <1>1, <1>2 DEF granted, Granted, Size
<1>6. SumOver(granted', Txn) = SumOver(granted, Txn) - granted[t] + granted'[t]
    BY <1>3, <1>5, SumChange DEF SumsAreNumbers
<1>7. entryBytes' = entryBytes /\ Cached' = Cached BY <1>2 DEF entryBytes
<1>8. LayerSize[l] \in Int BY <1>1, <1>3 DEF SumsAreNumbers
<1> HIDE DEF l
<1> QED BY <1>2, <1>3, <1>4, <1>5, <1>6, <1>7, <1>8 DEF LedgerExact, Ledger, SumsAreNumbers

\* An entry that takes the place of another gives the other's bytes back.
LEMMA EntryReplaced ==
    ASSUME IndInv, IndInv', NEW i \in Image, NEW e \in Entry, images' = [images EXCEPT ![i] = e]
    PROVE  SumOver(entryBytes', Cached') = SumOver(entryBytes, Cached) - Replaced(i) + e.bytes
<1>1. SumsAreNumbers /\ SumsAreNumbers' BY SumsTyped, PTL
<1>2. Cached' = Cached \cup {i} BY NoneIsNothing DEF IndInv, TablesOK
<1>3. /\ entryBytes'[i] = e.bytes
      /\ \A j \in Cached' \ {i} : entryBytes[j] = entryBytes'[j]
    BY DEF entryBytes, IndInv, TablesOK
<1>4. i \in Cached => Replaced(i) = entryBytes[i] BY DEF Replaced, entryBytes
<1>5. i \notin Cached => Replaced(i) = 0 BY DEF Replaced
<1> HIDE DEF Cached
<1>6. CASE i \in Cached
  <2>1. Cached' = Cached BY <1>2, <1>6
  <2>2. \A j \in Cached : entryBytes[j] \in Int /\ entryBytes'[j] \in Int
      BY <1>1, <2>1 DEF SumsAreNumbers
  <2>3. SumOver(entryBytes', Cached) = SumOver(entryBytes, Cached) - entryBytes[i] + entryBytes'[i]
      BY <1>1, <1>3, <1>6, <2>1, <2>2, SumChange DEF SumsAreNumbers
  <2> QED BY <1>3, <1>4, <1>6, <2>1, <2>3
<1>7. CASE i \notin Cached
  <2>1. \A j \in Cached \cup {i} : entryBytes'[j] \in Int
      BY <1>1, <1>2 DEF SumsAreNumbers
  <2>2. SumOver(entryBytes', Cached \cup {i}) = entryBytes'[i] + SumOver(entryBytes', Cached)
      BY <1>1, <1>7, <2>1, SumInsert DEF SumsAreNumbers
  <2>3. SumOver(entryBytes', Cached) = SumOver(entryBytes, Cached)
      BY <1>1, <1>2, <1>3, <1>7, SumSame DEF SumsAreNumbers
  <2>4. SumOver(entryBytes, Cached) \in Int /\ e.bytes \in Int
      BY <1>1 DEF SumsAreNumbers, Entry
  <2> QED BY <1>2, <1>3, <1>5, <1>7, <2>2, <2>3, <2>4
<1> QED BY <1>6, <1>7

\* An installed record carries its grant into the table and frees the bytes of
\* the record it replaces.
LEMMA InstallRecordLedger ==
    ASSUME IndInv, IndInv', LedgerExact, NEW t \in Txn, InstallRecord(t)
    PROVE  LedgerExact'
<1> DEFINE i == txn[t].image
           e == [rec |-> txn[t].rec, bytes |-> Size(txn[t].rec)]
<1>1. i \in Image /\ e \in Entry
    BY SizeIsNat DEF InstallRecord, IndInv, TablesOK, Transaction, Entry, TxnsHoldLayers
<1>2. /\ images' = [images EXCEPT ![i] = e]
      /\ accounted' = accounted - Replaced(i) /\ layers' = layers
    BY DEF InstallRecord
<1>3. /\ Granted(t) = e.bytes /\ Granted(t)' = 0
      /\ \A u \in Txn \ {t} : Granted(u)' = Granted(u)
    BY DEF InstallRecord, Goto, Granted, Size, IndInv, TablesOK, Transaction
<1>4. Replaced(i) \in Int /\ e.bytes \in Int
    BY <1>1 DEF Replaced, IndInv, TablesOK, Entry
<1> HIDE DEF i, e
<1>5. SumOver(entryBytes', Cached') = SumOver(entryBytes, Cached) - Replaced(i) + e.bytes
    BY <1>1, <1>2, EntryReplaced
<1>6. SumsAreNumbers /\ SumsAreNumbers' BY SumsTyped, PTL
<1>7. SumOver(granted', Txn) = SumOver(granted, Txn) - e.bytes
  <2>1. granted[t] = e.bytes /\ granted'[t] = 0 /\ \A u \in Txn \ {t} : granted[u] = granted'[u]
      BY <1>3 DEF granted
  <2>2. SumOver(granted', Txn) = SumOver(granted, Txn) - granted[t] + granted'[t]
      BY <1>6, <2>1, SumChange DEF SumsAreNumbers
  <2> QED BY <1>4, <1>6, <2>1, <2>2 DEF SumsAreNumbers
<1> HIDE DEF Cached
<1> QED BY <1>2, <1>4, <1>5, <1>6, <1>7 DEF LedgerExact, Ledger, SumsAreNumbers

\* Publishing a rewritten record charges nothing before its file is there.
LEMMA StartRewriteLedger ==
    ASSUME IndInv, IndInv', LedgerExact, NEW w \in Writer, NEW i \in Cached, NEW rec,
           StartRewrite(w, i, rec)
    PROVE  LedgerExact'
<1>1. UNCHANGED <<accounted, layers, txn>> /\ images' = [images EXCEPT ![i].rec = rec]
    BY DEF StartRewrite
<1>2. images[i] \in Entry /\ images \in [Image -> Entry \cup {None}] BY DEF IndInv, TablesOK
<1>3. rec \in Record
    BY DEF StartRewrite, Rewrite, IndInv, TablesOK, RecordRewrite
<1>4. images'[i] \in Entry /\ images'[i].bytes = images[i].bytes
    BY <1>1, <1>2, <1>3 DEF Entry
<1>5. Cached' = Cached BY <1>1, <1>2, <1>4, NoneIsNothing
<1>6. \A j \in Cached : images'[j].bytes = images[j].bytes BY <1>1, <1>2, <1>4
<1>7. \A u \in Txn : Granted(u)' = Granted(u) BY <1>1 DEF Granted
<1> QED BY <1>1, <1>5, <1>6, <1>7, SameLedger

\* Until its size is known, what a rewrite does to files charges nothing.
LEMMA FilesKeepLedger ==
    ASSUME IndInv, LedgerExact, NEW w \in Writer,
           OpenTmp(w) \/ WriteTmp(w) \/ RenameTmp(w) \/ RewriteFails(w)
    PROVE  LedgerExact'
<1>1. UNCHANGED <<accounted, layers, images, txn>>
    BY DEF OpenTmp, WriteTmp, RenameTmp, RewriteFails
<1>2. \A u \in Txn : Granted(u)' = Granted(u) BY <1>1 DEF Granted
<1> QED BY <1>1, <1>2, SameLedger

\* The size of the new file takes the place of the old one's, in the entry and
\* in the counter; an evicted entry is charged for neither.
LEMMA AccountRewriteLedger ==
    ASSUME IndInv, IndInv', LedgerExact, NEW w \in Writer, AccountRewrite(w)
    PROVE  LedgerExact'
<1> DEFINE i == writer[w].image
           e == [images[i] EXCEPT !.bytes = writer[w].size]
<1>1. layers' = layers /\ txn' = txn BY DEF AccountRewrite
<1>2. \A u \in Txn : Granted(u)' = Granted(u) BY <1>1 DEF Granted
<1>3. CASE i \notin Cached
  <2>1. UNCHANGED <<accounted, images>> BY <1>3 DEF AccountRewrite
  <2> QED BY <1>1, <1>2, <2>1, SameLedger
<1>4. CASE i \in Cached
  <2>1. i \in Image /\ e \in Entry /\ e.bytes = writer[w].size
      BY <1>4 DEF IndInv, TablesOK, Entry, RecordRewrite
  <2>2. images' = [images EXCEPT ![i] = e]
      BY <1>4 DEF AccountRewrite, IndInv, TablesOK
  <2>3. accounted' = accounted + e.bytes - Replaced(i)
      BY <1>4, <2>1 DEF AccountRewrite
  <2>4. Replaced(i) \in Int /\ e.bytes \in Int
      BY <2>1 DEF Replaced, IndInv, TablesOK, Entry
  <2> HIDE DEF i, e
  <2>5. SumOver(entryBytes', Cached') = SumOver(entryBytes, Cached) - Replaced(i) + e.bytes
      BY <2>1, <2>2, EntryReplaced
  <2>6. SumsAreNumbers BY SumsTyped
  <2>7. granted' = granted BY <1>2 DEF granted
  <2> HIDE DEF Cached
  <2> QED BY <1>1, <2>3, <2>4, <2>5, <2>6, <2>7 DEF LedgerExact, Ledger, SumsAreNumbers
<1> QED BY <1>3, <1>4

\* With no entry, no layer and no transaction there is nothing to charge.
LEMMA EmptyLedger ==
    layers = {} /\ Cached = {} /\ txn = [t \in Txn |-> IdleTxn] /\ accounted = 0 => LedgerExact
<1> SUFFICES ASSUME layers = {}, Cached = {}, txn = [t \in Txn |-> IdleTxn], accounted = 0
             PROVE  LedgerExact
    OBVIOUS
<1>1. SumOver(LayerSize, layers) = 0 BY SumEmpty
<1>2. SumOver(entryBytes, Cached) = 0
  <2> HIDE DEF Cached
  <2> QED BY SumEmpty
<1>3. SumOver(granted, Txn) = 0
  <2>1. \A t \in Txn : granted[t] = 0 BY DEF granted, Granted, IdleTxn
  <2> QED BY <2>1, FiniteAssumption, SumZero
<1> QED BY <1>1, <1>2, <1>3 DEF LedgerExact, Ledger

\* The process takes the counter along with the tables.
LEMMA CrashLedger == ASSUME Crash PROVE LedgerExact'
<1>1. (layers = {} /\ Cached = {} /\ txn = [t \in Txn |-> IdleTxn] /\ accounted = 0)'
    BY DEF Crash
<1> QED BY <1>1, EmptyLedger, PTL

\* The sweep counts the directories and files it lists.
LEMMA OpenLedger == ASSUME IndInv, IndInv', Open PROVE LedgerExact'
<1> DEFINE kept == {i \in Image : Usable(i)}
           sizes == [i \in kept |-> recFile[i].size]
<1>1. /\ layers' = CompleteLayers /\ accounted' = SweptBytes(kept) /\ txn' = txn
      /\ images' = [i \in Image |-> IF i \in kept
                                    THEN [rec |-> recFile[i].rec, bytes |-> recFile[i].size]
                                    ELSE None]
    BY DEF Open
<1>2. txn = [t \in Txn |-> IdleTxn] BY DEF Open, IndInv, DownIsEmpty
<1>3. Cached' = kept
  <2>1. \A i \in kept : [rec |-> recFile[i].rec, bytes |-> recFile[i].size] \in Entry
      BY DEF Usable, IndInv, TablesOK, File, Entry
  <2> QED BY <1>1, <2>1, NoneIsNothing
<1>4. SweptBytes(kept) = SumOver(LayerSize, CompleteLayers) + SumOver(sizes, kept)
  <2> DEFINE A(k) == [s \in SUBSET kept |->
                        IF s = {} THEN 0 ELSE recFile[Pick(s)].size + k[s \ {Pick(s)}]]
             B(k) == [s \in SUBSET kept |->
                        IF s = {} THEN 0 ELSE sizes[Pick(s)] + k[s \ {Pick(s)}]]
  <2> HIDE DEF kept
  <2>1. MapThenSumSet(LAMBDA i : recFile[i].size, kept) = (CHOOSE k : k = A(k))[kept]
      BY DEF MapThenSumSet, MapThenFoldSet, Pick
  <2>2. SumOver(sizes, kept) = (CHOOSE k : k = B(k))[kept]
      BY DEF SumOver, MapThenSumSet, MapThenFoldSet, Pick
  <2>3. \A k : A(k) = B(k)
    <3> SUFFICES ASSUME NEW k, NEW s \in SUBSET kept, s # {}
                 PROVE  recFile[Pick(s)].size = sizes[Pick(s)]
        OBVIOUS
    <3>1. Pick(s) \in s BY DEF Pick
    <3> QED BY <3>1
  <2> HIDE DEF A, B, sizes
  <2>4. (CHOOSE k : k = A(k)) = (CHOOSE k : k = B(k)) BY <2>3
  <2> QED BY <2>1, <2>2, <2>4, LayerSum DEF SweptBytes
<1>5. SumOver(entryBytes', kept) = SumOver(sizes, kept)
  <2>1. \A i \in kept : entryBytes'[i] = sizes[i] BY <1>1 DEF entryBytes
  <2>2. IsFiniteSet(kept) BY FiniteAssumption, FS_Subset
  <2> HIDE DEF kept, sizes
  <2> QED BY <2>1, <2>2, SumSame
<1>6. SumOver(granted', Txn) = 0
  <2>1. \A t \in Txn : granted'[t] = 0 BY <1>1, <1>2 DEF granted, Granted, IdleTxn
  <2> QED BY <2>1, FiniteAssumption, SumZero
<1>7. SumsAreNumbers' BY SumsTyped, PTL
<1> HIDE DEF Cached, kept, sizes
<1> QED BY <1>1, <1>3, <1>4, <1>5, <1>6, <1>7 DEF LedgerExact, Ledger, SumsAreNumbers

-------------------------------------------------------------------------------

\* Every step moves the counter by what it moves the sums.
LEMMA NextLedger == IndInv /\ IndInv' /\ LedgerExact /\ [Next]_vars => LedgerExact'
<1> SUFFICES ASSUME IndInv, IndInv', LedgerExact, [Next]_vars PROVE LedgerExact' OBVIOUS
<1>1. ASSUME NEW t \in Txn, TxnStep(t) PROVE LedgerExact'
  <2>1. CASE InCall(t)
      BY <2>1, TxnsMove, RenamesKeepLedger, EvictRecordLedger, DropLayersLedger,
         ReserveGrantLedger, InstallLayerLedger, InstallRecordLedger, FailuresLedger
         DEF InCall
  <2>2. CASE ~InCall(t) BY <1>1, <2>2, TxnsMove DEF TxnStep
  <2> QED BY <2>1, <2>2
<1>2. ASSUME NEW w \in Writer, WriterStep(w) PROVE LedgerExact'
  <2>1. CASE Rewriting(w)
      BY <2>1, FilesKeepLedger, AccountRewriteLedger DEF Rewriting
  <2>2. ASSUME NEW i \in Image, Touch(w, i) PROVE LedgerExact'
      BY <2>2, StartRewriteLedger DEF Touch
  <2>3. ASSUME NEW i \in Image, NEW pin \in BOOLEAN, NEW refs \in SUBSET Ref,
               UpgradeProvenance(w, i, pin, refs)
        PROVE  LedgerExact'
      BY <2>3, StartRewriteLedger DEF UpgradeProvenance
  <2> QED BY <1>2, <2>1, <2>2, <2>3 DEF WriterStep
<1>3. CASE Tick \/ UNCHANGED vars
  <2>1. UNCHANGED <<accounted, layers, images, txn>> BY <1>3 DEF Tick, vars, memory
  <2>2. \A u \in Txn : Granted(u)' = Granted(u) BY <2>1 DEF Granted
  <2> QED BY <2>1, <2>2, SameLedger
<1>4. CASE Crash BY <1>4, CrashLedger
<1>5. CASE Open BY <1>5, OpenLedger
<1> QED BY <1>1, <1>2, <1>3, <1>4, <1>5 DEF Next

\* No path charges a directory or a record twice, or frees one twice: in every
\* reachable state Store.accounted is the bytes of the layers and records in
\* the tables plus those granted to transactions that have yet to install them,
\* whatever fails, is evicted or rewritten in between.
THEOREM AccountsBalance == Spec => []AccountingExact
<1>1. Init => LedgerExact
  <2> SUFFICES ASSUME Init PROVE LedgerExact OBVIOUS
  <2>1. layers = {} /\ Cached = {} /\ txn = [t \in Txn |-> IdleTxn] /\ accounted = 0
      BY DEF Init
  <2> QED BY <2>1, EmptyLedger
<1>2. IndInv /\ IndInv' /\ LedgerExact /\ [Next]_vars => LedgerExact' BY NextLedger
<1>3. AccountingExact <=> LedgerExact BY LedgerForm
<1> QED BY <1>1, <1>2, <1>3, Inductive, PTL DEF Spec

-------------------------------------------------------------------------------
\* No rewrite grows its record: a touch does not, a new reference may.
RewritesFit ==
    \A w \in Writer : writer[w].pc = "account" /\ writer[w].image \in Cached =>
        writer[w].size <= images[writer[w].image].bytes

\* Bytes are charged by a grant, which looks at the cap, and freed by the rest.
LEMMA NextCap ==
    IndInv /\ LedgerExact /\ up /\ RewritesFit /\ CapHeld /\ [Next]_vars => CapHeld'
<1> SUFFICES ASSUME IndInv, LedgerExact, up, RewritesFit, CapHeld, [Next]_vars PROVE CapHeld' OBVIOUS
<1>0. accounted \in Int /\ MaxBytes \in Nat
    BY SumsTyped, SizeAssumption DEF LedgerExact, Ledger, SumsAreNumbers
<1>1. ASSUME NEW n \in Nat, accounted' = accounted - n PROVE CapHeld'
    BY <1>0, <1>1 DEF CapHeld
<1>2. ASSUME accounted' = accounted PROVE CapHeld' BY <1>2 DEF CapHeld
<1>3. ASSUME NEW t \in Txn, TxnStep(t) PROVE CapHeld'
  <2>1. CASE EvictRecord(t)
    <3>1. PICK i \in Cached : accounted' = accounted - images[i].bytes
        BY <2>1 DEF EvictRecord, IsLRU
    <3>2. images[i].bytes \in Nat BY DEF IndInv, TablesOK, Entry
    <3> QED BY <1>1, <3>1, <3>2
  <2>2. CASE DropLayers(t)
    <3> DEFINE dropped == {l \in LayersOf[victim] \cap layers : ~Referenced(l)}
    <3>1. accounted' = accounted - LayerBytes(dropped) BY <2>2 DEF DropLayers
    <3>2. IsFiniteSet(dropped) /\ \A l \in dropped : LayerSize[l] \in Nat
        BY FiniteAssumption, FS_Subset, SizeAssumption DEF IndInv, TablesOK
    <3> HIDE DEF dropped
    <3>3. LayerBytes(dropped) \in Nat BY <3>2, SumTyped, LayerSum
    <3> QED BY <1>1, <3>1, <3>3
  <2>3. CASE ReserveGrant(t) BY <2>3 DEF ReserveGrant, Fits, Charged, CapHeld
  <2>4. CASE InstallRecord(t)
    <3>1. Replaced(txn[t].image) \in Nat BY DEF Replaced, IndInv, TablesOK, Entry
    <3> QED BY <1>1, <2>4, <3>1 DEF InstallRecord
  <2>5. CASE PutFails(t) \/ RecordFails(t)
    <3>1. Size(txn[t].rec) \in Nat BY SizeIsNat DEF IndInv, TablesOK, Transaction
    <3>2. PutFails(t) => LayerSize[txn[t].layer] \in Nat
        BY SizeAssumption DEF PutFails, IndInv, TxnsHoldLayers, PutPc
    <3> QED BY <1>1, <2>5, <3>1, <3>2 DEF PutFails, RecordFails, Release
  <2>6. CASE InstallLayer(t)
      BY <1>2, <2>6 DEF InstallLayer, IndInv, PutsAreFirst, PutPc
  <2>7. CASE ~EvictRecord(t) /\ ~DropLayers(t) /\ ~ReserveGrant(t) /\ ~InstallRecord(t)
             /\ ~PutFails(t) /\ ~RecordFails(t) /\ ~InstallLayer(t)
      BY <1>2, <1>3, <2>7 DEF TxnStep, Begin, UseLayer, PutLayer, CommitStart, InCall,
         ReserveRefuse, ReserveExhausted, RenameIndex, RenameDoc, RenameRecord, Finish
  <2> QED BY <2>1, <2>2, <2>3, <2>4, <2>5, <2>6, <2>7
<1>4. ASSUME NEW w \in Writer, WriterStep(w) PROVE CapHeld'
  <2>1. CASE AccountRewrite(w)
    <3> DEFINE i == writer[w].image
    <3>1. CASE i \notin Cached BY <1>2, <2>1, <3>1 DEF AccountRewrite
    <3>2. CASE i \in Cached
      <4>1. accounted' = accounted + writer[w].size - images[i].bytes
          BY <2>1, <3>2 DEF AccountRewrite, Replaced
      <4>2. writer[w].size <= images[i].bytes BY <2>1, <3>2 DEF AccountRewrite, RewritesFit
      <4>3. writer[w].size \in Nat /\ images[i].bytes \in Nat
          BY <3>2 DEF IndInv, TablesOK, Entry, RecordRewrite
      <4> QED BY <1>0, <4>1, <4>2, <4>3 DEF CapHeld
    <3> QED BY <3>1, <3>2
  <2>2. CASE ~AccountRewrite(w)
      BY <1>2, <1>4, <2>2 DEF WriterStep, Rewriting, Touch, UpgradeProvenance, StartRewrite,
         OpenTmp, WriteTmp, RenameTmp, RewriteFails
  <2> QED BY <2>1, <2>2
<1>5. CASE Tick \/ UNCHANGED vars BY <1>2, <1>5 DEF Tick, vars, memory
<1>6. CASE Crash BY <1>0, <1>6 DEF Crash, CapHeld
<1>7. ~Open BY DEF Open
<1> QED BY <1>3, <1>4, <1>5, <1>6, <1>7 DEF Next

\* From an empty directory until the process ends, the accounted bytes stay
\* within --cache-max-bytes unless a rewrite grows a record: a rewrite is the
\* one way to charge bytes without reserve.
THEOREM CapHolds == Spec /\ []up /\ []RewritesFit => []CapHeld
<1>1. Init => CapHeld BY SizeAssumption DEF Init, CapHeld
<1>2. IndInv /\ LedgerExact /\ up /\ RewritesFit /\ CapHeld /\ [Next]_vars => CapHeld'
    BY NextCap
<1>3. AccountingExact <=> LedgerExact BY LedgerForm
<1> QED BY <1>1, <1>2, <1>3, AccountsBalance, Inductive, PTL DEF Spec

-------------------------------------------------------------------------------
(* The cap across crashes: what the disk completely holds was charged.        *)

\* Only a running process takes these steps, and it goes on running.
LEMMA StepsRun ==
    /\ \A t \in Txn : TxnStep(t) => up /\ up'
    /\ \A w \in Writer : WriterStep(w) => up /\ up'
<1>1. ASSUME NEW t \in Txn, TxnStep(t) PROVE up /\ up'
  <2>1. CASE InCall(t)
      BY <2>1 DEF InCall, ReserveRefuse, EvictRecord, DropLayers, ReserveGrant, ReserveExhausted,
         RenameIndex, RenameDoc, InstallLayer, RenameRecord, InstallRecord, PutFails, RecordFails,
         Reserving, InLoop
  <2>2. CASE ~InCall(t)
      BY <1>1, <2>2 DEF TxnStep, Begin, UseLayer, PutLayer, CommitStart, Finish
  <2> QED BY <2>1, <2>2
<1>2. ASSUME NEW w \in Writer, WriterStep(w) PROVE up /\ up'
  <2>1. CASE Rewriting(w)
      BY <2>1 DEF Rewriting, OpenTmp, WriteTmp, RenameTmp, RewriteFails, AccountRewrite
  <2>2. ASSUME NEW i \in Image, Touch(w, i) PROVE up /\ up'
      BY <2>2 DEF Touch, StartRewrite
  <2>3. ASSUME NEW i \in Image, NEW pin \in BOOLEAN, NEW refs \in SUBSET Ref,
               UpgradeProvenance(w, i, pin, refs)
        PROVE  up /\ up'
      BY <2>3 DEF UpgradeProvenance, StartRewrite
  <2> QED BY <1>2, <2>1, <2>2, <2>3 DEF WriterStep
<1> QED BY <1>1, <1>2

\* A complete directory is charged: its layer is listed, or a put is about to
\* list it.
LayersBacked ==
    \A l \in CompleteLayers :
        l \in layers \/ \E t \in Txn : txn[t].pc = "putInstall" /\ txn[t].layer = l

\* Every step keeps directories charged, unless a put fails half way.
LEMMA NextLayersBacked ==
    ASSUME IoFaults = FALSE, IndInv, up => LayersBacked, [Next]_vars, up'
    PROVE  LayersBacked'
<1>0. ASSUME up, CompleteLayers' \subseteq CompleteLayers, layers \subseteq layers',
             \A u \in Txn : txn[u].pc = "putInstall" =>
                txn'[u] = txn[u] \/ txn[u].layer \in layers'
      PROVE  LayersBacked'
    BY <1>0 DEF LayersBacked
<1>1. ASSUME NEW t \in Txn, TxnStep(t) PROVE LayersBacked'
  <2>0. up BY <1>1, StepsRun
  <2>1. CASE DropLayers(t)
    <3> DEFINE dropped == {l \in LayersOf[victim] \cap layers : ~Referenced(l)}
    <3>1. /\ layerDir' = [l \in Layer |-> IF l \in dropped THEN "none" ELSE layerDir[l]]
          /\ layers' = layers \ dropped /\ txn' = txn
        BY <2>1 DEF DropLayers
    <3> HIDE DEF dropped
    <3>2. CompleteLayers' = CompleteLayers \ dropped BY <3>1 DEF CompleteLayers
    <3> QED BY <2>0, <3>1, <3>2 DEF LayersBacked
  <2>2. CASE RenameIndex(t)
    <3>1. /\ layerDir' = [layerDir EXCEPT ![txn[t].layer] = IF @ = "none" THEN "index" ELSE @]
          /\ txn' = [txn EXCEPT ![t].pc = "putDoc"] /\ txn[t].pc = "putIndex" /\ layers' = layers
        BY <2>2 DEF RenameIndex, Goto
    <3>2. CompleteLayers' \subseteq CompleteLayers
        BY <3>1 DEF CompleteLayers, IndInv, TablesOK
    <3>3. \A u \in Txn : txn[u].pc = "putInstall" => txn'[u] = txn[u] BY <3>1
    <3> QED BY <1>0, <2>0, <3>1, <3>2, <3>3
  <2>3. CASE RenameDoc(t)
    <3> DEFINE l == txn[t].layer
    <3>1. /\ layerDir' = [layerDir EXCEPT ![l] = "full"]
          /\ txn' = [txn EXCEPT ![t].pc = "putInstall"] /\ txn[t].pc = "putDoc" /\ layers' = layers
        BY <2>3 DEF RenameDoc, Goto
    <3>2. CompleteLayers' \subseteq CompleteLayers \cup {l}
        BY <3>1 DEF CompleteLayers, IndInv, TablesOK
    <3>3. /\ \A u \in Txn : txn[u].pc = "putInstall" => txn'[u] = txn[u]
          /\ txn'[t].pc = "putInstall" /\ txn'[t].layer = l
        BY <3>1 DEF IndInv, TablesOK, Transaction
    <3> HIDE DEF l
    <3> QED BY <2>0, <3>1, <3>2, <3>3 DEF LayersBacked
  <2>4. CASE InstallLayer(t)
    <3>1. /\ layers' = layers \cup {txn[t].layer} /\ layerDir' = layerDir
          /\ \A u \in Txn \ {t} : txn'[u] = txn[u]
        BY <2>4 DEF InstallLayer, IndInv, TablesOK
    <3>2. CompleteLayers' = CompleteLayers BY <3>1 DEF CompleteLayers
    <3> QED BY <1>0, <2>0, <3>1, <3>2
  <2>5. CASE ~DropLayers(t) /\ ~RenameIndex(t) /\ ~RenameDoc(t) /\ ~InstallLayer(t)
    <3>1. UNCHANGED <<layers, layerDir>>
        BY <1>1, <2>5 DEF TxnStep, Begin, UseLayer, PutLayer, CommitStart, InCall, ReserveRefuse, EvictRecord,
           ReserveGrant, ReserveExhausted, RenameRecord, InstallRecord, PutFails, RecordFails, Finish
    <3>2. \A u \in Txn : txn[u].pc = "putInstall" => txn'[u] = txn[u]
        BY <1>1, <2>5 DEF TxnStep, Begin, UseLayer, PutLayer, CommitStart, InCall, ReserveRefuse, EvictRecord,
           ReserveGrant, ReserveExhausted, RenameRecord, InstallRecord, PutFails, RecordFails,
           Finish, Reserving, InLoop, Goto, IndInv, TablesOK, Transaction
    <3> QED BY <1>0, <2>0, <3>1, <3>2 DEF CompleteLayers
  <2> QED BY <2>1, <2>2, <2>3, <2>4, <2>5
<1>2. ASSUME NEW w \in Writer, WriterStep(w) PROVE LayersBacked'
  <2>1. UNCHANGED <<up, layers, layerDir, txn>>
      BY <1>2 DEF WriterStep, Rewriting, Touch, UpgradeProvenance, StartRewrite, OpenTmp, WriteTmp,
         RenameTmp, RewriteFails, AccountRewrite
  <2> QED BY <1>0, <2>1 DEF CompleteLayers
<1>3. CASE Tick \/ UNCHANGED vars
    BY <1>0, <1>3 DEF Tick, vars, memory, CompleteLayers
<1>4. CASE Open
  <2>1. /\ layers' = CompleteLayers
        /\ layerDir' = [l \in Layer |-> IF l \in CompleteLayers THEN "full" ELSE "none"]
      BY <1>4 DEF Open
  <2>2. CompleteLayers' = CompleteLayers BY <2>1 DEF CompleteLayers
  <2> QED BY <2>1, <2>2 DEF LayersBacked
<1>5. ~Crash BY DEF Crash
<1> QED BY <1>1, <1>2, <1>3, <1>4, <1>5 DEF Next

\* A commit publishes the record of image i: renamed, but not yet installed.
Committing(t, i) == txn[t].pc \in {"recRename", "recInstall"} /\ txn[t].image = i

\* No two writings of one record overlap, be they commits or rewrites: neither
\* Commit nor the rewrites see to that.
RecordsApart ==
    /\ RewritesApart
    /\ \A i \in Image, t, u \in Txn : Committing(t, i) /\ Committing(u, i) => t = u
    /\ \A i \in Image, t \in Txn, w \in Writer :
            Committing(t, i) /\ writer[w].image = i => writer[w].pc = "idle"

\* No rewrite renames a file that is larger than the one it takes the place of.
RenamesFit ==
    \A w \in Writer : writer[w].pc = "rename" /\ writer[w].image \in Cached =>
        writer[w].size <= images[writer[w].image].bytes

\* A file is missing or has n bytes at most.
AtMost(file, n) == file # None => file.size <= n

\* A record file is charged: it has no more bytes than its entry says, or than
\* the commit holds that is about to install the entry.
EntryBacked(i) ==
    recFile[i] # None =>
        \/ \E t \in Txn : txn[t].pc = "recInstall" /\ txn[t].image = i
        \/ i \in Cached /\ recFile[i].size <= images[i].bytes
CommitBacked(t) ==
    txn[t].pc = "recInstall" => AtMost(recFile[txn[t].image], Size(txn[t].rec))
RewriteBacked(w) ==
    LET i == writer[w].image
    IN  /\ writer[w].pc = "rename" => AtMost(tmpFile[i], writer[w].size)
        /\ writer[w].pc = "account" =>
              /\ AtMost(recFile[i], writer[w].size)
              /\ i \in Cached => writer[w].size <= images[i].bytes
FilesBacked ==
    /\ \A i \in Image : EntryBacked(i)
    /\ \A t \in Txn : CommitBacked(t)
    /\ \A w \in Writer : RewriteBacked(w)

\* Every step of a transaction keeps record files charged, while no two writings
\* of one record overlap.
LEMMA TxnFilesBacked ==
    ASSUME IoFaults = FALSE, IndInv, StagedAlone, RecordsApart, FilesBacked,
           NEW t \in Txn, TxnStep(t)
    PROVE  FilesBacked'
<1>1. CASE EvictRecord(t)
  <2>1. PICK i \in Image : /\ images' = [images EXCEPT ![i] = None]
                           /\ recFile' = [recFile EXCEPT ![i] = None]
                           /\ writer' = Unlinked(i)
      BY <1>1 DEF EvictRecord
  <2>2. writer' = writer BY <2>1, UnlinkedAlone DEF IndInv, TablesOK
  <2>3. txn' = txn /\ tmpFile' = tmpFile BY <1>1 DEF EvictRecord
  <2>4. /\ \A j \in Image : recFile'[j] # None =>
                recFile'[j] = recFile[j] /\ images'[j] = images[j]
        /\ \A j \in Image : images'[j] # None => images'[j] = images[j]
      BY <2>1 DEF IndInv, TablesOK
  <2>5. (\A j \in Image : EntryBacked(j))' BY <2>3, <2>4 DEF FilesBacked, EntryBacked
  <2>6. (\A u \in Txn : CommitBacked(u))'
      BY <2>3, <2>4 DEF FilesBacked, CommitBacked, AtMost, IndInv, TxnsHoldLayers, Size
  <2>7. (\A w \in Writer : RewriteBacked(w))'
      BY <2>2, <2>3, <2>4 DEF FilesBacked, RewriteBacked, AtMost, IndInv, WritersHoldFiles
  <2> QED BY <2>5, <2>6, <2>7 DEF FilesBacked
<1>2. CASE RenameRecord(t)
  <2> DEFINE i == txn[t].image
  <2>1. /\ i \in Image /\ recFile' = [recFile EXCEPT ![i] = Written(txn[t].rec)]
        /\ txn' = [txn EXCEPT ![t].pc = "recInstall"] /\ txn[t].pc = "recRename"
        /\ writer' = Unlinked(i)
        /\ UNCHANGED <<images, tmpFile>>
      BY <1>2 DEF RenameRecord, Goto, IndInv, TxnsHoldLayers
  <2>2. writer' = writer BY <2>1, UnlinkedAlone DEF IndInv, TablesOK
  <2>3. /\ \A u \in Txn \ {t} : txn'[u] = txn[u]
        /\ txn'[t].pc = "recInstall" /\ txn'[t].image = i /\ txn'[t].rec = txn[t].rec
      BY <2>1 DEF IndInv, TablesOK, Transaction
  <2>4. /\ recFile'[i].size = Size(txn[t].rec)
        /\ \A j \in Image \ {i} : recFile'[j] = recFile[j]
      BY <2>1 DEF Written, IndInv, TablesOK
  <2>5. Size(txn[t].rec) \in Nat BY SizeIsNat DEF IndInv, TablesOK, Transaction
  <2>6. /\ \A u \in Txn \ {t} : txn[u].pc = "recInstall" => txn[u].image # i
        /\ \A w \in Writer : writer[w].pc = "account" => writer[w].image # i
      BY <2>1 DEF RecordsApart, Committing
  <2> HIDE DEF i
  <2>7. (\A j \in Image : EntryBacked(j))'
      BY <2>1, <2>3, <2>4 DEF FilesBacked, EntryBacked
  <2>8. (\A u \in Txn : CommitBacked(u))'
    <3>1. CommitBacked(t)' BY <2>3, <2>4, <2>5 DEF CommitBacked, AtMost, Size
    <3>2. ASSUME NEW u \in Txn \ {t} PROVE CommitBacked(u)'
        BY <2>3, <2>4, <2>6 DEF FilesBacked, CommitBacked, AtMost, IndInv, TxnsHoldLayers, Size
    <3> QED BY <3>1, <3>2
  <2>9. (\A w \in Writer : RewriteBacked(w))'
      BY <2>1, <2>2, <2>4, <2>6 DEF FilesBacked, RewriteBacked, AtMost, IndInv, WritersHoldFiles
  <2> QED BY <2>7, <2>8, <2>9 DEF FilesBacked
<1>3. CASE InstallRecord(t)
  <2> DEFINE i == txn[t].image
             e == [rec |-> txn[t].rec, bytes |-> Size(txn[t].rec)]
  <2>1. /\ i \in Image /\ images' = [images EXCEPT ![i] = e]
        /\ txn' = [txn EXCEPT ![t].pc = "committed"] /\ txn[t].pc = "recInstall"
        /\ UNCHANGED <<recFile, tmpFile, writer>>
      BY <1>3 DEF InstallRecord, Goto, IndInv, TxnsHoldLayers
  <2>2. e \in Entry /\ e.bytes = Size(txn[t].rec)
      BY SizeIsNat DEF IndInv, TablesOK, Transaction, Entry
  <2>3. /\ \A u \in Txn \ {t} : txn'[u] = txn[u]
        /\ txn'[t].pc = "committed"
      BY <2>1 DEF IndInv, TablesOK, Transaction
  <2>4. AtMost(recFile[i], e.bytes) BY <2>1, <2>2 DEF FilesBacked, CommitBacked
  <2>5. \A w \in Writer : writer[w].pc = "account" => writer[w].image # i
      BY <2>1 DEF RecordsApart, Committing
  <2>6. \A j \in Image : images'[j] = IF j = i THEN e ELSE images[j]
      BY <2>1 DEF IndInv, TablesOK
  <2>7. \A u \in Txn \ {t} : txn[u].pc = "recInstall" => txn[u].image # i
      BY <2>1 DEF RecordsApart, Committing
  <2>8. e # None BY <2>2, NoneIsNothing
  <2>9. ASSUME NEW j \in Image PROVE EntryBacked(j)'
    <3>1. CASE j = i
        BY <2>1, <2>4, <2>6, <2>8, <3>1 DEF EntryBacked, AtMost
    <3>2. CASE j # i
      <4> HIDE DEF e
      <4>1. i # j BY <3>2
      <4> QED BY <2>1, <2>3, <2>6, <4>1 DEF FilesBacked, EntryBacked
    <3> QED BY <3>1, <3>2
  <2> HIDE DEF i, e
  <2>10. (\A u \in Txn : CommitBacked(u))'
      BY <2>1, <2>3 DEF FilesBacked, CommitBacked, Size
  <2>11. (\A w \in Writer : RewriteBacked(w))'
      BY <2>1, <2>5, <2>6 DEF FilesBacked, RewriteBacked, IndInv, WritersHoldFiles
  <2> QED BY <2>9, <2>10, <2>11 DEF FilesBacked
<1>4. CASE ~EvictRecord(t) /\ ~RenameRecord(t) /\ ~InstallRecord(t)
  <2>1. UNCHANGED <<recFile, tmpFile, images, writer>>
      BY <1>4 DEF TxnStep, Begin, UseLayer, PutLayer, CommitStart, InCall, ReserveRefuse, DropLayers,
         ReserveGrant, ReserveExhausted, RenameIndex, RenameDoc, InstallLayer, PutFails, RecordFails,
         Finish
  <2>2. \A u \in Txn : /\ txn[u].pc = "recInstall" => txn'[u] = txn[u]
                       /\ txn'[u].pc = "recInstall" => txn[u].pc = "recInstall"
      BY <1>4 DEF TxnStep, Begin, UseLayer, PutLayer, CommitStart, InCall, ReserveRefuse, DropLayers,
         ReserveGrant, ReserveExhausted, RenameIndex, RenameDoc, InstallLayer, PutFails, RecordFails,
         Finish, Reserving, InLoop, Goto, OpenTxn, IdleTxn, IndInv, TablesOK, Transaction
  <2>3. (\A j \in Image : EntryBacked(j))' BY <2>1, <2>2 DEF FilesBacked, EntryBacked
  <2>4. (\A u \in Txn : CommitBacked(u))' BY <2>1, <2>2 DEF FilesBacked, CommitBacked, Size
  <2>5. (\A w \in Writer : RewriteBacked(w))' BY <2>1 DEF FilesBacked, RewriteBacked
  <2> QED BY <2>3, <2>4, <2>5 DEF FilesBacked
<1> QED BY <1>1, <1>2, <1>3, <1>4

\* So does every step of a rewrite that renames in time a file that fits.
LEMMA WriterFilesBacked ==
    ASSUME IndInv, IndInv', StagedAlone, RecordsApart, RewritesTimely, RenamesFit,
           FilesBacked, NEW w \in Writer, WriterStep(w)
    PROVE  FilesBacked'
<1> DEFINE i == writer[w].image
<1>t. writer \in [Writer -> RecordRewrite] /\ txn' = txn
    BY DEF IndInv, TablesOK, WriterStep, Rewriting, Touch, UpgradeProvenance, StartRewrite, OpenTmp,
           WriteTmp, RenameTmp, RewriteFails, AccountRewrite
<1>a. \A v \in Writer \ {w} : writer[v].pc # "idle" /\ writer[w].pc # "idle" => writer[v].image # i
    BY DEF RecordsApart, RewritesApart
\* What a step leaves alone stays charged.
<1>0. ASSUME UNCHANGED <<recFile, images>>,
             \A v \in Writer \ {w} : writer'[v] = writer[v],
             \A v \in Writer \ {w} : writer[v].pc = "rename" =>
                tmpFile'[writer[v].image] = tmpFile[writer[v].image],
             RewriteBacked(w)'
      PROVE  FilesBacked'
  <2>1. (\A j \in Image : EntryBacked(j))' BY <1>t, <1>0 DEF FilesBacked, EntryBacked
  <2>2. (\A u \in Txn : CommitBacked(u))' BY <1>t, <1>0 DEF FilesBacked, CommitBacked, Size
  <2>3. \A v \in Writer \ {w} : RewriteBacked(v)' BY <1>0 DEF FilesBacked, RewriteBacked
  <2> QED BY <1>0, <2>1, <2>2, <2>3 DEF FilesBacked
<1>1. ASSUME NEW j \in Cached, NEW rec, StartRewrite(w, j, rec) PROVE FilesBacked'
  <2>1. /\ images' = [images EXCEPT ![j].rec = rec] /\ j \in Image
        /\ writer' = [writer EXCEPT ![w] = Rewrite(j, rec)]
        /\ UNCHANGED <<recFile, tmpFile>>
      BY <1>1 DEF StartRewrite
  <2>2. \A k \in Image : /\ images[k] # None => images'[k] # None
                         /\ images'[k] # None => images[k] # None /\ images'[k].bytes = images[k].bytes
    <3>1. \A k \in Cached : images'[k] # None BY <1>1, RewriteKeepsEntry
    <3> QED BY <2>1, <3>1 DEF IndInv, TablesOK, Entry
  <2>3. writer'[w].pc = "stage" /\ \A v \in Writer \ {w} : writer'[v] = writer[v]
      BY <1>t, <2>1 DEF Rewrite
  <2>4. (\A k \in Image : EntryBacked(k))' BY <1>t, <2>1, <2>2 DEF FilesBacked, EntryBacked
  <2>5. (\A u \in Txn : CommitBacked(u))' BY <1>t, <2>1 DEF FilesBacked, CommitBacked, Size
  <2>6. (\A v \in Writer : RewriteBacked(v))'
      BY <2>1, <2>2, <2>3 DEF FilesBacked, RewriteBacked, IndInv, WritersHoldFiles
  <2> QED BY <2>4, <2>5, <2>6 DEF FilesBacked
<1>2. CASE OpenTmp(w)
  <2>1. /\ tmpFile' = [tmpFile EXCEPT ![i] = Truncated]
        /\ writer' = [writer EXCEPT ![w].pc = "write", ![w].fd = "tmp"]
        /\ UNCHANGED <<recFile, images>> /\ writer[w].pc = "stage"
      BY <1>2 DEF OpenTmp
  <2>2. writer'[w].pc = "write" /\ \A v \in Writer \ {w} : writer'[v] = writer[v]
      BY <1>t, <2>1 DEF RecordRewrite
  <2>3. \A v \in Writer \ {w} : writer[v].pc = "rename" =>
            tmpFile'[writer[v].image] = tmpFile[writer[v].image]
      BY <1>a, <2>1 DEF IndInv, TablesOK
  <2> QED BY <1>0, <2>1, <2>2, <2>3 DEF RewriteBacked
<1>3. CASE WriteTmp(w)
  <2>1. writer[w].pc = "write" /\ writer[w].fd = "tmp"
      BY <1>3 DEF WriteTmp, StagedAlone
  <2>2. /\ tmpFile' = [tmpFile EXCEPT ![i] = Overlay(@, writer[w].rec)]
        /\ recFile' = recFile /\ images' = images
        /\ writer' = [writer EXCEPT ![w].pc = "rename", ![w].size = tmpFile'[i].size]
      BY <1>3, <2>1 DEF WriteTmp
  <2>3. /\ writer'[w].pc = "rename" /\ writer'[w].image = i
        /\ writer'[w].size = tmpFile'[i].size
        /\ \A v \in Writer \ {w} : writer'[v] = writer[v]
      BY <1>t, <2>2 DEF RecordRewrite
  <2>4. tmpFile'[i].size \in Nat
    <3>1. tmpFile[i] \in File /\ i \in Image /\ writer[w].rec \in Record
        BY <2>1, <1>t DEF IndInv, TablesOK, WritersHoldFiles, RecordRewrite
    <3>2. Overlay(tmpFile[i], writer[w].rec) \in File BY <3>1, OverlayIsFile
    <3> QED BY <2>2, <3>1, <3>2 DEF IndInv, TablesOK, File
  <2>5. \A v \in Writer \ {w} : writer[v].pc = "rename" =>
            tmpFile'[writer[v].image] = tmpFile[writer[v].image]
      BY <1>a, <2>1, <2>2 DEF IndInv, TablesOK
  <2>6. RewriteBacked(w)' BY <2>3, <2>4 DEF RewriteBacked, AtMost
  <2> QED BY <1>0, <2>2, <2>3, <2>5, <2>6
<1>4. CASE RenameTmp(w)
  <2>1. /\ recFile' = [recFile EXCEPT ![i] = tmpFile[i]]
        /\ tmpFile' = [tmpFile EXCEPT ![i] = None]
        /\ images' = images /\ tmpFile[i] # None /\ writer[w].pc = "rename"
      BY <1>4 DEF RenameTmp
  <2>2. /\ writer'[w].pc = "account" /\ writer'[w].image = i /\ writer'[w].size = writer[w].size
        /\ \A v \in Writer \ {w} : writer[v].pc # "idle" => writer'[v] = writer[v]
        /\ \A v \in Writer \ {w} : writer[v].pc = "idle" => writer'[v].pc = "idle"
      BY <1>4, <1>t, <1>a, <2>1 DEF RenameTmp, RecordRewrite
  <2>3. /\ i \in Cached /\ writer[w].size <= images[i].bytes
        /\ tmpFile[i].size <= writer[w].size
      BY <2>1 DEF RewritesTimely, RenamesFit, FilesBacked, RewriteBacked, AtMost
  <2>4. tmpFile[i].size \in Nat /\ writer[w].size \in Nat /\ images[i].bytes \in Nat
      BY <1>t, <2>1, <2>3 DEF IndInv, TablesOK, File, RecordRewrite, Entry
  <2>5. recFile'[i] = tmpFile[i] /\ \A j \in Image \ {i} : recFile'[j] = recFile[j]
      BY <2>1, <2>3 DEF IndInv, TablesOK
  <2>6. \A t \in Txn : txn[t].pc = "recInstall" => txn[t].image # i
      BY <2>1, <2>3 DEF RecordsApart, Committing
  <2>7. ASSUME NEW j \in Image PROVE EntryBacked(j)'
    <3>1. CASE j = i BY <2>1, <2>3, <2>4, <2>5, <3>1 DEF EntryBacked
    <3>2. CASE j # i
        BY <1>t, <2>1, <2>5, <3>2 DEF FilesBacked, EntryBacked
    <3> QED BY <3>1, <3>2
  <2>8. (\A u \in Txn : CommitBacked(u))'
      BY <1>t, <2>5, <2>6 DEF FilesBacked, CommitBacked, AtMost, Size, IndInv, TxnsHoldLayers
  <2>9. RewriteBacked(w)'
      BY <2>1, <2>2, <2>3, <2>4, <2>5 DEF RewriteBacked, AtMost
  <2>10. ASSUME NEW v \in Writer \ {w} PROVE RewriteBacked(v)'
    <3>1. CASE writer[v].pc = "idle" BY <2>2, <3>1 DEF RewriteBacked
    <3>2. CASE writer[v].pc # "idle"
      <4>1. writer'[v] = writer[v] /\ writer[v].image # i /\ writer[v].image \in Image
          BY <1>a, <2>1, <2>2, <3>2 DEF IndInv, WritersHoldFiles
      <4>2. /\ recFile'[writer[v].image] = recFile[writer[v].image]
            /\ tmpFile'[writer[v].image] = tmpFile[writer[v].image]
          BY <2>1, <2>5, <4>1 DEF IndInv, TablesOK
      <4> HIDE DEF i
      <4> QED BY <2>1, <4>1, <4>2 DEF FilesBacked, RewriteBacked
    <3> QED BY <3>1, <3>2
  <2> QED BY <2>7, <2>8, <2>9, <2>10 DEF FilesBacked
<1>5. CASE RewriteFails(w)
  <2>1. writer' = [writer EXCEPT ![w] = IdleWriter] /\ UNCHANGED <<recFile, images, tmpFile>>
      BY <1>5 DEF RewriteFails
  <2>2. writer'[w].pc = "idle" /\ \A v \in Writer \ {w} : writer'[v] = writer[v]
      BY <1>t, <2>1 DEF IdleWriter
  <2> QED BY <1>0, <2>1, <2>2 DEF RewriteBacked
<1>6. CASE AccountRewrite(w)
  <2>1. /\ writer' = [writer EXCEPT ![w] = IdleWriter] /\ UNCHANGED <<recFile, tmpFile>>
        /\ writer[w].pc = "account"
      BY <1>6 DEF AccountRewrite
  <2>2. writer'[w].pc = "idle" /\ \A v \in Writer \ {w} : writer'[v] = writer[v]
      BY <1>t, <2>1 DEF IdleWriter
  <2>3. CASE i \notin Cached
      BY <1>0, <1>6, <2>1, <2>2, <2>3 DEF RewriteBacked, AccountRewrite
  <2>4. CASE i \in Cached
    <3> DEFINE e == [images[i] EXCEPT !.bytes = writer[w].size]
    <3>1. images' = [images EXCEPT ![i] = e] /\ i \in Image
        BY <1>6, <2>4 DEF AccountRewrite, IndInv, TablesOK
    <3>2. e \in Entry /\ e.bytes = writer[w].size
        BY <1>t, <2>4 DEF IndInv, TablesOK, Entry, RecordRewrite
    <3>3. e # None BY <3>2, NoneIsNothing
    <3>4. AtMost(recFile[i], e.bytes) BY <2>1, <3>2 DEF FilesBacked, RewriteBacked
    <3>5. \A j \in Image : images'[j] = IF j = i THEN e ELSE images[j]
        BY <3>1 DEF IndInv, TablesOK
    <3> HIDE DEF e
    <3>6. (\A j \in Image : EntryBacked(j))'
        BY <1>t, <2>1, <3>3, <3>4, <3>5 DEF FilesBacked, EntryBacked, AtMost
    <3>7. (\A u \in Txn : CommitBacked(u))' BY <1>t, <2>1 DEF FilesBacked, CommitBacked, Size
    <3>8. ASSUME NEW v \in Writer PROVE RewriteBacked(v)'
      <4>1. CASE writer[v].pc = "idle" \/ v = w BY <2>2, <4>1 DEF RewriteBacked
      <4>2. CASE writer[v].pc # "idle" /\ v # w
        <5>1. writer'[v] = writer[v] /\ writer[v].image # i /\ writer[v].image \in Image
            BY <1>a, <2>1, <2>2, <4>2 DEF IndInv, WritersHoldFiles
        <5>2. images'[writer[v].image] = images[writer[v].image] BY <3>5, <5>1
        <5> HIDE DEF i
        <5> QED BY <2>1, <5>1, <5>2 DEF FilesBacked, RewriteBacked
      <4> QED BY <4>1, <4>2
    <3> QED BY <3>6, <3>7, <3>8 DEF FilesBacked
  <2> QED BY <2>3, <2>4
<1> QED BY <1>1, <1>2, <1>3, <1>4, <1>5, <1>6 DEF WriterStep, Rewriting, Touch, UpgradeProvenance

\* What the disk completely holds is charged while the process runs, and fits
\* under the cap when it does not.
UsableImages == {i \in Image : Usable(i)}
DiskBacked ==
    /\ up => LayersBacked /\ FilesBacked
    /\ ~up => SweptBytes(UsableImages) <= MaxBytes

\* With nothing in memory, what is on disk alone counts.
LEMMA NextFilesBacked ==
    ASSUME IoFaults = FALSE, IndInv, IndInv', StagedAlone, RecordsApart, RewritesTimely, RenamesFit,
           up => FilesBacked, [Next]_vars, up'
    PROVE  FilesBacked'
<1>1. CASE Open
  <2>1. /\ images' = [i \in Image |-> IF i \in UsableImages
                                      THEN [rec |-> recFile[i].rec, bytes |-> recFile[i].size]
                                      ELSE None]
        /\ recFile' = [i \in Image |-> IF i \in UsableImages THEN recFile[i] ELSE None]
      BY <1>1 DEF Open, UsableImages
  <2>2. txn' = [t \in Txn |-> IdleTxn] /\ writer' = [w \in Writer |-> IdleWriter]
      BY <1>1 DEF Open, IndInv, DownIsEmpty
  <2>3. ASSUME NEW i \in Image PROVE EntryBacked(i)'
    <3>1. CASE i \in UsableImages
      <4>1. [rec |-> recFile[i].rec, bytes |-> recFile[i].size] \in Entry /\ recFile[i].size \in Nat
          BY <3>1 DEF UsableImages, Usable, IndInv, TablesOK, File, Entry
      <4> QED BY <2>1, <3>1, <4>1, NoneIsNothing DEF EntryBacked
    <3>2. CASE i \notin UsableImages BY <2>1, <3>2 DEF EntryBacked
    <3> QED BY <3>1, <3>2
  <2>4. (\A t \in Txn : CommitBacked(t))' BY <2>2 DEF CommitBacked, IdleTxn
  <2>5. (\A w \in Writer : RewriteBacked(w))' BY <2>2 DEF RewriteBacked, IdleWriter
  <2> QED BY <2>3, <2>4, <2>5 DEF FilesBacked
<1>2. CASE Tick \/ UNCHANGED vars
  <2>1. UNCHANGED <<up, images, recFile, tmpFile, txn, writer>>
      BY <1>2 DEF Tick, vars, memory
  <2> QED BY <2>1 DEF FilesBacked, EntryBacked, CommitBacked, RewriteBacked, Size
<1>3. ASSUME NEW t \in Txn, TxnStep(t) PROVE FilesBacked'
  <2>1. up BY <1>3, StepsRun
  <2> QED BY <1>3, <2>1, TxnFilesBacked
<1>4. ASSUME NEW w \in Writer, WriterStep(w) PROVE FilesBacked'
  <2>1. up BY <1>4, StepsRun
  <2> QED BY <1>4, <2>1, WriterFilesBacked
<1>5. ~Crash BY DEF Crash
<1> QED BY <1>1, <1>2, <1>3, <1>4, <1>5 DEF Next

\* The bytes of the record files, as a function.
fileBytes == [i \in Image |-> recFile[i].size]

\* What the sweep adds up, as sums of functions.
LEMMA SweptSum ==
    SweptBytes(UsableImages) = SumOver(LayerSize, CompleteLayers) + SumOver(fileBytes, UsableImages)
<1> DEFINE K == UsableImages
           A(k) == [s \in SUBSET K |->
                      IF s = {} THEN 0 ELSE recFile[Pick(s)].size + k[s \ {Pick(s)}]]
           B(k) == [s \in SUBSET K |->
                      IF s = {} THEN 0 ELSE fileBytes[Pick(s)] + k[s \ {Pick(s)}]]
<1>0. K \subseteq Image BY DEF UsableImages
<1> HIDE DEF K
<1>1. MapThenSumSet(LAMBDA i : recFile[i].size, K) = (CHOOSE k : k = A(k))[K]
    BY DEF MapThenSumSet, MapThenFoldSet, Pick
<1>2. SumOver(fileBytes, K) = (CHOOSE k : k = B(k))[K]
    BY DEF SumOver, MapThenSumSet, MapThenFoldSet, Pick
<1>3. \A k : A(k) = B(k)
  <2> SUFFICES ASSUME NEW k, NEW s \in SUBSET K, s # {}
               PROVE  recFile[Pick(s)].size = fileBytes[Pick(s)]
      OBVIOUS
  <2>1. Pick(s) \in s BY DEF Pick
  <2> QED BY <1>0, <2>1 DEF fileBytes
<1> HIDE DEF A, B
<1>4. (CHOOSE k : k = A(k)) = (CHOOSE k : k = B(k)) BY <1>3
<1>5. SweptBytes(K) = LayerBytes(CompleteLayers) + MapThenSumSet(LAMBDA i : recFile[i].size, K)
    BY DEF SweptBytes
<1>6. SweptBytes(K) = SumOver(LayerSize, CompleteLayers) + SumOver(fileBytes, K)
    BY <1>1, <1>2, <1>4, <1>5, LayerSum
<1> QED BY <1>6 DEF K

\* It depends on the files alone.
LEMMA SameDisk ==
    ASSUME UNCHANGED <<layerDir, recFile>>
    PROVE  SweptBytes(UsableImages)' = SweptBytes(UsableImages)
<1>1. UNCHANGED <<CompleteLayers, UsableImages, fileBytes>>
    BY DEF CompleteLayers, UsableImages, Usable, fileBytes
<1>2. (SweptBytes(UsableImages)
        = SumOver(LayerSize, CompleteLayers) + SumOver(fileBytes, UsableImages))'
    BY SweptSum, PTL
<1> QED BY <1>1, <1>2, SweptSum

\* The complete directories hold no more than the listed layers and the puts
\* about to list theirs.
LEMMA DirectoriesCharged ==
    ASSUME IndInv, LayersBacked
    PROVE  LET puts == {t \in Txn : txn[t].pc = "putInstall"}
           IN  SumOver(LayerSize, CompleteLayers)
                    <= SumOver(LayerSize, layers) + SumOver(granted, puts)
<1> DEFINE puts == {t \in Txn : txn[t].pc = "putInstall"}
           rest == CompleteLayers \ layers
           by == [l \in rest |-> CHOOSE t \in puts : txn[t].layer = l]
<1>1. \A l \in rest : by[l] \in puts /\ txn[by[l]].layer = l
  <2> TAKE l \in rest
  <2>1. \E t \in puts : txn[t].layer = l BY DEF LayersBacked
  <2> QED BY <2>1
<1>2. /\ CompleteLayers \subseteq Layer /\ IsFiniteSet(CompleteLayers)
      /\ rest \subseteq Layer /\ IsFiniteSet(rest) /\ IsFiniteSet(puts) /\ IsFiniteSet(layers)
      /\ layers \subseteq CompleteLayers
    BY FiniteAssumption, FS_Subset, ListedIsComplete DEF CompleteLayers, IndInv, TablesOK
<1>3. \A l \in Layer : LayerSize[l] \in Nat BY SizeAssumption
<1>4. \A t \in puts : txn[t].layer \in Layer /\ granted[t] = LayerSize[txn[t].layer]
    BY DEF granted, Granted, IndInv, TxnsHoldLayers, PutPc
<1> HIDE DEF by
<1>5. /\ \A l \in rest : by[l] \in puts /\ LayerSize[l] \in Nat /\ LayerSize[l] <= granted[by[l]]
      /\ \A l, k \in rest : by[l] = by[k] => l = k
      /\ \A t \in puts : granted[t] \in Nat
    BY <1>1, <1>2, <1>3, <1>4
<1> HIDE DEF puts
<1>6. SumOver(LayerSize, rest) <= SumOver(granted, puts)
  <2> HIDE DEF rest
  <2> QED BY <1>2, <1>5, SumCarried
<1>7. SumOver(LayerSize, rest) = SumOver(LayerSize, CompleteLayers) - SumOver(LayerSize, layers)
    BY <1>2, <1>3, SumWithout
<1>8. /\ SumOver(LayerSize, CompleteLayers) \in Nat /\ SumOver(LayerSize, layers) \in Nat
      /\ SumOver(granted, puts) \in Nat
    BY <1>2, <1>3, <1>5, SumTyped
<1>9. SumOver(LayerSize, CompleteLayers) <= SumOver(LayerSize, layers) + SumOver(granted, puts)
    BY <1>6, <1>7, <1>8
<1> QED BY <1>9 DEF puts

\* The record files hold no more than the entries and the commits about to
\* install theirs.
LEMMA RecordsCharged ==
    ASSUME IndInv, FilesBacked
    PROVE  LET commits == {t \in Txn : txn[t].pc = "recInstall"}
           IN  SumOver(fileBytes, UsableImages)
                    <= SumOver(entryBytes, Cached) + SumOver(granted, commits)
<1> DEFINE commits == {t \in Txn : txn[t].pc = "recInstall"}
           fresh == {i \in UsableImages : \E t \in commits : txn[t].image = i}
           rest == UsableImages \ fresh
           by == [i \in fresh |-> CHOOSE t \in commits : txn[t].image = i]
<1>1. \A i \in fresh : by[i] \in commits /\ txn[by[i]].image = i
  <2> TAKE i \in fresh
  <2>1. \E t \in commits : txn[t].image = i OBVIOUS
  <2> QED BY <2>1
<1>2. /\ IsFiniteSet(UsableImages) /\ IsFiniteSet(fresh) /\ IsFiniteSet(rest)
      /\ IsFiniteSet(commits) /\ IsFiniteSet(Cached)
    BY FiniteAssumption, FS_Subset DEF UsableImages
<1>3. \A i \in UsableImages : recFile[i] # None /\ i \in Image /\ fileBytes[i] = recFile[i].size
                              /\ fileBytes[i] \in Nat
    BY DEF UsableImages, Usable, fileBytes, IndInv, TablesOK, File
<1>4. \A t \in commits : granted[t] = Size(txn[t].rec) /\ granted[t] \in Nat
    BY SizeIsNat DEF granted, Granted, IndInv, TablesOK, Transaction
<1>5. \A i \in fresh : by[i] \in commits /\ fileBytes[i] \in Nat /\ fileBytes[i] <= granted[by[i]]
  <2> TAKE i \in fresh
  <2>1. PICK t \in commits : t = by[i] /\ txn[t].image = i BY <1>1
  <2>2. CommitBacked(t) BY DEF FilesBacked
  <2>3. recFile[i] # None /\ fileBytes[i] = recFile[i].size /\ fileBytes[i] \in Nat BY <1>3
  <2>4. granted[t] = Size(txn[t].rec) BY <1>4
  <2> HIDE DEF by
  <2> QED BY <2>1, <2>2, <2>3, <2>4 DEF CommitBacked, AtMost
<1>6. \A i, j \in fresh : by[i] = by[j] => i = j
  <2> HIDE DEF by, fresh
  <2> QED BY <1>1
<1>7. \A i \in Cached : entryBytes[i] \in Nat
    BY DEF entryBytes, IndInv, TablesOK, Entry
<1>8. rest \subseteq Cached /\ \A i \in rest : fileBytes[i] \in Nat /\ fileBytes[i] <= entryBytes[i]
  <2>1. ASSUME NEW i \in rest
        PROVE  i \in Cached /\ fileBytes[i] \in Nat /\ fileBytes[i] <= entryBytes[i]
    <3>1. EntryBacked(i) /\ recFile[i] # None BY <1>3 DEF FilesBacked
    <3>2. i \in Cached /\ recFile[i].size <= images[i].bytes BY <3>1 DEF EntryBacked
    <3> QED BY <1>3, <3>2 DEF entryBytes
  <2> QED BY <2>1
<1>9. SumOver(fileBytes, fresh) <= SumOver(granted, commits)
  <2> HIDE DEF by, fresh, commits
  <2> QED BY <1>2, <1>4, <1>5, <1>6, SumCarried
<1>10. SumOver(fileBytes, rest) <= SumOver(entryBytes, Cached)
  <2> HIDE DEF rest, Cached
  <2> QED BY <1>2, <1>7, <1>8, SumPart
<1>11. SumOver(fileBytes, rest) = SumOver(fileBytes, UsableImages) - SumOver(fileBytes, fresh)
  <2>1. fresh \in SUBSET UsableImages /\ \A i \in UsableImages : fileBytes[i] \in Int BY <1>3
  <2> HIDE DEF fresh
  <2> QED BY <1>2, <2>1, SumWithout
<1>12. /\ SumOver(fileBytes, UsableImages) \in Nat /\ SumOver(fileBytes, fresh) \in Nat
       /\ SumOver(entryBytes, Cached) \in Nat /\ SumOver(granted, commits) \in Nat
  <2>1. \A i \in fresh : fileBytes[i] \in Nat BY <1>3
  <2> HIDE DEF fresh, commits, Cached
  <2> QED BY <1>2, <1>3, <1>4, <1>7, <2>1, SumTyped
<1> HIDE DEF fresh, rest
<1>13. SumOver(fileBytes, UsableImages) <= SumOver(entryBytes, Cached) + SumOver(granted, commits)
    BY <1>9, <1>10, <1>11, <1>12
<1> QED BY <1>13 DEF commits

\* So what a crash leaves fits where the accounting did.
LEMMA BackedFits ==
    ASSUME IndInv, LedgerExact, LayersBacked, FilesBacked, CapHeld
    PROVE  SweptBytes(UsableImages) <= MaxBytes
<1> DEFINE puts == {t \in Txn : txn[t].pc = "putInstall"}
           commits == {t \in Txn : txn[t].pc = "recInstall"}
           both == puts \cup commits
<1>1. SumOver(LayerSize, CompleteLayers) <= SumOver(LayerSize, layers) + SumOver(granted, puts)
    BY DirectoriesCharged
<1>2. SumOver(fileBytes, UsableImages) <= SumOver(entryBytes, Cached) + SumOver(granted, commits)
    BY RecordsCharged
<1>3. /\ IsFiniteSet(Txn) /\ IsFiniteSet(puts) /\ IsFiniteSet(commits)
      /\ puts \cap commits = {} /\ both \in SUBSET Txn
    BY FiniteAssumption, FS_Subset
<1>4. \A t \in Txn : granted[t] \in Nat
  <2> TAKE t \in Txn
  <2>1. Size(txn[t].rec) \in Nat BY SizeIsNat DEF IndInv, TablesOK, Transaction
  <2>2. txn[t].pc \in PutPc => LayerSize[txn[t].layer] \in Nat
      BY SizeAssumption DEF IndInv, TxnsHoldLayers
  <2> QED BY <2>1, <2>2 DEF granted, Granted, PutPc
<1>5. SumOver(granted, both) = SumOver(granted, puts) + SumOver(granted, commits)
  <2>1. \A t \in both : granted[t] \in Int BY <1>4
  <2> HIDE DEF puts, commits
  <2> QED BY <1>3, <2>1, SumUnion
<1>6. SumOver(granted, both) <= SumOver(granted, Txn)
  <2>1. \A t \in both : granted[t] \in Nat /\ granted[t] <= granted[t] BY <1>4
  <2> HIDE DEF both
  <2> QED BY <1>3, <1>4, <2>1, SumPart
<1>7. \A t \in puts \cup commits : granted[t] \in Nat BY <1>4
<1> HIDE DEF puts, commits
<1>8. SumOver(granted, puts) \in Nat /\ SumOver(granted, commits) \in Nat
    BY <1>3, <1>7, SumTyped
<1>9. /\ IsFiniteSet(CompleteLayers) /\ \A l \in CompleteLayers : LayerSize[l] \in Int
      /\ IsFiniteSet(UsableImages) /\ \A i \in UsableImages : fileBytes[i] \in Int
    BY FiniteAssumption, FS_Subset, SizeAssumption
       DEF CompleteLayers, UsableImages, Usable, fileBytes, IndInv, TablesOK, File
<1>10. SumOver(LayerSize, CompleteLayers) \in Int /\ SumOver(fileBytes, UsableImages) \in Int
    BY <1>9, SumTyped
<1>11. SumsAreNumbers BY SumsTyped
<1>12. MaxBytes \in Nat BY SizeAssumption
<1> HIDE DEF both
<1>13. SumOver(LayerSize, CompleteLayers) + SumOver(fileBytes, UsableImages) <= Ledger
    BY <1>1, <1>2, <1>5, <1>6, <1>8, <1>10, <1>11 DEF SumsAreNumbers, Ledger
<1>14. Ledger <= MaxBytes BY DEF LedgerExact, CapHeld
<1>15. Ledger \in Int BY <1>11 DEF SumsAreNumbers, Ledger
<1> QED BY <1>10, <1>12, <1>13, <1>14, <1>15, SweptSum

\* Every step keeps the disk charged or, with the process gone, within the cap;
\* and the accounting within the cap, too.
LEMMA NextDisk ==
    IoFaults = FALSE /\ IndInv /\ IndInv' /\ LedgerExact /\ StagedAlone /\ RecordsApart
        /\ RewritesTimely /\ RenamesFit /\ DiskBacked /\ CapHeld /\ [Next]_vars
        => DiskBacked' /\ CapHeld'
<1> SUFFICES ASSUME IoFaults = FALSE, IndInv, IndInv', LedgerExact, StagedAlone, RecordsApart,
                    RewritesTimely, RenamesFit, DiskBacked, CapHeld, [Next]_vars
             PROVE  DiskBacked' /\ CapHeld'
    OBVIOUS
<1>1. up' => (LayersBacked /\ FilesBacked)'
    BY NextLayersBacked, NextFilesBacked DEF DiskBacked
<1>2. CASE up
  <2>1. RewritesFit BY <1>2 DEF DiskBacked, FilesBacked, RewriteBacked, RewritesFit
  <2>2. CapHeld' BY <1>2, <2>1, NextCap
  <2>3. CASE ~up'
    <3>1. UNCHANGED <<layerDir, recFile>>
      <4>1. Crash BY <1>2, <2>3, StepsRun DEF Next, Tick, Open, vars, memory
      <4> QED BY <4>1 DEF Crash
    <3>2. SweptBytes(UsableImages)' = SweptBytes(UsableImages)
        BY <3>1, SameDisk
    <3>3. SweptBytes(UsableImages) <= MaxBytes BY <1>2, BackedFits DEF DiskBacked
    <3> QED BY <2>2, <2>3, <3>2, <3>3 DEF DiskBacked
  <2>4. CASE up' BY <1>1, <2>2, <2>4 DEF DiskBacked
  <2> QED BY <2>3, <2>4
<1>3. CASE ~up
  <2>1. CASE Open
    <3>1. accounted' = SweptBytes(UsableImages) /\ up' BY <2>1 DEF Open, UsableImages
    <3> QED BY <1>1, <1>3, <3>1 DEF DiskBacked, CapHeld
  <2>2. CASE ~Open
    <3>1. UNCHANGED <<up, accounted, layerDir, recFile>>
        BY <1>3, <2>2, StepsRun DEF Next, Tick, Crash, vars, memory
    <3>2. SweptBytes(UsableImages)' = SweptBytes(UsableImages)
        BY <3>1, SameDisk
    <3> QED BY <1>3, <3>1, <3>2 DEF DiskBacked, CapHeld
  <2> QED BY <2>1, <2>2
<1> QED BY <1>2, <1>3

\* The cap holds across any number of crashes and restarts, without failing
\* renames and but for three interleavings the code leaves open: two writings of
\* one record that overlap, a rewrite renamed after its image was evicted, and a
\* rewrite that grows its record.  What a crash leaves on disk was charged.
THEOREM CapSurvivesRestarts ==
    ASSUME IoFaults = FALSE
    PROVE  Spec /\ []RecordsApart /\ []RewritesTimely /\ []RenamesFit => []CapHeld
<1>1. Init => WholeInv /\ DiskBacked /\ CapHeld
  <2> SUFFICES ASSUME Init PROVE WholeInv /\ DiskBacked /\ CapHeld OBVIOUS
  <2>1. WholeInv BY DEF Init, WholeInv, RecordFilesWhole, StagedAlone, IdleWriter
  <2>2. LayersBacked BY DEF Init, LayersBacked, CompleteLayers
  <2>3. FilesBacked
      BY DEF Init, FilesBacked, EntryBacked, CommitBacked, RewriteBacked, IdleTxn, IdleWriter
  <2>4. CapHeld BY SizeAssumption DEF Init, CapHeld
  <2> QED BY <2>1, <2>2, <2>3, <2>4 DEF Init, DiskBacked
<1>2. IndInv /\ IndInv' /\ LedgerExact /\ RecordsApart /\ RewritesTimely /\ RenamesFit
        /\ WholeInv /\ DiskBacked /\ CapHeld /\ [Next]_vars
        => WholeInv' /\ DiskBacked' /\ CapHeld'
    BY NextWhole, NextDisk DEF RecordsApart, WholeInv
<1>3. AccountingExact <=> LedgerExact BY LedgerForm
<1> QED BY <1>1, <1>2, <1>3, AccountsBalance, Inductive, PTL DEF Spec

-------------------------------------------------------------------------------
(* Why the calls return: some call can always go on, and each step of a call  *)
(* brings it nearer its end, which no step of another puts off.               *)

\* t is inside PutLayer or Commit.
InACall(t) == txn[t].pc \in PutPc \cup RecPc

\* The mutex is held only across evictions of a reservation, and the image the
\* loop is at is there only meanwhile.
HolderReserves ==
    /\ mu # None => Reserving(mu)
    /\ victim # None => mu # None

\* t waits for nobody: the guard of one of its steps inside the call holds.
Ready(t) ==
    \/ Reserving(t) /\ mu = None /\ ~FitsAlone(t)
    \/ InLoop(t) /\ (Fits(t) \/ NothingEvictable \/ \E i \in Image : IsLRU(i))
    \/ up /\ mu = t /\ victim # None
    \/ up /\ txn[t].pc \in {"putIndex", "putDoc", "recRename"}
    \/ MuFree /\ txn[t].pc \in {"putInstall", "recInstall"}

\* No call is stuck: it can go on, or the one that holds the mutex can.
CallsNeverStick ==
    up => \A t \in Txn : InACall(t) => Ready(t) \/ (mu # None /\ InACall(mu) /\ Ready(mu))

\* The points a call has before it.
CallRank(t) ==
    CASE txn[t].pc = "putReserve" -> 4
      [] txn[t].pc \in {"putIndex", "recReserve"} -> 3
      [] txn[t].pc \in {"putDoc", "recRename"} -> 2
      [] txn[t].pc \in {"putInstall", "recInstall"} -> 1
      [] OTHER -> 0

\* What the eviction loop can still do: take an image, and drop its layers.
LoopLeft == 2 * Cardinality(Cached) + (IF victim = None THEN 0 ELSE 1)

\* A step brings t's call nearer its end: to a later point, or into the loop, or
\* through one half of an eviction.
Nearer(t) ==
    \/ CallRank(t)' < CallRank(t)
    \/ CallRank(t)' = CallRank(t) /\ mu # t /\ mu' = t
    \/ CallRank(t)' = CallRank(t) /\ mu = t /\ mu' = t /\ LoopLeft' < LoopLeft

\* It leaves t's call where it is.
AsNear(t) ==
    CallRank(t)' = CallRank(t) /\ (mu = t => mu' = t /\ LoopLeft' = LoopLeft)

\* Every step t takes inside a call brings it nearer its end, and no other
\* step takes it farther away.
CallsAdvance ==
    [][\A t \in Txn : InACall(t) => /\ Nearer(t) \/ AsNear(t)
                                    /\ InCall(t) => Nearer(t)]_vars

\* Of the images eviction may take, one was used longest ago.
LEMMA OldestExists ==
    ASSUME IndInv, Evictable # {}
    PROVE  \E i \in Image : IsLRU(i)
<1> DEFINE used == {images[i].rec.used : i \in Evictable}
<1>1. \A i \in Evictable : images[i] \in Entry /\ i \in Nat /\ images[i].rec.used \in Nat
    BY ImageAssumption DEF IndInv, TablesOK, Entry, Record
<1>2. PICK u \in used : \A v \in used : u <= v
  <2>1. used \in SUBSET Nat /\ used # {} BY <1>1
  <2> HIDE DEF used
  <2> QED BY <2>1, LeastNat
<1> DEFINE oldest == {i \in Evictable : images[i].rec.used = u}
<1>3. PICK i \in oldest : \A j \in oldest : i <= j
  <2>1. oldest \in SUBSET Nat /\ oldest # {} BY <1>1
  <2> HIDE DEF oldest
  <2> QED BY <2>1, LeastNat
<1>4. ASSUME NEW j \in Evictable \ {i} PROVE Older(i, j)
  <2>1. u <= images[j].rec.used /\ images[i].rec.used = u BY <1>2
  <2>2. CASE images[j].rec.used = u
    <3>1. j \in oldest BY <2>2
    <3>2. i <= j /\ i # j /\ i \in Nat /\ j \in Nat BY <1>1, <1>3, <3>1
    <3> QED BY <2>1, <2>2, <3>2 DEF Older
  <2>3. CASE images[j].rec.used # u
    <3>1. u \in Nat /\ images[j].rec.used \in Nat BY <1>1, <2>1
    <3> QED BY <2>1, <2>3, <3>1 DEF Older
  <2> QED BY <2>2, <2>3
<1> QED BY <1>4 DEF IsLRU

\* A step inside a call of another leaves the holder where it reserves.
LEMMA NextHolder ==
    IndInv /\ HolderReserves /\ [Next]_vars => HolderReserves'
<1> SUFFICES ASSUME IndInv, HolderReserves, [Next]_vars PROVE HolderReserves' OBVIOUS
<1>n. None \notin Txn BY NoneAssumption
<1>1. ASSUME NEW t \in Txn, TxnStep(t) PROVE HolderReserves'
  <2>1. CASE EvictRecord(t)
      BY <1>n, <2>1 DEF EvictRecord, InLoop, Reserving, HolderReserves
  <2>2. CASE DropLayers(t)
      BY <1>n, <2>2 DEF DropLayers, Reserving, HolderReserves
  <2>3. CASE ReserveGrant(t) \/ ReserveExhausted(t)
      BY <1>n, <2>3 DEF ReserveGrant, ReserveExhausted, InLoop, HolderReserves
  <2>4. CASE RenameIndex(t) \/ RenameDoc(t) \/ RenameRecord(t) \/
             (\E pin \in BOOLEAN, refs \in SUBSET Ref : CommitStart(t, pin, refs))
    <3>1. mu # t /\ UNCHANGED <<up, mu, victim>> /\ \A u \in Txn \ {t} : txn'[u] = txn[u]
        BY <1>n, <2>4 DEF RenameIndex, RenameDoc, RenameRecord, CommitStart, Goto, IndInv, TablesOK,
           HolderReserves, Reserving
    <3> QED BY <3>1 DEF HolderReserves, Reserving, IndInv, TablesOK
  <2>5. CASE mu = None /\ UNCHANGED <<mu, victim>>
      BY <2>5 DEF HolderReserves
  <2> QED BY <1>1, <2>1, <2>2, <2>3, <2>4, <2>5
       DEF TxnStep, InCall, Begin, UseLayer, PutLayer, ReserveRefuse, InstallLayer, InstallRecord,
           PutFails, RecordFails, Finish
<1>2. ASSUME NEW w \in Writer, WriterStep(w) PROVE HolderReserves'
  <2>1. UNCHANGED <<up, mu, victim, txn>>
      BY <1>2 DEF WriterStep, Rewriting, Touch, UpgradeProvenance, StartRewrite, OpenTmp, WriteTmp,
         RenameTmp, RewriteFails, AccountRewrite
  <2> QED BY <2>1 DEF HolderReserves, Reserving
<1>3. CASE Tick \/ UNCHANGED vars
    BY <1>3 DEF Tick, vars, memory, HolderReserves, Reserving
<1>4. CASE Crash BY <1>4 DEF Crash, HolderReserves
<1>5. CASE Open BY <1>5 DEF Open, HolderReserves, Reserving
<1> QED BY <1>1, <1>2, <1>3, <1>4, <1>5 DEF Next

\* In every reachable state the holder of the mutex reserves.
LEMMA HolderAlways == Spec => []HolderReserves
<1>1. Init => HolderReserves BY DEF Init, HolderReserves
<1> QED BY <1>1, NextHolder, Inductive, PTL DEF Spec

\* A reservation waits only for the mutex.
LEMMA ReservationReady ==
    ASSUME IndInv, HolderReserves, NEW t \in Txn, Reserving(t), mu \in {None, t}
    PROVE  Ready(t)
<1>1. CASE mu = t /\ victim # None BY <1>1 DEF Ready, Reserving
<1>2. CASE mu = None /\ ~FitsAlone(t) BY <1>2 DEF Ready
<1>3. CASE (mu = t /\ victim = None) \/ (mu = None /\ FitsAlone(t))
  <2>1. InLoop(t) BY <1>3 DEF InLoop
  <2>2. NothingEvictable \/ \E i \in Image : IsLRU(i)
      BY OldestExists DEF NothingEvictable
  <2> QED BY <2>1, <2>2 DEF Ready
<1> QED BY <1>1, <1>2, <1>3

\* No call of PutLayer or Commit is ever stuck: it can go on, or the reservation
\* that holds Store.mu can.  The digest lock is never waited for inside a call,
\* and an eviction loop that is short of bytes finds an image to take or ends.
THEOREM CallsAreNeverStuck == Spec => []CallsNeverStick
<1>1. IndInv /\ HolderReserves => CallsNeverStick
  <2> SUFFICES ASSUME IndInv, HolderReserves, up, NEW t \in Txn, InACall(t)
               PROVE  Ready(t) \/ (mu # None /\ InACall(mu) /\ Ready(mu))
      BY DEF CallsNeverStick
  <2>1. CASE mu # None
    <3>1. mu \in Txn /\ Reserving(mu) BY <2>1 DEF IndInv, TablesOK, HolderReserves
    <3>2. Ready(mu) BY <3>1, ReservationReady
    <3> QED BY <2>1, <3>1, <3>2 DEF InACall, Reserving, PutPc, RecPc
  <2>2. CASE mu = None
    <3>1. CASE Reserving(t) BY <2>2, <3>1, ReservationReady
    <3>2. CASE ~Reserving(t) BY <2>2, <3>2 DEF Ready, InACall, Reserving, PutPc, RecPc
    <3> QED BY <3>1, <3>2
  <2> QED BY <2>1, <2>2
<1> QED BY <1>1, HolderAlways, Inductive, PTL

\* The loop has finitely many halves of an eviction before it.
LEMMA LoopLeftIsNat == ASSUME IndInv PROVE LoopLeft \in Nat
<1>1. IsFiniteSet(Cached) BY FiniteAssumption, FS_Subset
<1> QED BY <1>1, FS_CardinalityType DEF LoopLeft

\* An eviction is two halves, and each is one less before the loop.
LEMMA HalvesCount ==
    ASSUME IndInv, NEW t \in Txn, EvictRecord(t) \/ DropLayers(t), mu = t
    PROVE  LoopLeft' < LoopLeft
<1>1. IsFiniteSet(Cached) BY FiniteAssumption, FS_Subset
<1>2. Cardinality(Cached) \in Nat BY <1>1, FS_CardinalityType
<1>3. CASE EvictRecord(t)
  <2>1. PICK i \in Image : i \in Cached /\ images' = [images EXCEPT ![i] = None] /\ victim' = i
      BY <1>3 DEF EvictRecord, IsLRU
  <2>2. Cached' = Cached \ {i} BY <2>1 DEF IndInv, TablesOK
  <2>3. Cardinality(Cached') = Cardinality(Cached) - 1
      BY <1>1, <2>1, <2>2, FS_RemoveElement
  <2>4. victim = None
      BY <1>3, NoneAssumption DEF EvictRecord, InLoop
  <2>5. victim' # None BY <2>1, NoneIsNothing
  <2> DEFINE c == Cardinality(Cached)
             d == Cardinality(Cached')
  <2>6. c \in Nat /\ d = c - 1 BY <1>2, <2>3
  <2>7. LoopLeft = 2 * c /\ LoopLeft' = 2 * d + 1 BY <2>4, <2>5, <2>6 DEF LoopLeft
  <2> HIDE DEF c, d
  <2> QED BY <2>6, <2>7
<1>4. CASE DropLayers(t)
  <2>1. images' = images /\ victim # None /\ victim' = None BY <1>4 DEF DropLayers
  <2> DEFINE c == Cardinality(Cached)
  <2>2. c \in Nat BY <1>2
  <2>3. LoopLeft = 2 * c + 1 BY <2>1 DEF LoopLeft
  <2>4. LoopLeft' = 2 * c BY <2>1, <2>2 DEF LoopLeft
  <2> HIDE DEF c
  <2> QED BY <2>2, <2>3, <2>4
<1> QED BY <1>3, <1>4

\* A step inside a call brings it nearer its end.
LEMMA OwnStepNearer ==
    ASSUME IndInv, HolderReserves, NEW t \in Txn, InCall(t)
    PROVE  Nearer(t)
<1>1. CASE EvictRecord(t)
  <2>1. CallRank(t)' = CallRank(t) /\ mu' = t BY <1>1 DEF EvictRecord, CallRank
  <2>2. CASE mu = t BY <1>1, <2>1, <2>2, HalvesCount DEF Nearer
  <2>3. CASE mu # t BY <2>1, <2>3 DEF Nearer
  <2> QED BY <2>2, <2>3
<1>2. CASE DropLayers(t)
  <2>1. CallRank(t)' = CallRank(t) /\ mu = t /\ mu' = t BY <1>2 DEF DropLayers, CallRank
  <2> QED BY <1>2, <2>1, HalvesCount DEF Nearer
<1>3. CASE ReserveRefuse(t) \/ ReserveGrant(t) \/ ReserveExhausted(t)
  <2>1. txn[t].pc \in {"putReserve", "recReserve"}
      BY <1>3 DEF ReserveRefuse, ReserveGrant, ReserveExhausted, InLoop, Reserving
  <2>2. \/ txn'[t].pc = "failed"
        \/ txn[t].pc = "putReserve" /\ txn'[t].pc = "putIndex"
        \/ txn[t].pc = "recReserve" /\ txn'[t].pc = "recRename"
      BY <1>3, <2>1 DEF ReserveRefuse, ReserveGrant, ReserveExhausted, Goto, IndInv, TablesOK,
         Transaction
  <2> QED BY <2>1, <2>2 DEF Nearer, CallRank
<1>4. CASE RenameIndex(t) \/ RenameDoc(t) \/ RenameRecord(t)
  <2>1. \/ txn[t].pc = "putIndex" /\ txn'[t].pc = "putDoc"
        \/ txn[t].pc = "putDoc" /\ txn'[t].pc = "putInstall"
        \/ txn[t].pc = "recRename" /\ txn'[t].pc = "recInstall"
      BY <1>4 DEF RenameIndex, RenameDoc, RenameRecord, Goto, IndInv, TablesOK, Transaction
  <2> QED BY <2>1 DEF Nearer, CallRank
<1>5. CASE InstallLayer(t) \/ InstallRecord(t)
  <2>1. /\ txn[t].pc \in {"putInstall", "recInstall"}
        /\ txn'[t].pc \in {"open", "committed"}
      BY <1>5 DEF InstallLayer, InstallRecord, Goto, IndInv, TablesOK, Transaction
  <2> QED BY <2>1 DEF Nearer, CallRank
<1>6. CASE PutFails(t) \/ RecordFails(t)
  <2>1. /\ txn[t].pc \in {"putIndex", "putDoc", "putInstall", "recRename", "recInstall"}
        /\ txn'[t].pc = "failed"
      BY <1>6 DEF PutFails, RecordFails, Release, IndInv, TablesOK, Transaction
  <2> QED BY <2>1 DEF Nearer, CallRank
<1> QED BY <1>1, <1>2, <1>3, <1>4, <1>5, <1>6 DEF InCall

\* A step outside t's call leaves its point alone and, while t holds the
\* mutex, the images and the victim, too.
LEMMA OtherStepsElsewhere ==
    ASSUME IndInv, HolderReserves, NEW t \in Txn, InACall(t), [Next]_vars, ~InCall(t), ~Crash
    PROVE  txn'[t] = txn[t] /\ (mu = t => UNCHANGED <<mu, victim, images>>)
<1>n. t # None BY NoneAssumption
<1>1. ASSUME NEW u \in Txn, TxnStep(u)
      PROVE  txn'[t] = txn[t] /\ (mu = t => UNCHANGED <<mu, victim, images>>)
  <2>1. CASE u = t
      BY <1>1, <2>1 DEF TxnStep, InACall, Begin, UseLayer, PutLayer, CommitStart, Finish, PutPc, RecPc
  <2>2. CASE u # t
    <3>1. txn'[t] = txn[t]
        BY <1>1, <2>2 DEF TxnStep, Begin, UseLayer, PutLayer, CommitStart, Finish, Goto, Release,
           InCall, ReserveRefuse, EvictRecord, DropLayers, ReserveGrant, ReserveExhausted,
           RenameIndex, RenameDoc, InstallLayer, RenameRecord, InstallRecord, PutFails, RecordFails,
           IndInv, TablesOK
    <3>2. mu = t => UNCHANGED <<mu, victim, images>>
        BY <1>n, <1>1, <2>2 DEF TxnStep, Begin, UseLayer, PutLayer, CommitStart, Finish, InLoop,
           InCall, ReserveRefuse, EvictRecord, DropLayers, ReserveGrant, ReserveExhausted,
           RenameIndex, RenameDoc, InstallLayer, RenameRecord, InstallRecord, PutFails, RecordFails
    <3> QED BY <3>1, <3>2
  <2> QED BY <2>1, <2>2
<1>2. ASSUME NEW w \in Writer, WriterStep(w)
      PROVE  txn'[t] = txn[t] /\ (mu = t => UNCHANGED <<mu, victim, images>>)
    BY <1>n, <1>2 DEF WriterStep, Rewriting, Touch, UpgradeProvenance, StartRewrite, OpenTmp, WriteTmp,
       RenameTmp, RewriteFails, AccountRewrite
<1>3. CASE Tick \/ UNCHANGED vars BY <1>3 DEF Tick, vars, memory
<1>4. ~Open BY DEF Open, IndInv, DownIsEmpty, InACall, IdleTxn, PutPc, RecPc
<1> QED BY <1>1, <1>2, <1>3, <1>4 DEF Next

\* Each step inside a call of PutLayer or Commit brings it nearer its end, in the
\* order of its points and, while it holds Store.mu, of what its eviction loop
\* has left; no other step puts the end off.  So a call takes finitely many
\* steps of its own, and waits only where CallsAreNeverStuck says.
THEOREM CallsAlwaysAdvance == Spec => CallsAdvance
<1>1. IndInv /\ HolderReserves /\ [Next]_vars =>
        [\A t \in Txn : InACall(t) => /\ Nearer(t) \/ AsNear(t)
                                      /\ InCall(t) => Nearer(t)]_vars
  <2> SUFFICES ASSUME IndInv, HolderReserves, [Next]_vars, NEW t \in Txn, InACall(t), ~InCall(t)
               PROVE  Nearer(t) \/ AsNear(t)
      BY OwnStepNearer
  <2>1. CASE Crash
    <3>1. CallRank(t) \in Nat \ {0} BY DEF InACall, CallRank, PutPc, RecPc
    <3>2. txn'[t].pc = "idle" BY <2>1 DEF Crash, IdleTxn
    <3>3. CallRank(t)' = 0 BY <3>2 DEF CallRank
    <3> QED BY <3>1, <3>3 DEF Nearer
  <2>2. CASE ~Crash
    <3>1. txn'[t] = txn[t] /\ (mu = t => UNCHANGED <<mu, victim, images>>)
        BY <2>2, OtherStepsElsewhere
    <3>2. CallRank(t)' = CallRank(t) BY <3>1 DEF CallRank
    <3>3. mu = t => LoopLeft' = LoopLeft BY <3>1 DEF LoopLeft
    <3> QED BY <3>1, <3>2, <3>3 DEF AsNear
  <2> QED BY <2>1, <2>2
<1> QED BY <1>1, HolderAlways, Inductive, PTL DEF Spec, CallsAdvance

-------------------------------------------------------------------------------
(* What eviction is for.                                                     *)

\* At the head of the eviction loop no victim has layers left to drop, so a
\* request that does not fit finds the bytes really there too many.
LEMMA LoopIsShort ==
    ASSUME IndInv, LedgerExact, HolderReserves, NEW t \in Txn, InLoop(t), ~Fits(t)
    PROVE  ShortOfRoom(t)
<1>1. Reserving(t) /\ victim = None BY DEF InLoop, HolderReserves
<1>2. LeftByVictim = {} BY <1>1 DEF LeftByVictim
<1>3. LayerBytes(LeftByVictim) = 0 BY <1>2, LayerSum, SumEmpty
<1>4. accounted = Held BY LedgerForm DEF AccountingExact
<1>5. accounted \in Int BY SumsTyped DEF LedgerExact, Ledger, SumsAreNumbers
<1>6. Need(t) \in Nat BY <1>1, NeedIsNat DEF IndInv
<1>7. ~(accounted + Need(t) <= MaxBytes) BY DEF Fits
<1> HIDE DEF Held, Need
<1> QED BY <1>1, <1>3, <1>4, <1>5, <1>6, <1>7, SizeAssumption DEF ShortOfRoom

\* A request that passed the first test is turned away by the loop alone.
LEMMA ExhaustedByLoop ==
    ASSUME IndInv, HolderReserves, [Next]_vars, NEW t \in Txn, Exhausted(t)
    PROVE  ReserveExhausted(t)
<1>1. /\ txn[t].pc \in {"putReserve", "recReserve"} /\ txn'[t].pc = "failed"
      /\ FitsAlone(t) /\ InACall(t)
    BY DEF Exhausted, InACall, PutPc, RecPc
<1>2. ~Crash BY <1>1 DEF Crash, IdleTxn
<1>3. InCall(t) BY <1>1, <1>2, OtherStepsElsewhere
<1>4. ~ReserveGrant(t) /\ ~EvictRecord(t) /\ ~DropLayers(t)
    BY <1>1 DEF ReserveGrant, EvictRecord, DropLayers, IndInv, TablesOK, Transaction
<1> QED BY <1>1, <1>3, <1>4 DEF InCall, ReserveRefuse, RenameIndex, RenameDoc, InstallLayer,
         RenameRecord, InstallRecord, PutFails, RecordFails

\* An image is evicted, and a request that could fit is turned away, only when
\* the bytes the tables and the grants really hold leave too little room: no
\* interleaving of ingests, rewrites, failures and restarts makes the counter
\* that reserve looks at ask for one image more.
THEOREM EvictionsMakeRoom == Spec => EvictsOnlyForRoom
<1>1. IndInv /\ IndInv' /\ LedgerExact /\ HolderReserves /\ [Next]_vars =>
        [/\ \A i \in Cached : images'[i] = None /\ up' => \E t \in Txn : ShortOfRoom(t)
         /\ \A t \in Txn : Exhausted(t) => ShortOfRoom(t)]_vars
  <2> SUFFICES ASSUME IndInv, IndInv', LedgerExact, HolderReserves, [Next]_vars
               PROVE  /\ \A i \in Cached : images'[i] = None /\ up' => \E t \in Txn : ShortOfRoom(t)
                      /\ \A t \in Txn : Exhausted(t) => ShortOfRoom(t)
      OBVIOUS
  <2>1. ASSUME NEW i \in Cached, images'[i] = None, up' PROVE \E t \in Txn : ShortOfRoom(t)
    <3>1. PICK t \in Txn : EvictRecord(t) BY <2>1, OnlyEvictionRemoves
    <3> QED BY <3>1, LoopIsShort DEF EvictRecord
  <2>2. ASSUME NEW t \in Txn, Exhausted(t) PROVE ShortOfRoom(t)
    <3>1. ReserveExhausted(t) BY <2>2, ExhaustedByLoop
    <3> QED BY <3>1, LoopIsShort DEF ReserveExhausted
  <2> QED BY <2>1, <2>2
<1>2. AccountingExact <=> LedgerExact BY LedgerForm
<1> QED BY <1>1, <1>2, AccountsBalance, HolderAlways, Inductive, PTL DEF Spec, EvictsOnlyForRoom
===============================================================================
