--------------------------- MODULE PullManagerProofs ---------------------------
(***************************************************************************)
(* Proofs about PullManager for every value of its constants: IndInv is    *)
(* inductive, hence slots are neither leaked nor given twice, a live pull  *)
(* can always be polled and cancelled, and identical submissions of an     *)
(* uncached reference share one live pull.  On top of it: the table keeps  *)
(* to its cap, an outcome is final and a run is cancelled on request only; *)
(* and, with ProgressInv, what a finished pull shows of its layers and why *)
(* a run takes finitely many steps.                                        *)
(***************************************************************************)
EXTENDS PullManager, FiniteSums

USE DEF Known, Terminal, Launched

-------------------------------------------------------------------------------
(* What the helpers of the table do.                                         *)

\* The goroutines with a slot are finitely many.
LEMMA RunningFinite == IsFiniteSet(Running) /\ Cardinality(Running) \in Nat
<1>1. IsFiniteSet(Running)
  <2>1. Running \subseteq Id BY DEF Running
  <2> QED BY <2>1, IdAssumption, FS_Subset
<1> QED BY <1>1, FS_CardinalityType

\* evictLocked drops terminal pulls only, and their keys with them.
LEMMA Trimmed ==
    ASSUME NEW T \in SUBSET Id, NEW keys \in [Key -> Id \cup {None}], Trim(T, keys)
    PROVE  /\ table' \in SUBSET Id /\ table' \subseteq T
           /\ T \ table' \subseteq Terminal
           /\ byKey' \in [Key -> Id \cup {None}]
           /\ \A k \in Key : keys[k] \notin Terminal => byKey'[k] = keys[k]
           /\ \A k \in Key : byKey'[k] # None => byKey'[k] = keys[k]
           /\ \A k \in Key : byKey'[k] # None /\ keys[k] \in T => byKey'[k] \in table'
<1> DEFINE O == Oldest(T)
<1>1. O \subseteq T \cap Terminal BY DEF Oldest
<1>2. /\ table' = T \ O
      /\ byKey' = [k \in Key |-> IF keys[k] \in O THEN None ELSE keys[k]]
    BY DEF Trim
<1> HIDE DEF O
<1> QED BY <1>1, <1>2

-------------------------------------------------------------------------------
(* Steps of a run.                                                           *)

\* A run that reports, and neither ends nor starts, keeps the invariant.
LEMMA RunMoves ==
    ASSUME IndInv, NEW i \in Id, i \in Running,
           run' \in [Id -> Run], \A j \in Id \ {i} : run'[j] = run[j],
           run'[i].pc \notin {"none", "exited"},
           pull' \in [Id -> Pull \cup {None}], \A j \in Id \ {i} : pull'[j] = pull[j],
           pull'[i] \in Pull, pull'[i].key = pull[i].key,
           pull[i].terminal => pull'[i].terminal,
           run'[i].pc = "release" => pull'[i].terminal,
           pull'[i].ctx = "cancelled" => pull'[i].terminal,
           cached' \in SUBSET Cacheable,
           UNCHANGED <<table, byKey, inFlight, caller>>
    PROVE  IndInv'
<1> USE DEF IndInv
<1>k. pull[i] \in Pull /\ pull[i] # None /\ pull'[i] # None
    BY NoPullAssumption DEF RunsHavePulls, Running, TypeOK
<1>n. run[i].pc # "none" BY DEF Running
<1>1. TypeOK' BY DEF TypeOK
<1>2. SlotsMatchRuns'
  <2>1. Running' = Running BY DEF Running
  <2> QED BY <2>1 DEF SlotsMatchRuns
<1>3. LivePullsListed' BY <1>k DEF LivePullsListed
<1>4. KeysPointIntoTable'
  <2> SUFFICES ASSUME NEW k \in Key, byKey[k] # None
               PROVE  byKey[k] \in table /\ pull'[byKey[k]].key = k
      BY DEF KeysPointIntoTable
  <2>1. byKey[k] \in table /\ pull[byKey[k]].key = k /\ byKey[k] \in Id
      BY DEF KeysPointIntoTable, TypeOK
  <2> QED BY <2>1
<1>5. RequestsHoldPulls' BY <1>k, <1>n DEF RequestsHoldPulls, TypeOK
<1>6. RunsHavePulls' BY <1>k DEF RunsHavePulls
<1>7. IndexCoversLive' BY <1>k, <1>n DEF IndexCoversLive
<1> QED BY <1>1, <1>2, <1>3, <1>4, <1>5, <1>6, <1>7

\* What is shared by the reports of a run that moves on: only its own pull and
\* its own control change, and the slot stays held.
LEMMA Reports ==
    ASSUME IndInv, NEW i \in Id, i \in Running,
           NEW r \in Run, r.pc \notin {"none", "release", "exited"},
           NEW p \in Pull, p.key = pull[i].key, p.terminal = pull[i].terminal,
           p.ctx = pull[i].ctx,
           run' = [run EXCEPT ![i] = r], pull' = [pull EXCEPT ![i] = p],
           cached' \in SUBSET Cacheable,
           UNCHANGED <<table, byKey, inFlight, caller>>
    PROVE  IndInv'
<1>1. run' \in [Id -> Run] /\ pull' \in [Id -> Pull \cup {None}]
    BY DEF IndInv, TypeOK
<1>2. run'[i] = r /\ pull'[i] = p
    BY DEF IndInv, TypeOK
<1>3. \A j \in Id \ {i} : run'[j] = run[j] /\ pull'[j] = pull[j]
    BY DEF IndInv, TypeOK
<1>4. p.ctx = "cancelled" => p.terminal
    BY DEF IndInv, RunsHavePulls, Running
<1> QED BY <1>1, <1>2, <1>3, <1>4, RunMoves

\* A run that holds a slot has a typed pull.
LEMMA RunTyped ==
    ASSUME IndInv, NEW i \in Id, i \in Running
    PROVE  run[i] \in Run /\ pull[i] \in Pull
BY DEF IndInv, TypeOK, RunsHavePulls, Running

\* What Failed returns to is a point of the run before its end.
LEMMA FailedStep ==
    ASSUME IndInv, NEW i \in Id, i \in Running
    PROVE  \E r \in Run : r.pc \in {"reset", "finish"} /\ Failed(i) = [run EXCEPT ![i] = r]
<1>1. run[i] \in Run BY RunTyped
<1>2. CASE run[i].path = "shortcut" /\ pull[i].ctx = "live"
  <2> DEFINE r == [run[i] EXCEPT !.pc = "reset"]
  <2>1. r \in Run /\ r.pc = "reset" BY <1>1 DEF Run, RunPc
  <2>2. Failed(i) = [run EXCEPT ![i] = r] BY <1>2 DEF Failed, IndInv, TypeOK
  <2> QED BY <2>1, <2>2
<1>3. CASE ~(run[i].path = "shortcut" /\ pull[i].ctx = "live")
  <2> DEFINE r == [run[i] EXCEPT !.pc = "finish", !.err = TRUE]
  <2>1. r \in Run /\ r.pc = "finish" BY <1>1 DEF Run, RunPc
  <2>2. Failed(i) = [run EXCEPT ![i] = r] BY <1>1, <1>3 DEF Failed, IndInv, TypeOK, Run
  <2> QED BY <2>1, <2>2
<1> QED BY <1>2, <1>3

\* Naming the stored image keeps the cache typed.
LEMMA NamedTyped ==
    ASSUME IndInv, NEW i, Named(i)
    PROVE  cached' \in SUBSET Cacheable
BY DEF Named, IndInv, TypeOK

\* The counters stay natural numbers.
LEMMA CountersTyped ==
    ASSUME NEW p \in Pull, NEW r \in Run
    PROVE  p.done + 1 \in Nat /\ p.done + LayerCount \in Nat /\ r.read + 1 \in Nat
<1>1. p.done \in Nat /\ r.read \in Nat BY DEF Pull, Run
<1> QED BY <1>1, LimitAssumption

\* LayerFinished keeps a pull typed, and all but its counter and current layer.
LEMMA FinishedTyped ==
    ASSUME NEW p \in Pull
    PROVE  /\ Finished(p) \in Pull /\ Finished(p).key = p.key
           /\ Finished(p).terminal = p.terminal /\ Finished(p).ctx = p.ctx
<1> DEFINE n == p.done + 1
<1>1. n \in Nat
  <2>1. p.done \in Nat BY DEF Pull
  <2> QED BY <2>1
<1>2. Finished(p) = [p EXCEPT !.done = n, !.current = FALSE] BY DEF Finished
<1> HIDE DEF n
<1> QED BY <1>1, <1>2 DEF Pull

\* The steps of a run that report and go on, one by one.
LEMMA FetchKnownInv ==
    ASSUME IndInv, NEW i \in Id, FetchKnown(i)
    PROVE  IndInv'
<1> DEFINE r == [run[i] EXCEPT !.pc = "setImage"]
           p == [pull[i] EXCEPT !.total = LayerCount, !.done = @ + LayerCount,
                             !.current = FALSE]
<1>1. i \in Running /\ i \in Id BY DEF FetchKnown, Running
<1>2. run[i] \in Run /\ pull[i] \in Pull BY <1>1, RunTyped
<1>3. r \in Run /\ r.pc \notin {"none", "release", "exited"} BY <1>2 DEF Run, RunPc
<1>4. /\ p \in Pull /\ p.key = pull[i].key
      /\ p.terminal = pull[i].terminal /\ p.ctx = pull[i].ctx
  <2> DEFINE n == pull[i].done + LayerCount
  <2>1. n \in Nat BY <1>2, CountersTyped
  <2>2. p = [pull[i] EXCEPT !.total = LayerCount, !.done = n, !.current = FALSE] OBVIOUS
  <2> HIDE DEF n
  <2> QED BY <1>2, <2>1, <2>2 DEF Pull
<1>5. run' = [run EXCEPT ![i] = r] /\ pull' = [pull EXCEPT ![i] = p]
    BY <1>2 DEF FetchKnown, Report, IndInv, TypeOK, Run, Pull
<1>6. cached' \in SUBSET Cacheable
    BY NamedTyped DEF FetchKnown, Report, IndInv, TypeOK
<1>7. UNCHANGED <<table, byKey, inFlight, caller>> BY DEF FetchKnown, Report
<1> HIDE DEF r, p
<1> QED BY <1>1, <1>3, <1>4, <1>5, <1>6, <1>7, Reports

\* The reports, one lemma for each.
\* The manifest gives the number of layers.
LEMMA FetchManifestInv ==
    ASSUME IndInv, NEW i \in Id, FetchManifest(i)
    PROVE  IndInv'
<1> DEFINE r == [run[i] EXCEPT !.pc = "stream"]
           p == InPhase(Totals(pull[i]), "running")
<1>1. i \in Running /\ i \in Id BY DEF FetchManifest, Running
<1>2. run[i] \in Run /\ pull[i] \in Pull BY <1>1, RunTyped
<1>3. r \in Run /\ r.pc \notin {"none", "release", "exited"} BY <1>2 DEF Run, RunPc
<1>4. /\ p \in Pull /\ p.key = pull[i].key
      /\ p.terminal = pull[i].terminal /\ p.ctx = pull[i].ctx
    BY <1>2, LimitAssumption DEF Pull, State, InPhase, Totals
<1>5. run' = [run EXCEPT ![i] = r] /\ pull' = [pull EXCEPT ![i] = p]
    BY <1>2 DEF FetchManifest, Report, IndInv, TypeOK, Run, Pull, InPhase, Totals
<1>6. cached' \in SUBSET Cacheable
    BY NamedTyped DEF FetchManifest, Report, IndInv, TypeOK
<1>7. UNCHANGED <<table, byKey, inFlight, caller>> BY DEF FetchManifest, Report
<1> HIDE DEF r, p
<1> QED BY <1>1, <1>3, <1>4, <1>5, <1>6, <1>7, Reports

\* A fallback from the shortcut forgets the counts.
LEMMA ResetInv ==
    ASSUME IndInv, NEW i \in Id, Reset(i)
    PROVE  IndInv'
<1> DEFINE r == [run[i] EXCEPT !.pc = "totals", !.path = "save", !.read = 0]
           p == ResetOf(pull[i])
<1>1. i \in Running /\ i \in Id BY DEF Reset, Running
<1>2. run[i] \in Run /\ pull[i] \in Pull BY <1>1, RunTyped
<1>3. r \in Run /\ r.pc \notin {"none", "release", "exited"} BY <1>2 DEF Run, RunPc
<1>4. /\ p \in Pull /\ p.key = pull[i].key
      /\ p.terminal = pull[i].terminal /\ p.ctx = pull[i].ctx
    BY <1>2, LimitAssumption DEF Pull, State, ResetOf
<1>5. run' = [run EXCEPT ![i] = r] /\ pull' = [pull EXCEPT ![i] = p]
    BY <1>2 DEF Reset, Report, IndInv, TypeOK, Run, Pull, ResetOf
<1>6. cached' \in SUBSET Cacheable
    BY NamedTyped DEF Reset, Report, IndInv, TypeOK
<1>7. UNCHANGED <<table, byKey, inFlight, caller>> BY DEF Reset, Report
<1> HIDE DEF r, p
<1> QED BY <1>1, <1>3, <1>4, <1>5, <1>6, <1>7, Reports

\* A save starts with the totals known.
LEMMA StartSaveInv ==
    ASSUME IndInv, NEW i \in Id, StartSave(i)
    PROVE  IndInv'
<1> DEFINE r == [run[i] EXCEPT !.pc = "stream"]
           p == InPhase(Totals(pull[i]), "running")
<1>1. i \in Running /\ i \in Id BY DEF StartSave, Running
<1>2. run[i] \in Run /\ pull[i] \in Pull BY <1>1, RunTyped
<1>3. r \in Run /\ r.pc \notin {"none", "release", "exited"} BY <1>2 DEF Run, RunPc
<1>4. /\ p \in Pull /\ p.key = pull[i].key
      /\ p.terminal = pull[i].terminal /\ p.ctx = pull[i].ctx
    BY <1>2, LimitAssumption DEF Pull, State, InPhase, Totals
<1>5. run' = [run EXCEPT ![i] = r] /\ pull' = [pull EXCEPT ![i] = p]
    BY <1>2 DEF StartSave, Report, IndInv, TypeOK, Run, Pull, InPhase, Totals
<1>6. cached' \in SUBSET Cacheable
    BY NamedTyped DEF StartSave, Report, IndInv, TypeOK
<1>7. UNCHANGED <<table, byKey, inFlight, caller>> BY DEF StartSave, Report
<1> HIDE DEF r, p
<1> QED BY <1>1, <1>3, <1>4, <1>5, <1>6, <1>7, Reports

\* A layer begins.
LEMMA StartLayerInv ==
    ASSUME IndInv, NEW i \in Id, StartLayer(i)
    PROVE  IndInv'
<1> DEFINE r == [run[i] EXCEPT !.pc = "layer", !.read = Counted(i)]
           p == LayerStarted(pull[i])
<1>1. i \in Running /\ i \in Id BY DEF StartLayer, Running, Another, Counted
<1>2. run[i] \in Run /\ pull[i] \in Pull BY <1>1, RunTyped
<1>3. r \in Run /\ r.pc \notin {"none", "release", "exited"}
  <2> DEFINE n == run[i].read + 1
  <2>1. n \in Nat BY <1>2, CountersTyped
  <2>2. r = [run[i] EXCEPT !.pc = "layer", !.read = n] BY DEF Counted
  <2>3. run[i].pc = "stream" BY DEF StartLayer, Another
  <2> HIDE DEF n
  <2> QED BY <1>2, <2>1, <2>2, <2>3 DEF Run, RunPc
<1>4. /\ p \in Pull /\ p.key = pull[i].key
      /\ p.terminal = pull[i].terminal /\ p.ctx = pull[i].ctx
    BY <1>2, LimitAssumption DEF Pull, State, LayerStarted
<1>5. run' = [run EXCEPT ![i] = r] /\ pull' = [pull EXCEPT ![i] = p]
    BY <1>2 DEF StartLayer, Report, IndInv, TypeOK, Run, Pull, Another, Counted, LayerStarted
<1>6. cached' \in SUBSET Cacheable
    BY NamedTyped DEF StartLayer, Report, IndInv, TypeOK
<1>7. UNCHANGED <<table, byKey, inFlight, caller>> BY DEF StartLayer, Report
<1> HIDE DEF r, p
<1> QED BY <1>1, <1>3, <1>4, <1>5, <1>6, <1>7, Reports

\* A layer ends.
LEMMA FinishLayerInv ==
    ASSUME IndInv, NEW i \in Id, FinishLayer(i)
    PROVE  IndInv'
<1> DEFINE r == [run[i] EXCEPT !.pc = "stream"]
           p == Finished(pull[i])
<1>1. i \in Running /\ i \in Id BY DEF FinishLayer, Running
<1>2. run[i] \in Run /\ pull[i] \in Pull BY <1>1, RunTyped
<1>3. r \in Run /\ r.pc \notin {"none", "release", "exited"} BY <1>2 DEF Run, RunPc
<1>4. /\ p \in Pull /\ p.key = pull[i].key
      /\ p.terminal = pull[i].terminal /\ p.ctx = pull[i].ctx
    BY <1>2, FinishedTyped
<1>5. run' = [run EXCEPT ![i] = r] /\ pull' = [pull EXCEPT ![i] = p]
    BY <1>2 DEF FinishLayer, Report, IndInv, TypeOK, Run, Pull, Finished
<1>6. cached' \in SUBSET Cacheable
    BY NamedTyped DEF FinishLayer, Report, IndInv, TypeOK
<1>7. UNCHANGED <<table, byKey, inFlight, caller>> BY DEF FinishLayer, Report
<1> HIDE DEF r, p
<1> QED BY <1>1, <1>3, <1>4, <1>5, <1>6, <1>7, Reports

\* A member of the save stream that is no layer changes nothing a reader sees.
LEMMA NotALayerInv ==
    ASSUME IndInv, NEW i \in Id, NotALayer(i)
    PROVE  IndInv'
<1> DEFINE r == [run[i] EXCEPT !.pc = "stream"]
           p == pull[i]
<1>1. i \in Running /\ i \in Id BY DEF NotALayer, Running
<1>2. run[i] \in Run /\ pull[i] \in Pull BY <1>1, RunTyped
<1>3. r \in Run /\ r.pc \notin {"none", "release", "exited"} BY <1>2 DEF Run, RunPc
<1>4. /\ p \in Pull /\ p.key = pull[i].key
      /\ p.terminal = pull[i].terminal /\ p.ctx = pull[i].ctx
    BY <1>2, LimitAssumption DEF Pull, State
<1>5. run' = [run EXCEPT ![i] = r] /\ pull' = [pull EXCEPT ![i] = p]
    BY <1>2 DEF NotALayer, Report, IndInv, TypeOK, Run, Pull
<1>6. cached' \in SUBSET Cacheable
    BY NamedTyped DEF NotALayer, Report, IndInv, TypeOK
<1>7. UNCHANGED <<table, byKey, inFlight, caller>> BY DEF NotALayer, Report
<1> HIDE DEF r, p
<1> QED BY <1>1, <1>3, <1>4, <1>5, <1>6, <1>7, Reports

\* A stored image counts all its layers at once.
LEMMA DrainKnownInv ==
    ASSUME IndInv, NEW i \in Id, DrainKnown(i)
    PROVE  IndInv'
<1> DEFINE r == [run[i] EXCEPT !.read = Counted(i)]
           p == Finished(pull[i])
<1>1. i \in Running /\ i \in Id BY DEF DrainKnown, Running, Another, Counted
<1>2. run[i] \in Run /\ pull[i] \in Pull BY <1>1, RunTyped
<1>3. r \in Run /\ r.pc \notin {"none", "release", "exited"}
  <2> DEFINE n == run[i].read + 1
  <2>1. n \in Nat BY <1>2, CountersTyped
  <2>2. r = [run[i] EXCEPT !.read = n] BY DEF Counted
  <2>3. run[i].pc = "stream" BY DEF DrainKnown, Another
  <2> HIDE DEF n
  <2> QED BY <1>2, <2>1, <2>2, <2>3 DEF Run, RunPc
<1>4. /\ p \in Pull /\ p.key = pull[i].key
      /\ p.terminal = pull[i].terminal /\ p.ctx = pull[i].ctx
    BY <1>2, FinishedTyped
<1>5. run' = [run EXCEPT ![i] = r] /\ pull' = [pull EXCEPT ![i] = p]
    BY <1>2 DEF DrainKnown, Report, IndInv, TypeOK, Run, Pull, Finished, Another, Counted
<1>6. cached' \in SUBSET Cacheable
    BY NamedTyped DEF DrainKnown, Report, IndInv, TypeOK
<1>7. UNCHANGED <<table, byKey, inFlight, caller>> BY DEF DrainKnown, Report
<1> HIDE DEF r, p
<1> QED BY <1>1, <1>3, <1>4, <1>5, <1>6, <1>7, Reports

\* The stream ends.
LEMMA EndStreamInv ==
    ASSUME IndInv, NEW i \in Id, EndStream(i)
    PROVE  IndInv'
<1> DEFINE r == [run[i] EXCEPT !.pc = "commit"]
           p == InPhase(pull[i], "running")
<1>1. i \in Running /\ i \in Id BY DEF EndStream, Running
<1>2. run[i] \in Run /\ pull[i] \in Pull BY <1>1, RunTyped
<1>3. r \in Run /\ r.pc \notin {"none", "release", "exited"} BY <1>2 DEF Run, RunPc
<1>4. /\ p \in Pull /\ p.key = pull[i].key
      /\ p.terminal = pull[i].terminal /\ p.ctx = pull[i].ctx
    BY <1>2, LimitAssumption DEF Pull, State, InPhase
<1>5. run' = [run EXCEPT ![i] = r] /\ pull' = [pull EXCEPT ![i] = p]
    BY <1>2 DEF EndStream, Report, IndInv, TypeOK, Run, Pull, InPhase
<1>6. cached' \in SUBSET Cacheable
    BY NamedTyped DEF EndStream, Report, IndInv, TypeOK
<1>7. UNCHANGED <<table, byKey, inFlight, caller>> BY DEF EndStream, Report
<1> HIDE DEF r, p
<1> QED BY <1>1, <1>3, <1>4, <1>5, <1>6, <1>7, Reports

\* The image id is reported last.
LEMMA SetImageInv ==
    ASSUME IndInv, NEW i \in Id, SetImage(i)
    PROVE  IndInv'
<1> DEFINE r == [run[i] EXCEPT !.pc = "finish"]
           p == [pull[i] EXCEPT !.image = TRUE]
<1>1. i \in Running /\ i \in Id BY DEF SetImage, Running
<1>2. run[i] \in Run /\ pull[i] \in Pull BY <1>1, RunTyped
<1>3. r \in Run /\ r.pc \notin {"none", "release", "exited"} BY <1>2 DEF Run, RunPc
<1>4. /\ p \in Pull /\ p.key = pull[i].key
      /\ p.terminal = pull[i].terminal /\ p.ctx = pull[i].ctx
    BY <1>2, LimitAssumption DEF Pull, State
<1>5. run' = [run EXCEPT ![i] = r] /\ pull' = [pull EXCEPT ![i] = p]
    BY <1>2 DEF SetImage, Report, IndInv, TypeOK, Run, Pull
<1>6. cached' \in SUBSET Cacheable
    BY NamedTyped DEF SetImage, Report, IndInv, TypeOK
<1>7. UNCHANGED <<table, byKey, inFlight, caller>> BY DEF SetImage, Report
<1> HIDE DEF r, p
<1> QED BY <1>1, <1>3, <1>4, <1>5, <1>6, <1>7, Reports

\* A resolved reference takes its path.
LEMMA ResolveInv ==
    ASSUME IndInv, NEW i \in Id, Resolve(i)
    PROVE  IndInv'
<1> DEFINE p == InPhase(pull[i], "resolving")
<1>1. i \in Running /\ i \in Id BY DEF Resolve, Running
<1>2. run[i] \in Run /\ pull[i] \in Pull BY <1>1, RunTyped
<1>3. /\ p \in Pull /\ p.key = pull[i].key
      /\ p.terminal = pull[i].terminal /\ p.ctx = pull[i].ctx
    BY <1>2 DEF Pull, State, InPhase
<1>4. pull' = [pull EXCEPT ![i] = p] BY DEF Resolve, IndInv, TypeOK
<1>5. PICK pc \in {"fetch", "totals"}, path \in {"registry", "shortcut", "save"} :
          run' = [run EXCEPT ![i].pc = pc, ![i].path = path]
    BY DEF Resolve, Paths
<1> DEFINE r == [run[i] EXCEPT !.pc = pc, !.path = path]
<1>6. r \in Run /\ r.pc \notin {"none", "release", "exited"} BY <1>2 DEF Run, RunPc
<1>7. run' = [run EXCEPT ![i] = r] BY <1>2, <1>5 DEF IndInv, TypeOK, Run
<1>8. cached' \in SUBSET Cacheable BY DEF Resolve, IndInv, TypeOK
<1>9. UNCHANGED <<table, byKey, inFlight, caller>> BY DEF Resolve
<1> HIDE DEF r, p
<1> QED BY <1>1, <1>3, <1>4, <1>6, <1>7, <1>8, <1>9, Reports

\* A commit may be read back or not; either way the run goes on.
LEMMA CommitInv ==
    ASSUME IndInv, NEW i \in Id, Commit(i)
    PROVE  IndInv'
<1>1. i \in Running /\ i \in Id BY DEF Commit, Running
<1>2. run[i] \in Run /\ pull[i] \in Pull BY <1>1, RunTyped
<1>3. PICK r \in Run : r.pc \notin {"none", "release", "exited"} /\ run' = [run EXCEPT ![i] = r]
  <2>1. CASE run' = Failed(i) BY <1>1, <2>1, FailedStep
  <2>2. CASE run' = [run EXCEPT ![i].pc = "setImage"]
    <3> DEFINE q == [run[i] EXCEPT !.pc = "setImage"]
    <3>1. q \in Run /\ q.pc = "setImage" BY <1>2 DEF Run, RunPc
    <3>2. run' = [run EXCEPT ![i] = q] BY <2>2 DEF IndInv, TypeOK
    <3> QED BY <3>1, <3>2
  <2> QED BY <2>1, <2>2 DEF Commit
<1>4. pull' = [pull EXCEPT ![i] = pull[i]] BY DEF Commit, IndInv, TypeOK
<1>5. cached' \in SUBSET Cacheable BY NamedTyped DEF Commit
<1>6. UNCHANGED <<table, byKey, inFlight, caller>> BY DEF Commit
<1> QED BY <1>1, <1>2, <1>3, <1>4, <1>5, <1>6, Reports

\* An error takes the run to its end.
LEMMA ErrorInv ==
    ASSUME IndInv, NEW i \in Id, Error(i)
    PROVE  IndInv'
<1>1. i \in Running /\ i \in Id BY DEF Error, Running
<1>2. pull[i] \in Pull BY <1>1, RunTyped
<1>3. PICK r \in Run : r.pc \in {"reset", "finish"} /\ run' = [run EXCEPT ![i] = r]
    BY <1>1, FailedStep DEF Error
<1>4. pull' = [pull EXCEPT ![i] = pull[i]] BY DEF Error, IndInv, TypeOK
<1>5. cached' \in SUBSET Cacheable BY DEF Error, IndInv, TypeOK
<1>6. UNCHANGED <<table, byKey, inFlight, caller>> BY DEF Error
<1> QED BY <1>1, <1>2, <1>3, <1>4, <1>5, <1>6, Reports

\* finish makes the pull a terminal one; the slot is still held.
LEMMA FinishInv ==
    ASSUME IndInv, NEW i \in Id, Finish(i)
    PROVE  IndInv'
<1> DEFINE r == [run[i] EXCEPT !.pc = "release"]
           p == Ended(i)
<1>1. i \in Running BY DEF Finish, Running
<1>2. run[i] \in Run /\ pull[i] \in Pull BY <1>1, RunTyped
<1>3. r \in Run /\ r.pc = "release" BY <1>2 DEF Run, RunPc
<1>4. Outcome(i) \in State BY DEF Outcome, State
<1>5. p \in Pull /\ p.key = pull[i].key /\ p.terminal BY <1>2, <1>4 DEF Pull, Ended
<1>6. run' = [run EXCEPT ![i] = r] /\ pull' = [pull EXCEPT ![i] = p]
    BY DEF Finish, Report, IndInv, TypeOK
<1> HIDE DEF r, p
<1>7. run' \in [Id -> Run] /\ pull' \in [Id -> Pull \cup {None}]
    BY <1>3, <1>5, <1>6 DEF IndInv, TypeOK
<1>8. run'[i] = r /\ pull'[i] = p BY <1>6 DEF IndInv, TypeOK
<1>9. \A j \in Id \ {i} : run'[j] = run[j] /\ pull'[j] = pull[j] BY <1>6 DEF IndInv, TypeOK
<1>10. cached' \in SUBSET Cacheable /\ UNCHANGED <<table, byKey, inFlight, caller>>
    BY DEF Finish, Report, IndInv, TypeOK
<1> QED BY <1>1, <1>3, <1>5, <1>7, <1>8, <1>9, <1>10, RunMoves

\* The deadline touches the context of one pull only.
LEMMA ExpireInv ==
    ASSUME IndInv, NEW i \in Id, Expire(i)
    PROVE  IndInv'
<1> DEFINE p == [pull[i] EXCEPT !.ctx = "expired"]
<1>1. i \in Running BY DEF Expire
<1>2. run[i] \in Run /\ pull[i] \in Pull BY <1>1, RunTyped
<1>3. p \in Pull /\ p.key = pull[i].key /\ p.terminal = pull[i].terminal /\ p.ctx = "expired"
    BY <1>2 DEF Pull
<1>4. pull' = [pull EXCEPT ![i] = p] BY DEF Expire, IndInv, TypeOK
<1> HIDE DEF p
<1>5. pull' \in [Id -> Pull \cup {None}] /\ pull'[i] = p BY <1>3, <1>4 DEF IndInv, TypeOK
<1>6. \A j \in Id \ {i} : pull'[j] = pull[j] BY <1>4 DEF IndInv, TypeOK
<1>7. /\ cached' \in SUBSET Cacheable /\ UNCHANGED <<table, byKey, inFlight, caller, run>>
      /\ run' \in [Id -> Run]
    BY DEF Expire, IndInv, TypeOK
<1>8. run[i].pc = "release" => pull[i].terminal BY DEF IndInv, RunsHavePulls
<1>9. run'[i].pc \notin {"none", "exited"} BY <1>1, <1>7 DEF Running
<1> QED BY <1>1, <1>3, <1>5, <1>6, <1>7, <1>8, <1>9, RunMoves

-------------------------------------------------------------------------------
(* The slot comes back.                                                      *)

\* The run ends, and the count of runs drops with the count of slots.
LEMMA ReleaseSlotInv ==
    ASSUME IndInv, NEW i \in Id, ReleaseSlot(i)
    PROVE  IndInv'
<1> USE DEF IndInv
<1> DEFINE r == [run[i] EXCEPT !.pc = "exited"]
<1>1. i \in Running BY DEF ReleaseSlot, Running
<1>2. run[i] \in Run /\ pull[i] \in Pull /\ i \in Terminal
    BY <1>1, RunTyped DEF ReleaseSlot, RunsHavePulls
<1>3. r \in Run /\ r.pc = "exited" BY <1>2 DEF Run, RunPc
<1>4. run' = [run EXCEPT ![i] = r] BY DEF ReleaseSlot, TypeOK
<1> HIDE DEF r
<1>5. /\ run' \in [Id -> Run] /\ run'[i].pc = "exited"
      /\ \A j \in Id \ {i} : run'[j] = run[j]
    BY <1>3, <1>4 DEF TypeOK
<1>6. /\ table' \in SUBSET Id /\ table' \subseteq table /\ table \ table' \subseteq Terminal
      /\ byKey' \in [Key -> Id \cup {None}]
      /\ \A k \in Key : byKey[k] \notin Terminal => byKey'[k] = byKey[k]
      /\ \A k \in Key : byKey'[k] # None => byKey'[k] = byKey[k]
      /\ \A k \in Key : byKey'[k] # None /\ byKey[k] \in table => byKey'[k] \in table'
  <2>1. Trim(table, byKey) /\ table \in SUBSET Id /\ byKey \in [Key -> Id \cup {None}]
      BY DEF ReleaseSlot, TypeOK
  <2> QED BY <2>1, Trimmed
<1>7. UNCHANGED <<pull, caller, cached>> BY DEF ReleaseSlot
<1>8. Running' = Running \ {i} BY <1>1, <1>5 DEF Running
<1>9. /\ inFlight > 0 /\ inFlight' = inFlight - 1 /\ inFlight' \in Nat
      /\ inFlight' = Cardinality(Running')
  <2>1. Cardinality(Running \ {i}) = Cardinality(Running) - 1
      BY <1>1, RunningFinite, FS_RemoveElement
  <2>2. Cardinality(Running \ {i}) \in Nat
      BY RunningFinite, FS_RemoveElement, FS_CardinalityType
  <2>3. inFlight = Cardinality(Running) BY DEF SlotsMatchRuns
  <2>4. inFlight > 0 BY <2>1, <2>2, <2>3, RunningFinite
  <2> QED BY <1>8, <2>1, <2>2, <2>3, <2>4 DEF ReleaseSlot
<1>10. TypeOK' BY <1>5, <1>6, <1>7, <1>9 DEF TypeOK
<1>11. SlotsMatchRuns' BY <1>9, LimitAssumption DEF SlotsMatchRuns, TypeOK
<1>12. LivePullsListed' BY <1>6, <1>7 DEF LivePullsListed
<1>13. KeysPointIntoTable' BY <1>6, <1>7 DEF KeysPointIntoTable
<1>14. RequestsHoldPulls'
    BY <1>2, <1>5, <1>7, <1>1 DEF RequestsHoldPulls, Running
<1>15. RunsHavePulls' BY <1>2, <1>5, <1>6, <1>7 DEF RunsHavePulls
<1>16. IndexCoversLive'
  <2> SUFFICES ASSUME NEW j \in Id, pull[j] # None, run'[j].pc # "none", ~pull[j].terminal,
                      pull[j].key \notin Cacheable
               PROVE  byKey'[pull[j].key] = j
      BY <1>7 DEF IndexCoversLive
  <2>1. j # i /\ run'[j] = run[j] BY <1>2, <1>5
  <2>2. byKey[pull[j].key] = j BY <2>1 DEF IndexCoversLive
  <2>3. pull[j].key \in Key BY DEF TypeOK, Pull
  <2> QED BY <1>6, <2>2, <2>3
<1> QED BY <1>10, <1>11, <1>12, <1>13, <1>14, <1>15, <1>16
-------------------------------------------------------------------------------
(* Requests.                                                                 *)

\* A request that only moves on keeps the invariant, when what it holds now is
\* what its new place asks for.
LEMMA CallerMoves ==
    ASSUME IndInv, NEW c \in Caller, NEW q \in Request,
           caller' = [caller EXCEPT ![c] = q],
           q.pc \in {"lookup", "record", "settle", "admit"} => q.key \in Key,
           q.pc \in {"record", "settle"} => q.key \in Cacheable,
           q.pc \in {"settle", "mark", "stop"} => q.id \in Known,
           q.pc # "settle", q.pc # "stop",
           UNCHANGED <<table, byKey, inFlight, pull, run, cached>>
    PROVE  IndInv'
<1> USE DEF IndInv
<1>1. TypeOK' BY DEF TypeOK
<1>2. SlotsMatchRuns'
  <2>1. Running' = Running BY DEF Running
  <2> QED BY <2>1 DEF SlotsMatchRuns
<1>3. LivePullsListed' /\ KeysPointIntoTable' BY DEF LivePullsListed, KeysPointIntoTable
<1>4. RequestsHoldPulls' BY DEF RequestsHoldPulls, TypeOK
<1>5. RunsHavePulls' /\ IndexCoversLive' BY DEF RunsHavePulls, IndexCoversLive
<1> QED BY <1>1, <1>2, <1>3, <1>4, <1>5

\* A submission that is not covered takes a key to look up.
LEMMA SubmitInv ==
    ASSUME IndInv, NEW c \in Caller, NEW k \in Key, Submit(c, k)
    PROVE  IndInv'
<1> DEFINE q == [pc |-> "lookup", key |-> k, id |-> None]
<1>1. q \in Request BY DEF Request, CallerPc
<1>2. caller' = [caller EXCEPT ![c] = q] BY DEF Submit, Call
<1> QED BY <1>1, <1>2, CallerMoves DEF Submit

\* The cache answers only for keys an image may carry.
LEMMA LookupCachedInv ==
    ASSUME IndInv, NEW c \in Caller, LookupCached(c)
    PROVE  IndInv'
<1> DEFINE k == caller[c].key
           q == [pc |-> IF k \in cached THEN "record" ELSE "admit", key |-> k, id |-> None]
<1>1. k \in Key BY DEF LookupCached, IndInv, RequestsHoldPulls
<1>2. k \in cached => k \in Cacheable BY DEF IndInv, TypeOK
<1>3. q \in Request BY <1>1 DEF Request, CallerPc
<1>4. caller' = [caller EXCEPT ![c] = q] BY DEF LookupCached, Call
<1>5. UNCHANGED <<table, byKey, inFlight, pull, run, cached>> BY DEF LookupCached
<1> HIDE DEF k
<1> QED BY <1>1, <1>2, <1>3, <1>4, <1>5, CallerMoves

\* A submission that joins or is refused only returns.
LEMMA JoinOrRefuseInv ==
    ASSUME IndInv, NEW c \in Caller, JoinOrRefuse(c)
    PROVE  IndInv'
<1>1. Idle \in Request /\ Idle.pc = "idle" BY DEF Idle, Request, CallerPc
<1> QED BY <1>1, CallerMoves DEF JoinOrRefuse

\* A DELETE holds a pull of the table.
LEMMA CancelInv ==
    ASSUME IndInv, NEW c \in Caller, NEW i \in Id, Cancel(c, i)
    PROVE  IndInv'
<1> DEFINE q == [pc |-> "mark", key |-> None, id |-> i]
<1>1. q \in Request BY DEF Request, CallerPc
<1>2. i \in Known BY DEF Cancel, IndInv, RunsHavePulls
<1>3. caller' = [caller EXCEPT ![c] = q] BY DEF Cancel, Call
<1> QED BY <1>1, <1>2, <1>3, CallerMoves DEF Cancel

\* A request that changes the pull it holds, which keeps its key and, once
\* terminal, stays so, and then moves on.
LEMMA CallerChangesPull ==
    ASSUME IndInv, NEW c \in Caller, NEW i \in Id, i \in Known, NEW q \in Request,
           caller' = [caller EXCEPT ![c] = q],
           NEW p \in Pull, pull' = [pull EXCEPT ![i] = p], p.key = pull[i].key, p.terminal,
           q.pc \in {"idle", "stop"}, q.pc = "stop" => q.id = i,
           UNCHANGED <<table, byKey, inFlight, run, cached>>
    PROVE  IndInv'
<1> USE DEF IndInv
<1>0. /\ pull' \in [Id -> Pull \cup {None}] /\ pull'[i] = p /\ p # None
      /\ \A j \in Id \ {i} : pull'[j] = pull[j]
    BY NoPullAssumption DEF TypeOK
<1>1. TypeOK' BY <1>0 DEF TypeOK
<1>2. SlotsMatchRuns'
  <2>1. Running' = Running BY DEF Running
  <2> QED BY <2>1 DEF SlotsMatchRuns
<1>3. LivePullsListed' BY <1>0 DEF LivePullsListed
<1>4. KeysPointIntoTable'
  <2> SUFFICES ASSUME NEW k \in Key, byKey[k] # None
               PROVE  byKey[k] \in table /\ pull'[byKey[k]].key = k
      BY DEF KeysPointIntoTable
  <2>1. byKey[k] \in table /\ pull[byKey[k]].key = k /\ byKey[k] \in Id
      BY DEF KeysPointIntoTable, TypeOK
  <2> QED BY <1>0, <2>1
<1>5. RequestsHoldPulls' BY <1>0 DEF RequestsHoldPulls, TypeOK
<1>6. RunsHavePulls' BY <1>0 DEF RunsHavePulls
<1>7. IndexCoversLive' BY <1>0 DEF IndexCoversLive
<1> QED BY <1>1, <1>2, <1>3, <1>4, <1>5, <1>6, <1>7

\* The recorded pull becomes a finished one; it never had a run.
LEMMA SettleInv ==
    ASSUME IndInv, NEW c \in Caller, Settle(c)
    PROVE  IndInv'
<1> DEFINE i == caller[c].id
           p == [pull[i] EXCEPT !.state = "done", !.image = TRUE, !.terminal = TRUE]
<1>1. i \in Id /\ i \in Known BY DEF Settle, IndInv, RequestsHoldPulls
<1>2. pull[i] \in Pull BY <1>1 DEF IndInv, TypeOK
<1>3. p \in Pull /\ p.key = pull[i].key /\ p.terminal BY <1>2 DEF Pull, State
<1>4. pull' = [pull EXCEPT ![i] = p] BY <1>1, <1>2 DEF Settle, IndInv, TypeOK, Pull
<1>5. Idle \in Request /\ Idle.pc = "idle" BY DEF Idle, Request, CallerPc
<1>6. caller' = [caller EXCEPT ![c] = Idle] /\ UNCHANGED <<table, byKey, inFlight, run, cached>>
    BY DEF Settle
<1> HIDE DEF i, p
<1> QED BY <1>1, <1>3, <1>4, <1>5, <1>6, CallerChangesPull

\* Marking a pull makes it terminal under its own mutex.
LEMMA MarkCancelledInv ==
    ASSUME IndInv, NEW c \in Caller, MarkCancelled(c)
    PROVE  IndInv'
<1> DEFINE i == caller[c].id
           p == Marked(pull[i])
           q == [caller[c] EXCEPT !.pc = "stop"]
<1>1. i \in Id /\ i \in Known BY DEF MarkCancelled, IndInv, RequestsHoldPulls
<1>2. pull[i] \in Pull BY <1>1 DEF IndInv, TypeOK
<1>3. p \in Pull /\ p.key = pull[i].key /\ p.terminal BY <1>2 DEF Pull, State, Marked
<1>4. pull' = [pull EXCEPT ![i] = p] BY DEF MarkCancelled, IndInv, TypeOK
<1>5. q \in Request /\ q.pc = "stop" /\ q.id = i BY DEF IndInv, TypeOK, Request, CallerPc
<1>6. caller' = [caller EXCEPT ![c] = q] BY DEF MarkCancelled, IndInv, TypeOK
<1>7. UNCHANGED <<table, byKey, inFlight, run, cached>> BY DEF MarkCancelled
<1> HIDE DEF i, p, q
<1> QED BY <1>1, <1>3, <1>4, <1>5, <1>6, <1>7, CallerChangesPull

\* Stopping cancels the context of a pull already terminal.
LEMMA StopInv ==
    ASSUME IndInv, NEW c \in Caller, Stop(c)
    PROVE  IndInv'
<1> DEFINE i == caller[c].id
           p == [pull[i] EXCEPT !.ctx = IF pull[i].ctx = "live" /\ i \in Running
                                        THEN "cancelled" ELSE pull[i].ctx]
<1>1. i \in Id /\ i \in Known /\ i \in Terminal BY DEF Stop, IndInv, RequestsHoldPulls
<1>2. pull[i] \in Pull /\ pull[i].terminal BY <1>1 DEF IndInv, TypeOK
<1>3. p \in Pull /\ p.key = pull[i].key /\ p.terminal BY <1>2 DEF Pull
<1>4. pull' = [pull EXCEPT ![i] = p] BY <1>1, <1>2 DEF Stop, IndInv, TypeOK
<1>5. Idle \in Request /\ Idle.pc = "idle" BY DEF Idle, Request, CallerPc
<1>6. caller' = [caller EXCEPT ![c] = Idle] /\ UNCHANGED <<table, byKey, inFlight, run, cached>>
    BY DEF Stop
<1> HIDE DEF i, p
<1> QED BY <1>1, <1>3, <1>4, <1>5, <1>6, CallerChangesPull
-------------------------------------------------------------------------------
(* A new pull.                                                               *)

\* newPullLocked: the table, the index and the pulls with one more entry.
LEMMA Inserts ==
    ASSUME IndInv, NEW i \in Id, NEW k \in Key, Insert(i, k)
    PROVE  /\ i \notin Known
           /\ table' \in SUBSET Id /\ byKey' \in [Key -> Id \cup {None}]
           /\ (table \cup {i}) \ table' \subseteq Terminal
           /\ table' \subseteq table \cup {i}
           /\ byKey'[k] = i
           /\ \A j \in Key \ {k} : byKey[j] \notin Terminal => byKey'[j] = byKey[j]
           /\ \A j \in Key \ {k} : byKey'[j] # None => byKey'[j] = byKey[j]
           /\ \A j \in Key : byKey'[j] # None => byKey'[j] \in table'
           /\ pull' \in [Id -> Pull \cup {None}]
           /\ pull'[i] = NewPull(k) /\ NewPull(k) \in Pull /\ NewPull(k) # None
           /\ \A j \in Id \ {i} : pull'[j] = pull[j]
<1> DEFINE keys == [byKey EXCEPT ![k] = i]
<1>1. i \notin Known BY DEF Insert, Fresh
<1>2. /\ keys \in [Key -> Id \cup {None}] /\ keys[k] = i
      /\ \A j \in Key \ {k} : keys[j] = byKey[j]
    BY DEF IndInv, TypeOK
<1>3. \A j \in Key : keys[j] # None => keys[j] \in table \cup {i}
    BY <1>2 DEF IndInv, KeysPointIntoTable
<1>4. Trim(table \cup {i}, keys) BY DEF Insert
<1>5. table \cup {i} \in SUBSET Id BY DEF IndInv, TypeOK
<1> HIDE DEF keys
<1>6. /\ table' \in SUBSET Id /\ table' \subseteq table \cup {i}
      /\ (table \cup {i}) \ table' \subseteq Terminal
      /\ byKey' \in [Key -> Id \cup {None}]
      /\ \A j \in Key : keys[j] \notin Terminal => byKey'[j] = keys[j]
      /\ \A j \in Key : byKey'[j] # None => byKey'[j] = keys[j]
      /\ \A j \in Key : byKey'[j] # None /\ keys[j] \in table \cup {i} => byKey'[j] \in table'
    BY <1>2, <1>4, <1>5, Trimmed
<1>7. i \notin Terminal BY <1>1
<1>8. NewPull(k) \in Pull BY LimitAssumption DEF NewPull, Pull, State
<1>9. NewPull(k) # None BY <1>8, NoPullAssumption
<1>10. /\ pull' \in [Id -> Pull \cup {None}] /\ pull'[i] = NewPull(k)
       /\ \A j \in Id \ {i} : pull'[j] = pull[j]
  <2>1. pull' = [pull EXCEPT ![i] = NewPull(k)] BY DEF Insert
  <2> QED BY <1>8, <2>1 DEF IndInv, TypeOK
<1>11. byKey'[k] = i BY <1>2, <1>6, <1>7
<1>12. \A j \in Key \ {k} : byKey[j] \notin Terminal => byKey'[j] = byKey[j] BY <1>2, <1>6
<1>13. \A j \in Key \ {k} : byKey'[j] # None => byKey'[j] = byKey[j] BY <1>2, <1>6
<1>14. \A j \in Key : byKey'[j] # None => byKey'[j] \in table' BY <1>3, <1>6
<1> QED BY <1>1, <1>6, <1>8, <1>9, <1>10, <1>11, <1>12, <1>13, <1>14

\* The parts of the invariant that the table and the index share.
LEMMA InsertKeepsTable ==
    ASSUME IndInv, NEW i \in Id, NEW k \in Key, Insert(i, k)
    PROVE  LivePullsListed' /\ KeysPointIntoTable'
<1> USE DEF IndInv
<1>1. LivePullsListed'
  <2> SUFFICES ASSUME NEW j \in Id, pull'[j] # None, ~pull'[j].terminal
               PROVE  j \in table'
      BY DEF LivePullsListed
  <2>1. CASE j = i BY <2>1, Inserts
  <2>2. CASE j # i
    <3>1. pull'[j] = pull[j] BY <2>2, Inserts
    <3>2. j \in table /\ j \notin Terminal BY <3>1 DEF LivePullsListed
    <3> QED BY <3>2, Inserts
  <2> QED BY <2>1, <2>2
<1>2. KeysPointIntoTable'
  <2> SUFFICES ASSUME NEW j \in Key, byKey'[j] # None
               PROVE  byKey'[j] \in table' /\ pull'[byKey'[j]].key = j
      BY DEF KeysPointIntoTable
  <2>1. byKey'[j] \in table' BY Inserts
  <2>2. CASE j = k
    <3>1. pull'[byKey'[j]] = NewPull(k) BY <2>2, Inserts
    <3> QED BY <2>1, <2>2, <3>1 DEF NewPull
  <2>3. CASE j # k
    <3>1. byKey'[j] = byKey[j] BY <2>3, Inserts
    <3>2. byKey[j] \in table /\ pull[byKey[j]].key = j BY <3>1 DEF KeysPointIntoTable
    <3>3. byKey[j] \in Known BY <3>2 DEF RunsHavePulls, TypeOK
    <3>4. byKey[j] \in Id \ {i} BY <3>3, Inserts
    <3>5. pull'[byKey[j]] = pull[byKey[j]] BY <3>4, Inserts
    <3> QED BY <2>1, <3>1, <3>2, <3>5
  <2> QED BY <2>2, <2>3
<1> QED BY <1>1, <1>2

\* A recorded pull joins the table without a run.
LEMMA RecordInv ==
    ASSUME IndInv, NEW c \in Caller, NEW i \in Id, Record(c, i)
    PROVE  IndInv'
<1> USE DEF IndInv
<1> DEFINE k == caller[c].key
           q == [pc |-> "settle", key |-> k, id |-> i]
<1>1. k \in Key /\ k \in Cacheable BY DEF Record, RequestsHoldPulls
<1>2. Insert(i, k) BY DEF Record
<1>3. q \in Request BY <1>1 DEF Request, CallerPc
<1>4. caller' = [caller EXCEPT ![c] = q] BY DEF Record, Call
<1>5. UNCHANGED <<inFlight, run, cached>> BY DEF Record
<1> HIDE DEF k
<1>6. i \notin Known /\ run[i].pc = "none" BY <1>1, <1>2, Inserts DEF RunsHavePulls
<1>7. \A j \in Id \ {i} : pull'[j] = pull[j] BY <1>1, <1>2, Inserts
<1>8. pull'[i] # None /\ ~pull'[i].terminal
  <2>1. pull'[i] = NewPull(k) /\ NewPull(k) # None BY <1>1, <1>2, Inserts
  <2>2. ~NewPull(k).terminal BY DEF NewPull
  <2> QED BY <2>1, <2>2
<1>10. TypeOK' BY <1>1, <1>2, <1>3, <1>4, <1>5, Inserts DEF TypeOK
<1>11. SlotsMatchRuns'
  <2>1. Running' = Running BY <1>5 DEF Running
  <2> QED BY <1>5, <2>1 DEF SlotsMatchRuns
<1>12. LivePullsListed' /\ KeysPointIntoTable' BY <1>1, <1>2, InsertKeepsTable
<1>13. RequestsHoldPulls'
  <2> SUFFICES ASSUME NEW d \in Caller
               PROVE  /\ caller'[d].pc \in {"lookup", "record", "settle", "admit"} => caller'[d].key \in Key
                      /\ caller'[d].pc \in {"record", "settle"} => caller'[d].key \in Cacheable
                      /\ caller'[d].pc \in {"settle", "mark", "stop"} => caller'[d].id \in Known'
                      /\ caller'[d].pc = "settle" => run'[caller'[d].id].pc = "none"
                      /\ caller'[d].pc = "stop" => caller'[d].id \in Terminal'
      BY DEF RequestsHoldPulls
  <2>1. CASE d = c
    <3>1. caller'[d] = q BY <1>4, <2>1 DEF TypeOK
    <3> QED BY <1>1, <1>5, <1>6, <1>8, <3>1
  <2>2. CASE d # c
    <3>1. caller'[d] = caller[d] BY <1>4, <2>2 DEF TypeOK
    <3> QED BY <1>5, <1>6, <1>7, <3>1 DEF RequestsHoldPulls
  <2> QED BY <2>1, <2>2
<1>14. RunsHavePulls'
  <2>1. \A j \in Id : j \notin Known' => j \notin Known /\ j # i BY <1>7, <1>8
  <2>2. table' \subseteq table \cup {i} BY <1>1, <1>2, Inserts
  <2> QED BY <1>5, <1>6, <1>7, <2>1, <2>2 DEF RunsHavePulls
<1>15. IndexCoversLive'
  <2> SUFFICES ASSUME NEW j \in Id, pull'[j] # None, run[j].pc # "none", ~pull'[j].terminal,
                      pull'[j].key \notin Cacheable
               PROVE  byKey'[pull'[j].key] = j
      BY <1>5 DEF IndexCoversLive
  <2>1. j # i /\ pull'[j] = pull[j] BY <1>6, <1>7
  <2>2. byKey[pull[j].key] = j /\ j \notin Terminal BY <2>1 DEF IndexCoversLive
  <2>3. pull[j].key \in Key \ {k} BY <1>1, <2>1 DEF TypeOK, Pull
  <2> QED BY <1>1, <1>2, <2>1, <2>2, <2>3, Inserts
<1> QED BY <1>10, <1>11, <1>12, <1>13, <1>14, <1>15

\* A launched pull takes a slot below the limit.
LEMMA LaunchInv ==
    ASSUME IndInv, NEW c \in Caller, NEW i \in Id, Launch(c, i)
    PROVE  IndInv'
<1> USE DEF IndInv
<1> DEFINE k == caller[c].key
           r == [run[i] EXCEPT !.pc = "resolve"]
<1>1. k \in Key BY DEF Launch, RequestsHoldPulls
<1>2. Insert(i, k) BY DEF Launch
<1>3. ~Covered(k) /\ ~Full BY DEF Launch, Joins
<1>4. caller' = [caller EXCEPT ![c] = Idle] /\ Idle \in Request
    BY DEF Launch, Idle, Request, CallerPc
<1>5. cached' = cached /\ inFlight' = inFlight + 1 BY DEF Launch
<1>6. run' = [run EXCEPT ![i] = r] /\ r \in Run /\ r.pc = "resolve"
    BY DEF Launch, TypeOK, Run, RunPc
<1> HIDE DEF k, r
<1>7. i \notin Known /\ run[i].pc = "none" BY <1>1, <1>2, Inserts DEF RunsHavePulls
<1>8. /\ run' \in [Id -> Run] /\ run'[i].pc = "resolve"
      /\ \A j \in Id \ {i} : run'[j] = run[j]
    BY <1>6 DEF TypeOK
<1>9. \A j \in Id \ {i} : pull'[j] = pull[j] BY <1>1, <1>2, Inserts
<1>10. pull'[i] = NewPull(k) /\ pull'[i] # None BY <1>1, <1>2, Inserts
<1>11. TypeOK' BY <1>1, <1>2, <1>4, <1>5, <1>8, Inserts DEF TypeOK
<1>12. SlotsMatchRuns'
  <2>1. Running' = Running \cup {i} /\ i \notin Running BY <1>7, <1>8 DEF Running
  <2>2. Cardinality(Running \cup {i}) = Cardinality(Running) + 1
      BY <2>1, RunningFinite, FS_AddElement
  <2>3. inFlight + 1 <= MaxInFlight BY <1>3, LimitAssumption DEF Full, TypeOK
  <2> QED BY <1>5, <2>1, <2>2, <2>3 DEF SlotsMatchRuns
<1>13. LivePullsListed' /\ KeysPointIntoTable' BY <1>1, <1>2, InsertKeepsTable
<1>14. RequestsHoldPulls'
  <2> SUFFICES ASSUME NEW d \in Caller
               PROVE  /\ caller'[d].pc \in {"lookup", "record", "settle", "admit"} => caller'[d].key \in Key
                      /\ caller'[d].pc \in {"record", "settle"} => caller'[d].key \in Cacheable
                      /\ caller'[d].pc \in {"settle", "mark", "stop"} => caller'[d].id \in Known'
                      /\ caller'[d].pc = "settle" => run'[caller'[d].id].pc = "none"
                      /\ caller'[d].pc = "stop" => caller'[d].id \in Terminal'
      BY DEF RequestsHoldPulls
  <2>1. CASE d = c
    <3>1. caller'[d].pc = "idle" BY <1>4, <2>1 DEF TypeOK, Idle
    <3> QED BY <3>1
  <2>2. CASE d # c
    <3>1. caller'[d] = caller[d] BY <1>4, <2>2 DEF TypeOK
    <3> QED BY <1>7, <1>8, <1>9, <3>1 DEF RequestsHoldPulls
  <2> QED BY <2>1, <2>2
<1>15. RunsHavePulls'
  <2>1. \A j \in Id : j \notin Known' => j \notin Known /\ j # i BY <1>9, <1>10
  <2>2. table' \subseteq table \cup {i} BY <1>1, <1>2, Inserts
  <2>3. pull'[i].ctx = "live" BY <1>10 DEF NewPull
  <2> QED BY <1>7, <1>8, <1>9, <2>1, <2>2, <2>3 DEF RunsHavePulls
<1>16. IndexCoversLive'
  <2> SUFFICES ASSUME NEW j \in Id, pull'[j] # None, run'[j].pc # "none", ~pull'[j].terminal,
                      pull'[j].key \notin Cacheable
               PROVE  byKey'[pull'[j].key] = j
      BY DEF IndexCoversLive
  <2>1. CASE j = i
    <3>1. pull'[j].key = k BY <1>10, <2>1 DEF NewPull
    <3> QED BY <1>1, <1>2, <2>1, <3>1, Inserts
  <2>2. CASE j # i
    <3>1. pull'[j] = pull[j] /\ run'[j] = run[j] BY <1>8, <1>9, <2>2
    <3>2. byKey[pull[j].key] = j /\ j \notin Terminal /\ j \in table
        BY <3>1 DEF IndexCoversLive, LivePullsListed
    <3>3. pull[j].key # k BY <1>3, <3>2 DEF Covered
    <3>4. pull[j].key \in Key \ {k} BY <3>1, <3>3 DEF TypeOK, Pull
    <3> QED BY <1>1, <1>2, <3>1, <3>2, <3>4, Inserts
  <2> QED BY <2>1, <2>2
<1> QED BY <1>11, <1>12, <1>13, <1>14, <1>15, <1>16

-------------------------------------------------------------------------------
(* The invariant and what follows from it.                                   *)

\* An empty manager satisfies the invariant.
LEMMA InitInv == Init => IndInv
<1> SUFFICES ASSUME Init PROVE IndInv OBVIOUS
<1> USE DEF Init
<1>1. Known = {} OBVIOUS
<1>2. TypeOK BY DEF TypeOK, NoRun, Idle, Run, RunPc, Request, CallerPc
<1>3. SlotsMatchRuns
  <2>1. Running = {} BY DEF Running, NoRun
  <2> QED BY <2>1, FS_EmptySet, LimitAssumption DEF SlotsMatchRuns
<1>4. LivePullsListed /\ KeysPointIntoTable BY <1>1 DEF LivePullsListed, KeysPointIntoTable
<1>5. RequestsHoldPulls BY DEF RequestsHoldPulls, Idle
<1>6. RunsHavePulls /\ IndexCoversLive BY <1>1 DEF RunsHavePulls, IndexCoversLive, NoRun
<1> QED BY <1>2, <1>3, <1>4, <1>5, <1>6 DEF IndInv

\* The cache changes under the Manager.
LEMMA CacheChangesInv ==
    ASSUME IndInv, NEW k \in Cacheable, CacheChanges(k)
    PROVE  IndInv'
<1> USE DEF IndInv, CacheChanges
<1>1. TypeOK' BY DEF TypeOK
<1>2. SlotsMatchRuns'
  <2>1. Running' = Running BY DEF Running
  <2> QED BY <2>1 DEF SlotsMatchRuns
<1>3. LivePullsListed' /\ KeysPointIntoTable' BY DEF LivePullsListed, KeysPointIntoTable
<1>4. RequestsHoldPulls' BY DEF RequestsHoldPulls
<1>5. RunsHavePulls' /\ IndexCoversLive' BY DEF RunsHavePulls, IndexCoversLive
<1> QED BY <1>1, <1>2, <1>3, <1>4, <1>5

\* A stuttering step keeps it.
LEMMA StutterInv ==
    ASSUME IndInv, UNCHANGED vars
    PROVE  IndInv'
<1> USE DEF IndInv, vars
<1>1. TypeOK' BY DEF TypeOK
<1>2. SlotsMatchRuns'
  <2>1. Running' = Running BY DEF Running
  <2> QED BY <2>1 DEF SlotsMatchRuns
<1>3. LivePullsListed' /\ KeysPointIntoTable' BY DEF LivePullsListed, KeysPointIntoTable
<1>4. RequestsHoldPulls' BY DEF RequestsHoldPulls
<1>5. RunsHavePulls' /\ IndexCoversLive' BY DEF RunsHavePulls, IndexCoversLive
<1> QED BY <1>1, <1>2, <1>3, <1>4, <1>5

\* Every step of a request keeps it.
LEMMA CallerStepInv ==
    ASSUME IndInv, NEW c \in Caller, CallerStep(c)
    PROVE  IndInv'
BY SubmitInv, LookupCachedInv, SettleInv, JoinOrRefuseInv, RecordInv, LaunchInv,
   CancelInv, MarkCancelledInv, StopInv DEF CallerStep

\* Every step of a run keeps it.
LEMMA RunStepInv ==
    ASSUME IndInv, NEW i \in Id, RunStep(i)
    PROVE  IndInv'
BY ResolveInv, FetchKnownInv, FetchManifestInv, ResetInv, StartSaveInv, StartLayerInv,
   FinishLayerInv, NotALayerInv, DrainKnownInv, EndStreamInv, CommitInv, SetImageInv,
   ErrorInv, FinishInv, ReleaseSlotInv DEF RunStep

\* Every step keeps it.
LEMMA NextInv == IndInv /\ [Next]_vars => IndInv'
<1> SUFFICES ASSUME IndInv, [Next]_vars PROVE IndInv' OBVIOUS
<1>1. CASE \E c \in Caller : CallerStep(c) BY <1>1, CallerStepInv
<1>2. CASE \E i \in Id : RunStep(i) BY <1>2, RunStepInv
<1>3. CASE \E i \in Id : Expire(i) BY <1>3, ExpireInv
<1>4. CASE \E k \in Cacheable : CacheChanges(k) BY <1>4, CacheChangesInv
<1>5. CASE UNCHANGED vars BY <1>5, StutterInv
<1> QED BY <1>1, <1>2, <1>3, <1>4, <1>5 DEF Next

\* Every reachable state satisfies the inductive invariant, for any number of
\* requests, pulls, keys and slots.
THEOREM Inductive == Spec => []IndInv
<1>1. Init => IndInv BY InitInv
<1>2. IndInv /\ [Next]_vars => IndInv' BY NextInv
<1> QED BY <1>1, <1>2, PTL DEF Spec

\* The admission slots are held by exactly the runs that have not ended, and by
\* never more than the limit: none leaks, none is given back twice.
THEOREM SlotsNeverLeak == Spec => []SlotsMatchRuns
<1>1. IndInv => SlotsMatchRuns BY DEF IndInv
<1> QED BY <1>1, Inductive, PTL

\* The index names pulls of the table under their own key.
THEOREM IndexSound == Spec => []KeysPointIntoTable
<1>1. IndInv => KeysPointIntoTable BY DEF IndInv
<1> QED BY <1>1, Inductive, PTL

\* A live pull is in the table, where it can be polled and cancelled.
THEOREM LiveReachable == Spec => []LivePullsListed
<1>1. IndInv => LivePullsListed BY DEF IndInv
<1> QED BY <1>1, Inductive, PTL

\* Two live pulls of one uncached reference are the same pull.
THEOREM OnePullPerUncachedKey == Spec => []UncachedKeysHaveOnePull
<1>1. IndInv => UncachedKeysHaveOnePull
    BY DEF IndInv, IndexCoversLive, UncachedKeysHaveOnePull
<1> QED BY <1>1, Inductive, PTL

-------------------------------------------------------------------------------
(* The retention cap.                                                        *)

\* When terminal pulls are left after a trim, the table is within its cap: the
\* oldest one left has all the older ones, and so enough of them, dropped.
LEMMA TrimmedToCap ==
    ASSUME NEW T \in SUBSET Id, NEW keys \in [Key -> Id \cup {None}], Trim(T, keys),
           Cardinality(table') > MaxRetained
    PROVE  table' \cap Terminal = {}
<1> SUFFICES ASSUME NEW i \in table' \cap Terminal PROVE FALSE
    OBVIOUS
<1> DEFINE O == Oldest(T)
           S == T \cap Terminal
           Below(m) == {j \in S : j < m}
           excess == Cardinality(T) - MaxRetained
           Left(m) == m \in S /\ m \notin O
<1>1. table' = T \ O /\ O \subseteq S BY DEF Trim, Oldest
<1>2. \A m \in S : m \in O <=> Cardinality(Below(m)) < excess BY DEF Oldest
<1>3. S \subseteq Nat /\ IsFiniteSet(T) /\ IsFiniteSet(S)
  <2>1. S \subseteq Id /\ T \subseteq Id OBVIOUS
  <2> QED BY <2>1, IdAssumption, FS_Subset
<1>4. IsFiniteSet(O) /\ Cardinality(O) \in Nat /\ Cardinality(T) \in Nat
      /\ Cardinality(T \ O) = Cardinality(T) - Cardinality(O)
  <2>1. IsFiniteSet(O) BY <1>1, <1>3, FS_Subset
  <2>2. O \cap T = O /\ T \cap O = O BY <1>1
  <2>3. Cardinality(T \ O) = Cardinality(T) - Cardinality(T \cap O) BY <1>3, FS_Difference
  <2> QED BY <1>3, <2>1, <2>2, <2>3, FS_CardinalityType
<1>5. PICK m \in Nat : Left(m) /\ \A j \in 0..m-1 : ~Left(j)
  <2> DEFINE L == {m \in Nat : Left(m)}
  <2>1. i \in L BY <1>1, <1>3
  <2>2. PICK m \in L : \A j \in L : m <= j
    <3> HIDE DEF L
    <3>1. L \subseteq Nat BY DEF L
    <3> QED BY <2>1, <3>1, LeastNat
  <2>3. \A j \in 0..m-1 : j \in Nat /\ j < m /\ ~(m <= j) OBVIOUS
  <2> QED BY <2>2, <2>3
<1>6. Below(m) \subseteq O
  <2> SUFFICES ASSUME NEW j \in S, j < m PROVE j \in O OBVIOUS
  <2>1. j \in 0..m-1 BY <1>3
  <2> QED BY <1>5, <2>1
<1>7. ~(Cardinality(Below(m)) < excess) BY <1>2, <1>5
<1>8. Cardinality(Below(m)) <= Cardinality(O) /\ Cardinality(Below(m)) \in Nat
  <2>1. IsFiniteSet(Below(m)) BY <1>4, <1>6, FS_Subset
  <2> HIDE DEF Below
  <2> QED BY <1>4, <1>6, <2>1, FS_Subset, FS_CardinalityType
<1> HIDE DEF Below, O
<1> QED BY <1>1, <1>4, <1>7, <1>8, LimitAssumption

\* What a step of another run, or of a request, does to one pull.
OwnStep(i) ==
    \/ UNCHANGED <<pull[i], run[i]>>
    \/ RunStep(i)
    \/ /\ \E c \in Caller : caller[c].pc = "mark" /\ caller[c].id = i
       /\ pull'[i] = Marked(pull[i]) /\ run'[i] = run[i]
    \/ /\ \E ctx \in {"live", "cancelled", "expired"} : pull'[i] = [pull[i] EXCEPT !.ctx = ctx]
       /\ run'[i] = run[i]
    \/ /\ run[i].pc = "none"
       /\ pull'[i] = [pull[i] EXCEPT !.state = "done", !.image = TRUE, !.terminal = TRUE]
       /\ run'[i] = run[i]

\* A run reports to its own pull.
LEMMA RunStepOthers ==
    ASSUME TypeOK, NEW i \in Id, RunStep(i), NEW j \in Id, j # i
    PROVE  UNCHANGED <<pull[j], run[j]>>
BY DEF TypeOK, RunStep, Resolve, FetchKnown, FetchManifest, Reset, StartSave, StartLayer, FinishLayer,
       NotALayer, DrainKnown, EndStream, Commit, SetImage, Error, Finish, ReleaseSlot, Report, Failed

\* A pull that is known changes by its run, by a request that marks, stops or
\* settles it, or by its deadline.
LEMMA OwnSteps ==
    ASSUME IndInv, [Next]_vars, NEW i \in Known
    PROVE  OwnStep(i)
<1> USE DEF OwnStep
<1>t. TypeOK /\ pull \in [Id -> Pull \cup {None}] /\ run \in [Id -> Run] /\ pull[i] \in Pull
    BY DEF IndInv, TypeOK
<1>1. ASSUME NEW c \in Caller, CallerStep(c) PROVE OwnStep(i)
  <2>1. ASSUME UNCHANGED <<pull, run>> PROVE OwnStep(i) BY <2>1
  <2>2. CASE \E k \in Key : Submit(c, k) BY <2>1, <2>2 DEF Submit
  <2>3. CASE LookupCached(c) BY <2>1, <2>3 DEF LookupCached
  <2>4. CASE JoinOrRefuse(c) BY <2>1, <2>4 DEF JoinOrRefuse
  <2>5. CASE \E j \in Id : Cancel(c, j) BY <2>1, <2>5 DEF Cancel
  <2>6. CASE Settle(c)
    <3> DEFINE j == caller[c].id
    <3>1. j \in Known /\ run[j].pc = "none" /\ run' = run
        BY <2>6 DEF Settle, IndInv, RequestsHoldPulls
    <3>2. pull' = [pull EXCEPT ![j].state = "done", ![j].image = TRUE, ![j].terminal = TRUE]
        BY <2>6 DEF Settle
    <3>3. CASE i = j
      <4>1. pull'[i] = [pull[i] EXCEPT !.state = "done", !.image = TRUE, !.terminal = TRUE]
          BY <1>t, <3>1, <3>2, <3>3 DEF Pull
      <4> QED BY <3>1, <3>3, <4>1
    <3>4. CASE i # j
      <4>1. pull'[i] = pull[i] BY <1>t, <3>1, <3>2, <3>4
      <4> QED BY <3>1, <4>1
    <3> QED BY <3>3, <3>4
  <2>7. CASE MarkCancelled(c)
    <3>1. pull' = [pull EXCEPT ![caller[c].id] = Marked(@)] /\ run' = run /\ caller[c].pc = "mark"
        BY <2>7 DEF MarkCancelled
    <3>2. CASE i = caller[c].id BY <1>t, <3>1, <3>2
    <3>3. CASE i # caller[c].id BY <1>t, <3>1, <3>3
    <3> QED BY <3>2, <3>3
  <2>8. CASE Stop(c)
    <3> DEFINE j == caller[c].id
    <3>1. PICK ctx \in {"live", "cancelled", "expired"} : pull' = [pull EXCEPT ![j].ctx = ctx]
      <4> DEFINE x == IF pull[j].ctx = "live" /\ j \in Running THEN "cancelled" ELSE pull[j].ctx
      <4>1. pull' = [pull EXCEPT ![j].ctx = x] BY <2>8, <1>t DEF Stop
      <4>2. j \in Known BY <2>8 DEF Stop, IndInv, RequestsHoldPulls
      <4>3. x \in {"live", "cancelled", "expired"} BY <1>t, <4>2 DEF Pull
      <4> QED BY <4>1, <4>3
    <3>2. run' = run BY <2>8 DEF Stop
    <3>3. CASE i = j BY <1>t, <3>1, <3>2, <3>3
    <3>4. CASE i # j BY <1>t, <3>1, <3>2, <3>4
    <3> QED BY <3>3, <3>4
  <2>9. ASSUME NEW j \in Id, NEW k \in Key, Insert(j, k) PROVE pull'[i] = pull[i] /\ i # j
      BY <2>9, Inserts
  <2>10. ASSUME NEW j \in Id, Record(c, j) PROVE OwnStep(i)
    <3>1. caller[c].key \in Key BY <2>10 DEF Record, IndInv, RequestsHoldPulls
    <3> QED BY <2>9, <2>10, <3>1 DEF Record
  <2>11. ASSUME NEW j \in Id, Launch(c, j) PROVE OwnStep(i)
    <3>1. caller[c].key \in Key BY <2>11 DEF Launch, IndInv, RequestsHoldPulls
    <3>2. pull'[i] = pull[i] /\ i # j BY <2>9, <2>11, <3>1 DEF Launch
    <3>3. run'[i] = run[i] BY <1>t, <2>11, <3>2 DEF Launch
    <3> QED BY <3>2, <3>3
  <2> QED BY <1>1, <2>2, <2>3, <2>4, <2>5, <2>6, <2>7, <2>8, <2>10, <2>11 DEF CallerStep
<1>2. ASSUME NEW j \in Id, RunStep(j) PROVE OwnStep(i)
  <2>1. CASE j = i BY <1>2, <2>1
  <2>2. CASE j # i BY <1>t, <1>2, <2>2, RunStepOthers
  <2> QED BY <2>1, <2>2
<1>3. ASSUME NEW j \in Id, Expire(j) PROVE OwnStep(i)
  <2>1. pull' = [pull EXCEPT ![j].ctx = "expired"] /\ run' = run BY <1>3 DEF Expire
  <2>2. CASE j = i BY <1>t, <2>1, <2>2
  <2>3. CASE j # i BY <1>t, <2>1, <2>3
  <2> QED BY <2>2, <2>3
<1>4. ASSUME NEW k \in Cacheable, CacheChanges(k) PROVE OwnStep(i) BY <1>4 DEF CacheChanges
<1>5. CASE UNCHANGED vars BY <1>5 DEF vars
<1> QED BY <1>1, <1>2, <1>3, <1>4, <1>5 DEF Next

\* A run starts with its pull, with nothing counted.
LEMMA RunsStart ==
    ASSUME IndInv, [Next]_vars, NEW i \in Id, i \notin Launched, i \in Launched'
    PROVE  /\ i \notin Known
           /\ run'[i] = [run[i] EXCEPT !.pc = "resolve"]
           /\ \E k \in Key : pull'[i] = NewPull(k)
<1>t. TypeOK /\ pull \in [Id -> Pull \cup {None}] /\ run \in [Id -> Run] BY DEF IndInv, TypeOK
<1>1. run[i].pc = "none" BY DEF IndInv, RunsHavePulls
<1>2. run'[i].pc # "none" OBVIOUS
<1>3. ~\E c \in Caller : \/ \E k \in Key : Submit(c, k)
                         \/ LookupCached(c) \/ Settle(c) \/ JoinOrRefuse(c)
                         \/ \E j \in Id : Record(c, j) \/ Cancel(c, j)
                         \/ MarkCancelled(c) \/ Stop(c)
    BY <1>1, <1>2 DEF Submit, LookupCached, Settle, JoinOrRefuse, Record, Cancel, MarkCancelled, Stop
<1>4. ASSUME NEW j \in Id, RunStep(j) PROVE FALSE
  <2>1. CASE j = i
      BY <1>1, <1>4, <2>1 DEF RunStep, Resolve, FetchKnown, FetchManifest, Reset, StartSave, StartLayer,
         FinishLayer, NotALayer, DrainKnown, EndStream, Commit, SetImage, Error, Finish, ReleaseSlot, Another
  <2>2. CASE j # i BY <1>t, <1>1, <1>2, <1>4, <2>2, RunStepOthers
  <2> QED BY <2>1, <2>2
<1>5. ~(\E j \in Id : Expire(j)) /\ ~(\E k \in Cacheable : CacheChanges(k)) /\ ~(UNCHANGED vars)
    BY <1>1, <1>2 DEF Expire, CacheChanges, vars
<1>6. PICK c \in Caller, j \in Id : Launch(c, j)
    BY <1>3, <1>4, <1>5 DEF Next, CallerStep
<1>7. i = j BY <1>t, <1>1, <1>2, <1>6 DEF Launch
<1>8. caller[c].key \in Key BY <1>6 DEF Launch, IndInv, RequestsHoldPulls
<1>9. Insert(i, caller[c].key) BY <1>6, <1>7 DEF Launch
<1>10. i \notin Known /\ pull'[i] = NewPull(caller[c].key) BY <1>8, <1>9, Inserts
<1>11. run'[i] = [run[i] EXCEPT !.pc = "resolve"] BY <1>t, <1>6, <1>7 DEF Launch
<1> QED BY <1>8, <1>10, <1>11

\* No step of a run takes it back to its start, and one takes it to its exit.
LEMMA RunStepPc ==
    ASSUME TypeOK, NEW i \in Id, RunStep(i)
    PROVE  run'[i].pc # "none" /\ (run'[i].pc = "exited" => ReleaseSlot(i))
<1>t. run \in [Id -> Run] BY DEF TypeOK
<1>1. \A pc : run' = [run EXCEPT ![i].pc = pc] => run'[i].pc = pc BY <1>t DEF Run
<1>2. CASE \/ FetchKnown(i) \/ FetchManifest(i) \/ StartSave(i) \/ FinishLayer(i) \/ NotALayer(i)
           \/ EndStream(i) \/ SetImage(i) \/ Finish(i)
    BY <1>1, <1>2 DEF FetchKnown, FetchManifest, StartSave, FinishLayer, NotALayer, EndStream, SetImage,
       Finish, Report
<1>3. CASE Resolve(i)
  <2>1. PICK pc \in {"fetch", "totals"}, path \in {"registry", "shortcut", "save"} :
            run' = [run EXCEPT ![i].pc = pc, ![i].path = path]
      BY <1>3 DEF Resolve, Paths
  <2> QED BY <1>t, <2>1 DEF Run
<1>4. CASE Reset(i) \/ StartLayer(i) \/ DrainKnown(i)
    BY <1>t, <1>4 DEF Reset, StartLayer, DrainKnown, Another, Run
<1>5. CASE Commit(i) \/ Error(i)
  <2>1. run' = Failed(i) => run'[i].pc \in {"reset", "finish"} BY <1>t DEF Failed, Run
  <2> QED BY <1>1, <1>5, <2>1 DEF Commit, Error
<1>6. CASE ReleaseSlot(i) BY <1>1, <1>6 DEF ReleaseSlot
<1> QED BY <1>2, <1>3, <1>4, <1>5, <1>6 DEF RunStep

\* A run that has not begun is as it was.
LEMMA RunNotBegun ==
    ASSUME IndInv, [Next]_vars, NEW i \in Id, run'[i].pc = "none"
    PROVE  run'[i] = run[i]
<1>t. TypeOK /\ run \in [Id -> Run] BY DEF IndInv, TypeOK
<1>1. ASSUME NEW c \in Caller, CallerStep(c) PROVE run'[i] = run[i]
  <2>1. ASSUME NEW j \in Id, Launch(c, j) PROVE run'[i] = run[i]
    <3>1. run' = [run EXCEPT ![j].pc = "resolve"] BY <2>1 DEF Launch
    <3> QED BY <1>t, <3>1 DEF Run
  <2> QED BY <1>1, <2>1 DEF CallerStep, Submit, LookupCached, Settle, JoinOrRefuse, Record, Cancel,
          MarkCancelled, Stop
<1>2. ASSUME NEW j \in Id, RunStep(j) PROVE run'[i] = run[i] BY <1>t, <1>2, RunStepPc, RunStepOthers
<1>3. CASE UNCHANGED run BY <1>3
<1> QED BY <1>1, <1>2, <1>3 DEF Next, Expire, CacheChanges, vars

\* A run never leaves its end, and comes there by giving its slot back.
LEMMA RunsExit ==
    ASSUME IndInv, [Next]_vars, NEW i \in Id, run'[i].pc = "exited"
    PROVE  run[i].pc = "exited" \/ ReleaseSlot(i)
<1>t. TypeOK /\ run \in [Id -> Run] BY DEF IndInv, TypeOK
<1>1. CASE i \in Known
  <2>1. CASE RunStep(i) BY <1>t, <2>1, RunStepPc
  <2>2. CASE run'[i] = run[i] BY <2>2
  <2> QED BY <1>1, <2>1, <2>2, OwnSteps DEF OwnStep
<1>2. CASE i \notin Known
  <2>1. run[i].pc = "none" BY <1>2 DEF IndInv, RunsHavePulls
  <2>2. i \notin Launched BY <1>2
  <2>3. i \in Launched' => run'[i].pc = "resolve"
    <3> SUFFICES ASSUME i \in Launched' PROVE run'[i].pc = "resolve" OBVIOUS
    <3>1. run'[i] = [run[i] EXCEPT !.pc = "resolve"] BY <2>2, RunsStart
    <3> QED BY <1>t, <3>1 DEF Run
  <2>4. i \in Known'
    <3>1. IndInv' BY NextInv
    <3> QED BY <3>1 DEF IndInv, RunsHavePulls
  <2> QED BY <2>3, <2>4
<1> QED BY <1>1, <1>2

\* Over the cap, no pull of the table has given its slot back.
LEMMA TableTrimmedStep ==
    ASSUME IndInv, TableTrimmed, [Next]_vars
    PROVE  TableTrimmed'
<1>1. IndInv' BY NextInv
<1> SUFFICES ASSUME Cardinality(table') > MaxRetained, NEW i \in table', run'[i].pc = "exited"
             PROVE  FALSE
  <2>1. table' \subseteq Id /\ run' \in [Id -> Run] BY <1>1 DEF IndInv, TypeOK
  <2> QED BY <2>1 DEF TableTrimmed, Running
<1>t. TypeOK /\ i \in Id /\ table \in SUBSET Id /\ byKey \in [Key -> Id \cup {None}]
    BY <1>1 DEF IndInv, TypeOK
<1>2. run[i].pc = "exited" \/ ReleaseSlot(i) BY <1>t, RunsExit
<1>3. i \in Terminal BY <1>t, <1>2 DEF IndInv, RunsHavePulls, ReleaseSlot
<1>4. CASE table' = table
  <2>1. run[i].pc # "exited" BY <1>3, <1>4 DEF TableTrimmed, Running
  <2>2. Trim(table, byKey) BY <1>2, <2>1 DEF ReleaseSlot
  <2> QED BY <1>t, <1>3, <2>2, TrimmedToCap
<1>5. CASE table' # table
  <2>1. ASSUME NEW j \in Id PROVE ~ReleaseSlot(j)
    <3>1. ReleaseSlot(j) => Trim(table, byKey) BY DEF ReleaseSlot
    <3> QED BY <1>t, <1>3, <3>1, TrimmedToCap
  <2>2. ASSUME NEW j \in Id, NEW k \in Key PROVE ~Insert(j, k)
    <3>1. /\ Insert(j, k) => Trim(table \cup {j}, [byKey EXCEPT ![k] = j])
          /\ [byKey EXCEPT ![k] = j] \in [Key -> Id \cup {None}] /\ table \cup {j} \in SUBSET Id
        BY <1>t DEF Insert
    <3> QED BY <1>t, <1>3, <3>1, TrimmedToCap
  <2>3. ASSUME NEW c \in Caller, CallerStep(c) PROVE FALSE
    <3>1. ASSUME NEW j \in Id, Record(c, j) \/ Launch(c, j) PROVE FALSE
      <4>1. caller[c].key \in Key BY <3>1 DEF Record, Launch, IndInv, RequestsHoldPulls
      <4> QED BY <2>2, <3>1, <4>1 DEF Record, Launch
    <3> QED BY <1>5, <2>3, <3>1 DEF CallerStep, Submit, LookupCached, Settle, JoinOrRefuse, Cancel,
            MarkCancelled, Stop
  <2>4. ASSUME NEW j \in Id, RunStep(j) PROVE FALSE
      BY <1>5, <2>1, <2>4 DEF RunStep, Resolve, FetchKnown, FetchManifest, Reset, StartSave, StartLayer,
         FinishLayer, NotALayer, DrainKnown, EndStream, Commit, SetImage, Error, Finish, Report
  <2>5. ~(\E j \in Id : Expire(j)) /\ ~(\E k \in Cacheable : CacheChanges(k)) /\ ~(UNCHANGED vars)
      BY <1>5 DEF Expire, CacheChanges, vars
  <2> QED BY <2>3, <2>4, <2>5 DEF Next
<1> QED BY <1>4, <1>5

\* Over the retention cap the table holds only live pulls, finished ones whose
\* run has not given its slot back, and finished ones that record inserted,
\* which await the next insertion.
THEOREM TableStaysTrimmed == Spec => []TableTrimmed
<1>1. Init => TableTrimmed BY DEF Init, TableTrimmed
<1>2. IndInv /\ TableTrimmed /\ [Next]_vars => TableTrimmed' BY TableTrimmedStep
<1> QED BY <1>1, <1>2, Inductive, PTL DEF Spec

-------------------------------------------------------------------------------
(* Outcomes.                                                                 *)

\* A layer that ends changes no state.
LEMMA FinishedState ==
    ASSUME NEW p \in Pull
    PROVE  Finished(p).terminal = p.terminal /\ Finished(p).state = p.state
<1> DEFINE n == p.done + 1
<1>1. Finished(p) = [p EXCEPT !.done = n, !.current = FALSE] BY DEF Finished
<1> HIDE DEF n
<1> QED BY <1>1 DEF Pull

\* A run never changes the state of a terminal pull, and never cancels one.
LEMMA RunStepState ==
    ASSUME IndInv, NEW i \in Id, RunStep(i)
    PROVE  /\ pull[i].terminal => pull'[i].terminal /\ pull'[i].state = pull[i].state
           /\ pull'[i].state # pull[i].state => pull'[i].state # "cancelled"
<1>t. TypeOK /\ pull \in [Id -> Pull \cup {None}] /\ run \in [Id -> Run] BY DEF IndInv, TypeOK
<1>r. i \in Running
    BY DEF Running, RunStep, Resolve, FetchKnown, FetchManifest, Reset, StartSave, StartLayer, FinishLayer,
       NotALayer, DrainKnown, EndStream, Commit, SetImage, Error, Finish, ReleaseSlot, Another
<1>p. pull[i] \in Pull BY <1>r, RunTyped
<1>1. ASSUME NEW p, pull' = [pull EXCEPT ![i] = p] PROVE pull'[i] = p BY <1>t, <1>1
<1>2. CASE UNCHANGED pull BY <1>2
<1>3. CASE Resolve(i) BY <1>p, <1>t, <1>3 DEF Resolve, InPhase, Pull
<1>4. CASE FetchKnown(i) BY <1>p, <1>t, <1>4 DEF FetchKnown, Pull
<1>5. CASE FetchManifest(i) \/ StartSave(i)
  <2>1. pull'[i] = InPhase(Totals(pull[i]), "running")
      BY <1>1, <1>5 DEF FetchManifest, StartSave, Report
  <2>2. /\ Totals(pull[i]).terminal = pull[i].terminal /\ Totals(pull[i]).state = pull[i].state
        /\ Totals(pull[i]) \in Pull
      BY <1>p, LimitAssumption DEF Totals, Pull
  <2> QED BY <2>1, <2>2 DEF InPhase, Pull
<1>6. CASE Reset(i) BY <1>p, <1>t, <1>6 DEF Reset, ResetOf, Pull
<1>7. CASE StartLayer(i) BY <1>p, <1>t, <1>7 DEF StartLayer, LayerStarted, Pull
<1>8. CASE FinishLayer(i) BY <1>p, <1>1, <1>8, FinishedState DEF FinishLayer, Report
<1>9. CASE DrainKnown(i) BY <1>p, <1>t, <1>9, FinishedState DEF DrainKnown
<1>10. CASE NotALayer(i) BY <1>1, <1>10 DEF NotALayer, Report
<1>11. CASE EndStream(i) BY <1>p, <1>1, <1>11 DEF EndStream, Report, InPhase, Pull
<1>12. CASE SetImage(i) BY <1>p, <1>1, <1>12 DEF SetImage, Report, Pull
<1>13. CASE Finish(i)
  <2>1. pull'[i] = Ended(i) BY <1>1, <1>13 DEF Finish, Report
  <2>2. ~pull[i].terminal => pull[i].ctx # "cancelled" BY <1>r, <1>p, NoPullAssumption DEF IndInv, RunsHavePulls, Running
  <2>3. ~pull[i].terminal => Outcome(i) # "cancelled" BY <2>2 DEF Outcome
  <2> QED BY <1>p, <2>1, <2>3 DEF Ended, Pull
<1> QED BY <1>2, <1>3, <1>4, <1>5, <1>6, <1>7, <1>8, <1>9, <1>10, <1>11, <1>12, <1>13
        DEF RunStep, Commit, Error, ReleaseSlot

\* What a launched pull ended as, it stays; and only a request that found it by
\* DELETE ever makes it a cancelled one.
LEMMA StateSteps ==
    ASSUME IndInv, [Next]_vars, NEW i \in Known
    PROVE  /\ i \in Terminal \cap Launched => pull'[i].terminal /\ pull'[i].state = pull[i].state
           /\ pull[i].state # "cancelled" /\ pull'[i].state = "cancelled" =>
                  \E c \in Caller : caller[c].pc = "mark" /\ caller[c].id = i
<1>t. pull[i] \in Pull BY DEF IndInv, TypeOK
<1>1. OwnStep(i) BY OwnSteps
<1>2. CASE UNCHANGED <<pull[i], run[i]>> BY <1>2
<1>3. CASE RunStep(i) BY <1>3, RunStepState
<1>4. CASE (\E c \in Caller : caller[c].pc = "mark" /\ caller[c].id = i) /\ pull'[i] = Marked(pull[i])
    BY <1>t, <1>4 DEF Marked
<1>5. CASE \E ctx \in {"live", "cancelled", "expired"} : pull'[i] = [pull[i] EXCEPT !.ctx = ctx]
    BY <1>t, <1>5 DEF Pull
<1>6. CASE /\ run[i].pc = "none"
           /\ pull'[i] = [pull[i] EXCEPT !.state = "done", !.image = TRUE, !.terminal = TRUE]
    BY <1>t, <1>6 DEF Pull
<1> QED BY <1>1, <1>2, <1>3, <1>4, <1>5, <1>6 DEF OwnStep

\* The outcome of a launched pull is final, whoever comes late.
THEOREM OutcomesAreFinal == Spec => OutcomeIsFinal
<1> DEFINE Final == \A i \in Terminal \cap Launched : pull'[i].terminal /\ pull'[i].state = pull[i].state
<1>1. IndInv /\ [Next]_vars => [Final]_vars BY StateSteps
<1> QED BY <1>1, Inductive, PTL DEF Spec, OutcomeIsFinal

\* A cancelled pull is one somebody asked to cancel, not one that timed out.
THEOREM CancelledOnRequest == Spec => OnlyDeleteCancels
<1> DEFINE Asked == \A i \in Known : pull[i].state # "cancelled" /\ pull'[i].state = "cancelled" =>
                        \E c \in Caller : caller[c].pc = "mark" /\ caller[c].id = i
<1>1. IndInv /\ [Next]_vars => [Asked]_vars BY StateSteps
<1> QED BY <1>1, Inductive, PTL DEF Spec, OnlyDeleteCancels

-------------------------------------------------------------------------------
(* Progress.                                                                 *)

\* What a run has counted so far, and what it has to show at its end.
Bound(i) == IF run[i].path = "save" THEN run[i].read ELSE pull[i].total
AllCounted(i) == run[i].path # "save" => pull[i].done = pull[i].total
Progress(i) ==
    /\ run[i].pc \in {"resolve", "fetch", "totals"} => pull[i].done = 0 /\ run[i].read = 0
    /\ run[i].pc \in {"resolve", "fetch"} => run[i].path # "save"
    /\ run[i].pc = "totals" => run[i].path = "save"
    /\ run[i].pc \in {"stream", "layer"} =>
          LET counted == pull[i].done + IF run[i].pc = "layer" THEN 1 ELSE 0
          IN  IF run[i].path = "save" THEN counted <= run[i].read
              ELSE counted = run[i].read /\ run[i].read <= LayerCount /\ pull[i].total = LayerCount
    /\ run[i].pc \in {"commit", "setImage"} => AllCounted(i)
    /\ run[i].pc = "finish" /\ ~run[i].err => pull[i].image /\ AllCounted(i)
    /\ run[i].pc # "reset" => pull[i].done <= Bound(i)
    /\ run[i].err => run[i].pc \in {"finish", "release", "exited"}
    /\ pull[i].state = "done" =>
          /\ pull[i].terminal /\ pull[i].image /\ ~pull[i].current
          /\ AllCounted(i) /\ run[i].pc \in {"release", "exited"}

\* It holds of every launched pull, and no other run has begun.
ProgressInv ==
    /\ \A i \in Launched : Progress(i)
    /\ \A i \in Id : run[i].pc = "none" => run[i] = NoRun

\* The start of a phase changes the state of a pull at most.
LEMMA InPhaseCounts ==
    ASSUME NEW p \in Pull, NEW s
    PROVE  /\ InPhase(p, s).done = p.done /\ InPhase(p, s).total = p.total
           /\ InPhase(p, s).image = p.image /\ InPhase(p, s).current = p.current
           /\ InPhase(p, s).terminal = p.terminal /\ InPhase(p, s).state \in {s, p.state}
BY DEF InPhase, Pull

\* A layer that ends is one more counted.
LEMMA FinishedCounts ==
    ASSUME NEW p \in Pull
    PROVE  /\ Finished(p).done = p.done + 1 /\ Finished(p).total = p.total
           /\ Finished(p).image = p.image /\ Finished(p).state = p.state
<1> DEFINE n == p.done + 1
<1>1. Finished(p) = [p EXCEPT !.done = n, !.current = FALSE] BY DEF Finished
<1> HIDE DEF n
<1>2. Finished(p).done = n /\ Finished(p).total = p.total
      /\ Finished(p).image = p.image /\ Finished(p).state = p.state
    BY <1>1 DEF Pull
<1> QED BY <1>2 DEF n

\* A step that is not the run's leaves its progress alone.
LEMMA ProgressKept ==
    ASSUME NEW i \in Id, Progress(i), run'[i] = run[i],
           pull'[i].done = pull[i].done, pull'[i].total = pull[i].total,
           pull'[i].image = pull[i].image, pull[i].terminal => pull'[i].terminal,
           pull'[i].current => pull[i].current,
           pull'[i].state \in {pull[i].state, "cancelled"}
    PROVE  Progress(i)'
BY DEF Progress, AllCounted, Bound

\* An error leaves nothing to show, but the counts.
LEMMA FailedProgress ==
    ASSUME IndInv, NEW i \in Running, Progress(i), run' = Failed(i), pull' = pull,
           run[i].pc \notin {"reset", "finish", "release"}
    PROVE  Progress(i)'
<1>t. run[i] \in Run /\ pull[i] \in Pull /\ run \in [Id -> Run] /\ i \in Id
    BY RunTyped DEF IndInv, TypeOK, Running
<1>1. pull[i].state # "done" BY DEF Progress, Running
<1>2. CASE run[i].path = "shortcut" /\ pull[i].ctx = "live"
  <2>1. run'[i].pc = "reset" /\ run'[i].path = "shortcut" /\ run'[i].err = run[i].err
      BY <1>t, <1>2 DEF Failed, Run
  <2>2. ~run[i].err BY <1>t DEF Progress, Running, Run
  <2> QED BY <1>1, <2>1, <2>2 DEF Progress
<1>3. CASE ~(run[i].path = "shortcut" /\ pull[i].ctx = "live")
  <2>1. /\ run'[i].pc = "finish" /\ run'[i].path = run[i].path /\ run'[i].err
        /\ run'[i].read = run[i].read
      BY <1>t, <1>3 DEF Failed, Run
  <2> QED BY <1>1, <2>1 DEF Progress, Bound
<1> QED BY <1>2, <1>3

\* A run's own steps.
LEMMA RunStepProgress ==
    ASSUME IndInv, NEW i \in Running, Progress(i), RunStep(i)
    PROVE  Progress(i)'
<1> DEFINE p == pull[i]
           r == run[i]
<1>t. /\ r \in Run /\ p \in Pull /\ run \in [Id -> Run] /\ pull \in [Id -> Pull \cup {None}] /\ i \in Id
      /\ p.done \in Nat /\ r.read \in Nat /\ p.total \in {0, LayerCount} /\ LayerCount \in Nat
    BY RunTyped, LimitAssumption DEF IndInv, TypeOK, Running, Pull, Run
<1>d. r.pc # "release" => p.state # "done" BY DEF Progress, Running
<1>e. r.pc \notin {"finish", "release", "exited"} => ~r.err BY <1>t DEF Progress, Run
<1>1. CASE Resolve(i)
  <2>1. r.pc = "resolve" /\ pull' = [pull EXCEPT ![i] = InPhase(@, "resolving")] BY <1>1 DEF Resolve
  <2>2. pull'[i] = InPhase(p, "resolving") BY <1>t, <2>1
  <2>3. PICK path \in {"registry", "shortcut", "save"} :
            run' = [run EXCEPT ![i].pc = IF path = "save" THEN "totals" ELSE "fetch", ![i].path = path]
      BY <1>1 DEF Resolve, Paths
  <2>4. /\ run'[i].pc = (IF path = "save" THEN "totals" ELSE "fetch") /\ run'[i].path = path
        /\ run'[i].read = r.read /\ run'[i].err = r.err
      BY <1>t, <2>3 DEF Run
  <2>5. /\ pull'[i].done = p.done /\ pull'[i].total = p.total /\ pull'[i].state # "done"
      BY <1>t, <1>d, <2>1, <2>2, InPhaseCounts
  <2>6. p.done = 0 /\ r.read = 0 BY <2>1 DEF Progress
  <2> QED BY <1>t, <1>e, <2>1, <2>4, <2>5, <2>6 DEF Progress, Bound
<1>2. CASE FetchKnown(i)
  <2> DEFINE n == p.done + LayerCount
  <2>1. /\ r.pc = "fetch" /\ run' = [run EXCEPT ![i].pc = "setImage"]
        /\ pull' = [pull EXCEPT ![i].total = LayerCount, ![i].done = n, ![i].current = FALSE]
      BY <1>2 DEF FetchKnown
  <2>2. p.done = 0 /\ r.path # "save" BY <2>1 DEF Progress
  <2>3. n = LayerCount BY <1>t, <2>2
  <2> HIDE DEF n
  <2>4. pull'[i].done = n /\ pull'[i].total = LayerCount /\ pull'[i].state = p.state
      BY <1>t, <2>1 DEF Pull
  <2>5. run'[i].pc = "setImage" /\ run'[i].path = r.path /\ run'[i].err = r.err
      BY <1>t, <2>1 DEF Run
  <2> QED BY <1>t, <1>d, <1>e, <2>1, <2>2, <2>3, <2>4, <2>5 DEF Progress, Bound, AllCounted
<1>3. CASE FetchManifest(i) \/ StartSave(i)
  <2>1. /\ r.pc \in {"fetch", "totals"} /\ run' = [run EXCEPT ![i].pc = "stream"]
        /\ pull' = [pull EXCEPT ![i] = InPhase(Totals(p), "running")]
      BY <1>3 DEF FetchManifest, StartSave, Report
  <2>2. /\ Totals(p) \in Pull /\ Totals(p).done = p.done /\ Totals(p).total = LayerCount
        /\ Totals(p).state = p.state
      BY <1>t DEF Totals, Pull
  <2>3. pull'[i] = InPhase(Totals(p), "running") BY <1>t, <2>1
  <2>4. pull'[i].done = p.done /\ pull'[i].total = LayerCount /\ pull'[i].state # "done"
      BY <1>d, <2>1, <2>2, <2>3, InPhaseCounts
  <2>5. /\ run'[i].pc = "stream" /\ run'[i].path = r.path /\ run'[i].err = r.err /\ run'[i].read = r.read
      BY <1>t, <2>1 DEF Run
  <2>6. p.done = 0 /\ r.read = 0 BY <2>1 DEF Progress
  <2> QED BY <1>t, <1>e, <2>1, <2>4, <2>5, <2>6 DEF Progress, Bound
<1>4. CASE Reset(i)
  <2>1. /\ r.pc = "reset" /\ run' = [run EXCEPT ![i].pc = "totals", ![i].path = "save", ![i].read = 0]
        /\ pull' = [pull EXCEPT ![i] = ResetOf(@)]
      BY <1>4 DEF Reset
  <2>2. pull'[i].done = 0 /\ pull'[i].state = p.state BY <1>t, <2>1 DEF ResetOf, Pull
  <2>3. run'[i].pc = "totals" /\ run'[i].path = "save" /\ run'[i].err = r.err /\ run'[i].read = 0
      BY <1>t, <2>1 DEF Run
  <2> QED BY <1>d, <1>e, <2>1, <2>2, <2>3 DEF Progress, Bound
<1>5. CASE StartLayer(i)
  <2> DEFINE n == r.read + 1
  <2>1. /\ r.pc = "stream" /\ r.read < IF r.path = "save" THEN MaxMembers ELSE LayerCount
        /\ run' = [run EXCEPT ![i].pc = "layer", ![i].read = n]
        /\ pull' = [pull EXCEPT ![i] = LayerStarted(@)]
      BY <1>5 DEF StartLayer, Another, Counted
  <2>2. n \in Nat /\ n = r.read + 1 BY <1>t
  <2> HIDE DEF n
  <2>3. run'[i].pc = "layer" /\ run'[i].path = r.path /\ run'[i].err = r.err /\ run'[i].read = n
      BY <1>t, <2>1 DEF Run
  <2>4. pull'[i].done = p.done /\ pull'[i].total = p.total /\ pull'[i].state = p.state
      BY <1>t, <2>1 DEF LayerStarted, Pull
  <2>5. CASE r.path = "save"
    <3>1. p.done <= r.read BY <1>t, <2>1, <2>5 DEF Progress
    <3>2. p.done + 1 <= n /\ p.done <= n BY <1>t, <2>2, <3>1
    <3> QED BY <1>d, <1>e, <2>1, <2>3, <2>4, <2>5, <3>2 DEF Progress, Bound
  <2>6. CASE r.path # "save"
    <3>1. p.done = r.read /\ p.total = LayerCount BY <1>t, <2>1, <2>6 DEF Progress
    <3>2. p.done + 1 = n /\ n <= LayerCount /\ p.done <= LayerCount BY <1>t, <2>1, <2>2, <2>6, <3>1
    <3> QED BY <1>d, <1>e, <2>1, <2>3, <2>4, <2>6, <3>1, <3>2 DEF Progress, Bound
  <2> QED BY <2>5, <2>6
<1>6. CASE FinishLayer(i)
  <2>1. /\ r.pc = "layer" /\ run' = [run EXCEPT ![i].pc = "stream"]
        /\ pull' = [pull EXCEPT ![i] = Finished(p)]
      BY <1>6 DEF FinishLayer, Report
  <2>2. run'[i].pc = "stream" /\ run'[i].path = r.path /\ run'[i].err = r.err /\ run'[i].read = r.read
      BY <1>t, <2>1 DEF Run
  <2>3. pull'[i] = Finished(p) BY <1>t, <2>1
  <2>4. pull'[i].done = p.done + 1 /\ pull'[i].total = p.total /\ pull'[i].state = p.state
      BY <1>t, <2>3, FinishedCounts
  <2>5. CASE r.path = "save"
    <3>1. pull'[i].done <= r.read BY <2>1, <2>4, <2>5 DEF Progress
    <3>2. pull'[i].done + 0 <= r.read BY <1>t, <2>4, <3>1
    <3> QED BY <1>d, <1>e, <2>1, <2>2, <2>4, <2>5, <3>1, <3>2 DEF Progress, Bound
  <2>6. CASE r.path # "save"
    <3>1. pull'[i].done = r.read /\ r.read <= LayerCount /\ pull'[i].total = LayerCount
        BY <2>1, <2>4, <2>6 DEF Progress
    <3>2. pull'[i].done + 0 = r.read BY <1>t, <2>4, <3>1
    <3> QED BY <1>d, <1>e, <2>1, <2>2, <2>4, <2>6, <3>1, <3>2 DEF Progress, Bound
  <2> QED BY <2>5, <2>6
<1>7. CASE NotALayer(i)
  <2>1. /\ r.pc = "layer" /\ r.path = "save" /\ run' = [run EXCEPT ![i].pc = "stream"]
        /\ pull' = [pull EXCEPT ![i] = p]
      BY <1>7 DEF NotALayer, Report
  <2>2. run'[i].pc = "stream" /\ run'[i].path = "save" /\ run'[i].err = r.err /\ run'[i].read = r.read
      BY <1>t, <2>1 DEF Run
  <2>3. pull'[i] = p BY <1>t, <2>1
  <2>4. p.done + 1 <= r.read BY <2>1 DEF Progress
  <2>5. p.done + 0 <= r.read /\ p.done <= r.read BY <1>t, <2>4
  <2> QED BY <1>d, <1>e, <2>1, <2>2, <2>3, <2>5 DEF Progress, Bound
<1>8. CASE DrainKnown(i)
  <2> DEFINE n == r.read + 1
  <2>1. /\ r.pc = "stream" /\ r.path = "save" /\ run' = [run EXCEPT ![i].read = n]
        /\ pull' = [pull EXCEPT ![i] = Finished(@)]
      BY <1>8 DEF DrainKnown, Another, Counted
  <2>2. n \in Nat /\ n = r.read + 1 BY <1>t
  <2> HIDE DEF n
  <2>3. run'[i].pc = "stream" /\ run'[i].path = "save" /\ run'[i].err = r.err /\ run'[i].read = n
      BY <1>t, <2>1 DEF Run
  <2>4. pull'[i] = Finished(p) BY <1>t, <2>1
  <2>5. pull'[i].done = p.done + 1 /\ pull'[i].state = p.state
      BY <1>t, <2>4, FinishedCounts
  <2>6. p.done + 0 <= r.read BY <2>1 DEF Progress
  <2>7. pull'[i].done <= n /\ pull'[i].done + 0 <= n BY <1>t, <2>2, <2>5, <2>6
  <2> QED BY <1>d, <1>e, <2>1, <2>3, <2>5, <2>7 DEF Progress, Bound
<1>9. CASE EndStream(i)
  <2>1. /\ r.pc = "stream" /\ (r.path # "save" => r.read = LayerCount)
        /\ run' = [run EXCEPT ![i].pc = "commit"]
        /\ pull' = [pull EXCEPT ![i] = InPhase(p, "running")]
      BY <1>9 DEF EndStream, Report
  <2>2. run'[i].pc = "commit" /\ run'[i].path = r.path /\ run'[i].err = r.err /\ run'[i].read = r.read
      BY <1>t, <2>1 DEF Run
  <2>3. pull'[i] = InPhase(p, "running") BY <1>t, <2>1
  <2>4. pull'[i].done = p.done /\ pull'[i].total = p.total /\ pull'[i].state # "done"
      BY <1>t, <1>d, <2>1, <2>3, InPhaseCounts
  <2>5. p.done <= Bound(i) BY <2>1 DEF Progress
  <2>6. r.path # "save" => p.done = p.total BY <1>t, <2>1 DEF Progress
  <2> QED BY <1>e, <2>1, <2>2, <2>4, <2>5, <2>6 DEF Progress, Bound, AllCounted
<1>10. CASE Commit(i)
  <2>1. r.pc = "commit" /\ pull' = pull /\ run' \in {[run EXCEPT ![i].pc = "setImage"], Failed(i)}
      BY <1>10 DEF Commit
  <2>2. CASE run' = Failed(i) BY <2>1, <2>2, FailedProgress
  <2>3. CASE run' = [run EXCEPT ![i].pc = "setImage"]
    <3>1. run'[i].pc = "setImage" /\ run'[i].path = r.path /\ run'[i].err = r.err /\ run'[i].read = r.read
        BY <1>t, <2>3 DEF Run
    <3> QED BY <1>d, <1>e, <2>1, <3>1 DEF Progress, Bound, AllCounted
  <2> QED BY <2>1, <2>2, <2>3
<1>11. CASE SetImage(i)
  <2>1. /\ r.pc = "setImage" /\ run' = [run EXCEPT ![i].pc = "finish"]
        /\ pull' = [pull EXCEPT ![i] = [p EXCEPT !.image = TRUE]]
      BY <1>11 DEF SetImage, Report
  <2>2. run'[i].pc = "finish" /\ run'[i].path = r.path /\ run'[i].err = r.err /\ run'[i].read = r.read
      BY <1>t, <2>1 DEF Run
  <2>3. pull'[i].done = p.done /\ pull'[i].total = p.total /\ pull'[i].state = p.state /\ pull'[i].image
      BY <1>t, <2>1 DEF Pull
  <2> QED BY <1>d, <1>e, <2>1, <2>2, <2>3 DEF Progress, Bound, AllCounted
<1>12. CASE Error(i)
    BY <1>12, FailedProgress DEF Error
<1>13. CASE Finish(i)
  <2>1. /\ r.pc = "finish" /\ run' = [run EXCEPT ![i].pc = "release"]
        /\ pull' = [pull EXCEPT ![i] = Ended(i)]
      BY <1>13 DEF Finish, Report
  <2>2. run'[i].pc = "release" /\ run'[i].path = r.path /\ run'[i].err = r.err /\ run'[i].read = r.read
      BY <1>t, <2>1 DEF Run
  <2>3. pull'[i] = Ended(i) BY <1>t, <2>1
  <2>4. CASE p.terminal
    <3>1. pull'[i] = p BY <2>3, <2>4 DEF Ended
    <3> QED BY <1>d, <2>1, <2>2, <3>1 DEF Progress, Bound, AllCounted
  <2>5. CASE ~p.terminal
    <3>1. /\ pull'[i].done = p.done /\ pull'[i].total = p.total /\ pull'[i].image = p.image
          /\ pull'[i].terminal /\ ~pull'[i].current /\ pull'[i].state = Outcome(i)
        BY <1>t, <2>3, <2>5 DEF Ended, Pull
    <3>2. Outcome(i) = "done" => ~r.err BY DEF Outcome
    <3> QED BY <2>1, <2>2, <3>1, <3>2 DEF Progress, Bound, AllCounted
  <2> QED BY <2>4, <2>5
<1>14. CASE ReleaseSlot(i)
  <2>1. r.pc = "release" /\ run' = [run EXCEPT ![i].pc = "exited"] /\ pull' = pull
      BY <1>14 DEF ReleaseSlot
  <2>2. run'[i].pc = "exited" /\ run'[i].path = r.path /\ run'[i].err = r.err /\ run'[i].read = r.read
      BY <1>t, <2>1 DEF Run
  <2> QED BY <2>1, <2>2 DEF Progress, Bound, AllCounted
<1> QED BY <1>1, <1>2, <1>3, <1>4, <1>5, <1>6, <1>7, <1>8, <1>9, <1>10, <1>11, <1>12, <1>13, <1>14
        DEF RunStep

\* Every step keeps it.
LEMMA ProgressStep ==
    ASSUME IndInv, ProgressInv, [Next]_vars
    PROVE  ProgressInv'
<1>t. TypeOK /\ run \in [Id -> Run] BY DEF IndInv, TypeOK
<1>1. ASSUME NEW i \in Id, i \in Launched' PROVE Progress(i)'
  <2>1. CASE i \in Launched
    <3>1. Progress(i) /\ pull[i] \in Pull BY <2>1 DEF ProgressInv, IndInv, TypeOK
    <3>2. OwnStep(i) BY <2>1, OwnSteps
    <3>3. CASE UNCHANGED <<pull[i], run[i]>> BY <3>1, <3>3, ProgressKept
    <3>4. CASE RunStep(i)
      <4>1. i \in Running
          BY <3>4 DEF Running, RunStep, Resolve, FetchKnown, FetchManifest, Reset, StartSave, StartLayer,
             FinishLayer, NotALayer, DrainKnown, EndStream, Commit, SetImage, Error, Finish, ReleaseSlot,
             Another
      <4> QED BY <3>1, <3>4, <4>1, RunStepProgress
    <3>5. CASE pull'[i] = Marked(pull[i]) /\ run'[i] = run[i]
      <4>1. /\ pull'[i].done = pull[i].done /\ pull'[i].total = pull[i].total
            /\ pull'[i].image = pull[i].image /\ (pull[i].terminal => pull'[i].terminal)
            /\ (pull'[i].current => pull[i].current)
            /\ pull'[i].state \in {pull[i].state, "cancelled"}
          BY <3>1, <3>5 DEF Marked, Pull
      <4> QED BY <3>1, <3>5, <4>1, ProgressKept
    <3>6. CASE /\ \E ctx \in {"live", "cancelled", "expired"} : pull'[i] = [pull[i] EXCEPT !.ctx = ctx]
               /\ run'[i] = run[i]
      <4>1. /\ pull'[i].done = pull[i].done /\ pull'[i].total = pull[i].total
            /\ pull'[i].image = pull[i].image /\ (pull[i].terminal => pull'[i].terminal)
            /\ (pull'[i].current => pull[i].current)
            /\ pull'[i].state \in {pull[i].state, "cancelled"}
          BY <3>1, <3>6 DEF Pull
      <4> QED BY <3>1, <3>6, <4>1, ProgressKept
    <3> QED BY <2>1, <3>2, <3>3, <3>4, <3>5, <3>6 DEF OwnStep
  <2>2. CASE i \notin Launched
    <3>1. run[i].pc = "none" BY <2>2 DEF IndInv, RunsHavePulls
    <3>2. run[i] = NoRun BY <3>1 DEF ProgressInv
    <3>3. run'[i] = [run[i] EXCEPT !.pc = "resolve"] /\ \E k \in Key : pull'[i] = NewPull(k)
        BY <1>1, <2>2, RunsStart
    <3>4. /\ run'[i].pc = "resolve" /\ run'[i].read = 0 /\ run'[i].path = "registry" /\ ~run'[i].err
        BY <3>2, <3>3 DEF NoRun
    <3>5. pull'[i].done = 0 /\ pull'[i].total = 0 /\ pull'[i].state = "resolving" BY <3>3 DEF NewPull
    <3> QED BY <3>4, <3>5 DEF Progress, Bound
  <2> QED BY <2>1, <2>2
<1>2. ASSUME NEW i \in Id, run'[i].pc = "none" PROVE run'[i] = NoRun
    BY <1>2, RunNotBegun DEF ProgressInv
<1> QED BY <1>1, <1>2 DEF ProgressInv

\* The counts of every run agree with what its pull shows.
LEMMA ProgressHolds == Spec => []ProgressInv
<1>1. Init => ProgressInv BY DEF Init, ProgressInv
<1>2. IndInv /\ ProgressInv /\ [Next]_vars => ProgressInv' BY ProgressStep
<1> QED BY <1>1, <1>2, Inductive, PTL DEF Spec

\* A pull that is reported done is over, shows its image and, from a registry,
\* all of its layers.
THEOREM DoneShowsAll == Spec => []DoneIsComplete
<1>1. ProgressInv => DoneIsComplete
    BY DEF ProgressInv, Progress, AllCounted, DoneIsComplete, Snapshot
<1> QED BY <1>1, ProgressHolds, PTL

\* A pull from a registry counts no more layers than the manifest has, a docker
\* save no more than the members of its own stream that have gone by: a fallback
\* leaves nothing the failed shortcut had counted.
THEOREM NoLayerTwice == Spec => []LayersCountedOnce
<1>1. ProgressInv => LayersCountedOnce
    BY DEF ProgressInv, Progress, Bound, LayersCountedOnce, Snapshot
<1> QED BY <1>1, ProgressHolds, PTL

-------------------------------------------------------------------------------
(* Why the runs end: a rank in the naturals falls with every step of a run,   *)
(* and no other step changes it.                                             *)

\* The blobs, or the members of a save stream, that may still come.
StreamLeft(r) == (IF r.path = "save" THEN MaxMembers ELSE LayerCount) - r.read

\* The steps a docker save takes after a fallback, at most.
FallbackSteps == 2 * MaxMembers + 7

\* The steps a run has before it, at most: a layer takes two, and a registry
\* shortcut may fail at its last step and leave everything to docker save.
StepsLeft(r) ==
    LET fallback == IF r.path = "shortcut" THEN FallbackSteps ELSE 0
    IN  CASE r.pc = "resolve" -> 2 * LayerCount + FallbackSteps + 7
          [] r.pc = "fetch" -> 2 * LayerCount + 6 + fallback
          [] r.pc = "reset" -> FallbackSteps
          [] r.pc = "totals" -> 2 * MaxMembers + 6
          [] r.pc = "stream" -> 2 * StreamLeft(r) + 5 + fallback
          [] r.pc = "layer" -> 2 * StreamLeft(r) + 6 + fallback
          [] r.pc = "commit" -> 4 + fallback
          [] r.pc = "setImage" -> 3
          [] r.pc = "finish" -> 2
          [] r.pc = "release" -> 1
          [] OTHER -> 0

\* A run never reads past its stream.
StreamsBounded == \A i \in Launched : StreamLeft(run[i]) \in Nat

\* Every step of a run leaves it fewer, and no other step changes how many.
RunsDescend ==
    [][\A i \in Running : /\ RunStep(i) => StepsLeft(run'[i]) < StepsLeft(run[i])
                          /\ ~RunStep(i) => run'[i] = run[i]]_vars

\* What is left is a natural number.
LEMMA StepsLeftIsNat ==
    ASSUME NEW r \in Run, StreamLeft(r) \in Nat
    PROVE  StepsLeft(r) \in Nat
<1>1. LayerCount \in Nat /\ MaxMembers \in Nat BY LimitAssumption
<1> QED BY <1>1 DEF StepsLeft, FallbackSteps

\* An error leaves a run the fallback of its shortcut, or its end.
LEMMA FailedFalls ==
    ASSUME TypeOK, NEW i \in Id, run' = Failed(i), StreamLeft(run[i]) \in Nat,
           run[i].pc \in {"resolve", "fetch", "totals", "stream", "layer", "commit"},
           run[i].pc = "totals" => run[i].path = "save"
    PROVE  StreamLeft(run'[i]) \in Nat /\ StepsLeft(run'[i]) < StepsLeft(run[i])
<1> DEFINE r == run[i]
           s == run'[i]
<1>1. LayerCount \in Nat /\ MaxMembers \in Nat BY LimitAssumption
<1>2. r \in Run /\ r.pc \in {"resolve", "fetch", "totals", "stream", "layer", "commit"}
      /\ StreamLeft(r) \in Nat /\ (r.pc = "totals" => r.path = "save")
    BY DEF TypeOK
<1>3. /\ s.path = r.path /\ s.read = r.read
      /\ \/ s.pc = "finish"
         \/ s.pc = "reset" /\ r.path = "shortcut"
    BY DEF Failed, TypeOK, Run
<1> HIDE DEF r, s
<1>4. StreamLeft(s) = StreamLeft(r) BY <1>3 DEF StreamLeft
<1>5. CASE s.pc = "finish"
  <2>1. StepsLeft(s) = 2 BY <1>5 DEF StepsLeft
  <2>2. StepsLeft(r) > 2 BY <1>1, <1>2 DEF StepsLeft, FallbackSteps
  <2> QED BY <1>2, <1>4, <2>1, <2>2 DEF r, s
<1>6. CASE s.pc = "reset" /\ r.path = "shortcut"
  <2>1. StepsLeft(s) = FallbackSteps BY <1>6 DEF StepsLeft
  <2>2. StepsLeft(r) > FallbackSteps
      BY <1>1, <1>2, <1>6 DEF StepsLeft, FallbackSteps
  <2> QED BY <1>2, <1>4, <2>1, <2>2 DEF r, s
<1> QED BY <1>3, <1>5, <1>6

\* A run's own steps.
LEMMA RunStepFalls ==
    ASSUME IndInv, NEW i \in Running, Progress(i), StreamLeft(run[i]) \in Nat, RunStep(i)
    PROVE  StreamLeft(run'[i]) \in Nat /\ StepsLeft(run'[i]) < StepsLeft(run[i])
<1> DEFINE r == run[i]
           s == run'[i]
<1>t. r \in Run /\ run \in [Id -> Run] /\ i \in Id /\ TypeOK
    BY RunTyped DEF IndInv, TypeOK, Running
<1>n. LayerCount \in Nat /\ MaxMembers \in Nat /\ r.read \in Nat /\ StreamLeft(r) \in Nat
    BY <1>t, LimitAssumption DEF Run
<1>p. /\ r.pc \in {"resolve", "fetch", "totals"} => r.read = 0
      /\ r.pc \in {"resolve", "fetch"} => r.path # "save"
      /\ r.pc = "totals" => r.path = "save"
    BY DEF Progress
<1>1. ASSUME Resolve(i)
      PROVE  StreamLeft(s) \in Nat /\ StepsLeft(s) < StepsLeft(r)
  <2>1. PICK path \in {"registry", "shortcut", "save"} :
            run' = [run EXCEPT ![i].pc = IF path = "save" THEN "totals" ELSE "fetch", ![i].path = path]
      BY <1>1 DEF Resolve, Paths
  <2>2. /\ s.pc = (IF path = "save" THEN "totals" ELSE "fetch") /\ s.path = path /\ s.read = r.read
        /\ r.pc = "resolve"
      BY <1>1, <1>t, <2>1 DEF Resolve, Run
  <2> HIDE DEF r, s
  <2>3. s.read = 0 BY <1>p, <2>2
  <2>4. StreamLeft(s) \in Nat BY <1>n, <2>3 DEF StreamLeft
  <2> QED BY <1>n, <2>2, <2>4 DEF StepsLeft, FallbackSteps
<1>2. ASSUME FetchKnown(i) \/ SetImage(i) \/ Finish(i) \/ ReleaseSlot(i) \/ EndStream(i)
      PROVE  StreamLeft(s) \in Nat /\ StepsLeft(s) < StepsLeft(r)
  <2>1. /\ \/ r.pc = "fetch" /\ s.pc = "setImage"
           \/ r.pc = "setImage" /\ s.pc = "finish"
           \/ r.pc = "finish" /\ s.pc = "release"
           \/ r.pc = "release" /\ s.pc = "exited"
           \/ r.pc = "stream" /\ s.pc = "commit"
        /\ s.path = r.path /\ s.read = r.read
      BY <1>2, <1>t DEF FetchKnown, SetImage, Finish, ReleaseSlot, EndStream, Report, Run
  <2> HIDE DEF r, s
  <2>2. StreamLeft(s) = StreamLeft(r) BY <2>1 DEF StreamLeft
  <2> QED BY <1>n, <2>1, <2>2 DEF StepsLeft, FallbackSteps
<1>3. ASSUME FetchManifest(i) \/ StartSave(i)
      PROVE  StreamLeft(s) \in Nat /\ StepsLeft(s) < StepsLeft(r)
  <2>1. r.pc \in {"fetch", "totals"} /\ s.pc = "stream" /\ s.path = r.path /\ s.read = r.read
      BY <1>3, <1>t DEF FetchManifest, StartSave, Report, Run
  <2> HIDE DEF r, s
  <2>2. StreamLeft(s) = IF r.path = "save" THEN MaxMembers ELSE LayerCount
      BY <1>n, <1>p, <2>1 DEF StreamLeft
  <2> QED BY <1>n, <1>p, <2>1, <2>2 DEF StepsLeft, FallbackSteps
<1>4. ASSUME Reset(i)
      PROVE  StreamLeft(s) \in Nat /\ StepsLeft(s) < StepsLeft(r)
  <2>1. r.pc = "reset" /\ s.pc = "totals" /\ s.path = "save" /\ s.read = 0
      BY <1>4, <1>t DEF Reset, Run
  <2> HIDE DEF r, s
  <2> QED BY <1>n, <2>1 DEF StepsLeft, FallbackSteps, StreamLeft
<1>5. ASSUME StartLayer(i) \/ DrainKnown(i)
      PROVE  StreamLeft(s) \in Nat /\ StepsLeft(s) < StepsLeft(r)
  <2> DEFINE n == r.read + 1
  <2>1. /\ r.pc = "stream" /\ r.read < IF r.path = "save" THEN MaxMembers ELSE LayerCount
        /\ \/ run' = [run EXCEPT ![i].pc = "layer", ![i].read = n]
           \/ run' = [run EXCEPT ![i].read = n]
      BY <1>5 DEF StartLayer, DrainKnown, Another, Counted
  <2>2. n = r.read + 1 OBVIOUS
  <2> HIDE DEF n
  <2>3. s.pc \in {"layer", "stream"} /\ s.path = r.path /\ s.read = n
      BY <1>t, <2>1 DEF Run
  <2> HIDE DEF r, s
  <2>4. StreamLeft(s) = StreamLeft(r) - 1 /\ StreamLeft(r) > 0
      BY <1>n, <2>1, <2>2, <2>3 DEF StreamLeft
  <2>5. StreamLeft(s) \in Nat BY <1>n, <2>4
  <2> QED BY <1>n, <2>1, <2>3, <2>4, <2>5 DEF StepsLeft, FallbackSteps
<1>6. ASSUME FinishLayer(i) \/ NotALayer(i)
      PROVE  StreamLeft(s) \in Nat /\ StepsLeft(s) < StepsLeft(r)
  <2>1. r.pc = "layer" /\ s.pc = "stream" /\ s.path = r.path /\ s.read = r.read
      BY <1>6, <1>t DEF FinishLayer, NotALayer, Report, Run
  <2> HIDE DEF r, s
  <2>2. StreamLeft(s) = StreamLeft(r) BY <2>1 DEF StreamLeft
  <2> QED BY <1>n, <2>1, <2>2 DEF StepsLeft, FallbackSteps
<1>7. ASSUME Commit(i)
      PROVE  StreamLeft(s) \in Nat /\ StepsLeft(s) < StepsLeft(r)
  <2>1. CASE run' = Failed(i) BY <1>7, <1>p, <1>n, <1>t, <2>1, FailedFalls DEF Commit
  <2>2. CASE run' = [run EXCEPT ![i].pc = "setImage"]
    <3>1. r.pc = "commit" /\ s.pc = "setImage" /\ s.path = r.path /\ s.read = r.read
        BY <1>7, <1>t, <2>2 DEF Commit, Run
    <3> HIDE DEF r, s
    <3>2. StreamLeft(s) = StreamLeft(r) BY <3>1 DEF StreamLeft
    <3> QED BY <1>n, <3>1, <3>2 DEF StepsLeft, FallbackSteps
  <2> QED BY <1>7, <2>1, <2>2 DEF Commit
<1>8. ASSUME Error(i)
      PROVE  StreamLeft(s) \in Nat /\ StepsLeft(s) < StepsLeft(r)
    BY <1>8, <1>p, <1>n, <1>t, FailedFalls DEF Error
<1> HIDE DEF r, s
<1>9. StreamLeft(s) \in Nat /\ StepsLeft(s) < StepsLeft(r)
    BY <1>1, <1>2, <1>3, <1>4, <1>5, <1>6, <1>7, <1>8 DEF RunStep
<1> QED BY <1>9 DEF r, s

\* A run that is not over takes a step of its own or stays where it is.
LEMMA RunsMoveAlone ==
    ASSUME IndInv, [Next]_vars, NEW i \in Launched, ~RunStep(i)
    PROVE  run'[i] = run[i]
BY OwnSteps DEF OwnStep

\* No step makes a run read past its stream.
LEMMA NextBounded ==
    IndInv /\ ProgressInv /\ StreamsBounded /\ [Next]_vars => StreamsBounded'
<1> SUFFICES ASSUME IndInv, ProgressInv, StreamsBounded, [Next]_vars, NEW i \in Id, i \in Launched'
             PROVE  StreamLeft(run'[i]) \in Nat
    BY DEF StreamsBounded
<1>t. run \in [Id -> Run] BY DEF IndInv, TypeOK
<1>1. CASE i \in Launched
  <2>1. CASE RunStep(i)
    <3>1. i \in Running
        BY <2>1 DEF Running, RunStep, Resolve, FetchKnown, FetchManifest, Reset, StartSave, StartLayer,
           FinishLayer, NotALayer, DrainKnown, EndStream, Commit, SetImage, Error, Finish, ReleaseSlot,
           Another
    <3> QED BY <1>1, <2>1, <3>1, RunStepFalls DEF ProgressInv, StreamsBounded
  <2>2. CASE ~RunStep(i) BY <1>1, <2>2, RunsMoveAlone DEF StreamsBounded
  <2> QED BY <2>1, <2>2
<1>2. CASE i \notin Launched
  <2>1. run[i].pc = "none" BY <1>2 DEF IndInv, RunsHavePulls
  <2>2. run[i] = NoRun BY <2>1 DEF ProgressInv
  <2>3. run'[i] = [run[i] EXCEPT !.pc = "resolve"] BY <1>2, RunsStart
  <2>4. run'[i].read = 0 BY <2>2, <2>3 DEF NoRun
  <2> QED BY <2>4, LimitAssumption DEF StreamLeft
<1> QED BY <1>1, <1>2

\* A run reads its stream to the end at most, whatever fails and wherever it
\* falls back.
LEMMA BoundedAlways == Spec => []StreamsBounded
<1>1. Init => StreamsBounded BY DEF Init, StreamsBounded
<1> QED BY <1>1, NextBounded, ProgressHolds, Inductive, PTL DEF Spec

\* A run takes finitely many steps, over either path and with a fallback between
\* them: what is left for it is a natural number, each of its steps lowers it,
\* and DELETE, the deadline and other pulls leave it alone.
THEOREM RunsAlwaysDescend ==
    Spec => [](\A i \in Running : StepsLeft(run[i]) \in Nat) /\ RunsDescend
<1>r. ASSUME IndInv PROVE Running \subseteq Launched
    BY <1>r DEF Running, IndInv, RunsHavePulls
<1>1. IndInv /\ StreamsBounded => \A i \in Running : StepsLeft(run[i]) \in Nat
  <2> SUFFICES ASSUME IndInv, StreamsBounded, NEW i \in Running
               PROVE  StepsLeft(run[i]) \in Nat
      OBVIOUS
  <2>1. run[i] \in Run /\ StreamLeft(run[i]) \in Nat
      BY <1>r DEF IndInv, TypeOK, Running, StreamsBounded
  <2> QED BY <2>1, StepsLeftIsNat
<1>2. IndInv /\ ProgressInv /\ StreamsBounded /\ [Next]_vars =>
        [\A i \in Running : /\ RunStep(i) => StepsLeft(run'[i]) < StepsLeft(run[i])
                            /\ ~RunStep(i) => run'[i] = run[i]]_vars
  <2> SUFFICES ASSUME IndInv, ProgressInv, StreamsBounded, [Next]_vars, NEW i \in Running
               PROVE  /\ RunStep(i) => StepsLeft(run'[i]) < StepsLeft(run[i])
                      /\ ~RunStep(i) => run'[i] = run[i]
      OBVIOUS
  <2>1. i \in Launched BY <1>r
  <2> QED BY <2>1, RunStepFalls, RunsMoveAlone DEF ProgressInv, StreamsBounded
<1> QED BY <1>1, <1>2, BoundedAlways, ProgressHolds, Inductive, PTL DEF Spec, RunsDescend
===============================================================================
