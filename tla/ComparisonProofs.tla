---------------------------- MODULE ComparisonProofs ----------------------------
(***************************************************************************)
(* The comparison cache and its requests agree, for every value of the     *)
(* constants: IndInv is inductive.  What it says of the requests is said   *)
(* one request at a time (RequestsSound), so that a step of one request    *)
(* need only be followed there, at those that wait for it, and in the      *)
(* cache (OneRequestInv).  Last, why requests are answered.                *)
(***************************************************************************)
EXTENDS Comparison, SequenceTheorems, TLAPS

USE DEF cache

-------------------------------------------------------------------------------
(* Operators.                                                                *)

\* What an outcome is not.
LEMMA OutcomesDiffer ==
    /\ \A cmp \in Built : Found(cmp) \in Outcome /\ Found(cmp) # None /\ Found(cmp) # Cancelled
                          /\ Found(cmp).kind = "found" /\ Found(cmp).cmp = cmp
    /\ \A i \in Image : NotFound(i) \in Outcome /\ NotFound(i) # None /\ NotFound(i) # Cancelled
                        /\ NotFound(i).kind = "notFound" /\ NotFound(i).image = i
    /\ Internal \in Outcome /\ Internal # None /\ Internal # Cancelled /\ Internal.kind = "internal"
    /\ Cancelled \in Outcome /\ Cancelled # None /\ Cancelled.kind = "cancelled"
<1>1. /\ \A cmp \in Built : Found(cmp) \in Outcome /\ Found(cmp).kind = "found" /\ Found(cmp).cmp = cmp
      /\ \A i \in Image : NotFound(i) \in Outcome /\ NotFound(i).kind = "notFound" /\ NotFound(i).image = i
      /\ Internal \in Outcome /\ Internal.kind = "internal"
      /\ Cancelled \in Outcome /\ Cancelled.kind = "cancelled"
    BY DEF Found, NotFound, Internal, Cancelled, Outcome
<1> QED BY <1>1, NoOutcomeAssumption

\* A promoted entry comes first; the others keep their order.
LEMMA PromotedEntries ==
    ASSUME entries \in Seq(Built), NEW n \in DOMAIN entries
    PROVE  /\ Promoted(n) \in Seq(Built) /\ Len(Promoted(n)) = Len(entries)
           /\ \A m \in 1..Len(entries) :
                Promoted(n)[m] = IF m = 1 THEN entries[n]
                                 ELSE IF m <= n THEN entries[m-1] ELSE entries[m]
<1> DEFINE N == Len(entries)
           lo == SubSeq(entries, 1, n-1)
           hi == SubSeq(entries, n+1, N)
<1>1. N \in Nat /\ n \in 1..N /\ DOMAIN entries = 1..N /\ \A m \in 1..N : entries[m] \in Built
    BY LenProperties, ElementOfSeq
<1>2. /\ lo \in Seq(Built) /\ Len(lo) = n-1
      /\ \A i \in 1..n-1 : lo[i] = entries[i]
  <2>1. \A i \in 1 .. n-1 : entries[i] \in Built BY <1>1
  <2>2. 1 \in Int /\ n-1 \in Int BY <1>1
  <2> QED BY <1>1, <2>1, <2>2, SubSeqProperties
<1>3. /\ hi \in Seq(Built) /\ Len(hi) = N-n
      /\ \A i \in 1..N-n : hi[i] = entries[n+i]
  <2>1. \A i \in n+1 .. N : entries[i] \in Built BY <1>1
  <2>2. n+1 \in Int /\ N \in Int BY <1>1
  <2>3. /\ hi \in Seq(Built) /\ Len(hi) = IF n+1 <= N THEN N-(n+1)+1 ELSE 0
        /\ \A i \in 1..N-(n+1)+1 : hi[i] = entries[n+1+i-1]
      BY <2>1, <2>2, SubSeqProperties
  <2>4. ASSUME NEW i \in 1..N-n PROVE hi[i] = entries[n+i]
    <3>1. i \in 1..N-(n+1)+1 /\ n+1+i-1 = n+i BY <1>1
    <3>2. hi[i] = entries[n+1+i-1] BY <2>3, <3>1
    <3> QED BY <3>1, <3>2
  <2>5. N-(n+1)+1 = N-n /\ (n+1 <= N \/ N-n = 0) BY <1>1
  <2> HIDE DEF hi
  <2> QED BY <1>1, <2>3, <2>4, <2>5
<1> HIDE DEF lo, hi
<1>4. /\ lo \o hi \in Seq(Built) /\ Len(lo \o hi) = N-1
      /\ \A i \in 1..N-1 : (lo \o hi)[i] = IF i <= n-1 THEN lo[i] ELSE hi[i-(n-1)]
  <2>1. /\ lo \o hi \in Seq(Built) /\ Len(lo \o hi) = Len(lo) + Len(hi)
        /\ \A i \in 1..Len(lo)+Len(hi) :
              (lo \o hi)[i] = IF i <= Len(lo) THEN lo[i] ELSE hi[i - Len(lo)]
      BY <1>2, <1>3, ConcatProperties
  <2>2. Len(lo) = n-1 /\ Len(lo) + Len(hi) = N-1 BY <1>1, <1>2, <1>3
  <2> QED BY <2>1, <2>2
<1>5. <<entries[n]>> \in Seq(Built) /\ Len(<<entries[n]>>) = 1 /\ <<entries[n]>>[1] = entries[n]
    BY <1>1
<1>6. Promoted(n) = <<entries[n]>> \o (lo \o hi) BY DEF Promoted, RemoveAt, lo, hi
<1>7. /\ Promoted(n) \in Seq(Built) /\ Len(Promoted(n)) = N
      /\ \A m \in 1..N : Promoted(n)[m] = IF m <= 1 THEN entries[n] ELSE (lo \o hi)[m-1]
  <2> DEFINE e == <<entries[n]>>
             t == lo \o hi
  <2>1. e \in Seq(Built) /\ Len(e) = 1 /\ e[1] = entries[n] BY <1>5
  <2>2. t \in Seq(Built) /\ Len(t) = N-1 BY <1>4
  <2> HIDE DEF e, t
  <2>3. /\ e \o t \in Seq(Built) /\ Len(e \o t) = Len(e) + Len(t)
        /\ \A m \in 1..Len(e)+Len(t) : (e \o t)[m] = IF m <= Len(e) THEN e[m] ELSE t[m - Len(e)]
      BY <2>1, <2>2, ConcatProperties
  <2>4. Promoted(n) = e \o t BY <1>6 DEF e, t
  <2>5. Len(e) + Len(t) = N BY <1>1, <2>1, <2>2
  <2>6. \A m \in 1..N : Promoted(n)[m] = IF m <= 1 THEN entries[n] ELSE t[m-1]
      BY <2>1, <2>3, <2>4, <2>5
  <2>7. Promoted(n) \in Seq(Built) /\ Len(Promoted(n)) = N BY <2>3, <2>4, <2>5
  <2> QED BY <2>6, <2>7 DEF t
<1>8. ASSUME NEW m \in 1..N
      PROVE  Promoted(n)[m] = IF m = 1 THEN entries[n]
                              ELSE IF m <= n THEN entries[m-1] ELSE entries[m]
  <2>1. CASE m = 1 BY <1>1, <1>7, <2>1
  <2>2. CASE m # 1
    <3>1. m-1 \in 1..N-1 /\ Promoted(n)[m] = (lo \o hi)[m-1]
      <4>1. m-1 \in 1..N-1 /\ ~(m <= 1) BY <1>1, <2>2
      <4> QED BY <1>7, <4>1
    <3>2. (lo \o hi)[m-1] = IF m-1 <= n-1 THEN lo[m-1] ELSE hi[(m-1)-(n-1)]
        BY <1>4, <3>1
    <3>3. CASE m <= n
      <4>1. m-1 \in 1..n-1 /\ m-1 <= n-1 BY <1>1, <3>1, <3>3
      <4> QED BY <1>2, <2>2, <3>1, <3>2, <3>3, <4>1
    <3>4. CASE ~(m <= n)
      <4>1. ~(m-1 <= n-1) /\ (m-1)-(n-1) = m-n /\ m-n \in 1..N-n /\ n + (m-n) = m
          BY <1>1, <3>4
      <4> QED BY <1>3, <2>2, <3>1, <3>2, <3>4, <4>1
    <3> QED BY <3>3, <3>4
  <2> QED BY <2>1, <2>2
<1> QED BY <1>7, <1>8

\* A new entry comes first, and the last one goes if there are too many.
LEMMA InsertedEntries ==
    ASSUME entries \in Seq(Built), NEW cmp \in Built, Entry(cmp.key) = {}
    PROVE  /\ Inserted(cmp) \in Seq(Built)
           /\ Len(Inserted(cmp)) = IF Len(entries) < Capacity THEN Len(entries) + 1 ELSE Capacity
           /\ \A m \in 1..Len(Inserted(cmp)) :
                /\ m <= Len(entries) + 1
                /\ Inserted(cmp)[m] = IF m = 1 THEN cmp ELSE entries[m-1]
<1> DEFINE N == Len(entries)
           e == <<cmp>>
           s == e \o entries
           c == IF N < Capacity THEN N + 1 ELSE Capacity
<1>1. N \in Nat /\ Capacity \in Nat \ {0} /\ c \in 1..N+1 BY LenProperties, CapacityAssumption
<1>2. e \in Seq(Built) /\ Len(e) = 1 /\ e[1] = cmp OBVIOUS
<1> HIDE DEF e
<1>3. /\ s \in Seq(Built) /\ Len(s) = N + 1
      /\ \A m \in 1..N+1 : s[m] = IF m = 1 THEN cmp ELSE entries[m-1]
  <2>1. /\ s \in Seq(Built) /\ Len(s) = Len(e) + N
        /\ \A m \in 1..Len(e)+N : s[m] = IF m <= Len(e) THEN e[m] ELSE entries[m - Len(e)]
      BY <1>2, ConcatProperties
  <2> QED BY <1>1, <1>2, <2>1
<1>4. Inserted(cmp) = SubSeq(s, 1, c) BY DEF Inserted, e
<1> HIDE DEF s, c
<1>5. \A i \in 1..c : s[i] \in Built BY <1>1, <1>3, ElementOfSeq
<1>6. /\ SubSeq(s, 1, c) \in Seq(Built) /\ Len(SubSeq(s, 1, c)) = c
      /\ \A i \in 1..c : SubSeq(s, 1, c)[i] = s[i]
  <2>1. 1 \in Int /\ c \in Int BY <1>1
  <2>2. /\ SubSeq(s, 1, c) \in Seq(Built)
        /\ Len(SubSeq(s, 1, c)) = IF 1 <= c THEN c-1+1 ELSE 0
        /\ \A i \in 1..c-1+1 : SubSeq(s, 1, c)[i] = s[1+i-1]
      BY <1>5, <2>1, SubSeqProperties
  <2> QED BY <1>1, <2>2
<1> QED BY <1>1, <1>3, <1>4, <1>6 DEF c

-------------------------------------------------------------------------------
(* One lemma for each action: it keeps the invariant.                        *)

\* What a step of one request leaves alone.
Others(r) == req' \in [Request -> Handler] /\ \A s \in Request \ {r} : req'[s] = req[s]

\* An update of one request.
LEMMA OneRequest ==
    ASSUME TypeOK, NEW r \in Request, NEW h \in Handler, req' = [req EXCEPT ![r] = h]
    PROVE  Others(r) /\ req'[r] = h
BY DEF TypeOK, Others

\* The key of a request that is under way.
LEMMA KeyOf ==
    ASSUME IndInv, NEW r \in Request, req[r].pc # "idle"
    PROVE  /\ req[r].key \in Key /\ req[r].key.left \in Image /\ req[r].key.right \in Image
           /\ req[r].key.leftLayers \in 0..Len(Stack[req[r].key.left])
           /\ req[r].key.rightLayers \in 0..Len(Stack[req[r].key.right])
BY KeyAssumption, StackAssumption DEF IndInv, AppliedInOrder, Selection

\* What the invariant says of one request by itself.
Member(r) == req[r].pc \in {"load", "open", "publish"}
Leading(r) == req[r].pc \in {"load", "open", "publish", "close"} \/ req[r].closed
Outcomes(r) ==
    /\ req[r].out # None /\ req[r].out.kind = "found" =>
            req[r].out.cmp.key = req[r].key /\ Whole(req[r].out.cmp)
    /\ req[r].out = Cancelled => r \in gone
    /\ req[r].pc \in {"publish", "close"} \/ req[r].closed => req[r].out \notin {None, Cancelled}
    /\ req[r].pc \in {"idle", "left", "right", "lookup", "wait", "load", "open"} => req[r].out = None
Applied(r) ==
    req[r].pc # "idle" =>
        LET k == req[r].key
        IN  /\ k \in Key
            /\ req[r].pc = "open" => Pending(r) # "none"
            /\ Len(req[r].left) <= k.leftLayers /\ Len(req[r].right) <= k.rightLayers
            /\ req[r].left = SubSeq(Stack[k.left], 1, Len(req[r].left))
            /\ req[r].right = SubSeq(Stack[k.right], 1, Len(req[r].right))
Waiting(r) ==
    /\ req[r].pc = "wait" =>
          req[r].on \in Request /\ req[req[r].on].key = req[r].key /\ Leading(req[r].on)
    /\ req[r].pc # "wait" => req[r].on = None
    /\ req[r].closed => req[r].pc = "answered"

RequestsSound == \A r \in Request : Outcomes(r) /\ Applied(r) /\ Waiting(r)

\* A request that got its own comparison, whole, has what it may have.
LEMMA FoundOwn ==
    ASSUME NEW r \in Request, NEW cmp \in Built, Whole(cmp), cmp.key = req'[r].key,
           req'[r].out = Found(cmp), req'[r].pc \in {"publish", "answered"}
    PROVE  Outcomes(r)'
<1>1. PICK f : f = Found(cmp) OBVIOUS
<1>2. f # None /\ f # Cancelled /\ f.kind = "found" /\ f.cmp = cmp BY <1>1, OutcomesDiffer
<1>3. req'[r].out = f BY <1>1
<1>4. \A c : c = cmp => Whole(c) OBVIOUS
<1> QED BY <1>2, <1>3, <1>4 DEF Outcomes, Whole

\* Which is the invariant, together with what it says of the cache.
LEMMA IndInvSplit ==
    IndInv <=> TypeOK /\ AssembledOnce /\ FlightHasLeader /\ EntriesSound /\ RequestsSound
BY DEF RequestsSound, IndInv, AnswersMatch, OnlyOwnClientCancels, WaitersHaveLeaders, OutcomesSet,
       AppliedInOrder, Outcomes, Applied, Waiting, Leading

\* A step of one request keeps the invariant if it keeps what it says of that
\* request, of those that wait for it, and of the cache.
LEMMA OneRequestInv ==
    ASSUME IndInv, NEW r \in Request, Others(r),
           Outcomes(r)', Applied(r)', Waiting(r)',
           \A w \in Request : req[w].pc = "wait" /\ req[w].on = r /\ w # r =>
                req'[r].key = req[r].key /\ (Leading(r) => Leading(r)'),
           gone' \subseteq Request, gone \subseteq gone' \cup {r},
           entries' \in Seq(Built), inflight' \in [Key -> Request \cup {None}],
           AssembledOnce', FlightHasLeader', EntriesSound'
    PROVE  IndInv'
<1>1. TypeOK' BY DEF TypeOK, Others
<1>2. ASSUME NEW s \in Request, s # r PROVE (Outcomes(s) /\ Applied(s) /\ Waiting(s))'
  <2>1. req'[s] = req[s] BY <1>2 DEF Others
  <2>2. Outcomes(s) /\ Applied(s) /\ Waiting(s) BY IndInvSplit DEF RequestsSound
  <2>3. Outcomes(s)' BY <1>2, <2>1, <2>2 DEF Outcomes, Whole
  <2>4. Applied(s)' BY <2>1, <2>2 DEF Applied, Pending
  <2>5. Waiting(s)'
    <3>1. CASE req[s].pc = "wait" /\ req[s].on = r
        BY <1>2, <2>1, <2>2, <3>1 DEF Waiting
    <3>2. CASE req[s].pc = "wait" /\ req[s].on # r
        BY <2>1, <2>2, <3>2 DEF Waiting, Others, Leading
    <3>3. CASE req[s].pc # "wait" BY <2>1, <2>2, <3>3 DEF Waiting
    <3> QED BY <3>1, <3>2, <3>3
  <2> QED BY <2>3, <2>4, <2>5
<1>3. RequestsSound' BY <1>2 DEF RequestsSound
<1> QED BY <1>1, <1>3, IndInvSplit, PTL

\* A step that neither joins nor leaves an assembly keeps what the invariant
\* says of the cache.
LEMMA SameAssemblies ==
    ASSUME IndInv, NEW r \in Request, Others(r), UNCHANGED <<entries, inflight>>,
           Member(r) <=> Member(r)', Member(r) => req'[r].key = req[r].key
    PROVE  /\ entries' \in Seq(Built) /\ inflight' \in [Key -> Request \cup {None}]
           /\ AssembledOnce' /\ FlightHasLeader' /\ EntriesSound'
<1>1. \A k \in Key : Assembling(k)' = Assembling(k) BY DEF Assembling, Member, Others
<1> QED BY <1>1 DEF IndInv, TypeOK, AssembledOnce, FlightHasLeader, EntriesSound, Entry, Whole

\* A slot nobody uses.
LEMMA IdleTyped == Idle \in Handler
<1>1. <<>> \in Seq(Layer) OBVIOUS
<1> QED BY <1>1 DEF Idle, Handler, Pc

\* A request that arrives assembles nothing yet.
LEMMA ArriveInv ==
    ASSUME IndInv, NEW r \in Request, NEW k \in Key, Arrive(r, k)
    PROVE  IndInv'
<1> DEFINE h == [Idle EXCEPT !.pc = "left", !.key = k]
<1>h. h \in Handler BY IdleTyped DEF Handler, Pc
<1>v. /\ h.pc = "left" /\ h.key = k /\ h.on = None /\ h.left = <<>> /\ h.right = <<>>
      /\ h.closed = FALSE /\ h.out = None
    BY DEF Idle
<1> HIDE DEF h
<1>r. /\ Others(r) /\ req'[r] = h /\ req[r].pc = "idle" /\ UNCHANGED <<entries, inflight, gone>>
    BY <1>h, OneRequest DEF Arrive, IndInv, h
<1>1. Outcomes(r)' BY <1>r, <1>v, OutcomesDiffer DEF Outcomes
<1>2. Applied(r)'
  <2>1. Len(<<>>) = 0 /\ \A q : SubSeq(q, 1, 0) = <<>> BY SubSeqEmpty
  <2>2. k.leftLayers \in Nat /\ k.rightLayers \in Nat BY KeyAssumption DEF Selection
  <2> QED BY <1>r, <1>v, <2>1, <2>2 DEF Applied
<1>3. Waiting(r)' BY <1>r, <1>v DEF Waiting
<1>4. ~Leading(r) BY <1>r DEF Leading, IndInv, WaitersHaveLeaders
<1>5. \A w \in Request : req[w].pc = "wait" => req[w].on # r
    BY <1>4 DEF IndInv, WaitersHaveLeaders, Leading
<1>6. ~Member(r) /\ ~Member(r)' BY <1>r, <1>v DEF Member
<1> QED BY <1>r, <1>1, <1>2, <1>3, <1>5, <1>6, SameAssemblies, OneRequestInv DEF IndInv, TypeOK

\* Answering a request, with the outcome it then has.
LEMMA AnswerStep ==
    ASSUME TypeOK, NEW r \in Request, NEW out \in Outcome, Answer(r, out)
    PROVE  /\ Others(r)
           /\ req'[r].pc = "answered" /\ req'[r].out = out
           /\ req'[r].key = req[r].key /\ req'[r].on = req[r].on /\ req'[r].closed = req[r].closed
           /\ req'[r].left = req[r].left /\ req'[r].right = req[r].right
<1> DEFINE h == [req[r] EXCEPT !.pc = "answered", !.out = out]
<1>1. req[r] \in Handler /\ req \in [Request -> Handler] BY DEF TypeOK
<1>2. h \in Handler BY <1>1 DEF Handler, Pc
<1>3. req' = [req EXCEPT ![r] = h] BY <1>1 DEF Answer
<1>4. /\ h.pc = "answered" /\ h.out = out
      /\ h.key = req[r].key /\ h.on = req[r].on /\ h.closed = req[r].closed
      /\ h.left = req[r].left /\ h.right = req[r].right
    BY <1>1 DEF Handler
<1> HIDE DEF h
<1> QED BY <1>2, <1>3, <1>4, OneRequest

\* Moving a request on, with nothing else changed.
LEMMA GotoStep ==
    ASSUME TypeOK, NEW r \in Request, NEW pc \in Pc, req' = [req EXCEPT ![r].pc = pc]
    PROVE  /\ Others(r)
           /\ req'[r].pc = pc /\ req'[r].out = req[r].out
           /\ req'[r].key = req[r].key /\ req'[r].on = req[r].on /\ req'[r].closed = req[r].closed
           /\ req'[r].left = req[r].left /\ req'[r].right = req[r].right
<1> DEFINE h == [req[r] EXCEPT !.pc = pc]
<1>1. req[r] \in Handler /\ req \in [Request -> Handler] BY DEF TypeOK
<1>2. h \in Handler BY <1>1 DEF Handler
<1>3. req' = [req EXCEPT ![r] = h] BY <1>1
<1>4. /\ h.pc = pc /\ h.out = req[r].out
      /\ h.key = req[r].key /\ h.on = req[r].on /\ h.closed = req[r].closed
      /\ h.left = req[r].left /\ h.right = req[r].right
    BY <1>1 DEF Handler
<1> HIDE DEF h
<1> QED BY <1>2, <1>3, <1>4, OneRequest

\* The requests and the cache as they were, and no client that had left is back.
LEMMA KeptInv ==
    ASSUME IndInv, UNCHANGED <<entries, inflight, req>>, gone \subseteq gone', gone' \subseteq Request
    PROVE  IndInv'
<1>1. TypeOK' BY DEF IndInv, TypeOK
<1>2. AssembledOnce' /\ FlightHasLeader'
    BY DEF IndInv, AssembledOnce, FlightHasLeader, Assembling, Entry
<1>3. EntriesSound' BY DEF IndInv, EntriesSound, Whole
<1>4. AnswersMatch' BY DEF IndInv, AnswersMatch, Whole
<1>5. OnlyOwnClientCancels' BY DEF IndInv, OnlyOwnClientCancels
<1>6. WaitersHaveLeaders' BY DEF IndInv, WaitersHaveLeaders
<1>7. OutcomesSet' BY DEF IndInv, OutcomesSet
<1>8. AppliedInOrder' BY DEF IndInv, AppliedInOrder, Pending
<1> QED BY <1>1, <1>2, <1>3, <1>4, <1>5, <1>6, <1>7, <1>8 DEF IndInv

\* A client that leaves may only make its own request end early.
LEMMA LeaveInv ==
    ASSUME IndInv, NEW r \in Request, Leave(r)
    PROVE  IndInv'
<1>1. UNCHANGED <<entries, inflight, req>> /\ gone' = gone \cup {r} BY DEF Leave
<1>2. gone \subseteq Request BY DEF IndInv, TypeOK
<1> QED BY <1>1, <1>2, KeptInv

\* A lookup of an image ends the request or lets it go on.
LEMMA LoadImageInv ==
    ASSUME IndInv, NEW r \in Request, NEW pc, NEW next, NEW i \in Image, LoadImage(r, pc, i, next),
           <<pc, next>> \in {<<"left", "right">>, <<"right", "lookup">>}
    PROVE  IndInv'
<1>0. TypeOK /\ Outcomes(r) /\ Applied(r) /\ Waiting(r) BY IndInvSplit DEF RequestsSound
<1>1. /\ req[r].pc \in {"left", "right"} /\ UNCHANGED <<entries, inflight, gone>>
      /\ next \in Pc /\ next \in {"right", "lookup"}
    BY DEF LoadImage, Pc
<1>2. /\ Others(r)
      /\ \/ req'[r].pc = next /\ req'[r].out = req[r].out
         \/ req'[r].pc = "answered" /\ req'[r].out = Cancelled /\ r \in gone
         \/ req'[r].pc = "answered" /\ req'[r].out = NotFound(i)
      /\ req'[r].key = req[r].key /\ req'[r].on = req[r].on /\ req'[r].closed = req[r].closed
      /\ req'[r].left = req[r].left /\ req'[r].right = req[r].right
  <2>1. CASE r \in gone BY <1>0, <2>1, AnswerStep, OutcomesDiffer DEF LoadImage
  <2>2. CASE r \notin gone /\ i \in Catalog!Listed BY <1>0, <1>1, <2>2, GotoStep DEF LoadImage
  <2>3. CASE r \notin gone /\ i \notin Catalog!Listed
      BY <1>0, <2>3, AnswerStep, OutcomesDiffer DEF LoadImage
  <2> QED BY <2>1, <2>2, <2>3
<1>3. Outcomes(r)' BY <1>0, <1>1, <1>2, OutcomesDiffer DEF Outcomes, Waiting
<1>4. Applied(r)' BY <1>0, <1>1, <1>2 DEF Applied
<1>5. Waiting(r)' BY <1>0, <1>1, <1>2 DEF Waiting
<1>6. ~Member(r) /\ ~Member(r)' BY <1>1, <1>2 DEF Member
<1>7. ~Leading(r) BY <1>0, <1>1 DEF Leading, Waiting
<1> QED BY <1>0, <1>1, <1>2, <1>3, <1>4, <1>5, <1>6, <1>7, SameAssemblies, OneRequestInv DEF TypeOK

\* A slot is free again once nobody waits for it.
LEMMA LeavesInv ==
    ASSUME IndInv, NEW r \in Request, Leaves(r)
    PROVE  IndInv'
<1>0. TypeOK /\ Outcomes(r) /\ Applied(r) /\ Waiting(r) BY IndInvSplit DEF RequestsSound
<1>1. /\ req[r].pc = "answered" /\ UNCHANGED <<entries, inflight>> /\ gone' = gone \ {r}
      /\ \A w \in Request : req[w].on # r
    BY DEF Leaves
<1>2. Others(r) /\ req'[r] = Idle BY <1>0, IdleTyped, OneRequest DEF Leaves
<1>3. Outcomes(r)' BY <1>2, OutcomesDiffer DEF Outcomes, Idle
<1>4. Applied(r)' /\ Waiting(r)' BY <1>2 DEF Applied, Waiting, Idle
<1>5. ~Member(r) /\ ~Member(r)' BY <1>1, <1>2 DEF Member, Idle
<1> QED BY <1>0, <1>1, <1>2, <1>3, <1>4, <1>5, SameAssemblies, OneRequestInv DEF TypeOK

\* A hit answers with the entry of the key, which comes to the front.
LEMMA HitInv ==
    ASSUME IndInv, NEW r \in Request, Hit(r)
    PROVE  IndInv'
<1>0. TypeOK /\ Outcomes(r) /\ Applied(r) /\ Waiting(r) BY IndInvSplit DEF RequestsSound
<1>1. PICK n \in Entry(req[r].key) : entries' = Promoted(n) /\ Answer(r, Found(entries[n]))
    BY DEF Hit
<1>2. /\ req[r].pc = "lookup" /\ UNCHANGED <<inflight, gone>>
      /\ n \in DOMAIN entries /\ entries[n].key = req[r].key
    BY <1>1 DEF Hit, Entry
<1>3. entries[n] \in Built /\ Whole(entries[n])
    BY <1>0, <1>2, LenProperties, ElementOfSeq DEF TypeOK, IndInv, EntriesSound
<1>4. /\ Others(r) /\ req'[r].pc = "answered" /\ req'[r].out = Found(entries[n])
      /\ req'[r].key = req[r].key /\ req'[r].on = req[r].on /\ req'[r].closed = req[r].closed
      /\ req'[r].left = req[r].left /\ req'[r].right = req[r].right
  <2>1. Found(entries[n]) \in Outcome BY <1>3, OutcomesDiffer
  <2> QED BY <1>0, <1>1, <2>1, AnswerStep
<1>5. Outcomes(r)' BY <1>2, <1>3, <1>4, FoundOwn
<1>6. Applied(r)' BY <1>0, <1>2, <1>4 DEF Applied
<1>7. Waiting(r)' BY <1>0, <1>2, <1>4 DEF Waiting
<1>8. ~Member(r) /\ ~Member(r)' BY <1>2, <1>4 DEF Member
<1>9. ~Leading(r) BY <1>0, <1>2 DEF Leading, Waiting
<1>10. /\ entries' \in Seq(Built) /\ Len(entries') = Len(entries)
       /\ \A m \in 1..Len(entries) :
            entries'[m] = IF m = 1 THEN entries[n] ELSE IF m <= n THEN entries[m-1] ELSE entries[m]
       /\ Len(entries) \in Nat /\ DOMAIN entries = 1..Len(entries) /\ DOMAIN entries' = 1..Len(entries)
    BY <1>0, <1>1, <1>2, PromotedEntries, LenProperties DEF TypeOK
<1>11. \A k \in Key : Entry(k) = {} => Entry(k)' = {}
  <2> SUFFICES ASSUME NEW k \in Key, NEW m \in DOMAIN entries', entries'[m].key = k
               PROVE  \E j \in DOMAIN entries : entries[j].key = k
      BY DEF Entry
  <2> QED BY <1>2, <1>10
<1>12. AssembledOnce' /\ FlightHasLeader'
  <2>1. \A k \in Key : Assembling(k)' = Assembling(k) BY <1>4, <1>8 DEF Assembling, Member, Others
  <2> QED BY <1>2, <1>11, <2>1 DEF IndInv, AssembledOnce, FlightHasLeader
<1>13. EntriesSound'
  <2>1. \A m, j \in DOMAIN entries : entries[m].key = entries[j].key => m = j
      BY DEF IndInv, EntriesSound
  <2>2. ASSUME NEW m \in DOMAIN entries', NEW j \in DOMAIN entries', entries'[m].key = entries'[j].key
        PROVE  m = j
    <3> DEFINE f(x) == IF x = 1 THEN n ELSE IF x <= n THEN x-1 ELSE x
    <3>1. \A x \in 1..Len(entries) : f(x) \in DOMAIN entries /\ entries'[x] = entries[f(x)]
        BY <1>2, <1>10
    <3>2. f(m) = f(j) BY <1>10, <2>1, <2>2, <3>1
    <3> QED BY <1>2, <1>10, <3>2
  <2>3. \A m \in DOMAIN entries' : Whole(entries'[m])
      BY <1>2, <1>10 DEF IndInv, EntriesSound
  <2>4. Len(entries') <= Capacity BY <1>10 DEF IndInv, EntriesSound
  <2> QED BY <2>2, <2>3, <2>4 DEF EntriesSound, Whole
<1> QED BY <1>0, <1>2, <1>4, <1>5, <1>6, <1>7, <1>9, <1>10, <1>12, <1>13, OneRequestInv DEF TypeOK

\* Who joins waits for the assembly of its key.
LEMMA JoinInv ==
    ASSUME IndInv, NEW r \in Request, Join(r)
    PROVE  IndInv'
<1>0. TypeOK /\ Outcomes(r) /\ Applied(r) /\ Waiting(r) BY IndInvSplit DEF RequestsSound
<1> DEFINE f == inflight[req[r].key]
           h == [req[r] EXCEPT !.pc = "wait", !.on = f]
<1>1. /\ req[r].pc = "lookup" /\ f # None /\ UNCHANGED <<entries, inflight, gone>>
      /\ req' = [req EXCEPT ![r].pc = "wait", ![r].on = f]
    BY DEF Join, Flight
<1>2. f \in Request /\ req[f].key = req[r].key /\ Leading(f) /\ f # r
  <2>1. f \in Request BY <1>0, <1>1, KeyOf DEF TypeOK
  <2>2. f \in Assembling(req[r].key) BY <1>1, <2>1, KeyOf DEF IndInv, FlightHasLeader
  <2> QED BY <1>1, <2>1, <2>2 DEF Assembling, Leading
<1>3. /\ Others(r) /\ req'[r].pc = "wait" /\ req'[r].on = f /\ req'[r].out = req[r].out
      /\ req'[r].key = req[r].key /\ req'[r].closed = req[r].closed
      /\ req'[r].left = req[r].left /\ req'[r].right = req[r].right
  <2>1. req[r] \in Handler /\ req \in [Request -> Handler] BY <1>0 DEF TypeOK
  <2> HIDE DEF f
  <2>2. h \in Handler BY <1>2, <2>1 DEF Handler, Pc
  <2>3. req' = [req EXCEPT ![r] = h] BY <1>1, <2>1
  <2>4. /\ h.pc = "wait" /\ h.out = req[r].out /\ h.on = f
        /\ h.key = req[r].key /\ h.closed = req[r].closed
        /\ h.left = req[r].left /\ h.right = req[r].right
      BY <2>1 DEF Handler
  <2> HIDE DEF h
  <2> QED BY <1>0, <2>2, <2>3, <2>4, OneRequest
<1>4. Outcomes(r)' BY <1>0, <1>1, <1>3, OutcomesDiffer DEF Outcomes, Waiting
<1>5. Applied(r)' BY <1>0, <1>1, <1>3 DEF Applied
<1>6. Waiting(r)' BY <1>0, <1>1, <1>2, <1>3 DEF Waiting, Others, Leading
<1>7. ~Member(r) /\ ~Member(r)' BY <1>1, <1>3 DEF Member
<1>8. ~Leading(r) BY <1>0, <1>1 DEF Leading, Waiting
<1> QED BY <1>0, <1>1, <1>3, <1>4, <1>5, <1>6, <1>7, <1>8, SameAssemblies, OneRequestInv DEF TypeOK

\* Who leads does so for a key that nobody assembles and nothing is cached for.
LEMMA LeadInv ==
    ASSUME IndInv, NEW r \in Request, Lead(r)
    PROVE  IndInv'
<1>0. TypeOK /\ Outcomes(r) /\ Applied(r) /\ Waiting(r) BY IndInvSplit DEF RequestsSound
<1>k. req[r].key \in Key BY KeyOf DEF Lead
<1> PICK k \in Key : k = req[r].key BY <1>k
<1>1. /\ req[r].pc = "lookup" /\ inflight[k] = None /\ Entry(k) = {} /\ UNCHANGED <<entries, gone>>
      /\ inflight' = [inflight EXCEPT ![k] = r] /\ req' = [req EXCEPT ![r].pc = "load"]
    BY DEF Lead, Flight
<1>2. /\ Others(r) /\ req'[r].pc = "load" /\ req'[r].out = req[r].out
      /\ req'[r].key = req[r].key /\ req'[r].on = req[r].on /\ req'[r].closed = req[r].closed
      /\ req'[r].left = req[r].left /\ req'[r].right = req[r].right
  <2>1. "load" \in Pc BY DEF Pc
  <2> QED BY <1>0, <1>1, <2>1, GotoStep
<1>3. k \in Key /\ Assembling(k) = {} /\ r # None
  <2>2. r # None BY NoRequestAssumption
  <2>3. \A s \in Request : s # None BY NoRequestAssumption
  <2> QED BY <1>1, <2>2, <2>3 DEF IndInv, FlightHasLeader, Assembling
<1>4. Assembling(k)' = {r} /\ \A j \in Key \ {k} : Assembling(j)' = Assembling(j)
    BY <1>1, <1>2, <1>3 DEF Assembling, Others
<1>5. inflight' \in [Key -> Request \cup {None}] BY <1>0, <1>1, <1>3 DEF TypeOK
<1>6. AssembledOnce' /\ FlightHasLeader'
  <2>1. \A j \in Key : Entry(j)' = Entry(j) BY <1>1 DEF Entry
  <2>2. inflight'[k] = r /\ \A j \in Key \ {k} : inflight'[j] = inflight[j]
      BY <1>0, <1>1, <1>3 DEF TypeOK
  <2>3. ASSUME NEW j \in Key, NEW a \in Assembling(j)', NEW b \in Assembling(j)'
        PROVE  a = b /\ Entry(j)' = {}
    <3>1. CASE j = k
      <4>1. a = r /\ b = r BY <1>4, <3>1
      <4>2. Entry(j)' = {} BY <1>1, <2>1, <3>1
      <4> QED BY <4>1, <4>2
    <3>2. CASE j # k
      <4>1. a \in Assembling(j) /\ b \in Assembling(j) BY <1>4, <3>2
      <4>2. a = b /\ Entry(j) = {} BY <4>1 DEF IndInv, AssembledOnce
      <4> QED BY <2>1, <4>2
    <3> QED BY <3>1, <3>2
  <2>4. ASSUME NEW j \in Key, NEW s \in Request
        PROVE  inflight'[j] = s <=> s \in Assembling(j)'
    <3>1. CASE j = k
      <4>1. inflight'[j] = r BY <2>2, <3>1
      <4>2. s \in Assembling(j)' <=> s = r BY <1>4, <3>1
      <4> QED BY <4>1, <4>2
    <3>2. CASE j # k
      <4>1. inflight'[j] = inflight[j] BY <2>2, <3>2
      <4>2. s \in Assembling(j)' <=> s \in Assembling(j) BY <1>4, <3>2
      <4>3. inflight[j] = s <=> s \in Assembling(j) BY DEF IndInv, FlightHasLeader
      <4> QED BY <4>1, <4>2, <4>3
    <3> QED BY <3>1, <3>2
  <2>5. AssembledOnce' BY <2>3 DEF AssembledOnce
  <2>6. FlightHasLeader' BY <2>4 DEF FlightHasLeader
  <2> QED BY <2>5, <2>6
<1>7. EntriesSound' BY <1>1 DEF IndInv, EntriesSound, Whole
<1>8. Outcomes(r)' BY <1>0, <1>1, <1>2, OutcomesDiffer DEF Outcomes, Waiting
<1>9. Applied(r)' BY <1>0, <1>1, <1>2 DEF Applied
<1>10. Waiting(r)' BY <1>0, <1>1, <1>2 DEF Waiting
<1>11. ~Leading(r) BY <1>0, <1>1 DEF Leading, Waiting
<1> QED BY <1>0, <1>1, <1>2, <1>5, <1>6, <1>7, <1>8, <1>9, <1>10, <1>11, OneRequestInv DEF TypeOK

\* A layer found is one still to be applied.
LEMMA FindLayerInv ==
    ASSUME IndInv, NEW r \in Request, FindLayer(r)
    PROVE  IndInv'
<1>0. TypeOK /\ Outcomes(r) /\ Applied(r) /\ Waiting(r) BY IndInvSplit DEF RequestsSound
<1>1. /\ req[r].pc = "load" /\ Pending(r) # "none" /\ UNCHANGED <<entries, inflight, gone>>
      /\ req' = [req EXCEPT ![r].pc = "open"]
    BY DEF FindLayer
<1>2. /\ Others(r) /\ req'[r].pc = "open" /\ req'[r].out = req[r].out
      /\ req'[r].key = req[r].key /\ req'[r].on = req[r].on /\ req'[r].closed = req[r].closed
      /\ req'[r].left = req[r].left /\ req'[r].right = req[r].right
  <2>1. "open" \in Pc BY DEF Pc
  <2> QED BY <1>0, <1>1, <2>1, GotoStep
<1>3. Outcomes(r)' BY <1>0, <1>1, <1>2, OutcomesDiffer DEF Outcomes, Waiting
<1>4. Applied(r)' BY <1>0, <1>1, <1>2 DEF Applied, Pending
<1>5. Waiting(r)' BY <1>0, <1>1, <1>2 DEF Waiting
<1>6. Member(r) /\ Member(r)' /\ Leading(r)' BY <1>1, <1>2 DEF Member, Leading
<1> QED BY <1>0, <1>1, <1>2, <1>3, <1>4, <1>5, <1>6, SameAssemblies, OneRequestInv DEF TypeOK

\* The first layers of an image, and one more.
LEMMA OneMoreLayer ==
    ASSUME NEW s \in Seq(Layer), NEW n \in Nat, n < Len(s)
    PROVE  /\ SubSeq(s, 1, n+1) = Append(SubSeq(s, 1, n), s[n+1])
           /\ Len(Append(SubSeq(s, 1, n), s[n+1])) = n+1
           /\ s[n+1] \in Layer
<1>1. Len(s) \in Nat /\ n+1 \in 1..Len(s) /\ n = (n+1)-1 BY LenProperties
<1>2. s[n+1] \in Layer BY <1>1, ElementOfSeq
<1>3. SubSeq(s, 1, n+1) = SubSeq(s, 1, n) \o <<s[n+1]>>
  <2>1. SubSeq(s, 1, n+1) = SubSeq(s, 1, (n+1)-1) \o <<s[n+1]>>
    <3> DEFINE m == n+1
    <3>1. 1 \in 1..Len(s) /\ m \in 1..Len(s) BY <1>1
    <3> HIDE DEF m
    <3>2. SubSeq(s, 1, m) = SubSeq(s, 1, m-1) \o <<s[m]>> BY <3>1, SubSeqRecursiveSecond
    <3> QED BY <3>2 DEF m
  <2> QED BY <1>1, <2>1
<1>4. SubSeq(s, 1, n) \in Seq(Layer) /\ Len(SubSeq(s, 1, n)) = n
  <2>1. \A i \in 1..n : s[i] \in Layer BY <1>1, ElementOfSeq
  <2>2. /\ SubSeq(s, 1, n) \in Seq(Layer)
        /\ Len(SubSeq(s, 1, n)) = IF 1 <= n THEN n-1+1 ELSE 0
      BY <1>1, <2>1, SubSeqProperties
  <2> QED BY <2>2
<1>5. /\ Append(SubSeq(s, 1, n), s[n+1]) = SubSeq(s, 1, n) \o <<s[n+1]>>
      /\ Len(Append(SubSeq(s, 1, n), s[n+1])) = n+1
    BY <1>2, <1>4, AppendIsConcat, AppendProperties
<1> QED BY <1>2, <1>3, <1>5

\* A layer applied is the next one of its side.
LEMMA LoadLayerInv ==
    ASSUME IndInv, NEW r \in Request, LoadLayer(r)
    PROVE  IndInv'
<1>0. TypeOK /\ Outcomes(r) /\ Applied(r) /\ Waiting(r) BY IndInvSplit DEF RequestsSound
<1> DEFINE k == req[r].key
           nl == Len(req[r].left)
           nr == Len(req[r].right)
<1>1. req[r].pc = "open" /\ Pending(r) # "none" /\ UNCHANGED <<entries, inflight, gone>>
    BY <1>0 DEF LoadLayer, Applied
<1>k. /\ k \in Key /\ Stack[k.left] \in Seq(Layer) /\ Stack[k.right] \in Seq(Layer)
      /\ k.leftLayers \in 0..Len(Stack[k.left]) /\ k.rightLayers \in 0..Len(Stack[k.right])
      /\ req[r] \in Handler /\ req \in [Request -> Handler]
      /\ req[r].left \in Seq(Layer) /\ req[r].right \in Seq(Layer) /\ nl \in Nat /\ nr \in Nat
    BY <1>0, <1>1, KeyOf, StackAssumption, LenProperties DEF TypeOK, Handler
<1>2. PICK left \in Seq(Layer), right \in Seq(Layer) :
        /\ req' = [req EXCEPT ![r].pc = "load", ![r].left = left, ![r].right = right]
        /\ Len(left) <= k.leftLayers /\ left = SubSeq(Stack[k.left], 1, Len(left))
        /\ Len(right) <= k.rightLayers /\ right = SubSeq(Stack[k.right], 1, Len(right))
  <2>1. CASE Pending(r) = "left"
    <3> DEFINE left == Append(req[r].left, Stack[k.left][nl + 1])
    <3>1. nl < k.leftLayers BY <2>1 DEF Pending
    <3>2. nl < Len(Stack[k.left]) /\ req[r].left = SubSeq(Stack[k.left], 1, nl)
        BY <1>0, <1>1, <1>k, <3>1 DEF Applied
    <3>3. /\ left = SubSeq(Stack[k.left], 1, nl+1) /\ Len(left) = nl+1
          /\ Stack[k.left][nl+1] \in Layer
      <4>1. PICK s \in Seq(Layer), n \in Nat : s = Stack[k.left] /\ n = nl BY <1>k
      <4>2. n < Len(s) /\ left = Append(SubSeq(s, 1, n), s[n+1]) BY <3>2, <4>1
      <4> HIDE DEF left
      <4>3. /\ left = SubSeq(s, 1, n+1) /\ Len(left) = n+1 /\ s[n+1] \in Layer
          BY <4>2, OneMoreLayer
      <4> QED BY <4>1, <4>3
    <3>4. left \in Seq(Layer)
      <4>1. req[r].left \in Seq(Layer) /\ Stack[k.left][nl+1] \in Layer BY <1>k, <3>3
      <4> QED BY <4>1, AppendProperties
    <3>5. Len(left) <= k.leftLayers BY <1>k, <3>1, <3>3
    <3>6. req' = [req EXCEPT ![r].pc = "load", ![r].left = left]
        BY <2>1 DEF LoadLayer, NextLayer
    <3> HIDE DEF left
    <3>7. req' = [req EXCEPT ![r].pc = "load", ![r].left = left, ![r].right = req[r].right]
        BY <1>k, <3>6 DEF Handler
    <3> QED BY <1>0, <1>1, <1>k, <3>3, <3>4, <3>5, <3>7 DEF Applied
  <2>2. CASE Pending(r) # "left"
    <3> DEFINE right == Append(req[r].right, Stack[k.right][nr + 1])
    <3>1. nr < k.rightLayers BY <1>1, <2>2 DEF Pending
    <3>2. nr < Len(Stack[k.right]) /\ req[r].right = SubSeq(Stack[k.right], 1, nr)
        BY <1>0, <1>1, <1>k, <3>1 DEF Applied
    <3>3. /\ right = SubSeq(Stack[k.right], 1, nr+1) /\ Len(right) = nr+1
          /\ Stack[k.right][nr+1] \in Layer
      <4>1. PICK s \in Seq(Layer), n \in Nat : s = Stack[k.right] /\ n = nr BY <1>k
      <4>2. n < Len(s) /\ right = Append(SubSeq(s, 1, n), s[n+1]) BY <3>2, <4>1
      <4> HIDE DEF right
      <4>3. /\ right = SubSeq(s, 1, n+1) /\ Len(right) = n+1 /\ s[n+1] \in Layer
          BY <4>2, OneMoreLayer
      <4> QED BY <4>1, <4>3
    <3>4. right \in Seq(Layer)
      <4>1. req[r].right \in Seq(Layer) /\ Stack[k.right][nr+1] \in Layer BY <1>k, <3>3
      <4> QED BY <4>1, AppendProperties
    <3>5. Len(right) <= k.rightLayers BY <1>k, <3>1, <3>3
    <3>6. req' = [req EXCEPT ![r].pc = "load", ![r].right = right]
        BY <2>2 DEF LoadLayer, NextLayer
    <3> HIDE DEF right
    <3>7. req' = [req EXCEPT ![r].pc = "load", ![r].left = req[r].left, ![r].right = right]
        BY <1>k, <3>6 DEF Handler
    <3> QED BY <1>0, <1>1, <1>k, <3>3, <3>4, <3>5, <3>7 DEF Applied
  <2> QED BY <2>1, <2>2
<1>3. /\ Others(r) /\ req'[r].pc = "load" /\ req'[r].out = req[r].out
      /\ req'[r].key = k /\ req'[r].on = req[r].on /\ req'[r].closed = req[r].closed
      /\ req'[r].left = left /\ req'[r].right = right
  <2> DEFINE h == [req[r] EXCEPT !.pc = "load", !.left = left, !.right = right]
  <2>1. h \in Handler BY <1>k DEF Handler, Pc
  <2>2. req' = [req EXCEPT ![r] = h] BY <1>k, <1>2
  <2>3. /\ h.pc = "load" /\ h.out = req[r].out /\ h.on = req[r].on
        /\ h.key = req[r].key /\ h.closed = req[r].closed
        /\ h.left = left /\ h.right = right
      BY <1>k DEF Handler
  <2> HIDE DEF h
  <2> QED BY <1>0, <2>1, <2>2, <2>3, OneRequest
<1>4. Outcomes(r)' BY <1>0, <1>1, <1>3, OutcomesDiffer DEF Outcomes, Waiting
<1>5. Applied(r)' BY <1>k, <1>2, <1>3 DEF Applied
<1>6. Waiting(r)' BY <1>0, <1>1, <1>3 DEF Waiting
<1>7. Member(r) /\ Member(r)' /\ Leading(r)' BY <1>1, <1>3 DEF Member, Leading
<1> QED BY <1>0, <1>1, <1>3, <1>4, <1>5, <1>6, <1>7, SameAssemblies, OneRequestInv DEF TypeOK

\* The end of an assembly, with its outcome.
LEMMA PublishStep ==
    ASSUME TypeOK, NEW r \in Request, NEW out \in Outcome,
           req' = [req EXCEPT ![r].pc = "publish", ![r].out = out]
    PROVE  /\ Others(r)
           /\ req'[r].pc = "publish" /\ req'[r].out = out
           /\ req'[r].key = req[r].key /\ req'[r].on = req[r].on /\ req'[r].closed = req[r].closed
           /\ req'[r].left = req[r].left /\ req'[r].right = req[r].right
<1> DEFINE h == [req[r] EXCEPT !.pc = "publish", !.out = out]
<1>1. req[r] \in Handler /\ req \in [Request -> Handler] BY DEF TypeOK
<1>2. h \in Handler BY <1>1 DEF Handler, Pc
<1>3. req' = [req EXCEPT ![r] = h] BY <1>1
<1>4. /\ h.pc = "publish" /\ h.out = out
      /\ h.key = req[r].key /\ h.on = req[r].on /\ h.closed = req[r].closed
      /\ h.left = req[r].left /\ h.right = req[r].right
    BY <1>1 DEF Handler
<1> HIDE DEF h
<1> QED BY <1>2, <1>3, <1>4, OneRequest

\* A load that fails ends the assembly, and is not a cancellation.
LEMMA LoadFailsInv ==
    ASSUME IndInv, NEW r \in Request, LoadFails(r)
    PROVE  IndInv'
<1>0. TypeOK /\ Outcomes(r) /\ Applied(r) /\ Waiting(r) BY IndInvSplit DEF RequestsSound
<1>1. req[r].pc \in {"load", "open"} /\ UNCHANGED <<entries, inflight, gone>> BY DEF LoadFails
<1>2. Side(r) \in Image BY <1>1, KeyOf DEF Side
<1>3. PICK out \in {NotFound(Side(r)), Internal} : req' = [req EXCEPT ![r].pc = "publish", ![r].out = out]
    BY DEF LoadFails, Interrupted
<1>4. /\ out \in Outcome /\ out # None /\ out # Cancelled /\ out.kind # "found"
    BY <1>2, <1>3, OutcomesDiffer
<1>5. /\ Others(r) /\ req'[r].pc = "publish" /\ req'[r].out = out
      /\ req'[r].key = req[r].key /\ req'[r].on = req[r].on /\ req'[r].closed = req[r].closed
      /\ req'[r].left = req[r].left /\ req'[r].right = req[r].right
    BY <1>0, <1>3, <1>4, PublishStep
<1>6. Outcomes(r)' BY <1>4, <1>5 DEF Outcomes
<1>7. Applied(r)' BY <1>0, <1>1, <1>5 DEF Applied
<1>8. Waiting(r)' BY <1>0, <1>1, <1>5 DEF Waiting
<1>9. Member(r) /\ Member(r)' /\ Leading(r)' BY <1>1, <1>5 DEF Member, Leading
<1> QED BY <1>0, <1>1, <1>5, <1>6, <1>7, <1>8, <1>9, SameAssemblies, OneRequestInv DEF TypeOK

\* With nothing left to apply, both sides are whole.
LEMMA DiffInv ==
    ASSUME IndInv, NEW r \in Request, Diff(r)
    PROVE  IndInv'
<1>0. TypeOK /\ Outcomes(r) /\ Applied(r) /\ Waiting(r) BY IndInvSplit DEF RequestsSound
<1> DEFINE k == req[r].key
           cmp == [key |-> k, left |-> req[r].left, right |-> req[r].right]
<1>1. /\ req[r].pc = "load" /\ Pending(r) = "none" /\ UNCHANGED <<entries, inflight, gone>>
      /\ req' = [req EXCEPT ![r].pc = "publish", ![r].out = Found(cmp)]
    BY DEF Diff
<1>2. /\ k \in Key /\ k.leftLayers \in Nat /\ k.rightLayers \in Nat
      /\ req[r].left \in Seq(Layer) /\ req[r].right \in Seq(Layer)
      /\ Len(req[r].left) \in Nat /\ Len(req[r].right) \in Nat
    BY <1>0, <1>1, KeyOf, LenProperties DEF TypeOK, Handler
<1>3. cmp \in Built /\ cmp.key = k /\ cmp.left = req[r].left /\ cmp.right = req[r].right
    BY <1>2 DEF Built
<1>4. Len(req[r].left) = k.leftLayers /\ Len(req[r].right) = k.rightLayers
  <2>1. ~(Len(req[r].left) < k.leftLayers) /\ ~(Len(req[r].right) < k.rightLayers)
      BY <1>1 DEF Pending
  <2>2. Len(req[r].left) <= k.leftLayers /\ Len(req[r].right) <= k.rightLayers
      BY <1>0, <1>1 DEF Applied
  <2> QED BY <1>2, <2>1, <2>2
<1>5. Whole(cmp) BY <1>0, <1>1, <1>3, <1>4 DEF Applied, Whole
<1> HIDE DEF cmp
<1>6. /\ Others(r) /\ req'[r].pc = "publish" /\ req'[r].out = Found(cmp)
      /\ req'[r].key = req[r].key /\ req'[r].on = req[r].on /\ req'[r].closed = req[r].closed
      /\ req'[r].left = req[r].left /\ req'[r].right = req[r].right
    BY <1>0, <1>1, <1>3, OutcomesDiffer, PublishStep
<1>7. Outcomes(r)' BY <1>1, <1>3, <1>5, <1>6, FoundOwn
<1>8. Applied(r)' BY <1>0, <1>1, <1>6 DEF Applied
<1>9. Waiting(r)' BY <1>0, <1>1, <1>6 DEF Waiting
<1>10. Member(r) /\ Member(r)' /\ Leading(r)' BY <1>1, <1>6 DEF Member, Leading
<1> QED BY <1>0, <1>1, <1>6, <1>7, <1>8, <1>9, <1>10, SameAssemblies, OneRequestInv DEF TypeOK

\* An assembly that is published is in the cache, or failed, and no longer in
\* flight.
LEMMA PublishInv ==
    ASSUME IndInv, NEW r \in Request, Publish(r)
    PROVE  IndInv'
<1>0. TypeOK /\ Outcomes(r) /\ Applied(r) /\ Waiting(r) BY IndInvSplit DEF RequestsSound
<1>k. req[r].key \in Key BY KeyOf DEF Publish
<1> PICK k \in Key : k = req[r].key BY <1>k
<1> PICK out : out = req[r].out OBVIOUS
<1>1. /\ req[r].pc = "publish" /\ UNCHANGED gone
      /\ inflight' = [inflight EXCEPT ![k] = None]
      /\ entries' = IF out.kind = "found" THEN Inserted(out.cmp) ELSE entries
      /\ req' = [req EXCEPT ![r].pc = "close"]
    BY DEF Publish, Landed
<1>3. /\ Others(r) /\ req'[r].pc = "close" /\ req'[r].out = req[r].out
      /\ req'[r].key = req[r].key /\ req'[r].on = req[r].on /\ req'[r].closed = req[r].closed
      /\ req'[r].left = req[r].left /\ req'[r].right = req[r].right
  <2>1. "close" \in Pc BY DEF Pc
  <2> QED BY <1>0, <1>1, <2>1, GotoStep
<1>4. out \notin {None, Cancelled} /\ out \in Outcome
    BY <1>0, <1>1 DEF Outcomes, TypeOK, Handler
<1>5. Assembling(k) = {r} /\ Entry(k) = {}
  <2>1. r \in Assembling(k) BY <1>1 DEF Assembling
  <2> QED BY <2>1 DEF IndInv, AssembledOnce
<1>6. Assembling(k)' = {} /\ \A j \in Key \ {k} : Assembling(j)' = Assembling(j)
    BY <1>1, <1>3, <1>5 DEF Assembling, Others
<1>7. inflight' \in [Key -> Request \cup {None}] /\ inflight'[k] = None
      /\ \A j \in Key \ {k} : inflight'[j] = inflight[j]
    BY <1>0, <1>1 DEF TypeOK
<1>8. /\ entries' \in Seq(Built) /\ EntriesSound'
      /\ \A j \in Key \ {k} : Entry(j) = {} => Entry(j)' = {}
  <2>0. entries \in Seq(Built) /\ EntriesSound BY <1>0 DEF TypeOK, IndInv
  <2>1. CASE out.kind = "found"
    <3> DEFINE cmp == out.cmp
    <3>1. cmp \in Built BY <1>4, <2>1 DEF Outcome, Internal, Cancelled
    <3>2. cmp.key = k /\ Whole(cmp) BY <1>0, <1>4, <2>1 DEF Outcomes
    <3> HIDE DEF cmp
    <3>3. entries' = Inserted(cmp) BY <1>1, <2>1 DEF cmp
    <3>4. Entry(cmp.key) = {} BY <1>5, <3>2
    <3>5. /\ entries' \in Seq(Built)
          /\ Len(entries') = IF Len(entries) < Capacity THEN Len(entries) + 1 ELSE Capacity
          /\ \A m \in 1..Len(entries') :
                m <= Len(entries) + 1 /\ entries'[m] = IF m = 1 THEN cmp ELSE entries[m-1]
        BY <2>0, <3>1, <3>3, <3>4, InsertedEntries
    <3>6. /\ Len(entries) \in Nat /\ DOMAIN entries = 1..Len(entries)
          /\ Len(entries') \in Nat /\ DOMAIN entries' = 1..Len(entries') /\ Capacity \in Nat
        BY <2>0, <3>5, LenProperties, CapacityAssumption
    <3>7. \A m \in DOMAIN entries : entries[m].key # k BY <1>5 DEF Entry
    <3>8. \A m \in DOMAIN entries' : IF m = 1 THEN entries'[m] = cmp
                                     ELSE m-1 \in DOMAIN entries /\ entries'[m] = entries[m-1]
        BY <3>5, <3>6
    <3>9. Len(entries') <= Capacity BY <2>0, <3>5, <3>6 DEF EntriesSound
    <3>10. ASSUME NEW m \in DOMAIN entries', NEW j \in DOMAIN entries', entries'[m].key = entries'[j].key
           PROVE  m = j
      <4>1. CASE m = 1 /\ j = 1 BY <4>1
      <4>2. CASE m = 1 /\ j # 1 BY <3>2, <3>7, <3>8, <3>10, <4>2
      <4>3. CASE m # 1 /\ j = 1 BY <3>2, <3>7, <3>8, <3>10, <4>3
      <4>4. CASE m # 1 /\ j # 1
        <5>1. m-1 \in DOMAIN entries /\ j-1 \in DOMAIN entries /\ entries[m-1].key = entries[j-1].key
            BY <3>8, <3>10, <4>4
        <5>2. m-1 = j-1 BY <2>0, <5>1 DEF EntriesSound
        <5>3. m \in Nat /\ j \in Nat BY <3>6
        <5> QED BY <5>2, <5>3
      <4> QED BY <4>1, <4>2, <4>3, <4>4
    <3>11. \A m \in DOMAIN entries' : Whole(entries'[m]) BY <2>0, <3>2, <3>8 DEF EntriesSound
    <3>12. EntriesSound' BY <3>9, <3>10, <3>11 DEF EntriesSound, Whole
    <3>13. ASSUME NEW j \in Key \ {k}, Entry(j) = {} PROVE Entry(j)' = {}
      <4>1. \A m \in DOMAIN entries : entries[m].key # j BY <3>13 DEF Entry
      <4>2. \A m \in DOMAIN entries' : entries'[m].key # j BY <3>2, <3>8, <3>13, <4>1
      <4> QED BY <4>2 DEF Entry
    <3> QED BY <3>5, <3>12, <3>13
  <2>2. CASE out.kind # "found"
    <3>1. entries' = entries BY <1>1, <2>2
    <3> QED BY <2>0, <3>1 DEF EntriesSound, Whole, Entry
  <2> QED BY <2>1, <2>2
<1>9. ASSUME NEW j \in Key, NEW a \in Assembling(j)', NEW b \in Assembling(j)'
      PROVE  a = b /\ Entry(j)' = {}
  <2>1. j # k BY <1>6
  <2>2. a \in Assembling(j) /\ b \in Assembling(j) BY <1>6, <2>1
  <2>3. a = b /\ Entry(j) = {} BY <2>2 DEF IndInv, AssembledOnce
  <2> QED BY <1>8, <2>1, <2>3
<1>10. ASSUME NEW j \in Key, NEW s \in Request
       PROVE  inflight'[j] = s <=> s \in Assembling(j)'
  <2>1. CASE j = k
    <3>1. s # None BY NoRequestAssumption
    <3> QED BY <1>6, <1>7, <2>1, <3>1
  <2>2. CASE j # k
    <3>1. inflight'[j] = inflight[j] BY <1>7, <2>2
    <3>2. s \in Assembling(j)' <=> s \in Assembling(j) BY <1>6, <2>2
    <3>3. inflight[j] = s <=> s \in Assembling(j) BY DEF IndInv, FlightHasLeader
    <3> QED BY <3>1, <3>2, <3>3
  <2> QED BY <2>1, <2>2
<1>11. AssembledOnce' BY <1>9 DEF AssembledOnce
<1>12. FlightHasLeader' BY <1>10 DEF FlightHasLeader
<1>13. Outcomes(r)' BY <1>0, <1>1, <1>3 DEF Outcomes, Whole
<1>14. Applied(r)' BY <1>0, <1>1, <1>3 DEF Applied
<1>15. Waiting(r)' BY <1>0, <1>1, <1>3 DEF Waiting
<1>16. Leading(r)' BY <1>3 DEF Leading
<1> QED BY <1>0, <1>1, <1>3, <1>7, <1>8, <1>11, <1>12, <1>13, <1>14, <1>15, <1>16, OneRequestInv DEF TypeOK

\* A closed assembly has its result, for whoever waits.
LEMMA CloseInv ==
    ASSUME IndInv, NEW r \in Request, Close(r)
    PROVE  IndInv'
<1>0. TypeOK /\ Outcomes(r) /\ Applied(r) /\ Waiting(r) BY IndInvSplit DEF RequestsSound
<1>1. /\ req[r].pc = "close" /\ UNCHANGED <<entries, inflight, gone>>
      /\ req' = [req EXCEPT ![r].pc = "answered", ![r].closed = TRUE]
    BY DEF Close, Closed
<1>2. /\ Others(r) /\ req'[r].pc = "answered" /\ req'[r].closed = TRUE /\ req'[r].out = req[r].out
      /\ req'[r].key = req[r].key /\ req'[r].on = req[r].on
      /\ req'[r].left = req[r].left /\ req'[r].right = req[r].right
  <2> DEFINE h == [req[r] EXCEPT !.pc = "answered", !.closed = TRUE]
  <2>1. req[r] \in Handler /\ req \in [Request -> Handler] BY <1>0 DEF TypeOK
  <2>2. h \in Handler BY <2>1 DEF Handler, Pc
  <2>3. req' = [req EXCEPT ![r] = h] BY <1>1, <2>1
  <2>4. /\ h.pc = "answered" /\ h.out = req[r].out /\ h.on = req[r].on
        /\ h.key = req[r].key /\ h.closed = TRUE
        /\ h.left = req[r].left /\ h.right = req[r].right
      BY <2>1 DEF Handler
  <2> HIDE DEF h
  <2> QED BY <1>0, <2>2, <2>3, <2>4, OneRequest
<1>3. Outcomes(r)' BY <1>0, <1>1, <1>2 DEF Outcomes, Whole
<1>4. Applied(r)' BY <1>0, <1>1, <1>2 DEF Applied
<1>5. Waiting(r)' BY <1>0, <1>1, <1>2 DEF Waiting
<1>6. ~Member(r) /\ ~Member(r)' /\ Leading(r)' BY <1>1, <1>2 DEF Member, Leading
<1> QED BY <1>0, <1>1, <1>2, <1>3, <1>4, <1>5, <1>6, SameAssemblies, OneRequestInv DEF TypeOK

\* A request that stops waiting, with the outcome it then has.
LEMMA StopsWaiting ==
    ASSUME IndInv, NEW r \in Request, req[r].pc = "wait", NEW out \in Outcome,
           req' = [req EXCEPT ![r].pc = "answered", ![r].on = None, ![r].out = out],
           UNCHANGED <<entries, inflight, gone>>,
           out.kind = "found" => out.cmp.key = req[r].key /\ Whole(out.cmp),
           out = Cancelled => r \in gone
    PROVE  IndInv'
<1>0. TypeOK /\ Outcomes(r) /\ Applied(r) /\ Waiting(r) BY IndInvSplit DEF RequestsSound
<1>2. /\ Others(r) /\ req'[r].pc = "answered" /\ req'[r].out = out /\ req'[r].on = None
      /\ req'[r].key = req[r].key /\ req'[r].closed = req[r].closed
      /\ req'[r].left = req[r].left /\ req'[r].right = req[r].right
  <2> DEFINE h == [req[r] EXCEPT !.pc = "answered", !.on = None, !.out = out]
  <2>1. req[r] \in Handler /\ req \in [Request -> Handler] BY <1>0 DEF TypeOK
  <2>2. h \in Handler BY <2>1 DEF Handler, Pc
  <2>3. req' = [req EXCEPT ![r] = h] BY <2>1
  <2>4. /\ h.pc = "answered" /\ h.out = out /\ h.on = None
        /\ h.key = req[r].key /\ h.closed = req[r].closed
        /\ h.left = req[r].left /\ h.right = req[r].right
      BY <2>1 DEF Handler
  <2> HIDE DEF h
  <2> QED BY <1>0, <2>2, <2>3, <2>4, OneRequest
<1>3. Outcomes(r)' BY <1>0, <1>2 DEF Outcomes, Waiting, Whole
<1>4. Applied(r)' BY <1>0, <1>2 DEF Applied
<1>5. Waiting(r)' BY <1>0, <1>2 DEF Waiting
<1>6. ~Member(r) /\ ~Member(r)' BY <1>2 DEF Member
<1>7. ~Leading(r) BY <1>0 DEF Leading, Waiting
<1> QED BY <1>0, <1>2, <1>3, <1>4, <1>5, <1>6, <1>7, SameAssemblies, OneRequestInv DEF TypeOK

\* A waiter that wakes takes the result of its own key, and no cancellation.
LEMMA WakeInv ==
    ASSUME IndInv, NEW r \in Request, Wake(r)
    PROVE  IndInv'
<1> DEFINE s == req[r].on
<1>1. req[r].pc = "wait" /\ req[s].closed /\ UNCHANGED <<entries, inflight, gone>>
      /\ req' = [req EXCEPT ![r].pc = "answered", ![r].on = None, ![r].out = req[s].out]
    BY DEF Wake
<1>2. s \in Request /\ req[s].key = req[r].key BY <1>1 DEF IndInv, WaitersHaveLeaders
<1>3. TypeOK /\ Outcomes(s) BY <1>2, IndInvSplit DEF RequestsSound
<1>4. req[s].out \in Outcome /\ req[s].out # None /\ req[s].out # Cancelled
    BY <1>1, <1>2, <1>3 DEF Outcomes, TypeOK, Handler
<1>5. req[s].out.kind = "found" => req[s].out.cmp.key = req[r].key /\ Whole(req[s].out.cmp)
    BY <1>2, <1>3, <1>4 DEF Outcomes
<1> QED BY <1>1, <1>4, <1>5, StopsWaiting

\* A waiter whose client has left is cancelled, alone.
LEMMA GiveUpInv ==
    ASSUME IndInv, NEW r \in Request, GiveUp(r)
    PROVE  IndInv'
<1>1. /\ req[r].pc = "wait" /\ r \in gone /\ UNCHANGED <<entries, inflight, gone>>
      /\ req' = [req EXCEPT ![r].pc = "answered", ![r].on = None, ![r].out = Cancelled]
    BY DEF GiveUp
<1>2. Cancelled \in Outcome /\ Cancelled.kind # "found" BY OutcomesDiffer
<1> QED BY <1>1, <1>2, StopsWaiting

\* The analysis cache goes its own way.
LEMMA UnchangedInv ==
    ASSUME IndInv, UNCHANGED <<entries, inflight, req, gone>>
    PROVE  IndInv'
<1>1. gone \subseteq Request BY DEF IndInv, TypeOK
<1> QED BY <1>1, KeptInv

-------------------------------------------------------------------------------
(* The invariant.                                                            *)

\* It holds at first.
LEMMA InitInv == Init => IndInv
<1> SUFFICES ASSUME Init PROVE IndInv OBVIOUS
<1>1. /\ entries = <<>> /\ inflight = [k \in Key |-> None] /\ req = [r \in Request |-> Idle] /\ gone = {}
    BY DEF Init
<1>2. /\ Idle.pc = "idle" /\ Idle.on = None /\ Idle.closed = FALSE /\ Idle.out = None
    BY DEF Idle
<1>3. TypeOK
  <2>1. entries \in Seq(Built) BY <1>1
  <2>2. req \in [Request -> Handler] BY <1>1, IdleTyped
  <2> QED BY <1>1, <2>1, <2>2 DEF TypeOK
<1>4. \A r \in Request : req[r] = Idle BY <1>1
<1> HIDE DEF Idle
<1>5. \A k \in Key : Assembling(k) = {} BY <1>2, <1>4 DEF Assembling
<1>6. AssembledOnce BY <1>5 DEF AssembledOnce
<1>7. FlightHasLeader
  <2>1. \A r \in Request : r # None BY NoRequestAssumption
  <2> QED BY <1>1, <1>5, <2>1 DEF FlightHasLeader
<1>8. EntriesSound
  <2>1. Len(entries) = 0 /\ DOMAIN entries = {} BY <1>1, EmptySeq
  <2> QED BY <2>1, CapacityAssumption DEF EntriesSound
<1>9. AnswersMatch /\ OnlyOwnClientCancels /\ OutcomesSet
    BY <1>2, <1>4, OutcomesDiffer DEF AnswersMatch, OnlyOwnClientCancels, OutcomesSet
<1>10. WaitersHaveLeaders /\ AppliedInOrder BY <1>2, <1>4 DEF WaitersHaveLeaders, AppliedInOrder
<1> QED BY <1>3, <1>6, <1>7, <1>8, <1>9, <1>10 DEF IndInv

\* Every step keeps it.
LEMMA NextInv == IndInv /\ [Next]_vars => IndInv'
<1> SUFFICES ASSUME IndInv, [Next]_vars PROVE IndInv' OBVIOUS
<1>1. ASSUME NEW r \in Request, NEW k \in Key, Arrive(r, k) PROVE IndInv' BY <1>1, ArriveInv
<1>2. ASSUME NEW r \in Request, Leave(r) PROVE IndInv' BY <1>2, LeaveInv
<1>3. ASSUME NEW r \in Request, Leaves(r) PROVE IndInv' BY <1>3, LeavesInv
<1>4. ASSUME NEW r \in Request, HandlerStep(r) PROVE IndInv'
  <2>1. ASSUME NEW k \in Key, LoadImage(r, "left", k.left, "right") PROVE IndInv'
    <3>1. k.left \in Image BY KeyAssumption DEF Selection
    <3> QED BY <2>1, <3>1, LoadImageInv
  <2>2. ASSUME NEW k \in Key, LoadImage(r, "right", k.right, "lookup") PROVE IndInv'
    <3>1. k.right \in Image BY KeyAssumption DEF Selection
    <3> QED BY <2>2, <3>1, LoadImageInv
  <2>3. CASE Hit(r) BY <2>3, HitInv
  <2>4. CASE Join(r) BY <2>4, JoinInv
  <2>5. CASE Lead(r) BY <2>5, LeadInv
  <2>6. CASE FindLayer(r) BY <2>6, FindLayerInv
  <2>7. CASE LoadLayer(r) BY <2>7, LoadLayerInv
  <2>8. CASE LoadFails(r) BY <2>8, LoadFailsInv
  <2>9. CASE Diff(r) BY <2>9, DiffInv
  <2>10. CASE Publish(r) BY <2>10, PublishInv
  <2>11. CASE Close(r) BY <2>11, CloseInv
  <2>12. CASE Wake(r) BY <2>12, WakeInv
  <2>13. CASE GiveUp(r) BY <2>13, GiveUpInv
  <2> QED BY <1>4, <2>1, <2>2, <2>3, <2>4, <2>5, <2>6, <2>7, <2>8, <2>9, <2>10, <2>11, <2>12, <2>13
          DEF HandlerStep
<1>5. CASE CacheStep
  <2>1. UNCHANGED <<entries, inflight, req, gone>> BY <1>5 DEF CacheStep
  <2> QED BY <2>1, UnchangedInv
<1>6. CASE UNCHANGED vars
  <2>1. UNCHANGED <<entries, inflight, req, gone>> BY <1>6 DEF vars
  <2> QED BY <2>1, UnchangedInv
<1> QED BY <1>1, <1>2, <1>3, <1>4, <1>5, <1>6 DEF Next

\* The comparison cache, its flights and the requests agree in every state.
THEOREM ComparisonsSound == Spec => []IndInv
BY InitInv, NextInv, PTL DEF Spec

\* A key is never assembled twice at once, and never while it is cached.
THEOREM OneAssembly == Spec => []AssembledOnce
<1>1. IndInv => AssembledOnce BY DEF IndInv
<1> QED BY <1>1, ComparisonsSound, PTL

\* An answer is the comparison of its own key, whole, whoever assembled it.
THEOREM AnswersAreOwn == Spec => []AnswersMatch
<1>1. IndInv => AnswersMatch BY DEF IndInv
<1> QED BY <1>1, ComparisonsSound, PTL

\* A client that leaves cancels nobody's request but its own.
THEOREM CancelsAreOwn == Spec => []OnlyOwnClientCancels
<1>1. IndInv => OnlyOwnClientCancels BY DEF IndInv
<1> QED BY <1>1, ComparisonsSound, PTL

-------------------------------------------------------------------------------
(* The errors.                                                               *)

\* A listed image's layers can be read.
CatalogSound ==
    /\ status \in [Image -> Catalog!Status]
    /\ \A i \in Catalog!Listed : LayersOf[i] \subseteq readable

\* The analysis cache keeps it so, whatever it stores, lists, evicts and drops.
LEMMA CatalogInv == Spec => []CatalogSound
<1>1. Init => CatalogSound
    BY DEF Init, Catalog!Init, CatalogSound, Catalog!Status, Catalog!Listed
<1>2. CatalogSound /\ [Next]_vars => CatalogSound'
  <2> SUFFICES ASSUME CatalogSound, [Next]_vars PROVE CatalogSound' OBVIOUS
  <2>1. ASSUME UNCHANGED cache PROVE CatalogSound'
      BY <2>1 DEF CatalogSound, Catalog!Status, Catalog!Listed
  <2>2. ASSUME NEW l \in Layer, Catalog!Store(l) PROVE CatalogSound'
      BY <2>2 DEF CatalogSound, Catalog!Status, Catalog!Listed, Catalog!Store
  <2>3. ASSUME NEW l \in Layer, Catalog!Drop({l}) PROVE CatalogSound'
      BY <2>3 DEF CatalogSound, Catalog!Status, Catalog!Listed, Catalog!Drop
  <2>4. ASSUME NEW i \in Image, Catalog!Publish(i, "listed") PROVE CatalogSound'
      BY <2>4 DEF CatalogSound, Catalog!Status, Catalog!Listed, Catalog!Publish
  <2>5. ASSUME NEW i \in Image, Catalog!Evict(i) PROVE CatalogSound'
      BY <2>5 DEF CatalogSound, Catalog!Status, Catalog!Listed, Catalog!Evict
  <2>6. CASE CacheStep BY <2>2, <2>3, <2>4, <2>5, <2>6 DEF CacheStep
  <2>7. ASSUME NEW r \in Request, NEW k \in Key, Arrive(r, k) PROVE CatalogSound'
      BY <2>1, <2>7 DEF Arrive
  <2>8. ASSUME NEW r \in Request, Leave(r) \/ Leaves(r) PROVE CatalogSound'
      BY <2>1, <2>8 DEF Leave, Leaves
  <2>9. ASSUME NEW r \in Request, HandlerStep(r) PROVE CatalogSound'
      BY <2>1, <2>9 DEF HandlerStep, LoadImage, Hit, Join, Lead, FindLayer, LoadLayer, LoadFails,
         Diff, Publish, Close, Wake, GiveUp
  <2>10. CASE UNCHANGED vars BY <2>1, <2>10 DEF vars
  <2> QED BY <2>6, <2>7, <2>8, <2>9, <2>10 DEF Next
<1> QED BY <1>1, <1>2, PTL DEF Spec

\* A handler's step is its own.
LEMMA HandlerStepOthers ==
    ASSUME TypeOK, NEW s \in Request, HandlerStep(s), NEW r \in Request, r # s
    PROVE  req'[r] = req[r]
BY DEF TypeOK, HandlerStep, LoadImage, Answer, Hit, Join, Lead, FindLayer, LoadLayer, LoadFails,
       Diff, Publish, Close, Wake, GiveUp

\* The layer that is applied next is one of the image it is looked up for.
LEMMA NextLayerOf ==
    ASSUME IndInv, NEW r \in Request, req[r].pc \in {"load", "open"}, Pending(r) # "none"
    PROVE  Side(r) \in Image /\ NextLayer(r) \in LayersOf[Side(r)]
<1> DEFINE k == req[r].key
<1>1. Applied(r) /\ TypeOK BY IndInvSplit DEF RequestsSound
<1>2. /\ k.left \in Image /\ k.right \in Image
      /\ k.leftLayers \in 0..Len(Stack[k.left]) /\ k.rightLayers \in 0..Len(Stack[k.right])
      /\ Stack[k.left] \in Seq(Layer) /\ Stack[k.right] \in Seq(Layer)
      /\ Len(req[r].left) \in Nat /\ Len(req[r].right) \in Nat
    BY <1>1, KeyOf, StackAssumption, LenProperties DEF TypeOK, Handler
<1>3. ASSUME NEW s \in Seq(Layer), NEW n \in Nat, n < Len(s) PROVE s[n+1] \in ToSet(s)
  <2>1. n+1 \in DOMAIN s BY <1>3, LenProperties
  <2> QED BY <2>1 DEF ToSet
<1>4. CASE Pending(r) = "left"
  <2>1. Len(req[r].left) < k.leftLayers BY <1>4 DEF Pending
  <2>2. Len(req[r].left) < Len(Stack[k.left]) BY SMTT(20), <1>2, <2>1, LenProperties
  <2>3. Stack[k.left][Len(req[r].left)+1] \in ToSet(Stack[k.left]) BY <1>2, <1>3, <2>2
  <2> QED BY <1>2, <1>4, <2>3 DEF Side, NextLayer, LayersOf
<1>5. CASE Pending(r) # "left"
  <2>1. Len(req[r].right) < k.rightLayers BY <1>5 DEF Pending
  <2>2. Len(req[r].right) < Len(Stack[k.right]) BY SMTT(20), <1>2, <2>1, LenProperties
  <2>3. Stack[k.right][Len(req[r].right)+1] \in ToSet(Stack[k.right]) BY <1>2, <1>3, <2>2
  <2> QED BY <1>2, <1>5, <2>3 DEF Side, NextLayer, LayersOf
<1> QED BY <1>4, <1>5

\* The image an error names was not listed when the error arose: the lookup
\* that failed was its own, or that of a layer no listed image may lack.
THEOREM ErrorsNameTheEvicted == Spec => ErrorNamesEvicted
<1> DEFINE Named == \A r \in Request, i \in Image :
              req[r].pc \in {"left", "right", "load", "open"} /\ req'[r].out = NotFound(i) =>
                  i \notin Catalog!Listed
<1>1. IndInv /\ CatalogSound /\ [Next]_vars => Named
  <2> SUFFICES ASSUME IndInv, CatalogSound, [Next]_vars, NEW r \in Request, NEW i \in Image,
                      req[r].pc \in {"left", "right", "load", "open"}, req'[r].out = NotFound(i)
               PROVE  i \notin Catalog!Listed
      OBVIOUS
  <2>0. TypeOK /\ req \in [Request -> Handler] BY DEF IndInv, TypeOK
  <2>1. req'[r].out # req[r].out /\ req'[r] # req[r]
    <3>1. req[r].out = None BY DEF IndInv, OutcomesSet
    <3> QED BY <3>1, OutcomesDiffer
  <2>2. \A j \in Image : NotFound(i) = NotFound(j) => i = j BY OutcomesDiffer
  <2>3. HandlerStep(r)
    <3>1. ~UNCHANGED req BY <2>1
    <3>2. ~CacheStep /\ ~(UNCHANGED vars) BY <3>1 DEF CacheStep, vars
    <3>3. PICK s \in Request : (\E k \in Key : Arrive(s, k)) \/ Leaves(s) \/ HandlerStep(s)
        BY <3>1, <3>2 DEF Next, Leave
    <3>4. CASE \E k \in Key : Arrive(s, k) BY <2>0, <2>1, <3>4 DEF Arrive
    <3>5. CASE Leaves(s) BY <2>0, <2>1, <3>5 DEF Leaves
    <3>6. CASE HandlerStep(s) BY <2>0, <2>1, <3>6, HandlerStepOthers
    <3> QED BY <3>3, <3>4, <3>5, <3>6
  <2>4. ASSUME NEW pc, NEW next, NEW j \in Image, LoadImage(r, pc, j, next)
        PROVE  i \notin Catalog!Listed
    <3>1. CASE r \in gone
      <4>1. req'[r].out = Cancelled BY <2>0, <2>4, <3>1 DEF LoadImage, Answer, Handler
      <4> QED BY <4>1, OutcomesDiffer
    <3>2. CASE r \notin gone /\ j \in Catalog!Listed
        BY <2>0, <2>1, <2>4, <3>2 DEF LoadImage, Handler
    <3>3. CASE r \notin gone /\ j \notin Catalog!Listed
      <4>1. req'[r].out = NotFound(j) BY <2>0, <2>4, <3>3 DEF LoadImage, Answer, Handler
      <4> QED BY <2>2, <3>3, <4>1
    <3> QED BY <3>1, <3>2, <3>3
  <2>5. CASE \E k \in Key : /\ req[r].key = k
                            /\ \/ LoadImage(r, "left", k.left, "right")
                               \/ LoadImage(r, "right", k.right, "lookup")
    <3>1. \A k \in Key : k.left \in Image /\ k.right \in Image BY KeyAssumption DEF Selection
    <3> QED BY <2>4, <2>5, <3>1
  <2>6. CASE FindLayer(r) BY <2>0, <2>1, <2>6 DEF FindLayer, Handler
  <2>7. CASE LoadLayer(r) BY <2>0, <2>1, <2>7 DEF LoadLayer, Handler
  <2>8. CASE LoadFails(r)
    <3>1. PICK out \in {NotFound(Side(r)), Internal, Cancelled} :
            /\ out = NotFound(Side(r)) => NextLayer(r) \notin readable
            /\ req' = [req EXCEPT ![r].pc = "publish", ![r].out = out]
        BY <2>8 DEF LoadFails
    <3>2. req'[r].out = out BY <2>0, <3>1 DEF Handler
    <3>3. Side(r) \in Image /\ NextLayer(r) \in LayersOf[Side(r)]
        BY <2>8, NextLayerOf DEF LoadFails
    <3>4. out = NotFound(Side(r)) /\ i = Side(r) BY <2>2, <3>1, <3>2, <3>3, OutcomesDiffer
    <3> QED BY <3>1, <3>3, <3>4 DEF CatalogSound
  <2>9. CASE Diff(r)
    <3>1. req'[r].out = Found([key |-> req[r].key, left |-> req[r].left, right |-> req[r].right])
        BY <2>0, <2>9 DEF Diff, Handler
    <3> QED BY <3>1 DEF Found, NotFound
  <2>10. ~(Hit(r) \/ Join(r) \/ Lead(r) \/ Publish(r) \/ Close(r) \/ Wake(r) \/ GiveUp(r))
      BY DEF Hit, Join, Lead, Publish, Close, Wake, GiveUp
  <2> QED BY <2>3, <2>5, <2>6, <2>7, <2>8, <2>9, <2>10 DEF HandlerStep
<1>2. Spec => []IndInv /\ []CatalogSound BY ComparisonsSound, CatalogInv
<1>3. IndInv /\ CatalogSound /\ [Next]_vars => [Named]_vars BY <1>1
<1> QED BY <1>2, <1>3, PTL DEF Spec, ErrorNamesEvicted

-------------------------------------------------------------------------------
(* Why requests are answered: whom a waiter waits for goes on by itself, and  *)
(* a rank in the naturals falls with every step of a handler.                *)

\* A request that waits for nobody: each of the handler's other points has a
\* step whatever the caches hold, since a layer that is gone is an error.
Ready(r) ==
    \/ req[r].pc \notin {"idle", "wait", "answered"}
    \/ req[r].pc = "wait" /\ (req[req[r].on].closed \/ r \in gone)

\* A request that cannot go on waits for one that can.
WaitersAreLed ==
    \A r \in Request : req[r].pc \notin {"idle", "answered"} =>
        Ready(r) \/ (req[r].pc = "wait" /\ Ready(req[r].on))

\* The layers still to be applied, on both sides.
LayersLeft(h) == (h.key.leftLayers - Len(h.left)) + (h.key.rightLayers - Len(h.right))

\* The steps a handler has before it, at most: a layer takes two.
StepsLeft(h) ==
    CASE h.pc = "left" -> 2 * LayersLeft(h) + 6
      [] h.pc = "right" -> 2 * LayersLeft(h) + 5
      [] h.pc = "lookup" -> 2 * LayersLeft(h) + 4
      [] h.pc = "load" -> 2 * LayersLeft(h) + 3
      [] h.pc = "open" -> 2 * LayersLeft(h) + 2
      [] h.pc = "publish" -> 2
      [] h.pc \in {"wait", "close"} -> 1
      [] OTHER -> 0

\* Every step of a handler leaves it fewer, and until it has answered no other
\* step touches its request.
HandlersDescend ==
    [][\A r \in Request : req[r].pc \notin {"idle", "answered"} =>
            /\ HandlerStep(r) => StepsLeft(req'[r]) < StepsLeft(req[r])
            /\ ~HandlerStep(r) => req'[r] = req[r]]_vars

\* No request is stuck behind another: a waiter's leader is never a waiter
\* itself, whoever left, whatever was evicted, and however often the key was
\* assembled since.
THEOREM RequestsAreNeverStuck == Spec => []WaitersAreLed
<1>1. IndInv => WaitersAreLed
    BY DEF IndInv, WaitersHaveLeaders, WaitersAreLed, Ready
<1> QED BY <1>1, ComparisonsSound, PTL

\* Two differences, and one of them one less.
LEMMA Differences ==
    \A a, b, c, d \in Nat :
        /\ (a - (b+1)) + (c - d) = (a - b) + (c - d) - 1
        /\ (a - b) + (c - (d+1)) = (a - b) + (c - d) - 1
        /\ b <= a /\ d <= c => /\ (a - b) + (c - d) \in Nat
                               /\ b < a \/ d < c => (a - b) + (c - d) > 0
OBVIOUS

\* What is left to apply is a number.
LEMMA LayersLeftIsNat ==
    ASSUME IndInv, NEW r \in Request, req[r].pc # "idle"
    PROVE  /\ LayersLeft(req[r]) \in Nat
           /\ req[r].key.leftLayers \in Nat /\ req[r].key.rightLayers \in Nat
           /\ Len(req[r].left) \in Nat /\ Len(req[r].right) \in Nat
<1> DEFINE k == req[r].key
<1>1. Applied(r) /\ TypeOK BY IndInvSplit DEF RequestsSound
<1>2. k \in Selection BY <1>1, KeyAssumption DEF Applied
<1>3. Len(req[r].left) \in Nat /\ Len(req[r].right) \in Nat
    BY <1>1, LenProperties DEF TypeOK, Handler
<1>4. k.leftLayers \in Nat /\ k.rightLayers \in Nat BY <1>2 DEF Selection
<1>5. Len(req[r].left) <= k.leftLayers /\ Len(req[r].right) <= k.rightLayers BY <1>1 DEF Applied
<1> HIDE DEF k
<1>6. (k.leftLayers - Len(req[r].left)) + (k.rightLayers - Len(req[r].right)) \in Nat
    BY <1>3, <1>4, <1>5, Differences
<1> QED BY <1>3, <1>4, <1>6 DEF LayersLeft, k

\* A handler's own steps.
LEMMA HandlerFalls ==
    ASSUME IndInv, NEW r \in Request, HandlerStep(r)
    PROVE  StepsLeft(req'[r]) < StepsLeft(req[r])
<1> DEFINE h == req[r]
           g == req'[r]
<1>t. req \in [Request -> Handler] /\ h \in Handler BY DEF IndInv, TypeOK
<1>i. h.pc # "idle"
    BY DEF HandlerStep, LoadImage, Hit, Join, Lead, FindLayer, LoadLayer, LoadFails, Diff, Publish,
       Close, Wake, GiveUp
<1>n. /\ LayersLeft(h) \in Nat
      /\ h.key.leftLayers \in Nat /\ h.key.rightLayers \in Nat
      /\ Len(h.left) \in Nat /\ Len(h.right) \in Nat
    BY <1>i, LayersLeftIsNat
<1>1. ASSUME \E i : LoadImage(r, "left", i, "right") \/ LoadImage(r, "right", i, "lookup")
      PROVE  StepsLeft(g) < StepsLeft(h)
  <2>1. /\ \/ h.pc = "left" /\ g.pc \in {"answered", "right"}
           \/ h.pc = "right" /\ g.pc \in {"answered", "lookup"}
        /\ g.key = h.key /\ g.left = h.left /\ g.right = h.right
      BY <1>1, <1>t DEF LoadImage, Answer, Handler
  <2> HIDE DEF h, g
  <2>2. LayersLeft(g) = LayersLeft(h) BY <2>1 DEF LayersLeft
  <2> QED BY <1>n, <2>1, <2>2 DEF StepsLeft
<1>2. ASSUME Hit(r) \/ Join(r)
      PROVE  StepsLeft(g) < StepsLeft(h)
  <2>1. h.pc = "lookup" /\ g.pc \in {"answered", "wait"}
      BY <1>2, <1>t DEF Hit, Join, Answer, Handler
  <2> HIDE DEF h, g
  <2> QED BY <1>n, <2>1 DEF StepsLeft
<1>3. ASSUME Lead(r) \/ FindLayer(r)
      PROVE  StepsLeft(g) < StepsLeft(h)
  <2>1. /\ \/ h.pc = "lookup" /\ g.pc = "load"
           \/ h.pc = "load" /\ g.pc = "open"
        /\ g.key = h.key /\ g.left = h.left /\ g.right = h.right
      BY <1>3, <1>t DEF Lead, FindLayer, Handler
  <2> HIDE DEF h, g
  <2>2. LayersLeft(g) = LayersLeft(h) BY <2>1 DEF LayersLeft
  <2> QED BY <1>n, <2>1, <2>2 DEF StepsLeft
<1>4. ASSUME LoadLayer(r)
      PROVE  StepsLeft(g) < StepsLeft(h)
  <2> DEFINE l == NextLayer(r)
  <2>1. h.pc = "open" /\ h.left \in Seq(Layer) /\ h.right \in Seq(Layer)
      BY <1>4, <1>t DEF LoadLayer, Handler
  <2>2. \/ req' = [req EXCEPT ![r].pc = "load", ![r].left = Append(@, l)]
        \/ req' = [req EXCEPT ![r].pc = "load", ![r].right = Append(@, l)]
      BY <1>4 DEF LoadLayer
  <2> HIDE DEF l
  <2>3. /\ g.pc = "load" /\ g.key = h.key
        /\ \/ g.left = Append(h.left, l) /\ g.right = h.right
           \/ g.left = h.left /\ g.right = Append(h.right, l)
      BY <1>t, <2>2 DEF Handler
  <2>4. Len(Append(h.left, l)) = Len(h.left) + 1 /\ Len(Append(h.right, l)) = Len(h.right) + 1
      BY <2>1, AppendProperties
  <2> HIDE DEF h, g
  <2>5. LayersLeft(g) = LayersLeft(h) - 1
    <3>0. PICK a \in Nat, b \in Nat, c \in Nat, d \in Nat :
              /\ h.key.leftLayers = a /\ Len(h.left) = b
              /\ h.key.rightLayers = c /\ Len(h.right) = d
        BY <1>n
    <3>h. LayersLeft(h) = (a - b) + (c - d) BY <3>0 DEF LayersLeft
    <3>1. CASE g.left = Append(h.left, l) /\ g.right = h.right
      <4>1. Len(g.left) = Len(h.left) + 1 /\ Len(g.right) = Len(h.right) BY <2>4, <3>1
      <4>2. LayersLeft(g) = (a - (b + 1)) + (c - d) BY <2>3, <3>0, <4>1 DEF LayersLeft
      <4> QED BY <3>h, <4>2, Differences
    <3>2. CASE g.left = h.left /\ g.right = Append(h.right, l)
      <4>1. Len(g.left) = Len(h.left) /\ Len(g.right) = Len(h.right) + 1 BY <2>4, <3>2
      <4>2. LayersLeft(g) = (a - b) + (c - (d + 1)) BY <2>3, <3>0, <4>1 DEF LayersLeft
      <4> QED BY <3>h, <4>2, Differences
    <3> QED BY <2>3, <3>1, <3>2
  <2> QED BY <1>n, <2>1, <2>3, <2>5 DEF StepsLeft
<1>5. ASSUME LoadFails(r) \/ Diff(r)
      PROVE  StepsLeft(g) < StepsLeft(h)
  <2>1. h.pc \in {"load", "open"} /\ g.pc = "publish"
      BY <1>5, <1>t DEF LoadFails, Diff, Handler
  <2>2. h.pc = "open" => LayersLeft(h) > 0
    <3> SUFFICES ASSUME h.pc = "open" PROVE LayersLeft(h) > 0 OBVIOUS
    <3>1. Applied(r) BY IndInvSplit DEF RequestsSound
    <3>2. /\ Len(h.left) <= h.key.leftLayers /\ Len(h.right) <= h.key.rightLayers
          /\ Len(h.left) < h.key.leftLayers \/ Len(h.right) < h.key.rightLayers
        BY <3>1 DEF Applied, Pending
    <3> HIDE DEF h
    <3> QED BY <1>n, <3>2, Differences DEF LayersLeft
  <2> HIDE DEF h, g
  <2> QED BY <1>n, <2>1, <2>2 DEF StepsLeft
<1>6. ASSUME Publish(r) \/ Close(r) \/ Wake(r) \/ GiveUp(r)
      PROVE  StepsLeft(g) < StepsLeft(h)
  <2>1. \/ h.pc = "publish" /\ g.pc = "close"
        \/ h.pc \in {"close", "wait"} /\ g.pc = "answered"
      BY <1>6, <1>t DEF Publish, Close, Wake, GiveUp, Handler
  <2> HIDE DEF h, g
  <2> QED BY <2>1 DEF StepsLeft
<1> HIDE DEF h, g
<1>7. StepsLeft(g) < StepsLeft(h)
    BY <1>1, <1>2, <1>3, <1>4, <1>5, <1>6 DEF HandlerStep
<1> QED BY <1>7 DEF h, g

\* A request that is not over is its handler's alone.
LEMMA RequestsMoveAlone ==
    ASSUME IndInv, [Next]_vars, NEW r \in Request, req[r].pc \notin {"idle", "answered"},
           ~HandlerStep(r)
    PROVE  req'[r] = req[r]
<1>t. TypeOK /\ req \in [Request -> Handler] BY DEF IndInv, TypeOK
<1>1. ASSUME NEW s \in Request, NEW k \in Key, Arrive(s, k) PROVE req'[r] = req[r]
    BY <1>1, <1>t DEF Arrive
<1>2. ASSUME NEW s \in Request, Leave(s) \/ Leaves(s) PROVE req'[r] = req[r]
    BY <1>2, <1>t DEF Leave, Leaves
<1>3. ASSUME NEW s \in Request, HandlerStep(s) PROVE req'[r] = req[r]
    BY <1>3, <1>t, HandlerStepOthers
<1>4. CASE CacheStep \/ UNCHANGED vars BY <1>4 DEF CacheStep, vars
<1> QED BY <1>1, <1>2, <1>3, <1>4 DEF Next

\* A handler takes finitely many steps to its answer: what is left for it is a
\* natural number, each of its steps lowers it, and the clients, the other
\* requests and the analysis cache leave it alone.
THEOREM HandlersAlwaysDescend ==
    Spec => [](\A r \in Request : req[r].pc # "idle" => StepsLeft(req[r]) \in Nat) /\ HandlersDescend
<1>1. IndInv => \A r \in Request : req[r].pc # "idle" => StepsLeft(req[r]) \in Nat
  <2> SUFFICES ASSUME IndInv, NEW r \in Request, req[r].pc # "idle"
               PROVE  StepsLeft(req[r]) \in Nat
      OBVIOUS
  <2>1. LayersLeft(req[r]) \in Nat BY LayersLeftIsNat
  <2> QED BY <2>1 DEF StepsLeft
<1>2. IndInv /\ [Next]_vars =>
        [\A r \in Request : req[r].pc \notin {"idle", "answered"} =>
            /\ HandlerStep(r) => StepsLeft(req'[r]) < StepsLeft(req[r])
            /\ ~HandlerStep(r) => req'[r] = req[r]]_vars
    BY HandlerFalls, RequestsMoveAlone
<1> QED BY <1>1, <1>2, ComparisonsSound, PTL DEF Spec, HandlersDescend
===============================================================================
