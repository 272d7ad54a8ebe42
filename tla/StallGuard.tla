------------------------------ MODULE StallGuard ------------------------------
(***************************************************************************)
(* safehttp.stallGuard: a response body read by one goroutine, and the     *)
(* watchdog that cancels the request when a window brings too little.      *)
(* The body's length is declared, so an upstream that dies by itself shows *)
(* as an error; one whose request was cancelled may hang up as if the body *)
(* had ended.  A window may pass at any time.                              *)
(***************************************************************************)
EXTENDS Naturals

CONSTANTS
    BodySize,  \* bytes of a body
    Expected,  \* bytes in a window at the minimum rate, rounded down
    None

ASSUME BodySizeAssumption == BodySize \in Nat
ASSUME ExpectedAssumption == Expected \in Nat
ASSUME NoEndAssumption == None \notin {"eof", "error", "stalled"}

VARIABLES
    sent,      \* bytes the upstream has put on the wire
    line,      \* the connection: up, lost, or left by the caller's own context
    read,      \* stallGuard.read
    tripped,   \* stallGuard.tripped
    cancelled, \* the request's context
    closed,    \* stallGuard.done
    watchdog,  \* its goroutine
    reader     \* the goroutine inside Read, or between two

guard == <<sent, line, read, tripped, cancelled, closed, watchdog, reader>>

\* What inner.Read returns beside its bytes, and what Read makes of it.
End == {None, "eof", "error", "stalled"}
Watchdog == [pc: {"wait", "trip", "cancel", "gone"}, last: Nat]
Reader == [pc: {"ready", "got", "over"}, n: 0..1, end: End]

GuardOK ==
    /\ read \in 0..BodySize /\ sent \in 0..BodySize
    /\ line \in {"up", "lost", "left"}
    /\ {tripped, cancelled, closed} \subseteq BOOLEAN
    /\ watchdog \in Watchdog
    /\ reader \in Reader

\* No body: the state newStallGuard's fields have before and after.
GuardInit ==
    /\ sent = 0 /\ read = 0
    /\ line = "up" /\ tripped = FALSE /\ cancelled = FALSE /\ closed = TRUE
    /\ watchdog = [pc |-> "gone", last |-> 0]
    /\ reader = [pc |-> "over", n |-> 0, end |-> None]

\* newStallGuard: a body, and its watchdog.
Open ==
    /\ sent' = 0 /\ read' = 0
    /\ line' = "up" /\ tripped' = FALSE /\ cancelled' = FALSE /\ closed' = FALSE
    /\ watchdog' = [pc |-> "wait", last |-> 0]
    /\ reader' = [pc |-> "ready", n |-> 0, end |-> None]

Send ==
    /\ ~closed /\ ~cancelled /\ line = "up"
    /\ sent < BodySize
    /\ sent' = sent + 1
    /\ UNCHANGED <<line, read, tripped, cancelled, closed, watchdog, reader>>

Break ==
    /\ ~closed /\ line = "up"
    /\ line' \in {"lost", "left"}
    /\ UNCHANGED <<sent, read, tripped, cancelled, closed, watchdog, reader>>

-------------------------------------------------------------------------------
(* The watchdog.                                                             *)

\* The bytes a window must bring, never none: nothing falls short of none.
\* Mutant: a low rate over a short window asks for none.
FloorOfNone == Expected
Floor == IF Expected < 1 THEN 1 ELSE Expected

\* A window has passed: what did it bring?
Tick ==
    /\ watchdog.pc = "wait"
    /\ watchdog' = IF read - watchdog.last < Floor THEN [watchdog EXCEPT !.pc = "trip"]
                   ELSE [watchdog EXCEPT !.last = read]
    /\ UNCHANGED <<sent, line, read, tripped, cancelled, closed, reader>>

\* First the mark, then the cancellation.
Mark(pc) == IF pc = "trip" THEN "tripped" ELSE "cancelled"

Trip ==
    /\ watchdog.pc \in {"trip", "cancel"}
    /\ watchdog' = [watchdog EXCEPT !.pc = IF @ = "trip" THEN "cancel" ELSE "gone"]
    /\ tripped' = (tripped \/ Mark(watchdog.pc) = "tripped")
    /\ cancelled' = (cancelled \/ Mark(watchdog.pc) = "cancelled")
    /\ UNCHANGED <<sent, line, read, closed, reader>>

\* The body was closed meanwhile; select may still take a tick that is due.
Dismissed ==
    /\ watchdog.pc = "wait"
    /\ closed
    /\ watchdog' = [pc |-> "gone", last |-> 0]
    /\ UNCHANGED <<sent, line, read, tripped, cancelled, closed, reader>>

WatchdogStep == Tick \/ Trip \/ Dismissed

-------------------------------------------------------------------------------
(* Read.                                                                     *)

\* inner.Read blocks until there are bytes, the end after the last of them or an
\* error; once the request is cancelled it returns whatever a hang-up looks like.
ReadInner ==
    /\ reader.pc = "ready"
    /\ ~closed
    /\ \E n \in 0..1, end \in {None, "eof", "error"} :
        /\ n = 1 => read < sent
        /\ end = None => n = 1
        /\ end = "eof" => read + n = BodySize \/ cancelled \/ line = "left"
        /\ end = "error" => cancelled \/ line # "up"
        /\ reader' = [pc |-> "got", n |-> n, end |-> end]
    /\ UNCHANGED <<sent, line, read, tripped, cancelled, closed, watchdog>>

\* A body that was tripped has no legitimate end.  Mutant: a clean end is
\* taken at its word.
EndsCleanly(end) == IF tripped /\ end = "error" THEN "stalled" ELSE end
Ends(end) == IF tripped /\ end # None THEN "stalled" ELSE end

Return ==
    /\ reader.pc = "got"
    /\ read' = read + reader.n
    /\ reader' = [reader EXCEPT !.pc = IF reader.end = None THEN "ready" ELSE "over",
                                !.n = 0, !.end = Ends(@)]
    /\ UNCHANGED <<sent, line, tripped, cancelled, closed, watchdog>>

ReaderStep == ReadInner \/ Return

\* Close, by the goroutine that reads: done is closed, the request cancelled.
Close ==
    /\ reader.pc # "got"
    /\ closed' = TRUE
    /\ cancelled' = TRUE
    /\ UNCHANGED <<sent, line, read, tripped, watchdog, reader>>

\* Nobody holds the body any more; what its watchdog still does, it does to
\* nobody.
Discard ==
    /\ sent' = 0 /\ read' = 0
    /\ line' = "up" /\ tripped' = FALSE /\ cancelled' = FALSE /\ closed' = TRUE
    /\ watchdog' = [pc |-> "gone", last |-> 0]
    /\ reader' = [pc |-> "over", n |-> 0, end |-> None]

GuardStep == Send \/ Break \/ WatchdogStep \/ ReaderStep

\* Nobody but a caller that has left is handed a short body as if it were whole,
\* though a cancelled request may end cleanly, at whatever moment of a Read the
\* watchdog strikes.
EofMeansWhole ==
    reader.pc = "over" /\ reader.end = "eof" => read = BodySize \/ line = "left"
===============================================================================
