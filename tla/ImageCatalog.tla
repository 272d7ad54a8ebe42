----------------------------- MODULE ImageCatalog -----------------------------
(***************************************************************************)
(* What the cache promises its readers (domain.ImageStore and              *)
(* domain.LayerIndexSource): a catalog of images, each listed or pinned,   *)
(* and the layers whose index can be read.  No bytes, no files, no locks.  *)
(***************************************************************************)

CONSTANTS Image, Layer, LayersOf

VARIABLES
    status,    \* what a listing shows of every image
    readable   \* the layers a comparison can load

vars == <<status, readable>>

Status == {"absent", "listed", "pinned"}
Listed == {i \in Image : status[i] # "absent"}

Init ==
    /\ status = [i \in Image |-> "absent"]
    /\ readable = {}

\* An ingest adds a layer.
Store(l) ==
    /\ readable' = readable \cup {l}
    /\ UNCHANGED status

\* An image is listed only over layers that can be read.
Publish(i, s) ==
    /\ LayersOf[i] \subseteq readable
    /\ status' = [status EXCEPT ![i] = s]
    /\ UNCHANGED readable

Pin(i) ==
    /\ i \in Listed
    /\ status' = [status EXCEPT ![i] = "pinned"]
    /\ UNCHANGED readable

\* A pinned image is not the cache's to take.
Evict(i) ==
    /\ status[i] = "listed"
    /\ status' = [status EXCEPT ![i] = "absent"]
    /\ UNCHANGED readable

\* A layer goes only when no listed image needs it.
Drop(S) ==
    /\ \A i \in Listed : LayersOf[i] \cap S = {}
    /\ readable' = readable \ S
    /\ UNCHANGED status

\* The process ends, and a later one lists what it finds complete.
Lose ==
    /\ status' = [i \in Image |-> "absent"]
    /\ readable' = {}

Recover ==
    /\ Listed = {}
    /\ readable = {}
    /\ readable' \in SUBSET Layer
    /\ status' \in [Image -> Status]
    /\ \A i \in Image : status'[i] # "absent" => LayersOf[i] \subseteq readable'

Next ==
    \/ \E l \in Layer : Store(l)
    \/ \E i \in Image : Evict(i) \/ Pin(i) \/ \E s \in {"listed", "pinned"} : Publish(i, s)
    \/ \E S \in SUBSET Layer : Drop(S)
    \/ Lose
    \/ Recover

Spec == Init /\ [][Next]_vars
===============================================================================
