------------------------------- MODULE MCIngest -------------------------------
(* Instances of Ingest for TLC: the two images share their base layer.       *)
EXTENDS Ingest, TLC

CONSTANTS base, tiny, manifest, bBase, bTiny, bNote

MCDiffIds == 1 :> <<base, tiny>> @@ 2 :> <<base>>
MCHolds == bBase :> base @@ bTiny :> tiny @@ bNote :> None
MCManifestLayers == <<bBase, bTiny>>
===============================================================================
