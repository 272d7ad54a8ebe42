----------------------------- MODULE MCCacheStore -----------------------------
(* Instances of CacheStore for TLC: images that share layer b, and one that  *)
(* shares nothing.                                                           *)
EXTENDS CacheCatalog, TLC

CONSTANTS a, b, c, t1, t2, w1, w2, r1

MCLayersOf == 1 :> {a, b} @@ 2 :> {b, c}
MCLayerSize == a :> 2 @@ b :> 1 @@ c :> 2
MCThreeImages == 1 :> {a, b} @@ 2 :> {b} @@ 3 :> {c}
MCThreeSizes == a :> 1 @@ b :> 1 @@ c :> 2
MCSharedLayer == 1 :> {a, b} @@ 2 :> {b}
MCTwoLayerSize == a :> 2 @@ b :> 1
MCOneLayer == 1 :> {a}
MCOneLayerSize == a :> 2
MCTwoTxns == {t1, t2}
TxnSymmetry == Permutations(MCTwoTxns)
===============================================================================
