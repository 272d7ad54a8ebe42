----------------------------- MODULE CacheCatalog -----------------------------
(* CacheStore as an implementation of ImageCatalog: the catalog is the image *)
(* table, pinned flags included, and the readable layers the layer table.    *)
EXTENDS CacheStore

\* What Images and Image show of the table.
statusBar ==
    [i \in Image |-> IF images[i] = None THEN "absent"
                     ELSE IF images[i].rec.pinned THEN "pinned" ELSE "listed"]

Catalog == INSTANCE ImageCatalog WITH status <- statusBar, readable <- layers

\* The store keeps the catalog's promise through every interleaving, eviction
\* and crash: an image is listed only over readable layers and loses none of
\* them while it is listed, eviction takes no pinned image, and a restart lists
\* complete images only (Commit, evictLRULocked, sweep).
ImplementsCatalog == Catalog!Spec
===============================================================================
