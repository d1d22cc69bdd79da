------------------------- MODULE MCFileSystemCache -------------------------
EXTENDS FileSystemCache, TLC

CONSTANTS t1, t2, b1

(* Two threads that use the same block.                                    *)
SameBlock == (t1 :> {b1}) @@ (t2 :> {b1})
=============================================================================
