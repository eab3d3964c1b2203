----------------------------- MODULE MCImageCache -----------------------------
(***************************************************************************)
(* ImageCache on small instances: lists with a repeated image, with more   *)
(* images than fit in the cache, and with more than there are workers.     *)
(***************************************************************************)
EXTENDS ImageCache, TLC

CONSTANTS i1, i2, i3

MCImages == {i1, i2, i3}
MCLists == {<<i1>>, <<i2, i2>>, <<i1, i2>>, <<i3, i2, i1>>}
Symmetry == Permutations(Processes)
=============================================================================
