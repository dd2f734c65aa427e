------------------------ MODULE MCHeapProfileTable ------------------------
(* Model-checking instance of HeapProfileTable.  Stacks are frame          *)
(* sequences whose frame sums collide in a two-slot bucket_table_:         *)
(* <<1, 2>> and <<2, 1>> share slot and depth and differ only in frame    *)
(* order, <<1>> shares their slot with a different depth.                 *)
EXTENDS HeapProfileTable, TLC

\* Addresses and snapshot objects are interchangeable.
Symmetry == Permutations(Addrs) \cup Permutations(SnapIds)

MCStacks == {<<1>>, <<2>>, <<1, 2>>, <<2, 1>>}

\* A single stack, for runs about the address map alone.
OneStack == {<<1>>}
=============================================================================
