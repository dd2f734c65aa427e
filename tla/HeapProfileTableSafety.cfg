\* Bucket store, accounting and leak checking together: two addresses (so one
\* is freed and reused), two RecordAllocs, four stacks colliding in a two-slot
\* bucket_table_ (<<1,2>> and <<2,1>> share a slot and a depth), one size of
\* 2 bytes (so byte totals differ from counts), and two snapshots (a base and
\* a leak report held at once).
CONSTANTS
  Addrs = {a1, a2}
  Stacks <- MCStacks
  Sizes = {2}
  NumBuckets = 2
  MaxAllocs = 2
  SnapIds = {s1, s2}
  PtrBits = 5
  NONE = NONE
SPECIFICATION Spec
SYMMETRY Symmetry
INVARIANT TypeOK
INVARIANT AccountingConsistent
INVARIANT BucketIdentity
INVARIANT IterationMatchesHistory
