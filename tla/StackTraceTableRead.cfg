\* Two threads contend for pageheap_lock with the reader, for three page-heap
\* operations in all (enough to take the lock at every reader step); two distinct
\* traces and up to three samples per collection show order and repeats.
CONSTANTS
  Threads = {t1, t2}
  Traces <- MCTraces
  MaxTraces = 3
  MaxLockOps = 3
  Reader = Reader
  NONE = NONE
SPECIFICATION FairSpec
PROPERTY ReadCompletes
