\* A leak made at an address that was in the base snapshot and has since
\* been freed and reused.
CONSTANTS
  Addrs = {a1, a2}
  Stacks <- OneStack
  Sizes = {1}
  NumBuckets = 1
  MaxAllocs = 3
  SnapIds = {s1, s2}
  PtrBits = 5
  NONE = NONE
SPECIFICATION Spec
PROPERTY LeakReportComplete
