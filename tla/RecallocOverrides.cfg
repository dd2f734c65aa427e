\* size_t of 3 bits (SIZE_MAX = 7); size classes 2, 4 and 7 (every usable size fits in size_t). The arguments
\* give products that fit (0..6), hit SIZE_MAX exactly (1 * 7) and overflow
\* (2 * 7), and requests that grow within a block's slack and past it.
CONSTANTS
  SizeBits = 3
  ClassSizes = {2, 4, 7}
  Counts = {0, 1, 2}
  ElemSizes = {1, 3, 7}
SPECIFICATION Spec
INVARIANT OverflowCheckExact
INVARIANT MemsetInBounds
