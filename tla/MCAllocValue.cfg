\* 6-bit words: fifteen aligned bucket addresses 4..60, so every bit a
\* bucket address can have is exercised against both flag bits.
CONSTANTS
  PtrBits = 6
  Sizes = {0, 1, 2}
SPECIFICATION Spec
INVARIANT TypeOK
PROPERTY ImplementsAllocRecord
