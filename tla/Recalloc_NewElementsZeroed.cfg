\* The same instance, checking the zero-fill promise of _recalloc.
CONSTANTS
  SizeBits = 3
  ClassSizes = {2, 4, 7}
  Counts = {0, 1, 2}
  ElemSizes = {1, 3, 7}
SPECIFICATION Spec
PROPERTY NewElementsZeroed
