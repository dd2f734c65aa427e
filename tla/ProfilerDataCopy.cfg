\* profile_name scaled from 1024 bytes to 10 and a pointer from 8 bytes to 2:
\* names of length 0..9 cover both sides of the pointer's fit condition
\* (7 fits exactly, 8 and 9 do not), the longest name the collector holds,
\* and calls that leave bytes of an earlier, longer result behind.
\* ProfileData::kMaxStackDepth (profiledata.h, not in this tree) scaled to 4,
\* with two code addresses:
\* unwinds of 0 to 3 frames, with and without the pc repeated first, and
\* leftover cells that equal the pc.
CONSTANTS
  kBufSize = 10
  PtrSize = 2
  kMaxStackDepth = 4
  PCs = {p1, p2}
SPECIFICATION Spec
INVARIANT CopyInBounds
INVARIANT StateReadBack
INVARIANT StackInBounds
INVARIANT SampleIsPCThenCallers
