---------------------------- MODULE SampleStack ----------------------------
(***************************************************************************)
(* The stack a SIGPROF sample records, from CpuProfiler::prof_handler      *)
(* (profiler.cc): the interrupted pc goes to stack[0], the unwinder fills  *)
(* the caller frames from stack[1], and a pc the unwinder reports again as *)
(* its first frame is dropped before collector_.Add.  The local array      *)
(* stack[kMaxStackDepth] is not initialised, so a cell the code does not   *)
(* write holds whatever the signal stack held.  GetStackTraceWithContext   *)
(* is not in this repository: it may return any at most max_depth frames,  *)
(* with or without the pc first, as frame-pointer and other unwinders do.  *)
(* Cell kMaxStackDepth is the memory just past the array.                  *)
(***************************************************************************)
EXTENDS Naturals, Sequences, SequencesExt

CONSTANTS kMaxStackDepth,  \* ProfileData::kMaxStackDepth
          PCs              \* code addresses

ASSUME kMaxStackDepth >= 2

Cells == 0..kMaxStackDepth
Array == 0..(kMaxStackDepth - 1)

VARIABLES pc,       \* the interrupted pc of the last sample, or "none"
          frames,   \* what GetStackTraceWithContext returned for it
          written,  \* cells the handler stored to
          trace     \* the frames collector_.Add received

svars == <<pc, frames, written, trace>>

Init == pc = "none" /\ frames = <<>> /\ written = {} /\ trace = <<>>

\* The max_depth argument: arraysize(stack) - 1, the room behind stack[0].
MaxFramesAll == kMaxStackDepth
MaxFrames == kMaxStackDepth - 1

\* The duplicate test: the unwinder returned frames and the first is the pc.
IsDuplicatePCNoDepth(depth, stack) == stack[1] = stack[0]
IsDuplicatePC(depth, stack) == depth > 0 /\ stack[1] = stack[0]

\* prof_handler past its filter, with the pc p, the unwinder's frames f and
\* the array's previous contents junk: fill the array, pick used_stack and
\* depth, and hand used_stack[0 .. depth-1] to collector_.Add.
ProfHandler(p, f, junk) ==
  LET n     == Len(f)
      stack == [i \in Cells |-> IF i = 0 THEN p ELSE IF i <= n THEN f[i] ELSE junk[i]]
      off   == IF IsDuplicatePC(n, stack) THEN 1 ELSE 0
      depth == IF IsDuplicatePC(n, stack) THEN n ELSE n + 1
  IN /\ pc' = p /\ frames' = f
     /\ written' = 0..n
     /\ trace' = [i \in 1..depth |-> stack[off + i - 1]]

Next == \E p \in PCs, f \in BoundedSeq(PCs, MaxFrames), junk \in [Cells -> PCs] :
          ProfHandler(p, f, junk)

Spec == Init /\ [][Next]_svars
-----------------------------------------------------------------------------
\* The unwinder's frames and the pc all land inside stack[kMaxStackDepth],
\* and collector_.Add reads no cell outside it: max_depth leaves the room
\* that stack[0] takes.
StackInBounds == written \subseteq Array /\ Len(trace) <= kMaxStackDepth

\* The sample collector_.Add records is the interrupted pc followed by its
\* callers, with the unwinder's repeat of the pc removed: never empty, never
\* a frame read from the uninitialised part of the array.
SampleIsPCThenCallers ==
  pc # "none" =>
    trace = IF frames # <<>> /\ Head(frames) = pc THEN frames ELSE <<pc>> \o frames
=============================================================================
