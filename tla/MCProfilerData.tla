--------------------------- MODULE MCProfilerData ---------------------------
(* The two data paths of profiler.cc checked in one model: the copy of     *)
(* GetCurrentState into the caller's ProfilerState, and the stack          *)
(* prof_handler assembles for a sample.  They share no state, so a step    *)
(* of one leaves the other unchanged.                                      *)
EXTENDS Naturals

CONSTANTS kBufSize, PtrSize, kMaxStackDepth, PCs

VARIABLES name_len, buf, written, pc, frames, sample_written, trace

State == INSTANCE ProfilerState
Stack == INSTANCE SampleStack WITH written <- sample_written

stateVars == <<name_len, buf, written>>
stackVars == <<pc, frames, sample_written, trace>>
vars == <<stateVars, stackVars>>

Init == State!Init /\ Stack!Init

Next == \/ State!Next /\ UNCHANGED stackVars
        \/ Stack!Next /\ UNCHANGED stateVars

Spec == Init /\ [][Next]_vars

\* The properties of the two modules, stated there.
CopyInBounds == State!CopyInBounds
StateReadBack == State!StateReadBack
StackInBounds == Stack!StackInBounds
SampleIsPCThenCallers == Stack!SampleIsPCThenCallers
=============================================================================
