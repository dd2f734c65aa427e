--------------------------- MODULE ProfilerState ---------------------------
(***************************************************************************)
(* The copy at the end of CpuProfiler::GetCurrentState (profiler.cc):      *)
(* the collector's output name goes into the caller's ProfilerState, a     *)
(* char profile_name[kBufSize], and, when it fits behind the terminating   *)
(* NUL, the address of the sample counter is appended for the unit test.   *)
(* Both buffers are kBufSize bytes, so a name has at most kBufSize - 1     *)
(* characters. The i-th character of a name is modelled as the value i, a  *)
(* pointer byte as <<"ptr", j>>; a byte never written keeps what the       *)
(* caller's struct held ("old").                                           *)
(***************************************************************************)
EXTENDS Naturals

CONSTANTS kBufSize,  \* sizeof(state->profile_name)
          PtrSize    \* sizeof(void*)

ASSUME kBufSize > PtrSize /\ PtrSize > 0

Index == 0..(kBufSize - 1)
NUL == "nul"
Bytes == Index \cup {NUL, "old"} \cup {<<"ptr", j>> : j \in 0..(PtrSize - 1)}

VARIABLES name_len,  \* strlen of collector_state.profile_name at the last call
          buf,       \* state->profile_name as the caller sees it
          written    \* offsets the last call stored to

vars == <<name_len, buf, written>>

Init == /\ name_len = 0
        /\ buf = [i \in Index |-> "old"]
        /\ written = {}

\* The condition for appending the pointer.
PointerFitsLoose(len) == len + 1 + PtrSize <= kBufSize + 1
PointerFits(len) == len + 1 + PtrSize <= kBufSize

\* Where the pointer goes: right behind the name's terminating NUL.
PointerAtNul(len) == len
PointerAt(len) == len + 1

\* GetCurrentState after the collector state was read under lock_: memcpy of
\* min(kBufSize, size + 1) bytes of the name, NUL at kBufSize - 1, and the
\* pointer memcpy when it fits.
GetCurrentState(len) ==
  LET n      == IF kBufSize < len + 1 THEN kBufSize ELSE len + 1
      named  == [i \in Index |-> IF i < len THEN i ELSE IF i < n THEN NUL ELSE buf[i]]
      term   == [named EXCEPT ![kBufSize - 1] = NUL]
      ptr    == IF PointerFits(len)
                  THEN PointerAt(len)..(PointerAt(len) + PtrSize - 1) ELSE {}
  IN /\ name_len' = len
     /\ buf' = [i \in Index |-> IF i \in ptr THEN <<"ptr", i - PointerAt(len)>> ELSE term[i]]
     /\ written' = (0..(n - 1)) \cup {kBufSize - 1} \cup ptr

Next == \E len \in 0..(kBufSize - 1) : GetCurrentState(len)

Spec == Init /\ [][Next]_vars

-----------------------------------------------------------------------------
\* Every byte GetCurrentState stores lies inside state->profile_name, for
\* every name length up to the collector's own buffer size.
CopyInBounds == written \subseteq Index

\* What the caller and profiler_unittest read back: the C string in
\* profile_name is the collector's name, and when the name leaves room the
\* pointer bytes follow its NUL intact.
StateReadBack ==
  written # {} =>
    /\ \A i \in 0..(name_len - 1) : buf[i] = i
    /\ buf[name_len] = NUL
    /\ PointerFits(name_len) =>
         \A j \in 0..(PtrSize - 1) : buf[name_len + 1 + j] = <<"ptr", j>>
=============================================================================
