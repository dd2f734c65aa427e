---------------------------- MODULE CpuProfiler ----------------------------
(***************************************************************************)
(* CpuProfiler of src/src/profiler.cc.                                      *)
(*                                                                         *)
(* Application threads call the control routines Start, Stop, FlushTable,  *)
(* Enabled and GetCurrentState, which are serialised by the SpinLock       *)
(* lock_.  The SIGPROF callback prof_handler runs outside lock_; the       *)
(* ProfileHandler it is registered with runs at most one invocation at a   *)
(* time and its unregistration drains the one in flight.  When             *)
(* CPUPROFILESIGNAL is set, the signal handler CpuProfilerSwitch runs on   *)
(* whatever thread the signal interrupts and calls ProfilerStart or        *)
(* ProfilerStop from there.                                                *)
(*                                                                         *)
(* An actor is <<t, 0>>, the ordinary code of thread t, or <<t, 1>>,       *)
(* CpuProfilerSwitch running on top of it.  The collector (ProfileData)    *)
(* is abstracted to its enabled flag: its sample data is not looked at by  *)
(* any property; what matters is who may touch it when.                    *)
(***************************************************************************)
EXTENDS Naturals, FiniteSets

CONSTANTS
  Threads,       \* application threads that call the profiler API
  AutoStart,     \* CPUPROFILE set, CPUPROFILESIGNAL unset: the constructor starts
  ToggleSignal,  \* CPUPROFILESIGNAL is a valid, unused signal: the switch is installed
  ApiOps,        \* the public entry points the threads call
  OpenMayFail,   \* collector_.Start may fail to open its output file
  NONE

Actors == Threads \X {0, 1}
Ops    == {"Start", "Stop", "Flush", "Enabled", "State"}

ASSUME /\ {AutoStart, ToggleSignal, OpenMayFail} \subseteq BOOLEAN
       /\ ~(AutoStart /\ ToggleSignal)
       /\ ApiOps \subseteq Ops

Locs == {"idle", "lock", "collector", "enable", "unreg", "drain", "done"}

VARIABLES
  op,          \* actor -> the control routine it is executing
  at,          \* actor -> where in that routine it is
  ret,         \* actor -> value returned by its last Start
  inSwitch,    \* thread -> CpuProfilerSwitch is running on it
  lockHolder,  \* lock_: NONE or the actor holding it
  enabled,     \* collector_.enabled()
  filter,      \* filter_ != nullptr
  token,       \* prof_handler_token_ != nullptr
  registered,  \* prof_handler is in ProfileHandler's callback list
  hpc,         \* the prof_handler invocation: "idle", "filter" or "add"
  started,     \* the static 'started' of CpuProfilerSwitch
  aborted      \* the process died in RAW_LOG(FATAL)

vars == <<op, at, ret, inSwitch, lockHolder, enabled, filter, token,
          registered, hpc, started, aborted>>
ctl  == <<op, ret, inSwitch, started, aborted>>

-----------------------------------------------------------------------------
(* The constructor CpuProfiler(): with CPUPROFILE set and no toggle signal  *)
(* it starts the profiler (a failure there is a startup FATAL, outside the  *)
(* model); with a valid toggle signal it only installs CpuProfilerSwitch.   *)
Init ==
  /\ op = [a \in Actors |-> "Start"]
  /\ at = [a \in Actors |-> "idle"]
  /\ ret = [a \in Actors |-> FALSE]
  /\ inSwitch = [t \in Threads |-> FALSE]
  /\ lockHolder = NONE
  /\ enabled = AutoStart
  /\ filter = FALSE
  /\ token = AutoStart
  /\ registered = AutoStart
  /\ hpc = "idle"
  /\ started = FALSE
  /\ aborted = FALSE

\* The actor runs: the process is alive and no switch runs on top of it.
Running(a) == ~aborted /\ (a[2] = 1 \/ ~inSwitch[a[1]])

Goto(a, l) == at' = [at EXCEPT ![a] = l]

\* Leaving a routine: ordinary code goes idle, the switch resumes after the call.
Return(a) == Goto(a, IF a[2] = 0 THEN "idle" ELSE "done")

Release(a) == lockHolder' = NONE /\ Return(a)

SetRet(a, v) == ret' = [ret EXCEPT ![a] = v]

\* A public entry point (ProfilerStart, ProfilerStop, ProfilerFlush,
\* ProfilingIsEnabledForAllThreads, ProfilerGetCurrentState) is called.
Call(a, o) ==
  /\ a[2] = 0 /\ Running(a) /\ at[a] = "idle"
  /\ op' = [op EXCEPT ![a] = o]
  /\ Goto(a, "lock")
  /\ UNCHANGED <<ret, inSwitch, lockHolder, enabled, filter, token, registered,
                 hpc, started, aborted>>

\* Mutant: Stop and FlushTable without the "if (!collector_.enabled())
\* return" early exit.
AcquireNoEnabledCheck(a) ==
  /\ Running(a) /\ at[a] = "lock" /\ lockHolder = NONE
  /\ \/ /\ op[a] = "Start" /\ enabled
        /\ SetRet(a, FALSE) /\ Return(a) /\ UNCHANGED lockHolder
     \/ /\ \/ op[a] = "Start" /\ ~enabled
           \/ op[a] \in {"Enabled", "State"}
        /\ lockHolder' = a /\ Goto(a, "collector") /\ UNCHANGED ret
     \/ /\ op[a] \in {"Stop", "Flush"}
        /\ lockHolder' = a /\ Goto(a, "unreg") /\ UNCHANGED ret
  /\ UNCHANGED <<op, inSwitch, enabled, filter, token, registered, hpc,
                 started, aborted>>

\* SpinLockHolder cl(&lock_) and the early returns taken under it.
Acquire(a) ==
  /\ Running(a) /\ at[a] = "lock" /\ lockHolder = NONE
  /\ \/ /\ op[a] = "Start" /\ enabled          \* already enabled: return false
        /\ SetRet(a, FALSE) /\ Return(a) /\ UNCHANGED lockHolder
     \/ /\ op[a] \in {"Stop", "Flush"} /\ ~enabled
        /\ Return(a) /\ UNCHANGED <<lockHolder, ret>>
     \/ /\ \/ op[a] = "Start" /\ ~enabled
           \/ op[a] \in {"Enabled", "State"}
        /\ lockHolder' = a /\ Goto(a, "collector") /\ UNCHANGED ret
     \/ /\ op[a] \in {"Stop", "Flush"} /\ enabled
        /\ lockHolder' = a /\ Goto(a, "unreg") /\ UNCHANGED ret
  /\ UNCHANGED <<op, inSwitch, enabled, filter, token, registered, hpc,
                 started, aborted>>

\* Start: collector_.Start either fails (the file cannot be opened) or
\* enables the collector; then filter_ is taken from the options (the
\* switch passes none).
StartCollector(a) ==
  /\ Running(a) /\ op[a] = "Start" /\ at[a] = "collector"
  /\ \/ /\ OpenMayFail /\ SetRet(a, FALSE) /\ Release(a)
        /\ UNCHANGED <<enabled, filter>>
     \/ /\ enabled' = TRUE
        /\ filter' \in IF a[2] = 0 THEN BOOLEAN ELSE {FALSE}
        /\ Goto(a, "enable") /\ UNCHANGED <<lockHolder, ret>>
  /\ UNCHANGED <<op, inSwitch, token, registered, hpc, started, aborted>>

\* EnableHandler: register prof_handler; Start then returns true, FlushTable
\* returns; both release lock_.
EnableHandler(a) ==
  /\ Running(a) /\ at[a] = "enable"
  /\ token' = TRUE /\ registered' = TRUE
  /\ ret' = IF op[a] = "Start" THEN [ret EXCEPT ![a] = TRUE] ELSE ret
  /\ Release(a)
  /\ UNCHANGED <<op, inSwitch, enabled, filter, hpc, started, aborted>>

\* Mutant: the token is cleared but the callback stays registered.
DisableHandlerKeepsCallback(a) ==
  /\ Running(a) /\ at[a] = "unreg"
  /\ token' = FALSE
  /\ Goto(a, "drain")
  /\ UNCHANGED <<ctl, lockHolder, enabled, filter, hpc, registered>>

\* DisableHandler: ProfileHandlerUnregisterCallback takes prof_handler off
\* the callback list, then waits for the invocation in flight to finish.
DisableHandler(a) ==
  /\ Running(a) /\ at[a] = "unreg"
  /\ registered' = FALSE /\ token' = FALSE
  /\ Goto(a, "drain")
  /\ UNCHANGED <<ctl, lockHolder, enabled, filter, hpc>>

\* Mutant: unregistration that does not wait for the invocation in flight.
DrainNoWait(a) ==
  /\ Running(a) /\ at[a] = "drain"
  /\ Goto(a, "collector")
  /\ UNCHANGED <<ctl, lockHolder, enabled, filter, token, registered, hpc>>

Drain(a) ==
  /\ Running(a) /\ at[a] = "drain" /\ hpc = "idle"
  /\ Goto(a, "collector")
  /\ UNCHANGED <<ctl, lockHolder, enabled, filter, token, registered, hpc>>

\* Stop: collector_.Stop() writes the profile and disables the collector.
StopCollector(a) ==
  /\ Running(a) /\ op[a] = "Stop" /\ at[a] = "collector"
  /\ enabled' = FALSE
  /\ Release(a)
  /\ UNCHANGED <<ctl, filter, token, registered, hpc>>

\* FlushTable: collector_.FlushTable() writes the data, then EnableHandler.
FlushCollector(a) ==
  /\ Running(a) /\ op[a] = "Flush" /\ at[a] = "collector"
  /\ Goto(a, "enable")
  /\ UNCHANGED <<ctl, lockHolder, enabled, filter, token, registered, hpc>>

\* Enabled and GetCurrentState read the collector under lock_ only.
Query(a) ==
  /\ Running(a) /\ op[a] \in {"Enabled", "State"} /\ at[a] = "collector"
  /\ Release(a)
  /\ UNCHANGED <<ctl, enabled, filter, token, registered, hpc>>

-----------------------------------------------------------------------------
(* prof_handler, invoked by ProfileHandler on SIGPROF while registered.     *)
HandlerFire ==
  /\ ~aborted /\ registered /\ hpc = "idle"
  /\ hpc' = "filter"
  /\ UNCHANGED <<op, at, ret, inSwitch, lockHolder, enabled, filter, token,
                 registered, started, aborted>>

\* filter_ == nullptr or (*filter_)(filter_arg_): take the sample, else return.
HandlerFilter ==
  /\ ~aborted /\ hpc = "filter"
  /\ \/ hpc' = "add"
     \/ filter /\ hpc' = "idle"
  /\ UNCHANGED <<op, at, ret, inSwitch, lockHolder, enabled, filter, token,
                 registered, started, aborted>>

\* collector_.Add(depth, used_stack), with no lock held.
HandlerAdd ==
  /\ ~aborted /\ hpc = "add"
  /\ hpc' = "idle"
  /\ UNCHANGED <<op, at, ret, inSwitch, lockHolder, enabled, filter, token,
                 registered, started, aborted>>

-----------------------------------------------------------------------------
(* CpuProfilerSwitch, run on thread t when the toggle signal arrives,       *)
(* wherever t's own code is.  'started' is read on entry and flipped on     *)
(* exit; a failed ProfilerStart is RAW_LOG(FATAL).                          *)
SwitchEnter(t) ==
  /\ ToggleSignal /\ ~aborted /\ ~inSwitch[t]
  /\ inSwitch' = [inSwitch EXCEPT ![t] = TRUE]
  /\ op' = [op EXCEPT ![<<t, 1>>] = IF started THEN "Stop" ELSE "Start"]
  /\ Goto(<<t, 1>>, "lock")
  /\ UNCHANGED <<ret, lockHolder, enabled, filter, token, registered, hpc,
                 started, aborted>>

SwitchExit(t) ==
  /\ ~aborted /\ at[<<t, 1>>] = "done"
  /\ \/ /\ op[<<t, 1>>] = "Start" /\ ~ret[<<t, 1>>]
        /\ aborted' = TRUE
        /\ UNCHANGED <<at, inSwitch, started>>
     \/ /\ op[<<t, 1>>] = "Stop" \/ ret[<<t, 1>>]
        /\ started' = ~started
        /\ inSwitch' = [inSwitch EXCEPT ![t] = FALSE]
        /\ Goto(<<t, 1>>, "idle")
        /\ UNCHANGED aborted
  /\ UNCHANGED <<op, ret, lockHolder, enabled, filter, token, registered, hpc>>

-----------------------------------------------------------------------------
Step(a) ==
  \/ Acquire(a) \/ StartCollector(a) \/ EnableHandler(a) \/ DisableHandler(a)
  \/ Drain(a) \/ StopCollector(a) \/ FlushCollector(a) \/ Query(a)

Handler == HandlerFilter \/ HandlerAdd

Next ==
  \/ \E a \in Actors, o \in ApiOps : Call(a, o)
  \/ \E a \in Actors : Step(a)
  \/ HandlerFire \/ Handler
  \/ \E t \in Threads : SwitchEnter(t) \/ SwitchExit(t)

Spec == Init /\ [][Next]_vars

\* Every actor that can take a step of a routine it is in eventually does,
\* and a running prof_handler runs to completion.  Calls and signals are
\* never forced.
FairSpec ==
  /\ Spec
  /\ \A a \in Actors : WF_vars(Step(a))
  /\ \A t \in Threads : WF_vars(SwitchExit(t))
  /\ WF_vars(Handler)

-----------------------------------------------------------------------------
(* The locking contract of lock_'s comment: no control routine is inside a *)
(* collector_ call that changes it (Start, Stop, FlushTable, with Start's   *)
(* write of filter_) while prof_handler is running, which reads filter_    *)
(* and calls collector_.Add with no lock.                                   *)
HandlerExcludesControl ==
  hpc # "idle" =>
    \A a \in Actors : ~(at[a] = "collector" /\ op[a] \in {"Start", "Stop", "Flush"})

(* The comment's stronger wording: no collector_ method at all, Enabled and *)
(* GetCurrentState's reads included, runs while collector_.Add runs.        *)
NoCollectorCallDuringAdd ==
  hpc = "add" => \A a \in Actors : at[a] # "collector"

(* The RAW_CHECKs of EnableHandler and DisableHandler never fail: a handler *)
(* is registered only when none is, and unregistered only when one is.      *)
RawChecksHold ==
  \A a \in Actors :
    /\ at[a] = "enable" => ~token
    /\ at[a] = "unreg" => token

(* No thread spins on lock_ from CpuProfilerSwitch while its own            *)
(* interrupted code holds lock_: that spin never ends.                      *)
NoSelfDeadlock ==
  \A t \in Threads : ~(at[<<t, 1>>] = "lock" /\ lockHolder = <<t, 0>>)

(* A toggle signal never kills the process: CpuProfilerSwitch's             *)
(* ProfilerStart does not fail at run time.                                 *)
ToggleNeverFatal == ~aborted

(* lock_ is always released: a holder is never stuck, even in              *)
(* DisableHandler waiting for prof_handler while SIGPROF keeps arriving.    *)
LockReleased == \A a \in Actors : lockHolder = a ~> lockHolder # a

-----------------------------------------------------------------------------
(* Refinement of CpuSampler.  collector_ is being written while a control   *)
(* routine that changes it is past its early return and DisableHandler's   *)
(* drain and has not yet released lock_ or re-registered prof_handler; a   *)
(* sample is in flight while prof_handler runs.                            *)
Writing ==
  \E a \in Actors : op[a] \in {"Start", "Stop", "Flush"} /\ at[a] \in {"collector", "enable"}

Sampler == INSTANCE CpuSampler
             WITH InitOn <- AutoStart, on <- enabled, writing <- Writing,
                  sampling <- (hpc # "idle")

(* The contract of Stop's and FlushTable's comments, "DisableHandler waits  *)
(* for the currently running callback to complete and guarantees no future *)
(* invocations": CpuProfiler behaves as CpuSampler, so no sample starts     *)
(* while the collector is off or being written, the collector changes only  *)
(* when no sample is in flight, and every write and sample finishes.        *)
ImplementsCpuSampler == Sampler!Spec

=============================================================================
