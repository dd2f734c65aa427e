----------------------------- MODULE CpuSampler -----------------------------
(***************************************************************************)
(* What CpuProfiler promises about its sample collector, stated without    *)
(* threads, locks or the ProfileHandler registration.  The collector is    *)
(* either on or off; a control routine may be writing it (Start, Stop,     *)
(* FlushTable between DisableHandler and EnableHandler); a sample may be   *)
(* in flight.  A write and a sample never overlap, samples begin only      *)
(* while the collector is on, the collector is switched on or off only     *)
(* inside a write, and every write and every sample ends.                  *)
(***************************************************************************)
CONSTANT InitOn   \* the profiler was started by the constructor

VARIABLES on,       \* collector_.enabled()
          writing,  \* a control routine owns collector_
          sampling  \* a prof_handler invocation is in flight

svars == <<on, writing, sampling>>

Init == on = InitOn /\ writing = FALSE /\ sampling = FALSE

\* A control routine takes collector_; it waits for no sample to be in flight.
BeginWrite == ~writing /\ ~sampling /\ writing' = TRUE /\ UNCHANGED <<on, sampling>>

\* Start turns the collector on and keeps it until the handler is registered.
TurnOn == writing /\ ~on /\ on' = TRUE /\ UNCHANGED <<writing, sampling>>

\* Stop turns the collector off and is done with it.
TurnOff == writing /\ on /\ on' = FALSE /\ writing' = FALSE /\ UNCHANGED sampling

EndWrite == writing /\ writing' = FALSE /\ UNCHANGED <<on, sampling>>

BeginSample == on /\ ~writing /\ ~sampling /\ sampling' = TRUE /\ UNCHANGED <<on, writing>>

EndSample == sampling /\ sampling' = FALSE /\ UNCHANGED <<on, writing>>

Next == BeginWrite \/ TurnOn \/ TurnOff \/ EndWrite \/ BeginSample \/ EndSample

\* A write and a sample in flight always finish; new ones are never forced.
Spec == /\ Init /\ [][Next]_svars
        /\ WF_svars(TurnOff \/ EndWrite)
        /\ WF_svars(EndSample)
=============================================================================
