\* Two API threads calling every entry point, profiler not auto-started,
\* no toggle signal; liveness under FairSpec, so no symmetry.
CONSTANTS
  Threads = {t1, t2}
  AutoStart = FALSE
  ToggleSignal = FALSE
  ApiOps = {"Start", "Stop", "Flush", "Enabled", "State"}
  OpenMayFail = TRUE
  NONE = NONE
SPECIFICATION FairSpec
INVARIANT HandlerExcludesControl
INVARIANT RawChecksHold
PROPERTY LockReleased
PROPERTY ImplementsCpuSampler
