\* CPUPROFILESIGNAL installed: CpuProfilerSwitch may interrupt either thread.
\* A failed switch start is RAW_LOG(FATAL) and a self-deadlocked thread
\* spins forever, so the process really can stop: deadlock is not checked.
CONSTANTS
  Threads = {t1, t2}
  AutoStart = FALSE
  ToggleSignal = TRUE
  ApiOps = {"Start", "Stop", "Flush", "Enabled", "State"}
  OpenMayFail = TRUE
  NONE = NONE
SPECIFICATION Spec
SYMMETRY ThreadSymmetry
INVARIANT HandlerExcludesControl
INVARIANT RawChecksHold
CHECK_DEADLOCK FALSE
