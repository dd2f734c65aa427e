\* Enabled and GetCurrentState read collector_ while prof_handler may be in Add.
CONSTANTS
  Threads = {t1, t2}
  AutoStart = FALSE
  ToggleSignal = FALSE
  ApiOps = {"Start", "Stop", "Flush", "Enabled", "State"}
  OpenMayFail = TRUE
  NONE = NONE
SPECIFICATION Spec
INVARIANT NoCollectorCallDuringAdd
