\* Toggle signal arriving while the interrupted thread holds lock_.
CONSTANTS
  Threads = {t1, t2}
  AutoStart = FALSE
  ToggleSignal = TRUE
  ApiOps = {"Start", "Stop", "Flush", "Enabled", "State"}
  OpenMayFail = TRUE
  NONE = NONE
SPECIFICATION Spec
INVARIANT NoSelfDeadlock
