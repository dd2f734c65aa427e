\* Only toggle signals drive the profiler, and the output file always opens:
\* any FATAL comes from two switches racing on the static started.
CONSTANTS
  Threads = {t1, t2}
  AutoStart = FALSE
  ToggleSignal = TRUE
  ApiOps = {}
  OpenMayFail = FALSE
  NONE = NONE
SPECIFICATION Spec
INVARIANT ToggleNeverFatal
