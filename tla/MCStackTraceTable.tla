------------------------- MODULE MCStackTraceTable -------------------------
EXTENDS StackTraceTable, TLC

\* Two sampled traces, so that the order of a dump is observable.
MCTraces == {<<1>>, <<2>>}
=============================================================================
