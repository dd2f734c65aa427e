-------------------------- MODULE StackTraceTable --------------------------
(***************************************************************************)
(* tcmalloc::StackTraceTable (src/unnamed/part_000) and the caller pattern *)
(* its contracts prescribe. A reader collects sampled traces into a fresh  *)
(* table under pageheap_lock (AddTrace: L >= pageheap_lock), releases the  *)
(* lock, and reads the table (ReadStackTracesAndClear: L < pageheap_lock), *)
(* whose output array comes from the general allocator. That allocation   *)
(* may be served from a thread cache, may need a span from the page heap,  *)
(* which takes pageheap_lock, or may fail. Other threads allocate and take *)
(* pageheap_lock meanwhile. The method bodies are not in this repository;  *)
(* they follow the design's description of the coalescer.                 *)
(***************************************************************************)
EXTENDS Naturals, Sequences, SequencesExt

CONSTANTS Threads,    \* threads allocating concurrently with the reader
          Traces,     \* sampled stack traces
          MaxTraces,  \* traces sampled while the reader holds the lock
          MaxLockOps, \* page-heap operations the other threads perform
          Reader, NONE

ASSUME Reader \notin Threads /\ NONE \notin Threads \cup {Reader}

VARIABLES pageheap_lock, \* holder of pageheap_lock, or NONE
          rpc,           \* the reader's step
          head,          \* the entries of head_, front first
          out,           \* the last result of ReadStackTracesAndClear
          lockOps        \* page-heap operations the other threads began

vars == <<pageheap_lock, rpc, head, out, lockOps>>

RSteps == {"idle", "collect", "read", "read_span", "done"}

\* StackTraceTable() and the default member initialisers: head_ is nullptr.
Init == /\ pageheap_lock = NONE /\ rpc = "idle"
        /\ head = <<>> /\ out = NONE /\ lockOps = 0

\* Another thread takes and releases pageheap_lock for a page-heap operation.
Lock(t) == pageheap_lock = NONE /\ lockOps < MaxLockOps
           /\ pageheap_lock' = t /\ lockOps' = lockOps + 1
           /\ UNCHANGED <<rpc, head, out>>
Unlock(t) == pageheap_lock = t /\ pageheap_lock' = NONE
             /\ UNCHANGED <<rpc, head, out, lockOps>>

\* The reader constructs a table and takes pageheap_lock to walk the samples.
BeginCollect == rpc = "idle" /\ pageheap_lock = NONE
                /\ pageheap_lock' = Reader /\ rpc' = "collect"
                /\ head' = <<>>
                /\ UNCHANGED <<out, lockOps>>

\* AddTrace: an entry from the dedicated arena, pushed to the front of head_.
AddTrace(t) == /\ rpc = "collect" /\ pageheap_lock = Reader
               /\ Len(head) < MaxTraces
               /\ head' = Cons(t, head)
               /\ UNCHANGED <<pageheap_lock, rpc, out, lockOps>>

\* The reader drops pageheap_lock before reading, as the contract requires.
EndCollectKeepsLock == rpc = "collect" /\ rpc' = "read"
                       /\ UNCHANGED <<pageheap_lock, head, out, lockOps>>
EndCollect == rpc = "collect" /\ pageheap_lock' = NONE /\ rpc' = "read"
              /\ UNCHANGED <<head, out, lockOps>>

\* Reading with the output allocation's outcome. Success yields the entries
\* in list order; failure yields nullptr and drops them. Either way every
\* entry is freed and head_ is reset.
ReadResult(ok) == /\ out' = IF ok THEN head ELSE NONE
                  /\ head' = <<>> /\ rpc' = "done"
ReadStackTracesAndClear ==
  \/ rpc \in {"read", "done"} /\ \E ok \in BOOLEAN : ReadResult(ok)
                              /\ UNCHANGED <<pageheap_lock, lockOps>>
  \/ rpc \in {"read", "done"} /\ rpc' = "read_span"
                              /\ UNCHANGED <<pageheap_lock, head, out, lockOps>>
  \/ rpc = "read_span" /\ pageheap_lock = NONE
     /\ \E ok \in BOOLEAN : ReadResult(ok)
     /\ UNCHANGED <<pageheap_lock, lockOps>>

\* ~StackTraceTable, after which the reader starts over.
Destroy == rpc = "done" /\ rpc' = "idle"
           /\ UNCHANGED <<pageheap_lock, head, out, lockOps>>

Next == \/ \E t \in Threads : Lock(t) \/ Unlock(t)
        \/ BeginCollect \/ EndCollect \/ ReadStackTracesAndClear \/ Destroy
        \/ \E tr \in Traces : AddTrace(tr)

\* Page-heap critical sections are finite, so holders release the lock, and
\* the reader keeps running. Only weak fairness: SpinLock promises no fair
\* hand-off, so contention is bounded by MaxLockOps instead.
Fairness == /\ \A t \in Threads : WF_vars(Unlock(t))
            /\ WF_vars(EndCollect) /\ WF_vars(Destroy)
            /\ WF_vars(ReadStackTracesAndClear)
FairSpec == Init /\ [][Next]_vars /\ Fairness

-----------------------------------------------------------------------------
\* ReadStackTracesAndClear's REQUIRES: L < pageheap_lock. Its output comes
\* from the general allocator, which may need pageheap_lock for a span; a
\* reader that still held the lock from AddTrace would spin on it forever.
\* A read that has begun always returns, once the other threads' page-heap
\* work is done.
ReadCompletes == rpc = "read" ~> rpc = "done"
=============================================================================
