---------------------------- MODULE AllocRecord ----------------------------
(***************************************************************************)
(* What HeapProfileTable::AllocValue promises (src/src/heap-profile-      *)
(* table.h): an allocation's size, its bucket and two independent flags,   *)
(* held as an explicit record -- the layout the spec's design notes ask    *)
(* for in place of the tagged pointer.                                     *)
(***************************************************************************)
CONSTANTS Buckets, Sizes

VARIABLE value

Init == value \in [bytes : Sizes, bucket : Buckets, live : {FALSE}, ignore : {FALSE}]

\* set_bucket starts a fresh value: both flags are cleared.
SetBucket(b) == value' = [value EXCEPT !.bucket = b, !.live = FALSE, !.ignore = FALSE]
SetLive(l)   == value' = [value EXCEPT !.live = l]
SetIgnore(r) == value' = [value EXCEPT !.ignore = r]

Next ==
  \/ \E b \in Buckets : SetBucket(b)
  \/ \E l \in BOOLEAN : SetLive(l)
  \/ \E r \in BOOLEAN : SetIgnore(r)

Spec == Init /\ [][Next]_value
=============================================================================
