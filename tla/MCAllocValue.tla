--------------------------- MODULE MCAllocValue ---------------------------
(***************************************************************************)
(* One AllocValue of src/src/heap-profile-table.h and every sequence of   *)
(* set_bucket, set_live and set_ignore calls made on it, shown to         *)
(* implement the explicit record of AllocRecord.                          *)
(***************************************************************************)
EXTENDS AllocValue

CONSTANT Sizes   \* allocation sizes

VARIABLES bytes, bucket_rep

vars == <<bytes, bucket_rep>>

Init ==
  /\ bytes \in Sizes
  /\ bucket_rep \in {set_bucket(b) : b \in BucketAddrs}

SetBucket(b) == bucket_rep' = set_bucket(b) /\ UNCHANGED bytes
SetLive(l)   == bucket_rep' = set_live(bucket_rep, l) /\ UNCHANGED bytes
SetIgnore(r) == bucket_rep' = set_ignore(bucket_rep, r) /\ UNCHANGED bytes

Next ==
  \/ \E b \in BucketAddrs : SetBucket(b)
  \/ \E l \in BOOLEAN : SetLive(l)
  \/ \E r \in BOOLEAN : SetIgnore(r)

Spec == Init /\ [][Next]_vars

TypeOK ==
  /\ bytes \in Sizes
  /\ bucket_rep \in 0..WordMax

(* The packed word behaves as the explicit record of AllocRecord: through  *)
(* bucket(), live() and ignore(), every set_bucket, set_live and          *)
(* set_ignore changes exactly the field it names, for every aligned       *)
(* bucket address and every order of calls.                               *)
Record == INSTANCE AllocRecord WITH
  Buckets <- BucketAddrs,
  value <- [bytes |-> bytes, bucket |-> bucket(bucket_rep),
            live |-> live(bucket_rep), ignore |-> ignore(bucket_rep)]

ImplementsAllocRecord == Record!Spec
=============================================================================
