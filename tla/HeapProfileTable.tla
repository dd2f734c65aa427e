------------------------- MODULE HeapProfileTable -------------------------
(***************************************************************************)
(* HeapProfileTable and its Snapshots (src/src/heap-profile-table.h).      *)
(*                                                                         *)
(* The bucket store (GetBucket, bucket_table_) deduplicates call stacks    *)
(* into buckets by content; the address map holds one AllocValue per      *)
(* tracked allocation, its bucket pointer and flags packed as in           *)
(* AllocValue; snapshots copy AllocValues (sharing the buckets) into maps  *)
(* of their own.  The table has no lock of its own: the allocator's lock   *)
(* serialises every call, so each call is one atomic step here.  The       *)
(* bodies of the calls live in heap-profile-table.cc, which this           *)
(* repository does not carry; they are modelled from the spec.             *)
(*                                                                         *)
(* Ghost state, read only by the properties: the serial number and stack   *)
(* of each tracked allocation, the serials MarkAsLive hit since the last   *)
(* NonLiveSnapshot, and for each snapshot what it was taken from.          *)
(***************************************************************************)
EXTENDS Naturals, Sequences, SequencesExt, AllocValue

CONSTANTS
  Addrs,       \* allocation addresses
  Stacks,      \* call stacks (sequences of frame addresses, naturals)
  Sizes,       \* allocation sizes in bytes
  NumBuckets,  \* kHashTableSize: length of bucket_table_
  MaxAllocs,   \* bound on RecordAlloc calls in a behaviour
  SnapIds,     \* Snapshot objects that may exist at once
  NONE

ZeroStats == [allocs |-> 0, alloc_size |-> 0, frees |-> 0, free_size |-> 0]

VARIABLES
  bucket_stack,  \* bucket i (at address 4 * i) -> its call stack
  bucket_stats,  \* bucket i -> its (de)allocation statistics
  bucket_table,  \* hash slot -> bucket ids on that chain, newest first
  total,         \* total_
  address_map,   \* tracked address -> [bytes, rep] (AllocValue)
  snap,          \* snapshot id -> NONE or [map, base, kind, taken]
  serial,        \* ghost: tracked address -> serial number of its RecordAlloc
  origin,        \* ghost: tracked address -> stack RecordAlloc was given
  nextSerial,    \* ghost: number of RecordAlloc calls so far
  marked         \* ghost: serials MarkAsLive set since the last NonLiveSnapshot

bucketVars == <<bucket_stack, bucket_stats, bucket_table>>
ghostVars  == <<serial, origin, nextSerial, marked>>
vars == <<bucketVars, total, address_map, snap, ghostVars>>

-----------------------------------------------------------------------------
(* The bucket store.                                                       *)

\* Hash of the frame contents, reduced to a slot of bucket_table_.
Hash(stack) == FoldLeft(+, 0, stack) % NumBuckets

\* Mutant: a chain search that compares the depth but not the frames.
FindBucketDepthOnly(stack) ==
  LET chain == bucket_table[Hash(stack)]
      hits  == SelectSeq(chain, LAMBDA b : Len(bucket_stack[b]) = Len(stack))
  IN  IF hits = <<>> THEN 0 ELSE Head(hits)

\* The bucket on stack's chain with equal depth and equal frames, or 0.
FindBucket(stack) ==
  LET chain == bucket_table[Hash(stack)]
      hits  == SelectSeq(chain, LAMBDA b : Len(bucket_stack[b]) = Len(stack)
                                           /\ bucket_stack[b] = stack)
  IN  IF hits = <<>> THEN 0 ELSE Head(hits)

\* GetBucket(depth, key): the id of the bucket for stack, made if needed.
GetBucketId(stack) ==
  IF FindBucket(stack) # 0 THEN FindBucket(stack) ELSE Len(bucket_stack) + 1

\* The bucket store after GetBucket: a new bucket is pushed on its chain.
GetBucket(stack) ==
  IF FindBucket(stack) # 0
  THEN UNCHANGED <<bucket_stack, bucket_table>>
  ELSE LET id == Len(bucket_stack) + 1 IN
       /\ bucket_stack' = Append(bucket_stack, stack)
       /\ bucket_table' = [bucket_table EXCEPT ![Hash(stack)] = Cons(id, @)]

\* The bucket an AllocValue points to, as a bucket id.
BucketOf(v) == bucket(v.rep) \div 4

AddAlloc(s, n) == [s EXCEPT !.allocs = @ + 1, !.alloc_size = @ + n]
AddFree(s, n)  == [s EXCEPT !.frees = @ + 1, !.free_size = @ + n]

\* A partial function without key p.
Without(f, p) == [q \in DOMAIN f \ {p} |-> f[q]]

-----------------------------------------------------------------------------
Init ==
  /\ bucket_stack = <<>>
  /\ bucket_stats = <<>>
  /\ bucket_table = [h \in 0..(NumBuckets - 1) |-> <<>>]
  /\ total = ZeroStats
  /\ address_map = <<>>
  /\ snap = [s \in SnapIds |-> NONE]
  /\ serial = <<>>
  /\ origin = <<>>
  /\ nextSerial = 0
  /\ marked = {}

\* Mutant: a new bucket gets no statistics slot.
RecordAllocNoNewStats(ptr, n, stack) ==
  LET id == GetBucketId(stack) IN
  /\ ptr \notin DOMAIN address_map
  /\ nextSerial < MaxAllocs
  /\ GetBucket(stack)
  /\ bucket_stats' = [bucket_stats EXCEPT ![id] = AddAlloc(@, n)]
  /\ total' = AddAlloc(total, n)
  /\ address_map' = address_map @@ (ptr :> [bytes |-> n, rep |-> set_bucket(4 * id)])
  /\ serial' = serial @@ (ptr :> nextSerial)
  /\ origin' = origin @@ (ptr :> stack)
  /\ nextSerial' = nextSerial + 1
  /\ UNCHANGED <<snap, marked>>

(* RecordAlloc(ptr, bytes, depth, call_stack).  The caller frees an address *)
(* before it records it again, so ptr is untracked.                         *)
RecordAlloc(ptr, n, stack) ==
  LET id == GetBucketId(stack) IN
  /\ ptr \notin DOMAIN address_map
  /\ nextSerial < MaxAllocs
  /\ GetBucket(stack)
  /\ bucket_stats' = IF id > Len(bucket_stats)
                     THEN Append(bucket_stats, AddAlloc(ZeroStats, n))
                     ELSE [bucket_stats EXCEPT ![id] = AddAlloc(@, n)]
  /\ total' = AddAlloc(total, n)
  /\ address_map' = address_map @@ (ptr :> [bytes |-> n, rep |-> set_bucket(4 * id)])
  /\ serial' = serial @@ (ptr :> nextSerial)
  /\ origin' = origin @@ (ptr :> stack)
  /\ nextSerial' = nextSerial + 1
  /\ UNCHANGED <<snap, marked>>

\* Mutant: the free is charged to the bucket but not to total_.
RecordFreeNoTotal(ptr) ==
  LET v == address_map[ptr] IN
  \/ ptr \notin DOMAIN address_map /\ UNCHANGED vars
  \/ /\ ptr \in DOMAIN address_map
     /\ bucket_stats' = [bucket_stats EXCEPT ![BucketOf(v)] = AddFree(@, v.bytes)]
     /\ address_map' = Without(address_map, ptr)
     /\ serial' = Without(serial, ptr)
     /\ origin' = Without(origin, ptr)
     /\ UNCHANGED <<bucket_stack, bucket_table, snap, nextSerial, marked, total>>

(* RecordFree(ptr): a tracked address is charged to its bucket and        *)
(* dropped; an untracked one (allocated before tracking began) is a no-op. *)
RecordFree(ptr) ==
  LET v == address_map[ptr] IN
  \/ ptr \notin DOMAIN address_map /\ UNCHANGED vars
  \/ /\ ptr \in DOMAIN address_map
     /\ bucket_stats' = [bucket_stats EXCEPT ![BucketOf(v)] = AddFree(@, v.bytes)]
     /\ total' = AddFree(total, v.bytes)
     /\ address_map' = Without(address_map, ptr)
     /\ serial' = Without(serial, ptr)
     /\ origin' = Without(origin, ptr)
     /\ UNCHANGED <<bucket_stack, bucket_table, snap, nextSerial, marked>>

(* MarkAsLive(ptr) when it returns true: a tracked, non-live allocation.   *)
MarkAsLive(ptr) ==
  /\ ptr \in DOMAIN address_map
  /\ ~live(address_map[ptr].rep)
  /\ address_map' = [address_map EXCEPT ![ptr].rep = set_live(@, TRUE)]
  /\ marked' = marked \cup {serial[ptr]}
  /\ UNCHANGED <<bucketVars, total, snap, serial, origin, nextSerial>>

(* MarkAsIgnored(ptr) of a tracked allocation.                             *)
MarkAsIgnored(ptr) ==
  /\ ptr \in DOMAIN address_map
  /\ address_map' = [address_map EXCEPT ![ptr].rep = set_ignore(@, TRUE)]
  /\ UNCHANGED <<bucketVars, total, snap, ghostVars>>

\* The entries a NonLiveSnapshot against base copies.
NonLiveEntries(base) ==
  {p \in DOMAIN address_map :
     /\ ~ignore(address_map[p].rep)
     /\ ~live(address_map[p].rep)
     /\ base # NONE => p \notin DOMAIN snap[base].map}

(* TakeSnapshot(): every entry is Add-ed to a new Snapshot.                *)
TakeSnapshot(s) ==
  /\ snap[s] = NONE
  /\ snap' = [snap EXCEPT ![s] = [map |-> address_map, base |-> NONE,
                                  kind |-> "all", taken |-> nextSerial]]
  /\ UNCHANGED <<bucketVars, total, address_map, ghostVars>>

(* NonLiveSnapshot(base): Add every non-live, non-ignored entry whose      *)
(* address is not in base, and clear the live bit of every entry.          *)
NonLiveSnapshot(s, base) ==
  /\ snap[s] = NONE
  /\ base # NONE => snap[base] # NONE
  /\ snap' = [snap EXCEPT ![s] = [map |-> [p \in NonLiveEntries(base) |-> address_map[p]],
                                  base |-> base, kind |-> "nonlive",
                                  taken |-> nextSerial]]
  /\ address_map' = [p \in DOMAIN address_map |->
                       [address_map[p] EXCEPT !.rep = set_live(@, FALSE)]]
  /\ marked' = {}
  /\ UNCHANGED <<bucketVars, total, serial, origin, nextSerial>>

(* ReleaseSnapshot(s): the snapshot's own map goes; buckets stay.          *)
ReleaseSnapshot(s) ==
  /\ snap[s] # NONE
  /\ snap' = [snap EXCEPT ![s] = NONE]
  /\ UNCHANGED <<bucketVars, total, address_map, ghostVars>>

-----------------------------------------------------------------------------
(* Read-only queries.                                                      *)

\* AllocInfo: what a query reports about one allocation; the stack depth is
\* the length of call_stack.
AllocInfo(size, stack, l, i) ==
  [object_size |-> size, call_stack |-> stack, live |-> l, ignored |-> i]

\* Mutant: the two flags copied into each other's fields.
IterateAllocsSwapped ==
  [p \in DOMAIN address_map |->
     LET v == address_map[p] IN
     AllocInfo(v.bytes, bucket_stack[BucketOf(v)], ignore(v.rep), live(v.rep))]

\* IterateAllocs(callback): the info passed to the callback for each entry,
\* decoded from the packed AllocValue and the bucket it points to.
IterateAllocs ==
  [p \in DOMAIN address_map |->
     LET v == address_map[p] IN
     AllocInfo(v.bytes, bucket_stack[BucketOf(v)], live(v.rep), ignore(v.rep))]

Next ==
  \/ \E p \in Addrs, n \in Sizes, st \in Stacks : RecordAlloc(p, n, st)
  \/ \E p \in Addrs : RecordFree(p) \/ MarkAsLive(p) \/ MarkAsIgnored(p)
  \/ \E s \in SnapIds : TakeSnapshot(s) \/ ReleaseSnapshot(s)
  \/ \E s \in SnapIds, b \in SnapIds \cup {NONE} : NonLiveSnapshot(s, b)

Spec == Init /\ [][Next]_vars

-----------------------------------------------------------------------------
Stats == [allocs : Nat, alloc_size : Nat, frees : Nat, free_size : Nat]

TypeOK ==
  /\ bucket_stack \in Seq(Stacks)
  /\ bucket_stats \in Seq(Stats) /\ Len(bucket_stats) = Len(bucket_stack)
  /\ total \in Stats
  /\ DOMAIN address_map \subseteq Addrs
  /\ \A p \in DOMAIN address_map : address_map[p].bytes \in Sizes
  /\ \A s \in SnapIds : snap[s] = NONE \/ DOMAIN snap[s].map \subseteq Addrs

\* The allocations tracked in bucket b.
InBucket(b) == {p \in DOMAIN address_map : BucketOf(address_map[p]) = b}

SumBytes(S) == MapThenSumSet(LAMBDA p : address_map[p].bytes, S)

(* Net accounting: for every bucket, allocations minus frees, in count and *)
(* in bytes, equal the allocations the address map still tracks in that   *)
(* bucket, and total_ is the sum of the buckets.  A RecordFree charges the *)
(* bucket it decodes from the packed AllocValue, long after RecordAlloc    *)
(* charged the bucket GetBucket returned.                                   *)
AccountingConsistent ==
  /\ \A b \in DOMAIN bucket_stats :
       /\ bucket_stats[b].allocs - bucket_stats[b].frees = Cardinality(InBucket(b))
       /\ bucket_stats[b].alloc_size - bucket_stats[b].free_size = SumBytes(InBucket(b))
  /\ \A f \in DOMAIN ZeroStats :
       total[f] = FoldLeft(+, 0, [b \in DOMAIN bucket_stats |-> bucket_stats[b][f]])

(* Bucket identity: no two buckets hold the same stack, each bucket sits   *)
(* on the chain of its hash, and every tracked allocation points to the    *)
(* bucket of the very stack it was recorded with, whatever collisions      *)
(* bucket_table_ has seen.                                                  *)
BucketIdentity ==
  /\ \A i, j \in DOMAIN bucket_stack : i # j => bucket_stack[i] # bucket_stack[j]
  /\ \A i \in DOMAIN bucket_stack : Contains(bucket_table[Hash(bucket_stack[i])], i)
  /\ \A p \in DOMAIN address_map : bucket_stack[BucketOf(address_map[p])] = origin[p]

\* What a leak check should report against base: the tracked, non-ignored
\* allocations MarkAsLive did not reach since the last NonLiveSnapshot,
\* other than those at addresses base holds.
LeakSet(base) ==
  {p \in DOMAIN address_map :
     /\ ~ignore(address_map[p].rep)
     /\ serial[p] \notin marked
     /\ base # NONE => p \notin DOMAIN snap[base].map}

(* A leak check reports every allocation made after its base snapshot was  *)
(* taken that is still tracked, not ignored and not marked live.            *)
LeakReportComplete ==
  [][\A s \in SnapIds, b \in SnapIds :
       NonLiveSnapshot(s, b) =>
         \A p \in LeakSet(NONE) :
            serial[p] >= snap[b].taken => p \in DOMAIN snap'[s].map]_vars

(* What IterateAllocs hands its callback agrees with the allocation's      *)
(* history: the stack RecordAlloc was given, and live exactly when         *)
(* MarkAsLive reached the object since the last NonLiveSnapshot, so a bit  *)
(* left from an earlier heap walk or the ignore bit never reads as live.   *)
IterationMatchesHistory ==
  \A p \in DOMAIN address_map :
    /\ IterateAllocs[p].call_stack = origin[p]
    /\ IterateAllocs[p].live = (serial[p] \in marked)
=============================================================================
