------------------------------ MODULE Recalloc ------------------------------
(***************************************************************************)
(* The CRT allocator overrides of src/src/windows/override_functions.cc,   *)
(* run against an abstract tcmalloc heap that holds the program's one      *)
(* block. size_t is SizeBits wide. A byte is tracked only by whether it    *)
(* may be nonzero (dirty): written by the program, or left over in memory  *)
(* the allocator did not clear. tcmalloc's malloc, calloc and realloc are  *)
(* not in this repository; they are modelled by every outcome they may     *)
(* have, which includes the ones tcmalloc really produces.                 *)
(***************************************************************************)
EXTENDS Integers, FiniteSetsExt

CONSTANTS SizeBits,    \* width of size_t
          ClassSizes,  \* usable sizes of the size classes the requests map to
          Counts,      \* the n arguments callers pass
          ElemSizes    \* the size arguments callers pass

SIZE_MAX == 2^SizeBits - 1

ASSUME SIZE_MAX \in ClassSizes /\ \A c \in ClassSizes : c <= SIZE_MAX

\* size_t arithmetic: unsigned, modulo 2^SizeBits.
Wrap(x) == x % 2^SizeBits

\* tc_nallocx: the usable size tcmalloc gives a request of s bytes.
nallocx(s) == Min({c \in ClassSizes : c >= s})

Bytes(a, b) == a..(b - 1)

VARIABLES live,   \* the program holds a block
          req,    \* bytes it asked for
          usable, \* tc_malloc_size of the block
          dirty,  \* byte offsets of the block that may be nonzero
          last    \* the last call and its observable result

vars == <<live, req, usable, dirty, last>>

LastCall(op, n, size, res, from, len) ==
  [op |-> op, n |-> n, size |-> size, res |-> res, from |-> from, len |-> len]

Init == /\ live = FALSE /\ req = 0 /\ usable = 0 /\ dirty = {}
        /\ last = LastCall("none", 0, 0, "null", 0, 0)

\* A fresh block of s bytes: memory reused from freed objects may hold anything.
Fresh(s, zeroed) ==
  /\ live' = TRUE /\ req' = s /\ usable' = nallocx(s)
  /\ \E junk \in SUBSET Bytes(zeroed, nallocx(s)) : dirty' = junk

malloc(s) == ~live /\ Fresh(s, 0)
           /\ last' = LastCall("malloc", 0, s, "ptr", 0, 0)

\* tcmalloc's calloc refuses an overflowing product and clears n*size bytes,
\* not the slack up to the usable size.
calloc(n, size) ==
  /\ ~live
  /\ IF n * size > SIZE_MAX
       THEN /\ last' = LastCall("calloc", n, size, "ENOMEM", 0, 0)
            /\ UNCHANGED <<live, req, usable, dirty>>
       ELSE /\ Fresh(n * size, n * size)
            /\ last' = LastCall("calloc", n, size, "ptr", 0, 0)

free(p) == live /\ live' = FALSE /\ req' = 0 /\ usable' = 0 /\ dirty' = {}
           /\ last' = LastCall("free", 0, 0, "null", 0, 0)

\* The program stores a nonzero byte inside what it asked for.
Write(i) == live /\ i < req /\ dirty' = dirty \cup {i}
            /\ last' = LastCall("write", 0, 0, "ptr", i, 1)
            /\ UNCHANGED <<live, req, usable>>

\* The outcomes of tcmalloc's realloc(old_ptr, s), each the block afterwards:
\* realloc(nullptr, s) is malloc(s); realloc(p, 0) frees p and returns nullptr;
\* otherwise it fails and leaves p alone, keeps p when s fits its usable size,
\* or moves to a fresh block, copying min(old usable size, s) bytes.
Block(ptr, l, r, u, d) == [ptr |-> ptr, live |-> l, req |-> r, usable |-> u, dirty |-> d]
ReallocOutcomes(s) ==
  LET copied == IF usable < s THEN usable ELSE s
      moved  == {Block(TRUE, TRUE, s, nallocx(s), (dirty \cap Bytes(0, copied)) \cup j) :
                   j \in SUBSET Bytes(copied, nallocx(s))}
  IN CASE ~live   -> {Block(TRUE, TRUE, s, nallocx(s), j) : j \in SUBSET Bytes(0, nallocx(s))}
       [] s = 0   -> {Block(FALSE, FALSE, 0, 0, {})}
       [] OTHER   -> {Block(FALSE, TRUE, req, usable, dirty)}
                     \cup (IF s <= usable THEN {Block(TRUE, TRUE, s, usable, dirty)} ELSE {})
                     \cup moved

\* Ensure that (n * size) does not overflow.
OverflowsOffByOne(n, size) == ~(n = 0 \/ SIZE_MAX \div n > size)
Overflows(n, size) == ~(n = 0 \/ SIZE_MAX \div n >= size)

\* The zero-fill condition: the reallocation succeeded and the block grew.
NeedsZeroFillAlways(ptr, new_size, old_size) == ptr
NeedsZeroFill(ptr, new_size, old_size) == ptr /\ new_size > old_size

\* _recalloc: the overflow check, realloc, then memset from tc_malloc_size of
\* the old block up to tc_nallocx of the new size, with size_t arithmetic.
recalloc(n, size) ==
  IF Overflows(n, size)
    THEN /\ last' = LastCall("recalloc", n, size, "ENOMEM", 0, 0)
         /\ UNCHANGED <<live, req, usable, dirty>>
    ELSE LET old_size == IF live THEN usable ELSE 0
             new_size == Wrap(n * size)
         IN \E b \in ReallocOutcomes(new_size) :
              LET fill == NeedsZeroFill(b.ptr, new_size, old_size)
                  len  == IF fill THEN Wrap(nallocx(new_size) - old_size) ELSE 0
              IN /\ live' = b.live /\ req' = b.req /\ usable' = b.usable
                 /\ dirty' = b.dirty \ Bytes(old_size, old_size + len)
                 /\ last' = LastCall("recalloc", n, size,
                                     IF b.ptr THEN "ptr" ELSE "null", old_size, len)

\* The exported entry points, each a forwarder.
malloc_base(s) == malloc(s)
free_base(p) == free(p)
calloc_base(n, size) == calloc(n, size)
recalloc_base(p, n, size) == recalloc(n, size)
calloc_impl(n, size) == calloc(n, size)
malloc_dbg(s) == malloc(s)
free_dbg(p) == free(p)
calloc_dbg(n, size) == calloc(n, size)

Next ==
  \/ \E s \in ElemSizes : malloc_base(s) \/ malloc_dbg(s)
  \/ \E n \in Counts, s \in ElemSizes :
       calloc_base(n, s) \/ calloc_impl(n, s) \/ calloc_dbg(n, s)
       \/ recalloc(n, s) \/ recalloc_base("p", n, s)
  \/ free_base("p") \/ free_dbg("p")
  \/ \E i \in Bytes(0, SIZE_MAX) : Write(i)

Spec == Init /\ [][Next]_vars

-----------------------------------------------------------------------------
\* _recalloc reports ENOMEM exactly when n * size does not fit in size_t, and
\* a block it returns has exactly n * size requested bytes.
OverflowCheckExact ==
  last.op = "recalloc" =>
    /\ (last.res = "ENOMEM") <=> (last.n * last.size > SIZE_MAX)
    /\ last.res = "ptr" => req = last.n * last.size

\* The memset of _recalloc stays inside the block realloc returned: it starts
\* at the old tc_malloc_size and must not run past the new usable size.
MemsetInBounds ==
  (last.op = "recalloc" /\ last.len > 0) =>
    /\ live /\ last.res = "ptr"
    /\ last.from + last.len <= usable

\* What _recalloc's comment promises ("zero-fill the new bytes") and what a
\* caller of a calloc-family function relies on: after _recalloc returns a
\* block, every element beyond the old requested size reads as zero.
NewElementsZeroed ==
  [][ (last'.op = "recalloc" /\ last'.res = "ptr") =>
        (dirty' \cap Bytes(IF live THEN req ELSE 0, req')) = {} ]_vars
=============================================================================
