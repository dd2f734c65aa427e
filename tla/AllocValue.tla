---------------------------- MODULE AllocValue ----------------------------
(***************************************************************************)
(* HeapProfileTable::AllocValue of src/src/heap-profile-table.h: the      *)
(* bucket pointer and the live and ignore flags packed in one uintptr_t,  *)
(* using the two low bits that bucket alignment leaves free.  A word is a *)
(* natural below 2^PtrBits; ~x of the code is WordMax - x.                *)
(***************************************************************************)
EXTENDS Naturals, Bitwise

CONSTANT PtrBits   \* width of uintptr_t in the model

kLive   == 1
kIgnore == 2
\* Mutant: a mask that forgets the ignore bit.
kMaskLiveOnly == kLive

kMask   == kLive | kIgnore

WordMax == 2^PtrBits - 1

\* ~uintptr_t(x)
Complement(x) == WordMax - x

\* Bucket addresses: non-null and aligned to at least four bytes.
BucketAddrs == {4 * i : i \in 1..(2^(PtrBits - 2) - 1)}

\* Mutant: set_live that adds the bit instead of clearing and or-ing it.
set_live_add(rep, l) == rep + (IF l THEN kLive ELSE 0)

bucket(rep)        == rep & Complement(kMask)
set_bucket(b)      == b
live(rep)          == (rep & kLive) # 0
set_live(rep, l)   == (rep & Complement(kLive)) | (IF l THEN kLive ELSE 0)
ignore(rep)        == (rep & kIgnore) # 0
set_ignore(rep, r) == (rep & Complement(kIgnore)) | (IF r THEN kIgnore ELSE 0)
=============================================================================
