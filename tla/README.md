# TLA+ models of gperftools' CPU profiler and heap-profile table

This directory holds TLA+ models of the gperftools parts in this repository
that have concurrent or stateful behaviour worth model checking. It also holds
the TLC configurations that check them. `PROJECT.json` is the machine-readable
index: components, runs, mutants, the definition-to-source map, findings and
hazards.

## The system and its parts

| Part | Source | Module(s) | Status |
|---|---|---|---|
| CPU profiler singleton (control routines, SIGPROF callback, toggle-signal switch) | `src/src/profiler.cc` | `CpuProfiler`, `MCCpuProfiler`, `CpuSampler` (abstract) | modelled |
| ProfileHandler and ProfileData (not in the repository) | — | contracts inside `CpuProfiler` | partly |
| `AllocValue` tagged bucket pointer | `src/src/heap-profile-table.h` 179-208 | `AllocValue`, `AllocRecord`, `MCAllocValue` | modelled |
| Bucket store, allocation table and snapshots | `src/src/heap-profile-table.h` | `HeapProfileTable`, `MCHeapProfileTable` | modelled (the `.cc` is absent, so from the spec) |
| `GetCurrentState`'s profile_name copy | `src/src/profiler.cc` 293-308 | `ProfilerState`, `MCProfilerData` | modelled |
| `prof_handler`'s sample stack | `src/src/profiler.cc` 335-363 | `SampleStack`, `MCProfilerData` | modelled |
| StackTraceTable (trace coalescer) | `src/unnamed/part_000` | `StackTraceTable`, `MCStackTraceTable` | modelled (bodies from the spec) |
| Windows `_recalloc` and the CRT allocator forwarders | `src/src/windows/override_functions.cc` | `Recalloc` | partly (heap-init stubs not modelled) |
| CI workflow | `src/.github/workflows/ci.yml` | — | not modelled (build only) |

How the parts interact:

- **CPU profiler.** Application threads call the C entry points: `ProfilerStart*`,
  `ProfilerStop`, `ProfilerFlush`, `ProfilingIsEnabledForAllThreads` and
  `ProfilerGetCurrentState`. These forward to `CpuProfiler` methods serialised by
  the SpinLock `lock_`.
- **The SIGPROF callback.** `prof_handler` runs asynchronously in signal context
  and takes no lock. It is kept apart from the control routines only by the
  unregistration protocol. `DisableHandler` unregisters the callback and waits
  for any running invocation. The comment at profiler.cc:101-109 states the
  rule: no `collector_` method is called without that.
- **The toggle switch.** If `CPUPROFILESIGNAL` is set, the signal handler
  `CpuProfilerSwitch` calls `ProfilerStart`/`ProfilerStop` on whichever thread
  the signal interrupts.
- **Heap-profile table.** The heap profiler calls `RecordAlloc`/`RecordFree` on
  every allocation and free. Each allocation is charged to the bucket of its call
  stack. The leak checker marks reachable objects live (`MarkAsLive`) and takes
  `NonLiveSnapshot`s. The bucket pointer and the live/ignore flags share one word
  (`AllocValue`).

## Modules and their correspondence with the code

### `CpuProfiler.tla`

**Constants**
- `Threads`: the application threads.
- `AutoStart`: `CPUPROFILE` set at construction.
- `ToggleSignal`: `CPUPROFILESIGNAL` set.
- `ApiOps`: which entry points threads call.
- `OpenMayFail`: the collector's `Start` may fail to open its file.

**Actors.** An actor is a pair `<<t, lvl>>`. Level 0 is thread `t`'s ordinary
code. Level 1 is `CpuProfilerSwitch` running on top of `t` as a signal handler.
Level 1 runs only while it is active (`inSwitch`), and level 0 runs only when no
switch runs on its thread.

**State**
- `op`, `at`: each actor's current routine and program counter.
- `ret`: the value it returns.
- `lockHolder`: `lock_`.
- `enabled`: `collector_.enabled()`.
- `filter`: `filter_`.
- `token`, `registered`: `prof_handler_token_` and whether profile-handler still
  calls back.
- `hpc`: the single in-flight `prof_handler` invocation (`"idle"`, `"filter"`,
  `"add"`).
- `started`: the static of `CpuProfilerSwitch`.
- `aborted`: a `RAW_LOG(FATAL)` happened.

**Actions**

| Action | Code |
|---|---|
| `Call` | C entry points |
| `Acquire` | taking `lock_` and the early returns of `Start`, `Stop` and `FlushTable` |
| `StartCollector` | `collector_.Start` (success or failure), `filter_` write |
| `EnableHandler`, `DisableHandler` | the token handling and RAW_CHECKs |
| `Drain` | the wait inside `ProfileHandlerUnregisterCallback` |
| `StopCollector`, `FlushCollector` | `collector_.Stop` and `FlushTable`, which re-enables the handler |
| `Query` | `Enabled` and `GetCurrentState` |
| `HandlerFire`, `HandlerFilter`, `HandlerAdd` | `prof_handler` |
| `SwitchEnter`, `SwitchExit` | `CpuProfilerSwitch` before and after its call |

The profile data and file naming are abstracted away. Only the collector's
enabled flag matters to the properties.

### `CpuSampler.tla`: what CpuProfiler promises

The abstract specification has three booleans:
- `on`: the collector is enabled;
- `writing`: a control routine owns `collector_`;
- `sampling`: a sample is in flight.

A write starts only when no sample is in flight. The collector is turned on or
off only inside a write. A sample starts only while the collector is on and
not being written. Every write and every sample ends (weak fairness on
finishing them).

`CpuProfiler` defines the refinement mapping:
- `on` is `enabled`;
- `writing` (`Writing`) holds while some actor running `Start`, `Stop` or
  `FlushTable` is at `"collector"` or `"enable"`. That is past the early
  return and the drain, and before `lock_` is released or the handler is
  registered again;
- `sampling` is `hpc # "idle"`.

`ImplementsCpuSampler == Sampler!Spec` is checked as a PROPERTY in
`cpu_control`.

### `AllocValue.tla`, `AllocRecord.tla` and `MCAllocValue.tla`

- `AllocValue` defines the bit-packing operators over `PtrBits`-bit words,
  using `Bitwise`.
- `AllocRecord` is the abstract specification: an allocation record with
  explicit bucket, live and ignore fields. `set_bucket` clears both flags, as the
  header says.
- `MCAllocValue` drives the packed word through every setter and shows, with
  `INSTANCE AllocRecord WITH` a decoding refinement mapping, that it implements
  `AllocRecord`.

### `HeapProfileTable.tla`

**State**
- `bucket_stack`, `bucket_stats`: the buckets.
- `bucket_table`: the chained hash table. Each chain is a sequence of bucket ids,
  and new buckets are pushed at the head.
- `total`: `total_`.
- `address_map`: address → `[bytes, rep]`, where `rep` is the packed word from
  `AllocValue`.
- `snap`: snapshots, each with its map, base and kind.

**Ghost state** used only by the properties:
- `serial`, `origin`: which allocation occupies an address, and its stack.
- `marked`: what the leak checker marked live since the last `NonLiveSnapshot`.

**Actions:** `RecordAlloc`, `RecordFree` (including the no-op for an untracked
pointer), `MarkAsLive`, `MarkAsIgnored`, `TakeSnapshot`, `NonLiveSnapshot` and
`ReleaseSnapshot`.

**Query:** `IterateAllocs` is translated from its inline body in the header. For
each tracked address it gives the `AllocInfo` the callback receives:
- the size;
- the stack of the bucket the packed word points to;
- the decoded live bit;
- the decoded ignore bit.

The stack hash is the frame sum modulo `NumBuckets`. It is not the code's mixing
hash, but it keeps the chain search honest: `<<1,2>>` and `<<2,1>>` collide, so
the search must compare every frame. `heap-profile-table.cc` is not in the
repository. Some calls have a header comment that states what the call does:
`MarkAsLive`, `MarkAsIgnored`, `NonLiveSnapshot`, `ReleaseSnapshot` and
`GetBucket`. Those are mapped to that declared contract. The other bodies
(`RecordAlloc`, `RecordFree`, the hash and the chain search) follow the spec
and are marked `spec_modelled` in the map. The `AllocValue` packing and `Snapshot::Add` come from the header.

### `ProfilerState.tla`

This module covers the end of `GetCurrentState`: the caller's `profile_name`
buffer (`buf`), the collector's name length (`name_len`), and the offsets the
call stored to (`written`).

- The single action, `GetCurrentState(len)`, does three things:
  - copies `min(kBufSize, size + 1)` bytes;
  - writes the NUL at `kBufSize - 1`;
  - appends the counter address when `size + 1 + sizeof(void*) <= kBufSize`.
- Characters and pointer bytes are tagged values.
- Bytes a call does not write keep the result of an earlier call.

### `SampleStack.tla` and `MCProfilerData.tla`

`SampleStack` models `prof_handler` after its filter.

**State**
- `pc`: the interrupted pc.
- `frames`: what `GetStackTraceWithContext` returned.
- `written`: the array cells stored to.
- `trace`: the frames `collector_.Add` received.

**The action `ProfHandler(p, f, junk)`**
1. Store the pc in `stack[0]` and the frames from `stack[1]`.
2. Apply the dedup test `depth > 0 && stack[1] == stack[0]` (`IsDuplicatePC`).
3. Pick `used_stack` and `depth`.

**Nondeterminism**
- The unwinder is not in the repository. It may return any frames, up to
  `max_depth = arraysize(stack) - 1` (`MaxFrames`), with or without the pc
  first.
- The cells it does not write hold arbitrary leftovers (`junk`), because the
  local array is uninitialised.
- Cell `kMaxStackDepth` stands for the memory past the array.

`MCProfilerData` instantiates `ProfilerState` and `SampleStack` side by side.
The two share no state, and each step leaves the other's variables unchanged.

### `StackTraceTable.tla` and `MCStackTraceTable.tla`

**State**
- `head`: the entries of `head_`.
- `pageheap_lock`: its holder.
- `rpc`: the reader's step.
- `out`: the last dump.
- `lockOps`: how many page-heap operations the other threads have begun, bounded by `MaxLockOps`.

**Actors**
- The reader follows the header's contracts:
  - `BeginCollect` takes the lock;
  - `AddTrace` needs the lock held (`L >= pageheap_lock`);
  - `EndCollect` releases it;
  - `ReadStackTracesAndClear` needs it free (`L < pageheap_lock`);
  - `Destroy` is the destructor's `ASSERT(head_ == nullptr)`.
- Other threads `Lock`/`Unlock` `pageheap_lock`.

**Reading.** The output allocation has three outcomes, as the spec describes:
- it is served from a thread cache;
- it needs a span from the page heap, and so waits for `pageheap_lock`;
- it fails, which returns nullptr and drops the samples.

`stack_trace_table.cc` is not in the repository, so the method bodies follow
spec section 4.5. The header's `error_` member is not modelled, because its
use is not described anywhere in the repository.

### `Recalloc.tla`

**State**
- The program's one block: `live`, `req`, `usable` (`tc_malloc_size`), and
  `dirty`, the byte offsets that may be nonzero.
- `last`: the last call and its result, including the `memset` range.

**Actions**
- `recalloc` is `_recalloc` as written:
  1. the overflow check with `SIZE_MAX \div n`;
  2. `realloc`;
  3. the `memset` from `tc_malloc_size(old_ptr)` to `tc_nallocx(new_size)`,
     in `size_t` arithmetic (`Wrap`).
- The forwarders (`_malloc_base`, `_calloc_base`, `_calloc_impl`,
  `_recalloc_base`, `_free_base` and the `_dbg` variants) are one-line
  definitions.

**Abstractions**
- tcmalloc's `malloc`, `calloc` and `realloc` are not in the repository. Each
  is modelled by all its possible outcomes.
- `realloc` may fail, keep the block when the size fits its usable size, or
  move it and copy `min(old usable, new size)` bytes. Memory reused from freed
  objects may hold anything.
- `calloc` clears only the requested bytes.

## Runs

| Run | Config | Expect | What it shows |
|---|---|---|---|
| `cpu_control` | `CpuProfilerControl.cfg` | pass | Two threads run every entry point against the SIGPROF callback, with collector open failures. The handler is never inside `collector_` or the filter while a control routine mutates them (`HandlerExcludesControl`). The RAW_CHECKs never fire (`RawChecksHold`). `lock_` is always released again (`LockReleased`). The profiler refines `CpuSampler` (`ImplementsCpuSampler`). |
| `cpu_toggle` | `CpuProfilerToggle.cfg` | pass | The same safety with the toggle signal interrupting threads anywhere. |
| `cpu_query_race` | `CpuProfiler_NoCollectorCallDuringAdd.cfg` | violation | `Enabled`/`GetCurrentState` call `collector_` while `prof_handler` is in `Add`. This contradicts the lock comment at profiler.cc:104-108. |
| `cpu_switch_self_deadlock` | `CpuProfiler_NoSelfDeadlock.cfg` | violation | The toggle signal lands on a thread holding `lock_`. `CpuProfilerSwitch` then spins on it forever. |
| `cpu_switch_race_fatal` | `CpuProfiler_ToggleNeverFatal.cfg` | violation | Two toggle signals on two threads both read `started == false`. The second `ProfilerStart` fails, and the process dies in `RAW_LOG(FATAL)`. |
| `allocvalue_packing` | `MCAllocValue.cfg` | pass | The packed word refines the explicit record for every aligned bucket. |
| `heap_table` | `HeapProfileTableSafety.cfg` | pass | Buckets are unique by stack content, even when stacks collide. Every allocation is charged to its own stack's bucket. Per-bucket and total net counts equal the tracked allocations. `IterateAllocs` reports each object's own stack, and reports it live exactly when the current heap walk marked it (`IterationMatchesHistory`). |
| `heap_leak_address_reuse` | `HeapProfileTable_LeakReportComplete.cfg` | violation | Suppose an object is allocated after the base snapshot, at an address that a freed base object used. That object is never reported as a leak. |

| `recalloc_overrides` | `RecallocOverrides.cfg` | pass | `_recalloc` returns ENOMEM exactly when `n * size` wraps, and a returned block has exactly `n * size` requested bytes (`OverflowCheckExact`). The `memset` never runs past the block that `realloc` returned (`MemsetInBounds`). |
| `recalloc_zero_fill` | `Recalloc_NewElementsZeroed.cfg` | violation | `malloc(1)` then `_recalloc(p, 2, 1)`: the block stays in place, `new_size` is not greater than `tc_malloc_size`, and the new element keeps its uninitialised byte. |
| `profiler_data` | `ProfilerDataCopy.cfg` | pass | For every name length, `GetCurrentState`'s copies stay inside `profile_name`, and the name and the appended address read back intact (`CopyInBounds`, `StateReadBack`). For every unwinder result and leftover array content, `prof_handler` stays inside its array (`StackInBounds`) and records exactly the pc followed by its callers (`SampleIsPCThenCallers`). |
| `stack_trace_read` | `StackTraceTableRead.cfg` | pass | A reader that releases `pageheap_lock` after collecting, as `ReadStackTracesAndClear`'s `REQUIRES: L < pageheap_lock` demands, always finishes its read under weak fairness (`ReadCompletes`). That holds even when the output allocation needs the lock. A reader that kept the lock would spin forever. |

Every property of a passing run has a mutant in `PROJECT.json`: a plausible bug
in the modelled code that TLC must catch. Examples are a drain that does not
wait, a flag mask missing a bit, a chain search that compares only depth, and
`IterateAllocs` copying the live and ignore flags into each other's fields.


## Bounds and why they suffice

**CPU profiler**
- Two threads are enough for every pairwise interleaving of a control routine
  with another control routine, with the callback, and with a switch. All
  reported races need exactly two actors besides the callback.
- Profile-handler guarantees one callback invocation at a time, so a single
  `hpc` is exact.

**AllocValue**
- `PtrBits = 6` gives 15 aligned bucket addresses. All bits above the flags are
  exercised, and so are all flag combinations.

**Heap table**
- Two addresses make address reuse possible.
- `heap_table` allows two allocations (`MaxAllocs`). That is enough to free an
  address and reuse it, or to place two stacks in one chain. One 2-byte size
  keeps byte totals distinct from counts.
- Four stacks over two buckets give both a collision between different stacks
  and one between stacks of different depth.
- Two snapshot ids allow a base plus a `NonLiveSnapshot` of it.
- `heap_leak_address_reuse` uses one stack and three allocations. This is the
  shortest run in which a leak is allocated after the base snapshot at a reused
  address.
- The run takes about a minute. Allowing sizes {1, 2} as well takes three and a
  half minutes, too close to the time limit.

**Recalloc**
- `size_t` is 3 bits wide (`SIZE_MAX = 7`) and the size classes are 2, 4 and 7.
  Every usable size fits in `size_t`, as it does in tcmalloc.
- The arguments `n` ∈ {0,1,2} and `size` ∈ {1,3,7} give products that fit,
  one that equals `SIZE_MAX` (the off-by-one edge), and ones that overflow.
- They also give requests that grow within a block's slack and requests that
  grow past it.

**ProfilerState**
- `profile_name` is scaled to 10 bytes and the pointer to 2. Name lengths 0..9
  cover:
  - the exact fit of the pointer (length 7);
  - both lengths where it does not fit (8 and 9);
  - the longest name the collector's same-sized buffer holds.

**SampleStack**
- `kMaxStackDepth = 4` with two code addresses. The unwinder may return 0 to
  3 frames, and 3 fills the array.
- The runs include frames that repeat the pc, frames that do not, and an
  empty unwind whose leftover `stack[1]` equals the pc.

**StackTraceTable**
- Two contending threads.
- Two distinct traces, and up to three per collection.
- Three page-heap operations by the other threads in all. That is enough for
  the lock to be taken while the reader collects, just before its span
  allocation, and again after it.

## Fairness

`cpu_control` checks `LockReleased` under `FairSpec`:

- Each actor's own steps are weakly fair. A thread that holds `lock_` keeps
  being scheduled.
- `prof_handler` steps are weakly fair. A started invocation finishes, because
  it has no blocking call.

The code does not guarantee that SIGPROF stops arriving, so `HandlerFire` is
not fair and may happen infinitely often. The property still holds because
unregistration stops new invocations. The same fairness discharges
`CpuSampler`'s weak fairness on ending a write or a sample:
- a write ends when its owner releases `lock_`;
- a sample ends when `prof_handler` returns.

`stack_trace_read` checks `ReadCompletes` under `StackTraceTable!FairSpec`:

- Threads release `pageheap_lock` (weak fairness), because page-heap critical
  sections are finite.
- The reader's steps are weakly fair.
- There is no strong fairness. SpinLock gives no fair hand-off, so a reader
  could be starved by threads that keep taking `pageheap_lock`.
- The run therefore bounds the other threads to `MaxLockOps` page-heap
  operations. This property catches a reader that waits on a lock it holds
  itself. It does not catch starvation, which the hazard list notes as
  uncovered.

The other runs check safety only, under `Spec`.

## Not modelled, and why

- Profile contents, file names and output formatting: data, not control.
- `CpuSampler` and its refinement are checked only without the toggle
  signal (`cpu_control`). With `CPUPROFILESIGNAL` the process may die in
  `RAW_LOG(FATAL)`, which is not a `CpuSampler` step.
- The contents of a `ReadStackTracesAndClear` dump, and its failure path,
  are not checked. The body is not in the repository, so a property about
  them would only restate the spec.
- The heap table's read-only lookups (`FindAlloc`, `FindAllocDetails`,
  `FindInsideAlloc`) and the report writers change no table state. Their
  bodies (and `AddressMap`) are not in the repository.
- The Windows CRT heap stubs have no behaviour the model could check:
  - `_heap_init` and `__acrt_initialize_heap` only construct a
    `TCMallocGuard`;
  - `_set_new_mode` and `_query_new_mode` forward to tcmalloc;
  - `_msize`, `_get_heap_handle` and the `_CrtDbgReport` stubs are read-only
    or constant.
- The layout of the flattened stack-trace dump is not described in the
  repository.
