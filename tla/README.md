# TLA+ models of the vitamin RTL simulator

Specifications, TLC runs and TLAPS proofs for `vitamin`, a SystemVerilog simulator in
Rust: for the parts whose correctness depends on the *order* of things (the event loop,
the fork/join arena, continuous assigns, the waveform dump and its thread, the work
library) and for the four-state arithmetic everything rests on.
Paths below are relative to `src/crates/`. `PROJECT.json` holds the machine-readable
form of everything here: the component list, every run, the code lines each
definition stands for, the hazards, and the theorems.

## 1. Inventory

A run is `vcmp`/`velab`/`vsim` (or `vita`, all of them at once): preprocess, lex,
parse, elaborate to an IR, simulate, dump waves.

| Component | State | Operations | Hard part | Modelled by |
|---|---|---|---|---|
| **Event loop** `sim-engine/src/sched/{run_loop,propagate,scan_arm}.rs` | region queues (`cur.active`, `cur.inactive`, `nba`), the wheel, `delayed_nba`, `delayed_ca`, the waiter list, dirty nets, `wake_seq`, `delta_count` | settle, take a batch, propagate, promote `#0`, apply NBAs, mature reports, postpone, advance time | which of many queues is next; wakes found by one pass while another is still to run; the finish of a time step | `RunLoop` |
| **Activity arena** `sched/{mod,propagate,wait_fork,kernel}.rs`, `exec/process.rs` | `activities`, `barriers`, two free lists, the wait-fork countdown, report keys | fork (three join modes), arm completion, `wait fork`, `disable fork`, suspend/resume | slots are recycled while counters, queues and reports still refer to their former owners | `ForkJoin`, `ForkPromise` |
| **Continuous assigns** `sched/{scan_arm,ca_delay}.rs` | dirty list, per-driver generation, last computed and last driven value, the wheel of delayed writes | settle to the fixpoint, resolve, decide, defer, land, cancel | the worklist skips assigns; inertial cancellation; time 0 and initializers; oscillation | `Settle`, `InertialAssign` |
| **VCD writer thread** `vcd_thread.rs` | bounded channel, error latch, the sink | write, flush, drop; `$dumpflush`, `finalize_vcd` | backpressure against a dying thread; an error handed to a caller that drops it | `VcdThread`, `DumpStream` |
| **Dump control** `vcd-writer/src/lib.rs`, `builtins/{dispatch,queues_io}.rs`, `state/changes.rs` | the writer's clock, gate, limit; the simulator's copy of the gate | `$dumpvars/off/on/all/limit`, value changes, stamps | two gates, one clock, suppression and checkpoints in any order | `DumpControl` |
| **Values and operators** `value.rs`, `eval/`, `sim-ir/src/mw.rs` | two planes of 64-bit words, a width, a sign | every integral operator in context, part-select writes, net resolution | word boundaries, padding, native and wide lanes, x and z | `Planes`, `FourState`, `WideArith`, `Evaluate` |
| **Constant folding** `elaborate/src/const_wide{,_num}.rs` | none: an expression in, bits or a decline out | the fold of a region in two passes, a declared parameter | a second evaluator that must agree with the first | `ConstFold` |
| **Work library** `cli/src/{worklib,pipeline,staged}.rs` | `lib.toml`, blobs, sources; a snapshot's record of its upstream | `vcmp --work`, `velab -L`, the RULE V gate of `vrun` | a stop between blob, manifest and collection; racing commands; edits in between; stamps | `WorkLib` |
| Deferred assertions `sched/run_loop.rs` | two report queues keyed by (marker, activity, generation) | marker, file, cancel, mature | a report must follow its arm, not the slot | `RunLoop`, `ForkJoin` |
| Time-0 hold `sched/t0_hold.rs`, `t0_edge.rs` | held wakes, implicit passes, parked batch | hold, release, rejoin | only time 0 has it | - |
| Process execution `exec/` | bodies, task frames, shared windows | run a body to its next suspension | windows shared between arms of one frame | what it does to the scheduler |
| Tier-3 native loop `native/` | packed net store | a second event loop | must do what the first does | - |
| FST transcoding | - | a finished VCD is read and written again | - | - |
| Elaborator, parser, preprocessor | syntax tree, IR | translation | sequential | `instantiated_names` in `WorkLib` |
| Artifacts `vita-artifact`, `sim-ir` | headers, schema hash | write, gate, read | a header compared field by field | - |
| CLI | options | the one-shot driver | - | staged commands in `WorkLib` |
| Corpus runner | worker threads, child processes | bounded run, parallel map | timeout and inherited pipes | - |
| Diagnostics, logging, stubs | - | output | - | - |

How they meet. The elaborator gives the engine an immutable IR. The engine's loop
calls a process body (`run_body` → `run_process`), and the body calls back into the
scheduler (`schedule_resume`, `suspend_on`, `schedule_nba`, `exec_fork`,
`exec_wait_fork`, `k_disable_fork`, `on_child_complete`) and into the net store
(`note_change`), which marks nets dirty for the next `propagate_changes`. Everything
so far is one thread: its concurrency is that of processes interleaved by the
scheduler. Two real threads exist: the simulation and the VCD writer, joined by a
bounded channel. Commands meet only through files: the library, its blobs, the snapshot.

What makes each part correct: the arena counts exactly what can still report, and a
recycled slot belongs to nobody; a process is in one place; queues are in order of
scheduling number and tie; a time step ends only when every change has been seen; a
run ends; skipping assigns whose inputs did not move loses nothing; a delayed assign is
inertial; a dump is a prefix of the stream or somebody is told, and shows the nets as
they were; words compute what the tables and the integers say, and a parameter is bound to what its
expression has at run time; a stopped `vcmp` leaves a
library that reads, and `vrun` accepts nothing stale.

## 2. Modules

| Module | Models | Kind |
|---|---|---|
| `ForkJoin` | the activity arena | detailed |
| `ForkPromise` | what fork/join/wait fork/disable fork promise a SystemVerilog process: sets of children, no slots and no counters | abstract; `ForkJoin` refines it |
| `ForkJoinProofs` | the arena's inductive invariant and its consequences; a process as one thread, the refinement of `ForkPromise`, report keys under slot recycling | proofs |
| `RunLoop`, `RunLoopProofs` | regions, queues, wakes and the advance of time | detailed; proofs |
| `Keeping` | the entries of a queue or a manifest that stay, in order | operator |
| `Settle` | the fixpoint of continuous assigns and the delayed ones among them | detailed |
| `InertialAssign` | IEEE 1800-2017 10.3.3 | abstract; `Settle` refines it |
| `SettleProofs` | completeness of the worklist; generations, the wheel and the refinement | proofs |
| `VcdThread` | the writer thread with both its clients | detailed |
| `DumpStream` | what a dump file is, at any time and at the end | abstract; `VcdThread` refines it without `$dumpflush` |
| `VcdThreadProofs` | channel, gaps, losses and the refinement | proofs |
| `DumpControl`, `DumpControlProofs` | the dump tasks and the encoder's state | detailed; proofs |
| `Planes` | word-parallel four-state logic and its tables | operators |
| `FourState` | values of any width: resize, shift, select, compare, reduce | operators |
| `WideArith`, `WideArithProofs` | arithmetic in the native and the multi-word lane | operators; proofs, for `Planes` and `FourState` too |
| `Evaluate`, `EvaluateProofs` | expressions in a context, and what IEEE 1800 says of each operator | detailed against a reference; proofs |
| `ConstFold` | the elaborator's fold of the same expressions | detailed, against `Evaluate` |
| `WorkLib`, `WorkLibProofs` | `vcmp --work`, `velab -L`, the gate of `vrun`, and an editor | detailed; proofs |
| `MCSettle`, `MCEvaluate`, `MCWorkLib` | a circuit, operands, a library for TLC | instances |

### ForkJoin

`activities` is the arena (slot → record), `acts` its length; slots are numbered from
1 and 0 is None. `barriers`/`bars` likewise. `free_activities` and `free_barriers` are
the LIFO lists. Of the run queues the model keeps, per slot, the number of entries:
`ready` is what the next batch dispatches, `armed` what a delay, `#0` or waiter will
make ready (so the model lets reports mature before a pending `#0`, which the code does not: more
behaviours, not fewer). `cur_aid` is the running body. An activity's `busy` is the code's;
`stopped` records a body that reached `$finish` (the code only sets `busy`).

Each action is what one call does in full: `Fork` registers the barrier, pops or
appends every arm's slot, seeds its record with the next generation, makes every arm
ready and parks or continues the parent; `Complete` reports, decrements, fires,
recycles the arm's slot, recycles the barrier if drained, and counts down the parent's
`wait fork`. `ForkRefused` is the tie cap: the barrier has been registered by then.
`DisableFork` marks the descendants dead and cancels the reports of their current
incarnations; their queue entries stay until `Dispatch` (the choke `run_body`) drops
them. The order in which ready bodies run is left open: every property here holds for
any order, so for the scheduler's. A `$stop` or `$fatal` ends the run where it stands,
so its executions are prefixes of the model's.

### VcdThread

`sent` counts chunks handed over; `channel` is the bounded queue; `file` is what
reached the sink, with `-c` for a torn piece of chunk `c`. The producer's `producer`
says which call it is blocked in. A write fails whole or torn; the thread may die at
any point (a panic of its sink), dropping what is queued. `warned` is what
`finalize_vcd` does with an error, `dropped` is what `$dumpflush` does. A chunk is one
`write` of the 64K `BufWriter` in front; its own buffering changes no order.

### RunLoop

`phase` is where in the loop body control stands; in phase `"region"` the first
non-empty region decides, as the cascade of `if`s does. Scheduling numbers are
abstracted to three ages, because only their order matters: `"old"` (before the last
refresh of `wake_seq`), `"wake"` (the wake group itself, where ties decide) and `"new"`
(since). `WithWakes` is `push_sorted` of a set of woken processes, `Refreshed` what a
refresh does to what is queued (`Kept` takes the entries of one age out of a queue, a
recursive function so that it can be proved about). `Places(p)` is everywhere a process can be:
the batch, a queue, the wheel, a wait. Pass (a) of `propagate_changes` is `Rouses`, pass (b)
`Resumes`; a clocking commit may happen inside pass (a), and its change is left for the
next pass, which is why the loop has its late-dirty step (`PropagateLate`).

Four nets stand for what the loop tells apart: `v` is written by bodies and by NBAs,
`w` follows it through `assign`, `y` through a delayed `assign` (with inertial cancel:
`stale_ca` keeps the ticks of cancelled writes), `c` is the clocking sample. A body is
any sequence of statements, at most `Fuel` of them in a run besides suspensions.

A non-blocking assignment with `<= #0` goes to the NBA region of the current step
(`exec/process.rs:956`), so nothing is ever due at the current tick on the advance
path; the `tick_due_now` half for `delayed_nba` is never true and has no disjunct.

### Settle

One action per step of `settle_cont_assigns`: take the worklist (`Start`), visit an assign
(`Visit`, in declaration order), resolve a multi-driven net (`ResolveGroup`), go round
again or converge, then decide each delayed assign (`Decide`, which is
`schedule_delayed_cas` with all its early returns) and write what lands at time 0 (`Land`).
`dirty` is `ca_dirty` and `Always` is `ca_always`: the worklist certifies only undelayed
single drivers. A delayed assign has a generation, the right-hand side last seen, the value last
decided (`last_ca`) and last driven (`last_drv`): the delay is chosen from the value last
driven, cancellation compares the value last decided. Raising the generation cancels what
is on the wheel; `TakeDue` drops a stale entry when its tick comes. `pre_init`/`armed` are
the order of start-up: a settle before declaration initializers, one after, then processes.

A net is one four-state bit; `Rhs`, `Delay` and `Resolve` are constants, so the theorems hold for
every circuit. `RunLoop` abstracts all of this to one undelayed and one delayed assign.

### DumpControl

A writer is a record of its clock, its gate, its limit, what it has written (in bytes, one per
record) and, as a history, what a viewer would show at each time (`shown`). `held` is the
other history: the nets at the end of each slot. Each dump task is the dispatcher's
`set_time` followed by the writer's own call, including the order of the two and the limit
check before the clock or after it. `Write` is `note_change` with its gate on both sides.

### Planes, FourState, WideArith, Evaluate, ConstFold

A word is the set of its 1-bits and `WordBits` is a constant, 64 in the code and 3 in the
run. `Planes` has the operators on one word and, after them, the four-state tables for one bit.
`FourState` has values: planes as functions from word numbers, cut to their width by `Value`
(`mask_top`). `WideArith` has `arith` with its choice of lane, the kernels of
`sim-ir/src/mw.rs` (schoolbook multiplication, short and long division, power) on digits,
and `negate`. An expression in `Evaluate` is what it is in the code, an arena of nodes in
post-order: `child` of `selfwidth.rs` asserts that operands come before their node, and
`build_with` of `width.rs` fills one table in that order (`WidthTable`). `Evaluated` is the
second table: what every node answers, as a function of the context, by `eval_ctx` and
`eval_binary_ctx`. The actions pick two operands, a context and an operator, or a
tree of two operators. The properties say what one operator gives on integers
(`IntOf`, modulo two to the width) and on single bits, independently of words and lanes.
The code clamps the width of a node at `WIDTH_MAX` (2^24, `clamp_w`), far above every
width here; the model does not.

`ConstFold` is the elaborator's own evaluator of constant expressions, which shares only
`mw_divmod` and `mw_pow` with the first. A folded value is a function from places to the
four states, and a result is a set of at most one (`Option`). `fold_region` is one pass:
`psg` is empty in the first, which finds the width and sign of the region, and holds the
sign in the second. `FoldAgrees` compares it with `eval_ctx`, operator by operator and on
trees of two operators, where widths and signs of one operand reach the other; there
the two evaluators could differ in a way neither has a test for. Where the fold declines
(unknown bits read by an arithmetic operator, division by zero, a select that leaves its
source, too much work, too wide a value) the elaborator reports an error or takes another
route, and the property says nothing. About half of the trees fold.

### WorkLib

A digest is the content it was taken of, so a compilation unit is the texts it was
compiled from and names its own blob. `vcmp` reads each source once (the text hashed is
the text compiled), reads the manifest, and then takes the steps of `add_cu` one at a time: blob,
manifest (staged and renamed, so one step), listing, and one removal per collected blob.
`Stop` ends it between any two. `velab` loads manifests in `-L` order, walks the closure
unit by unit and takes a stamp per entry in two steps, `Rehash` and `Stat`. `vrun` only
reads, so its gate is the predicate `Accepts`. `Edit` is anybody saving a file.
`overlapped` marks a directory on which two `add_cu` calls have overlapped: the code takes no
lock, and what depends on that is stated for directories without overlap.

## 3. Runs

A module's type invariant is proved where the module has proofs. TLC looks for deadlock except in `settle`, `values` and `dump_control`, which
stop at their bounds (time, writes, one operator, bytes); the other specifications have an
explicit end. The longest, `fork_arena`, takes about three minutes.

| Run | Bounds | Distinct states | Shows |
|---|---|---|---|
| `fork_arena` | 2 processes, 2 arms, 4 slots, 2 barriers, 1 re-issue | 1,681,615 | `BarrierCount`, `RecycledIsGone`, `OneContinuation`, `WaitForkCount`, and the refinement `KeepsPromise` |
| `fork_reports` | 1 process, 2 arms, 3 slots, 2 reports | 552,208 | `FreshReportKey`, `ReportLostOnlyByOwner` |
| `fork_live` | 1 process, 2 arms, no re-issue, fair | 9,646 | `HeldIsReleased` |
| `vcd_thread` | channel 2, 4 chunks, 2 flushes, 2 failures, death, fair | 6,832 | `GapOnlyAfterDroppedError`, `LossIsReported`, `Terminates`, and the refinement `KeepsStream` |
| `run_loop` | an `initial` and an `always @(v)`, delays 0 and 1, 2 ticks, 5 deltas, fuel 2, fair | 705,096 | `TypeOK`, `OneEntry`, `QueueSorted`, `NothingOverdue`, `StopsForGood`, `StepComplete`, `RunEnds` |
| `worklib` | 2 `vcmp` processes, 3 runs, 2 libraries, 1 edit, 1 stop, 1 `velab` | 744,067 | `ManifestConsistent`, `BlobsPresent`, `GarbageCollected`, `ReplacedInPlace`, `ClosureFollowsSearchOrder`, `AcceptedIsCurrent` |
| `settle` | 8 assigns on 9 nets, 3 writes, 6 deltas, time to 5, fair | 807,335 | `SettledComplete`, `FollowsRhs`, `InitFirst`, `SettleEnds`, and the refinement `KeepsInertial` |
| `values` | words of 3 bits, values of 1 to 7 bits, 3 contexts; trees of two operators on 4 values | 272,316 | `Canonical`, `ArithmeticExact`, `BitwiseExact`, `TruthExact`, `PlacementExact`, `FoldAgrees` |
| `dump_control` | 2 nets, 2 values, 3 slots, limits 7 and 13, 16 bytes | 861,748 | `ViewFaithful`, `StampsIncrease`, `LimitIsFinal`, `NoTraceWhileOff` |
| `vcd_dumpflush`, `run_verdict`, `worklib_stamp` | see section 6 | - | counterexamples |

Why these bounds.

- The arena: two arms are the least for which a barrier is neither empty nor drained at once and
  for which join_any has a loser; two barriers let a parent fork again while losers of the
  first fork still run; four slots with two processes leave two to recycle, and one
  re-issue is enough for every stale reference to meet a new owner. `TieHalf` = 3 scales
  the 2^16 of the key so that both sides of the cap occur.
- The channel: capacity 2 with 4 chunks fills, drains and refills.
- The loop: two ticks give an advance that both delivers and leaves behind; two statements suffice
  for each pair of statements the regions order (suspensions are not counted).
  `MaxDeltas` is the program's own limit, small; `MaxDelay` is the longest delay given.
- `worklib`: three runs over two processes are the least in which a library has an
  older unit, a replacement and a racing third; one edit separates what was compiled from
  what is there. A stop can come after each write.
- `settle`: the circuit has one of each kind: an assign that reads nets driven further down, a
  resolved net, a constant delay that differs by edge, a runtime delay with a transition
  that never happens, a delay of zero or three, and a feedback that may oscillate. Three writes
  give a change, its reversal while the first is pending, and a third.
- `values`: words of three bits put one, two and three words and every position of
  the top bit within seven bits, and both lanes, within reach. The trees take a signed value
  of one word, an unsigned one of two, a signed one of three and a partly unknown one, so
  that a region mixes widths, signs and states; two operators are the least in which a region
  reaches past its own operator. An integer has 5 bits and a net at most 7.
- `dump_control`: limits of 7 and 13 strike within a block, between two blocks and at a stamp;
  three slots are a change before, while and after a gate is shut.

The only symmetry used is that of the two `vcmp` processes, which nothing orders. Slots
and simulated processes are numbers, and ties compare them.

Every property has a mutant in `PROJECT.json`: a small edit of one definition, of the
kind a refactoring might make (an off-by-one, a missing guard, a lost reset), under
which TLC finds the property violated in the same run. They are defined next to the
definition they alter, with a comment "mutant".

### Fairness

- `ForkJoin!FairSpec`. The loop empties each batch before it goes on, but other bodies run
  in between: strong fairness of `Dispatch`. The wheel delivers each delay: strong fairness
  of `Wake`; so the result speaks of arms that wait on delays. A body that never yields is
  ended by the guard of `run_process` (`max_deltas_guard`), and an arm is taken to reach
  its end: strong fairness of `Complete` and of `Suspend \/ Return`. An arm waiting for an
  event that never comes holds its join for ever, in the code as in SystemVerilog. A
  `$finish` stops a body for good, so `HeldIsReleased` excepts it.
- `VcdThread!FairSpec`. Two OS threads are scheduled; each is weakly fair. Neither
  blocks except on the channel, the acknowledgement and the join.
- `RunLoop!FairSpec`. One thread that never blocks: weak fairness of `Step`.
- `Settle!Spec`. `settle_cont_assigns` is one call that neither blocks nor returns early: weak
  fairness of its own steps, none of writes or of time.

## 4. Proofs

TLAPS 1.4.5 with Z3, Zenon and LS4. The theorems hold for every value of the constants that
satisfies the module's own assumption (`ForkJoinAssumption`, `VcdThreadAssumption`,
`RunLoopAssumption`, `SettleAssumption`, `DumpControlAssumption`, `WorkLibAssumption`, `WordBitsAssumption`): any number of processes,
arms, slots, chunks, nets, assigns, delays, drivers and bits, any circuit, any limits.
The bounds of the runs (`MaxGen`, `MaxTime`, ...) are constants too, so a theorem holds for
each of their values. Values have four more assumptions: `BoundsAssumption` (the caps are numbers),
`EvaluateAssumption` (what is supplied has two planes of its width; parts and integers have bits),
`WideCapAssumption` (the cap on wide arithmetic, 2^20 bits, is not below the native lanes, two words)
and `WidthAssumption`: a width fits one word and counts within a positive integer, and an index within a
value is no larger than `MaxIndex`. In the code widths are 32 bits and end at 2^24 (`WIDTH_MAX`,
`sim-ir/src/selfwidth.rs:72`), integers have 32, words 64 and `MaxIndex` is 2^63 - 1; a shift by a
count past the largest word is one past every width only because of it, and `$countones` fits its
32 bits. Each module has one lemma per action for its inductive invariant.

`ForkJoinProofs`:

- `InductiveInvariant`: `Spec => []IInv`;
- `TypeCorrect`: `Spec => []TypeOK`;
- `CountdownExact`: `Spec => []BarrierCount`;
- `FreeListsSound`: `Spec => []RecycledIsGone`.

`TypeOK` is not inductive: `outstanding - 1` and `wait_fork` stay naturals only because the
countdown is exact. `BarrierCount` is not inductive: the count of a barrier is
disturbed if a listed slot is re-issued while an arm still names it, or if an arm that
completes had been counted twice. `RecycledIsGone` is not inductive: a slot is
free of queue entries only because an arm is one thread. So

    IInv == TypeOK /\ SlotKinds /\ Unallocated /\ BarrierParents /\ ListsAllocated
              /\ OneThread /\ RunningIsAlive /\ RecycledIsGone /\ BarrierCount

where `SlotKinds` tells top-level slots from arms, `Unallocated` keeps what is above
`acts` and `bars` empty, `BarrierParents` says who may own a barrier (the tie cap keeps an
arm from forking, so a parent's slot is never recycled under its barrier),
`ListsAllocated` bounds the free lists, `OneThread` bounds an arm's entries, and
`RunningIsAlive` excludes a running arm that is dead or has reported. The proof
has one lemma per action of `Next`, and under it one step per conjunct the
action can disturb; the counting is by `FS_AddElement`/`FS_RemoveElement` on
`Unreported(b)`.

Its second part shows that a process is one thread. `OneContinuation` counts what may
resume a process, and no step keeps that count on its own: a return is harmless only if the
body is parked nowhere, a report resumes the parent only if the parent is parked on what
fires. `WInv == IInv /\ Threads /\ WaitForkCount`, where `Threads` adds that a body that is
not busy waits for nothing and that one that has reported or stopped has no continuation. What
holds a parent is then exactly one of: an unfired barrier with an arm still to report, or a
`wait fork` with a live child; an arm is never a parent because of the tie cap, so what `disable fork`
kills is the live children. Results: `OneThreadEach`, `WaitForkExact`, and the
refinement `ArenaKeepsPromise` (`Spec => KeepsPromise`): a fork is `Spawn`, a completion
`ArmDone`, `wait fork` and `disable fork` are `Wait` and `Disable`, and all else stutters.

The last section strengthens `IInv` by `ReportsAreOld` (a filed report is of an
allocated slot and of its current or an earlier generation) and proves
`ReportsInvariant`, and from it the action properties `FreshKeys`
(`Spec => FreshReportKey`) and `ReportsKept` (`Spec => ReportLostOnlyByOwner`).

*Kept entries.* Run queues (push_sorted) and manifests (add_cu) are built by taking entries out of
a sequence, so what is proved of both rests on what `Kept` returns.
That is an induction over the places of a sequence. The library's rules take the predicate as an
operator; here it is a set of naturals, `SetInduction`, from the least element of a set (`LeastNat`),
itself from `WFMin` and `NatLessThanWellFounded`. From it: the equations of the recursive
function hold, `Kept` keeps exactly the places asked for, once each and in order (`KeptKeeps`),
and nothing else does (`KeepsOnly`). `RunLoopProofs` and `WorkLibProofs` each begin with what they need
of these lemmas.

`RunLoopProofs`. The wakes of a pass are spliced in between what is older and what is newer.
Three invariants:

- `TInv == TypeOK /\ Limited /\ OneBatch /\ QueueSorted /\ Sorted(inactive)`. A queue stays sorted only
  if nothing of the "new" age precedes a wake when one is inserted and `#0` resumes are promoted
  only into an empty region; `Limited` keeps a running loop within its delta limit, `OneBatch` that a
  batch belongs to its phase and that nothing is made active during it. Results: `TypesHold`, `QueueInOrder`, `NothingLeftBehind`.
- `ChangesPending`: a wait that has been hit leaves its net dirty, and no region runs before a settle of
  what has changed. It carries `StepsComplete` (`Spec => StepComplete`) from the last write to the end of the step.
- `PInv == Singles /\ Apart /\ Occupied /\ Nowhere`: no process twice in one queue, none in two, a
  queued process is in its body or has been started in this event cluster, and a stopped one is
  nowhere. It is the
  strengthening of `OneEntry` and `StopsForGood` together: either alone is lost when an edge
  wakes a process whose body is suspended. Results: `RunsInOnePlace`, `FinishedForGood`.

`VcdThreadProofs`. `GapOnlyAfterDroppedError` and `LossIsReported` say what is in the file at a
moment; whether the next chunk may be written depends on what is still in the channel and on
who is waiting. `VInv` adds to the types: `Protocol` (a flush is the last message and its
client waits; an answer, a dead thread and a closing client mean an empty channel),
`Ordered` (chunks in the file come before those in the channel, both increase), `Prefix` (no
gap unless an error was dropped), `Intact` (nothing lost while nobody was told) and
`Complete` (an answered flush left everything written). Results: `ChannelIsBounded`, `GapsAreDropped`,
`NoSilentLoss`, and the refinement `ThreadImplementsStream` (`Spec => KeepsStream`).

`SettleProofs`. `SettledComplete` is about the moment a settle ends; what carries it there is
`SInv == TypeOK /\ Worklist /\ Quiet /\ Driven /\ Landings`: a certified assign is marked, still to be
visited or current (so a net that moves must mark every reader, and a sole driver's own
write must leave other assigns' nets alone); a pass that has moved nothing has marked nobody and
its resolved nets are resolved; a delayed net shows what was driven or x. Results:
`SettleTypes`, `SettleIsComplete`.

Its second part goes on from `SInv`: `GInv` adds `WheelTimes` and `WheelLive` (one live entry
per assign, of the newest generation, not overdue), `Agrees` (the value last decided is that of the live
entry, or was driven), `Decided` (decisions of a settle are the right-hand sides' values when
it ends) and the order of start-up. Results: `OneLiveWrite`, `WritesFollowRhs`, `InitializersFirst`, and the
refinement `AssignsAreInertial` (`Spec => KeepsInertial`), in which a decision is `Takes` or `AtOnce`,
and an advance or a same-time landing is `Tick`.

`DumpControlProofs`. `ViewFaithful` speaks of slots that have ended; `DInv` says that the current one
is right *so far* (`HistoryCurrent`, `Faithful`), that the writer's clock is at its last stamp
until the limit stops it (`Clocked`), and that the two gates agree. Each writer operation is
shown once to keep earlier times (`Keeps`) and to show its values from now on (`ShownFrom`);
the tasks are compositions. Results: `TypesHold`, `WaveformIsFaithful`, `StampsAreOrdered`,
`GatesAgree`, `LimitHolds`, `OffLeavesNoTrace`.

`WorkLibProofs`. What a `vcmp` writes it computed some steps earlier, from a manifest that
another one may have replaced since, so no property of the library is inductive:

    LInv == LibTypes /\ ManifestConsistent /\ Jobs /\ Steady /\ BlobsPresent

`Jobs` says that the manifest each process is about to write is consistent and of its own request:
this is what keeps manifests consistent under any race. `Steady` says that a process nobody
overlapped is alone in its directory and that what it holds is still true: its new manifest is
the update of the one on disk, its blob is there once written, its victims are what the manifest does
not name. It rests on `overlapped` being set by whoever enters second, and carries
`BlobsPresentHolds`, `ReplacedInPlaceHolds` and `GarbageCollectedHolds`. The manifest itself is `Recorded`: the
retained entries with the new unit put in at the first superseded place (`RecordedEntries`). From it, units that
were apart stay apart (`RecordedApart`), a unit that is recorded already changes
nothing (`RecordedSame`), and without the new unit and what it supersedes the manifest is what it was
(`RecordedReplaces`).

For velab, `Closure` says that loaded and queued units together are those the names met so far
lead to; `WalkStep` keeps it whatever the libraries hold meanwhile, because velab looks names up in the
manifests it has loaded. Result: `ClosureHolds`. For the gate, `Stamped`: a stamp's time is not later than
the file's, and if it is the file's, the file still has the recorded content. That is
where `AcceptedHolds` needs its hypothesis `SizesTell`, that an edit changes a file's size; without it
the run `worklib_stamp` shows the gap.

`WideArithProofs` goes from one word to values of any width and to the kernels of `mw.rs`;
`EvaluateProofs` from there to whole expressions.

- *Words.* Every word-parallel operator does to each bit what its table does (`WordIsTable`,
  `ResolutionIsTable`), and wire, wand and wor resolution commute and associate
  (`ResolutionAnyOrder`).
- *Values.* The hazard is the word boundary: the code works on words, masks the last one and
  shifts across two, and the bits it means are those of one long value. `Has(plane, i)` is bit
  `i` of a plane wherever it falls, `Values` are the canonical values of every width
  (`CanonicalIsValue`: they are those `is_canonical` accepts), and each operator is shown to
  answer a canonical value with the bits meant, for every word size, width, amount and
  alignment: `ResizeExtends`, `ContextExtends`, `BitwiseIsTable`, `NotAndMergeAreTables`,
  `ShiftRightMoves`, `ShiftLeftMoves`, `CopyMoves`, `ReplaceMoves`, `ConcatMoves`,
  `SelectReads`, `EqualityTruth`, `CaseEqualityTruth`, `CaseMatchTruth`, `AndReduction`. They
  rest on four lemmas on planes: what masking keeps (`MaskedBits`), what filling changes
  (`FillBits`), what a word of a shifted plane holds (`ShrWordBits`) and what a word takes of
  a pasted window (`PastedWord`).
- *Loops.* Replication, the count of ones and the fold of a net are recursions over data. Each is
  proved by an induction over a set of naturals or over the cardinality of a set
  (`SetInduction`, `PickInduction`, `SummingSolves`): `ReplicateMoves` for any count,
  `CountsOnes` whatever words the ones fall in, `NetTakes` for any number of drivers: what 6.6
  says of the set of their bits, in whatever order they are folded.
- *Numbers.* A sum of powers of two is the number of its set of bits, so comparing words from the
  top is comparing numbers (`WordsCompare`), extending by the sign keeps the integer
  (`IntKept`), and `<` and its kin compare what the operands stand for (`RelationalTruth`).
- *Kernels.* The kernels are recursive functions over the words of a number. Each is first shown
  to have the equations of its recursion (the domain of the recursion and the set it stays in are what
  the prover needs), then the equation between numbers that one step keeps is carried to the end.
  A chain of carries splits every sum into a word and a carry (`CarryChain`), which gives
  `AddsWords`, `NegatesWords` and, row by row, `MulWords`. A quotient word is right because the rest
  before it is below the divisor (`ShortDivides`), a quotient bit because twice the rest, plus a bit,
  still fits one word more than the divisor has (`LongDivides`); together `DivModDivides`. All of this is
  about what words hold: `Alike(x, y, w)` says that two numbers agree modulo 2^w, and the mask
  of a value at any width keeps what agrees (`AlikeBelow`).
- *Arithmetic.* `Holds(v, w, s, n)` says that a value of width w is n modulo 2^w. The native lanes,
  which wrap at two words, and the kernels hold the same numbers (`ArithHolds`), signed
  division included, whose magnitudes are negated modulo the width and whose signs are put back
  (`MagnitudeIs`). Squaring over the bits of the exponent raises to the power in both lanes
  (`SquaresPower`, `PowWords`), negative exponents follow their table (`NegativeTable`), and the
  loop of `$clog2` stops at the least power (`LeastPower`).
- *Expressions.* `NodeAnswers` is the contract of `eval_ctx`: a node answers in every
  context with a canonical value of the width and the sign of its region, when its operands do.
  `EveryNodeAnswers` is the induction over an arena of any size; it speaks of all contexts at
  once, because the context a node lends an operand is not the one it has.
- *The properties of the run.* `CanonicalHolds`, `BitwiseExactHolds`, `PlacementExactHolds`,
  `TruthExactHolds` and `ArithmeticExactHolds` state them for any operands, contexts, widths and
  word size. None is inductive, because it relates the last answer to the operands through the
  evaluator. `CanonicalInv` keeps the operands canonical; `BitsInv`, `PlaceInv`, `TruthInv` and
  `SumsInv` add what the last step answered, operator by operator, in terms of the bits of its
  operands and of the integers they stand for.

Only model-checked:

- all liveness (`HeldIsReleased`, `Terminates`, `RunEnds`, `SettleEnds`), which is beyond the prover;
- `FoldAgrees`: `ConstFold` is a second evaluator. Its arithmetic would rest on the same kernels, but
  its walk over an expression, its declines and its own rules for amounts and sizes need a proof
  of their own, as long as that of `NodeAnswers`.

## 5. What is not modelled

- The passes only time 0 has (`t0_hold`, implicit `always_comb` passes, parked
  batches); the tier-3 loop, a twin of the one modelled.
- In `RunLoop`: forks (they are `ForkJoin`'s business), expression and dynamic waiters,
  wait gating, force/release, the order of updates inside one NBA region (one
  net has no use for it), and a landing that happens to write the old value.
- In `ForkJoin`: frame windows an arm shares with its parent, and `wait fork` in a
  task frame (it ends the run as fatal). The generation is a wrapping `u32` in the code; the
  model stops at `MaxGen`, and the theorems speak of a generation that does not wrap. The
  reports are keyed without the assertion's marker, which only separates assertions. The order
  of the bodies of one batch, and so the tie keys, are left open.
- In `Settle`: real-valued destinations, per-bit delays and partial or dynamic left-hand sides, the
  order of multi-driven groups, the time-0 hold, and delayed drivers that share a net through a
  dynamic index (elaboration does not see that overlap).
- In `DumpControl`: declarations, scopes, id codes, value formatting, FST. The sink never fails
  there (`VcdThread` has the sink).
- In `FourState` and `Evaluate`: reals, strings, function calls, `inside`, and the tier-3
  fast paths for values of one word.
- In `ConstFold`: unsized fills (`'1`), size casts, `[m:l]` selects and `$bits`; how a name is
  resolved to a folded value, the 64-bit integer walk that is asked first for small
  parameters (`const_eval.rs`), and constant functions.
- In `WorkLib`: the schema and version headers (compared field by field), the commands on explicit
  paths, options that change what is compiled, digest collisions, and time stamps coarser
  than a write.
- Parsing and the rest of elaboration: a sequential translation of about 140,000 lines with no order of
  events in it; the crates listed `not_modelled` in `PROJECT.json`, each with its reason.

Noticed while reading or modelling, and not the subject of a run:

- `flush_postponed` documents "all strobes first ... then the single monitor line"
  (`run_loop.rs:859-862`) and prints the monitors first (`895-918`); the loop's comment on a
  `<= #0` delivered on the advance path (`529-534`) describes an update that is no
  longer scheduled there; `sched/mod.rs:457` and `kernel.rs:384` call the arena append-only
  although completed arms' slots are re-issued; the slots of killed arms and the barrier
  of a fork without arms are never recycled (a leak bounded by the number of forks).
- A barrier's parent may be an arm for a moment: a fork inside an arm registers its barrier before
  the tie cap ends the run (`propagate.rs:873-905`, comment at `wait_fork.rs:198-199`). Tie keys
  alias beyond 65534 top-level processes, the cap being tested only for the process that
  forks (`wait_fork.rs:202-204`). An older `#0` resume is promoted ahead of a landing's
  wakes (`run_loop.rs:383-386` says the wakes come first).
- `?:` on an unknown condition keeps a z both branches agree on (`merge_x_word`), where
  `value.rs:8` and IEEE 1800-2017 Table 11-20 have x; `MergeBit` states what the code does.
- `$dumpall` while dumping is off still writes a checkpoint of the running values; `$dumpvars` after time 0
  writes its block before any stamp, so a viewer shows it from the start; `$dumplimit`
  before `$dumpvars` is lost; the initial block is not checked against the limit; a second
  `$dumpvars` only warns.
- A literal negated as a shift amount is read in 32 bits by the fold and in its own width by
  the run: `128'hFF00 >> -4'd15` folds to 0, where the run shifts by 1 (`const_fn.rs:219`,
  asked first by `fold_shift_count`; the comment at `const_wide.rs:308-317` says the amount is
  self-determined). `FoldAgrees` excepts exactly this (`NegatedAmount`); without the exception
  TLC finds it.
- `$clog2` of an unknown value is x in its 32 bits and 0 above them in a wider context
  (`sysfunc.rs:412`, an unsigned x where `selfwidth.rs` has a signed integer);
  `ArithmeticExact` states what the code does. `eval_core.rs:1058-1068` says that
  `const_wide.rs` still fills `>>>` by the sign of its operand; it fills by the region's.
- Two `vcmp --work` on one directory take no lock. Overlapping, one can lose the other's
  unit or collect its blob, so that `BlobsPresent`, `GarbageCollected` and `ReplacedInPlace` hold only
  without overlap; `ManifestConsistent` holds always, and `velab` refuses a missing blob.
- `velab -L` follows instantiations, not package imports or class uses. `worklib.rs:5,25` give blobs 16
  hexadecimal digits; the code uses 32.

## 6. Where the code and its comments disagree

Three runs check what a comment says and find it violated; `PROJECT.json` quotes
each.

- `vcd_dumpflush`: with `--threads 2` a write error before a `$dumpflush` is not
  surfaced at finalize; the dump has a hole and no warning is given.
- `run_verdict`: a matured `$fatal` loses other verdicts of its step.
- `worklib_stamp`: a source rewritten with the same length between the hash and the stat of
  `stamp_verified` leaves the new file's time beside the old digest, and `vrun` then trusts it.

## 7. Plan

Done: `ForkJoin` and its abstract specification, `RunLoop`, `Settle` over `InertialAssign`,
`VcdThread` over `DumpStream`, `DumpControl`, the four-state operators and `ConstFold`, `WorkLib`, and the
proofs of section 4. Left, what carries the most behaviour first:

1. `TimeZero`: the hold of time-0 wakes, the implicit passes and the parked batches.
2. `EventQueue`, the stratified event queue of IEEE 1800 clause 4 as an abstract
   specification, refined by `RunLoop`; an order of forks inside the batch (the `spawned`
   splice), composing `RunLoop` and `ForkJoin`; `Settle` in the place of `RunLoop`'s two assigns.
3. `Wake`: edge, level and expression waiters with arm sequence numbers and the
   per-step edge accumulator, against "a waiter is resumed by the first qualifying change
   after its arm".
4. `Windows`: the frame windows fork arms share; `RunBounded`: the corpus runner's timeout; the
   tier-3 loop against `RunLoop`.
