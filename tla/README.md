# TaskerRT in TLA+

TaskerRT is a batch scheduler: clients submit jobs with dependencies, a daemon
(`taskerd`) places them on attached workers, and a write-ahead log carries its
state over crashes. This directory models the parts of it where orderings,
crashes and stale messages decide whether it is right, checks them with TLC on
small instances, and proves the scheduling core for all sizes with TLAPS.

Every definition that stands for code is listed with its file and lines under
"map" in `PROJECT.json`; comments in the modules name the functions.

## The system

| part | state | operations that change it | modelled in |
|---|---|---|---|
| job arena (`domain/arena.rs`) | slots with generations, free list | insert, remove | `Lifecycle` |
| job states (`domain/job.rs`) | state, eviction count | `try_transition` | `Lifecycle` |
| dependency tracker (`policy/eligibility.rs`) | owner, count, reverse edges per index | register, on_completed, on_terminated | `Lifecycle` |
| scheduler calls (`engine/cycle.rs`) | ready set, ledgers, the above | submit, dispatch, on_completed, on_failed, cancel, preempt, on_preempted, requeue | `Lifecycle` |
| cycle (`engine/cycle.rs`, `policy/pack.rs`, `backfill.rs`, `preempt.rs`) | inventory, bindings | run_cycle, plan_preemption | `Engine` |
| slot inventory (`cluster/slot.rs`) | capacity and allocation per slot | try_allocate, release, set_capacity, clear_allocation, push_slot | `Engine` |
| engine thread (`taskerd/src/engine.rs`) | running set, reconcile list, retention queue | one per command, the stages of a tick, recover | `Engine` |
| journal and writer (`taskerd/src/journal.rs`) | pending batch, channel, the batch in hand | record, attach_snapshot, commit, flush, run_writer | `Journal` |
| store (`tasker-wal`: `store.rs`, `log.rs`) | snapshot and log files, generation | append, sync, rotate, recover, resume | `Journal` |
| dispatcher, outbox (`dispatcher.rs`, `outbox.rs`) | ring of orders, overflow of the engine | push, flush of the overflow, pop, stop | `Journal` (without the streams) |
| registry, worker API, inbox (`registry.rs`, `worker_api.rs`, `inbox.rs`) | senders per slot, bounded command ring | attach, detach, push with retry | planned |
| worker (`tasker-worker`) | task set, session, unsent reports | assign, kill, preempt, reconnect | planned |
| ready set heap, fair share, priority (`policy/`) | indexed heaps, decayed ledgers | push, pop, update; accrue, decay | planned |
| control API, autoscaler, metrics, CLI, simulator, protocol, benchmarks | none that others depend on | | not modelled |

Interactions: API tasks push commands into the inbox; the engine thread drains
it and runs a tick; records, replies, Assigns and Preempts go to the journal;
the writer thread makes them durable and then sends the replies and pushes the
orders into the outbox; Kills go into the outbox at once; the dispatcher task puts
orders on worker streams; workers report back through the inbox.

What makes it hard: handles outlive the slots they name; dependency lists may
repeat a job or name one that is gone; a failure cascades over a graph; a job
leaves its worker by seven different paths; reports are late, repeated or stale;
workers drain, vanish, come back under a new slot and claim their jobs; the
daemon may stop between any two steps; one batch may lie on both sides of a log
rotation; queues are bounded. `PROJECT.json` lists these as hazards, each at its
line with the properties that would catch it.

## Modules

**`Lifecycle.tla`** is the scheduling core: the variables of the arena, the
tracker, the ready set and the charges, and one action per call of `Scheduler`.
A call that returns an error changes nothing, so its conditions are the guard.
The arena is modelled down to its free list, since reuse of slots is where stale
handles bite. `dependents[i]` holds `<<job, position>>` pairs, so that a
dependency listed twice is two edges, as in the code's vector. `on_terminated`'s
walk over the work stack is the least set closed under reverse edges. The ledger
keeps only how often a job is charged, and may go negative where the code would
saturate and hide the mistake. Each `Any...` action is a call on some job;
`CoreSpec` is the core under any caller that requeues only jobs that hold a slot
(`requeue` would take a Blocked job too; no caller in the engine does that).
`Replay` is the effect of `Engine::recover` on the whole, not record by record.

**`Scheduler.tla`** adds two history variables (which handles ever completed,
which were ever failed or cancelled) and states what the core promises.

**`Engine.tla`** is the scheduler thread: `OnSubmit`, `OnCancel`, the three
reports, `WorkerJoined` with its loop over claimed jobs, `WorkerLeft`,
`WorkerDraining`, then the stages of a tick from the cycle on in the code's order
(cycle, evictions, retention, reconciliation), and a restart, which leaves the
handles of forgotten jobs in the retention queue as `apply` does. The two ends of a
tick, the flush of the overflow and the commit, are in `Journal`. The inbox is
unconstrained:
any report about any job may arrive at any time, which covers late, repeated and
misdirected messages. `CycleResult` walks the candidates as `pack` and
`easy_backfill` do, with their budgets; inside a class the order is free, as is
whether backfill finds a fitting job harmless, because there is no clock. `sends`
and `logged` are what the last step handed to the outbox and the journal. One
resource dimension stands for three. `ImplementsCore` is the refinement:
`Engine`'s steps are steps of `CoreSpec` under the identity mapping.

**`Journal.tla`** is durability: the engine's pending batch, the channel of depth
one, the writer's way through `persist` (append, sync, rename, create log, write
magic, remove old pair, append, sync), the replies and held orders (Assigns and
Preempts) it then releases, the Kills that are not held and their overflow, the
files, a crash between any two steps, and the next start. `ticking` separates the
commands of a drain, which reply and kill, from the decisions of the tick, which
assign and preempt. The engine's state
is the sequence of records that led to it, so that "recovery loads a state that
was" is "a prefix". A crash keeps any part of an unsynced tail, followed or not
by a torn frame. I/O errors are a separate action with its own bound; one may
leave a log's magic missing, cut short or unsynced, and opening a log whose magic
was cut short fails again.

`MCScheduler`, `MCEngine`, `MCJournal` give the constants their values.
`SchedulerInvariant`, `SchedulerCascade`, `SchedulerSubmit` and
`SchedulerTheorems` hold the proofs.

## Runs

| run | configuration | shows |
|---|---|---|
| `scheduler` | `MCScheduler.cfg` | the nine properties of the core; 370,515 states |
| `scheduler_live` | `MCSchedulerLive.cfg` | `EveryJobEnds` |
| `engine` | `MCEngine.cfg` | allocation and bindings agree over claims, lost workers and a restart; no job is set adrift (`RunnersAreOwned`); `ImplementsCore`; 106,337 states |
| `engine_reuse` | `MCEngineReuse.cfg` | bindings, the retention queue and `ImplementsCore` where jobs are forgotten, arena slots reused and the daemon restarted; 476,039 states |
| `engine_evict` | `MCEngineEvict.cfg` | evictions, and that the `expect`s of `pack`, `easy_backfill` and `run_cycle` do not fail; 504,413 states |
| `engine_zero_request` | `MCEngineZero.cfg` | violation: `NeverPanics` |
| `journal` | `MCJournal.cfg` | no reply, Assign or Preempt leaves before its record is on disk; without I/O errors none is lost and restarts are prefixes; 2,612,966 states |
| `journal_live` | `MCJournalLive.cfg` | `RepliesAreSent`; 574,938 states |
| `journal_rotation_crash` | `MCJournalLoad.cfg` | violation: `RotationLeavesLoadable` |
| `journal_io_error` | `MCJournalError.cfg` | violation: `NothingToldIsLost` |
| `journal_stop` | `MCJournalStop.cfg` | violation: `StopEnds` |
| `journal_kill` | `MCJournalKill.cfg` | violation: `NoStartAfterKill` |

Run one with `tlc -config MCScheduler.cfg MCScheduler`.

Bounds and why they are enough to meet the interesting cases:

- `scheduler`: three slots, two generations, two forgotten jobs, lists of up to
  two dependencies. Three jobs give a chain and a diamond's half (two jobs on
  one, one on two), a list that repeats a job, a cascade of two levels, and a slot
  reused while its old handle is still in a dependency list.
- `engine`: two jobs (a small low-class one, a large urgent one), two slots of
  capacity two, up to two claims per joining worker, one restart. Two workers can
  claim the same job, a claim can find its new slot full, and a slot can change
  hands under a binding.
- `engine_reuse`: the same with one slot and arena reuse, so that a restart can
  find a forgotten handle whose slot is in use again. `engine_evict`: three
  jobs on two slots, so that two victims share a slot and a second plan is
  possible, with candidate, decision and scan budgets of two, below the number of
  jobs.
- `journal`: three records, rotation every two, two starts, one I/O error, one
  Kill, a channel and a ring of one. A batch can be split around its snapshot, wait
  for a busy writer, be cut by a crash at every step of a rotation, and find the
  ring taken by a Kill. `journal_live` is the same without the I/O error, after
  which `RepliesAreSent` asks for nothing.
- Deadlock is not checked: every model stops where its bounds are used up.

Each property of a passing run has a mutant of the model (listed in
`PROJECT.json`, defined next to what it replaces under a comment "Wrong:") that
makes it fail.

Fairness. `FairSpec` of `Scheduler.tla` assumes that a job that is ready again
and again is dispatched in the end, that a job that is run again and again
reports a result in the end, and that a worker confirms an eviction. The cycle
runs every tick whether or not there is news (`Engine::run`), and a worker ends
every task at its walltime and confirms at the end of the grace. The strong forms
are needed because evictions and lost workers may interrupt. Capacity that
suffices and workers that exist are part of the assumption. `Spec` of
`Journal.tla` assumes that the tick, the flush, the writer and the dispatcher go
on while they can: each is a loop in a thread of its own, and the overflow is
flushed at the start of every tick. The dispatcher awaits room in a worker's
bounded channel (`dispatcher.rs:76-79`); that a stream takes what it is sent, or
fails, is part of the assumption.

## What the violations show

1. `engine_zero_request`. A worker that drains keeps its allocation and gets
   capacity zero. `first_fit` subtracts saturating and finds zero room, enough for
   a job that asks for nothing; `try_allocate` compares the sum with the capacity
   and refuses; the `expect` in `pack.rs` ends the scheduler thread.
2. `journal_rotation_crash`. `Store::rotate` gives the snapshot its name, then
   creates the next log, then writes the log's magic. A crash between the last two
   leaves a log without magic in the highest generation, and the next start is
   refused. The same window exists at the very first start.
3. `journal_io_error`. `run_writer` goes on after an error. If a rotation failed
   after its rename, later batches are acknowledged from a log recovery does not
   read; if an append stopped half way, they are behind a torn frame.
4. `journal_stop`. The dispatcher is stopped before the engine and the writer. A
   writer with more orders in hand than the ring has room for then waits for ever.
5. `journal_kill`. A cancel puts its Kill into the ring at once, while the Assign
   of the same job may still wait for its batch to be synced. The Kill arrives
   first, the worker ignores a Kill of a job it does not have, and then starts the
   cancelled job.

## Proofs

`SchedulerTheorems.tla` proves `Spec => []IInv` and `Spec => []TypeOK` for every
number of slots and generations, every bound on evictions, every set of accounts,
job specifications and dependency lists, and derives the eight safety properties
of `Scheduler.tla` that the run `scheduler` checks. `SchedulerInvariant.tla`
defines `IInv` and proves it for the initial state and the steps that touch one
job, `SchedulerCascade.tla` for the end of a job, `SchedulerSubmit.tla` for
`submit`. The
assumptions are those of the constants (`BoundsAssumption`, `JobSpecAssumption`,
`DepListsAssumption`); TLC evaluates them in the runs.

None of the properties is inductive by itself. That a Blocked job will be woken
needs to know which edges are in the tables, which needs that an edge to a slot
that was reused is recognised as stale, which needs that a handle is never issued
twice, which needs the free list to be sound. `IInv` says all of it:

- `FreeListOK`: the free list runs through distinct vacant slots;
- `TrackedExact`, `EdgesSound`, `EdgesComplete`, `CountExact`: exactly the jobs
  that are not over are tracked, an edge whose target is still tracked points to a
  Blocked job that lists its keeper, every pending dependency keeps its edge, and
  the counter is the number of pending dependencies;
- `DepsIssued`, `DepsDone`, `HistoryExact`: dependencies were issued earlier, are
  completed or pending as the job's state demands, and the histories agree;
- `ReadyByIndex`, `ChargeByIndex`.

There is one lemma per kind of step (`SubmitInv`, `DispatchInv`, `CompletedInv`,
`CascadeInv`, `PreemptInv`, `BackToReadyInv`, `ForgetInv`), each from lemmas that
say what the step does to one index (`RegisterByIndex`, `CompletedByIndex`,
`CascadeByIndex`). `ReachedFacts` gives the two facts about the cascade's least
closed set that are needed: it holds the start and is closed. `CascadeSound` also
uses that it is least.

Only model-checked: liveness (`EveryJobEnds`, `RepliesAreSent`, `StopEnds`), which
the prover does not reach, and for now everything about `Engine` and `Journal`.

## Plan

In this order; each step adds its runs, mutants and map entries.

1. `Recovery`: `encode_snapshot`, `restore_snapshot`, `Arena::from_parts` and
   `apply`, against `Lifecycle`: a restart from a snapshot and a log equals the
   state before. Questions it must settle: jobs registered in slot order, a
   completed dependency that was forgotten, a job that was being evicted.
2. `Cluster`: `Engine` with inbox, outbox and overflow, registry, streams and
   workers (task set, reports, reconnect and claims, grace). Properties: every
   Running job is bound or held or on its way; a cancelled job is stopped on its
   worker; a report ends the run it is about; orders of one job keep their order;
   a dropped command does not strand a slot.
3. `Policy`: the cycle with time, `reservation_time` and `easy_backfill` against a
   reference (a backfilled job does not delay the head), `plan_preemption` with
   ages.
4. `ReadySet` (the indexed heap refines a priority queue) and `FairShare` (decay
   and factor arithmetic with its widths).
5. Proofs: `AllocationExact` and `BindingsAreReal` of `Engine` and its refinement
   of `CoreSpec`; `NothingToldIsLost` and `RestartIsAPrefix` of `Journal`.

## Not modelled

The control API, the autoscaler endpoint, metrics, configuration, the CLI, the
load generator and the simulator hold no state the others depend on. Byte layouts
of records, snapshots and protocol messages are opaque. The 2^32 generations of
an arena slot are a bound here and do not wrap. The engine without a data
directory sends orders directly; it is `Engine` without `Journal`. A restart in
`Lifecycle` has the effect of a whole log replayed from an empty start (`Replay`);
the single records with their error exits, and a restart from a snapshot, are step
1 of the plan. Without a data directory the order of the overflow would matter for
Assigns too; that is not modelled. The journal's files follow the usual file system:
a new file is found after its own sync, and a failed sync leaves the data
unsynced.
