----------------------------- MODULE Lifecycle -----------------------------
(***************************************************************************)
(* The scheduling core of TaskerRT (crate tasker-core): the generational   *)
(* job arena (domain/arena.rs), the job state machine (domain/job.rs), the *)
(* dependency tracker (policy/eligibility.rs) and the lifecycle calls of   *)
(* Scheduler (engine/cycle.rs) that tie them to the ready set and to the   *)
(* fair-share charge.                                                      *)
(*                                                                         *)
(* This module holds the state and one action per call.  Scheduler.tla     *)
(* closes it with a caller, Engine.tla with the daemon.                    *)
(*                                                                         *)
(* Abstractions.  The ready set (policy/ready_set.rs) is the set of its    *)
(* members: its order only matters to the cycle, which rescores and sorts. *)
(* The ledgers keep what they are charged with and not their decayed       *)
(* usage: charge[id] counts how often job id's cpu is in its account's     *)
(* running_cpu, and would be negative where the code's saturates.          *)
(* dependents[i] keeps a Vec<JobId> with duplicates as a set of pairs      *)
(* <<job, position of the dependency in that job's list>>.                 *)
(***************************************************************************)
EXTENDS Integers, Sequences, FiniteSets

CONSTANTS
  MaxSlots,   \* bound: arena slots ever allocated
  MaxGen,     \* bound: generations a slot goes through (the code has 2^32)
  MaxEvict,   \* bound: where the eviction counter saturates (the code's u8)
  Account,    \* fair-share accounts
  JobSpec,    \* what a client submits besides dependencies
  DepLists    \* the dependency lists clients submit

ASSUME BoundsAssumption ==
  MaxSlots \in Nat \ {0} /\ MaxGen \in Nat /\ MaxEvict \in Nat

\* class: PriorityClass, 0 (Low) .. 3 (Urgent); cpu: the request; wall: the
\* walltime; the other resource dimensions behave as cpu does.
ASSUME JobSpecAssumption ==
  /\ JobSpec # {}
  /\ JobSpec \subseteq [account: Account, class: 0..3, cpu: Nat, wall: Nat]

Index == 0..(MaxSlots - 1)
Gen   == 0..MaxGen
JobId == Index \X Gen

ASSUME DepListsAssumption == DepLists \subseteq Seq(JobId)

\* Option<u32>::None of a free-list link, and the NO_OWNER sentinel.
Nil     == -1
NoOwner == <<-1, -1>>

JobState == {"Submitted", "Blocked", "Ready", "Running", "Preempted",
             "Completed", "Failed", "Cancelled"}
Terminal == {"Completed", "Failed", "Cancelled"}

\* States in which a job holds the cpu its account is charged for.
Holding == {"Running", "Preempted"}

\* JobState::can_transition_to
CanTransitionTo(from, to) ==
  \/ from = "Submitted" /\ to \in {"Blocked", "Ready", "Cancelled"}
  \/ from = "Blocked"   /\ to \in {"Ready", "Cancelled"}
  \/ from = "Ready"     /\ to \in {"Running", "Cancelled"}
  \/ from = "Running"   /\ to \in Terminal \cup {"Preempted"}
  \/ from = "Preempted" /\ to \in Terminal \cup {"Ready"}

VARIABLES
  slots,        \* arena: number of slots allocated
  state,        \* arena: job state per slot, "Vacant" when on the free list
  gen,          \* arena: generation per slot
  nextFree,     \* arena: free-list link of a vacant slot
  freeHead,     \* arena: head of the free list
  job,          \* arena: the value's deps, JobSpec and eviction count, per slot
  owner,        \* tracker: the job tracked at an index
  unsatisfied,  \* tracker: dependencies still pending
  dependents,   \* tracker: reverse edges
  ready,        \* ready set
  charge        \* fair share: times each job's cpu is in its account's ledger

arenaVars   == <<slots, state, gen, nextFree, freeHead, job>>
trackerVars == <<owner, unsatisfied, dependents>>
coreVars    == <<arenaVars, trackerVars, ready, charge>>

-----------------------------------------------------------------------------
(* The arena.                                                              *)

Job == [deps: Seq(JobId), spec: JobSpec, preemptions: 0..MaxEvict]

\* Fills the table where a slot is vacant.
NoJob == [deps |-> <<>>, spec |-> CHOOSE s \in JobSpec : TRUE, preemptions |-> 0]

\* Arena::get(id).is_some()
Live(id) == /\ id[1] < slots
            /\ state[id[1]] # "Vacant"
            /\ gen[id[1]] = id[2]

StateOf(id) == state[id[1]]
SpecOf(id)  == job[id[1]].spec
DepsOf(id)  == job[id[1]].deps

LiveJobs   == {id \in JobId : Live(id)}
JobsIn(S)  == {id \in LiveJobs : StateOf(id) \in S}

\* Job::try_transition succeeds
Allowed(id, to) == Live(id) /\ CanTransitionTo(StateOf(id), to)

NextId == IF freeHead # Nil THEN <<freeHead, gen[freeHead]>> ELSE <<slots, 0>>

\* Arena::insert: the free list first, a new slot otherwise.
ArenaInsert(value) ==
  /\ job' = [job EXCEPT ![NextId[1]] = value]
  /\ IF freeHead # Nil
       THEN freeHead' = nextFree[freeHead] /\ UNCHANGED slots
       ELSE slots' = slots + 1 /\ UNCHANGED freeHead
  /\ UNCHANGED <<gen, nextFree>>

\* Wrong: a removed slot keeps its generation.
ArenaRemove_SameGen(id) ==
  /\ state'    = [state EXCEPT ![id[1]] = "Vacant"]
  /\ job'      = [job EXCEPT ![id[1]] = NoJob]
  /\ nextFree' = [nextFree EXCEPT ![id[1]] = freeHead]
  /\ freeHead' = id[1]
  /\ UNCHANGED <<slots, gen>>

\* Arena::remove of one job: the generation moves on and the slot heads the
\* free list.
ArenaRemove(id) ==
  /\ state'    = [state EXCEPT ![id[1]] = "Vacant"]
  /\ job'      = [job EXCEPT ![id[1]] = NoJob]
  /\ gen'      = [gen EXCEPT ![id[1]] = @ + 1]
  /\ nextFree' = [nextFree EXCEPT ![id[1]] = freeHead]
  /\ freeHead' = id[1]
  /\ UNCHANGED slots

\* The job states after every job of J moved to state "to".
Moved(J, to) == [i \in Index |-> IF <<i, gen[i]>> \in J THEN to ELSE state[i]]

-----------------------------------------------------------------------------
(* The dependency tracker.                                                 *)

IsTracked(id) == owner[id[1]] = id
Tracked == {id \in JobId : IsTracked(id)}

\* A dependency list's positions that name a job which is not terminal.
PendingIn(deps) ==
  {k \in DOMAIN deps : Live(deps[k]) /\ StateOf(deps[k]) \notin Terminal}

\* DependencyTracker::classify.  The list is read in order and the first
\* dependency that decides does: an unknown one (or the job itself) is an
\* error, a Failed or Cancelled one dooms the job.
Classify(id, deps) ==
  LET Unknown(k) == deps[k] = id \/ ~Live(deps[k])
      Doomed(k)  == StateOf(deps[k]) \in {"Failed", "Cancelled"}
      decisive   == {k \in DOMAIN deps : Unknown(k) \/ Doomed(k)}
      first      == CHOOSE k \in decisive : \A j \in decisive : k <= j
  IN  IF decisive # {}
        THEN IF Unknown(first) THEN "DependencyError" ELSE "Cancelled"
        ELSE IF PendingIn(deps) # {} THEN "Blocked" ELSE "Ready"

\* DependencyTracker::register past its early return for a doomed job: the
\* job's own index is cleared and taken over, then each pending dependency
\* gets a reverse edge, after being adopted if it was not tracked.
Register(id, deps) ==
  LET pending    == PendingIn(deps)
      EdgesAt(i) == {k \in pending : deps[k][1] = i}
      Adopted(i) == \E k \in EdgesAt(i) : owner[i] # deps[k]
  IN  /\ owner' = [i \in Index |->
            IF i = id[1] THEN id
            ELSE IF EdgesAt(i) # {} THEN <<i, gen[i]>> ELSE owner[i]]
      /\ unsatisfied' = [i \in Index |->
            IF i = id[1] THEN Cardinality(pending)
            ELSE IF Adopted(i) THEN 0 ELSE unsatisfied[i]]
      /\ dependents' = [i \in Index |->
            (IF i = id[1] \/ Adopted(i) THEN {} ELSE dependents[i])
              \cup {<<id, k>> : k \in EdgesAt(i)}]

\* clear_index for each index of a set; count is the unsatisfied table the
\* other indices end up with.
ClearIndexes(I, count) ==
  /\ owner'       = [i \in Index |-> IF i \in I THEN NoOwner ELSE owner[i]]
  /\ unsatisfied' = [i \in Index |-> IF i \in I THEN 0 ELSE count[i]]
  /\ dependents'  = [i \in Index |-> IF i \in I THEN {} ELSE dependents[i]]

\* Wrong: a dependency that is listed twice counts once.
Wakes_Once(id, i) == IF \E e \in dependents[id[1]] : e[1] = owner[i] THEN {1} ELSE {}

\* The positions of id in the list of the job tracked at index i: completing
\* id decrements the count there once for each.
Wakes(id, i) == {e[2] : e \in {f \in dependents[id[1]] : f[1] = owner[i]}}

Decremented(id) ==
  [i \in Index |-> LET n == Cardinality(Wakes(id, i))
                   IN  IF n >= unsatisfied[i] THEN 0 ELSE unsatisfied[i] - n]

\* Wrong: a job is woken by the first dependency that completes.
Promoted_AtFirst(id) ==
  IF IsTracked(id) THEN {owner[i] : i \in {j \in Index : Wakes(id, j) # {}}} ELSE {}

\* on_completed: the jobs whose count reaches zero.
Promoted(id) ==
  IF IsTracked(id)
    THEN {owner[i] : i \in {j \in Index : unsatisfied[j] > 0 /\ Decremented(id)[j] = 0}}
    ELSE {}

RetireCompleted(id) ==
  IF IsTracked(id) THEN ClearIndexes({id[1]}, Decremented(id))
                   ELSE UNCHANGED trackerVars

\* Wrong: the walk also goes from a dependent to its dependencies.
ClosedUnderDependents_BothWays(S) ==
  \A x \in Tracked : \A e \in dependents[x[1]] :
    IsTracked(e[1]) => (x \in S <=> e[1] \in S)

\* on_terminated visits the tracked jobs reachable from id over reverse
\* edges: the least set that holds id and is closed under them.
ClosedUnderDependents(S) ==
  \A x \in S : \A e \in dependents[x[1]] : IsTracked(e[1]) => e[1] \in S

Reached(id) ==
  IF IsTracked(id)
    THEN {d \in Tracked : \A S \in SUBSET Tracked :
            (id \in S /\ ClosedUnderDependents(S)) => d \in S}
    ELSE {}

\* Wrong: the walk stops at the direct dependents.
Cascade_OneLevel(id) == {d \in Tracked : \E e \in dependents[id[1]] : e[1] = d}

Cascade(id) == Reached(id) \ {id}

RetireTerminated(id) == ClearIndexes({d[1] : d \in Reached(id)}, unsatisfied)

-----------------------------------------------------------------------------
(* The ledgers: FairShare::on_dispatch and on_release for each job of J.   *)

Charged(J)  == [id \in JobId |-> IF id \in J THEN charge[id] + 1 ELSE charge[id]]
Released(J) == [id \in JobId |-> IF id \in J THEN charge[id] - 1 ELSE charge[id]]

-----------------------------------------------------------------------------
(* Lifecycle calls.  A call that returns Err changes nothing, so it is the *)
(* negation of the guard.                                                  *)

\* check_submit, Arena::insert and Scheduler::submit, which the daemon runs
\* back to back for one request.
Submit(spec, deps) ==
  LET id   == NextId
      next == Classify(id, deps)
  IN  /\ freeHead # Nil \/ slots < MaxSlots
      /\ next # "DependencyError"
      /\ ArenaInsert([deps |-> deps, spec |-> spec, preemptions |-> 0])
      /\ state' = [state EXCEPT ![id[1]] = next]
      /\ IF next = "Cancelled" THEN UNCHANGED trackerVars ELSE Register(id, deps)
      /\ ready' = IF next = "Ready" THEN ready \cup {id} ELSE ready
      /\ UNCHANGED charge

\* run_cycle applying its Dispatched decisions; restore_running of one job.
Dispatch(J) ==
  /\ \A id \in J : Allowed(id, "Running")
  /\ state'  = Moved(J, "Running")
  /\ ready'  = ready \ J
  /\ charge' = Charged(J)
  /\ UNCHANGED <<slots, gen, nextFree, freeHead, job, trackerVars>>

OnCompleted(id) ==
  LET woken == {d \in Promoted(id) : d # id /\ Allowed(d, "Ready")}
  IN  /\ Allowed(id, "Completed")
      /\ state'  = [Moved(woken, "Ready") EXCEPT ![id[1]] = "Completed"]
      /\ ready'  = ready \cup woken
      /\ charge' = Released({id})
      /\ RetireCompleted(id)
      /\ UNCHANGED <<slots, gen, nextFree, freeHead, job>>

\* Wrong: the job that is cancelled stays in the ready set.
CascadeFrom_KeepsReady(id, to) ==
  LET gone == {d \in Cascade(id) : Allowed(d, "Cancelled")}
  IN  /\ state' = [Moved(gone, "Cancelled") EXCEPT ![id[1]] = to]
      /\ ready' = ready \ {d \in gone : StateOf(d) = "Ready"}
      /\ RetireTerminated(id)

\* apply_cascade, with the job that set it off.
CascadeFrom(id, to) ==
  LET gone == {d \in Cascade(id) : Allowed(d, "Cancelled")}
  IN  /\ state' = [Moved(gone, "Cancelled") EXCEPT ![id[1]] = to]
      /\ ready' = ready \ {d \in gone \cup {id} : StateOf(d) = "Ready"}
      /\ RetireTerminated(id)

OnFailed(id) ==
  /\ Allowed(id, "Failed")
  /\ CascadeFrom(id, "Failed")
  /\ charge' = Released({id})
  /\ UNCHANGED <<slots, gen, nextFree, freeHead, job>>

\* Wrong: a job that is being evicted is cancelled without its release.
Cancel_OnlyRunning(id) ==
  /\ Allowed(id, "Cancelled")
  /\ CascadeFrom(id, "Cancelled")
  /\ charge' = IF StateOf(id) = "Running" THEN Released({id}) ELSE charge
  /\ UNCHANGED <<slots, gen, nextFree, freeHead, job>>

Cancel(id) ==
  /\ Allowed(id, "Cancelled")
  /\ CascadeFrom(id, "Cancelled")
  /\ charge' = IF StateOf(id) \in Holding THEN Released({id}) ELSE charge
  /\ UNCHANGED <<slots, gen, nextFree, freeHead, job>>

Preempt(J) ==
  /\ \A id \in J : Allowed(id, "Preempted")
  /\ state' = Moved(J, "Preempted")
  /\ UNCHANGED <<slots, gen, nextFree, freeHead, job, trackerVars, ready, charge>>

\* What Scheduler::requeue asks and changes; a Running job passes through
\* Preempted.
CanRequeue(id) ==
  Live(id) /\ (StateOf(id) = "Running" \/ CanTransitionTo(StateOf(id), "Ready"))

BackToReady(J) ==
  /\ \A id \in J : CanRequeue(id)
  /\ state'  = Moved(J, "Ready")
  /\ ready'  = ready \cup J
  /\ charge' = Released(J)
  /\ UNCHANGED <<slots, gen, nextFree, freeHead, trackerVars>>

Requeue(J) == BackToReady(J) /\ UNCHANGED job

\* Wrong: the count does not saturate.
Counted_Unbounded(n) == n + 1

\* The eviction count saturates.
Counted(n) == IF n < MaxEvict THEN n + 1 ELSE n

\* The worker confirmed an eviction: it is counted and the job requeued.
OnPreempted(id) ==
  /\ Live(id) /\ StateOf(id) = "Preempted"
  /\ job' = [job EXCEPT ![id[1]].preemptions = Counted(@)]
  /\ BackToReady({id})

\* Engine::forget_expired drops a terminal job past its retention.
Forget(id) ==
  /\ Live(id) /\ StateOf(id) \in Terminal
  /\ gen[id[1]] < MaxGen
  /\ ArenaRemove(id)
  /\ UNCHANGED <<trackerVars, ready, charge>>

\* Engine::recover from a log that was never rotated, as its effect on the whole:
\* replay makes the same calls again and ends in the same state, except that it
\* replays a confirmed eviction as a plain requeue, and recover requeues what was
\* still being evicted.  The records are not applied one by one here, so a log
\* that recover refuses (IdMismatch, a lifecycle error) is not in the model.
Replay ==
  /\ BackToReady(JobsIn({"Preempted"}))
  /\ job' = [i \in Index |-> [job[i] EXCEPT !.preemptions = 0]]

CoreInit ==
  /\ slots       = 0
  /\ state       = [i \in Index |-> "Vacant"]
  /\ gen         = [i \in Index |-> 0]
  /\ nextFree    = [i \in Index |-> Nil]
  /\ freeHead    = Nil
  /\ job         = [i \in Index |-> NoJob]
  /\ owner       = [i \in Index |-> NoOwner]
  /\ unsatisfied = [i \in Index |-> 0]
  /\ dependents  = [i \in Index |-> {}]
  /\ ready       = {}
  /\ charge      = [id \in JobId |-> 0]

-----------------------------------------------------------------------------
(* What a caller may do with the core: any call, in any order, on any job  *)
(* it applies to, as long as it requeues only jobs that hold a slot.  The  *)
(* call itself would take a Blocked job too; every caller in the engine    *)
(* requeues jobs that were dispatched.                                     *)

AnySubmit    == \E s \in JobSpec, d \in DepLists : Submit(s, d)
AnyDispatch  == \E J \in SUBSET JobsIn({"Ready"}) : Dispatch(J)
AnyCompleted == \E id \in JobId : OnCompleted(id)
AnyFailed    == \E id \in JobId : OnFailed(id)
AnyCancel    == \E id \in JobId : Cancel(id)
AnyPreempt   == \E J \in SUBSET JobsIn({"Running"}) : Preempt(J)
AnyPreempted == \E id \in JobId : OnPreempted(id)
AnyRequeue   == \E J \in SUBSET JobsIn(Holding) : Requeue(J)
AnyForget    == \E id \in JobId : Forget(id)

CoreNext ==
  \/ AnySubmit
  \/ AnyDispatch
  \/ AnyCompleted
  \/ AnyFailed
  \/ AnyCancel
  \/ AnyPreempt
  \/ AnyPreempted
  \/ AnyRequeue
  \/ AnyForget
  \/ Replay

CoreSpec == CoreInit /\ [][CoreNext]_coreVars
=============================================================================
