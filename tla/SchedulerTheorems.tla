------------------------- MODULE SchedulerTheorems --------------------------
(***************************************************************************)
(* Every step keeps the inductive invariant, and what the scheduling core  *)
(* promises follows from it: the invariants and the action properties that *)
(* the scheduler run checks on a small instance, for every instance.       *)
(***************************************************************************)
EXTENDS SchedulerCascade, SchedulerSubmit

(* Every step.                                                             *)

\* A job that fails or is cancelled, with its cascade.
Ends(id, to) ==
  /\ Live(id) /\ state[id[1]] \notin Terminal
  /\ to = "Failed" => state[id[1]] \in Holding
  /\ CascadeFrom(id, to)
  /\ charge' = IF state[id[1]] \in Holding THEN Released({id}) ELSE charge
  /\ UNCHANGED <<slots, gen, nextFree, freeHead, job>>
  /\ Observe

\* The ten calls are of five kinds, and each preserves the invariant.
LEMMA StepKinds ==
  ASSUME IInv, Next
  PROVE  /\ IInv'
         /\ \/ Shuffle
            \/ \E s \in JobSpec, d \in Seq(JobId) : Submit(s, d) /\ Observe
            \/ \E id \in JobId : OnCompleted(id) /\ Observe
            \/ \E id \in JobId : \E to \in {"Failed", "Cancelled"} : Ends(id, to)
            \/ \E id \in JobId : Forget(id) /\ Observe
<1>1. CASE AnySubmit /\ Observe
  <2>1. PICK s \in JobSpec, d \in DepLists : Submit(s, d)
    BY <1>1 DEF AnySubmit
  <2>2. d \in Seq(JobId)
    BY DepListsAssumption
  <2> QED
    BY <1>1, <2>1, <2>2, SubmitInv
<1>2. CASE AnyDispatch /\ Observe
  BY <1>2, DispatchInv DEF AnyDispatch
<1>3. CASE AnyCompleted /\ Observe
  BY <1>3, CompletedInv DEF AnyCompleted
<1>4. CASE AnyFailed /\ Observe
  <2>1. PICK id \in JobId : OnFailed(id)
    BY <1>4 DEF AnyFailed
  <2>2. Live(id) /\ state[id[1]] \in Holding /\ state[id[1]] \notin Terminal
    BY <2>1 DEF OnFailed, Allowed, CanTransitionTo, StateOf, Holding, Terminal
  <2>3. Ends(id, "Failed")
    BY <1>4, <2>1, <2>2 DEF OnFailed, Ends
  <2> QED
    BY <2>3, CascadeInv, ZenonT(30) DEF Ends
<1>5. CASE AnyCancel /\ Observe
  <2>1. PICK id \in JobId : Cancel(id)
    BY <1>5 DEF AnyCancel
  <2>2. Live(id) /\ state[id[1]] \notin Terminal
    BY <2>1, ZenonT(30) DEF Cancel, Allowed, CanTransitionTo, StateOf, Terminal
  <2>3. Ends(id, "Cancelled")
    BY <1>5, <2>1, <2>2, ZenonT(30) DEF Cancel, Ends, StateOf
  <2> QED
    BY <2>3, CascadeInv, ZenonT(30) DEF Ends
<1>6. CASE AnyPreempt /\ Observe
  BY <1>6, PreemptInv DEF AnyPreempt
<1>7. CASE AnyPreempted /\ Observe
  <2>1. PICK id \in JobId : OnPreempted(id)
    BY <1>7 DEF AnyPreempted
  <2>2. {id} \in SUBSET JobsIn(Holding)
    BY <2>1 DEF OnPreempted, JobsIn, LiveJobs, StateOf, Holding
  <2>3. job' = [job EXCEPT ![id[1]].preemptions = Counted(@)]
    BY <2>1 DEF OnPreempted
  <2>4. job' \in [Index -> Job] /\ \A i \in Index : job'[i].deps = job[i].deps
    <3>1. \A i \in Index : job[i] \in Job
      BY DEF IInv, ArenaInv, TypeOK
    <3>2. \A i \in Index : \/ job'[i] = job[i]
                           \/ job'[i] = [job[i] EXCEPT !.preemptions = Counted(job[i].preemptions)]
      BY <2>3 DEF IInv, ArenaInv, TypeOK
    <3>3. DOMAIN job' = Index /\ job' = [i \in Index |-> job'[i]]
      BY <2>3, ZenonT(30) DEF IInv, ArenaInv, TypeOK
    <3>4. \A v \in Job : LET w == [v EXCEPT !.preemptions = Counted(v.preemptions)]
                          IN  w \in Job /\ w.deps = v.deps
      BY BoundsAssumption DEF Job, Counted
    <3>5. \A i \in Index : job'[i] \in Job /\ job'[i].deps = job[i].deps
      BY <3>1, <3>2, <3>4, ZenonT(30)
    <3> QED
      BY <3>3, <3>5
  <2> QED
    BY <1>7, <2>1, <2>2, <2>4, BackToReadyInv DEF OnPreempted
<1>8. CASE AnyRequeue /\ Observe
  <2>1. PICK J \in SUBSET JobsIn(Holding) : Requeue(J)
    BY <1>8 DEF AnyRequeue
  <2>2. job' \in [Index -> Job] /\ \A i \in Index : job'[i].deps = job[i].deps
    BY <2>1 DEF Requeue, IInv, ArenaInv, TypeOK
  <2> QED
    BY <1>8, <2>1, <2>2, BackToReadyInv DEF Requeue
<1>9. CASE AnyForget /\ Observe
  BY <1>9, ForgetInv DEF AnyForget
<1>10. CASE Replay /\ Observe
  <2>1. JobsIn({"Preempted"}) \in SUBSET JobsIn(Holding)
    BY DEF JobsIn, Holding
  <2>2. job' = [i \in Index |-> [job[i] EXCEPT !.preemptions = 0]]
    BY <1>10 DEF Replay
  <2>3. job' \in [Index -> Job] /\ \A i \in Index : job'[i].deps = job[i].deps
    <3>1. \A i \in Index : job[i] \in Job
      BY DEF IInv, ArenaInv, TypeOK
    <3>2. \A v \in Job : LET w == [v EXCEPT !.preemptions = 0] IN w \in Job /\ w.deps = v.deps
      BY BoundsAssumption DEF Job
    <3> QED
      BY <2>2, <3>1, <3>2, ZenonT(30)
  <2> QED
    BY <1>10, <2>1, <2>3, BackToReadyInv DEF Replay
<1> QED
  BY <1>1, <1>2, <1>3, <1>4, <1>5, <1>6, <1>7, <1>8, <1>9, <1>10 DEF Next

\* A step that changes nothing preserves it too.
LEMMA StutterInv ==
  ASSUME IInv, UNCHANGED vars
  PROVE  IInv'
<1> USE DEF IInv, ArenaInv, vars, coreVars, arenaVars, trackerVars
<1>1. TypeOK' /\ FreeListOK'
  BY DEF TypeOK, FreeListOK
<1>2. TrackerInv'
  <2>1. TrackedExact' /\ EdgesSound'
    BY DEF TrackerInv, TrackedExact, EdgesSound, Handle, Issued
  <2>2. \A i \in Index : PendingIn(job[i].deps)' = PendingIn(job[i].deps)
    BY DEF PendingIn, Live, StateOf
  <2>3. EdgesComplete'
    BY <2>2 DEF TrackerInv, EdgesComplete, Handle
  <2>4. CountExact'
    BY <2>2 DEF TrackerInv, CountExact
  <2> QED
    BY <2>1, <2>3, <2>4 DEF TrackerInv
<1>3. DepsInv'
  BY ZenonT(30) DEF DepsInv, DepsIssued, DepsDone, HistoryExact, Handle, Issued, PendingIn, Live, StateOf
<1>4. ReadyByIndex' /\ ChargeByIndex'
  BY DEF ReadyByIndex, ChargeByIndex, Handle
<1> QED
  BY <1>1, <1>2, <1>3, <1>4

-----------------------------------------------------------------------------
(* Theorems.                                                               *)

\* The invariant holds in every state the core reaches, in whatever order its
\* calls are made and whichever slots are reused (all of Scheduler's calls).
THEOREM InductiveInvariant == Spec => []IInv
<1>1. IInv /\ [Next]_vars => IInv'
  BY StepKinds, StutterInv
<1> QED
  BY InitIInv, <1>1, PTL DEF Spec

\* The core's state keeps its types; the pending counters never go below zero
\* and the generations stay in range.
THEOREM TypeCorrect == Spec => []TypeOK
<1>1. IInv => TypeOK
  BY DEF IInv, ArenaInv
<1> QED
  BY InductiveInvariant, <1>1, PTL

-----------------------------------------------------------------------------
(* What the core promises.                                                *)

\* A job never becomes eligible, runs or finishes before all of its
\* dependencies completed, even when they were forgotten and their slots
\* reused (DependencyTracker::register and on_completed).
THEOREM DependenciesFirst == Spec => []RunsAfterDependencies
<1>1. ASSUME IInv PROVE RunsAfterDependencies
  <2> SUFFICES ASSUME NEW id \in JobsIn({"Ready", "Running", "Preempted", "Completed"}),
                      NEW k \in DOMAIN DepsOf(id)
               PROVE  DepsOf(id)[k] \in succeeded
    BY DEF RunsAfterDependencies
  <2>1. id[1] \in Index /\ state[id[1]] \in Past
    BY HandlePair DEF JobsIn, LiveJobs, StateOf, Past
  <2> QED
    BY <1>1, <2>1 DEF IInv, DepsInv, DepsDone, DepsOf
<1> QED
  BY InductiveInvariant, <1>1, PTL

\* No Blocked job is stranded: its counter is the number of its pending
\* dependencies, at least one, and each of them holds the edge that will
\* decrement it (DependencyTracker's side tables).
THEOREM NoLostWakeup == Spec => []BlockedWillBeWoken
<1>1. ASSUME IInv PROVE BlockedWillBeWoken
  <2> USE <1>1 DEF IInv, ArenaInv
  <2> SUFFICES ASSUME NEW id \in JobsIn({"Blocked"}), NEW deps, deps = DepsOf(id)
               PROVE  /\ IsTracked(id)
                      /\ unsatisfied[id[1]] = Cardinality(PendingIn(deps))
                      /\ unsatisfied[id[1]] > 0
                      /\ \A k \in PendingIn(deps) :
                           IsTracked(deps[k]) /\ <<id, k>> \in dependents[deps[k][1]]
    BY DEF BlockedWillBeWoken
  <2>1. id \in JobId /\ id[1] \in Index /\ state[id[1]] = "Blocked" /\ id = Handle(id[1])
    BY HandlePair, LiveIsHandle DEF JobsIn, LiveJobs, StateOf
  <2>2. deps = job[id[1]].deps /\ deps \in Seq(JobId)
    BY <2>1 DEF DepsOf, TypeOK, Job
  <2>3. IsTracked(id)
    BY <2>1, TrackedIsHandle DEF TrackerInv, Terminal
  <2>4. unsatisfied[id[1]] = Cardinality(PendingIn(deps)) /\ PendingIn(deps) # {}
    BY <2>1, <2>2 DEF TrackerInv, CountExact
  <2>5. unsatisfied[id[1]] > 0
    BY <2>2, <2>4, PendingFinite
  <2>6. ASSUME NEW k \in PendingIn(deps)
        PROVE  IsTracked(deps[k]) /\ <<id, k>> \in dependents[deps[k][1]]
    <3>1. <<id, k>> \in dependents[deps[k][1]]
      BY <2>1, <2>2 DEF TrackerInv, EdgesComplete
    <3>2. deps[k] \in JobId /\ Live(deps[k]) /\ StateOf(deps[k]) \notin Terminal
      BY <2>2 DEF PendingIn
    <3>3. deps[k] = Handle(deps[k][1]) /\ state[deps[k][1]] \notin Terminal \cup {"Vacant"}
      BY <3>2, LiveIsHandle DEF StateOf
    <3> QED
      BY <3>1, <3>2, <3>3, TrackedIsHandle DEF TrackerInv
  <2> QED
    BY <2>3, <2>4, <2>5, <2>6
<1> QED
  BY InductiveInvariant, <1>1, PTL

\* A job with a failed or cancelled dependency is cancelled, at the submission
\* or by the cascade (classify, on_terminated, apply_cascade).
THEOREM CascadeComplete == Spec => []DoomSpreads
<1>1. ASSUME IInv PROVE DoomSpreads
  <2> USE <1>1 DEF IInv, ArenaInv
  <2> SUFFICES ASSUME NEW id \in LiveJobs, NEW k \in DOMAIN DepsOf(id),
                      NEW d, d = DepsOf(id)[k], d \in doomed, StateOf(id) # "Cancelled"
               PROVE  FALSE
    BY DEF DoomSpreads
  <2>1. id \in JobId /\ id[1] \in Index /\ state[id[1]] \in JobState \ {"Cancelled"}
    BY HandlePair, LiveIsHandle DEF LiveJobs, StateOf, TypeOK
  <2>2. d = job[id[1]].deps[k] /\ k \in DOMAIN job[id[1]].deps /\ d \in JobId
    BY <2>1 DEF DepsOf, TypeOK
  <2>3. d \notin succeeded
    BY DEF DepsInv, HistoryExact
  <2>4. state[id[1]] = "Blocked" /\ k \in PendingIn(job[id[1]].deps)
    BY <2>1, <2>2, <2>3 DEF DepsInv, DepsDone, Past, JobState
  <2>5. Live(d) /\ StateOf(d) \notin Terminal
    BY <2>2, <2>4 DEF PendingIn
  <2>6. d = Handle(d[1]) /\ d[1] \in Index /\ state[d[1]] # "Vacant"
    BY <2>2, <2>5, LiveIsHandle, HandlePair
  <2> QED
    BY <2>5, <2>6 DEF DepsInv, HistoryExact, StateOf, Terminal
<1> QED
  BY InductiveInvariant, <1>1, PTL

\* The ready set is exact: no eligible job is missing from it and no other one
\* is in it (ReadySet across every lifecycle call).
THEOREM ReadyExact == Spec => []ReadySetExact
<1>1. ASSUME IInv PROVE ReadySetExact
  <2> USE <1>1 DEF IInv, ArenaInv
  <2>1. \A id \in JobId : id \in ready <=> Live(id) /\ StateOf(id) = "Ready"
    BY LiveIsHandle DEF ReadyByIndex, StateOf
  <2> QED
    BY <2>1 DEF ReadySetExact, JobsIn, LiveJobs, TypeOK
<1> QED
  BY InductiveInvariant, <1>1, PTL

\* The ledgers are exact: a job's cpu is charged once while it holds a worker
\* and not at all otherwise (FairShare::on_dispatch and on_release).
THEOREM LedgersExact == Spec => []ChargeExact
<1>1. ASSUME IInv PROVE ChargeExact
  <2> USE <1>1 DEF IInv, ArenaInv
  <2>1. \A id \in JobId : id \in JobsIn(Holding) <=> id = Handle(id[1]) /\ state[id[1]] \in Holding
    BY LiveIsHandle DEF JobsIn, LiveJobs, StateOf, Holding
  <2> QED
    BY <2>1 DEF ChargeExact, ChargeByIndex
<1> QED
  BY InductiveInvariant, <1>1, PTL

-----------------------------------------------------------------------------
(* Action properties.                                                      *)

\* Only a submission makes a handle resolve that did not before, and that
\* handle was never issued.
LEMMA OnlyFreshHandles ==
  ASSUME IInv, Next, NEW id \in JobId, Live(id)', ~Live(id)
  PROVE  ~Issued(id)
<1> USE DEF IInv, ArenaInv
<1>1. IInv'
  BY StepKinds
<1>2. /\ id[1] \in Index
      /\ state'[id[1]] # "Vacant" /\ id = Handle(id[1])'
      /\ ~(state[id[1]] # "Vacant" /\ id = Handle(id[1]))
  BY <1>1, HandlePair, LiveIsHandle, LiveIsHandleNext
<1>3. ASSUME \A i \in Index : state'[i] # "Vacant" => state[i] # "Vacant" /\ gen'[i] = gen[i]
      PROVE  FALSE
  BY <1>2, <1>3 DEF Handle
<1>4. CASE Shuffle
  BY <1>3, <1>4 DEF Shuffle, Eligible
<1>5. ASSUME NEW s \in JobSpec, NEW d \in Seq(JobId), Submit(s, d)
      PROVE  ~Issued(id)
  <2>1. NextId = Handle(NextId[1]) /\ NextId[1] \in Index /\ ~Issued(NextId)
    BY <1>5, NextIdFresh DEF Submit
  <2>2. UNCHANGED gen /\ \A i \in Index : i # NextId[1] => state'[i] = state[i]
    BY <1>5 DEF Submit, ArenaInsert, TypeOK
  <2>3. id[1] = NextId[1]
    BY <1>2, <2>2 DEF Handle
  <2> QED
    BY <1>2, <2>1, <2>2, <2>3 DEF Handle
<1>6. ASSUME NEW x \in JobId, OnCompleted(x) PROVE FALSE
  <2>1. \A i \in Index : state'[i] # "Vacant" => state[i] # "Vacant"
    <3>1. Live(x)
      BY <1>6, CompletedByIndex
    <3>2. state[x[1]] # "Vacant"
      BY <3>1, LiveIsHandle
    <3> QED
      BY <1>6, <3>2, CompletedByIndex
  <2>2. UNCHANGED gen
    BY <1>6 DEF OnCompleted
  <2> QED
    BY <1>3, <2>1, <2>2
<1>7. ASSUME NEW x \in JobId, NEW to \in {"Failed", "Cancelled"}, Ends(x, to) PROVE FALSE
  <2>1. \A i \in Index : state'[i] # "Vacant" => state[i] # "Vacant"
    <3>1. state[x[1]] # "Vacant"
      BY <1>7, LiveIsHandle DEF Ends
    <3> QED
      BY <1>7, <3>1, CascadeByIndex DEF Ends
  <2>2. UNCHANGED gen
    BY <1>7 DEF Ends
  <2> QED
    BY <1>3, <2>1, <2>2
<1>8. ASSUME NEW x \in JobId, Forget(x) PROVE FALSE
  <2>1. x[1] \in Index
    BY HandlePair
  <2>2. /\ state' = [state EXCEPT ![x[1]] = "Vacant"]
        /\ gen' = [gen EXCEPT ![x[1]] = @ + 1]
    BY <1>8 DEF Forget, ArenaRemove
  <2> QED
    BY <1>3, <2>1, <2>2 DEF TypeOK
<1> QED
  BY <1>4, <1>5, <1>6, <1>7, <1>8, StepKinds

\* A stale handle never resolves again and no handle is issued twice: the job
\* of a client's handle is the one it submitted (Arena::insert and remove).
THEOREM HandlesUnique == Spec => HandlesAreNotReused
<1>1. ASSUME IInv, [Next]_vars
      PROVE  [\A id \in LiveJobs' \ LiveJobs : id \notin succeeded \cup doomed]_vars
  <2> SUFFICES ASSUME Next, NEW id \in LiveJobs' \ LiveJobs
               PROVE  id \notin succeeded \cup doomed
    BY <1>1
  <2>1. id \in JobId /\ Live(id)' /\ ~Live(id)
    BY DEF LiveJobs
  <2>2. ~Issued(id)
    BY <1>1, <2>1, OnlyFreshHandles
  <2> QED
    BY <1>1, <2>2 DEF IInv, DepsInv, HistoryExact
<1> QED
  BY InductiveInvariant, <1>1, PTL DEF Spec, HandlesAreNotReused

\* One report or cancellation ends at most one job that holds a worker: the
\* cascade only ever cancels Blocked ones (apply_cascade).
THEOREM OneRelease == Spec => OneReleasePerCall
<1>1. ASSUME IInv, [Next]_vars
      PROVE  [\A x, y \in JobsIn(Holding) :
                StateOf(x)' \in Terminal /\ StateOf(y)' \in Terminal => x = y]_vars
  <2> USE <1>1 DEF IInv, ArenaInv
  <2> SUFFICES ASSUME Next, NEW x \in JobsIn(Holding), NEW y \in JobsIn(Holding),
                      StateOf(x)' \in Terminal, StateOf(y)' \in Terminal
               PROVE  x = y
    OBVIOUS
  <2>1. /\ x[1] \in Index /\ state[x[1]] \in Holding /\ state'[x[1]] \in Terminal /\ x = Handle(x[1])
        /\ y[1] \in Index /\ state[y[1]] \in Holding /\ state'[y[1]] \in Terminal /\ y = Handle(y[1])
    BY HandlePair, LiveIsHandle DEF JobsIn, LiveJobs, StateOf
  <2>2. \A i \in Index : state[i] \in Holding => state[i] \notin Terminal \cup {"Blocked", "Vacant"}
    BY DEF Holding, Terminal
  <2>3. CASE Shuffle
    BY <2>1, <2>2, <2>3 DEF Shuffle, Eligible, Terminal
  <2>4. ASSUME NEW s \in JobSpec, NEW d \in Seq(JobId), Submit(s, d) PROVE x = y
    <3>1. \A i \in Index : i # NextId[1] => state'[i] = state[i]
      BY <2>4 DEF Submit, TypeOK
    <3>2. state[NextId[1]] = "Vacant"
      BY <2>4, NextIdFresh DEF Submit
    <3> QED
      BY <2>1, <2>2, <3>1, <3>2
  <2>5. ASSUME NEW id \in JobId, OnCompleted(id) PROVE x = y
    <3>1. \A i \in Index : i # id[1] => state'[i] \in {state[i], "Ready"}
      BY <2>5, CompletedByIndex
    <3>2. x[1] = id[1] /\ y[1] = id[1]
      BY <2>1, <2>2, <3>1 DEF Terminal
    <3> QED
      BY <2>1, <3>2
  <2>6. ASSUME NEW id \in JobId, NEW to \in {"Failed", "Cancelled"}, Ends(id, to) PROVE x = y
    <3>1. \A i \in Index : i # id[1] => state[i] = "Blocked" \/ state'[i] = state[i]
      BY <2>6, CascadeByIndex DEF Ends
    <3>2. x[1] = id[1] /\ y[1] = id[1]
      BY <2>1, <2>2, <3>1
    <3> QED
      BY <2>1, <3>2
  <2>7. ASSUME NEW id \in JobId, Forget(id) PROVE x = y
    <3>1. \A i \in Index : state'[i] = state[i] \/ state'[i] = "Vacant"
      BY <2>7 DEF Forget, ArenaRemove, TypeOK
    <3> QED
      BY <2>1, <2>2, <3>1 DEF Terminal
  <2> QED
    BY <2>3, <2>4, <2>5, <2>6, <2>7, StepKinds
<1> QED
  BY InductiveInvariant, <1>1, PTL DEF Spec, OneReleasePerCall

\* Every job a cascade reaches, other than the one it started from, names a
\* reached job among its dependencies.
LEMMA ReachedHasCause ==
  ASSUME IInv, NEW id \in JobId, IsTracked(id), NEW y \in Reached(id), y # id
  PROVE  \E k \in DOMAIN job[y[1]].deps : job[y[1]].deps[k] \in Reached(id)
<1> USE DEF IInv, ArenaInv
<1> DEFINE R == Reached(id)
           S == R \ {y}
<1>1. id \in R /\ R \subseteq Tracked /\ ClosedUnderDependents(R)
  BY ReachedFacts
<1> SUFFICES ASSUME \A k \in DOMAIN job[y[1]].deps : job[y[1]].deps[k] \notin R PROVE FALSE
  OBVIOUS
<1>2. ASSUME NEW x \in S, NEW e \in dependents[x[1]], IsTracked(e[1]) PROVE e[1] \in S
  <2>1. e[1] \in R
    BY <1>1, <1>2 DEF ClosedUnderDependents
  <2>2. x \in JobId /\ x[1] \in Index /\ owner[x[1]] = x
    BY <1>1, HandlePair DEF Tracked, IsTracked
  <2>3. e[2] \in DOMAIN job[e[1][1]].deps /\ job[e[1][1]].deps[e[2]] = x
    BY <1>2, <2>2 DEF TrackerInv, EdgesSound, IsTracked
  <2> QED
    BY <2>1, <2>3
<1>3. ClosedUnderDependents(S)
  BY <1>2 DEF ClosedUnderDependents
<1>4. \A d \in R : \A T \in SUBSET Tracked : id \in T /\ ClosedUnderDependents(T) => d \in T
  BY DEF Reached
<1> QED
  BY <1>1, <1>3, <1>4

\* The handles a step adds to the histories are of jobs it made terminal.
LEMMA NewlyEnded ==
  ASSUME IInv, IInv', Observe, NEW x \in JobId
  PROVE  /\ x \in doomed' \ doomed =>
              /\ x[1] \in Index /\ x = Handle(x[1])' /\ state'[x[1]] \in {"Failed", "Cancelled"}
              /\ ~(x = Handle(x[1]) /\ state[x[1]] = state'[x[1]])
         /\ x \in succeeded' \ succeeded =>
              /\ x[1] \in Index /\ x = Handle(x[1])' /\ state'[x[1]] = "Completed"
              /\ ~(x = Handle(x[1]) /\ state[x[1]] = state'[x[1]])
BY HandlePair, Histories DEF IInv, ArenaInv, DepsInv, HistoryExact

\* A step dooms at most one job that has no doomed dependency, and a step that
\* completes a job dooms none (on_failed, cancel, apply_cascade).
THEOREM CascadeSound == Spec => DoomHasACause
<1>1. ASSUME IInv, [Next]_vars
      PROVE  [LET fresh == doomed' \ doomed IN
                /\ \A x, y \in fresh :
                     x = y \/ \E z \in {x, y} : \E k \in DOMAIN DepsOf(z)' : DepsOf(z)'[k] \in doomed'
                /\ succeeded' # succeeded => fresh = {}]_vars
  <2> USE <1>1 DEF IInv, ArenaInv
  <2> DEFINE fresh == doomed' \ doomed
             Caused(z) == \E k \in DOMAIN DepsOf(z)' : DepsOf(z)'[k] \in doomed'
             Sound == /\ \A x, y \in fresh : x = y \/ Caused(x) \/ Caused(y)
                      /\ succeeded' # succeeded => fresh = {}
  <2> SUFFICES ASSUME Next PROVE Sound
    OBVIOUS
  <2>1. IInv' /\ Observe
    BY StepKinds DEF Next
  <2>2. fresh \subseteq JobId /\ succeeded \subseteq succeeded' /\ succeeded' \subseteq JobId
    BY <2>1 DEF TypeOK, Observe
  <2>3. ASSUME gen' = gen, \A i \in Index : state'[i] # state[i] => state'[i] # "Completed"
        PROVE  succeeded' = succeeded
    BY <2>1, <2>2, <2>3, NewlyEnded DEF Handle
  <2>4. ASSUME gen' = gen, \A i \in Index : state'[i] # state[i] => state'[i] \notin {"Failed", "Cancelled"}
        PROVE  fresh = {}
    BY <2>1, <2>2, <2>4, NewlyEnded DEF Handle
  <2>5. CASE Shuffle
    BY <2>4, <2>5 DEF Shuffle, Eligible
  <2>6. ASSUME NEW s \in JobSpec, NEW d \in Seq(JobId), Submit(s, d) PROVE Sound
    <3>1. gen' = gen /\ \A i \in Index : i # NextId[1] => state'[i] = state[i]
      BY <2>6 DEF Submit, ArenaInsert, TypeOK
    <3>2. state'[NextId[1]] # "Completed"
      <4>1. NextId[1] \in Index
        BY <2>6, NextIdFresh DEF Submit
      <4>2. state'[NextId[1]] = Classify(NextId, d)
        BY <2>6, <4>1 DEF Submit, TypeOK
      <4> QED
        BY <4>2, ClassifyRange
    <3>3. \A i \in Index : state'[i] # state[i] => state'[i] # "Completed"
      BY <3>1, <3>2
    <3>4. \A x \in fresh : x = Handle(NextId[1])
      BY <2>1, <2>2, <3>1, NewlyEnded DEF Handle
    <3> QED
      BY <2>3, <3>1, <3>3, <3>4
  <2>7. ASSUME NEW id \in JobId, OnCompleted(id) PROVE Sound
    <3>1. gen' = gen
      BY <2>7 DEF OnCompleted
    <3>2. \A i \in Index : state'[i] # state[i] => state'[i] \in {"Completed", "Ready"}
      BY <2>7, CompletedByIndex
    <3> QED
      BY <2>4, <3>1, <3>2
  <2>8. ASSUME NEW id \in JobId, NEW to \in {"Failed", "Cancelled"}, Ends(id, to) PROVE Sound
    <3> DEFINE R == Reached(id)
    <3>1. gen' = gen /\ job' = job /\ IsTracked(id)
      BY <2>8, CascadeByIndex DEF Ends
    <3>2. \A i \in Index :
            /\ Handle(i) \in R => state'[i] \in {"Failed", "Cancelled"}
            /\ Handle(i) \notin R => state'[i] = state[i]
      BY <2>8, CascadeByIndex DEF Ends
    <3>3. succeeded' = succeeded
      BY <2>3, <3>1, <3>2
    <3>4. \A x \in fresh : x \in R
      BY <2>1, <2>2, <3>1, <3>2, NewlyEnded DEF Handle
    <3>5. \A x \in R : x \in doomed'
      <4> SUFFICES ASSUME NEW x \in R PROVE x \in doomed'
        OBVIOUS
      <4>1. x \in JobId /\ IsTracked(x)
        BY <3>1, ReachedFacts DEF Tracked
      <4>2. x = Handle(x[1]) /\ x[1] \in Index
        BY <4>1, TrackedIsHandle, HandlePair DEF TrackerInv
      <4>3. x = Handle(x[1])'
        BY <3>1, <4>2 DEF Handle
      <4>4. state'[x[1]] \in {"Failed", "Cancelled"}
        BY <3>2, <4>2
      <4> QED
        BY <2>1, <4>1, <4>3, <4>4, Histories
    <3>6. ASSUME NEW z \in fresh, z # id PROVE Caused(z)
      <4>1. PICK k \in DOMAIN job[z[1]].deps : job[z[1]].deps[k] \in R
        BY <3>1, <3>4, <3>6, ReachedHasCause
      <4>2. DepsOf(z)' = job[z[1]].deps
        BY <3>1 DEF DepsOf
      <4> QED
        BY <3>5, <4>1, <4>2
    <3> QED
      BY <3>3, <3>6
  <2>9. ASSUME NEW id \in JobId, Forget(id) PROVE Sound
    <3>1. id[1] \in Index
      BY HandlePair
    <3>2. /\ state' = [state EXCEPT ![id[1]] = "Vacant"]
          /\ gen' = [gen EXCEPT ![id[1]] = @ + 1]
      BY <2>9 DEF Forget, ArenaRemove
    <3>3. \A i \in Index : state'[i] # "Vacant" => state'[i] = state[i] /\ gen'[i] = gen[i]
      BY <3>1, <3>2 DEF TypeOK
    <3> QED
      BY <2>1, <2>2, <3>3, NewlyEnded DEF Handle
  <2> HIDE DEF Sound
  <2> QED
    BY <2>5, <2>6, <2>7, <2>8, <2>9, StepKinds
<1> QED
  BY InductiveInvariant, <1>1, PTL DEF Spec, DoomHasACause

=============================================================================
