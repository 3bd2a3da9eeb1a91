----------------------------- MODULE Scheduler -----------------------------
(***************************************************************************)
(* The scheduling core under any caller that requeues only jobs that hold  *)
(* a slot, and what it promises to all of them.  Two history variables     *)
(* record what became of handles whose slot may have been reused since.    *)
(***************************************************************************)
EXTENDS Lifecycle, FiniteSetsExt

CONSTANT MaxReuse   \* bound: slots vacated over all

VARIABLES
  succeeded,  \* handles that were ever Completed
  doomed      \* handles that were ever Failed or Cancelled

vars == <<coreVars, succeeded, doomed>>

\* The histories follow the states a step leads to.
Observe ==
  /\ succeeded' = succeeded \cup {id \in JobId : Live(id)' /\ StateOf(id)' = "Completed"}
  /\ doomed'    = doomed \cup
       {id \in JobId : Live(id)' /\ StateOf(id)' \in {"Failed", "Cancelled"}}

Init == CoreInit /\ succeeded = {} /\ doomed = {}

MayForget == MapThenSumSet(LAMBDA i : gen[i], Index) < MaxReuse

Next ==
  \/ AnySubmit /\ Observe
  \/ AnyDispatch /\ Observe
  \/ AnyCompleted /\ Observe
  \/ AnyFailed /\ Observe
  \/ AnyCancel /\ Observe
  \/ AnyPreempt /\ Observe
  \/ AnyPreempted /\ Observe
  \/ AnyRequeue /\ Observe
  \/ MayForget /\ AnyForget /\ Observe
  \/ Replay /\ Observe

Spec == Init /\ [][Next]_vars

-----------------------------------------------------------------------------
(* Safety.                                                                 *)

TypeOK ==
  /\ slots \in 0..MaxSlots
  /\ state \in [Index -> JobState \cup {"Vacant"}]
  /\ gen \in [Index -> Gen]
  /\ nextFree \in [Index -> Index \cup {Nil}]
  /\ freeHead \in Index \cup {Nil}
  /\ job \in [Index -> Job]
  /\ owner \in [Index -> JobId \cup {NoOwner}]
  /\ unsatisfied \in [Index -> Nat]
  /\ dependents \in [Index -> SUBSET (JobId \X Nat)]
  /\ ready \subseteq JobId
  /\ charge \in [JobId -> Int]
  /\ succeeded \subseteq JobId
  /\ doomed \subseteq JobId

\* No job becomes eligible, runs or finishes before every job it depends on
\* has completed, whatever was forgotten and whichever slots were reused in
\* between (DependencyTracker::on_completed, Scheduler::on_completed).
RunsAfterDependencies ==
  \A id \in JobsIn({"Ready", "Running", "Preempted", "Completed"}) :
    \A k \in DOMAIN DepsOf(id) : DepsOf(id)[k] \in succeeded

\* A Blocked job will be woken: it counts exactly its pending dependencies,
\* there is at least one, and each of them is tracked and holds the edge back
\* (DependencyTracker::register and the owner guard of its side tables).
BlockedWillBeWoken ==
  \A id \in JobsIn({"Blocked"}) :
    LET deps == DepsOf(id) IN
      /\ IsTracked(id)
      /\ unsatisfied[id[1]] = Cardinality(PendingIn(deps))
      /\ unsatisfied[id[1]] > 0
      /\ \A k \in PendingIn(deps) :
           IsTracked(deps[k]) /\ <<id, k>> \in dependents[deps[k][1]]

\* The cascade is complete: a job one of whose dependencies failed or was
\* cancelled is cancelled too (DependencyTracker::on_terminated).
DoomSpreads ==
  \A id \in LiveJobs :
    (\E k \in DOMAIN DepsOf(id) : DepsOf(id)[k] \in doomed) => StateOf(id) = "Cancelled"

\* The cascade is sound: in one step at most one job is failed or cancelled
\* for a reason of its own, and every other one has a doomed dependency; a
\* step that completes a job dooms none (Scheduler::apply_cascade).
DoomHasACause ==
  [][LET fresh == doomed' \ doomed IN
       /\ \A x, y \in fresh :
            x = y \/ \E z \in {x, y} : \E k \in DOMAIN DepsOf(z)' : DepsOf(z)'[k] \in doomed'
       /\ succeeded' # succeeded => fresh = {}]_vars

\* The ready set holds the Ready jobs and nothing else, so that a cycle
\* neither loses a job nor dispatches one twice (ReadySet insert and remove
\* across submit, on_completed, requeue, cancel and the cascade).
ReadySetExact == ready = JobsIn({"Ready"})

\* Each account is charged once for every Running or Preempted job and for
\* nothing else: no release is lost, repeated or unmatched, on any path a job
\* can leave its worker by (FairShare::on_dispatch and on_release).
ChargeExact ==
  \A id \in JobId : charge[id] = IF id \in JobsIn(Holding) THEN 1 ELSE 0

\* A report or a cancellation frees the capacity of the job it names and of
\* no other: a cascade never cancels a job that holds a worker, so the caller,
\* who releases only the named job, leaks nothing (apply_cascade).
OneReleasePerCall ==
  [][\A x, y \in JobsIn(Holding) :
       StateOf(x)' \in Terminal /\ StateOf(y)' \in Terminal => x = y]_vars

\* A handle that went stale never resolves again, and the arena never hands
\* out one it handed out before (Arena::insert, Arena::remove).
HandlesAreNotReused ==
  [][\A id \in LiveJobs' \ LiveJobs : id \notin succeeded \cup doomed]_vars

-----------------------------------------------------------------------------
(* Liveness.  A cycle runs whenever a job is ready, a worker that is given *)
(* a job again and again eventually reports a result, and an evicted job's *)
(* worker confirms.                                                        *)

Fairness ==
  /\ \A id \in JobId : SF_vars(Dispatch({id}) /\ Observe)
  /\ \A id \in JobId : SF_vars((OnCompleted(id) \/ OnFailed(id)) /\ Observe)
  /\ \A id \in JobId : WF_vars(OnPreempted(id) /\ Observe)

FairSpec == Spec /\ Fairness

\* Every accepted job ends: no dependency is forgotten, no wake-up is lost.
EveryJobEnds ==
  \A id \in JobId : (id \in LiveJobs) ~> (id \in succeeded \cup doomed)
=============================================================================
