------------------------- MODULE SchedulerInvariant -------------------------
(***************************************************************************)
(* Proofs about the scheduling core, for every number of slots and         *)
(* generations, every set of job specifications and dependency lists.      *)
(*                                                                         *)
(* The inductive invariant speaks of the arena by slot index: Handle(i) is *)
(* the handle slot i's job has now, and a handle is Issued when the arena  *)
(* gave it out, whether or not its job is still there.                     *)
(***************************************************************************)
EXTENDS Scheduler, TLAPS, FiniteSetTheorems

Handle(i) == <<i, gen[i]>>

Issued(id) ==
  /\ id[1] < slots
  /\ id[2] < gen[id[1]] \/ (id[2] = gen[id[1]] /\ state[id[1]] # "Vacant")

Eligible == {"Ready", "Running", "Preempted"}

\* The states a job only gets to once its dependencies have completed
\* (Submitted, which no job is in between two calls, does no harm).
Past == {"Submitted", "Ready", "Running", "Preempted", "Completed", "Failed"}

-----------------------------------------------------------------------------
(* The inductive invariant.                                                *)

\* The free list runs through distinct vacant slots.
FreeListOK ==
  /\ freeHead # Nil => freeHead < slots /\ state[freeHead] = "Vacant"
  /\ \A i \in Index : i >= slots => state[i] = "Vacant" /\ gen[i] = 0
  /\ \A i \in Index : state[i] = "Vacant" /\ i < slots /\ nextFree[i] # Nil =>
       /\ nextFree[i] < slots
       /\ state[nextFree[i]] = "Vacant"
       /\ nextFree[i] # i
       /\ nextFree[i] # freeHead
  /\ \A i, j \in Index :
       /\ state[i] = "Vacant" /\ i < slots /\ nextFree[i] # Nil
       /\ state[j] = "Vacant" /\ j < slots /\ i # j
       => nextFree[i] # nextFree[j]

\* Exactly the jobs that are not over are tracked, each at its own index.
TrackedExact ==
  \A i \in Index :
    owner[i] = IF state[i] \in Terminal \cup {"Vacant"} THEN NoOwner ELSE Handle(i)

\* A reverse edge is kept by a tracked job and names a job that was issued; if
\* that one is still tracked it is Blocked, and on the keeper.
EdgesSound ==
  \A i \in Index : \A e \in dependents[i] :
    /\ owner[i] # NoOwner
    /\ Issued(e[1])
    /\ owner[e[1][1]] = e[1] =>
         /\ state[e[1][1]] = "Blocked"
         /\ e[2] \in DOMAIN job[e[1][1]].deps
         /\ job[e[1][1]].deps[e[2]] = owner[i]

\* Every pending dependency of a Blocked job keeps the edge.
EdgesComplete ==
  \A i \in Index : state[i] = "Blocked" =>
    \A k \in PendingIn(job[i].deps) :
      <<Handle(i), k>> \in dependents[job[i].deps[k][1]]

\* The counter of a Blocked job is the number of its pending dependencies.
CountExact ==
  \A i \in Index :
    /\ state[i] = "Blocked" => /\ PendingIn(job[i].deps) # {}
                               /\ unsatisfied[i] = Cardinality(PendingIn(job[i].deps))
    /\ state[i] # "Blocked" => unsatisfied[i] = 0

\* Dependencies were issued before the job that names them, unless the first
\* ones doomed the job and classify never looked at the others.
DepsIssued ==
  \A i \in Index : state[i] \notin {"Vacant", "Cancelled"} =>
    \A k \in DOMAIN job[i].deps : Issued(job[i].deps[k])

\* A dependency of a Blocked job has completed or is pending; of a job that
\* got further, it has completed.
DepsDone ==
  \A i \in Index : \A k \in DOMAIN job[i].deps :
    /\ state[i] \in Past => job[i].deps[k] \in succeeded
    /\ state[i] = "Blocked" =>
         job[i].deps[k] \in succeeded \/ k \in PendingIn(job[i].deps)

\* The histories hold issued handles, and agree with the state of a job that
\* is still in the arena.
HistoryExact ==
  /\ \A id \in succeeded \cup doomed : Issued(id)
  /\ succeeded \cap doomed = {}
  /\ \A i \in Index : state[i] # "Vacant" =>
       /\ Handle(i) \in succeeded <=> state[i] = "Completed"
       /\ Handle(i) \in doomed <=> state[i] \in {"Failed", "Cancelled"}

ReadyByIndex ==
  \A id \in JobId : id \in ready <=> id = Handle(id[1]) /\ state[id[1]] = "Ready"

ChargeByIndex ==
  \A id \in JobId :
    charge[id] = IF id = Handle(id[1]) /\ state[id[1]] \in Holding THEN 1 ELSE 0

ArenaInv   == TypeOK /\ FreeListOK
TrackerInv == TrackedExact /\ EdgesSound /\ EdgesComplete /\ CountExact
DepsInv    == DepsIssued /\ DepsDone /\ HistoryExact
IInv       == ArenaInv /\ TrackerInv /\ DepsInv /\ ReadyByIndex /\ ChargeByIndex

-----------------------------------------------------------------------------
(* Facts about handles.                                                    *)

\* A handle is the pair of its index and generation.
LEMMA HandlePair ==
  \A id \in JobId : /\ id[1] \in Index /\ id[2] \in Gen
                    /\ id = <<id[1], id[2]>>
BY DEF JobId

\* Indices, generations and sentinels are integers.
LEMMA IndexInt ==
  /\ \A i \in Index : i \in Int
  /\ \A g \in Gen : g \in Int
  /\ Nil \in Int /\ Nil \notin Index
  /\ NoOwner \notin JobId
BY BoundsAssumption DEF Index, Gen, Nil, NoOwner, JobId

\* Arena::get resolves a handle exactly when its slot is occupied and the
\* generation is the slot's own.
LEMMA LiveIsHandle ==
  ASSUME TypeOK, FreeListOK, NEW id \in JobId
  PROVE  /\ Live(id) <=> state[id[1]] # "Vacant" /\ id = Handle(id[1])
         /\ Live(id) => Issued(id)
<1>1. id[1] \in Index /\ id[2] \in Gen /\ id = <<id[1], id[2]>>
  BY HandlePair
<1>2. state[id[1]] # "Vacant" => id[1] < slots
  BY <1>1, IndexInt DEF FreeListOK, TypeOK
<1> QED
  BY <1>1, <1>2 DEF Live, Handle, Issued, TypeOK

\* The handle the next job gets was never issued before.
LEMMA NextIdFresh ==
  ASSUME TypeOK, FreeListOK, freeHead # Nil \/ slots < MaxSlots
  PROVE  /\ NextId \in JobId /\ NextId[1] \in Index
         /\ NextId = Handle(NextId[1])
         /\ state[NextId[1]] = "Vacant"
         /\ ~Issued(NextId)
<1>1. CASE freeHead # Nil
  <2>1. freeHead \in Index /\ gen[freeHead] \in Gen /\ state[freeHead] = "Vacant"
    BY <1>1 DEF TypeOK, FreeListOK
  <2>2. NextId = <<freeHead, gen[freeHead]>>
    BY <1>1 DEF NextId
  <2>3. NextId[1] = freeHead /\ NextId[2] = gen[freeHead] /\ NextId \in JobId
    BY <2>1, <2>2 DEF JobId
  <2>4. ~(NextId[2] < gen[NextId[1]])
    BY <2>1, <2>3, BoundsAssumption DEF Gen
  <2> QED
    BY <2>1, <2>2, <2>3, <2>4 DEF Handle, Issued
<1>2. CASE freeHead = Nil
  <2>1. slots \in Index /\ slots >= slots /\ 0 \in Gen
    BY <1>2, BoundsAssumption DEF TypeOK, Index, Gen
  <2>2. state[slots] = "Vacant" /\ gen[slots] = 0
    BY <2>1 DEF FreeListOK
  <2> QED
    BY <1>2, <2>1, <2>2 DEF NextId, JobId, Handle, Issued
<1> QED
  BY <1>1, <1>2

\* Every job specification list has an entry for a vacant slot.
LEMMA NoJobType == NoJob \in Job
BY JobSpecAssumption, BoundsAssumption DEF NoJob, Job

\* submit writes a job with its dependencies and no eviction.
LEMMA FreshJob ==
  ASSUME NEW spec \in JobSpec, NEW deps \in Seq(JobId)
  PROVE  LET value == [deps |-> deps, spec |-> spec, preemptions |-> 0]
         IN  value \in Job /\ value.deps = deps
BY BoundsAssumption DEF Job

\* A dependency list's pending positions are finitely many positions of it.
LEMMA PendingFinite ==
  ASSUME NEW deps \in Seq(JobId)
  PROVE  /\ PendingIn(deps) \subseteq DOMAIN deps
         /\ IsFiniteSet(PendingIn(deps))
         /\ Cardinality(PendingIn(deps)) \in Nat
         /\ Cardinality(PendingIn(deps)) = 0 <=> PendingIn(deps) = {}
<1>1. PendingIn(deps) \subseteq DOMAIN deps
  BY DEF PendingIn
<1>2. IsFiniteSet(1..Len(deps)) /\ DOMAIN deps = 1..Len(deps)
  BY FS_Interval
<1>3. IsFiniteSet(PendingIn(deps))
  BY <1>1, <1>2, FS_Subset
<1> QED
  BY <1>1, <1>3, FS_CardinalityType, FS_EmptySet

-----------------------------------------------------------------------------
(* The initial state.                                                      *)

\* The invariant holds when the daemon starts.
LEMMA InitIInv == Init => IInv
<1> SUFFICES ASSUME Init PROVE IInv
  OBVIOUS
<1> USE DEF Init, CoreInit
<1>1. TypeOK
  BY NoJobType, BoundsAssumption DEF TypeOK, Gen
<1>2. FreeListOK
  BY DEF FreeListOK
<1>3. TrackerInv
  BY FS_EmptySet DEF TrackerInv, TrackedExact, EdgesSound, EdgesComplete, CountExact, Terminal
<1>4. DepsInv
  BY DEF DepsInv, DepsIssued, DepsDone, HistoryExact, Past
<1>5. ReadyByIndex /\ ChargeByIndex
  <2>1. \A id \in JobId : state[id[1]] = "Vacant"
    BY HandlePair
  <2> QED
    BY <2>1 DEF ReadyByIndex, ChargeByIndex, Holding
<1> QED
  BY <1>1, <1>2, <1>3, <1>4, <1>5 DEF IInv, ArenaInv

-----------------------------------------------------------------------------
(* Steps that move eligible jobs between Ready, Running and Preempted and  *)
(* leave the arena and the tracker alone.                                  *)

Shuffle ==
  /\ UNCHANGED <<slots, gen, nextFree, freeHead, owner, unsatisfied, dependents>>
  /\ job' \in [Index -> Job]
  /\ \A i \in Index : job'[i].deps = job[i].deps
  /\ state' \in [Index -> JobState \cup {"Vacant"}]
  /\ \A i \in Index : state'[i] # state[i] => state[i] \in Eligible /\ state'[i] \in Eligible
  /\ ready' \subseteq JobId /\ charge' \in [JobId -> Int]
  /\ Observe

\* Such a step preserves all that the invariant says of the arena, the tracker
\* and the dependencies.
LEMMA ShuffleInv ==
  ASSUME IInv, Shuffle
  PROVE  ArenaInv' /\ TrackerInv' /\ DepsInv'
<1> USE DEF IInv, ArenaInv
<1>1. \A i \in Index : /\ state'[i] \in Terminal \cup {"Vacant", "Blocked"} <=>
                            state[i] \in Terminal \cup {"Vacant", "Blocked"}
                       /\ state[i] \in Terminal \cup {"Vacant", "Blocked"} => state'[i] = state[i]
                       /\ state'[i] \in Terminal \cup {"Vacant"} <=>
                            state[i] \in Terminal \cup {"Vacant"}
                       /\ state'[i] \in Terminal <=> state[i] \in Terminal
                       /\ state'[i] = "Vacant" <=> state[i] = "Vacant"
                       /\ state'[i] \in Past <=> state[i] \in Past
                       /\ state'[i] = "Blocked" <=> state[i] = "Blocked"
  BY DEF Shuffle, Eligible, Terminal, Past
<1>2. UNCHANGED <<slots, gen, nextFree, freeHead, owner, unsatisfied, dependents>>
  BY DEF Shuffle
<1>3. \A id \in JobId : /\ Live(id)' <=> Live(id)
                        /\ StateOf(id)' \in Terminal <=> StateOf(id) \in Terminal
  BY <1>1, <1>2, HandlePair DEF Live, StateOf
<1>4. \A deps \in Seq(JobId) : PendingIn(deps)' = PendingIn(deps)
  BY <1>3 DEF PendingIn
<1>5. \A i \in Index : job'[i].deps = job[i].deps /\ job[i].deps \in Seq(JobId)
  BY DEF Shuffle, TypeOK, Job
<1>6. \A id \in JobId : Issued(id)' <=> Issued(id)
  BY <1>1, <1>2, HandlePair DEF Issued
<1>7. succeeded' = succeeded /\ doomed' = doomed
  <2>1. ASSUME NEW id \in JobId, Live(id)', StateOf(id)' \in Terminal
        PROVE  /\ StateOf(id)' = "Completed" => id \in succeeded
               /\ StateOf(id)' \in {"Failed", "Cancelled"} => id \in doomed
    <3>1. Live(id) /\ StateOf(id)' = StateOf(id)
      BY <2>1, <1>1, <1>3, HandlePair DEF StateOf
    <3>2. id = Handle(id[1]) /\ state[id[1]] # "Vacant" /\ id[1] \in Index
      BY <3>1, LiveIsHandle, HandlePair
    <3> QED
      BY <3>1, <3>2 DEF HistoryExact, DepsInv, StateOf
  <2> QED
    BY <2>1 DEF Shuffle, Observe, Terminal
<1>8. TypeOK'
  BY <1>2, <1>7 DEF TypeOK, Shuffle
<1>9. FreeListOK'
  BY <1>1, <1>2 DEF FreeListOK, TypeOK
<1>10. TrackerInv'
  <2>1. TrackedExact'
    BY <1>1, <1>2 DEF TrackerInv, TrackedExact, Handle
  <2>2. EdgesSound'
    <3> SUFFICES ASSUME NEW i \in Index, NEW e \in dependents[i]
                 PROVE  /\ owner[i] # NoOwner
                        /\ Issued(e[1])'
                        /\ owner[e[1][1]] = e[1] =>
                             /\ state'[e[1][1]] = "Blocked"
                             /\ e[2] \in DOMAIN job'[e[1][1]].deps
                             /\ job'[e[1][1]].deps[e[2]] = owner[i]
      BY <1>2 DEF EdgesSound
    <3>1. e[1] \in JobId /\ e[1][1] \in Index
      BY HandlePair DEF TypeOK
    <3> QED
      BY <3>1, <1>1, <1>5, <1>6 DEF TrackerInv, EdgesSound
  <2>3. EdgesComplete'
    BY <1>1, <1>2, <1>4, <1>5 DEF TrackerInv, EdgesComplete, Handle
  <2>4. CountExact'
    BY <1>1, <1>2, <1>4, <1>5 DEF TrackerInv, CountExact
  <2> QED
    BY <2>1, <2>2, <2>3, <2>4 DEF TrackerInv
<1>11. DepsInv'
  <2>1. DepsIssued'
    <3> SUFFICES ASSUME NEW i \in Index, state'[i] \notin {"Vacant", "Cancelled"},
                        NEW k \in DOMAIN job[i].deps,
                        NEW d, d = job[i].deps[k]
                 PROVE  Issued(d)'
      BY <1>5 DEF DepsIssued, Issued
    <3>1. d \in JobId
      BY <1>5
    <3>2. state[i] \notin {"Vacant", "Cancelled"}
      BY <1>1 DEF Terminal
    <3> QED
      BY <3>1, <3>2, <1>6 DEF DepsInv, DepsIssued
  <2>2. DepsDone'
    BY <1>1, <1>4, <1>5, <1>7 DEF DepsInv, DepsDone
  <2>3. HistoryExact'
    <3>1. \A id \in succeeded \cup doomed : Issued(id)'
      BY <1>6 DEF DepsInv, HistoryExact, TypeOK
    <3>2. \A i \in Index : Handle(i)' = Handle(i)
      BY <1>2 DEF Handle
    <3> QED
      BY <3>1, <3>2, <1>1, <1>7 DEF DepsInv, HistoryExact, Terminal
  <2> QED
    BY <2>1, <2>2, <2>3 DEF DepsInv
<1> QED
  BY <1>8, <1>9, <1>10, <1>11

\* What Moved does to each slot, for live jobs.
LEMMA MovedState ==
  ASSUME TypeOK, FreeListOK, NEW J \in SUBSET JobId, \A id \in J : Live(id),
         NEW to \in JobState
  PROVE  /\ Moved(J, to) \in [Index -> JobState \cup {"Vacant"}]
         /\ \A id \in J : id = Handle(id[1]) /\ id[1] \in Index
         /\ \A i \in Index : /\ Handle(i) \in J => Moved(J, to)[i] = to
                             /\ Handle(i) \notin J => Moved(J, to)[i] = state[i]
BY LiveIsHandle, HandlePair DEF Moved, Handle, TypeOK

\* run_cycle's dispatches and restore_running keep the invariant.
LEMMA DispatchInv ==
  ASSUME IInv, NEW J \in SUBSET JobsIn({"Ready"}), Dispatch(J), Observe
  PROVE  Shuffle /\ IInv'
<1> USE DEF IInv, ArenaInv
<1>1. J \in SUBSET JobId /\ \A id \in J : Live(id) /\ state[id[1]] = "Ready"
  BY DEF JobsIn, LiveJobs, StateOf
<1>2. /\ state' \in [Index -> JobState \cup {"Vacant"}]
      /\ \A id \in J : id = Handle(id[1]) /\ id[1] \in Index
      /\ \A i \in Index : /\ Handle(i) \in J => state'[i] = "Running"
                          /\ Handle(i) \notin J => state'[i] = state[i]
  BY <1>1, MovedState DEF Dispatch, JobState
<1>3. UNCHANGED <<slots, gen, nextFree, freeHead, job, owner, unsatisfied, dependents>>
  BY DEF Dispatch, trackerVars
<1>4. charge' = Charged(J) /\ ready' = ready \ J
  BY DEF Dispatch
<1>5. Shuffle
  <2>1. \A i \in Index : Handle(i) \in J => state[i] = "Ready"
    BY <1>1 DEF Handle
  <2>2. ready' \subseteq JobId /\ charge' \in [JobId -> Int]
    BY <1>4 DEF TypeOK, Charged
  <2>3. job \in [Index -> Job]
    BY DEF TypeOK
  <2> QED
    BY <1>2, <1>3, <2>1, <2>2, <2>3 DEF Shuffle, Eligible
<1>6. ReadyByIndex'
  BY <1>1, <1>2, <1>3, <1>4, HandlePair DEF ReadyByIndex, Handle
<1>7. ChargeByIndex'
  <2> SUFFICES ASSUME NEW id \in JobId
               PROVE  charge'[id] = IF id = Handle(id[1])' /\ state'[id[1]] \in Holding THEN 1 ELSE 0
    BY DEF ChargeByIndex
  <2>1. Handle(id[1])' = Handle(id[1]) /\ id[1] \in Index
    BY <1>3, HandlePair DEF Handle
  <2>2. CASE id \in J
    <3>1. id = Handle(id[1]) /\ state[id[1]] = "Ready" /\ state'[id[1]] = "Running"
      BY <1>1, <1>2, <2>2
    <3>2. charge[id] = 0
      BY <3>1 DEF ChargeByIndex, Holding
    <3> QED
      BY <1>4, <2>1, <2>2, <3>1, <3>2 DEF Charged, Holding
  <2>3. CASE id \notin J
    BY <1>2, <1>4, <2>1, <2>3 DEF ChargeByIndex, Charged
  <2> QED
    BY <2>2, <2>3
<1> QED
  BY <1>5, <1>6, <1>7, ShuffleInv

\* preempt keeps the invariant: the job keeps its slot and its charge.
LEMMA PreemptInv ==
  ASSUME IInv, NEW J \in SUBSET JobsIn({"Running"}), Preempt(J), Observe
  PROVE  Shuffle /\ IInv'
<1> USE DEF IInv, ArenaInv
<1>1. J \in SUBSET JobId /\ \A id \in J : Live(id) /\ state[id[1]] = "Running"
  BY DEF JobsIn, LiveJobs, StateOf
<1>2. /\ state' \in [Index -> JobState \cup {"Vacant"}]
      /\ \A id \in J : id = Handle(id[1]) /\ id[1] \in Index
      /\ \A i \in Index : /\ Handle(i) \in J => state'[i] = "Preempted"
                          /\ Handle(i) \notin J => state'[i] = state[i]
  BY <1>1, MovedState DEF Preempt, JobState
<1>3. UNCHANGED <<slots, gen, nextFree, freeHead, job, owner, unsatisfied, dependents, ready, charge>>
  BY DEF Preempt, trackerVars
<1>4. \A i \in Index : Handle(i) \in J => state[i] = "Running"
  BY <1>1 DEF Handle
<1>5. Shuffle
  BY <1>2, <1>3, <1>4 DEF Shuffle, Eligible, TypeOK
<1>6. ReadyByIndex'
  BY <1>2, <1>3, <1>4, HandlePair DEF ReadyByIndex, Handle
<1>7. ChargeByIndex'
  BY <1>2, <1>3, <1>4, HandlePair DEF ChargeByIndex, Handle, Holding
<1> QED
  BY <1>5, <1>6, <1>7, ShuffleInv

\* So does every path back to the queue: requeue, on_preempted and the replay
\* of a restart, which differ in what they do to the eviction counts.
LEMMA BackToReadyInv ==
  ASSUME IInv, NEW J \in SUBSET JobsIn(Holding), BackToReady(J), Observe,
         job' \in [Index -> Job], \A i \in Index : job'[i].deps = job[i].deps
  PROVE  Shuffle /\ IInv'
<1> USE DEF IInv, ArenaInv
<1>1. J \in SUBSET JobId /\ \A id \in J : Live(id) /\ state[id[1]] \in Holding
  BY DEF JobsIn, LiveJobs, StateOf
<1>2. /\ state' \in [Index -> JobState \cup {"Vacant"}]
      /\ \A id \in J : id = Handle(id[1]) /\ id[1] \in Index
      /\ \A i \in Index : /\ Handle(i) \in J => state'[i] = "Ready"
                          /\ Handle(i) \notin J => state'[i] = state[i]
  BY <1>1, MovedState DEF BackToReady, JobState
<1>3. UNCHANGED <<slots, gen, nextFree, freeHead, owner, unsatisfied, dependents>>
  BY DEF BackToReady, trackerVars
<1>4. charge' = Released(J) /\ ready' = ready \cup J
  BY DEF BackToReady
<1>5. Shuffle
  <2>1. \A i \in Index : Handle(i) \in J => state[i] \in Holding
    BY <1>1 DEF Handle
  <2>2. ready' \subseteq JobId /\ charge' \in [JobId -> Int]
    BY <1>1, <1>4 DEF TypeOK, Released
  <2> QED
    BY <1>2, <1>3, <2>1, <2>2 DEF Shuffle, Eligible, Holding
<1>6. ReadyByIndex'
  BY <1>1, <1>2, <1>3, <1>4, HandlePair DEF ReadyByIndex, Handle
<1>7. ChargeByIndex'
  <2> SUFFICES ASSUME NEW id \in JobId
               PROVE  charge'[id] = IF id = Handle(id[1])' /\ state'[id[1]] \in Holding THEN 1 ELSE 0
    BY DEF ChargeByIndex
  <2>1. Handle(id[1])' = Handle(id[1]) /\ id[1] \in Index
    BY <1>3, HandlePair DEF Handle
  <2>2. CASE id \in J
    <3>1. id = Handle(id[1]) /\ state[id[1]] \in Holding /\ state'[id[1]] = "Ready"
      BY <1>1, <1>2, <2>2
    <3>2. charge[id] = 1
      BY <3>1 DEF ChargeByIndex
    <3> QED
      BY <1>4, <2>1, <2>2, <3>1, <3>2 DEF Released, Holding
  <2>3. CASE id \notin J
    BY <1>2, <1>4, <2>1, <2>3 DEF ChargeByIndex, Released
  <2> QED
    BY <2>2, <2>3
<1> QED
  BY <1>5, <1>6, <1>7, ShuffleInv

-----------------------------------------------------------------------------
(* The histories.                                                          *)

\* LiveIsHandle, of the state after a step.
LEMMA LiveIsHandleNext ==
  ASSUME TypeOK', FreeListOK', NEW id \in JobId
  PROVE  /\ Live(id)' <=> state'[id[1]] # "Vacant" /\ id = Handle(id[1])'
         /\ Live(id)' => Issued(id)'
<1>1. id[1] \in Index /\ id[2] \in Gen /\ id = <<id[1], id[2]>>
  BY HandlePair
<1>2. state'[id[1]] # "Vacant" => id[1] < slots'
  BY <1>1, IndexInt DEF FreeListOK, TypeOK
<1> QED
  BY <1>1, <1>2 DEF Live, Handle, Issued, TypeOK

\* A step adds to the histories the handles of the jobs it leaves terminal.
LEMMA Histories ==
  ASSUME TypeOK, TypeOK', FreeListOK', Observe, NEW id \in JobId
  PROVE  /\ id \in succeeded' <=>
              id \in succeeded \/ (id = Handle(id[1])' /\ state'[id[1]] = "Completed")
         /\ id \in doomed' <=>
              id \in doomed \/ (id = Handle(id[1])' /\ state'[id[1]] \in {"Failed", "Cancelled"})
BY LiveIsHandleNext DEF Observe, StateOf

\* Terminal jobs stay as they are, and a slot that is filled gets a handle that
\* was never issued: then the histories stay exact.
LEMMA HistoryStep ==
  ASSUME TypeOK, HistoryExact, TypeOK', FreeListOK', Observe,
         \A id \in JobId : Issued(id) => Issued(id)',
         \A i \in Index : \A h \in JobId :
           state'[i] # "Vacant" /\ h = Handle(i)' =>
             \/ ~Issued(h)
             \/ h = Handle(i) /\ state[i] # "Vacant" /\ (state[i] \in Terminal => state'[i] = state[i])
  PROVE  HistoryExact'
<1>1. \A i \in Index : Handle(i)' \in JobId /\ Handle(i)'[1] = i
  BY DEF Handle, JobId, TypeOK
<1>2. ASSUME NEW id \in JobId, state'[id[1]] # "Vacant", id = Handle(id[1])'
      PROVE  /\ id \in succeeded => state'[id[1]] = "Completed"
             /\ id \in doomed => state'[id[1]] \in {"Failed", "Cancelled"}
  <2>1. id[1] \in Index
    BY HandlePair
  <2>2. CASE ~Issued(id)
    BY <2>2 DEF HistoryExact
  <2>3. CASE id = Handle(id[1]) /\ state[id[1]] # "Vacant"
               /\ (state[id[1]] \in Terminal => state'[id[1]] = state[id[1]])
    BY <2>1, <2>3 DEF HistoryExact, Terminal
  <2> QED
    BY <1>2, <2>1, <2>2, <2>3
<1>3. \A id \in succeeded' \cup doomed' : Issued(id)'
  <2> SUFFICES ASSUME NEW id \in JobId, id \in succeeded' \cup doomed' PROVE Issued(id)'
    BY DEF TypeOK
  <2>1. CASE id \in succeeded \cup doomed
    BY <2>1 DEF HistoryExact
  <2>2. CASE id = Handle(id[1])' /\ state'[id[1]] \in Terminal
    <3>1. Live(id)'
      BY <2>2, LiveIsHandleNext DEF Terminal
    <3> QED
      BY <3>1, LiveIsHandleNext
  <2> QED
    BY <2>1, <2>2, Histories DEF Terminal
<1>4. succeeded' \cap doomed' = {}
  <2> SUFFICES ASSUME NEW id \in JobId, id \in succeeded', id \in doomed' PROVE FALSE
    BY DEF TypeOK
  <2> QED
    BY <1>2, Histories DEF HistoryExact
<1>5. ASSUME NEW i \in Index, state'[i] # "Vacant"
      PROVE  /\ Handle(i)' \in succeeded' <=> state'[i] = "Completed"
             /\ Handle(i)' \in doomed' <=> state'[i] \in {"Failed", "Cancelled"}
  <2> DEFINE h == Handle(i)'
  <2>1. h \in JobId /\ h[1] = i
    BY <1>1
  <2> QED
    BY <1>2, <1>5, <2>1, Histories
<1> QED
  BY <1>3, <1>4, <1>5 DEF HistoryExact

-----------------------------------------------------------------------------
(* Forgetting a terminal job.                                              *)

\* Arena::remove keeps the free list well formed and every handle issued.
LEMMA ForgetInv ==
  ASSUME IInv, NEW id \in JobId, Forget(id), Observe
  PROVE  IInv'
<1> USE DEF IInv, ArenaInv
<1> DEFINE n == id[1]
<1>1. /\ n \in Index /\ n \in Int /\ gen[n] \in Gen /\ id = Handle(n)
      /\ state[n] \in Terminal /\ n < slots /\ gen[n] < MaxGen
  BY HandlePair, IndexInt, LiveIsHandle DEF Forget, StateOf, TypeOK, Live
<1>2. /\ state' = [state EXCEPT ![n] = "Vacant"]
      /\ job' = [job EXCEPT ![n] = NoJob]
      /\ gen' = [gen EXCEPT ![n] = @ + 1]
      /\ nextFree' = [nextFree EXCEPT ![n] = freeHead]
      /\ freeHead' = n
      /\ UNCHANGED <<slots, owner, unsatisfied, dependents, ready, charge>>
  BY DEF Forget, ArenaRemove, trackerVars
<1>3. TypeOK'
  <2>1. gen[n] + 1 \in Gen
    BY <1>1, BoundsAssumption DEF Gen
  <2> QED
    BY <1>1, <1>2, <2>1, NoJobType DEF TypeOK, Observe
<1>4. FreeListOK'
  <2>1. slots \in Int /\ freeHead \in Int /\ n # Nil /\ n # freeHead
    BY <1>1, IndexInt DEF TypeOK, FreeListOK, Terminal
  <2>2. /\ freeHead' < slots' /\ state'[freeHead'] = "Vacant"
        /\ \A i \in Index : i >= slots' => state'[i] = "Vacant" /\ gen'[i] = 0
    BY <1>1, <1>2, <2>1, IndexInt DEF FreeListOK, TypeOK
  <2>3. \A i \in Index : state'[i] = "Vacant" /\ i < slots' /\ nextFree'[i] # Nil =>
          /\ nextFree'[i] < slots' /\ state'[nextFree'[i]] = "Vacant"
          /\ nextFree'[i] # i /\ nextFree'[i] # freeHead'
    BY <1>1, <1>2, <2>1 DEF FreeListOK, TypeOK, Terminal
  <2>4. \A i, j \in Index :
          /\ state'[i] = "Vacant" /\ i < slots' /\ nextFree'[i] # Nil
          /\ state'[j] = "Vacant" /\ j < slots' /\ i # j
          => nextFree'[i] # nextFree'[j]
    BY <1>1, <1>2, <2>1 DEF FreeListOK, TypeOK, Terminal
  <2> QED
    BY <2>2, <2>3, <2>4 DEF FreeListOK
<1>5. \A x \in JobId : Issued(x)' <=> Issued(x)
  <2> SUFFICES ASSUME NEW x \in JobId PROVE Issued(x)' <=> Issued(x)
    OBVIOUS
  <2>1. x[1] \in Index /\ x[2] \in Int /\ gen[x[1]] \in Int
    BY HandlePair, IndexInt DEF TypeOK
  <2> QED
    BY <1>1, <1>2, <2>1 DEF Issued, TypeOK, Terminal
<1>6. \A i \in Index : i # n => state'[i] = state[i] /\ job'[i] = job[i] /\ Handle(i)' = Handle(i)
  BY <1>1, <1>2 DEF TypeOK, Handle
<1>7. state'[n] = "Vacant" /\ job'[n].deps = <<>>
  BY <1>1, <1>2 DEF TypeOK, NoJob
<1>8. \A deps \in Seq(JobId) : PendingIn(deps)' = PendingIn(deps)
  <2>1. ASSUME NEW x \in JobId
        PROVE  Live(x)' /\ StateOf(x)' \notin Terminal <=> Live(x) /\ StateOf(x) \notin Terminal
    BY <1>1, <1>6, <1>7, <1>3, <1>4, HandlePair, LiveIsHandle, LiveIsHandleNext DEF StateOf, Terminal
  <2> QED
    BY <2>1 DEF PendingIn
<1>9. TrackerInv'
  <2>1. TrackedExact'
    BY <1>1, <1>2, <1>6, <1>7 DEF TrackerInv, TrackedExact
  <2>2. EdgesSound'
    <3> SUFFICES ASSUME NEW i \in Index, NEW e \in dependents[i]
                 PROVE  /\ owner[i] # NoOwner
                        /\ Issued(e[1])'
                        /\ owner[e[1][1]] = e[1] =>
                             /\ state'[e[1][1]] = "Blocked"
                             /\ e[2] \in DOMAIN job'[e[1][1]].deps
                             /\ job'[e[1][1]].deps[e[2]] = owner[i]
      BY <1>2 DEF EdgesSound
    <3>1. e[1] \in JobId /\ e[1][1] \in Index
      BY HandlePair DEF TypeOK
    <3>2. state[e[1][1]] = "Blocked" => e[1][1] # n
      BY <1>1 DEF Terminal
    <3> QED
      BY <3>1, <3>2, <1>5, <1>6 DEF TrackerInv, EdgesSound
  <2>3. \A i \in Index : state'[i] = "Blocked" => i # n /\ state[i] = "Blocked"
    BY <1>6, <1>7
  <2>4. \A i \in Index : job[i].deps \in Seq(JobId)
    BY DEF TypeOK, Job
  <2>5. EdgesComplete'
    BY <1>2, <1>6, <1>8, <2>3, <2>4 DEF TrackerInv, EdgesComplete
  <2>6. CountExact'
    <3>1. \A i \in Index : state'[i] # "Blocked" => state[i] # "Blocked"
      BY <1>1, <1>6 DEF Terminal
    <3> QED
      BY <1>2, <1>6, <1>8, <2>3, <2>4, <3>1 DEF TrackerInv, CountExact
  <2> QED
    BY <2>1, <2>2, <2>5, <2>6 DEF TrackerInv
<1>10. HistoryExact'
  <2>1. \A i \in Index : state'[i] # "Vacant" => i # n
    BY <1>7
  <2> QED
    BY <1>3, <1>4, <1>5, <1>6, <2>1, HistoryStep DEF DepsInv
<1>11. DepsInv'
  <2>1. \A i \in Index : job[i].deps \in Seq(JobId)
    BY DEF TypeOK, Job
  <2>2. DepsIssued'
    <3> SUFFICES ASSUME NEW i \in Index, state'[i] \notin {"Vacant", "Cancelled"},
                        NEW k \in DOMAIN job'[i].deps,
                        NEW d, d = job'[i].deps[k]
                 PROVE  Issued(d)'
      BY DEF DepsIssued, Issued
    <3>1. i # n /\ state[i] \notin {"Vacant", "Cancelled"} /\ job'[i] = job[i]
      BY <1>6, <1>7
    <3> QED
      BY <3>1, <2>1, <1>5 DEF DepsInv, DepsIssued
  <2>3. succeeded \subseteq succeeded'
    BY DEF Observe
  <2>4. DepsDone'
    BY <1>6, <1>7, <1>8, <2>1, <2>3 DEF DepsInv, DepsDone, Past
  <2> QED
    BY <2>2, <2>4, <1>10 DEF DepsInv
<1>12. ReadyByIndex' /\ ChargeByIndex'
  <2> SUFFICES ASSUME NEW x \in JobId
               PROVE  /\ x = Handle(x[1])' /\ state'[x[1]] = "Ready" <=>
                           x = Handle(x[1]) /\ state[x[1]] = "Ready"
                      /\ x = Handle(x[1])' /\ state'[x[1]] \in Holding <=>
                           x = Handle(x[1]) /\ state[x[1]] \in Holding
    BY <1>2 DEF ReadyByIndex, ChargeByIndex
  <2> QED
    BY <1>1, <1>6, <1>7, HandlePair DEF Terminal, Holding
<1> QED
  BY <1>3, <1>4, <1>9, <1>11, <1>12

=============================================================================
