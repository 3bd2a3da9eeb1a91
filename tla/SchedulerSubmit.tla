-------------------------- MODULE SchedulerSubmit ---------------------------
(***************************************************************************)
(* submit keeps the inductive invariant: the arena slot it takes, what     *)
(* classify decides from the dependency list, and the edges it registers.  *)
(***************************************************************************)
EXTENDS SchedulerInvariant

(* Submitting a job.                                                       *)

\* A list that classify accepts without dooming the job names current jobs
\* only, other than the new one; each has completed or is tracked.
LEMMA ClassifyAccepts ==
  ASSUME IInv, NEW id \in JobId, state[id[1]] = "Vacant", NEW deps \in Seq(JobId),
         Classify(id, deps) \in {"Blocked", "Ready"}
  PROVE  /\ \A k \in DOMAIN deps :
              /\ deps[k] = Handle(deps[k][1]) /\ deps[k][1] \in Index /\ deps[k][1] # id[1]
              /\ Live(deps[k])
              /\ k \in PendingIn(deps) => owner[deps[k][1]] = deps[k]
              /\ k \notin PendingIn(deps) => deps[k] \in succeeded
         /\ Classify(id, deps) = "Blocked" <=> PendingIn(deps) # {}
<1> USE DEF IInv, ArenaInv
<1> DEFINE decisive == {k \in DOMAIN deps :
                          \/ deps[k] = id \/ ~Live(deps[k])
                          \/ StateOf(deps[k]) \in {"Failed", "Cancelled"}}
<1>1. decisive = {}
  BY DEF Classify
<1>2. Classify(id, deps) = IF PendingIn(deps) # {} THEN "Blocked" ELSE "Ready"
  BY <1>1 DEF Classify
<1>3. ASSUME NEW k \in DOMAIN deps
      PROVE  /\ deps[k] = Handle(deps[k][1]) /\ deps[k][1] \in Index /\ deps[k][1] # id[1]
             /\ Live(deps[k])
             /\ k \in PendingIn(deps) => owner[deps[k][1]] = deps[k]
             /\ k \notin PendingIn(deps) => deps[k] \in succeeded
  <2>1. deps[k] \in JobId /\ Live(deps[k]) /\ StateOf(deps[k]) \notin {"Failed", "Cancelled"}
    BY <1>1, <1>3
  <2>2. /\ deps[k] = Handle(deps[k][1]) /\ deps[k][1] \in Index
        /\ state[deps[k][1]] # "Vacant"
    BY <2>1, LiveIsHandle, HandlePair
  <2>3. k \in PendingIn(deps) => owner[deps[k][1]] = deps[k]
    BY <2>1, <2>2 DEF PendingIn, StateOf, TrackerInv, TrackedExact
  <2>4. k \notin PendingIn(deps) => state[deps[k][1]] = "Completed"
    BY <2>1 DEF PendingIn, StateOf, Terminal
  <2>5. k \notin PendingIn(deps) => deps[k] \in succeeded
    BY <2>2, <2>4 DEF DepsInv, HistoryExact
  <2> QED
    BY <2>1, <2>2, <2>3, <2>5
<1> QED
  BY <1>2, <1>3

\* classify's verdicts.
LEMMA ClassifyRange ==
  ASSUME NEW id, NEW deps
  PROVE  Classify(id, deps) \in {"DependencyError", "Cancelled", "Blocked", "Ready"}
<1> DEFINE Unknown(k) == deps[k] = id \/ ~Live(deps[k])
           Doomed(k)  == StateOf(deps[k]) \in {"Failed", "Cancelled"}
           decisive   == {k \in DOMAIN deps : Unknown(k) \/ Doomed(k)}
           first      == CHOOSE k \in decisive : \A j \in decisive : k <= j
<1>1. Classify(id, deps) = IF decisive # {}
                             THEN IF Unknown(first) THEN "DependencyError" ELSE "Cancelled"
                             ELSE IF PendingIn(deps) # {} THEN "Blocked" ELSE "Ready"
  BY DEF Classify
<1> HIDE DEF Unknown, decisive, first
<1> QED
  BY <1>1

\* Registering such a job adopts nothing: every pending dependency is tracked
\* already, so only the job's own index and the new edges change.
LEMMA RegisterByIndex ==
  ASSUME IInv, NEW id \in JobId, id = Handle(id[1]), state[id[1]] = "Vacant",
         NEW deps \in Seq(JobId), Classify(id, deps) \in {"Blocked", "Ready"},
         Register(id, deps)
  PROVE  /\ owner' = [owner EXCEPT ![id[1]] = id]
         /\ unsatisfied' = [unsatisfied EXCEPT ![id[1]] = Cardinality(PendingIn(deps))]
         /\ dependents' \in [Index -> SUBSET (JobId \X Nat)]
         /\ dependents'[id[1]] = {}
         /\ \A i \in Index : i # id[1] =>
              \A e : e \in dependents'[i] <=>
                e \in dependents[i] \/ \E k \in PendingIn(deps) : e = <<id, k>> /\ deps[k][1] = i
<1> USE DEF IInv, ArenaInv
<1> DEFINE pending    == PendingIn(deps)
           EdgesAt(i) == {k \in pending : deps[k][1] = i}
           Adopted(i) == \E k \in EdgesAt(i) : owner[i] # deps[k]
           Kept(i)    == IF i = id[1] \/ Adopted(i) THEN {} ELSE dependents[i]
           New(i)     == {<<id, k>> : k \in EdgesAt(i)}
<1>1. owner' = [i \in Index |-> IF i = id[1] THEN id
                                ELSE IF EdgesAt(i) # {} THEN <<i, gen[i]>> ELSE owner[i]]
  BY DEF Register
<1>17. unsatisfied' = [i \in Index |-> IF i = id[1] THEN Cardinality(pending)
                                      ELSE IF Adopted(i) THEN 0 ELSE unsatisfied[i]]
  BY DEF Register
<1>18. dependents' = [i \in Index |-> Kept(i) \cup New(i)]
  BY DEF Register
<1>2. id[1] \in Index
  BY HandlePair
<1>3. \A k \in pending : /\ deps[k][1] # id[1] /\ deps[k][1] \in Index
                         /\ owner[deps[k][1]] = deps[k] /\ deps[k] = Handle(deps[k][1])
                         /\ k \in Nat
  BY ClassifyAccepts DEF PendingIn
<1>4. \A i \in Index : ~Adopted(i)
  BY <1>3
<1>5. \A i \in Index : EdgesAt(i) # {} => owner[i] = <<i, gen[i]>>
  BY <1>3 DEF Handle
<1>6. EdgesAt(id[1]) = {}
  BY <1>3
<1>7. \A i \in Index : New(i) \subseteq JobId \X Nat
  BY <1>3
<1>8. \A i \in Index : Kept(i) = IF i = id[1] THEN {} ELSE dependents[i]
  BY <1>4
<1>9. New(id[1]) = {}
  BY <1>6
<1>10. \A i \in Index : \A e : e \in New(i) <=> \E k \in PendingIn(deps) : e = <<id, k>> /\ deps[k][1] = i
  OBVIOUS
<1> HIDE DEF EdgesAt, Adopted
<1>11. owner' = [owner EXCEPT ![id[1]] = id]
  <2>1. owner \in [Index -> JobId \cup {NoOwner}]
    BY DEF TypeOK
  <2>2. \A i \in Index : owner'[i] = IF i = id[1] THEN id ELSE owner[i]
    BY <1>1, <1>5
  <2> QED
    BY <1>1, <1>2, <2>1, <2>2, ZenonT(30)
<1> HIDE DEF pending
<1>12. unsatisfied' = [unsatisfied EXCEPT ![id[1]] = Cardinality(pending)]
  <2>1. unsatisfied \in [Index -> Nat]
    BY DEF TypeOK
  <2>2. \A i \in Index : unsatisfied'[i] = IF i = id[1] THEN Cardinality(pending) ELSE unsatisfied[i]
    BY <1>17, <1>4
  <2> QED
    BY <1>17, <1>2, <2>1, <2>2, ZenonT(30)
<1> HIDE DEF Kept, New
<1>13. dependents' \in [Index -> SUBSET (JobId \X Nat)]
  <2>1. \A i \in Index : dependents[i] \subseteq JobId \X Nat
    BY DEF TypeOK
  <2>2. \A i \in Index : Kept(i) \subseteq JobId \X Nat
    BY <1>8, <2>1
  <2>3. \A i \in Index : Kept(i) \cup New(i) \in SUBSET (JobId \X Nat)
    BY <1>7, <2>2
  <2> QED
    BY <1>18, <2>3
<1>14. dependents'[id[1]] = {}
  BY <1>18, <1>2, <1>8, <1>9
<1>15. \A i \in Index : i # id[1] => dependents'[i] = dependents[i] \cup New(i)
  BY <1>18, <1>8
<1>16. \A i \in Index : i # id[1] =>
         \A e : e \in dependents'[i] <=>
           e \in dependents[i] \/ \E k \in PendingIn(deps) : e = <<id, k>> /\ deps[k][1] = i
  BY <1>10, <1>15
<1> QED
  BY <1>11, <1>12, <1>13, <1>14, <1>16 DEF pending

\* Arena::insert keeps the free list well formed.
LEMMA InsertFreeList ==
  ASSUME TypeOK, FreeListOK, freeHead # Nil \/ slots < MaxSlots,
         NEW to \in JobState, NEW value \in Job,
         ArenaInsert(value), state' = [state EXCEPT ![NextId[1]] = to]
  PROVE  /\ FreeListOK'
         /\ slots' \in 0..MaxSlots /\ freeHead' \in Index \cup {Nil}
         /\ slots <= slots' /\ NextId[1] < slots'
         /\ \A i \in Index : i # NextId[1] => (i < slots' <=> i < slots)
<1> DEFINE n == NextId[1]
<1>1. n \in Index /\ n \in Int /\ state[n] = "Vacant" /\ to # "Vacant"
  BY NextIdFresh, IndexInt DEF JobState
<1>2. /\ UNCHANGED <<gen, nextFree>> /\ slots \in Int
      /\ state'[n] = to /\ \A i \in Index : i # n => state'[i] = state[i]
  BY <1>1 DEF ArenaInsert, TypeOK
<1>3. \A i \in Index : i \in Int
  BY IndexInt
<1>4. CASE freeHead # Nil
  <2>1. n = freeHead /\ slots' = slots /\ freeHead' = nextFree[n]
    BY <1>4 DEF NextId, ArenaInsert
  <2>2. n < slots
    BY <1>4, <2>1 DEF FreeListOK
  <2>3. freeHead' # Nil => freeHead' \in Index /\ freeHead' < slots /\ freeHead' # n /\ state[freeHead'] = "Vacant"
    BY <1>1, <2>1, <2>2 DEF FreeListOK, TypeOK
  <2>4. \A i \in Index : state'[i] = "Vacant" /\ i < slots /\ nextFree[i] # Nil =>
          /\ i # n /\ nextFree[i] < slots /\ nextFree[i] # i
          /\ nextFree[i] \in Index /\ state[nextFree[i]] = "Vacant"
          /\ nextFree[i] # n /\ nextFree[i] # freeHead'
    BY <1>1, <1>2, <2>1, <2>2 DEF FreeListOK, TypeOK
  <2>5. FreeListOK'
    BY <1>1, <1>2, <2>1, <2>2, <2>3, <2>4 DEF FreeListOK
  <2> QED
    BY <1>1, <1>3, <2>1, <2>2, <2>3, <2>5 DEF TypeOK
<1>5. CASE freeHead = Nil
  <2>1. n = slots /\ slots' = slots + 1 /\ freeHead' = Nil /\ slots < MaxSlots
    BY <1>5 DEF NextId, ArenaInsert
  <2>2. \A i \in Index : i # n => (i < slots' <=> i < slots)
    BY <1>2, <1>3, <2>1
  <2>3. \A i \in Index : i >= slots' => i >= slots /\ i # n
    BY <1>2, <1>3, <2>1
  <2>4. \A i \in Index : state'[i] = "Vacant" => i # n
    BY <1>1, <1>2
  <2>5. \A i \in Index : state[i] = "Vacant" /\ i < slots /\ nextFree[i] # Nil =>
          nextFree[i] < slots /\ nextFree[i] # n /\ nextFree[i] < slots'
    BY <1>2, <1>3, <2>1 DEF FreeListOK, TypeOK
  <2>6. FreeListOK'
    BY <1>1, <1>2, <2>1, <2>2, <2>3, <2>4, <2>5 DEF FreeListOK, TypeOK
  <2>7. slots' \in 0..MaxSlots
    BY <2>1, BoundsAssumption DEF TypeOK
  <2> QED
    BY <1>2, <2>1, <2>2, <2>6, <2>7
<1> QED
  BY <1>4, <1>5

\* What a submission does to the tracker, whatever classify said.
LEMMA SubmitTracker ==
  ASSUME IInv, NEW spec \in JobSpec, NEW deps \in Seq(JobId), Submit(spec, deps)
  PROVE  LET n    == NextId[1]
             next == Classify(NextId, deps)
         IN  /\ owner' \in [Index -> JobId \cup {NoOwner}]
             /\ unsatisfied' \in [Index -> Nat]
             /\ dependents' \in [Index -> SUBSET (JobId \X Nat)]
             /\ \A i \in Index : i # n => owner'[i] = owner[i] /\ unsatisfied'[i] = unsatisfied[i]
             /\ owner'[n] = IF next = "Cancelled" THEN NoOwner ELSE NextId
             /\ unsatisfied'[n] = IF next = "Blocked" THEN Cardinality(PendingIn(deps)) ELSE 0
             /\ dependents'[n] = {}
             /\ \A i \in Index : i # n => \A e : e \in dependents'[i] <=>
                  \/ e \in dependents[i]
                  \/ next = "Blocked" /\ \E k \in PendingIn(deps) : e = <<NextId, k>> /\ deps[k][1] = i
<1> USE DEF IInv, ArenaInv
<1> DEFINE id   == NextId
           n    == NextId[1]
           next == Classify(NextId, deps)
<1>1. /\ id \in JobId /\ n \in Index /\ id = Handle(n) /\ state[n] = "Vacant"
  BY NextIdFresh DEF Submit
<1>2. next \in {"Cancelled", "Blocked", "Ready"}
  BY ClassifyRange DEF Submit
<1>3. IF next = "Cancelled" THEN UNCHANGED trackerVars ELSE Register(id, deps)
  BY DEF Submit
<1>4. /\ owner[n] = NoOwner /\ unsatisfied[n] = 0 /\ dependents[n] = {}
  BY <1>1 DEF TrackerInv, TrackedExact, CountExact, EdgesSound
<1> HIDE DEF id, n, next
<1>5. CASE next = "Cancelled"
  <2>1. UNCHANGED <<owner, unsatisfied, dependents>>
    BY <1>3, <1>5 DEF trackerVars
  <2> QED
    BY <1>4, <1>5, <2>1, ZenonT(30) DEF TypeOK, id, n, next
<1>6. CASE next \in {"Blocked", "Ready"}
  <2>1. Register(id, deps) /\ Classify(id, deps) \in {"Blocked", "Ready"} /\ id[1] = n
    BY <1>3, <1>6 DEF id, n, next
  <2>2. /\ owner' = [owner EXCEPT ![n] = id]
        /\ unsatisfied' = [unsatisfied EXCEPT ![n] = Cardinality(PendingIn(deps))]
        /\ dependents' \in [Index -> SUBSET (JobId \X Nat)]
        /\ dependents'[n] = {}
        /\ \A i \in Index : i # n =>
             \A e : e \in dependents'[i] <=>
               e \in dependents[i] \/ \E k \in PendingIn(deps) : e = <<id, k>> /\ deps[k][1] = i
    BY <1>1, <2>1, RegisterByIndex
  <2>3. Cardinality(PendingIn(deps)) \in Nat /\ (PendingIn(deps) = {} => Cardinality(PendingIn(deps)) = 0)
    BY PendingFinite
  <2>4. next = "Blocked" <=> PendingIn(deps) # {}
    BY <1>1, <2>1, ClassifyAccepts DEF id, next
  <2>5. owner' \in [Index -> JobId \cup {NoOwner}] /\ unsatisfied' \in [Index -> Nat]
    BY <1>1, <2>2, <2>3 DEF TypeOK
  <2>6. \A i \in Index : i # n => owner'[i] = owner[i] /\ unsatisfied'[i] = unsatisfied[i]
    BY <2>2, ZenonT(30) DEF TypeOK
  <2>7. owner'[n] = id /\ unsatisfied'[n] = Cardinality(PendingIn(deps))
    BY <1>1, <2>2 DEF TypeOK
  <2>8. unsatisfied'[n] = IF next = "Blocked" THEN Cardinality(PendingIn(deps)) ELSE 0
    BY <2>3, <2>4, <2>7
  <2>9. owner'[n] = IF next = "Cancelled" THEN NoOwner ELSE id
    BY <1>6, <2>7
  <2>10. \A i \in Index : i # n => \A e : e \in dependents'[i] <=>
           \/ e \in dependents[i]
           \/ next = "Blocked" /\ \E k \in PendingIn(deps) : e = <<id, k>> /\ deps[k][1] = i
    BY <2>2, <2>4
  <2> QED
    BY <2>2, <2>5, <2>6, <2>8, <2>9, <2>10, ZenonT(30) DEF id, n, next
<1> QED
  BY <1>2, <1>5, <1>6

\* submit keeps the invariant.
LEMMA SubmitInv ==
  ASSUME IInv, NEW spec \in JobSpec, NEW deps \in Seq(JobId), Submit(spec, deps), Observe
  PROVE  IInv'
<1> USE DEF IInv, ArenaInv
<1> DEFINE id   == NextId
           n    == NextId[1]
           next == Classify(NextId, deps)
           value == [deps |-> deps, spec |-> spec, preemptions |-> 0]
<1>1. id \in JobId /\ n \in Index /\ id = Handle(n) /\ state[n] = "Vacant" /\ ~Issued(id)
  BY NextIdFresh DEF Submit
<1>2. next \in {"Cancelled", "Blocked", "Ready"}
  BY ClassifyRange DEF Submit
<1>3. value \in Job /\ value.deps = deps
  BY FreshJob
<1>4. /\ state' = [state EXCEPT ![n] = next]
      /\ job' = [job EXCEPT ![n] = value]
      /\ ready' = IF next = "Ready" THEN ready \cup {id} ELSE ready
      /\ UNCHANGED <<gen, nextFree, charge>>
  BY DEF Submit, ArenaInsert
<1>5. /\ owner' \in [Index -> JobId \cup {NoOwner}]
      /\ unsatisfied' \in [Index -> Nat]
      /\ dependents' \in [Index -> SUBSET (JobId \X Nat)]
      /\ \A i \in Index : i # n => owner'[i] = owner[i] /\ unsatisfied'[i] = unsatisfied[i]
      /\ owner'[n] = IF next = "Cancelled" THEN NoOwner ELSE id
      /\ unsatisfied'[n] = IF next = "Blocked" THEN Cardinality(PendingIn(deps)) ELSE 0
      /\ dependents'[n] = {}
      /\ \A i \in Index : i # n => \A e : e \in dependents'[i] <=>
           \/ e \in dependents[i]
           \/ next = "Blocked" /\ \E k \in PendingIn(deps) : e = <<id, k>> /\ deps[k][1] = i
  BY SubmitTracker
<1>6. /\ FreeListOK'
      /\ slots' \in 0..MaxSlots /\ freeHead' \in Index \cup {Nil}
      /\ slots <= slots' /\ n < slots'
      /\ \A i \in Index : i # n => (i < slots' <=> i < slots)
  <2>1. next \in JobState /\ ArenaInsert(value) /\ (freeHead # Nil \/ slots < MaxSlots)
    BY <1>2 DEF JobState, Submit
  <2> HIDE DEF value, next
  <2> QED
    BY <1>3, <1>4, <2>1, InsertFreeList, ZenonT(30)
<1>7. next \in {"Blocked", "Ready"} =>
        /\ \A k \in DOMAIN deps :
             /\ deps[k] = Handle(deps[k][1]) /\ deps[k][1] \in Index /\ deps[k][1] # n
             /\ Live(deps[k])
             /\ k \in PendingIn(deps) => owner[deps[k][1]] = deps[k]
             /\ k \notin PendingIn(deps) => deps[k] \in succeeded
        /\ next = "Blocked" <=> PendingIn(deps) # {}
  BY <1>1, ClassifyAccepts
<1> HIDE DEF id, n, next, value
<1>8. \A i \in Index : i # n => state'[i] = state[i] /\ job'[i] = job[i]
  BY <1>4 DEF TypeOK
<1>9. state'[n] = next /\ job'[n] = value
  BY <1>1, <1>4 DEF TypeOK
<1>10. TypeOK'
  <2>1. next \in JobState
    BY <1>2 DEF JobState
  <2>2. state' \in [Index -> JobState \cup {"Vacant"}] /\ job' \in [Index -> Job]
    BY <1>1, <1>3, <1>4, <2>1 DEF TypeOK
  <2>3. ready' \subseteq JobId
    BY <1>1, <1>4 DEF TypeOK
  <2> QED
    BY <1>4, <1>5, <1>6, <2>2, <2>3, ZenonT(30) DEF TypeOK, Observe
<1>11. \A i \in Index : Handle(i)' = Handle(i) /\ Handle(i) \in JobId /\ Handle(i)[1] = i
  BY <1>4 DEF Handle, JobId, TypeOK
<1>12. \A x \in JobId : Issued(x)' <=> Issued(x) \/ x = id
  <2> SUFFICES ASSUME NEW x \in JobId PROVE Issued(x)' <=> Issued(x) \/ x = id
    OBVIOUS
  <2>1. x[1] \in Index /\ x[2] \in Gen /\ x = <<x[1], x[2]>>
    BY HandlePair
  <2>2. CASE x[1] # n
    BY <1>1, <1>4, <1>6, <1>8, <1>11, <2>1, <2>2 DEF Issued
  <2>3. CASE x[1] = n
    <3>1. gen[n] \in Int /\ x[2] \in Int /\ x[2] >= 0 /\ n \in Int /\ slots \in Int
      BY <1>1, <2>1, <2>3, BoundsAssumption, IndexInt DEF TypeOK, Gen
    <3>2. n >= slots => gen[n] = 0
      BY <1>1 DEF FreeListOK
    <3>3. Issued(x)' <=> x[2] <= gen[n]
      BY <1>2, <1>4, <1>6, <1>9, <2>3, <3>1 DEF Issued
    <3>4. Issued(x) <=> x[2] < gen[n]
      BY <1>1, <2>3, <3>1, <3>2 DEF Issued
    <3>5. x = id <=> x[2] = gen[n]
      BY <1>1, <2>1, <2>3 DEF Handle
    <3> QED
      BY <3>1, <3>3, <3>4, <3>5
  <2> QED
    BY <2>2, <2>3
<1>13. HistoryExact'
  <2>1. \A i \in Index : \A h \in JobId :
          state'[i] # "Vacant" /\ h = Handle(i)' =>
            \/ ~Issued(h)
            \/ h = Handle(i) /\ state[i] # "Vacant" /\ (state[i] \in Terminal => state'[i] = state[i])
    BY <1>1, <1>8, <1>11
  <2> QED
    BY <1>6, <1>10, <1>12, <2>1, HistoryStep DEF DepsInv
<1>14. \A x \in JobId : x # id =>
         (Live(x)' /\ StateOf(x)' \notin Terminal <=> Live(x) /\ StateOf(x) \notin Terminal)
  <2> SUFFICES ASSUME NEW x \in JobId, x # id
               PROVE  Live(x)' /\ StateOf(x)' \notin Terminal <=> Live(x) /\ StateOf(x) \notin Terminal
    OBVIOUS
  <2>1. x[1] \in Index
    BY HandlePair
  <2>2. Live(x)' <=> state'[x[1]] # "Vacant" /\ x = Handle(x[1])'
    BY <1>6, <1>10, LiveIsHandleNext
  <2>3. Live(x) <=> state[x[1]] # "Vacant" /\ x = Handle(x[1])
    BY LiveIsHandle
  <2> QED
    BY <1>1, <1>8, <1>11, <2>1, <2>2, <2>3 DEF StateOf
<1>15. ASSUME NEW ds \in Seq(JobId), \A k \in DOMAIN ds : ds[k] # id
       PROVE  PendingIn(ds)' = PendingIn(ds)
  BY <1>14, <1>15 DEF PendingIn
<1>16. next \in {"Blocked", "Ready"} => /\ PendingIn(deps)' = PendingIn(deps)
                                        /\ \A k \in DOMAIN deps : deps[k] # id
  BY <1>1, <1>7, <1>11, <1>15
<1>17. \A i \in Index : job[i].deps \in Seq(JobId)
  BY DEF TypeOK, Job
<1>18. ASSUME NEW i \in Index, i # n, state[i] = "Blocked"
       PROVE  PendingIn(job[i].deps)' = PendingIn(job[i].deps) /\ job'[i].deps = job[i].deps
  <2>1. \A k \in DOMAIN job[i].deps : job[i].deps[k] # id
    BY <1>1, <1>18 DEF DepsInv, DepsIssued
  <2>2. ASSUME NEW ds, ds = job[i].deps PROVE PendingIn(ds)' = PendingIn(ds)
    BY <1>15, <1>17, <2>1, <2>2
  <2>3. job'[i].deps = job[i].deps
    BY <1>8, <1>18
  <2> QED
    BY <2>2, <2>3 DEF PendingIn
<1>19. TrackedExact'
  <2>1. \A i \in Index : i # n =>
          owner'[i] = IF state'[i] \in Terminal \cup {"Vacant"} THEN NoOwner ELSE Handle(i)'
    BY <1>5, <1>8, <1>11 DEF TrackerInv, TrackedExact
  <2>2. \A i \in Index : i = n =>
          owner'[i] = IF state'[i] \in Terminal \cup {"Vacant"} THEN NoOwner ELSE Handle(i)'
    BY <1>1, <1>2, <1>5, <1>9, <1>11 DEF Terminal
  <2> QED
    BY <2>1, <2>2 DEF TrackedExact
<1>20. EdgesSound'
  <2> SUFFICES ASSUME NEW i \in Index, NEW e \in dependents'[i]
               PROVE  /\ owner'[i] # NoOwner
                      /\ Issued(e[1])'
                      /\ owner'[e[1][1]] = e[1] =>
                           /\ state'[e[1][1]] = "Blocked"
                           /\ e[2] \in DOMAIN job'[e[1][1]].deps
                           /\ job'[e[1][1]].deps[e[2]] = owner'[i]
    BY DEF EdgesSound
  <2>1. i # n /\ owner'[i] = owner[i]
    BY <1>5
  <2>2. CASE e \in dependents[i]
    <3>1. e[1] \in JobId /\ e[1][1] \in Index /\ owner[i] # NoOwner /\ Issued(e[1])
      BY <2>2, HandlePair DEF TypeOK, TrackerInv, EdgesSound
    <3>2. e[1] # id
      BY <1>1, <3>1
    <3>3. ASSUME owner'[e[1][1]] = e[1]
          PROVE  /\ state'[e[1][1]] = "Blocked"
                 /\ e[2] \in DOMAIN job'[e[1][1]].deps
                 /\ job'[e[1][1]].deps[e[2]] = owner'[i]
      <4>1. e[1][1] # n
        BY <1>5, <3>1, <3>2, <3>3, IndexInt
      <4>2. owner[e[1][1]] = e[1]
        BY <1>5, <3>1, <3>3, <4>1
      <4> QED
        BY <1>8, <2>1, <2>2, <3>1, <4>1, <4>2, ZenonT(30) DEF TrackerInv, EdgesSound
    <3> QED
      BY <1>12, <2>1, <3>1, <3>3
  <2>3. CASE next = "Blocked" /\ \E k \in PendingIn(deps) : e = <<id, k>> /\ deps[k][1] = i
    <3>1. PICK k \in PendingIn(deps) : e = <<id, k>> /\ deps[k][1] = i
      BY <2>3
    <3>2. k \in DOMAIN deps /\ owner[i] = deps[k] /\ deps[k] \in JobId
      <4>1. k \in DOMAIN deps
        BY <3>1 DEF PendingIn
      <4>2. deps[k] \in JobId
        BY <4>1
      <4>3. owner[deps[k][1]] = deps[k]
        BY <1>7, <2>3, <3>1, <4>1, ZenonT(30)
      <4> QED
        BY <3>1, <4>1, <4>2, <4>3
    <3>3. id[1] = n
      BY DEF id, n
    <3> QED
      BY <1>1, <1>3, <1>9, <1>12, <2>1, <2>3, <3>1, <3>2, <3>3, IndexInt, ZenonT(30)
  <2>4. e \in dependents[i] \/ (next = "Blocked" /\ \E k \in PendingIn(deps) : e = <<id, k>> /\ deps[k][1] = i)
    BY <1>5, <2>1, ZenonT(30)
  <2> QED
    BY <2>2, <2>3, <2>4, Zenon
<1>21. EdgesComplete'
  <2> SUFFICES ASSUME NEW i \in Index, state'[i] = "Blocked",
                      NEW ds, ds = job'[i].deps, NEW k \in PendingIn(ds)'
               PROVE  <<Handle(i), k>> \in dependents'[ds[k][1]]
    BY <1>11 DEF EdgesComplete, PendingIn
  <2>1. CASE i = n
    <3>1. next = "Blocked" /\ ds = deps
      BY <1>3, <1>9, <2>1
    <3>2. k \in PendingIn(deps)
      BY <1>16, <3>1
    <3>3. k \in DOMAIN deps /\ deps[k][1] \in Index /\ deps[k][1] # n
      BY <1>7, <3>1, <3>2 DEF PendingIn
    <3>4. <<id, k>> \in dependents'[deps[k][1]]
      BY <1>5, <3>1, <3>2, <3>3
    <3> QED
      BY <1>1, <2>1, <3>1, <3>4
  <2>2. CASE i # n
    <3>1. state[i] = "Blocked" /\ ds = job[i].deps
      BY <1>8, <2>2
    <3>2. PendingIn(ds)' = PendingIn(ds)
      BY <1>18, <2>2, <3>1, ZenonT(30) DEF PendingIn
    <3>3. <<Handle(i), k>> \in dependents[ds[k][1]]
      BY <3>1, <3>2, ZenonT(30) DEF TrackerInv, EdgesComplete
    <3>4. ds[k] \in JobId /\ ds[k][1] \in Index /\ state[ds[k][1]] # "Vacant"
      BY <1>17, <3>1, <3>2, HandlePair, LiveIsHandle DEF PendingIn
    <3>5. ds[k][1] # n
      BY <1>1, <3>4, ZenonT(30)
    <3> QED
      BY <1>5, <3>3, <3>4, <3>5
  <2> QED
    BY <2>1, <2>2
<1>22. CountExact'
  <2> SUFFICES ASSUME NEW i \in Index, NEW ds, ds = job'[i].deps, NEW p, p = PendingIn(ds)'
               PROVE  /\ state'[i] = "Blocked" => p # {} /\ unsatisfied'[i] = Cardinality(p)
                      /\ state'[i] # "Blocked" => unsatisfied'[i] = 0
    BY ZenonT(30) DEF CountExact, PendingIn
  <2>1. CASE i = n
    <3>1. ds = deps
      BY <1>3, <1>9, <2>1
    <3> QED
      BY <1>5, <1>7, <1>9, <1>16, <2>1, <3>1
  <2>2. CASE i # n
    <3>1. state[i] = "Blocked" => p = PendingIn(job[i].deps)
      BY <1>18, <1>8, <2>2, ZenonT(30) DEF PendingIn
    <3> QED
      BY <1>5, <1>8, <2>2, <3>1, ZenonT(30) DEF TrackerInv, CountExact
  <2> QED
    BY <2>1, <2>2
<1>23. DepsIssued'
  <2> SUFFICES ASSUME NEW i \in Index, state'[i] \notin {"Vacant", "Cancelled"},
                      NEW k \in DOMAIN job'[i].deps,
                      NEW d, d = job'[i].deps[k]
               PROVE  Issued(d)'
    BY DEF DepsIssued, Issued
  <2>1. CASE i = n
    <3>1. job'[i].deps = deps /\ next \in {"Blocked", "Ready"}
      BY <1>2, <1>3, <1>9, <2>1
    <3>2. d \in JobId /\ Issued(d)
      <4>1. k \in DOMAIN deps /\ d = deps[k]
        BY <3>1
      <4>2. d \in JobId
        BY <4>1
      <4>3. Live(d)
        BY <1>7, <3>1, <4>1, ZenonT(30)
      <4>4. Issued(d)
        BY <4>2, <4>3, LiveIsHandle
      <4> QED
        BY <4>2, <4>4
    <3> QED
      BY <1>12, <3>2
  <2>2. CASE i # n
    <3>1. d \in JobId /\ Issued(d)
      BY <1>8, <1>17, <2>2 DEF DepsInv, DepsIssued
    <3> QED
      BY <1>12, <3>1
  <2> QED
    BY <2>1, <2>2
<1>24. DepsDone'
  <2> SUFFICES ASSUME NEW i \in Index, NEW ds, ds = job'[i].deps, NEW k \in DOMAIN ds
               PROVE  /\ state'[i] \in Past => ds[k] \in succeeded'
                      /\ state'[i] = "Blocked" => ds[k] \in succeeded' \/ k \in PendingIn(ds)'
    BY DEF DepsDone, PendingIn
  <2>1. succeeded \subseteq succeeded'
    BY DEF Observe
  <2>2. CASE i = n
    <3>1. ds = deps
      BY <1>3, <1>9, <2>2
    <3>2. next \in {"Blocked", "Ready"} => ds[k] \in succeeded' \/ k \in PendingIn(ds)'
      BY <1>7, <1>16, <2>1, <3>1
    <3>3. next = "Ready" => PendingIn(ds)' = {}
      BY <1>7, <1>16, <3>1
    <3> QED
      BY <1>2, <1>9, <2>2, <3>2, <3>3 DEF Past
  <2>3. CASE i # n
    <3>1. ds = job[i].deps /\ state'[i] = state[i]
      BY <1>8, <2>3
    <3>2. state[i] = "Blocked" => PendingIn(ds)' = PendingIn(ds)
      BY <1>18, <2>3, <3>1 DEF PendingIn
    <3> QED
      BY <2>1, <3>1, <3>2 DEF DepsInv, DepsDone
  <2> QED
    BY <2>2, <2>3
<1>25. ReadyByIndex' /\ ChargeByIndex'
  <2> SUFFICES ASSUME NEW x \in JobId
               PROVE  /\ x \in ready' <=> x = Handle(x[1]) /\ state'[x[1]] = "Ready"
                      /\ x = Handle(x[1]) /\ state'[x[1]] \in Holding <=>
                           x = Handle(x[1]) /\ state[x[1]] \in Holding
    BY <1>4, <1>11, HandlePair DEF ReadyByIndex, ChargeByIndex
  <2>1. x[1] \in Index /\ (x \in ready <=> x = Handle(x[1]) /\ state[x[1]] = "Ready")
    BY HandlePair DEF ReadyByIndex
  <2>2. x = id <=> x[1] = n /\ x = Handle(x[1])
    BY <1>1, <1>11
  <2> QED
    BY <1>1, <1>2, <1>4, <1>8, <1>9, <2>1, <2>2 DEF Holding
<1> QED
  BY <1>6, <1>10, <1>13, <1>19, <1>20, <1>21, <1>22, <1>23, <1>24, <1>25 DEF TrackerInv, DepsInv

=============================================================================
