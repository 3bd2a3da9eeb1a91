-------------------------- MODULE SchedulerCascade --------------------------
(***************************************************************************)
(* A job that fails, is cancelled or completes keeps the inductive         *)
(* invariant, with everything its end sets off: the cascade of             *)
(* on_terminated and the wakeups of on_completed.                          *)
(***************************************************************************)
EXTENDS SchedulerInvariant

(* Failing or cancelling a job, with the cascade.                          *)

\* A tracked job is the current one of its slot and is not over.
LEMMA TrackedIsHandle ==
  ASSUME TypeOK, TrackedExact, NEW x \in JobId
  PROVE  IsTracked(x) <=> x = Handle(x[1]) /\ state[x[1]] \notin Terminal \cup {"Vacant"}
BY HandlePair, IndexInt DEF IsTracked, TrackedExact

\* on_terminated visits the job itself and Blocked ones, and leaves no tracked
\* dependent of a visited job unvisited.
LEMMA ReachedFacts ==
  ASSUME IInv, NEW id \in JobId, IsTracked(id)
  PROVE  /\ id \in Reached(id)
         /\ Reached(id) \subseteq Tracked
         /\ \A x \in Reached(id) : x = id \/ state[x[1]] = "Blocked"
         /\ ClosedUnderDependents(Reached(id))
<1> DEFINE Closed(S) == id \in S /\ ClosedUnderDependents(S)
<1>1. Reached(id) = {d \in Tracked : \A S \in SUBSET Tracked : Closed(S) => d \in S}
  BY DEF Reached
<1>2. id \in Reached(id) /\ Reached(id) \subseteq Tracked
  BY <1>1 DEF Tracked
<1>3. ClosedUnderDependents(Reached(id))
  <2> SUFFICES ASSUME NEW x \in Reached(id), NEW e \in dependents[x[1]], IsTracked(e[1])
               PROVE  e[1] \in Reached(id)
    BY DEF ClosedUnderDependents
  <2>1. x \in JobId /\ x[1] \in Index
    BY <1>2, HandlePair DEF Tracked
  <2>2. e[1] \in Tracked
    BY <2>1 DEF IInv, ArenaInv, TypeOK, Tracked
  <2>3. ASSUME NEW S \in SUBSET Tracked, Closed(S) PROVE e[1] \in S
    BY <1>1, <2>3 DEF ClosedUnderDependents
  <2> QED
    BY <1>1, <2>2, <2>3
<1>4. ASSUME NEW x \in Reached(id) PROVE x = id \/ state[x[1]] = "Blocked"
  <2> DEFINE S == {y \in Tracked : y = id \/ state[y[1]] = "Blocked"}
  <2>1. id \in S
    BY DEF Tracked
  <2>2. ASSUME NEW y \in S, NEW e \in dependents[y[1]], IsTracked(e[1])
        PROVE  e[1] \in S
    <3>1. y[1] \in Index
      BY HandlePair DEF Tracked
    <3>2. e[1] \in JobId /\ state[e[1][1]] = "Blocked"
      BY <2>2, <3>1 DEF IInv, ArenaInv, TypeOK, TrackerInv, EdgesSound, IsTracked
    <3> QED
      BY <2>2, <3>2 DEF Tracked
  <2>3. ClosedUnderDependents(S)
    BY <2>2 DEF ClosedUnderDependents
  <2>4. x \in S
    BY <1>1, <2>1, <2>3
  <2> QED
    BY <2>4
<1> QED
  BY <1>2, <1>3, <1>4

\* What a cascade does to each slot: the job itself ends in "to", the other
\* jobs it reaches are cancelled and all of them leave the tracker.
LEMMA CascadeByIndex ==
  ASSUME IInv, NEW id \in JobId, NEW to \in {"Failed", "Cancelled"},
         Live(id), state[id[1]] \notin Terminal, CascadeFrom(id, to)
  PROVE  /\ IsTracked(id)
         /\ state' \in [Index -> JobState \cup {"Vacant"}]
         /\ \A i \in Index :
              /\ i = id[1] => Handle(i) = id /\ Handle(i) \in Reached(id) /\ state'[i] = to
              /\ i # id[1] /\ Handle(i) \in Reached(id) =>
                   state[i] = "Blocked" /\ state'[i] = "Cancelled"
              /\ Handle(i) \notin Reached(id) => state'[i] = state[i]
              /\ Handle(i) \in Reached(id) =>
                   owner'[i] = NoOwner /\ unsatisfied'[i] = 0 /\ dependents'[i] = {}
              /\ Handle(i) \notin Reached(id) =>
                   /\ owner'[i] = owner[i]
                   /\ unsatisfied'[i] = unsatisfied[i]
                   /\ dependents'[i] = dependents[i]
         /\ ready' = IF state[id[1]] = "Ready" THEN ready \ {id} ELSE ready
         /\ owner' \in [Index -> JobId \cup {NoOwner}]
         /\ unsatisfied' \in [Index -> Nat]
         /\ dependents' \in [Index -> SUBSET (JobId \X Nat)]
<1> USE DEF IInv, ArenaInv
<1>1. id = Handle(id[1]) /\ id[1] \in Index /\ state[id[1]] # "Vacant"
  BY LiveIsHandle, HandlePair
<1>2. IsTracked(id)
  BY <1>1, TrackedIsHandle DEF TrackerInv
<1> DEFINE R == Reached(id)
<1>3. /\ id \in R /\ R \subseteq Tracked /\ R \subseteq JobId
      /\ \A x \in R : x = id \/ state[x[1]] = "Blocked"
  BY <1>2, ReachedFacts DEF Tracked
<1>4. \A x \in R : x = Handle(x[1]) /\ x[1] \in Index /\ Live(x)
  BY <1>3, TrackedIsHandle, LiveIsHandle, HandlePair DEF TrackerInv, Tracked
<1>5. {d \in Cascade(id) : Allowed(d, "Cancelled")} = R \ {id}
  BY <1>3, <1>4 DEF Cascade, Allowed, CanTransitionTo, StateOf
<1>6. /\ state' = [Moved(R \ {id}, "Cancelled") EXCEPT ![id[1]] = to]
      /\ ready' = ready \ {d \in (R \ {id}) \cup {id} : StateOf(d) = "Ready"}
      /\ RetireTerminated(id)
  BY <1>5 DEF CascadeFrom
<1>7. \A i \in Index : Handle(i)[1] = i
  BY DEF Handle
<1>8. \A i \in Index : i \in {d[1] : d \in R} <=> Handle(i) \in R
  BY <1>4, <1>7
<1>9. state' \in [Index -> JobState \cup {"Vacant"}]
  BY <1>6, ZenonT(30) DEF Moved, JobState, TypeOK
<1>10. \A i \in Index :
         state'[i] = IF i = id[1] THEN to ELSE IF Handle(i) \in R THEN "Cancelled" ELSE state[i]
  BY <1>1, <1>6, <1>7 DEF Moved, Handle
<1>11. {d \in (R \ {id}) \cup {id} : StateOf(d) = "Ready"} =
         IF state[id[1]] = "Ready" THEN {id} ELSE {}
  BY <1>3 DEF StateOf
<1>12. /\ owner'       = [i \in Index |-> IF i \in {d[1] : d \in R} THEN NoOwner ELSE owner[i]]
       /\ unsatisfied' = [i \in Index |-> IF i \in {d[1] : d \in R} THEN 0 ELSE unsatisfied[i]]
       /\ dependents'  = [i \in Index |-> IF i \in {d[1] : d \in R} THEN {} ELSE dependents[i]]
  BY <1>6 DEF RetireTerminated, ClearIndexes
<1>13. /\ owner' \in [Index -> JobId \cup {NoOwner}]
       /\ unsatisfied' \in [Index -> Nat]
       /\ dependents' \in [Index -> SUBSET (JobId \X Nat)]
  BY <1>12 DEF TypeOK
<1>14. \A i \in Index :
         /\ Handle(i) \in R => owner'[i] = NoOwner /\ unsatisfied'[i] = 0 /\ dependents'[i] = {}
         /\ Handle(i) \notin R => /\ owner'[i] = owner[i]
                                  /\ unsatisfied'[i] = unsatisfied[i]
                                  /\ dependents'[i] = dependents[i]
  BY <1>8, <1>12
<1>15. ready' = IF state[id[1]] = "Ready" THEN ready \ {id} ELSE ready
  BY <1>6, <1>11
<1>16. \A i \in Index : i # id[1] /\ Handle(i) \in R => state[i] = "Blocked"
  BY <1>3, <1>7
<1> HIDE DEF R
<1>17. \A i \in Index :
         /\ i = id[1] => Handle(i) = id /\ Handle(i) \in R /\ state'[i] = to
         /\ i # id[1] /\ Handle(i) \in R => state[i] = "Blocked" /\ state'[i] = "Cancelled"
         /\ Handle(i) \notin R => state'[i] = state[i]
  BY <1>1, <1>3, <1>10, <1>16
<1> QED
  BY <1>2, <1>9, <1>13, <1>14, <1>15, <1>17 DEF R

\* on_failed and cancel keep the invariant.
LEMMA CascadeInv ==
  ASSUME IInv, NEW id \in JobId, NEW to \in {"Failed", "Cancelled"},
         Live(id), state[id[1]] \notin Terminal,
         to = "Failed" => state[id[1]] \in Holding,
         CascadeFrom(id, to), Observe,
         charge' = IF state[id[1]] \in Holding THEN Released({id}) ELSE charge,
         UNCHANGED <<slots, gen, nextFree, freeHead, job>>
  PROVE  IInv'
<1> USE DEF IInv, ArenaInv
<1> DEFINE n == id[1]
           R == Reached(id)
<1>1. n \in Index /\ id = Handle(n) /\ state[n] # "Vacant"
  BY LiveIsHandle, HandlePair
<1>2. \A i \in Index :
        /\ i = n => Handle(i) = id /\ Handle(i) \in R /\ state'[i] = to
        /\ i # n /\ Handle(i) \in R => state[i] = "Blocked" /\ state'[i] = "Cancelled"
        /\ Handle(i) \notin R => state'[i] = state[i]
  BY CascadeByIndex
<1>3. \A i \in Index :
        /\ Handle(i) \in R => owner'[i] = NoOwner /\ unsatisfied'[i] = 0 /\ dependents'[i] = {}
        /\ Handle(i) \notin R => /\ owner'[i] = owner[i]
                                 /\ unsatisfied'[i] = unsatisfied[i]
                                 /\ dependents'[i] = dependents[i]
  BY CascadeByIndex
<1>4. ready' = IF state[n] = "Ready" THEN ready \ {id} ELSE ready
  BY CascadeByIndex
<1>5. ClosedUnderDependents(R)
  BY CascadeByIndex, ReachedFacts
<1> HIDE DEF R
<1>6. \A i \in Index : Handle(i)' = Handle(i) /\ Handle(i)[1] = i
  BY DEF Handle
<1>7. \A i \in Index :
        /\ state'[i] = "Vacant" <=> state[i] = "Vacant"
        /\ state'[i] = "Blocked" <=> state[i] = "Blocked" /\ Handle(i) \notin R
        /\ Handle(i) \in R => state[i] \notin Terminal \cup {"Vacant"} /\ state'[i] \in Terminal
        /\ state[i] \in Terminal => Handle(i) \notin R /\ state'[i] = state[i]
        /\ state'[i] \in Past => state[i] \in Past
  BY <1>1, <1>2 DEF Terminal, Past, Holding
<1>8. TypeOK'
  <2>1. charge' \in [JobId -> Int]
    BY DEF TypeOK, Released
  <2>2. ready' \subseteq JobId
    BY <1>4 DEF TypeOK
  <2>3. /\ state' \in [Index -> JobState \cup {"Vacant"}]
        /\ owner' \in [Index -> JobId \cup {NoOwner}]
        /\ unsatisfied' \in [Index -> Nat]
        /\ dependents' \in [Index -> SUBSET (JobId \X Nat)]
    BY CascadeByIndex
  <2> QED
    BY <2>1, <2>2, <2>3, ZenonT(30) DEF TypeOK, Observe
<1>9. FreeListOK'
  BY <1>7 DEF FreeListOK, TypeOK
<1>10. \A x \in JobId : Issued(x)' <=> Issued(x)
  BY <1>7, HandlePair DEF Issued
<1>11. HistoryExact'
  BY <1>6, <1>7, <1>8, <1>9, <1>10, HistoryStep DEF DepsInv
<1>12. \A i \in Index : job[i].deps \in Seq(JobId)
  BY DEF TypeOK, Job
<1>13. \A x \in JobId :
         Live(x)' /\ StateOf(x)' \notin Terminal <=> Live(x) /\ StateOf(x) \notin Terminal /\ x \notin R
  BY <1>6, <1>7, <1>2, <1>8, <1>9, HandlePair, LiveIsHandle, LiveIsHandleNext DEF StateOf
<1>14. ASSUME NEW i \in Index, state'[i] = "Blocked"
       PROVE  PendingIn(job[i].deps)' = PendingIn(job[i].deps)
  <2> DEFINE deps == job[i].deps
  <2>1. state[i] = "Blocked" /\ Handle(i) \notin R
    BY <1>7, <1>14
  <2>2. ASSUME NEW k \in PendingIn(deps) PROVE deps[k] \notin R
    <3>1. <<Handle(i), k>> \in dependents[deps[k][1]]
      BY <2>1 DEF TrackerInv, EdgesComplete
    <3>2. IsTracked(Handle(i))
      BY <2>1, <1>6 DEF TrackerInv, TrackedExact, IsTracked, Terminal
    <3> QED
      BY <1>5, <2>1, <3>1, <3>2 DEF ClosedUnderDependents
  <2>3. \A k \in DOMAIN deps : deps[k] \in JobId
    BY <1>12
  <2>4. PendingIn(deps)' = {k \in DOMAIN deps : Live(deps[k])' /\ StateOf(deps[k])' \notin Terminal}
    BY DEF PendingIn
  <2>5. ASSUME NEW k \in DOMAIN deps, NEW d, d = deps[k]
        PROVE  Live(d)' /\ StateOf(d)' \notin Terminal <=> k \in PendingIn(deps)
    BY <1>13, <2>2, <2>3, <2>5 DEF PendingIn
  <2>6. \A k \in DOMAIN deps :
          Live(deps[k])' /\ StateOf(deps[k])' \notin Terminal <=> k \in PendingIn(deps)
    BY <2>5 DEF Live, StateOf
  <2> QED
    BY <2>4, <2>6 DEF PendingIn
<1>15. TrackerInv'
  <2>1. TrackedExact'
    BY <1>3, <1>6, <1>7, <1>2 DEF TrackerInv, TrackedExact
  <2>2. EdgesSound'
    <3> SUFFICES ASSUME NEW i \in Index, NEW e \in dependents'[i]
                 PROVE  /\ owner'[i] # NoOwner
                        /\ Issued(e[1])'
                        /\ owner'[e[1][1]] = e[1] =>
                             /\ state'[e[1][1]] = "Blocked"
                             /\ e[2] \in DOMAIN job[e[1][1]].deps
                             /\ job[e[1][1]].deps[e[2]] = owner'[i]
      BY ZenonT(30) DEF EdgesSound
    <3>1. Handle(i) \notin R /\ owner'[i] = owner[i] /\ e \in dependents[i]
      BY <1>3, ZenonT(30)
    <3>2. e[1] \in JobId /\ e[1][1] \in Index
      BY <3>1, HandlePair DEF TypeOK
    <3>3. owner[i] # NoOwner /\ Issued(e[1])
      BY <3>1 DEF TrackerInv, EdgesSound
    <3>4. ASSUME owner'[e[1][1]] = e[1]
          PROVE  /\ state'[e[1][1]] = "Blocked"
                 /\ e[2] \in DOMAIN job[e[1][1]].deps
                 /\ job[e[1][1]].deps[e[2]] = owner'[i]
      <4>1. Handle(e[1][1]) \notin R /\ owner[e[1][1]] = e[1]
        BY <1>3, <3>2, <3>4, IndexInt
      <4> QED
        BY <3>1, <3>2, <4>1, <1>7 DEF TrackerInv, EdgesSound
    <3> QED
      BY <3>1, <3>2, <3>3, <3>4, <1>10
  <2>3. EdgesComplete'
    <3> SUFFICES ASSUME NEW i \in Index, state'[i] = "Blocked",
                        NEW k \in PendingIn(job[i].deps)'
                 PROVE  <<Handle(i), k>> \in dependents'[job[i].deps[k][1]]
      BY <1>6 DEF EdgesComplete
    <3>1. k \in PendingIn(job[i].deps) /\ state[i] = "Blocked"
      BY <1>7, <1>14
    <3>2. <<Handle(i), k>> \in dependents[job[i].deps[k][1]]
      BY <3>1 DEF TrackerInv, EdgesComplete
    <3> DEFINE d == job[i].deps[k]
    <3>3. d \in JobId /\ d[1] \in Index
      BY <1>12, <3>1, HandlePair DEF PendingIn
    <3>4. d = Handle(d[1])
      BY <3>1, <3>3, LiveIsHandle DEF PendingIn
    <3>5. d \notin R
      <4>1. Live(d)' /\ StateOf(d)' \notin Terminal
        BY DEF PendingIn
      <4> QED
        BY <4>1, <3>3, <1>2, <1>6, <1>7, <3>4 DEF StateOf
    <3> QED
      BY <3>2, <3>3, <3>4, <3>5, <1>3
  <2>4. CountExact'
    BY <1>3, <1>7, <1>14 DEF TrackerInv, CountExact
  <2> QED
    BY <2>1, <2>2, <2>3, <2>4 DEF TrackerInv
<1>16. DepsIssued'
  <2> SUFFICES ASSUME NEW i \in Index, state'[i] \notin {"Vacant", "Cancelled"},
                      NEW k \in DOMAIN job[i].deps,
                      NEW d, d = job[i].deps[k]
               PROVE  Issued(d)'
    BY DEF DepsIssued, Issued
  <2>1. state[i] \notin {"Vacant", "Cancelled"}
    BY <1>7 DEF Terminal
  <2> QED
    BY <2>1, <1>10, <1>12 DEF DepsInv, DepsIssued
<1>17. DepsDone'
  <2>1. succeeded \subseteq succeeded'
    BY DEF Observe
  <2> QED
    BY <2>1, <1>7, <1>14 DEF DepsInv, DepsDone
<1>18. ReadyByIndex'
  <2> SUFFICES ASSUME NEW x \in JobId
               PROVE  x \in ready' <=> x = Handle(x[1]) /\ state'[x[1]] = "Ready"
    BY <1>6, HandlePair DEF ReadyByIndex
  <2>1. x[1] \in Index
    BY HandlePair
  <2> QED
    BY <1>1, <1>2, <1>4, <2>1 DEF ReadyByIndex
<1>19. ChargeByIndex'
  <2> SUFFICES ASSUME NEW x \in JobId
               PROVE  charge'[x] = IF x = Handle(x[1]) /\ state'[x[1]] \in Holding THEN 1 ELSE 0
    BY <1>6, HandlePair DEF ChargeByIndex
  <2>1. x[1] \in Index
    BY HandlePair
  <2>2. charge[x] = IF x = Handle(x[1]) /\ state[x[1]] \in Holding THEN 1 ELSE 0
    BY DEF ChargeByIndex
  <2>3. state'[n] \notin Holding
    BY <1>1, <1>2 DEF Holding
  <2>4. CASE x = id
    BY <1>1, <2>2, <2>3, <2>4 DEF Released
  <2>5. CASE x # id
    <3>1. charge'[x] = charge[x]
      BY <2>5 DEF Released
    <3>2. x = Handle(x[1]) => (state'[x[1]] \in Holding <=> state[x[1]] \in Holding)
      BY <1>1, <1>2, <2>1, <2>5 DEF Holding
    <3> QED
      BY <2>2, <3>1, <3>2
  <2> QED
    BY <2>4, <2>5
<1> QED
  BY <1>8, <1>9, <1>11, <1>15, <1>16, <1>17, <1>18, <1>19 DEF DepsInv

-----------------------------------------------------------------------------
(* Completing a job.                                                       *)

\* The positions of a dependency list that are still pending after id ended.
Left(deps, id) == {k \in PendingIn(deps) : deps[k] # id}

\* The edges a completing job follows to slot i are exactly the places where
\* the Blocked job there names it.
LEMMA WakesExact ==
  ASSUME IInv, NEW id \in JobId, Live(id), state[id[1]] \in Holding, NEW i \in Index
  PROVE  /\ state[i] = "Blocked" => Wakes(id, i) = PendingIn(job[i].deps) \ Left(job[i].deps, id)
         /\ state[i] # "Blocked" => Wakes(id, i) = {}
<1> USE DEF IInv, ArenaInv
<1>1. id = Handle(id[1]) /\ id[1] \in Index /\ owner[id[1]] = id
  BY LiveIsHandle, HandlePair, TrackedIsHandle DEF TrackerInv, Holding, Terminal, IsTracked
<1>2. \A e \in dependents[id[1]] : e[1] \in JobId /\ e[2] \in Nat /\ e = <<e[1], e[2]>> /\ e[1][1] \in Index
  BY <1>1, HandlePair DEF TypeOK
<1>3. Handle(i) \in JobId /\ Handle(i)[1] = i
  BY DEF Handle, JobId, TypeOK
<1>4. ASSUME NEW e \in dependents[id[1]], e[1] = owner[i]
      PROVE  /\ state[i] = "Blocked"
             /\ e[2] \in DOMAIN job[i].deps
             /\ job[i].deps[e[2]] = id
  <2>1. owner[i] = Handle(i)
    BY <1>2, <1>4, IndexInt DEF TrackerInv, TrackedExact
  <2> QED
    BY <1>1, <1>3, <1>4, <2>1 DEF TrackerInv, EdgesSound
<1>5. ASSUME state[i] = "Blocked"
      PROVE  Wakes(id, i) = PendingIn(job[i].deps) \ Left(job[i].deps, id)
  <2>1. owner[i] = Handle(i)
    BY <1>5 DEF TrackerInv, TrackedExact, Terminal
  <2>2. ASSUME NEW k \in Wakes(id, i) PROVE k \in PendingIn(job[i].deps) /\ job[i].deps[k] = id
    <3>1. PICK e \in dependents[id[1]] : e[1] = owner[i] /\ e[2] = k
      BY DEF Wakes
    <3> QED
      BY <1>4, <3>1 DEF PendingIn, StateOf, Holding, Terminal
  <2>3. ASSUME NEW k \in PendingIn(job[i].deps), job[i].deps[k] = id PROVE k \in Wakes(id, i)
    <3>1. <<Handle(i), k>> \in dependents[id[1]]
      BY <1>5, <2>3 DEF TrackerInv, EdgesComplete
    <3> QED
      BY <2>1, <3>1 DEF Wakes
  <2> QED
    BY <2>2, <2>3 DEF Left
<1>6. ASSUME state[i] # "Blocked" PROVE Wakes(id, i) = {}
  BY <1>4, <1>6 DEF Wakes
<1> QED
  BY <1>5, <1>6

\* After the decrements, each counter is the number of dependencies left.
LEMMA DecrementedExact ==
  ASSUME IInv, NEW id \in JobId, Live(id), state[id[1]] \in Holding, NEW i \in Index
  PROVE  /\ Decremented(id)[i] \in Nat
         /\ state[i] = "Blocked" =>
              /\ unsatisfied[i] > 0
              /\ Decremented(id)[i] = Cardinality(Left(job[i].deps, id))
              /\ Decremented(id)[i] = 0 <=> Left(job[i].deps, id) = {}
         /\ state[i] # "Blocked" => unsatisfied[i] = 0 /\ Decremented(id)[i] = 0
<1> USE DEF IInv, ArenaInv
<1> DEFINE P == PendingIn(job[i].deps)
           L == Left(job[i].deps, id)
           W == Wakes(id, i)
<1>1. CASE state[i] = "Blocked"
  <2>1. job[i].deps \in Seq(JobId)
    BY DEF TypeOK, Job
  <2>2. IsFiniteSet(P) /\ Cardinality(P) \in Nat /\ P # {} /\ Cardinality(P) # 0
    BY <1>1, <2>1, PendingFinite DEF TrackerInv, CountExact
  <2>3. L \subseteq P /\ W = P \ L
    BY <1>1, WakesExact DEF Left
  <2>4. IsFiniteSet(L) /\ IsFiniteSet(W)
    BY <2>2, <2>3, FS_Subset
  <2>5. /\ Cardinality(L) \in Nat /\ Cardinality(W) \in Nat
        /\ Cardinality(L) = 0 <=> L = {}
    BY <2>4, FS_CardinalityType, FS_EmptySet
  <2>6. Cardinality(P) = Cardinality(L) + Cardinality(W)
    <3>1. P = L \cup W /\ L \cap W = {}
      BY <2>3
    <3>2. Cardinality(L \cup W) = Cardinality(L) + Cardinality(W) - Cardinality(L \cap W)
      BY <2>4, FS_Union
    <3>3. Cardinality(L \cap W) = 0
      BY <3>1, FS_EmptySet
    <3> HIDE DEF P, L, W
    <3> QED
      BY <3>1, <3>2, <3>3, <2>5
  <2>7. unsatisfied[i] = Cardinality(P)
    BY <1>1 DEF TrackerInv, CountExact
  <2>8. Decremented(id)[i] = IF Cardinality(W) >= unsatisfied[i] THEN 0 ELSE unsatisfied[i] - Cardinality(W)
    BY DEF Decremented
  <2> HIDE DEF P, L, W
  <2>9. Decremented(id)[i] = Cardinality(L)
    BY <2>2, <2>5, <2>6, <2>7, <2>8
  <2> QED
    BY <1>1, <2>2, <2>5, <2>7, <2>9 DEF L
<1>2. CASE state[i] # "Blocked"
  <2>1. unsatisfied[i] = 0 /\ Cardinality(W) = 0
    BY <1>2, WakesExact, FS_EmptySet DEF TrackerInv, CountExact
  <2> QED
    BY <1>2, <2>1 DEF Decremented
<1> QED
  BY <1>1, <1>2

\* What a completion does to each slot: the job itself is Completed, and a
\* Blocked job with nothing left to wait for is Ready.
LEMMA CompletedByIndex ==
  ASSUME IInv, NEW id \in JobId, OnCompleted(id)
  PROVE  /\ Live(id) /\ state[id[1]] \in Holding
         /\ state' \in [Index -> JobState \cup {"Vacant"}]
         /\ \A i \in Index :
              state'[i] = IF i = id[1] THEN "Completed"
                          ELSE IF state[i] = "Blocked" /\ Left(job[i].deps, id) = {}
                                 THEN "Ready" ELSE state[i]
         /\ \A x \in JobId :
              x \in ready' <=> \/ x \in ready
                               \/ /\ x = Handle(x[1]) /\ state[x[1]] = "Blocked"
                                  /\ Left(job[x[1]].deps, id) = {}
         /\ owner' = [i \in Index |-> IF i = id[1] THEN NoOwner ELSE owner[i]]
         /\ unsatisfied' = [i \in Index |-> IF i = id[1] THEN 0 ELSE Decremented(id)[i]]
         /\ dependents' = [i \in Index |-> IF i = id[1] THEN {} ELSE dependents[i]]
         /\ ready' \subseteq JobId
<1> USE DEF IInv, ArenaInv
<1>1. Live(id) /\ state[id[1]] \in Holding
  BY DEF OnCompleted, Allowed, CanTransitionTo, StateOf, Holding, Terminal
<1>2. id = Handle(id[1]) /\ id[1] \in Index /\ IsTracked(id)
  BY <1>1, LiveIsHandle, HandlePair, TrackedIsHandle DEF TrackerInv, Holding, Terminal
<1> DEFINE wokenAt(i) == state[i] = "Blocked" /\ Left(job[i].deps, id) = {}
           woken == {d \in Promoted(id) : d # id /\ Allowed(d, "Ready")}
<1>3. \A i \in Index : Handle(i) \in JobId /\ Handle(i)[1] = i
  BY DEF Handle, JobId, TypeOK
<1>4. \A i \in Index : unsatisfied[i] > 0 /\ Decremented(id)[i] = 0 <=> wokenAt(i)
  BY <1>1, DecrementedExact
<1>5. Promoted(id) = {owner[i] : i \in {j \in Index : wokenAt(j)}}
  BY <1>2, <1>4 DEF Promoted
<1>6. \A i \in Index : wokenAt(i) => owner[i] = Handle(i) /\ Handle(i) # id /\ Allowed(Handle(i), "Ready")
  <2> SUFFICES ASSUME NEW i \in Index, wokenAt(i)
               PROVE  owner[i] = Handle(i) /\ Handle(i) # id /\ Allowed(Handle(i), "Ready")
    OBVIOUS
  <2>1. owner[i] = Handle(i)
    BY DEF TrackerInv, TrackedExact, Terminal
  <2>2. Handle(i) # id
    BY <1>1, <1>3 DEF Holding
  <2>3. Live(Handle(i))
    BY <1>3, LiveIsHandle
  <2> QED
    BY <1>3, <2>1, <2>2, <2>3 DEF Allowed, CanTransitionTo, StateOf
<1>7. woken = {Handle(i) : i \in {j \in Index : wokenAt(j)}}
  BY <1>5, <1>6
<1>8. \A i \in Index : Handle(i) \in woken <=> wokenAt(i)
  BY <1>3, <1>7
<1>9. \A x \in JobId : x \in woken <=> x = Handle(x[1]) /\ wokenAt(x[1])
  BY <1>3, <1>7, HandlePair, ZenonT(30)
<1>10. woken \subseteq JobId
  BY <1>3, <1>7
<1>11. /\ state' = [Moved(woken, "Ready") EXCEPT ![id[1]] = "Completed"]
       /\ ready' = ready \cup woken
       /\ ClearIndexes({id[1]}, Decremented(id))
  BY <1>2 DEF OnCompleted, RetireCompleted
<1> HIDE DEF woken, wokenAt
<1>12. state' \in [Index -> JobState \cup {"Vacant"}]
  BY <1>11, ZenonT(30) DEF Moved, JobState, TypeOK
<1>13. \A i \in Index : state'[i] = IF i = id[1] THEN "Completed"
                                    ELSE IF wokenAt(i) THEN "Ready" ELSE state[i]
  BY <1>2, <1>8, <1>11, ZenonT(30) DEF Moved, Handle
<1>14. /\ owner' = [i \in Index |-> IF i = id[1] THEN NoOwner ELSE owner[i]]
       /\ unsatisfied' = [i \in Index |-> IF i = id[1] THEN 0 ELSE Decremented(id)[i]]
       /\ dependents' = [i \in Index |-> IF i = id[1] THEN {} ELSE dependents[i]]
  BY <1>11 DEF ClearIndexes
<1>15. ready' \subseteq JobId
  BY <1>10, <1>11 DEF TypeOK
<1>16. \A x \in JobId : x \in ready' <=> x \in ready \/ (x = Handle(x[1]) /\ wokenAt(x[1]))
  BY <1>9, <1>11
<1> QED
  BY <1>1, <1>12, <1>13, <1>14, <1>15, <1>16, ZenonT(30) DEF wokenAt

\* on_completed keeps the invariant: it wakes a dependent exactly when its last
\* pending dependency completes.
LEMMA CompletedInv ==
  ASSUME IInv, NEW id \in JobId, OnCompleted(id), Observe
  PROVE  IInv'
<1> USE DEF IInv, ArenaInv
<1> DEFINE n == id[1]
           wokenAt(i) == state[i] = "Blocked" /\ Left(job[i].deps, id) = {}
<1>1. Live(id) /\ state[n] \in Holding
  BY CompletedByIndex
<1>2. n \in Index /\ id = Handle(n)
  BY <1>1, LiveIsHandle, HandlePair
<1>3. UNCHANGED <<slots, gen, nextFree, freeHead, job>> /\ charge' = Released({id})
  BY DEF OnCompleted
<1>4. \A i \in Index : state'[i] = IF i = n THEN "Completed"
                                   ELSE IF wokenAt(i) THEN "Ready" ELSE state[i]
  BY CompletedByIndex
<1>5. /\ owner' = [i \in Index |-> IF i = n THEN NoOwner ELSE owner[i]]
      /\ unsatisfied' = [i \in Index |-> IF i = n THEN 0 ELSE Decremented(id)[i]]
      /\ dependents' = [i \in Index |-> IF i = n THEN {} ELSE dependents[i]]
  BY CompletedByIndex
<1>6. \A i \in Index : Handle(i)' = Handle(i) /\ Handle(i) \in JobId /\ Handle(i)[1] = i
  BY <1>3 DEF Handle, JobId, TypeOK
<1>7. \A i \in Index :
        /\ state'[i] = "Vacant" <=> state[i] = "Vacant"
        /\ state'[i] = "Blocked" <=> state[i] = "Blocked" /\ ~wokenAt(i)
        /\ state'[i] \in Terminal <=> i = n \/ state[i] \in Terminal
        /\ state[i] \in Terminal => state'[i] = state[i]
        /\ wokenAt(i) => state[i] = "Blocked" /\ state'[i] = "Ready"
        /\ state'[i] # "Blocked" /\ ~wokenAt(i) => state[i] # "Blocked"
        /\ state'[i] \in Past <=> wokenAt(i) \/ state[i] \in Past
  BY <1>1, <1>2, <1>4 DEF Terminal, Past, Holding
<1> HIDE DEF wokenAt
<1>8. TypeOK'
  <2>1. charge' \in [JobId -> Int]
    BY <1>3 DEF TypeOK, Released
  <2>2. state' \in [Index -> JobState \cup {"Vacant"}] /\ ready' \subseteq JobId
    BY CompletedByIndex
  <2>3. \A i \in Index : Decremented(id)[i] \in Nat
    BY <1>1, DecrementedExact
  <2>4. /\ owner' \in [Index -> JobId \cup {NoOwner}]
        /\ unsatisfied' \in [Index -> Nat]
        /\ dependents' \in [Index -> SUBSET (JobId \X Nat)]
    BY <1>5, <2>3 DEF TypeOK
  <2> QED
    BY <1>3, <2>1, <2>2, <2>4, ZenonT(30) DEF TypeOK, Observe
<1>9. FreeListOK'
  BY <1>3, <1>7 DEF FreeListOK, TypeOK
<1>10. \A x \in JobId : Issued(x)' <=> Issued(x)
  BY <1>3, <1>7, HandlePair DEF Issued
<1>11. HistoryExact'
  BY <1>6, <1>7, <1>8, <1>9, <1>10, HistoryStep, ZenonT(30) DEF DepsInv
<1>12. \A i \in Index : job[i].deps \in Seq(JobId)
  BY DEF TypeOK, Job
<1>13. \A x \in JobId :
         Live(x)' /\ StateOf(x)' \notin Terminal <=> Live(x) /\ StateOf(x) \notin Terminal /\ x # id
  BY <1>2, <1>6, <1>7, <1>8, <1>9, HandlePair, LiveIsHandle, LiveIsHandleNext DEF StateOf
<1>14. ASSUME NEW deps \in Seq(JobId) PROVE PendingIn(deps)' = Left(deps, id)
  BY <1>13 DEF PendingIn, Left
<1>15. id \in succeeded' /\ succeeded \subseteq succeeded'
  <2>1. state'[n] = "Completed"
    BY <1>2, <1>4
  <2> QED
    BY <1>2, <1>6, <1>8, <1>9, <2>1, Histories DEF Observe
<1>16. TrackerInv'
  <2>1. TrackedExact'
    BY <1>5, <1>6, <1>7 DEF TrackerInv, TrackedExact, Terminal
  <2>2. EdgesSound'
    <3> SUFFICES ASSUME NEW i \in Index, NEW e \in dependents'[i]
                 PROVE  /\ owner'[i] # NoOwner
                        /\ Issued(e[1])'
                        /\ owner'[e[1][1]] = e[1] =>
                             /\ state'[e[1][1]] = "Blocked"
                             /\ e[2] \in DOMAIN job[e[1][1]].deps
                             /\ job[e[1][1]].deps[e[2]] = owner'[i]
      BY <1>3 DEF EdgesSound
    <3>1. i # n /\ owner'[i] = owner[i] /\ e \in dependents[i]
      BY <1>5
    <3>2. e[1] \in JobId /\ e[1][1] \in Index
      BY <3>1, HandlePair DEF TypeOK
    <3>3. owner[i] # NoOwner /\ Issued(e[1])
      BY <3>1 DEF TrackerInv, EdgesSound
    <3>4. ASSUME owner'[e[1][1]] = e[1]
          PROVE  /\ state'[e[1][1]] = "Blocked"
                 /\ e[2] \in DOMAIN job[e[1][1]].deps
                 /\ job[e[1][1]].deps[e[2]] = owner'[i]
      <4> DEFINE m == e[1][1]
      <4>1. owner[m] = e[1]
        BY <1>5, <3>2, <3>4, IndexInt
      <4>2. state[m] = "Blocked" /\ e[2] \in DOMAIN job[m].deps /\ job[m].deps[e[2]] = owner[i]
        BY <3>1, <4>1 DEF TrackerInv, EdgesSound
      <4>3. owner[i] = Handle(i) /\ state[i] \notin Terminal \cup {"Vacant"}
        BY <3>3 DEF TrackerInv, TrackedExact
      <4>4. Live(Handle(i)) /\ StateOf(Handle(i)) \notin Terminal /\ Handle(i) # id
        BY <1>6, <3>1, <4>3, LiveIsHandle DEF StateOf
      <4>5. e[2] \in Left(job[m].deps, id)
        BY <4>2, <4>3, <4>4 DEF Left, PendingIn
      <4>6. ~wokenAt(m)
        BY <4>5 DEF wokenAt
      <4> QED
        BY <3>1, <3>2, <4>2, <4>6, <1>7
    <3> QED
      BY <3>1, <3>2, <3>3, <3>4, <1>10, ZenonT(30)
  <2>3. EdgesComplete'
    <3> SUFFICES ASSUME NEW i \in Index, state'[i] = "Blocked",
                        NEW k \in PendingIn(job[i].deps)'
                 PROVE  <<Handle(i), k>> \in dependents'[job[i].deps[k][1]]
      BY <1>3, <1>6 DEF EdgesComplete
    <3> DEFINE d == job[i].deps[k]
    <3>1. PendingIn(job[i].deps)' = Left(job[i].deps, id)
      BY <1>3, <1>12, <1>14
    <3>2. k \in PendingIn(job[i].deps) /\ d # id /\ state[i] = "Blocked"
      BY <1>7, <3>1 DEF Left
    <3>3. <<Handle(i), k>> \in dependents[d[1]]
      BY <3>2 DEF TrackerInv, EdgesComplete
    <3>4. d \in JobId /\ d[1] \in Index /\ d = Handle(d[1])
      BY <1>12, <3>2, HandlePair, LiveIsHandle DEF PendingIn
    <3>5. d[1] # n
      BY <1>2, <3>2, <3>4
    <3> QED
      BY <1>5, <3>3, <3>4, <3>5
  <2>4. CountExact'
    <3> SUFFICES ASSUME NEW i \in Index
                 PROVE  /\ state'[i] = "Blocked" =>
                             /\ PendingIn(job[i].deps)' # {}
                             /\ unsatisfied'[i] = Cardinality(PendingIn(job[i].deps)')
                        /\ state'[i] # "Blocked" => unsatisfied'[i] = 0
      BY <1>3 DEF CountExact
    <3>1. PendingIn(job[i].deps)' = Left(job[i].deps, id)
      BY <1>3, <1>12, <1>14
    <3>2. unsatisfied'[i] = IF i = n THEN 0 ELSE Decremented(id)[i]
      BY <1>5
    <3>3. CASE state'[i] = "Blocked"
      <4>1. i # n /\ state[i] = "Blocked" /\ ~wokenAt(i)
        BY <1>4, <1>7, <3>3
      <4>2. Left(job[i].deps, id) # {}
        BY <4>1 DEF wokenAt
      <4>3. Decremented(id)[i] = Cardinality(Left(job[i].deps, id))
        BY <1>1, <4>1, DecrementedExact
      <4> QED
        BY <3>1, <3>2, <3>3, <4>1, <4>2, <4>3
    <3>4. CASE state'[i] # "Blocked" /\ wokenAt(i)
      <4>1. Decremented(id)[i] = 0
        BY <1>1, <3>4, DecrementedExact DEF wokenAt
      <4> QED
        BY <3>2, <3>4, <4>1
    <3>5. CASE state'[i] # "Blocked" /\ ~wokenAt(i)
      <4>1. Decremented(id)[i] = 0
        BY <1>1, <1>7, <3>5, DecrementedExact
      <4> QED
        BY <3>2, <3>5, <4>1
    <3> QED
      BY <3>3, <3>4, <3>5
  <2> QED
    BY <2>1, <2>2, <2>3, <2>4 DEF TrackerInv
<1>17. DepsIssued'
  <2> SUFFICES ASSUME NEW i \in Index, state'[i] \notin {"Vacant", "Cancelled"},
                      NEW k \in DOMAIN job[i].deps,
                      NEW d, d = job[i].deps[k]
               PROVE  Issued(d)'
    BY <1>3 DEF DepsIssued, Issued
  <2>1. state[i] \notin {"Vacant", "Cancelled"}
    BY <1>7 DEF Terminal
  <2> QED
    BY <2>1, <1>10, <1>12 DEF DepsInv, DepsIssued
<1>18. DepsDone'
  <2> SUFFICES ASSUME NEW i \in Index, NEW k \in DOMAIN job[i].deps
               PROVE  /\ state'[i] \in Past => job[i].deps[k] \in succeeded'
                      /\ state'[i] = "Blocked" =>
                           job[i].deps[k] \in succeeded' \/ k \in PendingIn(job[i].deps)'
    BY <1>3 DEF DepsDone
  <2>1. PendingIn(job[i].deps)' = Left(job[i].deps, id)
    BY <1>3, <1>12, <1>14
  <2>2. CASE state[i] \in Past
    BY <1>7, <1>15, <2>2 DEF DepsInv, DepsDone, Past
  <2>3. CASE state[i] = "Blocked"
    <3>1. job[i].deps[k] \in succeeded' \/ k \in Left(job[i].deps, id)
      BY <1>15, <2>3 DEF DepsInv, DepsDone, Left
    <3>2. state'[i] \in Past => wokenAt(i)
      BY <1>7, <2>3 DEF Past
    <3> QED
      BY <2>1, <3>1, <3>2 DEF wokenAt
  <2> QED
    BY <1>7, <2>2, <2>3 DEF wokenAt
<1>19. ReadyByIndex'
  <2> SUFFICES ASSUME NEW x \in JobId
               PROVE  x \in ready' <=> x = Handle(x[1]) /\ state'[x[1]] = "Ready"
    BY <1>6, HandlePair DEF ReadyByIndex
  <2>1. x[1] \in Index
    BY HandlePair
  <2>2. x \in ready' <=> x \in ready \/ (x = Handle(x[1]) /\ wokenAt(x[1]))
    BY CompletedByIndex DEF wokenAt
  <2> QED
    BY <1>1, <1>4, <1>7, <2>1, <2>2 DEF ReadyByIndex, Holding
<1>20. ChargeByIndex'
  <2> SUFFICES ASSUME NEW x \in JobId
               PROVE  charge'[x] = IF x = Handle(x[1]) /\ state'[x[1]] \in Holding THEN 1 ELSE 0
    BY <1>6, HandlePair DEF ChargeByIndex
  <2>1. x[1] \in Index
    BY HandlePair
  <2>2. charge[x] = IF x = Handle(x[1]) /\ state[x[1]] \in Holding THEN 1 ELSE 0
    BY DEF ChargeByIndex
  <2>3. CASE x = id
    BY <1>1, <1>2, <1>3, <1>4, <2>2, <2>3 DEF Released, Holding
  <2>4. CASE x # id
    <3>1. charge'[x] = charge[x]
      BY <1>3, <2>4 DEF Released
    <3>2. x = Handle(x[1]) => (state'[x[1]] \in Holding <=> state[x[1]] \in Holding)
      BY <1>2, <1>4, <1>7, <2>1, <2>4 DEF Holding
    <3> QED
      BY <2>2, <3>1, <3>2
  <2> QED
    BY <2>3, <2>4
<1> QED
  BY <1>8, <1>9, <1>11, <1>16, <1>17, <1>18, <1>19, <1>20 DEF DepsInv

=============================================================================
