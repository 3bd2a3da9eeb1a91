------------------------------- MODULE Engine -------------------------------
(***************************************************************************)
(* The daemon's scheduler thread (taskerd/src/engine.rs): the commands it  *)
(* drains from its inbox and the tick that follows, over the scheduling    *)
(* core of Lifecycle.tla and the slot inventory (cluster/slot.rs).         *)
(*                                                                         *)
(* The thread is sequential; pc says where in a drain or a tick it is.     *)
(* The order of a tick is the code's: cycle, evictions, retention,         *)
(* reconciliation.  A WorkerJoined command goes through its claims one by  *)
(* one.  sends and logged are the interface to the journal and the outbox: *)
(* what the last step handed to them.  What becomes of it is in            *)
(* Journal.tla, with the two ends of a tick: the flush of the overflow     *)
(* before the cycle and the commit of the batch after the rest.            *)
(*                                                                         *)
(* Abstractions.  There is no clock.  The score that orders jobs of one    *)
(* class, the age that orders victims of one class, whether backfill finds *)
(* a fitting candidate harmless, and whether the retention or the          *)
(* reconcile window has passed are free choices.  Finished jobs are        *)
(* forgotten in any order, where the code's queue is first in, first out.  *)
(***************************************************************************)
EXTENDS Lifecycle, SequencesExt

CONSTANTS
  MaxNodes,      \* bound: worker slots ever in the inventory
  Capacities,    \* what workers declare in Hello
  MaxCandidates, \* CycleConfig::max_candidates
  MaxDecisions,  \* PackBudget::max_decisions
  MaxScanned,    \* PackBudget::max_scanned
  MinClass,      \* PreemptConfig::min_class, Nil when preemption is off
  MaxPreempt,    \* PreemptConfig::max_preemptions
  MaxRestarts,   \* bound: times the daemon is restarted
  MaxClaims      \* bound: jobs a worker claims when it joins

ASSUME EngineAssumption ==
  /\ MaxNodes \in Nat \ {0} /\ MaxRestarts \in Nat /\ MaxClaims \in Nat
  /\ MaxCandidates \in Nat /\ MaxDecisions \in Nat /\ MaxScanned \in Nat
  /\ MinClass \in {Nil} \cup 0..3 /\ MaxPreempt \in 0..MaxEvict
  /\ Capacities \subseteq Nat

Node == 0..(MaxNodes - 1)
NoJobId == NoOwner

VARIABLES
  nodes,        \* inventory: number of slots
  capacity,     \* inventory: declared cpu per slot, 0 when drained or vacant
  allocated,    \* inventory: cpu charged to a slot
  attached,     \* names[slot].is_some()
  bound,        \* running: the slot a job is bound to, Nil for none
  reconciling,  \* Running jobs of the last incarnation, not claimed yet
  terminal,     \* the retention queue
  quiescing,    \* the daemon is shutting down
  restarts,     \* incarnations so far
  pc,           \* where the thread is
  claims,       \* WorkerJoined: the in-flight jobs still to claim
  joined,       \* WorkerJoined: the slot they are claimed for
  head,         \* tick: the job that could not be placed
  sends,        \* <<kind, slot, job>>: a Kill goes to the outbox at once, an
                \* Assign or a Preempt is held by the journal until it is logged
  logged        \* <<kind, job>>: the journal's records

inventory  == <<nodes, capacity, allocated, attached>>
engineVars == <<inventory, bound, reconciling, terminal, quiescing, restarts,
                pc, claims, joined, head, sends, logged>>
vars       == <<coreVars, engineVars>>

Cpu(id)   == SpecOf(id).cpu
Class(id) == SpecOf(id).class
CpuOf(J)  == MapThenSumSet(Cpu, J)

Bound        == {id \in JobId : bound[id] # Nil}
BoundAt(s)   == {id \in JobId : bound[id] = s}

-----------------------------------------------------------------------------
(* The inventory.  Subtraction saturates at zero.                          *)

Minus(a, b) == IF a > b THEN a - b ELSE 0

\* WorkerSlot::free
Free(alloc, s) == Minus(capacity[s], alloc[s])

\* Wrong: what the slot already holds is not taken off.
FirstFit_Capacity(alloc, cpu) ==
  LET room == {s \in 0..(nodes - 1) : cpu <= capacity[s]}
  IN  IF room = {} THEN Nil ELSE Min(room)

\* SlotInventory::first_fit: the lowest slot with room.
FirstFit(alloc, cpu) ==
  LET room == {s \in 0..(nodes - 1) : cpu <= Free(alloc, s)}
  IN  IF room = {} THEN Nil ELSE Min(room)

\* Wrong: the same for try_allocate.
CanAllocate_Capacity(alloc, s, cpu) == cpu <= capacity[s]

\* SlotInventory::try_allocate succeeds
CanAllocate(alloc, s, cpu) == alloc[s] + cpu <= capacity[s]

-----------------------------------------------------------------------------
(* Commands, one action each.                                              *)

control == <<quiescing, restarts, pc, claims, joined, head>>

\* What a step hands to the journal and the outbox.
Sends(S) == sends' = S
Logs(kind, J) == logged' = {<<kind, id>> : id \in J}
Quiet == sends' = {} /\ logged' = {}

SetCapacity(s, cpu) == capacity' = [capacity EXCEPT ![s] = cpu]
ClearAllocation(s)  == allocated' = [allocated EXCEPT ![s] = 0]

\* Wrong: the binding is kept, so that a second report releases again.
Release_KeepsBinding(id) ==
  /\ allocated' = [allocated EXCEPT ![bound[id]] = @ - Cpu(id)]
  /\ UNCHANGED <<bound, nodes, capacity, attached>>

\* Engine::release of a bound job.
Release(id) ==
  /\ bound'     = [bound EXCEPT ![id] = Nil]
  /\ allocated' = [allocated EXCEPT ![bound[id]] = Minus(@, Cpu(id))]
  /\ UNCHANGED <<nodes, capacity, attached>>

\* release(id).is_some() || unhold(id), which gates every report.
LetGo(id) ==
  \/ id \in Bound /\ Release(id) /\ UNCHANGED reconciling
  \/ /\ id \notin Bound /\ id \in reconciling
     /\ reconciling' = reconciling \ {id}
     /\ UNCHANGED <<bound, inventory>>

OnSubmit(spec, deps) ==
  /\ pc = "drain"
  /\ Submit(spec, deps)
  /\ terminal' = terminal \cup {id \in {NextId} : StateOf(id)' \in Terminal}
  /\ Logs("Submitted", {NextId}) /\ Sends({})
  /\ UNCHANGED <<inventory, bound, reconciling, control>>

\* Wrong: the job is not taken out of the reconcile window.
OnCancel_KeepsHold(id) ==
  /\ pc = "drain"
  /\ IF id \in Bound THEN Release(id) ELSE UNCHANGED <<bound, inventory>>
  /\ Cancel(id)
  /\ terminal' = terminal \cup {id} \cup Cascade(id)
  /\ Logs("Cancelled", {id})
  /\ Sends({<<"Kill", bound[x], x>> : x \in {id} \cap Bound})
  /\ UNCHANGED <<reconciling, control>>

\* The slot and the hold are given up before the core is asked.
OnCancel(id) ==
  /\ pc = "drain"
  /\ IF id \in Bound THEN Release(id) ELSE UNCHANGED <<bound, inventory>>
  /\ reconciling' = reconciling \ {id}
  /\ IF Allowed(id, "Cancelled")
       THEN /\ Cancel(id)
            /\ terminal' = terminal \cup {id} \cup Cascade(id)
            /\ Logs("Cancelled", {id})
            /\ Sends({<<"Kill", bound[x], x>> : x \in {id} \cap Bound})
       ELSE UNCHANGED <<coreVars, terminal>> /\ Quiet
  /\ UNCHANGED control

OnCompletedReport(id) ==
  /\ pc = "drain"
  /\ LetGo(id)
  /\ IF Allowed(id, "Completed")
       THEN /\ OnCompleted(id)
            /\ terminal' = terminal \cup {id}
            /\ Logs("Completed", {id})
       ELSE UNCHANGED <<coreVars, terminal>> /\ Logs("Completed", {})
  /\ Sends({})
  /\ UNCHANGED control

\* Wrong: the jobs of the cascade are not noted as terminal.
OnFailedReport_NotesOne(id) ==
  /\ pc = "drain"
  /\ LetGo(id)
  /\ OnFailed(id)
  /\ terminal' = terminal \cup {id}
  /\ Logs("Failed", {id}) /\ Sends({})
  /\ UNCHANGED control

OnFailedReport(id) ==
  /\ pc = "drain"
  /\ LetGo(id)
  /\ IF Allowed(id, "Failed")
       THEN /\ OnFailed(id)
            /\ terminal' = terminal \cup {id} \cup Cascade(id)
            /\ Logs("Failed", {id})
       ELSE UNCHANGED <<coreVars, terminal>> /\ Logs("Failed", {})
  /\ Sends({})
  /\ UNCHANGED control

\* Wrong: the job is made Ready in the arena and not put in the ready set.
OnPreemptedReport_ArenaOnly(id) ==
  /\ pc = "drain"
  /\ LetGo(id)
  /\ Live(id) /\ StateOf(id) = "Preempted"
  /\ state' = Moved({id}, "Ready")
  /\ Logs("Requeued", {id}) /\ Sends({})
  /\ UNCHANGED <<slots, gen, nextFree, freeHead, job, trackerVars, ready, charge,
                 terminal, control>>

OnPreemptedReport(id) ==
  /\ pc = "drain"
  /\ LetGo(id)
  /\ IF Live(id) /\ StateOf(id) = "Preempted"
       THEN OnPreempted(id) /\ Logs("Requeued", {id})
       ELSE UNCHANGED coreVars /\ Logs("Requeued", {})
  /\ Sends({})
  /\ UNCHANGED <<terminal, control>>

\* A worker gets the lowest slot that is vacant and zeroed, or a new one, and
\* goes on to claim what it still runs.
WorkerJoined(cpu, inFlight) ==
  LET vacant == {s \in 0..(nodes - 1) : ~attached[s] /\ capacity[s] = 0}
      slot   == IF vacant # {} THEN Min(vacant) ELSE nodes
  IN  /\ pc = "drain"
      /\ slot < MaxNodes
      /\ nodes'    = IF slot = nodes THEN nodes + 1 ELSE nodes
      /\ SetCapacity(slot, cpu)
      /\ attached' = [attached EXCEPT ![slot] = TRUE]
      /\ joined'   = IF inFlight = {} THEN Nil ELSE slot
      /\ claims'   = inFlight
      /\ pc'       = IF inFlight = {} THEN "drain" ELSE "claim"
      /\ Quiet
      /\ UNCHANGED <<coreVars, allocated, bound, reconciling, terminal,
                     quiescing, restarts, head>>

\* The step of WorkerJoined's loop that handles id.
NextClaim(id) ==
  /\ pc = "claim" /\ id \in claims
  /\ claims' = claims \ {id}
  /\ joined' = IF claims = {id} THEN Nil ELSE joined
  /\ pc'     = IF claims = {id} THEN "drain" ELSE "claim"
  /\ UNCHANGED <<terminal, quiescing, restarts, head>>

\* Engine::requeue_logged of each job of J.
RequeueLogged(J) ==
  LET able == {id \in J : CanRequeue(id)} IN Requeue(able) /\ Logs("Requeued", able)

\* Wrong: the job that does not fit is stopped and not requeued.
ClaimHeld_OnlyKills(id) ==
  /\ NextClaim(id)
  /\ id \in reconciling
  /\ reconciling' = reconciling \ {id}
  /\ ~CanAllocate(allocated, joined, Cpu(id))
  /\ Sends({<<"Kill", joined, id>>}) /\ Logs("Requeued", {})
  /\ UNCHANGED <<coreVars, inventory, bound>>

\* claim, first branch, and adopt_running.
ClaimHeld(id) ==
  /\ NextClaim(id)
  /\ id \in reconciling
  /\ reconciling' = reconciling \ {id}
  /\ UNCHANGED <<nodes, capacity, attached>>
  /\ IF Live(id) /\ StateOf(id) = "Running"
       THEN IF CanAllocate(allocated, joined, Cpu(id))
              THEN /\ bound'     = [bound EXCEPT ![id] = joined]
                   /\ allocated' = [allocated EXCEPT ![joined] = @ + Cpu(id)]
                   /\ UNCHANGED coreVars /\ Quiet
              ELSE /\ RequeueLogged({id})
                   /\ Sends({<<"Kill", joined, id>>})
                   /\ UNCHANGED <<bound, allocated>>
       ELSE UNCHANGED <<coreVars, bound, allocated>> /\ Quiet

\* Wrong: the old slot stays charged when the binding moves.
ClaimBound_ChargesTwice(id) ==
  /\ NextClaim(id)
  /\ id \notin reconciling /\ id \in Bound
  /\ CanAllocate(allocated, joined, Cpu(id))
  /\ bound'     = [bound EXCEPT ![id] = joined]
  /\ allocated' = [allocated EXCEPT ![joined] = @ + Cpu(id)]
  /\ Quiet
  /\ UNCHANGED <<coreVars, nodes, capacity, attached, reconciling>>

\* claim, second branch: the binding moves to the new slot if it has room.
ClaimBound(id) ==
  LET rest == [allocated EXCEPT ![bound[id]] = Minus(@, Cpu(id))]
  IN  /\ NextClaim(id)
      /\ id \notin reconciling /\ id \in Bound
      /\ IF CanAllocate(rest, joined, Cpu(id))
           THEN /\ bound'     = [bound EXCEPT ![id] = joined]
                /\ allocated' = [rest EXCEPT ![joined] = @ + Cpu(id)]
                /\ UNCHANGED coreVars /\ Quiet
           ELSE /\ bound'     = [bound EXCEPT ![id] = Nil]
                /\ allocated' = rest
                /\ RequeueLogged({id})
                /\ Sends({<<"Kill", joined, id>>})
      /\ UNCHANGED <<nodes, capacity, attached, reconciling>>

\* claim, last branch: the worker is told to stop it.
ClaimStale(id) ==
  /\ NextClaim(id)
  /\ id \notin reconciling /\ id \notin Bound
  /\ Sends({<<"Kill", joined, id>>}) /\ Logs("Requeued", {})
  /\ UNCHANGED <<coreVars, inventory, bound, reconciling>>

\* Wrong: the jobs of a lost worker stay bound to its slot.
WorkerLeft_KeepsBindings(s) ==
  /\ pc = "drain" /\ s < nodes
  /\ SetCapacity(s, 0)
  /\ attached'  = [attached EXCEPT ![s] = FALSE]
  /\ Quiet
  /\ UNCHANGED <<coreVars, nodes, allocated, bound, reconciling, terminal, control>>

\* evict_slot: a lost worker's jobs are requeued, unless it is the daemon that
\* is leaving.
WorkerLeft(s) ==
  /\ pc = "drain" /\ s < nodes
  /\ bound'     = [id \in JobId |-> IF bound[id] = s THEN Nil ELSE bound[id]]
  /\ IF quiescing
       THEN UNCHANGED coreVars /\ Logs("Requeued", {})
       ELSE RequeueLogged(BoundAt(s))
  /\ Sends({})
  /\ ClearAllocation(s)
  /\ SetCapacity(s, 0)
  /\ attached'  = [attached EXCEPT ![s] = FALSE]
  /\ UNCHANGED <<nodes, reconciling, terminal, control>>

WorkerDraining(s) ==
  /\ pc = "drain" /\ s < nodes
  /\ SetCapacity(s, 0)
  /\ Quiet
  /\ UNCHANGED <<coreVars, nodes, allocated, attached, bound, reconciling,
                 terminal, control>>

\* The loop reads the flag the daemon raises when it shuts down.
Quiesce ==
  /\ pc = "drain" /\ ~quiescing
  /\ quiescing' = TRUE
  /\ Quiet
  /\ UNCHANGED <<coreVars, inventory, bound, reconciling, terminal,
                 restarts, pc, claims, joined, head>>

-----------------------------------------------------------------------------
(* The tick.                                                               *)

\* The orders of J a sort by class can leave, ties in any order.
HighestFirst(J) ==
  {o \in SetToSeqs(J) : \A i, j \in DOMAIN o : i < j => Class(o[i]) >= Class(o[j])}

LowestFirst(J) ==
  {o \in SetToSeqs(J) : \A i, j \in DOMAIN o : i < j => Class(o[i]) <= Class(o[j])}

\* drain_ordered_into: the jobs the cycle looks at, of the highest classes.
Candidates ==
  {J \in SUBSET ready :
     /\ Cardinality(J) = Min({MaxCandidates, Cardinality(ready)})
     /\ \A x \in J, y \in ready \ J : Class(x) >= Class(y)}

\* A cycle in progress: the allocations and bindings it has made, how many
\* jobs its current pass looked at and placed, the head job, and whether an
\* expect failed.
Placed(acc, id) ==
  LET s == FirstFit(acc.alloc, Cpu(id))
  IN  IF CanAllocate(acc.alloc, s, Cpu(id))
        THEN [acc EXCEPT !.alloc[s] = @ + Cpu(id), !.bound[id] = s, !.placed = @ + 1]
        ELSE [acc EXCEPT !.panic = TRUE]

OutOfBudget(acc) == acc.panic \/ acc.placed >= MaxDecisions \/ acc.seen >= MaxScanned

\* pack: stops for good at the budget or at the first job without room.
PackStep(acc, id) ==
  LET now == [acc EXCEPT !.seen = @ + 1]
  IN  IF OutOfBudget(acc) \/ acc.head # NoJobId THEN acc
      ELSE IF FirstFit(acc.alloc, Cpu(id)) = Nil THEN [now EXCEPT !.head = id]
      ELSE Placed(now, id)

\* easy_backfill tries what comes after the head; harmless are the jobs that
\* would not delay it.
BackfillStep(acc, id, harmless) ==
  LET now  == [acc EXCEPT !.seen = @ + 1]
      next == Placed(now, id)
  IN  IF OutOfBudget(acc) THEN acc
      ELSE IF FirstFit(acc.alloc, Cpu(id)) = Nil THEN now
      ELSE IF next.panic \/ id \in harmless THEN next ELSE now

\* reservation_time is Some: a slot can hold the head once what was running
\* before the cycle has ended.
HasReservation(acc) ==
  \E s \in 0..(nodes - 1) :
    /\ Cpu(acc.head) <= capacity[s]
    /\ Cpu(acc.head) <= Free(acc.alloc, s) + CpuOf(BoundAt(s))

\* run_cycle over the candidates in the given order.
CycleResult(order, harmless) ==
  LET start  == [alloc |-> allocated, bound |-> bound, seen |-> 0, placed |-> 0,
                 head |-> NoJobId, panic |-> FALSE]
      packed == FoldLeft(PackStep, start, order)
      past   == {i \in DOMAIN order : \E h \in 1..(i-1) : order[h] = packed.head}
      later  == [k \in 1..Cardinality(past) |->
                   order[Len(order) - Cardinality(past) + k]]
  IN  IF ~packed.panic /\ packed.head # NoJobId /\ HasReservation(packed)
        THEN FoldLeft(LAMBDA acc, id : BackfillStep(acc, id, harmless),
                      [packed EXCEPT !.seen = 0, !.placed = 0], later)
        ELSE packed

\* on_dispatched for the decisions of a cycle: to the running set, the journal
\* and the outbox.
OnDispatched(J, to) ==
  /\ bound' = to
  /\ Logs("Dispatched", J)
  /\ Sends({<<"Assign", to[id], id>> : id \in J})

\* The cycle of a tick, and on_dispatched for its decisions.  run_cycle expects
\* a job it dispatches to be Ready.
RunCycle(order, harmless) ==
  LET r == CycleResult(order, harmless)
      J == {id \in ready : r.bound[id] # Nil}
  IN  /\ pc = "drain"
      /\ IF r.panic \/ \E id \in J : Live(id) /\ ~Allowed(id, "Running")
           THEN /\ pc' = "panicked"
                /\ Quiet
                /\ UNCHANGED <<coreVars, allocated, bound, head>>
           ELSE /\ Dispatch(J)
                /\ OnDispatched(J, r.bound)
                /\ allocated' = r.alloc
                /\ head'      = r.head
                /\ pc'        = IF r.head = NoJobId THEN "expire" ELSE "evict"
      /\ UNCHANGED <<nodes, capacity, attached, reconciling, terminal,
                     quiescing, restarts, claims, joined>>

\* Wrong: a job of the head's own class may be evicted for it.
VictimsAt_SameClass(s, byClass) ==
  LET eligible == SelectSeq(byClass, LAMBDA id :
                    /\ bound[id] = s /\ StateOf(id) = "Running"
                    /\ Class(id) <= Class(head)
                    /\ job[id[1]].preemptions < MaxPreempt)
      First(k) == {eligible[i] : i \in 1..k}
      enough   == {k \in 0..Len(eligible) :
                     Cpu(head) <= Free(allocated, s) + CpuOf(First(k))}
  IN  IF Cpu(head) <= capacity[s] /\ enough # {} THEN First(Min(enough)) ELSE {}

\* plan_preemption's victims on slot s, given all candidates by class and age:
\* the shortest non-empty prefix that makes room for the head.
VictimsAt(s, byClass) ==
  LET eligible == SelectSeq(byClass, LAMBDA id :
                    /\ bound[id] = s /\ StateOf(id) = "Running"
                    /\ Class(id) < Class(head)
                    /\ job[id[1]].preemptions < MaxPreempt)
      First(k) == {eligible[i] : i \in 1..k}
      enough   == {k \in 0..Len(eligible) :
                     Cpu(head) <= Free(allocated, s) + CpuOf(First(k))}
  IN  IF Cpu(head) <= capacity[s] /\ enough # {} THEN First(Min(enough)) ELSE {}

\* Wrong: evictions in flight are not looked at.
Victims_Overlapping(byClass) ==
  LET usable == {s \in 0..(nodes - 1) : VictimsAt(s, byClass) # {}}
  IN  IF MinClass # Nil /\ Class(head) >= MinClass /\ usable # {}
        THEN {VictimsAt(s, byClass) : s \in usable} ELSE {{}}

\* plan_preemption: nobody while an eviction is in flight, else the victims of
\* a slot that needs the fewest.
Victims(byClass) ==
  LET At(s)   == VictimsAt(s, byClass)
      usable  == {s \in 0..(nodes - 1) : At(s) # {}}
      fewest  == {s \in usable : \A t \in usable : Cardinality(At(s)) <= Cardinality(At(t))}
  IN  IF MinClass # Nil /\ Class(head) >= MinClass
         /\ ~\E id \in Bound : StateOf(id) = "Preempted"
         /\ usable # {}
        THEN {At(s) : s \in fewest} ELSE {{}}

PlanEvictions(byClass) ==
  /\ pc = "evict"
  /\ \E J \in Victims(byClass) :
       /\ Preempt(J)
       /\ Logs("Preempted", J)
       /\ Sends({<<"Preempt", bound[id], id>> : id \in J})
  /\ head' = NoJobId
  /\ pc'   = "expire"
  /\ UNCHANGED <<inventory, bound, reconciling, terminal, quiescing, restarts,
                 claims, joined>>

\* Wrong: the job that has the slot now is forgotten.
ForgetExpired_BySlot(id) ==
  LET there == <<id[1], gen[id[1]]>>
  IN  /\ pc = "expire" /\ id \in terminal
      /\ terminal' = terminal \ {id}
      /\ Live(there) /\ ArenaRemove(there)
      /\ StateOf(there) \in Terminal => gen[id[1]] < MaxGen
      /\ Logs("Forgotten", {there}) /\ Sends({})
      /\ UNCHANGED <<trackerVars, ready, charge, inventory, bound, reconciling, control>>

\* forget_expired, one entry at a time.  A handle that resolves to no job is
\* dropped from the queue.
ForgetExpired(id) ==
  /\ pc = "expire" /\ id \in terminal
  /\ terminal' = terminal \ {id}
  /\ IF Live(id) THEN Forget(id) /\ Logs("Forgotten", {id})
     ELSE UNCHANGED coreVars /\ Logs("Forgotten", {})
  /\ Sends({})
  /\ UNCHANGED <<inventory, bound, reconciling, control>>

\* expire_reconcile, once the window has passed, ends the tick.
ExpireReconcile ==
  /\ pc = "expire"
  /\ RequeueLogged({id \in reconciling : Live(id) /\ StateOf(id) = "Running"})
  /\ reconciling' = {}
  /\ pc' = "drain"
  /\ Sends({})
  /\ UNCHANGED <<inventory, bound, terminal, quiescing, restarts, claims, joined, head>>

\* The window is still open.
KeepReconciling ==
  /\ pc = "expire" /\ reconciling # {}
  /\ pc' = "drain"
  /\ Quiet
  /\ UNCHANGED <<coreVars, inventory, bound, reconciling, terminal, quiescing,
                 restarts, claims, joined, head>>

-----------------------------------------------------------------------------
(* A restart, at a moment when the log holds everything done so far and has *)
(* not been rotated: recover replays it and holds what was Running.  apply  *)
(* notes every job that ended, and a Forgotten record takes the job from    *)
(* the arena and leaves its handle in the retention queue.                  *)

AllZero  == [s \in Node |-> 0]
NobodyAt == [s \in Node |-> FALSE]
Unbound  == [id \in JobId |-> Nil]

Forgotten == {id \in JobId : id[2] < gen[id[1]]}

Recover ==
  /\ pc = "drain" /\ restarts < MaxRestarts
  /\ Replay
  /\ nodes' = 0 /\ capacity' = AllZero /\ allocated' = AllZero
  /\ attached' = NobodyAt /\ bound' = Unbound
  /\ reconciling' = JobsIn({"Running"})
  /\ terminal'    = JobsIn(Terminal) \cup Forgotten
  /\ quiescing'   = FALSE
  /\ restarts'    = restarts + 1
  /\ Quiet
  /\ UNCHANGED <<pc, claims, joined, head>>

EngineInit ==
  /\ CoreInit
  /\ nodes = 0 /\ capacity = AllZero /\ allocated = AllZero
  /\ attached = NobodyAt /\ bound = Unbound
  /\ reconciling = {} /\ terminal = {}
  /\ quiescing = FALSE /\ restarts = 0
  /\ pc = "drain" /\ claims = {} /\ joined = Nil /\ head = NoJobId
  /\ sends = {} /\ logged = {}

RunTick ==
  \/ \E J \in Candidates : \E order \in HighestFirst(J), harmless \in SUBSET J :
       RunCycle(order, harmless)
  \/ \E byClass \in LowestFirst(Bound) : PlanEvictions(byClass)
  \/ \E id \in terminal : ForgetExpired(id)
  \/ ExpireReconcile
  \/ KeepReconciling

\* Any command at any time: reports may be late, repeated or about jobs the
\* sender never had, and any slot may be declared lost.
Handle ==
  \/ \E s \in JobSpec, d \in DepLists : OnSubmit(s, d)
  \/ \E id \in JobId : OnCancel(id)
  \/ \E id \in JobId : OnCompletedReport(id)
  \/ \E id \in JobId : OnFailedReport(id)
  \/ \E id \in JobId : OnPreemptedReport(id)
  \/ \E c \in Capacities, F \in SUBSET JobId :
       Cardinality(F) <= MaxClaims /\ WorkerJoined(c, F)
  \/ \E id \in claims : ClaimHeld(id)
  \/ \E id \in claims : ClaimBound(id)
  \/ \E id \in claims : ClaimStale(id)
  \/ \E s \in Node : WorkerLeft(s)
  \/ \E s \in Node : WorkerDraining(s)
  \/ Quiesce

Next == RunTick \/ Handle \/ Recover

Spec == EngineInit /\ [][Next]_vars

-----------------------------------------------------------------------------
(* Safety, whatever the inbox holds.                                       *)

TypeOK ==
  /\ nodes \in 0..MaxNodes
  /\ capacity \in [Node -> Nat] /\ allocated \in [Node -> Nat]
  /\ attached \in [Node -> BOOLEAN]
  /\ bound \in [JobId -> Node \cup {Nil}]
  /\ reconciling \subseteq JobId /\ terminal \subseteq JobId /\ claims \subseteq JobId
  /\ quiescing \in BOOLEAN /\ restarts \in 0..MaxRestarts
  /\ pc \in {"drain", "claim", "evict", "expire", "panicked"}
  /\ joined \in Node \cup {Nil} /\ head \in JobId \cup {NoJobId}

\* Every step of the thread is a call the scheduling core allows, so what
\* Scheduler.tla shows of the core holds in the daemon.
ImplementsCore == CoreSpec

\* The expects of a cycle never fail: a slot first_fit reports as having room
\* takes the job (pack, easy_backfill), and a job that is dispatched is Ready
\* (run_cycle).  A panic ends the scheduler thread.
NeverPanics == pc # "panicked"

\* The inventory charges a slot with exactly the jobs bound to it, across
\* reports, claims that move a binding, lost workers and slot reuse
\* (Engine::release, claim, evict_slot, clear_allocation).
AllocationExact == \A s \in Node : allocated[s] = CpuOf(BoundAt(s))

\* A slot that takes work is never charged beyond what its worker declared.
NoOvercommit == \A s \in Node : capacity[s] = 0 \/ allocated[s] <= capacity[s]

\* A bound job is Running or Preempted, on a slot with a worker; a job that is
\* held for its worker is Running and bound to no slot.
BindingsAreReal ==
  /\ \A id \in Bound : /\ id \in JobsIn(Holding)
                       /\ bound[id] < nodes /\ attached[bound[id]]
  /\ reconciling \subseteq JobsIn({"Running"}) \ Bound

\* The retention queue holds every finished job and no other live one, so each
\* is forgotten in the end and no live job ever is (note_terminal, including for
\* cascades and for jobs that were never accepted to run).  After a restart it
\* also holds handles of jobs that were forgotten; their slots may be in use
\* again (apply).
TerminalQueued == terminal \cap LiveJobs = JobsIn(Terminal)

\* Jobs that hold a worker's cpu although no slot has them and no worker is
\* waited for: nothing the engine does of itself ends or requeues them.
Adrift == JobsIn(Holding) \ (Bound \cup reconciling)

\* A job is not set adrift by a cycle, an eviction, a claim, a lost worker, a
\* report, a cancel or the end of the reconcile window, and a restart leaves
\* none adrift (recover, claim, adopt_running, evict_slot, expire_reconcile).
\* Two steps of the code are excused: a stream that closes while the daemon
\* shuts down ("Its jobs stay Running in the log"), and a Preempted report about
\* a job that is not being evicted, which gives up the slot before the core
\* refuses it.
RunnersAreOwned ==
  [][\A id \in Adrift' :
       \/ id \in Adrift /\ restarts' = restarts
       \/ quiescing /\ id \in Bound /\ WorkerLeft(bound[id])
       \/ StateOf(id) = "Running" /\ OnPreemptedReport(id)]_vars

\* README: "No new plan is made while an eviction is in flight."  Bindings
\* dropped during shutdown are the exception (evict_slot when quiescing).
OneEvictionAtATime ==
  [][JobsIn({"Preempted"}) # {} /\ ~quiescing
       => JobsIn({"Preempted"})' \subseteq JobsIn({"Preempted"})]_vars

\* An eviction is worth it: the victims share one slot, are all of a lower
\* class than the head job they make way for, are not immune, and leave it
\* room once they stopped (plan_preemption).
EvictionMakesRoom ==
  [][LET victims == JobsIn({"Preempted"})' \ JobsIn({"Preempted"})
     IN  victims # {} =>
           \E s \in Node :
             /\ victims \subseteq BoundAt(s)
             /\ Cpu(head) <= capacity[s] - allocated[s] + CpuOf(victims)
             /\ \A v \in victims : /\ Class(v) < Class(head)
                                   /\ job[v[1]].preemptions < MaxPreempt]_vars
=============================================================================
