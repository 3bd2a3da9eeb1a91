------------------------------ MODULE Journal ------------------------------
(***************************************************************************)
(* Durability in the daemon: the engine's end of the write-ahead log and   *)
(* the writer thread (taskerd/src/journal.rs), the data directory          *)
(* (tasker-wal: store.rs, log.rs), and the start and the stop of the       *)
(* daemon around them (daemon.rs).                                         *)
(*                                                                         *)
(* The engine thread, the writer thread and the dispatcher task interleave *)
(* freely.  The process or the machine may stop between any two steps.  A  *)
(* crash keeps any part of what was written and not synced yet, and may    *)
(* leave a torn frame after it.                                            *)
(*                                                                         *)
(* Abstractions.  A record is a number, and the engine's state is the      *)
(* sequence of records that led to it, so a snapshot is such a sequence.   *)
(* Sizes count records.  A rename or a new file that a crash may still     *)
(* undo is a crash before that step; a file that a crash brings back is of *)
(* an older generation, which recovery does not look at.  The way of an    *)
(* order ends at its worker's stream, which takes it.                      *)
(***************************************************************************)
EXTENDS Integers, Sequences, SequencesExt

CONSTANTS
  MaxRecords,      \* bound: records over the life of the directory
  MaxStarts,       \* bound: times the daemon is started
  MaxFailures,     \* bound: I/O errors the writer meets
  MaxKills,        \* bound: jobs a worker is told to stop
  SyncPolicy,      \* "Full", "Data" or "None"
  RotateAfter,     \* wal_rotate_bytes
  QueueDepth,      \* COMMIT_QUEUE_DEPTH
  OutboxCapacity   \* the dispatch ring

ASSUME JournalAssumption ==
  /\ MaxRecords \in Nat /\ MaxStarts \in Nat /\ MaxFailures \in Nat /\ MaxKills \in Nat
  /\ SyncPolicy \in {"Full", "Data", "None"}
  /\ RotateAfter \in Nat \ {0} /\ QueueDepth \in Nat \ {0} /\ OutboxCapacity \in Nat \ {0}

RecordNo   == 1..MaxRecords
Generation == 0..(MaxStarts + MaxRecords)
Torn       == 0
NoSnapshot == <<Torn>>

VARIABLES
  daemon,      \* "down", "booting", "up", "stopping", "leaving" or "refused"
  starts,      \* times it was started
  history,     \* the engine's state, as the records that led to it
  issued,      \* records numbered so far
  pending,     \* Journal::pending
  since,       \* Journal::bytes_since_rotate
  ticking,     \* the tick has decided and not committed yet
  queue,       \* the channel to the writer
  writer,      \* where the writer is
  work,        \* the commit it works on
  generation,  \* Store::generation
  snap,        \* disk: the snapshot of each generation
  log,         \* disk: the log of each generation
  outbox,      \* the dispatch ring
  overflow,    \* Engine::overflow, the Kills that found the ring full
  kills,       \* Kills so far
  killed,      \* records whose job was killed before its order was delivered
  released,    \* records whose reply was sent or whose held order was pushed
  failures     \* I/O errors so far

engineSide == <<history, issued, pending, since, ticking>>
orders     == <<outbox, overflow, kills, killed>>
disk       == <<snap, log>>
vars       == <<daemon, starts, engineSide, queue, writer, work, generation, disk,
                orders, released, failures>>

\* An Assign or a Preempt is held until the record it carries out is on disk; a
\* Kill of what record k assigned, or of an older run, is not held.
Held(k) == <<"Held", k>>
Kill(k) == <<"Kill", k>>
OldRun  == 0
Order   == {"Held", "Kill"} \X (RecordNo \cup {OldRun})

Commit == [before: Seq(RecordNo), frames: Seq(RecordNo), acks: SUBSET RecordNo,
           dispatches: Seq(RecordNo), snapshot: Seq(RecordNo) \cup {NoSnapshot}]

Empty == [before |-> <<>>, frames |-> <<>>, acks |-> {}, dispatches |-> <<>>,
          snapshot |-> NoSnapshot]

\* The first eight bytes of a log: absent, cut short, in the page cache only, or
\* on disk.
Magic   == {"none", "part", "cached", "synced"}
NoLog   == [exists |-> FALSE, magic |-> "none", recs |-> <<>>, synced |-> 0]
LogFile == [exists: BOOLEAN, magic: Magic, recs: Seq(RecordNo \cup {Torn}), synced: Nat]

-----------------------------------------------------------------------------
(* The engine's end.                                                       *)

\* A transition is recorded; a reply waits for it, or an order to a worker,
\* or nothing does.
Logged(kind) ==
  LET k == issued + 1
  IN  /\ issued < MaxRecords
      /\ issued'  = k
      /\ history' = Append(history, k)
      /\ since'   = since + 1
      /\ pending' = [pending EXCEPT
           !.frames     = Append(@, k),
           !.acks       = IF kind = "ack" THEN @ \cup {k} ELSE @,
           !.dispatches = IF kind = "dispatch" THEN Append(@, k) ELSE @]

\* Commands are handled before the tick; a reply answers a command, an order is
\* a decision of the tick, and either may have records nothing waits for.
Record(kind) ==
  /\ daemon \in {"up", "stopping"}
  /\ kind = "ack" => ~ticking
  /\ ticking' = (ticking \/ kind = "dispatch")
  /\ Logged(kind)
  /\ UNCHANGED <<daemon, starts, queue, writer, work, generation, disk, orders,
                 released, failures>>

\* Wrong: the ring is not bounded.
HasRoom_Always(ring) == TRUE

HasRoom(ring) == Len(ring) < OutboxCapacity

\* Engine::push_dispatch
PushOrOverflow(order) ==
  IF HasRoom(outbox)
    THEN outbox' = Append(outbox, order) /\ UNCHANGED overflow
    ELSE overflow' = Append(overflow, order) /\ UNCHANGED outbox

\* A Kill goes out while its record, if it has one, still waits.
SendKill(k, kind) ==
  /\ daemon \in {"up", "stopping"} /\ ~ticking /\ kills < MaxKills
  /\ kills' = kills + 1
  /\ IF kind = "unlogged" THEN UNCHANGED <<history, issued, pending, since>>
     ELSE Logged(kind)
  /\ PushOrOverflow(Kill(k))
  /\ UNCHANGED <<daemon, starts, ticking, queue, writer, work, generation, disk,
                 killed, released, failures>>

\* Orders that have not been delivered yet.
Undelivered ==
  LET In(c) == ToSet(c.dispatches)
  IN  {k \in RecordNo : \/ \E c \in {pending, work} \cup ToSet(queue) : k \in In(c)
                        \/ Held(k) \in ToSet(outbox)}

\* Engine::on_cancel of a job on its slot: one whose Assign is still on its way,
\* which is then not on the slot any more, or one that runs.
CancelBound(k) ==
  /\ \/ k = OldRun
     \/ k \in Undelivered \ killed /\ Kill(k) \notin ToSet(outbox \o overflow)
  /\ SendKill(k, "ack")

\* Engine::claim and adopt_running tell a worker that joins to stop what it may
\* not keep: a job that is requeued ("none") or that is not its own any more.
StopClaimed(kind) == SendKill(OldRun, kind)

\* The start of Engine::tick, one order at a time: the overflow is a stack.
FlushOverflow ==
  /\ daemon \in {"up", "stopping"} /\ ~ticking
  /\ overflow # <<>> /\ HasRoom(outbox)
  /\ outbox'   = Append(outbox, Last(overflow))
  /\ overflow' = Front(overflow)
  /\ UNCHANGED <<daemon, starts, engineSide, queue, writer, work, generation, disk,
                 kills, killed, released, failures>>

WantsSnapshot == pending.snapshot = NoSnapshot /\ since >= RotateAfter

\* Wrong: what the snapshot holds already goes to the new log too.
AttachSnapshot_KeepsFrames(c) == [c EXCEPT !.snapshot = history]

AttachSnapshot(c) ==
  [c EXCEPT !.before = c.frames, !.frames = <<>>, !.snapshot = history]

\* Wrong: a batch that finds the channel full is dropped.
HandOver_DropsWhenFull(c) ==
  /\ queue'   = IF Len(queue) < QueueDepth THEN Append(queue, c) ELSE queue
  /\ pending' = Empty

\* Journal::commit: the batch is kept for the next tick if the channel is full.
HandOver(c) ==
  IF c # Empty /\ Len(queue) < QueueDepth
    THEN queue' = Append(queue, c) /\ pending' = Empty
    ELSE pending' = c /\ UNCHANGED queue

\* The end of Engine::tick.
Tick ==
  /\ daemon \in {"up", "stopping"}
  /\ ticking' = FALSE
  /\ since' = IF WantsSnapshot THEN 0 ELSE since
  /\ HandOver(IF WantsSnapshot THEN AttachSnapshot(pending) ELSE pending)
  /\ UNCHANGED <<daemon, starts, history, issued, writer, work, generation, disk,
                 orders, released, failures>>

\* The dispatcher leaves once it finds the ring empty; the engine is told to
\* stop only then.
StopDispatcher ==
  /\ daemon = "up" /\ outbox = <<>>
  /\ daemon' = "stopping"
  /\ UNCHANGED <<starts, engineSide, queue, writer, work, generation, disk, orders,
                 released, failures>>

\* Journal::flush blocks while the channel is full.  The engine ends with it,
\* and what is left in the overflow.
Flush ==
  /\ daemon = "stopping" /\ ~ticking
  /\ pending = Empty \/ Len(queue) < QueueDepth
  /\ HandOver(pending)
  /\ daemon' = "leaving" /\ overflow' = <<>>
  /\ UNCHANGED <<starts, ticking, history, issued, since, writer, work, generation,
                 disk, outbox, kills, killed, released, failures>>

-----------------------------------------------------------------------------
(* The writer: one batch at a time through persist, then its releases.     *)

theEngine == <<starts, engineSide>>

AfterBefore(c) == IF c.snapshot # NoSnapshot THEN "rename" ELSE "append"

Receive ==
  /\ writer = "idle" /\ queue # <<>>
  /\ work'   = Head(queue)
  /\ queue'  = Tail(queue)
  /\ writer' = IF work'.before # <<>> THEN "appendBefore" ELSE AfterBefore(work')
  /\ UNCHANGED <<daemon, theEngine, generation, disk, orders, released, failures>>

\* What the writer does next to the open log and to the directory.
Proceed(next) ==
  /\ writer' = next
  /\ UNCHANGED <<daemon, theEngine, queue, work, orders, released, failures>>

\* LogWriter::append writes to the page cache.
AppendLog ==
  /\ writer \in {"appendBefore", "append"}
  /\ log' = [log EXCEPT ![generation].recs =
               @ \o (IF writer = "append" THEN work.frames ELSE work.before)]
  /\ Proceed(IF writer = "append" THEN "sync" ELSE "syncBefore")
  /\ UNCHANGED <<generation, snap>>

\* Wrong: nothing is pushed to the disk.
SyncedTo_Nothing(f) == f.synced

SyncedTo(f) == IF SyncPolicy = "None" THEN f.synced ELSE Len(f.recs)

SyncLog ==
  /\ writer \in {"syncBefore", "sync"}
  /\ log' = [log EXCEPT ![generation].synced = SyncedTo(log[generation]),
                        ![generation].magic  = IF SyncPolicy = "None" THEN @ ELSE "synced"]
  /\ Proceed(IF writer = "sync" THEN "release" ELSE AfterBefore(work))
  /\ UNCHANGED <<generation, snap>>

\* Store::rotate: the snapshot is complete and synced under another name
\* before it gets its own, then the directory is synced.
RenameSnapshot ==
  /\ writer = "rename"
  /\ snap' = [snap EXCEPT ![generation + 1] = work.snapshot]
  /\ Proceed("create")
  /\ UNCHANGED <<generation, log>>

\* LogWriter::open, of the next log or at a start of the current one.
Opening == IF daemon = "booting" THEN generation ELSE generation + 1

CreateLog ==
  /\ writer = "create"
  /\ log' = [log EXCEPT ![Opening] = IF @.exists THEN @ ELSE [NoLog EXCEPT !.exists = TRUE]]
  /\ Proceed("magic")
  /\ UNCHANGED <<generation, snap>>

\* An empty log gets its magic, which is synced; one that has it is taken as it
\* is.  At a start the engine, which has replayed the log, then queues a snapshot
\* and runs.
WriteMagic ==
  /\ writer = "magic" /\ log[Opening].magic # "part"
  /\ log' = [log EXCEPT ![Opening].magic = IF @ = "none" THEN "synced" ELSE @]
  /\ generation' = Opening
  /\ IF daemon = "booting"
       THEN /\ daemon' = "up" /\ writer' = "idle"
            /\ pending' = AttachSnapshot(Empty)
            /\ UNCHANGED <<starts, history, issued, since, ticking, queue, work,
                           orders, released, failures>>
       ELSE Proceed("removeSnapshot")
  /\ UNCHANGED <<snap>>

RemoveSnapshot ==
  /\ writer = "removeSnapshot"
  /\ snap' = [snap EXCEPT ![generation - 1] = NoSnapshot]
  /\ Proceed("removeLog")
  /\ UNCHANGED <<generation, log>>

RemoveLog ==
  /\ writer = "removeLog"
  /\ log' = [log EXCEPT ![generation - 1] = NoLog]
  /\ Proceed("append")
  /\ UNCHANGED <<generation, snap>>

\* run_writer after persist: the replies, then the orders one by one, waiting
\* for room in the ring.
FireAcks ==
  /\ writer = "release"
  /\ released' = released \cup work.acks
  /\ writer'   = "push"
  /\ UNCHANGED <<daemon, theEngine, queue, work, generation, disk, orders, failures>>

PushDispatch ==
  /\ writer = "push" /\ work.dispatches # <<>> /\ HasRoom(outbox)
  /\ outbox'   = Append(outbox, Held(Head(work.dispatches)))
  /\ released' = released \cup {Head(work.dispatches)}
  /\ work'     = [work EXCEPT !.dispatches = Tail(@)]
  /\ UNCHANGED <<daemon, theEngine, queue, writer, generation, disk, overflow, kills,
                 killed, failures>>

NextBatch ==
  /\ writer = "push" /\ work.dispatches = <<>>
  /\ writer' = "idle" /\ work' = Empty
  /\ UNCHANGED <<daemon, theEngine, queue, generation, disk, orders, released, failures>>

\* The engine dropped its end: the writer exits, and the daemon with it.
WriterExits ==
  /\ daemon = "leaving" /\ writer = "idle" /\ queue = <<>>
  /\ daemon' = "down" /\ writer' = "none" /\ outbox' = <<>>
  /\ UNCHANGED <<theEngine, queue, work, generation, disk, overflow, kills, killed,
                 released, failures>>

\* Wrong: the error is logged and the releases still happen.
PersistFails_Releases ==
  /\ failures < MaxFailures /\ writer \in {"append", "sync"}
  /\ failures' = failures + 1
  /\ writer' = "release"
  /\ UNCHANGED <<daemon, theEngine, queue, work, generation, disk, orders, released>>

\* persist returns an error: the batch is dropped with what waited for it.
DropBatch ==
  /\ writer' = "idle" /\ work' = Empty
  /\ UNCHANGED <<daemon, theEngine, queue, generation, orders, released>>

\* What an I/O error can leave of the magic of a log that had none.
MagicAfterError(m) == IF m = "none" THEN {"none", "part", "cached"} ELSE {m}

\* An I/O error ends persist.  A write may have got part of the way, a rename
\* may have happened.
PersistFails ==
  /\ failures < MaxFailures /\ daemon # "booting"
  /\ \/ /\ writer \in {"appendBefore", "append"}
        /\ LET frames == IF writer = "append" THEN work.frames ELSE work.before
           IN  \E n \in 0..(Len(frames) - 1), cut \in {<<>>, <<Torn>>} :
                 log' = [log EXCEPT ![generation].recs = @ \o SubSeq(frames, 1, n) \o cut]
        /\ UNCHANGED snap
     \/ writer \in {"syncBefore", "sync", "create"} /\ UNCHANGED disk
     \/ /\ writer = "magic"
        /\ \E m \in MagicAfterError(log[Opening].magic) :
             log' = [log EXCEPT ![Opening].magic = m]
        /\ UNCHANGED snap
     \/ writer \in {"removeSnapshot", "removeLog"} /\ UNCHANGED disk
     \/ /\ writer = "rename"
        /\ snap' \in {snap, [snap EXCEPT ![generation + 1] = work.snapshot]}
        /\ UNCHANGED log
  /\ failures' = failures + 1
  /\ DropBatch

\* LogWriter::open of a log that a failed rotation left with part of a magic.
OpenRefused ==
  /\ writer = "magic" /\ log[Opening].magic = "part"
  /\ DropBatch
  /\ UNCHANGED <<disk, failures>>

\* The dispatcher takes an order off the ring and puts it on its worker's
\* stream; the send is taken to complete.
Deliver ==
  /\ daemon = "up" /\ outbox # <<>>
  /\ outbox' = Tail(outbox)
  /\ killed' = {k \in Undelivered : Head(outbox) # Held(k)
                                    /\ (k \in killed \/ Head(outbox) = Kill(k))}
  /\ UNCHANGED <<daemon, theEngine, queue, writer, work, generation, disk, overflow,
                 kills, released, failures>>

-----------------------------------------------------------------------------
(* Crash and start.                                                        *)

\* What a crash can leave of a log.
Remains(f) ==
  {f} \cup {[f EXCEPT !.recs = SubSeq(@, 1, n) \o cut] :
              n \in f.synced..(Len(f.recs) - 1), cut \in {<<>>, <<Torn>>}}

\* Logs whose magic a crash may take away or cut short.
Unsettled == {g \in Generation : log[g].magic = "cached"}

Crash ==
  /\ daemon \in {"booting", "up", "stopping", "leaving"}
  /\ daemon' = "down" /\ writer' = "none"
  /\ \E f \in Remains(log[generation]), m \in [Unsettled -> {"none", "part", "synced"}] :
       log' = [g \in Generation |->
                 [(IF g = generation THEN f ELSE log[g])
                    EXCEPT !.magic = IF g \in Unsettled THEN m[g] ELSE @]]
  /\ pending' = Empty /\ queue' = <<>> /\ work' = Empty
  /\ outbox' = <<>> /\ overflow' = <<>> /\ killed' = {} /\ ticking' = FALSE
  /\ UNCHANGED <<starts, history, issued, since, generation, snap, kills, released,
                 failures>>

\* parse_log stops at the first frame that is torn.
Intact(recs) ==
  LET torn == {i \in DOMAIN recs : recs[i] = Torn}
  IN  IF torn = {} THEN recs
      ELSE SubSeq(recs, 1, (CHOOSE i \in torn : \A j \in torn : i <= j) - 1)

\* Store::recover reads the highest generation there is.
Newest ==
  LET found == {g \in Generation : snap[g] # NoSnapshot \/ log[g].exists}
  IN  IF found = {} THEN 0 ELSE CHOOSE g \in found : \A h \in found : h <= g

\* Store::recover, the replay of Engine::recover, and Store::resume up to where
\* it opens the log.
Recover ==
  LET g    == Newest
      base == IF snap[g] = NoSnapshot THEN <<>> ELSE snap[g]
      recs == Intact(log[g].recs)
      torn == recs # log[g].recs
  IN  /\ daemon = "down" /\ starts < MaxStarts
      /\ starts' = starts + 1
      /\ IF log[g].exists /\ log[g].magic \in {"none", "part"}
           THEN /\ daemon' = "refused"
                /\ UNCHANGED <<history, since, writer, generation, log>>
           ELSE /\ daemon'     = "booting"
                /\ generation' = g
                /\ history'    = base \o recs
                /\ since'      = 0
                /\ writer'     = "create"
                /\ log' = [log EXCEPT ![g].recs = recs,
                                      ![g].synced = IF torn THEN Len(recs) ELSE @]
      /\ UNCHANGED <<issued, pending, queue, work, snap, ticking, orders, released,
                     failures>>

Init ==
  /\ daemon = "down" /\ starts = 0
  /\ history = <<>> /\ issued = 0 /\ pending = Empty /\ since = 0 /\ ticking = FALSE
  /\ queue = <<>> /\ writer = "none" /\ work = Empty /\ generation = 0
  /\ snap = [g \in Generation |-> NoSnapshot] /\ log = [g \in Generation |-> NoLog]
  /\ outbox = <<>> /\ overflow = <<>> /\ kills = 0 /\ killed = {}
  /\ released = {} /\ failures = 0

WriterStep ==
  \/ Receive
  \/ AppendLog
  \/ SyncLog
  \/ RenameSnapshot
  \/ CreateLog
  \/ WriteMagic
  \/ RemoveSnapshot
  \/ RemoveLog
  \/ FireAcks
  \/ PushDispatch
  \/ NextBatch
  \/ OpenRefused
  \/ WriterExits

Next ==
  \/ \E kind \in {"ack", "dispatch", "none"} : Record(kind)
  \/ \E k \in RecordNo \cup {OldRun} : CancelBound(k)
  \/ \E kind \in {"none", "unlogged"} : StopClaimed(kind)
  \/ FlushOverflow
  \/ Tick
  \/ StopDispatcher
  \/ Flush
  \/ WriterStep
  \/ PersistFails
  \/ Deliver
  \/ Crash
  \/ Recover

\* Each thread goes on while it can; the dispatcher is woken by every push.
Spec == Init /\ [][Next]_vars /\ WF_vars(Tick) /\ WF_vars(FlushOverflow) /\ WF_vars(Flush)
             /\ WF_vars(WriterStep) /\ WF_vars(Deliver)

-----------------------------------------------------------------------------
(* Properties.                                                             *)

TypeOK ==
  /\ daemon \in {"down", "booting", "up", "stopping", "leaving", "refused"}
  /\ starts \in 0..MaxStarts /\ issued \in 0..MaxRecords /\ since \in 0..MaxRecords
  /\ history \in Seq(RecordNo)
  /\ pending \in Commit /\ work \in Commit /\ queue \in Seq(Commit)
  /\ Len(queue) <= QueueDepth
  /\ generation \in Generation
  /\ snap \in [Generation -> Seq(RecordNo) \cup {NoSnapshot}]
  /\ log \in [Generation -> LogFile]
  /\ outbox \in Seq(Order) /\ Len(outbox) <= OutboxCapacity
  /\ overflow \in Seq(Order) /\ Len(overflow) <= MaxKills
  /\ kills \in 0..MaxKills /\ killed \subseteq RecordNo /\ ticking \in BOOLEAN
  /\ released \subseteq RecordNo /\ failures \in 0..MaxFailures

Told(k) == k \in released => \E i \in DOMAIN history : history[i] = k

\* GUIDE: a transition "is written to a checksummed log before the client is
\* acknowledged or a worker is told to start, and a restart replays the log":
\* what a client got a reply for, or a worker an Assign or a Preempt, is in the
\* engine's state, across crashes, rotations and restarts (persist before acks
\* and dispatches in run_writer).
NothingToldIsLost == \A k \in RecordNo : Told(k)

\* The same for as long as the writer meets no I/O error.
NothingToldIsLostUnlessIOError == failures = 0 => \A k \in RecordNo : Told(k)

\* Even with I/O errors, a reply is sent and an Assign or a Preempt leaves for
\* its worker only when the transition is on disk, in a snapshot or in the synced
\* part of a log ("Nothing below may happen while the bytes are not on disk" in
\* run_writer).  Kills are not part of it: "Kills are not held back" (on_cancel).
WrittenBeforeTold ==
  [][\A k \in released' \ released :
       \E g \in Generation :
         \/ \E i \in DOMAIN snap[g] : snap[g][i] = k
         \/ \E i \in 1..log[g].synced : log[g].recs[i] = k]_vars

\* A restart comes back to a state the engine was in: what recovery loads is a
\* prefix of what was done, with no gap and nothing applied twice, though a
\* batch is split over two logs around its snapshot (attach_snapshot, persist,
\* Store::rotate, parse_log).
RestartIsAPrefix ==
  [][daemon = "down" /\ failures = 0 => IsPrefix(history', history)]_vars

\* Every reply that waits for a batch is sent while the daemon is up and no
\* batch is dropped for an I/O error: none is forgotten when the channel is
\* full, or while the ring is full of Kills (Journal::commit, run_writer).
RepliesAreSent ==
  \A k \in RecordNo :
    (daemon = "up" /\ k \in pending.acks) ~> (k \in released \/ daemon # "up" \/ failures > 0)

\* Store::rotate: "Ordered so a crash at any point leaves a loadable generation."
\* A directory that holds a snapshot is not refused.
RotationLeavesLoadable ==
  daemon = "refused" => \A g \in Generation : snap[g] = NoSnapshot

\* GUIDE: "A running job is killed on its worker."  on_cancel sends the Kill at
\* once ("stopping work early is safe either way") and the journal holds the
\* Assign: a worker that heard the Kill of a job is not told to start it after.
NoStartAfterKill ==
  [][\A k \in RecordNo :
       Deliver /\ Head(outbox) = Held(k) => k \notin killed]_vars

\* daemon.rs: "The engine dropped its journal when `run` returned; the writer
\* drains and exits."  A stop that was begun ends.
StopEnds == (daemon = "stopping") ~> (daemon = "down")
============================================================================
