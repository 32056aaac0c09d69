---------------------------- MODULE EngineThreads ----------------------------
(***************************************************************************)
(* How the threads of the engine wait for each other: client threads in    *)
(* Put, Delete, Flush, Compact and Close, the flush thread and the         *)
(* compaction thread, with mu_, the condition variables and running_.      *)
(* Tables and files are only counted; what they hold is in TsdbEngine.     *)
(*                                                                         *)
(* An action is one stretch of code under mu_.  A thread that decides to   *)
(* wait keeps mu_ until Block puts it into the wait set: Close changes     *)
(* running_ and notifies without mu_, so it can come in between.  A thread *)
(* that was notified leaves `asleep' and competes for mu_ again.           *)
(***************************************************************************)
EXTENDS Integers, FiniteSets

CONSTANTS
  Clients,              \* client threads
  Compactor,            \* the compaction thread
  NoThread,             \* mu_ is free
  MemTableLimit,        \* memtable_limit_, counted in operations
  L0CompactionTrigger,  \* kL0CompactionTrigger
  L0StopTrigger,        \* kL0StopTrigger
  MaxLevel,             \* Version::kMaxLevel
  MaxCalls,             \* bound: calls of clients
  MaxFaults,            \* bound: flushes and compactions that fail
  MaxSpurious           \* bound: spurious wake-ups

ASSUME ThreadsAssumption ==
  Compactor \notin Clients /\ NoThread \notin Clients \cup {Compactor}
ASSUME LimitsAssumption ==
  /\ {MemTableLimit, L0CompactionTrigger} \subseteq Nat \ {0}
  /\ L0StopTrigger \in Nat /\ MaxLevel \in Nat /\ MaxLevel > 1
ASSUME BoundsAssumption == {MaxCalls, MaxFaults, MaxSpurious} \subseteq Nat

VARIABLES
  lock,      \* the thread that keeps mu_ from one action to the next
  asleep,    \* the threads blocked on a condition variable
  at,        \* where each client and the compaction thread is
  call,      \* the call each client is in; "written": Put after its append
  running,   \* running_
  closed,    \* closed_
  walOpen,   \* the WAL's file is open
  mem,       \* operations in mem_
  imm,       \* imm_ is set
  flusher,   \* the flush thread: "wait", "build", "schedule", "ended"
  l0,        \* level-0 files that are not inputs of a compaction
  over,      \* the levels above 0 that are over their size limit
  job,       \* the compaction in progress: its level and level-0 inputs
  pending,   \* compaction_pending_
  calls, faults, spurious  \* bounds

bounds == <<calls, faults, spurious>>
stateVars == <<running, closed, walOpen>>
tableVars == <<mem, imm>>
versionVars == <<l0, over, job, pending>>
threadVars == <<lock, asleep, at, call>>
vars == <<threadVars, stateVars, tableVars, versionVars, flusher, bounds>>
-----------------------------------------------------------------------------
Threads == Clients \cup {Compactor}
Waits == {"wait_flush", "wait_job", "wait_work"}
NoJob == [active |-> FALSE, level |-> 0, files |-> 0]

Init ==
  /\ lock = NoThread /\ asleep = {}
  /\ at = [t \in Threads |-> IF t = Compactor THEN "wait_work" ELSE "idle"]
  /\ call = [c \in Clients |-> "none"]
  /\ running = TRUE /\ closed = FALSE /\ walOpen = TRUE
  /\ mem = 0 /\ imm = FALSE /\ flusher = "wait"
  /\ l0 = 0 /\ over = {} /\ job = NoJob /\ pending = FALSE
  /\ calls = 0 /\ faults = 0 /\ spurious = 0

FlushInProgress == flusher = "build"
CanRotate == ~imm /\ ~FlushInProgress

\* ShouldStopWritesUnlocked
ShouldStopWrites == job.active /\ l0 + job.files >= L0StopTrigger

\* ShouldScheduleCompactionUnlocked, once compaction_in_progress_ is false.
ShouldSchedule(n, levels) == n >= L0CompactionTrigger \/ levels # {}
-----------------------------------------------------------------------------
(* mu_ and the condition variables.                                        *)

\* The thread is about to block, or blocked, or was notified.
InWait(t) == at[t] \in Waits

\* The thread may run its next stretch under mu_.
HasLock(t) ==
  /\ t \notin asleep
  /\ lock = NoThread \/ (lock = t /\ ~InWait(t))

\* Go on at a, keeping mu_; go to wait at a; go on at a without mu_.
Keep(t, a) == at' = [at EXCEPT ![t] = a] /\ lock' = t /\ UNCHANGED asleep
Release(t, a) ==
  at' = [at EXCEPT ![t] = a] /\ lock' = NoThread /\ UNCHANGED asleep

\* wait() releases mu_ and enters the wait set in one step.
Block(t) ==
  /\ lock = t /\ InWait(t)
  /\ asleep' = asleep \cup {t} /\ lock' = NoThread
  /\ UNCHANGED <<at, call, stateVars, tableVars, versionVars, flusher, bounds>>

SpuriousWakeUp(t) ==
  /\ t \in asleep /\ spurious < MaxSpurious
  /\ spurious' = spurious + 1
  /\ asleep' = asleep \ {t}
  /\ UNCHANGED <<lock, at, call, stateVars, tableVars, versionVars, flusher>>
  /\ UNCHANGED <<calls, faults>>

WaitingAt(a) == {t \in asleep : at[t] = a}

Return(c) ==
  /\ at' = [at EXCEPT ![c] = "idle"] /\ call' = [call EXCEPT ![c] = "none"]
  /\ lock' = NoThread /\ UNCHANGED asleep
-----------------------------------------------------------------------------
(* Put and Delete.  A Write waits for room in the same way.                *)

BeginStopsFirst(c) ==  \* mutant
  /\ call[c] = "none" /\ ~closed /\ calls < MaxCalls
  /\ calls' = calls + 1
  /\ \/ /\ call' = [call EXCEPT ![c] = "put"]
        /\ at' = [at EXCEPT ![c] = "room"] /\ UNCHANGED <<running, closed>>
     \/ /\ call' = [call EXCEPT ![c] = "close"]
        /\ at' = [at EXCEPT ![c] = "flush"]
        /\ running' = FALSE /\ closed' = TRUE
  /\ UNCHANGED <<lock, asleep, walOpen, tableVars, versionVars>>
  /\ UNCHANGED <<flusher, faults, spurious>>

\* A call begins; Close returns at once when closed_ is set.
Begin(c) ==
  /\ call[c] = "none" /\ calls < MaxCalls
  /\ calls' = calls + 1
  /\ \E k \in {"put", "flush", "compact"} \cup IF closed THEN {} ELSE {"close"} :
       /\ call' = [call EXCEPT ![c] = k]
       /\ at' = [at EXCEPT ![c] = CASE k = "put" -> "room"
                                    [] k = "compact" -> "pick"
                                    [] OTHER -> "flush"]
       /\ closed' = (closed \/ k = "close")
  /\ UNCHANGED <<lock, asleep, running, walOpen, tableVars, versionVars>>
  /\ UNCHANGED <<flusher, faults, spurious>>

InMakeRoom(c) == call[c] \in {"put", "written"} /\ at[c] # "append"
Woken(c) == InWait(c) /\ HasLock(c)

\* At the head of MakeRoomForWriteUnlocked's loop.
AtLoop(c) ==
  /\ HasLock(c) /\ InMakeRoom(c)
  /\ at[c] = "wait_job" => running
  /\ at[c] = "wait_flush" => running /\ CanRotate

\* MakeRoomForWriteUnlocked returns: before the append or at the end of Put.
HasRoom(c) == IF call[c] = "put" THEN Keep(c, "append") /\ UNCHANGED call
              ELSE Return(c)

RoomStopped(c) ==
  /\ AtLoop(c) /\ ShouldStopWrites
  /\ Keep(c, "wait_job")
  /\ UNCHANGED <<call, stateVars, tableVars, versionVars, flusher, bounds>>

RoomFound(c) ==
  /\ AtLoop(c) /\ ~ShouldStopWrites /\ mem < MemTableLimit
  /\ HasRoom(c)
  /\ UNCHANGED <<stateVars, tableVars, versionVars, flusher, bounds>>

\* imm_ = std::move(mem_); the notified flush thread polls anyway.
Rotate == imm' = TRUE /\ mem' = 0

RoomByRotation(c) ==
  /\ AtLoop(c) /\ ~ShouldStopWrites /\ mem >= MemTableLimit /\ CanRotate
  /\ Rotate /\ HasRoom(c)
  /\ UNCHANGED <<stateVars, versionVars, flusher, bounds>>

\* A notified thread whose condition does not hold waits again at once.
RoomAwaitsFlush(c) ==
  /\ \/ AtLoop(c) /\ ~ShouldStopWrites /\ mem >= MemTableLimit
     \/ InMakeRoom(c) /\ Woken(c) /\ at[c] = "wait_flush"
  /\ running /\ ~CanRotate
  /\ Keep(c, "wait_flush")
  /\ UNCHANGED <<call, stateVars, tableVars, versionVars, flusher, bounds>>

\* Once running_ is false a wait ends without room.
RoomGivenUp(c) ==
  /\ ~running
  /\ \/ InMakeRoom(c) /\ Woken(c)
     \/ AtLoop(c) /\ ~ShouldStopWrites /\ mem >= MemTableLimit /\ ~CanRotate
  /\ HasRoom(c)
  /\ UNCHANGED <<stateVars, tableVars, versionVars, flusher, bounds>>

\* The WAL append, which fails once the WAL is closed, and MemTable::Put.
Append(c) ==
  /\ at[c] = "append" /\ lock = c
  /\ IF walOpen THEN /\ mem' = mem + 1
                     /\ call' = [call EXCEPT ![c] = "written"]
                     /\ Keep(c, "room")
     ELSE Return(c) /\ UNCHANGED mem
  /\ UNCHANGED <<imm, stateVars, versionVars, flusher, bounds>>
-----------------------------------------------------------------------------
(* Flush and Close.                                                        *)

InFlush(c) == call[c] \in {"flush", "close"}

\* One turn of Flush()'s loop, from its head or from a wait that is over:
\* rotate, then leave or wait.  A wait whose condition holds at once does not
\* release mu_, so after Close the loop can spin: no step is enabled then.
FlushTurn(c) ==
  /\ HasLock(c) /\ InFlush(c) /\ at[c] \in {"flush", "wait_flush"}
  /\ IF at[c] = "wait_flush" /\ running /\ ~CanRotate
     THEN Keep(c, "wait_flush") /\ UNCHANGED <<call, tableVars>>
     ELSE IF CanRotate /\ (mem = 0 \/ (at[c] = "wait_flush" /\ ~running))
     THEN /\ IF call[c] = "flush" THEN Return(c)
             ELSE Release(c, "stop") /\ UNCHANGED call
          /\ UNCHANGED tableVars
     ELSE /\ IF CanRotate THEN Rotate ELSE UNCHANGED tableVars
          /\ Keep(c, IF running THEN "wait_flush" ELSE "flush")
          /\ UNCHANGED call
  /\ UNCHANGED <<stateVars, versionVars, flusher, bounds>>

\* running_.store(false), without mu_.
Stop(c) ==
  /\ at[c] = "stop"
  /\ running' = FALSE
  /\ at' = [at EXCEPT ![c] = "notify"]
  /\ UNCHANGED <<lock, asleep, call, closed, walOpen, tableVars, versionVars>>
  /\ UNCHANGED <<flusher, bounds>>

\* notify_all of flush_cv_, compaction_cv_ and compaction_done_cv_, without
\* mu_; flush_done_cv_ is not notified.
NotifyAll(c) ==
  /\ at[c] = "notify"
  /\ asleep' = asleep \ (WaitingAt("wait_job") \cup WaitingAt("wait_work"))
  /\ at' = [at EXCEPT ![c] = "join"]
  /\ UNCHANGED <<lock, call, stateVars, tableVars, versionVars, flusher>>
  /\ UNCHANGED bounds

\* Both threads are joined, obsolete files cleaned up under mu_.
Join(c) ==
  /\ at[c] = "join" /\ flusher = "ended" /\ at[Compactor] = "ended"
  /\ HasLock(c)
  /\ Release(c, "close_wal")
  /\ UNCHANGED <<call, stateVars, tableVars, versionVars, flusher, bounds>>

\* wal_.Close(), without mu_.
CloseWal(c) ==
  /\ at[c] = "close_wal"
  /\ walOpen' = FALSE
  /\ at' = [at EXCEPT ![c] = "idle"] /\ call' = [call EXCEPT ![c] = "none"]
  /\ UNCHANGED <<lock, asleep, running, closed, tableVars, versionVars>>
  /\ UNCHANGED <<flusher, bounds>>
-----------------------------------------------------------------------------
(* The flush thread; its wait ends after 100 ms at the latest.             *)

FlushTake ==
  /\ flusher = "wait" /\ lock = NoThread /\ imm
  /\ imm' = FALSE /\ flusher' = "build"
  /\ UNCHANGED <<threadVars, stateVars, mem, versionVars, bounds>>

FlushEndLeavesImm ==  \* mutant
  /\ flusher = "wait" /\ lock = NoThread /\ ~running
  /\ flusher' = "ended"
  /\ UNCHANGED <<threadVars, stateVars, tableVars, versionVars, bounds>>

FlushEnd ==
  /\ flusher = "wait" /\ lock = NoThread /\ ~imm /\ ~running
  /\ flusher' = "ended"
  /\ UNCHANGED <<threadVars, stateVars, tableVars, versionVars, bounds>>

FlushPublishQuietly ==  \* mutant
  /\ flusher = "build" /\ lock = NoThread
  /\ l0' = l0 + 1 /\ flusher' = "schedule"
  /\ UNCHANGED <<threadVars, stateVars, tableVars, over, job, pending, bounds>>

\* The table is built and published, or the build fails; either way
\* flush_done_cv_ is notified under mu_.
FlushPublish ==
  /\ flusher = "build" /\ lock = NoThread
  /\ \/ l0' = l0 + 1 /\ UNCHANGED faults
     \/ faults < MaxFaults /\ faults' = faults + 1 /\ UNCHANGED l0
  /\ flusher' = "schedule"
  /\ asleep' = asleep \ WaitingAt("wait_flush")
  /\ UNCHANGED <<lock, at, call, stateVars, tableVars, over, job, pending>>
  /\ UNCHANGED <<calls, spurious>>

\* MaybeScheduleCompaction
FlushSchedule ==
  /\ flusher = "schedule" /\ lock = NoThread
  /\ flusher' = "wait"
  /\ IF IF job.active THEN l0 >= L0CompactionTrigger
        ELSE ShouldSchedule(l0, over)
     THEN pending' = TRUE /\ asleep' = asleep \ WaitingAt("wait_work")
     ELSE UNCHANGED <<pending, asleep>>
  /\ UNCHANGED <<lock, at, call, stateVars, tableVars, l0, over, job, bounds>>
-----------------------------------------------------------------------------
(* Compaction.                                                             *)

\* PickCompactionWorkUnlocked and MarkCompactionJobStartedUnlocked.
CanPick(force) ==
  /\ ~job.active
  /\ l0 >= L0CompactionTrigger \/ (force /\ l0 > 0) \/ over # {}
StartJob(force) ==
  IF l0 >= L0CompactionTrigger \/ (force /\ l0 > 0)
    THEN job' = [active |-> TRUE, level |-> 0, files |-> l0] /\ l0' = 0
    ELSE /\ job' = [active |-> TRUE, files |-> 0,
                    level |-> CHOOSE l \in over : \A i \in over : l <= i]
         /\ UNCHANGED l0

\* CompactionThread: it ends, takes a job, finds none, or waits.
ThreadEnds ==
  /\ at[Compactor] = "wait_work" /\ HasLock(Compactor) /\ ~running
  /\ Release(Compactor, "ended")
  /\ UNCHANGED <<call, stateVars, tableVars, versionVars, flusher, bounds>>

ThreadPicks ==
  /\ at[Compactor] = "wait_work" /\ HasLock(Compactor) /\ running /\ pending
  /\ pending' = FALSE
  /\ IF CanPick(FALSE)
       THEN StartJob(FALSE) /\ Release(Compactor, "run")
       ELSE UNCHANGED <<l0, job, lock, at, asleep>>
  /\ UNCHANGED <<call, stateVars, tableVars, over, flusher, bounds>>

ThreadWaits ==
  /\ at[Compactor] = "wait_work" /\ HasLock(Compactor) /\ running /\ ~pending
  /\ Keep(Compactor, "wait_work")
  /\ UNCHANGED <<call, stateVars, tableVars, versionVars, flusher, bounds>>

\* RunOneCompaction, called by Compact: it waits for the job in progress.
CompactWaits(c) ==
  /\ call[c] = "compact" /\ at[c] \in {"pick", "wait_job"} /\ HasLock(c)
  /\ job.active /\ running
  /\ Keep(c, "wait_job")
  /\ UNCHANGED <<call, stateVars, tableVars, versionVars, flusher, bounds>>

CompactPicks(c) ==
  /\ call[c] = "compact" /\ at[c] \in {"pick", "wait_job"} /\ HasLock(c)
  /\ job.active => ~running
  /\ IF CanPick(TRUE)
       THEN /\ StartJob(TRUE) /\ pending' = FALSE
            /\ Release(c, "run") /\ UNCHANGED call
       ELSE Return(c) /\ UNCHANGED <<l0, job, pending>>
  /\ UNCHANGED <<stateVars, tableVars, over, flusher, bounds>>

EndJobQuietly(n, levels) ==  \* mutant
  /\ l0' = n /\ over' = levels /\ job' = NoJob
  /\ asleep' = asleep \ WaitingAt("wait_job")
  /\ UNCHANGED pending

EndJobNotifiesOne(n, levels) ==  \* mutant
  /\ l0' = n /\ over' = levels /\ job' = NoJob
  /\ LET again == running /\ (pending \/ ShouldSchedule(n, levels))
         one == {u \in WaitingAt("wait_job") :
                   u = CHOOSE x \in WaitingAt("wait_job") : TRUE} IN
     /\ pending' = (pending \/ again)
     /\ asleep' = asleep \ (one \cup
                            IF again THEN WaitingAt("wait_work") ELSE {})

\* The job ends: it is scheduled again if one is due, and all who wait for
\* the end are notified.
EndJob(n, levels) ==
  /\ l0' = n /\ over' = levels /\ job' = NoJob
  /\ LET again == running /\ (pending \/ ShouldSchedule(n, levels)) IN
     /\ pending' = (pending \/ again)
     /\ asleep' = asleep \ (WaitingAt("wait_job") \cup
                            IF again THEN WaitingAt("wait_work") ELSE {})

\* The level below may be over its limit afterwards; level 1 may even have
\* shrunk, for duplicates are gone.
LevelsAfter ==
  {levels \in SUBSET (1 .. MaxLevel - 2) :
     /\ job.level \notin levels
     /\ \A i \in 1 .. MaxLevel - 2 :
          \/ i \in {job.level, job.level + 1}
          \/ i \in levels <=> i \in over
     /\ job.level > 0 /\ job.level + 1 \in over => job.level + 1 \in levels}

\* The end of RunCompactionWork, with or without a commit.
RunCompaction(t) ==
  /\ at[t] = "run" /\ HasLock(t)
  /\ \/ \E levels \in LevelsAfter :
          EndJob(l0, levels) /\ UNCHANGED faults
     \/ /\ faults < MaxFaults /\ faults' = faults + 1
        /\ EndJob(l0 + job.files, over)
  /\ at' = [at EXCEPT ![t] = IF t = Compactor THEN "wait_work" ELSE "idle"]
  /\ call' = [c \in Clients |-> IF c = t THEN "none" ELSE call[c]]
  /\ lock' = NoThread
  /\ UNCHANGED <<stateVars, tableVars, flusher, calls, spurious>>
-----------------------------------------------------------------------------
MakeRoom(c) ==
  \/ RoomStopped(c) \/ RoomFound(c) \/ RoomByRotation(c)
  \/ RoomAwaitsFlush(c) \/ RoomGivenUp(c)
Closing(c) == Stop(c) \/ NotifyAll(c) \/ Join(c) \/ CloseWal(c)

\* The steps of a call once it has begun.
ClientStep(c) ==
  \/ MakeRoom(c) \/ Append(c) \/ FlushTurn(c) \/ Closing(c)
  \/ CompactWaits(c) \/ CompactPicks(c) \/ RunCompaction(c) \/ Block(c)
FlushThread == FlushTake \/ FlushEnd \/ FlushPublish \/ FlushSchedule
CompactionThread ==
  \/ ThreadEnds \/ ThreadPicks \/ ThreadWaits
  \/ RunCompaction(Compactor) \/ Block(Compactor)

Next ==
  \/ \E c \in Clients : Begin(c) \/ ClientStep(c)
  \/ FlushThread \/ CompactionThread
  \/ \E t \in Threads : SpuriousWakeUp(t)

\* Every thread that can run runs; nobody has to call, nor to wake up
\* without a notification.
Fairness ==
  /\ \A c \in Clients : WF_vars(ClientStep(c))
  /\ WF_vars(FlushThread) /\ WF_vars(CompactionThread)

Spec == Init /\ [][Next]_vars /\ Fairness
-----------------------------------------------------------------------------
(* Properties.                                                             *)

\* A Flush that found running_ false while a flush goes on or imm_ is set
\* keeps mu_ and loops for ever: it was called next to or after Close.
Spins == \E c \in Clients :
  call[c] = "flush" /\ at[c] = "flush" /\ lock = c /\ ~running /\ ~CanRotate

\* The compaction thread entered the wait set after Close had notified it.
MissedNotice == Compactor \in asleep /\ \E c \in Clients : at[c] = "join"

\* No thread sleeps unless somebody is due to wake it: a writer or a Flush
\* only while a flush that will notify it is ahead or under way, whoever
\* waits for a compaction only while one runs, and the compaction thread
\* only while no work is pending.  Waiting again after a wake-up, the timed
\* wait of the flush thread and the end of both threads are included.
SleepersHaveWakers == \A t \in asleep :
  CASE at[t] = "wait_flush" -> (imm \/ FlushInProgress) /\ flusher # "ended"
    [] at[t] = "wait_job" -> job.active /\ \E u \in Threads : at[u] = "run"
    [] at[t] = "wait_work" -> ~pending \/ ~running

\* Every Put, Delete, Flush and Compact returns, next to Close too, unless a
\* Flush spins.
CallsReturn == \A c \in Clients :
  call[c] \notin {"none", "close"} ~> call[c] = "none" \/ Spins

\* Close returns, unless the compaction thread missed its notification or
\* another client's Flush spins: the flush thread lives as long as Close's
\* own Flush() needs it.
CloseReturns == \A c \in Clients :
  call[c] = "close" ~> call[c] = "none" \/ MissedNotice \/ Spins

\* A compaction that is due starts, unless the engine is closed before.
DueCompactionStarts ==
  ShouldSchedule(l0, over) ~>
    job.active \/ ~ShouldSchedule(l0, over) \/ ~running

\* A memtable rotated while the flush thread lives is flushed, also after
\* Close stopped the engine.
RotatedIsFlushed == imm /\ flusher # "ended" ~> ~imm \/ Spins
=============================================================================
