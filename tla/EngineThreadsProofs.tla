------------------------- MODULE EngineThreadsProofs -------------------------
(***************************************************************************)
(* No thread of EngineThreads sleeps without a waker, for every number of  *)
(* clients, all limits and all bounds.                                     *)
(***************************************************************************)
EXTENDS EngineThreads, TLAPS

Places ==
  Waits \cup {"idle", "room", "append", "flush", "stop", "notify", "join",
              "close_wal", "pick", "run", "ended"}

\* The types that the argument needs.
ThreadsTypeOK ==
  /\ lock \in Threads \cup {NoThread}
  /\ asleep \subseteq Threads
  /\ at \in [Threads -> Places]
  /\ call \in [Clients -> {"none", "put", "written", "flush", "compact",
                          "close"}]
  /\ running \in BOOLEAN
  /\ imm \in BOOLEAN
  /\ pending \in BOOLEAN
  /\ flusher \in {"wait", "build", "schedule", "ended"}
  /\ job.active \in BOOLEAN

\* The thread is in a wait set, or keeps mu_ until it is.
Blocks(t) == t \in asleep \/ (lock = t /\ InWait(t))

\* What wakes a writer or a Flush, and the compaction thread.
FlushAhead == (imm \/ FlushInProgress) /\ flusher # "ended"
WorkAwaited == ~pending \/ ~running

\* A thread waits only at the places where the code waits.
SleepersWait == \A t \in asleep : InWait(t)
FlushWaiters == \A t \in Threads :
  Blocks(t) /\ at[t] = "wait_flush" => FlushAhead
JobWaiters == \A t \in Threads : Blocks(t) /\ at[t] = "wait_job" => job.active
WorkWaiters == \A t \in Threads :
  Blocks(t) /\ at[t] = "wait_work" => WorkAwaited

\* A client out of a call is nowhere; only Compact runs a job in a client.
CallPlaces == \A c \in Clients :
  /\ call[c] = "none" => at[c] = "idle"
  /\ call[c] \in {"put", "written"} => at[c] # "run"

\* The flush thread ends after Close stopped the engine; a job has a thread.
EndedStopped == flusher = "ended" => ~running
JobHasThread == job.active => \E u \in Threads : at[u] = "run"

WakersInv ==
  /\ ThreadsTypeOK /\ SleepersWait /\ CallPlaces
  /\ FlushWaiters /\ JobWaiters /\ WorkWaiters
  /\ EndedStopped /\ JobHasThread
-----------------------------------------------------------------------------
LEMMA InitWakers == Init => WakersInv
<1> SUFFICES ASSUME Init PROVE WakersInv
  OBVIOUS
<1>1. ThreadsTypeOK
  BY ThreadsAssumption
     DEF Init, ThreadsTypeOK, Threads, Places, Waits, NoJob
<1>2. \A t \in Threads : ~Blocks(t)
  BY ThreadsAssumption DEF Init, Blocks, Threads
<1>3. CallPlaces
  BY ThreadsAssumption DEF Init, CallPlaces, Threads
<1>4. SleepersWait /\ EndedStopped /\ JobHasThread
  BY DEF Init, SleepersWait, EndedStopped, JobHasThread, NoJob
<1> QED
  BY <1>1, <1>2, <1>3, <1>4
     DEF WakersInv, FlushWaiters, JobWaiters, WorkWaiters

LEMMA BlockKeeps ==
  ASSUME WakersInv, NEW t \in Threads, Block(t)
  PROVE WakersInv'
BY ThreadsAssumption
   DEF WakersInv, ThreadsTypeOK, SleepersWait, CallPlaces, FlushWaiters,
       JobWaiters, WorkWaiters, EndedStopped, JobHasThread, Blocks, InWait,
       FlushAhead, FlushInProgress, WorkAwaited, Threads, Places, Waits,
       threadVars, stateVars, tableVars, versionVars, bounds,
       Block

LEMMA RoomStoppedKeeps ==
  ASSUME WakersInv, NEW c \in Clients, RoomStopped(c)
  PROVE WakersInv'
BY ThreadsAssumption
   DEF WakersInv, ThreadsTypeOK, SleepersWait, CallPlaces, FlushWaiters,
       JobWaiters, WorkWaiters, EndedStopped, JobHasThread, Blocks, InWait,
       FlushAhead, FlushInProgress, WorkAwaited, Threads, Places, Waits,
       threadVars, stateVars, tableVars, versionVars, bounds,
       RoomStopped, AtLoop, HasLock, InMakeRoom, Keep, ShouldStopWrites

LEMMA RoomFoundKeeps ==
  ASSUME WakersInv, NEW c \in Clients, RoomFound(c)
  PROVE WakersInv'
BY ThreadsAssumption
   DEF WakersInv, ThreadsTypeOK, SleepersWait, CallPlaces, FlushWaiters,
       JobWaiters, WorkWaiters, EndedStopped, JobHasThread, Blocks, InWait,
       FlushAhead, FlushInProgress, WorkAwaited, Threads, Places, Waits,
       threadVars, stateVars, tableVars, versionVars, bounds,
       RoomFound, AtLoop, HasLock, InMakeRoom, HasRoom, Keep, Return

LEMMA RoomByRotationKeeps ==
  ASSUME WakersInv, NEW c \in Clients, RoomByRotation(c)
  PROVE WakersInv'
BY ThreadsAssumption
   DEF WakersInv, ThreadsTypeOK, SleepersWait, CallPlaces, FlushWaiters,
       JobWaiters, WorkWaiters, EndedStopped, JobHasThread, Blocks, InWait,
       FlushAhead, FlushInProgress, WorkAwaited, Threads, Places, Waits,
       threadVars, stateVars, tableVars, versionVars, bounds,
       RoomByRotation, AtLoop, HasLock, InMakeRoom, HasRoom, Keep, Return, Rotate

LEMMA RoomAwaitsFlushKeeps ==
  ASSUME WakersInv, NEW c \in Clients, RoomAwaitsFlush(c)
  PROVE WakersInv'
BY ThreadsAssumption
   DEF WakersInv, ThreadsTypeOK, SleepersWait, CallPlaces, FlushWaiters,
       JobWaiters, WorkWaiters, EndedStopped, JobHasThread, Blocks, InWait,
       FlushAhead, FlushInProgress, WorkAwaited, Threads, Places, Waits,
       threadVars, stateVars, tableVars, versionVars, bounds,
       RoomAwaitsFlush, AtLoop, HasLock, InMakeRoom, Keep, CanRotate, Woken

LEMMA RoomGivenUpKeeps ==
  ASSUME WakersInv, NEW c \in Clients, RoomGivenUp(c)
  PROVE WakersInv'
BY ThreadsAssumption
   DEF WakersInv, ThreadsTypeOK, SleepersWait, CallPlaces, FlushWaiters,
       JobWaiters, WorkWaiters, EndedStopped, JobHasThread, Blocks, InWait,
       FlushAhead, FlushInProgress, WorkAwaited, Threads, Places, Waits,
       threadVars, stateVars, tableVars, versionVars, bounds,
       RoomGivenUp, AtLoop, HasLock, InMakeRoom, HasRoom, Keep, Return, Woken

LEMMA AppendKeeps ==
  ASSUME WakersInv, NEW c \in Clients, Append(c)
  PROVE WakersInv'
BY ThreadsAssumption
   DEF WakersInv, ThreadsTypeOK, SleepersWait, CallPlaces, FlushWaiters,
       JobWaiters, WorkWaiters, EndedStopped, JobHasThread, Blocks, InWait,
       FlushAhead, FlushInProgress, WorkAwaited, Threads, Places, Waits,
       threadVars, stateVars, tableVars, versionVars, bounds,
       Append, Keep, Return

LEMMA FlushTurnKeeps ==
  ASSUME WakersInv, NEW c \in Clients, FlushTurn(c)
  PROVE WakersInv'
<1> DEFINE Goes == at[c] = "wait_flush" /\ running /\ ~CanRotate
           Leaves == CanRotate /\ (mem = 0 \/ (at[c] = "wait_flush" /\ ~running))
<1>1. /\ HasLock(c) /\ InFlush(c) /\ at[c] \in {"flush", "wait_flush"}
      /\ UNCHANGED <<running, pending, job, flusher>>
  BY DEF FlushTurn, stateVars, versionVars
<1>2. CASE Goes
  <2>1. Keep(c, "wait_flush") /\ UNCHANGED <<call, imm>>
    BY <1>2 DEF FlushTurn, tableVars
  <2> QED
    BY <1>1, <1>2, <2>1, ThreadsAssumption
       DEF WakersInv, ThreadsTypeOK, SleepersWait, CallPlaces, FlushWaiters,
          JobWaiters, WorkWaiters, EndedStopped, JobHasThread, Blocks, InWait,
          FlushAhead, FlushInProgress, WorkAwaited, Threads, Places, Waits,
          threadVars, stateVars, tableVars, versionVars, bounds, HasLock,
          InFlush, Keep, CanRotate
<1>3. CASE ~Goes /\ Leaves
  <2>1. /\ Return(c) \/ (Release(c, "stop") /\ UNCHANGED call)
        /\ UNCHANGED imm
    BY <1>3 DEF FlushTurn, tableVars
  <2> QED
    BY <1>1, <2>1, ThreadsAssumption
       DEF WakersInv, ThreadsTypeOK, SleepersWait, CallPlaces, FlushWaiters,
          JobWaiters, WorkWaiters, EndedStopped, JobHasThread, Blocks, InWait,
          FlushAhead, FlushInProgress, WorkAwaited, Threads, Places, Waits,
          threadVars, stateVars, tableVars, versionVars, bounds, HasLock,
          InFlush, Return, Release
<1>4. CASE ~Goes /\ ~Leaves
  <2>1. /\ Keep(c, IF running THEN "wait_flush" ELSE "flush")
        /\ UNCHANGED call
        /\ IF CanRotate THEN imm' = TRUE ELSE UNCHANGED imm
    BY <1>4 DEF FlushTurn, Rotate, tableVars
  <2>2. FlushInProgress \/ imm'
    BY <2>1 DEF CanRotate, WakersInv, ThreadsTypeOK
  <2> QED
    BY <1>1, <2>1, <2>2, ThreadsAssumption
       DEF WakersInv, ThreadsTypeOK, SleepersWait, CallPlaces, FlushWaiters,
          JobWaiters, WorkWaiters, EndedStopped, JobHasThread, Blocks, InWait,
          FlushAhead, FlushInProgress, WorkAwaited, Threads, Places, Waits,
          threadVars, stateVars, tableVars, versionVars, bounds, HasLock,
          InFlush, Keep
<1> QED
  BY <1>2, <1>3, <1>4

LEMMA StopKeeps ==
  ASSUME WakersInv, NEW c \in Clients, Stop(c)
  PROVE WakersInv'
BY ThreadsAssumption
   DEF WakersInv, ThreadsTypeOK, SleepersWait, CallPlaces, FlushWaiters,
       JobWaiters, WorkWaiters, EndedStopped, JobHasThread, Blocks, InWait,
       FlushAhead, FlushInProgress, WorkAwaited, Threads, Places, Waits,
       threadVars, stateVars, tableVars, versionVars, bounds,
       Stop

LEMMA NotifyAllKeeps ==
  ASSUME WakersInv, NEW c \in Clients, NotifyAll(c)
  PROVE WakersInv'
BY ThreadsAssumption
   DEF WakersInv, ThreadsTypeOK, SleepersWait, CallPlaces, FlushWaiters,
       JobWaiters, WorkWaiters, EndedStopped, JobHasThread, Blocks, InWait,
       FlushAhead, FlushInProgress, WorkAwaited, Threads, Places, Waits,
       threadVars, stateVars, tableVars, versionVars, bounds,
       NotifyAll, WaitingAt

LEMMA JoinKeeps ==
  ASSUME WakersInv, NEW c \in Clients, Join(c)
  PROVE WakersInv'
BY ThreadsAssumption
   DEF WakersInv, ThreadsTypeOK, SleepersWait, CallPlaces, FlushWaiters,
       JobWaiters, WorkWaiters, EndedStopped, JobHasThread, Blocks, InWait,
       FlushAhead, FlushInProgress, WorkAwaited, Threads, Places, Waits,
       threadVars, stateVars, tableVars, versionVars, bounds,
       Join, HasLock, Release

LEMMA CloseWalKeeps ==
  ASSUME WakersInv, NEW c \in Clients, CloseWal(c)
  PROVE WakersInv'
BY ThreadsAssumption
   DEF WakersInv, ThreadsTypeOK, SleepersWait, CallPlaces, FlushWaiters,
       JobWaiters, WorkWaiters, EndedStopped, JobHasThread, Blocks, InWait,
       FlushAhead, FlushInProgress, WorkAwaited, Threads, Places, Waits,
       threadVars, stateVars, tableVars, versionVars, bounds,
       CloseWal

LEMMA CompactWaitsKeeps ==
  ASSUME WakersInv, NEW c \in Clients, CompactWaits(c)
  PROVE WakersInv'
BY ThreadsAssumption
   DEF WakersInv, ThreadsTypeOK, SleepersWait, CallPlaces, FlushWaiters,
       JobWaiters, WorkWaiters, EndedStopped, JobHasThread, Blocks, InWait,
       FlushAhead, FlushInProgress, WorkAwaited, Threads, Places, Waits,
       threadVars, stateVars, tableVars, versionVars, bounds,
       CompactWaits, HasLock, Keep

LEMMA CompactPicksKeeps ==
  ASSUME WakersInv, NEW c \in Clients, CompactPicks(c)
  PROVE WakersInv'
<1>1. CASE CanPick(TRUE)
  <2>1. job'.active = TRUE /\ pending' = FALSE /\ Release(c, "run")
    BY <1>1 DEF CompactPicks, StartJob
  <2>2. /\ UNCHANGED <<call, stateVars, tableVars, flusher>>
        /\ call[c] = "compact" /\ HasLock(c)
    BY <1>1 DEF CompactPicks
  <2> QED
    BY <2>1, <2>2, ThreadsAssumption
       DEF WakersInv, ThreadsTypeOK, SleepersWait, CallPlaces, FlushWaiters,
          JobWaiters, WorkWaiters, EndedStopped, JobHasThread, Blocks, InWait,
          FlushAhead, FlushInProgress, WorkAwaited, Threads, Places, Waits,
          threadVars, stateVars, tableVars, versionVars, bounds, HasLock,
          Release
<1>2. CASE ~CanPick(TRUE)
  <2>1. /\ Return(c) /\ UNCHANGED <<l0, job, pending>>
        /\ UNCHANGED <<stateVars, tableVars, flusher>>
        /\ call[c] = "compact" /\ HasLock(c) /\ at[c] \in {"pick", "wait_job"}
    BY <1>2 DEF CompactPicks
  <2> QED
    BY <2>1, ThreadsAssumption
       DEF WakersInv, ThreadsTypeOK, SleepersWait, CallPlaces, FlushWaiters,
          JobWaiters, WorkWaiters, EndedStopped, JobHasThread, Blocks, InWait,
          FlushAhead, FlushInProgress, WorkAwaited, Threads, Places, Waits,
          threadVars, stateVars, tableVars, versionVars, bounds, HasLock,
          Return
<1> QED
  BY <1>1, <1>2

LEMMA RunCompactionKeeps ==
  ASSUME WakersInv, NEW t \in Threads, RunCompaction(t)
  PROVE WakersInv'
<1>1. PICK n, levels : EndJob(n, levels)
  BY DEF RunCompaction
<1>2. /\ job'.active = FALSE
      /\ asleep' \subseteq asleep \ WaitingAt("wait_job")
      /\ pending' \in BOOLEAN /\ lock' = NoThread
      /\ running /\ pending' => asleep' \cap WaitingAt("wait_work") = {}
  BY <1>1 DEF RunCompaction, EndJob, NoJob, WakersInv, ThreadsTypeOK
<1>3. /\ at' = [at EXCEPT ![t] = IF t = Compactor THEN "wait_work" ELSE "idle"]
      /\ call' = [c \in Clients |-> IF c = t THEN "none" ELSE call[c]]
      /\ UNCHANGED <<running, imm, flusher>>
      /\ at[t] = "run" /\ t \notin asleep
  BY DEF RunCompaction, HasLock, stateVars, tableVars
<1>4. \A u \in Threads : Blocks(u)' =>
        u \in asleep /\ u \in asleep' /\ at'[u] = at[u]
  BY <1>2, <1>3, ThreadsAssumption
     DEF Blocks, WakersInv, ThreadsTypeOK, Threads
<1>5. ThreadsTypeOK' /\ SleepersWait' /\ CallPlaces'
  BY <1>2, <1>3, ThreadsAssumption
     DEF WakersInv, ThreadsTypeOK, SleepersWait, CallPlaces, InWait, Threads,
         Places, Waits
<1>6. FlushWaiters' /\ EndedStopped'
  BY <1>3, <1>4
     DEF WakersInv, FlushWaiters, EndedStopped, Blocks, FlushAhead,
         FlushInProgress
<1>7. JobWaiters' /\ JobHasThread'
  BY <1>2, <1>4 DEF JobWaiters, JobHasThread, WaitingAt
<1>8. WorkWaiters'
  BY <1>2, <1>3, <1>4
     DEF WorkWaiters, WaitingAt, WorkAwaited, WakersInv, ThreadsTypeOK
<1> QED
  BY <1>5, <1>6, <1>7, <1>8 DEF WakersInv

LEMMA SpuriousWakeUpKeeps ==
  ASSUME WakersInv, NEW t \in Threads, SpuriousWakeUp(t)
  PROVE WakersInv'
BY ThreadsAssumption
   DEF WakersInv, ThreadsTypeOK, SleepersWait, CallPlaces, FlushWaiters,
       JobWaiters, WorkWaiters, EndedStopped, JobHasThread, Blocks, InWait,
       FlushAhead, FlushInProgress, WorkAwaited, Threads, Places, Waits,
       threadVars, stateVars, tableVars, versionVars, bounds,
       SpuriousWakeUp

LEMMA BeginKeeps ==
  ASSUME WakersInv, NEW c \in Clients, Begin(c)
  PROVE WakersInv'
BY ThreadsAssumption
   DEF WakersInv, ThreadsTypeOK, SleepersWait, CallPlaces, FlushWaiters,
       JobWaiters, WorkWaiters, EndedStopped, JobHasThread, Blocks, InWait,
       FlushAhead, FlushInProgress, WorkAwaited, Threads, Places, Waits,
       threadVars, stateVars, tableVars, versionVars, bounds,
       Begin

LEMMA FlushTakeKeeps ==
  ASSUME WakersInv, FlushTake
  PROVE WakersInv'
BY ThreadsAssumption
   DEF WakersInv, ThreadsTypeOK, SleepersWait, CallPlaces, FlushWaiters,
       JobWaiters, WorkWaiters, EndedStopped, JobHasThread, Blocks, InWait,
       FlushAhead, FlushInProgress, WorkAwaited, Threads, Places, Waits,
       threadVars, stateVars, tableVars, versionVars, bounds,
       FlushTake

LEMMA FlushEndKeeps ==
  ASSUME WakersInv, FlushEnd
  PROVE WakersInv'
BY ThreadsAssumption
   DEF WakersInv, ThreadsTypeOK, SleepersWait, CallPlaces, FlushWaiters,
       JobWaiters, WorkWaiters, EndedStopped, JobHasThread, Blocks, InWait,
       FlushAhead, FlushInProgress, WorkAwaited, Threads, Places, Waits,
       threadVars, stateVars, tableVars, versionVars, bounds,
       FlushEnd

LEMMA FlushPublishKeeps ==
  ASSUME WakersInv, FlushPublish
  PROVE WakersInv'
BY ThreadsAssumption
   DEF WakersInv, ThreadsTypeOK, SleepersWait, CallPlaces, FlushWaiters,
       JobWaiters, WorkWaiters, EndedStopped, JobHasThread, Blocks, InWait,
       FlushAhead, FlushInProgress, WorkAwaited, Threads, Places, Waits,
       threadVars, stateVars, tableVars, versionVars, bounds,
       FlushPublish, WaitingAt

LEMMA FlushScheduleKeeps ==
  ASSUME WakersInv, FlushSchedule
  PROVE WakersInv'
BY ThreadsAssumption
   DEF WakersInv, ThreadsTypeOK, SleepersWait, CallPlaces, FlushWaiters,
       JobWaiters, WorkWaiters, EndedStopped, JobHasThread, Blocks, InWait,
       FlushAhead, FlushInProgress, WorkAwaited, Threads, Places, Waits,
       threadVars, stateVars, tableVars, versionVars, bounds,
       FlushSchedule, WaitingAt

LEMMA ThreadEndsKeeps ==
  ASSUME WakersInv, ThreadEnds
  PROVE WakersInv'
BY ThreadsAssumption
   DEF WakersInv, ThreadsTypeOK, SleepersWait, CallPlaces, FlushWaiters,
       JobWaiters, WorkWaiters, EndedStopped, JobHasThread, Blocks, InWait,
       FlushAhead, FlushInProgress, WorkAwaited, Threads, Places, Waits,
       threadVars, stateVars, tableVars, versionVars, bounds,
       ThreadEnds, HasLock, Release

LEMMA ThreadPicksKeeps ==
  ASSUME WakersInv, ThreadPicks
  PROVE WakersInv'
<1>1. CASE CanPick(FALSE)
  <2>1. /\ job'.active = TRUE /\ pending' = FALSE /\ Release(Compactor, "run")
    BY <1>1 DEF ThreadPicks, StartJob
  <2>2. /\ UNCHANGED <<call, stateVars, tableVars, flusher>>
        /\ HasLock(Compactor)
    BY <1>1 DEF ThreadPicks
  <2> QED
    BY <2>1, <2>2, ThreadsAssumption
       DEF WakersInv, ThreadsTypeOK, SleepersWait, CallPlaces, FlushWaiters,
          JobWaiters, WorkWaiters, EndedStopped, JobHasThread, Blocks, InWait,
          FlushAhead, FlushInProgress, WorkAwaited, Threads, Places, Waits,
          threadVars, stateVars, tableVars, versionVars, bounds, HasLock,
          Release
<1>2. CASE ~CanPick(FALSE)
  <2>1. /\ UNCHANGED <<job, lock, at, asleep, call, stateVars, tableVars>>
        /\ UNCHANGED flusher /\ pending' = FALSE
    BY <1>2 DEF ThreadPicks
  <2> QED
    BY <2>1, ThreadsAssumption
       DEF WakersInv, ThreadsTypeOK, SleepersWait, CallPlaces, FlushWaiters,
          JobWaiters, WorkWaiters, EndedStopped, JobHasThread, Blocks, InWait,
          FlushAhead, FlushInProgress, WorkAwaited, Threads, Places, Waits,
          threadVars, stateVars, tableVars, versionVars, bounds
<1> QED
  BY <1>1, <1>2

LEMMA ThreadWaitsKeeps ==
  ASSUME WakersInv, ThreadWaits
  PROVE WakersInv'
BY ThreadsAssumption
   DEF WakersInv, ThreadsTypeOK, SleepersWait, CallPlaces, FlushWaiters,
       JobWaiters, WorkWaiters, EndedStopped, JobHasThread, Blocks, InWait,
       FlushAhead, FlushInProgress, WorkAwaited, Threads, Places, Waits,
       threadVars, stateVars, tableVars, versionVars, bounds,
       ThreadWaits, HasLock, Keep

-----------------------------------------------------------------------------
LEMMA StepKeepsWakers ==
  ASSUME WakersInv, [Next]_vars
  PROVE WakersInv'
<1>1. ASSUME NEW c \in Clients, Begin(c) PROVE WakersInv'
  BY <1>1, BeginKeeps
<1>2. ASSUME NEW c \in Clients, ClientStep(c) PROVE WakersInv'
  <2>1. c \in Threads
    BY DEF Threads
  <2>2. CASE MakeRoom(c)
    BY <2>2, RoomStoppedKeeps, RoomFoundKeeps, RoomByRotationKeeps,
       RoomAwaitsFlushKeeps, RoomGivenUpKeeps
       DEF MakeRoom
  <2>3. CASE Closing(c)
    BY <2>3, StopKeeps, NotifyAllKeeps, JoinKeeps, CloseWalKeeps DEF Closing
  <2>4. CASE Append(c) \/ FlushTurn(c) \/ CompactWaits(c) \/ CompactPicks(c)
    BY <2>4, AppendKeeps, FlushTurnKeeps, CompactWaitsKeeps, CompactPicksKeeps
  <2>5. CASE RunCompaction(c) \/ Block(c)
    BY <2>1, <2>5, RunCompactionKeeps, BlockKeeps
  <2> QED
    BY <1>2, <2>2, <2>3, <2>4, <2>5 DEF ClientStep
<1>3. CASE FlushThread
  BY <1>3, FlushTakeKeeps, FlushEndKeeps, FlushPublishKeeps,
     FlushScheduleKeeps
     DEF FlushThread
<1>4. CASE CompactionThread
  <2>1. Compactor \in Threads
    BY DEF Threads
  <2> QED
    BY <1>4, <2>1, ThreadEndsKeeps, ThreadPicksKeeps, ThreadWaitsKeeps,
       BlockKeeps, RunCompactionKeeps
       DEF CompactionThread
<1>5. ASSUME NEW t \in Threads, SpuriousWakeUp(t) PROVE WakersInv'
  BY <1>5, SpuriousWakeUpKeeps
<1>6. CASE UNCHANGED vars
  BY <1>6
     DEF vars, WakersInv, ThreadsTypeOK, SleepersWait, CallPlaces,
         FlushWaiters, JobWaiters, WorkWaiters, EndedStopped, JobHasThread,
         Blocks, InWait, FlushAhead, FlushInProgress, WorkAwaited,
         threadVars, stateVars, tableVars, versionVars, bounds
<1> QED
  BY <1>1, <1>2, <1>3, <1>4, <1>5, <1>6 DEF Next

\* WakersInv suffices: what holds of a thread before it blocks still holds
\* when it sleeps.
LEMMA WakersSuffice == WakersInv => SleepersHaveWakers
<1> SUFFICES ASSUME WakersInv PROVE SleepersHaveWakers
  OBVIOUS
<1> SUFFICES ASSUME NEW t \in asleep
             PROVE CASE at[t] = "wait_flush" ->
                          (imm \/ FlushInProgress) /\ flusher # "ended"
                     [] at[t] = "wait_job" ->
                          job.active /\ \E u \in Threads : at[u] = "run"
                     [] at[t] = "wait_work" -> ~pending \/ ~running
  BY DEF SleepersHaveWakers
<1>1. t \in Threads /\ Blocks(t) /\ at[t] \in Waits
  BY DEF WakersInv, ThreadsTypeOK, SleepersWait, Blocks, InWait
<1>2. CASE at[t] = "wait_flush"
  BY <1>1, <1>2 DEF WakersInv, FlushWaiters, FlushAhead
<1>3. CASE at[t] = "wait_job"
  BY <1>1, <1>3 DEF WakersInv, JobWaiters, JobHasThread
<1>4. CASE at[t] = "wait_work"
  BY <1>1, <1>4 DEF WakersInv, WorkWaiters, WorkAwaited
<1> QED
  BY <1>1, <1>2, <1>3, <1>4 DEF Waits

\* Between its decision to wait and its notification nothing that a thread
\* waits for can become true unnoticed, but for Close, which sets running_
\* without mu_ (engine.cpp:63).  No fairness is needed.
THEOREM NobodySleepsUnnoticed == Spec => []SleepersHaveWakers
<1>1. Init => WakersInv
  BY InitWakers
<1>2. WakersInv /\ [Next]_vars => WakersInv'
  BY StepKeepsWakers
<1> QED
  BY <1>1, <1>2, WakersSuffice, PTL DEF Spec
=============================================================================
