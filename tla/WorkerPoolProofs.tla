-------------------------- MODULE WorkerPoolProofs ---------------------------
(****************************************************************************)
(* Theorems about the worker pool, for every number of workers, every       *)
(* initial capacity and every number of items.                              *)
(****************************************************************************)
EXTENDS WorkerPool, PartitionProofs

USE PoolAssumption

(* The main thread is not one of the workers, which are numbered from 0.    *)
LEMMA ThreadSets ==
  /\ Main \in Threads
  /\ \A w \in Workers : w \in Threads /\ w \in Nat /\ w < ThreadCount
  /\ \A i \in Nat : i < ThreadCount => i \in Workers
  /\ Arenas = {"dispatch", "for"} /\ None = "none" /\ NoWorker = -1
  BY DEF Main, Threads, Workers, Arenas, None, NoWorker

(* A batch introduced now consists of items.                                *)
LEMMA NewItemsType ==
  ASSUME TypeOK, NEW n \in Nat, submitted + n <= MaxItems
  PROVE  NewItems(n) \in Seq(Items)
  <1>1. \A k \in 1 .. n : submitted + k \in Items
    BY DEF Items, TypeOK, HistoryType
  <1>2. NewItems(n) \in [1 .. n -> Items]
    BY <1>1 DEF NewItems
  <1> QED
    BY <1>2

(* Running any item counts it.                                              *)
LEMMA ExecuteType ==
  ASSUME runs \in [Items -> Nat], NEW it, Execute(it)
  PROVE  runs' \in [Items -> Nat]
  <1>1. CASE it \in Items
    BY <1>1 DEF Execute
  <1>2. CASE it \notin Items
    BY <1>2 DEF Execute
  <1> QED
    BY <1>1, <1>2

(* Clearing the staging array, or not, leaves a sequence of items.          *)
LEMMA StagingType ==
  ASSUME TypeOK, ClearStaging \/ UNCHANGED staging
  PROVE  staging' \in Seq(Items)
  <1>1. CASE ClearStaging
    BY <1>1 DEF ClearStaging
  <1>2. CASE UNCHANGED staging
    BY <1>2 DEF TypeOK, ContextType
  <1> QED
    BY <1>1, <1>2

(* A slice is a first index and a count.                                    *)
LEMMA SliceType ==
  ASSUME NEW n \in Nat, NEW t \in Threads
  PROVE  /\ DispatchSlice(n, t) \in [first : Nat, count : Nat]
         /\ ForSlice(n, t) \in [first : Nat, count : Nat]
  <1>1. ThreadCount + 1 \in Nat \ {0} /\ t \in Nat /\ t + 1 \in Nat /\ 0 \in Nat
    BY DEF Threads
  <1>2. /\ PartOffset(n, ThreadCount + 1, t) \in Nat
        /\ PartSize(n, ThreadCount + 1, t) \in Nat
        /\ PartOffset(n, ThreadCount + 1, t + 1) \in Nat
        /\ PartSize(n, ThreadCount + 1, t + 1) \in Nat
        /\ PartOffset(n, ThreadCount + 1, 0) \in Nat
        /\ PartSize(n, ThreadCount + 1, 0) \in Nat
    BY <1>1, PartType
  <1> QED
    BY <1>2 DEF DispatchSlice, ForSlice

(* A parallel for has an iteration for every thread.                        *)
LEMMA ForSliceNotEmpty ==
  ASSUME NEW n \in Nat, n > ThreadCount, NEW t \in Threads
  PROVE  ForSlice(n, t).count > 0
  <1> DEFINE chunk == IF t = Main THEN 0 ELSE t + 1
  <1>1. ThreadCount + 1 \in Nat \ {0} /\ n >= ThreadCount + 1 /\ chunk \in Nat
    BY DEF Threads
  <1>2. PartSize(n, ThreadCount + 1, chunk) >= 1
    BY <1>1, PartNotEmpty
  <1>3. ForSlice(n, t).count = PartSize(n, ThreadCount + 1, chunk)
    BY DEF ForSlice
  <1>4. PartSize(n, ThreadCount + 1, chunk) \in Nat
    BY <1>1, PartType
  <1> QED
    BY <1>2, <1>3, <1>4

(****************************************************************************)
(* Type correctness.                                                        *)
(****************************************************************************)
LEMMA TypeInit == Init => TypeOK
  <1> SUFFICES ASSUME Init PROVE TypeOK
    OBVIOUS
  <1> USE ThreadSets DEF Init
  <1>1. ContextType
    <2>1. staging \in Seq(Items) /\ dispatch_capacity \in Nat
      OBVIOUS
    <2> QED
      BY <2>1 DEF ContextType
  <1>2. ArenaType
    BY DEF ArenaType
  <1>3. FlagType /\ ThreadType
    BY DEF FlagType, ThreadType
  <1>4. MainType
    BY DEF MainType
  <1>5. HistoryType /\ tls_worker \in [Threads -> Threads \cup {NoWorker}]
    BY DEF HistoryType
  <1> QED
    BY <1>1, <1>2, <1>3, <1>4, <1>5 DEF TypeOK

(* The parts of the type invariant an action leaves alone.                  *)
LEMMA Untouched ==
  TypeOK =>
    /\ UNCHANGED contextVars => ContextType'
    /\ UNCHANGED arenaVars => ArenaType'
    /\ UNCHANGED flagVars => FlagType'
    /\ UNCHANGED threadVars => ThreadType'
    /\ UNCHANGED mainVars => MainType'
    /\ UNCHANGED historyVars => HistoryType'
    /\ UNCHANGED tls_worker => (tls_worker \in [Threads -> Threads \cup {NoWorker}])'
    /\ ContextType' /\ ArenaType' /\ FlagType' /\ ThreadType' /\ MainType' /\ HistoryType'
       /\ (tls_worker \in [Threads -> Threads \cup {NoWorker}])' => TypeOK'
  BY DEF TypeOK, ContextType, ArenaType, FlagType, ThreadType, MainType, HistoryType,
     contextVars, arenaVars, flagVars, threadVars, mainVars, historyVars

(* Each step keeps the types.                                               *)
LEMMA TypeStep == TypeOK /\ [Next]_vars => TypeOK'
  <1> SUFFICES ASSUME TypeOK, [Next]_vars PROVE TypeOK'
    OBVIOUS
  <1> USE ThreadSets
  <1>1. ASSUME NEW n \in Nat, Push(n) PROVE TypeOK'
    <2>1. NewItems(n) \in Seq(Items)
      BY <1>1, NewItemsType DEF Push
    <2>2. ContextType'
      BY <1>1, <2>1 DEF Push, TypeOK, ContextType
    <2>3. HistoryType'
      BY <1>1 DEF Push, TypeOK, HistoryType
    <2> QED
      BY <1>1, <2>2, <2>3, Untouched DEF Push
  <1>2. CASE DispatchNothing
    <2>1. MainType'
      BY <1>2 DEF DispatchNothing, TypeOK, MainType, ContextType
    <2>2. HistoryType'
      BY <1>2 DEF DispatchNothing, TypeOK, HistoryType, MainType
    <2> QED
      BY <1>2, <2>1, <2>2, Untouched DEF DispatchNothing
  <1>3. CASE DispatchInline
    <2>1. MainType'
      BY <1>3 DEF DispatchInline, EnterInline, TypeOK, MainType, ContextType
    <2>2. HistoryType'
      BY <1>3 DEF DispatchInline, EnterInline, TypeOK, HistoryType, MainType
    <2>3. (tls_worker \in [Threads -> Threads \cup {NoWorker}])'
      BY <1>3 DEF DispatchInline, EnterInline, TypeOK
    <2> QED
      BY <1>3, <2>1, <2>2, <2>3, Untouched DEF DispatchInline, EnterInline
  <1>4. CASE DispatchParallel
    <2>1. MainType'
      BY <1>4 DEF DispatchParallel, EnterParallel, TypeOK, MainType,
          ContextType
    <2>2. HistoryType'
      BY <1>4 DEF DispatchParallel, EnterParallel, TypeOK, HistoryType,
          MainType
    <2>3. (tls_worker \in [Threads -> Threads \cup {NoWorker}])'
      BY <1>4 DEF DispatchParallel, EnterParallel, TypeOK
    <2> QED
      BY <1>4, <2>1, <2>2, <2>3, Untouched DEF DispatchParallel, EnterParallel
  <1>5. ASSUME NEW n \in 1 .. MaxItems - submitted, ForInline(n) \/ ForParallel(n)
        PROVE  TypeOK'
    <2>1. NewItems(n) \in Seq(Items)
      <3>1. n \in Nat /\ submitted + n <= MaxItems
        BY DEF TypeOK, HistoryType
      <3> QED
        BY <3>1, NewItemsType
    <2>2. CASE ForInline(n)
      <3>1. MainType'
        BY <2>1, <2>2 DEF ForInline, EnterInline, TypeOK, MainType, ContextType
      <3>2. HistoryType'
        BY <2>2 DEF ForInline, EnterInline, TypeOK, HistoryType, MainType
      <3>3. (tls_worker \in [Threads -> Threads \cup {NoWorker}])'
        BY <2>2 DEF ForInline, EnterInline, TypeOK
      <3> QED
        BY <2>2, <3>1, <3>2, <3>3, Untouched DEF ForInline, EnterInline
    <2>3. CASE ForParallel(n)
      <3>1. MainType'
        BY <2>1, <2>3 DEF ForParallel, EnterParallel, TypeOK, MainType, ContextType
      <3>2. HistoryType'
        BY <2>3 DEF ForParallel, EnterParallel, TypeOK, HistoryType, MainType
      <3> QED
        BY <2>3, <3>1, <3>2, Untouched DEF ForParallel, EnterParallel
    <2> QED
      BY <1>5, <2>2, <2>3
  <1>6. CASE Destroy
    <2>1. MainType'
      BY <1>6 DEF Destroy, TypeOK, MainType, ContextType
    <2> QED
      BY <1>6, <2>1, Untouched DEF Destroy
  <1>7. CASE InlineStep
    <2>1. MainType'
      BY <1>7 DEF InlineStep, Execute, TypeOK, MainType, ContextType
    <2>2. HistoryType'
      BY <1>7 DEF InlineStep, Execute, TypeOK, HistoryType, MainType
    <2> QED
      BY <1>7, <2>1, <2>2, Untouched DEF InlineStep, Execute
  <1>8. CASE InlineDone
    <2>1. ContextType'
      <3>1. staging' \in Seq(Items)
        BY <1>8, StagingType DEF InlineDone
      <3> QED
        BY <1>8, <3>1 DEF InlineDone, TypeOK, ContextType
    <2>2. MainType'
      BY <1>8 DEF InlineDone, ReturnFromCall, ClearStaging, TypeOK, MainType,
          ContextType
    <2>3. HistoryType'
      BY <1>8 DEF InlineDone, ReturnFromCall, ClearStaging, TypeOK,
          HistoryType, MainType
    <2>4. (tls_worker \in [Threads -> Threads \cup {NoWorker}])'
      BY <1>8 DEF InlineDone, ReturnFromCall, ClearStaging, TypeOK
    <2> QED
      BY <1>8, <2>1, <2>2, <2>3, <2>4, Untouched DEF InlineDone,
          ReturnFromCall, ClearStaging
  <1>9. CASE SpawnAttrFails
    <2>1. MainType'
      BY <1>9 DEF SpawnAttrFails, ReturnFromCall, TypeOK, MainType,
          ContextType
    <2>2. HistoryType'
      BY <1>9 DEF SpawnAttrFails, ReturnFromCall, TypeOK, HistoryType,
          MainType
    <2> QED
      BY <1>9, <2>1, <2>2, Untouched DEF SpawnAttrFails, ReturnFromCall
  <1>10. CASE SpawnOne
    <2>1. ThreadType'
      BY <1>10 DEF SpawnOne, TypeOK, ThreadType, MainType, FlagType
    <2>2. MainType'
      BY <1>10 DEF SpawnOne, TypeOK, MainType, ContextType
    <2> QED
      BY <1>10, <2>1, <2>2, Untouched DEF SpawnOne
  <1>11. CASE SpawnOneFails
    <2>1. MainType'
      BY <1>11 DEF SpawnOneFails, GoTo, TypeOK, MainType, ContextType
    <2> QED
      BY <1>11, <2>1, Untouched DEF SpawnOneFails, GoTo
  <1>12. CASE SpawnDone
    <2>1. ContextType'
      BY <1>12 DEF SpawnDone, GoTo, TypeOK, ContextType, MainType
    <2>2. MainType'
      BY <1>12 DEF SpawnDone, GoTo, TypeOK, MainType, ContextType
    <2> QED
      BY <1>12, <2>1, <2>2, Untouched DEF SpawnDone, GoTo
  <1>13. CASE StopOne
    <2>1. FlagType'
      BY <1>13 DEF StopOne, ThreadsLeft, SignalReady, Continue, TypeOK,
          FlagType, MainType
    <2>2. ThreadType'
      BY <1>13 DEF StopOne, ThreadsLeft, SignalReady, Continue, TypeOK,
          ThreadType, MainType, FlagType
    <2>3. MainType'
      BY <1>13 DEF StopOne, ThreadsLeft, SignalReady, Continue, TypeOK,
          MainType, ContextType
    <2> QED
      BY <1>13, <2>1, <2>2, <2>3, Untouched DEF StopOne, ThreadsLeft,
          SignalReady, Continue
  <1>14. CASE StopDone
    <2>1. MainType'
      BY <1>14 DEF StopDone, GoTo, TypeOK, MainType, ContextType
    <2> QED
      BY <1>14, <2>1, Untouched DEF StopDone, GoTo
  <1>15. CASE JoinOne
    <2>1. ThreadType'
      BY <1>15 DEF JoinOne, ThreadsLeft, Continue, TypeOK, ThreadType,
          MainType, FlagType
    <2>2. MainType'
      BY <1>15 DEF JoinOne, ThreadsLeft, Continue, TypeOK, MainType,
          ContextType
    <2> QED
      BY <1>15, <2>1, <2>2, Untouched DEF JoinOne, ThreadsLeft, Continue
  <1>16. CASE SpawnRolledBack
    <2>1. MainType'
      BY <1>16 DEF SpawnRolledBack, ReturnFromCall, TypeOK, MainType,
          ContextType
    <2>2. HistoryType'
      BY <1>16 DEF SpawnRolledBack, ReturnFromCall, TypeOK, HistoryType,
          MainType
    <2> QED
      BY <1>16, <2>1, <2>2, Untouched DEF SpawnRolledBack, ReturnFromCall
  <1>17. CASE DoubleCapacity
    <2>1. MainType'
      BY <1>17 DEF DoubleCapacity, TypeOK, MainType, ContextType
    <2> QED
      BY <1>17, <2>1, Untouched DEF DoubleCapacity
  <1>18. CASE GrowFails
    <2>1. MainType'
      BY <1>18 DEF GrowFails, ReturnFromCall, TypeOK, MainType, ContextType
    <2>2. HistoryType'
      BY <1>18 DEF GrowFails, ReturnFromCall, TypeOK, HistoryType, MainType
    <2> QED
      BY <1>18, <2>1, <2>2, Untouched DEF GrowFails, ReturnFromCall
  <1>19. CASE CopyAndCut
    <2>1. [t \in Threads |-> DispatchSlice(Len(batch), t)]
             \in [Threads -> [first : Nat, count : Nat]]
      BY SliceType DEF TypeOK, MainType
    <2>2. ContextType'
      BY <1>19 DEF CopyAndCut, GoTo, TypeOK, ContextType, MainType
    <2>3. ArenaType'
      BY <1>19, <2>1 DEF CopyAndCut, GoTo, TypeOK, ArenaType, MainType
    <2>4. MainType'
      BY <1>19 DEF CopyAndCut, GoTo, TypeOK, MainType, ContextType
    <2> QED
      BY <1>19, <2>2, <2>3, <2>4, Untouched DEF CopyAndCut, GoTo
  <1>20. CASE ForAllocFails
    <2>1. MainType'
      BY <1>20 DEF ForAllocFails, ReturnFromCall, TypeOK, MainType,
          ContextType
    <2>2. HistoryType'
      BY <1>20 DEF ForAllocFails, ReturnFromCall, TypeOK, HistoryType,
          MainType
    <2> QED
      BY <1>20, <2>1, <2>2, Untouched DEF ForAllocFails, ReturnFromCall
  <1>21. CASE ForAlloc
    <2>1. ForSlice(Len(batch), Main) \in [first : Nat, count : Nat]
      <3>1. Len(batch) \in Nat
        BY DEF TypeOK, MainType
      <3> QED
        BY <3>1, SliceType
    <2>2. ArenaType'
      BY <1>21, <2>1 DEF ForAlloc, GoTo, TypeOK, ArenaType, MainType
    <2>3. MainType'
      BY <1>21 DEF ForAlloc, GoTo, TypeOK, MainType, ContextType
    <2> QED
      BY <1>21, <2>2, <2>3, Untouched DEF ForAlloc, GoTo
  <1>22. CASE HandOutDispatch
    <2>1. FlagType'
      BY <1>22 DEF HandOutDispatch, DispatchToWorker, SignalReady, Continue,
          TypeOK, FlagType, MainType
    <2>2. ThreadType'
      BY <1>22 DEF HandOutDispatch, DispatchToWorker, SignalReady, Continue,
          TypeOK, ThreadType, MainType, FlagType
    <2>3. MainType'
      BY <1>22 DEF HandOutDispatch, DispatchToWorker, SignalReady, Continue,
          TypeOK, MainType, ContextType
    <2> QED
      BY <1>22, <2>1, <2>2, <2>3, Untouched DEF HandOutDispatch,
          DispatchToWorker, SignalReady, Continue
  <1>23. CASE HandOutNothing
    <2>1. MainType'
      BY <1>23 DEF HandOutNothing, Continue, TypeOK, MainType, ContextType
    <2> QED
      BY <1>23, <2>1, Untouched DEF HandOutNothing, Continue
  <1>24. CASE HandOutChunk
    <2>1. ForSlice(Len(batch), idx) \in [first : Nat, count : Nat]
      <3>1. Len(batch) \in Nat /\ idx \in Threads
        BY <1>24 DEF HandOutChunk, TypeOK, MainType
      <3> QED
        BY <3>1, SliceType
    <2>2. ArenaType'
      BY <1>24, <2>1 DEF HandOutChunk, DispatchToWorker, SignalReady,
          Continue, TypeOK, ArenaType, MainType
    <2>3. FlagType'
      BY <1>24 DEF HandOutChunk, DispatchToWorker, SignalReady, Continue,
          TypeOK, FlagType, MainType
    <2>4. ThreadType'
      BY <1>24 DEF HandOutChunk, DispatchToWorker, SignalReady, Continue,
          TypeOK, ThreadType, MainType, FlagType
    <2>5. MainType'
      BY <1>24 DEF HandOutChunk, DispatchToWorker, SignalReady, Continue,
          TypeOK, MainType, ContextType
    <2> QED
      BY <1>24, <2>2, <2>3, <2>4, <2>5, Untouched DEF HandOutChunk,
          DispatchToWorker, SignalReady, Continue
  <1>25. CASE HandOutDone
    <2>1. MainType'
      BY <1>25 DEF HandOutDone, GoTo, TypeOK, MainType, ContextType
    <2>2. (tls_worker \in [Threads -> Threads \cup {NoWorker}])'
      BY <1>25 DEF HandOutDone, GoTo, TypeOK
    <2> QED
      BY <1>25, <2>1, <2>2, Untouched DEF HandOutDone, GoTo
  <1>26. CASE ShareStep
    <2>1. MainType'
      BY <1>26 DEF ShareStep, Execute, TypeOK, MainType, ContextType
    <2>2. HistoryType'
      BY <1>26, ExecuteType DEF ShareStep, TypeOK, HistoryType
    <2> QED
      BY <1>26, <2>1, <2>2, Untouched DEF ShareStep, Execute
  <1>27. CASE ShareDone
    <2>1. MainType'
      BY <1>27 DEF ShareDone, GoTo, TypeOK, MainType, ContextType
    <2>2. (tls_worker \in [Threads -> Threads \cup {NoWorker}])'
      BY <1>27 DEF ShareDone, GoTo, TypeOK
    <2> QED
      BY <1>27, <2>1, <2>2, Untouched DEF ShareDone, GoTo
  <1>28. CASE WaitDone
    <2>1. MainType'
      BY <1>28 DEF WaitDone, Continue, TypeOK, MainType, ContextType
    <2> QED
      BY <1>28, <2>1, Untouched DEF WaitDone, Continue
  <1>29. CASE WaitSleep
    <2>1. MainType'
      BY <1>29 DEF WaitSleep, TypeOK, MainType, ContextType
    <2> QED
      BY <1>29, <2>1, Untouched DEF WaitSleep
  <1>30. CASE WaitSpuriousWakeup
    <2>1. MainType'
      BY <1>30 DEF WaitSpuriousWakeup, TypeOK, MainType, ContextType
    <2> QED
      BY <1>30, <2>1, Untouched DEF WaitSpuriousWakeup
  <1>31. CASE ReturnParallel
    <2>1. ContextType'
      <3>1. staging' \in Seq(Items)
        BY <1>31, StagingType DEF ReturnParallel
      <3> QED
        BY <1>31, <3>1 DEF ReturnParallel, TypeOK, ContextType
    <2>2. ArenaType'
      BY <1>31 DEF ReturnParallel, ReturnFromCall, ClearStaging, TypeOK,
          ArenaType, MainType
    <2>3. MainType'
      BY <1>31 DEF ReturnParallel, ReturnFromCall, ClearStaging, TypeOK,
          MainType, ContextType
    <2>4. HistoryType'
      BY <1>31 DEF ReturnParallel, ReturnFromCall, ClearStaging, TypeOK,
          HistoryType, MainType
    <2> QED
      BY <1>31, <2>1, <2>2, <2>3, <2>4, Untouched DEF ReturnParallel,
          ReturnFromCall, ClearStaging
  <1>32. CASE DestroyDone
    <2>1. ArenaType'
      BY <1>32 DEF DestroyDone, GoTo, TypeOK, ArenaType, MainType
    <2>2. MainType'
      BY <1>32 DEF DestroyDone, GoTo, TypeOK, MainType, ContextType
    <2> QED
      BY <1>32, <2>1, <2>2, Untouched DEF DestroyDone, GoTo
  <1>33. ASSUME NEW w \in Workers, WorkerStep(w) \/ WorkerSpuriousWakeup(w)
         PROVE  TypeOK'
    <2>1. CASE WorkerSleep(w)
      <3>1. ThreadType'
        BY <2>1 DEF WorkerSleep, TypeOK, ThreadType, MainType, FlagType
      <3> QED
        BY <2>1, <3>1, Untouched DEF WorkerSleep
    <2>2. CASE WorkerSpuriousWakeup(w)
      <3>1. ThreadType'
        BY <2>2 DEF WorkerSpuriousWakeup, TypeOK, ThreadType, MainType,
            FlagType
      <3> QED
        BY <2>2, <3>1, Untouched DEF WorkerSpuriousWakeup
    <2>3. CASE WorkerExit(w)
      <3>1. ThreadType'
        BY <2>3 DEF WorkerExit, TypeOK, ThreadType, MainType, FlagType
      <3> QED
        BY <2>3, <3>1, Untouched DEF WorkerExit
    <2>4. CASE WorkerTake(w)
      <3>1. FlagType'
        BY <2>4 DEF WorkerTake, TypeOK, FlagType, MainType
      <3>2. ThreadType'
        BY <2>4 DEF WorkerTake, TypeOK, ThreadType, MainType, FlagType
      <3>3. (tls_worker \in [Threads -> Threads \cup {NoWorker}])'
        BY <2>4 DEF WorkerTake, TypeOK
      <3> QED
        BY <2>4, <3>1, <3>2, <3>3, Untouched DEF WorkerTake
    <2>5. CASE WorkerRun(w)
      <3>1. ThreadType'
        BY <2>5 DEF WorkerRun, Execute, TypeOK, ThreadType, MainType, FlagType
      <3>2. HistoryType'
        BY <2>5, ExecuteType DEF WorkerRun, TypeOK, HistoryType
      <3> QED
        BY <2>5, <3>1, <3>2, Untouched DEF WorkerRun, Execute
    <2>6. CASE WorkerFinish(w)
      <3>1. FlagType'
        BY <2>6 DEF WorkerFinish, SignalDone, TypeOK, FlagType, MainType
      <3>2. ThreadType'
        BY <2>6 DEF WorkerFinish, SignalDone, TypeOK, ThreadType, MainType,
            FlagType
      <3>3. MainType'
        BY <2>6 DEF WorkerFinish, SignalDone, TypeOK, MainType, ContextType
      <3>4. (tls_worker \in [Threads -> Threads \cup {NoWorker}])'
        BY <2>6 DEF WorkerFinish, SignalDone, TypeOK
      <3> QED
        BY <2>6, <3>1, <3>2, <3>3, <3>4, Untouched DEF WorkerFinish,
            SignalDone
    <2> QED
      BY <1>33, <2>1, <2>2, <2>3, <2>4, <2>5, <2>6 DEF WorkerStep
  <1>34. CASE UNCHANGED vars
    BY <1>34, Untouched DEF vars
  <1> QED
    BY <1>1, <1>2, <1>3, <1>4, <1>5, <1>6, <1>7, <1>8, <1>9, <1>10, <1>11, <1>12,
       <1>13, <1>14, <1>15, <1>16, <1>17, <1>18, <1>19, <1>20, <1>21, <1>22,
       <1>23, <1>24, <1>25, <1>26, <1>27, <1>28, <1>29, <1>30, <1>31, <1>32,
       <1>33, <1>34
    DEF Next, ClientCall, Submit, SubmitBatch, MainStep, SpuriousWakeup, Destroyed

(* The pool's variables keep their types.                                   *)
THEOREM Typing == Spec => []TypeOK
  BY TypeInit, TypeStep, PTL DEF Spec

(****************************************************************************)
(* The inductive invariant: every step of every thread keeps the handshake  *)
(* between the main thread and each worker.                                 *)
(****************************************************************************)
LEMMA IInvInit == Init => IInv
  <1> SUFFICES ASSUME Init PROVE IInv
    OBVIOUS
  <1>1. TypeOK
    BY TypeInit
  <1>2. Handshake
    BY DEF Init, Handshake, Owed, Passed, Parked
  <1>3. NoLostWakeup /\ JoinedBeforeFree
    BY DEF Init, NoLostWakeup, JoinedBeforeFree
  <1>4. CallInProgress
    BY ThreadSets DEF Init, CallInProgress, InParallel
  <1>5. ThreadsExist
    BY DEF Init, ThreadsExist, InParallel
  <1> QED
    BY <1>1, <1>2, <1>3, <1>4, <1>5 DEF IInv


(* A round: hand-out, work, answer, wait.                                   *)
LEMMA HandshakeStep == IInv /\ [Next]_vars => Handshake'
  <1> SUFFICES ASSUME IInv, [Next]_vars PROVE Handshake'
    OBVIOUS
  <1> USE ThreadSets DEF IInv, TypeOK, FlagType, ThreadType, MainType,
     Handshake, Owed, Passed, Pending, Running, Answered, Parked,
     CallInProgress, InParallel, Slice, contextVars, arenaVars, flagVars,
     threadVars, mainVars, historyVars
  <1>1. ASSUME NEW n \in Nat, Push(n) PROVE Handshake'
    BY <1>1 DEF Push
  <1>2. CASE DispatchNothing
    BY <1>2 DEF DispatchNothing
  <1>3. CASE DispatchInline
    BY <1>3 DEF DispatchInline, EnterInline
  <1>4. CASE DispatchParallel
    BY <1>4 DEF DispatchParallel, EnterParallel
  <1>5. ASSUME NEW n \in 1 .. MaxItems - submitted, ForInline(n) \/ ForParallel(n)
        PROVE  Handshake'
    <2>1. CASE ForInline(n)
      BY <2>1 DEF ForInline, EnterInline
    <2>2. CASE ForParallel(n)
      BY <2>2 DEF ForParallel, EnterParallel
    <2> QED
      BY <1>5, <2>1, <2>2
  <1>6. CASE Destroy
    BY <1>6 DEF Destroy
  <1>7. CASE InlineStep
    BY <1>7 DEF InlineStep
  <1>8. CASE InlineDone
    BY <1>8 DEF InlineDone, ReturnFromCall
  <1>9. CASE SpawnAttrFails
    BY <1>9 DEF SpawnAttrFails, ReturnFromCall
  <1>10. CASE SpawnOne
    BY <1>10 DEF SpawnOne
  <1>11. CASE SpawnOneFails
    BY <1>11 DEF SpawnOneFails, GoTo
  <1>12. CASE SpawnDone
    BY <1>12 DEF SpawnDone, GoTo
  <1>13. CASE StopOne
    BY <1>13 DEF StopOne, ThreadsLeft, SignalReady, Continue
  <1>14. CASE StopDone
    BY <1>14 DEF StopDone, GoTo
  <1>15. CASE JoinOne
    BY <1>15 DEF JoinOne, ThreadsLeft, Continue
  <1>16. CASE SpawnRolledBack
    BY <1>16 DEF SpawnRolledBack, ThreadsLeft, ReturnFromCall
  <1>17. CASE DoubleCapacity
    BY <1>17 DEF DoubleCapacity
  <1>18. CASE GrowFails
    BY <1>18 DEF GrowFails, ReturnFromCall
  <1>19. CASE CopyAndCut
    BY <1>19 DEF CopyAndCut, GoTo
  <1>20. CASE ForAllocFails
    BY <1>20 DEF ForAllocFails, ReturnFromCall
  <1>21. CASE ForAlloc
    BY <1>21 DEF ForAlloc, GoTo
  <1>22. CASE HandOutDispatch
    BY <1>22 DEF HandOutDispatch, DispatchToWorker, SignalReady, Continue
  <1>23. CASE HandOutNothing
    BY <1>23 DEF HandOutNothing, Continue
  <1>24. CASE HandOutChunk
    <2>1. ForSlice(Len(batch), idx).count > 0
      <3>1. Len(batch) \in Nat /\ Len(batch) > ThreadCount /\ idx \in Threads
        BY <1>24 DEF HandOutChunk
      <3> QED
        BY <3>1, ForSliceNotEmpty
    <2>2. assignments'["for"][idx].count > 0
      BY <1>24, <2>1 DEF HandOutChunk, ArenaType
    <2>3. \A w \in Workers : w # idx => assignments'["for"][w] = assignments["for"][w]
      BY <1>24 DEF HandOutChunk, ArenaType
    <2> QED
      BY <1>24, <2>2, <2>3 DEF HandOutChunk, DispatchToWorker, SignalReady, Continue
  <1>25. CASE HandOutDone
    BY <1>25 DEF HandOutDone, GoTo
  <1>26. CASE ShareStep
    BY <1>26 DEF ShareStep
  <1>27. CASE ShareDone
    BY <1>27 DEF ShareDone, GoTo
  <1>28. CASE WaitDone
    BY <1>28 DEF WaitDone, Continue
  <1>29. CASE WaitSleep
    BY <1>29 DEF WaitSleep
  <1>30. CASE WaitSpuriousWakeup
    BY <1>30 DEF WaitSpuriousWakeup
  <1>31. CASE ReturnParallel
    BY <1>31 DEF ReturnParallel, ReturnFromCall
  <1>32. CASE DestroyDone
    BY <1>32 DEF DestroyDone, ThreadsLeft, GoTo
  <1>33. ASSUME NEW v \in Workers, WorkerStep(v) \/ WorkerSpuriousWakeup(v)
         PROVE  Handshake'
    <2>1. CASE WorkerSleep(v)
      BY <2>1 DEF WorkerSleep
    <2>2. CASE WorkerSpuriousWakeup(v)
      BY <2>2 DEF WorkerSpuriousWakeup
    <2>3. CASE WorkerExit(v)
      BY <2>3 DEF WorkerExit
    <2>4. CASE WorkerTake(v)
      BY <2>4 DEF WorkerTake
    <2>5. CASE WorkerRun(v)
      BY <2>5 DEF WorkerRun
    <2>6. CASE WorkerFinish(v)
      BY <2>6 DEF WorkerFinish, SignalDone
    <2> QED
      BY <1>33, <2>1, <2>2, <2>3, <2>4, <2>5, <2>6 DEF WorkerStep
  <1>34. CASE UNCHANGED vars
    BY <1>34 DEF vars
  <1> HIDE DEF Handshake
  <1> QED
    BY <1>1, <1>2, <1>3, <1>4, <1>5, <1>6, <1>7, <1>8, <1>9, <1>10, <1>11, <1>12,
       <1>13, <1>14, <1>15, <1>16, <1>17, <1>18, <1>19, <1>20, <1>21, <1>22,
       <1>23, <1>24, <1>25, <1>26, <1>27, <1>28, <1>29, <1>30, <1>31, <1>32,
       <1>33, <1>34
    DEF Next, ClientCall, Submit, SubmitBatch, MainStep, SpuriousWakeup, Destroyed

(* The wake-ups.                                                            *)
LEMMA WakeupStep == IInv /\ [Next]_vars => NoLostWakeup'
  <1> SUFFICES ASSUME IInv, [Next]_vars PROVE NoLostWakeup'
    OBVIOUS
  <1> USE ThreadSets DEF IInv, TypeOK, FlagType, ThreadType, MainType,
     NoLostWakeup, CallInProgress, InParallel, contextVars, arenaVars,
     flagVars, threadVars, mainVars, historyVars
  <1>1. ASSUME NEW n \in Nat, Push(n) PROVE NoLostWakeup'
    BY <1>1 DEF Push
  <1>2. CASE DispatchNothing
    BY <1>2 DEF DispatchNothing
  <1>3. CASE DispatchInline
    BY <1>3 DEF DispatchInline, EnterInline
  <1>4. CASE DispatchParallel
    BY <1>4 DEF DispatchParallel, EnterParallel
  <1>5. ASSUME NEW n \in 1 .. MaxItems - submitted, ForInline(n) \/ ForParallel(n)
        PROVE  NoLostWakeup'
    <2>1. CASE ForInline(n)
      BY <2>1 DEF ForInline, EnterInline
    <2>2. CASE ForParallel(n)
      BY <2>2 DEF ForParallel, EnterParallel
    <2> QED
      BY <1>5, <2>1, <2>2
  <1>6. CASE Destroy
    BY <1>6 DEF Destroy
  <1>7. CASE InlineStep
    BY <1>7 DEF InlineStep
  <1>8. CASE InlineDone
    BY <1>8 DEF InlineDone, ReturnFromCall
  <1>9. CASE SpawnAttrFails
    BY <1>9 DEF SpawnAttrFails, ReturnFromCall
  <1>10. CASE SpawnOne
    BY <1>10 DEF SpawnOne
  <1>11. CASE SpawnOneFails
    BY <1>11 DEF SpawnOneFails, GoTo
  <1>12. CASE SpawnDone
    BY <1>12 DEF SpawnDone, GoTo
  <1>13. CASE StopOne
    BY <1>13 DEF StopOne, ThreadsLeft, SignalReady, Continue
  <1>14. CASE StopDone
    BY <1>14 DEF StopDone, GoTo
  <1>15. CASE JoinOne
    BY <1>15 DEF JoinOne, ThreadsLeft, Continue
  <1>16. CASE SpawnRolledBack
    BY <1>16 DEF SpawnRolledBack, ThreadsLeft, ReturnFromCall
  <1>17. CASE DoubleCapacity
    BY <1>17 DEF DoubleCapacity
  <1>18. CASE GrowFails
    BY <1>18 DEF GrowFails, ReturnFromCall
  <1>19. CASE CopyAndCut
    BY <1>19 DEF CopyAndCut, GoTo
  <1>20. CASE ForAllocFails
    BY <1>20 DEF ForAllocFails, ReturnFromCall
  <1>21. CASE ForAlloc
    BY <1>21 DEF ForAlloc, GoTo
  <1>22. CASE HandOutDispatch
    BY <1>22 DEF HandOutDispatch, DispatchToWorker, SignalReady, Continue
  <1>23. CASE HandOutNothing
    BY <1>23 DEF HandOutNothing, Continue
  <1>24. CASE HandOutChunk
    BY <1>24 DEF HandOutChunk, DispatchToWorker, SignalReady, Continue
  <1>25. CASE HandOutDone
    BY <1>25 DEF HandOutDone, GoTo
  <1>26. CASE ShareStep
    BY <1>26 DEF ShareStep
  <1>27. CASE ShareDone
    BY <1>27 DEF ShareDone, GoTo
  <1>28. CASE WaitDone
    BY <1>28 DEF WaitDone, Continue
  <1>29. CASE WaitSleep
    BY <1>29 DEF WaitSleep
  <1>30. CASE WaitSpuriousWakeup
    BY <1>30 DEF WaitSpuriousWakeup
  <1>31. CASE ReturnParallel
    BY <1>31 DEF ReturnParallel, ReturnFromCall
  <1>32. CASE DestroyDone
    BY <1>32 DEF DestroyDone, ThreadsLeft, GoTo
  <1>33. ASSUME NEW v \in Workers, WorkerStep(v) \/ WorkerSpuriousWakeup(v)
         PROVE  NoLostWakeup'
    <2>1. CASE WorkerSleep(v)
      BY <2>1 DEF WorkerSleep
    <2>2. CASE WorkerSpuriousWakeup(v)
      BY <2>2 DEF WorkerSpuriousWakeup
    <2>3. CASE WorkerExit(v)
      BY <2>3 DEF WorkerExit
    <2>4. CASE WorkerTake(v)
      BY <2>4 DEF WorkerTake
    <2>5. CASE WorkerRun(v)
      BY <2>5 DEF WorkerRun
    <2>6. CASE WorkerFinish(v)
      BY <2>6 DEF WorkerFinish, SignalDone
    <2> QED
      BY <1>33, <2>1, <2>2, <2>3, <2>4, <2>5, <2>6 DEF WorkerStep
  <1>34. CASE UNCHANGED vars
    BY <1>34 DEF vars
  <1> HIDE DEF NoLostWakeup
  <1> QED
    BY <1>1, <1>2, <1>3, <1>4, <1>5, <1>6, <1>7, <1>8, <1>9, <1>10, <1>11, <1>12,
       <1>13, <1>14, <1>15, <1>16, <1>17, <1>18, <1>19, <1>20, <1>21, <1>22,
       <1>23, <1>24, <1>25, <1>26, <1>27, <1>28, <1>29, <1>30, <1>31, <1>32,
       <1>33, <1>34
    DEF Next, ClientCall, Submit, SubmitBatch, MainStep, SpuriousWakeup, Destroyed

(* The main thread's side of a call.                                        *)
LEMMA CallStep == IInv /\ [Next]_vars => CallInProgress'
  <1> SUFFICES ASSUME IInv, [Next]_vars PROVE CallInProgress'
    OBVIOUS
  <1> USE ThreadSets DEF IInv, TypeOK, ArenaType, MainType, CallInProgress,
     InParallel, contextVars, arenaVars, flagVars, threadVars, mainVars,
     historyVars
  <1>1. ASSUME NEW n \in Nat, Push(n) PROVE CallInProgress'
    BY <1>1 DEF Push
  <1>2. CASE DispatchNothing
    BY <1>2 DEF DispatchNothing
  <1>3. CASE DispatchInline
    BY <1>3 DEF DispatchInline, EnterInline
  <1>4. CASE DispatchParallel
    BY <1>4 DEF DispatchParallel, EnterParallel
  <1>5. ASSUME NEW n \in 1 .. MaxItems - submitted, ForInline(n) \/ ForParallel(n)
        PROVE  CallInProgress'
    <2>1. CASE ForInline(n)
      BY <2>1 DEF ForInline, EnterInline
    <2>2. CASE ForParallel(n)
      <3>1. Len(NewItems(n)) > ThreadCount
        BY <2>2 DEF ForParallel, NewItems
      <3> QED
        BY <2>2, <3>1 DEF ForParallel, EnterParallel
    <2> QED
      BY <1>5, <2>1, <2>2
  <1>6. CASE Destroy
    BY <1>6 DEF Destroy
  <1>7. CASE InlineStep
    BY <1>7 DEF InlineStep
  <1>8. CASE InlineDone
    BY <1>8 DEF InlineDone, ReturnFromCall
  <1>9. CASE SpawnAttrFails
    BY <1>9 DEF SpawnAttrFails, ReturnFromCall
  <1>10. CASE SpawnOne
    BY <1>10 DEF SpawnOne
  <1>11. CASE SpawnOneFails
    BY <1>11 DEF SpawnOneFails, GoTo
  <1>12. CASE SpawnDone
    BY <1>12 DEF SpawnDone, GoTo
  <1>13. CASE StopOne
    BY <1>13 DEF StopOne, ThreadsLeft, SignalReady, Continue
  <1>14. CASE StopDone
    BY <1>14 DEF StopDone, GoTo
  <1>15. CASE JoinOne
    BY <1>15 DEF JoinOne, ThreadsLeft, Continue
  <1>16. CASE SpawnRolledBack
    BY <1>16 DEF SpawnRolledBack, ThreadsLeft, ReturnFromCall
  <1>17. CASE DoubleCapacity
    BY <1>17 DEF DoubleCapacity
  <1>18. CASE GrowFails
    BY <1>18 DEF GrowFails, ReturnFromCall
  <1>19. CASE CopyAndCut
    BY <1>19 DEF CopyAndCut, GoTo
  <1>20. CASE ForAllocFails
    BY <1>20 DEF ForAllocFails, ReturnFromCall
  <1>21. CASE ForAlloc
    BY <1>21 DEF ForAlloc, GoTo
  <1>22. CASE HandOutDispatch
    BY <1>22 DEF HandOutDispatch, DispatchToWorker, SignalReady, Continue
  <1>23. CASE HandOutNothing
    BY <1>23 DEF HandOutNothing, Continue
  <1>24. CASE HandOutChunk
    BY <1>24 DEF HandOutChunk, DispatchToWorker, SignalReady, Continue
  <1>25. CASE HandOutDone
    BY <1>25 DEF HandOutDone, GoTo
  <1>26. CASE ShareStep
    BY <1>26 DEF ShareStep
  <1>27. CASE ShareDone
    BY <1>27 DEF ShareDone, GoTo
  <1>28. CASE WaitDone
    BY <1>28 DEF WaitDone, Continue
  <1>29. CASE WaitSleep
    BY <1>29 DEF WaitSleep
  <1>30. CASE WaitSpuriousWakeup
    BY <1>30 DEF WaitSpuriousWakeup
  <1>31. CASE ReturnParallel
    BY <1>31 DEF ReturnParallel, ReturnFromCall
  <1>32. CASE DestroyDone
    BY <1>32 DEF DestroyDone, ThreadsLeft, GoTo
  <1>33. ASSUME NEW v \in Workers, WorkerStep(v) \/ WorkerSpuriousWakeup(v)
         PROVE  CallInProgress'
    <2>1. CASE WorkerSleep(v)
      BY <2>1 DEF WorkerSleep
    <2>2. CASE WorkerSpuriousWakeup(v)
      BY <2>2 DEF WorkerSpuriousWakeup
    <2>3. CASE WorkerExit(v)
      BY <2>3 DEF WorkerExit
    <2>4. CASE WorkerTake(v)
      BY <2>4 DEF WorkerTake
    <2>5. CASE WorkerRun(v)
      BY <2>5 DEF WorkerRun
    <2>6. CASE WorkerFinish(v)
      BY <2>6 DEF WorkerFinish, SignalDone
    <2> QED
      BY <1>33, <2>1, <2>2, <2>3, <2>4, <2>5, <2>6 DEF WorkerStep
  <1>34. CASE UNCHANGED vars
    BY <1>34 DEF vars
  <1> HIDE DEF CallInProgress
  <1> QED
    BY <1>1, <1>2, <1>3, <1>4, <1>5, <1>6, <1>7, <1>8, <1>9, <1>10, <1>11, <1>12,
       <1>13, <1>14, <1>15, <1>16, <1>17, <1>18, <1>19, <1>20, <1>21, <1>22,
       <1>23, <1>24, <1>25, <1>26, <1>27, <1>28, <1>29, <1>30, <1>31, <1>32,
       <1>33, <1>34
    DEF Next, ClientCall, Submit, SubmitBatch, MainStep, SpuriousWakeup, Destroyed

(* The threads that exist.                                                  *)
LEMMA ThreadsStep == IInv /\ [Next]_vars => ThreadsExist'
  <1> SUFFICES ASSUME IInv, [Next]_vars PROVE ThreadsExist'
    OBVIOUS
  <1> USE ThreadSets DEF IInv, TypeOK, ThreadType, MainType, ThreadsExist,
     InParallel, contextVars, arenaVars, flagVars, threadVars, mainVars,
     historyVars
  <1>1. ASSUME NEW n \in Nat, Push(n) PROVE ThreadsExist'
    BY <1>1 DEF Push
  <1>2. CASE DispatchNothing
    BY <1>2 DEF DispatchNothing
  <1>3. CASE DispatchInline
    BY <1>3 DEF DispatchInline, EnterInline
  <1>4. CASE DispatchParallel
    BY <1>4 DEF DispatchParallel, EnterParallel
  <1>5. ASSUME NEW n \in 1 .. MaxItems - submitted, ForInline(n) \/ ForParallel(n)
        PROVE  ThreadsExist'
    <2>1. CASE ForInline(n)
      BY <2>1 DEF ForInline, EnterInline
    <2>2. CASE ForParallel(n)
      BY <2>2 DEF ForParallel, EnterParallel
    <2> QED
      BY <1>5, <2>1, <2>2
  <1>6. CASE Destroy
    BY <1>6 DEF Destroy
  <1>7. CASE InlineStep
    BY <1>7 DEF InlineStep
  <1>8. CASE InlineDone
    BY <1>8 DEF InlineDone, ReturnFromCall
  <1>9. CASE SpawnAttrFails
    BY <1>9 DEF SpawnAttrFails, ReturnFromCall
  <1>10. CASE SpawnOne
    BY <1>10 DEF SpawnOne
  <1>11. CASE SpawnOneFails
    BY <1>11 DEF SpawnOneFails, GoTo
  <1>12. CASE SpawnDone
    BY <1>12 DEF SpawnDone, GoTo
  <1>13. CASE StopOne
    BY <1>13 DEF StopOne, ThreadsLeft, SignalReady, Continue
  <1>14. CASE StopDone
    BY <1>14 DEF StopDone, GoTo
  <1>15. CASE JoinOne
    BY <1>15 DEF JoinOne, ThreadsLeft, Continue
  <1>16. CASE SpawnRolledBack
    BY <1>16 DEF SpawnRolledBack, ThreadsLeft, ReturnFromCall
  <1>17. CASE DoubleCapacity
    BY <1>17 DEF DoubleCapacity
  <1>18. CASE GrowFails
    BY <1>18 DEF GrowFails, ReturnFromCall
  <1>19. CASE CopyAndCut
    BY <1>19 DEF CopyAndCut, GoTo
  <1>20. CASE ForAllocFails
    BY <1>20 DEF ForAllocFails, ReturnFromCall
  <1>21. CASE ForAlloc
    BY <1>21 DEF ForAlloc, GoTo
  <1>22. CASE HandOutDispatch
    BY <1>22 DEF HandOutDispatch, DispatchToWorker, SignalReady, Continue
  <1>23. CASE HandOutNothing
    BY <1>23 DEF HandOutNothing, Continue
  <1>24. CASE HandOutChunk
    BY <1>24 DEF HandOutChunk, DispatchToWorker, SignalReady, Continue
  <1>25. CASE HandOutDone
    BY <1>25 DEF HandOutDone, GoTo
  <1>26. CASE ShareStep
    BY <1>26 DEF ShareStep
  <1>27. CASE ShareDone
    BY <1>27 DEF ShareDone, GoTo
  <1>28. CASE WaitDone
    BY <1>28 DEF WaitDone, Continue
  <1>29. CASE WaitSleep
    BY <1>29 DEF WaitSleep
  <1>30. CASE WaitSpuriousWakeup
    BY <1>30 DEF WaitSpuriousWakeup
  <1>31. CASE ReturnParallel
    BY <1>31 DEF ReturnParallel, ReturnFromCall
  <1>32. CASE DestroyDone
    BY <1>32 DEF DestroyDone, ThreadsLeft, GoTo
  <1>33. ASSUME NEW v \in Workers, WorkerStep(v) \/ WorkerSpuriousWakeup(v)
         PROVE  ThreadsExist'
    <2>1. CASE WorkerSleep(v)
      BY <2>1 DEF WorkerSleep
    <2>2. CASE WorkerSpuriousWakeup(v)
      BY <2>2 DEF WorkerSpuriousWakeup
    <2>3. CASE WorkerExit(v)
      BY <2>3 DEF WorkerExit
    <2>4. CASE WorkerTake(v)
      BY <2>4 DEF WorkerTake
    <2>5. CASE WorkerRun(v)
      BY <2>5 DEF WorkerRun
    <2>6. CASE WorkerFinish(v)
      BY <2>6 DEF WorkerFinish, SignalDone
    <2> QED
      BY <1>33, <2>1, <2>2, <2>3, <2>4, <2>5, <2>6 DEF WorkerStep
  <1>34. CASE UNCHANGED vars
    BY <1>34 DEF vars
  <1> HIDE DEF ThreadsExist
  <1> QED
    BY <1>1, <1>2, <1>3, <1>4, <1>5, <1>6, <1>7, <1>8, <1>9, <1>10, <1>11, <1>12,
       <1>13, <1>14, <1>15, <1>16, <1>17, <1>18, <1>19, <1>20, <1>21, <1>22,
       <1>23, <1>24, <1>25, <1>26, <1>27, <1>28, <1>29, <1>30, <1>31, <1>32,
       <1>33, <1>34
    DEF Next, ClientCall, Submit, SubmitBatch, MainStep, SpuriousWakeup, Destroyed

(* The threads that are left at the end.                                    *)
LEMMA JoinStep == IInv /\ [Next]_vars => JoinedBeforeFree'
  <1> SUFFICES ASSUME IInv, [Next]_vars PROVE JoinedBeforeFree'
    OBVIOUS
  <1> USE ThreadSets DEF IInv, TypeOK, ThreadType, MainType, ThreadsExist,
     JoinedBeforeFree, contextVars, arenaVars, flagVars, threadVars, mainVars,
     historyVars
  <1>1. ASSUME NEW n \in Nat, Push(n) PROVE JoinedBeforeFree'
    BY <1>1 DEF Push
  <1>2. CASE DispatchNothing
    BY <1>2 DEF DispatchNothing
  <1>3. CASE DispatchInline
    BY <1>3 DEF DispatchInline, EnterInline
  <1>4. CASE DispatchParallel
    BY <1>4 DEF DispatchParallel, EnterParallel
  <1>5. ASSUME NEW n \in 1 .. MaxItems - submitted, ForInline(n) \/ ForParallel(n)
        PROVE  JoinedBeforeFree'
    <2>1. CASE ForInline(n)
      BY <2>1 DEF ForInline, EnterInline
    <2>2. CASE ForParallel(n)
      BY <2>2 DEF ForParallel, EnterParallel
    <2> QED
      BY <1>5, <2>1, <2>2
  <1>6. CASE Destroy
    BY <1>6 DEF Destroy
  <1>7. CASE InlineStep
    BY <1>7 DEF InlineStep
  <1>8. CASE InlineDone
    BY <1>8 DEF InlineDone, ReturnFromCall
  <1>9. CASE SpawnAttrFails
    BY <1>9 DEF SpawnAttrFails, ReturnFromCall
  <1>10. CASE SpawnOne
    BY <1>10 DEF SpawnOne
  <1>11. CASE SpawnOneFails
    BY <1>11 DEF SpawnOneFails, GoTo
  <1>12. CASE SpawnDone
    BY <1>12 DEF SpawnDone, GoTo
  <1>13. CASE StopOne
    BY <1>13 DEF StopOne, ThreadsLeft, SignalReady, Continue
  <1>14. CASE StopDone
    BY <1>14 DEF StopDone, GoTo
  <1>15. CASE JoinOne
    BY <1>15 DEF JoinOne, ThreadsLeft, Continue
  <1>16. CASE SpawnRolledBack
    BY <1>16 DEF SpawnRolledBack, ThreadsLeft, ReturnFromCall
  <1>17. CASE DoubleCapacity
    BY <1>17 DEF DoubleCapacity
  <1>18. CASE GrowFails
    BY <1>18 DEF GrowFails, ReturnFromCall
  <1>19. CASE CopyAndCut
    BY <1>19 DEF CopyAndCut, GoTo
  <1>20. CASE ForAllocFails
    BY <1>20 DEF ForAllocFails, ReturnFromCall
  <1>21. CASE ForAlloc
    BY <1>21 DEF ForAlloc, GoTo
  <1>22. CASE HandOutDispatch
    BY <1>22 DEF HandOutDispatch, DispatchToWorker, SignalReady, Continue
  <1>23. CASE HandOutNothing
    BY <1>23 DEF HandOutNothing, Continue
  <1>24. CASE HandOutChunk
    BY <1>24 DEF HandOutChunk, DispatchToWorker, SignalReady, Continue
  <1>25. CASE HandOutDone
    BY <1>25 DEF HandOutDone, GoTo
  <1>26. CASE ShareStep
    BY <1>26 DEF ShareStep
  <1>27. CASE ShareDone
    BY <1>27 DEF ShareDone, GoTo
  <1>28. CASE WaitDone
    BY <1>28 DEF WaitDone, Continue
  <1>29. CASE WaitSleep
    BY <1>29 DEF WaitSleep
  <1>30. CASE WaitSpuriousWakeup
    BY <1>30 DEF WaitSpuriousWakeup
  <1>31. CASE ReturnParallel
    BY <1>31 DEF ReturnParallel, ReturnFromCall
  <1>32. CASE DestroyDone
    BY <1>32 DEF DestroyDone, ThreadsLeft, GoTo
  <1>33. ASSUME NEW v \in Workers, WorkerStep(v) \/ WorkerSpuriousWakeup(v)
         PROVE  JoinedBeforeFree'
    <2>1. CASE WorkerSleep(v)
      BY <2>1 DEF WorkerSleep
    <2>2. CASE WorkerSpuriousWakeup(v)
      BY <2>2 DEF WorkerSpuriousWakeup
    <2>3. CASE WorkerExit(v)
      BY <2>3 DEF WorkerExit
    <2>4. CASE WorkerTake(v)
      BY <2>4 DEF WorkerTake
    <2>5. CASE WorkerRun(v)
      BY <2>5 DEF WorkerRun
    <2>6. CASE WorkerFinish(v)
      BY <2>6 DEF WorkerFinish, SignalDone
    <2> QED
      BY <1>33, <2>1, <2>2, <2>3, <2>4, <2>5, <2>6 DEF WorkerStep
  <1>34. CASE UNCHANGED vars
    BY <1>34 DEF vars
  <1> HIDE DEF JoinedBeforeFree
  <1> QED
    BY <1>1, <1>2, <1>3, <1>4, <1>5, <1>6, <1>7, <1>8, <1>9, <1>10, <1>11, <1>12,
       <1>13, <1>14, <1>15, <1>16, <1>17, <1>18, <1>19, <1>20, <1>21, <1>22,
       <1>23, <1>24, <1>25, <1>26, <1>27, <1>28, <1>29, <1>30, <1>31, <1>32,
       <1>33, <1>34
    DEF Next, ClientCall, Submit, SubmitBatch, MainStep, SpuriousWakeup, Destroyed

(* Each step keeps the invariant.                                           *)
LEMMA IInvStep == IInv /\ [Next]_vars => IInv'
  <1>1. IInv => TypeOK
    BY DEF IInv
  <1> QED
    BY <1>1, TypeStep, HandshakeStep, WakeupStep, CallStep, ThreadsStep, JoinStep
    DEF IInv

(* In every state the pool can reach, a worker that owes the main thread an *)
(* answer has its work pending, is running it, or has answered; any other   *)
(* worker is parked.                                                        *)
THEOREM Invariance == Spec => []IInv
  BY IInvInit, IInvStep, PTL DEF Spec

(****************************************************************************)
(* What follows from the invariant.                                         *)
(****************************************************************************)

(* No worker sleeps while it has work or must stop, and the main thread     *)
(* does not sleep on a worker that is done.                                 *)
THEOREM WakeupsNotLost == Spec => []NoLostWakeup
  <1>1. IInv => NoLostWakeup
    BY DEF IInv
  <1> QED
    BY Invariance, <1>1, PTL

(* No worker runs a task, or is about to, when no call is in progress.      *)
THEOREM Quiescence == Spec => []QuiescentBetweenCalls
  <1>1. IInv => QuiescentBetweenCalls
    BY DEF IInv, Handshake, Owed, Passed, Parked, QuiescentBetweenCalls
  <1> QED
    BY Invariance, <1>1, PTL

(* Workers only read allocated memory.                                      *)
LEMMA RunsWhatIsOwed ==
  ASSUME IInv, NEW w \in Workers
  PROVE  /\ wpc[w] = "run" => Owed(w) /\ wwork[w] = call
         /\ ready_flag[w] => Owed(w) /\ work[w] = call
  BY DEF IInv, Handshake, Parked, Pending, Running, Answered

(* A worker that reads its slice, or the tasks of it, reads memory that     *)
(* bc_concurrency_for or dispatch_and_wait has not freed.                   *)
THEOREM MemoryAllocated == Spec => []NoDanglingWork
  <1>1. IInv => NoDanglingWork
    BY RunsWhatIsOwed DEF IInv, CallInProgress, InParallel, Owed, Passed, NoDanglingWork
  <1> QED
    BY Invariance, <1>1, PTL

(* bc_concurrency_destroy leaves no thread behind.                          *)
THEOREM NoThreadLeft == Spec => []JoinedBeforeFree
  <1>1. IInv => JoinedBeforeFree
    BY DEF IInv
  <1> QED
    BY Invariance, <1>1, PTL

(* The main thread does not touch what a worker is reading.                 *)
THEOREM NoRewrite == Spec => NoRewriteUnderReader
  <1>1. IInv /\ [Next]_vars =>
          \A w \in Workers :
            wpc[w] = "run" =>
              LET a == wwork[w]
              IN  tasks'[a] = tasks[a] /\ assignments'[a][w] = assignments[a][w]
    <2> SUFFICES ASSUME IInv, [Next]_vars, NEW w \in Workers, wpc[w] = "run"
                 PROVE  /\ tasks'[wwork[w]] = tasks[wwork[w]]
                        /\ assignments'[wwork[w]][w] = assignments[wwork[w]][w]
      OBVIOUS
    <2>1. Owed(w)
      BY RunsWhatIsOwed
    <2>2. CASE CopyAndCut \/ ForAlloc
      BY <2>1, <2>2 DEF CopyAndCut, ForAlloc, Owed, Passed
    <2>3. CASE HandOutChunk
      <3>1. w # idx
        BY <2>1, <2>3 DEF HandOutChunk, Owed, Passed, IInv, TypeOK, MainType
      <3> QED
        BY <2>3, <3>1, ThreadSets DEF HandOutChunk, IInv, TypeOK, ArenaType
    <2>4. CASE UNCHANGED <<tasks, assignments>>
      BY <2>4
    <2> QED
      BY <2>2, <2>3, <2>4
      DEF Next, ClientCall, Submit, SubmitBatch, Push, DispatchNothing, DispatchInline,
          DispatchParallel, ForInline, ForParallel, Destroy, MainStep, InlineStep,
          InlineDone, SpawnAttrFails, SpawnOne, SpawnOneFails, SpawnDone, StopOne,
          StopDone, JoinOne, SpawnRolledBack, DoubleCapacity, GrowFails, ForAllocFails,
          HandOutDispatch, HandOutNothing, HandOutDone, ShareStep, ShareDone, WaitDone,
          WaitSleep, ReturnParallel, DestroyDone, WorkerStep, WorkerSleep, WorkerExit,
          WorkerTake, WorkerRun, WorkerFinish, SpuriousWakeup, WaitSpuriousWakeup,
          WorkerSpuriousWakeup, Destroyed, vars, arenaVars
  <1> QED
    BY Invariance, <1>1, PTL DEF Spec, NoRewriteUnderReader
=============================================================================
