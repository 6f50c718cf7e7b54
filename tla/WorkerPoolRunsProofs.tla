------------------------ MODULE WorkerPoolRunsProofs -------------------------
(****************************************************************************)
(* What the worker pool does to the items of a call: each is run once if    *)
(* the call returns true and not at all if it returns false.  Theorems for  *)
(* every number of workers, every initial capacity, every number of items.  *)
(****************************************************************************)
EXTENDS WorkerPoolProofs, SequenceTheorems

USE PoolAssumption

(****************************************************************************)
(* Shares: how a batch of n items is divided among the threads, whichever   *)
(* of dispatch_and_wait and bc_concurrency_for divides it.                  *)
(****************************************************************************)
Divides(share, n) ==
  /\ share \in [Threads -> [first : Nat, count : Nat]]
  /\ \A t \in Threads : share[t].first + share[t].count <= n
  /\ \A t, u \in Threads : t # u =>
       \A i \in 1 .. share[t].count, j \in 1 .. share[u].count :
         share[t].first + i # share[u].first + j
  /\ \A k \in 1 .. n : \E t \in Threads : \E j \in 1 .. share[t].count :
       k = share[t].first + j

(* A share lies within the batch it is a share of.                          *)
LEMMA ShareType ==
  ASSUME NEW n \in Nat, NEW share, Divides(share, n), NEW t \in Threads
  PROVE  /\ share[t].first \in Nat /\ share[t].count \in Nat
         /\ share[t].first + share[t].count <= n
         /\ \A j \in 1 .. share[t].count : share[t].first + j \in 1 .. n
  <1>1. share[t] \in [first : Nat, count : Nat]
    BY DEF Divides
  <1>2. /\ share[t].first \in Nat /\ share[t].count \in Nat
        /\ share[t].first + share[t].count <= n
    BY <1>1 DEF Divides
  <1> QED
    BY <1>2

(* Parts given out to the threads by a permutation of their numbers.        *)
LEMMA PermutedParts ==
  ASSUME NEW n \in Nat, NEW part \in [Threads -> Threads],
         \A t, u \in Threads : t # u => part[t] # part[u],
         \A i \in Threads : \E t \in Threads : part[t] = i
  PROVE  Divides([t \in Threads |->
                    [first |-> PartOffset(n, ThreadCount + 1, part[t]),
                     count |-> PartSize(n, ThreadCount + 1, part[t])]], n)
  <1> DEFINE parts == ThreadCount + 1
             F(i) == PartOffset(n, parts, i)
             C(i) == PartSize(n, parts, i)
             share == [t \in Threads |-> [first |-> F(part[t]), count |-> C(part[t])]]
  <1>1. /\ parts \in Nat \ {0} /\ Threads = 0 .. parts - 1
        /\ \A i \in Threads : i \in Nat
    <2>1. parts \in Nat \ {0} /\ parts - 1 = ThreadCount
      OBVIOUS
    <2> HIDE DEF parts
    <2> QED
      BY <2>1 DEF Threads
  <1> HIDE DEF parts
  <1>2. ASSUME NEW i \in Threads
        PROVE  F(i) \in Nat /\ C(i) \in Nat /\ F(i) + C(i) <= n
    <2>1. i \in Nat /\ i \in 0 .. parts - 1
      BY <1>1
    <2> QED
      BY <1>1, <2>1, PartType, PartWithin
  <1>3. ASSUME NEW i \in Threads, NEW j \in Threads, i < j
        PROVE  F(i) + C(i) <= F(j)
    <2>1. i \in Nat /\ j \in Nat
      BY <1>1
    <2> QED
      BY <1>1, <1>3, <2>1, PartOrder
  <1>4. ASSUME NEW k \in 1 .. n
        PROVE  \E i \in Threads : F(i) < k /\ k <= F(i) + C(i)
    BY <1>1, PartCover
  <1> HIDE DEF F, C
  <1>5. \A t \in Threads : share[t].first = F(part[t]) /\ share[t].count = C(part[t])
    OBVIOUS
  <1>6. share \in [Threads -> [first : Nat, count : Nat]]
    BY <1>2
  <1>7. \A t \in Threads : share[t].first + share[t].count <= n
    BY <1>2, <1>5
  <1> HIDE DEF share
  <1>8. ASSUME NEW t \in Threads, NEW u \in Threads, t # u,
               NEW i \in 1 .. share[t].count, NEW j \in 1 .. share[u].count
        PROVE  share[t].first + i # share[u].first + j
    <2>1. part[t] \in Threads /\ part[u] \in Threads /\ part[t] # part[u]
      BY <1>8
    <2>2. part[t] < part[u] \/ part[u] < part[t]
      BY <1>1, <2>1
    <2>3. /\ i \in Nat /\ j \in Nat /\ i >= 1 /\ j >= 1
          /\ i <= C(part[t]) /\ j <= C(part[u])
      BY <1>5, <1>8, <1>2, <2>1
    <2> QED
      BY <1>2, <1>3, <1>5, <2>1, <2>2, <2>3
  <1>9. ASSUME NEW k \in 1 .. n
        PROVE  \E t \in Threads : \E j \in 1 .. share[t].count : k = share[t].first + j
    <2>1. PICK i \in Threads : F(i) < k /\ k <= F(i) + C(i)
      BY <1>4
    <2>2. PICK t \in Threads : part[t] = i
      OBVIOUS
    <2>3. k - F(i) \in 1 .. C(i) /\ k = F(i) + (k - F(i))
      BY <1>2, <2>1
    <2> QED
      BY <1>5, <2>2, <2>3
  <1>10. Divides(share, n)
    BY <1>6, <1>7, <1>8, <1>9 DEF Divides
  <1> QED
    BY <1>10 DEF share, F, C, parts

(* The slices of dispatch_and_wait: part t to thread t.                     *)
LEMMA DispatchDivides ==
  ASSUME NEW n \in Nat
  PROVE  Divides([t \in Threads |-> DispatchSlice(n, t)], n)
  <1> DEFINE part == [t \in Threads |-> t]
  <1>1. part \in [Threads -> Threads]
    OBVIOUS
  <1>2. \A t \in Threads : part[t] = t
    OBVIOUS
  <1>3. [t \in Threads |-> DispatchSlice(n, t)] =
          [t \in Threads |-> [first |-> PartOffset(n, ThreadCount + 1, part[t]),
                              count |-> PartSize(n, ThreadCount + 1, part[t])]]
    BY <1>2 DEF DispatchSlice
  <1> HIDE DEF part
  <1> QED
    BY <1>1, <1>2, <1>3, PermutedParts

(* The chunks of bc_concurrency_for: 0 to the main thread, w + 1 to w.      *)
LEMMA ForDivides ==
  ASSUME NEW n \in Nat
  PROVE  Divides([t \in Threads |-> ForSlice(n, t)], n)
  <1> DEFINE part == [t \in Threads |-> IF t = Main THEN 0 ELSE t + 1]
  <1>1. part \in [Threads -> Threads]
    BY DEF Threads, Main
  <1>2. \A t \in Threads : part[t] = IF t = Main THEN 0 ELSE t + 1
    OBVIOUS
  <1>3. \A t, u \in Threads : t # u => part[t] # part[u]
    BY <1>2 DEF Threads, Main
  <1>4. ASSUME NEW i \in Threads PROVE \E t \in Threads : part[t] = i
    <2>1. CASE i = 0
      BY <1>2, <2>1, ThreadSets
    <2>2. CASE i # 0
      <3>1. i - 1 \in Threads /\ i - 1 # Main /\ i - 1 + 1 = i
        BY <2>2 DEF Threads, Main
      <3> QED
        BY <1>2, <3>1
    <2> QED
      BY <2>1, <2>2
  <1>5. [t \in Threads |-> ForSlice(n, t)] =
          [t \in Threads |-> [first |-> PartOffset(n, ThreadCount + 1, part[t]),
                              count |-> PartSize(n, ThreadCount + 1, part[t])]]
    BY <1>2 DEF ForSlice
  <1> HIDE DEF part
  <1> QED
    BY <1>1, <1>3, <1>4, <1>5, PermutedParts

(****************************************************************************)
(* What has run of a batch b that is divided into shares, when thread t has *)
(* run the first done[t] items of its own; r counts the runs of each item.  *)
(****************************************************************************)
Ran(share, b, r, done) ==
  \A t \in Threads : \A j \in 1 .. share[t].count :
    r[b[share[t].first + j]] = IF j <= done[t] THEN 1 ELSE 0

(* Where in the batch the next item of thread t is.                         *)
NextOf(share, done, t) == share[t].first + (done[t] + 1)

Ascending(b) == \A i, j \in 1 .. Len(b) : i < j => b[i] < b[j]

(* The items of a batch are all different.                                  *)
LEMMA AscendingApart ==
  ASSUME NEW b \in Seq(Items), Ascending(b),
         NEW i \in 1 .. Len(b), NEW j \in 1 .. Len(b), i # j
  PROVE  b[i] # b[j]
  <1>1. b[i] \in Items /\ b[j] \in Items
    OBVIOUS
  <1>2. i < j \/ j < i
    OBVIOUS
  <1> QED
    BY <1>1, <1>2 DEF Ascending, Items

(* Before the round nobody has run anything.                                *)
LEMMA RanNothing ==
  ASSUME NEW b \in Seq(Items), NEW share, Divides(share, Len(b)), NEW r,
         \A k \in 1 .. Len(b) : r[b[k]] = 0
  PROVE  Ran(share, b, r, [t \in Threads |-> 0])
  <1> SUFFICES ASSUME NEW t \in Threads, NEW j \in 1 .. share[t].count
               PROVE  r[b[share[t].first + j]] = 0
    BY DEF Ran
  <1>1. share[t].first + j \in 1 .. Len(b)
    BY ShareType
  <1> QED
    BY <1>1

(* The next item of a thread's share is one that nobody has run.            *)
LEMMA RanNext ==
  ASSUME NEW b \in Seq(Items), NEW share, Divides(share, Len(b)),
         NEW r, NEW done \in [Threads -> Nat],
         Ran(share, b, r, done), NEW t \in Threads, done[t] < share[t].count
  PROVE  /\ NextOf(share, done, t) \in 1 .. Len(b)
         /\ r[b[NextOf(share, done, t)]] = 0
  <1>1. Len(b) \in Nat
    OBVIOUS
  <1>2. share[t].count \in Nat /\ done[t] \in Nat
    BY <1>1, ShareType
  <1>3. done[t] + 1 \in 1 .. share[t].count /\ ~(done[t] + 1 <= done[t])
    BY <1>2
  <1>4. share[t].first + (done[t] + 1) \in 1 .. Len(b)
    BY <1>1, <1>3, ShareType
  <1> QED
    BY <1>3, <1>4 DEF Ran, NextOf

(* Thread t runs that item: it is one further and nobody else is.           *)
Advances(share, b, r, done, t, after, doneAfter) ==
  /\ after[b[NextOf(share, done, t)]] = 1
  /\ \A i \in 1 .. Len(b) : i # NextOf(share, done, t) => after[b[i]] = r[b[i]]
  /\ doneAfter[t] = done[t] + 1
  /\ \A u \in Threads : u # t => doneAfter[u] = done[u]

(* A thread that runs the next item of its share has run one more, and      *)
(* nobody else has run that item.                                           *)
LEMMA RanOneMore ==
  ASSUME NEW b \in Seq(Items), NEW share, Divides(share, Len(b)),
         NEW r, NEW done \in [Threads -> Nat], Ran(share, b, r, done),
         NEW t \in Threads, done[t] < share[t].count,
         NEW after, NEW doneAfter, Advances(share, b, r, done, t, after, doneAfter)
  PROVE  Ran(share, b, after, doneAfter)
  <1> DEFINE k == NextOf(share, done, t)
  <1> SUFFICES ASSUME NEW u \in Threads, NEW j \in 1 .. share[u].count
               PROVE  after[b[share[u].first + j]] = IF j <= doneAfter[u] THEN 1 ELSE 0
    BY DEF Ran
  <1> USE DEF Advances
  <1>1. /\ Len(b) \in Nat /\ done[t] \in Nat /\ done[u] \in Nat
        /\ share[t].first \in Nat /\ share[u].first \in Nat /\ share[u].count \in Nat
        /\ share[u].first + j \in 1 .. Len(b)
    <2>1. Len(b) \in Nat
      OBVIOUS
    <2> QED
      BY <2>1, ShareType
  <1>2. r[b[share[u].first + j]] = IF j <= done[u] THEN 1 ELSE 0
    BY DEF Ran
  <1>3. CASE u = t /\ j = done[t] + 1
    BY <1>1, <1>3 DEF NextOf
  <1>4. CASE u = t /\ j # done[t] + 1
    <2>1. share[u].first + j # k
      BY <1>1, <1>4 DEF NextOf
    <2>2. after[b[share[u].first + j]] = r[b[share[u].first + j]]
      BY <1>1, <2>1
    <2>3. (j <= done[u]) <=> (j <= doneAfter[u])
      BY <1>1, <1>4
    <2> QED
      BY <1>2, <2>2, <2>3
  <1>5. CASE u # t
    <2>1. share[u].first + j # k
      <3>1. share[t].count \in Nat
        BY <1>1, ShareType
      <3>2. done[t] + 1 \in 1 .. share[t].count
        BY <1>1, <3>1
      <3> QED
        BY <1>5, <3>2 DEF Divides, NextOf
    <2>2. after[b[share[u].first + j]] = r[b[share[u].first + j]]
      BY <1>1, <2>1
    <2> QED
      BY <1>2, <1>5, <2>2
  <1> QED
    BY <1>3, <1>4, <1>5

(* When every thread is through with its share, every item has run.         *)
LEMMA RanEverything ==
  ASSUME NEW b \in Seq(Items), NEW share, Divides(share, Len(b)), NEW r, NEW done,
         Ran(share, b, r, done), \A t \in Threads : done[t] = share[t].count
  PROVE  \A k \in 1 .. Len(b) : r[b[k]] = 1
  <1> SUFFICES ASSUME NEW k \in 1 .. Len(b) PROVE r[b[k]] = 1
    OBVIOUS
  <1>1. PICK t \in Threads : \E j \in 1 .. share[t].count : k = share[t].first + j
    BY DEF Divides
  <1>2. PICK j \in 1 .. share[t].count : k = share[t].first + j
    BY <1>1
  <1>3. j <= done[t]
    BY ShareType
  <1> QED
    BY <1>2, <1>3 DEF Ran

(****************************************************************************)
(* The inductive invariant.  Share(t) is what thread t is to run of the     *)
(* current call's batch, and DoneBy(t) how much of it it has run.           *)
(****************************************************************************)
Share(t) ==
  IF call = "dispatch" THEN DispatchSlice(Len(batch), t) ELSE ForSlice(Len(batch), t)

DoneBy(t) ==
  IF t = Main THEN mnext
  ELSE IF (mpc = "hand_out" /\ idx <= t) \/ ready_flag[t] THEN 0
  ELSE IF wpc[t] = "run" THEN wnext[t]
  ELSE Share(t).count

Shares == [t \in Threads |-> Share(t)]
Done   == [t \in Threads |-> DoneBy(t)]

Calling ==
  /\ mpc = "idle" <=> call = None
  /\ mpc = "inline" => call \in Arenas

(* Items are numbered in the order in which they are introduced, and those  *)
(* of the staging array are not in the batch of a parallel for.             *)
Numbered ==
  /\ Ascending(staging) /\ Ascending(batch)
  /\ \A i \in 1 .. Len(staging) : staging[i] <= submitted
  /\ \A i \in 1 .. Len(batch) : batch[i] <= submitted
  /\ call = "dispatch" => batch = staging
  /\ call = "for" =>
       \A i \in 1 .. Len(staging), j \in 1 .. Len(batch) : staging[i] < batch[j]

(* Items nobody has introduced, or that are staged for later, have not run. *)
NotYet ==
  /\ \A it \in Items : it > submitted => runs[it] = 0
  /\ call # "dispatch" => \A i \in 1 .. Len(staging) : runs[staging[i]] = 0

Assigned ==
  InParallel =>
    /\ tasks[call] = batch
    /\ \A t \in Threads :
         call = "dispatch" \/ t = Main \/ mpc # "hand_out" \/ t < idx
           => Slice(call, t) = Share(t)

Counters ==
  /\ mpc \notin {"inline", "share", "wait", "asleep"} => mnext = 0
  /\ mpc = "inline" => mnext <= Len(batch)
  /\ mpc = "share" => mnext <= Share(Main).count
  /\ mpc \in {"wait", "asleep"} => mnext = Share(Main).count

(* What has run of the batch at every point of a call.                      *)
BatchRuns ==
  /\ AllOrNothing
  /\ mpc \in {"spawn", "stop", "join", "prepare"} /\ call \in Arenas
       => \A k \in 1 .. Len(batch) : runs[batch[k]] = 0
  /\ mpc = "inline"
       => \A k \in 1 .. Len(batch) : runs[batch[k]] = IF k <= mnext THEN 1 ELSE 0
  /\ InParallel => Ran(Shares, batch, runs, Done)

RoomForTasks == Len(tasks["dispatch"]) <= dispatch_capacity

RunsInv ==
  /\ Calling /\ Numbered /\ NotYet /\ Assigned /\ Counters /\ BatchRuns
  /\ AtMostOnce /\ RoomForTasks

(* The shares of a call, chunks or slices, divide its batch.                *)
LEMMA SharesDivide ==
  ASSUME batch \in Seq(Items)
  PROVE  Divides(Shares, Len(batch))
  <1>1. Len(batch) \in Nat
    OBVIOUS
  <1>2. CASE call = "dispatch"
    <2>1. Shares = [t \in Threads |-> DispatchSlice(Len(batch), t)]
      BY <1>2 DEF Shares, Share
    <2> QED
      BY <1>1, <2>1, DispatchDivides
  <1>3. CASE call # "dispatch"
    <2>1. Shares = [t \in Threads |-> ForSlice(Len(batch), t)]
      BY <1>3 DEF Shares, Share
    <2> QED
      BY <1>1, <2>1, ForDivides
  <1> QED
    BY <1>2, <1>3

(* A thread's share, and how far it is with it.                             *)
LEMMA ShareNat ==
  ASSUME TypeOK, NEW t \in Threads
  PROVE  /\ Share(t).first \in Nat /\ Share(t).count \in Nat
         /\ Share(t).first + Share(t).count <= Len(batch)
         /\ Shares[t] = Share(t) /\ Done[t] = DoneBy(t) /\ DoneBy(t) \in Nat
  <1>1. batch \in Seq(Items) /\ Len(batch) \in Nat
    BY DEF TypeOK, MainType
  <1>2. /\ Shares[t].first \in Nat /\ Shares[t].count \in Nat
        /\ Shares[t].first + Shares[t].count <= Len(batch)
    BY <1>1, SharesDivide, ShareType
  <1>3. Shares[t] = Share(t) /\ Done[t] = DoneBy(t)
    BY DEF Shares, Done
  <1>4. t # Main => t \in Workers
    BY DEF Threads, Main, Workers
  <1>5. DoneBy(t) \in Nat
    BY <1>2, <1>3, <1>4 DEF DoneBy, TypeOK, MainType, ThreadType
  <1> QED
    BY <1>2, <1>3, <1>5

(* At first nothing is submitted.                                           *)
LEMMA RunsInit == Init => RunsInv
  <1> SUFFICES ASSUME Init PROVE RunsInv
    OBVIOUS
  <1>1. Calling /\ Assigned /\ Counters
    BY ThreadSets DEF Init, Calling, Assigned, Counters, InParallel
  <1>2. Numbered
    BY ThreadSets DEF Init, Numbered, Ascending
  <1>3. NotYet /\ AtMostOnce
    BY DEF Init, NotYet, AtMostOnce
  <1>4. BatchRuns
    BY DEF Init, BatchRuns, AllOrNothing, InParallel
  <1>5. RoomForTasks
    BY ThreadSets DEF Init, RoomForTasks
  <1> QED
    BY <1>1, <1>2, <1>3, <1>4, <1>5 DEF RunsInv

(****************************************************************************)
(* The steps outside a round.                                               *)
(****************************************************************************)
Rolling == {"spawn", "stop", "join", "prepare"}

(* Between the entry of a call and its hand-out, nobody runs anything.      *)
LEMMA RollingStep ==
  ASSUME RunsInv, mpc \in Rolling, mpc' \in Rolling \cup {"destroyed"},
         UNCHANGED <<staging, submitted, runs, batch, call, mnext, result>>,
         UNCHANGED <<tasks, dispatch_capacity>>
  PROVE  RunsInv'
  <1> USE DEF RunsInv, Rolling
  <1>1. Calling' /\ Assigned' /\ Counters'
    BY DEF Calling, Assigned, Counters, InParallel
  <1>2. Numbered' /\ NotYet'
    BY DEF Numbered, NotYet, Ascending
  <1>3. BatchRuns'
    BY DEF BatchRuns, AllOrNothing, InParallel
  <1>4. AtMostOnce' /\ RoomForTasks'
    BY DEF AtMostOnce, RoomForTasks
  <1> QED
    BY <1>1, <1>2, <1>3, <1>4

(* A call that fails has run nothing.                                       *)
LEMMA FailedReturn ==
  ASSUME RunsInv, mpc \in Rolling, call \in Arenas, ReturnFromCall("failed"),
         UNCHANGED <<staging, submitted, runs, tasks, dispatch_capacity>>
  PROVE  RunsInv'
  <1> USE ThreadSets DEF RunsInv, Rolling, ReturnFromCall
  <1>1. Calling' /\ Assigned' /\ Counters'
    BY DEF Calling, Assigned, Counters, InParallel
  <1>2. Numbered'
    BY DEF Numbered, Ascending
  <1>3. \A k \in 1 .. Len(batch) : runs[batch[k]] = 0
    BY DEF BatchRuns
  <1>4. NotYet'
    <2>1. CASE call = "dispatch"
      BY <1>3, <2>1 DEF NotYet, Numbered
    <2>2. CASE call # "dispatch"
      BY <2>2 DEF NotYet
    <2> QED
      BY <2>1, <2>2
  <1>5. BatchRuns'
    BY <1>3 DEF BatchRuns, AllOrNothing, InParallel
  <1>6. AtMostOnce' /\ RoomForTasks'
    BY DEF AtMostOnce, RoomForTasks
  <1> QED
    BY <1>1, <1>2, <1>4, <1>5, <1>6

(* New items are numbered on from the last one introduced.                  *)
LEMMA NewItemsAre ==
  ASSUME TypeOK, NEW n \in Nat
  PROVE  /\ Len(NewItems(n)) = n /\ Ascending(NewItems(n))
         /\ \A k \in 1 .. n : /\ NewItems(n)[k] = submitted + k
                              /\ submitted < NewItems(n)[k]
                              /\ NewItems(n)[k] <= submitted + n
  <1>1. submitted \in Nat
    BY DEF TypeOK, HistoryType
  <1>2. Len(NewItems(n)) = n /\ \A k \in 1 .. n : NewItems(n)[k] = submitted + k
    BY DEF NewItems
  <1> QED
    BY <1>1, <1>2 DEF Ascending

(* Items are submitted with numbers of their own.                           *)
LEMMA PushStep ==
  ASSUME TypeOK, RunsInv, NEW n \in Nat, Push(n)
  PROVE  RunsInv'
  <1> USE ThreadSets DEF RunsInv, Push, mainVars, contextVars, arenaVars
  <1>1. Calling' /\ Assigned' /\ Counters'
    BY DEF Calling, Assigned, Counters, InParallel
  <1>2. NewItems(n) \in Seq(Items) /\ staging \in Seq(Items) /\ submitted \in Nat
    BY NewItemsType DEF TypeOK, ContextType, HistoryType
  <1>3. call = None /\ submitted' = submitted + n
    BY DEF Calling
  <1>4. /\ Len(staging') = Len(staging) + n /\ Len(staging) \in Nat
        /\ \A i \in 1 .. Len(staging) : staging'[i] = staging[i] /\ staging[i] \in Nat
        /\ \A i \in 1 .. Len(staging') : i > Len(staging) =>
             /\ i - Len(staging) \in 1 .. n
             /\ staging'[i] = NewItems(n)[i - Len(staging)]
    <2> DEFINE new == NewItems(n)
    <2>1. new \in Seq(Items) /\ Len(new) = n /\ staging' = staging \o new
      BY <1>2, NewItemsAre
    <2> HIDE DEF new
    <2>2. Len(staging') = Len(staging) + n /\ Len(staging) \in Nat
      <3>1. Len(staging \o new) = Len(staging) + Len(new)
        BY <1>2, <2>1, ConcatProperties
      <3>2. Len(staging) \in Nat
        BY <1>2
      <3> QED
        BY <2>1, <3>1, <3>2
    <2>3. \A i \in 1 .. Len(staging) : staging'[i] = staging[i] /\ staging[i] \in Nat
      BY <1>2, <2>1, ConcatProperties DEF Items
    <2>4. \A i \in 1 .. Len(staging') : i > Len(staging) =>
            i - Len(staging) \in 1 .. n /\ staging'[i] = new[i - Len(staging)]
      BY <1>2, <2>1, <2>2
    <2> QED
      BY <2>2, <2>3, <2>4 DEF new
  <1>5. \A i \in 1 .. Len(staging) : staging'[i] <= submitted
    BY <1>4 DEF Numbered
  <1>6. \A i \in 1 .. Len(staging') : i > Len(staging) =>
          /\ staging'[i] = submitted + (i - Len(staging))
          /\ submitted < staging'[i] /\ staging'[i] <= submitted + n
    BY <1>4, NewItemsAre
  <1>7. Ascending(staging')
    <2> SUFFICES ASSUME NEW i \in 1 .. Len(staging'), NEW j \in 1 .. Len(staging'), i < j
                 PROVE  staging'[i] < staging'[j]
      BY DEF Ascending
    <2>1. CASE j <= Len(staging)
      BY <1>4, <2>1 DEF Numbered, Ascending
    <2>2. CASE i <= Len(staging) /\ j > Len(staging)
      BY <1>2, <1>4, <1>5, <1>6, <2>2
    <2>3. CASE i > Len(staging)
      BY <1>2, <1>4, <1>6, <2>3
    <2> QED
      BY <1>4, <2>1, <2>2, <2>3
  <1>8. \A i \in 1 .. Len(staging') : staging'[i] <= submitted'
    <2> SUFFICES ASSUME NEW i \in 1 .. Len(staging') PROVE staging'[i] <= submitted + n
      BY <1>3
    <2>1. CASE i <= Len(staging)
      BY <1>2, <1>4, <1>5, <2>1
    <2>2. CASE i > Len(staging)
      BY <1>6, <2>2
    <2> QED
      BY <1>4, <2>1, <2>2
  <1>9. Numbered'
    <2>1. \A i \in 1 .. Len(batch) : batch[i] <= submitted'
      <3>1. \A i \in 1 .. Len(batch) : batch[i] \in Nat
        BY DEF TypeOK, MainType, Items
      <3> QED
        BY <1>2, <1>3, <3>1 DEF Numbered
    <2> QED
      BY <1>3, <1>7, <1>8, <2>1 DEF Numbered
  <1>10. NotYet'
    <2>1. \A it \in Items : it > submitted' => runs[it] = 0
      BY <1>2, <1>3 DEF NotYet, Items
    <2>2. \A i \in 1 .. Len(staging') : runs[staging'[i]] = 0
      <3> SUFFICES ASSUME NEW i \in 1 .. Len(staging') PROVE runs[staging'[i]] = 0
        OBVIOUS
      <3>1. staging'[i] \in Items
        BY <1>2
      <3>2. CASE i <= Len(staging)
        BY <1>3, <1>4, <3>2 DEF NotYet
      <3>3. CASE i > Len(staging)
        BY <1>2, <1>6, <3>1, <3>3 DEF NotYet
      <3> QED
        BY <1>4, <3>2, <3>3
    <2> QED
      BY <1>3, <2>1, <2>2 DEF NotYet
  <1>11. BatchRuns'
    BY DEF BatchRuns, AllOrNothing, InParallel
  <1>12. AtMostOnce' /\ RoomForTasks'
    BY DEF AtMostOnce, RoomForTasks
  <1> QED
    BY <1>1, <1>9, <1>10, <1>11, <1>12

(* A dispatch of nothing returns true.                                      *)
LEMMA NothingStep ==
  ASSUME TypeOK, RunsInv, DispatchNothing
  PROVE  RunsInv'
  <1> USE ThreadSets DEF RunsInv, DispatchNothing, contextVars, arenaVars
  <1>1. Calling' /\ Assigned' /\ Counters'
    BY DEF Calling, Assigned, Counters, InParallel
  <1>2. Numbered' /\ NotYet'
    BY DEF Numbered, NotYet, Ascending, Calling
  <1>3. BatchRuns'
    BY DEF BatchRuns, AllOrNothing, InParallel
  <1>4. AtMostOnce' /\ RoomForTasks'
    BY DEF AtMostOnce, RoomForTasks
  <1> QED
    BY <1>1, <1>2, <1>3, <1>4

(* A call takes its batch: the staged items, or new ones.                   *)
LEMMA EnterStep ==
  ASSUME TypeOK, TypeOK', RunsInv, mpc = "idle", mpc' \in {"inline", "spawn", "prepare"},
         UNCHANGED <<staging, runs, tasks, dispatch_capacity, mnext>>,
         \/ call' = "dispatch" /\ batch' = staging /\ submitted' = submitted
         \/ /\ call' = "for"
            /\ \E n \in Nat : batch' = NewItems(n) /\ submitted' = submitted + n
  PROVE  RunsInv'
  <1> USE ThreadSets DEF RunsInv
  <1>1. Assigned' /\ mnext' = 0
    BY DEF Calling, Assigned, Counters, InParallel
  <1>2. /\ staging \in Seq(Items) /\ submitted \in Nat /\ call = None
        /\ \A i \in 1 .. Len(staging) : staging[i] \in Nat
    BY DEF TypeOK, ContextType, HistoryType, Calling, Items
  <1>3. ASSUME call' = "dispatch", batch' = staging, submitted' = submitted
        PROVE  Numbered' /\ NotYet' /\ \A k \in 1 .. Len(batch') : runs[batch'[k]] = 0
    <2>1. Numbered'
      BY <1>3 DEF Numbered
    <2>2. NotYet' /\ \A k \in 1 .. Len(batch') : runs[batch'[k]] = 0
      BY <1>2, <1>3 DEF NotYet
    <2> QED
      BY <2>1, <2>2
  <1>4. ASSUME NEW n \in Nat, call' = "for", batch' = NewItems(n),
               submitted' = submitted + n
        PROVE  Numbered' /\ NotYet' /\ \A k \in 1 .. Len(batch') : runs[batch'[k]] = 0
    <2>1. /\ Len(batch') = n /\ Ascending(batch')
          /\ \A k \in 1 .. n : /\ batch'[k] = submitted + k
                               /\ submitted < batch'[k] /\ batch'[k] <= submitted'
      BY <1>4, NewItemsAre
    <2>2. \A i \in 1 .. Len(staging) : staging[i] <= submitted
      BY DEF Numbered
    <2>3. \A i \in 1 .. Len(staging) : staging[i] <= submitted'
      BY <1>2, <1>4, <2>2
    <2>4. \A i \in 1 .. Len(staging), j \in 1 .. Len(batch') : staging[i] < batch'[j]
      BY <1>2, <2>1, <2>2
    <2>5. Numbered'
      <3>1. Ascending(staging)'
        BY DEF Numbered, Ascending
      <3>2. Ascending(batch)'
        BY <2>1 DEF Ascending
      <3> QED
        BY <1>4, <2>1, <2>3, <2>4, <3>1, <3>2 DEF Numbered
    <2>6. NotYet'
      BY <1>2, <1>4 DEF NotYet, Items
    <2>7. \A k \in 1 .. Len(batch') : batch'[k] \in Items
      BY DEF TypeOK, MainType
    <2>8. \A k \in 1 .. Len(batch') : runs[batch'[k]] = 0
      BY <2>1, <2>7 DEF NotYet
    <2> QED
      BY <2>5, <2>6, <2>8
  <1>5. Numbered' /\ NotYet' /\ \A k \in 1 .. Len(batch') : runs[batch'[k]] = 0
    BY <1>3, <1>4
  <1>6. Calling' /\ Counters'
    <2>1. batch' \in Seq(Items)
      BY DEF TypeOK, MainType
    <2> QED
      BY <1>1, <2>1 DEF Calling, Counters
  <1>7. BatchRuns'
    <2>1. \A k \in 1 .. Len(batch') : ~(k <= mnext')
      BY <1>1
    <2> QED
      BY <1>5, <2>1 DEF BatchRuns, AllOrNothing, InParallel
  <1>8. AtMostOnce' /\ RoomForTasks'
    BY DEF AtMostOnce, RoomForTasks
  <1> QED
    BY <1>1, <1>5, <1>6, <1>7, <1>8

(* One item of the batch runs, for the first time. *)
RunsOne ==
  \E k \in 1 .. Len(batch) :
    runs[batch[k]] = 0 /\ runs' = [runs EXCEPT ![batch[k]] = 1]

(* An item of the batch that has not run yet is run.                        *)
LEMMA RunItem ==
  ASSUME TypeOK, RunsInv, call \in Arenas, NEW k \in 1 .. Len(batch),
         runs[batch[k]] = 0, Execute(batch[k]),
         UNCHANGED <<staging, submitted, batch, call>>
  PROVE  /\ Numbered' /\ NotYet' /\ AtMostOnce'
         /\ runs' = [runs EXCEPT ![batch[k]] = 1]
  <1>1. /\ runs \in [Items -> Nat] /\ batch[k] \in Items /\ submitted \in Nat
        /\ batch[k] <= submitted
        /\ \A i \in 1 .. Len(staging) : staging[i] \in Items
    BY DEF TypeOK, HistoryType, MainType, ContextType, RunsInv, Numbered
  <1>2. runs' = [runs EXCEPT ![batch[k]] = 1]
    BY <1>1 DEF Execute
  <1>3. Numbered'
    BY DEF RunsInv, Numbered, Ascending
  <1>4. AtMostOnce'
    BY <1>1, <1>2 DEF RunsInv, AtMostOnce
  <1>5. ASSUME NEW it \in Items, it > submitted PROVE runs'[it] = 0
    <2>1. it # batch[k]
      BY <1>1, <1>5 DEF Items
    <2>2. runs[it] = 0
      BY <1>5 DEF RunsInv, NotYet
    <2> QED
      BY <1>1, <1>2, <2>1, <2>2
  <1>6. ASSUME call # "dispatch", NEW i \in 1 .. Len(staging)
        PROVE  runs'[staging[i]] = 0
    <2>1. staging[i] < batch[k]
      BY <1>6, ThreadSets DEF RunsInv, Numbered
    <2>2. staging[i] # batch[k]
      BY <1>1, <2>1 DEF Items
    <2>3. runs[staging[i]] = 0
      BY <1>6 DEF RunsInv, NotYet
    <2> QED
      BY <1>1, <1>2, <2>2, <2>3
  <1> QED
    BY <1>2, <1>3, <1>4, <1>5, <1>6 DEF NotYet

(* The main thread alone runs the batch, from its beginning to its end.     *)
LEMMA InlineSteps ==
  ASSUME TypeOK, RunsInv, InlineStep
  PROVE  RunsInv' /\ RunsOne
  <1> USE DEF RunsInv, InlineStep, contextVars, arenaVars
  <1>1. /\ mnext \in Nat /\ Len(batch) \in Nat /\ mnext + 1 \in 1 .. Len(batch)
        /\ batch \in Seq(Items) /\ runs \in [Items -> Nat]
    BY DEF TypeOK, MainType, HistoryType
  <1>2. call \in Arenas /\ runs[batch[mnext + 1]] = 0
    <2>1. ~(mnext + 1 <= mnext)
      BY <1>1
    <2> QED
      BY <1>1, <2>1 DEF Calling, BatchRuns
  <1>3. /\ Numbered' /\ NotYet' /\ AtMostOnce'
        /\ runs' = [runs EXCEPT ![batch[mnext + 1]] = 1]
    BY <1>1, <1>2, RunItem
  <1>4. ASSUME NEW k \in 1 .. Len(batch)
        PROVE  runs'[batch[k]] = IF k <= mnext + 1 THEN 1 ELSE 0
    <2>1. runs[batch[k]] = IF k <= mnext THEN 1 ELSE 0
      BY DEF BatchRuns
    <2>2. CASE k = mnext + 1
      BY <1>1, <1>3, <2>2
    <2>3. CASE k # mnext + 1
      <3>1. batch[k] # batch[mnext + 1]
        BY <1>1, <2>3, AscendingApart DEF Numbered
      <3>2. runs'[batch[k]] = runs[batch[k]]
        BY <1>1, <1>3, <3>1
      <3> QED
        BY <1>1, <2>1, <2>3, <3>2
    <2> QED
      BY <2>2, <2>3
  <1>5. BatchRuns'
    BY <1>4 DEF BatchRuns, AllOrNothing, InParallel
  <1>6. Calling' /\ Assigned' /\ Counters'
    BY <1>1 DEF Calling, Assigned, Counters, InParallel
  <1>7. RoomForTasks'
    BY DEF RoomForTasks
  <1>8. RunsOne
    BY <1>1, <1>2, <1>3 DEF RunsOne
  <1> QED
    BY <1>3, <1>5, <1>6, <1>7, <1>8

(* A call returns true when its whole batch has run.                        *)
LEMMA TrueReturn ==
  ASSUME TypeOK, RunsInv, call \in Arenas, ReturnFromCall("ok"),
         \A k \in 1 .. Len(batch) : runs[batch[k]] = 1,
         staging' = (IF call = "dispatch" THEN <<>> ELSE staging),
         UNCHANGED <<submitted, runs, tasks, dispatch_capacity>>
  PROVE  RunsInv'
  <1> USE ThreadSets DEF RunsInv, ReturnFromCall
  <1>1. Calling' /\ Assigned' /\ Counters'
    BY DEF Calling, Assigned, Counters, InParallel
  <1>2. Numbered' /\ NotYet'
    <2>1. CASE call = "dispatch"
      <3>1. staging' = <<>> /\ call' = None
        BY <2>1
      <3> QED
        BY <3>1 DEF Numbered, NotYet, Ascending
    <2>2. CASE call # "dispatch"
      BY <2>2 DEF Numbered, NotYet, Ascending
    <2> QED
      BY <2>1, <2>2
  <1>3. BatchRuns'
    BY DEF BatchRuns, AllOrNothing, InParallel
  <1>4. AtMostOnce' /\ RoomForTasks'
    BY DEF AtMostOnce, RoomForTasks
  <1> QED
    BY <1>1, <1>2, <1>3, <1>4

(* At the end of an inline call all items of the batch have run.            *)
LEMMA InlineEnd ==
  ASSUME TypeOK, RunsInv, InlineDone
  PROVE  RunsInv' /\ \A k \in 1 .. Len(batch) : runs[batch[k]] = 1
  <1>1. call \in Arenas
    BY DEF InlineDone, RunsInv, Calling
  <1>2. \A k \in 1 .. Len(batch) : k <= mnext
    BY DEF InlineDone, TypeOK, MainType
  <1>3. \A k \in 1 .. Len(batch) : runs[batch[k]] = 1
    BY <1>2 DEF InlineDone, RunsInv, BatchRuns
  <1>4. staging' = (IF call = "dispatch" THEN <<>> ELSE staging)
    BY DEF InlineDone, ClearStaging
  <1> QED
    BY <1>1, <1>3, <1>4, TrueReturn DEF InlineDone, arenaVars

(* destroy runs no item.                                                    *)
LEMMA DestroyStep ==
  ASSUME RunsInv, Destroy
  PROVE  RunsInv'
  <1> USE ThreadSets DEF RunsInv, Destroy, contextVars, arenaVars, historyVars
  <1>1. Calling' /\ Assigned' /\ Counters'
    BY DEF Calling, Assigned, Counters, InParallel
  <1>2. Numbered' /\ NotYet'
    BY DEF Numbered, NotYet, Ascending, Calling
  <1>3. BatchRuns'
    BY DEF BatchRuns, AllOrNothing, InParallel
  <1>4. AtMostOnce' /\ RoomForTasks'
    BY DEF AtMostOnce, RoomForTasks
  <1> QED
    BY <1>1, <1>2, <1>3, <1>4

(****************************************************************************)
(* The steps of a round.                                                    *)
(****************************************************************************)

(* A worker that runs a slice runs one it owes the main thread.             *)
LEMMA RunningWorker ==
  ASSUME IInv, NEW w \in Workers, wpc[w] = "run"
  PROVE  /\ InParallel /\ call \in Arenas /\ wwork[w] = call /\ ~ready_flag[w]
         /\ ~(mpc = "hand_out" /\ idx <= w)
  BY RunsWhatIsOwed, ThreadSets
     DEF IInv, Handshake, Pending, Running, Answered, Owed, Passed, InParallel, TypeOK, MainType

(* The hand-out begins with nothing run.                                    *)
LEMMA CutStep ==
  ASSUME IInv, TypeOK', RunsInv, CopyAndCut \/ ForAlloc
  PROVE  RunsInv'
  <1> USE ThreadSets DEF RunsInv
  <1>1. /\ mpc = "prepare" /\ mpc' = "hand_out" /\ idx' = 0 /\ call \in Arenas
        /\ UNCHANGED <<staging, submitted, runs, batch, call, mnext, result>>
        /\ tasks' = [tasks EXCEPT ![call] = batch]
    BY DEF CopyAndCut, ForAlloc, GoTo, contextVars, historyVars
  <1>2. TypeOK /\ batch \in Seq(Items)
    BY DEF IInv, TypeOK, MainType
  <1>3. tasks'[call] = batch
    BY <1>1, <1>2 DEF TypeOK, ArenaType
  <1>4. Assigned'
    <2>1. \A t \in Threads : Share(t)' = Share(t)
      BY <1>1 DEF Share
    <2>2. Slice(call, Main)' = Share(Main)
      <3>1. CASE CopyAndCut
        BY <1>2, <3>1 DEF CopyAndCut, Slice, Share, GoTo, TypeOK, ArenaType
      <3>2. CASE ForAlloc
        BY <1>2, <3>2 DEF ForAlloc, Slice, Share, GoTo, TypeOK, ArenaType
      <3> QED
        BY <3>1, <3>2
    <2>3. ASSUME call = "dispatch", NEW t \in Threads
          PROVE  Slice(call, t)' = Share(t)
      BY <1>2, <2>3 DEF CopyAndCut, ForAlloc, Slice, Share, GoTo, TypeOK, ArenaType
    <2>4. \A t \in Threads : ~(t < idx')
      BY <1>1 DEF Threads
    <2> QED
      BY <1>1, <1>3, <2>1, <2>2, <2>3, <2>4 DEF Assigned
  <1>5. Calling' /\ Counters'
    BY <1>1 DEF Calling, Counters
  <1>6. Numbered' /\ NotYet' /\ AtMostOnce'
    BY <1>1 DEF Numbered, NotYet, Ascending, AtMostOnce
  <1>7. BatchRuns'
    <2>1. \A k \in 1 .. Len(batch) : runs[batch[k]] = 0
      BY <1>1 DEF BatchRuns
    <2>2. Shares' = Shares /\ Divides(Shares, Len(batch))
      BY <1>1, <1>2, SharesDivide DEF Shares, Share
    <2>3. Ran(Shares, batch, runs, [t \in Threads |-> 0])
      BY <1>2, <2>1, <2>2, RanNothing
    <2>4. \A t \in Threads : DoneBy(t)' = 0
      BY <1>1 DEF DoneBy, Counters, Threads
    <2>5. Done' = [t \in Threads |-> 0]
      BY <2>4 DEF Done
    <2> QED
      BY <1>1, <2>2, <2>3, <2>5 DEF BatchRuns, AllOrNothing
  <1>8. RoomForTasks'
    <2>1. CASE CopyAndCut
      BY <1>1, <1>2, <2>1 DEF CopyAndCut, TooSmall, RoomForTasks, TypeOK, ArenaType, MainType
    <2>2. CASE ForAlloc
      BY <1>1, <1>2, <2>2 DEF ForAlloc, RoomForTasks, TypeOK, ArenaType, contextVars
    <2> QED
      BY <2>1, <2>2
  <1> QED
    BY <1>4, <1>5, <1>6, <1>7, <1>8

(* A step of a round in which nothing runs.                                 *)
LEMMA QuietStep ==
  ASSUME RunsInv, InParallel, InParallel',
         UNCHANGED <<staging, submitted, runs, batch, call, result>>,
         UNCHANGED <<tasks, dispatch_capacity>>,
         \A t \in Threads : DoneBy(t)' = DoneBy(t), Assigned', Counters'
  PROVE  RunsInv'
  <1> USE DEF RunsInv
  <1>1. Calling'
    BY DEF Calling, InParallel
  <1>2. Numbered' /\ NotYet' /\ AtMostOnce' /\ RoomForTasks'
    BY DEF Numbered, NotYet, Ascending, AtMostOnce, RoomForTasks
  <1>3. BatchRuns'
    <2>1. Shares' = Shares /\ Done' = Done
      BY DEF Shares, Share, Done
    <2> QED
      BY <2>1 DEF BatchRuns, AllOrNothing, InParallel
  <1> QED
    BY <1>1, <1>2, <1>3

(* A step of a round in which thread t runs the next item of its share.     *)
LEMMA OneMoreStep ==
  ASSUME TypeOK, RunsInv, InParallel, InParallel', call \in Arenas,
         NEW t \in Threads, DoneBy(t) < Share(t).count,
         Execute(batch[Share(t).first + (DoneBy(t) + 1)]),
         UNCHANGED <<staging, submitted, batch, call, result>>,
         UNCHANGED <<tasks, dispatch_capacity>>,
         DoneBy(t)' = DoneBy(t) + 1,
         \A u \in Threads : u # t => DoneBy(u)' = DoneBy(u), Assigned', Counters'
  PROVE  RunsInv' /\ RunsOne
  <1> DEFINE k == Share(t).first + (DoneBy(t) + 1)
  <1>1. /\ batch \in Seq(Items) /\ Ascending(batch) /\ runs \in [Items -> Nat]
        /\ Ran(Shares, batch, runs, Done) /\ Divides(Shares, Len(batch))
    BY SharesDivide DEF TypeOK, MainType, HistoryType, RunsInv, Numbered, BatchRuns
  <1>2. /\ Done \in [Threads -> Nat] /\ Done[t] < Shares[t].count
        /\ k = NextOf(Shares, Done, t)
    BY ShareNat DEF Done, NextOf
  <1>3. Execute(batch[k])
    OBVIOUS
  <1> HIDE DEF k
  <1>4. k \in 1 .. Len(batch) /\ runs[batch[k]] = 0
    <2>1. /\ NextOf(Shares, Done, t) \in 1 .. Len(batch)
          /\ runs[batch[NextOf(Shares, Done, t)]] = 0
      BY <1>1, <1>2, RanNext
    <2> QED
      BY <1>2, <2>1
  <1>5. /\ Numbered' /\ NotYet' /\ AtMostOnce'
        /\ runs' = [runs EXCEPT ![batch[k]] = 1]
    BY <1>3, <1>4, RunItem
  <1>6. Ran(Shares, batch, runs', Done')
    <2>1. /\ Done'[t] = Done[t] + 1
          /\ \A u \in Threads : u # t => Done'[u] = Done[u]
      BY DEF Done
    <2>2. runs'[batch[k]] = 1
      BY <1>1, <1>4, <1>5
    <2>3. ASSUME NEW i \in 1 .. Len(batch), i # k
          PROVE  runs'[batch[i]] = runs[batch[i]]
      <3>1. batch[i] # batch[k]
        BY <1>1, <1>4, <2>3, AscendingApart
      <3> QED
        BY <1>1, <1>5, <3>1
    <2>4. /\ runs'[batch[NextOf(Shares, Done, t)]] = 1
          /\ \A i \in 1 .. Len(batch) : i # NextOf(Shares, Done, t) =>
               runs'[batch[i]] = runs[batch[i]]
      BY <1>2, <2>2, <2>3
    <2>5. Advances(Shares, batch, runs, Done, t, runs', Done')
      BY <2>1, <2>4 DEF Advances
    <2> QED
      BY <1>1, <1>2, <2>5, RanOneMore
  <1>7. BatchRuns'
    <2>1. Shares' = Shares
      BY DEF Shares, Share
    <2> QED
      BY <1>6, <2>1 DEF BatchRuns, AllOrNothing, InParallel
  <1>8. Calling' /\ RoomForTasks'
    BY DEF RunsInv, Calling, InParallel, RoomForTasks
  <1>9. RunsOne
    BY <1>4, <1>5 DEF RunsOne
  <1> QED
    BY <1>5, <1>7, <1>8, <1>9 DEF RunsInv

(* In a round, the main thread and the running workers read their shares.   *)
LEMMA SliceIsShare ==
  ASSUME IInv, RunsInv, InParallel
  PROVE  /\ call \in Arenas /\ tasks[call] = batch
         /\ Slice(call, Main) = Share(Main)
         /\ \A w \in Workers : wpc[w] = "run" \/ mpc # "hand_out" =>
              Slice(call, w) = Share(w)
         /\ call = "dispatch" => \A t \in Threads : Slice(call, t) = Share(t)
  <1>1. call \in Arenas
    BY DEF IInv, CallInProgress
  <1>2. \A w \in Workers : w \in Threads /\ w \in Nat
    BY ThreadSets
  <1>3. idx \in Nat
    BY DEF IInv, TypeOK, MainType
  <1>4. \A w \in Workers : wpc[w] = "run" => mpc # "hand_out" \/ w < idx
    BY <1>2, <1>3, RunningWorker
  <1> QED
    BY <1>1, <1>2, <1>4, ThreadSets DEF RunsInv, Assigned

(* Handing out shares runs no item.                                         *)
LEMMA HandOutSteps ==
  ASSUME IInv, RunsInv,
         HandOutDispatch \/ HandOutNothing \/ HandOutChunk \/ HandOutDone
  PROVE  RunsInv'
  <1> USE ThreadSets
  <1>1. /\ TypeOK /\ InParallel /\ InParallel' /\ mpc = "hand_out" /\ call \in Arenas
        /\ UNCHANGED <<staging, submitted, runs, batch, call, result, mnext>>
        /\ UNCHANGED <<tasks, dispatch_capacity, wnext>>
    BY DEF IInv, CallInProgress, InParallel, HandOutDispatch, HandOutNothing, HandOutChunk,
           HandOutDone, GoTo, Continue, contextVars, arenaVars, threadVars, historyVars
  <1>2. \A t \in Threads : Share(t)' = Share(t)
    BY <1>1 DEF Share
  <1>3. /\ idx \in Nat
        /\ \A w \in Workers : ~(w < idx) => ~ready_flag[w] /\ wpc[w] # "run"
    BY <1>1 DEF IInv, Handshake, Parked, Owed, Passed, TypeOK, MainType
  <1>4. \A t \in Threads : t # Main => t \in Workers /\ t \in Nat
    BY DEF Threads, Main, Workers
  <1>5. CASE HandOutDispatch \/ HandOutChunk
    <2>1. /\ mpc' = "hand_out" /\ idx' = idx + 1 /\ idx \in Workers /\ idx # Main
          /\ ready_flag' = [ready_flag EXCEPT ![idx] = TRUE]
          /\ wpc' = [wpc EXCEPT ![idx] = IF @ = "asleep" THEN "check" ELSE @]
      <3>1. idx \in Workers /\ idx # Main
        BY <1>1, <1>3, <1>5 DEF HandOutDispatch, HandOutChunk, Workers, Main
      <3>2. CASE HandOutDispatch
        BY <1>1, <3>1, <3>2 DEF HandOutDispatch, DispatchToWorker, SignalReady, Continue
      <3>3. CASE HandOutChunk
        BY <1>1, <3>1, <3>3 DEF HandOutChunk, DispatchToWorker, SignalReady, Continue
      <3> QED
        BY <1>5, <3>2, <3>3
    <2>2. ASSUME NEW t \in Threads PROVE DoneBy(t)' = DoneBy(t)
      <3>1. CASE t = Main
        BY <1>1, <3>1 DEF DoneBy
      <3>2. CASE t # Main /\ t # idx
        <4>1. /\ ready_flag'[t] = ready_flag[t] /\ wpc'[t] = wpc[t]
              /\ (idx' <= t) <=> (idx <= t)
          BY <1>1, <1>3, <1>4, <2>1, <3>2 DEF TypeOK, FlagType, ThreadType
        <4> QED
          BY <1>1, <1>2, <2>1, <3>2, <4>1 DEF DoneBy
      <3>3. CASE t # Main /\ t = idx
        <4>1. ready_flag'[t] /\ idx <= t
          BY <1>1, <1>3, <1>4, <2>1, <3>3 DEF TypeOK, FlagType
        <4> QED
          BY <1>1, <3>3, <4>1 DEF DoneBy
      <3> QED
        BY <3>1, <3>2, <3>3
    <2>3. Assigned'
      <3>1. CASE HandOutDispatch
        BY <1>1, <1>2, <3>1 DEF HandOutDispatch, arenaVars, RunsInv, Assigned, Slice
      <3>2. CASE HandOutChunk
        <4>1. /\ call = "for" /\ tasks[call] = batch /\ Share(idx) = ForSlice(Len(batch), idx)
              /\ assignments' = [assignments EXCEPT !["for"][idx] = Share(idx)]
          BY <1>1, <3>2 DEF HandOutChunk, RunsInv, Assigned, Share
        <4>2. ASSUME NEW t \in Threads, t = Main \/ t < idx'
              PROVE  assignments'[call][t] = Share(t)
          <5>1. CASE t = idx
            BY <1>1, <4>1, <5>1 DEF TypeOK, ArenaType
          <5>2. CASE t # idx
            <6>1. t = Main \/ t < idx
              BY <1>3, <1>4, <2>1, <4>2, <5>2
            <6>2. assignments[call][t] = Share(t)
              BY <1>1, <4>1, <6>1 DEF RunsInv, Assigned, Slice
            <6> QED
              BY <1>1, <4>1, <5>2, <6>2 DEF TypeOK, ArenaType
          <5> QED
            BY <5>1, <5>2
        <4> QED
          BY <1>1, <1>2, <2>1, <4>1, <4>2 DEF Assigned, Slice
      <3> QED
        BY <1>5, <3>1, <3>2
    <2>4. Counters'
      BY <1>1, <2>1 DEF RunsInv, Counters
    <2> QED
      BY <1>1, <2>2, <2>3, <2>4, QuietStep
  <1>6. CASE HandOutNothing
    <2>1. /\ mpc' = "hand_out" /\ idx' = idx + 1 /\ idx \in Workers /\ idx # Main
          /\ UNCHANGED <<ready_flag, wpc, assignments>> /\ call = "dispatch"
          /\ Slice(call, idx).count = 0
      BY <1>1, <1>6 DEF HandOutNothing, Continue, TypeOK, MainType, flagVars, threadVars,
                        arenaVars
    <2>2. Share(idx).count = 0
      BY <1>1, <2>1 DEF RunsInv, Assigned
    <2>3. ASSUME NEW t \in Threads PROVE DoneBy(t)' = DoneBy(t)
      <3>1. CASE t = Main
        BY <1>1, <3>1 DEF DoneBy
      <3>2. CASE t # Main /\ t # idx
        <4>1. (idx' <= t) <=> (idx <= t)
          BY <1>3, <1>4, <2>1, <3>2
        <4> QED
          BY <1>1, <1>2, <2>1, <3>2, <4>1 DEF DoneBy
      <3>3. CASE t # Main /\ t = idx
        <4>1. ~ready_flag[t] /\ wpc[t] # "run" /\ idx <= t /\ ~(idx' <= t)
          BY <1>3, <1>4, <2>1, <3>3
        <4> QED
          BY <1>1, <1>2, <2>1, <2>2, <3>3, <4>1 DEF DoneBy
      <3> QED
        BY <3>1, <3>2, <3>3
    <2>4. Assigned' /\ Counters'
      BY <1>1, <1>2, <2>1 DEF RunsInv, Assigned, Slice, Counters
    <2> QED
      BY <1>1, <2>3, <2>4, QuietStep
  <1>7. CASE HandOutDone
    <2>1. /\ mpc' = "share" /\ idx = ThreadCount /\ UNCHANGED <<ready_flag, wpc, assignments>>
      BY <1>7 DEF HandOutDone, GoTo, flagVars, threadVars, arenaVars
    <2>2. \A t \in Threads : t # Main => ~(idx <= t) /\ t < idx
      BY <2>1 DEF Threads, Main
    <2>3. \A t \in Threads : DoneBy(t)' = DoneBy(t)
      BY <1>1, <1>2, <2>1, <2>2 DEF DoneBy
    <2>4. Assigned'
      BY <1>1, <1>2, <2>1, <2>2 DEF RunsInv, Assigned, Slice
    <2>5. Counters'
      <3>1. mnext = 0 /\ 0 <= Share(Main).count
        BY <1>1, ShareNat DEF RunsInv, Counters
      <3> QED
        BY <1>1, <1>2, <2>1, <3>1 DEF Counters
    <2> QED
      BY <1>1, <2>3, <2>4, <2>5, QuietStep
  <1> QED
    BY <1>5, <1>6, <1>7

(* The main thread runs the items of its own share.                         *)
LEMMA ShareSteps ==
  ASSUME IInv, RunsInv, ShareStep \/ ShareDone
  PROVE  RunsInv' /\ (ShareStep => RunsOne)
  <1> USE ThreadSets
  <1>1. /\ TypeOK /\ InParallel /\ InParallel' /\ mpc = "share" /\ call \in Arenas
        /\ UNCHANGED <<staging, submitted, batch, call, result>>
        /\ UNCHANGED <<tasks, assignments, dispatch_capacity, ready_flag, wpc, wnext>>
    BY DEF IInv, CallInProgress, InParallel, ShareStep, ShareDone, GoTo, contextVars,
           arenaVars, flagVars, threadVars, historyVars
  <1>2. /\ \A t \in Threads : Share(t)' = Share(t)
        /\ tasks[call] = batch /\ Slice(call, Main) = Share(Main)
        /\ mnext \in Nat /\ Share(Main).count \in Nat
    BY <1>1, SliceIsShare, ShareNat DEF Share, TypeOK, MainType
  <1>3. Assigned'
    BY <1>1, <1>2 DEF RunsInv, Assigned, Slice, ShareStep, ShareDone, GoTo
  <1>4. \A u \in Threads : u # Main => DoneBy(u)' = DoneBy(u)
    BY <1>1, <1>2 DEF DoneBy, ShareStep, ShareDone, GoTo
  <1>5. CASE ShareStep
    <2>1. mnext' = mnext + 1 /\ mpc' = "share" /\ mnext < Share(Main).count
      BY <1>1, <1>2, <1>5 DEF ShareStep
    <2>2. Execute(batch[Share(Main).first + (DoneBy(Main) + 1)])
      BY <1>2, <1>5 DEF ShareStep, ItemOf, DoneBy
    <2>3. /\ DoneBy(Main) < Share(Main).count /\ DoneBy(Main)' = DoneBy(Main) + 1
      BY <2>1 DEF DoneBy
    <2>4. Counters'
      BY <1>1, <1>2, <2>1 DEF Counters
    <2> QED
      BY <1>1, <1>3, <1>4, <2>2, <2>3, <2>4, OneMoreStep
  <1>6. CASE ~ShareStep
    <2>1. mnext' = mnext /\ mpc' = "wait" /\ mnext = Share(Main).count /\ runs' = runs
      BY <1>1, <1>2, <1>6 DEF ShareDone, GoTo, historyVars
    <2>2. \A t \in Threads : DoneBy(t)' = DoneBy(t)
      BY <1>4, <2>1 DEF DoneBy
    <2>3. Counters'
      BY <1>1, <1>2, <2>1 DEF Counters
    <2> QED
      BY <1>1, <1>3, <1>6, <2>1, <2>2, <2>3, QuietStep
  <1> QED
    BY <1>5, <1>6

(* Waiting runs no item.                                                    *)
LEMMA WaitSteps ==
  ASSUME IInv, RunsInv, WaitDone \/ WaitSleep \/ WaitSpuriousWakeup
  PROVE  RunsInv'
  <1> USE ThreadSets
  <1>1. /\ InParallel /\ InParallel' /\ mpc \in {"wait", "asleep"} /\ mpc' \in {"wait", "asleep"}
        /\ UNCHANGED <<staging, submitted, runs, batch, call, result, mnext>>
        /\ UNCHANGED <<tasks, assignments, dispatch_capacity, ready_flag, wpc, wnext>>
    BY DEF InParallel, WaitDone, WaitSleep, WaitSpuriousWakeup, Continue, contextVars,
           arenaVars, flagVars, threadVars, historyVars
  <1>2. \A t \in Threads : Share(t)' = Share(t)
    BY <1>1 DEF Share
  <1>3. \A t \in Threads : DoneBy(t)' = DoneBy(t)
    BY <1>1, <1>2 DEF DoneBy
  <1>4. Assigned' /\ Counters'
    BY <1>1, <1>2 DEF RunsInv, Assigned, Slice, Counters
  <1> QED
    BY <1>1, <1>3, <1>4, QuietStep

(* Every worker has answered when the wait loop ends, so that all is done.  *)
LEMMA ReturnStep ==
  ASSUME IInv, RunsInv, ReturnParallel
  PROVE  RunsInv' /\ \A k \in 1 .. Len(batch) : runs[batch[k]] = 1
  <1> USE ThreadSets
  <1>1. /\ TypeOK /\ InParallel /\ mpc = "wait" /\ idx = ThreadCount /\ call \in Arenas
        /\ batch \in Seq(Items)
    BY DEF IInv, CallInProgress, InParallel, ReturnParallel, TypeOK, MainType
  <1>2. ASSUME NEW t \in Threads PROVE Done[t] = Shares[t].count
    <2>1. Done[t] = DoneBy(t) /\ Shares[t] = Share(t)
      BY <1>1, ShareNat
    <2>2. CASE t = Main
      BY <1>1, <2>1, <2>2 DEF DoneBy, RunsInv, Counters
    <2>3. CASE t # Main
      <3>1. t \in Workers /\ ~(idx <= t)
        BY <1>1, <2>3 DEF Threads, Main, Workers
      <3>2. ~ready_flag[t] /\ wpc[t] # "run"
        BY <1>1, <3>1 DEF IInv, Handshake, Owed, Passed, Parked
      <3> QED
        BY <1>1, <2>1, <2>3, <3>2 DEF DoneBy
    <2> QED
      BY <2>2, <2>3
  <1>3. \A k \in 1 .. Len(batch) : runs[batch[k]] = 1
    <2>1. Ran(Shares, batch, runs, Done) /\ Divides(Shares, Len(batch))
      BY <1>1, SharesDivide DEF RunsInv, BatchRuns
    <2> QED
      BY <1>1, <1>2, <2>1, RanEverything
  <1>4. staging' = (IF call = "dispatch" THEN <<>> ELSE staging)
    BY DEF ReturnParallel, ClearStaging
  <1> QED
    BY <1>1, <1>3, <1>4, TrueReturn DEF ReturnParallel

(* The steps of a worker thread, in a round or not.                         *)
LEMMA WorkerSteps ==
  ASSUME IInv, RunsInv, NEW w \in Workers, WorkerStep(w) \/ WorkerSpuriousWakeup(w)
  PROVE  RunsInv' /\ (WorkerRun(w) => RunsOne)
  <1> USE ThreadSets
  <1>1. /\ TypeOK /\ w \in Threads /\ w # Main
        /\ UNCHANGED <<staging, submitted, batch, call, result, mnext, idx>>
        /\ UNCHANGED <<tasks, assignments, dispatch_capacity>>
        /\ mpc' = mpc \/ (mpc = "asleep" /\ mpc' = "wait")
    <2>1. TypeOK /\ w \in Threads /\ w # Main
      BY DEF IInv, Main, Workers
    <2>2. CASE WorkerFinish(w)
      BY <2>1, <2>2 DEF WorkerFinish, SignalDone, contextVars, arenaVars, historyVars
    <2>3. CASE ~WorkerFinish(w)
      BY <2>1, <2>3 DEF WorkerStep, WorkerSleep, WorkerExit, WorkerTake, WorkerRun,
                        WorkerSpuriousWakeup, contextVars, arenaVars, mainVars, historyVars
    <2> QED
      BY <2>2, <2>3
  <1>2. \A t \in Threads : Share(t)' = Share(t)
    BY <1>1 DEF Share
  <1>3. Assigned' /\ Counters'
    BY <1>1, <1>2 DEF RunsInv, Assigned, InParallel, Slice, Counters
  <1>4. ASSUME NEW t \in Threads, t # Main, t # w PROVE DoneBy(t)' = DoneBy(t)
    <2>1. t \in Workers
      BY <1>4 DEF Threads, Main, Workers
    <2>2. ready_flag'[t] = ready_flag[t] /\ wpc'[t] = wpc[t] /\ wnext'[t] = wnext[t]
      BY <1>1, <1>4, <2>1
         DEF WorkerStep, WorkerSleep, WorkerExit, WorkerTake, WorkerRun, WorkerFinish,
             WorkerSpuriousWakeup, TypeOK, FlagType, ThreadType, flagVars
    <2> QED
      BY <1>1, <1>2, <1>4, <2>2 DEF DoneBy
  <1>5. DoneBy(Main)' = DoneBy(Main)
    BY <1>1 DEF DoneBy
  <1>6. CASE WorkerRun(w)
    <2>1. /\ InParallel /\ wwork[w] = call /\ ~ready_flag[w]
          /\ ~(mpc = "hand_out" /\ idx <= w) /\ wpc[w] = "run" /\ mpc' = mpc
          /\ ready_flag' = ready_flag /\ wpc' = wpc
          /\ wnext' = [wnext EXCEPT ![w] = @ + 1]
      BY <1>6, RunningWorker DEF WorkerRun, flagVars, mainVars
    <2>2. tasks[call] = batch /\ Slice(call, w) = Share(w) /\ call \in Arenas
      BY <2>1, SliceIsShare
    <2>3. DoneBy(w) = wnext[w] /\ DoneBy(w)' = DoneBy(w) + 1 /\ InParallel'
      BY <1>1, <2>1 DEF DoneBy, TypeOK, ThreadType, InParallel
    <2>4. DoneBy(w) < Share(w).count
      BY <1>6, <2>1, <2>2, <2>3 DEF WorkerRun
    <2>5. Execute(batch[Share(w).first + (DoneBy(w) + 1)])
      BY <1>6, <2>1, <2>2, <2>3 DEF WorkerRun, ItemOf
    <2>6. \A t \in Threads : t # w => DoneBy(t)' = DoneBy(t)
      BY <1>4, <1>5
    <2> QED
      BY <1>1, <1>3, <2>1, <2>2, <2>3, <2>4, <2>5, <2>6, OneMoreStep
  <1>7. CASE ~WorkerRun(w)
    <2>1. runs' = runs
      BY <1>7 DEF WorkerStep, WorkerSleep, WorkerExit, WorkerTake, WorkerFinish,
                  WorkerSpuriousWakeup, historyVars
    <2>2. CASE InParallel
      <3>1. InParallel'
        BY <1>1, <2>2 DEF InParallel
      <3>2. DoneBy(w)' = DoneBy(w)
        <4>1. CASE WorkerSleep(w) \/ WorkerExit(w) \/ WorkerSpuriousWakeup(w)
          <5>1. /\ ready_flag' = ready_flag /\ wpc[w] # "run" /\ wpc'[w] # "run"
            BY <1>1, <4>1 DEF WorkerSleep, WorkerExit, WorkerSpuriousWakeup, flagVars,
                              TypeOK, ThreadType
          <5> QED
            BY <1>1, <1>2, <5>1 DEF DoneBy
        <4>2. CASE WorkerTake(w)
          BY <1>1, <4>2 DEF WorkerTake, DoneBy, TypeOK, FlagType, ThreadType
        <4>3. CASE WorkerFinish(w)
          <5>1. /\ wwork[w] = call /\ ~ready_flag[w] /\ wpc[w] = "run"
                /\ ~(mpc = "hand_out" /\ idx <= w)
                /\ ready_flag' = ready_flag /\ wpc'[w] = "check"
                /\ wnext[w] = Slice(wwork[w], w).count
            BY <1>1, <4>3, RunningWorker DEF WorkerFinish, TypeOK, ThreadType
          <5>2. Slice(call, w) = Share(w)
            BY <2>2, <5>1, SliceIsShare
          <5> QED
            BY <1>1, <1>2, <5>1, <5>2 DEF DoneBy
        <4> QED
          BY <1>7, <4>1, <4>2, <4>3 DEF WorkerStep
      <3>3. \A t \in Threads : DoneBy(t)' = DoneBy(t)
        BY <1>4, <1>5, <3>2
      <3> QED
        BY <1>1, <1>3, <1>7, <2>1, <2>2, <3>1, <3>3, QuietStep
    <2>3. CASE ~InParallel
      <3>1. mpc' = mpc
        BY <1>1, <2>3 DEF InParallel
      <3>2. Calling' /\ Numbered' /\ NotYet'
        BY <1>1, <2>1, <3>1 DEF RunsInv, Calling, Numbered, NotYet, Ascending
      <3>3. BatchRuns'
        BY <1>1, <2>1, <2>3, <3>1 DEF RunsInv, BatchRuns, AllOrNothing, InParallel
      <3>4. AtMostOnce' /\ RoomForTasks'
        BY <1>1, <2>1 DEF RunsInv, AtMostOnce, RoomForTasks
      <3> QED
        BY <1>3, <1>7, <3>2, <3>3, <3>4 DEF RunsInv
    <2> QED
      BY <2>2, <2>3
  <1> QED
    BY <1>6, <1>7

(* The steps of the main thread between the entry of a call and its round,  *)
(* and in bc_concurrency_destroy: threads are created, stopped and joined,  *)
(* arrays grow.                                                             *)
LEMMA CreationSteps ==
  ASSUME RunsInv, \/ SpawnOne \/ SpawnOneFails \/ SpawnDone \/ StopOne \/ StopDone
                  \/ JoinOne \/ DoubleCapacity \/ DestroyDone
  PROVE  RunsInv' /\ UNCHANGED <<staging, submitted, runs, batch, call, result>>
  <1>1. /\ mpc \in Rolling /\ mpc' \in Rolling \cup {"destroyed"}
        /\ UNCHANGED <<staging, submitted, runs, batch, call, mnext, result>>
        /\ UNCHANGED <<tasks, dispatch_capacity>>
    BY DEF SpawnOne, SpawnOneFails, SpawnDone, StopOne, StopDone, JoinOne, DoubleCapacity,
           DestroyDone, GoTo, Continue, Rolling, contextVars, arenaVars, historyVars
  <1> QED
    BY <1>1, RollingStep

(* The four places where a call gives up: none comes after an item has run. *)
LEMMA FailureSteps ==
  ASSUME IInv, RunsInv, SpawnAttrFails \/ SpawnRolledBack \/ GrowFails \/ ForAllocFails
  PROVE  /\ RunsInv' /\ mpc \in Rolling /\ call \in Arenas
         /\ ReturnFromCall("failed") /\ UNCHANGED <<staging, submitted, runs>>
         /\ \A k \in 1 .. Len(batch) : runs[batch[k]] = 0
  <1>1. /\ mpc \in Rolling /\ ReturnFromCall("failed")
        /\ UNCHANGED <<staging, submitted, runs, tasks, dispatch_capacity>>
    BY DEF SpawnAttrFails, SpawnRolledBack, GrowFails, ForAllocFails, Rolling, contextVars,
           arenaVars
  <1>2. call \in Arenas
    BY <1>1 DEF SpawnAttrFails, SpawnRolledBack, GrowFails, ForAllocFails, IInv, Arenas,
                CallInProgress, TypeOK, MainType, RunsInv, Calling, Rolling
  <1>3. \A k \in 1 .. Len(batch) : runs[batch[k]] = 0
    BY <1>1, <1>2 DEF RunsInv, BatchRuns, Rolling
  <1> QED
    BY <1>1, <1>2, <1>3, FailedReturn

(* A call that has something to do begins.                                  *)
LEMMA EntrySteps ==
  ASSUME TypeOK, TypeOK', RunsInv,
         \/ DispatchInline \/ DispatchParallel
         \/ \E n \in 1 .. MaxItems - submitted : ForInline(n) \/ ForParallel(n)
  PROVE  RunsInv'
  <1>1. ASSUME NEW name, NEW items, mpc = "idle",
               EnterInline(name, items) \/ EnterParallel(name, items)
        PROVE  /\ mpc' \in {"inline", "spawn", "prepare"} /\ mnext' = mnext
               /\ call' = name /\ batch' = items
    BY <1>1 DEF EnterInline, EnterParallel
  <1>2. CASE DispatchInline \/ DispatchParallel
    BY <1>1, <1>2, EnterStep DEF DispatchInline, DispatchParallel, contextVars, arenaVars
  <1>3. ASSUME NEW n \in 1 .. MaxItems - submitted, ForInline(n) \/ ForParallel(n)
        PROVE  RunsInv'
    <2>1. /\ mpc' \in {"inline", "spawn", "prepare"} /\ call' = "for" /\ mpc = "idle"
          /\ UNCHANGED <<staging, runs, tasks, dispatch_capacity, mnext>>
          /\ batch' = NewItems(n) /\ submitted' = submitted + n
      BY <1>1, <1>3 DEF ForInline, ForParallel, contextVars, arenaVars
    <2>2. n \in Nat
      OBVIOUS
    <2> QED
      BY <2>1, <2>2, EnterStep
  <1> QED
    BY <1>2, <1>3

(* Each step keeps the invariant.                                           *)
LEMMA RunsStep == IInv /\ RunsInv /\ [Next]_vars => RunsInv'
  <1> SUFFICES ASSUME IInv, RunsInv, [Next]_vars PROVE RunsInv'
    OBVIOUS
  <1>1. TypeOK /\ TypeOK'
    BY TypeStep DEF IInv
  <1>2. ASSUME NEW n \in Nat, Push(n) PROVE RunsInv'
    BY <1>1, <1>2, PushStep
  <1>3. CASE ClientCall
    <2>1. CASE Submit \/ SubmitBatch
      BY <1>2, <2>1 DEF Submit, SubmitBatch
    <2> QED
      BY <1>1, <1>3, <2>1, NothingStep, EntrySteps, DestroyStep DEF ClientCall
  <1>4. CASE MainStep
    BY <1>1, <1>4, InlineSteps, InlineEnd, CreationSteps, FailureSteps, CutStep, HandOutSteps,
       ShareSteps, WaitSteps, ReturnStep DEF MainStep
  <1>5. ASSUME NEW w \in Workers, WorkerStep(w) PROVE RunsInv'
    BY <1>5, WorkerSteps
  <1>6. CASE SpuriousWakeup
    BY <1>6, WorkerSteps, WaitSteps DEF SpuriousWakeup
  <1>7. CASE UNCHANGED vars
    <2>1. /\ UNCHANGED <<staging, submitted, batch, call, result, mnext, idx, mpc, runs>>
          /\ UNCHANGED <<tasks, assignments, dispatch_capacity, ready_flag, wpc, wnext>>
      BY <1>7 DEF vars, contextVars, arenaVars, flagVars, threadVars, mainVars, historyVars
    <2>2. /\ Calling' /\ Numbered' /\ NotYet' /\ AtMostOnce' /\ RoomForTasks'
      BY <2>1 DEF RunsInv, Calling, Numbered, NotYet, Ascending, AtMostOnce, RoomForTasks
    <2>3. Assigned' /\ Counters'
      BY <2>1 DEF RunsInv, Assigned, Counters, InParallel, Slice, Share
    <2>4. BatchRuns'
      <3>1. Shares' = Shares /\ Done' = Done
        BY <2>1 DEF Shares, Share, Done, DoneBy
      <3> QED
        BY <2>1, <3>1 DEF RunsInv, BatchRuns, AllOrNothing, InParallel
    <2> QED
      BY <2>2, <2>3, <2>4 DEF RunsInv
  <1> QED
    BY <1>3, <1>4, <1>5, <1>6, <1>7 DEF Next, Destroyed

(****************************************************************************)
(* The theorems.                                                            *)
(****************************************************************************)
BothInvs == IInv /\ RunsInv

(* Both invariants hold in every state.                                     *)
LEMMA BothInvariant == Spec => []BothInvs
  <1>1. Init => BothInvs
    BY IInvInit, RunsInit DEF BothInvs
  <1>2. BothInvs /\ [Next]_vars => BothInvs'
    BY IInvStep, RunsStep DEF BothInvs
  <1> QED
    BY <1>1, <1>2, PTL DEF Spec

(* At every point of a call each item of its batch has run once if a thread *)
(* is past it in its share and not at all otherwise, whichever way the      *)
(* threads are scheduled; the items of later calls have not run.            *)
THEOREM RunsInvariance == Spec => []RunsInv
  <1>1. BothInvs => RunsInv
    BY DEF BothInvs
  <1> QED
    BY BothInvariant, <1>1, PTL

(* dispatch_and_wait and bc_concurrency_for return true only when every     *)
(* item of the call has run, and false only when none has.                  *)
THEOREM AllOrNone == Spec => []AllOrNothing
  <1>1. BothInvs => AllOrNothing
    BY DEF BothInvs, RunsInv, BatchRuns
  <1> QED
    BY BothInvariant, <1>1, PTL

(* No task and no iteration is run a second time: not by two workers whose  *)
(* slices overlap, not by a worker that takes the same work twice, not by a *)
(* dispatch that is tried again after one that failed.                      *)
THEOREM NeverTwice == Spec => []AtMostOnce
  <1>1. BothInvs => AtMostOnce
    BY DEF BothInvs, RunsInv
  <1> QED
    BY BothInvariant, <1>1, PTL

(* No thread reads past the end of the array its slice points into, and     *)
(* dispatch_tasks is large enough for what is copied into it.               *)
THEOREM WithinArrays == Spec => []NoOverrun
  <1>1. ASSUME BothInvs PROVE NoOverrun
    <2>1. TypeOK /\ RoomForTasks /\ Assigned
      BY <1>1 DEF BothInvs, IInv, RunsInv
    <2>2. ASSUME InParallel, NEW t \in Threads,
                 call = "dispatch" \/ t < idx \/ mpc # "hand_out"
          PROVE  Slice(call, t).first + Slice(call, t).count <= Len(tasks[call])
      <3>1. tasks[call] = batch /\ Slice(call, t) = Share(t)
        BY <2>1, <2>2 DEF Assigned
      <3> QED
        BY <2>1, <3>1, ShareNat
    <2> QED
      BY <2>1, <2>2 DEF NoOverrun, InParallel, RoomForTasks
  <1> QED
    BY BothInvariant, <1>1, PTL

(****************************************************************************)
(* The refinement: every step of the pool is a step of BatchExecutor, or    *)
(* changes nothing that BatchExecutor shows.                                *)
(****************************************************************************)
LEMMA ExecutorInit == Init => Executor!Init
  BY DEF Init, Executor!Init, Phase, None, Executor!None, Items, Executor!Items

(* The client's calls.                                                      *)
LEMMA ExecutorPush ==
  ASSUME TypeOK, NEW n \in Nat, Push(n)
  PROVE  [Executor!Next]_Executor!vars
  <1>1. Executor!NewItems(n) = NewItems(n)
    BY DEF Executor!NewItems, NewItems
  <1>2. /\ mpc = "idle" /\ mpc' = mpc /\ submitted + n <= MaxItems /\ submitted \in Nat
        /\ staging \in Seq(Items)
        /\ staging' = staging \o NewItems(n) /\ submitted' = submitted + n
        /\ UNCHANGED <<call, batch, runs, result>>
    BY DEF Push, mainVars, TypeOK, HistoryType, ContextType
  <1>3. Phase = "idle" /\ Phase' = Phase
    BY <1>2 DEF Phase
  <1>4. CASE n = 0
    <2>1. NewItems(n) = << >>
      BY <1>4 DEF NewItems
    <2>2. staging' = staging /\ submitted' = submitted
      BY <1>2, <1>4, <2>1
    <2> QED
      BY <1>2, <1>3, <2>2 DEF Executor!vars
  <1>5. CASE n # 0
    <2>1. n \in Executor!Items
      BY <1>2, <1>5, PoolAssumption DEF Executor!Items
    <2>2. Executor!Stage(n)
      BY <1>1, <1>2, <1>3 DEF Executor!Stage
    <2> QED
      BY <2>1, <2>2 DEF Executor!Next
  <1> QED
    BY <1>4, <1>5

(* The steps that begin a call are those of the executor.                   *)
LEMMA ExecutorEntry ==
  ASSUME TypeOK,
         \/ DispatchNothing \/ DispatchInline \/ DispatchParallel \/ Destroy
         \/ \E n \in 1 .. MaxItems - submitted : ForInline(n) \/ ForParallel(n)
  PROVE  Executor!Next
  <1>1. CASE DispatchNothing
    <2>1. Executor!DispatchNothing
      BY <1>1 DEF DispatchNothing, Executor!DispatchNothing, Phase, contextVars
    <2> QED
      BY <2>1 DEF Executor!Next
  <1>2. CASE Destroy
    <2>1. Executor!Destroy
      BY <1>2 DEF Destroy, Executor!Destroy, Phase, contextVars, historyVars
    <2> QED
      BY <2>1 DEF Executor!Next
  <1>3. CASE DispatchInline \/ DispatchParallel
    <2>1. Executor!Dispatch
      <3>1. CASE DispatchInline
        BY <3>1 DEF DispatchInline, EnterInline, Executor!Dispatch, Phase, contextVars, None,
                    Executor!None
      <3>2. CASE DispatchParallel
        BY <3>2 DEF DispatchParallel, EnterParallel, Executor!Dispatch, Phase, contextVars, None,
                    Executor!None
      <3> QED
        BY <1>3, <3>1, <3>2
    <2> QED
      BY <2>1 DEF Executor!Next
  <1>4. ASSUME NEW n \in 1 .. MaxItems - submitted, ForInline(n) \/ ForParallel(n)
        PROVE  Executor!Next
    <2>1. n \in Executor!Items /\ submitted + n <= MaxItems
      BY PoolAssumption DEF Executor!Items, TypeOK, HistoryType
    <2>2. Executor!NewItems(n) = NewItems(n)
      BY DEF Executor!NewItems, NewItems
    <2>3. /\ mpc = "idle" /\ mpc' \in {"inline", "spawn", "prepare"} /\ call' = "for"
          /\ batch' = NewItems(n) /\ submitted' = submitted + n /\ result' = None
          /\ UNCHANGED <<staging, runs>>
      BY <1>4 DEF ForInline, ForParallel, EnterInline, EnterParallel, contextVars
    <2>4. Executor!For(n)
      BY <2>1, <2>2, <2>3 DEF Executor!For, Phase, None, Executor!None
    <2> QED
      BY <2>1, <2>4 DEF Executor!Next
  <1> QED
    BY <1>1, <1>2, <1>3, <1>4

(* An item runs.                                                            *)
LEMMA ExecutorRun ==
  ASSUME TypeOK, RunsOne, UNCHANGED <<mpc, staging, call, batch, submitted, result>>,
         mpc \notin {"idle", "destroyed"}
  PROVE  Executor!Next
  <1>1. PICK k \in 1 .. Len(batch) :
          runs[batch[k]] = 0 /\ runs' = [runs EXCEPT ![batch[k]] = 1]
    BY DEF RunsOne
  <1>2. batch[k] \in Executor!Items
    BY DEF TypeOK, MainType, Items, Executor!Items
  <1>3. Executor!Run(batch[k])
    BY <1>1 DEF Executor!Run, Executor!Members, Phase
  <1> QED
    BY <1>2, <1>3 DEF Executor!Next

(* A call returns.                                                          *)
LEMMA ExecutorTrue ==
  ASSUME call \in Arenas, mpc \notin {"idle", "destroyed"}, ReturnFromCall("ok"),
         \A k \in 1 .. Len(batch) : runs[batch[k]] = 1,
         staging' = (IF call = "dispatch" THEN <<>> ELSE staging),
         UNCHANGED <<submitted, runs>>
  PROVE  Executor!Next
  <1>1. Executor!ReturnTrue
    BY DEF ReturnFromCall, Executor!ReturnTrue, Executor!Members, Phase, Arenas, None,
           Executor!None
  <1> QED
    BY <1>1 DEF Executor!Next

(* A call that returns false is one of the executor: nothing has run.       *)
LEMMA ExecutorFalse ==
  ASSUME IInv, RunsInv, SpawnAttrFails \/ SpawnRolledBack \/ GrowFails \/ ForAllocFails
  PROVE  Executor!Next
  <1>1. Executor!ReturnFalse
    BY FailureSteps
       DEF ReturnFromCall, Executor!ReturnFalse, Executor!Members, Phase, Arenas, None,
           Executor!None, Rolling
  <1> QED
    BY <1>1 DEF Executor!Next

(* Each step of the pool is a step of the executor, or none.                *)
LEMMA ExecutorStep ==
  IInv /\ RunsInv /\ [Next]_vars => [Executor!Next]_Executor!vars
  <1> SUFFICES ASSUME IInv, RunsInv, [Next]_vars
               PROVE  [Executor!Next]_Executor!vars
    OBVIOUS
  <1>1. TypeOK /\ TypeOK'
    BY TypeStep DEF IInv
  <1>2. ASSUME UNCHANGED <<staging, call, batch, submitted, runs, result>>,
               \/ mpc' = mpc
               \/ mpc \notin {"idle", "destroyed"} /\ mpc' \notin {"idle", "destroyed"}
        PROVE  UNCHANGED Executor!vars
    <2>1. Phase' = Phase
      BY <1>2 DEF Phase
    <2> QED
      BY <1>2, <2>1 DEF Executor!vars
  <1>3. CASE ClientCall
    <2>1. CASE Submit \/ SubmitBatch
      BY <1>1, <2>1, ExecutorPush DEF Submit, SubmitBatch
    <2> QED
      BY <1>1, <1>3, <2>1, ExecutorEntry DEF ClientCall
  <1>4. CASE InlineStep
    <2>1. RunsOne
      BY <1>1, <1>4, InlineSteps
    <2> QED
      BY <1>1, <1>4, <2>1, ExecutorRun DEF InlineStep, contextVars
  <1>5. CASE InlineDone
    <2>1. call \in Arenas /\ \A k \in 1 .. Len(batch) : runs[batch[k]] = 1
      BY <1>1, <1>5, InlineEnd DEF InlineDone, RunsInv, Calling
    <2>2. staging' = (IF call = "dispatch" THEN <<>> ELSE staging)
      BY <1>5 DEF InlineDone, ClearStaging
    <2> QED
      BY <1>5, <2>1, <2>2, ExecutorTrue DEF InlineDone
  <1>6. CASE SpawnAttrFails \/ SpawnRolledBack \/ GrowFails \/ ForAllocFails
    BY <1>6, ExecutorFalse
  <1>7. CASE \/ SpawnOne \/ SpawnOneFails \/ SpawnDone \/ StopOne \/ StopDone
             \/ JoinOne \/ DoubleCapacity
    <2>1. /\ UNCHANGED <<staging, submitted, runs, batch, call, result>>
      BY <1>7, CreationSteps
    <2>2. mpc \notin {"idle", "destroyed"} /\ mpc' \notin {"idle", "destroyed"}
      BY <1>7 DEF SpawnOne, SpawnOneFails, SpawnDone, StopOne, StopDone, JoinOne,
                  DoubleCapacity, GoTo, Continue
    <2> QED
      BY <1>2, <2>1, <2>2
  <1>8. CASE DestroyDone
    <2>1. Executor!Close
      BY <1>8 DEF DestroyDone, GoTo, Executor!Close, Phase, contextVars, historyVars
    <2> QED
      BY <2>1 DEF Executor!Next
  <1>9. CASE \/ CopyAndCut \/ ForAlloc
             \/ HandOutDispatch \/ HandOutNothing \/ HandOutChunk \/ HandOutDone
             \/ ShareDone \/ WaitDone \/ WaitSleep \/ WaitSpuriousWakeup
    <2>1. /\ UNCHANGED <<staging, submitted, runs, batch, call, result>>
          /\ mpc \notin {"idle", "destroyed"} /\ mpc' \notin {"idle", "destroyed"}
      BY <1>9 DEF CopyAndCut, ForAlloc, HandOutDispatch, HandOutNothing, HandOutChunk,
                  HandOutDone, ShareDone, WaitDone, WaitSleep, WaitSpuriousWakeup, GoTo,
                  Continue, contextVars, historyVars
    <2> QED
      BY <1>2, <2>1
  <1>10. CASE ShareStep
    <2>1. RunsOne
      BY <1>10, ShareSteps
    <2> QED
      BY <1>1, <1>10, <2>1, ExecutorRun DEF ShareStep, contextVars
  <1>11. CASE ReturnParallel
    <2>1. call \in Arenas /\ \A k \in 1 .. Len(batch) : runs[batch[k]] = 1
      BY <1>11, ReturnStep DEF ReturnParallel, IInv, CallInProgress, InParallel
    <2>2. staging' = (IF call = "dispatch" THEN <<>> ELSE staging)
      BY <1>11 DEF ReturnParallel, ClearStaging
    <2> QED
      BY <1>11, <2>1, <2>2, ExecutorTrue DEF ReturnParallel
  <1>12. ASSUME NEW w \in Workers, WorkerStep(w) \/ WorkerSpuriousWakeup(w)
         PROVE  [Executor!Next]_Executor!vars
    <2>1. CASE WorkerRun(w)
      <3>1. RunsOne
        BY <1>12, WorkerSteps, <2>1
      <3>2. /\ UNCHANGED <<mpc, staging, call, batch, submitted, result>>
            /\ mpc \notin {"idle", "destroyed"}
        BY <2>1, RunningWorker DEF WorkerRun, InParallel, contextVars, mainVars
      <3> QED
        BY <1>1, <3>1, <3>2, ExecutorRun
    <2>2. CASE WorkerFinish(w)
      BY <1>2, <2>2 DEF WorkerFinish, SignalDone, contextVars, historyVars
    <2>3. CASE \/ WorkerSleep(w) \/ WorkerExit(w) \/ WorkerTake(w) \/ WorkerSpuriousWakeup(w)
      BY <1>2, <2>3 DEF WorkerSleep, WorkerExit, WorkerTake, WorkerSpuriousWakeup,
                        contextVars, mainVars, historyVars
    <2> QED
      BY <1>12, <2>1, <2>2, <2>3 DEF WorkerStep
  <1>13. CASE UNCHANGED vars
    BY <1>2, <1>13 DEF vars, contextVars, mainVars, historyVars
  <1> QED
    BY <1>3, <1>4, <1>5, <1>6, <1>7, <1>8, <1>9, <1>10, <1>11, <1>12, <1>13
       DEF Next, MainStep, SpuriousWakeup, Destroyed

(* The pool does what bc_concurrency.h promises: seen through its return    *)
(* values and the tasks it has run, it cannot be told from an executor that *)
(* has no threads.                                                          *)
THEOREM Implementation == Spec => ImplementsExecutor
  <1>1. BothInvs /\ [Next]_vars => [Executor!Next]_Executor!vars
    BY ExecutorStep DEF BothInvs
  <1> QED
    BY BothInvariant, ExecutorInit, <1>1, PTL DEF Spec, ImplementsExecutor, Executor!Spec

(* The staging array only shrinks when all its tasks have run: a dispatch   *)
(* that fails, a parallel for or a later submit leave them staged.          *)
THEOREM NothingDropped == Spec => NoTaskDropped
  <1>1. ASSUME BothInvs, [Executor!Next]_Executor!vars, NEW k \in 1 .. Len(staging)
        PROVE  \/ runs[staging[k]] = 1
               \/ k <= Len(staging') /\ staging'[k] = staging[k]
    <2>1. CASE staging' = staging
      BY <1>1, <2>1 DEF BothInvs, IInv, TypeOK, ContextType
    <2>2. ASSUME NEW n \in Executor!Items, Executor!Stage(n)
          PROVE  k <= Len(staging') /\ staging'[k] = staging[k]
      <3> DEFINE new == Executor!NewItems(n)
      <3>1. new \in Seq(Nat) /\ staging \in Seq(Nat)
        <4>1. submitted \in Nat /\ n \in Nat
          BY <1>1 DEF BothInvs, IInv, TypeOK, HistoryType, Executor!Items
        <4>2. new \in Seq(Nat)
          BY <4>1 DEF Executor!NewItems
        <4>3. staging \in Seq(Nat)
          BY <1>1 DEF BothInvs, IInv, TypeOK, ContextType, Items
        <4> QED
          BY <4>2, <4>3
      <3>2. staging' = staging \o new
        BY <2>2 DEF Executor!Stage
      <3> HIDE DEF new
      <3>3. Len(staging') = Len(staging) + Len(new) /\ Len(new) \in Nat
        BY <3>1, <3>2, ConcatProperties
      <3>4. Len(staging) \in Nat
        BY <3>1
      <3>5. staging'[k] = staging[k]
        BY <3>1, <3>2, ConcatProperties
      <3> QED
        BY <3>3, <3>4, <3>5
    <2>3. CASE Executor!ReturnTrue /\ call = "dispatch"
      <3>1. batch = staging
        BY <2>3, <1>1 DEF BothInvs, RunsInv, Numbered
      <3>2. staging[k] \in Executor!Members(batch)
        BY <3>1 DEF Executor!Members
      <3> QED
        BY <2>3, <3>2 DEF Executor!ReturnTrue
    <2> QED
      BY <1>1, <2>1, <2>2, <2>3
      DEF Executor!Next, Executor!vars, Executor!DispatchNothing, Executor!Dispatch,
          Executor!For, Executor!Run, Executor!ReturnTrue, Executor!ReturnFalse,
          Executor!Destroy, Executor!Close
  <1>2. BothInvs /\ [Next]_vars =>
          \A k \in 1 .. Len(staging) :
            \/ runs[staging[k]] = 1
            \/ k <= Len(staging') /\ staging'[k] = staging[k]
    BY <1>1, ExecutorStep DEF BothInvs
  <1> QED
    BY BothInvariant, <1>2, PTL DEF Spec, NoTaskDropped

(****************************************************************************)
(* tls_worker: the entry of the main thread and those of the workers.       *)
(****************************************************************************)
MainEntry ==
  tls_worker[Main] =
    IF mpc = "inline" \/ (mpc = "share" /\ Slice(call, Main).count > 0)
    THEN Main ELSE NoWorker

WorkerEntry(w) == tls_worker[w] = IF wpc[w] = "run" THEN w ELSE NoWorker

(* A thread is the main thread or a worker.                                 *)
LEMMA MainOrWorker ==
  /\ Main \in Threads
  /\ \A w \in Workers : w \in Threads /\ w # Main /\ w # NoWorker
  /\ \A t \in Threads : t # Main => t \in Workers
  BY DEF Main, Threads, Workers, NoWorker

(* OwnEntry, thread by thread.                                              *)
LEMMA TwoKindsOfEntry ==
  OwnEntry <=> MainEntry /\ \A w \in Workers : WorkerEntry(w)
  BY MainOrWorker DEF OwnEntry, MainEntry, WorkerEntry

(* tls_worker changes with the program counters, at the ends of a task.     *)
LEMMA EntryStep == IInv /\ OwnEntry /\ [Next]_vars => OwnEntry'
  <1> SUFFICES ASSUME IInv, OwnEntry, [Next]_vars
               PROVE  MainEntry' /\ \A w \in Workers : WorkerEntry(w)'
    BY MainOrWorker DEF OwnEntry, MainEntry, WorkerEntry
  <1>1. /\ TypeOK /\ tls_worker \in [Threads -> Threads \cup {NoWorker}]
        /\ wpc \in [Workers -> {"absent", "check", "asleep", "run", "exited"}]
        /\ Main \in Threads /\ \A w \in Workers : w \in Threads /\ w # Main
    BY MainOrWorker DEF IInv, TypeOK, ThreadType
  <1>2. MainEntry /\ \A w \in Workers : WorkerEntry(w)
    BY TwoKindsOfEntry
  <1>3. ASSUME UNCHANGED <<tls_worker, wpc>>,
               mpc \notin {"inline", "share"}, mpc' \notin {"inline", "share"}
        PROVE  MainEntry' /\ \A w \in Workers : WorkerEntry(w)'
    BY <1>2, <1>3 DEF MainEntry, WorkerEntry
  <1>4. CASE \/ Submit \/ SubmitBatch \/ DispatchNothing \/ DispatchParallel \/ Destroy
             \/ \E n \in 1 .. MaxItems - submitted : ForParallel(n)
             \/ SpawnAttrFails \/ SpawnOneFails \/ SpawnDone \/ StopDone \/ SpawnRolledBack
             \/ DoubleCapacity \/ GrowFails \/ CopyAndCut \/ ForAllocFails \/ ForAlloc
             \/ HandOutNothing \/ WaitDone \/ WaitSleep \/ WaitSpuriousWakeup
             \/ ReturnParallel \/ DestroyDone
    <2>1. /\ UNCHANGED <<tls_worker, wpc>>
          /\ mpc \notin {"inline", "share"} /\ mpc' \notin {"inline", "share"}
      BY <1>4
      DEF Submit, SubmitBatch, Push, DispatchNothing, DispatchParallel, EnterParallel, Destroy,
          ForParallel, SpawnAttrFails, SpawnOneFails, SpawnDone, StopDone, SpawnRolledBack,
          DoubleCapacity, GrowFails, CopyAndCut, ForAllocFails, ForAlloc, HandOutNothing,
          WaitDone, WaitSleep, WaitSpuriousWakeup, ReturnParallel, DestroyDone, GoTo,
          Continue, ReturnFromCall, threadVars, mainVars
    <2> QED
      BY <1>3, <2>1
  <1>5. CASE DispatchInline \/ \E n \in 1 .. MaxItems - submitted : ForInline(n)
    <2>1. /\ mpc' = "inline" /\ wpc' = wpc
          /\ tls_worker' = [tls_worker EXCEPT ![Main] = Main]
      BY <1>5 DEF DispatchInline, ForInline, EnterInline, threadVars
    <2> QED
      BY <1>1, <1>2, <2>1 DEF MainEntry, WorkerEntry
  <1>6. CASE InlineStep \/ ShareStep
    BY <1>2, <1>6 DEF InlineStep, ShareStep, threadVars, arenaVars, MainEntry, WorkerEntry, Slice
  <1>7. CASE InlineDone \/ ShareDone
    <2>1. /\ mpc' \notin {"inline", "share"} /\ wpc' = wpc
          /\ tls_worker' = [tls_worker EXCEPT ![Main] = NoWorker]
      BY <1>7 DEF InlineDone, ShareDone, ReturnFromCall, GoTo, threadVars
    <2> QED
      BY <1>1, <1>2, <2>1 DEF MainEntry, WorkerEntry
  <1>8. CASE HandOutDone
    <2>1. /\ mpc = "hand_out" /\ mpc' = "share" /\ UNCHANGED <<call, assignments, wpc>>
          /\ tls_worker' = [tls_worker EXCEPT
                              ![Main] = IF Slice(call, Main).count > 0 THEN Main ELSE @]
      BY <1>8 DEF HandOutDone, GoTo, threadVars, arenaVars
    <2>2. MainEntry'
      BY <1>1, <1>2, <2>1 DEF MainEntry, Slice
    <2>3. \A w \in Workers : WorkerEntry(w)'
      BY <1>1, <1>2, <2>1 DEF WorkerEntry
    <2> QED
      BY <2>2, <2>3
  <1>9. CASE SpawnOne \/ StopOne \/ JoinOne \/ HandOutDispatch \/ HandOutChunk
    <2>1. /\ mpc \notin {"inline", "share"} /\ mpc' \notin {"inline", "share"}
          /\ tls_worker' = tls_worker
      BY <1>9 DEF SpawnOne, StopOne, JoinOne, HandOutDispatch, HandOutChunk, Continue
    <2>2. ASSUME NEW w \in Workers PROVE wpc'[w] = "run" <=> wpc[w] = "run"
      <3>1. CASE SpawnOne
        <4>1. wpc[idx] = "absent"
          <5>1. idx \in Workers /\ threads_started = idx
            BY <3>1 DEF SpawnOne, IInv, ThreadsExist, TypeOK, MainType, Workers
          <5> QED
            BY <3>1, <5>1 DEF SpawnOne, IInv, ThreadsExist, Workers
        <4> QED
          BY <1>1, <3>1, <4>1 DEF SpawnOne
      <3>2. CASE JoinOne
        BY <1>1, <3>2 DEF JoinOne
      <3>3. CASE StopOne \/ HandOutDispatch \/ HandOutChunk
        <4>1. SignalReady(idx)
          BY <3>3 DEF StopOne, HandOutDispatch, HandOutChunk, DispatchToWorker
        <4> QED
          BY <1>1, <4>1 DEF SignalReady
      <3> QED
        BY <1>9, <3>1, <3>2, <3>3
    <2>3. MainEntry'
      BY <1>2, <2>1 DEF MainEntry
    <2>4. \A w \in Workers : WorkerEntry(w)'
      BY <1>2, <2>1, <2>2 DEF WorkerEntry
    <2> QED
      BY <2>3, <2>4
  <1>10. ASSUME NEW w \in Workers, WorkerStep(w) \/ WorkerSpuriousWakeup(w)
         PROVE  MainEntry' /\ \A v \in Workers : WorkerEntry(v)'
    <2>1. /\ mpc' = mpc \/ (mpc = "asleep" /\ mpc' = "wait")
          /\ UNCHANGED <<call, assignments>>
      <3>1. CASE WorkerFinish(w)
        BY <3>1 DEF WorkerFinish, SignalDone, arenaVars
      <3>2. CASE ~WorkerFinish(w)
        BY <1>10, <3>2 DEF WorkerStep, WorkerSleep, WorkerExit, WorkerTake, WorkerRun,
                           WorkerSpuriousWakeup, mainVars, arenaVars
      <3> QED
        BY <3>1, <3>2
    <2>2. /\ tls_worker'[Main] = tls_worker[Main]
          /\ \A v \in Workers : v # w => tls_worker'[v] = tls_worker[v] /\ wpc'[v] = wpc[v]
      BY <1>1, <1>10 DEF WorkerStep, WorkerSleep, WorkerExit, WorkerTake, WorkerRun,
                         WorkerFinish, WorkerSpuriousWakeup
    <2>3. WorkerEntry(w)'
      BY <1>1, <1>2, <1>10 DEF WorkerStep, WorkerSleep, WorkerExit, WorkerTake, WorkerRun,
                         WorkerFinish, WorkerSpuriousWakeup, WorkerEntry
    <2>4. MainEntry'
      BY <1>2, <2>1, <2>2 DEF MainEntry, Slice
    <2> QED
      BY <1>2, <2>2, <2>3, <2>4 DEF WorkerEntry
  <1>11. CASE UNCHANGED vars
    BY <1>2, <1>11 DEF vars, threadVars, mainVars, arenaVars, MainEntry, WorkerEntry, Slice
  <1> QED
    BY <1>4, <1>5, <1>6, <1>7, <1>8, <1>9, <1>10, <1>11
       DEF Next, ClientCall, MainStep, SpuriousWakeup, Destroyed

(* worker_index, worker_memory and worker_slot answer, in a task, with the  *)
(* entry of the thread it runs on, and so never with the same entry in two  *)
(* tasks that run at the same time; outside a task there is no entry.       *)
THEOREM EntryOfOwn == Spec => []OwnEntry
  <1>1. Init => OwnEntry
    BY MainOrWorker DEF Init, OwnEntry
  <1> QED
    BY Invariance, <1>1, EntryStep, PTL DEF Spec
=============================================================================
