-------------------------- MODULE MpmcQueueProofs ---------------------------
(****************************************************************************)
(* Theorems about the queue, for every set of threads, every set of         *)
(* elements and every capacity from 2 up.  With capacity 1, which           *)
(* bc_concurrency_queue_create accepts, "published" and "free for the next  *)
(* position" are the same sequence number and the theorems are false:       *)
(* MCMpmcQueueOne.cfg has the counterexample.                               *)
(****************************************************************************)
EXTENDS MpmcQueue, SequenceTheorems, TLAPS

USE QueueAssumption

(* A position is some number of laps and then its slot, ...                 *)
LEMMA Laps ==
  ASSUME NEW p \in Nat
  PROVE  /\ Slot(p) \in Nat /\ Slot(p) < Capacity /\ Slot(p) \in Slots
         /\ \E a \in Nat : Capacity * a \in Nat /\ p = Capacity * a + Slot(p)
  <1>1. /\ p \div Capacity \in Nat /\ Slot(p) \in 0 .. Capacity - 1
        /\ p = Capacity * (p \div Capacity) + Slot(p)
    BY SMT DEF Slot
  <1>2. PICK a \in Nat : a = p \div Capacity
    BY <1>1
  <1>3. Capacity * a \in Nat
    BY SMT
  <1>4. p = Capacity * a + Slot(p)
    BY <1>1, <1>2
  <1>5. Slot(p) \in Nat /\ Slot(p) < Capacity /\ Slot(p) \in Slots
    BY <1>1 DEF Slots
  <1> QED
    BY <1>3, <1>4, <1>5

(* Multiples of the capacity are at least the capacity apart.               *)
LEMMA LapsApart ==
  ASSUME NEW a \in Nat, NEW b \in Nat, a < b
  PROVE  Capacity * b >= Capacity * a + Capacity
  <1>1. PICK d \in Nat : b = a + 1 + d
    <2>1. b - a - 1 \in Nat /\ b = a + 1 + (b - a - 1)
      OBVIOUS
    <2> QED
      BY <2>1
  <1>2. Capacity * b = Capacity * a + Capacity + Capacity * d
    BY <1>1, SMT
  <1>3. Capacity * d \in Nat /\ Capacity * a \in Nat
    BY SMT
  <1> QED
    BY <1>2, <1>3

(* ... in one way only.                                                     *)
LEMMA LapUnique ==
  ASSUME NEW p \in Nat, NEW a \in Nat, NEW s \in Slots, p = Capacity * a + s
  PROVE  Slot(p) = s
  <1>1. PICK b \in Nat : Capacity * b \in Nat /\ p = Capacity * b + Slot(p)
    BY Laps
  <1>2. /\ Slot(p) \in Nat /\ Slot(p) < Capacity
        /\ s \in Nat /\ s < Capacity /\ Capacity * a \in Nat
    BY Laps, SMT DEF Slots
  <1>3. CASE a < b
    BY <1>1, <1>2, <1>3, LapsApart
  <1>4. CASE b < a
    BY <1>1, <1>2, <1>4, LapsApart
  <1>5. CASE a = b
    BY <1>1, <1>2, <1>5
  <1> QED
    BY <1>3, <1>4, <1>5

(* A slot comes back a lap later.                                           *)
LEMMA SlotNextLap ==
  ASSUME NEW p \in Nat
  PROVE  Slot(p + Capacity) = Slot(p)
  <1>1. PICK a \in Nat : Capacity * a \in Nat /\ p = Capacity * a + Slot(p)
    BY Laps
  <1>2. a + 1 \in Nat /\ Capacity * (a + 1) = Capacity * a + Capacity
    BY SMT
  <1>3. p + Capacity \in Nat /\ Slot(p) \in Nat /\ Slot(p) \in Slots
    BY Laps
  <1>4. p + Capacity = Capacity * (a + 1) + Slot(p)
    BY <1>1, <1>2, <1>3
  <1> QED
    BY <1>2, <1>3, <1>4, LapUnique

(* Positions less than a lap apart fall on different slots.                 *)
LEMMA SlotApart ==
  ASSUME NEW p \in Nat, NEW q \in Nat, p < q, q < p + Capacity
  PROVE  Slot(p) # Slot(q)
  <1>1. PICK a \in Nat : Capacity * a \in Nat /\ p = Capacity * a + Slot(p)
    BY Laps
  <1>2. PICK b \in Nat : Capacity * b \in Nat /\ q = Capacity * b + Slot(q)
    BY Laps
  <1>3. Slot(p) \in Nat /\ Slot(q) \in Nat
    BY Laps
  <1>4. a < b => Capacity * b >= Capacity * a + Capacity
    BY LapsApart
  <1>5. b < a => Capacity * a >= Capacity * b + Capacity
    BY LapsApart
  <1> QED
    BY <1>1, <1>2, <1>3, <1>4, <1>5

(* Each slot is that of one of any Capacity consecutive positions; for a    *)
(* position that is not later than these, that is itself or laps later.     *)
LEMMA SlotInWindow ==
  ASSUME NEW d \in Nat, NEW p \in Nat, p < d + Capacity
  PROVE  \E q \in d .. d + Capacity - 1 :
           Slot(q) = Slot(p) /\ (q = p \/ q >= p + Capacity)
  <1>1. PICK a \in Nat : Capacity * a \in Nat /\ d = Capacity * a + Slot(d)
    BY Laps
  <1>2. a + 1 \in Nat /\ Capacity * (a + 1) = Capacity * a + Capacity
    BY SMT
  <1>3. /\ Slot(d) \in Nat /\ Slot(d) < Capacity
        /\ Slot(p) \in Nat /\ Slot(p) < Capacity /\ Slot(p) \in Slots
    BY Laps
  <1>4. PICK q \in d .. d + Capacity - 1 : Slot(q) = Slot(p)
    <2>1. CASE Slot(p) >= Slot(d)
      <3>1. PICK q \in Nat : q = Capacity * a + Slot(p)
        BY <1>1, <1>3
      <3>2. q \in d .. d + Capacity - 1
        BY <1>1, <1>3, <2>1, <3>1
      <3> QED
        BY <1>3, <3>1, <3>2, LapUnique
    <2>2. CASE Slot(p) < Slot(d)
      <3>1. PICK q \in Nat : q = Capacity * (a + 1) + Slot(p)
        BY <1>1, <1>2, <1>3
      <3>2. q \in d .. d + Capacity - 1
        BY <1>1, <1>2, <1>3, <2>2, <3>1
      <3> QED
        BY <1>2, <1>3, <3>1, <3>2, LapUnique
    <2> QED
      BY <1>3, <2>1, <2>2
  <1>5. q \in Nat
    BY <1>4
  <1>6. CASE p < d
    BY <1>4, <1>5, <1>6, SlotApart
  <1>7. CASE p >= d /\ p # q
    BY <1>4, <1>5, <1>7, SlotApart
  <1> QED
    BY <1>4, <1>5, <1>6, <1>7
-----------------------------------------------------------------------------
(****************************************************************************)
(* The inductive invariant.  A position p in                                *)
(* dequeue_position .. enqueue_position - 1 is held: its push is under way, *)
(* or its element can be popped.  The next ones, up to a lap after          *)
(* dequeue_position, are free: the pop of the position a lap before is      *)
(* under way, or they can be pushed.                                        *)
(****************************************************************************)
Pushing(t) == pc[t] \in {"push_load", "push_inspect", "push_cas"}

Ready(p) == sequence[Slot(p)] = p + 1 /\ data[Slot(p)] = pushed[p + 1]

Counts ==
  /\ Len(pushed) = enqueue_position
  /\ dequeue_position <= enqueue_position
  /\ enqueue_position <= dequeue_position + Capacity

(* What a thread loaded is not ahead of the queue, and when the value its   *)
(* compare-exchange expects is the current one, what it saw of the slot is  *)
(* still so.                                                                *)
Loaded(t) ==
  /\ Pushing(t) \/ Writing(t) => item[t] \in Items
  /\ pc[t] \in {"push_inspect", "push_cas"} => position[t] <= enqueue_position
  /\ pc[t] \in {"pop_inspect", "pop_cas"} => position[t] <= dequeue_position
  /\ pc[t] = "push_cas" /\ position[t] = enqueue_position
       => sequence[Slot(position[t])] = position[t]
  /\ pc[t] = "pop_cas" /\ position[t] = dequeue_position
       => sequence[Slot(position[t])] = position[t] + 1

(* A push between its compare-exchange and its return.                      *)
Writer(t) ==
  Writing(t) =>
    /\ dequeue_position <= position[t] /\ position[t] < enqueue_position
    /\ sequence[Slot(position[t])] = position[t]
    /\ item[t] = pushed[position[t] + 1]
    /\ pc[t] = "publish" => data[Slot(position[t])] = item[t]

(* A pop between its compare-exchange and its return.                       *)
Reader(t) ==
  Reading(t) =>
    /\ position[t] < dequeue_position
    /\ enqueue_position <= position[t] + Capacity
    /\ sequence[Slot(position[t])] = position[t] + 1
    /\ pc[t] = "read" => data[Slot(position[t])] = pushed[position[t] + 1]
    /\ pc[t] = "release" => item[t] = pushed[position[t] + 1]

Distinct ==
  \A t, u \in Threads :
    t # u => /\ Writing(t) /\ Writing(u) => position[t] # position[u]
             /\ Reading(t) /\ Reading(u) => position[t] # position[u]

Held ==
  \A p \in dequeue_position .. enqueue_position - 1 :
    Ready(p) \/ \E t \in Threads : Writing(t) /\ position[t] = p

Free ==
  \A p \in enqueue_position .. dequeue_position + Capacity - 1 :
    \/ sequence[Slot(p)] = p
    \/ \E t \in Threads : Reading(t) /\ position[t] + Capacity = p

IInv ==
  /\ TypeOK /\ Counts /\ Distinct /\ Held /\ Free
  /\ \A t \in Threads : Loaded(t) /\ Writer(t) /\ Reader(t)
-----------------------------------------------------------------------------
(* Positions of one window of Capacity fall on different slots.             *)
LEMMA WindowApart ==
  ASSUME NEW d \in Nat, NEW p \in d .. d + Capacity - 1, NEW q \in d .. d + Capacity - 1,
         p # q
  PROVE  Slot(p) # Slot(q)
  <1>1. p \in Nat /\ q \in Nat
    OBVIOUS
  <1>2. CASE p < q
    BY <1>1, <1>2, SlotApart
  <1>3. CASE q < p
    BY <1>1, <1>3, SlotApart
  <1> QED
    BY <1>1, <1>2, <1>3

(* A new queue: nothing held, all of the first lap free.                    *)
LEMMA InvInit == Init => IInv
  <1> SUFFICES ASSUME Init PROVE IInv
    OBVIOUS
  <1> USE DEF Init
  <1>1. \A p \in Nat : p < Capacity => Slot(p) = p
    <2> SUFFICES ASSUME NEW p \in Nat, p < Capacity PROVE Slot(p) = p
      OBVIOUS
    <2>1. p \in Slots /\ 0 \in Nat /\ p = Capacity * 0 + p
      BY DEF Slots
    <2> QED
      BY <2>1, LapUnique
  <1>2. TypeOK
    BY DEF TypeOK, Slots
  <1>3. Counts /\ Distinct /\ Held
    BY DEF Counts, Distinct, Held, Writing, Reading
  <1>4. Free
    BY <1>1 DEF Free, Slots
  <1>5. \A t \in Threads : Loaded(t) /\ Writer(t) /\ Reader(t)
    BY DEF Loaded, Writer, Reader, Writing, Reading, Pushing
  <1> QED
    BY <1>2, <1>3, <1>4, <1>5 DEF IInv

(* A step of thread t that neither claims nor gives back a position changes *)
(* its locals only.                                                         *)
LEMMA LocalStep ==
  ASSUME IInv, NEW t \in Threads, UNCHANGED queueVars, TypeOK', Loaded(t)',
         ~Writing(t), ~Reading(t), ~Writing(t)', ~Reading(t)',
         \A u \in Threads : u # t => /\ pc'[u] = pc[u]
                                     /\ position'[u] = position[u]
                                     /\ item'[u] = item[u]
  PROVE  IInv'
  <1> USE DEF queueVars
  <1>1. Counts'
    BY DEF IInv, Counts
  <1>2. \A u \in Threads : /\ Writing(u)' <=> Writing(u) /\ u # t
                           /\ Reading(u)' <=> Reading(u) /\ u # t
    BY DEF Writing, Reading
  <1>3. Distinct'
    BY <1>2 DEF IInv, Distinct
  <1>4. Held'
    BY <1>2 DEF IInv, Held, Ready, Slot
  <1>5. Free'
    BY <1>2 DEF IInv, Free, Slot
  <1>6. \A u \in Threads : (Loaded(u) /\ Writer(u) /\ Reader(u))'
    BY <1>2 DEF IInv, Loaded, Writer, Reader, Slot, Pushing, Writing, Reading
  <1> QED
    BY <1>1, <1>3, <1>4, <1>5, <1>6 DEF IInv

(* The steps that lead to a compare-exchange, or to a return of false.      *)
LEMMA LocalSteps ==
  ASSUME IInv, NEW t \in Threads,
         \/ PushBegin(t) \/ PushLoad(t) \/ PushFree(t) \/ PushFull(t) \/ PushStale(t)
         \/ PushCasFails(t)
         \/ PopBegin(t) \/ PopReady(t) \/ PopEmpty(t) \/ PopStale(t) \/ PopCasFails(t)
  PROVE  IInv'
  <1> USE DEF GoTo, Return, queueVars
  <1>0. TypeOK /\ Loaded(t)
    BY DEF IInv
  <1>1. Slot(position[t]) \in Slots /\ sequence[Slot(position[t])] \in Nat
    BY <1>0, Laps DEF TypeOK
  <1>2. CASE PushBegin(t)
    <2>1. TypeOK' /\ Loaded(t)'
      BY <1>0, <1>2 DEF PushBegin, TypeOK, Loaded, Pushing, Writing, Fresh
    <2> QED
      BY <1>2, <2>1, LocalStep DEF PushBegin, TypeOK, IInv, Writing, Reading
  <1>3. CASE PushLoad(t)
    <2>1. TypeOK' /\ Loaded(t)'
      BY <1>0, <1>3 DEF PushLoad, TypeOK, Loaded, Pushing, Writing
    <2> QED
      BY <1>3, <2>1, LocalStep DEF PushLoad, TypeOK, IInv, Writing, Reading
  <1>4. CASE PushFree(t)
    <2>1. TypeOK'
      BY <1>0, <1>4 DEF PushFree, TypeOK
    <2>2. sequence[Slot(position[t])] = position[t]
      BY <1>0, <1>1, <1>4 DEF PushFree, PushDifference, TypeOK
    <2>3. Loaded(t)'
      BY <1>0, <1>4, <2>2 DEF PushFree, TypeOK, Loaded, Pushing, Writing, Slot
    <2> QED
      BY <1>4, <2>1, <2>3, LocalStep DEF PushFree, TypeOK, IInv, Writing, Reading
  <1>5. CASE PushFull(t)
    <2>1. TypeOK' /\ Loaded(t)'
      BY <1>0, <1>5 DEF PushFull, TypeOK, Loaded, Pushing, Writing
    <2> QED
      BY <1>5, <2>1, LocalStep DEF PushFull, TypeOK, IInv, Writing, Reading
  <1>6. CASE PushStale(t)
    <2>1. TypeOK' /\ Loaded(t)'
      BY <1>0, <1>6 DEF PushStale, TypeOK, Loaded, Pushing, Writing
    <2> QED
      BY <1>6, <2>1, LocalStep DEF PushStale, TypeOK, IInv, Writing, Reading
  <1>7. CASE PushCasFails(t)
    <2>1. TypeOK' /\ Loaded(t)'
      BY <1>0, <1>7 DEF PushCasFails, TypeOK, Loaded, Pushing, Writing
    <2> QED
      BY <1>7, <2>1, LocalStep DEF PushCasFails, TypeOK, IInv, Writing, Reading
  <1>8. CASE PopBegin(t)
    <2>1. TypeOK' /\ Loaded(t)'
      BY <1>0, <1>8 DEF PopBegin, TypeOK, Loaded, Pushing, Writing
    <2> QED
      BY <1>8, <2>1, LocalStep DEF PopBegin, TypeOK, IInv, Writing, Reading
  <1>9. CASE PopReady(t)
    <2>1. TypeOK'
      BY <1>0, <1>9 DEF PopReady, TypeOK
    <2>2. sequence[Slot(position[t])] = position[t] + 1
      BY <1>0, <1>1, <1>9 DEF PopReady, PopDifference, TypeOK
    <2>3. Loaded(t)'
      BY <1>0, <1>9, <2>2 DEF PopReady, TypeOK, Loaded, Pushing, Writing, Slot
    <2> QED
      BY <1>9, <2>1, <2>3, LocalStep DEF PopReady, TypeOK, IInv, Writing, Reading
  <1>10. CASE PopEmpty(t)
    <2>1. TypeOK' /\ Loaded(t)'
      BY <1>0, <1>10 DEF PopEmpty, TypeOK, Loaded, Pushing, Writing
    <2> QED
      BY <1>10, <2>1, LocalStep DEF PopEmpty, TypeOK, IInv, Writing, Reading
  <1>11. CASE PopStale(t)
    <2>1. TypeOK' /\ Loaded(t)'
      BY <1>0, <1>11 DEF PopStale, TypeOK, Loaded, Pushing, Writing
    <2> QED
      BY <1>11, <2>1, LocalStep DEF PopStale, TypeOK, IInv, Writing, Reading
  <1>12. CASE PopCasFails(t)
    <2>1. TypeOK' /\ Loaded(t)'
      BY <1>0, <1>12 DEF PopCasFails, TypeOK, Loaded, Pushing, Writing
    <2> QED
      BY <1>12, <2>1, LocalStep DEF PopCasFails, TypeOK, IInv, Writing, Reading
  <1> QED
    BY <1>2, <1>3, <1>4, <1>5, <1>6, <1>7, <1>8, <1>9, <1>10, <1>11, <1>12

(* bc_concurrency_queue_close only sets its flag.                           *)
LEMMA CloseStep ==
  ASSUME IInv, Close \/ UNCHANGED vars
  PROVE  IInv'
  <1>1. /\ UNCHANGED <<enqueue_position, dequeue_position, sequence, data, pushed>>
        /\ UNCHANGED threadVars /\ closed' \in BOOLEAN
    BY DEF IInv, TypeOK, Close, vars, queueVars
  <1> USE <1>1 DEF threadVars
  <1>2. TypeOK'
    BY DEF IInv, TypeOK
  <1>3. Counts' /\ Distinct'
    BY DEF IInv, Counts, Distinct, Writing, Reading
  <1>4. Held'
    BY DEF IInv, Held, Ready, Slot, Writing
  <1>5. Free'
    BY DEF IInv, Free, Slot, Reading
  <1>6. \A u \in Threads : (Loaded(u) /\ Writer(u) /\ Reader(u))'
    BY DEF IInv, Loaded, Writer, Reader, Slot, Pushing, Writing, Reading
  <1> QED
    BY <1>2, <1>3, <1>4, <1>5, <1>6 DEF IInv

(****************************************************************************)
(* The steps around a compare-exchange that succeeds.  From here on there   *)
(* are at least two slots, so that the sequence number which says published *)
(* never is one that says free.                                             *)
(****************************************************************************)

(* What a push that is about to claim a position knows.                     *)
LEMMA PushMayClaim ==
  ASSUME Capacity >= 2, IInv, NEW t \in Threads, PushCas(t)
  PROVE  /\ position[t] = enqueue_position
         /\ enqueue_position < dequeue_position + Capacity
         /\ sequence[Slot(enqueue_position)] = enqueue_position
         /\ \A u \in Threads : Reading(u) => position[u] + Capacity # enqueue_position
  <1> DEFINE e == enqueue_position
  <1>0. TypeOK /\ Counts /\ Held /\ Loaded(t) /\ e \in Nat
    BY DEF IInv, TypeOK
  <1>1. position[t] = e /\ sequence[Slot(e)] = e
    BY <1>0 DEF PushCas, PushClaims, Loaded
  <1>2. ASSUME e = dequeue_position + Capacity PROVE FALSE
    <2>1. Slot(e) = Slot(dequeue_position)
      BY <1>2, SlotNextLap DEF IInv, TypeOK
    <2>2. dequeue_position \in dequeue_position .. e - 1
      BY <1>0, <1>2 DEF TypeOK
    <2>3. sequence[Slot(dequeue_position)] \in {dequeue_position, dequeue_position + 1}
      BY <2>2 DEF IInv, Held, Ready, Writer
    <2> QED
      BY <1>0, <1>1, <1>2, <2>1, <2>3 DEF TypeOK
  <1>3. ASSUME NEW u \in Threads, Reading(u), position[u] + Capacity = e PROVE FALSE
    <2>1. Slot(position[u]) = Slot(e) /\ position[u] \in Nat
      BY <1>0, <1>3, SlotNextLap DEF TypeOK
    <2>2. sequence[Slot(position[u])] = position[u] + 1
      BY <1>3 DEF IInv, Reader
    <2> QED
      BY <1>0, <1>1, <1>3, <2>1, <2>2
  <1> QED
    BY <1>0, <1>1, <1>2, <1>3 DEF Counts, TypeOK

(* What a pop that is about to claim a position knows.                      *)
LEMMA PopMayClaim ==
  ASSUME Capacity >= 2, IInv, NEW t \in Threads, PopCas(t)
  PROVE  /\ position[t] = dequeue_position
         /\ dequeue_position < enqueue_position
         /\ Ready(dequeue_position)
         /\ \A u \in Threads : Writing(u) => position[u] # dequeue_position
  <1> DEFINE d == dequeue_position
  <1>0. TypeOK /\ Counts /\ Held /\ Free /\ Loaded(t) /\ d \in Nat
    BY DEF IInv, TypeOK
  <1>1. position[t] = d /\ sequence[Slot(d)] = d + 1
    BY <1>0 DEF PopCas, PopClaims, Loaded
  <1>2. ASSUME d = enqueue_position PROVE FALSE
    <2>1. d \in enqueue_position .. d + Capacity - 1
      BY <1>0, <1>2
    <2>2. PICK u \in Threads : Reading(u) /\ position[u] + Capacity = d
      BY <1>0, <1>1, <2>1 DEF Free
    <2>3. Slot(position[u]) = Slot(d) /\ position[u] \in Nat
      BY <1>0, <2>2, SlotNextLap DEF TypeOK
    <2>4. sequence[Slot(position[u])] = position[u] + 1
      BY <2>2 DEF IInv, Reader
    <2> QED
      BY <1>0, <1>1, <2>2, <2>3, <2>4
  <1>3. ASSUME NEW u \in Threads, Writing(u), position[u] = d PROVE FALSE
    BY <1>0, <1>1, <1>3 DEF IInv, Writer
  <1>4. d \in d .. enqueue_position - 1
    BY <1>0, <1>2 DEF Counts, TypeOK
  <1> QED
    BY <1>0, <1>1, <1>2, <1>3, <1>4 DEF Counts, TypeOK, Held

(* A push claims the oldest free position, or its compare-exchange fails:   *)
(* the position is held from then on, by a writer.                          *)
LEMMA PushCasStep ==
  ASSUME Capacity >= 2, IInv, NEW t \in Threads, PushCas(t)
  PROVE  IInv'
  <1> DEFINE e == enqueue_position
  <1>0. /\ TypeOK /\ Counts /\ Distinct /\ Held /\ Free /\ e \in Nat
        /\ \A u \in Threads : Loaded(u) /\ Writer(u) /\ Reader(u)
    BY DEF IInv, TypeOK
  <1>1. /\ position[t] = e /\ e < dequeue_position + Capacity
        /\ sequence[Slot(e)] = e
        /\ \A u \in Threads : Reading(u) => position[u] + Capacity # e
    BY PushMayClaim
  <1>2. /\ pc[t] = "push_cas" /\ pc' = [pc EXCEPT ![t] = "write"]
        /\ enqueue_position' = e + 1 /\ pushed' = Append(pushed, item[t])
        /\ UNCHANGED <<dequeue_position, closed, sequence, data, position, item>>
    BY <1>1 DEF PushCas, GoTo
  <1>3. /\ pushed' \in Seq(Items) /\ Len(pushed') = e + 1
        /\ \A k \in 1 .. e : pushed'[k] = pushed[k]
        /\ pushed'[e + 1] = item[t]
    BY <1>0, <1>2, AppendProperties DEF TypeOK, Counts, Loaded, Pushing
  <1>4. \A u \in Threads : /\ Writing(u)' <=> Writing(u) \/ u = t
                           /\ Reading(u)' <=> Reading(u)
                           /\ ~Writing(t) /\ ~Reading(t)
    BY <1>0, <1>2 DEF Writing, Reading, TypeOK
  <1>5. TypeOK'
    BY <1>0, <1>2, <1>3 DEF TypeOK
  <1>6. Counts'
    BY <1>0, <1>1, <1>2, <1>3 DEF Counts, TypeOK
  <1>7. Distinct'
    BY <1>0, <1>1, <1>2, <1>4 DEF Distinct, Writer, TypeOK
  <1>8. Held'
    <2> SUFFICES ASSUME NEW p \in dequeue_position .. e,
                        \A u \in Threads : ~(Writing(u)' /\ position[u] = p)
                 PROVE  Ready(p)'
      BY <1>0, <1>2 DEF Held, TypeOK
    <2>1. p \in dequeue_position .. e - 1 /\ p \in Nat
      BY <1>0, <1>1, <1>4 DEF TypeOK
    <2>2. Ready(p)
      BY <1>0, <1>4, <2>1 DEF Held
    <2> QED
      BY <1>0, <1>2, <1>3, <2>1, <2>2 DEF Ready, Slot
  <1>9. Free'
    <2> SUFFICES ASSUME NEW p \in e + 1 .. dequeue_position + Capacity - 1
                 PROVE  \/ sequence[Slot(p)] = p
                        \/ \E u \in Threads : Reading(u)' /\ position[u] + Capacity = p
      BY <1>0, <1>2 DEF Free, Slot
    <2>1. p \in e .. dequeue_position + Capacity - 1
      BY <1>0 DEF TypeOK
    <2> QED
      BY <1>0, <1>4, <2>1 DEF Free
  <1>10. ASSUME NEW u \in Threads PROVE Loaded(u)'
    BY <1>0, <1>2 DEF Loaded, TypeOK, Slot, Pushing, Writing
  <1>11. ASSUME NEW u \in Threads PROVE Writer(u)'
    <2>1. CASE u = t
      BY <1>0, <1>1, <1>2, <1>3, <2>1 DEF Writer, TypeOK, Slot, Counts
    <2>2. CASE u # t
      <3> SUFFICES ASSUME Writing(u) PROVE Writer(u)'
        BY <1>4, <2>2 DEF Writer
      <3>1. position[u] + 1 \in 1 .. e
        BY <1>0 DEF Writer, TypeOK
      <3> QED
        BY <1>0, <1>2, <1>3, <2>2, <3>1 DEF Writer, TypeOK, Slot
    <2> QED
      BY <2>1, <2>2
  <1>12. ASSUME NEW u \in Threads PROVE Reader(u)'
    <2> SUFFICES ASSUME Reading(u) PROVE Reader(u)'
      BY <1>4 DEF Reader
    <2>1. u # t
      BY <1>4
    <2>2. position[u] + 1 \in 1 .. e
      BY <1>0 DEF Reader, TypeOK, Counts
    <2>3. e + 1 <= position[u] + Capacity
      <3>1. e <= position[u] + Capacity
        BY <1>0 DEF Reader
      <3>2. position[u] + Capacity # e /\ position[u] \in Nat
        BY <1>0, <1>1 DEF TypeOK
      <3> QED
        BY <1>0, <3>1, <3>2
    <2> QED
      BY <1>0, <1>2, <1>3, <2>1, <2>2, <2>3 DEF Reader, TypeOK, Slot
  <1> QED
    BY <1>5, <1>6, <1>7, <1>8, <1>9, <1>10, <1>11, <1>12 DEF IInv

(* A pop claims the oldest held position, or its compare-exchange fails: the*)
(* position a lap later belongs to the window from then on, and to a reader.*)
LEMMA PopCasStep ==
  ASSUME Capacity >= 2, IInv, NEW t \in Threads, PopCas(t)
  PROVE  IInv'
  <1> DEFINE d == dequeue_position
  <1>0. /\ TypeOK /\ Counts /\ Distinct /\ Held /\ Free /\ d \in Nat
        /\ \A u \in Threads : Loaded(u) /\ Writer(u) /\ Reader(u)
    BY DEF IInv, TypeOK
  <1>1. /\ position[t] = d /\ d < enqueue_position /\ Ready(d)
        /\ \A u \in Threads : Writing(u) => position[u] # d
    BY PopMayClaim
  <1>2. /\ pc[t] = "pop_cas" /\ pc' = [pc EXCEPT ![t] = "read"]
        /\ dequeue_position' = d + 1
        /\ UNCHANGED <<enqueue_position, closed, sequence, data, position, item, pushed>>
    BY <1>1 DEF PopCas, GoTo
  <1>3. \A u \in Threads : /\ Reading(u)' <=> Reading(u) \/ u = t
                           /\ Writing(u)' <=> Writing(u)
                           /\ ~Writing(t) /\ ~Reading(t)
    BY <1>0, <1>2 DEF Writing, Reading, TypeOK
  <1>4. TypeOK'
    BY <1>0, <1>2 DEF TypeOK
  <1>5. Counts'
    BY <1>0, <1>1, <1>2 DEF Counts, TypeOK
  <1>6. Distinct'
    BY <1>0, <1>1, <1>2, <1>3 DEF Distinct, Reader, TypeOK
  <1>7. Held'
    <2> SUFFICES ASSUME NEW p \in d + 1 .. enqueue_position - 1
                 PROVE  Ready(p) \/ \E u \in Threads : Writing(u)' /\ position[u] = p
      BY <1>0, <1>2 DEF Held, Ready, Slot
    <2>1. p \in d .. enqueue_position - 1
      BY <1>0 DEF TypeOK
    <2> QED
      BY <1>0, <1>3, <2>1 DEF Held
  <1>8. Free'
    <2>1. (d + 1) + Capacity - 1 = d + Capacity
      BY <1>0
    <2> SUFFICES ASSUME NEW p \in enqueue_position .. d + Capacity
                 PROVE  \/ sequence[Slot(p)] = p
                        \/ \E u \in Threads : Reading(u)' /\ position[u] + Capacity = p
      BY <1>2, <2>1 DEF Free, Slot
    <2>2. CASE p = d + Capacity
      BY <1>1, <1>3, <2>2
    <2>3. CASE p # d + Capacity
      <3>1. p \in enqueue_position .. d + Capacity - 1
        BY <1>0, <2>3 DEF TypeOK
      <3> QED
        BY <1>0, <1>3, <3>1 DEF Free
    <2> QED
      BY <2>2, <2>3
  <1>9. ASSUME NEW u \in Threads PROVE Loaded(u)'
    BY <1>0, <1>2 DEF Loaded, TypeOK, Slot, Pushing, Writing
  <1>10. ASSUME NEW u \in Threads PROVE Writer(u)'
    <2> SUFFICES ASSUME Writing(u) PROVE Writer(u)'
      BY <1>3 DEF Writer
    <2>1. u # t /\ d + 1 <= position[u]
      BY <1>0, <1>1, <1>3 DEF Writer, TypeOK
    <2> QED
      BY <1>0, <1>2, <2>1 DEF Writer, TypeOK, Slot
  <1>11. ASSUME NEW u \in Threads PROVE Reader(u)'
    <2>1. CASE u = t
      BY <1>0, <1>1, <1>2, <2>1 DEF Reader, Ready, Counts, TypeOK, Slot
    <2>2. CASE u # t
      BY <1>0, <1>2, <2>2 DEF Reader, TypeOK, Slot, Reading
    <2> QED
      BY <2>1, <2>2
  <1> QED
    BY <1>4, <1>5, <1>6, <1>7, <1>8, <1>9, <1>10, <1>11 DEF IInv

(****************************************************************************)
(* Threads that own a position work on different slots.                     *)
(****************************************************************************)
Owning(t) == Writing(t) \/ Reading(t)

(* The position a thread owns is held, or the one a lap later is free.      *)
Home(t) == IF Writing(t) THEN position[t] ELSE position[t] + Capacity

(* An owner's home is one of the positions held or free, and on the slot of *)
(* the position it owns.                                                    *)
LEMMA HomeInWindow ==
  ASSUME IInv, NEW t \in Threads, Owning(t)
  PROVE  /\ Home(t) \in dequeue_position .. dequeue_position + Capacity - 1
         /\ Home(t) < enqueue_position <=> Writing(t)
         /\ Slot(Home(t)) = Slot(position[t])
  <1>0. TypeOK /\ Counts /\ Writer(t) /\ Reader(t) /\ position[t] \in Nat
    BY DEF IInv, TypeOK
  <1>1. CASE Writing(t)
    BY <1>0, <1>1 DEF Home, Writer, Counts, TypeOK
  <1>2. CASE Reading(t) /\ ~Writing(t)
    <2>1. Home(t) = position[t] + Capacity /\ Slot(Home(t)) = Slot(position[t])
      BY <1>0, <1>2, SlotNextLap DEF Home
    <2> QED
      BY <1>0, <1>2, <2>1 DEF Reader, Counts, TypeOK
  <1> QED
    BY <1>1, <1>2 DEF Owning

(* No position of the window but the owner's is on the owner's slot.        *)
LEMMA OwnSlot ==
  ASSUME IInv, NEW t \in Threads, Owning(t),
         NEW p \in dequeue_position .. dequeue_position + Capacity - 1, p # Home(t)
  PROVE  Slot(p) # Slot(position[t])
  BY HomeInWindow, WindowApart DEF IInv, TypeOK

(* Two owners are never on the same slot.                                   *)
LEMMA OwnersApart ==
  ASSUME IInv, NEW t \in Threads, NEW u \in Threads, t # u, Owning(t), Owning(u)
  PROVE  Slot(position[t]) # Slot(position[u])
  <1>1. Home(t) # Home(u)
    <2>1. CASE Writing(t) /\ Writing(u)
      BY <2>1 DEF Home, IInv, Distinct
    <2>2. CASE ~Writing(t) /\ ~Writing(u)
      BY <2>2 DEF Home, Owning, IInv, Distinct, TypeOK
    <2>3. CASE ~(Writing(t) <=> Writing(u))
      BY <2>3, HomeInWindow
    <2> QED
      BY <2>1, <2>2, <2>3
  <1> QED
    BY <1>1, HomeInWindow, OwnSlot

(* Reading and writing are different things.                                *)
LEMMA OneThing ==
  \A t \in Threads : ~(Writing(t) /\ Reading(t)) /\ ~(Writing(t) /\ Pushing(t))
  BY DEF Writing, Reading, Pushing

(* The copy into the slot ends: data of the writer's own slot changes.      *)
LEMMA PushWriteStep ==
  ASSUME IInv, NEW t \in Threads, PushWrite(t)
  PROVE  IInv'
  <1>0. /\ TypeOK /\ Counts /\ Distinct /\ Held /\ Free
        /\ \A u \in Threads : Loaded(u) /\ Writer(u) /\ Reader(u)
    BY DEF IInv
  <1>1. /\ pc[t] = "write" /\ pc' = [pc EXCEPT ![t] = "publish"]
        /\ data' = [data EXCEPT ![Slot(position[t])] = item[t]]
        /\ UNCHANGED <<enqueue_position, dequeue_position, closed, sequence, position,
                       item, pushed>>
    BY DEF PushWrite, GoTo
  <1>2. \A u \in Threads : /\ Reading(u)' <=> Reading(u)
                           /\ Writing(u)' <=> Writing(u)
                           /\ Writing(t) /\ ~Reading(t) /\ Owning(t)
    BY <1>0, <1>1 DEF Writing, Reading, Owning, TypeOK
  <1>3. position[t] \in Nat /\ Slot(position[t]) \in Slots /\ Home(t) = position[t]
    BY <1>0, <1>2, Laps DEF TypeOK, Home
  <1>4. TypeOK'
    BY <1>0, <1>1, <1>3 DEF TypeOK
  <1>5. Counts' /\ Distinct'
    BY <1>0, <1>1, <1>2 DEF Counts, Distinct
  <1>6. Held'
    <2> SUFFICES ASSUME NEW p \in dequeue_position .. enqueue_position - 1
                 PROVE  Ready(p)' \/ \E u \in Threads : Writing(u)' /\ position[u] = p
      BY <1>1 DEF Held
    <2>1. CASE p = position[t]
      BY <1>2, <2>1
    <2>2. CASE p # position[t]
      <3>1. p \in dequeue_position .. dequeue_position + Capacity - 1
        BY <1>0 DEF Counts, TypeOK
      <3>2. Slot(p) # Slot(position[t])
        BY <1>2, <1>3, <2>2, <3>1, OwnSlot
      <3>3. Slot(p) \in Slots /\ data'[Slot(p)] = data[Slot(p)]
        BY <1>0, <1>1, <3>1, <3>2, Laps DEF TypeOK
      <3> QED
        BY <1>0, <1>1, <1>2, <3>3 DEF Held, Ready, Slot
    <2> QED
      BY <2>1, <2>2
  <1>7. Free'
    BY <1>0, <1>1, <1>2 DEF Free, Slot
  <1>8. ASSUME NEW u \in Threads PROVE Loaded(u)'
    BY <1>0, <1>1 DEF Loaded, Slot, Pushing, Writing, TypeOK
  <1>9. ASSUME NEW u \in Threads, u # t, Owning(u)
        PROVE  data'[Slot(position[u])] = data[Slot(position[u])]
    <2>1. Slot(position[u]) # Slot(position[t]) /\ Slot(position[u]) \in Slots
      BY <1>0, <1>2, <1>9, OwnersApart, Laps DEF TypeOK
    <2> QED
      BY <1>0, <1>1, <2>1 DEF TypeOK
  <1>10. ASSUME NEW u \in Threads PROVE Writer(u)'
    <2>1. CASE u = t
      BY <1>0, <1>1, <1>2, <1>3, <2>1 DEF Writer, TypeOK, Slot
    <2>2. CASE u # t /\ Writing(u)
      BY <1>0, <1>1, <1>9, <2>2 DEF Writer, TypeOK, Slot, Owning
    <2> QED
      BY <1>2, <2>1, <2>2 DEF Writer
  <1>11. ASSUME NEW u \in Threads PROVE Reader(u)'
    <2> SUFFICES ASSUME Reading(u) PROVE Reader(u)'
      BY <1>2 DEF Reader
    <2>1. u # t
      BY <1>2
    <2> QED
      BY <1>0, <1>1, <1>9, <2>1 DEF Reader, TypeOK, Slot, Owning
  <1> QED
    BY <1>4, <1>5, <1>6, <1>7, <1>8, <1>10, <1>11 DEF IInv

(* The copy out of the slot ends: nothing of the queue changes.             *)
LEMMA PopReadStep ==
  ASSUME IInv, NEW t \in Threads, PopRead(t)
  PROVE  IInv'
  <1>0. /\ TypeOK /\ Counts /\ Distinct /\ Held /\ Free
        /\ \A u \in Threads : Loaded(u) /\ Writer(u) /\ Reader(u)
    BY DEF IInv
  <1>1. /\ pc[t] = "read" /\ pc' = [pc EXCEPT ![t] = "release"]
        /\ item' = [item EXCEPT ![t] = data[Slot(position[t])]]
        /\ UNCHANGED <<enqueue_position, dequeue_position, closed, sequence, data,
                       position, pushed>>
    BY DEF PopRead, GoTo, queueVars
  <1>2. \A u \in Threads : /\ Reading(u)' <=> Reading(u)
                           /\ Writing(u)' <=> Writing(u)
                           /\ ~Writing(t) /\ Reading(t)
    BY <1>0, <1>1 DEF Writing, Reading, TypeOK
  <1>3. Slot(position[t]) \in Slots
    BY <1>0, Laps DEF TypeOK
  <1>4. TypeOK'
    BY <1>0, <1>1, <1>3 DEF TypeOK
  <1>5. Counts' /\ Distinct'
    BY <1>0, <1>1, <1>2 DEF Counts, Distinct
  <1>6. Held' /\ Free'
    BY <1>0, <1>1, <1>2 DEF Held, Ready, Free, Slot
  <1>7. ASSUME NEW u \in Threads PROVE Loaded(u)'
    BY <1>0, <1>1 DEF Loaded, Slot, Pushing, Writing, TypeOK
  <1>8. ASSUME NEW u \in Threads PROVE Writer(u)'
    BY <1>0, <1>1, <1>2 DEF Writer, TypeOK, Slot
  <1>9. ASSUME NEW u \in Threads PROVE Reader(u)'
    <2>1. CASE u = t
      BY <1>0, <1>1, <1>2, <2>1 DEF Reader, TypeOK, Slot
    <2>2. CASE u # t
      BY <1>0, <1>1, <1>2, <2>2 DEF Reader, TypeOK, Slot
    <2> QED
      BY <2>1, <2>2
  <1> QED
    BY <1>4, <1>5, <1>6, <1>7, <1>8, <1>9 DEF IInv

(* A thread that has finished with its position stores the sequence number  *)
(* of the slot and returns.                                                 *)
LEMMA StoreStep ==
  ASSUME Capacity >= 2, IInv, NEW t \in Threads, PushPublish(t) \/ PopRelease(t)
  PROVE  IInv'
  <1> DEFINE d == dequeue_position
             e == enqueue_position
             s == Slot(position[t])
             value == IF Writing(t) THEN position[t] + 1 ELSE position[t] + Capacity
  <1>0. /\ TypeOK /\ Counts /\ Distinct /\ Held /\ Free /\ d \in Nat /\ e \in Nat
        /\ \A u \in Threads : Loaded(u) /\ Writer(u) /\ Reader(u)
    BY DEF IInv, TypeOK
  <1>1. /\ pc[t] \in {"publish", "release"} /\ pc' = [pc EXCEPT ![t] = "idle"]
        /\ sequence' = [sequence EXCEPT ![s] = value]
        /\ position' = [position EXCEPT ![t] = 0]
        /\ item' = [item EXCEPT ![t] = NoItem]
        /\ UNCHANGED <<enqueue_position, dequeue_position, closed, data, pushed>>
    BY DEF PushPublish, PopRelease, Published, Released, Return, GoTo, Writing
  <1>2. \A u \in Threads : /\ Reading(u)' <=> Reading(u) /\ u # t
                           /\ Writing(u)' <=> Writing(u) /\ u # t
                           /\ Owning(t)
    BY <1>0, <1>1 DEF Writing, Reading, Owning, TypeOK
  <1>3. /\ position[t] \in Nat /\ s \in Slots
        /\ Writing(t) <=> pc[t] = "publish"
        /\ Reading(t) <=> pc[t] = "release"
        /\ value \in Nat
    <2>1. position[t] \in Nat /\ s \in Slots
      BY <1>0, Laps DEF TypeOK
    <2>2. value \in Nat
      BY <2>1
    <2> QED
      BY <1>1, <2>1, <2>2 DEF Writing, Reading
  <1> HIDE DEF value
  <1>4. TypeOK'
    BY <1>0, <1>1, <1>3 DEF TypeOK
  <1>5. Counts' /\ Distinct'
    BY <1>0, <1>1, <1>2 DEF Counts, Distinct, TypeOK
  (* What is stored elsewhere stays.                                        *)
  <1>6. ASSUME NEW p \in d .. d + Capacity - 1, p # Home(t)
        PROVE  Slot(p) # s /\ sequence'[Slot(p)] = sequence[Slot(p)]
    <2>1. Slot(p) # s /\ Slot(p) \in Slots
      BY <1>0, <1>2, <1>6, OwnSlot, Laps
    <2> QED
      BY <1>0, <1>1, <2>1 DEF TypeOK
  <1>7. Held'
    <2> SUFFICES ASSUME NEW p \in d .. e - 1
                 PROVE  Ready(p)' \/ \E u \in Threads : Writing(u)' /\ position'[u] = p
      BY <1>1 DEF Held
    <2>0. p \in d .. d + Capacity - 1
      BY <1>0 DEF Counts, TypeOK
    <2>1. CASE p = Home(t)
      <3>1. Writing(t) /\ p = position[t]
        <4>1. p < e
          BY <1>0
        <4>2. Writing(t)
          BY <1>2, <2>1, <4>1, HomeInWindow
        <4> QED
          BY <2>1, <4>2 DEF Home
      <3> QED
        BY <1>0, <1>1, <1>3, <3>1 DEF Writer, Ready, TypeOK, value, Slot
    <2>2. CASE p # Home(t)
      <3>1. Ready(p) => Ready(p)'
        BY <1>1, <1>6, <2>0, <2>2 DEF Ready, Slot
      <3>2. ASSUME NEW u \in Threads, Writing(u), position[u] = p
            PROVE  Writing(u)' /\ position'[u] = p
        BY <1>0, <1>1, <1>2, <2>2, <3>2 DEF TypeOK, Home
      <3> QED
        BY <1>0, <3>1, <3>2 DEF Held
    <2> QED
      BY <2>1, <2>2
  <1>8. Free'
    <2> SUFFICES ASSUME NEW p \in e .. d + Capacity - 1
                 PROVE  \/ sequence'[Slot(p)] = p
                        \/ \E u \in Threads : Reading(u)' /\ position'[u] + Capacity = p
      BY <1>1 DEF Free, Slot
    <2>0. p \in d .. d + Capacity - 1
      BY <1>0 DEF Counts, TypeOK
    <2>1. CASE p = Home(t)
      <3>1. ~Writing(t) /\ p = position[t] + Capacity /\ Slot(p) = s
        BY <1>0, <1>2, <2>1, HomeInWindow DEF Home
      <3> QED
        BY <1>0, <1>1, <1>3, <3>1 DEF TypeOK, value
    <2>2. CASE p # Home(t)
      <3>1. sequence'[Slot(p)] = sequence[Slot(p)]
        BY <1>6, <2>0, <2>2
      <3>2. ASSUME NEW u \in Threads, Reading(u), position[u] + Capacity = p
            PROVE  Reading(u)' /\ position'[u] + Capacity = p
        BY <1>0, <1>1, <1>2, <2>2, <3>2, OneThing DEF TypeOK, Home
      <3> QED
        BY <1>0, <3>1, <3>2 DEF Free
    <2> QED
      BY <2>1, <2>2
  <1>9. ASSUME NEW u \in Threads PROVE Loaded(u)'
    <2>1. CASE u = t
      BY <1>0, <1>1, <2>1 DEF Loaded, Pushing, Writing, TypeOK
    <2>2. CASE u # t
      <3>1. pc'[u] = pc[u] /\ position'[u] = position[u] /\ item'[u] = item[u]
        BY <1>0, <1>1, <2>2 DEF TypeOK
      <3>2. ASSUME Slot(position[u]) = s, pc[u] = "push_cas", position[u] = e PROVE FALSE
        <4>1. sequence[s] = e
          BY <1>0, <3>2 DEF Loaded
        <4>2. CASE Writing(t)
          BY <1>0, <4>1, <4>2 DEF Writer, TypeOK
        <4>3. CASE Reading(t)
          <5>1. e = position[t] + 1
            BY <1>0, <4>1, <4>3 DEF Reader
          <5> QED
            BY <1>0, <1>3, <3>2, <5>1, SlotApart
        <4> QED
          BY <1>2, <4>2, <4>3 DEF Owning
      <3>3. ASSUME Slot(position[u]) = s, pc[u] = "pop_cas", position[u] = d PROVE FALSE
        <4>1. sequence[s] = d + 1
          BY <1>0, <3>3 DEF Loaded
        <4>2. CASE Writing(t)
          <5>1. position[t] = d + 1
            BY <1>0, <4>1, <4>2 DEF Writer
          <5> QED
            BY <1>0, <1>3, <3>3, <5>1, SlotApart
        <4>3. CASE Reading(t)
          BY <1>0, <1>3, <4>1, <4>3 DEF Reader, TypeOK
        <4> QED
          BY <1>2, <4>2, <4>3 DEF Owning
      <3>4. Slot(position[u]) \in Slots
        BY <1>0, Laps DEF TypeOK
      <3>5. Slot(position[u]) # s => sequence'[Slot(position[u])] = sequence[Slot(position[u])]
        BY <1>0, <1>1, <3>4 DEF TypeOK
      <3> QED
        BY <1>0, <1>1, <3>1, <3>2, <3>3, <3>5 DEF Loaded, Pushing, Writing, Slot
    <2> QED
      BY <2>1, <2>2
  <1>10. ASSUME NEW u \in Threads, u # t, Owning(u)
         PROVE  /\ sequence'[Slot(position[u])] = sequence[Slot(position[u])]
                /\ pc'[u] = pc[u] /\ position'[u] = position[u] /\ item'[u] = item[u]
    <2>1. Slot(position[u]) # s /\ Slot(position[u]) \in Slots
      BY <1>0, <1>2, <1>10, OwnersApart, Laps DEF TypeOK
    <2> QED
      BY <1>0, <1>1, <1>10, <2>1 DEF TypeOK
  <1>11. ASSUME NEW u \in Threads PROVE Writer(u)'
    <2> SUFFICES ASSUME Writing(u), u # t PROVE Writer(u)'
      BY <1>2 DEF Writer
    <2> QED
      BY <1>0, <1>1, <1>10 DEF Writer, Slot, Owning
  <1>12. ASSUME NEW u \in Threads PROVE Reader(u)'
    <2> SUFFICES ASSUME Reading(u), u # t PROVE Reader(u)'
      BY <1>2 DEF Reader
    <2> QED
      BY <1>0, <1>1, <1>10 DEF Reader, Slot, Owning
  <1> QED
    BY <1>4, <1>5, <1>7, <1>8, <1>9, <1>11, <1>12 DEF IInv

(* The invariant survives every step.                                       *)
LEMMA IInvStep ==
  ASSUME Capacity >= 2, IInv, [Next]_vars
  PROVE  IInv'
  <1>1. ASSUME NEW t \in Threads, Push(t) PROVE IInv'
    BY <1>1, LocalSteps, PushCasStep, PushWriteStep, StoreStep DEF Push
  <1>2. ASSUME NEW t \in Threads, Pop(t) PROVE IInv'
    BY <1>2, LocalSteps, PopCasStep, PopReadStep, StoreStep DEF Pop
  <1> QED
    BY <1>1, <1>2, CloseStep DEF Next

(****************************************************************************)
(* The theorems, for every set of threads and of elements and every         *)
(* capacity but 1.                                                          *)
(****************************************************************************)
(* The inductive invariant holds: bc_concurrency_queue_push and             *)
(* bc_concurrency_queue_pop keep held and free positions apart.             *)
THEOREM Invariance == Capacity >= 2 => (Spec => []IInv)
  <1> SUFFICES ASSUME Capacity >= 2 PROVE Spec => []IInv
    OBVIOUS
  <1>1. Init => IInv
    BY InvInit
  <1>2. IInv /\ [Next]_vars => IInv'
    BY IInvStep
  <1> QED
    BY <1>1, <1>2, PTL DEF Spec

(* Every variable stays within its type.                                    *)
THEOREM Typing == Capacity >= 2 => (Spec => []TypeOK)
  <1>1. IInv => TypeOK
    BY DEF IInv
  <1> QED
    BY <1>1, Invariance, PTL

(* The queue never holds more than its capacity, nor fewer than none.       *)
THEOREM Boundedness == Capacity >= 2 => (Spec => []Bounded)
  <1>1. IInv => Bounded
    BY DEF IInv, Counts, TypeOK, Bounded
  <1> QED
    BY <1>1, Invariance, PTL

(* No copy of an element overlaps another of the same slot, whatever the    *)
(* interleaving of pushes and pops and however stale their positions are.   *)
THEOREM RaceFreedom == Capacity >= 2 => (Spec => []NoDataRace)
  <1>1. IInv => NoDataRace
    BY OwnersApart DEF NoDataRace, Owning
  <1> QED
    BY <1>1, Invariance, PTL

(* The k-th pop to claim returns the k-th element a push claimed for.       *)
THEOREM Order == Capacity >= 2 => (Spec => []FirstInFirstOut)
  <1>1. IInv => FirstInFirstOut
    <2> SUFFICES ASSUME IInv PROVE FirstInFirstOut
      OBVIOUS
    <2>1. ASSUME NEW t \in Threads, pc[t] = "release"
          PROVE  position[t] < Len(pushed) /\ item[t] = pushed[position[t] + 1]
      BY <2>1 DEF IInv, Reader, Reading, Counts, TypeOK
    <2>2. ASSUME NEW t \in Threads, NEW u \in Threads, t # u, Reading(t), Reading(u)
          PROVE  position[t] # position[u]
      BY <2>2 DEF IInv, Distinct
    <2> QED
      BY <2>1, <2>2 DEF FirstInFirstOut
  <1> QED
    BY <1>1, Invariance, PTL

(* No sequence of calls wedges the queue.                                   *)
THEOREM Usability == Capacity >= 2 => (Spec => []UsableWhenQuiet)
  <1>1. IInv => UsableWhenQuiet
    <2> SUFFICES ASSUME IInv, \A t \in Threads : pc[t] = "idle"
                 PROVE  /\ \A p \in dequeue_position .. enqueue_position - 1 : Ready(p)
                        /\ \A p \in enqueue_position .. dequeue_position + Capacity - 1 :
                             sequence[Slot(p)] = p
      BY DEF UsableWhenQuiet, Ready
    <2>1. \A t \in Threads : ~Writing(t) /\ ~Reading(t)
      BY DEF Writing, Reading
    <2> QED
      BY <2>1 DEF IInv, Held, Free
  <1> QED
    BY <1>1, Invariance, PTL
-----------------------------------------------------------------------------
(****************************************************************************)
(* The refinement of BoundedFifo.                                           *)
(****************************************************************************)
(* What the sequence number of a slot says of the position of the window    *)
(* that falls on it.                                                        *)
LEMMA SequenceSays ==
  ASSUME IInv, NEW p \in dequeue_position .. dequeue_position + Capacity - 1
  PROVE  \/ p < enqueue_position /\ sequence[Slot(p)] = p + 1
         \/ /\ p < enqueue_position /\ sequence[Slot(p)] = p
            /\ \E u \in Threads : Writing(u) /\ position[u] = p
         \/ p >= enqueue_position /\ sequence[Slot(p)] = p
         \/ /\ p >= enqueue_position /\ sequence[Slot(p)] = p - Capacity + 1
            /\ \E u \in Threads : Reading(u)
  <1>0. TypeOK /\ Held /\ Free /\ \A u \in Threads : Writer(u) /\ Reader(u)
    BY DEF IInv
  <1>1. CASE p < enqueue_position
    <2>1. p \in dequeue_position .. enqueue_position - 1
      BY <1>0, <1>1 DEF TypeOK
    <2> QED
      BY <1>0, <1>1, <2>1 DEF Held, Ready, Writer
  <1>2. CASE p >= enqueue_position
    <2>1. p \in enqueue_position .. dequeue_position + Capacity - 1
      BY <1>0, <1>2 DEF TypeOK
    <2>2. ASSUME NEW u \in Threads, Reading(u), position[u] + Capacity = p
          PROVE  sequence[Slot(p)] = p - Capacity + 1
      <3>1. position[u] \in Nat /\ Slot(p) = Slot(position[u])
        BY <1>0, <2>2, SlotNextLap DEF TypeOK
      <3> QED
        BY <1>0, <2>2, <3>1 DEF Reader
    <2> QED
      BY <1>0, <1>2, <2>1, <2>2 DEF Free
  <1> QED
    BY <1>0, <1>1, <1>2 DEF TypeOK

(* A push returns false only if the queue is full or a pop is under way.    *)
LEMMA PushRefusal ==
  ASSUME IInv, NEW t \in Threads, PushFull(t)
  PROVE  \/ enqueue_position = dequeue_position + Capacity
         \/ \E u \in Threads : Reading(u)
  <1>1. /\ position[t] \in Nat /\ position[t] <= enqueue_position
        /\ enqueue_position \in Nat /\ dequeue_position \in Nat
        /\ enqueue_position <= dequeue_position + Capacity
        /\ Slot(position[t]) \in Slots /\ sequence[Slot(position[t])] \in Nat
    BY Laps DEF IInv, TypeOK, Loaded, Counts, PushFull
  <1>2. sequence[Slot(position[t])] < position[t]
    BY <1>1 DEF PushFull, PushDifference
  <1>3. CASE position[t] < dequeue_position + Capacity
    <2>1. PICK p \in dequeue_position .. dequeue_position + Capacity - 1 :
            Slot(p) = Slot(position[t]) /\ (p = position[t] \/ p >= position[t] + Capacity)
      BY <1>1, <1>3, SlotInWindow
    <2> QED
      BY <1>1, <1>2, <2>1, SequenceSays
  <1> QED
    BY <1>1, <1>3

(* A pop returns false only if the queue is empty or the push of its oldest *)
(* element is under way.                                                    *)
LEMMA PopRefusal ==
  ASSUME IInv, NEW t \in Threads, PopEmpty(t)
  PROVE  \/ enqueue_position = dequeue_position
         \/ \E u \in Threads : Writing(u) /\ position[u] = dequeue_position
  <1>1. /\ position[t] \in Nat /\ position[t] <= dequeue_position
        /\ enqueue_position \in Nat /\ dequeue_position \in Nat
        /\ dequeue_position <= enqueue_position
        /\ Slot(position[t]) \in Slots /\ sequence[Slot(position[t])] \in Nat
    BY Laps DEF IInv, TypeOK, Loaded, Counts, PopEmpty
  <1>2. sequence[Slot(position[t])] < position[t] + 1
    BY <1>1 DEF PopEmpty, PopDifference
  <1>3. position[t] < dequeue_position + Capacity
    BY <1>1
  <1>4. PICK p \in dequeue_position .. dequeue_position + Capacity - 1 :
          Slot(p) = Slot(position[t]) /\ (p = position[t] \/ p >= position[t] + Capacity)
    BY <1>1, <1>3, SlotInWindow
  <1> QED
    BY <1>1, <1>2, <1>4, SequenceSays

(* The abstract call of a thread that does not move stays.                  *)
LEMMA CallStays ==
  ASSUME IInv, NEW u \in Threads,
         pc'[u] = pc[u], position'[u] = position[u], item'[u] = item[u],
         \A k \in 1 .. enqueue_position : pushed'[k] = pushed[k]
  PROVE  CallOf(u)' = CallOf(u)
  <1>1. pc[u] = "read" => position[u] + 1 \in 1 .. enqueue_position
    BY DEF IInv, Reader, Reading, Counts, TypeOK
  <1>2. pc[u] = "read" => pushed'[position'[u] + 1] = pushed[position[u] + 1]
    BY <1>1
  <1> QED
    BY <1>2 DEF CallOf, Writing

(* One call changes, the others stay.                                       *)
LEMMA CallBecomes ==
  ASSUME NEW t \in Threads, NEW c, CallOf(t)' = c,
         \A u \in Threads : u # t => CallOf(u)' = CallOf(u)
  PROVE  Calls' = [Calls EXCEPT ![t] = c]
  BY DEF Calls

(* What is left of a sequence of n after its first d.                       *)
LEMMA Suffix ==
  ASSUME NEW S, NEW s \in Seq(S), NEW d \in Nat, d <= Len(s)
  PROVE  /\ SubSeq(s, d + 1, Len(s)) \in Seq(S)
         /\ Len(SubSeq(s, d + 1, Len(s))) = Len(s) - d
         /\ \A k \in 1 .. Len(s) - d : SubSeq(s, d + 1, Len(s))[k] = s[d + k]
  <1> DEFINE e == Len(s)
  <1>1. /\ d + 1 \in Int /\ e \in Nat
        /\ \A k \in d + 1 .. e : s[k] \in S
    BY ElementOfSeq
  <1> HIDE DEF e
  <1>2. /\ SubSeq(s, d + 1, e) \in Seq(S)
        /\ Len(SubSeq(s, d + 1, e)) = IF d + 1 <= e THEN e - (d + 1) + 1 ELSE 0
        /\ \A k \in 1 .. e - (d + 1) + 1 : SubSeq(s, d + 1, e)[k] = s[d + 1 + k - 1]
    BY <1>1, SubSeqProperties
  <1>3. Len(SubSeq(s, d + 1, e)) = e - d
    BY <1>1, <1>2 DEF e
  <1>4. ASSUME NEW k \in 1 .. e - d PROVE SubSeq(s, d + 1, e)[k] = s[d + k]
    <2>1. k \in 1 .. e - (d + 1) + 1 /\ d + 1 + k - 1 = d + k
      BY <1>1
    <2> QED
      BY <1>2, <2>1
  <1> QED
    BY <1>2, <1>3, <1>4 DEF e

(* The contents are what was pushed from dequeue_position on.               *)
LEMMA ContentsAre ==
  ASSUME IInv
  PROVE  /\ Contents \in Seq(Items)
         /\ Len(Contents) = enqueue_position - dequeue_position
         /\ \A k \in 1 .. enqueue_position - dequeue_position :
              Contents[k] = pushed[dequeue_position + k]
  BY Suffix DEF Contents, IInv, TypeOK, Counts

(* The contents depend on dequeue_position and on the history only.         *)
LEMMA ContentsStay ==
  UNCHANGED <<dequeue_position, pushed>> => UNCHANGED Contents
  BY DEF Contents

(* A step of thread t that BoundedFifo does not see.                        *)
LEMMA Unseen ==
  ASSUME NEW t \in Threads, UNCHANGED <<dequeue_position, closed, pushed>>,
         \A u \in Threads : CallOf(u)' = CallOf(u)
  PROVE  UNCHANGED Fifo!fifoVars
  BY ContentsStay DEF Fifo!fifoVars, Calls

(* Loads, refusals and the last store of a call, as BoundedFifo sees them.  *)
LEMMA FifoLocalSteps ==
  ASSUME IInv, NEW t \in Threads,
         \/ PushBegin(t) \/ PushLoad(t) \/ PushFree(t) \/ PushFull(t) \/ PushStale(t)
         \/ PushCasFails(t)
         \/ PopBegin(t) \/ PopReady(t) \/ PopEmpty(t) \/ PopStale(t) \/ PopCasFails(t)
  PROVE  [Fifo!Next]_Fifo!fifoVars
  <1> USE DEF GoTo, Return, queueVars
  <1>0. TypeOK
    BY DEF IInv
  <1>1. /\ UNCHANGED queueVars /\ UNCHANGED Contents
        /\ \A u \in Threads : u # t => CallOf(u)' = CallOf(u)
    <2>1. UNCHANGED queueVars
      BY DEF PushBegin, PushLoad, PushFree, PushFull, PushStale, PushCasFails,
             PopBegin, PopReady, PopEmpty, PopStale, PopCasFails
    <2>2. \A u \in Threads : u # t => /\ pc'[u] = pc[u]
                                      /\ position'[u] = position[u] /\ item'[u] = item[u]
      BY <1>0 DEF TypeOK, PushBegin, PushLoad, PushFree, PushFull, PushStale, PushCasFails,
             PopBegin, PopReady, PopEmpty, PopStale, PopCasFails
    <2> QED
      BY <2>1, <2>2, CallStays, ContentsStay
  <1>2. CASE PushBegin(t)
    <2>1. PICK it \in Items : item' = [item EXCEPT ![t] = it]
      BY <1>2 DEF PushBegin
    <2>2. /\ CallOf(t) = [op |-> "none", item |-> NoItem]
          /\ CallOf(t)' = [op |-> "push", item |-> it]
      BY <1>0, <1>2, <2>1 DEF PushBegin, CallOf, Writing, TypeOK
    <2>3. Fifo!CallPush(t)
      BY <1>1, <1>2, <2>2, CallBecomes
         DEF PushBegin, Fifo!CallPush, Fifo!NoCall, Fifo!Becomes, Calls
    <2> QED
      BY <2>3 DEF Fifo!Next
  <1>3. CASE PushLoad(t) \/ PushFree(t) \/ PushStale(t) \/ PushCasFails(t)
    <2>1. CallOf(t)' = CallOf(t)
      BY <1>0, <1>3 DEF PushLoad, PushFree, PushStale, PushCasFails, CallOf, Writing, TypeOK
    <2> QED
      BY <1>1, <2>1, Unseen
  <1>4. CASE PopReady(t) \/ PopStale(t) \/ PopCasFails(t)
    <2>1. CallOf(t)' = CallOf(t)
      BY <1>0, <1>4 DEF PopReady, PopStale, PopCasFails, CallOf, Writing, TypeOK
    <2> QED
      BY <1>1, <2>1, Unseen
  <1>5. CASE PushFull(t)
    <2>1. /\ CallOf(t).op = "push"
          /\ CallOf(t)' = [op |-> "none", item |-> NoItem]
      BY <1>0, <1>5 DEF PushFull, CallOf, Writing, TypeOK
    <2>2. Len(Contents) = Capacity \/ \E u \in Threads : CallOf(u).op = "taken"
      <3>1. ASSUME NEW u \in Threads, Reading(u) PROVE CallOf(u).op = "taken"
        BY <3>1 DEF Reading, CallOf, Writing
      <3> QED
        BY <1>5, <3>1, PushRefusal, ContentsAre DEF IInv, TypeOK
    <2>3. Fifo!PushRefused(t)
      BY <1>1, <2>1, <2>2, CallBecomes DEF Fifo!PushRefused, Fifo!NoCall, Calls
    <2> QED
      BY <2>3 DEF Fifo!Next
  <1>6. CASE PopBegin(t)
    <2>1. /\ CallOf(t) = [op |-> "none", item |-> NoItem]
          /\ CallOf(t)' = [op |-> "pop", item |-> NoItem]
      BY <1>0, <1>6 DEF PopBegin, CallOf, Writing, TypeOK
    <2>2. Fifo!CallPop(t)
      BY <1>1, <2>1, CallBecomes DEF Fifo!CallPop, Fifo!NoCall, Fifo!Becomes, Calls
    <2> QED
      BY <2>2 DEF Fifo!Next
  <1>7. CASE PopEmpty(t)
    <2>1. /\ CallOf(t).op = "pop"
          /\ CallOf(t)' = [op |-> "none", item |-> NoItem]
      BY <1>0, <1>7 DEF PopEmpty, CallOf, Writing, TypeOK
    <2>2. \/ Contents = <<>>
          \/ \E u \in Threads : CallOf(u) = [op |-> "put", item |-> Head(Contents)]
      <3>1. CASE enqueue_position = dequeue_position
        BY <3>1, ContentsAre DEF IInv, TypeOK
      <3>2. ASSUME NEW u \in Threads, Writing(u), position[u] = dequeue_position
            PROVE  CallOf(u) = [op |-> "put", item |-> Head(Contents)]
        <4>1. item[u] = pushed[dequeue_position + 1] /\ dequeue_position < enqueue_position
          BY <3>2 DEF IInv, Writer
        <4>2. 1 \in 1 .. enqueue_position - dequeue_position
          BY <1>0, <4>1 DEF TypeOK
        <4>3. /\ Contents \in Seq(Items) /\ Contents[1] = pushed[dequeue_position + 1]
              /\ Len(Contents) >= 1
          BY <4>2, ContentsAre
        <4>4. Head(Contents) = pushed[dequeue_position + 1]
          BY <4>3
        <4> QED
          BY <3>2, <4>1, <4>4 DEF CallOf, Writing
      <3> QED
        BY <1>7, <3>1, <3>2, PopRefusal
    <2>3. Fifo!PopRefused(t)
      BY <1>1, <2>1, <2>2, CallBecomes DEF Fifo!PopRefused, Fifo!NoCall, Calls
    <2> QED
      BY <2>3 DEF Fifo!Next
  <1> QED
    BY <1>2, <1>3, <1>4, <1>5, <1>6, <1>7

(* The successful compare-exchange of a push is where it takes effect.      *)
LEMMA FifoPutStep ==
  ASSUME Capacity >= 2, IInv, NEW t \in Threads, PushCas(t)
  PROVE  Fifo!Put(t)
  <1> DEFINE d == dequeue_position
             e == enqueue_position
  <1>0. /\ TypeOK /\ Counts /\ Loaded(t) /\ d \in Nat /\ e \in Nat /\ d <= e
        /\ pushed \in Seq(Items) /\ Len(pushed) = e
    BY DEF IInv, TypeOK, Counts
  <1>1. position[t] = e /\ e < d + Capacity
    BY PushMayClaim
  <1>2. /\ pc[t] = "push_cas" /\ pc' = [pc EXCEPT ![t] = "write"] /\ item[t] \in Items
        /\ enqueue_position' = e + 1 /\ pushed' = Append(pushed, item[t])
        /\ UNCHANGED <<dequeue_position, closed, position, item>>
    BY <1>0, <1>1 DEF PushCas, GoTo, Loaded, Pushing
  <1>3. (\A k \in 1 .. e : pushed'[k] = pushed[k]) /\ pushed'[e + 1] = item[t]
    BY <1>0, <1>2, AppendProperties
  <1>4. \A u \in Threads : u # t => CallOf(u)' = CallOf(u)
    BY <1>0, <1>2, <1>3, CallStays DEF TypeOK
  <1>5. /\ CallOf(t) = [op |-> "push", item |-> item[t]]
        /\ CallOf(t)' = [op |-> "put", item |-> item[t]]
    BY <1>0, <1>2 DEF CallOf, Writing, TypeOK
  <1>6. Contents' = Append(Contents, item[t])
    <2>1. /\ Contents \in Seq(Items) /\ Len(Contents) = e - d
          /\ \A k \in 1 .. e - d : Contents[k] = pushed[d + k]
      BY ContentsAre
    <2>2. /\ Contents' \in Seq(Items) /\ Len(Contents') = e + 1 - d
          /\ \A k \in 1 .. e + 1 - d : Contents'[k] = pushed'[d + k]
      <3>1. /\ pushed' \in Seq(Items) /\ Len(pushed') = e + 1
            /\ e + 1 \in Nat /\ d <= e + 1
        BY <1>0, <1>2, AppendProperties
      <3>2. Contents' = SubSeq(pushed', d + 1, Len(pushed'))
        BY <1>2 DEF Contents
      <3>3. /\ Contents' \in Seq(Items) /\ Len(Contents') = Len(pushed') - d
            /\ \A k \in 1 .. Len(pushed') - d : Contents'[k] = pushed'[d + k]
        <4> HIDE DEF d, e
        <4> QED
          BY <1>0, <3>1, <3>2, Suffix
      <3>4. Len(pushed') - d = e + 1 - d
        <4>1. d \in Nat /\ e \in Nat /\ Len(pushed') = e + 1
          BY <1>0, <3>1
        <4> HIDE DEF d, e
        <4> QED
          BY <4>1
      <3> HIDE DEF d, e
      <3> QED
        BY <3>3, <3>4
    <2>3. /\ Append(Contents, item[t]) \in Seq(Items)
          /\ Len(Append(Contents, item[t])) = e - d + 1
          /\ \A k \in 1 .. e - d : Append(Contents, item[t])[k] = Contents[k]
          /\ Append(Contents, item[t])[e - d + 1] = item[t]
      BY <1>0, <1>2, <2>1, AppendProperties
    <2>4. ASSUME NEW k \in 1 .. Len(Contents')
          PROVE  Contents'[k] = Append(Contents, item[t])[k]
      <3>1. Contents'[k] = pushed'[d + k] /\ k \in 1 .. e + 1 - d
        BY <2>2
      <3>2. CASE k = e + 1 - d
        <4>1. d + k = e + 1 /\ k = e - d + 1
          BY <1>0, <3>2
        <4> QED
          BY <1>3, <2>3, <3>1, <4>1
      <3>3. CASE k # e + 1 - d
        <4>1. k \in 1 .. e - d /\ d + k \in 1 .. e
          BY <1>0, <3>1, <3>3
        <4> QED
          BY <1>3, <2>1, <2>3, <3>1, <4>1
      <3> QED
        BY <3>2, <3>3
    <2>5. Len(Contents') = Len(Append(Contents, item[t]))
      BY <1>0, <2>2, <2>3
    <2> QED
      BY <2>2, <2>3, <2>4, <2>5, SeqEqual
  <1>7. Len(Contents) < Capacity
    BY <1>0, <1>1, ContentsAre
  <1> QED
    BY <1>2, <1>4, <1>5, <1>6, <1>7, CallBecomes DEF Fifo!Put, Fifo!Becomes, Calls

(* The successful compare-exchange of a pop is where it takes effect.       *)
LEMMA FifoTakeStep ==
  ASSUME Capacity >= 2, IInv, NEW t \in Threads, PopCas(t)
  PROVE  Fifo!Take(t)
  <1> DEFINE d == dequeue_position
             e == enqueue_position
  <1>0. TypeOK /\ Counts /\ d \in Nat /\ e \in Nat
    BY DEF IInv, TypeOK
  <1>1. position[t] = d /\ d < e
    BY PopMayClaim
  <1>2. /\ pc[t] = "pop_cas" /\ pc' = [pc EXCEPT ![t] = "read"]
        /\ dequeue_position' = d + 1
        /\ UNCHANGED <<enqueue_position, closed, position, item, pushed>>
    BY <1>0, <1>1 DEF PopCas, GoTo
  <1>3. \A u \in Threads : u # t => CallOf(u)' = CallOf(u)
    BY <1>0, <1>2, CallStays DEF TypeOK
  <1>4. /\ CallOf(t).op = "pop"
        /\ CallOf(t)' = [op |-> "taken", item |-> pushed[d + 1]]
    BY <1>0, <1>1, <1>2 DEF CallOf, Writing, TypeOK
  <1>5. /\ Contents \in Seq(Items) /\ Len(Contents) = e - d
        /\ \A k \in 1 .. e - d : Contents[k] = pushed[d + k]
    BY ContentsAre
  <1>6. /\ Contents' \in Seq(Items) /\ Len(Contents') = e - (d + 1)
        /\ \A k \in 1 .. e - (d + 1) : Contents'[k] = pushed[d + 1 + k]
    <2>1. /\ pushed \in Seq(Items) /\ Len(pushed) = e
          /\ d + 1 \in Nat /\ d + 1 <= e
      BY <1>0, <1>1 DEF TypeOK, Counts
    <2>2. Contents' = SubSeq(pushed, (d + 1) + 1, Len(pushed))
      BY <1>2 DEF Contents
    <2> QED
      BY <1>0, <2>1, <2>2, Suffix
  <1>7. Contents # <<>> /\ Head(Contents) = pushed[d + 1]
    BY <1>0, <1>1, <1>5
  <1>8. Contents' = Tail(Contents)
    <2>1. /\ Tail(Contents) \in Seq(Items) /\ Len(Tail(Contents)) = e - d - 1
          /\ \A k \in 1 .. e - d - 1 : Tail(Contents)[k] = Contents[k + 1]
      BY <1>5, <1>7, HeadTailProperties
    <2>2. ASSUME NEW k \in 1 .. Len(Contents') PROVE Contents'[k] = Tail(Contents)[k]
      <3>1. k \in 1 .. e - (d + 1) /\ k \in 1 .. e - d - 1 /\ k + 1 \in 1 .. e - d
        BY <1>0, <1>1, <1>6
      <3>2. Contents'[k] = pushed[d + 1 + k] /\ Contents[k + 1] = pushed[d + (k + 1)]
        BY <1>5, <1>6, <3>1
      <3>3. d + 1 + k = d + (k + 1)
        BY <1>0, <3>1
      <3> QED
        BY <2>1, <3>1, <3>2, <3>3
    <2>3. Len(Contents') = Len(Tail(Contents))
      BY <1>0, <1>6, <2>1
    <2> QED
      BY <1>6, <2>1, <2>2, <2>3, SeqEqual
  <1> QED
    BY <1>2, <1>3, <1>4, <1>7, <1>8, CallBecomes DEF Fifo!Take, Fifo!Becomes, Calls

(* Every step is one of BoundedFifo's or changes nothing there.             *)
LEMMA FifoStep ==
  ASSUME Capacity >= 2, IInv, [Next]_vars
  PROVE  [Fifo!Next]_Fifo!fifoVars
  <1>0. TypeOK
    BY DEF IInv
  <1>1. ASSUME NEW t \in Threads, PushCas(t) PROVE Fifo!Next
    BY <1>1, FifoPutStep DEF Fifo!Next
  <1>2. ASSUME NEW t \in Threads, PopCas(t) PROVE Fifo!Next
    BY <1>2, FifoTakeStep DEF Fifo!Next
  <1>3. ASSUME NEW t \in Threads, PushWrite(t) \/ PopRead(t)
        PROVE  UNCHANGED Fifo!fifoVars
    <2>1. UNCHANGED <<dequeue_position, closed, position, pushed>>
      BY <1>3 DEF PushWrite, PopRead, queueVars
    <2>2. ASSUME NEW u \in Threads, u # t PROVE CallOf(u)' = CallOf(u)
      <3>1. pc'[u] = pc[u] /\ item'[u] = item[u]
        BY <1>0, <1>3, <2>2 DEF PushWrite, PopRead, GoTo, TypeOK
      <3> QED
        BY <2>1, <3>1, CallStays
    <2>3. CallOf(t)' = CallOf(t)
      <3>1. CASE PushWrite(t)
        BY <1>0, <3>1 DEF PushWrite, GoTo, CallOf, Writing, TypeOK
      <3>2. CASE PopRead(t)
        <4>1. data[Slot(position[t])] = pushed[position[t] + 1]
          BY <3>2 DEF PopRead, IInv, Reader, Reading
        <4> QED
          BY <1>0, <3>2, <4>1 DEF PopRead, GoTo, CallOf, Writing, TypeOK
      <3> QED
        BY <1>3, <3>1, <3>2
    <2> QED
      BY <1>3, <2>1, <2>2, <2>3, Unseen
  <1>4. ASSUME NEW t \in Threads, PushPublish(t) \/ PopRelease(t)
        PROVE  Fifo!Next
    <2>1. UNCHANGED <<dequeue_position, closed, pushed>>
      BY <1>4 DEF PushPublish, PopRelease
    <2>2. ASSUME NEW u \in Threads, u # t PROVE CallOf(u)' = CallOf(u)
      <3>1. pc'[u] = pc[u] /\ position'[u] = position[u] /\ item'[u] = item[u]
        BY <1>0, <1>4, <2>2 DEF PushPublish, PopRelease, Return, GoTo, TypeOK
      <3> QED
        BY <2>1, <3>1, CallStays
    <2>3. /\ CallOf(t).op \in {"put", "taken"}
          /\ CallOf(t)' = [op |-> "none", item |-> NoItem]
      <3>1. pc[t] \in {"publish", "release"} /\ pc'[t] = "idle"
        BY <1>0, <1>4 DEF PushPublish, PopRelease, Return, GoTo, TypeOK
      <3> QED
        BY <3>1 DEF CallOf, Writing
    <2>4. Fifo!ReturnTrue(t)
      BY <1>4, <2>1, <2>2, <2>3, CallBecomes, ContentsStay
         DEF Fifo!ReturnTrue, Fifo!NoCall, Calls
    <2> QED
      BY <1>4, <2>4 DEF Fifo!Next
  <1>5. ASSUME Close \/ UNCHANGED vars PROVE [Fifo!Next]_Fifo!fifoVars
    <2>1. /\ UNCHANGED <<dequeue_position, pushed>> /\ UNCHANGED threadVars
          /\ closed' = TRUE \/ closed' = closed
      BY <1>5 DEF Close, vars, queueVars
    <2>2. UNCHANGED Contents /\ UNCHANGED Calls
      BY <2>1, ContentsStay DEF threadVars, Calls, CallOf, Writing
    <2> QED
      BY <2>1, <2>2 DEF Fifo!Close, Fifo!Next, Fifo!fifoVars
  <1>6. ASSUME NEW t \in Threads, Push(t) \/ Pop(t)
        PROVE  [Fifo!Next]_Fifo!fifoVars
    BY <1>1, <1>2, <1>3, <1>4, <1>6, FifoLocalSteps DEF Push, Pop
  <1> QED
    BY <1>5, <1>6 DEF Next

(* bc_concurrency_queue_push and bc_concurrency_queue_pop are linearisable: *)
(* each takes effect at its compare-exchange, and returns false for the     *)
(* causes BoundedFifo names and no others.                                  *)
THEOREM Refinement == Capacity >= 2 => (Spec => ImplementsFifo)
  <1> SUFFICES ASSUME Capacity >= 2 PROVE Spec => ImplementsFifo
    OBVIOUS
  <1>1. Init => Fifo!Init
    BY DEF Init, Fifo!Init, Fifo!NoCall, Calls, CallOf, Contents, Writing
  <1>2. IInv /\ [Next]_vars => [Fifo!Next]_Fifo!fifoVars
    BY FifoStep
  <1>3. Spec => []IInv
    BY Invariance
  <1> QED
    BY <1>1, <1>2, <1>3, PTL DEF Spec, ImplementsFifo, Fifo!Spec
=============================================================================
