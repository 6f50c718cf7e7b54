------------------------------ MODULE QueueDrain ------------------------------
(****************************************************************************)
(* A program around the queue, under the memory orders the code asks for.   *)
(*                                                                          *)
(* The program is the one of tests/test_bc_concurrency_queue.c: producers   *)
(* push their elements, trying again while push returns false; consumers    *)
(* pop until a pop fails after they have seen the queue closed; the main    *)
(* thread joins the producers and then closes the queue.                    *)
(*                                                                          *)
(* MpmcQueue puts all accesses in one total order.  Here a load may return  *)
(* a value that is not the latest, and only by acquiring what another       *)
(* thread released, or by joining it, does a thread come to know of what    *)
(* that thread did.  A thread is given no more knowledge than it needs:     *)
(*   - `oldest': for each sequence number, the oldest value it may still    *)
(*     read.  It changes with its own stores and when it sees the queue     *)
(*     closed;                                                              *)
(*   - `known': while it owns a slot, how many of the accesses to the       *)
(*     element of that slot happened before.  It comes with the sequence    *)
(*     number, and an access it does not know of is a race.                 *)
(* Of the two positions a load may return any earlier value, at any time.   *)
(* The program allows fewer behaviours, so that what holds here holds there.*)
(* A compare-exchange reads the latest value.  No load returns what is      *)
(* stored later.                                                            *)
(*                                                                          *)
(* The loads of a call are made in one step with the compare-exchange, or   *)
(* the return, they lead to: they may return old values, so that nothing is *)
(* lost by making them late.  Rounds of the loop that claim nothing, and    *)
(* calls of push that return false and are made again, change nothing.      *)
(*                                                                          *)
(* Operators named X_Fault are faulty variants, as in WorkerPool.           *)
(****************************************************************************)
EXTENDS Integers, Sequences, FiniteSetsExt

CONSTANTS
  Producers, Consumers,
  Quota,        (* elements each producer pushes                             *)
  Capacity      (* queue->capacity                                           *)

ASSUME DrainAssumption ==
  /\ Quota \in Nat \ {0}
  /\ Capacity \in Nat \ {0, 1}
  /\ Producers # {} /\ Consumers # {} /\ Producers \cap Consumers = {}

Threads == Producers \cup Consumers
Items == Producers \X (1 .. Quota)
Slots == 0 .. Capacity - 1
Slot(p) == p % Capacity

VARIABLES
  enqueue_position, dequeue_position,
  sequence,     (* per slot: the values stored there, each with how many     *)
                (* accesses to the element the storing thread knew of        *)
  closed,       (* queue->closed, and the oldest sequence numbers that a     *)
                (* thread which sees it set may read                         *)
  element,      (* per slot: the element, and how often it was accessed      *)
  oldest, known, pc, position,
  next,         (* per producer: the number of its next element              *)
  last_try,     (* per consumer: it has seen the queue closed                *)
  popped,       (* history: how often each element was popped                *)
  raced         (* history: some access to an element raced with another     *)

queueVars == <<enqueue_position, dequeue_position, sequence, closed, element>>
knowledge == <<oldest, known>>
history == <<popped, raced>>
vars == <<queueVars, knowledge, pc, position, next, last_try, history>>

(* The queue as bc_concurrency_queue_create leaves it, and the threads      *)
(* created afterwards by the thread that called it.                         *)
Init ==
  /\ enqueue_position = 0 /\ dequeue_position = 0
  /\ sequence = [s \in Slots |-> <<[value |-> s, known |-> 0]>>]
  /\ closed = [flag |-> FALSE, oldest |-> [s \in Slots |-> 1]]
  /\ element = [s \in Slots |-> [item |-> <<>>, accesses |-> 0]]
  /\ oldest = [t \in Threads |-> [s \in Slots |-> 1]]
  /\ known = [t \in Threads |-> 0]
  /\ pc = [t \in Threads |-> IF t \in Producers THEN "push" ELSE "pop"]
  /\ position = [t \in Threads |-> 0]
  /\ next = [p \in Producers |-> 1]
  /\ last_try = [c \in Consumers |-> FALSE]
  /\ popped = [i \in Items |-> 0]
  /\ raced = FALSE

GoTo(t, label) == pc' = [pc EXCEPT ![t] = label]
-----------------------------------------------------------------------------
(* What t may read as the sequence number of the slot of a position.        *)
Readable(t, p) ==
  {sequence[Slot(p)][k] : k \in oldest[t][Slot(p)] .. Len(sequence[Slot(p)])}

(* What is known from the load of m: all that was known where it was stored,*)
(* since that is a release and the load acquires it.                        *)
Acquired_Relaxed(m) == 0

Acquired(m) == m.known

(* Thread t claims position p, having read one of the values it may read    *)
(* that says so.                                                            *)
Claim(t, p, value, label) ==
  /\ \E m \in Readable(t, p) :
       /\ m.value = value
       /\ known' = [known EXCEPT ![t] = Acquired(m)]
  /\ position' = [position EXCEPT ![t] = p]
  /\ GoTo(t, label)

(* Read or write the element of the slot t owns.                            *)
Access(t, item) ==
  LET e == element[Slot(position[t])]
  IN  /\ raced' = (raced \/ known[t] # e.accesses)
      /\ known' = [known EXCEPT ![t] = e.accesses + 1]
      /\ element' = [element EXCEPT ![Slot(position[t])] =
                       [item |-> item, accesses |-> e.accesses + 1]]

(* The release store of the sequence number of the slot t owns.             *)
Store(t, value) ==
  LET s == Slot(position[t])
  IN  /\ sequence' = [sequence EXCEPT ![s] = Append(@, [value |-> value, known |-> known[t]])]
      /\ oldest' = [oldest EXCEPT ![t][s] = Len(sequence[s]) + 1]
      /\ known' = [known EXCEPT ![t] = 0]
      /\ position' = [position EXCEPT ![t] = 0]
-----------------------------------------------------------------------------
(* A producer: bc_concurrency_queue_push until it returns true, for each of *)
(* its elements.  It finds `closed' not set: the queue is closed only after *)
(* it has ended.                                                            *)
PushClaim(t) ==
  /\ pc[t] = "push"
  /\ Claim(t, enqueue_position, enqueue_position, "write")
  /\ enqueue_position' = enqueue_position + 1
  /\ UNCHANGED <<dequeue_position, sequence, closed, element, oldest, next, last_try,
                 history>>

PushWrite(t) ==
  /\ pc[t] = "write"
  /\ Access(t, <<t, next[t]>>)
  /\ GoTo(t, "publish")
  /\ UNCHANGED <<enqueue_position, dequeue_position, sequence, closed, oldest, position,
                 next, last_try, popped>>

PushPublish(t) ==
  /\ pc[t] = "publish"
  /\ Store(t, position[t] + 1)
  /\ next' = [next EXCEPT ![t] = @ + 1]
  /\ GoTo(t, IF next[t] < Quota THEN "push" ELSE "done")
  /\ UNCHANGED <<enqueue_position, dequeue_position, closed, element, last_try, history>>
-----------------------------------------------------------------------------
(* A consumer: bc_concurrency_queue_pop until it fails although the queue   *)
(* was seen closed before the call.                                         *)
PopClaim(t) ==
  /\ pc[t] = "pop"
  /\ Claim(t, dequeue_position, dequeue_position + 1, "read")
  /\ dequeue_position' = dequeue_position + 1
  /\ UNCHANGED <<enqueue_position, sequence, closed, element, oldest, next, last_try,
                 history>>

(* pop returns false: for some position it has loaded, the sequence number  *)
(* is below the one that says published.                                    *)
PopEmpty(t) ==
  /\ pc[t] = "pop"
  /\ \E p \in 0 .. dequeue_position : \E m \in Readable(t, p) : m.value < p + 1
  /\ GoTo(t, IF last_try[t] THEN "done" ELSE "check")
  /\ UNCHANGED <<queueVars, knowledge, position, next, last_try, history>>

PopRead(t) ==
  LET item == element[Slot(position[t])].item IN
  /\ pc[t] = "read"
  /\ Access(t, item)
  /\ popped' = [popped EXCEPT ![item] = @ + 1]
  /\ GoTo(t, "release")
  /\ UNCHANGED <<enqueue_position, dequeue_position, sequence, closed, oldest, position,
                 next, last_try>>

(* The slot is free again for the position one lap later.                   *)
Released_NextPosition(p) == p + 1

Released(p) == p + Capacity

PopRelease(t) ==
  /\ pc[t] = "release"
  /\ Store(t, Released(position[t]))
  /\ last_try' = [last_try EXCEPT ![t] = FALSE]
  /\ GoTo(t, "pop")
  /\ UNCHANGED <<enqueue_position, dequeue_position, closed, element, next, history>>

(* bc_concurrency_queue_is_closed: an acquire load that finds the flag set, *)
(* or an old value.                                                         *)
SeesClosed(t) ==
  /\ pc[t] = "check" /\ closed.flag
  /\ oldest' = [oldest EXCEPT ![t] =
       [s \in Slots |-> Max({oldest[t][s], closed.oldest[s]})]]
  /\ last_try' = [last_try EXCEPT ![t] = TRUE]
  /\ GoTo(t, "pop")
  /\ UNCHANGED <<queueVars, known, position, next, history>>

SeesOpen(t) ==
  /\ pc[t] = "check"
  /\ GoTo(t, "pop")
  /\ UNCHANGED <<queueVars, knowledge, position, next, last_try, history>>
-----------------------------------------------------------------------------
(* The main thread joins the producers, which makes known to it all they    *)
(* knew, and then calls bc_concurrency_queue_close: a release store.        *)
Joined == {p \in Producers : pc[p] = "done"}

MayClose_OneJoined == Joined # {}

MayClose == Joined = Producers

Close ==
  /\ ~closed.flag /\ MayClose
  /\ closed' = [flag |-> TRUE,
                oldest |-> [s \in Slots |-> Max({oldest[p][s] : p \in Joined})]]
  /\ UNCHANGED <<enqueue_position, dequeue_position, sequence, element, knowledge, pc,
                 position, next, last_try, history>>

Produce(t) == PushClaim(t) \/ PushWrite(t) \/ PushPublish(t)

Consume(t) ==
  PopClaim(t) \/ PopEmpty(t) \/ PopRead(t) \/ PopRelease(t) \/ SeesClosed(t) \/ SeesOpen(t)

Finished == \A t \in Threads : pc[t] = "done"

Next ==
  \/ \E t \in Producers : Produce(t)
  \/ \E t \in Consumers : Consume(t)
  \/ Close
  \/ Finished /\ UNCHANGED vars

Spec == Init /\ [][Next]_vars

(* Threads run.  What a thread stores the others see in the end: a consumer *)
(* that keeps polling does not read old values for ever.                    *)
FairSpec ==
  /\ Spec
  /\ \A t \in Producers : WF_vars(Produce(t))
  /\ \A t \in Consumers : /\ WF_vars(Consume(t))
                          /\ SF_vars(PopClaim(t))
                          /\ SF_vars(SeesClosed(t))
  /\ WF_vars(Close)
-----------------------------------------------------------------------------
(* Two accesses to the element of a slot are ordered by what acquire loads  *)
(* have made known: acquire and release on the sequence numbers are enough, *)
(* although the accesses to both positions are relaxed                      *)
(* (bc_concurrency_queue_push, bc_concurrency_queue_pop).                   *)
NoRace == ~raced

(* No element is popped twice, and when the consumers have ended each has   *)
(* been popped: none of them gives up while something is left, whatever old *)
(* values it reads, since `closed' is released and acquired                 *)
(* (bc_concurrency_queue_close, bc_concurrency_queue_is_closed).            *)
NothingMissed ==
  /\ \A i \in Items : popped[i] <= 1
  /\ (\A c \in Consumers : pc[c] = "done") => \A i \in Items : popped[i] = 1

(* Every producer finds room for all its elements in the end, and every     *)
(* consumer learns that the queue is closed and ends.                       *)
AllEnd == <>Finished
=============================================================================
