----------------------------- MODULE BoundedFifo ------------------------------
(****************************************************************************)
(* What the queue (bc_concurrency.h:111-128) promises its clients: a        *)
(* bounded first-in-first-out queue whose operations each take effect at    *)
(* one moment between their call and their return.  No positions, slots or  *)
(* sequence numbers.  MpmcQueue implements it.                              *)
(*                                                                          *)
(* A call that takes effect returns TRUE later; in between its element is   *)
(* in the queue ("put") or out of it ("taken").  It is such calls, half-way *)
(* through, that may make others return FALSE without the queue being full  *)
(* or empty.                                                                *)
(****************************************************************************)
EXTENDS Naturals, Sequences

CONSTANTS Threads, Capacity, Items, NoItem

VARIABLES
  fifo,         (* the elements in the queue, oldest first                   *)
  closed,
  call          (* per thread: its call, and the element of that             *)

fifoVars == <<fifo, closed, call>>

NoCall == [op |-> "none", item |-> NoItem]

Init ==
  /\ fifo = <<>>
  /\ closed = FALSE
  /\ call = [t \in Threads |-> NoCall]

Becomes(t, op, item) == call' = [call EXCEPT ![t] = [op |-> op, item |-> item]]

CallPush(t) ==
  /\ call[t] = NoCall /\ ~closed
  /\ \E item \in Items : Becomes(t, "push", item)
  /\ UNCHANGED <<fifo, closed>>

CallPop(t) ==
  /\ call[t] = NoCall
  /\ Becomes(t, "pop", NoItem)
  /\ UNCHANGED <<fifo, closed>>

Put(t) ==
  /\ call[t].op = "push" /\ Len(fifo) < Capacity
  /\ fifo' = Append(fifo, call[t].item)
  /\ Becomes(t, "put", call[t].item)
  /\ UNCHANGED closed

Take(t) ==
  /\ call[t].op = "pop" /\ fifo # <<>>
  /\ fifo' = Tail(fifo)
  /\ Becomes(t, "taken", Head(fifo))
  /\ UNCHANGED closed

ReturnTrue(t) ==
  /\ call[t].op \in {"put", "taken"}
  /\ call' = [call EXCEPT ![t] = NoCall]
  /\ UNCHANGED <<fifo, closed>>

(* A push returns FALSE if the queue is full, or while a call of pop is     *)
(* still giving back the place of its element.                              *)
PushRefused(t) ==
  /\ call[t].op = "push"
  /\ Len(fifo) = Capacity \/ \E u \in Threads : call[u].op = "taken"
  /\ call' = [call EXCEPT ![t] = NoCall]
  /\ UNCHANGED <<fifo, closed>>

(* A pop returns FALSE if the queue is empty, or while a call of push is    *)
(* still filling in the oldest element.                                     *)
PopRefused(t) ==
  /\ call[t].op = "pop"
  /\ fifo = <<>> \/ \E u \in Threads : call[u] = [op |-> "put", item |-> Head(fifo)]
  /\ call' = [call EXCEPT ![t] = NoCall]
  /\ UNCHANGED <<fifo, closed>>

Close ==
  /\ closed' = TRUE
  /\ UNCHANGED <<fifo, call>>

Next ==
  \/ \E t \in Threads :
       \/ CallPush(t) \/ Put(t) \/ PushRefused(t)
       \/ CallPop(t) \/ Take(t) \/ PopRefused(t)
       \/ ReturnTrue(t)
  \/ Close

Spec == Init /\ [][Next]_fifoVars
=============================================================================
