--------------------------- MODULE BatchExecutor -----------------------------
(****************************************************************************)
(* What bc_concurrency.h promises of the worker pool, without threads,      *)
(* locks or memory.  The client stages items and makes calls; a call runs   *)
(* every item of its batch once, in any order, and returns true only when   *)
(* all have run; or it returns false before any of them has run, and the    *)
(* staged items are still there.  Nothing runs outside a call.              *)
(*                                                                          *)
(* WorkerPool implements this specification (WorkerPool!ImplementsExecutor).*)
(****************************************************************************)
EXTENDS Integers, Sequences

CONSTANT MaxItems       (* bound: items introduced in a behaviour            *)

Items == 1 .. MaxItems
None  == "none"

VARIABLES
  phase,      (* "idle": no call in progress; "busy"; "closed": destroyed    *)
  staged,     (* items staged by submit and submit_batch, in order           *)
  call,       (* the call in progress: None, "dispatch", "for", "destroy"    *)
  current,    (* the items of the last call                                  *)
  submitted,  (* items introduced so far                                     *)
  runs,       (* how often each item has run                                 *)
  result      (* what the last call returned: None, "ok", "failed"           *)

vars == <<phase, staged, call, current, submitted, runs, result>>

NewItems(n) == [k \in 1 .. n |-> submitted + k]
Members(s) == {s[k] : k \in 1 .. Len(s)}

Init ==
  /\ phase = "idle"
  /\ staged = <<>>
  /\ call = None
  /\ current = <<>>
  /\ submitted = 0
  /\ runs = [it \in Items |-> 0]
  /\ result = None

(* submit, submit_batch: some of the items offered are staged, in order.    *)
Stage(n) ==
  /\ phase = "idle"
  /\ submitted + n <= MaxItems
  /\ staged' = staged \o NewItems(n)
  /\ submitted' = submitted + n
  /\ UNCHANGED <<phase, call, current, runs, result>>

(* A dispatch with nothing staged returns true at once. *)
DispatchNothing ==
  /\ phase = "idle" /\ staged = <<>>
  /\ current' = <<>>
  /\ result' = "ok"
  /\ UNCHANGED <<phase, staged, call, submitted, runs>>

Dispatch ==
  /\ phase = "idle" /\ staged # <<>>
  /\ phase' = "busy" /\ call' = "dispatch"
  /\ current' = staged
  /\ result' = None
  /\ UNCHANGED <<staged, submitted, runs>>

For(n) ==
  /\ phase = "idle"
  /\ submitted + n <= MaxItems
  /\ phase' = "busy" /\ call' = "for"
  /\ current' = NewItems(n)
  /\ submitted' = submitted + n
  /\ result' = None
  /\ UNCHANGED <<staged, runs>>

(* One item of the batch runs, for the first and only time. *)
Run(it) ==
  /\ phase = "busy"
  /\ it \in Members(current) /\ runs[it] = 0
  /\ runs' = [runs EXCEPT ![it] = 1]
  /\ UNCHANGED <<phase, staged, call, current, submitted, result>>

ReturnTrue ==
  /\ phase = "busy" /\ call # "destroy"
  /\ \A it \in Members(current) : runs[it] = 1
  /\ phase' = "idle" /\ call' = None
  /\ staged' = IF call = "dispatch" THEN <<>> ELSE staged
  /\ result' = "ok"
  /\ UNCHANGED <<current, submitted, runs>>

ReturnFalse ==
  /\ phase = "busy" /\ call # "destroy"
  /\ \A it \in Members(current) : runs[it] = 0
  /\ phase' = "idle" /\ call' = None
  /\ result' = "failed"
  /\ UNCHANGED <<staged, current, submitted, runs>>

Destroy ==
  /\ phase = "idle"
  /\ phase' = "busy" /\ call' = "destroy"
  /\ UNCHANGED <<staged, current, submitted, runs, result>>

Close ==
  /\ phase = "busy" /\ call = "destroy"
  /\ phase' = "closed"
  /\ UNCHANGED <<staged, call, current, submitted, runs, result>>

Next ==
  \/ \E n \in Items : Stage(n) \/ For(n)
  \/ DispatchNothing \/ Dispatch \/ Destroy
  \/ \E it \in Items : Run(it)
  \/ ReturnTrue \/ ReturnFalse \/ Close

Spec == Init /\ [][Next]_vars
=============================================================================
