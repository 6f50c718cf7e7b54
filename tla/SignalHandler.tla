--------------------------- MODULE SignalHandler -----------------------------
(****************************************************************************)
(* Stopping on a signal: src/signal/bc_concurrency_signal.c, and the part   *)
(* of worker_thread_routine (src/context/bc_concurrency.c) that blocks      *)
(* signals in worker threads.                                               *)
(*                                                                          *)
(* One client thread makes the API calls.  A signal sent to the process     *)
(* runs signal_callback_function on any thread that does not block it: on   *)
(* the client, which is suspended meanwhile, or on a worker thread between  *)
(* its creation and its pthread_sigmask.  The callback loads the global     *)
(* pointer in one step and stores to what it points to in another.  A       *)
(* thread in the callback takes no second signal.  Before a handler         *)
(* replaces it, the action of a signal is the application's own and harms   *)
(* nothing.  Handlers are blocks of the allocator: a freed one may be the   *)
(* next one created.                                                        *)
(*                                                                          *)
(* A call that fails at once and changes nothing (create without memory,    *)
(* install beyond the limit, destroy of NULL) is a stuttering step.         *)
(* Operators named X_Fault are faulty variants, as in WorkerPool.           *)
(****************************************************************************)
EXTENDS Integers, Sequences

CONSTANTS
  Handlers,       (* bc_concurrency_signal_handler_t blocks                  *)
  Signals,        (* signal numbers                                          *)
  Workers,        (* worker threads                                          *)
  Client,         (* the thread that makes the calls                         *)
  None,           (* a NULL handler                                          *)
  MaxInstalled,   (* BC_CONCURRENCY_SIGNAL_MAX_INSTALLED_SIGNALS             *)
  MaxSent,        (* bound: signals sent in a behaviour                      *)
  InstallTwice,   (* may a signal be installed again before it is restored?  *)
  StartupWindow   (* may a handler be destroyed while a new worker thread    *)
                  (* has not blocked signals yet?                            *)

ASSUME SignalAssumption ==
  /\ Client \notin Workers
  /\ None \notin Handlers
  /\ MaxInstalled \in Nat /\ MaxSent \in Nat
  /\ InstallTwice \in BOOLEAN /\ StartupWindow \in BOOLEAN

Threads == Workers \cup {Client}

VARIABLES
  (* the process *)
  disposition,       (* per signal: the action sigaction would report        *)
  pending, sent,     (* signals sent and not delivered; how many ever        *)
  (* bc_concurrency_signal_handler_t, and the global pointer *)
  global_signal_handler_pointer, live, should_stop_flag, installed,
  newest,            (* history: the handler created last                    *)
  (* workers: "absent", "open" (signals not blocked yet), "blocked" *)
  wstate,
  (* the callback on each thread, and its local `handler' *)
  cb, cb_handler,
  (* the client: where it is, the handler of the call, its loop counter      *)
  pc, handler, idx,
  told               (* history: the handler of this sleep was told to stop  *)
                     (* since the sleep began                                *)

processVars  == <<disposition, pending, sent>>
handlerVars  == <<global_signal_handler_pointer, live, should_stop_flag,
                  installed, newest>>
callbackVars == <<cb, cb_handler>>
clientVars   == <<pc, handler, idx, told>>
vars == <<processVars, handlerVars, wstate, callbackVars, clientVars>>

Init ==
  /\ disposition = [s \in Signals |-> "application"]
  /\ pending = {} /\ sent = 0
  /\ global_signal_handler_pointer = None
  /\ live = [h \in Handlers |-> FALSE]
  /\ should_stop_flag = [h \in Handlers |-> FALSE]
  /\ installed = [h \in Handlers |-> <<>>]
  /\ newest = None
  /\ wstate = [w \in Workers |-> "absent"]
  /\ cb = [t \in Threads |-> "none"]
  /\ cb_handler = [t \in Threads |-> None]
  /\ pc = "idle" /\ handler = None /\ idx = 0 /\ told = FALSE

(* The client is at a point of its own code, not inside a callback.         *)
At(label) == pc = label /\ cb[Client] = "none"

Return ==
  pc' = "idle" /\ handler' = None /\ idx' = 0 /\ told' = FALSE
-----------------------------------------------------------------------------
(* bc_concurrency_signal_handler_create.  Until the pointer is published    *)
(* nobody else sees the block, so the call is one step.                     *)
Create(h) ==
  /\ At("idle") /\ ~live[h]
  /\ live' = [live EXCEPT ![h] = TRUE]
  /\ should_stop_flag' = [should_stop_flag EXCEPT ![h] = FALSE]
  /\ installed' = [installed EXCEPT ![h] = <<>>]
  /\ global_signal_handler_pointer' = h
  /\ newest' = h
  /\ UNCHANGED <<processVars, wstate, callbackVars, clientVars>>

(* bc_concurrency_signal_handler_install.                                   *)
HasRoom_OffByOne(h) == Len(installed[h]) <= MaxInstalled

HasRoom(h) == Len(installed[h]) < MaxInstalled

MayInstall(h, s) ==
  /\ At("idle") /\ live[h]
  /\ InstallTwice \/ disposition[s] = "application"
  /\ HasRoom(h)

Record(h, s) ==
  installed' = [installed EXCEPT
    ![h] = Append(@, [signal |-> s, previous |-> disposition[s]])]

Install(h, s) ==
  /\ MayInstall(h, s)
  /\ disposition' = [disposition EXCEPT ![s] = "callback"]
  /\ Record(h, s)
  /\ UNCHANGED <<pending, sent, global_signal_handler_pointer, live,
                 should_stop_flag, newest, wstate, callbackVars, clientVars>>

(* sigaction fails. *)
InstallFails_Recorded(h, s) ==
  /\ MayInstall(h, s)
  /\ Record(h, s)
  /\ UNCHANGED <<processVars, global_signal_handler_pointer, live,
                 should_stop_flag, newest, wstate, callbackVars, clientVars>>

InstallFails(h, s) == MayInstall(h, s) /\ UNCHANGED vars
-----------------------------------------------------------------------------
(* bc_concurrency_signal_handler_destroy: restore the saved actions in the  *)
(* order in which they were saved, clear the global pointer if it is still  *)
(* this handler's, free the block.                                          *)
DestroyBegin(h) ==
  /\ At("idle") /\ live[h]
  /\ StartupWindow \/ \A w \in Workers : wstate[w] # "open"
  /\ pc' = "restore" /\ handler' = h
  /\ UNCHANGED <<processVars, handlerVars, wstate, callbackVars, idx, told>>

SavedLeft_OffByOne == idx + 1 < Len(installed[handler])

SavedLeft == idx < Len(installed[handler])

RestoreOne ==
  /\ At("restore") /\ SavedLeft
  /\ LET saved == installed[handler][idx + 1]
     IN  disposition' = [disposition EXCEPT ![saved.signal] = saved.previous]
  /\ idx' = idx + 1
  /\ UNCHANGED <<pending, sent, handlerVars, wstate, callbackVars, pc, handler,
                 told>>

IsCurrent_Always == TRUE
IsCurrent_Never == FALSE

IsCurrent == global_signal_handler_pointer = handler

ClearGlobal ==
  /\ At("restore") /\ ~SavedLeft
  /\ global_signal_handler_pointer' =
       IF IsCurrent THEN None ELSE global_signal_handler_pointer
  /\ pc' = "free"
  /\ UNCHANGED <<processVars, live, should_stop_flag, installed, newest, wstate,
                 callbackVars, handler, idx, told>>

Free ==
  /\ At("free")
  /\ live' = [live EXCEPT ![handler] = FALSE]
  /\ installed' = [installed EXCEPT ![handler] = <<>>]
  /\ Return
  /\ UNCHANGED <<processVars, global_signal_handler_pointer, should_stop_flag,
                 newest, wstate, callbackVars>>
-----------------------------------------------------------------------------
(* bc_concurrency_sleep_milliseconds, with or without a handler.  (A zero   *)
(* duration, or one that overflows, returns at once and changes nothing.)   *)
(* The time left after an interruption is never zero, so the loop goes on   *)
(* until nanosleep succeeds or the handler has been told to stop.           *)
SleepBegin ==
  /\ At("idle")
  /\ \E h \in {x \in Handlers : live[x]} \cup {None} : handler' = h
  /\ pc' = "call_nanosleep"
  /\ UNCHANGED <<processVars, handlerVars, wstate, callbackVars, idx, told>>

(* The client enters the kernel. *)
Nanosleep ==
  /\ At("call_nanosleep")
  /\ pc' = "asleep"
  /\ UNCHANGED <<processVars, handlerVars, wstate, callbackVars, handler, idx,
                 told>>

(* nanosleep returns 0: the time is over.                                   *)
NanosleepElapses_NoBreak ==
  /\ At("asleep")
  /\ pc' = "call_nanosleep"
  /\ UNCHANGED <<processVars, handlerVars, wstate, callbackVars, handler, idx,
                 told>>

NanosleepElapses ==
  /\ At("asleep")
  /\ Return
  /\ UNCHANGED <<processVars, handlerVars, wstate, callbackVars>>

(* nanosleep has failed with EINTR; the callback, if one ran, has returned. *)
SleepInterrupted ==
  /\ At("eintr")
  /\ IF handler # None /\ should_stop_flag[handler]
     THEN Return
     ELSE pc' = "call_nanosleep" /\ UNCHANGED <<handler, idx, told>>
  /\ UNCHANGED <<processVars, handlerVars, wstate, callbackVars>>

(* No time remains to be slept, or nanosleep fails with another error.      *)
SleepGivenUp ==
  /\ At("call_nanosleep")
  /\ Return
  /\ UNCHANGED <<processVars, handlerVars, wstate, callbackVars>>
-----------------------------------------------------------------------------
(* Somebody sends a signal to the process; a signal already pending is not  *)
(* queued a second time.                                                    *)
Send(s) ==
  /\ sent < MaxSent
  /\ pending' = pending \cup {s}
  /\ sent' = sent + 1
  /\ UNCHANGED <<disposition, handlerVars, wstate, callbackVars, clientVars>>

Unblocked(t) == cb[t] = "none" /\ (t \in Workers => wstate[t] = "open")

(* The kernel makes the client's nanosleep fail with EINTR.                 *)
WakeUp ==
  /\ pc' = "eintr"
  /\ UNCHANGED <<handler, idx, told>>

(* The signal's action is run on thread t.  An action of the application    *)
(* ends the client's nanosleep unless it is to ignore the signal.           *)
Deliver(t, s) ==
  /\ s \in pending /\ Unblocked(t)
  /\ pending' = pending \ {s}
  /\ IF disposition[s] = "callback"
     THEN cb' = [cb EXCEPT ![t] = "load"]
     ELSE cb' = cb
  /\ \/ t = Client /\ pc = "asleep" /\ WakeUp
     \/ /\ ~(t = Client /\ pc = "asleep" /\ disposition[s] = "callback")
        /\ UNCHANGED clientVars
  /\ UNCHANGED <<disposition, sent, handlerVars, wstate, cb_handler>>

(* signal_callback_function *)
CallbackLoad(t) ==
  /\ cb[t] = "load"
  /\ cb_handler' = [cb_handler EXCEPT ![t] = global_signal_handler_pointer]
  /\ cb' = [cb EXCEPT ![t] =
              IF global_signal_handler_pointer = None THEN "none" ELSE "store"]
  /\ UNCHANGED <<processVars, handlerVars, wstate, clientVars>>

CallbackStore(t) ==
  /\ cb[t] = "store"
  /\ should_stop_flag' = [should_stop_flag EXCEPT ![cb_handler[t]] = TRUE]
  /\ told' = (told \/ (pc \in {"call_nanosleep", "asleep", "eintr"}
                        /\ handler = cb_handler[t]))
  /\ cb' = [cb EXCEPT ![t] = "none"]
  /\ cb_handler' = [cb_handler EXCEPT ![t] = None]
  /\ UNCHANGED <<processVars, global_signal_handler_pointer, live, installed,
                 newest, wstate, pc, handler, idx>>
-----------------------------------------------------------------------------
(* A worker thread is created, runs, blocks all signals, and ends.          *)
WorkerStarts(w) ==
  /\ At("idle") /\ wstate[w] = "absent"
  /\ wstate' = [wstate EXCEPT ![w] = "open"]
  /\ UNCHANGED <<processVars, handlerVars, callbackVars, clientVars>>

WorkerBlocksSignals(w) ==
  /\ wstate[w] = "open" /\ cb[w] = "none"
  /\ wstate' = [wstate EXCEPT ![w] = "blocked"]
  /\ UNCHANGED <<processVars, handlerVars, callbackVars, clientVars>>

WorkerJoined(w) ==
  /\ At("idle") /\ wstate[w] = "blocked"
  /\ wstate' = [wstate EXCEPT ![w] = "absent"]
  /\ UNCHANGED <<processVars, handlerVars, callbackVars, clientVars>>

ClientCall ==
  \/ \E h \in Handlers :
       \/ Create(h) \/ DestroyBegin(h)
       \/ \E s \in Signals : Install(h, s) \/ InstallFails(h, s)
  \/ SleepBegin
  \/ \E w \in Workers : WorkerStarts(w) \/ WorkerJoined(w)

ClientStep ==
  \/ RestoreOne \/ ClearGlobal \/ Free
  \/ Nanosleep \/ NanosleepElapses \/ SleepInterrupted \/ SleepGivenUp

Callback(t) == CallbackLoad(t) \/ CallbackStore(t)

Next ==
  \/ ClientCall
  \/ ClientStep
  \/ \E s \in Signals : Send(s) \/ \E t \in Threads : Deliver(t, s)
  \/ \E t \in Threads : Callback(t)
  \/ \E w \in Workers : WorkerBlocksSignals(w)

Spec == Init /\ [][Next]_vars

(* Threads and callbacks go on, nanosleep ends, a pending signal is         *)
(* delivered.  Nothing obliges the client to make a call, or anybody to     *)
(* send a signal.                                                           *)
Fairness ==
  /\ WF_vars(ClientStep)
  /\ \A t \in Threads : WF_vars(Callback(t))
  /\ \A s \in Signals : WF_vars(\E t \in Threads : Deliver(t, s))

FairSpec == Spec /\ Fairness
-----------------------------------------------------------------------------
ProcessType ==
  /\ disposition \in [Signals -> {"application", "callback"}]
  /\ pending \subseteq Signals /\ sent \in 0 .. MaxSent

(* What is saved of a signal when it is installed.                          *)
Saved == [signal : Signals, previous : {"application", "callback"}]

HandlerType ==
  /\ global_signal_handler_pointer \in Handlers \cup {None}
  /\ live \in [Handlers -> BOOLEAN]
  /\ should_stop_flag \in [Handlers -> BOOLEAN]
  /\ installed \in [Handlers -> Seq(Saved)]
  /\ \A h \in Handlers : Len(installed[h]) <= MaxInstalled
  /\ newest \in Handlers \cup {None}

ThreadType ==
  /\ wstate \in [Workers -> {"absent", "open", "blocked"}]
  /\ cb \in [Threads -> {"none", "load", "store"}]
  /\ cb_handler \in [Threads -> Handlers \cup {None}]

ClientType ==
  /\ pc \in {"idle", "restore", "free", "call_nanosleep", "asleep", "eintr"}
  /\ handler \in Handlers \cup {None}
  /\ idx \in 0 .. MaxInstalled
  /\ told \in BOOLEAN

(* Every variable stays within its type; the table of a handler holds at    *)
(* most MaxInstalled entries.                                               *)
TypeOK == ProcessType /\ HandlerType /\ ThreadType /\ ClientType

(* "signal-safe shutdown coordination" (CHANGELOG.md:58): a callback stores *)
(* its flag into a handler that is still allocated, whatever was created,   *)
(* replaced and destroyed since it was installed.                           *)
StoresIntoLiveHandler == \A t \in Threads : cb[t] = "store" => live[cb_handler[t]]

(* Once the handlers are destroyed every signal has the action back that it *)
(* had before they were created (tests/test_bc_concurrency_signal.c:70).    *)
RestoredOnDestroy ==
  (\A h \in Handlers : ~live[h]) => \A s \in Signals : disposition[s] = "application"

(* Destroying an older handler does not make the newest one deaf.           *)
NewestListens ==
  newest # None /\ live[newest] /\ ~(pc = "free" /\ handler = newest) =>
    global_signal_handler_pointer = newest

(* The signals a live handler has installed are still caught, whatever      *)
(* other handlers have been created and destroyed, and no other signal is.  *)
CaughtWhileInstalled ==
  pc = "idle" =>
    \A s \in Signals :
      disposition[s] = "callback" <=>
        \E h \in Handlers : live[h] /\ \E k \in 1 .. Len(installed[h]) :
                              installed[h][k].signal = s

(* A sleep never waits in the kernel although its handler has been told to  *)
(* stop since the call was made: a signal during the sleep interrupts it    *)
(* (tests/test_bc_concurrency_signal.c:188).                                *)
NotAsleepWhenTold == pc = "asleep" /\ cb[Client] = "none" => ~told

(* A signal sent to the process and installed by the handler in charge is   *)
(* seen by it, unless the handler is destroyed or replaced first.           *)
StopIsSeen ==
  \A h \in Handlers, s \in Signals :
    /\ s \in pending
    /\ global_signal_handler_pointer = h
    /\ \E k \in 1 .. Len(installed[h]) : installed[h][k].signal = s
    ~> should_stop_flag[h] \/ global_signal_handler_pointer # h

(* A sleep ends, interrupted or not. *)
SleepReturns == pc = "call_nanosleep" ~> pc = "idle"
=============================================================================
