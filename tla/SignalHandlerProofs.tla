------------------------- MODULE SignalHandlerProofs --------------------------
(****************************************************************************)
(* What SignalHandler guarantees for every number of handlers, signals,     *)
(* worker threads, table entries and signals sent, whatever the order in    *)
(* which handlers are created, replaced and destroyed and wherever a signal *)
(* comes in between.                                                        *)
(*                                                                          *)
(* Two results need a hypothesis.  A callback stores into a live handler if *)
(* no handler is destroyed while a new worker has not blocked its signals   *)
(* yet (~StartupWindow), and the actions saved are the application's if no  *)
(* signal is installed a second time before it is restored (~InstallTwice). *)
(* The runs signal_on_starting_worker and signal_installed_twice show that  *)
(* the code needs both.                                                     *)
(****************************************************************************)
EXTENDS SignalHandler, SequenceTheorems, TLAPS

USE SignalAssumption

(****************************************************************************)
(* The inductive invariant.                                                 *)
(****************************************************************************)

(* The handler that is being destroyed is live until it is freed; its       *)
(* entries before idx are restored.                                         *)
Destroying == pc \in {"restore", "free"}

DestroyInProgress ==
  /\ Destroying => handler \in Handlers /\ live[handler]
  /\ pc = "restore" => idx <= Len(installed[handler])
  /\ pc = "free" => idx = Len(installed[handler]) /\ global_signal_handler_pointer # handler
  /\ ~Destroying => idx = 0

PointerIsLive == global_signal_handler_pointer # None => live[global_signal_handler_pointer]

(* A worker in a callback has not blocked signals yet; outside the startup  *)
(* window there is none while a handler is destroyed.                       *)
CallbackRunning ==
  /\ \A w \in Workers : cb[w] # "none" => wstate[w] = "open"
  /\ ~StartupWindow /\ Destroying => \A w \in Workers : wstate[w] # "open"
  /\ \A t \in Threads : cb[t] = "store" => cb_handler[t] \in Handlers

IInv ==
  /\ TypeOK /\ DestroyInProgress /\ PointerIsLive /\ NewestListens /\ CallbackRunning
  /\ ~StartupWindow => StoresIntoLiveHandler

(* The client is not one of the workers.                                    *)
LEMMA ThreadSets ==
  Client \in Threads /\ \A w \in Workers : w \in Threads /\ w # Client
  BY DEF Threads

(* A call that returns leaves the variables of the client in order.         *)
LEMMA ReturnType == Return => ClientType'
  <1> SUFFICES ASSUME Return PROVE ClientType'
    OBVIOUS
  <1>1. told' \in BOOLEAN
    BY DEF Return
  <1>2. /\ pc' = "idle" /\ idx' = 0 /\ handler' = None
    BY DEF Return
  <1> QED
    BY <1>1, <1>2 DEF ClientType

(* At first there is no handler and no callback runs.                       *)
LEMMA IInvInit == Init => IInv
  <1> SUFFICES ASSUME Init PROVE IInv
    OBVIOUS
  <1>1. ProcessType /\ ThreadType
    BY DEF Init, ProcessType, ThreadType
  <1>2. ClientType
    <2>1. told \in BOOLEAN
      BY DEF Init
    <2>2. /\ pc = "idle" /\ idx = 0 /\ handler = None
      BY DEF Init
    <2> QED
      BY <2>1, <2>2 DEF ClientType
  <1>3. HandlerType
    BY DEF Init, HandlerType
  <1>4. DestroyInProgress /\ PointerIsLive /\ NewestListens
    BY DEF Init, DestroyInProgress, Destroying, PointerIsLive, NewestListens
  <1>5. CallbackRunning /\ StoresIntoLiveHandler
    BY ThreadSets DEF Init, CallbackRunning, Destroying, StoresIntoLiveHandler
  <1> QED
    BY <1>1, <1>2, <1>3, <1>4, <1>5 DEF IInv, TypeOK

(* An entry is added to the table of a handler.                             *)
LEMMA RecordType ==
  ASSUME HandlerType, ProcessType, NEW h \in Handlers, NEW s \in Signals,
         Record(h, s), HasRoom(h)
  PROVE  /\ installed' \in [Handlers -> Seq(Saved)]
         /\ \A x \in Handlers : Len(installed'[x]) <= MaxInstalled
         /\ \A x \in Handlers \ {h} : installed'[x] = installed[x]
         /\ Len(installed'[h]) = Len(installed[h]) + 1
         /\ \A k \in 1 .. Len(installed[h]) : installed'[h][k] = installed[h][k]
         /\ installed'[h][Len(installed[h]) + 1] = [signal |-> s, previous |-> disposition[s]]
  <1> DEFINE entry == [signal |-> s, previous |-> disposition[s]]
  <1>1. entry \in Saved /\ installed[h] \in Seq(Saved)
    BY DEF Saved, ProcessType, HandlerType
  <1>2. installed' = [installed EXCEPT ![h] = Append(@, entry)]
    BY DEF Record
  <1> HIDE DEF entry
  <1>3. /\ Append(installed[h], entry) \in Seq(Saved)
        /\ Len(Append(installed[h], entry)) = Len(installed[h]) + 1
        /\ \A k \in 1 .. Len(installed[h]) :
             Append(installed[h], entry)[k] = installed[h][k]
        /\ Append(installed[h], entry)[Len(installed[h]) + 1] = entry
    BY <1>1, AppendProperties
  <1>4. /\ installed'[h] = Append(installed[h], entry)
        /\ \A x \in Handlers \ {h} : installed'[x] = installed[x]
        /\ DOMAIN installed' = Handlers
        /\ installed' = [x \in Handlers |-> installed'[x]]
    BY <1>2 DEF HandlerType
  <1>5. Len(installed[h]) + 1 <= MaxInstalled
    BY <1>1 DEF HasRoom, HandlerType
  <1>6. \A x \in Handlers : installed'[x] \in Seq(Saved) /\ Len(installed'[x]) <= MaxInstalled
    BY <1>3, <1>4, <1>5 DEF HandlerType
  <1>7. installed' \in [Handlers -> Seq(Saved)]
    BY <1>4, <1>6
  <1> QED
    BY <1>3, <1>4, <1>6, <1>7 DEF entry

(* Each step keeps the types.                                               *)
LEMMA TypeStep == TypeOK /\ DestroyInProgress /\ [Next]_vars => TypeOK'
  <1> SUFFICES ASSUME TypeOK, DestroyInProgress, [Next]_vars PROVE TypeOK'
    OBVIOUS
  <1> USE DEF processVars, handlerVars, callbackVars, clientVars
  <1>1. /\ UNCHANGED processVars => ProcessType'
        /\ UNCHANGED handlerVars => HandlerType'
        /\ UNCHANGED <<wstate, callbackVars>> => ThreadType'
        /\ UNCHANGED clientVars => ClientType'
    BY DEF TypeOK, ProcessType, HandlerType, ThreadType, ClientType
  <1>2. ASSUME NEW h \in Handlers, Create(h) PROVE TypeOK'
    <2>1. HandlerType'
      BY <1>2 DEF Create, TypeOK, HandlerType
    <2> QED
      BY <1>1, <1>2, <2>1 DEF Create, TypeOK
  <1>3. ASSUME NEW h \in Handlers, NEW s \in Signals, Install(h, s) PROVE TypeOK'
    <2>1. HandlerType'
      BY <1>3, RecordType DEF Install, MayInstall, TypeOK, HandlerType
    <2>2. ProcessType'
      BY <1>3 DEF Install, TypeOK, ProcessType
    <2> QED
      BY <1>1, <1>3, <2>1, <2>2 DEF Install, TypeOK
  <1>4. ASSUME NEW h \in Handlers, DestroyBegin(h) PROVE TypeOK'
    <2>1. ClientType'
      BY <1>4 DEF DestroyBegin, TypeOK, ClientType
    <2> QED
      BY <1>1, <1>4, <2>1 DEF DestroyBegin, TypeOK
  <1>5. CASE RestoreOne
    <2>1. handler \in Handlers /\ installed[handler] \in Seq(Saved)
      BY <1>5 DEF RestoreOne, At, DestroyInProgress, Destroying, TypeOK, HandlerType
    <2>2. idx \in Nat /\ idx + 1 \in 1 .. Len(installed[handler]) /\ idx + 1 <= MaxInstalled
      BY <1>5, <2>1 DEF RestoreOne, SavedLeft, TypeOK, ClientType, HandlerType
    <2>3. installed[handler][idx + 1] \in Saved
      BY <2>1, <2>2
    <2>4. ProcessType'
      BY <1>5, <2>3 DEF RestoreOne, TypeOK, ProcessType, Saved
    <2>5. ClientType'
      BY <1>5, <2>2 DEF RestoreOne, TypeOK, ClientType
    <2> QED
      BY <1>1, <1>5, <2>4, <2>5 DEF RestoreOne, TypeOK
  <1>6. CASE ClearGlobal
    <2>1. HandlerType'
      BY <1>6 DEF ClearGlobal, TypeOK, HandlerType
    <2>2. ClientType'
      BY <1>6 DEF ClearGlobal, TypeOK, ClientType
    <2> QED
      BY <1>1, <1>6, <2>1, <2>2 DEF ClearGlobal, TypeOK
  <1>7. CASE Free
    <2>1. HandlerType'
      <3>1. /\ installed' = [installed EXCEPT ![handler] = << >>]
            /\ UNCHANGED <<global_signal_handler_pointer, should_stop_flag, newest>>
        BY <1>7 DEF Free
      <3>2. << >> \in Seq(Saved) /\ Len(<< >>) = 0 /\ 0 <= MaxInstalled
        OBVIOUS
      <3>3. /\ installed' \in [Handlers -> Seq(Saved)]
            /\ \A h \in Handlers : Len(installed'[h]) <= MaxInstalled
        BY <3>1, <3>2 DEF TypeOK, HandlerType
      <3>4. live' \in [Handlers -> BOOLEAN]
        BY <1>7 DEF Free, TypeOK, HandlerType
      <3> QED
        BY <3>1, <3>3, <3>4 DEF TypeOK, HandlerType
    <2>2. ClientType'
      BY <1>7, ReturnType DEF Free
    <2> QED
      BY <1>1, <1>7, <2>1, <2>2 DEF Free, TypeOK
  <1>8. CASE SleepBegin \/ Nanosleep \/ NanosleepElapses \/ SleepInterrupted \/ SleepGivenUp
    <2>1. ClientType'
      <3>1. CASE Return
        BY <3>1, ReturnType
      <3>2. CASE ~Return
        BY <1>8, <3>2 DEF SleepBegin, Nanosleep, NanosleepElapses, SleepInterrupted,
                          SleepGivenUp, TypeOK, ClientType
      <3> QED
        BY <3>1, <3>2
    <2> QED
      BY <1>1, <1>8, <2>1 DEF SleepBegin, Nanosleep, NanosleepElapses, SleepInterrupted,
                              SleepGivenUp, TypeOK
  <1>9. ASSUME NEW s \in Signals, Send(s) PROVE TypeOK'
    <2>1. ProcessType'
      BY <1>9 DEF Send, TypeOK, ProcessType
    <2> QED
      BY <1>1, <1>9, <2>1 DEF Send, TypeOK
  <1>10. ASSUME NEW s \in Signals, NEW t \in Threads, Deliver(t, s) PROVE TypeOK'
    <2>1. ProcessType'
      BY <1>10 DEF Deliver, TypeOK, ProcessType
    <2>2. ThreadType'
      BY <1>10 DEF Deliver, TypeOK, ThreadType
    <2>3. ClientType'
      BY <1>10 DEF Deliver, WakeUp, TypeOK, ClientType
    <2> QED
      BY <1>1, <1>10, <2>1, <2>2, <2>3 DEF Deliver, TypeOK
  <1>11. ASSUME NEW t \in Threads, CallbackLoad(t) PROVE TypeOK'
    <2>1. ThreadType'
      BY <1>11 DEF CallbackLoad, TypeOK, ThreadType, HandlerType
    <2> QED
      BY <1>1, <1>11, <2>1 DEF CallbackLoad, TypeOK
  <1>12. ASSUME NEW t \in Threads, CallbackStore(t) PROVE TypeOK'
    <2>1. ThreadType'
      BY <1>12 DEF CallbackStore, TypeOK, ThreadType
    <2>2. HandlerType'
      BY <1>12 DEF CallbackStore, TypeOK, HandlerType
    <2>3. ClientType'
      BY <1>12 DEF CallbackStore, TypeOK, ClientType
    <2> QED
      BY <1>1, <1>12, <2>1, <2>2, <2>3 DEF CallbackStore, TypeOK
  <1>13. ASSUME NEW w \in Workers, WorkerStarts(w) \/ WorkerJoined(w) \/ WorkerBlocksSignals(w)
         PROVE  TypeOK'
    <2>1. ThreadType'
      BY <1>13 DEF WorkerStarts, WorkerJoined, WorkerBlocksSignals, TypeOK, ThreadType
    <2> QED
      BY <1>1, <1>13, <2>1 DEF WorkerStarts, WorkerJoined, WorkerBlocksSignals, TypeOK
  <1>14. CASE UNCHANGED vars
    BY <1>1, <1>14 DEF vars, TypeOK
  <1> QED
    BY <1>2, <1>3, <1>4, <1>5, <1>6, <1>7, <1>8, <1>9, <1>10, <1>11, <1>12, <1>13, <1>14
       DEF Next, ClientCall, ClientStep, Callback, InstallFails

(* Each step keeps what is said of a destroy under way.                     *)
LEMMA DestroyStep == IInv /\ [Next]_vars => DestroyInProgress'
  <1> SUFFICES ASSUME IInv, [Next]_vars PROVE DestroyInProgress'
    OBVIOUS
  <1> USE DEF IInv, DestroyInProgress, Destroying, At, processVars, handlerVars, callbackVars,
              clientVars
  <1>1. ASSUME ~Destroying, UNCHANGED idx, pc' \notin {"restore", "free"}
        PROVE  DestroyInProgress'
    BY <1>1
  <1>2. CASE \E h \in Handlers : Create(h) \/ \E s \in Signals : Install(h, s)
    BY <1>1, <1>2 DEF Create, Install, MayInstall
  <1>3. ASSUME NEW h \in Handlers, DestroyBegin(h) PROVE DestroyInProgress'
    <2>1. Len(installed[h]) \in Nat
      BY DEF TypeOK, HandlerType
    <2> QED
      BY <1>3, <2>1 DEF DestroyBegin
  <1>4. CASE RestoreOne
    <2>1. Len(installed[handler]) \in Nat /\ idx \in Nat
      BY <1>4 DEF RestoreOne, TypeOK, HandlerType, ClientType
    <2> QED
      BY <1>4, <2>1 DEF RestoreOne, SavedLeft
  <1>5. CASE ClearGlobal
    <2>1. Len(installed[handler]) \in Nat /\ idx \in Nat /\ handler # None
      BY <1>5, SignalAssumption DEF ClearGlobal, TypeOK, HandlerType, ClientType
    <2> QED
      BY <1>5, <2>1 DEF ClearGlobal, SavedLeft, IsCurrent
  <1>6. CASE Free
    BY <1>6 DEF Free, Return
  <1>7. CASE SleepBegin \/ Nanosleep \/ NanosleepElapses \/ SleepInterrupted \/ SleepGivenUp
    <2>1. /\ ~Destroying /\ idx = 0 /\ idx' = 0 /\ pc' \notin {"restore", "free"}
      BY <1>7 DEF SleepBegin, Nanosleep, NanosleepElapses, SleepInterrupted, SleepGivenUp,
                  Return
    <2> QED
      BY <2>1
  <1>8. ASSUME NEW s \in Signals, NEW t \in Threads, Deliver(t, s) PROVE DestroyInProgress'
    BY <1>8 DEF Deliver, WakeUp
  <1>9. CASE \/ \E s \in Signals : Send(s)
             \/ \E t \in Threads : Callback(t)
             \/ \E w \in Workers : WorkerStarts(w) \/ WorkerJoined(w) \/ WorkerBlocksSignals(w)
             \/ UNCHANGED vars
    BY <1>9 DEF Send, Callback, CallbackLoad, CallbackStore, WorkerStarts, WorkerJoined,
                WorkerBlocksSignals, vars
  <1> QED
    BY <1>2, <1>3, <1>4, <1>5, <1>6, <1>7, <1>8, <1>9
       DEF Next, ClientCall, ClientStep, InstallFails

(* The steps that leave the handlers and the client's position in a destroy *)
(* alone.                                                                   *)
Elsewhere ==
  \/ \E h \in Handlers, s \in Signals : Install(h, s)
  \/ RestoreOne
  \/ SleepBegin \/ Nanosleep \/ NanosleepElapses \/ SleepInterrupted \/ SleepGivenUp
  \/ \E s \in Signals : Send(s) \/ \E t \in Threads : Deliver(t, s)
  \/ \E t \in Threads : Callback(t)
  \/ \E w \in Workers : WorkerStarts(w) \/ WorkerJoined(w) \/ WorkerBlocksSignals(w)
  \/ UNCHANGED vars

(* Steps of other operations touch neither the pointer nor a destroy.       *)
LEMMA ElsewhereLeaves ==
  ASSUME Elsewhere
  PROVE  /\ UNCHANGED <<global_signal_handler_pointer, live, newest>>
         /\ (pc = "free" <=> pc' = "free") /\ (pc = "free" => handler' = handler)
  BY DEF Elsewhere, Install, RestoreOne, At, SleepBegin, Nanosleep, NanosleepElapses,
         SleepInterrupted, SleepGivenUp, Return, Send, Deliver, WakeUp, Callback, CallbackLoad,
         CallbackStore, WorkerStarts, WorkerJoined, WorkerBlocksSignals, vars, MayInstall,
         processVars, handlerVars, callbackVars, clientVars

(* Each step keeps the pointer to a live handler, the newest one.           *)
LEMMA PointerStep == IInv /\ [Next]_vars => PointerIsLive' /\ NewestListens'
  <1> SUFFICES ASSUME IInv, [Next]_vars PROVE PointerIsLive' /\ NewestListens'
    OBVIOUS
  <1> USE DEF IInv, PointerIsLive, NewestListens
  <1>1. CASE Elsewhere
    BY <1>1, ElsewhereLeaves
  <1>2. ASSUME NEW h \in Handlers, Create(h) PROVE PointerIsLive' /\ NewestListens'
    BY <1>2 DEF Create, TypeOK, HandlerType
  <1>3. ASSUME NEW h \in Handlers, DestroyBegin(h) PROVE PointerIsLive' /\ NewestListens'
    BY <1>3 DEF DestroyBegin, At, handlerVars
  <1>4. CASE ClearGlobal
    BY <1>4 DEF ClearGlobal, At, IsCurrent
  <1>5. CASE Free
    <2>1. /\ handler \in Handlers /\ global_signal_handler_pointer # handler
          /\ live' = [live EXCEPT ![handler] = FALSE]
          /\ UNCHANGED <<global_signal_handler_pointer, newest>>
          /\ pc = "free"
      BY <1>5 DEF Free, At, DestroyInProgress, Destroying
    <2> QED
      BY <2>1 DEF TypeOK, HandlerType
  <1> QED
    BY <1>1, <1>2, <1>3, <1>4, <1>5
       DEF Next, ClientCall, ClientStep, InstallFails, Elsewhere

(* Each step keeps what is said of a callback under way.                    *)
LEMMA CallbackStep == IInv /\ [Next]_vars => CallbackRunning'
  <1> SUFFICES ASSUME IInv, [Next]_vars PROVE CallbackRunning'
    OBVIOUS
  <1> USE ThreadSets DEF IInv, CallbackRunning, Destroying, TypeOK, ThreadType, At
  <1>1. ASSUME UNCHANGED <<wstate, cb, cb_handler>>,
               pc' \in {"restore", "free"} => pc \in {"restore", "free"}
        PROVE  CallbackRunning'
    BY <1>1
  <1>2. CASE \/ \E h \in Handlers : Create(h) \/ \E s \in Signals : Install(h, s)
             \/ RestoreOne \/ ClearGlobal \/ Free
             \/ SleepBegin \/ Nanosleep \/ NanosleepElapses \/ SleepInterrupted \/ SleepGivenUp
             \/ \E s \in Signals : Send(s)
             \/ UNCHANGED vars
    <2>1. /\ UNCHANGED <<wstate, cb, cb_handler>>
          /\ pc' \in {"restore", "free"} => pc \in {"restore", "free"}
      BY <1>2 DEF Create, Install, MayInstall, RestoreOne, ClearGlobal, Free, Return,
                  SleepBegin, Nanosleep, NanosleepElapses, SleepInterrupted, SleepGivenUp,
                  Send, vars, processVars, handlerVars, callbackVars, clientVars
    <2> QED
      BY <1>1, <2>1
  <1>3. ASSUME NEW h \in Handlers, DestroyBegin(h) PROVE CallbackRunning'
    BY <1>3 DEF DestroyBegin, callbackVars
  <1>4. ASSUME NEW s \in Signals, NEW t \in Threads, Deliver(t, s) PROVE CallbackRunning'
    <2>1. /\ UNCHANGED <<wstate, cb_handler>>
          /\ cb' = cb \/ cb' = [cb EXCEPT ![t] = "load"]
          /\ t \in Workers => wstate[t] = "open"
          /\ pc' \in {"restore", "free"} => pc \in {"restore", "free"}
      BY <1>4 DEF Deliver, Unblocked, WakeUp, clientVars
    <2> QED
      BY <2>1
  <1>5. ASSUME NEW t \in Threads, CallbackLoad(t) PROVE CallbackRunning'
    BY <1>5 DEF CallbackLoad, HandlerType, clientVars
  <1>6. ASSUME NEW t \in Threads, CallbackStore(t) PROVE CallbackRunning'
    BY <1>6 DEF CallbackStore
  <1>7. ASSUME NEW w \in Workers, WorkerStarts(w) \/ WorkerJoined(w) \/ WorkerBlocksSignals(w)
        PROVE  CallbackRunning'
    BY <1>7 DEF WorkerStarts, WorkerJoined, WorkerBlocksSignals, callbackVars, clientVars
  <1> QED
    BY <1>2, <1>3, <1>4, <1>5, <1>6, <1>7
       DEF Next, ClientCall, ClientStep, InstallFails, Callback

(* No step frees a handler that a callback is about to store to, if none is *)
(* destroyed while a worker is open.                                        *)
LEMMA StoreStep ==
  IInv /\ ~StartupWindow /\ [Next]_vars => StoresIntoLiveHandler'
  <1> SUFFICES ASSUME IInv, ~StartupWindow, [Next]_vars, NEW u \in Threads, cb'[u] = "store"
               PROVE  live'[cb_handler'[u]]
    BY DEF StoresIntoLiveHandler
  <1> USE ThreadSets DEF IInv, TypeOK, ThreadType, StoresIntoLiveHandler
  <1>1. ASSUME UNCHANGED <<live, cb, cb_handler>> PROVE live'[cb_handler'[u]]
    BY <1>1
  <1>2. ASSUME NEW h \in Handlers, Create(h) PROVE live'[cb_handler'[u]]
    BY <1>2 DEF Create, callbackVars, CallbackRunning, HandlerType
  <1>3. CASE Free
    <2>1. \A t \in Threads : cb[t] # "store"
      <3>1. \A w \in Workers : wstate[w] # "open"
        BY <1>3 DEF Free, At, CallbackRunning, Destroying
      <3>2. \A t \in Threads : t # Client => t \in Workers
        BY DEF Threads
      <3> QED
        BY <1>3, <3>1, <3>2 DEF Free, At, CallbackRunning
    <2> QED
      BY <1>3, <2>1 DEF Free, callbackVars
  <1>4. ASSUME NEW s \in Signals, NEW t \in Threads, Deliver(t, s) PROVE live'[cb_handler'[u]]
    <2>1. cb[u] = "store"
      BY <1>4 DEF Deliver
    <2> QED
      BY <1>4, <2>1 DEF Deliver, handlerVars
  <1>5. ASSUME NEW t \in Threads, CallbackLoad(t) PROVE live'[cb_handler'[u]]
    <2>1. CASE u = t
      BY <1>5, <2>1 DEF CallbackLoad, handlerVars, PointerIsLive
    <2>2. CASE u # t
      BY <1>5, <2>2 DEF CallbackLoad, handlerVars
    <2> QED
      BY <2>1, <2>2
  <1>6. ASSUME NEW t \in Threads, CallbackStore(t) PROVE live'[cb_handler'[u]]
    BY <1>6 DEF CallbackStore
  <1> QED
    BY <1>1, <1>2, <1>3, <1>4, <1>5, <1>6
       DEF Next, ClientCall, ClientStep, InstallFails, Callback, Install, DestroyBegin,
           RestoreOne, ClearGlobal, SleepBegin, Nanosleep, NanosleepElapses,
           SleepInterrupted, SleepGivenUp, Send, WorkerStarts, WorkerJoined,
           WorkerBlocksSignals, vars, handlerVars, callbackVars

(* Each step keeps the invariant.                                           *)
LEMMA IInvStep == IInv /\ [Next]_vars => IInv'
  <1>1. IInv => TypeOK /\ DestroyInProgress
    BY DEF IInv
  <1> QED
    BY <1>1, TypeStep, DestroyStep, PointerStep, CallbackStep, StoreStep DEF IInv

(****************************************************************************)
(* What is installed, when no signal is installed twice.                    *)
(****************************************************************************)

(* Entry k of the table of h, and whether it is still to be restored.       *)
Entry(h, k) == k \in 1 .. Len(installed[h])
Held(h, k) == Entry(h, k) /\ ~(Destroying /\ h = handler /\ k <= idx)

TablesOfLive == \A h \in Handlers : ~live[h] => Len(installed[h]) = 0

(* A signal is in one place of one table. *)
Apart ==
  \A h, g \in Handlers : \A k, l \in Nat :
    Entry(h, k) /\ Entry(g, l) /\ installed[h][k].signal = installed[g][l].signal
      => h = g /\ k = l

FromApplication ==
  \A h \in Handlers : \A k \in Nat :
    Entry(h, k) => installed[h][k].previous = "application"

CaughtWhileHeld ==
  \A s \in Signals :
    disposition[s] = "callback" <=>
      \E h \in Handlers : \E k \in Nat : Held(h, k) /\ installed[h][k].signal = s

TablesInv == TablesOfLive /\ Apart /\ FromApplication /\ CaughtWhileHeld

(* At first nothing is installed.                                           *)
LEMMA TablesInit == Init => TablesInv
  BY DEF Init, TablesInv, TablesOfLive, Apart, FromApplication, CaughtWhileHeld, Entry, Held

(* A step that changes no table, no action, and restores nothing.           *)
LEMMA TablesKept ==
  ASSUME TablesInv, UNCHANGED <<disposition, installed>>,
         \A h \in Handlers : live[h] => live'[h],
         \A h \in Handlers, k \in Nat : Held(h, k)' <=> Held(h, k)
  PROVE  TablesInv'
  <1> USE DEF TablesInv
  <1>1. TablesOfLive' /\ Apart' /\ FromApplication'
    BY DEF TablesOfLive, Apart, FromApplication, Entry
  <1>2. CaughtWhileHeld'
    BY DEF CaughtWhileHeld
  <1> QED
    BY <1>1, <1>2

(* install records the action of the application, which it found.           *)
LEMMA TablesInstall ==
  ASSUME IInv, TablesInv, ~InstallTwice,
         NEW h \in Handlers, NEW s \in Signals, Install(h, s)
  PROVE  TablesInv'
  <1> DEFINE n == Len(installed[h])
  <1>1. /\ live[h] /\ disposition[s] = "application" /\ pc = "idle"
        /\ UNCHANGED <<live, pc, handler, idx>>
        /\ disposition' = [disposition EXCEPT ![s] = "callback"]
    BY DEF Install, MayInstall, At, clientVars
  <1>2. /\ \A g \in Handlers \ {h} : installed'[g] = installed[g]
        /\ n \in Nat /\ Len(installed'[h]) = n + 1
        /\ \A k \in 1 .. n : installed'[h][k] = installed[h][k]
        /\ installed'[h][n + 1] = [signal |-> s, previous |-> disposition[s]]
    BY RecordType DEF Install, MayInstall, IInv, TypeOK, HandlerType
  <1> HIDE DEF n
  <1>3. \A g \in Handlers, k \in Nat : Held(g, k) <=> Entry(g, k)
    BY <1>1 DEF Held, Destroying
  <1>4. \A g \in Handlers, k \in Nat : Held(g, k)' <=> Entry(g, k)'
    BY <1>1 DEF Held, Destroying
  <1>5. \A g \in Handlers, k \in Nat : Entry(g, k) => installed[g][k].signal # s
    BY <1>1, <1>3 DEF TablesInv, CaughtWhileHeld
  <1>6. \A g \in Handlers, k \in Nat :
          Entry(g, k)' <=> Entry(g, k) \/ (g = h /\ k = n + 1)
    BY <1>2 DEF Entry, n
  <1>7. \A g \in Handlers, k \in Nat : Entry(g, k) => installed'[g][k] = installed[g][k]
    BY <1>2 DEF Entry, n
  <1>8. /\ installed'[h][n + 1].signal = s /\ installed'[h][n + 1].previous = "application"
    BY <1>1, <1>2
  <1>9. TablesOfLive'
    BY <1>1, <1>2 DEF TablesInv, TablesOfLive
  <1>10. FromApplication'
    BY <1>6, <1>7, <1>8 DEF TablesInv, FromApplication
  <1>11. Apart'
    BY <1>5, <1>6, <1>7, <1>8 DEF TablesInv, Apart
  <1>12. CaughtWhileHeld'
    <2> SUFFICES ASSUME NEW r \in Signals
                 PROVE  disposition'[r] = "callback" <=>
                          \E g \in Handlers : \E k \in Nat :
                            Entry(g, k)' /\ installed'[g][k].signal = r
      BY <1>4 DEF CaughtWhileHeld
    <2>1. CASE r = s
      <3>1. disposition'[r] = "callback"
        BY <1>1, <2>1 DEF IInv, TypeOK, ProcessType
      <3>2. /\ n + 1 \in Nat /\ installed'[h][n + 1].signal = r
            /\ \A k \in Nat : k = n + 1 => Entry(h, k)'
        BY <1>2, <1>6, <1>8, <2>1
      <3> QED
        BY <3>1, <3>2
    <2>2. CASE r # s
      <3>1. disposition'[r] = disposition[r]
        BY <1>1, <2>2 DEF IInv, TypeOK, ProcessType
      <3>2. disposition[r] = "callback" <=>
              \E g \in Handlers : \E k \in Nat :
                Entry(g, k) /\ installed[g][k].signal = r
        BY <1>3 DEF TablesInv, CaughtWhileHeld
      <3> QED
        BY <1>6, <1>7, <1>8, <2>2, <3>1, <3>2
    <2> QED
      BY <2>1, <2>2
  <1> QED
    BY <1>9, <1>10, <1>11, <1>12 DEF TablesInv

(* destroy restores one signal, which no other table has.                   *)
LEMMA TablesRestore ==
  ASSUME IInv, TablesInv, RestoreOne
  PROVE  TablesInv'
  <1> DEFINE k0 == idx + 1
             s0 == installed[handler][k0].signal
  <1>1. /\ pc = "restore" /\ handler \in Handlers /\ live[handler] /\ idx \in Nat
        /\ UNCHANGED <<installed, live, pc, handler>> /\ idx' = k0
    BY DEF RestoreOne, At, IInv, DestroyInProgress, Destroying, TypeOK, ClientType, handlerVars
  <1>2. Entry(handler, k0) /\ Held(handler, k0) /\ k0 \in Nat
    <2>1. Len(installed[handler]) \in Nat
      BY <1>1 DEF IInv, TypeOK, HandlerType
    <2> QED
      BY <1>1, <2>1 DEF RestoreOne, SavedLeft, Entry, Held
  <1>3. /\ s0 \in Signals
        /\ disposition' = [disposition EXCEPT ![s0] = "application"]
    <2>1. installed[handler][k0] \in Saved
      BY <1>1, <1>2 DEF Entry, IInv, TypeOK, HandlerType
    <2>2. installed[handler][k0].previous = "application"
      BY <1>1, <1>2 DEF TablesInv, FromApplication
    <2> QED
      BY <2>1, <2>2 DEF RestoreOne, Saved
  <1>4. \A h \in Handlers, k \in Nat :
          Held(h, k)' <=> Held(h, k) /\ ~(h = handler /\ k = k0)
    BY <1>1 DEF Held, Entry, Destroying
  <1>5. \A h \in Handlers, k \in Nat :
          Held(h, k) /\ installed[h][k].signal = s0 => h = handler /\ k = k0
    BY <1>1, <1>2 DEF TablesInv, Apart, Held
  <1> HIDE DEF k0, s0
  <1>6. TablesOfLive' /\ Apart' /\ FromApplication'
    BY <1>1 DEF TablesInv, TablesOfLive, Apart, FromApplication, Entry
  <1>7. CaughtWhileHeld'
    <2> SUFFICES ASSUME NEW r \in Signals
                 PROVE  disposition'[r] = "callback" <=>
                          \E h \in Handlers : \E k \in Nat :
                            Held(h, k)' /\ installed[h][k].signal = r
      BY <1>1 DEF CaughtWhileHeld
    <2>1. CASE r = s0
      <3>1. disposition'[r] = "application"
        BY <1>3, <2>1 DEF IInv, TypeOK, ProcessType
      <3> QED
        BY <1>4, <1>5, <2>1, <3>1
    <2>2. CASE r # s0
      <3>1. disposition'[r] = disposition[r]
        BY <1>3, <2>2 DEF IInv, TypeOK, ProcessType
      <3>2. installed[handler][k0].signal = s0
        BY DEF s0, k0
      <3> QED
        BY <1>4, <2>2, <3>1, <3>2 DEF TablesInv, CaughtWhileHeld
    <2> QED
      BY <2>1, <2>2
  <1> QED
    BY <1>6, <1>7 DEF TablesInv

(* destroy frees a handler when nothing is left in its table.               *)
LEMMA TablesFree ==
  ASSUME IInv, TablesInv, Free
  PROVE  TablesInv'
  <1>1. /\ pc = "free" /\ handler \in Handlers /\ idx = Len(installed[handler])
        /\ UNCHANGED disposition /\ pc' = "idle"
        /\ live' = [live EXCEPT ![handler] = FALSE]
        /\ installed' = [installed EXCEPT ![handler] = << >>]
    BY DEF Free, At, Return, IInv, DestroyInProgress, Destroying, processVars
  <1>2. /\ installed'[handler] = << >>
        /\ \A h \in Handlers \ {handler} : installed'[h] = installed[h] /\ live'[h] = live[h]
    BY <1>1 DEF IInv, TypeOK, HandlerType
  <1>3. \A h \in Handlers, k \in Nat : Entry(h, k)' <=> Entry(h, k) /\ h # handler
    BY <1>1, <1>2 DEF Entry
  <1>4. \A h \in Handlers, k \in Nat : Held(h, k)' <=> Held(h, k)
    <2>1. \A k \in Nat : Entry(handler, k) => k <= idx
      <3>1. Len(installed[handler]) \in Nat
        BY <1>1 DEF IInv, TypeOK, HandlerType
      <3> QED
        BY <1>1, <3>1 DEF Entry
    <2> QED
      BY <1>1, <1>3, <2>1 DEF Held, Destroying
  <1>5. \A h \in Handlers, k \in Nat : Held(h, k) => h # handler
    <2>1. \A h \in Handlers, k \in Nat : Held(h, k)' => h # handler
      BY <1>3 DEF Held
    <2> QED
      BY <1>4, <2>1
  <1>6. TablesOfLive'
    BY <1>1, <1>2 DEF TablesInv, TablesOfLive, IInv, TypeOK, HandlerType
  <1>7. Apart' /\ FromApplication'
    BY <1>2, <1>3 DEF TablesInv, Apart, FromApplication
  <1>8. CaughtWhileHeld'
    BY <1>1, <1>2, <1>4, <1>5 DEF TablesInv, CaughtWhileHeld
  <1> QED
    BY <1>6, <1>7, <1>8 DEF TablesInv

(* create gives a handler an empty table.                                   *)
LEMMA TablesCreate ==
  ASSUME IInv, TablesInv, NEW h \in Handlers, Create(h)
  PROVE  TablesInv'
  <1>1. /\ UNCHANGED disposition /\ UNCHANGED <<pc, handler, idx>>
        /\ live' = [live EXCEPT ![h] = TRUE]
        /\ installed' = [installed EXCEPT ![h] = << >>]
    BY DEF Create, processVars, clientVars
  <1>2. /\ \A g \in Handlers : Len(installed'[g]) = Len(installed[g])
        /\ \A g \in Handlers, k \in Nat : Entry(g, k) => installed'[g] = installed[g]
    BY <1>1 DEF Create, TablesInv, TablesOfLive, Entry, IInv, TypeOK, HandlerType
  <1>3. \A g \in Handlers, k \in Nat :
          (Entry(g, k)' <=> Entry(g, k)) /\ (Held(g, k)' <=> Held(g, k))
    BY <1>1, <1>2 DEF Entry, Held, Destroying
  <1>4. TablesOfLive'
    BY <1>1, <1>2 DEF TablesInv, TablesOfLive, IInv, TypeOK, HandlerType
  <1>5. Apart' /\ FromApplication'
    BY <1>2, <1>3 DEF TablesInv, Apart, FromApplication
  <1>6. CaughtWhileHeld'
    BY <1>1, <1>2, <1>3 DEF TablesInv, CaughtWhileHeld, Held
  <1> QED
    BY <1>4, <1>5, <1>6 DEF TablesInv

(* Each step keeps what is said of the tables.                              *)
LEMMA TablesStep ==
  IInv /\ TablesInv /\ ~InstallTwice /\ [Next]_vars => TablesInv'
  <1> SUFFICES ASSUME IInv, TablesInv, ~InstallTwice, [Next]_vars PROVE TablesInv'
    OBVIOUS
  <1> USE DEF processVars, handlerVars, callbackVars, clientVars
  <1>1. ASSUME UNCHANGED <<disposition, installed, live>>,
               \/ UNCHANGED <<pc, handler, idx>>
               \/ Destroying /\ Destroying' /\ UNCHANGED <<handler, idx>>
               \/ ~Destroying /\ ~Destroying'
               \/ ~Destroying /\ idx' = 0
        PROVE  TablesInv'
    <2>1. \A h \in Handlers, k \in Nat : Held(h, k)' <=> Held(h, k)
      BY <1>1 DEF Held, Entry, Destroying
    <2> QED
      BY <1>1, <2>1, TablesKept
  <1>2. CASE \E h \in Handlers : DestroyBegin(h)
    <2>1. ~Destroying /\ idx' = 0 /\ UNCHANGED <<disposition, installed, live>>
      BY <1>2 DEF DestroyBegin, At, Destroying, IInv, DestroyInProgress
    <2> QED
      BY <1>1, <2>1
  <1>3. CASE ClearGlobal
    BY <1>1, <1>3 DEF ClearGlobal, At, Destroying
  <1>4. CASE SleepBegin \/ Nanosleep \/ NanosleepElapses \/ SleepInterrupted \/ SleepGivenUp
    <2>1. ~Destroying /\ ~Destroying' /\ UNCHANGED <<disposition, installed, live>>
      BY <1>4 DEF SleepBegin, Nanosleep, NanosleepElapses, SleepInterrupted, SleepGivenUp,
                  Return, At, Destroying
    <2> QED
      BY <1>1, <2>1
  <1>5. ASSUME NEW s \in Signals, NEW t \in Threads, Deliver(t, s) PROVE TablesInv'
    <2>1. /\ UNCHANGED <<pc, handler, idx>> \/ (~Destroying /\ ~Destroying')
          /\ UNCHANGED <<disposition, installed, live>>
      BY <1>5 DEF Deliver, WakeUp, Destroying
    <2> QED
      BY <1>1, <2>1
  <1>6. CASE \/ \E s \in Signals : Send(s)
             \/ \E t \in Threads : Callback(t)
             \/ \E w \in Workers : WorkerStarts(w) \/ WorkerJoined(w) \/ WorkerBlocksSignals(w)
             \/ UNCHANGED vars
    <2>1. UNCHANGED <<disposition, installed, live, pc, handler, idx>>
      BY <1>6 DEF Send, Callback, CallbackLoad, CallbackStore, WorkerStarts, WorkerJoined,
                  WorkerBlocksSignals, vars
    <2> QED
      BY <1>1, <2>1
  <1> QED
    BY <1>2, <1>3, <1>4, <1>5, <1>6, TablesCreate, TablesInstall, TablesRestore, TablesFree
       DEF Next, ClientCall, ClientStep, InstallFails

(****************************************************************************)
(* The theorems.                                                            *)
(****************************************************************************)

(* However the callback falls between the steps of create, install and      *)
(* destroy: the pointer is NULL or a live handler, and a destroy under way  *)
(* has its handler and its place in the table right.                        *)
THEOREM Invariance == Spec => []IInv
  BY IInvInit, IInvStep, PTL DEF Spec

(* The variables stay within their types; a table never holds more than     *)
(* MaxInstalled entries, although it is filled by any number of installs.   *)
THEOREM Typing == Spec => []TypeOK
  <1>1. IInv => TypeOK
    BY DEF IInv
  <1> QED
    BY Invariance, <1>1, PTL

(* The handler created last is the one signals are reported to, until it is *)
(* destroyed: destroying an older one does not clear the global pointer.    *)
THEOREM NewestIsHeard == Spec => []NewestListens
  <1>1. IInv => NewestListens
    BY DEF IInv
  <1> QED
    BY Invariance, <1>1, PTL

(* A callback that has loaded the global pointer stores into memory that is *)
(* still allocated, on whichever thread it runs and whatever the client     *)
(* does meanwhile; provided no handler is destroyed while a new worker may  *)
(* still take a signal.                                                     *)
THEOREM StoresAreSafe == ~StartupWindow => (Spec => []StoresIntoLiveHandler)
  <1> SUFFICES ASSUME ~StartupWindow PROVE Spec => []StoresIntoLiveHandler
    OBVIOUS
  <1>1. IInv => StoresIntoLiveHandler
    BY DEF IInv
  <1> QED
    BY Invariance, <1>1, PTL

(* The tables are in order in every state, if no signal is installed twice. *)
LEMMA TablesInvariance == ~InstallTwice => (Spec => [](IInv /\ TablesInv))
  <1> SUFFICES ASSUME ~InstallTwice PROVE Spec => [](IInv /\ TablesInv)
    OBVIOUS
  <1>1. Init => IInv /\ TablesInv
    BY IInvInit, TablesInit
  <1>2. (IInv /\ TablesInv) /\ [Next]_vars => (IInv /\ TablesInv)'
    BY IInvStep, TablesStep
  <1> QED
    BY <1>1, <1>2, PTL DEF Spec

(* Between calls the signals caught are those the live handlers installed,  *)
(* neither more nor fewer; provided none is installed a second time before  *)
(* it is restored.                                                          *)
THEOREM CaughtExactly == ~InstallTwice => (Spec => []CaughtWhileInstalled)
  <1> SUFFICES ASSUME ~InstallTwice PROVE Spec => []CaughtWhileInstalled
    OBVIOUS
  <1>1. ASSUME IInv, TablesInv PROVE CaughtWhileInstalled
    <2> SUFFICES ASSUME pc = "idle", NEW s \in Signals
                 PROVE  disposition[s] = "callback" <=>
                          \E h \in Handlers : live[h] /\ \E k \in 1 .. Len(installed[h]) :
                                                installed[h][k].signal = s
      BY DEF CaughtWhileInstalled
    <2>1. \A h \in Handlers : Len(installed[h]) \in Nat
      <3>1. installed \in [Handlers -> Seq(Saved)]
        BY <1>1 DEF IInv, TypeOK, HandlerType
      <3> QED
        BY <3>1
    <2>2. \A h \in Handlers, k \in Nat : Held(h, k) <=> k \in 1 .. Len(installed[h])
      BY DEF Held, Entry, Destroying
    <2>3. \A h \in Handlers, k \in Nat : Held(h, k) => live[h]
      BY <1>1, <2>1, <2>2 DEF TablesInv, TablesOfLive
    <2>4. disposition[s] = "callback" <=>
            \E h \in Handlers : \E k \in Nat : Held(h, k) /\ installed[h][k].signal = s
      BY <1>1 DEF TablesInv, CaughtWhileHeld
    <2> QED
      BY <2>1, <2>2, <2>3, <2>4
  <1> QED
    BY TablesInvariance, <1>1, PTL

(* When all handlers are destroyed every signal has the action of before,   *)
(* in whichever order they were created, filled and destroyed; under the    *)
(* same condition.                                                          *)
THEOREM AllRestored == ~InstallTwice => (Spec => []RestoredOnDestroy)
  <1> SUFFICES ASSUME ~InstallTwice PROVE Spec => []RestoredOnDestroy
    OBVIOUS
  <1>1. ASSUME IInv, TablesInv PROVE RestoredOnDestroy
    <2> SUFFICES ASSUME \A h \in Handlers : ~live[h], NEW s \in Signals
                 PROVE  disposition[s] = "application"
      BY DEF RestoredOnDestroy
    <2>1. \A h \in Handlers, k \in Nat : ~Held(h, k)
      BY <1>1 DEF TablesInv, TablesOfLive, Held, Entry
    <2> QED
      BY <1>1, <2>1 DEF TablesInv, CaughtWhileHeld, IInv, TypeOK, ProcessType
  <1> QED
    BY TablesInvariance, <1>1, PTL
=============================================================================
