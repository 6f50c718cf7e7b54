---------------------------- MODULE CoreAssignment ----------------------------
(****************************************************************************)
(* Which thread runs on which core: the configuration checks of             *)
(* bc_concurrency_create, the threads it pins and those that spawn_workers  *)
(* creates (src/context/bc_concurrency.c), on the machines of Platform.     *)
(*                                                                          *)
(* Threads are numbered by the core they ask for, counted from core_offset: *)
(* 0 is the main thread, i + 1 is worker i.  The handing over of work is    *)
(* left to WorkerPool, the single allocations to ContextLifecycle; here     *)
(* only their sizes matter, which wrap around.                              *)
(*                                                                          *)
(* Operators named X_Fault are faulty variants, as in WorkerPool.           *)
(****************************************************************************)
EXTENDS SizeT, Platform

CONSTANTS
  Machines,
  Offsets, Counts,      (* core_offset and worker_count of configurations    *)
  SizeOfThread, SizeOfWork, SizeOfWorker,
  MaxAllocation         (* the largest block that may be had                 *)

(* What can be allocated, and a thread's data for each CPU, stay together   *)
(* below SIZE_MAX; a process may run on at least one of the CPUs seen.      *)
ASSUME CoreAssumption ==
  /\ MaxCpus \in Nat /\ SizeOfThread \in Nat \ {0} /\ MaxAllocation \in Nat
  /\ Offsets \subseteq Word /\ Counts \subseteq Word
  /\ \A m \in Machines :
       /\ m.online \in Int
       /\ m.allowed \in (SUBSET Cpus) \ {{}}
       /\ \A most \in {MaxCpus, CpuCount(m)} :
            SizeOfThread * most + MaxAllocation < 2^Width

VARIABLES
  machine,      (* does not change                                           *)
  context,      (* thread_count and core_offset, while there is a context    *)
  affinity,     (* per existing thread: the CPUs it may run on               *)
  settled       (* the threads that have pinned themselves, or tried to      *)

coreVars == <<machine, context, affinity, settled>>

NoContext == [exists |-> FALSE, thread_count |-> 0, core_offset |-> 0]

(* bc_concurrency_config_t, or NULL *)
Configs ==
  [core_offset : Offsets, worker_count_explicit : BOOLEAN, worker_count : Counts]
    \cup {[core_offset |-> 0, worker_count_explicit |-> FALSE, worker_count |-> 0]}

Cores == PhysicalCoreCount(machine)

ThreadCount(config) ==
  IF config.worker_count_explicit THEN config.worker_count
  ELSE IF Cores > 1 THEN Cores - 1 ELSE 0

Accepted(config) ==
  /\ config.core_offset < Cores
  /\ \/ ThreadCount(config) = 0
     \/ Wrap(config.core_offset + ThreadCount(config)) < Cores

(* The arrays sized by thread_count can be had.                             *)
Allocates(bytes) == Wrap(bytes) <= MaxAllocation

ArraysFit_NoThreads(n) ==
  Allocates((n + 1) * SizeOfWork) /\ Allocates((n + 1) * SizeOfWorker)

ArraysFit(n) ==
  /\ Allocates((n + 1) * SizeOfWork)
  /\ n > 0 => Allocates(n * SizeOfThread)
  /\ Allocates((n + 1) * SizeOfWorker)

CoreInit ==
  /\ machine \in Machines
  /\ context = NoContext
  /\ affinity = [t \in {0} |-> machine.allowed]
  /\ settled = {}

(* bc_concurrency_create.  Once the configuration is accepted, the calling  *)
(* thread is pinned, even if an allocation fails after that.  A context     *)
(* keeps its number of threads while it exists.                             *)
PinMain(config) ==
  affinity' = [affinity EXCEPT ![0] = Pinned(machine, config.core_offset, @)]

Create(config) ==
  /\ ~context.exists /\ Accepted(config) /\ ArraysFit(ThreadCount(config))
  /\ PinMain(config)
  /\ context' = [exists |-> TRUE, thread_count |-> ThreadCount(config),
                 core_offset |-> config.core_offset]
  /\ settled' = {0}
  /\ UNCHANGED machine

CreateFails(config) ==
  /\ ~context.exists /\ Accepted(config)
  /\ PinMain(config)
  /\ UNCHANGED <<machine, context, settled>>

Spawned == DOMAIN affinity # {0}

(* spawn_workers, when a call first needs them: a new thread inherits the   *)
(* affinity of the one that creates it,                                     *)
Spawn ==
  /\ context.exists /\ context.thread_count > 0 /\ ~Spawned
  /\ affinity' = [t \in 0 .. context.thread_count |-> affinity[0]]
  /\ UNCHANGED <<machine, context, settled>>

(* and worker_thread_routine begins by pinning itself.  Whether that works  *)
(* is not looked at.                                                        *)
WorkerPins(w) ==
  /\ Spawned /\ w + 1 \in DOMAIN affinity \ settled
  /\ affinity' = [affinity EXCEPT
       ![w + 1] = Pinned(machine, Wrap(context.core_offset + 1 + w), @)]
  /\ settled' = settled \cup {w + 1}
  /\ UNCHANGED <<machine, context>>

(* bc_concurrency_destroy joins the workers, all of which have pinned       *)
(* themselves before they see should_stop.  The main thread stays pinned.   *)
Destroy_NoJoin ==
  /\ context.exists /\ DOMAIN affinity \subseteq settled
  /\ context' = NoContext
  /\ UNCHANGED <<machine, affinity, settled>>

Destroy ==
  /\ context.exists /\ DOMAIN affinity \subseteq settled
  /\ context' = NoContext
  /\ affinity' = [t \in {0} |-> affinity[0]]
  /\ settled' = {}
  /\ UNCHANGED machine

WorkerStep == \E w \in 0 .. MaxCpus - 1 : WorkerPins(w)

CoreNext ==
  \/ \E config \in Configs : Create(config) \/ CreateFails(config)
  \/ Spawn
  \/ WorkerStep
  \/ Destroy
-----------------------------------------------------------------------------
CoreTypeOK ==
  /\ machine \in Machines
  /\ context \in [exists : BOOLEAN, thread_count : Word, core_offset : Word]
  /\ DOMAIN affinity \in {{0}, 0 .. context.thread_count}
  /\ \A t \in DOMAIN affinity : affinity[t] \in (SUBSET Cpus) \ {{}}
  /\ settled \subseteq DOMAIN affinity

(* The cores a thread may run on.                                           *)
CoresOf(t) == {<<machine.package[c], machine.core_id[c]>> : c \in affinity[t]}

(* No two threads that have pinned themselves share a core:                 *)
(* "No two threads share a physical core"                                   *)
(* (tests/test_bc_concurrency_physical_isolation.c:13-14).                  *)
NoSharedCore ==
  \A t, u \in settled : t # u => CoresOf(t) \cap CoresOf(u) = {}

(* What holds of that: if the topology can be read and the kernel allows    *)
(* the process all the cores found there, then every thread is pinned to a  *)
(* core of its own, whatever the configuration, with SMT siblings, core     *)
(* numbers with gaps or repeated on another socket, or CPUs that cannot be  *)
(* seen (bc_concurrency_create, worker_thread_routine).                     *)
ThreadsOnOwnCores ==
  LET leaders == CoreLeaders(machine)
  IN  leaders # {} /\ leaders \subseteq machine.allowed
        => /\ NoSharedCore
           /\ \A t \in settled : Cardinality(affinity[t]) = 1

(* A context has the threads its configuration asks for and a core for each *)
(* in the count of cores: core_offset + thread_count does not wrap around   *)
(* and pass the check of bc_concurrency_create.  (The check alone does not  *)
(* see to that: the array of threads is then too large to be allocated.)    *)
ConfigHonoured ==
  context.exists => context.core_offset + context.thread_count < Cores
=============================================================================
