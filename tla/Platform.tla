------------------------------- MODULE Platform -------------------------------
(****************************************************************************)
(* What the library finds out about the machine, and how it pins a thread:  *)
(* src/platform/bc_concurrency_platform.c.                                  *)
(*                                                                          *)
(* A machine is a record:                                                   *)
(*   files    the CPUs that have a topology file in sysfs                   *)
(*   core_id  per CPU: the number in that file, and                         *)
(*   package  the number of the socket, which nobody reads: a core is a     *)
(*            package and a core_id within it                               *)
(*   online   what sysconf says                                             *)
(*   allowed  the CPUs the kernel lets this process use: its cpuset         *)
(*                                                                          *)
(* Operators named X_Fault are faulty variants, as in WorkerPool.           *)
(****************************************************************************)
EXTENDS Integers, FiniteSets

CONSTANT MaxCpus        (* BC_CONCURRENCY_MAX_CPUS                           *)

Cpus == 0 .. MaxCpus - 1

(* bc_concurrency_platform_get_cpu_count *)
CpuCount(m) == IF m.online < 1 THEN 1 ELSE m.online

(* Both loops over the CPUs end at the first that has no topology file, and *)
(* pass over those whose core_id is out of range.                           *)
Scanned(m) ==
  {c \in Cpus : 0 .. c \subseteq m.files /\ m.core_id[c] \in 0 .. MaxCpus - 1}

(* The CPUs at which a core_id is seen for the first time.  Their SMT       *)
(* siblings are passed over.                                                *)
CoreLeaders(m) ==
  {c \in Scanned(m) : \A d \in Scanned(m) : d < c => m.core_id[d] # m.core_id[c]}

(* bc_concurrency_platform_get_physical_core_count *)
PhysicalCoreCount(m) ==
  IF CoreLeaders(m) = {} THEN CpuCount(m) ELSE Cardinality(CoreLeaders(m))

(* bc_concurrency_platform_pin_current_thread_to_physical_core: the CPU it  *)
(* goes to is the one found after k others, if there is one,                *)
CoreCpu_AnySibling(m, k) == {c \in Scanned(m) : c = k}

CoreCpu(m, k) ==
  {c \in CoreLeaders(m) : Cardinality({d \in CoreLeaders(m) : d < c}) = k}

(* and pthread_setaffinity_np changes nothing if the kernel does not allow  *)
(* that CPU.  The affinity of the thread before and after:                  *)
Pinned(m, k, affinity) ==
  IF CoreCpu(m, k) \cap m.allowed # {} THEN CoreCpu(m, k) ELSE affinity
=============================================================================
