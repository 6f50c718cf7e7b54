--------------------------- MODULE SizedCallsProofs ---------------------------
(****************************************************************************)
(* Theorems about SizedCalls for every width of size_t, every set of        *)
(* machines and of configurations: the cores and the threads of a context,  *)
(* the indices of a parallel for, and the slots of a queue.                 *)
(****************************************************************************)
EXTENDS SizedCalls, PartitionProofs

(****************************************************************************)
(* Sizes.                                                                   *)
(****************************************************************************)
(* Words are the numbers below 2^Width, and wrapping leaves them alone.     *)
LEMMA Words ==
  /\ 2^Width \in Nat \ {0}
  /\ \A n : n \in Word <=> n \in Nat /\ n < 2^Width
  /\ \A n \in Nat : n < 2^Width => Wrap(n) = n
  <1>1. 2^Width \in Nat \ {0}
    BY SizeTAssumption
  <1> DEFINE M == 2^Width
  <1>2. \A n : n \in Word <=> n \in Nat /\ n < M
    <2>1. M \in Nat \ {0} /\ Word = 0 .. M - 1
      BY <1>1 DEF Word
    <2> HIDE DEF M
    <2> QED
      BY <2>1
  <1>3. ASSUME NEW n \in Nat, n < M PROVE Wrap(n) = n
    <2>1. M \in Nat \ {0} /\ Wrap(n) = n % M
      BY <1>1 DEF Wrap
    <2> HIDE DEF M
    <2>2. n = M * 0 + n
      BY <2>1
    <2>3. n % M = n
      BY <1>3, <2>1, <2>2, RemainderUnique
    <2> QED
      BY <2>1, <2>3
  <1> QED
    BY <1>1, <1>2, <1>3

(****************************************************************************)
(* Platform: the core a thread asks for by its number.                      *)
(****************************************************************************)
(* The leaders are some of the CPUs, each with a core of its own.           *)
LEMMA Leaders ==
  ASSUME NEW m, MaxCpus \in Nat
  PROVE  /\ CoreLeaders(m) \subseteq Cpus /\ Cpus \subseteq Nat
         /\ IsFiniteSet(CoreLeaders(m))
         /\ Cardinality(CoreLeaders(m)) \in 0 .. MaxCpus
         /\ \A c, d \in CoreLeaders(m) : c # d => m.core_id[c] # m.core_id[d]
  <1>1. CoreLeaders(m) \subseteq Cpus /\ Cpus \subseteq Nat
    BY DEF CoreLeaders, Scanned, Cpus
  <1>2. IsFiniteSet(Cpus) /\ Cardinality(Cpus) = MaxCpus
    <2>1. 0 \in Int /\ MaxCpus - 1 \in Int
      OBVIOUS
    <2>2. /\ IsFiniteSet(Cpus)
          /\ Cardinality(Cpus) = IF 0 > MaxCpus - 1 THEN 0 ELSE MaxCpus - 1 - 0 + 1
      BY <2>1, FS_Interval DEF Cpus
    <2> QED
      BY <2>2
  <1>3. IsFiniteSet(CoreLeaders(m)) /\ Cardinality(CoreLeaders(m)) <= MaxCpus
    BY <1>1, <1>2, FS_Subset
  <1>4. Cardinality(CoreLeaders(m)) \in Nat
    BY <1>3, FS_CardinalityType
  <1>5. \A c, d \in CoreLeaders(m) : c < d => m.core_id[d] # m.core_id[c]
    BY DEF CoreLeaders
  <1>6. \A c, d \in CoreLeaders(m) : c # d => c < d \/ d < c
    <2> TAKE c \in CoreLeaders(m), d \in CoreLeaders(m)
    <2>1. c \in Nat /\ d \in Nat
      BY <1>1
    <2> QED
      BY <2>1
  <1> QED
    BY <1>1, <1>3, <1>4, <1>5, <1>6

(* CoreCpu(m, k) is one leader for every k up to the number of cores, and a *)
(* different one for every k.                                               *)
LEMMA OneCpuPerCore ==
  ASSUME NEW m, MaxCpus \in Nat, NEW k \in Nat
  PROVE  /\ CoreCpu(m, k) \subseteq CoreLeaders(m)
         /\ k < Cardinality(CoreLeaders(m)) => \E c \in CoreLeaders(m) : CoreCpu(m, k) = {c}
         /\ \A j \in Nat : j # k => CoreCpu(m, j) \cap CoreCpu(m, k) = {}
  <1> DEFINE L == CoreLeaders(m)
             Rank(c) == Cardinality({d \in L : d < c})
  <1>1. L \subseteq Nat /\ IsFiniteSet(L) /\ Cardinality(L) \in Nat
    BY Leaders
  <1>2. \A j : CoreCpu(m, j) = {c \in L : Rank(c) = j}
    BY DEF CoreCpu
  <1> HIDE DEF L
  <1>3. /\ \A c, d \in L : c < d => Rank(c) # Rank(d)
        /\ \A j \in 0 .. Cardinality(L) - 1 : \E c \in L : Rank(c) = j
    BY <1>1, Ranks
  <1> HIDE DEF Rank
  <1>4. \A c, d \in L : Rank(c) = Rank(d) => c = d
    <2> TAKE c \in L, d \in L
    <2>1. c < d \/ d < c \/ c = d
      BY <1>1
    <2> QED
      BY <1>3, <2>1
  <1>5. ASSUME k < Cardinality(L) PROVE \E c \in L : CoreCpu(m, k) = {c}
    <2>1. k \in 0 .. Cardinality(L) - 1
      BY <1>1, <1>5
    <2>2. PICK c \in L : Rank(c) = k
      BY <1>3, <2>1
    <2> QED
      BY <1>2, <1>4, <2>2
  <1>6. \A j \in Nat : j # k => CoreCpu(m, j) \cap CoreCpu(m, k) = {}
    BY <1>2
  <1>7. CoreCpu(m, k) \subseteq L
    BY <1>2
  <1> QED
    BY <1>5, <1>6, <1>7 DEF L
-----------------------------------------------------------------------------
(****************************************************************************)
(* CoreAssignment: the inductive invariant.  Without a context nothing is   *)
(* settled; with one, a settled thread runs on the core it asked for, if it *)
(* could have it.                                                           *)
(****************************************************************************)
NothingWithout ==
  ~context.exists => context = NoContext /\ DOMAIN affinity = {0} /\ settled = {}

Readable == CoreLeaders(machine) # {} /\ CoreLeaders(machine) \subseteq machine.allowed

OnCores ==
  Readable => \A t \in settled : affinity[t] = CoreCpu(machine, context.core_offset + t)

CoreInv == CoreTypeOK /\ NothingWithout /\ ConfigHonoured /\ OnCores

(* There are a number of cores, and the data of a thread for each of them   *)
(* is far from filling the address space.                                   *)
LEMMA CoresType ==
  ASSUME machine \in Machines
  PROVE  /\ Cores \in Nat
         /\ SizeOfThread * Cores + MaxAllocation < 2^Width
         /\ Cores < 2^Width
         /\ CoreLeaders(machine) # {} => Cores = Cardinality(CoreLeaders(machine))
  <1>1. /\ machine.online \in Int
        /\ \A most \in {MaxCpus, CpuCount(machine)} :
             SizeOfThread * most + MaxAllocation < 2^Width
    BY CoreAssumption
  <1>2. CpuCount(machine) \in Nat
    BY <1>1 DEF CpuCount
  <1>3. /\ MaxCpus \in Nat /\ SizeOfThread \in Nat \ {0} /\ MaxAllocation \in Nat
        /\ 2^Width \in Nat
    BY CoreAssumption, Words
  <1>4. \E most \in {MaxCpus, CpuCount(machine)} : Cores \in Nat /\ Cores <= most
    <2>1. CASE CoreLeaders(machine) = {}
      <3>1. Cores = CpuCount(machine)
        BY <2>1 DEF Cores, PhysicalCoreCount
      <3> QED
        BY <1>2, <3>1
    <2>2. CASE CoreLeaders(machine) # {}
      <3>1. Cores = Cardinality(CoreLeaders(machine))
        BY <2>2 DEF Cores, PhysicalCoreCount
      <3>2. Cardinality(CoreLeaders(machine)) \in 0 .. MaxCpus
        BY <1>3, Leaders
      <3> QED
        BY <1>3, <3>1, <3>2
    <2> QED
      BY <2>1, <2>2
  <1>5. PICK most \in {MaxCpus, CpuCount(machine)} : Cores \in Nat /\ Cores <= most
    BY <1>4
  <1>6. most \in Nat /\ SizeOfThread * most + MaxAllocation < 2^Width
    BY <1>1, <1>2, <1>3, <1>5
  <1>7. SizeOfThread * Cores + MaxAllocation < 2^Width /\ Cores <= SizeOfThread * Cores
    <2>1. PICK c \in Nat : c = Cores
      BY <1>5
    <2>2. PICK M \in Nat : M = 2^Width
      BY <1>3
    <2>3. c * SizeOfThread <= most * SizeOfThread /\ c * SizeOfThread \in Nat
      BY <1>3, <1>5, <1>6, <2>1, Monotone
    <2>4. 1 * c <= SizeOfThread * c /\ 1 * c = c
      BY <1>3, <2>1, Monotone
    <2>5. c * SizeOfThread = SizeOfThread * c /\ most * SizeOfThread = SizeOfThread * most
      BY <1>3, <1>6, SMT
    <2> QED
      BY <1>3, <1>6, <2>1, <2>2, <2>3, <2>4, <2>5
  <1>8. CoreLeaders(machine) # {} => Cores = Cardinality(CoreLeaders(machine))
    BY DEF Cores, PhysicalCoreCount
  <1>9. Cores < 2^Width
    <2>1. PICK M \in Nat : M = 2^Width
      BY <1>3
    <2>2. SizeOfThread * Cores + MaxAllocation < M
      BY <1>7, <2>1
    <2>3. PICK x \in Nat : x = SizeOfThread * Cores
      BY <1>3, <1>5, SMT
    <2>4. Cores < M
      BY <1>3, <1>5, <1>7, <2>2, <2>3
    <2> QED
      BY <2>1, <2>4
  <1> QED
    BY <1>5, <1>7, <1>8, <1>9

(* What a configuration asks for is a word.                                 *)
LEMMA ConfigType ==
  ASSUME machine \in Machines, NEW config \in Configs
  PROVE  config.core_offset \in Word /\ ThreadCount(config) \in Word
  <1>1. 0 \in Word
    BY Words
  <1>2. config.core_offset \in Word /\ config.worker_count \in Word
    BY <1>1, CoreAssumption DEF Configs
  <1>3. Cores > 1 => Cores - 1 \in Word
    <2>1. PICK c \in Nat : c = Cores /\ c < 2^Width
      BY CoresType
    <2>2. PICK M \in Nat : M = 2^Width
      BY Words
    <2>3. c > 1 => c - 1 \in Nat /\ c - 1 < M
      BY <2>1, <2>2
    <2> QED
      BY <2>1, <2>2, <2>3, Words
  <1> QED
    BY <1>1, <1>2, <1>3 DEF ThreadCount

(* The sum that wraps around and passes the check belongs to so many        *)
(* threads that the array of them, whose size wraps around too, cannot be   *)
(* allocated.                                                               *)
LEMMA SumDoesNotWrap ==
  ASSUME machine \in Machines, NEW config \in Configs,
         Accepted(config), ArraysFit(ThreadCount(config))
  PROVE  config.core_offset + ThreadCount(config) < Cores
  <1>1. PICK off \in Nat, n \in Nat, M \in Nat \ {0}, c \in Nat, S \in Nat \ {0} :
          /\ off = config.core_offset /\ n = ThreadCount(config) /\ M = 2^Width
          /\ c = Cores /\ S = SizeOfThread
    BY ConfigType, CoresType, CoreAssumption, Words
  <1>2. off < c /\ (n = 0 \/ Wrap(off + n) < c) /\ n < M /\ off < M
    BY <1>1, ConfigType, Words DEF Accepted
  <1>3. CASE n = 0
    BY <1>1, <1>2, <1>3
  <1>4. CASE off + n < M
    <2>1. Wrap(off + n) = off + n
      BY <1>1, <1>4, Words
    <2>2. off + n < c
      BY <1>2, <1>3, <2>1
    <2> QED
      BY <1>1, <2>2
  <1>5. CASE n # 0 /\ M <= off + n
    <2>1. PICK d \in Nat : M = n + d
      <3>1. M - n \in Nat /\ M = n + (M - n)
        BY <1>2
      <3> QED
        BY <3>1
    <2>2. 1 <= d /\ d <= off /\ d < c
      BY <1>2, <1>5, <2>1
    <2>3. PICK K \in Nat : K = MaxAllocation /\ S * c + K < M
      BY <1>1, CoresType, CoreAssumption
    <2>4. d * S \in Nat /\ c * S \in Nat /\ d * S + S <= c * S /\ S * c = c * S
      <3>1. d * S \in Nat /\ c * S \in Nat /\ d * S + S <= c * S
        BY <2>2, Strictly
      <3>2. S * c = c * S
        BY SMT
      <3> QED
        BY <3>1, <3>2
    <2>5. 1 <= d * S
      <3>1. 1 * S <= d * S /\ 1 * S = S
        BY <2>2, Monotone
      <3> QED
        BY <2>4, <3>1
    <2>6. PICK x \in Nat : x = d * S
      BY <2>4
    <2>7. n * S = M * (S - 1) + (M - x)
      <3>1. M * S = n * S + d * S
        BY <2>1, Distributes
      <3>2. PICK s \in Nat : S = s + 1
        <4>1. S - 1 \in Nat /\ S = (S - 1) + 1
          OBVIOUS
        <4> QED
          BY <4>1
      <3>3. (s + 1) * M = s * M + 1 * M /\ 1 * M = M
        BY <3>2, Distributes
      <3>4. M * S = (s + 1) * M /\ s * M = M * s /\ S - 1 = s
        BY <3>2, SMT
      <3>5. n * S \in Nat /\ M * S \in Nat /\ M * s \in Nat
        BY <3>2, SMT
      <3> QED
        BY <2>6, <3>1, <3>2, <3>3, <3>4, <3>5
    <2>8. M - x \in Nat /\ M - x < M /\ K < M - x
      BY <2>3, <2>4, <2>5, <2>6
    <2>9. (n * S) % M = M - x
      <3>1. n * S \in Nat /\ S - 1 \in Nat
        BY SMT
      <3> QED
        BY <2>7, <2>8, <3>1, RemainderUnique
    <2>10. Wrap(n * S) <= K
      BY <1>1, <1>5, <2>3 DEF ArraysFit, Allocates
    <2>11. Wrap(n * S) = (n * S) % M
      BY <1>1 DEF Wrap
    <2> QED
      BY <2>3, <2>8, <2>9, <2>10, <2>11
  <1> QED
    BY <1>1, <1>2, <1>3, <1>4, <1>5

(* Pinning moves a thread to CPUs of the machine, or nowhere; and a thread  *)
(* whose core can be had runs on that core.                                 *)
LEMMA PinnedType ==
  ASSUME machine \in Machines, NEW k, NEW cpus \in (SUBSET Cpus) \ {{}}
  PROVE  Pinned(machine, k, cpus) \in (SUBSET Cpus) \ {{}}
  <1>1. CoreCpu(machine, k) \subseteq Cpus
    BY DEF CoreCpu, CoreLeaders, Scanned
  <1>2. CASE CoreCpu(machine, k) \cap machine.allowed # {}
    <2>1. PICK c : c \in CoreCpu(machine, k)
      BY <1>2
    <2>2. Pinned(machine, k, cpus) = CoreCpu(machine, k)
      BY <1>2 DEF Pinned
    <2>3. CoreCpu(machine, k) \notin {{}}
      BY <2>1
    <2>4. CoreCpu(machine, k) \in SUBSET Cpus
      BY <1>1
    <2> QED
      BY <2>2, <2>3, <2>4
  <1>3. CASE CoreCpu(machine, k) \cap machine.allowed = {}
    BY <1>3 DEF Pinned
  <1> QED
    BY <1>2, <1>3

(* A thread that asks for a core that can be seen and is allowed gets it.   *)
LEMMA PinnedThere ==
  ASSUME machine \in Machines, Readable, NEW k \in Nat, k < Cores, NEW cpus
  PROVE  Pinned(machine, k, cpus) = CoreCpu(machine, k)
  <1>1. k < Cardinality(CoreLeaders(machine))
    BY CoresType DEF Readable
  <1>2. PICK c \in CoreLeaders(machine) : CoreCpu(machine, k) = {c}
    BY <1>1, OneCpuPerCore, CoreAssumption
  <1>3. c \in machine.allowed
    BY DEF Readable
  <1> QED
    BY <1>2, <1>3 DEF Pinned

(* The machine stays what it is, and with it the cores.                     *)
LEMMA SameMachine ==
  ASSUME machine' = machine
  PROVE  (Cores' = Cores) /\ (Readable' = Readable)
  BY DEF Cores, Readable

(* At first there is no context and one thread.                             *)
LEMMA CoreInitial ==
  ASSUME CoreInit
  PROVE  CoreInv
  <1>1. machine \in Machines /\ context = NoContext /\ settled = {}
        /\ affinity = [t \in {0} |-> machine.allowed]
    BY DEF CoreInit
  <1>2. machine.allowed \in (SUBSET Cpus) \ {{}}
    BY <1>1, CoreAssumption
  <1>3. CoreTypeOK
    <2>1. 0 \in Word
      BY Words
    <2>2. context \in [exists : BOOLEAN, thread_count : Word, core_offset : Word]
      BY <1>1, <2>1 DEF NoContext
    <2>3. DOMAIN affinity = {0} /\ \A t \in DOMAIN affinity : affinity[t] \in (SUBSET Cpus) \ {{}}
      BY <1>1, <1>2
    <2> QED
      BY <1>1, <2>2, <2>3 DEF CoreTypeOK
  <1>4. NothingWithout /\ ConfigHonoured /\ OnCores
    BY <1>1 DEF NothingWithout, ConfigHonoured, OnCores, NoContext
  <1> QED
    BY <1>3, <1>4 DEF CoreInv

(* create keeps the invariant.                                              *)
LEMMA CreateStep ==
  ASSUME CoreInv, NEW config \in Configs, Create(config)
  PROVE  CoreInv'
  <1> DEFINE n == ThreadCount(config)
             off == config.core_offset
  <1>1. /\ ~context.exists /\ Accepted(config) /\ ArraysFit(n)
        /\ affinity' = [affinity EXCEPT ![0] = Pinned(machine, off, @)]
        /\ context' = [exists |-> TRUE, thread_count |-> n, core_offset |-> off]
        /\ settled' = {0} /\ machine' = machine
    BY DEF Create, PinMain
  <1>2. machine \in Machines /\ DOMAIN affinity = {0} /\ affinity[0] \in (SUBSET Cpus) \ {{}}
    BY <1>1 DEF CoreInv, CoreTypeOK, NothingWithout
  <1>3. n \in Word /\ off \in Word /\ n \in Nat /\ off \in Nat
    BY <1>2, ConfigType, Words
  <1>4. off + n < Cores
    BY <1>1, <1>2, SumDoesNotWrap
  <1> HIDE DEF n, off
  <1>5. DOMAIN affinity' = {0} /\ affinity'[0] = Pinned(machine, off, affinity[0])
    BY <1>1, <1>2
  <1>6. CoreTypeOK'
    <2>1. context' \in [exists : BOOLEAN, thread_count : Word, core_offset : Word]
      BY <1>1, <1>3
    <2>2. Pinned(machine, off, affinity[0]) \in (SUBSET Cpus) \ {{}}
      BY <1>2, PinnedType
    <2>3. \A t \in DOMAIN affinity' : affinity'[t] \in (SUBSET Cpus) \ {{}}
      BY <1>5, <2>2
    <2> QED
      BY <1>1, <1>2, <1>5, <2>1, <2>3 DEF CoreTypeOK
  <1>7. NothingWithout'
    BY <1>1 DEF NothingWithout
  <1>8. ConfigHonoured'
    <2>1. Cores' = Cores
      BY <1>1, SameMachine
    <2> QED
      BY <1>1, <1>4, <2>1 DEF ConfigHonoured
  <1>9. OnCores'
    <2>1. ASSUME Readable PROVE affinity'[0] = CoreCpu(machine, off)
      <3>1. off < Cores
        <4>1. PICK c \in Nat : c = Cores
          BY <1>2, CoresType
        <4>2. off + n < c
          BY <1>4, <4>1
        <4> QED
          BY <1>3, <4>1, <4>2
      <3> QED
        BY <1>2, <1>3, <1>5, <2>1, <3>1, PinnedThere
    <2>2. Readable' = Readable
      BY <1>1, SameMachine
    <2>3. off + 0 = off
      BY <1>3
    <2> QED
      BY <1>1, <2>1, <2>2, <2>3 DEF OnCores
  <1> QED
    BY <1>6, <1>7, <1>8, <1>9 DEF CoreInv

(* A create that fails after it has pinned keeps the invariant.             *)
LEMMA CreateFailsStep ==
  ASSUME CoreInv, NEW config \in Configs, CreateFails(config)
  PROVE  CoreInv'
  <1>1. /\ ~context.exists
        /\ affinity' = [affinity EXCEPT ![0] = Pinned(machine, config.core_offset, @)]
        /\ context' = context /\ settled' = settled /\ machine' = machine
    BY DEF CreateFails, PinMain
  <1>2. /\ machine \in Machines /\ DOMAIN affinity = {0} /\ settled = {}
        /\ affinity[0] \in (SUBSET Cpus) \ {{}} /\ context = NoContext
    BY <1>1 DEF CoreInv, CoreTypeOK, NothingWithout
  <1>3. /\ DOMAIN affinity' = {0}
        /\ affinity'[0] = Pinned(machine, config.core_offset, affinity[0])
    BY <1>1, <1>2
  <1>4. affinity'[0] \in (SUBSET Cpus) \ {{}}
    BY <1>2, <1>3, PinnedType
  <1>5. CoreTypeOK'
    BY <1>1, <1>2, <1>3, <1>4 DEF CoreInv, CoreTypeOK
  <1>6. NothingWithout' /\ ConfigHonoured' /\ OnCores'
    BY <1>1, <1>2, <1>3 DEF NothingWithout, ConfigHonoured, OnCores
  <1> QED
    BY <1>5, <1>6 DEF CoreInv

(* The first call that needs threads creates them.                          *)
LEMMA SpawnStep ==
  ASSUME CoreInv, Spawn
  PROVE  CoreInv'
  <1>1. /\ context.exists /\ ~Spawned
        /\ affinity' = [t \in 0 .. context.thread_count |-> affinity[0]]
        /\ context' = context /\ settled' = settled /\ machine' = machine
    BY DEF Spawn
  <1>2. /\ DOMAIN affinity = {0} /\ affinity[0] \in (SUBSET Cpus) \ {{}}
        /\ settled \subseteq {0} /\ context.thread_count \in Nat
    <2>1. DOMAIN affinity = {0}
      BY <1>1 DEF Spawned
    <2>2. context.thread_count \in Word
      BY DEF CoreInv, CoreTypeOK
    <2> QED
      BY <2>1, <2>2, Words DEF CoreInv, CoreTypeOK
  <1>3. 0 \in DOMAIN affinity' /\ affinity'[0] = affinity[0]
    BY <1>1, <1>2
  <1>4. CoreTypeOK'
    <2>1. DOMAIN affinity' = 0 .. context'.thread_count
      BY <1>1
    <2>2. \A t \in DOMAIN affinity' : affinity'[t] \in (SUBSET Cpus) \ {{}}
      BY <1>1, <1>2
    <2> QED
      BY <1>1, <1>2, <1>3, <2>1, <2>2 DEF CoreInv, CoreTypeOK
  <1>5. NothingWithout' /\ ConfigHonoured'
    BY <1>1, SameMachine DEF CoreInv, NothingWithout, ConfigHonoured
  <1>6. OnCores'
    <2>1. Readable' = Readable
      BY <1>1, SameMachine
    <2>2. \A t \in settled : affinity'[t] = affinity[t]
      BY <1>2, <1>3
    <2> QED
      BY <1>1, <2>1, <2>2 DEF CoreInv, OnCores
  <1> QED
    BY <1>4, <1>5, <1>6 DEF CoreInv

(* A worker pins itself to a core nobody else asks for.                     *)
LEMMA WorkerPinsStep ==
  ASSUME CoreInv, NEW w \in 0 .. MaxCpus - 1, WorkerPins(w)
  PROVE  CoreInv'
  <1> DEFINE k == Wrap(context.core_offset + 1 + w)
  <1>1. /\ Spawned /\ w + 1 \in DOMAIN affinity \ settled
        /\ affinity' = [affinity EXCEPT ![w + 1] = Pinned(machine, k, @)]
        /\ settled' = settled \cup {w + 1}
        /\ context' = context /\ machine' = machine
    BY DEF WorkerPins
  <1> HIDE DEF k
  <1>2. machine \in Machines /\ affinity[w + 1] \in (SUBSET Cpus) \ {{}}
    BY <1>1 DEF CoreInv, CoreTypeOK
  <1>3. /\ DOMAIN affinity' = DOMAIN affinity
        /\ affinity'[w + 1] = Pinned(machine, k, affinity[w + 1])
        /\ \A t \in DOMAIN affinity : t # w + 1 => affinity'[t] = affinity[t]
    BY <1>1
  <1>4. context.exists /\ DOMAIN affinity = 0 .. context.thread_count
    <2>1. DOMAIN affinity # {0}
      BY <1>1 DEF Spawned
    <2> QED
      BY <2>1 DEF CoreInv, CoreTypeOK, NothingWithout
  <1>5. PICK off \in Nat, n \in Nat, c \in Nat, v \in Nat :
          off = context.core_offset /\ n = context.thread_count /\ c = Cores /\ v = w
    <2>1. context.core_offset \in Word /\ context.thread_count \in Word
      BY DEF CoreInv, CoreTypeOK
    <2>2. w \in Nat
      BY CoreAssumption
    <2> QED
      BY <1>2, <2>1, <2>2, Words, CoresType
  <1>6. k = off + (v + 1) /\ off + (v + 1) < c
    <2>1. off + n < c
      BY <1>4, <1>5 DEF CoreInv, ConfigHonoured
    <2>2. v + 1 <= n
      BY <1>1, <1>4, <1>5
    <2>3. PICK M \in Nat : M = 2^Width /\ c < M
      BY <1>2, <1>5, Words, CoresType
    <2>4. off + 1 + v < 2^Width /\ off + 1 + v \in Nat /\ off + 1 + v = off + (v + 1)
      BY <2>1, <2>2, <2>3
    <2>5. k = off + 1 + v
      BY <1>5, <2>4, Words DEF k
    <2> QED
      BY <2>1, <2>2, <2>4, <2>5
  <1>7. CoreTypeOK'
    <2>1. affinity'[w + 1] \in (SUBSET Cpus) \ {{}}
      BY <1>2, <1>3, PinnedType
    <2>2. \A t \in DOMAIN affinity' : affinity'[t] \in (SUBSET Cpus) \ {{}}
      BY <1>3, <2>1 DEF CoreInv, CoreTypeOK
    <2> QED
      BY <1>1, <1>3, <2>2 DEF CoreInv, CoreTypeOK
  <1>8. NothingWithout' /\ ConfigHonoured'
    BY <1>1, <1>4, SameMachine DEF CoreInv, NothingWithout, ConfigHonoured
  <1>9. OnCores'
    <2>1. Readable' = Readable
      BY <1>1, SameMachine
    <2>2. ASSUME Readable, NEW t \in settled \cup {w + 1}
          PROVE  affinity'[t] = CoreCpu(machine, context.core_offset + t)
      <3>1. CASE t = w + 1
        <4>1. k \in Nat /\ k < Cores
          BY <1>5, <1>6
        <4>2. affinity'[w + 1] = CoreCpu(machine, k)
          BY <1>2, <1>3, <2>2, <4>1, PinnedThere
        <4> QED
          BY <1>5, <1>6, <3>1, <4>2
      <3>2. CASE t # w + 1
        <4>1. t \in settled /\ t \in DOMAIN affinity
          BY <2>2, <3>2 DEF CoreInv, CoreTypeOK
        <4> QED
          BY <1>3, <2>2, <3>2, <4>1 DEF CoreInv, OnCores
      <3> QED
        BY <3>1, <3>2
    <2> QED
      BY <1>1, <2>1, <2>2 DEF OnCores
  <1> QED
    BY <1>7, <1>8, <1>9 DEF CoreInv

(* destroy leaves the main thread where it is.                              *)
LEMMA DestroyStep ==
  ASSUME CoreInv, Destroy
  PROVE  CoreInv'
  <1>1. /\ context.exists /\ context' = NoContext /\ settled' = {} /\ machine' = machine
        /\ affinity' = [t \in {0} |-> affinity[0]]
    BY DEF Destroy
  <1>2. affinity[0] \in (SUBSET Cpus) \ {{}}
    <2>1. context.thread_count \in Nat
      BY Words DEF CoreInv, CoreTypeOK
    <2>2. 0 \in DOMAIN affinity
      BY <2>1 DEF CoreInv, CoreTypeOK
    <2> QED
      BY <2>2 DEF CoreInv, CoreTypeOK
  <1>3. CoreTypeOK'
    <2>1. context' \in [exists : BOOLEAN, thread_count : Word, core_offset : Word]
      BY <1>1, Words DEF NoContext
    <2>2. DOMAIN affinity' = {0} /\ affinity'[0] = affinity[0]
      BY <1>1
    <2> QED
      BY <1>1, <1>2, <2>1, <2>2 DEF CoreInv, CoreTypeOK
  <1>4. NothingWithout' /\ ConfigHonoured' /\ OnCores'
    BY <1>1 DEF NothingWithout, ConfigHonoured, OnCores, NoContext
  <1> QED
    BY <1>3, <1>4 DEF CoreInv

(* Each step keeps the invariant.                                           *)
LEMMA CoreStep ==
  ASSUME CoreInv, [CoreNext]_coreVars
  PROVE  CoreInv'
  <1>1. ASSUME NEW config \in Configs, Create(config) PROVE CoreInv'
    BY <1>1, CreateStep
  <1>2. ASSUME NEW config \in Configs, CreateFails(config) PROVE CoreInv'
    BY <1>2, CreateFailsStep
  <1>3. ASSUME NEW w \in 0 .. MaxCpus - 1, WorkerPins(w) PROVE CoreInv'
    BY <1>3, WorkerPinsStep
  <1>4. CASE UNCHANGED coreVars
    <2>1. machine' = machine /\ context' = context /\ affinity' = affinity
          /\ settled' = settled
      BY <1>4 DEF coreVars
    <2>2. CoreTypeOK' /\ NothingWithout'
      BY <2>1 DEF CoreInv, CoreTypeOK, NothingWithout
    <2>3. ConfigHonoured' /\ OnCores'
      BY <2>1, SameMachine DEF CoreInv, ConfigHonoured, OnCores
    <2> QED
      BY <2>2, <2>3 DEF CoreInv
  <1> QED
    BY <1>1, <1>2, <1>3, <1>4, SpawnStep, DestroyStep DEF CoreNext, WorkerStep

(* All of CoreAssignment is as the invariant says, in every state of every  *)
(* program that creates contexts, makes calls and destroys contexts         *)
(* (bc_concurrency_create, spawn_workers, worker_thread_routine,            *)
(* bc_concurrency_destroy).                                                 *)
THEOREM Invariance == Spec => []CoreInv
  <1>1. Init => CoreInv
    BY CoreInitial DEF Init
  <1>2. CoreInv /\ [Next]_vars => CoreInv'
    <2> SUFFICES ASSUME CoreInv, [Next]_vars PROVE CoreInv'
      OBVIOUS
    <2>1. [CoreNext]_coreVars
      BY DEF Next, vars, For, QueueCreate, RoundUp, QueueCreated, QueueFails, CoreNext
    <2> QED
      BY <2>1, CoreStep
  <1> QED
    BY <1>1, <1>2, PTL DEF Spec

(* A context, the affinities and the settled threads are of their types;    *)
(* only threads that exist have pinned themselves, and a thread always has  *)
(* a CPU to run on, whether pinning it worked or not.                       *)
THEOREM Typing == Spec => []CoreTypeOK
  <1>1. CoreInv => CoreTypeOK
    BY DEF CoreInv
  <1> QED
    BY <1>1, Invariance, PTL

(* bc_concurrency_create accepts no configuration for which core_offset +   *)
(* thread_count is the number of cores or more, on any width of size_t: the *)
(* sum may wrap around, the context is then never made.                     *)
THEOREM Configuration == Spec => []ConfigHonoured
  <1>1. CoreInv => ConfigHonoured
    BY DEF CoreInv
  <1> QED
    BY <1>1, Invariance, PTL

(* On a machine whose topology can be read and whose cores the process may  *)
(* use, every thread that has pinned itself runs on one CPU, and no two on  *)
(* the same core (bc_concurrency_create, worker_thread_routine,             *)
(* bc_concurrency_platform_pin_current_thread_to_physical_core).            *)
THEOREM OwnCores == Spec => []ThreadsOnOwnCores
  <1>1. ASSUME CoreInv, Readable
        PROVE  NoSharedCore /\ \A t \in settled : Cardinality(affinity[t]) = 1
    <2>1. context.exists \/ settled = {}
      BY <1>1 DEF CoreInv, NothingWithout
    <2>2. ASSUME NEW t \in settled
          PROVE  /\ context.core_offset + t \in Nat
                 /\ \E c \in CoreLeaders(machine) :
                      CoreCpu(machine, context.core_offset + t) = {c}
      <3>1. PICK off \in Nat, n \in Nat, c \in Nat :
              /\ off = context.core_offset /\ n = context.thread_count
              /\ c = Cores /\ c = Cardinality(CoreLeaders(machine)) /\ off + n < c
        <4>1. context.core_offset \in Word /\ context.thread_count \in Word
          BY <1>1 DEF CoreInv, CoreTypeOK
        <4>2. machine \in Machines
          BY <1>1 DEF CoreInv, CoreTypeOK
        <4>3. Cores \in Nat /\ Cores = Cardinality(CoreLeaders(machine))
          BY <1>1, <4>2, CoresType DEF Readable
        <4>4. context.core_offset + context.thread_count < Cores
          BY <1>1, <2>1, <2>2 DEF CoreInv, ConfigHonoured
        <4> QED
          BY <4>1, <4>3, <4>4, Words
      <3>2. t \in 0 .. n
        <4>1. t \in DOMAIN affinity
          BY <1>1 DEF CoreInv, CoreTypeOK
        <4>2. DOMAIN affinity = {0} \/ DOMAIN affinity = 0 .. n
          BY <1>1, <3>1 DEF CoreInv, CoreTypeOK
        <4> QED
          BY <3>1, <4>1, <4>2
      <3>3. off + t \in Nat /\ off + t < c
        BY <3>1, <3>2
      <3>4. \E d \in CoreLeaders(machine) : CoreCpu(machine, off + t) = {d}
        BY <3>1, <3>3, OneCpuPerCore, CoreAssumption
      <3> QED
        BY <3>1, <3>3, <3>4
    <2>3. \A t \in settled : affinity[t] = CoreCpu(machine, context.core_offset + t)
      BY <1>1 DEF CoreInv, OnCores
    <2>4. \A t \in settled : Cardinality(affinity[t]) = 1
      <3> TAKE t \in settled
      <3>1. PICK c : affinity[t] = {c}
        BY <2>2, <2>3
      <3>2. Cardinality({c}) = 1
        BY FS_Singleton
      <3> QED
        BY <3>1, <3>2
    <2>5. ASSUME NEW t \in settled, NEW u \in settled, t # u
          PROVE  CoresOf(t) \cap CoresOf(u) = {}
      <3>1. PICK c \in CoreLeaders(machine) : affinity[t] = {c}
        BY <2>2, <2>3
      <3>2. PICK d \in CoreLeaders(machine) : affinity[u] = {d}
        BY <2>2, <2>3
      <3>3. c # d
        <4>1. context.core_offset + t # context.core_offset + u
          <5>1. PICK n \in Nat : n = context.thread_count
            BY <1>1, Words DEF CoreInv, CoreTypeOK
          <5>2. \A v \in settled : v \in Nat
            BY <1>1, <5>1 DEF CoreInv, CoreTypeOK
          <5>3. context.core_offset \in Nat
            BY <1>1, Words DEF CoreInv, CoreTypeOK
          <5> QED
            BY <2>5, <5>2, <5>3
        <4>2. affinity[t] \cap affinity[u] = {}
          BY <2>2, <2>3, <4>1, OneCpuPerCore, CoreAssumption
        <4> QED
          BY <3>1, <3>2, <4>2
      <3>4. machine.core_id[c] # machine.core_id[d]
        BY <3>3, Leaders, CoreAssumption
      <3> QED
        BY <3>1, <3>2, <3>4 DEF CoresOf
    <2> QED
      BY <2>4, <2>5 DEF NoSharedCore
  <1>2. CoreInv => ThreadsOnOwnCores
    BY <1>1 DEF ThreadsOnOwnCores, Readable
  <1> QED
    BY <1>2, Invariance, PTL
-----------------------------------------------------------------------------
(****************************************************************************)
(* ForRange: the indices a parallel for visits.                             *)
(****************************************************************************)
(* A run has the indices numbered first + 1 to first + count of an          *)
(* arithmetic progression.  V has, as part p, those from O[p] + 1 to        *)
(* O[p] + C[p]; the parts divide the numbers 1 to total.                    *)
RunsFrom(run, first, count, start, step) ==
  /\ DOMAIN run = 1 .. count
  /\ \A k \in 1 .. count : run[k] = start + (first + k - 1) * step

Visited(V, parts, O, C, start, step) ==
  /\ DOMAIN V = 1 .. parts
  /\ \A p \in 1 .. parts : RunsFrom(V[p], O[p], C[p], start, step)

Divided(parts, O, C, total) ==
  /\ \A p \in 1 .. parts : O[p] \in Nat /\ C[p] \in Nat /\ O[p] + C[p] <= total
  /\ \A p, q \in 1 .. parts : p < q => O[p] + C[p] <= O[q]
  /\ \A j \in 1 .. total : \E p \in 1 .. parts : O[p] < j /\ j <= O[p] + C[p]

Progression(wanted, total, start, step) ==
  \A w : w \in wanted <=> \E j \in 1 .. total : w = start + (j - 1) * step

(* Every index is wanted and visited in one place.                          *)
EachOnce(V, wanted) ==
  LET places == UNION {{p} \X DOMAIN V[p] : p \in DOMAIN V}
  IN  /\ {V[q[1]][q[2]] : q \in places} = wanted
      /\ Cardinality(places) = Cardinality(wanted)

(* A number belongs to one of two ranges that do not overlap.               *)
LEMMA SameNumber ==
  \A x, y, c, d \in Nat : \A k \in 1 .. c, m \in 1 .. d :
    x + k - 1 = y + m - 1 =>
      ~(x + c <= y) /\ ~(y + d <= x) /\ (x = y => k = m)
  OBVIOUS

(* Then every index of the progression is visited in exactly one place.     *)
LEMMA OncePerPlace ==
  ASSUME NEW parts \in Nat, NEW V, NEW O, NEW C, NEW total \in Nat,
         NEW start \in Nat, NEW step \in Nat \ {0},
         Visited(V, parts, O, C, start, step), Divided(parts, O, C, total),
         NEW wanted, IsFiniteSet(wanted), Progression(wanted, total, start, step)
  PROVE  EachOnce(V, wanted)
  <1> DEFINE places == UNION {{p} \X DOMAIN V[p] : p \in DOMAIN V}
             f == [q \in places |-> V[q[1]][q[2]]]
  <1>1. \A q : q \in places <=> \E p \in 1 .. parts : \E k \in 1 .. C[p] : q = <<p, k>>
    <2>1. \A q : q \in places <=> \E p \in DOMAIN V : q \in {p} \X DOMAIN V[p]
      OBVIOUS
    <2>2. DOMAIN V = 1 .. parts /\ \A p \in 1 .. parts : DOMAIN V[p] = 1 .. C[p]
      BY DEF Visited, RunsFrom
    <2>3. \A p, S, q : q \in {p} \X S <=> \E k \in S : q = <<p, k>>
      OBVIOUS
    <2>4. ASSUME NEW p \in 1 .. parts, NEW q
          PROVE  q \in {p} \X DOMAIN V[p] <=> \E k \in 1 .. C[p] : q = <<p, k>>
      <3>1. q \in {p} \X (1 .. C[p]) <=> \E k \in 1 .. C[p] : q = <<p, k>>
        BY <2>3
      <3>2. DOMAIN V[p] = 1 .. C[p]
        BY <2>2
      <3> QED
        BY <3>1, <3>2
    <2> HIDE DEF places
    <2> QED
      BY <2>1, <2>2, <2>4
  <1> HIDE DEF places
  <1>2. ASSUME NEW p \in 1 .. parts, NEW k \in 1 .. C[p]
        PROVE  /\ <<p, k>> \in places /\ O[p] \in Nat /\ C[p] \in Nat /\ k \in Nat
               /\ O[p] + k \in 1 .. total
               /\ f[<<p, k>>] = start + (O[p] + k - 1) * step
    <2>1. <<p, k>> \in places
      BY <1>1
    <2>2. O[p] \in Nat /\ C[p] \in Nat /\ O[p] + C[p] <= total
      BY DEF Divided
    <2>3. k \in Nat /\ O[p] + k \in 1 .. total
      BY <2>2
    <2>4. f[<<p, k>>] = V[p][k]
      BY <2>1
    <2> QED
      BY <2>1, <2>2, <2>3, <2>4 DEF Visited, RunsFrom
  <1>3. \A q \in places : f[q] \in wanted
    <2> TAKE q \in places
    <2>0. PICK p \in 1 .. parts : \E k \in 1 .. C[p] : q = <<p, k>>
      BY <1>1
    <2>1. PICK k \in 1 .. C[p] : q = <<p, k>>
      BY <2>0
    <2> HIDE DEF f
    <2>2. PICK j \in 1 .. total : j = O[p] + k
      BY <1>2
    <2>3. f[q] = start + (j - 1) * step
      BY <1>2, <2>1, <2>2
    <2> QED
      BY <2>3 DEF Progression
  <1>4. \A w \in wanted : \E q \in places : f[q] = w
    <2> TAKE w \in wanted
    <2>1. PICK j \in 1 .. total : w = start + (j - 1) * step
      BY DEF Progression
    <2>2. PICK p \in 1 .. parts : O[p] < j /\ j <= O[p] + C[p]
      BY DEF Divided
    <2>3. O[p] \in Nat /\ C[p] \in Nat
      BY DEF Divided
    <2>4. PICK k \in 1 .. C[p] : j = O[p] + k
      <3>1. j - O[p] \in 1 .. C[p] /\ j = O[p] + (j - O[p])
        BY <2>2, <2>3
      <3> QED
        BY <3>1
    <2> HIDE DEF f
    <2>5. <<p, k>> \in places /\ f[<<p, k>>] = start + (j - 1) * step
      BY <1>2, <2>4
    <2> QED
      BY <2>1, <2>5
  <1>5. \A q, r \in places : f[q] = f[r] => q = r
    <2> SUFFICES ASSUME NEW q \in places, NEW r \in places, f[q] = f[r]
                 PROVE  q = r
      OBVIOUS
    <2>0. PICK p \in 1 .. parts, u \in 1 .. parts :
            (\E k \in 1 .. C[p] : q = <<p, k>>) /\ (\E m \in 1 .. C[u] : r = <<u, m>>)
      BY <1>1
    <2>1. PICK k \in 1 .. C[p] : q = <<p, k>>
      BY <2>0
    <2>2. PICK m \in 1 .. C[u] : r = <<u, m>>
      BY <2>0
    <2> HIDE DEF f
    <2>3. /\ O[p] \in Nat /\ C[p] \in Nat /\ k \in 1 .. C[p]
          /\ O[u] \in Nat /\ C[u] \in Nat /\ m \in 1 .. C[u]
      BY <1>2
    <2>10. PICK a \in Nat, b \in Nat : a = O[p] + k - 1 /\ b = O[u] + m - 1
      <3>1. O[p] + k - 1 \in Nat /\ O[u] + m - 1 \in Nat
        BY <2>3
      <3> QED
        BY <3>1
    <2>4. start + a * step = start + b * step
      BY <1>2, <2>1, <2>2, <2>10
    <2>5. a = b
      <3>1. a * step \in Nat /\ b * step \in Nat
        BY SMT
      <3>2. a < b => a * step + step <= b * step
        BY Strictly
      <3>3. b < a => b * step + step <= a * step
        BY Strictly
      <3>4. a * step = b * step
        BY <2>4, <3>1
      <3> QED
        BY <3>1, <3>2, <3>3, <3>4
    <2>6. /\ ~(O[p] + C[p] <= O[u]) /\ ~(O[u] + C[u] <= O[p])
          /\ O[p] = O[u] => k = m
      <3>1. O[p] + k - 1 = O[u] + m - 1
        BY <2>5, <2>10
      <3>2. PICK x \in Nat, y \in Nat, c \in Nat, d \in Nat :
              x = O[p] /\ y = O[u] /\ c = C[p] /\ d = C[u]
        BY <2>3
      <3>3. k \in 1 .. c /\ m \in 1 .. d /\ x + k - 1 = y + m - 1
        BY <3>1, <3>2, Zenon
      <3>4. ~(x + c <= y) /\ ~(y + d <= x) /\ (x = y => k = m)
        BY <3>3, SameNumber
      <3> QED
        BY <3>2, <3>4
    <2>7. p = u
      <3>1. p < u => O[p] + C[p] <= O[u]
        BY DEF Divided
      <3>2. u < p => O[u] + C[u] <= O[p]
        BY DEF Divided
      <3> QED
        BY <2>6, <3>1, <3>2
    <2> QED
      BY <2>1, <2>2, <2>6, <2>7
  <1>6. {V[q[1]][q[2]] : q \in places} = wanted
    <2>1. {f[q] : q \in places} = wanted
      <3> HIDE DEF f
      <3> QED
        BY <1>3, <1>4
    <2> QED
      BY <2>1
  <1>7. f \in Injection(places, wanted) /\ f \in Surjection(places, wanted)
    <2>1. f \in [places -> wanted] /\ DOMAIN f = places
      BY <1>3
    <2> HIDE DEF f
    <2>2. \A q, r \in DOMAIN f : f[q] = f[r] => q = r
      BY <1>5, <2>1
    <2> QED
      BY <1>4, <2>1, <2>2 DEF Injection, IsInjective, Surjection
  <1>8. Cardinality(places) = Cardinality(wanted)
    <2> HIDE DEF f
    <2> QED
      BY <1>7, FS_Injection
  <1> QED
    BY <1>6, <1>8 DEF places, EachOnce

(* As many iterations as TotalIterations computes reach from start to       *)
(* before end, and no index is computed beyond end.                         *)
LEMMA Iterations ==
  ASSUME NEW start \in Nat, NEW end \in Nat, NEW step \in Nat \ {0}, start < end
  PROVE  LET total  == TotalIterations(start, end, step)
             wanted == {i \in start .. end - 1 : (i - start) % step = 0}
         IN  /\ total \in Nat
             /\ \A j \in 1 .. total : /\ start + (j - 1) * step \in Nat
                                      /\ start + (j - 1) * step < end
             /\ wanted = {start + (j - 1) * step : j \in 1 .. total}
             /\ IsFiniteSet(wanted)
  <1> DEFINE total  == TotalIterations(start, end, step)
             wanted == {i \in start .. end - 1 : (i - start) % step = 0}
  <1>1. PICK d \in Nat : d = end - start - 1
    <2>1. end - start - 1 \in Nat
      OBVIOUS
    <2> QED
      BY <2>1
  <1>2. PICK a \in Nat : total = a + 1 /\ a * step \in Nat /\ a * step <= d
                         /\ d < a * step + step
    <2>1. PICK a \in Nat, b \in Nat : d = a * step + b /\ b < step
      BY Division
    <2>2. a * step = step * a /\ a * step \in Nat
      BY SMT
    <2>3. d \div step = a
      BY <2>1, <2>2, RemainderUnique
    <2>4. total = 1 + d \div step
      BY <1>1 DEF TotalIterations
    <2> QED
      BY <2>1, <2>2, <2>3, <2>4
  <1> HIDE DEF total
  <1>3. ASSUME NEW j \in 1 .. total
        PROVE  /\ (j - 1) * step \in Nat /\ j - 1 \in Nat
               /\ start + (j - 1) * step \in start .. end - 1
    <2>1. PICK c \in Nat : c = j - 1 /\ c <= a
      <3>1. j - 1 \in Nat /\ j - 1 <= a
        BY <1>2
      <3> QED
        BY <3>1
    <2>2. PICK x \in Nat, y \in Nat : x = c * step /\ y = a * step /\ x <= y
      BY <1>2, <2>1, Monotone
    <2>3. y <= d
      BY <1>2, <2>2
    <2>4. start + x \in start .. end - 1
      BY <1>1, <2>2, <2>3
    <2> QED
      BY <2>1, <2>2, <2>4
  <1>4. ASSUME NEW j \in 1 .. total
        PROVE  start + (j - 1) * step \in wanted
    <2>1. PICK c \in Nat, x \in Nat : c = j - 1 /\ x = (j - 1) * step
      BY <1>3
    <2>2. x = step * c + 0 /\ 0 < step
      <3>1. c * step = step * c /\ step * c \in Nat
        BY SMT
      <3> QED
        BY <2>1, <3>1
    <2>3. x % step = 0
      BY <2>2, RemainderUnique
    <2>4. (start + x) - start = x
      OBVIOUS
    <2> QED
      BY <1>3, <2>1, <2>3, <2>4
  <1>5. ASSUME NEW i \in wanted
        PROVE  \E j \in 1 .. total : i = start + (j - 1) * step
    <2>1. PICK x \in Nat : x = i - start /\ x <= d /\ x % step = 0
      <3>1. i - start \in Nat /\ i - start <= d /\ (i - start) % step = 0
        BY <1>1
      <3> QED
        BY <3>1
    <2>2. PICK c \in Nat : x = c * step /\ c * step \in Nat
      <3>1. PICK c \in Nat, b \in Nat : x = c * step + b /\ b < step
        BY Division
      <3>2. c * step = step * c /\ c * step \in Nat
        BY SMT
      <3>3. b = 0
        BY <2>1, <3>1, <3>2, RemainderUnique
      <3> QED
        BY <3>1, <3>2, <3>3
    <2>3. c <= a
      <3>1. a < c => a * step + step <= c * step
        BY Strictly
      <3>2. PICK y \in Nat : y = a * step
        BY <1>2
      <3>3. ~(y + step <= x)
        BY <1>2, <2>1, <3>2
      <3> QED
        BY <2>2, <3>1, <3>2, <3>3
    <2>4. c + 1 \in 1 .. total /\ (c + 1) - 1 = c
      BY <1>2, <2>3
    <2>5. i = start + x
      <3>1. i \in Int
        OBVIOUS
      <3> QED
        BY <2>1, <3>1
    <2> QED
      BY <2>2, <2>4, <2>5
  <1>6. wanted = {start + (j - 1) * step : j \in 1 .. total}
    <2> HIDE DEF wanted
    <2> QED
      BY <1>4, <1>5
  <1>7. IsFiniteSet(wanted)
    <2>1. start \in Int /\ end - 1 \in Int /\ wanted \in SUBSET (start .. end - 1)
      OBVIOUS
    <2> HIDE DEF wanted
    <2>2. IsFiniteSet(start .. end - 1)
      BY <2>1, FS_Interval
    <2> QED
      BY <2>1, <2>2, FS_Subset
  <1>8. total \in Nat
    BY <1>2
  <1>9. \A j \in 1 .. total : /\ start + (j - 1) * step \in Nat
                              /\ start + (j - 1) * step < end
    <2> TAKE j \in 1 .. total
    <2>1. PICK x \in Nat : x = (j - 1) * step
      BY <1>3
    <2>2. start + x \in start .. end - 1
      BY <1>3, <2>1
    <2>3. start + x \in Nat /\ start + x < end
      BY <2>2
    <2> QED
      BY <2>1, <2>3
  <1> QED
    BY <1>6, <1>7, <1>8, <1>9 DEF total

(* Nor does any processor's run of indices wrap around.                     *)
LEMMA RunIndices ==
  ASSUME NEW start \in Nat, NEW end \in Word, NEW step \in Nat \ {0}, start < end,
         NEW first \in Nat, NEW count \in Nat,
         first + count <= TotalIterations(start, end, step)
  PROVE  RunsFrom(Run(Wrap(start + first * step), count, step), first, count, start, step)
  <1> DEFINE total == TotalIterations(start, end, step)
             run == Run(Wrap(start + first * step), count, step)
  <1>1. end \in Nat /\ end < 2^Width
    BY Words
  <1>2. /\ total \in Nat
        /\ \A j \in 1 .. total : /\ start + (j - 1) * step \in Nat
                                 /\ start + (j - 1) * step < end
    BY <1>1, Iterations
  <1>3. first + count <= total
    OBVIOUS
  <1> HIDE DEF total
  <1>4. ASSUME NEW j \in 1 .. total
        PROVE  Wrap(start + (j - 1) * step) = start + (j - 1) * step
    <2>1. PICK x \in Nat, M \in Nat : x = start + (j - 1) * step /\ x < end /\ M = 2^Width
      BY <1>2, Words
    <2>2. x < M
      BY <1>1, <2>1
    <2>3. Wrap(x) = x
      BY <2>1, <2>2, Words
    <2> QED
      BY <2>1, <2>3
  <1>5. ASSUME NEW k \in 1 .. count
        PROVE  Wrap(Wrap(start + first * step) + (k - 1) * step) = start + (first + k - 1) * step
    <2>1. PICK c \in Nat : c = k - 1 /\ k = c + 1
      <3>1. k - 1 \in Nat /\ k = (k - 1) + 1
        OBVIOUS
      <3> QED
        BY <3>1
    <2>2. /\ first + 1 \in 1 .. total /\ (first + 1) - 1 = first
          /\ first + k \in 1 .. total /\ (first + k) - 1 = first + c
      BY <1>2, <1>3, <2>1
    <2>3. Wrap(start + first * step) = start + first * step
      BY <1>4, <2>2
    <2>4. (first + c) * step = first * step + c * step
      BY Distributes
    <2>5. first * step \in Nat /\ c * step \in Nat
      BY SMT
    <2>6. (start + first * step) + c * step = start + (first + c) * step
      BY <2>4, <2>5
    <2>7. Wrap(start + (first + c) * step) = start + (first + c) * step
      BY <1>4, <2>2
    <2> QED
      BY <2>1, <2>2, <2>3, <2>6, <2>7
  <1>6. run = [k \in 1 .. count |-> Wrap(Wrap(start + first * step) + (k - 1) * step)]
    BY DEF Run
  <1> HIDE DEF run
  <1> QED
    BY <1>5, <1>6 DEF run, RunsFrom

(* In words: bc_concurrency_for visits each index once.                     *)
LEMMA ForVisitsEachOnce ==
  ASSUME NEW start \in Word, NEW end \in Word, NEW step \in Word, step > 0,
         NEW threads \in Nat
  PROVE  LET visits == Visits(start, end, step, threads)
             wanted == {i \in start .. end - 1 : (i - start) % step = 0}
         IN  EachOnce(visits, wanted)
  <1> DEFINE V == Visits(start, end, step, threads)
             wanted == {i \in start .. end - 1 : (i - start) % step = 0}
             total == TotalIterations(start, end, step)
             parts == threads + 1
  <1>1. start \in Nat /\ end \in Nat /\ step \in Nat \ {0} /\ parts \in Nat \ {0}
    BY Words
  <1>2. CASE start >= end
    <2>1. V = <<>>
      BY <1>2 DEF Visits
    <2>2. wanted = {}
      BY <1>1, <1>2
    <2> HIDE DEF V, wanted
    <2>3. DOMAIN V = {}
      BY <2>1
    <2>4. UNION {{p} \X DOMAIN V[p] : p \in DOMAIN V} = {}
      BY <2>3
    <2>5. {V[q[1]][q[2]] : q \in {}} = {}
      OBVIOUS
    <2>6. EachOnce(V, wanted)
      BY <2>2, <2>4, <2>5 DEF EachOnce
    <2> QED
      BY <2>6 DEF V, wanted
  <1>3. CASE start < end
    <2>1. /\ total \in Nat /\ IsFiniteSet(wanted)
          /\ wanted = {start + (j - 1) * step : j \in 1 .. total}
      BY <1>1, <1>3, Iterations
    <2>2. \E n \in Nat : \E O, C : Visited(V, n, O, C, start, step) /\ Divided(n, O, C, total)
      <3>1. CASE Inline(total, threads)
        <4> DEFINE O == [p \in 1 .. 1 |-> 0]
                   C == [p \in 1 .. 1 |-> total]
                   run == Run(start, total, step)
        <4>1. V = <<run>>
          BY <1>1, <1>3, <3>1 DEF Visits
        <4>2. RunsFrom(run, 0, total, start, step)
          <5>1. 0 * step = 0 /\ start + 0 * step = start
            BY <1>1
          <5>2. Wrap(start) = start
            BY Words
          <5>3. run = Run(Wrap(start + 0 * step), total, step)
            BY <5>1, <5>2
          <5>4. 0 + total <= total
            BY <2>1
          <5> HIDE DEF run, total
          <5>5. RunsFrom(Run(Wrap(start + 0 * step), total, step), 0, total, start, step)
            BY <1>1, <1>3, <2>1, <5>4, RunIndices DEF total
          <5> QED
            BY <5>3, <5>5
        <4> HIDE DEF run, total, V
        <4>3. DOMAIN V = 1 .. 1 /\ V[1] = run
          BY <4>1
        <4>4. Visited(V, 1, O, C, start, step)
          <5> SUFFICES ASSUME NEW p \in 1 .. 1
                       PROVE  RunsFrom(V[p], O[p], C[p], start, step)
            BY <4>3 DEF Visited
          <5>1. p = 1 /\ O[p] = 0 /\ C[p] = total
            OBVIOUS
          <5> QED
            BY <4>2, <4>3, <5>1
        <4>5. Divided(1, O, C, total)
          BY <2>1 DEF Divided
        <4> QED
          BY <4>4, <4>5 DEF V, total
      <3>2. CASE ~Inline(total, threads)
        <4> DEFINE O == [p \in 1 .. parts |-> PartOffset(total, parts, p - 1)]
                   C == [p \in 1 .. parts |-> PartSize(total, parts, p - 1)]
        <4>1. V = [p \in 1 .. parts |->
                     Run(Wrap(start + PartOffset(total, parts, p - 1) * step),
                         PartSize(total, parts, p - 1), step)]
          BY <1>1, <1>3, <3>2 DEF Visits
        <4> HIDE DEF V, total, parts
        <4>2. ASSUME NEW p \in 1 .. parts
              PROVE  /\ p - 1 \in 0 .. parts - 1 /\ p - 1 \in Nat
                     /\ O[p] = PartOffset(total, parts, p - 1) /\ O[p] \in Nat
                     /\ C[p] = PartSize(total, parts, p - 1) /\ C[p] \in Nat
                     /\ O[p] + C[p] <= total
                     /\ V[p] = Run(Wrap(start + O[p] * step), C[p], step)
          <5>1. p - 1 \in 0 .. parts - 1 /\ p - 1 \in Nat
            BY <1>1
          <5>2. /\ PartOffset(total, parts, p - 1) \in Nat
                /\ PartSize(total, parts, p - 1) \in Nat
            BY <1>1, <2>1, <5>1, PartType
          <5>3. PartOffset(total, parts, p - 1) + PartSize(total, parts, p - 1) <= total
            BY <1>1, <2>1, <5>1, PartWithin
          <5> QED
            BY <4>1, <5>1, <5>2, <5>3
        <4> HIDE DEF O, C
        <4>3. Visited(V, parts, O, C, start, step)
          <5>1. DOMAIN V = 1 .. parts
            BY <4>1
          <5>2. ASSUME NEW p \in 1 .. parts
                PROVE  RunsFrom(V[p], O[p], C[p], start, step)
            <6>1. PICK o \in Nat, c \in Nat : o = O[p] /\ c = C[p] /\ o + c <= total
              BY <4>2
            <6>2. RunsFrom(Run(Wrap(start + o * step), c, step), o, c, start, step)
              BY <1>1, <1>3, <6>1, RunIndices DEF total
            <6>3. V[p] = Run(Wrap(start + o * step), c, step)
              BY <4>2, <6>1
            <6> QED
              BY <6>1, <6>2, <6>3
          <5> QED
            BY <5>1, <5>2 DEF Visited
        <4>4. Divided(parts, O, C, total)
          <5>1. \A p \in 1 .. parts : O[p] \in Nat /\ C[p] \in Nat /\ O[p] + C[p] <= total
            BY <4>2
          <5>2. ASSUME NEW p \in 1 .. parts, NEW q \in 1 .. parts, p < q
                PROVE  O[p] + C[p] <= O[q]
            <6>1. p - 1 < q - 1 /\ p - 1 \in Nat /\ q - 1 \in Nat
              BY <1>1, <5>2
            <6>2. PartOffset(total, parts, p - 1) + PartSize(total, parts, p - 1)
                    <= PartOffset(total, parts, q - 1)
              BY <1>1, <2>1, <6>1, PartOrder
            <6> QED
              BY <4>2, <6>2
          <5>3. ASSUME NEW j \in 1 .. total
                PROVE  \E p \in 1 .. parts : O[p] < j /\ j <= O[p] + C[p]
            <6>1. PICK i \in 0 .. parts - 1 :
                    /\ PartOffset(total, parts, i) < j
                    /\ j <= PartOffset(total, parts, i) + PartSize(total, parts, i)
              BY <1>1, <2>1, PartCover
            <6>2. i + 1 \in 1 .. parts /\ (i + 1) - 1 = i
              BY <1>1
            <6> QED
              BY <4>2, <6>1, <6>2
          <5> QED
            BY <5>1, <5>2, <5>3 DEF Divided
        <4>5. parts \in Nat
          BY <1>1
        <4> QED
          BY <4>3, <4>4, <4>5 DEF V, total
      <3> QED
        BY <3>1, <3>2
    <2>3. PICK n \in Nat : \E O, C :
            Visited(V, n, O, C, start, step) /\ Divided(n, O, C, total)
      BY <2>2
    <2> PICK O, C : Visited(V, n, O, C, start, step) /\ Divided(n, O, C, total)
      BY <2>3
    <2> HIDE DEF V, wanted, total
    <2>4. EachOnce(V, wanted)
      <3>1. Progression(wanted, total, start, step)
        BY <2>1 DEF Progression
      <3> QED
        BY <1>1, <2>1, <2>3, <3>1, OncePerPlace
    <2> QED
      BY <2>4 DEF V, wanted, total
  <1> QED
    BY <1>1, <1>2, <1>3

(* Every call of bc_concurrency_for visits start, start + step, and so on,  *)
(* each once, for any bounds and any step, on any number of threads.        *)
THEOREM IndicesOnce == Spec => []EachIndexOnce
  <1>1. Init => EachIndexOnce
    BY DEF Init, NoCall, EachIndexOnce
  <1>2. CoreInv /\ EachIndexOnce /\ [Next]_vars => EachIndexOnce'
    <2> SUFFICES ASSUME CoreInv, EachIndexOnce, [Next]_vars PROVE EachIndexOnce'
      OBVIOUS
    <2>1. ASSUME NEW start \in Samples, NEW end \in Samples, NEW step \in Samples,
                 For(start, end, step)
          PROVE  EachIndexOnce'
      <3> DEFINE visits == Visits(start, end, step, context.thread_count)
                 wanted == {i \in start .. end - 1 : (i - start) % step = 0}
      <3>1. /\ step > 0
            /\ call' = [op |-> "for", start |-> start, end |-> end, step |-> step,
                        visits |-> visits]
        BY <2>1 DEF For
      <3>2. start \in Word /\ end \in Word /\ step \in Word
        BY SamplesAssumption
      <3>3. context.thread_count \in Nat
        BY Words DEF CoreInv, CoreTypeOK
      <3>4. EachOnce(visits, wanted)
        BY <3>1, <3>2, <3>3, ForVisitsEachOnce
      <3> HIDE DEF visits
      <3> QED
        BY <3>1, <3>4 DEF EachIndexOnce, EachOnce
    <2>2. ASSUME NEW element_size \in Samples, NEW capacity \in Samples,
                 QueueCreate(element_size, capacity)
          PROVE  EachIndexOnce'
      BY <2>2 DEF QueueCreate, EachIndexOnce
    <2>3. CASE RoundUp
      <3>1. call'.op = "rounding"
        BY <2>3 DEF RoundUp, Rounding
      <3> QED
        BY <3>1 DEF EachIndexOnce
    <2>4. CASE QueueCreated
      <3>1. call'.op = "queue_create"
        BY <2>4 DEF QueueCreated
      <3> QED
        BY <3>1 DEF EachIndexOnce
    <2>5. CASE call' = NoCall
      BY <2>5 DEF NoCall, EachIndexOnce
    <2>6. CASE UNCHANGED call
      BY <2>6 DEF EachIndexOnce
    <2> QED
      BY <2>1, <2>2, <2>3, <2>4, <2>5, <2>6 DEF Next, vars, QueueFails
  <1> QED
    BY <1>1, <1>2, Invariance, PTL DEF Spec
-----------------------------------------------------------------------------
(****************************************************************************)
(* QueueSizes: the slots of a queue.                                        *)
(****************************************************************************)
(* If nothing wraps around, the stride is a whole number of cache lines and *)
(* has room for the sequence number and the element.                        *)
LEMMA StrideFits ==
  ASSUME NEW size \in Nat, SizeOfSequence + size + CacheLine - 1 \in Word
  PROVE  \E lines \in Nat : /\ Stride(size) = CacheLine * lines
                            /\ CacheLine * lines \in Nat
                            /\ SizeOfSequence + size <= CacheLine * lines
  <1>1. PICK line \in Nat \ {0}, seq \in Nat, M \in Nat :
          line = CacheLine /\ seq = SizeOfSequence /\ M = 2^Width
    BY QueueSizesAssumption, Words
  <1>2. PICK sum \in Nat : sum = seq + size + line - 1 /\ sum < M
    <2>1. seq + size + line - 1 \in Nat /\ seq + size + line - 1 < M
      BY <1>1, Words
    <2> QED
      BY <2>1
  <1>3. seq + size \in Nat /\ seq + size < M
    BY <1>2
  <1>4. Wrap(seq + size) = seq + size /\ Wrap(sum) = sum
    BY <1>1, <1>2, <1>3, Words
  <1>5. Stride(size) = sum - (sum % line)
    <2>1. Stride(size) = Wrap(seq + size + line - 1) - (Wrap(seq + size + line - 1) % line)
      BY <1>1, <1>4 DEF Stride, AlignUp
    <2> QED
      BY <1>2, <1>4, <2>1
  <1>6. PICK lines \in Nat, rest \in Nat : sum = lines * line + rest /\ rest < line
    BY Division
  <1>7. lines * line = line * lines /\ line * lines \in Nat
    BY SMT
  <1>8. sum % line = rest
    BY <1>6, <1>7, RemainderUnique
  <1>9. Stride(size) = line * lines /\ seq + size <= line * lines
    <2>1. PICK x \in Nat : x = line * lines
      BY <1>7
    <2>2. sum = x + rest
      BY <1>6, <1>7, <2>1
    <2>3. sum - rest = x /\ seq + size <= x
      BY <1>2, <1>6, <2>2
    <2> QED
      BY <1>5, <1>8, <2>1, <2>3
  <1> QED
    BY <1>1, <1>7, <1>9

(* Slot p of the buffer begins after p strides, within the buffer, and      *)
(* position p uses slot p % n.                                              *)
LEMMA RepresentableFits ==
  ASSUME NEW size \in Nat, NEW n \in Nat \ {0}, Representable(size, n)
  PROVE  Fits(size, n, SlotBufferBytes(size, n))
  <1> DEFINE From(p) == SequenceAt(p, size, n)
             To(p)   == DataAt(p, size, n) + size
  <1>2. PICK line \in Nat \ {0}, seq \in Nat, M \in Nat :
          line = CacheLine /\ seq = SizeOfSequence /\ M = 2^Width
    BY QueueSizesAssumption, Words
  <1>3. PICK stride \in Nat, lines \in Nat :
          stride = Stride(size) /\ stride = line * lines /\ seq + size <= stride
    BY <1>2, StrideFits DEF Representable
  <1>4. PICK bytes \in Nat : bytes = n * stride /\ bytes < M
                             /\ bytes = SlotBufferBytes(size, n)
    <2>1. stride * n = n * stride /\ n * stride \in Nat
      BY SMT
    <2>2. stride * n \in Word
      BY <1>3 DEF Representable
    <2>3. stride * n < M /\ Wrap(stride * n) = stride * n
      BY <1>2, <2>1, <2>2, Words
    <2>4. SlotBufferBytes(size, n) = Wrap(stride * n)
      BY <1>3 DEF SlotBufferBytes
    <2> QED
      BY <2>1, <2>3, <2>4
  <1>5. \A p : /\ From(p) = Wrap((p % n) * stride)
               /\ To(p) = From(p) + seq + size
    BY <1>2, <1>3 DEF SequenceAt, DataAt
  <1> HIDE DEF From, To
  <1>6. ASSUME NEW p \in 0 .. n - 1
        PROVE  /\ p % n = p /\ p * stride \in Nat /\ From(p) = p * stride
               /\ p * stride + stride <= bytes /\ To(p) <= p * stride + stride
    <2>1. p % n = p
      <3>1. p \in Nat /\ p = n * 0 + p /\ p < n
        OBVIOUS
      <3> QED
        BY <3>1, RemainderUnique
    <2>2. PICK x \in Nat : x = p * stride /\ x + stride <= bytes
      <3>1. p * stride \in Nat /\ p * stride + stride <= n * stride
        BY Strictly
      <3> QED
        BY <1>4, <3>1
    <2>3. Wrap(x) = x
      <3>1. x < M
        BY <1>4, <2>2
      <3> QED
        BY <1>2, <3>1, Words
    <2>4. From(p) = x /\ To(p) = x + seq + size
      BY <1>5, <2>1, <2>2, <2>3
    <2>5. x + seq + size <= x + stride
      BY <1>3
    <2> QED
      BY <2>1, <2>2, <2>4, <2>5
  <1>7. \A p \in 0 .. n - 1 : To(p) <= bytes /\ From(p) % line = 0
    <2> TAKE p \in 0 .. n - 1
    <2>1. PICK x \in Nat : x = p * stride /\ From(p) = x /\ x + stride <= bytes
                           /\ To(p) <= x + stride
      BY <1>6
    <2>2. To(p) \in Nat
      <3>1. To(p) = x + seq + size
        BY <1>5, <2>1
      <3> QED
        BY <3>1
    <2>3. To(p) <= bytes
      BY <2>1, <2>2
    <2>4. x = line * (p * lines) + 0 /\ p * lines \in Nat
      <3>1. p \in Nat /\ p * lines \in Nat
        BY SMT
      <3>2. p * (line * lines) = line * (p * lines) /\ line * (p * lines) \in Nat
        BY <3>1, SMT
      <3> QED
        BY <1>3, <2>1, <3>1, <3>2
    <2>5. x % line = 0
      <3>1. 0 \in Nat /\ 0 < line
        OBVIOUS
      <3> QED
        BY <2>4, <3>1, RemainderUnique
    <2> QED
      BY <2>1, <2>3, <2>5
  <1>8. \A p, q \in 0 .. n - 1 : p < q => To(p) <= From(q)
    <2> SUFFICES ASSUME NEW p \in 0 .. n - 1, NEW q \in 0 .. n - 1, p < q
                 PROVE  To(p) <= From(q)
      OBVIOUS
    <2>1. PICK x \in Nat, y \in Nat :
            x = p * stride /\ y = q * stride /\ From(p) = x /\ From(q) = y
            /\ To(p) <= x + stride
      BY <1>6
    <2>2. x + stride <= y
      <3>1. p \in Nat /\ q \in Nat
        OBVIOUS
      <3>2. p * stride + stride <= q * stride
        BY <3>1, Strictly
      <3> QED
        BY <2>1, <3>2
    <2>3. To(p) = x + seq + size
      BY <1>5, <2>1
    <2> QED
      BY <2>1, <2>2, <2>3
  <1>9. \A p \in n .. 2 * n - 1 : From(p) = From(p - n)
    <2> TAKE p \in n .. 2 * n - 1
    <2>1. PICK r \in 0 .. n - 1 : r = p - n /\ p = n * 1 + r
      <3>1. p - n \in 0 .. n - 1 /\ p = n * 1 + (p - n)
        OBVIOUS
      <3> QED
        BY <3>1
    <2>2. p % n = r
      <3>1. p \in Nat /\ r \in Nat /\ r < n
        BY <2>1
      <3> QED
        BY <2>1, <3>1, RemainderUnique
    <2>3. r % n = r
      BY <1>6
    <2> QED
      BY <1>5, <2>1, <2>2, <2>3
  <1> QED
    BY <1>2, <1>4, <1>7, <1>8, <1>9 DEF From, To, Fits

(* Whatever wraps around, the stride is a number of cache lines and a word. *)
LEMMA StrideType ==
  ASSUME NEW size \in Nat
  PROVE  \E lines \in Nat : /\ Stride(size) = lines * CacheLine
                            /\ lines * CacheLine \in Nat
                            /\ lines * CacheLine < 2^Width
  <1>1. PICK line \in Nat \ {0}, seq \in Nat, M \in Nat \ {0} :
          line = CacheLine /\ seq = SizeOfSequence /\ M = 2^Width
    BY QueueSizesAssumption, Words
  <1>2. \A v \in Nat : Wrap(v) \in Nat /\ Wrap(v) < M
    <2> TAKE v \in Nat
    <2>1. v % M \in Nat /\ v % M < M
      BY QuotientRemainder
    <2> QED
      BY <1>1, <2>1 DEF Wrap
  <1>3. PICK value \in Nat : value = Wrap(seq + size)
    <2>1. seq + size \in Nat
      OBVIOUS
    <2> QED
      BY <1>2, <2>1
  <1>4. PICK sum \in Nat : sum = Wrap(value + line - 1) /\ sum < M
    <2>1. value + line - 1 \in Nat
      OBVIOUS
    <2> QED
      BY <1>2, <2>1
  <1>5. Stride(size) = sum - (sum % line)
    BY <1>1, <1>3, <1>4 DEF Stride, AlignUp
  <1>6. PICK a \in Nat, b \in Nat : sum = a * line + b /\ b < line
    BY Division
  <1>7. a * line = line * a /\ a * line \in Nat
    BY SMT
  <1>8. sum % line = b
    BY <1>6, <1>7, RemainderUnique
  <1>9. PICK x \in Nat : x = a * line
    BY <1>7
  <1>10. sum - (sum % line) = x /\ x < M
    BY <1>4, <1>6, <1>8, <1>9
  <1> QED
    BY <1>1, <1>5, <1>9, <1>10

(* The size of the buffer is a number of cache lines, too, even if it wraps *)
(* around; so the last line of the address space is never part of it.       *)
LEMMA BufferEnds ==
  ASSUME NEW size \in Nat, NEW n \in Nat
  PROVE  /\ SlotBufferBytes(size, n) \in Nat
         /\ SlotBufferBytes(size, n) + CacheLine <= 2^Width
  <1>1. PICK line \in Nat \ {0}, M \in Nat \ {0} :
          line = CacheLine /\ M = 2^Width /\ M % line = 0
    BY QueueSizesAssumption, Words
  <1>3. PICK lines \in Nat : Stride(size) = lines * line /\ lines * line \in Nat
    BY <1>1, StrideType
  <1>4. PICK m \in Nat \ {0} : M = m * line
    <2>1. PICK a \in Nat, b \in Nat : M = a * line + b /\ b < line
      BY Division
    <2>2. a * line = line * a /\ a * line \in Nat
      BY SMT
    <2>3. M % line = b
      BY <2>1, <2>2, RemainderUnique
    <2>4. M = a * line
      BY <1>1, <2>1, <2>2, <2>3
    <2>5. a # 0
      <3>1. a = 0 => a * line = 0
        OBVIOUS
      <3> QED
        BY <2>4, <3>1
    <2> QED
      BY <2>4, <2>5
  <1>5. PICK k \in Nat : Stride(size) * n = k * line /\ k * line \in Nat
    <2>1. lines * n \in Nat /\ (lines * n) * line \in Nat
      BY SMT
    <2>2. (lines * line) * n = (lines * n) * line
      BY SMT
    <2> QED
      BY <1>3, <2>1, <2>2
  <1>6. PICK a \in Nat, b \in Nat : k = a * m + b /\ b < m
    BY Division
  <1>7. k * line = M * a + b * line /\ b * line + line <= M /\ b * line \in Nat
    <2>1. (a * m + b) * line = (a * m) * line + b * line
      <3>1. a * m \in Nat
        BY SMT
      <3> QED
        BY <3>1, Distributes
    <2>2. (a * m) * line = (m * line) * a
      BY SMT
    <2>3. b * line \in Nat /\ b * line + line <= m * line
      BY <1>6, Strictly
    <2> QED
      BY <1>4, <1>6, <2>1, <2>2, <2>3
  <1>8. PICK bytes \in Nat : bytes = b * line /\ bytes < M
    BY <1>7
  <1>9. (k * line) % M = bytes
    BY <1>5, <1>7, <1>8, RemainderUnique
  <1>10. SlotBufferBytes(size, n) = bytes
    BY <1>1, <1>5, <1>9 DEF SlotBufferBytes, Wrap
  <1> QED
    BY <1>1, <1>7, <1>8, <1>10

(* If a size wraps around, the slots do not fit: the first slot that begins *)
(* after the end of the address space begins before the one before it, or   *)
(* it is the end of the buffer that comes there.                            *)
LEMMA FitsRepresentable ==
  ASSUME NEW size \in Nat \ {0}, NEW n \in Nat \ {0},
         Fits(size, n, SlotBufferBytes(size, n))
  PROVE  Representable(size, n)
  <1> DEFINE From(p) == SequenceAt(p, size, n)
             To(p)   == DataAt(p, size, n) + size
  <1>1. PICK line \in Nat \ {0}, seq \in Nat, M \in Nat \ {0}, bytes \in Nat :
          /\ line = CacheLine /\ seq = SizeOfSequence /\ M = 2^Width
          /\ bytes = SlotBufferBytes(size, n) /\ bytes + line <= M
    BY QueueSizesAssumption, Words, BufferEnds
  <1>2. /\ \A p \in 0 .. n - 1 : To(p) <= bytes
        /\ \A p, q \in 0 .. n - 1 : p < q => To(p) <= From(q)
    BY <1>1 DEF Fits
  <1>3. \A p : /\ From(p) = Wrap((p % n) * Stride(size))
               /\ To(p) = From(p) + seq + size
    BY <1>1 DEF SequenceAt, DataAt
  <1> HIDE DEF From, To
  <1>4. \A p \in 0 .. n - 1 : p % n = p
    <2> TAKE p \in 0 .. n - 1
    <2>1. p \in Nat /\ p = n * 0 + p /\ p < n
      OBVIOUS
    <2> QED
      BY <2>1, RemainderUnique
  <1>5. seq + size + line - 1 \in Word
    <2>1. From(0) = 0
      <3>1. 0 \in 0 .. n - 1 /\ 0 < M
        OBVIOUS
      <3>2. From(0) = Wrap(0 * Stride(size))
        BY <1>3, <1>4, <3>1
      <3>3. Stride(size) \in Nat
        BY StrideType
      <3>4. 0 * Stride(size) = 0
        BY <3>3
      <3> QED
        BY <1>1, <3>1, <3>2, <3>4, Words
    <2>2. seq + size <= bytes
      <3>1. To(0) = seq + size
        BY <1>3, <2>1
      <3> QED
        BY <1>2, <3>1
    <2>3. seq + size + line - 1 \in Nat /\ seq + size + line - 1 < M
      BY <1>1, <2>2
    <2> QED
      BY <1>1, <2>3, Words
  <1>6. PICK stride \in Nat \ {0} : stride = Stride(size) /\ seq + size <= stride
    <2>1. SizeOfSequence + size + CacheLine - 1 \in Word
      BY <1>1, <1>5
    <2>2. PICK lines \in Nat : /\ Stride(size) = CacheLine * lines
                               /\ CacheLine * lines \in Nat
                               /\ SizeOfSequence + size <= CacheLine * lines
      BY <2>1, StrideFits
    <2> QED
      BY <1>1, <2>2
  <1>7. n * stride < M
    <2> SUFFICES ASSUME n * stride >= M PROVE FALSE
      <3>1. n * stride \in Nat
        BY SMT
      <3> QED
        BY <3>1
    <2>1. PICK total \in Nat : total = n * stride /\ total >= M
      BY SMT
    <2>2. PICK a \in Nat, b \in Nat : M - 1 = a * stride + b /\ b < stride
      <3>1. M - 1 \in Nat
        OBVIOUS
      <3> QED
        BY <3>1, Division
    <2>3. PICK x \in Nat : x = a * stride
      BY SMT
    <2>4. a < n
      <3> SUFFICES ASSUME n <= a PROVE FALSE
        OBVIOUS
      <3>1. n * stride <= a * stride
        BY Monotone
      <3> QED
        BY <2>1, <2>2, <2>3, <3>1
    <2>5. stride < M
      BY <1>1, <1>6, StrideType
    <2>6. stride <= x
      <3>1. a # 0
        <4>1. a = 0 => a * stride = 0
          OBVIOUS
        <4> QED
          BY <2>2, <2>5, <4>1
      <3>2. 1 * stride <= a * stride /\ 1 * stride = stride
        BY <3>1, Monotone
      <3> QED
        BY <2>3, <3>2
    <2>7. From(a) = x /\ To(a) >= x
      <3>1. a \in 0 .. n - 1 /\ x < M
        BY <2>2, <2>3, <2>4
      <3>2. From(a) = x
        BY <1>1, <1>3, <1>4, <1>6, <2>3, <3>1, Words
      <3>3. To(a) = x + seq + size
        BY <1>3, <3>2
      <3> QED
        BY <3>2, <3>3
    <2>8. PICK r \in Nat : (a + 1) * stride = M * 1 + r /\ r < stride
      <3>1. (a + 1) * stride = a * stride + 1 * stride /\ 1 * stride = stride
        BY Distributes
      <3>2. (a + 1) * stride = x + stride
        BY <2>3, <3>1
      <3>3. stride - 1 - b \in Nat /\ x + stride = M * 1 + (stride - 1 - b)
        BY <2>2, <2>3
      <3> QED
        BY <3>2, <3>3
    <2>9. Wrap((a + 1) * stride) = r
      <3>1. (a + 1) * stride \in Nat /\ r < M
        BY <2>5, <2>8
      <3>2. ((a + 1) * stride) % M = r
        BY <2>8, <3>1, RemainderUnique
      <3> QED
        BY <1>1, <3>2 DEF Wrap
    <2>10. CASE a + 1 < n
      <3>1. a \in 0 .. n - 1 /\ a + 1 \in 0 .. n - 1 /\ a < a + 1
        BY <2>4, <2>10
      <3>2. From(a + 1) = r
        BY <1>3, <1>4, <1>6, <2>9, <3>1
      <3>3. To(a) <= From(a + 1)
        BY <1>2, <3>1
      <3>4. To(a) = x + seq + size
        BY <1>3, <2>7
      <3> QED
        BY <2>6, <2>8, <3>2, <3>3, <3>4
    <2>11. CASE a + 1 = n
      <3>1. bytes = r
        <4>1. stride * n = n * stride
          BY SMT
        <4> QED
          BY <1>1, <1>6, <2>9, <2>11, <4>1 DEF SlotBufferBytes
      <3>2. To(a) <= bytes
        BY <1>2, <2>4
      <3>3. To(a) = x + seq + size
        BY <1>3, <2>7
      <3> QED
        BY <2>6, <2>8, <3>1, <3>2, <3>3
    <2> QED
      BY <2>4, <2>10, <2>11
  <1>8. stride * n \in Word
    <2>1. stride * n = n * stride /\ n * stride \in Nat
      BY SMT
    <2> QED
      BY <1>1, <1>7, <2>1, Words
  <1> QED
    BY <1>1, <1>5, <1>6, <1>8 DEF Representable
(* The powers of two are what they are by doubling.                         *)
LEMMA Powers ==
  /\ PowersOfTwo \subseteq Nat \ {0}
  /\ \A power \in PowersOfTwo :
       \/ NextPower(power) = 2 * power /\ 2 * power \in PowersOfTwo
       \/ NextPower(power) = 0 /\ \A other \in PowersOfTwo : other <= power
  /\ 1 \in PowersOfTwo
  <1>1. /\ Width \in Nat \ {0}
        /\ \A k \in 0 .. Width : 2^k \in Nat \ {0}
        /\ \A k \in 0 .. Width - 1 : 2^(k + 1) = 2 * 2^k /\ 2^k < 2^Width
    BY SizeTAssumption
  <1> DEFINE P[k \in 0 .. Width] == 2^k
  <1>2. \A k \in 0 .. Width : P[k] = 2^k
    OBVIOUS
  <1> HIDE DEF P
  <1>3. \A k \in 0 .. Width : P[k] \in Nat \ {0}
    BY <1>1, <1>2
  <1>4. \A k \in 0 .. Width - 1 : P[k + 1] = 2 * P[k] /\ P[k] < P[Width]
    <2> TAKE k \in 0 .. Width - 1
    <2>1. k \in 0 .. Width /\ k + 1 \in 0 .. Width /\ Width \in 0 .. Width
      BY <1>1
    <2> QED
      BY <1>1, <1>2, <2>1
  <1>5. PowersOfTwo = {P[k] : k \in 0 .. Width - 1}
    <2>1. \A k \in 0 .. Width - 1 : k \in 0 .. Width
      BY <1>1
    <2> QED
      BY <1>2, <2>1 DEF PowersOfTwo
  <1>6. P[Width] = 2^Width
    BY <1>1, <1>2
  <1>7. PowersOfTwo \subseteq Nat \ {0}
    BY <1>1, <1>3, <1>5
  <1>8. ASSUME NEW k \in 0 .. Width - 1, k + 1 < Width
        PROVE  NextPower(P[k]) = 2 * P[k] /\ 2 * P[k] \in PowersOfTwo
    <2>1. k + 1 \in 0 .. Width - 1
      BY <1>1, <1>8
    <2>2. P[k + 1] \in PowersOfTwo /\ P[k + 1] \in Nat /\ P[k + 1] < P[Width]
      BY <1>4, <1>5, <1>7, <2>1
    <2>3. P[k + 1] = 2 * P[k]
      BY <1>4
    <2> QED
      BY <1>6, <2>2, <2>3, Words DEF NextPower
  <1>9. ASSUME NEW k \in 0 .. Width - 1, k + 1 = Width
        PROVE  NextPower(P[k]) = 0 /\ \A other \in PowersOfTwo : other <= P[k]
    <2>1. PICK m \in Nat \ {0} : m = P[Width] /\ m = 2 * P[k] /\ m = 2^Width
      BY <1>3, <1>4, <1>6, <1>9
    <2>2. NextPower(P[k]) = 0
      <3>1. m = m * 1 + 0
        OBVIOUS
      <3>2. m % m = 0
        BY <3>1, RemainderUnique
      <3> QED
        BY <2>1, <3>2 DEF NextPower, Wrap
    <2>3. ASSUME NEW j \in 0 .. Width - 1 PROVE P[j] <= P[k]
      <3>1. P[j + 1] <= P[Width]
        <4>1. CASE j + 1 = Width
          BY <1>3, <1>4, <4>1
        <4>2. CASE j + 1 < Width
          <5>1. j + 1 \in 0 .. Width - 1
            BY <1>1, <4>2
          <5>2. j + 1 \in 0 .. Width /\ Width \in 0 .. Width
            BY <1>1, <4>2
          <5> QED
            BY <1>3, <1>4, <5>1, <5>2
        <4> QED
          BY <1>1, <4>1, <4>2
      <3>2. PICK x \in Nat, y \in Nat : x = P[j] /\ y = P[k]
        <4>1. j \in 0 .. Width /\ k \in 0 .. Width
          BY <1>1
        <4> QED
          BY <1>3, <4>1
      <3>3. P[j + 1] = 2 * x
        BY <1>4, <3>2
      <3> QED
        BY <2>1, <3>1, <3>2, <3>3
    <2> QED
      BY <1>5, <2>2, <2>3
  <1>10. 1 \in PowersOfTwo
    <2>1. 0 \in 0 .. Width - 1
      BY <1>1
    <2>2. 1 = 2^0
      OBVIOUS
    <2> QED
      BY <2>1, <2>2 DEF PowersOfTwo
  <1>11. ASSUME NEW power \in PowersOfTwo
         PROVE  \/ NextPower(power) = 2 * power /\ 2 * power \in PowersOfTwo
                \/ NextPower(power) = 0 /\ \A other \in PowersOfTwo : other <= power
    <2>1. PICK k \in 0 .. Width - 1 : power = P[k]
      BY <1>5
    <2>2. k + 1 < Width \/ k + 1 = Width
      BY <1>1
    <2> QED
      BY <1>8, <1>9, <2>1, <2>2
  <1> QED
    BY <1>7, <1>10, <1>11

(* While a capacity is rounded, the arguments are sizes other than 0 and    *)
(* the power reached is less than twice the capacity, or 0 because there is *)
(* no power of two that is large enough.                                    *)
RoundingInv ==
  Rounding =>
    /\ call \in [op : {"rounding"}, element_size : Nat \ {0}, capacity : Nat \ {0},
                 power : PowersOfTwo \cup {0}]
    /\ call.power < 2 * call.capacity
    /\ call.power = 0 => \A power \in PowersOfTwo : power < call.capacity

(* The first power is a power of two, and doubling it keeps the invariant.  *)
LEMMA RoundingStep ==
  ASSUME RoundingInv, [Next]_vars
  PROVE  RoundingInv'
  <1>1. ASSUME NEW element_size \in Samples, NEW capacity \in Samples,
               QueueCreate(element_size, capacity)
        PROVE  RoundingInv'
    <2>1. /\ element_size > 0 /\ capacity > 0
          /\ call' = [op |-> "rounding", element_size |-> element_size,
                      capacity |-> capacity, power |-> FirstPower(capacity)]
      BY <1>1 DEF QueueCreate
    <2>2. element_size \in Nat \ {0} /\ capacity \in Nat \ {0}
      BY <2>1, SamplesAssumption, Words
    <2>3. FirstPower(capacity) \in PowersOfTwo /\ FirstPower(capacity) < 2 * capacity
      BY <2>2, Powers DEF FirstPower
    <2>4. PICK first \in PowersOfTwo : first = FirstPower(capacity)
      BY <2>3
    <2>5. first # 0 /\ first < 2 * capacity
      BY <2>3, <2>4, Powers
    <2>6. call' \in [op : {"rounding"}, element_size : Nat \ {0}, capacity : Nat \ {0},
                    power : PowersOfTwo \cup {0}]
      BY <2>1, <2>2, <2>4
    <2>7. call'.power = first /\ call'.capacity = capacity
      BY <2>1, <2>4
    <2> QED
      BY <2>5, <2>6, <2>7 DEF RoundingInv
  <1>2. CASE RoundUp
    <2>1. /\ Rounding /\ call.power < call.capacity
          /\ call' = [call EXCEPT !.power = NextPower(call.power)]
      BY <1>2 DEF RoundUp
    <2>2. PICK size \in Nat \ {0}, n \in Nat \ {0}, reached \in PowersOfTwo \cup {0} :
            call = [op |-> "rounding", element_size |-> size, capacity |-> n,
                    power |-> reached]
      BY <2>1 DEF RoundingInv
    <2>3. call' = [op |-> "rounding", element_size |-> size, capacity |-> n,
                   power |-> NextPower(call.power)]
      BY <2>1, <2>2
    <2>4. call.power = 0 => \A power \in PowersOfTwo : power < n
      BY <2>1, <2>2 DEF RoundingInv
    <2>5. \/ NextPower(call.power) \in PowersOfTwo /\ NextPower(call.power) < 2 * n
          \/ NextPower(call.power) = 0 /\ 0 < 2 * n
             /\ \A power \in PowersOfTwo : power < n
      <3>1. CASE call.power \in PowersOfTwo
        <4>1. PICK p \in Nat \ {0} : p = call.power /\ p < n /\ p \in PowersOfTwo
          BY <2>1, <2>2, <3>1, Powers
        <4>2. CASE NextPower(p) = 2 * p /\ 2 * p \in PowersOfTwo
          BY <4>1, <4>2
        <4>3. CASE NextPower(p) = 0 /\ \A other \in PowersOfTwo : other <= p
          BY <4>1, <4>3, Powers
        <4> QED
          BY <4>1, <4>2, <4>3, Powers
      <3>2. CASE call.power = 0 /\ \A power \in PowersOfTwo : power < n
        <4>1. NextPower(0) = 0
          <5>1. 0 < 2^Width /\ 2 * 0 = 0
            BY Words
          <5> QED
            BY <5>1, Words DEF NextPower
        <4> QED
          BY <3>2, <4>1
      <3> QED
        BY <2>2, <2>4, <3>1, <3>2
    <2>6. 0 \notin PowersOfTwo
      BY Powers
    <2> QED
      BY <2>3, <2>5, <2>6 DEF RoundingInv
  <1>3. CASE call'.op # "rounding"
    BY <1>3 DEF RoundingInv, Rounding
  <1>4. CASE UNCHANGED call
    BY <1>4 DEF RoundingInv, Rounding
  <1>5. ASSUME NEW start \in Samples, NEW end \in Samples, NEW step \in Samples,
               For(start, end, step)
        PROVE  call'.op # "rounding"
    BY <1>5 DEF For
  <1>6. QueueCreated => call'.op # "rounding"
    BY DEF QueueCreated
  <1>7. call' = NoCall => call'.op # "rounding"
    BY DEF NoCall
  <1> QED
    BY <1>1, <1>2, <1>3, <1>4, <1>5, <1>6, <1>7 DEF Next, vars, QueueFails

(* What bc_concurrency_queue_create does, for every size of element, every  *)
(* capacity, every cache line and every width of size_t: it rounds to the   *)
(* next power of two, and the slots of the queue made fit its buffer if and *)
(* only if the size of a slot and the size of the buffer, which it computes *)
(* without a look at overflow, can be represented.                          *)
THEOREM SlotsApart == Spec => []QueueFitsExactly
  <1>1. Init => RoundingInv /\ QueueFitsExactly
    BY DEF Init, NoCall, Rounding, RoundingInv, QueueFitsExactly
  <1>2. RoundingInv /\ QueueFitsExactly /\ [Next]_vars => RoundingInv' /\ QueueFitsExactly'
    <2> SUFFICES ASSUME RoundingInv, QueueFitsExactly, [Next]_vars
                 PROVE  RoundingInv' /\ QueueFitsExactly'
      OBVIOUS
    <2>1. RoundingInv'
      BY RoundingStep
    <2>2. CASE QueueCreated
      <3>1. PICK size \in Nat \ {0}, asked \in Nat \ {0}, n \in PowersOfTwo :
              /\ size = call.element_size /\ asked = call.capacity /\ n = call.power
              /\ n < 2 * asked /\ asked <= n
        <4>1. Rounding /\ call.power >= call.capacity
          BY <2>2 DEF QueueCreated, Rounded
        <4>2. PICK asked \in Nat \ {0} : asked = call.capacity
          BY <4>1 DEF RoundingInv
        <4>3. call.power \in PowersOfTwo /\ call.power < 2 * asked
          BY <4>1, <4>2 DEF RoundingInv
        <4>4. PICK n \in Nat : n = call.power
          BY <4>3, Powers
        <4> QED
          BY <4>1, <4>2, <4>3, <4>4 DEF RoundingInv
      <3>2. call' = [op |-> "queue_create", element_size |-> size, asked |-> asked,
                     capacity |-> n, bytes |-> SlotBufferBytes(size, n)]
        BY <2>2, <3>1 DEF QueueCreated
      <3>3. n \in Nat \ {0}
        BY Powers
      <3>4. Fits(size, n, SlotBufferBytes(size, n)) <=> Representable(size, n)
        BY <3>3, RepresentableFits, FitsRepresentable
      <3> QED
        BY <2>1, <3>1, <3>2, <3>4 DEF QueueFitsExactly, Rounding
    <2>3. CASE call'.op # "queue_create"
      BY <2>1, <2>3, Words DEF RoundingInv, QueueFitsExactly
    <2>4. CASE UNCHANGED call
      BY <2>1, <2>4 DEF QueueFitsExactly, Rounding
    <2>5. ASSUME NEW start \in Samples, NEW end \in Samples, NEW step \in Samples,
                 For(start, end, step)
          PROVE  call'.op # "queue_create"
      BY <2>5 DEF For
    <2>6. ASSUME NEW element_size \in Samples, NEW capacity \in Samples,
                 QueueCreate(element_size, capacity)
          PROVE  call'.op # "queue_create"
      BY <2>6 DEF QueueCreate
    <2>7. RoundUp => call'.op # "queue_create"
      BY DEF RoundUp, Rounding
    <2>8. call' = NoCall => call'.op # "queue_create"
      BY DEF NoCall
    <2> QED
      BY <2>2, <2>3, <2>4, <2>5, <2>6, <2>7, <2>8 DEF Next, vars, QueueFails
  <1> QED
    BY <1>1, <1>2, PTL DEF Spec
=============================================================================
