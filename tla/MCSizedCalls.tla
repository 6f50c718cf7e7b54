---------------------------- MODULE MCSizedCalls -----------------------------
(* SizedCalls with six-bit words on machines of up to four CPUs.            *)
EXTENDS SizedCalls

Machine(files, core_id, package, online, allowed) ==
  [files |-> files, core_id |-> [c \in Cpus |-> core_id[c + 1]],
   package |-> [c \in Cpus |-> package[c + 1]], online |-> online, allowed |-> allowed]

OneSocket == <<0, 0, 0, 0>>

FourCores      == Machine(Cpus, <<0, 1, 2, 3>>, OneSocket, 4, Cpus)
SiblingsFirst  == Machine(Cpus, <<0, 0, 2, 2>>, OneSocket, 4, Cpus)
SiblingsLast   == Machine(Cpus, <<0, 3, 0, 3>>, OneSocket, 4, Cpus)
TwoSockets     == Machine(Cpus, <<0, 1, 0, 1>>, <<0, 0, 1, 1>>, 4, Cpus)
OfflineCpu     == Machine(Cpus \ {2}, <<0, 1, 2, 3>>, OneSocket, 3, Cpus \ {2})
StrangeCoreIds == Machine(Cpus, <<-1, 1, 7, 0>>, OneSocket, 4, Cpus)
NoTopology     == Machine({}, OneSocket, OneSocket, 3, 0 .. 2)
NothingKnown   == Machine({}, OneSocket, OneSocket, -1, {0})
Container      == Machine(Cpus, <<0, 1, 2, 3>>, OneSocket, 2, {0, 1})

AllMachines ==
  {FourCores, SiblingsFirst, SiblingsLast, TwoSockets, OfflineCpu, StrangeCoreIds,
   NoTopology, NothingKnown, Container}

OnlyContainer == {Container}
=============================================================================
