CONSTANTS
  Width = 6
  MaxCpus = 4
  Machines <- AllMachines
  Offsets = {0, 1, 2}
  Counts = {0, 1, 2, 3, 62, 63}
  SizeOfThread = 2
  SizeOfWork = 4
  SizeOfWorker = 8
  MaxAllocation = 40
  CacheLine = 4
  SizeOfSequence = 2
  Samples = {0, 1, 2, 3, 5, 8, 17, 30, 59, 62, 63}
SPECIFICATION Spec
INVARIANTS
  CoreTypeOK ThreadsOnOwnCores ConfigHonoured EachIndexOnce QueueFitsExactly
