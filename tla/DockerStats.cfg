\* Restarts, missing readings and idle spans on a machine with two CPUs.
CONSTANTS
  Cpus = 2
  Absent = Absent
  MaxSystem = 4
  MaxMemory = 2
SPECIFICATION Spec
INVARIANTS
  TypeOK
  CpuNeverOverstated
  CpuWithinMachine
  CpuExactWhenWhole
  MemoryWithinLimit
