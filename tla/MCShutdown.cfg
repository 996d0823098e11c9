CONSTANTS
  memory = memory
  file = file
  Nobody = Nobody
  Emitter = {e1, e2}
  Sink = {memory, file}
  FirstSinks <- Registered
  Memory = memory
  MaxQueue = 2
  MaxBatch = 2
  MaxEvents = 3
  MaxChanges = 0
  MaxFailures = 1
SPECIFICATION Spec
INVARIANT ShutdownDrains
