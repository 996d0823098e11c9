CONSTANTS
  memory = memory
  file = file
  Nobody = Nobody
  Emitter = {e1, e2}
  Sink = {memory, file}
  FirstSinks <- Registered
  Memory = memory
  MaxQueue = 2
  MaxBatch = 2
  MaxEvents = 3
  MaxChanges = 1
  MaxFailures = 1
SPECIFICATION Spec
INVARIANTS
  TypeOK
  TrailIsComplete
  QueuedInOrder
  FlushIsABarrier
\* The dispatcher really stops after shutdown.
CHECK_DEADLOCK FALSE
