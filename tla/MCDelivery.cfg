CONSTANTS
  memory = memory
  file = file
  Nobody = Nobody
  Emitter = {e1, e2}
  Sink = {memory, file, syslog}
  FirstSinks <- Registered
  Memory = memory
  MaxQueue = 1
  MaxBatch = 2
  MaxEvents = 2
  MaxChanges = 1
  MaxFailures = 1
SPECIFICATION Spec
PROPERTIES
  EventuallySettled
  WorkerStops
\* The dispatcher really stops after shutdown.
CHECK_DEADLOCK FALSE
