\* Two processes, two commands, one process killed, one failed append.
CONSTANTS
  p1 = p1
  p2 = p2
  Processes = {p1, p2}
  Environments <- PilotEnvironments
  MaxCommands = 2
  MaxCrashes = 1
  MaxWriteFailures = 1
SPECIFICATION Spec
SYMMETRY ProcessSymmetry
\* The bound on commands ends the work of the processes.
CHECK_DEADLOCK FALSE
INVARIANTS
  SchemaAsRecorded
  ProbeRowsRemoved
PROPERTIES
  DoctorTells
  ValidationSettles
