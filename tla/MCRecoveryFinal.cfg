SPECIFICATION Spec
CONSTANTS
  Address = {a1, a2}
  InitialOwner = a1
  Guardian = {g1, g2}
  TimeLockDuration = 1
  MaxRecoveries = 2
  MaxTime = 2
  None = None
PROPERTY TerminalStatesAreFinal
