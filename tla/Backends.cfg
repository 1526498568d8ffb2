SPECIFICATION BSpec
CONSTANTS
  Width = 3
  Fuel = 12
  MaxLocals = 6
  Programs <- MCPrograms
  HostPrograms <- MCHostPrograms
  Inputs <- MCInputs
  Addresses = {0, 1}
  Globals <- MCGlobals
  ModuleVars <- MCGlobals
  Claiming = {}
INVARIANTS SameEffects ValidIr HostSameEffects HostValid
PROPERTIES Terminates
CHECK_DEADLOCK FALSE
