SPECIFICATION BSpec
CONSTANTS
  Width = 3
  Fuel = 12
  MaxLocals = 6
  Programs = {}
  HostPrograms <- MCHostPrograms
  Inputs <- MCInputs
  Addresses = {0, 1}
  Globals <- MCGlobals
  ModuleVars <- MCGlobals
  Claiming = {"let value", "clause loop", "made-up names"}
INVARIANTS HostSameEffects HostValid
CHECK_DEADLOCK FALSE
