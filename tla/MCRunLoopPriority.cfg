CONSTANTS
  Default <- MCDefault
  Inputs <- MCInputs
  Client = {c1}
SPECIFICATION RunSpec
PROPERTY
  EverySettingsPriority
CHECK_DEADLOCK FALSE
