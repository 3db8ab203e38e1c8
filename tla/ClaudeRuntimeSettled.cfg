SPECIFICATION Spec
CONSTANTS
  MaxInputs = 2
  MaxCancels = 0
  MaxFailures = 0
PROPERTIES
  SettledInputsStaySettled
CHECK_DEADLOCK FALSE
