SPECIFICATION Spec
CONSTANTS
  Tracked <- MCTracked
  Movable <- MCMovable
  Choices <- MCChoices
PROPERTIES
  CompilesTheChoice
CHECK_DEADLOCK FALSE
