\* No initialize() fails.
SPECIFICATION Spec
CONSTANTS
  first = first
  second = second
  third = third
  Module <- MCModule
  Dependancies <- MCDependancies
  MaxFailures = 0
INVARIANT OnlyCyclesFail
CHECK_DEADLOCK FALSE
