SPECIFICATION Spec
CONSTANTS
  controller = controller
  operator1 = operator1
  operator2 = operator2
  Sessions = {controller, operator1, operator2}
  Work <- WhoDoesWhat
  Bases <- UpgradedAndNew
SYMMETRY Symmetry
INVARIANTS
  OnlyKnownDeadlocks
  WritesAreGuarded
  FailuresExplained
