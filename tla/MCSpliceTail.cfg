SPECIFICATION Spec
CONSTANTS
  Words = 7
  Args = {0, 1}
  HostCalls = 2
CHECK_DEADLOCK FALSE
INVARIANT ReturnsNormally
