\* A startup measurement and its report.
SPECIFICATION Spec
CONSTANTS
  c1 = c1
  c2 = c2
  Clients <- MCClients
  MaxGeneration = 2
INVARIANT ReportNamesExecution
\* When every generation is spent nothing is left to start.
CHECK_DEADLOCK FALSE
