SPECIFICATION Spec
CONSTANTS
  Calls = {c1, c2}
  PoolSize = 1
  Objects = {"recognizer"}
  Values = {0, 5}
  LastVersion = 1
  Work <- MCWork
PROPERTIES
  KeepsContract
  CallsEnd
\* The program may stop calling.
CHECK_DEADLOCK FALSE
