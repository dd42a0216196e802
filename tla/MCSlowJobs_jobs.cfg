SPECIFICATION FairSpec
CONSTANTS
  main = main
  side = side
  a1 = a1
  a2 = a2
  a3 = a3
  b1 = b1
  A = A
  B = B
  Job = {a1, a2, b1}
  Caller = {main}
  Name = {A, B}
  NameOf <- TwoNames
  max_local <- OneEach
  global_limit = 2
  NoThread = NoThread
INVARIANTS
  TypeOK
  CountersAgree
PROPERTIES
  ImplementsPool
  AllRun
CHECK_DEADLOCK FALSE
