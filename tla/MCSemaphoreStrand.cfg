SPECIFICATION SemSpec
CONSTANTS
  f1 = f1
  f2 = f2
  f3 = f3
  Fibers <- MCFibers
  Requests = {1, 2}
  InitCount = 2
  MinCount <- MCMinCount
  MaxSupply = 2
  MaxEntries = 4
SYMMETRY Symmetry
INVARIANTS
  ServedWhenAvailable
