SPECIFICATION FairPipeSpec
CONSTANTS
  a = a
  b = b
  c = c
  Eof = Eof
  None = None
  Exception = Exception
  Max = 3
  Visible = TRUE
  Values <- MCValues
INVARIANTS
  PipeTypeOK
  WakeUpsStayTrue
PROPERTIES
  ImplementsChannel
  
CHECK_DEADLOCK FALSE
