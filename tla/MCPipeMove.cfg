SPECIFICATION MovingPipeSpec
CONSTANTS
  a = a
  b = b
  c = c
  Eof = Eof
  None = None
  Exception = Exception
  Max = 3
  Visible = FALSE
  Values <- MCValues
PROPERTIES
  UnreadIsReadNext
CHECK_DEADLOCK FALSE
