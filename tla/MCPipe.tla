------------------------------- MODULE MCPipe -------------------------------
(***************************************************************************)
(* Three items show every order; a buffer of three is empty, partly filled *)
(* or full.  Items and calls are unbounded in number.                      *)
(***************************************************************************)
EXTENDS Pipe

CONSTANTS a, b, c

MCValues == {a, b, c, Eof}
=============================================================================
