------------------------------- MODULE Channel -------------------------------
(***************************************************************************)
(* What pipe.h promises the two fibers at its ends: items arrive in the    *)
(* order they were written, each once; end of file comes after the last of *)
(* them and only when the writer is closed; a write is acknowledged when   *)
(* the item fits the Capacity, and refused only when the reader is closed; *)
(* an item put back is what the next read returns.                         *)
(***************************************************************************)
EXTENDS Naturals, Sequences

CONSTANTS Items, Capacity, None, Eof

VARIABLES
  stream,      \* items written and not yet read, oldest first
  putBack,     \* the item given to unread(), or None
  readOpen, writeOpen,
  reading,     \* a read() is waiting
  writing,     \* a write() is waiting
  got,         \* what the last read() returned, None before
  wrote        \* what the last write() returned

chVars == <<stream, putBack, readOpen, writeOpen, reading, writing, got, wrote>>

ChannelInit ==
  /\ stream = <<>> /\ putBack = None
  /\ readOpen = TRUE /\ writeOpen = TRUE
  /\ reading = FALSE /\ writing = FALSE
  /\ got = None /\ wrote = "none"

(* A write that starts, and may be acknowledged at once.                   *)
ChWrite(x) ==
  /\ writeOpen /\ ~writing /\ readOpen
  /\ stream' = Append(stream, x)
  /\ \/ writing' = TRUE /\ wrote' = "none"
     \/ Len(stream') <= Capacity /\ writing' = FALSE /\ wrote' = "ok"
  /\ UNCHANGED <<putBack, readOpen, writeOpen, reading, got>>

ChWriteRefused ==
  /\ writeOpen /\ ~writing /\ ~readOpen
  /\ wrote' = "broken"
  /\ UNCHANGED <<stream, putBack, readOpen, writeOpen, reading, writing, got>>

ChWriteEnds ==
  /\ writing
  /\ writing' = FALSE
  /\ \/ Len(stream) <= Capacity /\ wrote' = "ok"
     \/ ~readOpen /\ wrote' = "broken"
  /\ UNCHANGED <<stream, putBack, readOpen, writeOpen, reading, got>>

(* The last item may be on its way, its write not acknowledged yet.        *)
ChReadWaits ==
  /\ readOpen /\ ~reading /\ putBack = None
  /\ stream = <<>> \/ (writing /\ Len(stream) = 1)
  /\ reading' = TRUE /\ got' = None
  /\ UNCHANGED <<stream, putBack, readOpen, writeOpen, writing, wrote>>

(* A read, waiting or new, that returns.                                   *)
ChRead ==
  /\ readOpen
  /\ reading' = FALSE
  /\ \/ /\ ~reading /\ putBack # None
        /\ got' = putBack /\ putBack' = None /\ UNCHANGED stream
     \/ /\ reading \/ putBack = None
        /\ stream # <<>>
        /\ got' = Head(stream) /\ stream' = Tail(stream)
        /\ UNCHANGED putBack
     \/ /\ reading \/ putBack = None
        /\ stream = <<>> /\ ~writeOpen
        /\ got' = Eof /\ UNCHANGED <<stream, putBack>>
  /\ UNCHANGED <<readOpen, writeOpen, writing, wrote>>

ChUnread(x) ==
  /\ readOpen /\ ~reading /\ putBack = None
  /\ putBack' = x
  /\ UNCHANGED <<stream, readOpen, writeOpen, reading, writing, got, wrote>>

(* What is in the channel goes with its reader.                            *)
ChCloseRead ==
  /\ readOpen /\ ~reading
  /\ readOpen' = FALSE /\ stream' = <<>> /\ putBack' = None
  /\ UNCHANGED <<writeOpen, reading, writing, got, wrote>>

ChCloseWrite ==
  /\ writeOpen /\ ~writing
  /\ writeOpen' = FALSE
  /\ UNCHANGED <<stream, putBack, readOpen, reading, writing, got, wrote>>

ChannelNext ==
  \/ \E x \in Items : ChWrite(x) \/ ChUnread(x)
  \/ ChWriteRefused \/ ChWriteEnds
  \/ ChReadWaits \/ ChRead
  \/ ChCloseRead \/ ChCloseWrite

ChannelSpec == ChannelInit /\ [][ChannelNext]_chVars
==============================================================================
