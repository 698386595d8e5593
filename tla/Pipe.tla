-------------------------------- MODULE Pipe --------------------------------
(***************************************************************************)
(* pipe.h: pipe_buffer, pipe_reader and pipe_writer, used by one fiber at  *)
(* each end.  A fiber makes one call at a time, as the class comment asks, *)
(* and destroys its end when its call has returned ("the continuations     *)
(* capturing it end").  The buffer is deleted with the second end.         *)
(***************************************************************************)
EXTENDS Fueue

CONSTANT Eof   \* the disengaged optional

ASSUME PipeAssumption ==
  /\ Max \in Nat \ {0}
  /\ Eof \in Values
  /\ None \notin Values
  /\ Visible \in BOOLEAN

Items == Values \ {Eof}

VARIABLES
  readOpen,    \* _read_open
  writeOpen,   \* _write_open
  unreadItem   \* _unread, None when disengaged

pipeVars == <<fueueVars, readOpen, writeOpen, unreadItem>>

PipeInit ==
  /\ FueueInit
  /\ readOpen = TRUE /\ writeOpen = TRUE
  /\ unreadItem = None
------------------------------------------------------------------------------
(* Mutant: what was written before the close is not read.                  *)
ReadableWhileOpen == writeOpen

Readable == writeOpen \/ ~Empty

(* read() that finds an unread item.                                       *)
ReadUnread ==
  /\ readOpen /\ consumer = "idle" /\ unreadItem # None
  /\ got' = unreadItem
  /\ unreadItem' = None
  /\ UNCHANGED <<q, ex, not_empty, not_full, consumer, producer, pending,
                 wrote, readOpen, writeOpen>>

ReadBuffer ==
  /\ readOpen /\ consumer = "idle" /\ unreadItem = None
  /\ Readable
  /\ pop_eventually
  /\ UNCHANGED <<readOpen, writeOpen, unreadItem>>

ReadEnd ==
  /\ readOpen /\ consumer = "idle" /\ unreadItem = None
  /\ ~Readable
  /\ got' = Eof
  /\ UNCHANGED <<q, ex, not_empty, not_full, consumer, producer, pending,
                 wrote, readOpen, writeOpen, unreadItem>>

(* unread() throws when an item is there already.                          *)
Unread(x) ==
  /\ readOpen /\ consumer = "idle" /\ unreadItem = None
  /\ unreadItem' = x
  /\ UNCHANGED <<fueueVars, readOpen, writeOpen>>

Write(x) ==
  /\ writeOpen /\ producer = "idle"
  /\ \/ readOpen /\ push_eventually(x)
     \/ /\ ~readOpen
        /\ wrote' = "broken"
        /\ UNCHANGED <<q, ex, not_empty, not_full, consumer, producer,
                       pending, got>>
  /\ UNCHANGED <<readOpen, writeOpen, unreadItem>>

(* Mutant: a writer blocked on a full buffer is left there.                *)
CloseReadSilently ==
  /\ readOpen /\ consumer = "idle"
  /\ readOpen' = FALSE /\ unreadItem' = None
  /\ UNCHANGED <<fueueVars, writeOpen>>

(* ~pipe_reader: close_read().                                             *)
CloseRead ==
  /\ readOpen /\ consumer = "idle"
  /\ IF Full THEN abort ELSE UNCHANGED fueueVars
  /\ readOpen' = FALSE /\ unreadItem' = None
  /\ UNCHANGED writeOpen

(* ~pipe_writer: close_write().                                            *)
CloseWrite ==
  /\ writeOpen /\ producer = "idle"
  /\ IF Empty THEN push(Eof) ELSE UNCHANGED <<q, not_empty, consumer>>
  /\ writeOpen' = FALSE
  /\ UNCHANGED <<ex, not_full, producer, pending, got, wrote, readOpen,
                 unreadItem>>

(* A continuation that the reactor has queued.                             *)
Continue ==
  /\ PopContinues \/ PushContinues \/ PushFails
  /\ UNCHANGED <<readOpen, writeOpen, unreadItem>>

(* pipe_reader(pipe_reader&&): the new reader has nothing unread.          *)
MoveReader ==
  /\ readOpen /\ consumer = "idle"
  /\ unreadItem' = None
  /\ UNCHANGED <<fueueVars, readOpen, writeOpen>>

(* A failed assertion ends the program.                                    *)
PipeNext ==
  /\ producer # "asserted"
  /\ \/ ReadUnread \/ ReadBuffer \/ ReadEnd
     \/ \E x \in Items : Unread(x) \/ Write(x)
     \/ CloseRead \/ CloseWrite
     \/ Continue

(* The ends move only while nothing is unread: the move changes nothing.   *)
PipeSpec == PipeInit /\ [][PipeNext]_pipeVars

FairPipeSpec == PipeSpec /\ WF_pipeVars(Continue)

MovingPipeSpec == PipeInit /\ [][PipeNext \/ MoveReader]_pipeVars
------------------------------------------------------------------------------
PipeTypeOK ==
  /\ q \in Seq(Values) /\ Len(q) <= Max
  /\ ex \in BOOLEAN /\ not_empty \in BOOLEAN /\ not_full \in BOOLEAN
  /\ consumer \in {"idle", "waiting", "woken"}
  /\ producer \in CallStates
  /\ pending \in Items \union {None}
  /\ got \in Values \union {None}
  /\ wrote \in {"none", "ok", "broken"}
  /\ readOpen \in BOOLEAN /\ writeOpen \in BOOLEAN
  /\ unreadItem \in Items \union {None}

(* Whoever waits has a promise in the queue and a reason: an empty queue,  *)
(* or a full one that somebody may still read.  Whoever was woken finds    *)
(* what it was woken for when its continuation runs, whatever calls came   *)
(* between: pop() on an empty queue would be undefined, and the            *)
(* continuation of push_eventually() does not look for room.               *)
WakeUpsStayTrue ==
  /\ consumer = "waiting" <=> not_empty
  /\ not_empty => q = <<>> /\ writeOpen /\ readOpen
  /\ consumer = "woken" => q # <<>> /\ readOpen /\ ~ex
  /\ producer = "waiting" <=> not_full
  /\ not_full => Len(q) = Max /\ readOpen
  /\ producer = "woken" => Len(q) < Max

(* No end hangs: when the other end is destroyed the fiber stops blocking  *)
(* (pipe.h: "the other end of the pipe will stop blocking, so the other    *)
(* fiber will not hang"); a reader waiting while there is an item, and a   *)
(* writer waiting while there is room, get on too.                         *)
NoEndHangs ==
  /\ (consumer # "idle" /\ (~writeOpen \/ q # <<>>)) ~> consumer = "idle"
  /\ (producer # "idle" /\ (~readOpen \/ Len(q) < Max)) ~> producer = "idle"

(* The pipe implements the abstract channel.                               *)
ItemsIn(s) == IF s = <<Eof>> THEN <<>> ELSE s
Stream ==
  IF ~readOpen THEN <<>>
  ELSE IF pending = None THEN ItemsIn(q) ELSE Append(q, pending)
AbstractPipe ==
  INSTANCE Channel WITH
    Capacity <- Max, stream <- Stream, putBack <- unreadItem,
    reading <- consumer # "idle", writing <- producer # "idle"
ImplementsChannel == AbstractPipe!ChannelSpec

(* What unread() documents (pipe.h:162-163): the item given to it is what  *)
(* the next read() returns; until then, or until the reader is destroyed,  *)
(* it stays.                                                               *)
UnreadIsReadNext ==
  [][unreadItem # None =>
       unreadItem' = unreadItem \/ got' = unreadItem \/ ~readOpen']_pipeVars
==============================================================================
