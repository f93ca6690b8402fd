---------------------------- MODULE SocketHelper ----------------------------
(***************************************************************************)
(* SocketHelper (socket_helper.py): lines and payloads cut out of a TCP    *)
(* stream that arrives in arbitrary pieces.  What one call has read beyond *)
(* its end is kept in rem_buf for the next call.                           *)
(*                                                                         *)
(* An action is one turn of the loop of get_data_until_newline or of       *)
(* get_n_bytes_of_data.  The callers (peer.py, tracker.py) take a line     *)
(* and then the payload it announces, if any; they never ask for 0 bytes.  *)
(***************************************************************************)
EXTENDS Integers, Sequences, SequencesExt

CONSTANTS
  Bytes,         \* the values of a byte
  Newline,       \* the one that ends a line
  Announced(_),  \* how many bytes a line announces, 0 for none
  Messages,      \* what the other side may say: lines, each with its payload
  MaxMessages,   \* bound: how many messages it sends
  LineMax,       \* the most that recv returns while a line is read
  DataMax        \* the most that recv returns while a payload is read

ASSUME MaxAssumption ==
  MaxMessages \in Nat /\ LineMax \in Nat \ {0} /\ DataMax \in Nat \ {0}

\* A line announces the length of its payload.
ASSUME MessagesAssumption ==
  /\ Newline \in Bytes
  /\ Messages \subseteq [line : Seq(Bytes \ {Newline}), payload : Seq(Bytes)]
  /\ \A m \in Messages : Announced(m.line) = Len(m.payload)

VARIABLES
  sent,  \* the messages the other side has sent
  wire,  \* the bytes of them that recv has not returned yet
  open,  \* whether the other side may still send
  rem,   \* rem_buf, empty for None
  buf,   \* curr_buf
  due,   \* the n_bytes of the call in progress, 0 while a line is read
  head,  \* the line whose payload is due
  got,   \* the messages the caller has
  lost   \* whether the caller was told of a disconnection

callerVars == <<due, head, got, lost>>
vars == <<sent, wire, open, rem, buf, callerVars>>

\* The helper implements a stream whose unread bytes lie in three places.
B == INSTANCE ByteStream WITH unread <- buf \o rem \o wire

Init ==
  /\ sent = <<>>
  /\ wire = <<>>
  /\ open = TRUE
  /\ rem = <<>>
  /\ buf = <<>>
  /\ due = 0
  /\ head = <<>>
  /\ got = <<>>
  /\ lost = FALSE

-----------------------------------------------------------------------------
\* The other side sends a whole message, with sendall.
Say(m) ==
  /\ open
  /\ Len(sent) < MaxMessages
  /\ sent' = Append(sent, m)
  /\ wire' = wire \o B!Encoded(m)
  /\ UNCHANGED <<open, rem, buf, callerVars>>

Least(a, b) == IF a < b THEN a ELSE b

\* What one turn may get: the remainder, else what recv(max) returns.
Pieces(max) ==
  IF rem # <<>> THEN {rem}
                ELSE {SubSeq(wire, 1, k) : k \in 1 .. Least(max, Len(wire))}

\* The rest of the stream when the turn has got its piece.
TakeOff(piece) ==
  wire' = IF rem # <<>> THEN wire ELSE SubSeq(wire, Len(piece) + 1, Len(wire))

\* Mutant: the newline stays in front of the remainder.
AfterNewlineKept(piece, i) == SubSeq(piece, i, Len(piece))

\* What follows the newline at place i of the piece.
AfterNewline(piece, i) == SubSeq(piece, i + 1, Len(piece))

\* Mutant: buf_len is not added to the index.
LineCutShort(piece, i) == SubSeq(buf \o piece, 1, i - 1)

\* The line that ends at place i of the piece; it began in curr_buf.
LineUpTo(piece, i) == SubSeq(buf \o piece, 1, Len(buf) + i - 1)

\* get_data_until_newline: no newline yet.
LineGoesOn ==
  /\ ~lost
  /\ due = 0
  /\ \E piece \in Pieces(LineMax) :
       /\ B!NoNewline(piece)
       /\ TakeOff(piece)
       /\ buf' = buf \o piece
  /\ rem' = <<>>
  /\ UNCHANGED <<sent, open, callerVars>>

\* get_data_until_newline: the first newline of the piece ends the line.
LineEnds ==
  /\ ~lost
  /\ due = 0
  /\ \E piece \in Pieces(LineMax) : \E i \in 1 .. Len(piece) :
       /\ piece[i] = Newline
       /\ B!NoNewline(SubSeq(piece, 1, i - 1))
       /\ TakeOff(piece)
       /\ rem' = AfterNewline(piece, i)
       /\ B!HandOverLine(LineUpTo(piece, i))
  /\ buf' = <<>>
  /\ UNCHANGED <<sent, open>>

\* Mutant: one byte more is asked for.
EnoughAndMore(piece) == Len(buf) + Len(piece) > due

Enough(piece) == Len(buf) + Len(piece) >= due

\* get_n_bytes_of_data: not enough yet.
DataGoesOn ==
  /\ ~lost
  /\ due > 0
  /\ \E piece \in Pieces(DataMax) :
       /\ ~Enough(piece)
       /\ TakeOff(piece)
       /\ buf' = buf \o piece
  /\ rem' = <<>>
  /\ UNCHANGED <<sent, open, callerVars>>

\* Mutant: what was read beyond the payload is forgotten.
BeyondDropped(all) == SubSeq(all, due + 1, 0)

Beyond(all) == SubSeq(all, due + 1, Len(all))

\* get_n_bytes_of_data: the payload is complete.
DataEnds ==
  /\ ~lost
  /\ due > 0
  /\ \E piece \in Pieces(DataMax) :
       /\ Enough(piece)
       /\ TakeOff(piece)
       /\ rem' = Beyond(buf \o piece)
       /\ B!HandOverPayload(SubSeq(buf \o piece, 1, due))
  /\ buf' = <<>>
  /\ UNCHANGED <<sent, open>>

\* Mutant: a call that finds no remainder and nothing to receive gives up,
\* though the other side may still send.
NothingLeftYet == rem = <<>> /\ (wire = <<>> \/ open)

\* recv returns nothing: the other side has gone and all it sent was read.
NothingLeft == rem = <<>> /\ wire = <<>> /\ ~open

\* The call returns None, the caller gives the connection up.
Disconnected ==
  /\ ~lost
  /\ NothingLeft
  /\ B!GiveUp
  /\ UNCHANGED <<sent, wire, open, rem, buf>>

\* The other side goes away in the middle of anything.
Close ==
  /\ open
  /\ open' = FALSE
  /\ \E k \in 0 .. Len(wire) : wire' = SubSeq(wire, 1, k)
  /\ UNCHANGED <<sent, rem, buf, callerVars>>

Read == LineGoesOn \/ LineEnds \/ DataGoesOn \/ DataEnds \/ Disconnected

Next == Read \/ (\E m \in Messages : Say(m)) \/ Close

Spec == Init /\ [][Next]_vars

\* A reader that has something to receive receives it.
FairSpec == Spec /\ WF_vars(Read)

-----------------------------------------------------------------------------
(***************************************************************************)
(* Between two turns nothing is held twice: a payload in progress is       *)
(* incomplete, a line in progress holds no newline.                        *)
(***************************************************************************)
TypeOK ==
  /\ sent \in Seq(Messages)
  /\ wire \in Seq(Bytes)
  /\ open \in BOOLEAN
  /\ rem \in Seq(Bytes)
  /\ buf \in Seq(Bytes)
  /\ due \in Nat
  /\ head \in Seq(Bytes)
  /\ got \in Seq(Messages)
  /\ lost \in BOOLEAN
  /\ IF due = 0 THEN B!NoNewline(buf) ELSE Len(buf) < due

(***************************************************************************)
(* Wherever recv cuts the stream, inside a header, at its newline, inside  *)
(* a payload that has newlines of its own or over several messages, the    *)
(* caller sees the lines and payloads of the uncut stream, and None only   *)
(* when the other side has gone and nothing complete is left.              *)
(***************************************************************************)
ImplementsByteStream == B!Spec

(***************************************************************************)
(* The messages handed over are the first ones sent, each with its own     *)
(* payload: none is skipped, split, merged or invented, even if the        *)
(* connection breaks.                                                      *)
(***************************************************************************)
MessagesIntact == IsPrefix(got, sent)

(***************************************************************************)
(* Every message arrives, or the caller is told that the other side went.  *)
(***************************************************************************)
EveryMessageArrives == <>[](got = sent \/ lost)

=============================================================================
