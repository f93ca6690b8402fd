----------------------------- MODULE ByteStream -----------------------------
(***************************************************************************)
(* What a SocketHelper promises its callers: the bytes of a connection,    *)
(* cut into lines and payloads, as if they had all arrived already.        *)
(*                                                                         *)
(* A caller reads a line, which may announce a payload of so many bytes    *)
(* (BLOCK, ID, LIST and GET-PEER do), then that payload, then the next     *)
(* line.  The other side may go away at any point.                         *)
(***************************************************************************)
EXTENDS Integers, Sequences

CONSTANTS
  Newline,       \* the byte that ends a line
  Announced(_),  \* how many bytes a line announces, 0 for none
  Messages,      \* what the other side may say: lines, each with its payload
  MaxMessages    \* bound: how many messages it sends

VARIABLES
  sent,    \* the messages the other side has sent
  unread,  \* the bytes not yet handed to the caller
  open,    \* whether the other side may still send
  due,     \* how many bytes the caller reads next, 0 for a line
  head,    \* the line whose payload is due
  got,     \* the messages the caller has, each a line and its payload
  lost     \* whether the caller was told of a disconnection (None)

callerVars == <<due, head, got, lost>>
vars == <<sent, unread, open, callerVars>>

\* No byte of s is a newline.
NoNewline(s) == \A i \in 1 .. Len(s) : s[i] # Newline

Message(line, payload) == [line |-> line, payload |-> payload]

\* A message as sendall is given it.
Encoded(m) == m.line \o <<Newline>> \o m.payload

Init ==
  /\ sent = <<>>
  /\ unread = <<>>
  /\ open = TRUE
  /\ due = 0
  /\ head = <<>>
  /\ got = <<>>
  /\ lost = FALSE

Say(m) ==
  /\ open
  /\ Len(sent) < MaxMessages
  /\ sent' = Append(sent, m)
  /\ unread' = unread \o Encoded(m)
  /\ UNCHANGED <<open, callerVars>>

\* The caller has a line; the message is complete if nothing is announced.
HandOverLine(line) ==
  /\ due' = Announced(line)
  /\ head' = line
  /\ got' = IF Announced(line) = 0 THEN Append(got, Message(line, <<>>)) ELSE got
  /\ lost' = lost

HandOverPayload(payload) ==
  /\ due' = 0
  /\ head' = head
  /\ got' = Append(got, Message(head, payload))
  /\ lost' = lost

\* Callers give up a connection that is lost.
GiveUp == lost' = TRUE /\ UNCHANGED <<due, head, got>>

ReadLine ==
  \E i \in 1 .. Len(unread) :
    /\ ~lost
    /\ due = 0
    /\ unread[i] = Newline
    /\ NoNewline(SubSeq(unread, 1, i - 1))
    /\ unread' = SubSeq(unread, i + 1, Len(unread))
    /\ HandOverLine(SubSeq(unread, 1, i - 1))
    /\ UNCHANGED <<sent, open>>

ReadPayload ==
  /\ ~lost
  /\ due > 0
  /\ due <= Len(unread)
  /\ unread' = SubSeq(unread, due + 1, Len(unread))
  /\ HandOverPayload(SubSeq(unread, 1, due))
  /\ UNCHANGED <<sent, open>>

\* Only when nothing complete is left to read.
Disconnect ==
  /\ ~lost
  /\ ~open
  /\ IF due = 0 THEN NoNewline(unread) ELSE Len(unread) < due
  /\ GiveUp
  /\ UNCHANGED <<sent, unread, open>>

\* The other side goes away; what it has not sent yet it never will.
Close ==
  /\ open
  /\ open' = FALSE
  /\ \E k \in 0 .. Len(unread) : unread' = SubSeq(unread, 1, k)
  /\ UNCHANGED <<sent, callerVars>>

Next == \/ \E m \in Messages : Say(m)
        \/ ReadLine \/ ReadPayload \/ Disconnect \/ Close

Spec == Init /\ [][Next]_vars

=============================================================================
