--------------------------- MODULE MCSocketHelper ---------------------------
(***************************************************************************)
(* SocketHelper on short conversations.  A byte is a number or the         *)
(* newline; the first byte of a line is the length it announces.           *)
(***************************************************************************)
EXTENDS SocketHelper

\* "PEERS" announces nothing, "BLOCK 3 NEW" a payload; the list of an empty
\* network is an empty line.
MCAnnounced(line) == IF line = <<>> THEN 0 ELSE line[1]

Lines    == {<<>>, <<0, 7>>, <<1>>, <<3, 7>>}
Payloads == {<<>>, <<8>>, <<Newline>>, <<8, Newline, 9>>}

MCBytes == {0, 1, 3, 7, 8, 9, Newline}

MCMessages == {m \in [line : Lines, payload : Payloads] :
                 Len(m.payload) = MCAnnounced(m.line)}

=============================================================================
