------------------------- MODULE SocketHelperProofs -------------------------
(***************************************************************************)
(* SocketHelper implements ByteStream, and its callers receive what was    *)
(* sent.                                                                   *)
(***************************************************************************)
EXTENDS SocketHelper, SequenceTheorems, TLAPS

-----------------------------------------------------------------------------
(***************************************************************************)
(* Cutting sequences.                                                      *)
(***************************************************************************)
LEMMA Cut ==
  ASSUME NEW S, NEW s \in Seq(S), NEW n \in 0 .. Len(s)
  PROVE  /\ SubSeq(s, 1, n) \in Seq(S) /\ Len(SubSeq(s, 1, n)) = n
         /\ \A i \in 1 .. n : SubSeq(s, 1, n)[i] = s[i]
         /\ SubSeq(s, n + 1, Len(s)) \in Seq(S)
         /\ Len(SubSeq(s, n + 1, Len(s))) = Len(s) - n
         /\ \A i \in 1 .. Len(s) - n : SubSeq(s, n + 1, Len(s))[i] = s[n + i]
<1>1. PICK k \in Nat : k = Len(s)
  BY LenProperties
<1>2. \A i \in 1 .. k : s[i] \in S
  BY <1>1, ElementOfSeq
<1>3. n \in Nat /\ n <= k
  BY <1>1
<1>4. \A i \in 1 .. n : s[i] \in S
  BY <1>2, <1>3
<1>5. /\ SubSeq(s, 1, n) \in Seq(S)
      /\ Len(SubSeq(s, 1, n)) = IF 1 <= n THEN n - 1 + 1 ELSE 0
      /\ \A i \in 1 .. n - 1 + 1 : SubSeq(s, 1, n)[i] = s[1 + i - 1]
  BY <1>3, <1>4, SubSeqProperties
<1>6. \A i \in n + 1 .. k : s[i] \in S
  BY <1>2, <1>3
<1>7. /\ SubSeq(s, n + 1, k) \in Seq(S)
      /\ Len(SubSeq(s, n + 1, k)) = IF n + 1 <= k THEN k - (n + 1) + 1 ELSE 0
      /\ \A i \in 1 .. k - (n + 1) + 1 : SubSeq(s, n + 1, k)[i] = s[n + 1 + i - 1]
  BY <1>3, <1>6, SubSeqProperties
<1>8. Len(SubSeq(s, 1, n)) = n /\ Len(SubSeq(s, n + 1, k)) = k - n
  BY <1>3, <1>5, <1>7
<1>9. \A i \in 1 .. n : SubSeq(s, 1, n)[i] = s[i]
  <2>1. \A i \in 1 .. n : i \in 1 .. n - 1 + 1 /\ 1 + i - 1 = i
    BY <1>3
  <2> QED
    BY <1>5, <2>1
<1>10. \A i \in 1 .. k - n : SubSeq(s, n + 1, k)[i] = s[n + i]
  <2>1. \A i \in 1 .. k - n : i \in 1 .. k - (n + 1) + 1 /\ n + 1 + i - 1 = n + i
    BY <1>3
  <2> QED
    BY <1>7, <2>1
<1> QED
  BY <1>1, <1>5, <1>7, <1>8, <1>9, <1>10

LEMMA Regroup ==
  \A s, t, u \in Seq(Bytes) : (s \o t) \o u = s \o (t \o u)
<1> TAKE s, t, u \in Seq(Bytes)
<1> QED
  BY ConcatAssociative

LEMMA CutInFirst ==
  ASSUME NEW S, NEW s \in Seq(S), NEW t \in Seq(S), NEW n \in 0 .. Len(s)
  PROVE  /\ SubSeq(s \o t, 1, n) = SubSeq(s, 1, n)
         /\ SubSeq(s \o t, n + 1, Len(s \o t))
            = SubSeq(s, n + 1, Len(s)) \o t
<1> DEFINE u == s \o t
<1>1. PICK k, m \in Nat : k = Len(s) /\ m = Len(t)
  BY LenProperties
<1>2. /\ u \in Seq(S) /\ Len(u) = k + m
      /\ \A i \in 1 .. k + m : u[i] = IF i <= k THEN s[i] ELSE t[i - k]
  BY <1>1, ConcatProperties
<1>3. n \in Nat /\ n <= k /\ n \in 0 .. Len(u)
  BY <1>1, <1>2
<1> HIDE DEF u
<1>4. /\ SubSeq(u, 1, n) \in Seq(S) /\ Len(SubSeq(u, 1, n)) = n
      /\ \A i \in 1 .. n : SubSeq(u, 1, n)[i] = u[i]
      /\ SubSeq(u, n + 1, Len(u)) \in Seq(S)
      /\ Len(SubSeq(u, n + 1, Len(u))) = k + m - n
      /\ \A i \in 1 .. k + m - n : SubSeq(u, n + 1, Len(u))[i] = u[n + i]
  BY <1>2, <1>3, Cut
<1>5. /\ SubSeq(s, 1, n) \in Seq(S) /\ Len(SubSeq(s, 1, n)) = n
      /\ \A i \in 1 .. n : SubSeq(s, 1, n)[i] = s[i]
      /\ SubSeq(s, n + 1, Len(s)) \in Seq(S)
      /\ Len(SubSeq(s, n + 1, Len(s))) = k - n
      /\ \A i \in 1 .. k - n : SubSeq(s, n + 1, Len(s))[i] = s[n + i]
  BY <1>1, Cut
<1>6. SubSeq(u, 1, n) = SubSeq(s, 1, n)
  <2>1. \A i \in 1 .. n : u[i] = s[i]
    BY <1>2, <1>3
  <2> QED
    BY <1>4, <1>5, <2>1, SeqEqual
<1>7. SubSeq(u, n + 1, Len(u)) = SubSeq(s, n + 1, Len(s)) \o t
  <2>1. PICK a \in Seq(S) : a = SubSeq(s, n + 1, Len(s))
    BY <1>5
  <2>2. PICK b \in Seq(S) : b = SubSeq(u, n + 1, Len(u))
    BY <1>4
  <2>3. /\ a \o t \in Seq(S) /\ Len(a \o t) = k - n + m
        /\ \A i \in 1 .. k - n + m :
             (a \o t)[i] = IF i <= k - n THEN a[i] ELSE t[i - (k - n)]
    <3>1. Len(a) = k - n /\ Len(t) = m
      BY <1>1, <1>5, <2>1
    <3>2. /\ a \o t \in Seq(S) /\ Len(a \o t) = Len(a) + Len(t)
          /\ \A i \in 1 .. Len(a) + Len(t) :
               (a \o t)[i] = IF i <= Len(a) THEN a[i] ELSE t[i - Len(a)]
      BY ConcatProperties
    <3> QED
      BY <3>1, <3>2
  <2>4. ASSUME NEW i \in 1 .. k + m - n
        PROVE  b[i] = (a \o t)[i]
    <3>1. b[i] = u[n + i] /\ n + i \in 1 .. k + m /\ i \in 1 .. k - n + m
      BY <1>3, <1>4, <2>2
    <3>2. CASE i <= k - n
      <4>1. n + i <= k /\ i \in 1 .. k - n
        BY <1>3, <3>2
      <4>2. u[n + i] = s[n + i] /\ a[i] = s[n + i] /\ (a \o t)[i] = a[i]
        BY <1>2, <1>5, <2>1, <2>3, <3>1, <3>2, <4>1
      <4> QED
        BY <3>1, <4>2
    <3>3. CASE ~(i <= k - n)
      <4>1. ~(n + i <= k) /\ n + i - k = i - (k - n)
        BY <1>3, <3>3
      <4>2. u[n + i] = t[n + i - k]
        <5>1. PICK h \in 1 .. k + m : h = n + i
          BY <3>1
        <5>2. u[h] = t[h - k]
          BY <1>2, <4>1, <5>1
        <5> QED
          BY <5>1, <5>2
      <4>3. (a \o t)[i] = t[i - (k - n)]
        BY <2>3, <3>1, <3>3
      <4> QED
        BY <3>1, <4>1, <4>2, <4>3
    <3> QED
      BY <3>2, <3>3
  <2>5. Len(b) = k + m - n /\ Len(a \o t) = k + m - n
    BY <1>3, <1>4, <2>2, <2>3
  <2>6. b = a \o t
    BY <2>2, <2>3, <2>4, <2>5, SeqEqual
  <2> QED
    BY <2>1, <2>2, <2>6
<1> QED
  BY <1>6, <1>7 DEF u

-----------------------------------------------------------------------------
(***************************************************************************)
(* What one turn does to the bytes that are not handed over.               *)
(***************************************************************************)
Unread == buf \o rem \o wire

LEMMA UnreadType ==
  ASSUME TypeOK
  PROVE  /\ Unread \in Seq(Bytes) /\ Unread = buf \o (rem \o wire)
         /\ rem \o wire \in Seq(Bytes)
<1>1. buf \in Seq(Bytes) /\ rem \in Seq(Bytes) /\ wire \in Seq(Bytes)
  BY DEF TypeOK
<1>2. buf \o rem \in Seq(Bytes) /\ rem \o wire \in Seq(Bytes)
  BY <1>1, ConcatProperties
<1>3. (buf \o rem) \o wire \in Seq(Bytes)
  BY <1>1, <1>2, ConcatProperties
<1>4. (buf \o rem) \o wire = buf \o (rem \o wire)
  BY <1>1, Regroup
<1> QED
  BY <1>2, <1>3, <1>4 DEF Unread

\* The piece is the next part of the stream.
LEMMA PieceTaken ==
  ASSUME TypeOK, NEW max \in Nat, NEW piece \in Pieces(max), TakeOff(piece)
  PROVE  /\ piece \in Seq(Bytes) /\ wire' \in Seq(Bytes)
         /\ buf \o piece \in Seq(Bytes)
         /\ Len(buf) \in Nat /\ Len(piece) \in Nat
         /\ Len(buf \o piece) = Len(buf) + Len(piece)
         /\ Unread = (buf \o piece) \o wire'
<1>0. buf \in Seq(Bytes) /\ rem \in Seq(Bytes) /\ wire \in Seq(Bytes)
  BY DEF TypeOK
<1>1. piece \in Seq(Bytes) /\ wire' \in Seq(Bytes) /\ rem \o wire = piece \o wire'
  <2>1. CASE rem # <<>>
    BY <1>0, <2>1 DEF Pieces, TakeOff
  <2>2. CASE rem = <<>>
    <3>1. PICK k \in 1 .. Least(max, Len(wire)) : piece = SubSeq(wire, 1, k)
      BY <2>2 DEF Pieces
    <3>2. PICK n \in Nat : n = Len(wire)
      BY <1>0, LenProperties
    <3>3. k \in 0 .. Len(wire)
      BY <3>1, <3>2 DEF Least
    <3>4. Len(piece) = k /\ piece \in Seq(Bytes)
      BY <1>0, <3>1, <3>3, Cut
    <3>5. /\ wire' = SubSeq(wire, k + 1, Len(wire))
          /\ wire' \in Seq(Bytes)
      BY <1>0, <2>2, <3>3, <3>4, Cut DEF TakeOff
    <3>6. piece \o wire' = wire
      <4>1. /\ 1 \in 1 .. n + 1 /\ k \in 1 - 1 .. n /\ n \in k .. n
        BY <3>2, <3>3
      <4>2. SubSeq(wire, 1, k) \o SubSeq(wire, k + 1, n) = SubSeq(wire, 1, n)
        BY <1>0, <3>2, <4>1, ConcatAdjacentSubSeq
      <4> QED
        BY <1>0, <3>1, <3>2, <3>5, <4>2, SubSeqFull
    <3>7. rem \o wire = wire
      BY <1>0, <2>2, ConcatEmptySeq
    <3> QED
      BY <3>4, <3>5, <3>6, <3>7
  <2> QED
    BY <2>1, <2>2
<1>2. Unread = buf \o (piece \o wire')
  BY <1>1, UnreadType
<1>3. (buf \o piece) \o wire' = buf \o (piece \o wire')
  <2>1. PICK b, c, w \in Seq(Bytes) : b = buf /\ c = piece /\ w = wire'
    BY <1>0, <1>1
  <2>2. (b \o c) \o w = b \o (c \o w)
    BY Regroup
  <2> QED
    BY <2>1, <2>2
<1> QED
  BY <1>0, <1>1, <1>2, <1>3, ConcatProperties, LenProperties

LEMMA EmptyStart ==
  ASSUME NEW S, NEW s \in Seq(S), NEW t \in Seq(S)
  PROVE  /\ (<<>> \o s) \o t = s \o t
         /\ (s \o <<>>) \o t = s \o t
BY ConcatEmptySeq

\* A turn without a result moves a piece of the stream to curr_buf.
LEMMA GoesOn ==
  ASSUME TypeOK, LineGoesOn \/ DataGoesOn
  PROVE  /\ Unread' = Unread /\ sent' = sent /\ open' = open
         /\ due' = due /\ head' = head /\ got' = got /\ lost' = lost
         /\ TypeOK'
<1>1. PICK max \in Nat : max \in {LineMax, DataMax}
                         /\ \E piece \in Pieces(max) :
                              /\ TakeOff(piece)
                              /\ buf' = buf \o piece
                              /\ due = 0 => B!NoNewline(piece)
                              /\ due # 0 => ~Enough(piece)
  BY MaxAssumption DEF LineGoesOn, DataGoesOn
<1>2. PICK piece \in Pieces(max) : /\ TakeOff(piece)
                                   /\ buf' = buf \o piece
                                   /\ due = 0 => B!NoNewline(piece)
                                   /\ due # 0 => ~Enough(piece)
  BY <1>1
<1>3. rem' = <<>> /\ UNCHANGED <<sent, open, due, head, got, lost>>
  BY DEF LineGoesOn, DataGoesOn, callerVars
<1>4. /\ wire' \in Seq(Bytes) /\ buf' \in Seq(Bytes) /\ piece \in Seq(Bytes)
      /\ Unread = buf' \o wire'
      /\ Len(buf') = Len(buf) + Len(piece)
      /\ Len(buf) \in Nat /\ Len(piece) \in Nat
  BY <1>2, PieceTaken
<1>5. Unread' = Unread
  BY <1>3, <1>4, EmptyStart DEF Unread
<1>6. IF due' = 0 THEN B!NoNewline(buf') ELSE Len(buf') < due'
  <2>1. CASE due = 0
    <3>1. B!NoNewline(buf) /\ B!NoNewline(piece)
      BY <1>2, <2>1 DEF TypeOK
    <3>2. /\ \A i \in 1 .. Len(buf) : buf[i] # Newline
          /\ \A i \in 1 .. Len(piece) : piece[i] # Newline
      BY <3>1 DEF B!NoNewline
    <3>3. \A i \in 1 .. Len(buf') : buf'[i] # Newline
      <4>1. \A i \in 1 .. Len(buf) + Len(piece) :
              buf'[i] = IF i <= Len(buf) THEN buf[i] ELSE piece[i - Len(buf)]
        BY <1>2, <1>4, ConcatProperties DEF TypeOK
      <4>2. \A i \in 1 .. Len(buf) + Len(piece) :
              \/ i \in 1 .. Len(buf)
              \/ ~(i <= Len(buf)) /\ i - Len(buf) \in 1 .. Len(piece)
        BY <1>4
      <4>3. ASSUME NEW i \in 1 .. Len(buf) + Len(piece)
            PROVE  buf'[i] # Newline
        BY <3>2, <4>1, <4>2
      <4> QED
        BY <1>4, <4>3
    <3> QED
      BY <1>3, <2>1, <3>3 DEF B!NoNewline
  <2>2. CASE due # 0
    BY <1>2, <1>3, <1>4, <2>2 DEF Enough, TypeOK
  <2> QED
    BY <2>1, <2>2
<1>7. TypeOK'
  BY <1>3, <1>4, <1>6, EmptySeq DEF TypeOK
<1> QED
  BY <1>3, <1>5, <1>7

-----------------------------------------------------------------------------
(***************************************************************************)
(* The other turns are steps of the stream.                                *)
(***************************************************************************)
LEMMA StreamLine ==
  B!ReadLine <=>
    \E i \in 1 .. Len(Unread) :
      /\ ~lost
      /\ due = 0
      /\ Unread[i] = Newline
      /\ B!NoNewline(SubSeq(Unread, 1, i - 1))
      /\ Unread' = SubSeq(Unread, i + 1, Len(Unread))
      /\ B!HandOverLine(SubSeq(Unread, 1, i - 1))
      /\ UNCHANGED <<sent, open>>
BY DEF B!ReadLine, Unread

LEMMA StreamPayload ==
  B!ReadPayload <=>
    /\ ~lost
    /\ due > 0
    /\ due <= Len(Unread)
    /\ Unread' = SubSeq(Unread, due + 1, Len(Unread))
    /\ B!HandOverPayload(SubSeq(Unread, 1, due))
    /\ UNCHANGED <<sent, open>>
BY DEF B!ReadPayload, Unread

\* curr_buf and the piece up to its first newline are the first line.
LEMMA LineEndsStep ==
  ASSUME TypeOK, LineEnds
  PROVE  /\ B!ReadLine
         /\ wire' \in Seq(Bytes) /\ rem' \in Seq(Bytes) /\ buf' = <<>>
<1>0. PICK piece \in Pieces(LineMax) : \E i \in 1 .. Len(piece) :
        /\ piece[i] = Newline
        /\ B!NoNewline(SubSeq(piece, 1, i - 1))
        /\ TakeOff(piece)
        /\ rem' = AfterNewline(piece, i)
        /\ B!HandOverLine(LineUpTo(piece, i))
  BY DEF LineEnds
<1>1. PICK i \in 1 .. Len(piece) :
        /\ piece[i] = Newline
        /\ B!NoNewline(SubSeq(piece, 1, i - 1))
        /\ TakeOff(piece)
        /\ rem' = AfterNewline(piece, i)
        /\ B!HandOverLine(LineUpTo(piece, i))
  BY <1>0
<1>2. /\ piece \in Seq(Bytes) /\ wire' \in Seq(Bytes)
      /\ buf \o piece \in Seq(Bytes)
      /\ Len(buf) \in Nat /\ Len(piece) \in Nat
      /\ Len(buf \o piece) = Len(buf) + Len(piece)
      /\ Unread = (buf \o piece) \o wire'
  BY <1>1, PieceTaken, MaxAssumption
<1>3. PICK c, w \in Seq(Bytes) : c = buf \o piece /\ w = wire'
  BY <1>2
<1>4. PICK p, k \in Nat : p = Len(buf) /\ k = Len(piece)
  BY <1>2
<1>5. PICK n \in Nat : n = p + i
  BY <1>4
<1>6. PICK q \in Nat : q = p + k
  BY <1>4
<1>7. n \in 1 .. q /\ n - 1 \in 0 .. q /\ n \in 0 .. q
      /\ i \in 1 .. k /\ i - 1 \in 0 .. k /\ i \in 0 .. k /\ n - 1 = p + i - 1
  BY <1>4, <1>5, <1>6
<1>8. /\ Len(c) = q
      /\ \A j \in 1 .. q : c[j] = IF j <= p THEN buf[j] ELSE piece[j - p]
  BY <1>2, <1>3, <1>4, <1>6, ConcatProperties DEF TypeOK
<1>9. c[n] = Newline
  <2>1. ~(n <= p) /\ n - p = i
    BY <1>4, <1>5, <1>7
  <2> QED
    BY <1>1, <1>7, <1>8, <2>1
<1>10. ASSUME NEW j \in 1 .. n - 1
      PROVE  c[j] # Newline
  <2>1. j \in 1 .. q
    BY <1>7
  <2>2. CASE j <= p
    <3>1. j \in 1 .. Len(buf) /\ due = 0
      BY <1>4, <2>2 DEF LineEnds
    <3> QED
      BY <1>8, <2>1, <2>2, <3>1 DEF TypeOK, B!NoNewline
  <2>3. CASE ~(j <= p)
    <3>1. j - p \in 1 .. i - 1
      BY <1>5, <1>7, <2>3
    <3>2. /\ Len(SubSeq(piece, 1, i - 1)) = i - 1
          /\ \A l \in 1 .. i - 1 : SubSeq(piece, 1, i - 1)[l] = piece[l]
      BY <1>2, <1>4, <1>7, Cut
    <3>3. piece[j - p] # Newline
      BY <1>1, <3>1, <3>2 DEF B!NoNewline
    <3> QED
      BY <1>8, <2>1, <2>3, <3>3
  <2> QED
    BY <2>2, <2>3
<1>11. /\ SubSeq(Unread, 1, n - 1) = SubSeq(c, 1, n - 1)
       /\ SubSeq(Unread, n + 1, Len(Unread)) = SubSeq(c, n + 1, Len(c)) \o w
  BY <1>2, <1>3, <1>7, <1>8, CutInFirst
<1>12. SubSeq(piece, i + 1, Len(piece)) = SubSeq(c, n + 1, Len(c))
  <2>1. PICK a, b : a = SubSeq(piece, i + 1, Len(piece))
                    /\ b = SubSeq(c, n + 1, Len(c))
    OBVIOUS
  <2>2. /\ a \in Seq(Bytes) /\ Len(a) = k - i
        /\ \A j \in 1 .. k - i : a[j] = piece[i + j]
    BY <1>2, <1>4, <1>7, <2>1, Cut
  <2>3. /\ b \in Seq(Bytes) /\ Len(b) = q - n
        /\ \A j \in 1 .. q - n : b[j] = c[n + j]
    BY <1>7, <1>8, <2>1, Cut
  <2>4. q - n = k - i
    BY <1>4, <1>5, <1>6
  <2>5. ASSUME NEW j \in 1 .. k - i
        PROVE  a[j] = b[j]
    <3>1. /\ n + j \in 1 .. q /\ ~(n + j <= p) /\ n + j - p = i + j
      BY <1>4, <1>5, <1>7, <1>6
    <3>2. c[n + j] = piece[i + j]
      <4>1. PICK l \in 1 .. q : l = n + j /\ ~(l <= p) /\ l - p = i + j
        BY <3>1
      <4>2. c[l] = piece[l - p]
        BY <1>8, <4>1
      <4> QED
        BY <4>1, <4>2
    <3>3. j \in 1 .. q - n
      BY <2>4
    <3> QED
      BY <2>2, <2>3, <3>2, <3>3
  <2> QED
    BY <2>1, <2>2, <2>3, <2>4, <2>5, SeqEqual
<1>13. SubSeq(c, n + 1, Len(c)) \in Seq(Bytes)
  BY <1>7, <1>8, Cut
<1>14. /\ buf' = <<>> /\ rem' = SubSeq(c, n + 1, Len(c)) /\ ~lost /\ due = 0
       /\ UNCHANGED <<sent, open>>
  BY <1>1, <1>12 DEF LineEnds, AfterNewline
<1>15. Unread' = SubSeq(Unread, n + 1, Len(Unread))
  <2>1. PICK a \in Seq(Bytes) : a = SubSeq(c, n + 1, Len(c))
    BY <1>13
  <2>2. (<<>> \o a) \o w = a \o w
    BY EmptyStart
  <2>3. Unread' = (<<>> \o a) \o w
    BY <1>3, <1>14, <2>1 DEF Unread
  <2> QED
    BY <1>11, <2>1, <2>2, <2>3
<1>16. B!HandOverLine(SubSeq(Unread, 1, n - 1))
  <2>1. Len(buf) + i - 1 = n - 1
    BY <1>4, <1>5
  <2>2. LineUpTo(piece, i) = SubSeq(Unread, 1, n - 1)
    BY <1>3, <1>11, <2>1 DEF LineUpTo
  <2> QED
    BY <1>1, <2>2
<1>17. n \in 1 .. Len(Unread) /\ Unread[n] = Newline
  <2>1. PICK m \in Nat : m = Len(w)
    BY LenProperties
  <2>2. Unread = c \o w
    BY <1>2, <1>3
  <2>3. /\ Len(Unread) = q + m
        /\ \A j \in 1 .. q + m : Unread[j] = IF j <= q THEN c[j] ELSE w[j - q]
    <3>1. PICK x \in Seq(Bytes) : x = c \o w
      BY ConcatProperties
    <3>2. /\ Len(x) = Len(c) + Len(w)
          /\ \A j \in 1 .. Len(c) + Len(w) :
               x[j] = IF j <= Len(c) THEN c[j] ELSE w[j - Len(c)]
      BY <3>1, ConcatProperties
    <3> QED
      BY <1>8, <2>1, <2>2, <3>1, <3>2
  <2>4. n \in 1 .. q + m /\ n <= q
    BY <1>7, <2>1
  <2> QED
    BY <1>9, <2>3, <2>4
<1>18. B!NoNewline(SubSeq(Unread, 1, n - 1))
  <2>1. /\ Len(SubSeq(c, 1, n - 1)) = n - 1
        /\ \A j \in 1 .. n - 1 : SubSeq(c, 1, n - 1)[j] = c[j]
    BY <1>7, <1>8, Cut
  <2> QED
    BY <1>10, <1>11, <2>1 DEF B!NoNewline
<1>19. B!ReadLine
  BY <1>14, <1>15, <1>16, <1>17, <1>18, StreamLine
<1> QED
  BY <1>2, <1>13, <1>14, <1>19

\* What exceeds the n_bytes asked for is kept in rem_buf.
LEMMA DataEndsStep ==
  ASSUME TypeOK, DataEnds
  PROVE  /\ B!ReadPayload
         /\ wire' \in Seq(Bytes) /\ rem' \in Seq(Bytes) /\ buf' = <<>>
<1>1. PICK piece \in Pieces(DataMax) :
        /\ Enough(piece)
        /\ TakeOff(piece)
        /\ rem' = Beyond(buf \o piece)
        /\ B!HandOverPayload(SubSeq(buf \o piece, 1, due))
  BY DEF DataEnds
<1>2. /\ piece \in Seq(Bytes) /\ wire' \in Seq(Bytes)
      /\ buf \o piece \in Seq(Bytes)
      /\ Len(buf) \in Nat /\ Len(piece) \in Nat
      /\ Len(buf \o piece) = Len(buf) + Len(piece)
      /\ Unread = (buf \o piece) \o wire'
  BY <1>1, PieceTaken, MaxAssumption
<1>3. PICK c, w \in Seq(Bytes) : c = buf \o piece /\ w = wire'
  BY <1>2
<1>4. PICK k, m \in Nat : k = Len(c) /\ m = Len(w)
  BY LenProperties
<1>5. due \in 0 .. k /\ due > 0
  BY <1>1, <1>2, <1>3, <1>4 DEF DataEnds, Enough, TypeOK
<1>6. /\ SubSeq(Unread, 1, due) = SubSeq(c, 1, due)
      /\ SubSeq(Unread, due + 1, Len(Unread)) = SubSeq(c, due + 1, Len(c)) \o w
  BY <1>2, <1>3, <1>4, <1>5, CutInFirst
<1>7. SubSeq(c, due + 1, Len(c)) \in Seq(Bytes)
  BY <1>4, <1>5, Cut
<1>8. /\ buf' = <<>> /\ rem' = SubSeq(c, due + 1, Len(c)) /\ ~lost
      /\ UNCHANGED <<sent, open>>
  BY <1>1, <1>3 DEF DataEnds, Beyond
<1>9. Unread' = SubSeq(Unread, due + 1, Len(Unread))
  <2>1. PICK r \in Seq(Bytes) : r = SubSeq(c, due + 1, Len(c))
    BY <1>7
  <2>2. (<<>> \o r) \o w = r \o w
    BY EmptyStart
  <2>3. Unread' = (<<>> \o r) \o w
    BY <1>3, <1>8, <2>1 DEF Unread
  <2> QED
    BY <1>6, <2>1, <2>2, <2>3
<1>10. due <= Len(Unread)
  <2>1. Len(Unread) = k + m
    BY <1>2, <1>3, <1>4, ConcatProperties
  <2> QED
    BY <1>4, <1>5, <2>1
<1>11. B!ReadPayload
  BY <1>1, <1>3, <1>5, <1>6, <1>8, <1>9, <1>10, StreamPayload
<1> QED
  BY <1>2, <1>7, <1>8, <1>11

\* The call gives up where nothing complete is left.
LEMMA DisconnectedStep ==
  ASSUME TypeOK, Disconnected
  PROVE  B!Disconnect /\ TypeOK' /\ Unread' = Unread
<1>1. /\ rem = <<>> /\ wire = <<>> /\ ~open /\ ~lost
      /\ UNCHANGED <<sent, wire, open, rem, buf>>
      /\ lost' = TRUE /\ UNCHANGED <<due, head, got>>
  BY DEF Disconnected, NothingLeft, B!GiveUp
<1>2. Unread = buf
  <2>1. PICK b \in Seq(Bytes) : b = buf
    BY DEF TypeOK
  <2>2. (b \o <<>>) \o <<>> = b
    BY ConcatEmptySeq
  <2> QED
    BY <1>1, <2>1, <2>2 DEF Unread
<1>3. IF due = 0 THEN B!NoNewline(Unread) ELSE Len(Unread) < due
  BY <1>2 DEF TypeOK
<1>4. Unread' = Unread
  BY <1>1 DEF Unread
<1>5. B!Disconnect
  BY <1>1, <1>3, <1>4 DEF B!Disconnect, B!GiveUp, Unread
<1>6. TypeOK'
  BY <1>1 DEF TypeOK
<1> QED
  BY <1>4, <1>5, <1>6

\* What is not sent is missing at the end of the stream.
LEMMA CloseStep ==
  ASSUME TypeOK, Close
  PROVE  B!Close /\ TypeOK'
<1>1. /\ open /\ open' = FALSE
      /\ UNCHANGED <<sent, rem, buf, due, head, got, lost>>
  BY DEF Close, callerVars
<1>2. PICK k \in 0 .. Len(wire) : wire' = SubSeq(wire, 1, k)
  BY DEF Close
<1>3. wire \in Seq(Bytes) /\ buf \in Seq(Bytes) /\ rem \in Seq(Bytes)
  BY DEF TypeOK
<1>4. wire' \in Seq(Bytes)
  BY <1>2, <1>3, Cut
<1>5. TypeOK'
  BY <1>1, <1>4 DEF TypeOK
<1>6. \E l \in 0 .. Len(Unread) : Unread' = SubSeq(Unread, 1, l)
  <2>1. PICK a, w \in Seq(Bytes) : a = buf \o rem /\ w = wire
    BY <1>3, ConcatProperties
  <2>2. PICK n, m \in Nat : n = Len(a) /\ m = Len(w)
    BY LenProperties
  <2>3. k \in 0 .. m
    BY <1>2, <2>1, <2>2
  <2>4. PICK u \in Seq(Bytes) : u = a \o w
    BY ConcatProperties
  <2>5. /\ Len(u) = n + m
        /\ \A i \in 1 .. n + m : u[i] = IF i <= n THEN a[i] ELSE w[i - n]
    BY <2>2, <2>4, ConcatProperties
  <2>6. PICK l \in Nat : l = n + k
    BY <2>3
  <2>7. l \in 0 .. Len(u)
    BY <2>3, <2>5, <2>6
  <2>8. PICK v \in Seq(Bytes) : v = SubSeq(u, 1, l)
    BY <2>7, Cut
  <2>9. Len(v) = l /\ \A i \in 1 .. l : v[i] = u[i]
    BY <2>7, <2>8, Cut
  <2>10. PICK x \in Seq(Bytes) : x = SubSeq(w, 1, k)
    BY <2>2, <2>3, Cut
  <2>11. Len(x) = k /\ \A i \in 1 .. k : x[i] = w[i]
    BY <2>2, <2>3, <2>10, Cut
  <2>12. PICK y \in Seq(Bytes) : y = a \o x
    BY ConcatProperties
  <2>13. /\ Len(y) = n + k
         /\ \A i \in 1 .. n + k : y[i] = IF i <= n THEN a[i] ELSE x[i - n]
    <3>1. /\ Len(y) = Len(a) + Len(x)
          /\ \A i \in 1 .. Len(a) + Len(x) :
               y[i] = IF i <= Len(a) THEN a[i] ELSE x[i - Len(a)]
      BY <2>12, ConcatProperties
    <3> QED
      BY <2>2, <2>3, <2>11, <3>1
  <2>14. ASSUME NEW i \in 1 .. l
         PROVE  v[i] = y[i]
    <3>1. i \in 1 .. n + m /\ i \in 1 .. n + k
      BY <2>3, <2>6
    <3>2. ~(i <= n) => i - n \in 1 .. k
      BY <2>3, <2>6
    <3> QED
      BY <2>5, <2>9, <2>11, <2>13, <3>1, <3>2
  <2>15. v = y
    BY <2>6, <2>9, <2>13, <2>14, SeqEqual
  <2>16. Unread = u /\ Unread' = y
    BY <1>1, <1>2, <2>1, <2>4, <2>10, <2>12 DEF Unread
  <2> QED
    BY <2>7, <2>8, <2>15, <2>16
<1>7. B!Close
  BY <1>1, <1>6 DEF B!Close, B!callerVars, Unread
<1> QED
  BY <1>5, <1>7

LEMMA EncodedType ==
  ASSUME NEW m \in Messages
  PROVE  /\ m.line \in Seq(Bytes) /\ B!NoNewline(m.line)
         /\ m.payload \in Seq(Bytes) /\ Announced(m.line) = Len(m.payload)
         /\ <<Newline>> \in Seq(Bytes)
         /\ m = B!Message(m.line, m.payload)
         /\ B!Encoded(m) \in Seq(Bytes)
<1>1. /\ m.line \in Seq(Bytes \ {Newline}) /\ m.payload \in Seq(Bytes)
      /\ Announced(m.line) = Len(m.payload)
      /\ m = [line |-> m.line, payload |-> m.payload]
  BY MessagesAssumption
<1>2. m.line \in Seq(Bytes) /\ B!NoNewline(m.line)
  BY <1>1, SeqMonotonic, ElementOfSeq DEF B!NoNewline
<1>3. <<Newline>> \in Seq(Bytes)
  BY MessagesAssumption
<1>4. m.line \o <<Newline>> \in Seq(Bytes)
  BY <1>2, <1>3, ConcatProperties
<1>5. B!Encoded(m) \in Seq(Bytes)
  BY <1>1, <1>4, ConcatProperties DEF B!Encoded
<1> QED
  BY <1>1, <1>2, <1>3, <1>5 DEF B!Message

LEMMA SayStep ==
  ASSUME TypeOK, NEW m \in Messages, Say(m)
  PROVE  B!Say(m) /\ TypeOK' /\ Unread' = Unread \o B!Encoded(m)
<1>1. /\ sent' = Append(sent, m) /\ wire' = wire \o B!Encoded(m)
      /\ UNCHANGED <<open, rem, buf, due, head, got, lost>>
      /\ open /\ Len(sent) < MaxMessages
  BY DEF Say, callerVars
<1>2. PICK a, w, e \in Seq(Bytes) : a = buf \o rem /\ w = wire /\ e = B!Encoded(m)
  BY ConcatProperties, EncodedType DEF TypeOK
<1>3. w \o e \in Seq(Bytes)
  BY ConcatProperties
<1>4. sent' \in Seq(Messages)
  BY <1>1, AppendProperties DEF TypeOK
<1>5. TypeOK'
  BY <1>1, <1>2, <1>3, <1>4 DEF TypeOK
<1>6. Unread' = Unread \o B!Encoded(m)
  <2>1. (a \o w) \o e = a \o (w \o e)
    BY Regroup
  <2> QED
    BY <1>1, <1>2, <2>1 DEF Unread
<1>7. B!Say(m)
  BY <1>1, <1>6 DEF B!Say, B!callerVars, Unread
<1> QED
  BY <1>5, <1>6, <1>7

-----------------------------------------------------------------------------
(***************************************************************************)
(* The unread bytes are the rest of what was sent, or begin it when the    *)
(* other side went away.                                                   *)
(***************************************************************************)

\* T[i] is what the messages from the i-th on look like in the stream.
Tails(T) ==
  /\ T \in [1 .. Len(sent) + 1 -> Seq(Bytes)]
  /\ T[Len(sent) + 1] = <<>>
  /\ \A i \in 1 .. Len(sent) : T[i] = B!Encoded(sent[i]) \o T[i + 1]

\* What the caller is still to read.
Owed(T) ==
  IF due = 0 THEN T[Len(got) + 1]
             ELSE sent[Len(got) + 1].payload \o T[Len(got) + 2]

\* What the caller has, and the payload it waits for.
Handed ==
  /\ Len(got) <= Len(sent)
  /\ \A i \in 1 .. Len(got) : got[i] = sent[i]
  /\ due # 0 => /\ Len(got) < Len(sent)
                /\ head = sent[Len(got) + 1].line
                /\ due = Len(sent[Len(got) + 1].payload)

StreamInv ==
  /\ Handed
  /\ \E T : /\ Tails(T)
            /\ \E missing \in Seq(Bytes) :
                 /\ Owed(T) = Unread \o missing
                 /\ open => missing = <<>>

\* The first newline of x ends the line, and rest is what follows.
BeginsWithLine(x, line, rest) ==
  \A n \in 1 .. Len(x) :
    x[n] = Newline /\ (\A j \in 1 .. n - 1 : x[j] # Newline)
      => SubSeq(x, 1, n - 1) = line /\ SubSeq(x, n + 1, Len(x)) = rest

LEMMA FirstNewline ==
  ASSUME NEW s \in Seq(Bytes), B!NoNewline(s), NEW t \in Seq(Bytes),
         NEW x \in Seq(Bytes), x = (s \o <<Newline>>) \o t
  PROVE  BeginsWithLine(x, s, t)
<1> SUFFICES ASSUME NEW n \in 1 .. Len(x), x[n] = Newline,
                    \A j \in 1 .. n - 1 : x[j] # Newline
             PROVE  SubSeq(x, 1, n - 1) = s /\ SubSeq(x, n + 1, Len(x)) = t
  BY DEF BeginsWithLine
<1>1. <<Newline>> \in Seq(Bytes)
  BY MessagesAssumption
<1>2. PICK k, m \in Nat : k = Len(s) /\ m = Len(t)
  BY <1>1, LenProperties
<1>3. PICK v \in Seq(Bytes) : v = s \o <<Newline>>
  BY <1>1, ConcatProperties
<1>4. PICK h \in Nat : h = k + 1
  BY <1>2
<1>5. Len(<<Newline>>) = 1 /\ <<Newline>>[1] = Newline
  OBVIOUS
<1>6. /\ Len(v) = h /\ v[h] = Newline
      /\ \A i \in 1 .. k : v[i] = s[i]
  <2>1. /\ Len(v) = h
        /\ \A i \in 1 .. h : v[i] = IF i <= k THEN s[i] ELSE <<Newline>>[i - k]
    BY <1>1, <1>2, <1>3, <1>4, <1>5, ConcatProperties
  <2>2. h \in 1 .. h /\ ~(h <= k) /\ h - k = 1 /\ \A i \in 1 .. k : i \in 1 .. h /\ i <= k
    BY <1>2, <1>4
  <2> QED
    BY <1>5, <2>1, <2>2
<1>7. PICK l \in Nat : l = h + m
  BY <1>2, <1>4
<1>8. /\ Len(x) = l
      /\ \A i \in 1 .. l : x[i] = IF i <= h THEN v[i] ELSE t[i - h]
  <2>1. /\ Len(v \o t) = Len(v) + Len(t)
        /\ \A i \in 1 .. Len(v) + Len(t) :
             (v \o t)[i] = IF i <= Len(v) THEN v[i] ELSE t[i - Len(v)]
    BY ConcatProperties
  <2> QED
    BY <1>2, <1>3, <1>6, <1>7, <2>1
<1>9. n = h
  <2>1. h \in 1 .. l
    BY <1>2, <1>4, <1>7
  <2>2. x[h] = Newline
    BY <1>6, <1>8, <2>1
  <2>3. ~(h \in 1 .. n - 1) /\ n \in 1 .. l
    BY <1>8, <2>2
  <2>4. \A i \in 1 .. k : i \in 1 .. l /\ i <= h
    BY <1>2, <1>4, <1>7
  <2>5. \A i \in 1 .. k : s[i] # Newline
    BY <1>2 DEF B!NoNewline
  <2>6. ~(n \in 1 .. k)
    BY <1>6, <1>8, <2>4, <2>5
  <2> QED
    BY <1>2, <1>4, <1>7, <2>3, <2>6
<1>10. n \in 0 .. Len(v) /\ n - 1 \in 0 .. Len(v) /\ n - 1 \in 0 .. Len(s) /\ n - 1 = k
  BY <1>2, <1>4, <1>6, <1>9
<1>11. SubSeq(x, 1, n - 1) = s
  <2>1. SubSeq(x, 1, n - 1) = SubSeq(v, 1, n - 1)
    BY <1>3, <1>10, CutInFirst
  <2>2. SubSeq(v, 1, n - 1) = SubSeq(s, 1, n - 1)
    BY <1>1, <1>3, <1>10, CutInFirst
  <2> QED
    BY <1>1, <1>2, <1>10, <2>1, <2>2, SubSeqFull
<1>12. SubSeq(x, n + 1, Len(x)) = t
  <2>1. SubSeq(x, n + 1, Len(x)) = SubSeq(v, n + 1, Len(v)) \o t
    BY <1>3, <1>10, CutInFirst
  <2>2. PICK b \in Seq(Bytes) : b = SubSeq(v, n + 1, Len(v))
    BY <1>10, Cut
  <2>3. Len(b) = 0
    <3>1. Len(b) = Len(v) - n
      BY <1>10, <2>2, Cut
    <3> QED
      BY <1>6, <1>9, <3>1
  <2>4. b = <<>>
    BY <2>3, EmptySeq
  <2> QED
    BY <2>1, <2>2, <2>4, ConcatEmptySeq
<1> QED
  BY <1>11, <1>12

\* One more message: the next one that was sent.
LEMMA HandedNext ==
  ASSUME TypeOK, Handed, Len(got) < Len(sent), sent' = sent,
         due' = 0, got' = Append(got, sent[Len(got) + 1])
  PROVE  Handed' /\ got' \in Seq(Messages) /\ Len(got') = Len(got) + 1
<1>1. got \in Seq(Messages) /\ sent \in Seq(Messages)
  BY DEF TypeOK
<1>2. PICK g, e \in Nat : g = Len(got) /\ e = Len(sent)
  BY <1>1, LenProperties
<1>3. PICK h \in Nat : h = g + 1
  BY <1>2
<1>4. sent[h] \in Messages
  <2>1. h \in 1 .. e
    BY <1>2, <1>3
  <2> QED
    BY <1>1, <1>2, <2>1, ElementOfSeq
<1>5. /\ got' \in Seq(Messages) /\ Len(got') = h
      /\ \A i \in 1 .. g : got'[i] = got[i]
      /\ got'[h] = sent[h]
  BY <1>1, <1>2, <1>3, <1>4, AppendProperties
<1>6. h <= e /\ \A i \in 1 .. h : i \in 1 .. g \/ i = h
  BY <1>2, <1>3
<1>7. \A i \in 1 .. h : got'[i] = sent'[i]
  BY <1>2, <1>5, <1>6 DEF Handed
<1> QED
  BY <1>2, <1>3, <1>5, <1>6, <1>7 DEF Handed

\* The message that is not yet handed over.
LEMMA NextMessage ==
  ASSUME TypeOK, NEW T, Tails(T), Len(got) < Len(sent)
  PROVE  /\ sent[Len(got) + 1] \in Messages
         /\ T[Len(got) + 2] \in Seq(Bytes)
         /\ T[Len(got) + 1] = B!Encoded(sent[Len(got) + 1]) \o T[Len(got) + 2]
<1>1. got \in Seq(Messages) /\ sent \in Seq(Messages)
  BY DEF TypeOK
<1>2. PICK g, e \in Nat : g = Len(got) /\ e = Len(sent)
  BY <1>1, LenProperties
<1>3. PICK h \in Nat : h = g + 1
  BY <1>2
<1>4. h \in 1 .. e /\ h + 1 \in 1 .. e + 1 /\ h + 1 = g + 2
  BY <1>2, <1>3
<1>5. sent[h] \in Messages
  BY <1>1, <1>2, <1>4, ElementOfSeq
<1>6. T[h + 1] \in Seq(Bytes) /\ T[h] = B!Encoded(sent[h]) \o T[h + 1]
  BY <1>2, <1>4 DEF Tails
<1> QED
  BY <1>2, <1>3, <1>4, <1>5, <1>6

\* The first line of a stream that begins with a message.
LEMMA FirstLine ==
  ASSUME NEW m \in Messages, NEW t \in Seq(Bytes),
         NEW u \in Seq(Bytes), NEW y \in Seq(Bytes),
         u \o y = B!Encoded(m) \o t
  PROVE  \A n \in 1 .. Len(u) :
           u[n] = Newline /\ B!NoNewline(SubSeq(u, 1, n - 1))
             => /\ SubSeq(u, 1, n - 1) = m.line
                /\ SubSeq(u, n + 1, Len(u)) \o y = m.payload \o t
<1>1. PICK s \in Seq(Bytes) : s = m.line /\ B!NoNewline(s)
  BY EncodedType
<1>2. PICK p \in Seq(Bytes) : p = m.payload
  BY EncodedType
<1>3. PICK q \in Seq(Bytes) : q = p \o t
  BY ConcatProperties
<1>4. PICK x \in Seq(Bytes) : x = u \o y
  BY ConcatProperties
<1>5. x = (s \o <<Newline>>) \o q
  <2>1. PICK v \in Seq(Bytes) : v = s \o <<Newline>>
    BY <1>1, EncodedType, ConcatProperties
  <2>2. (v \o p) \o t = v \o (p \o t)
    BY Regroup, ZenonT(60)
  <2>3. B!Encoded(m) = v \o p
    BY <1>1, <1>2, <2>1 DEF B!Encoded
  <2> QED
    BY <1>3, <1>4, <2>1, <2>2, <2>3
<1>6. BeginsWithLine(x, s, q)
  BY <1>1, <1>5, FirstNewline
<1>7. PICK k, l \in Nat : k = Len(u) /\ l = Len(y)
  BY LenProperties
<1>8. PICK kl \in Nat : kl = k + l
  BY <1>7
<1>9. Len(x) = kl /\ \A j \in 1 .. kl : x[j] = IF j <= k THEN u[j] ELSE y[j - k]
  <2>1. /\ Len(x) = Len(u) + Len(y)
        /\ \A j \in 1 .. Len(u) + Len(y) :
             x[j] = IF j <= Len(u) THEN u[j] ELSE y[j - Len(u)]
    BY <1>4, ConcatProperties
  <2> QED
    BY <1>7, <1>8, <2>1
<1> SUFFICES ASSUME NEW n \in 1 .. Len(u), u[n] = Newline,
                    B!NoNewline(SubSeq(u, 1, n - 1))
             PROVE  /\ SubSeq(u, 1, n - 1) = m.line
                    /\ SubSeq(u, n + 1, Len(u)) \o y = m.payload \o t
  OBVIOUS
<1>10. /\ n \in 1 .. kl /\ n <= k /\ n - 1 \in 0 .. Len(u) /\ n \in 0 .. Len(u)
       /\ \A j \in 1 .. n - 1 : j \in 1 .. kl /\ j <= k
  BY <1>7, <1>8
<1>11. /\ SubSeq(x, 1, n - 1) = SubSeq(u, 1, n - 1)
       /\ SubSeq(x, n + 1, Len(x)) = SubSeq(u, n + 1, Len(u)) \o y
  BY <1>4, <1>10, CutInFirst
<1>12. n \in 1 .. Len(x) /\ x[n] = Newline
  BY <1>9, <1>10
<1>13. \A j \in 1 .. n - 1 : x[j] # Newline
  <2>1. /\ Len(SubSeq(u, 1, n - 1)) = n - 1
        /\ \A j \in 1 .. n - 1 : SubSeq(u, 1, n - 1)[j] = u[j]
    BY <1>10, Cut
  <2>2. \A j \in 1 .. n - 1 : u[j] # Newline
    BY <2>1 DEF B!NoNewline
  <2> QED
    BY <1>9, <1>10, <2>2
<1>14. SubSeq(x, 1, n - 1) = s /\ SubSeq(x, n + 1, Len(x)) = q
  BY <1>6, <1>12, <1>13 DEF BeginsWithLine
<1> QED
  BY <1>1, <1>2, <1>3, <1>11, <1>14

\* The line read is the line of the next message.
LEMMA ReadLineKeeps ==
  ASSUME TypeOK, StreamInv, B!ReadLine
  PROVE  /\ StreamInv'
         /\ got' \in Seq(Messages) /\ due' \in Nat /\ head' \in Seq(Bytes)
<1>1. PICK n \in 1 .. Len(Unread) :
        /\ due = 0
        /\ Unread[n] = Newline
        /\ B!NoNewline(SubSeq(Unread, 1, n - 1))
        /\ Unread' = SubSeq(Unread, n + 1, Len(Unread))
        /\ B!HandOverLine(SubSeq(Unread, 1, n - 1))
        /\ UNCHANGED <<sent, open>>
  BY StreamLine
<1>2. PICK T : /\ Tails(T)
               /\ \E missing \in Seq(Bytes) :
                    Owed(T) = Unread \o missing /\ (open => missing = <<>>)
  BY DEF StreamInv
<1>3. PICK y \in Seq(Bytes) : Owed(T) = Unread \o y /\ (open => y = <<>>)
  BY <1>2
<1>4. PICK u \in Seq(Bytes) : u = Unread
  BY UnreadType
<1>5. PICK g, e \in Nat : g = Len(got) /\ e = Len(sent) /\ g <= e
  BY LenProperties DEF TypeOK, StreamInv, Handed
<1>6. u \o y = T[g + 1]
  BY <1>1, <1>3, <1>4, <1>5 DEF Owed
<1>7. g < e
  <2>1. CASE g = e
    <3>1. u \o y = <<>>
      BY <1>2, <1>5, <1>6, <2>1 DEF Tails
    <3>2. Len(u) + Len(y) = 0
      BY <3>1, ConcatProperties, EmptySeq
    <3> QED
      BY <1>1, <1>4, <3>2, LenProperties
  <2> QED
    BY <1>5, <2>1
<1>8. PICK m \in Messages : m = sent[g + 1]
  BY <1>2, <1>5, <1>7, NextMessage
<1>9. PICK t \in Seq(Bytes) : t = T[g + 2]
  BY <1>2, <1>5, <1>7, NextMessage
<1>10. u \o y = B!Encoded(m) \o t
  BY <1>2, <1>5, <1>6, <1>7, <1>8, <1>9, NextMessage
<1>11. PICK p \in Seq(Bytes) : p = m.payload
  BY EncodedType
<1>12. /\ SubSeq(Unread, 1, n - 1) = m.line
       /\ p \o t = Unread' \o y
  <2>1. \A i \in 1 .. Len(u) :
          u[i] = Newline /\ B!NoNewline(SubSeq(u, 1, i - 1))
            => /\ SubSeq(u, 1, i - 1) = m.line
               /\ SubSeq(u, i + 1, Len(u)) \o y = m.payload \o t
    BY <1>10, FirstLine, ZenonT(60)
  <2> QED
    BY <1>1, <1>4, <1>11, <2>1
<1>13. m.line \in Seq(Bytes) /\ Announced(m.line) = Len(p) /\ m = B!Message(m.line, p)
  BY <1>11, EncodedType
<1>14. /\ due' = Len(p) /\ head' = m.line
       /\ got' = IF Len(p) = 0 THEN Append(got, B!Message(m.line, <<>>)) ELSE got
  BY <1>1, <1>12, <1>13 DEF B!HandOverLine
<1>15. Tails(T)'
  BY <1>1, <1>2 DEF Tails
<1>16. due' \in Nat /\ head' \in Seq(Bytes)
  BY <1>13, <1>14, LenProperties
<1>17. Handed' /\ got' \in Seq(Messages) /\ Owed(T)' = p \o t
  <2>1. CASE Len(p) = 0
    <3>1. p = <<>>
      BY <2>1, EmptySeq
    <3>2. got' = Append(got, sent[Len(got) + 1]) /\ due' = 0 /\ sent' = sent
      BY <1>1, <1>5, <1>8, <1>13, <1>14, <2>1, <3>1
    <3>3. Handed' /\ got' \in Seq(Messages) /\ Len(got') = g + 1
      BY <1>5, <1>7, <3>2, HandedNext DEF StreamInv
    <3>4. p \o t = t
      BY <3>1, ConcatEmptySeq
    <3>5. Len(got') + 1 = g + 2
      BY <3>3
    <3> QED
      BY <1>9, <3>2, <3>3, <3>4, <3>5 DEF Owed
  <2>2. CASE Len(p) # 0
    <3>1. got' = got /\ sent' = sent /\ due' # 0
      BY <1>1, <1>14, <2>2
    <3>2. Handed'
      BY <1>5, <1>7, <1>8, <1>11, <1>14, <3>1 DEF Handed, StreamInv
    <3>3. Owed(T)' = p \o t
      BY <1>5, <1>8, <1>9, <1>11, <3>1 DEF Owed
    <3> QED
      BY <3>1, <3>2, <3>3 DEF TypeOK
  <2> QED
    BY <2>1, <2>2
<1>18. StreamInv'
  BY <1>1, <1>3, <1>12, <1>15, <1>17 DEF StreamInv
<1> QED
  BY <1>16, <1>17, <1>18

\* The payload read is the payload of the message whose line was read.
LEMMA ReadPayloadKeeps ==
  ASSUME TypeOK, StreamInv, B!ReadPayload
  PROVE  /\ StreamInv'
         /\ got' \in Seq(Messages) /\ due' = 0 /\ head' = head
<1>1. /\ due > 0
      /\ due <= Len(Unread)
      /\ Unread' = SubSeq(Unread, due + 1, Len(Unread))
      /\ B!HandOverPayload(SubSeq(Unread, 1, due))
      /\ UNCHANGED <<sent, open>>
  BY StreamPayload
<1>2. PICK T : /\ Tails(T)
               /\ \E missing \in Seq(Bytes) :
                    Owed(T) = Unread \o missing /\ (open => missing = <<>>)
  BY DEF StreamInv
<1>3. PICK y \in Seq(Bytes) : Owed(T) = Unread \o y /\ (open => y = <<>>)
  BY <1>2
<1>4. PICK u \in Seq(Bytes) : u = Unread
  BY UnreadType
<1>5. due \in Nat /\ due # 0
  BY <1>1 DEF TypeOK
<1>6. Len(got) \in Nat /\ Len(sent) \in Nat /\ Len(got) < Len(sent)
  BY <1>5, LenProperties DEF TypeOK, StreamInv, Handed
<1>7. PICK m \in Messages : m = sent[Len(got) + 1]
  BY <1>2, <1>6, NextMessage
<1>8. PICK t \in Seq(Bytes) : t = T[Len(got) + 2]
  BY <1>2, <1>6, NextMessage
<1>9. PICK p \in Seq(Bytes) : p = m.payload
  BY EncodedType
<1>10. due = Len(p) /\ head = m.line
  BY <1>5, <1>7, <1>9 DEF StreamInv, Handed
<1>11. p \o t = u \o y
  BY <1>3, <1>4, <1>5, <1>7, <1>8, <1>9 DEF Owed
<1>12. due \in 0 .. Len(u) /\ due \in 0 .. Len(p)
  <2>1. PICK k \in Nat : k = Len(u)
    BY LenProperties
  <2> QED
    BY <1>1, <1>4, <1>5, <1>10, <2>1
<1>13. /\ SubSeq(u \o y, 1, due) = SubSeq(u, 1, due)
       /\ SubSeq(u \o y, due + 1, Len(u \o y)) = SubSeq(u, due + 1, Len(u)) \o y
  BY <1>12, CutInFirst
<1>14. /\ SubSeq(p \o t, 1, due) = p
       /\ SubSeq(p \o t, due + 1, Len(p \o t)) = t
  <2>1. /\ SubSeq(p \o t, 1, due) = SubSeq(p, 1, due)
        /\ SubSeq(p \o t, due + 1, Len(p \o t)) = SubSeq(p, due + 1, Len(p)) \o t
    BY <1>12, CutInFirst
  <2>2. PICK b \in Seq(Bytes) : b = SubSeq(p, due + 1, Len(p))
    BY <1>12, Cut
  <2>3. Len(b) = 0
    <3>1. Len(b) = Len(p) - due
      BY <1>12, <2>2, Cut
    <3> QED
      BY <1>5, <1>10, <3>1
  <2>4. b = <<>>
    BY <2>3, EmptySeq
  <2> QED
    BY <1>10, <2>1, <2>2, <2>4, ConcatEmptySeq, SubSeqFull
<1>15. SubSeq(Unread, 1, due) = p /\ t = Unread' \o y
  BY <1>1, <1>4, <1>11, <1>13, <1>14
<1>16. /\ due' = 0 /\ head' = head /\ sent' = sent
       /\ got' = Append(got, sent[Len(got) + 1])
  BY <1>1, <1>7, <1>9, <1>10, <1>15, EncodedType DEF B!HandOverPayload
<1>17. Handed' /\ got' \in Seq(Messages) /\ Len(got') = Len(got) + 1
  BY <1>6, <1>16, HandedNext DEF StreamInv
<1>18. Tails(T)'
  BY <1>2, <1>16 DEF Tails
<1>19. Owed(T)' = t
  <2>1. Len(got') + 1 = Len(got) + 2
    BY <1>6, <1>17
  <2> QED
    BY <1>8, <1>16, <2>1 DEF Owed
<1>20. StreamInv'
  BY <1>1, <1>3, <1>15, <1>17, <1>18, <1>19 DEF StreamInv
<1> QED
  BY <1>16, <1>17, <1>20

\* A message sent extends every tail of the stream.
LEMMA SayKeeps ==
  ASSUME TypeOK, StreamInv, NEW m \in Messages, Say(m)
  PROVE  StreamInv'
<1>1. /\ sent' = Append(sent, m) /\ open /\ open' = open
      /\ UNCHANGED <<due, head, got, lost>>
  BY DEF Say, callerVars
<1>2. Unread' = Unread \o B!Encoded(m)
  BY SayStep
<1>3. PICK T : /\ Tails(T)
               /\ \E missing \in Seq(Bytes) :
                    Owed(T) = Unread \o missing /\ (open => missing = <<>>)
  BY DEF StreamInv
<1>4. Owed(T) = Unread
  BY <1>1, <1>3, UnreadType, ConcatEmptySeq
<1>5. PICK c \in Seq(Bytes) : c = B!Encoded(m)
  BY EncodedType
<1>6. PICK g, e \in Nat : g = Len(got) /\ e = Len(sent) /\ g <= e
  BY LenProperties DEF TypeOK, StreamInv, Handed
<1>7. PICK h \in Nat : h = e + 1
  BY <1>6
<1>8. /\ Len(sent') = h /\ sent'[h] = m
      /\ \A i \in 1 .. e : sent'[i] = sent[i]
  BY <1>1, <1>6, <1>7, AppendProperties DEF TypeOK
<1>9. /\ T \in [1 .. h -> Seq(Bytes)] /\ T[h] = <<>>
      /\ \A i \in 1 .. e : T[i] = B!Encoded(sent[i]) \o T[i + 1]
  BY <1>3, <1>6, <1>7 DEF Tails
<1> DEFINE U == [i \in 1 .. h + 1 |-> IF i = h + 1 THEN <<>> ELSE T[i] \o c]
<1>10. \A i \in 1 .. h : T[i] \in Seq(Bytes) /\ T[i] \o c \in Seq(Bytes)
  BY <1>9, ConcatProperties
<1>11. U \in [1 .. h + 1 -> Seq(Bytes)]
  <2>1. <<>> \in Seq(Bytes)
    BY EmptySeq
  <2>2. \A i \in 1 .. h + 1 : i = h + 1 \/ i \in 1 .. h
    BY <1>7
  <2> QED
    BY <1>10, <2>1, <2>2
<1>12. U[h + 1] = <<>> /\ \A i \in 1 .. h : U[i] = T[i] \o c
  <2>1. h + 1 \in 1 .. h + 1 /\ \A i \in 1 .. h : i \in 1 .. h + 1 /\ i # h + 1
    BY <1>7
  <2> QED
    BY <2>1
<1> HIDE DEF U
<1>13. ASSUME NEW i \in 1 .. h
       PROVE  U[i] = B!Encoded(sent'[i]) \o U[i + 1]
  <2>1. CASE i = h
    <3>1. U[i] = c /\ U[i + 1] = <<>> /\ B!Encoded(sent'[i]) = c
      BY <1>5, <1>8, <1>9, <1>12, <2>1, ConcatEmptySeq
    <3> QED
      BY <3>1, ConcatEmptySeq
  <2>2. CASE i # h
    <3>1. i \in 1 .. e /\ i + 1 \in 1 .. h
      BY <1>6, <1>7, <2>2
    <3>2. PICK d \in Seq(Bytes) : d = B!Encoded(sent[i])
      <4>1. sent[i] \in Messages
        BY <1>6, <3>1, ElementOfSeq DEF TypeOK
      <4> QED
        BY <4>1, EncodedType
    <3>3. PICK r \in Seq(Bytes) : r = T[i + 1]
      BY <1>10, <3>1
    <3>4. U[i] = (d \o r) \o c /\ U[i + 1] = r \o c
      BY <1>9, <1>12, <3>1, <3>2, <3>3
    <3>5. (d \o r) \o c = d \o (r \o c)
      BY Regroup
    <3> QED
      BY <1>8, <3>1, <3>2, <3>4, <3>5
  <2> QED
    BY <2>1, <2>2
<1>14. Tails(U)'
  BY <1>8, <1>11, <1>12, <1>13 DEF Tails
<1>15. Handed'
  <2>1. g <= h /\ \A i \in 1 .. g : i \in 1 .. e
    BY <1>6, <1>7
  <2>2. g < e => g < h /\ g + 1 \in 1 .. e
    BY <1>6, <1>7
  <2> QED
    BY <1>1, <1>6, <1>8, <2>1, <2>2 DEF StreamInv, Handed
<1>16. Owed(U)' = Unread'
  <2>1. CASE due = 0
    <3>1. g + 1 \in 1 .. h
      BY <1>6, <1>7
    <3>2. Owed(U)' = T[g + 1] \o c
      BY <1>1, <1>6, <1>12, <2>1, <3>1 DEF Owed
    <3> QED
      BY <1>2, <1>4, <1>5, <1>6, <2>1, <3>2 DEF Owed
  <2>2. CASE due # 0
    <3>1. g < e
      BY <1>6, <2>2 DEF StreamInv, Handed
    <3>2. g + 1 \in 1 .. e /\ g + 2 \in 1 .. h
      BY <1>6, <1>7, <3>1
    <3>3. sent[g + 1] \in Messages
      BY <1>6, <3>2, ElementOfSeq DEF TypeOK
    <3>4. PICK p \in Seq(Bytes) : p = sent[g + 1].payload
      BY <3>3, EncodedType
    <3>5. PICK r \in Seq(Bytes) : r = T[g + 2]
      BY <1>10, <3>2
    <3>6. Owed(U)' = p \o (r \o c)
      BY <1>1, <1>6, <1>8, <1>12, <2>2, <3>2, <3>4, <3>5 DEF Owed
    <3>7. Unread = p \o r
      BY <1>4, <1>6, <2>2, <3>4, <3>5 DEF Owed
    <3>8. (p \o r) \o c = p \o (r \o c)
      BY Regroup
    <3> QED
      BY <1>2, <1>5, <3>6, <3>7, <3>8
  <2> QED
    BY <2>1, <2>2
<1>17. Owed(U)' = Unread' \o <<>> /\ <<>> \in Seq(Bytes)
  <2>1. Unread' \in Seq(Bytes)
    BY <1>2, <1>5, UnreadType, ConcatProperties
  <2> QED
    BY <1>16, <2>1, ConcatEmptySeq, EmptySeq
<1> QED
  BY <1>14, <1>15, <1>17 DEF StreamInv

\* What is cut off is missing from what was owed.
LEMMA CloseKeeps ==
  ASSUME TypeOK, StreamInv, Close
  PROVE  StreamInv'
<1>1. /\ open' = FALSE
      /\ UNCHANGED <<sent, due, head, got, lost>>
  BY DEF Close, callerVars
<1>2. PICK k \in 0 .. Len(Unread) : Unread' = SubSeq(Unread, 1, k)
  BY CloseStep DEF B!Close, Unread
<1>3. PICK T : /\ Tails(T)
               /\ \E missing \in Seq(Bytes) :
                    Owed(T) = Unread \o missing /\ (open => missing = <<>>)
  BY DEF StreamInv
<1>4. PICK y \in Seq(Bytes) : Owed(T) = Unread \o y
  BY <1>3
<1>5. PICK u \in Seq(Bytes) : u = Unread
  BY UnreadType
<1>6. PICK a \in Seq(Bytes) : a = SubSeq(u, 1, k)
  BY <1>2, <1>5, Cut
<1>7. PICK b \in Seq(Bytes) : b = SubSeq(u, k + 1, Len(u))
  BY <1>2, <1>5, Cut
<1>8. a \o b = u
  <2>1. PICK n \in Nat : n = Len(u)
    BY LenProperties
  <2>2. 1 \in 1 .. n + 1 /\ k \in 1 - 1 .. n /\ n \in k .. n
    BY <1>2, <1>5, <2>1
  <2>3. SubSeq(u, 1, k) \o SubSeq(u, k + 1, n) = SubSeq(u, 1, n)
    BY <2>1, <2>2, ConcatAdjacentSubSeq
  <2> QED
    BY <1>6, <1>7, <2>1, <2>3, SubSeqFull
<1>9. (a \o b) \o y = a \o (b \o y) /\ b \o y \in Seq(Bytes)
  BY Regroup, ConcatProperties
<1>10. Owed(T)' = Unread' \o (b \o y)
  <2>1. Owed(T)' = Owed(T)
    BY <1>1 DEF Owed
  <2> QED
    BY <1>2, <1>4, <1>5, <1>6, <1>8, <1>9, <2>1
<1>11. Tails(T)' /\ Handed'
  BY <1>1, <1>3 DEF Tails, StreamInv, Handed
<1> QED
  BY <1>1, <1>9, <1>10, <1>11 DEF StreamInv

\* Nothing else touches what the invariant is about.
LEMMA NothingHandedOver ==
  ASSUME StreamInv, Unread' = Unread, UNCHANGED <<sent, open, due, head, got>>
  PROVE  StreamInv'
BY DEF StreamInv, Handed, Tails, Owed

-----------------------------------------------------------------------------
(***************************************************************************)
(* Every step.                                                             *)
(***************************************************************************)
LEMMA InitStream ==
  ASSUME Init
  PROVE  TypeOK /\ StreamInv /\ B!Init
<1>1. /\ sent = <<>> /\ wire = <<>> /\ open = TRUE /\ rem = <<>> /\ buf = <<>>
      /\ due = 0 /\ head = <<>> /\ got = <<>> /\ lost = FALSE
  BY DEF Init
<1>2. /\ <<>> \in Seq(Bytes) /\ <<>> \in Seq(Messages) /\ Len(<<>>) = 0
  BY EmptySeq
<1>3. TypeOK
  <2>1. IF due = 0 THEN B!NoNewline(buf) ELSE Len(buf) < due
    BY <1>1, <1>2 DEF B!NoNewline
  <2> QED
    BY <1>1, <1>2, <2>1 DEF TypeOK
<1>4. Unread = <<>> /\ <<>> \o <<>> = <<>>
  BY <1>1, <1>2, ConcatEmptySeq DEF Unread
<1>5. Handed
  BY <1>1, <1>2 DEF Handed
<1>6. StreamInv
  <2> DEFINE T == [i \in 1 .. 1 |-> <<>>]
  <2>1. T \in [1 .. 1 -> Seq(Bytes)] /\ T[1] = <<>>
    BY <1>2
  <2> HIDE DEF T
  <2>2. Tails(T) /\ Owed(T) = <<>>
    BY <1>1, <1>2, <2>1 DEF Tails, Owed
  <2> QED
    BY <1>2, <1>4, <1>5, <2>2 DEF StreamInv
<1>7. B!Init
  BY <1>1, <1>4 DEF B!Init, Unread
<1> QED
  BY <1>3, <1>6, <1>7

LEMMA NextStream ==
  ASSUME TypeOK, StreamInv, [Next]_vars
  PROVE  TypeOK' /\ StreamInv' /\ [B!Next]_(B!vars)
<1>1. CASE LineGoesOn \/ DataGoesOn
  <2>1. /\ Unread' = Unread /\ UNCHANGED <<sent, open, due, head, got, lost>>
        /\ TypeOK'
    BY <1>1, GoesOn
  <2>2. StreamInv'
    BY <2>1, NothingHandedOver
  <2>3. UNCHANGED B!vars
    BY <2>1 DEF B!vars, B!callerVars, Unread
  <2> QED
    BY <2>1, <2>2, <2>3
<1>2. CASE LineEnds
  <2>1. /\ B!ReadLine
        /\ wire' \in Seq(Bytes) /\ rem' \in Seq(Bytes) /\ buf' = <<>>
    BY <1>2, LineEndsStep
  <2>2. /\ StreamInv'
        /\ got' \in Seq(Messages) /\ due' \in Nat /\ head' \in Seq(Bytes)
    BY <2>1, ReadLineKeeps
  <2>3. UNCHANGED <<sent, open, lost>>
    BY <1>2 DEF LineEnds, B!HandOverLine
  <2>4. TypeOK'
    BY <2>1, <2>2, <2>3, EmptySeq DEF TypeOK, B!NoNewline
  <2> QED
    BY <2>1, <2>2, <2>4 DEF B!Next
<1>3. CASE DataEnds
  <2>1. /\ B!ReadPayload
        /\ wire' \in Seq(Bytes) /\ rem' \in Seq(Bytes) /\ buf' = <<>>
    BY <1>3, DataEndsStep
  <2>2. /\ StreamInv'
        /\ got' \in Seq(Messages) /\ due' = 0 /\ head' = head
    BY <2>1, ReadPayloadKeeps
  <2>3. UNCHANGED <<sent, open, lost>>
    BY <1>3 DEF DataEnds, B!HandOverPayload
  <2>4. TypeOK'
    BY <2>1, <2>2, <2>3, EmptySeq DEF TypeOK, B!NoNewline
  <2> QED
    BY <2>1, <2>2, <2>4 DEF B!Next
<1>4. CASE Disconnected
  <2>1. B!Disconnect /\ TypeOK' /\ Unread' = Unread
    BY <1>4, DisconnectedStep
  <2>2. UNCHANGED <<sent, open, due, head, got>>
    BY <1>4 DEF Disconnected, B!GiveUp
  <2>3. StreamInv'
    BY <2>1, <2>2, NothingHandedOver
  <2> QED
    BY <2>1, <2>3 DEF B!Next
<1>5. CASE \E m \in Messages : Say(m)
  <2>1. PICK m \in Messages : Say(m)
    BY <1>5
  <2>2. B!Say(m) /\ TypeOK'
    BY <2>1, SayStep
  <2>3. StreamInv'
    BY <2>1, SayKeeps
  <2> QED
    BY <2>2, <2>3 DEF B!Next
<1>6. CASE Close
  <2>1. B!Close /\ TypeOK' /\ StreamInv'
    BY <1>6, CloseStep, CloseKeeps
  <2> QED
    BY <2>1 DEF B!Next
<1>7. CASE UNCHANGED vars
  <2>1. UNCHANGED <<sent, wire, open, rem, buf, due, head, got, lost>>
    BY <1>7 DEF vars, callerVars
  <2>2. TypeOK' /\ Unread' = Unread
    BY <2>1 DEF TypeOK, Unread
  <2>3. StreamInv'
    BY <2>1, <2>2, NothingHandedOver
  <2>4. UNCHANGED B!vars
    BY <2>1, <2>2 DEF B!vars, B!callerVars, Unread
  <2> QED
    BY <2>2, <2>3, <2>4
<1> QED
  BY <1>1, <1>2, <1>3, <1>4, <1>5, <1>6, <1>7 DEF Next, Read

LEMMA HandedIsPrefix ==
  ASSUME TypeOK, StreamInv
  PROVE  MessagesIntact
<1>1. PICK g, e \in Nat : g = Len(got) /\ e = Len(sent) /\ g <= e
  BY LenProperties DEF TypeOK, StreamInv, Handed
<1>2. sent \in Seq(Messages) /\ got \in Seq(Messages)
  BY DEF TypeOK
<1>3. g \in 0 .. Len(sent)
  BY <1>1
<1>4. /\ SubSeq(sent, 1, g) \in Seq(Messages) /\ Len(SubSeq(sent, 1, g)) = g
      /\ \A i \in 1 .. g : SubSeq(sent, 1, g)[i] = sent[i]
  BY <1>2, <1>3, Cut
<1>5. \A i \in 1 .. g : got[i] = sent[i]
  BY <1>1 DEF StreamInv, Handed
<1>6. got = SubSeq(sent, 1, g)
  BY <1>1, <1>2, <1>4, <1>5, SeqEqual
<1> QED
  BY <1>1, <1>6 DEF MessagesIntact, IsPrefix

(***************************************************************************)
(* Between two turns of the loops of socket_helper.py nothing is held      *)
(* twice and no complete line or payload is left in curr_buf, whatever     *)
(* recv returned.                                                          *)
(***************************************************************************)
THEOREM TypeCorrect == Spec => []TypeOK
<1>1. Init => TypeOK /\ StreamInv
  BY InitStream
<1>2. TypeOK /\ StreamInv /\ [Next]_vars => (TypeOK /\ StreamInv)'
  BY NextStream
<1> QED
  BY <1>1, <1>2, PTL DEF Spec

(***************************************************************************)
(* However recv cuts the stream, and even if the other side goes away in   *)
(* the middle of a message, the callers of SocketHelper are handed the     *)
(* messages that were sent, in order and each with its own payload.        *)
(***************************************************************************)
THEOREM MessagesArriveIntact == Spec => []MessagesIntact
<1>1. Init => TypeOK /\ StreamInv
  BY InitStream
<1>2. TypeOK /\ StreamInv /\ [Next]_vars => (TypeOK /\ StreamInv)'
  BY NextStream
<1>3. TypeOK /\ StreamInv => MessagesIntact
  BY HandedIsPrefix
<1> QED
  BY <1>1, <1>2, <1>3, PTL DEF Spec

(***************************************************************************)
(* get_data_until_newline and get_n_bytes_of_data implement reading lines  *)
(* and payloads off a stream that has arrived already: a turn without a    *)
(* result stutters, and None is returned only where nothing complete is    *)
(* left of a stream that ended.                                            *)
(***************************************************************************)
THEOREM HelperImplementsStream == Spec => ImplementsByteStream
<1>1. Init => TypeOK /\ StreamInv /\ B!Init
  BY InitStream
<1>2. TypeOK /\ StreamInv /\ [Next]_vars
        => (TypeOK /\ StreamInv)' /\ [B!Next]_(B!vars)
  BY NextStream
<1> QED
  BY <1>1, <1>2, PTL DEF Spec, ImplementsByteStream, B!Spec

=============================================================================
