-------------------------- MODULE VotingAppProofs --------------------------
(***************************************************************************)
(* The results that the voting application shows.                          *)
(***************************************************************************)
EXTENDS VotingApp, SequenceTheorems, FiniteSetTheorems, WellFoundedInduction,
        TLAPS

-----------------------------------------------------------------------------
(***************************************************************************)
(* The inductive invariant.  A is the set of the transactions that were    *)
(* ever submitted, wherever they are now.                                  *)
(***************************************************************************)
Polls(A) == {t \in A : t.type = "create_poll"}

\* A poll is known by its sender and number; a vote is for a poll, and for one
\* of its options unless a file says otherwise.
History(A) ==
  /\ A \subseteq Txn
  /\ \A t \in A : t.stamp <= submitted[t.sender]
  /\ \A t, u \in A : t.sender = u.sender /\ t.stamp = u.stamp => t = u
  /\ \A c \in Polls(A) : c.poll_id = <<c.sender, c.stamp>>
  /\ \A t \in A : t.type = "vote" =>
       /\ t \in cast
       /\ \E c \in Polls(A) : /\ c.poll_id = t.poll_id
                              /\ t.vote \in c.options \/ t.sender \in Scripted

Places(A) ==
  /\ queue \in [Peers -> Seq(A)]
  /\ ledger \in [Peers -> Seq(A)]
  /\ visible \subseteq Seq(A)
  /\ \A p \in Peers : ledger[p] \in visible

Stage == {"script", "menu", "options", "option", "find", "count", "raised"}

\* The application holds a poll exactly when it needs one.
Dialogue(A) ==
  {d \in [at : Stage, name : PollNames \cup {""}, poll : Seq(Polls(A))] :
     d.at \in {"option", "find", "count", "raised"} => Len(d.poll) = 1}

HistoryInv ==
  \E A : History(A) /\ Places(A) /\ dialogue \in [Peers -> Dialogue(A)]

\* How many transactions of p are settled.
SettledOf(p) == submitted[p] - Len(queue[p])

\* The pending transactions are the last ones submitted.
QueueInv ==
  \A p \in Peers :
    /\ Len(queue[p]) <= submitted[p]
    /\ \A i \in 1 .. Len(queue[p]) :
         /\ queue[p][i].sender = p
         /\ queue[p][i].stamp = SettledOf(p) + i

\* A ledger holds settled transactions, each once.
LedgerInv ==
  \A l \in visible :
    /\ \A i \in 1 .. Len(l) : l[i].stamp <= SettledOf(l[i].sender)
    /\ \A i, j \in 1 .. Len(l) : l[i] = l[j] => i = j

Result == [poll_id : Peers \X Nat, counts : UNION {[O -> Nat] : O \in SUBSET Options}]

CountInv ==
  /\ submitted \in [Peers -> Nat]
  /\ shown \in [Peers -> Seq(Result)]
  /\ IsFiniteSet(cast)
  /\ cast \subseteq {t \in Txn : t.type = "vote"}

\* Only peers with a file are at one.
FilesInv ==
  /\ OnlyFilesSpoilResults
  /\ \A p \in Peers : dialogue[p].at = "script" => p \in Scripted

AppInv == /\ CountInv /\ HistoryInv /\ QueueInv /\ LedgerInv
          /\ NoVoteCountedTwice /\ FilesInv

-----------------------------------------------------------------------------
(***************************************************************************)
(* Looking for polls and counting votes.                                   *)
(***************************************************************************)
LEMMA FirstOf ==
  ASSUME NEW T \in SUBSET Nat, T # {}
  PROVE  \E x \in T : \A y \in T : x <= y
<1> DEFINE U == {1 .. x : x \in T}
           R == StrictSubsetOrdering(Nat)
<1>1. IsWellFoundedOn(R, FiniteSubsetsOf(Nat))
  BY FS_StrictSubsetOrderingWellFounded
<1>2. U \subseteq FiniteSubsetsOf(Nat) /\ U # {}
  <2>1. ASSUME NEW x \in T
        PROVE  1 .. x \in FiniteSubsetsOf(Nat)
    <3>1. IsFiniteSet(1 .. x)
      BY FS_Interval
    <3> QED
      BY <3>1 DEF FiniteSubsetsOf
  <2> QED
    BY <2>1
<1>3. PICK u \in U : \A v \in U : ~(<<v, u>> \in R)
  <2> HIDE DEF U, R
  <2> QED
    BY <1>1, <1>2, WFMin
<1>4. PICK x \in T : u = 1 .. x
  BY <1>3
<1>5. ASSUME NEW y \in T, y < x
      PROVE  FALSE
  <2>1. 1 .. y \in U /\ 1 .. y \subseteq 1 .. x /\ x \in 1 .. x /\ x \notin 1 .. y
    BY <1>5
  <2>2. <<1 .. y, 1 .. x>> \in R
    BY <1>5, <2>1 DEF StrictSubsetOrdering
  <2> QED
    BY <1>3, <1>4, <2>1, <2>2
<1> QED
  BY <1>5

LEMMA Found ==
  ASSUME NEW A, NEW l \in Seq(A), NEW field, NEW value
  PROVE  /\ FindPoll(l, field, value) \in Seq(Polls(A))
         /\ FindPoll(l, field, value) # <<>> =>
              /\ Len(FindPoll(l, field, value)) = 1
              /\ FindPoll(l, field, value)[1] \in Polls(A)
<1> DEFINE at == {i \in 1 .. Len(l) : /\ l[i].type = "create_poll"
                                      /\ l[i][field] = value}
           k == CHOOSE i \in at : \A j \in at : i <= j
<1>1. CASE at = {}
  <2>1. FindPoll(l, field, value) = <<>>
    BY <1>1 DEF FindPoll
  <2> QED
    BY <2>1, EmptySeq
<1>2. CASE at # {}
  <2>1. FindPoll(l, field, value) = <<l[k]>>
    BY <1>2 DEF FindPoll
  <2>2. k \in at
    <3>1. at \in SUBSET Nat
      OBVIOUS
    <3>2. \E i \in at : \A j \in at : i <= j
      <4> HIDE DEF at
      <4> QED
        BY <1>2, <3>1, FirstOf
    <3> QED
      BY <3>2
  <2>3. l[k] \in Polls(A)
    BY <2>2, ElementOfSeq DEF Polls
  <2> HIDE DEF k
  <2> QED
    BY <2>1, <2>3
<1> QED
  BY <1>1, <1>2

\* The votes of a ledger that holds each once are as many votes that were cast.
VotesCast(l) ==
  /\ \A i \in 1 .. Len(l) : l[i].type = "vote" => l[i] \in cast
  /\ \A i, j \in 1 .. Len(l) : l[i] = l[j] => i = j

CountIn(l, id, o) == Cardinality({i \in VotesFor(l, id) : l[i].vote = o})

CountCast(id, o) == Cardinality({v \in cast : v.poll_id = id /\ v.vote = o})

LEMMA CountedOnce ==
  ASSUME NEW l, NEW id, NEW o, IsFiniteSet(cast), VotesCast(l)
  PROVE  CountIn(l, id, o) <= CountCast(id, o)
<1> DEFINE S == {i \in VotesFor(l, id) : l[i].vote = o}
           T == {v \in cast : v.poll_id = id /\ v.vote = o}
           f == [i \in S |-> l[i]]
<1>1. S \subseteq 1 .. Len(l) /\ \A i \in S : l[i] \in T
  BY DEF VotesFor, VotesCast
<1>2. IsFiniteSet(T)
  <2>1. T \in SUBSET cast
    OBVIOUS
  <2> QED
    BY <2>1, FS_Subset
<1>3. f \in Injection(S, T)
  <2> HIDE DEF S, T
  <2>1. f \in [S -> T] /\ \A i \in S : f[i] = l[i]
    BY <1>1
  <2>2. \A i, j \in S : f[i] = f[j] => i = j
    BY <1>1, <2>1 DEF VotesCast
  <2> QED
    BY <2>1, <2>2 DEF Injection, IsInjective
<1> HIDE DEF S, T, f
<1>4. Cardinality(S) <= Cardinality(T)
  BY <1>2, <1>3, FS_Injection
<1> QED
  BY <1>4 DEF S, T, CountIn, CountCast

-----------------------------------------------------------------------------
(***************************************************************************)
(* Steps of an application that submit nothing.                            *)
(***************************************************************************)

\* What p says next is about polls that are known.
LEMMA DialogueStep ==
  ASSUME CountInv, QueueInv, LedgerInv,
         NEW A, History(A), Places(A), dialogue \in [Peers -> Dialogue(A)],
         NEW p \in Peers, NEW d \in Dialogue(A),
         dialogue' = [dialogue EXCEPT ![p] = d],
         LedgersKept, UNCHANGED <<submitted, cast>>
  PROVE  HistoryInv' /\ QueueInv' /\ LedgerInv'
<1>1. /\ queue' = queue /\ ledger' = ledger /\ visible' = visible
      /\ submitted' = submitted /\ cast' = cast
  BY DEF LedgersKept
<1>2. dialogue' \in [Peers -> Dialogue(A)]
  OBVIOUS
<1>3. History(A)' /\ Places(A)' /\ (dialogue \in [Peers -> Dialogue(A)])'
  BY <1>1, <1>2 DEF History, Places, Dialogue
<1>4. QueueInv' /\ LedgerInv'
  BY <1>1 DEF QueueInv, LedgerInv, SettledOf
<1> QED
  BY <1>3, <1>4 DEF HistoryInv

LEMMA MenuType ==
  ASSUME NEW A
  PROVE  Menu \in Dialogue(A) /\ Script \in Dialogue(A)
<1>1. <<>> \in Seq(Polls(A))
  BY EmptySeq
<1> QED
  BY <1>1 DEF Menu, Script, At, Dialogue, Stage

\* A poll that was found goes into the dialogue.
LEMMA AtType ==
  ASSUME NEW A, NEW where \in {"option", "find", "count"},
         NEW name \in PollNames \cup {""}, NEW l \in Seq(A),
         NEW field, NEW value, FindPoll(l, field, value) # <<>>
  PROVE  At(where, name, FindPoll(l, field, value)) \in Dialogue(A)
<1>1. /\ FindPoll(l, field, value) \in Seq(Polls(A))
      /\ Len(FindPoll(l, field, value)) = 1
  BY Found
<1> QED
  BY <1>1 DEF At, Dialogue, Stage

\* The poll an application holds.
LEMMA HeldPoll ==
  ASSUME NEW A, History(A), dialogue \in [Peers -> Dialogue(A)],
         NEW p \in Peers, dialogue[p].at \in {"option", "find", "count"}
  PROVE  /\ dialogue[p].poll[1] \in Polls(A)
         /\ dialogue[p].poll[1] \in Txn
         /\ dialogue[p].name \in PollNames \cup {""}
<1>1. dialogue[p] \in Dialogue(A)
  OBVIOUS
<1>2. dialogue[p].poll \in Seq(Polls(A)) /\ Len(dialogue[p].poll) = 1
  BY <1>1 DEF Dialogue
<1>3. dialogue[p].poll[1] \in Polls(A)
  BY <1>2, ElementOfSeq
<1> QED
  BY <1>1, <1>3 DEF Dialogue, Polls, History

\* Results that could be shown still can, and who spoiled others has voted.
LEMMA SpoiltStays ==
  ASSUME FilesInv, cast \subseteq cast',
         NEW S, dialogue \in [Peers -> S], NEW p \in Peers, NEW d, d.at \notin {"raised", "script"},
         dialogue' = dialogue \/ dialogue' = [dialogue EXCEPT ![p] = d]
  PROVE  FilesInv'
<1>1. \A q \in Peers : 
         dialogue'[q] = dialogue[q] \/ dialogue'[q].at \notin {"raised", "script"}
  OBVIOUS
<1> QED
  BY <1>1 DEF FilesInv, OnlyFilesSpoilResults

LEMMA QuietSteps ==
  ASSUME AppInv, NEW p \in Peers,
         \/ \E name \in PollNames :
              NamePoll(p, name) \/ ChoosePoll(p, name) \/ AskResults(p, name)
         \/ RejectOption(p)
         \/ ScriptEnds(p)
         \/ FindAgain(p)
  PROVE  AppInv'
<1>1. PICK A : History(A) /\ Places(A) /\ dialogue \in [Peers -> Dialogue(A)]
  BY DEF AppInv, HistoryInv
<1>2. ledger[p] \in Seq(A)
  BY <1>1 DEF Places
<1>3. PICK d \in Dialogue(A) :
        dialogue' = [dialogue EXCEPT ![p] = d] /\ d.at \notin {"raised", "script"}
  <2>1. ASSUME NEW name \in PollNames, NamePoll(p, name)
        PROVE  At("options", name, <<>>) \in Dialogue(A)
    BY EmptySeq DEF At, Dialogue, Stage
  <2>2. ASSUME NEW name \in PollNames,
               NEW where \in {"option", "find"}, Named(p, name) # <<>>
        PROVE  At(where, name, Named(p, name)) \in Dialogue(A)
    BY <1>2, <2>2, AtType DEF Named
  <2>3. ASSUME FindAgain(p)
        PROVE  CountsIfFound(p, WithId(p, dialogue[p].poll[1].poll_id)) \in Dialogue(A)
    <3>1. dialogue[p].name \in PollNames \cup {""}
      BY <1>1, <2>3, HeldPoll DEF FindAgain
    <3>2. CASE WithId(p, dialogue[p].poll[1].poll_id) = <<>>
      BY <3>2, MenuType DEF CountsIfFound
    <3>3. CASE WithId(p, dialogue[p].poll[1].poll_id) # <<>>
      BY <1>2, <3>1, <3>3, AtType DEF CountsIfFound, WithId
    <3> QED
      BY <3>2, <3>3
  <2> QED
    BY <2>1, <2>2, <2>3, MenuType
       DEF NamePoll, ChoosePoll, AskResults, RejectOption, ScriptEnds, FindAgain,
           Begins, Says, CountsIfFound, At, Menu
<1>4. /\ LedgersKept /\ UNCHANGED <<submitted, cast>>
      /\ shown' = shown \/ shown' = [shown EXCEPT ![p] = <<>>]
  BY DEF NamePoll, ChoosePoll, AskResults, RejectOption, ScriptEnds, FindAgain,
         Begins
<1>5. HistoryInv' /\ QueueInv' /\ LedgerInv'
  BY <1>1, <1>3, <1>4, DialogueStep DEF AppInv
<1>6. CountInv'
  <2>1. shown' \in [Peers -> Seq(Result)]
    BY <1>4, EmptySeq DEF AppInv, CountInv
  <2> QED
    BY <1>4, <2>1 DEF AppInv, CountInv
<1>7. NoVoteCountedTwice'
  <2>1. \A q \in Peers : shown'[q] = shown[q] \/ shown'[q] = <<>>
    BY <1>4 DEF AppInv, CountInv
  <2> QED
    BY <1>4, <2>1, EmptySeq DEF AppInv, NoVoteCountedTwice
<1>8. FilesInv'
  BY <1>1, <1>3, <1>4, SpoiltStays DEF AppInv
<1> QED
  BY <1>5, <1>6, <1>7, <1>8 DEF AppInv

\* Two polls with one identifier are one poll.
LEMMA OnePoll ==
  ASSUME NEW A, History(A), NEW c \in Polls(A), NEW e \in Polls(A),
         c.poll_id = e.poll_id
  PROVE  c = e
<1>1. c \in A /\ e \in A /\ c.poll_id = <<c.sender, c.stamp>>
      /\ e.poll_id = <<e.sender, e.stamp>>
  BY DEF Polls, History
<1>2. c.sender = e.sender /\ c.stamp = e.stamp
  <2>1. PICK p, k, q, n : p = c.sender /\ k = c.stamp /\ q = e.sender /\ n = e.stamp
    OBVIOUS
  <2>2. <<p, k>> = <<q, n>>
    BY <1>1, <2>1
  <2> QED
    BY <2>1, <2>2
<1> QED
  BY <1>1, <1>2 DEF History

\* The votes of a ledger are for options of the poll, or come from files.
LEMMA VotesFit ==
  ASSUME NEW A, History(A), NEW l \in Seq(A), NEW c \in Polls(A),
         NEW i \in VotesFor(l, c.poll_id)
  PROVE  /\ l[i] \in cast /\ l[i].poll_id = c.poll_id
         /\ l[i].vote \in c.options \/ l[i].sender \in Scripted
<1>1. l[i] \in A /\ l[i].type = "vote" /\ l[i].poll_id = c.poll_id
  BY ElementOfSeq DEF VotesFor
<1>2. PICK e \in Polls(A) :
        /\ e.poll_id = l[i].poll_id
        /\ l[i].vote \in e.options \/ l[i].sender \in Scripted
  BY <1>1 DEF History
<1>3. e = c
  BY <1>1, <1>2, OnePoll
<1>4. l[i] \in cast
  BY <1>1 DEF History
<1> QED
  BY <1>1, <1>2, <1>3, <1>4

LEMMA CountStep ==
  ASSUME AppInv, NEW p \in Peers, CountVotes(p)
  PROVE  AppInv'
<1>1. PICK A : History(A) /\ Places(A) /\ dialogue \in [Peers -> Dialogue(A)]
  BY DEF AppInv, HistoryInv
<1> DEFINE poll == dialogue[p].poll[1]
           l == ledger[p]
           votes == VotesFor(l, poll.poll_id)
           Count(o) == CountIn(l, poll.poll_id, o)
           r == [poll_id |-> poll.poll_id, counts |-> [o \in poll.options |-> Count(o)]]
<1>2. /\ dialogue[p].at = "count" /\ LedgersKept /\ UNCHANGED <<submitted, cast>>
      /\ \/ /\ shown' = [shown EXCEPT ![p] = <<r>>]
            /\ dialogue' = [dialogue EXCEPT ![p] = Menu]
         \/ /\ ~(\A i \in votes : l[i].vote \in poll.options)
            /\ shown' = shown
            /\ dialogue' = [dialogue EXCEPT ![p] = At("raised", "", <<poll>>)]
  BY DEF CountVotes, Says, CountIn
<1>3. poll \in Polls(A) /\ poll \in Txn
  BY <1>1, <1>2, HeldPoll
<1>4. l \in Seq(A) /\ l \in visible
  BY <1>1 DEF Places
<1>5. Len(l) \in Nat /\ \A i \in 1 .. Len(l) : l[i] \in A
  BY <1>4, ElementOfSeq, LenProperties
<1>6. \A i \in 1 .. Len(l) : l[i].type = "vote" => l[i] \in cast
  BY <1>1, <1>5 DEF History
<1>7. VotesCast(l) /\ IsFiniteSet(cast)
  BY <1>4, <1>6 DEF AppInv, LedgerInv, CountInv, VotesCast
<1>8. CASE shown' = [shown EXCEPT ![p] = <<r>>]
           /\ dialogue' = [dialogue EXCEPT ![p] = Menu]
  <2>1. HistoryInv' /\ QueueInv' /\ LedgerInv'
    BY <1>1, <1>2, <1>8, DialogueStep, MenuType DEF AppInv
  <2>2. poll.options \in SUBSET Options /\ poll.poll_id \in Peers \X Nat
    BY <1>3 DEF Txn
  <2>3. \A o \in poll.options :
          Count(o) \in Nat /\ Count(o) <= CountCast(poll.poll_id, o)
    <3>1. ASSUME NEW o \in poll.options
          PROVE  Count(o) \in Nat
      <4>1. {i \in votes : l[i].vote = o} \in SUBSET (1 .. Len(l))
        BY DEF VotesFor
      <4>2. IsFiniteSet(1 .. Len(l))
        BY <1>5, FS_Interval
      <4>3. IsFiniteSet({i \in votes : l[i].vote = o})
        BY <4>1, <4>2, FS_Subset
      <4> QED
        BY <4>3, FS_CardinalityType DEF CountIn
    <3>2. ASSUME NEW o \in poll.options
          PROVE  Count(o) <= CountCast(poll.poll_id, o)
      BY <1>7, CountedOnce
    <3> QED
      BY <3>1, <3>2
  <2> HIDE DEF Count
  <2>4. r \in Result
    <3>1. [o \in poll.options |-> Count(o)] \in [poll.options -> Nat]
      BY <2>3
    <3>2. [o \in poll.options |-> Count(o)] \in UNION {[O -> Nat] : O \in SUBSET Options}
      BY <2>2, <3>1
    <3> QED
      BY <2>2, <3>2 DEF Result
  <2>5. /\ r.poll_id = poll.poll_id /\ DOMAIN r.counts = poll.options
        /\ \A o \in poll.options : r.counts[o] = Count(o)
    OBVIOUS
  <2> HIDE DEF r
  <2>6. shown' \in [Peers -> Seq(Result)]
    <3>1. <<r>> \in Seq(Result)
      BY <2>4
    <3> QED
      BY <1>8, <3>1 DEF AppInv, CountInv
  <2>7. CountInv'
    BY <1>2, <2>6 DEF AppInv, CountInv
  <2>8. NoVoteCountedTwice'
    <3>1. ASSUME NEW q \in Peers, NEW i \in 1 .. Len(shown'[q]),
                 NEW o \in DOMAIN shown'[q][i].counts
          PROVE  shown'[q][i].counts[o] <= CountCast(shown'[q][i].poll_id, o)
      <4>1. CASE q = p
        <5>1. shown'[q] = <<r>>
          BY <1>8, <4>1 DEF AppInv, CountInv
        <5>2. i = 1 /\ shown'[q][i] = r
          BY <5>1
        <5> HIDE DEF poll
        <5> QED
          BY <2>3, <2>5, <5>2
      <4>2. CASE q # p
        <5>1. shown'[q] = shown[q]
          BY <1>8, <4>2 DEF AppInv, CountInv
        <5> QED
          BY <3>1, <5>1 DEF AppInv, NoVoteCountedTwice, CountCast
      <4> QED
        BY <4>1, <4>2
    <3> QED
      BY <1>2, <3>1 DEF NoVoteCountedTwice, CountCast
  <2>9. FilesInv'
    BY <1>1, <1>2, <1>8, SpoiltStays DEF AppInv, Menu, At
  <2> QED
    BY <2>1, <2>7, <2>8, <2>9 DEF AppInv
<1>9. CASE /\ ~(\A i \in votes : l[i].vote \in poll.options)
           /\ shown' = shown
           /\ dialogue' = [dialogue EXCEPT ![p] = At("raised", "", <<poll>>)]
  <2>1. PICK i \in votes : l[i].vote \notin poll.options
    BY <1>9
  <2>0. /\ l[i] \in cast /\ l[i].poll_id = poll.poll_id
        /\ l[i].sender \in Scripted
    BY <1>1, <1>3, <1>4, <2>1, VotesFit
  <2>2. At("raised", "", <<poll>>) \in Dialogue(A)
    <3>1. <<poll>> \in Seq(Polls(A)) /\ Len(<<poll>>) = 1
      BY <1>3
    <3> HIDE DEF poll
    <3> QED
      BY <3>1 DEF At, Dialogue, Stage
  <2>7. FilesInv'
    <3>1. dialogue'[p].poll[1] = poll /\ dialogue'[p].at = "raised"
      BY <1>1, <1>9 DEF At
    <3>2. \A q \in Peers : q # p => dialogue'[q] = dialogue[q]
      BY <1>1, <1>9
    <3>3. cast' = cast
      BY <1>2
    <3> HIDE DEF poll, l, votes
    <3> QED
      BY <2>0, <2>1, <3>1, <3>2, <3>3 DEF AppInv, FilesInv, OnlyFilesSpoilResults
  <2>3. HistoryInv' /\ QueueInv' /\ LedgerInv'
    BY <1>1, <1>2, <1>9, <2>2, DialogueStep DEF AppInv
  <2> HIDE DEF l, poll, r, votes
  <2>4. shown' = shown /\ cast' = cast /\ submitted' = submitted
    BY <1>2, <1>9
  <2>5. CountInv'
    BY <2>4 DEF AppInv, CountInv
  <2>6. NoVoteCountedTwice'
    BY <2>4 DEF AppInv, NoVoteCountedTwice
  <2> QED
    BY <2>3, <2>5, <2>6, <2>7 DEF AppInv
<1> QED
  BY <1>2, <1>8, <1>9

-----------------------------------------------------------------------------
(***************************************************************************)
(* Steps that submit a transaction.                                        *)
(***************************************************************************)
LEMMA DialogueGrows ==
  ASSUME NEW A, NEW B, A \subseteq B
  PROVE  Dialogue(A) \subseteq Dialogue(B) /\ Seq(A) \subseteq Seq(B)
<1>1. Polls(A) \subseteq Polls(B)
  BY DEF Polls
<1>2. Seq(Polls(A)) \subseteq Seq(Polls(B)) /\ Seq(A) \subseteq Seq(B)
  BY <1>1, SeqMonotonic
<1> QED
  BY <1>2 DEF Dialogue

\* More votes do not make what was shown too much.
LEMMA CountsStay ==
  ASSUME CountInv, NoVoteCountedTwice, shown' = shown,
         cast \subseteq cast', IsFiniteSet(cast')
  PROVE  NoVoteCountedTwice'
<1>1. ASSUME NEW q \in Peers, NEW i \in 1 .. Len(shown[q]),
             NEW o \in DOMAIN shown[q][i].counts
      PROVE  shown[q][i].counts[o]
               <= Cardinality({v \in cast' : /\ v.poll_id = shown[q][i].poll_id
                                             /\ v.vote = o})
  <2> DEFINE S == {v \in cast : v.poll_id = shown[q][i].poll_id /\ v.vote = o}
             T == {v \in cast' : v.poll_id = shown[q][i].poll_id /\ v.vote = o}
  <2>1. S \in SUBSET cast /\ T \in SUBSET cast' /\ S \in SUBSET T
    OBVIOUS
  <2>2. IsFiniteSet(S) /\ IsFiniteSet(T)
    BY <2>1, FS_Subset DEF CountInv
  <2>3. /\ Cardinality(S) \in Nat /\ Cardinality(T) \in Nat
        /\ Cardinality(S) <= Cardinality(T)
    BY <2>1, <2>2, FS_Subset, FS_CardinalityType
  <2>4. shown[q][i].counts[o] \in Nat
    <3>1. shown[q] \in Seq(Result)
      BY DEF CountInv
    <3>2. shown[q][i] \in Result
      BY <3>1, ElementOfSeq
    <3>3. PICK O : shown[q][i].counts \in [O -> Nat]
      BY <3>2 DEF Result
    <3> QED
      BY <3>3
  <2>5. shown[q][i].counts[o] <= Cardinality(S)
    BY DEF NoVoteCountedTwice
  <2> HIDE DEF S, T
  <2>6. shown[q][i].counts[o] <= Cardinality(T)
    BY <2>3, <2>4, <2>5
  <2> QED
    BY <2>6 DEF T
<1> QED
  BY <1>1 DEF NoVoteCountedTwice

LEMMA SubmitStep ==
  ASSUME AppInv,
         NEW A, History(A), Places(A), dialogue \in [Peers -> Dialogue(A)],
         NEW p \in Peers, NEW t \in Txn,
         t.sender = p, t.stamp = submitted[p] + 1,
         t.type = "create_poll" => t.poll_id = <<p, submitted[p] + 1>>,
         t.type = "vote" => \E c \in Polls(A) :
                              /\ c.poll_id = t.poll_id
                              /\ t.vote \in c.options \/ t.sender \in Scripted,
         Submit(p, t),
         dialogue' = dialogue \/ dialogue' = [dialogue EXCEPT ![p] = Menu]
  PROVE  AppInv'
<1> DEFINE B == A \cup {t}
<1>1. /\ queue' = [queue EXCEPT ![p] = Append(@, t)]
      /\ visible' = visible /\ ledger' = ledger
      /\ submitted' = [submitted EXCEPT ![p] = @ + 1]
      /\ cast' = IF t.type = "vote" THEN cast \cup {t} ELSE cast
      /\ shown' = shown
  BY DEF Submit, L!Submit
<1>2. A \subseteq B /\ t \in B /\ B \subseteq Txn
  BY DEF History
<1>3. submitted \in [Peers -> Nat] /\ submitted[p] \in Nat
  BY DEF AppInv, CountInv
<1>4. /\ submitted' \in [Peers -> Nat] /\ submitted'[p] = submitted[p] + 1
      /\ \A q \in Peers : q # p => submitted'[q] = submitted[q]
  BY <1>1, <1>3
<1>5. cast \subseteq cast' /\ (t.type = "vote" => t \in cast') /\ IsFiniteSet(cast')
      /\ cast' \subseteq {v \in Txn : v.type = "vote"}
  BY <1>1, FS_AddElement DEF AppInv, CountInv
<1>6. CountInv' /\ NoVoteCountedTwice'
  BY <1>1, <1>4, <1>5, CountsStay DEF AppInv, CountInv
<1>16. FilesInv'
  <2>1. Menu.at \notin {"raised", "script"}
    BY DEF Menu, At
  <2> QED
    BY <1>5, <2>1, SpoiltStays DEF AppInv
<1>7. History(B)'
  <2>1. \A u \in A : u \in Txn /\ u.sender \in Peers /\ u.stamp \in Nat
                     /\ u.stamp <= submitted[u.sender]
    BY DEF History, Txn
  <2>2. \A u \in B : u.stamp <= submitted'[u.sender]
    <3>1. ASSUME NEW u \in A
          PROVE  u.stamp <= submitted'[u.sender]
      <4>1. submitted[u.sender] \in Nat
        BY <1>3, <2>1
      <4>2. submitted'[u.sender] = submitted[u.sender]
            \/ submitted'[u.sender] = submitted[u.sender] + 1
        BY <1>4, <2>1
      <4> QED
        BY <2>1, <4>1, <4>2
    <3>2. t.stamp <= submitted'[t.sender]
      BY <1>3, <1>4
    <3> QED
      BY <3>1, <3>2
  <2>3. ASSUME NEW u \in A, u.sender = p
        PROVE  u.stamp # t.stamp
    BY <1>3, <2>1, <2>3
  <2>4. \A u, v \in B : u.sender = v.sender /\ u.stamp = v.stamp => u = v
    BY <2>3 DEF History
  <2>5. \A c \in Polls(B) : c.poll_id = <<c.sender, c.stamp>>
    BY DEF History, Polls
  <2>6. Polls(A) \subseteq Polls(B)
    BY DEF Polls
  <2>7. \A u \in B : u.type = "vote" =>
          /\ u \in cast'
          /\ \E c \in Polls(B) : /\ c.poll_id = u.poll_id
                                 /\ u.vote \in c.options \/ u.sender \in Scripted
    <3>1. ASSUME NEW u \in A, u.type = "vote"
          PROVE  \E c \in Polls(B) : /\ c.poll_id = u.poll_id
                                     /\ u.vote \in c.options \/ u.sender \in Scripted
      BY <2>6, <3>1 DEF History
    <3>2. \A u \in A : u.type = "vote" => u \in cast'
      BY <1>5 DEF History
    <3> QED
      BY <1>5, <2>6, <3>1, <3>2
  <2> HIDE DEF B
  <2> QED
    BY <1>2, <2>2, <2>4, <2>5, <2>7 DEF History
<1>8. Seq(A) \subseteq Seq(B) /\ Dialogue(A) \subseteq Dialogue(B)
  BY <1>2, DialogueGrows
<1>9. Places(B)'
  <2>1. queue[p] \in Seq(B)
    BY <1>8 DEF Places
  <2>2. Append(queue[p], t) \in Seq(B)
    BY <1>2, <2>1, AppendProperties
  <2> HIDE DEF B
  <2>3. queue' \in [Peers -> Seq(B)]
    BY <1>1, <1>8, <2>2 DEF Places
  <2>4. ledger' \in [Peers -> Seq(B)] /\ visible' \subseteq Seq(B)
    BY <1>1, <1>8 DEF Places
  <2> QED
    BY <1>1, <2>3, <2>4 DEF Places
<1>10. dialogue' \in [Peers -> Dialogue(B)]
  <2> HIDE DEF B
  <2>1. Menu \in Dialogue(B)
    BY MenuType
  <2>2. dialogue \in [Peers -> Dialogue(B)]
    BY <1>8
  <2> QED
    BY <2>1, <2>2
<1>11. HistoryInv'
  <2> HIDE DEF B
  <2>1. (dialogue \in [Peers -> Dialogue(B)])'
    BY <1>10 DEF Dialogue
  <2> QED
    BY <1>7, <1>9, <2>1 DEF HistoryInv
<1>12. /\ Len(queue[p]) \in Nat /\ Len(queue'[p]) = Len(queue[p]) + 1
       /\ \A i \in 1 .. Len(queue[p]) : queue'[p][i] = queue[p][i]
       /\ queue'[p][Len(queue[p]) + 1] = t
       /\ \A q \in Peers : q # p => queue'[q] = queue[q]
  <2>1. queue[p] \in Seq(B) /\ queue'[p] = Append(queue[p], t)
    BY <1>1, <1>8 DEF Places
  <2>2. \A q \in Peers : q # p => queue'[q] = queue[q]
    BY <1>1 DEF Places
  <2> QED
    BY <1>2, <2>1, <2>2, AppendProperties, LenProperties
<1>13. \A q \in Peers : SettledOf(q)' = SettledOf(q)
  BY <1>3, <1>4, <1>12 DEF SettledOf
<1>14. QueueInv'
  <2>1. ASSUME NEW q \in Peers
        PROVE  /\ Len(queue'[q]) <= submitted'[q]
               /\ \A i \in 1 .. Len(queue'[q]) :
                    /\ queue'[q][i].sender = q
                    /\ queue'[q][i].stamp = SettledOf(q) + i
    <3>1. CASE q = p
      <4>1. PICK k, n \in Nat : k = Len(queue[p]) /\ n = submitted[p]
        BY <1>3, <1>12
      <4>2. k <= n /\ SettledOf(p) = n - k
        BY <4>1 DEF AppInv, QueueInv, SettledOf
      <4>3. \A i \in 1 .. k : queue[p][i].sender = p /\ queue[p][i].stamp = n - k + i
        BY <4>1, <4>2 DEF AppInv, QueueInv
      <4>4. t.stamp = n - k + (k + 1)
        BY <4>1
      <4>5. \A i \in 1 .. k + 1 : i \in 1 .. k \/ i = k + 1
        BY <4>1
      <4>6. Len(queue'[q]) = k + 1 /\ submitted'[q] = n + 1 /\ SettledOf(q) = n - k
        BY <1>4, <1>12, <3>1, <4>1, <4>2
      <4>7. ASSUME NEW i \in 1 .. k + 1
            PROVE  queue'[q][i].sender = q /\ queue'[q][i].stamp = n - k + i
        <5>1. CASE i \in 1 .. k
          BY <1>12, <3>1, <4>1, <4>3, <5>1
        <5>2. CASE i = k + 1
          BY <1>12, <3>1, <4>1, <4>4, <5>2
        <5> QED
          BY <4>5, <5>1, <5>2
      <4>8. k + 1 <= n + 1
        BY <4>1, <4>2
      <4>9. ASSUME NEW i \in 1 .. Len(queue'[q])
            PROVE  queue'[q][i].sender = q /\ queue'[q][i].stamp = SettledOf(q) + i
        <5>1. i \in 1 .. k + 1
          BY <4>6, Zenon
        <5>2. queue'[q][i].sender = q /\ queue'[q][i].stamp = n - k + i
          BY <4>7, <5>1, Zenon
        <5>3. n - k + i = SettledOf(q) + i
          BY <4>6
        <5> QED
          BY <5>2, <5>3
      <4>10. Len(queue'[q]) <= submitted'[q]
        BY <4>6, <4>8
      <4> QED
        BY <4>9, <4>10
    <3>2. CASE q # p
      BY <1>4, <1>12, <3>2 DEF AppInv, QueueInv
    <3> QED
      BY <3>1, <3>2
  <2> QED
    BY <1>13, <2>1 DEF QueueInv
<1>15. LedgerInv'
  <2>1. \A l \in visible : \A i \in 1 .. Len(l) : l[i].sender \in Peers
    <3>1. ASSUME NEW l \in visible, NEW i \in 1 .. Len(l)
          PROVE  l[i].sender \in Peers
      <4>1. l[i] \in A
        BY ElementOfSeq DEF Places
      <4> QED
        BY <4>1 DEF History, Txn
    <3> QED
      BY <3>1
  <2> QED
    BY <1>1, <1>13, <2>1 DEF AppInv, LedgerInv
<1> QED
  BY <1>6, <1>11, <1>14, <1>15, <1>16 DEF AppInv

\* The four ways to submit.
LEMMA UserSubmits ==
  ASSUME AppInv, NEW p \in Peers,
         \/ \E options \in SUBSET Options : ListOptions(p, options)
         \/ \E option \in Options : ChooseOption(p, option)
         \/ \E name \in PollNames : \E options \in SUBSET Options :
              ScriptCreates(p, name, options)
         \/ \E name \in PollNames : \E option \in Options :
              ScriptVotes(p, name, option)
  PROVE  AppInv'
<1>1. PICK A : History(A) /\ Places(A) /\ dialogue \in [Peers -> Dialogue(A)]
  BY DEF AppInv, HistoryInv
<1>2. submitted[p] \in Nat /\ submitted[p] + 1 \in Nat
  BY DEF AppInv, CountInv
<1>3. ledger[p] \in Seq(A)
  BY <1>1 DEF Places
<1>4. ASSUME NEW name \in PollNames \cup {""}, NEW options \in SUBSET Options,
             SubmitPoll(p, name, options),
             dialogue' = dialogue \/ dialogue' = [dialogue EXCEPT ![p] = Menu]
      PROVE  AppInv'
  <2> DEFINE t == [type |-> "create_poll", sender |-> p, stamp |-> submitted[p] + 1,
                   poll_id |-> <<p, submitted[p] + 1>>, poll_name |-> name,
                   options |-> options, vote |-> ""]
  <2>1. t \in Txn
    BY <1>2 DEF Txn
  <2>2. /\ t.sender = p /\ t.stamp = submitted[p] + 1 /\ t.type = "create_poll"
        /\ t.poll_id = <<p, submitted[p] + 1>> /\ Submit(p, t)
    BY <1>4 DEF SubmitPoll
  <2> HIDE DEF t
  <2> QED
    BY <1>1, <1>4, <2>1, <2>2, SubmitStep
<1>5. ASSUME NEW c \in Polls(A), NEW option \in Options,
             \/ option \in c.options
             \/ p \in Scripted,
             SubmitVote(p, c.poll_id, option),
             dialogue' = dialogue \/ dialogue' = [dialogue EXCEPT ![p] = Menu]
      PROVE  AppInv'
  <2> DEFINE t == [type |-> "vote", sender |-> p, stamp |-> submitted[p] + 1,
                   poll_id |-> c.poll_id, poll_name |-> "", options |-> {},
                   vote |-> option]
  <2>1. c.poll_id \in Peers \X Nat
    BY <1>1 DEF Polls, History, Txn
  <2>2. t \in Txn
    BY <1>2, <2>1 DEF Txn
  <2>3. /\ t.sender = p /\ t.stamp = submitted[p] + 1 /\ t.type = "vote"
        /\ t.poll_id = c.poll_id /\ t.vote = option /\ Submit(p, t)
    BY <1>5 DEF SubmitVote
  <2> HIDE DEF t
  <2>4. \E e \in Polls(A) : /\ e.poll_id = t.poll_id
                            /\ t.vote \in e.options \/ t.sender \in Scripted
    BY <1>5, <2>3
  <2> QED
    BY <1>1, <1>5, <2>2, <2>3, <2>4, SubmitStep
<1>6. CASE \E options \in SUBSET Options : ListOptions(p, options)
  <2>1. dialogue[p].name \in PollNames \cup {""}
    BY <1>1 DEF Dialogue
  <2> QED
    BY <1>4, <1>6, <2>1 DEF ListOptions, Says
<1>7. CASE \E option \in Options : ChooseOption(p, option)
  <2>1. dialogue[p].poll[1] \in Polls(A)
    BY <1>1, <1>7, HeldPoll DEF ChooseOption
  <2> QED
    BY <1>5, <1>7, <2>1 DEF ChooseOption, Chosen, Says
<1>8. CASE \E name \in PollNames : \E options \in SUBSET Options :
             ScriptCreates(p, name, options)
  BY <1>4, <1>8 DEF ScriptCreates
<1>9. CASE \E name \in PollNames : \E option \in Options :
             ScriptVotes(p, name, option)
  <2>1. PICK name \in PollNames : \E option \in Options : ScriptVotes(p, name, option)
    BY <1>9
  <2>2. PICK option \in Options : ScriptVotes(p, name, option)
    BY <2>1
  <2>3. Named(p, name)[1] \in Polls(A)
    BY <1>3, <2>2, Found DEF ScriptVotes, Named
  <2>4. p \in Scripted
    <3>1. dialogue[p].at = "script"
      <4>1. dialogue[p] = Script
        BY <2>2 DEF ScriptVotes
      <4>2. Script.at = "script"
        BY DEF Script, At
      <4> QED
        BY <4>1, <4>2
    <3> QED
      BY <3>1 DEF AppInv, FilesInv
  <2> QED
    BY <1>5, <2>2, <2>3, <2>4 DEF ScriptVotes
<1> QED
  BY <1>6, <1>7, <1>8, <1>9

-----------------------------------------------------------------------------
(***************************************************************************)
(* Steps of the ledgers below.                                             *)
(***************************************************************************)

\* The head of a queue is settled: it is in no ledger yet.
LEMMA HeadSettled ==
  ASSUME AppInv, NEW A, History(A), Places(A), NEW p \in Peers, queue[p] # <<>>,
         queue' = [queue EXCEPT ![p] = Tail(queue[p])], submitted' = submitted
  PROVE  /\ queue' \in [Peers -> Seq(A)] /\ QueueInv'
         /\ SettledOf(p) \in Nat /\ SettledOf(p)' = SettledOf(p) + 1
         /\ \A q \in Peers : q # p => SettledOf(q)' = SettledOf(q)
         /\ Head(queue[p]) \in A /\ Head(queue[p]).sender = p
         /\ Head(queue[p]).stamp = SettledOf(p) + 1
<1>1. queue \in [Peers -> Seq(A)] /\ queue[p] \in Seq(A)
  BY DEF Places
<1>2. submitted[p] \in Nat
  BY DEF AppInv, CountInv
<1>3. PICK s \in Seq(A) : s = queue[p]
  BY <1>1
<1>4. PICK k, n \in Nat : k = Len(s) /\ n = submitted[p]
  BY <1>2, LenProperties
<1>5. /\ Head(s) \in A /\ Tail(s) \in Seq(A) /\ Len(Tail(s)) = k - 1
      /\ \A i \in 1 .. k - 1 : Tail(s)[i] = s[i + 1]
      /\ k >= 1 /\ Head(s) = s[1]
  <2>1. s # <<>> /\ Len(s) # 0
    BY <1>3, EmptySeq
  <2> QED
    BY <1>4, <2>1, HeadTailProperties
<1>6. /\ k <= n
      /\ \A i \in 1 .. k : s[i].sender = p /\ s[i].stamp = n - k + i
  BY <1>3, <1>4 DEF AppInv, QueueInv, SettledOf
<1>7. /\ queue' \in [Peers -> Seq(A)] /\ queue'[p] = Tail(s)
      /\ \A q \in Peers : q # p => queue'[q] = queue[q]
  BY <1>1, <1>3, <1>5
<1>8. /\ SettledOf(p) = n - k /\ SettledOf(p)' = n - (k - 1)
      /\ \A q \in Peers : q # p => SettledOf(q)' = SettledOf(q)
  BY <1>3, <1>4, <1>5, <1>7 DEF SettledOf
<1>9. QueueInv'
  <2>1. ASSUME NEW q \in Peers
        PROVE  /\ Len(queue'[q]) <= submitted'[q]
               /\ \A i \in 1 .. Len(queue'[q]) :
                    /\ queue'[q][i].sender = q
                    /\ queue'[q][i].stamp = SettledOf(q)' + i
    <3>1. CASE q = p
      <4>1. Len(queue'[q]) = k - 1 /\ submitted'[q] = n /\ SettledOf(q)' = n - (k - 1)
        BY <1>4, <1>5, <1>7, <1>8, <3>1
      <4>2. ASSUME NEW i \in 1 .. k - 1
            PROVE  queue'[q][i].sender = q /\ queue'[q][i].stamp = n - (k - 1) + i
        <5>1. PICK j \in 1 .. k : j = i + 1
          BY <1>4
        <5>2. s[j].sender = p /\ s[j].stamp = n - k + j
          BY <1>6
        <5>3. n - k + j = n - (k - 1) + i
          BY <1>4, <5>1
        <5> QED
          BY <1>5, <1>7, <3>1, <5>1, <5>2, <5>3
      <4>3. k - 1 <= n
        BY <1>4, <1>6
      <4> QED
        BY ONLY <4>1, <4>2, <4>3
    <3>2. CASE q # p
      <4>1. /\ queue'[q] = queue[q] /\ submitted'[q] = submitted[q]
            /\ SettledOf(q)' = SettledOf(q)
        BY <1>7, <1>8, <3>2
      <4>2. /\ Len(queue[q]) <= submitted[q]
            /\ \A i \in 1 .. Len(queue[q]) :
                 /\ queue[q][i].sender = q
                 /\ queue[q][i].stamp = SettledOf(q) + i
        BY DEF AppInv, QueueInv
      <4> QED
        BY ONLY <4>1, <4>2
    <3> QED
      BY <3>1, <3>2
  <2> QED
    BY <2>1 DEF QueueInv
<1>10. Head(s).sender = p /\ Head(s).stamp = n - k + 1
  BY <1>4, <1>5, <1>6
<1> QED
  BY <1>3, <1>4, <1>5, <1>6, <1>7, <1>8, <1>9, <1>10

\* A ledger of settled transactions stays one when more are settled.
LEMMA LedgersStay ==
  ASSUME NEW A, History(A), NEW l \in Seq(A),
         \A i \in 1 .. Len(l) : l[i].stamp <= SettledOf(l[i].sender),
         \A q \in Peers : SettledOf(q) \in Int /\ SettledOf(q)' \in Int
                          /\ SettledOf(q) <= SettledOf(q)'
  PROVE  \A i \in 1 .. Len(l) : l[i].stamp <= SettledOf(l[i].sender)'
<1>1. ASSUME NEW i \in 1 .. Len(l)
      PROVE  l[i].stamp <= SettledOf(l[i].sender)'
  <2>1. l[i] \in A
    BY ElementOfSeq
  <2>2. PICK q \in Peers : q = l[i].sender
    BY <2>1 DEF History, Txn
  <2>3. l[i].stamp \in Nat
    BY <2>1 DEF History, Txn
  <2>4. l[i].stamp <= SettledOf(q) /\ SettledOf(l[i].sender)' = SettledOf(q)'
    BY <2>2
  <2> QED
    BY <2>3, <2>4
<1> QED
  BY <1>1

\* What the dialogues, results and votes know does not change below.
LEMMA AppKept ==
  ASSUME AppInv, UNCHANGED appVars,
         NEW A, History(A), dialogue \in [Peers -> Dialogue(A)],
         Places(A)'
  PROVE  CountInv' /\ NoVoteCountedTwice' /\ FilesInv' /\ HistoryInv'
<1>1. /\ dialogue' = dialogue /\ shown' = shown /\ submitted' = submitted
      /\ cast' = cast
  BY DEF appVars
<1>2. CountInv'
  BY <1>1 DEF AppInv, CountInv
<1>3. NoVoteCountedTwice'
  BY <1>1 DEF AppInv, NoVoteCountedTwice
<1>4. History(A)' /\ (dialogue \in [Peers -> Dialogue(A)])'
  BY <1>1 DEF History, Dialogue
<1>5. FilesInv'
  BY <1>1 DEF AppInv, FilesInv, OnlyFilesSpoilResults
<1> QED
  BY <1>2, <1>3, <1>4, <1>5 DEF HistoryInv

LEMMA LedgerSteps ==
  ASSUME AppInv, NEW p \in Peers, Enter(p) \/ Refuse(p) \/ Adopt(p)
  PROVE  AppInv'
<1>1. PICK A : History(A) /\ Places(A) /\ dialogue \in [Peers -> Dialogue(A)]
  BY DEF AppInv, HistoryInv
<1>2. UNCHANGED appVars /\ submitted' = submitted
  BY DEF Enter, Refuse, Adopt, appVars
<1>3. \A q \in Peers : SettledOf(q) \in Int
  <2>1. ASSUME NEW q \in Peers
        PROVE  SettledOf(q) \in Int
    <3>1. submitted[q] \in Nat /\ queue[q] \in Seq(A)
      BY <1>1 DEF AppInv, CountInv, Places
    <3> QED
      BY <3>1, LenProperties DEF SettledOf
  <2> QED
    BY <2>1
<1>4. ASSUME queue[p] # <<>>, queue' = [queue EXCEPT ![p] = Tail(queue[p])]
      PROVE  \A q \in Peers : /\ SettledOf(q)' \in Int
                              /\ SettledOf(q) <= SettledOf(q)'
  <2>1. /\ SettledOf(p) \in Nat /\ SettledOf(p)' = SettledOf(p) + 1
        /\ \A q \in Peers : q # p => SettledOf(q)' = SettledOf(q)
    BY <1>1, <1>2, <1>4, HeadSettled
  <2>2. ASSUME NEW q \in Peers
        PROVE  SettledOf(q)' \in Int /\ SettledOf(q) <= SettledOf(q)'
    BY <1>3, <2>1
  <2> QED
    BY <2>2
<1>5. ASSUME NEW l \in visible
      PROVE  /\ l \in Seq(A)
             /\ \A i \in 1 .. Len(l) : l[i].stamp <= SettledOf(l[i].sender)
             /\ \A i, j \in 1 .. Len(l) : l[i] = l[j] => i = j
  BY <1>1 DEF AppInv, LedgerInv, Places
<1>6. CASE Enter(p)
  <2>1. /\ queue[p] # <<>>
        /\ queue' = [queue EXCEPT ![p] = Tail(queue[p])]
        /\ ledger' = [ledger EXCEPT ![p] = Append(ledger[p], Head(queue[p]))]
        /\ visible' = visible \cup {ledger'[p]}
    BY <1>6 DEF Enter, Settled
  <2>2. PICK l \in visible : l = ledger[p]
    BY <1>1 DEF Places
  <2>3. PICK h \in A : h = Head(queue[p])
    BY <1>1, <1>2, <2>1, HeadSettled
  <2>4. PICK m \in Seq(A) : m = Append(l, h)
    BY <1>5, AppendProperties
  <2>5. PICK k \in Nat : k = Len(l)
    BY <1>5, LenProperties
  <2>6. /\ Len(m) = k + 1 /\ m[k + 1] = h
        /\ \A i \in 1 .. k : m[i] = l[i]
    BY <1>5, <2>4, <2>5, AppendProperties
  <2>7. /\ queue' \in [Peers -> Seq(A)] /\ QueueInv'
        /\ h.sender = p /\ SettledOf(p) \in Nat
        /\ h.stamp = SettledOf(p) + 1 /\ SettledOf(p)' = SettledOf(p) + 1
    BY <1>1, <1>2, <2>1, <2>3, HeadSettled
  <2>8. /\ ledger' = [ledger EXCEPT ![p] = m] /\ ledger'[p] = m
        /\ visible' = visible \cup {m}
    BY <1>1, <2>1, <2>2, <2>3, <2>4 DEF Places
  <2>9. Places(A)'
    <3>1. ledger' \in [Peers -> Seq(A)]
      BY <1>1, <2>8 DEF Places
    <3>2. \A q \in Peers : ledger'[q] \in visible'
      BY <1>1, <2>8 DEF Places
    <3> QED
      BY <1>1, <2>7, <2>8, <3>1, <3>2 DEF Places
  <2>10. \A i \in 1 .. k + 1 : m[i].stamp <= SettledOf(m[i].sender)'
    <3>1. \A i \in 1 .. k : l[i].stamp <= SettledOf(l[i].sender)'
      BY <1>1, <1>3, <1>4, <1>5, <2>1, <2>5, LedgersStay
    <3>2. h.stamp <= SettledOf(h.sender)'
      BY <2>7
    <3>3. \A i \in 1 .. k + 1 : i \in 1 .. k \/ i = k + 1
      BY <2>5
    <3>4. ASSUME NEW i \in 1 .. k + 1
          PROVE  m[i].stamp <= SettledOf(m[i].sender)'
      <4>1. CASE i \in 1 .. k
        <5>1. m[i] = l[i]
          BY <2>6, <4>1
        <5> QED
          BY <3>1, <4>1, <5>1
      <4>2. CASE i = k + 1
        BY <2>6, <3>2, <4>2
      <4> QED
        BY <3>3, <4>1, <4>2
    <3> QED
      BY <3>4
  <2>11. \A i \in 1 .. k : l[i] # h
    <3>1. ASSUME NEW i \in 1 .. k, l[i] = h
          PROVE  FALSE
      <4>1. h.stamp <= SettledOf(p)
        BY <1>5, <2>5, <2>7, <3>1
      <4> QED
        BY <2>7, <4>1
    <3> QED
      BY <3>1
  <2>12. \A i, j \in 1 .. k + 1 : m[i] = m[j] => i = j
    <3>1. \A i \in 1 .. k + 1 : i \in 1 .. k \/ i = k + 1
      BY <2>5
    <3>2. \A i, j \in 1 .. k : l[i] = l[j] => i = j
      BY <1>5, <2>5
    <3> QED
      BY <2>6, <2>11, <3>1, <3>2
  <2>13. LedgerInv'
    <3>1. ASSUME NEW b \in visible
          PROVE  \A i \in 1 .. Len(b) : b[i].stamp <= SettledOf(b[i].sender)'
      BY <1>1, <1>3, <1>4, <1>5, <2>1, LedgersStay
    <3> QED
      BY <1>5, <2>6, <2>8, <2>10, <2>12, <3>1 DEF LedgerInv
  <2> QED
    BY <1>1, <1>2, <2>7, <2>9, <2>13, AppKept DEF AppInv
<1>7. CASE Refuse(p)
  <2>1. /\ queue[p] # <<>>
        /\ queue' = [queue EXCEPT ![p] = Tail(queue[p])]
        /\ ledger' = ledger /\ visible' = visible
    BY <1>7 DEF Refuse, L!Refuse
  <2>2. queue' \in [Peers -> Seq(A)] /\ QueueInv'
    BY <1>1, <1>2, <2>1, HeadSettled
  <2>3. Places(A)'
    BY <1>1, <2>1, <2>2 DEF Places
  <2>4. ASSUME NEW b \in visible
        PROVE  \A i \in 1 .. Len(b) : b[i].stamp <= SettledOf(b[i].sender)'
    BY <1>1, <1>3, <1>4, <1>5, <2>1, LedgersStay
  <2>5. LedgerInv'
    BY <1>5, <2>1, <2>4 DEF LedgerInv
  <2> QED
    BY <1>1, <1>2, <2>2, <2>3, <2>5, AppKept DEF AppInv
<1>8. CASE Adopt(p)
  <2>1. PICK l \in visible : ledger' = [ledger EXCEPT ![p] = l]
    BY <1>8 DEF Adopt, L!Adopt
  <2>2. queue' = queue /\ visible' = visible
    BY <1>8 DEF Adopt, L!Adopt
  <2>3. ledger' \in [Peers -> Seq(A)] /\ \A q \in Peers : ledger'[q] \in visible
    BY <1>1, <1>5, <2>1 DEF Places
  <2>4. Places(A)'
    BY <1>1, <2>2, <2>3 DEF Places
  <2>5. QueueInv' /\ LedgerInv'
    BY <1>2, <2>2 DEF AppInv, QueueInv, LedgerInv, SettledOf
  <2> QED
    BY <1>1, <1>2, <2>4, <2>5, AppKept DEF AppInv
<1> QED
  BY <1>6, <1>7, <1>8

-----------------------------------------------------------------------------
(***************************************************************************)
(* The theorems.                                                           *)
(***************************************************************************)
LEMMA AppInit ==
  ASSUME Init
  PROVE  AppInv
<1>1. /\ queue = [p \in Peers |-> <<>>] /\ ledger = [p \in Peers |-> <<>>]
      /\ visible = {<<>>} /\ submitted = [p \in Peers |-> 0] /\ cast = {}
      /\ shown = [p \in Peers |-> <<>>]
      /\ dialogue = [p \in Peers |-> IF p \in Scripted THEN Script ELSE Menu]
  BY DEF Init, L!Init
<1>2. \A S : <<>> \in Seq(S) /\ Len(<<>>) = 0
  BY EmptySeq
<1>3. History({})
  BY DEF History, Polls
<1>4. Places({})
  BY <1>1, <1>2 DEF Places
<1>5. dialogue \in [Peers -> Dialogue({})]
  BY <1>1, MenuType
<1>6. QueueInv /\ LedgerInv
  BY <1>1, <1>2 DEF QueueInv, LedgerInv
<1>7. CountInv
  <2>1. shown \in [Peers -> Seq(Result)] /\ submitted \in [Peers -> Nat]
    BY <1>1, <1>2
  <2> QED
    BY <1>1, <2>1, FS_EmptySet DEF CountInv
<1>8. NoVoteCountedTwice
  BY <1>1, <1>2 DEF NoVoteCountedTwice
<1>9. FilesInv
  BY <1>1 DEF FilesInv, OnlyFilesSpoilResults, Menu, Script, At
<1> QED
  BY <1>3, <1>4, <1>5, <1>6, <1>7, <1>8, <1>9 DEF AppInv, HistoryInv

LEMMA AppStep ==
  ASSUME AppInv, [Next]_vars
  PROVE  AppInv'
<1>1. CASE Next
  <2>1. PICK p \in Peers :
          \/ \E name \in PollNames :
               \/ NamePoll(p, name)
               \/ ChoosePoll(p, name)
               \/ AskResults(p, name)
               \/ \E options \in SUBSET Options : ScriptCreates(p, name, options)
               \/ \E option \in Options : ScriptVotes(p, name, option)
          \/ \E options \in SUBSET Options : ListOptions(p, options)
          \/ \E option \in Options : ChooseOption(p, option)
          \/ RejectOption(p)
          \/ ScriptEnds(p)
          \/ FindAgain(p)
          \/ CountVotes(p)
          \/ Enter(p)
          \/ Refuse(p)
          \/ Adopt(p)
    BY <1>1 DEF Next
  <2>2. CASE \/ \E name \in PollNames :
                  NamePoll(p, name) \/ ChoosePoll(p, name) \/ AskResults(p, name)
             \/ RejectOption(p)
             \/ ScriptEnds(p)
             \/ FindAgain(p)
    BY <2>2, QuietSteps
  <2>3. CASE \/ \E options \in SUBSET Options : ListOptions(p, options)
             \/ \E option \in Options : ChooseOption(p, option)
             \/ \E name \in PollNames : \E options \in SUBSET Options :
                  ScriptCreates(p, name, options)
             \/ \E name \in PollNames : \E option \in Options :
                  ScriptVotes(p, name, option)
    BY <2>3, UserSubmits
  <2>4. CASE CountVotes(p)
    BY <2>4, CountStep
  <2>5. CASE Enter(p) \/ Refuse(p) \/ Adopt(p)
    BY <2>5, LedgerSteps
  <2> QED
    BY <2>1, <2>2, <2>3, <2>4, <2>5
<1>2. CASE UNCHANGED vars
  <2>1. UNCHANGED appVars /\ queue' = queue /\ ledger' = ledger /\ visible' = visible
        /\ submitted' = submitted
    BY <1>2 DEF vars, appVars
  <2>2. PICK A : History(A) /\ Places(A) /\ dialogue \in [Peers -> Dialogue(A)]
    BY DEF AppInv, HistoryInv
  <2>3. Places(A)' /\ QueueInv' /\ LedgerInv'
    BY <2>1, <2>2 DEF Places, AppInv, QueueInv, LedgerInv, SettledOf
  <2> QED
    BY <2>1, <2>2, <2>3, AppKept DEF AppInv
<1> QED
  BY <1>1, <1>2

LEMMA TypesFollow ==
  ASSUME AppInv
  PROVE  TypeOK
<1>1. PICK A : History(A) /\ Places(A) /\ dialogue \in [Peers -> Dialogue(A)]
  BY DEF AppInv, HistoryInv
<1>2. A \subseteq Txn
  BY <1>1 DEF History
<1>3. Seq(A) \subseteq Seq(Txn)
  BY <1>2, SeqMonotonic
<1>4. queue \in [Peers -> Seq(Txn)] /\ ledger \in [Peers -> Seq(Txn)]
  BY <1>1, <1>3 DEF Places
<1>5. ASSUME NEW p \in Peers
      PROVE  /\ dialogue[p].at \in {"script", "menu", "options", "option", "find",
                                    "count", "raised"}
             /\ dialogue[p].at \in {"option", "find", "count", "raised"}
                  => Len(dialogue[p].poll) = 1
  <2>1. dialogue[p] \in Dialogue(A)
    BY <1>1
  <2> QED
    BY <2>1 DEF Dialogue, Stage
<1> QED
  BY <1>4, <1>5 DEF TypeOK, AppInv, CountInv

(***************************************************************************)
(* An application that asks for an option, or is about to show results,    *)
(* holds the poll it has found on the chain (app.py).                      *)
(***************************************************************************)
THEOREM TypeCorrect == Spec => []TypeOK
<1>1. Init => AppInv
  BY AppInit
<1>2. AppInv /\ [Next]_vars => AppInv'
  BY AppStep
<1>3. AppInv => TypeOK
  BY TypesFollow
<1> QED
  BY <1>1, <1>2, <1>3, PTL DEF Spec

(***************************************************************************)
(* Results never exceed the votes that were cast, though the votes are     *)
(* read from one copy of the chain and the poll from another, and though   *)
(* ledgers are replaced and transactions requeued (get_poll_results).      *)
(***************************************************************************)
THEOREM VotesCountedOnce == Spec => []NoVoteCountedTwice
<1>1. Init => AppInv
  BY AppInit
<1>2. AppInv /\ [Next]_vars => AppInv'
  BY AppStep
<1>3. AppInv => NoVoteCountedTwice
  BY DEF AppInv
<1> QED
  BY <1>1, <1>2, <1>3, PTL DEF Spec

(***************************************************************************)
(* get_poll_results raises KeyError only for a poll for which a user with  *)
(* a simulation file has voted an option that it lacks: votes made at the  *)
(* menu are for options of their polls, whatever polls of one name race    *)
(* and whatever copies of the chain are read.                              *)
(***************************************************************************)
THEOREM SpoiltByFilesOnly == Spec => []OnlyFilesSpoilResults
<1>1. Init => AppInv
  BY AppInit
<1>2. AppInv /\ [Next]_vars => AppInv'
  BY AppStep
<1>3. AppInv => OnlyFilesSpoilResults
  BY DEF AppInv, FilesInv
<1> QED
  BY <1>1, <1>2, <1>3, PTL DEF Spec

=============================================================================
