-------------------------- MODULE MembershipProofs --------------------------
(***************************************************************************)
(* The invariants of Membership.  A step of a member is either one that    *)
(* PeerNetwork has too, and then does what PeerNetworkProofs says of it,   *)
(* or one that comes with joining, leaving and crashing.                   *)
(***************************************************************************)
EXTENDS MembershipInvariant, PeerNetworkLedger

USE DEF Working, Begins

\* The miner goes on with the given peers, or ends its broadcast.
SendsTo(p, peers) == mpc[p] = "send" /\ SendingTo(p, peers)

\* The steps that peers take only where they join and leave.
ComesOrGoes(p) == \/ \E q \in Peers : AskListed(p, q)
                  \/ TakeListedChain(p)
                  \/ FailToJoin(p)
                  \/ StartMining(p)
                  \/ \E peers \in SUBSET Peers : SendsTo(p, peers)
                  \/ PollerDies(p)
                  \/ EndFork(p)
                  \/ AbandonFork(p)
                  \/ Leave(p)
                  \/ Crash(p)

LEMMA MemberSteps ==
  ASSUME DataTypes, MemberTypeOK, [MemberNext]_allVars
  PROVE  [PeersMove]_vars \/ \E p \in Peers : ComesOrGoes(p)
<1>1. ASSUME UNCHANGED allVars
      PROVE  [PeersMove]_vars
  BY <1>1 DEF allVars
<1>2. ASSUME NEW p \in Peers, \/ Join(p)
                              \/ ReadList(p)
                              \/ StartThreads(p)
                              \/ LearnPort(p)
                              \/ TrackerThread(p)
      PROVE  [PeersMove]_vars
  BY <1>2 DEF Join, ReadList, StartThreads, LearnPort, TrackerThread
<1>3. ASSUME NEW p \in Peers, \/ MemberApplication(p)
                              \/ MinesAlone(p)
                              \/ MineBlock(p)
                              \/ AppendLast(p)
      PROVE  [PeersMove]_vars
  <2>1. CASE MineBlock(p)
    BY <2>1, OwnBlockAppended DEF MineBlock, PeersMove, MinerMoves
  <2>2. CASE AppendLast(p)
    BY <2>2 DEF AppendLast, AppendsBlock, PeersMove, MinerMoves
  <2> QED
    BY <1>3, <2>1, <2>2 DEF MemberApplication, MinesAlone, PeersMove, MinerMoves
<1>4. ASSUME NEW p \in Peers, NEW q \in Peers, SendNew(p, q)
      PROVE  [PeersMove]_vars
  BY <1>4 DEF SendNew, PeersMove, MinerMoves
<1>5. ASSUME NEW p \in Peers, MemberListener(p)
      PROVE  [PeersMove]_vars
  BY <1>5 DEF MemberListener, ReceiveBlock, ServeRequester, PeersMove, Listener
<1>6. ASSUME NEW p \in Peers, \/ Decide(p)
                              \/ FaceFork(p)
                              \/ AskMiner(p)
                              \/ TakeMinersChain(p)
      PROVE  [PeersMove]_vars
  BY <1>6 DEF Decide, FaceFork, AskMiner, TakeMinersChain, PeersMove, Poller
<1>7. ASSUME NEW p \in Peers, LearnWhomToSend(p)
      PROVE  ComesOrGoes(p)
  <2>1. answer[p] \in SUBSET Peers
    BY DEF MemberTypeOK, T!TypeOK
  <2>2. SendsTo(p, answer[p])
    BY <1>7 DEF LearnWhomToSend, SendsTo
  <2> QED
    BY <2>1, <2>2 DEF ComesOrGoes
<1>8. ASSUME NEW p \in Peers, NEW q \in Peers, SkipPeer(p, q)
      PROVE  ComesOrGoes(p)
  <2>1. sendTo[p] \ {q} \in SUBSET Peers
    BY DEF DataTypes
  <2>2. SendsTo(p, sendTo[p] \ {q})
    BY <1>8 DEF SkipPeer, SendsTo
  <2> QED
    BY <2>1, <2>2 DEF ComesOrGoes
<1>9. ASSUME NEW p \in Peers, \/ \E q \in Peers : AskListed(p, q)
                              \/ TakeListedChain(p)
                              \/ FailToJoin(p)
                              \/ StartMining(p)
                              \/ PollerDies(p)
                              \/ EndFork(p)
                              \/ AbandonFork(p)
                              \/ Leave(p)
                              \/ Crash(p)
      PROVE  ComesOrGoes(p)
  BY <1>9 DEF ComesOrGoes
<1> QED
  BY <1>1, <1>2, <1>3, <1>4, <1>5, <1>6, <1>7, <1>8, <1>9
  DEF MemberNext, Joiner, Broadcasting, MemberPoller

-----------------------------------------------------------------------------
(***************************************************************************)
(* The inbox of a peer when the requests of another are taken out.         *)
(***************************************************************************)
LEMMA WithoutRequestSeq ==
  ASSUME NEW S, NEW s \in Seq(S), NEW p
  PROVE  /\ WithoutRequest(s, p) \in Seq(S)
         /\ \/ /\ WithoutRequest(s, p) = s
               /\ \A i \in 1 .. Len(s) :
                    ~(s[i].type = "GET-CHAIN" /\ s[i].from = p)
            \/ \E k \in 1 .. Len(s) :
                 /\ s[k].type = "GET-CHAIN" /\ s[k].from = p
                 /\ Len(WithoutRequest(s, p)) = Len(s) - 1
                 /\ \A i \in 1 .. Len(s) - 1 :
                      WithoutRequest(s, p)[i] = s[IF i < k THEN i ELSE i + 1]
<1> DEFINE at == {i \in 1 .. Len(s) : s[i].type = "GET-CHAIN" /\ s[i].from = p}
<1>1. CASE at = {}
  <2>1. WithoutRequest(s, p) = s
    BY <1>1 DEF WithoutRequest
  <2> QED
    BY <1>1, <2>1
<1>2. CASE at # {}
  <2>1. PICK k \in at : k = CHOOSE i \in at : TRUE
    BY <1>2
  <2> DEFINE a == SubSeq(s, 1, k - 1)
             b == SubSeq(s, k + 1, Len(s))
  <2>2. WithoutRequest(s, p) = a \o b
    BY <1>2, <2>1 DEF WithoutRequest
  <2>3. k \in 1 .. Len(s) /\ s[k].type = "GET-CHAIN" /\ s[k].from = p
    BY <2>1
  <2>4. PICK n \in Nat : n = Len(s)
    BY LenProperties
  <2>5. k \in Int /\ k >= 1 /\ k <= n
    BY <2>3, <2>4
  <2>6. \A i \in 1 .. n : s[i] \in S
    BY <2>4, ElementOfSeq
  <2>7. /\ a \in Seq(S) /\ Len(a) = k - 1
        /\ \A i \in 1 .. k - 1 : a[i] = s[i]
    <3>1. \A i \in 1 .. k - 1 : s[i] \in S
      BY <2>5, <2>6
    <3>2. /\ a \in Seq(S) /\ Len(a) = IF 1 <= k - 1 THEN k - 1 - 1 + 1 ELSE 0
          /\ \A i \in 1 .. k - 1 - 1 + 1 : a[i] = s[1 + i - 1]
      BY <2>5, <3>1, SubSeqProperties
    <3> HIDE DEF a
    <3> QED
      BY <2>5, <3>2
  <2>8. /\ b \in Seq(S) /\ Len(b) = n - k
        /\ \A i \in 1 .. n - k : b[i] = s[k + i]
    <3>1. \A i \in k + 1 .. n : s[i] \in S
      BY <2>5, <2>6
    <3>2. /\ b \in Seq(S)
          /\ Len(b) = IF k + 1 <= n THEN n - (k + 1) + 1 ELSE 0
          /\ \A i \in 1 .. n - (k + 1) + 1 : b[i] = s[(k + 1) + i - 1]
      BY <2>4, <2>5, <3>1, SubSeqProperties
    <3> HIDE DEF b
    <3> QED
      BY <2>5, <3>2, SMTT(30)
  <2> HIDE DEF a, b, at
  <2>9. /\ a \o b \in Seq(S) /\ Len(a \o b) = n - 1
        /\ \A i \in 1 .. n - 1 : (a \o b)[i] = IF i <= k - 1 THEN a[i]
                                              ELSE b[i - (k - 1)]
    <3>1. /\ a \o b \in Seq(S) /\ Len(a \o b) = Len(a) + Len(b)
          /\ \A i \in 1 .. Len(a) + Len(b) : (a \o b)[i] =
               IF i <= Len(a) THEN a[i] ELSE b[i - Len(a)]
      BY <2>7, <2>8, ConcatProperties
    <3>2. Len(a) + Len(b) = n - 1
      BY <2>5, <2>7, <2>8
    <3> QED
      BY <2>7, <3>1, <3>2
  <2>10. ASSUME NEW i \in 1 .. n - 1
         PROVE  (a \o b)[i] = s[IF i < k THEN i ELSE i + 1]
    <3>1. CASE i < k
      <4>1. i \in 1 .. k - 1 /\ i <= k - 1
        BY <2>5, <3>1
      <4> QED
        BY <2>7, <2>9, <3>1, <4>1
    <3>2. CASE ~(i < k)
      <4>1. i - (k - 1) \in 1 .. n - k /\ ~(i <= k - 1) /\ k + (i - (k - 1)) = i + 1
        BY <2>5, <3>2
      <4> QED
        BY <2>8, <2>9, <3>2, <4>1
    <3> QED
      BY <3>1, <3>2
  <2> QED
    BY <2>2, <2>3, <2>4, <2>9, <2>10
<1> QED
  BY <1>1, <1>2

-----------------------------------------------------------------------------
(***************************************************************************)
(* Types.                                                                  *)
(***************************************************************************)
Phases == {"idle", "snapshot", "attempt", "commit", "send"}
PollPhases == {"idle", "asking", "waiting", "served", "reset", "dead"}

\* t is what is left of the buffer s when blocks are dropped.
CutTo(s, t) == \/ t = s \/ t = <<>>
               \/ s # <<>> /\ (t = Tail(s) \/ t = <<Head(s)>>)

LEMMA CutSeq ==
  ASSUME NEW S, NEW s \in Seq(S), NEW t, CutTo(s, t)
  PROVE  t \in Seq(S) /\ \A b \in Range(t) : b \in Range(s)
<1>1. ASSUME NEW R, s \in Seq(R)
      PROVE  t \in Seq(R)
  <2>1. CASE s = <<>>
    BY <1>1, <2>1 DEF CutTo
  <2>2. CASE s # <<>>
    <3>1. Head(s) \in R /\ Tail(s) \in Seq(R)
      BY <1>1, <2>2, HeadTailProperties
    <3>2. <<Head(s)>> \in Seq(R) /\ <<>> \in Seq(R)
      BY <3>1
    <3> QED
      BY <1>1, <3>1, <3>2 DEF CutTo
  <2> QED
    BY <2>1, <2>2
<1>2. s \in Seq(Range(s))
  BY SeqOfRange
<1>3. \A b \in Range(t) : b \in Range(s)
  BY <1>1, <1>2, RangeWithin
<1> QED
  BY <1>1, <1>3

LEMMA LeaveBuffer ==
  ASSUME DataTypes, NEW p \in Peers, Leave(p)
  PROVE  /\ rcv' = [rcv EXCEPT ![p] = rcv'[p]]
         /\ CutTo(rcv[p], rcv'[p])
<1>1. PICK kept \in InBuffer(p) : rcv' = [rcv EXCEPT ![p] = SubSeq(@, 1, kept)]
  BY DEF Leave
<1>2. /\ rcv[p] \in Seq(Block) /\ kept \in {0, 1}
      /\ kept = 1 => rcv[p] # <<>>
      /\ rcv'[p] = SubSeq(rcv[p], 1, kept)
      /\ rcv' = [rcv EXCEPT ![p] = rcv'[p]]
  BY <1>1 DEF DataTypes, InBuffer
<1>3. CASE kept = 0
  BY <1>2, <1>3 DEF CutTo
<1>4. CASE kept = 1
  <2>1. rcv[p] # <<>> /\ Len(rcv[p]) \in Nat \ {0} /\ rcv[p][1] = Head(rcv[p])
    BY <1>2, <1>4, EmptySeq, HeadTailProperties
  <2>2. SubSeq(rcv[p], 1, 1) = <<Head(rcv[p])>>
    <3>1. PICK h \in Block : h = Head(rcv[p]) /\ h = rcv[p][1]
      BY <1>2, <2>1, HeadTailProperties
    <3>2. /\ SubSeq(rcv[p], 1, 1) \in Seq(Block)
          /\ Len(SubSeq(rcv[p], 1, 1)) = 1
          /\ SubSeq(rcv[p], 1, 1)[1] = h
      <4>1. \A i \in 1 .. 1 : rcv[p][i] \in Block
        BY <3>1
      <4>2. /\ SubSeq(rcv[p], 1, 1) \in Seq(Block)
            /\ Len(SubSeq(rcv[p], 1, 1)) = IF 1 <= 1 THEN 1 - 1 + 1 ELSE 0
            /\ \A i \in 1 .. 1 - 1 + 1 :
                 SubSeq(rcv[p], 1, 1)[i] = rcv[p][1 + i - 1]
        BY <4>1, SubSeqProperties
      <4> QED
        BY <3>1, <4>2
    <3>3. <<h>> \in Seq(Block) /\ Len(<<h>>) = 1 /\ <<h>>[1] = h
      BY <3>1
    <3>4. SubSeq(rcv[p], 1, 1) = <<h>>
      <4>1. PICK s, t \in Seq(Block) : s = SubSeq(rcv[p], 1, 1) /\ t = <<h>>
        BY <3>2, <3>3
      <4>2. Len(s) = Len(t) /\ \A i \in 1 .. Len(s) : s[i] = t[i]
        BY <3>2, <3>3, <4>1
      <4> QED
        BY <4>1, <4>2, SeqEqual
    <3> QED
      BY <3>1, <3>4
  <2> QED
    BY <1>2, <1>4, <2>1, <2>2 DEF CutTo
<1> QED
  BY <1>2, <1>3, <1>4

LEMMA LeaveTypes ==
  ASSUME DataTypes, NEW p \in Peers, Leave(p)
  PROVE  DataTypes'
<1>1. PICK kept \in InHand(p) :
        /\ inbox' = [inbox EXCEPT ![p] = SubSeq(@, 1, kept)]
        /\ ppc' = [q \in Peers |->
                     IF q \in Cut(p, SubSeq(inbox[p], kept + 1, Len(inbox[p])))
                     THEN "reset" ELSE ppc[q]]
  BY DEF Leave
<1>2. SubSeq(inbox[p], 1, kept) \in Seq(Connection)
  <2>1. /\ inbox[p] \in Seq(Connection) /\ kept \in {0, 1}
        /\ kept = 1 => inbox[p] # <<>>
    BY DEF DataTypes, InHand
  <2>2. \A i \in 1 .. kept : inbox[p][i] \in Connection
    BY <2>1, ElementOfSeq, EmptySeq, LenProperties
  <2> QED
    BY <2>1, <2>2, SubSeqProperties
<1>3. inbox' \in [Peers -> Seq(Connection)]
  BY <1>1, <1>2 DEF DataTypes
<1>4. ppc' \in [Peers -> PollPhases]
  BY <1>1 DEF DataTypes, PollPhases
<1>5. rcv' \in [Peers -> Seq(Block)]
  <2>1. rcv[p] \in Seq(Block) /\ rcv \in [Peers -> Seq(Block)]
    BY DEF DataTypes
  <2>2. rcv'[p] \in Seq(Block)
    BY <2>1, LeaveBuffer, CutSeq
  <2> QED
    BY <2>1, <2>2, LeaveBuffer
<1>6. UNCHANGED <<chain, lock, state, txns, submitted, minerVars, step,
                  sendVars, asked, reply>>
  BY DEF Leave
<1> QED
  BY <1>3, <1>4, <1>5, <1>6 DEF DataTypes, minerVars, sendVars, PollPhases

LEMMA AbandonTypes ==
  ASSUME DataTypes, NEW p \in Peers, AbandonFork(p)
  PROVE  DataTypes'
<1>1. rcv[p] \in Seq(Block) /\ rcv[p] # <<>>
  BY DEF DataTypes, AbandonFork, Polling
<1>2. rcv' \in [Peers -> Seq(Block)]
  BY <1>1, HeadTailProperties DEF DataTypes, AbandonFork, Popped
<1> QED
  BY <1>2 DEF DataTypes, AbandonFork, minerVars, sendVars, pollerVars

LEMMA CrashTypes ==
  ASSUME DataTypes, NEW p \in Peers, Crash(p)
  PROVE  DataTypes'
<1>1. inbox' \in [Peers -> Seq(Connection)]
  <2>1. \A q \in Peers : WithoutRequest(inbox[q], p) \in Seq(Connection)
    BY WithoutRequestSeq DEF DataTypes
  <2> QED
    BY <2>1 DEF Crash
<1>2. ppc' \in [Peers -> PollPhases]
  BY DEF DataTypes, PollPhases, Crash
<1>3. /\ mpc' \in [Peers -> Phases]
      /\ current' \in [Peers -> Seq(Txn)]
      /\ mineId' \in [Peers -> Nat]
      /\ prevHash' \in [Peers -> Hash]
  BY GenesisPrevType DEF DataTypes, Crash, MinerDone, Phases
<1>4. lock' \in [Peers -> {"free", "miner", "poller"}]
  BY DEF DataTypes, Crash, FreeLock
<1>5. /\ chain' \in [Peers -> Seq(Block)]
      /\ txns' \in [Peers -> Seq(Txn)]
      /\ rcv' \in [Peers -> Seq(Block)]
      /\ outgoing' \in [Peers -> Seq(Block)]
      /\ reply' \in [Peers -> Seq(Block)]
  BY DEF DataTypes, Crash
<1>6. sendTo' \in [Peers -> SUBSET Peers] /\ asked' \in [Peers -> Peers]
  BY DEF DataTypes, Crash
<1>7. UNCHANGED <<state, submitted, step>>
  BY DEF Crash
<1> QED
  BY <1>1, <1>2, <1>3, <1>4, <1>5, <1>6, <1>7 DEF DataTypes, Phases, PollPhases

LEMMA SendsToEffect ==
  ASSUME NEW p \in Peers, NEW peers, SendsTo(p, peers)
  PROVE  /\ mpc[p] = "send"
         /\ sendTo' = [sendTo EXCEPT ![p] = peers]
         /\ \/ /\ mpc' = [mpc EXCEPT ![p] = "idle"]
               /\ lock' = [lock EXCEPT ![p] = "free"]
               /\ outgoing' = [outgoing EXCEPT ![p] = <<>>]
            \/ mpc' = mpc /\ lock' = lock /\ outgoing' = outgoing
         /\ UNCHANGED <<chain, state, txns, submitted, current, mineId,
                        prevHash, step, inbox, rcv, ppc, asked, reply>>
BY DEF SendsTo, SendingTo, pollerVars

LEMMA SendsToTypes ==
  ASSUME DataTypes, NEW p \in Peers, NEW peers \in SUBSET Peers, SendsTo(p, peers)
  PROVE  DataTypes'
<1>1. sendTo' \in [Peers -> SUBSET Peers]
  BY DEF DataTypes, SendsTo, SendingTo
<1>2. /\ mpc' \in [Peers -> Phases]
      /\ lock' \in [Peers -> {"free", "miner", "poller"}]
      /\ outgoing' \in [Peers -> Seq(Block)]
  <2>1. /\ mpc \in [Peers -> Phases]
        /\ lock \in [Peers -> {"free", "miner", "poller"}]
        /\ outgoing \in [Peers -> Seq(Block)]
    BY DEF DataTypes, Phases
  <2>2. CASE /\ mpc' = [mpc EXCEPT ![p] = "idle"]
             /\ lock' = [lock EXCEPT ![p] = "free"]
             /\ outgoing' = [outgoing EXCEPT ![p] = <<>>]
    BY <2>1, <2>2 DEF Phases
  <2>3. CASE mpc' = mpc /\ lock' = lock /\ outgoing' = outgoing
    BY <2>1, <2>3
  <2> QED
    BY <2>2, <2>3, SendsToEffect
<1>3. UNCHANGED <<chain, state, txns, submitted, current, mineId, prevHash,
                  step, inbox, rcv, pollerVars>>
  BY DEF SendsTo, SendingTo
<1> QED
  BY <1>1, <1>2, <1>3 DEF DataTypes, Phases, pollerVars

LEMMA AskListedTypes ==
  ASSUME DataTypes, NEW p \in Peers, NEW q \in Peers, AskListed(p, q)
  PROVE  DataTypes'
<1>1. GetChainMsg(p) \in Connection
  BY DEF GetChainMsg, Connection
<1>2. inbox' \in [Peers -> Seq(Connection)]
  BY <1>1, AppendProperties DEF DataTypes, AskListed
<1>3. asked' \in [Peers -> Peers] /\ ppc' \in [Peers -> PollPhases]
  BY DEF DataTypes, AskListed, PollPhases
<1>4. UNCHANGED <<chain, lock, state, txns, submitted, minerVars, step,
                  sendVars, rcv, reply>>
  BY DEF AskListed
<1> QED
  BY <1>2, <1>3, <1>4 DEF DataTypes, minerVars, sendVars, PollPhases

LEMMA ComingTypes ==
  ASSUME DataTypes, NEW p \in Peers, ComesOrGoes(p)
  PROVE  DataTypes'
<1>1. CASE TakeListedChain(p)
  <2>1. chain' \in [Peers -> Seq(Block)] /\ reply' \in [Peers -> Seq(Block)]
    BY <1>1 DEF DataTypes, TakeListedChain
  <2>2. asked' \in [Peers -> Peers] /\ ppc' \in [Peers -> PollPhases]
    BY <1>1 DEF DataTypes, TakeListedChain, PollPhases
  <2> QED
    BY <1>1, <2>1, <2>2
    DEF DataTypes, TakeListedChain, minerVars, sendVars, PollPhases
<1>2. CASE FailToJoin(p)
  <2>1. chain' \in [Peers -> Seq(Block)]
    BY <1>2 DEF DataTypes, FailToJoin
  <2>2. asked' \in [Peers -> Peers] /\ ppc' \in [Peers -> PollPhases]
    BY <1>2 DEF DataTypes, FailToJoin, PollPhases
  <2> QED
    BY <1>2, <2>1, <2>2
    DEF DataTypes, FailToJoin, minerVars, sendVars, PollPhases
<1>3. CASE StartMining(p)
  BY <1>3 DEF DataTypes, StartMining, minerVars, sendVars, pollerVars
<1>4. CASE PollerDies(p)
  <2>1. lock' \in [Peers -> {"free", "miner", "poller"}]
    BY <1>4 DEF DataTypes, PollerDies, FreeLock
  <2>2. asked' \in [Peers -> Peers] /\ ppc' \in [Peers -> PollPhases]
    BY <1>4 DEF DataTypes, PollerDies, PollPhases
  <2> QED
    BY <1>4, <2>1, <2>2
    DEF DataTypes, PollerDies, minerVars, sendVars, PollPhases
<1>5. CASE EndFork(p)
  <2>1. chain' \in [Peers -> Seq(Block)] /\ reply' \in [Peers -> Seq(Block)]
    BY <1>5 DEF DataTypes, EndFork
  <2>2. asked' \in [Peers -> Peers] /\ ppc' \in [Peers -> PollPhases]
    BY <1>5 DEF DataTypes, EndFork, PollPhases
  <2>3. lock' \in [Peers -> {"free", "miner", "poller"}]
    BY <1>5 DEF DataTypes, EndFork, FreeLock
  <2> QED
    BY <1>5, <2>1, <2>2, <2>3
    DEF DataTypes, EndFork, minerVars, sendVars, PollPhases
<1> QED
  BY <1>1, <1>2, <1>3, <1>4, <1>5, AskListedTypes, SendsToTypes, LeaveTypes,
     AbandonTypes, CrashTypes
  DEF ComesOrGoes

-----------------------------------------------------------------------------
(***************************************************************************)
(* What coming and going does to the chains and to the threads.            *)
(***************************************************************************)
LEMMA ComingChains ==
  ASSUME DataTypes, life \in [Peers -> Lives], LifeInv, NEW p \in Peers, ComesOrGoes(p), NEW q \in Peers
  PROVE  \/ chain'[q] = chain[q]
         \/ /\ ppc[q] = "served" /\ Adoptable(chain[q], reply[q])
            /\ chain'[q] = reply[q]
         \/ /\ q = p /\ chain'[q] = <<>> /\ mpc'[q] = "idle"
            /\ life'[q] \in {"failed", "crashed"}
<1> DEFINE Goal == \/ chain'[q] = chain[q]
                   \/ /\ ppc[q] = "served" /\ Adoptable(chain[q], reply[q])
                      /\ chain'[q] = reply[q]
                   \/ /\ q = p /\ chain'[q] = <<>> /\ mpc'[q] = "idle"
                      /\ life'[q] \in {"failed", "crashed"}
<1>1. chain \in [Peers -> Seq(Block)]
  BY DEF DataTypes
<1>2. CASE TakeListedChain(p)
  BY <1>1, <1>2 DEF TakeListedChain, Better
<1>3. CASE EndFork(p)
  BY <1>1, <1>3 DEF EndFork
<1>4. CASE FailToJoin(p)
  <2>1. mpc[p] = "idle" /\ mpc' = mpc
    BY <1>4 DEF LifeInv, FailToJoin, minerVars
  <2>2. life'[p] = "failed"
    BY <1>4 DEF FailToJoin
  <2> QED
    BY <1>1, <1>4, <2>1, <2>2 DEF FailToJoin
<1>5. CASE Crash(p)
  <2>1. /\ chain' = [chain EXCEPT ![p] = <<>>]
        /\ mpc' = [mpc EXCEPT ![p] = "idle"]
        /\ life' = [life EXCEPT ![p] = "crashed"]
    BY <1>5 DEF Crash
  <2> QED
    BY <1>1, <2>1 DEF DataTypes
<1>6. CASE chain' = chain
  BY <1>6
<1> QED
  BY <1>2, <1>3, <1>4, <1>5, <1>6
  DEF ComesOrGoes, AskListed, StartMining, SendsTo, SendingTo, PollerDies,
      AbandonFork, Leave

LEMMA ComingMiner ==
  ASSUME DataTypes, NEW p \in Peers, ComesOrGoes(p), NEW q \in Peers
  PROVE  /\ mpc'[q] \in {"snapshot", "attempt", "commit"} =>
              /\ mpc'[q] = mpc[q] /\ current'[q] = current[q]
              /\ mineId'[q] = mineId[q] /\ prevHash'[q] = prevHash[q]
         /\ mpc'[q] = "send" => mpc[q] = "send" /\ outgoing'[q] = outgoing[q]
<1> DEFINE Goal == /\ mpc'[q] \in {"snapshot", "attempt", "commit"} =>
                        /\ mpc'[q] = mpc[q] /\ current'[q] = current[q]
                        /\ mineId'[q] = mineId[q] /\ prevHash'[q] = prevHash[q]
                   /\ mpc'[q] = "send" =>
                        mpc[q] = "send" /\ outgoing'[q] = outgoing[q]
<1>1. ASSUME UNCHANGED <<minerVars, outgoing>>
      PROVE  Goal
  BY <1>1 DEF minerVars
<1>2. ASSUME NEW peers \in SUBSET Peers, SendsTo(p, peers)
      PROVE  Goal
  <2>1. UNCHANGED <<current, mineId, prevHash>>
    BY <1>2, SendsToEffect
  <2>2. CASE /\ mpc' = [mpc EXCEPT ![p] = "idle"]
             /\ outgoing' = [outgoing EXCEPT ![p] = <<>>]
    BY <2>1, <2>2 DEF DataTypes
  <2>3. CASE mpc' = mpc /\ outgoing' = outgoing
    BY <2>1, <2>3
  <2> QED
    BY <1>2, <2>2, <2>3, SendsToEffect
<1>4. ASSUME Crash(p)
      PROVE  Goal
  BY <1>4 DEF DataTypes, Crash, MinerDone
<1> HIDE DEF Goal
<1>5. Goal
  BY <1>1, <1>2, <1>4
  DEF ComesOrGoes, AskListed, TakeListedChain, FailToJoin, StartMining,
      PollerDies, EndFork, AbandonFork, Leave, minerVars, sendVars
<1> QED
  BY <1>5 DEF Goal

LEMMA ComingPoller ==
  ASSUME DataTypes, NEW p \in Peers, ComesOrGoes(p), NEW q \in Peers,
         ppc'[q] = "served"
  PROVE  ppc[q] = "served" /\ asked'[q] = asked[q] /\ reply'[q] = reply[q]
<1> DEFINE Goal == /\ ppc[q] = "served"
                   /\ asked'[q] = asked[q] /\ reply'[q] = reply[q]
<1>1. ASSUME UNCHANGED pollerVars
      PROVE  Goal
  BY <1>1 DEF pollerVars
<1>2. ASSUME NEW r \in Peers, AskListed(p, r)
      PROVE  Goal
  BY <1>2 DEF DataTypes, AskListed
<1>3. ASSUME TakeListedChain(p) \/ EndFork(p)
      PROVE  Goal
  <2>1. /\ ppc' = [ppc EXCEPT ![p] = "idle"]
        /\ asked' = [asked EXCEPT ![p] = p]
        /\ reply' = [reply EXCEPT ![p] = <<>>]
    BY <1>3 DEF TakeListedChain, EndFork
  <2> QED
    BY <2>1 DEF DataTypes
<1>4. ASSUME FailToJoin(p) \/ PollerDies(p)
      PROVE  Goal
  <2>1. /\ \E c \in {"idle", "dead"} : ppc' = [ppc EXCEPT ![p] = c]
        /\ asked' = [asked EXCEPT ![p] = p]
        /\ reply' = reply
    BY <1>4 DEF FailToJoin, PollerDies
  <2> QED
    BY <2>1 DEF DataTypes
<1>5. ASSUME Leave(p)
      PROVE  Goal
  BY <1>5 DEF DataTypes, Leave
<1>6. ASSUME Crash(p)
      PROVE  Goal
  BY <1>6 DEF DataTypes, Crash
<1> HIDE DEF Goal
<1>7. Goal
  BY <1>1, <1>2, <1>3, <1>4, <1>5, <1>6
  DEF ComesOrGoes, StartMining, SendsTo, SendingTo, AbandonFork
<1> QED
  BY <1>7 DEF Goal

LEMMA ComingQueue ==
  ASSUME DataTypes, NEW p \in Peers, ComesOrGoes(p), NEW q \in Peers
  PROVE  /\ submitted'[q] = submitted[q]
         /\ \/ txns'[q] = txns[q] /\ current'[q] = current[q]
            \/ txns'[q] = <<>> /\ current'[q] = <<>>
<1> DEFINE Goal == /\ submitted'[q] = submitted[q]
                   /\ \/ txns'[q] = txns[q] /\ current'[q] = current[q]
                      \/ txns'[q] = <<>> /\ current'[q] = <<>>
<1>1. ASSUME UNCHANGED <<submitted, txns, current>>
      PROVE  Goal
  BY <1>1
<1>3. ASSUME Crash(p)
      PROVE  Goal
  BY <1>3 DEF DataTypes, Crash, MinerDone
<1> HIDE DEF Goal
<1>4. Goal
  BY <1>1, <1>3
  DEF ComesOrGoes, AskListed, TakeListedChain, FailToJoin, StartMining, SendsTo,
      SendingTo, PollerDies, EndFork, AbandonFork, Leave, minerVars
<1> QED
  BY <1>4 DEF Goal

\* Nobody has a connection that it did not have, but for a request.
LEMMA ComingInbox ==
  ASSUME DataTypes, NEW p \in Peers, ComesOrGoes(p), NEW S,
         NEW q \in Peers, inbox[q] \in Seq(Carrying(S))
  PROVE  inbox'[q] \in Seq(Carrying(S))
<1>1. inbox \in [Peers -> Seq(Connection)]
  BY DEF DataTypes
<1>2. CASE inbox' = inbox
  BY <1>2
<1>3. ASSUME NEW r \in Peers, AskListed(p, r)
      PROVE  inbox'[q] \in Seq(Carrying(S))
  <2>1. GetChainMsg(p) \in Carrying(S)
    BY DEF GetChainMsg, Carrying
  <2>2. inbox'[q] = inbox[q] \/ inbox'[q] = Append(inbox[q], GetChainMsg(p))
    BY <1>1, <1>3 DEF AskListed
  <2> QED
    BY <2>1, <2>2, AppendProperties
<1>4. CASE Leave(p)
  <2>1. \/ inbox'[q] = inbox[q]
        \/ \E kept \in {0, 1} : /\ inbox'[q] = SubSeq(inbox[q], 1, kept)
                                /\ kept = 1 => inbox[q] # <<>>
    <3>1. PICK kept \in InHand(p) : inbox' = [inbox EXCEPT ![p] = SubSeq(@, 1, kept)]
      BY <1>4 DEF Leave
    <3>2. kept \in {0, 1} /\ (kept = 1 => inbox[p] # <<>>)
      BY DEF InHand
    <3> QED
      BY <1>1, <3>1, <3>2
  <2>2. ASSUME NEW kept \in {0, 1}, kept = 1 => inbox[q] # <<>>
        PROVE  SubSeq(inbox[q], 1, kept) \in Seq(Carrying(S))
    <3>1. \A i \in 1 .. kept : inbox[q][i] \in Carrying(S)
      BY <2>2, ElementOfSeq, EmptySeq, LenProperties
    <3> QED
      BY <3>1, SubSeqProperties
  <2> QED
    BY <2>1, <2>2
<1>5. CASE Crash(p)
  <2>1. inbox'[q] = <<>> \/ inbox'[q] = WithoutRequest(inbox[q], p)
    BY <1>5 DEF Crash
  <2>2. WithoutRequest(inbox[q], p) \in Seq(Carrying(S))
    BY WithoutRequestSeq
  <2>3. <<>> \in Seq(Carrying(S))
    OBVIOUS
  <2> QED
    BY <2>1, <2>2, <2>3
<1> QED
  BY <1>2, <1>3, <1>4, <1>5
  DEF ComesOrGoes, TakeListedChain, FailToJoin, StartMining, SendsTo, SendingTo,
      PollerDies, EndFork, AbandonFork

LEMMA ComingMail ==
  ASSUME DataTypes, NEW p \in Peers, ComesOrGoes(p), NEW q \in Peers
  PROVE  /\ CutTo(rcv[q], rcv'[q])
         /\ outgoing'[q] = outgoing[q] \/ outgoing'[q] = <<>>
<1> DEFINE Goal == /\ CutTo(rcv[q], rcv'[q])
                   /\ outgoing'[q] = outgoing[q] \/ outgoing'[q] = <<>>
<1>1. ASSUME UNCHANGED <<rcv, outgoing>>
      PROVE  Goal
  BY <1>1 DEF CutTo
<1>2. ASSUME NEW peers \in SUBSET Peers, SendsTo(p, peers)
      PROVE  Goal
  <2>1. rcv' = rcv /\ (outgoing' = outgoing
                       \/ outgoing' = [outgoing EXCEPT ![p] = <<>>])
    BY <1>2, SendsToEffect
  <2> QED
    BY <2>1 DEF DataTypes, CutTo
<1>3. ASSUME Crash(p)
      PROVE  Goal
  <2>1. /\ rcv' = [rcv EXCEPT ![p] = <<>>]
        /\ outgoing' = [outgoing EXCEPT ![p] = <<>>]
    BY <1>3 DEF Crash
  <2> QED
    BY <2>1 DEF DataTypes, CutTo
<1>5. ASSUME Leave(p)
      PROVE  Goal
  <2>1. outgoing' = outgoing
    BY <1>5 DEF Leave, sendVars
  <2>2. CutTo(rcv[q], rcv'[q])
    <3>1. q = p \/ rcv'[q] = rcv[q]
      BY <1>5, LeaveBuffer DEF DataTypes
    <3> QED
      BY <1>5, <3>1, LeaveBuffer DEF CutTo
  <2> QED
    BY <2>1, <2>2
<1>6. ASSUME AbandonFork(p)
      PROVE  Goal
  <2>1. /\ rcv[p] # <<>> /\ rcv' = [rcv EXCEPT ![p] = Tail(@)]
        /\ outgoing' = outgoing
    BY <1>6 DEF AbandonFork, Polling, Popped, sendVars
  <2> QED
    BY <2>1 DEF DataTypes, CutTo
<1> HIDE DEF Goal
<1>4. Goal
  BY <1>1, <1>2, <1>3, <1>5, <1>6
  DEF ComesOrGoes, AskListed, TakeListedChain, FailToJoin, StartMining,
      PollerDies, EndFork, sendVars
<1> QED
  BY <1>4 DEF Goal

LEMMA ComingTraffic ==
  ASSUME DataTypes, NEW p \in Peers, ComesOrGoes(p), NEW S, Traffic(S)
  PROVE  Traffic(S)'
<1> SUFFICES ASSUME NEW q \in Peers
             PROVE  /\ outgoing'[q] \in Seq(S)
                    /\ rcv'[q] \in Seq(S)
                    /\ inbox'[q] \in Seq(Carrying(S))
  BY DEF Traffic, Carrying
<1>1. /\ outgoing[q] \in Seq(S) /\ rcv[q] \in Seq(S)
      /\ inbox[q] \in Seq(Carrying(S))
  BY DEF Traffic
<1>2. inbox'[q] \in Seq(Carrying(S))
  BY <1>1, ComingInbox
<1>3. rcv'[q] \in Seq(S)
  BY <1>1, ComingMail, CutSeq
<1>4. outgoing'[q] = outgoing[q] \/ outgoing'[q] = <<>>
  BY ComingMail
<1>5. <<>> \in Seq(S)
  OBVIOUS
<1> QED
  BY <1>1, <1>2, <1>3, <1>4, <1>5

-----------------------------------------------------------------------------
(***************************************************************************)
(* What PeerNetwork rests on survives that peers come and go.              *)
(***************************************************************************)
LEMMA ComingMinerInv ==
  ASSUME DataTypes, MinerInv, NEW p \in Peers, ComesOrGoes(p)
  PROVE  MinerInv'
<1> SUFFICES ASSUME NEW q \in Peers
             PROVE  /\ mpc'[q] \in {"snapshot", "attempt", "commit"}
                       => current'[q] # <<>>
                    /\ mpc'[q] = "send" => outgoing'[q] # <<>>
  BY DEF MinerInv
<1> QED
  BY ComingMiner DEF MinerInv

LEMMA ComingPending ==
  ASSUME DataTypes, PendingInOrder, NEW p \in Peers, ComesOrGoes(p)
  PROVE  PendingInOrder'
<1> SUFFICES ASSUME NEW q \in Peers, NEW i \in 1 .. Len(Pending(q)')
             PROVE  /\ Pending(q)'[i].sender = q
                    /\ Pending(q)'[i].stamp =
                         submitted'[q] - Len(Pending(q)') + i
  BY DEF PendingInOrder
<1>1. CASE txns'[q] = txns[q] /\ current'[q] = current[q]
  <2>1. Pending(q)' = Pending(q) /\ submitted'[q] = submitted[q]
    BY <1>1, ComingQueue DEF Pending
  <2> QED
    BY <2>1 DEF PendingInOrder
<1>2. CASE txns'[q] = <<>> /\ current'[q] = <<>>
  <2>1. Len(Pending(q)') = 0
    BY <1>2 DEF Pending
  <2> QED
    BY <2>1
<1> QED
  BY <1>1, <1>2, ComingQueue

LEMMA ComingIds ==
  ASSUME DataTypes, life \in [Peers -> Lives], LifeInv, IdsInv, ReplyInv,
         NEW p \in Peers, ComesOrGoes(p)
  PROVE  IdsInv'
<1> SUFFICES ASSUME NEW q \in Peers, NEW i \in 1 .. Len(chain'[q])
             PROVE  chain'[q][i].id = i - 1
  BY DEF IdsInv
<1>1. CASE chain'[q] = chain[q]
  BY <1>1 DEF IdsInv
<1>2. CASE ppc[q] = "served" /\ chain'[q] = reply[q]
  BY <1>2 DEF ReplyInv
<1>3. CASE chain'[q] = <<>>
  BY <1>3
<1> QED
  BY <1>1, <1>2, <1>3, ComingChains

LEMMA ComingSnapshot ==
  ASSUME DataTypes, life \in [Peers -> Lives], LifeInv, SnapshotInv,
         NEW p \in Peers, ComesOrGoes(p)
  PROVE  SnapshotInv'
<1> SUFFICES ASSUME NEW q \in Peers, mpc'[q] \in {"attempt", "commit"}
             PROVE  /\ mineId'[q] <= Len(chain'[q])
                    /\ mineId'[q] = Len(chain'[q])
                       => prevHash'[q] = TipHash(chain'[q])
  BY DEF SnapshotInv
<1>1. /\ mpc[q] \in {"attempt", "commit"}
      /\ mineId'[q] = mineId[q] /\ prevHash'[q] = prevHash[q]
  BY ComingMiner
<1>2. /\ mineId[q] <= Len(chain[q])
      /\ mineId[q] = Len(chain[q]) => prevHash[q] = TipHash(chain[q])
  BY <1>1 DEF SnapshotInv
<1>3. CASE chain'[q] = chain[q]
  BY <1>1, <1>2, <1>3
<1>4. CASE Len(reply[q]) > Len(chain[q]) /\ chain'[q] = reply[q]
  <2>1. PICK m \in Nat, n \in Nat, k \in Nat :
          m = mineId[q] /\ n = Len(chain[q]) /\ k = Len(reply[q])
    BY LenProperties DEF DataTypes
  <2> QED
    BY <1>1, <1>2, <1>4, <2>1
<1>5. ~(mpc'[q] = "idle")
  OBVIOUS
<1> QED
  BY <1>3, <1>4, <1>5, ComingChains DEF Adoptable

LEMMA ComingFirst ==
  ASSUME DataTypes, life \in [Peers -> Lives], LifeInv, FirstInv,
         NEW p \in Peers, ComesOrGoes(p)
  PROVE  FirstInv'
<1>1. Traffic(FirstBlocks)'
  <2>1. PICK S : S = FirstBlocks
    OBVIOUS
  <2>2. Traffic(S)
    BY <2>1 DEF FirstInv
  <2>3. Traffic(S)'
    BY <2>2, ComingTraffic
  <2>4. FirstBlocks' = S
    BY <2>1 DEF FirstBlocks, IsValid, GoodFirst
  <2> QED
    BY <2>3, <2>4 DEF Traffic, Carrying
<1>2. ASSUME NEW q \in Peers, chain'[q] # <<>>
      PROVE  GoodFirst(chain'[q][1]) /\ IsValid(chain'[q][1])
  <2>1. CASE chain'[q] = chain[q]
    BY <1>2, <2>1 DEF FirstInv
  <2>2. CASE ppc[q] = "served" /\ Adoptable(chain[q], reply[q]) /\ chain'[q] = reply[q]
    <3>1. GoodFirst(reply[q][1])
      BY <1>2, <2>2 DEF FirstInv
    <3>2. reply[q] \in Seq(Block) /\ reply[q] # <<>>
      BY <1>2, <2>2 DEF DataTypes
    <3>3. 1 \in 1 .. Len(reply[q])
      BY <3>2, EmptySeq, LenProperties
    <3>4. IsValid(reply[q][1])
      BY <2>2, <3>3 DEF Adoptable, ReplaysFromEmpty
    <3> QED
      BY <2>2, <3>1, <3>4
  <2> QED
    BY <1>2, <2>1, <2>2, ComingChains
<1>3. ASSUME NEW q \in Peers, ppc'[q] = "served", reply'[q] # <<>>
      PROVE  GoodFirst(reply'[q][1])
  BY <1>3, ComingPoller DEF FirstInv
<1> QED
  BY <1>1, <1>2, <1>3 DEF FirstInv, GoodFirst, IsValid

LEMMA ComingReply ==
  ASSUME DataTypes, ReplyInv, NEW p \in Peers, ComesOrGoes(p)
  PROVE  ReplyInv'
<1> SUFFICES ASSUME NEW q \in Peers, ppc'[q] = "served"
             PROVE  /\ \A i \in 1 .. Len(reply'[q]) : reply'[q][i].id = i - 1
                    /\ KeepsChain(asked'[q]) => WellFormed(reply'[q])
  BY DEF ReplyInv, KeepsChain
<1> QED
  BY ComingPoller DEF ReplyInv

LEMMA ComingWellFormed ==
  ASSUME DataTypes, life \in [Peers -> Lives], LifeInv, FirstInv,
         ChainsWellFormed, NEW p \in Peers, ComesOrGoes(p)
  PROVE  ChainsWellFormed'
<1> SUFFICES ASSUME NEW q \in Peers, KeepsChain(q)
             PROVE  WellFormed(chain'[q])
  BY DEF ChainsWellFormed, KeepsChain
<1>1. CASE chain'[q] = chain[q]
  BY <1>1 DEF ChainsWellFormed
<1>2. CASE ppc[q] = "served" /\ Adoptable(chain[q], reply[q]) /\ chain'[q] = reply[q]
  <2>1. reply[q] \in Seq(Block)
    BY DEF DataTypes
  <2>2. reply[q] # <<>> => GoodFirst(reply[q][1])
    BY <1>2 DEF FirstInv
  <2> QED
    BY <1>2, <2>1, <2>2, ReplayedWellFormed DEF Adoptable, GoodFirst
<1>3. CASE chain'[q] = <<>>
  BY <1>3 DEF WellFormed, Linked, PollNamesUnique, VotesFollowTheirPoll
<1> QED
  BY <1>1, <1>2, <1>3, ComingChains

-----------------------------------------------------------------------------
(***************************************************************************)
(* The requests for chains.                                                *)
(***************************************************************************)
\* The connection at i of q is the request of a peer that waits for it.
IsRequest(q, i) == inbox[q][i].type = "GET-CHAIN"

LEMMA RequestOf ==
  ASSUME DataTypes, RequestsInv, NEW q \in Peers, NEW i \in 1 .. Len(inbox[q]),
         IsRequest(q, i)
  PROVE  /\ inbox[q][i].from \in Peers
         /\ ppc[inbox[q][i].from] = "waiting"
         /\ asked[inbox[q][i].from] = q
         /\ \A j \in 1 .. Len(inbox[q]) :
              IsRequest(q, j) /\ inbox[q][j].from = inbox[q][i].from => i = j
BY RequestSender DEF RequestsInv, IsRequest

LEMMA AskListedRequests ==
  ASSUME DataTypes, RequestsInv, NEW p \in Peers, NEW r \in Peers, AskListed(p, r)
  PROVE  RequestsInv'
<1> DEFINE m == GetChainMsg(p)
<1>1. m \in Connection /\ m.type = "GET-CHAIN" /\ m.from = p
  BY DEF GetChainMsg, Connection
<1>2. /\ ppc[p] = "idle"
      /\ inbox' = [inbox EXCEPT ![r] = Append(@, m)]
      /\ ppc' = [ppc EXCEPT ![p] = "waiting"]
      /\ asked' = [asked EXCEPT ![p] = r]
  BY DEF AskListed
<1> HIDE DEF m
<1>3. /\ \A q \in Peers : q # r => inbox'[q] = inbox[q]
      /\ Len(inbox[r]) \in Nat
      /\ Len(inbox'[r]) = Len(inbox[r]) + 1
      /\ \A i \in 1 .. Len(inbox[r]) : inbox'[r][i] = inbox[r][i]
      /\ inbox'[r][Len(inbox[r]) + 1] = m
  BY <1>1, <1>2, InboxGrows
<1>4. /\ ppc'[p] = "waiting" /\ asked'[p] = r
      /\ \A x \in Peers : x # p => ppc'[x] = ppc[x] /\ asked'[x] = asked[x]
  BY <1>2 DEF DataTypes
<1>5. PICK n \in Nat : n = Len(inbox[r])
  BY <1>3
<1>6. ASSUME NEW q \in Peers, NEW i \in 1 .. Len(inbox[q]), IsRequest(q, i)
      PROVE  /\ inbox[q][i].from \in Peers /\ inbox[q][i].from # p
             /\ ppc'[inbox[q][i].from] = "waiting"
             /\ asked'[inbox[q][i].from] = q
             /\ \A j \in 1 .. Len(inbox[q]) :
                  IsRequest(q, j) /\ inbox[q][j].from = inbox[q][i].from => i = j
  BY <1>2, <1>4, <1>6, RequestOf
<1> SUFFICES ASSUME NEW q \in Peers, NEW i \in 1 .. Len(inbox'[q]),
                    inbox'[q][i].type = "GET-CHAIN"
             PROVE  /\ ppc'[inbox'[q][i].from] = "waiting"
                    /\ asked'[inbox'[q][i].from] = q
                    /\ \A j \in 1 .. Len(inbox'[q]) :
                         /\ inbox'[q][j].type = "GET-CHAIN"
                         /\ inbox'[q][j].from = inbox'[q][i].from
                         => i = j
  BY DEF RequestsInv
<1>7. CASE q # r
  <2>1. inbox'[q] = inbox[q]
    BY <1>3, <1>7
  <2> QED
    BY <1>6, <2>1 DEF IsRequest
<1>8. CASE q = r
  <2>1. i \in 1 .. n \/ i = n + 1
    BY <1>3, <1>5, <1>8
  <2>2. ASSUME NEW j \in 1 .. Len(inbox'[r])
        PROVE  j \in 1 .. n \/ j = n + 1
    BY <1>3, <1>5
  <2>3. CASE i \in 1 .. n
    <3>1. inbox'[r][i] = inbox[r][i] /\ IsRequest(r, i)
      BY <1>3, <1>5, <1>8, <2>3 DEF IsRequest
    <3>2. ASSUME NEW j \in 1 .. Len(inbox'[r]), inbox'[r][j].type = "GET-CHAIN",
                 inbox'[r][j].from = inbox'[r][i].from
          PROVE  i = j
      <4>1. CASE j \in 1 .. n
        <5>1. inbox'[r][j] = inbox[r][j] /\ IsRequest(r, j)
          BY <1>3, <1>5, <3>2, <4>1 DEF IsRequest
        <5> QED
          BY <1>5, <1>6, <2>3, <3>1, <3>2, <4>1, <5>1
      <4>2. CASE j = n + 1
        BY <1>1, <1>3, <1>5, <1>6, <2>3, <3>1, <3>2, <4>2
      <4> QED
        BY <2>2, <4>1, <4>2
    <3> QED
      BY <1>5, <1>6, <1>8, <2>3, <3>1, <3>2
  <2>4. CASE i = n + 1
    <3>1. inbox'[r][i] = m
      BY <1>3, <1>5, <2>4
    <3>2. ASSUME NEW j \in 1 .. Len(inbox'[r]), inbox'[r][j].type = "GET-CHAIN",
                 inbox'[r][j].from = inbox'[r][i].from
          PROVE  i = j
      <4>1. CASE j \in 1 .. n
        <5>1. inbox'[r][j] = inbox[r][j] /\ IsRequest(r, j)
          BY <1>3, <1>5, <3>2, <4>1 DEF IsRequest
        <5>2. inbox[r][j].from = p
          BY <1>1, <3>1, <3>2, <5>1
        <5> QED
          BY <1>5, <1>6, <4>1, <5>1, <5>2
      <4> QED
        BY <2>2, <2>4, <4>1
    <3> QED
      BY <1>1, <1>4, <1>8, <3>1, <3>2
  <2> QED
    BY <2>1, <2>3, <2>4
<1> QED
  BY <1>7, <1>8

\* What is in an inbox was in it, each at a place of its own, and the requests
\* are still waited for.
WasAt(at) ==
  \A q \in Peers : \A i \in 1 .. Len(inbox'[q]) :
    /\ at[q][i] \in 1 .. Len(inbox[q])
    /\ inbox'[q][i] = inbox[q][at[q][i]]
    /\ \A j \in 1 .. Len(inbox'[q]) : at[q][i] = at[q][j] => i = j
    /\ IsRequest(q, at[q][i]) =>
         /\ ppc'[inbox[q][at[q][i]].from] = "waiting"
         /\ asked'[inbox[q][at[q][i]].from] = q

LEMMA FewerRequests ==
  ASSUME DataTypes, RequestsInv, NEW at, WasAt(at)
  PROVE  RequestsInv'
<1>4. \A q \in Peers : \A i \in 1 .. Len(inbox'[q]) :
        /\ at[q][i] \in 1 .. Len(inbox[q])
        /\ inbox'[q][i] = inbox[q][at[q][i]]
        /\ \A j \in 1 .. Len(inbox'[q]) : at[q][i] = at[q][j] => i = j
        /\ IsRequest(q, at[q][i]) =>
             /\ ppc'[inbox[q][at[q][i]].from] = "waiting"
             /\ asked'[inbox[q][at[q][i]].from] = q
  BY DEF WasAt
<1> SUFFICES ASSUME NEW q \in Peers, NEW i \in 1 .. Len(inbox'[q]),
                    inbox'[q][i].type = "GET-CHAIN"
             PROVE  /\ ppc'[inbox'[q][i].from] = "waiting"
                    /\ asked'[inbox'[q][i].from] = q
                    /\ \A j \in 1 .. Len(inbox'[q]) :
                         /\ inbox'[q][j].type = "GET-CHAIN"
                         /\ inbox'[q][j].from = inbox'[q][i].from
                         => i = j
  BY DEF RequestsInv
<1>1. PICK k \in 1 .. Len(inbox[q]) : k = at[q][i] /\ inbox'[q][i] = inbox[q][k]
  BY <1>4
<1>0. \A j \in 1 .. Len(inbox'[q]) : at[q][i] = at[q][j] => i = j
  BY <1>4
<1>2. IsRequest(q, k)
  BY <1>1 DEF IsRequest
<1>3. ASSUME NEW j \in 1 .. Len(inbox'[q]), inbox'[q][j].type = "GET-CHAIN",
             inbox'[q][j].from = inbox'[q][i].from
      PROVE  i = j
  <2>1. PICK h \in 1 .. Len(inbox[q]) : h = at[q][j] /\ inbox'[q][j] = inbox[q][h]
    BY <1>4
  <2>2. IsRequest(q, h) /\ inbox[q][h].from = inbox[q][k].from
    BY <1>1, <1>3, <2>1 DEF IsRequest
  <2>3. k = h
    BY <1>2, <2>2, RequestOf
  <2>4. at[q][i] = at[q][j]
    BY <1>1, <2>1, <2>3
  <2> QED
    BY <1>0, <2>4
<1>5. /\ ppc'[inbox[q][k].from] = "waiting"
      /\ asked'[inbox[q][k].from] = q
  BY <1>1, <1>2, <1>4
<1> QED
  BY <1>1, <1>3, <1>5

LEMMA LeaveRequests ==
  ASSUME DataTypes, RequestsInv, NEW p \in Peers, Leave(p)
  PROVE  RequestsInv'
<1> DEFINE at == [q \in Peers |-> [i \in 1 .. Len(inbox'[q]) |-> i]]
<1>1. PICK kept \in InHand(p) :
        /\ inbox' = [inbox EXCEPT ![p] = SubSeq(@, 1, kept)]
        /\ ppc' = [q \in Peers |->
                     IF q \in Cut(p, SubSeq(inbox[p], kept + 1, Len(inbox[p])))
                     THEN "reset" ELSE ppc[q]]
  BY DEF Leave
<1>2. PICK n \in Nat : n = Len(inbox[p])
  BY LenProperties DEF DataTypes
<1>3. kept \in {0, 1} /\ kept <= n
  <2>1. kept = 1 => inbox[p] # <<>>
    BY DEF InHand
  <2> QED
    BY <1>2, <2>1, EmptySeq DEF InHand, DataTypes
<1>4. \A i \in 1 .. n : inbox[p][i] \in Connection
  BY <1>2, ElementOfSeq DEF DataTypes
<1>5. /\ \A q \in Peers : q # p => inbox'[q] = inbox[q]
      /\ Len(inbox'[p]) = kept
      /\ \A i \in 1 .. kept : inbox'[p][i] = inbox[p][i]
  <2>1. \A i \in 1 .. kept : inbox[p][i] \in Connection
    BY <1>3, <1>4
  <2>2. /\ Len(SubSeq(inbox[p], 1, kept)) = IF 1 <= kept THEN kept - 1 + 1 ELSE 0
        /\ \A i \in 1 .. kept - 1 + 1 :
             SubSeq(inbox[p], 1, kept)[i] = inbox[p][1 + i - 1]
    BY <1>3, <2>1, SubSeqProperties
  <2>3. /\ \A q \in Peers : q # p => inbox'[q] = inbox[q]
        /\ inbox'[p] = SubSeq(inbox[p], 1, kept)
    BY <1>1 DEF DataTypes
  <2> QED
    BY <1>3, <2>2, <2>3
<1>6. asked' = asked
  BY DEF Leave
<1>7. ASSUME NEW q \in Peers, NEW i \in 1 .. Len(inbox'[q])
      PROVE  i \in 1 .. Len(inbox[q]) /\ inbox'[q][i] = inbox[q][i]
  <2>1. CASE q = p
    BY <1>2, <1>3, <1>5, <2>1
  <2>2. CASE q # p
    BY <1>5, <2>2
  <2> QED
    BY <2>1, <2>2
<1>8. ASSUME NEW q \in Peers, NEW i \in 1 .. Len(inbox'[q]), IsRequest(q, i)
      PROVE  ppc'[inbox[q][i].from] = "waiting" /\ asked'[inbox[q][i].from] = q
  <2>1. PICK x \in Peers : /\ x = inbox[q][i].from
                           /\ ppc[x] = "waiting" /\ asked[x] = q
    BY <1>7, <1>8, RequestOf
  <2>2. ASSUME x \in Cut(p, SubSeq(inbox[p], kept + 1, Len(inbox[p])))
        PROVE  FALSE
    <3> DEFINE s == SubSeq(inbox[p], kept + 1, n)
    <3>1. \A j \in kept + 1 .. n : inbox[p][j] \in Connection
      BY <1>3, <1>4
    <3>2. /\ s \in Seq(Connection)
          /\ Len(s) = IF kept + 1 <= n THEN n - (kept + 1) + 1 ELSE 0
          /\ \A j \in 1 .. n - (kept + 1) + 1 : s[j] = inbox[p][(kept + 1) + j - 1]
      BY <1>3, <3>1, SubSeqProperties
    <3>3. q = p
      BY <2>1, <2>2 DEF Cut
    <3>4. PICK m \in Range(s) : m.type = "GET-CHAIN" /\ m.from = x
      BY <1>2, <2>2 DEF Cut
    <3> HIDE DEF s
    <3>5. PICK j \in 1 .. Len(s) : m = s[j]
      BY <3>2, <3>4, RangeEquality
    <3>6. PICK h : h = kept + j
      OBVIOUS
    <3>7. h \in 1 .. n /\ h > kept /\ inbox[p][h] = m
      BY <1>3, <3>2, <3>5, <3>6
    <3>8. IsRequest(p, h) /\ inbox[p][h].from = inbox[p][i].from
      BY <2>1, <3>3, <3>4, <3>7 DEF IsRequest
    <3>9. i = h
      BY <1>2, <1>7, <1>8, <3>3, <3>7, <3>8, RequestOf
    <3> QED
      BY <1>3, <1>5, <3>3, <3>7, <3>9
  <2>3. ppc'[x] = "waiting"
    BY <1>1, <2>1, <2>2
  <2> QED
    BY <1>6, <2>1, <2>3
<1>9. \A q \in Peers : \A i \in 1 .. Len(inbox'[q]) :
        /\ at[q][i] \in 1 .. Len(inbox[q])
        /\ inbox'[q][i] = inbox[q][at[q][i]]
        /\ \A j \in 1 .. Len(inbox'[q]) : at[q][i] = at[q][j] => i = j
        /\ IsRequest(q, at[q][i]) =>
             /\ ppc'[inbox[q][at[q][i]].from] = "waiting"
             /\ asked'[inbox[q][at[q][i]].from] = q
  BY <1>7, <1>8
<1> HIDE DEF at
<1> QED
  <2>1. WasAt(at)
    BY <1>9 DEF WasAt
  <2> QED
    BY <2>1, FewerRequests

LEMMA CrashRequests ==
  ASSUME DataTypes, RequestsInv, NEW p \in Peers, Crash(p)
  PROVE  RequestsInv'
<1> DEFINE skip(q) == {k \in 1 .. Len(inbox[q]) :
                        IsRequest(q, k) /\ inbox[q][k].from = p}
           at == [q \in Peers |-> [i \in 1 .. Len(inbox'[q]) |->
                    IF \E k \in skip(q) : k <= i THEN i + 1 ELSE i]]
<1>1. /\ inbox' = [q \in Peers |-> IF q = p THEN <<>>
                                   ELSE WithoutRequest(inbox[q], p)]
      /\ ppc' = [q \in Peers |-> IF q = p THEN "idle"
                                 ELSE IF q \in Cut(p, inbox[p]) THEN "reset"
                                 ELSE ppc[q]]
      /\ asked' = [asked EXCEPT ![p] = p]
  BY DEF Crash
<1>2. ASSUME NEW q \in Peers, NEW k \in skip(q), NEW h \in skip(q)
      PROVE  k = h
  BY RequestOf
<1>3. ASSUME NEW q \in Peers, NEW i \in 1 .. Len(inbox'[q])
      PROVE  /\ q # p
             /\ at[q][i] \in 1 .. Len(inbox[q])
             /\ at[q][i] \notin skip(q)
             /\ inbox'[q][i] = inbox[q][at[q][i]]
             /\ \A j \in 1 .. Len(inbox'[q]) : at[q][i] = at[q][j] => i = j
  <2>1. q # p
    BY <1>1, <1>3
  <2>2. inbox'[q] = WithoutRequest(inbox[q], p)
    BY <1>1, <2>1
  <2>3. inbox[q] \in Seq(Connection)
    BY DEF DataTypes
  <2>4. CASE /\ inbox'[q] = inbox[q]
             /\ \A k \in 1 .. Len(inbox[q]) :
                  ~(inbox[q][k].type = "GET-CHAIN" /\ inbox[q][k].from = p)
    <3>1. skip(q) = {}
      BY <2>4 DEF IsRequest
    <3>2. \A j \in 1 .. Len(inbox'[q]) : at[q][j] = j
      BY <3>1
    <3> HIDE DEF at, skip
    <3> QED
      BY <2>1, <2>4, <3>1, <3>2
  <2>5. ASSUME NEW k \in 1 .. Len(inbox[q]),
               inbox[q][k].type = "GET-CHAIN", inbox[q][k].from = p,
               Len(inbox'[q]) = Len(inbox[q]) - 1,
               \A j \in 1 .. Len(inbox[q]) - 1 :
                 inbox'[q][j] = inbox[q][IF j < k THEN j ELSE j + 1]
        PROVE  /\ at[q][i] \in 1 .. Len(inbox[q])
               /\ at[q][i] \notin skip(q)
               /\ inbox'[q][i] = inbox[q][at[q][i]]
               /\ \A j \in 1 .. Len(inbox'[q]) : at[q][i] = at[q][j] => i = j
    <3>1. k \in skip(q)
      BY <2>5 DEF IsRequest
    <3>2. skip(q) = {k}
      BY <1>2, <3>1
    <3>3. PICK n \in Nat : n = Len(inbox[q])
      BY <2>3, LenProperties
    <3>4. \A j \in 1 .. n - 1 : at[q][j] = IF k <= j THEN j + 1 ELSE j
      BY <2>5, <3>2, <3>3
    <3>5. k \in 1 .. n /\ i \in 1 .. n - 1
      BY <2>5, <3>3
    <3> HIDE DEF at, skip
    <3>6. at[q][i] \in 1 .. n /\ at[q][i] # k
      BY <3>4, <3>5
    <3>7. inbox'[q][i] = inbox[q][at[q][i]]
      <4>1. at[q][i] = IF i < k THEN i ELSE i + 1
        BY <3>4, <3>5
      <4> QED
        BY <2>5, <3>3, <3>5, <4>1
    <3>8. \A j \in 1 .. n - 1 : at[q][i] = at[q][j] => i = j
      BY <3>4, <3>5
    <3> QED
      BY <2>5, <3>2, <3>3, <3>6, <3>7, <3>8
  <2>6. \/ /\ inbox'[q] = inbox[q]
           /\ \A k \in 1 .. Len(inbox[q]) :
                ~(inbox[q][k].type = "GET-CHAIN" /\ inbox[q][k].from = p)
        \/ \E k \in 1 .. Len(inbox[q]) :
             /\ inbox[q][k].type = "GET-CHAIN" /\ inbox[q][k].from = p
             /\ Len(inbox'[q]) = Len(inbox[q]) - 1
             /\ \A j \in 1 .. Len(inbox[q]) - 1 :
                  inbox'[q][j] = inbox[q][IF j < k THEN j ELSE j + 1]
    <3>1. PICK s \in Seq(Connection) : s = inbox[q]
      BY <2>3
    <3>2. PICK w : w = inbox'[q]
      OBVIOUS
    <3>3. w = WithoutRequest(s, p)
      BY <2>2, <3>1, <3>2
    <3>4. \/ /\ w = s
             /\ \A k \in 1 .. Len(s) :
                  ~(s[k].type = "GET-CHAIN" /\ s[k].from = p)
          \/ \E k \in 1 .. Len(s) :
               /\ s[k].type = "GET-CHAIN" /\ s[k].from = p
               /\ Len(w) = Len(s) - 1
               /\ \A j \in 1 .. Len(s) - 1 : w[j] = s[IF j < k THEN j ELSE j + 1]
      BY <3>3, WithoutRequestSeq, SMTT(30)
    <3> QED
      BY <3>1, <3>2, <3>4
  <2> HIDE DEF at, skip
  <2> QED
    BY <2>1, <2>4, <2>5, <2>6
<1> HIDE DEF at, skip
<1>4. ASSUME NEW q \in Peers, NEW i \in 1 .. Len(inbox'[q]),
             IsRequest(q, at[q][i])
      PROVE  /\ ppc'[inbox[q][at[q][i]].from] = "waiting"
             /\ asked'[inbox[q][at[q][i]].from] = q
  <2>1. PICK k \in 1 .. Len(inbox[q]) : k = at[q][i] /\ k \notin skip(q)
    BY <1>3
  <2>2. PICK x \in Peers : /\ x = inbox[q][k].from
                           /\ ppc[x] = "waiting" /\ asked[x] = q
    BY <1>4, <2>1, RequestOf
  <2>3. x # p
    BY <1>4, <2>1, <2>2 DEF skip
  <2>4. x \notin Cut(p, inbox[p])
    BY <1>3, <2>2 DEF Cut
  <2>5. ppc'[x] = "waiting" /\ asked'[x] = q
    BY <1>1, <2>2, <2>3, <2>4 DEF DataTypes
  <2> QED
    BY <2>1, <2>2, <2>5
<1>5. \A q \in Peers : \A i \in 1 .. Len(inbox'[q]) :
        /\ at[q][i] \in 1 .. Len(inbox[q])
        /\ inbox'[q][i] = inbox[q][at[q][i]]
        /\ \A j \in 1 .. Len(inbox'[q]) : at[q][i] = at[q][j] => i = j
        /\ IsRequest(q, at[q][i]) =>
             /\ ppc'[inbox[q][at[q][i]].from] = "waiting"
             /\ asked'[inbox[q][at[q][i]].from] = q
  BY <1>3, <1>4
<1> QED
  <2>1. WasAt(at)
    BY <1>5 DEF WasAt
  <2> QED
    BY <2>1, FewerRequests

LEMMA ComingRequests ==
  ASSUME DataTypes, RequestsInv, NEW p \in Peers, ComesOrGoes(p)
  PROVE  RequestsInv'
<1>1. ASSUME inbox' = inbox, \A q \in Peers : ppc[q] = "waiting" =>
               ppc'[q] = "waiting" /\ asked'[q] = asked[q]
      PROVE  RequestsInv'
  BY <1>1, RequestSender DEF RequestsInv
<1>2. CASE TakeListedChain(p) \/ EndFork(p)
  <2>1. /\ ppc[p] = "served" /\ inbox' = inbox
        /\ ppc' = [ppc EXCEPT ![p] = "idle"]
        /\ asked' = [asked EXCEPT ![p] = p]
    BY <1>2 DEF TakeListedChain, EndFork
  <2> QED
    BY <1>1, <2>1 DEF DataTypes
<1>3. CASE FailToJoin(p) \/ PollerDies(p)
  <2>1. /\ ppc[p] # "waiting" /\ inbox' = inbox
        /\ \E c : ppc' = [ppc EXCEPT ![p] = c]
        /\ asked' = [asked EXCEPT ![p] = p]
    BY <1>3 DEF FailToJoin, PollerDies
  <2> QED
    BY <1>1, <2>1 DEF DataTypes
<1>4. CASE UNCHANGED <<inbox, ppc, asked>>
  BY <1>1, <1>4
<1> QED
  BY <1>2, <1>3, <1>4, AskListedRequests, LeaveRequests, CrashRequests
  DEF ComesOrGoes, StartMining, SendsTo, SendingTo, AbandonFork, pollerVars

-----------------------------------------------------------------------------
(***************************************************************************)
(* The lives of the peers, and their locks.                                *)
(***************************************************************************)
\* What MemberTypeOK and LifeInv have to say of the threads of a peer.
Sane(p) ==
  /\ lock[p] = "poller" <=>
       /\ life[p] \in {"started", "up", "leaving"}
       /\ ppc[p] \in {"asking", "waiting", "served", "reset"}
  /\ lock[p] = "miner" <=> mpc[p] = "send"
  /\ life[p] \in {"out", "joining", "failed", "crashed"} => ppc[p] = "idle"
  /\ life[p] = "asking" => ppc[p] \in {"idle", "waiting", "served", "reset"}
  /\ life[p] \notin {"started", "up", "leaving"} =>
       /\ lock[p] = "free"
       /\ mpc[p] = "idle"
       /\ inbox[p] = <<>>
       /\ rcv[p] = <<>>
  /\ life[p] \in {"out", "joining", "asking"} => told[p] = 0

AllSane == /\ life \in [Peers -> Lives]
           /\ told \in [Peers -> Nat]
           /\ \A p \in Peers : Sane(p)

LEMMA SaneMeaning ==
  ASSUME DataTypes
  PROVE  MemberTypeOK /\ CountTypes /\ LifeInv
           <=> /\ T!TypeOK
               /\ todo \in [Peers -> SUBSET Peers]
               /\ owed \in [Peers -> Nat]
               /\ AllSane
BY DEF DataTypes, MemberTypeOK, CountTypes, LifeInv, AllSane, Sane

LEMMA ThreadTypes ==
  ASSUME DataTypes
  PROVE  /\ lock \in [Peers -> {"free", "miner", "poller"}]
         /\ mpc \in [Peers -> {"idle", "snapshot", "attempt", "commit", "send"}]
         /\ ppc \in [Peers -> {"idle", "asking", "waiting", "served", "reset", "dead"}]
         /\ inbox \in [Peers -> Seq(Connection)]
         /\ rcv \in [Peers -> Seq(Block)]
BY DEF DataTypes

\* What the sanity of a peer depends on.
LEMMA StaysSane ==
  ASSUME NEW p, Sane(p),
         UNCHANGED <<life[p], lock[p], mpc[p], told[p]>>,
         \/ ppc'[p] = ppc[p]
         \/ ppc[p] = "waiting" /\ ppc'[p] \in {"served", "reset"},
         \/ life[p] \in {"started", "up", "leaving"}
         \/ inbox'[p] = inbox[p] /\ rcv'[p] = rcv[p]
  PROVE  Sane(p)'
BY DEF Sane

LEMMA JoinerSane ==
  ASSUME DataTypes, AllSane, NEW p \in Peers, Join(p) \/ Joiner(p)
  PROVE  AllSane'
<1> USE DEF AllSane
<1>1. ASSUME Join(p) \/ ReadList(p) \/ StartThreads(p) \/ StartMining(p)
      PROVE  AllSane'
  <2>1. UNCHANGED <<lock, mpc, told, ppc, inbox, rcv>>
    BY <1>1 DEF Join, ReadList, StartThreads, StartMining, vars, minerVars,
                pollerVars
  <2>2. \/ life[p] = "out" /\ life' = [life EXCEPT ![p] = "joining"]
        \/ life[p] = "joining" /\ life' = [life EXCEPT ![p] = "asking"]
        \/ life[p] = "asking" /\ ppc[p] = "idle"
           /\ life' = [life EXCEPT ![p] = "started"]
        \/ life[p] = "started" /\ life' = [life EXCEPT ![p] = "up"]
    BY <1>1 DEF Join, ReadList, StartThreads, StartMining
  <2>3. life' \in [Peers -> Lives]
    BY <2>2 DEF Lives
  <2>4. ASSUME NEW q \in Peers
        PROVE  Sane(q)'
    BY <2>1, <2>2, ThreadTypes DEF Sane
  <2> QED
    BY <2>1, <2>3, <2>4
<1>2. ASSUME NEW r \in Peers, AskListed(p, r)
      PROVE  AllSane'
  <2>1. /\ life[p] = "asking" /\ ppc[p] = "idle"
        /\ ppc' = [ppc EXCEPT ![p] = "waiting"]
        /\ inbox' = [inbox EXCEPT ![r] = Append(@, GetChainMsg(p))]
        /\ Listening(r)
        /\ UNCHANGED <<lock, mpc, told, life, rcv>>
    BY <1>2 DEF AskListed, minerVars
  <2>2. ASSUME NEW q \in Peers
        PROVE  Sane(q)'
    <3>1. q # r => inbox'[q] = inbox[q]
      BY <2>1 DEF DataTypes
    <3>2. q = p => q # r
      BY <2>1 DEF Listening
    <3>3. ppc'[p] = "waiting" /\ (q # p => ppc'[q] = ppc[q])
      BY <2>1 DEF DataTypes
    <3>4. CASE q = p
      BY <2>1, <3>1, <3>2, <3>3, <3>4, ThreadTypes DEF Sane
    <3>5. CASE q # p
      BY <2>1, <3>1, <3>3, <3>5, StaysSane DEF Listening
    <3> QED
      BY <3>4, <3>5
  <2> QED
    BY <2>1, <2>2
<1>3. ASSUME TakeListedChain(p)
      PROVE  AllSane'
  <2>1. /\ life[p] = "asking" /\ ppc' = [ppc EXCEPT ![p] = "idle"]
        /\ UNCHANGED <<lock, mpc, told, life, rcv, inbox>>
    BY <1>3 DEF TakeListedChain, minerVars, memberVars
  <2>2. ASSUME NEW q \in Peers
        PROVE  Sane(q)'
    <3>1. CASE q # p
      BY <2>1, <3>1, StaysSane, ThreadTypes
    <3>2. CASE q = p
      <4>1. Sane(p) /\ ppc'[p] = "idle"
        BY <2>1 DEF DataTypes
      <4> QED
        BY <2>1, <3>2, <4>1, ThreadTypes DEF Sane
    <3> QED
      BY <3>1, <3>2
  <2> QED
    BY <2>1, <2>2
<1>4. ASSUME FailToJoin(p)
      PROVE  AllSane'
  <2>1. /\ life[p] = "asking" /\ ppc' = [ppc EXCEPT ![p] = "idle"]
        /\ life' = [life EXCEPT ![p] = "failed"]
        /\ UNCHANGED <<lock, mpc, told, rcv, inbox>>
    BY <1>4 DEF FailToJoin, minerVars
  <2>2. ASSUME NEW q \in Peers
        PROVE  Sane(q)'
    BY <2>1, ThreadTypes DEF Sane
  <2>3. life' \in [Peers -> Lives]
    BY <2>1 DEF Lives
  <2> QED
    BY <2>1, <2>2, <2>3
<1> HIDE DEF AllSane
<1> QED
  BY <1>1, <1>2, <1>3, <1>4 DEF Joiner

LEMMA MinerSane ==
  ASSUME DataTypes, AllSane, MinerInv,
         NEW p \in Peers,
         MinesAlone(p) \/ MineBlock(p) \/ AppendLast(p) \/ Broadcasting(p)
  PROVE  AllSane'
<1> USE DEF AllSane
<1>1. ASSUME MinesAlone(p)
      PROVE  AllSane'
  <2>1. /\ Working(p) /\ mpc[p] # "send"
        /\ \E m \in {"idle", "snapshot", "attempt", "commit"} :
             mpc' = [mpc EXCEPT ![p] = m]
        /\ UNCHANGED <<lock, ppc, inbox, rcv, life, told>>
    BY <1>1 DEF MinesAlone, TakeTxn, SnapshotTip, RestartMining, GiveUpRound,
                FindNonce, RefuseBlock, LoseRace, Running, pollerVars, memberVars
  <2>2. ASSUME NEW q \in Peers
        PROVE  Sane(q)'
    <3>1. CASE q # p
      BY <2>1, <3>1, StaysSane, ThreadTypes
    <3>2. CASE q = p
      BY <2>1, <3>2, ThreadTypes DEF Sane, Running
    <3> QED
      BY <3>1, <3>2
  <2> QED
    BY <2>1, <2>2
<1>2. ASSUME MineBlock(p) \/ AppendLast(p)
      PROVE  AllSane'
  <2>0. AppendsBlock(p)
    BY <1>2, OwnBlockAppended DEF MineBlock, AppendLast, AppendsBlock
  <2>1. /\ Working(p) /\ mpc[p] = "commit" /\ lock[p] = "free"
        /\ \/ /\ mpc' = [mpc EXCEPT ![p] = "send"]
              /\ lock' = [lock EXCEPT ![p] = "miner"]
           \/ /\ mpc' = [mpc EXCEPT ![p] = "idle"]
              /\ lock' = lock
        /\ UNCHANGED <<ppc, inbox, rcv, life, told>>
    BY <1>2, <2>0, AppendOwnBlockEffect DEF MineBlock, AppendLast, Running, memberVars
  <2>2. ASSUME NEW q \in Peers
        PROVE  Sane(q)'
    <3>1. CASE q # p
      BY <2>1, <3>1, StaysSane, ThreadTypes
    <3>2. CASE q = p
      BY <2>1, <3>2, ThreadTypes DEF Sane, Running
    <3> QED
      BY <3>1, <3>2
  <2> QED
    BY <2>1, <2>2
<1>3. ASSUME NEW peers, SendsTo(p, peers), UNCHANGED memberVars
      PROVE  AllSane'
  <2>1. /\ mpc[p] = "send"
        /\ \/ /\ mpc' = [mpc EXCEPT ![p] = "idle"]
              /\ lock' = [lock EXCEPT ![p] = "free"]
           \/ mpc' = mpc /\ lock' = lock
        /\ UNCHANGED <<ppc, inbox, rcv, life, told>>
    BY <1>3, SendsToEffect DEF memberVars
  <2>2. ASSUME NEW q \in Peers
        PROVE  Sane(q)'
    <3>1. CASE q # p
      BY <2>1, <3>1, StaysSane, ThreadTypes
    <3>2. CASE q = p
      BY <2>1, <3>2, ThreadTypes DEF Sane
    <3> QED
      BY <3>1, <3>2
  <2> QED
    BY <2>1, <2>2
<1>4. ASSUME NEW r \in Peers, SendNew(p, r)
      PROVE  AllSane'
  <2>1. /\ mpc[p] = "send" /\ Listening(r)
        /\ inbox' = [inbox EXCEPT ![r] =
                       Append(@, BlockMsg(p, Head(outgoing[p])))]
        /\ \/ /\ mpc' = [mpc EXCEPT ![p] = "idle"]
              /\ lock' = [lock EXCEPT ![p] = "free"]
           \/ mpc' = mpc /\ lock' = lock
        /\ UNCHANGED <<ppc, rcv, life>>
    BY <1>4, SendBlockEffect DEF SendNew
  <2>2. /\ told' = [told EXCEPT ![r] = IF @ > Head(outgoing[p]).id THEN @
                                       ELSE Head(outgoing[p]).id + 1]
        /\ Head(outgoing[p]).id \in Nat
    <3>1. outgoing[p] \in Seq(Block) /\ outgoing[p] # <<>>
      BY <1>4 DEF DataTypes, SendNew, SendBlock, MinerInv
    <3>2. Head(outgoing[p]) \in Block
      BY <3>1, HeadTailProperties
    <3> QED
      BY <1>4, <3>2 DEF SendNew, Block
  <2>3. told' \in [Peers -> Nat]
    BY <2>2
  <2>4. ASSUME NEW q \in Peers
        PROVE  Sane(q)'
    <3>1. q # r => inbox'[q] = inbox[q] /\ told'[q] = told[q]
      BY <2>1, <2>2 DEF DataTypes
    <3>2. q = r => life[q] \in {"started", "up"}
      BY <2>1 DEF Listening
    <3>3. /\ lock'[p] = "miner" <=> mpc'[p] = "send"
          /\ lock'[p] = "poller" <=> lock[p] = "poller"
          /\ q # p => lock'[q] = lock[q] /\ mpc'[q] = mpc[q]
      <4>1. lock[p] = "miner" /\ mpc[p] = "send"
        BY <2>1, ThreadTypes DEF Sane
      <4>2. CASE mpc' = mpc /\ lock' = lock
        BY <4>1, <4>2
      <4>3. CASE /\ mpc' = [mpc EXCEPT ![p] = "idle"]
                 /\ lock' = [lock EXCEPT ![p] = "free"]
        BY <4>1, <4>3 DEF DataTypes
      <4> QED
        BY <2>1, <4>2, <4>3
    <3>4. mpc[p] = "send" => life[p] \in {"started", "up", "leaving"}
      BY DEF Sane
    <3> QED
      BY <2>1, <3>1, <3>2, <3>3, <3>4, ThreadTypes DEF Sane
  <2> QED
    BY <2>1, <2>3, <2>4
<1>5. ASSUME LearnWhomToSend(p)
      PROVE  AllSane'
  BY <1>3, <1>5 DEF LearnWhomToSend, SendsTo
<1>6. ASSUME NEW r \in Peers, SkipPeer(p, r)
      PROVE  AllSane'
  BY <1>3, <1>6 DEF SkipPeer, SendsTo
<1> HIDE DEF AllSane
<1> QED
  BY <1>1, <1>2, <1>4, <1>5, <1>6 DEF Broadcasting

LEMMA ListenerSane ==
  ASSUME DataTypes, AllSane, RequestsInv, NEW p \in Peers, MemberListener(p)
  PROVE  AllSane'
<1> USE DEF AllSane
<1>1. ASSUME ReceiveBlock(p)
      PROVE  AllSane'
  <2>1. /\ Running(p)
        /\ \E i, r : /\ inbox' = [inbox EXCEPT ![p] = i]
                     /\ rcv' = [rcv EXCEPT ![p] = r]
        /\ UNCHANGED <<lock, ppc, mpc, life, told>>
    BY <1>1 DEF ReceiveBlock, AcceptBlock, minerVars, pollerVars, memberVars
  <2>2. ASSUME NEW q \in Peers
        PROVE  Sane(q)'
    BY <2>1, ThreadTypes DEF Sane, Running
  <2> QED
    BY <2>1, <2>2
<1>2. ASSUME ServeRequester(p)
      PROVE  AllSane'
  <2>1. PICK x \in Peers : x = Head(inbox[p]).from /\ ppc[x] = "waiting"
    BY <1>2, HeadRequest DEF ServeRequester
  <2>2. /\ life[p] \in {"started", "up", "leaving"}
        /\ inbox' = [inbox EXCEPT ![p] = Tail(@)]
        /\ ppc' = [ppc EXCEPT ![x] = "served"]
        /\ UNCHANGED <<lock, mpc, rcv, life, told>>
    BY <1>2, <2>1 DEF ServeRequester, ServeChain, minerVars, memberVars
  <2>3. ASSUME NEW q \in Peers
        PROVE  Sane(q)'
    <3>1. q # p => inbox'[q] = inbox[q]
      BY <2>2 DEF DataTypes
    <3>2. \/ ppc'[q] = ppc[q]
          \/ ppc[q] = "waiting" /\ ppc'[q] = "served"
      BY <2>1, <2>2 DEF DataTypes
    <3> QED
      BY <2>2, <3>1, <3>2, StaysSane
  <2> QED
    BY <2>2, <2>3
<1> QED
  BY <1>1, <1>2 DEF MemberListener

LEMMA PollerSane ==
  ASSUME DataTypes, AllSane, NEW p \in Peers, MemberPoller(p)
  PROVE  AllSane'
<1> USE DEF AllSane
<1>1. ASSUME Decide(p) \/ AbandonFork(p)
      PROVE  AllSane'
  <2>1. /\ Working(p) /\ rcv' = [rcv EXCEPT ![p] = Tail(@)]
        /\ UNCHANGED <<lock, ppc, mpc, inbox, life, told>>
    BY <1>1 DEF AbandonFork, Decide, DiscardInvalid, AppendReceived, DiscardStale, Popped,
                minerVars, pollerVars, memberVars
  <2>2. ASSUME NEW q \in Peers
        PROVE  Sane(q)'
    BY <2>1, ThreadTypes DEF Sane, Running
  <2> QED
    BY <2>1, <2>2
<1>2. ASSUME FaceFork(p)
      PROVE  AllSane'
  <2>1. /\ Running(p) /\ lock[p] = "free"
        /\ rcv' = [rcv EXCEPT ![p] = Tail(@)]
        /\ lock' = [lock EXCEPT ![p] = "poller"]
        /\ ppc' = [ppc EXCEPT ![p] = "asking"]
        /\ UNCHANGED <<mpc, inbox, life, told>>
    BY <1>2 DEF FaceFork, DetectFork, Popped, minerVars, memberVars
  <2>2. ASSUME NEW q \in Peers
        PROVE  Sane(q)'
    <3>1. CASE q # p
      BY <2>1, <3>1, StaysSane, ThreadTypes
    <3>2. CASE q = p
      BY <2>1, <3>2, ThreadTypes DEF Sane, Running
    <3> QED
      BY <3>1, <3>2
  <2> QED
    BY <2>1, <2>2
<1>3. ASSUME LearnPort(p)
      PROVE  AllSane'
  <2>1. UNCHANGED <<lock, ppc, mpc, inbox, rcv, life, told>>
    BY <1>3 DEF LearnPort, vars, minerVars, pollerVars, memberVars
  <2> QED
    BY <2>1, ThreadTypes DEF Sane
<1>4. ASSUME AskMiner(p)
      PROVE  AllSane'
  <2>1. PICK r \in Peers : r = asked[p]
    BY DEF DataTypes
  <2>2. /\ life[p] \in {"started", "up", "leaving"} /\ ppc[p] = "asking"
        /\ Listening(r)
        /\ inbox' = [inbox EXCEPT ![r] = Append(@, GetChainMsg(p))]
        /\ ppc' = [ppc EXCEPT ![p] = "waiting"]
        /\ UNCHANGED <<lock, mpc, rcv, life, told>>
    BY <1>4, <2>1 DEF AskMiner, AskForChain, Reachable, minerVars, memberVars
  <2>3. ASSUME NEW q \in Peers
        PROVE  Sane(q)'
    <3>1. q # r => inbox'[q] = inbox[q]
      BY <2>2 DEF DataTypes
    <3>2. q = r => life[q] \in {"started", "up"}
      BY <2>2 DEF Listening
    <3>3. CASE q # p
      BY <2>2, <3>1, <3>2, <3>3, StaysSane, ThreadTypes
    <3>4. CASE q = p
      BY <2>2, <3>1, <3>2, <3>4, ThreadTypes DEF Sane
    <3> QED
      BY <3>3, <3>4
  <2> QED
    BY <2>2, <2>3
<1>5. ASSUME PollerDies(p)
      PROVE  AllSane'
  <2>1. /\ life[p] \in {"started", "up", "leaving"}
        /\ ppc[p] \in {"asking", "reset"}
        /\ lock' = [lock EXCEPT ![p] = "free"]
        /\ ppc' = [ppc EXCEPT ![p] = "dead"]
        /\ UNCHANGED <<mpc, inbox, rcv, life, told>>
    BY <1>5 DEF PollerDies, FreeLock, minerVars, memberVars
  <2>2. ASSUME NEW q \in Peers
        PROVE  Sane(q)'
    BY <2>1, ThreadTypes DEF Sane
  <2> QED
    BY <2>1, <2>2
<1>6. ASSUME TakeMinersChain(p) \/ EndFork(p)
      PROVE  AllSane'
  <2>1. /\ life[p] \in {"started", "up", "leaving"} /\ ppc[p] = "served"
        /\ lock' = [lock EXCEPT ![p] = "free"]
        /\ ppc' = [ppc EXCEPT ![p] = "idle"]
        /\ UNCHANGED <<mpc, inbox, rcv, life, told>>
    BY <1>6 DEF TakeMinersChain, FinishFork, EndFork, FreeLock, Running,
                minerVars, memberVars
  <2>2. ASSUME NEW q \in Peers
        PROVE  Sane(q)'
    BY <2>1, ThreadTypes DEF Sane
  <2> QED
    BY <2>1, <2>2
<1> HIDE DEF AllSane
<1> QED
  BY <1>1, <1>2, <1>3, <1>4, <1>5, <1>6 DEF MemberPoller

LEMMA LeaveSane ==
  ASSUME DataTypes, AllSane, NEW p \in Peers, Leave(p)
  PROVE  AllSane'
<1> USE DEF AllSane
<1>1. /\ life[p] = "up" /\ life' = [life EXCEPT ![p] = "leaving"]
      /\ rcv' = [rcv EXCEPT ![p] = rcv'[p]]
      /\ UNCHANGED <<lock, mpc, told>>
  BY LeaveBuffer DEF Leave, minerVars
<1>2. PICK kept :
        /\ inbox' = [inbox EXCEPT ![p] = SubSeq(@, 1, kept)]
        /\ ppc' = [q \in Peers |->
                     IF q \in Cut(p, SubSeq(inbox[p], kept + 1, Len(inbox[p])))
                     THEN "reset" ELSE ppc[q]]
  BY DEF Leave
<1>3. ASSUME NEW q \in Peers
      PROVE  \/ ppc'[q] = ppc[q]
             \/ ppc[q] = "waiting" /\ ppc'[q] = "reset"
  BY <1>2 DEF Cut
<1>4. ASSUME NEW q \in Peers, q # p
      PROVE  Sane(q)'
  <2>1. /\ inbox'[q] = inbox[q] /\ rcv'[q] = rcv[q]
        /\ life'[q] = life[q] /\ mpc'[q] = mpc[q]
    BY <1>1, <1>2, <1>4 DEF DataTypes
  <2> QED
    BY <1>1, <1>3, <2>1, StaysSane
<1>5. Sane(p)'
  <2>1. /\ life'[p] = "leaving"
        /\ mpc'[p] = "send" <=> mpc[p] = "send"
    BY <1>1 DEF DataTypes
  <2>2. Sane(p)
    OBVIOUS
  <2> QED
    BY <1>1, <1>3, <2>1, <2>2 DEF Sane
<1>6. life' \in [Peers -> Lives]
  BY <1>1 DEF Lives
<1> QED
  BY <1>1, <1>4, <1>5, <1>6

LEMMA CrashSane ==
  ASSUME DataTypes, AllSane, NEW p \in Peers, Crash(p)
  PROVE  AllSane'
<1> USE DEF AllSane
<1>1. /\ life' = [life EXCEPT ![p] = "crashed"]
      /\ mpc' = [mpc EXCEPT ![p] = "idle"]
      /\ lock' = [lock EXCEPT ![p] = "free"]
      /\ rcv' = [rcv EXCEPT ![p] = <<>>]
      /\ told' = told
  BY DEF Crash, FreeLock
<1>2. /\ inbox' = [q \in Peers |-> IF q = p THEN <<>>
                                   ELSE WithoutRequest(inbox[q], p)]
      /\ ppc' = [q \in Peers |-> IF q = p THEN "idle"
                                 ELSE IF q \in Cut(p, inbox[p]) THEN "reset"
                                 ELSE ppc[q]]
  BY DEF Crash
<1>3. ASSUME NEW q \in Peers, q # p
      PROVE  Sane(q)'
  <2>1. \/ ppc'[q] = ppc[q]
        \/ ppc[q] = "waiting" /\ ppc'[q] = "reset"
    BY <1>2, <1>3 DEF Cut
  <2>2. /\ life'[q] = life[q] /\ mpc'[q] = mpc[q]
        /\ lock'[q] = lock[q] /\ rcv'[q] = rcv[q]
    BY <1>1, <1>3 DEF DataTypes
  <2>3. inbox[q] = <<>> => inbox'[q] = <<>>
    <3>1. inbox'[q] = WithoutRequest(inbox[q], p)
      BY <1>2, <1>3
    <3>2. WithoutRequest(<<>>, p) = <<>>
      BY DEF WithoutRequest
    <3> QED
      BY <3>1, <3>2
  <2>4. Sane(q)
    OBVIOUS
  <2>5. CASE life[q] \in {"started", "up", "leaving"}
    BY <1>1, <2>1, <2>2, <2>4, <2>5, StaysSane
  <2>6. CASE life[q] \notin {"started", "up", "leaving"}
    <3>1. inbox'[q] = inbox[q]
      BY <2>3, <2>4, <2>6 DEF Sane
    <3> QED
      BY <1>1, <2>1, <2>2, <2>4, <3>1, StaysSane
  <2> QED
    BY <2>5, <2>6
<1>4. Sane(p)'
  <2>1. /\ life'[p] = "crashed" /\ mpc'[p] = "idle" /\ lock'[p] = "free"
        /\ rcv'[p] = <<>> /\ inbox'[p] = <<>> /\ ppc'[p] = "idle"
    BY <1>1, <1>2 DEF DataTypes
  <2> QED
    BY <2>1 DEF Sane
<1>5. life' \in [Peers -> Lives]
  BY <1>1 DEF Lives
<1> QED
  BY <1>1, <1>3, <1>4, <1>5

LEMMA SaneStep ==
  ASSUME DataTypes, AllSane, MinerInv, RequestsInv, [MemberNext]_allVars
  PROVE  AllSane'
<1>1. ASSUME UNCHANGED <<vars, memberVars>>
      PROVE  AllSane'
  BY <1>1 DEF AllSane, Sane, vars, minerVars, pollerVars, memberVars
<1>2. ASSUME NEW p \in Peers, MemberApplication(p)
      PROVE  AllSane'
  <2>1. UNCHANGED <<lock, ppc, mpc, inbox, rcv, life, told>>
    BY <1>2 DEF MemberApplication, Application, CreatePoll, Vote, Submit,
                minerVars, pollerVars, memberVars
  <2> QED
    BY <2>1 DEF AllSane, Sane
<1>3. ASSUME NEW p \in Peers, TrackerThread(p)
      PROVE  AllSane'
  BY <1>1, <1>3 DEF TrackerThread
<1>4. CASE UNCHANGED allVars
  BY <1>1, <1>4 DEF allVars
<1> QED
  BY <1>2, <1>3, <1>4, JoinerSane, MinerSane, ListenerSane, PollerSane,
     LeaveSane, CrashSane
  DEF MemberNext

-----------------------------------------------------------------------------
\* The steps of the tracker keep its types.
TrackerStep ==
  \E p \in Peers :
    \/ T!Join(p)
    \/ \E what \in {"LIST", "GET-PEER"} : T!Ask(p, what)
    \/ T!TakeAnswer(p)
    \/ T!Hangup(p)
    \/ T!Vanish(p)
    \/ \E q \in Peers : T!Serve(p, q)

LEMMA TrackerTypes ==
  ASSUME T!TypeOK, TrackerStep
  PROVE  T!TypeOK'
<1> USE DEF T!TypeOK
<1>1. ASSUME NEW p \in Peers, T!Join(p) \/ T!TakeAnswer(p) \/ T!Hangup(p)
      PROVE  T!TypeOK'
  BY <1>1 DEF T!Join, T!Accepted, T!TakeAnswer, T!Hangup
<1>2. ASSUME NEW p \in Peers, NEW what \in {"LIST", "GET-PEER"}, T!Ask(p, what)
      PROVE  T!TypeOK'
  BY <1>2 DEF T!Ask
<1>3. ASSUME NEW p \in Peers, T!Vanish(p)
      PROVE  T!TypeOK'
  BY <1>3 DEF T!Vanish
<1>4. ASSUME NEW p \in Peers, T!Register(p) \/ T!Deregister(p) \/ T!ThreadDies(p)
      PROVE  T!TypeOK'
  BY <1>4 DEF T!Register, T!Deregister, T!Without, T!ThreadDies
<1>5. ASSUME NEW p \in Peers, NEW peers \in SUBSET Peers, T!Send(p, peers),
             \/ thread' = thread
             \/ thread' = [thread EXCEPT ![p] = "serving"]
      PROVE  T!TypeOK'
  <2>1. link' \in [Peers -> {"none", "open", "closed", "reset"}]
    BY <1>5 DEF T!Send
  <2>2. thread' \in [Peers -> {"none", "new", "listed", "serving", "ended"}]
    BY <1>5
  <2> QED
    BY <1>5, <2>1, <2>2 DEF T!Send
<1>6. ASSUME NEW p \in Peers, T!SendPeers(p)
      PROVE  T!TypeOK'
  BY <1>5, <1>6 DEF T!SendPeers, T!PeersBut
<1>7. ASSUME NEW p \in Peers, NEW q \in Peers, T!SendPort(p, q)
      PROVE  T!TypeOK'
  BY <1>5, <1>7 DEF T!SendPort
<1> HIDE DEF T!TypeOK
<1> QED
  BY <1>1, <1>2, <1>3, <1>4, <1>6, <1>7 DEF TrackerStep, T!Serve

LEMMA MemberTrackerSteps ==
  ASSUME DataTypes, [MemberNext]_allVars
  PROVE  UNCHANGED trackerVars \/ TrackerStep
<1>1. ASSUME NEW p \in Peers, Join(p) \/ Joiner(p)
      PROVE  UNCHANGED trackerVars \/ TrackerStep
  BY <1>1 DEF Join, Joiner, ReadList, AskListed, TakeListedChain, FailToJoin,
              StartThreads, StartMining, TrackerStep
<1>2. ASSUME NEW p \in Peers, \/ MemberApplication(p)
                              \/ MinesAlone(p)
                              \/ MineBlock(p)
                              \/ AppendLast(p)
      PROVE  UNCHANGED trackerVars \/ TrackerStep
  BY <1>2 DEF MemberApplication, MinesAlone, MineBlock, AppendLast, TrackerStep
<1>3. ASSUME NEW p \in Peers, Broadcasting(p) \/ MemberListener(p)
      PROVE  UNCHANGED trackerVars \/ TrackerStep
  BY <1>3 DEF Broadcasting, LearnWhomToSend, SendNew, SkipPeer, MemberListener,
              ReceiveBlock, ServeRequester, TrackerStep
<1>4. ASSUME NEW p \in Peers, MemberPoller(p)
      PROVE  UNCHANGED trackerVars \/ TrackerStep
  BY <1>4 DEF MemberPoller, Decide, FaceFork, AbandonFork, LearnPort, AskMiner,
              PollerDies, TakeMinersChain, EndFork, TrackerStep
<1>5. ASSUME NEW p \in Peers, Leave(p) \/ Crash(p)
      PROVE  UNCHANGED trackerVars \/ TrackerStep
  BY <1>5 DEF Leave, Crash, TrackerStep
<1>6. ASSUME NEW p \in Peers, TrackerThread(p)
      PROVE  UNCHANGED trackerVars \/ TrackerStep
  <2>1. asked[p] \in Peers
    BY DEF DataTypes
  <2> QED
    BY <1>6, <2>1 DEF TrackerThread, TrackerStep
<1>7. CASE UNCHANGED allVars
  BY <1>7 DEF allVars
<1> QED
  BY <1>1, <1>2, <1>3, <1>4, <1>5, <1>6, <1>7 DEF MemberNext

-----------------------------------------------------------------------------
(***************************************************************************)
(* The list of the tracker.                                                *)
(***************************************************************************)
\* What ListInv says of one peer.
Placed(p) ==
  /\ life[p] = "out" => thread[p] = "none" /\ link[p] = "none"
  /\ life[p] = "joining" =>
       <<thread[p], request[p]>> \in {<<"new", "JOIN">>, <<"listed", "JOIN">>,
                                     <<"serving", "answered">>}
  /\ life[p] \in {"joining", "asking", "started", "up"} => link[p] = "open"
  /\ life[p] \in {"asking", "leaving", "failed"} => request[p] = "none"
  /\ life[p] \in {"leaving", "failed"} =>
       link[p] = "closed" /\ thread[p] \in {"serving", "ended"}
  /\ thread[p] \in {"none", "new"} => p \notin active
  /\ thread[p] = "none" => life[p] = "out"
  /\ life[p] \in {"asking", "started", "up"} => thread[p] = "serving"
  /\ thread[p] \in {"listed", "serving"} => p \in active
  /\ thread[p] = "ended" /\ p \in active => life[p] = "crashed"

LEMMA PlacedMeaning ==
  /\ ListInv <=> \A p \in Peers : Placed(p)
  /\ ListInv' <=> \A p \in Peers : Placed(p)'
BY DEF ListInv, ListsTheLiving, TrackerInv, Placed

PlaceTypes == T!TypeOK /\ life \in [Peers -> Lives]

\* A step that touches p alone leaves the others where they are.
LEMMA OthersPlaced ==
  ASSUME PlaceTypes, NEW p \in Peers,
         life' = life \/ \E l : life' = [life EXCEPT ![p] = l],
         thread' = thread \/ \E t : thread' = [thread EXCEPT ![p] = t],
         link' = link \/ \E l : link' = [link EXCEPT ![p] = l],
         request' = request \/ \E r : request' = [request EXCEPT ![p] = r],
         \A q \in Peers : q # p => (q \in active' <=> q \in active),
         NEW q \in Peers, q # p, Placed(q)
  PROVE  Placed(q)'
<1>1. /\ life'[q] = life[q] /\ thread'[q] = thread[q] /\ link'[q] = link[q]
      /\ request'[q] = request[q] /\ (q \in active' <=> q \in active)
  BY DEF PlaceTypes, T!TypeOK
<1> QED
  BY <1>1 DEF Placed

\* Where the tracker and the stages of life are left alone, so are the places.
LEMMA SamePlace ==
  ASSUME ListInv, UNCHANGED <<trackerVars, life>>
  PROVE  ListInv'
BY DEF ListInv, ListsTheLiving, TrackerInv, trackerVars

\* The peer's end: joining, leaving and crashing.
LEMMA ComingPlaced ==
  ASSUME PlaceTypes, ListInv, NEW p \in Peers,
         \/ Join(p) \/ ReadList(p) \/ FailToJoin(p) \/ StartThreads(p)
         \/ StartMining(p) \/ Leave(p) \/ Crash(p)
  PROVE  ListInv'
<1> USE DEF PlaceTypes, T!TypeOK
<1>0. Placed(p)
  BY PlacedMeaning
<1>1. ASSUME Join(p)
      PROVE  /\ life' = [life EXCEPT ![p] = "joining"]
             /\ thread' = [thread EXCEPT ![p] = "new"]
             /\ link' = [link EXCEPT ![p] = "open"]
             /\ request' = [request EXCEPT ![p] = "JOIN"]
             /\ active' = active /\ Placed(p)'
  BY <1>0, <1>1 DEF Join, T!Join, T!Accepted, Placed
<1>2. ASSUME ReadList(p)
      PROVE  /\ life' = [life EXCEPT ![p] = "asking"]
             /\ thread' = thread /\ link' = link /\ active' = active
             /\ request' = [request EXCEPT ![p] = "none"]
             /\ Placed(p)'
  BY <1>0, <1>2 DEF ReadList, T!TakeAnswer, Placed
<1>3. ASSUME FailToJoin(p) \/ Leave(p)
      PROVE  /\ \E l \in {"failed", "leaving"} : life' = [life EXCEPT ![p] = l]
             /\ thread' = thread /\ request' = request /\ active' = active
             /\ link' = [link EXCEPT ![p] = "closed"]
             /\ Placed(p)'
  <2>1. /\ \E l \in {"failed", "leaving"} : life' = [life EXCEPT ![p] = l]
        /\ thread' = thread /\ request' = request /\ active' = active
        /\ link' = [link EXCEPT ![p] = "closed"]
        /\ life[p] \in {"asking", "up"}
        /\ life[p] = "up" => request[p] = "none"
    BY <1>3 DEF FailToJoin, Leave, T!Hangup, Unasked
  <2> QED
    BY <1>0, <2>1 DEF Placed
<1>4. ASSUME StartThreads(p) \/ StartMining(p)
      PROVE  /\ \E l \in {"started", "up"} : life' = [life EXCEPT ![p] = l]
             /\ thread' = thread /\ request' = request /\ active' = active
             /\ link' = link
             /\ Placed(p)'
  <2>1. /\ \E l \in {"started", "up"} : life' = [life EXCEPT ![p] = l]
        /\ thread' = thread /\ request' = request /\ active' = active
        /\ link' = link
        /\ life[p] \in {"asking", "started"}
    BY <1>4 DEF StartThreads, StartMining, trackerVars
  <2> QED
    BY <1>0, <2>1 DEF Placed
<1>5. ASSUME Crash(p)
      PROVE  /\ life' = [life EXCEPT ![p] = "crashed"]
             /\ thread' = thread /\ request' = request /\ active' = active
             /\ \E l : link' = [link EXCEPT ![p] = l]
             /\ Placed(p)'
  BY <1>0, <1>5 DEF Crash, T!Vanish, Placed
<1>6. \A q \in Peers : q # p => Placed(q)
  BY PlacedMeaning
<1>7. Placed(p)' /\ \A q \in Peers : q # p => Placed(q)'
  BY <1>1, <1>2, <1>3, <1>4, <1>5, <1>6, OthersPlaced
<1> QED
  BY <1>7, PlacedMeaning

\* The peer's end: a member asks for the list or a port, and takes the answer.
LEMMA AskingPlaced ==
  ASSUME PlaceTypes, ListInv, NEW p \in Peers, Running(p), life' = life,
         (\E what : T!Ask(p, what)) \/ T!TakeAnswer(p)
  PROVE  ListInv'
<1> USE DEF PlaceTypes, T!TypeOK
<1>1. Placed(p) /\ \A q \in Peers : q # p => Placed(q)
  BY PlacedMeaning
<1>2. /\ thread' = thread /\ link' = link /\ active' = active
      /\ \E r : request' = [request EXCEPT ![p] = r]
  BY DEF T!Ask, T!TakeAnswer
<1>3. Placed(p)'
  BY <1>1, <1>2 DEF Placed, Running
<1>4. \A q \in Peers : q # p => Placed(q)'
  BY <1>1, <1>2, OthersPlaced
<1> QED
  BY <1>3, <1>4, PlacedMeaning

\* The thread of the tracker.
LEMMA ServingPlaced ==
  ASSUME PlaceTypes, ListInv, NEW p \in Peers, NEW q \in Peers, life' = life,
         T!Serve(p, q)
  PROVE  ListInv'
<1> USE DEF PlaceTypes, T!TypeOK
<1>0. Placed(p)
  BY PlacedMeaning
<1>1. ASSUME T!Register(p)
      PROVE  /\ thread' = [thread EXCEPT ![p] = "listed"]
             /\ link' = link /\ request' = request
             /\ active' = active \cup {p} /\ Placed(p)'
  BY <1>0, <1>1 DEF T!Register, Placed
<1>2. ASSUME NEW peers, T!Send(p, peers), thread' = [thread EXCEPT ![p] = "serving"],
             \/ thread[p] = "listed"
             \/ thread[p] = "serving" /\ request[p] \in {"LIST", "GET-PEER"}
      PROVE  /\ \E l : link' = [link EXCEPT ![p] = l]
             /\ request' = [request EXCEPT ![p] = "answered"]
             /\ active' = active /\ Placed(p)'
  <2>1. /\ \E l : link' = [link EXCEPT ![p] = l]
        /\ request'[p] = "answered" /\ active' = active /\ thread'[p] = "serving"
        /\ link[p] # "closed" => link'[p] = link[p]
    BY <1>2 DEF T!Send
  <2>2. life[p] \in {"joining", "started", "up", "crashed"}
    BY <1>0, <1>2 DEF Placed, Lives
  <2>3. Placed(p)'
    BY <1>0, <1>2, <2>1, <2>2 DEF Placed
  <2> QED
    BY <1>2, <2>1, <2>3 DEF T!Send
<1>3. ASSUME T!SendPeers(p)
      PROVE  /\ \E t : thread' = [thread EXCEPT ![p] = t]
             /\ \E l : link' = [link EXCEPT ![p] = l]
             /\ request' = [request EXCEPT ![p] = "answered"]
             /\ active' = active /\ Placed(p)'
  BY <1>2, <1>3 DEF T!SendPeers
<1>4. ASSUME T!SendPort(p, q)
      PROVE  /\ thread' = thread
             /\ \E l : link' = [link EXCEPT ![p] = l]
             /\ request' = [request EXCEPT ![p] = "answered"]
             /\ active' = active /\ Placed(p)'
  <2>1. thread' = [thread EXCEPT ![p] = "serving"] /\ thread' = thread
    BY <1>4 DEF T!SendPort
  <2> QED
    BY <1>2, <1>4, <2>1 DEF T!SendPort
<1>5. ASSUME T!Deregister(p)
      PROVE  /\ thread' = [thread EXCEPT ![p] = "ended"]
             /\ link' = link /\ request' = request
             /\ active' = active \ {p} /\ Placed(p)'
  BY <1>0, <1>5 DEF T!Deregister, T!Without, Placed
<1>6. ASSUME T!ThreadDies(p)
      PROVE  /\ thread' = [thread EXCEPT ![p] = "ended"]
             /\ link' = link /\ request' = request
             /\ active' = active /\ Placed(p)'
  BY <1>0, <1>6 DEF T!ThreadDies, Placed, Lives
<1>7. \A r \in Peers : r # p => Placed(r)
  BY PlacedMeaning
<1>8. Placed(p)' /\ \A r \in Peers : r # p => Placed(r)'
  BY <1>1, <1>3, <1>4, <1>5, <1>6, <1>7, OthersPlaced DEF T!Serve
<1> QED
  BY <1>8, PlacedMeaning

LEMMA ListStep ==
  ASSUME DataTypes, MemberTypeOK, ListInv, [MemberNext]_allVars
  PROVE  ListInv'
<1>0. PlaceTypes
  BY DEF MemberTypeOK, PlaceTypes
<1>1. ASSUME NEW p \in Peers,
             \/ Join(p) \/ ReadList(p) \/ FailToJoin(p) \/ StartThreads(p)
             \/ StartMining(p) \/ Leave(p) \/ Crash(p)
      PROVE  ListInv'
  BY <1>0, <1>1, ComingPlaced
<1>2. ASSUME NEW p \in Peers, \/ \E q \in Peers : AskListed(p, q)
                              \/ TakeListedChain(p)
                              \/ MemberApplication(p)
                              \/ MinesAlone(p)
                              \/ AppendLast(p)
                              \/ MemberListener(p)
      PROVE  ListInv'
  <2>1. UNCHANGED <<trackerVars, life>>
    BY <1>2 DEF AskListed, TakeListedChain, MemberApplication, MinesAlone,
                AppendLast, MemberListener, ReceiveBlock, ServeRequester, memberVars
  <2> QED
    BY <2>1, SamePlace
<1>3. ASSUME NEW p \in Peers, MineBlock(p)
      PROVE  ListInv'
  <2>1. life' = life /\ Running(p)
    BY <1>3 DEF MineBlock, memberVars
  <2>2. UNCHANGED trackerVars \/ T!Ask(p, "LIST")
    BY <1>3 DEF MineBlock
  <2> QED
    BY <1>0, <2>1, <2>2, SamePlace, AskingPlaced
<1>4. ASSUME NEW p \in Peers, Broadcasting(p)
      PROVE  ListInv'
  <2>1. life' = life
    BY <1>4 DEF Broadcasting, LearnWhomToSend, SendNew, SkipPeer, memberVars
  <2>2. \/ UNCHANGED trackerVars
        \/ Running(p) /\ T!TakeAnswer(p)
    BY <1>4 DEF Broadcasting, LearnWhomToSend, SendNew, SkipPeer
  <2> QED
    BY <1>0, <2>1, <2>2, SamePlace, AskingPlaced
<1>5. ASSUME NEW p \in Peers, MemberPoller(p)
      PROVE  ListInv'
  <2>1. life' = life
    BY <1>5 DEF MemberPoller, Decide, FaceFork, AbandonFork, LearnPort, AskMiner,
                PollerDies, TakeMinersChain, EndFork, memberVars
  <2>2. \/ UNCHANGED trackerVars
        \/ Running(p) /\ (T!Ask(p, "GET-PEER") \/ T!TakeAnswer(p))
    BY <1>5 DEF MemberPoller, Decide, FaceFork, AbandonFork, LearnPort, AskMiner,
                PollerDies, TakeMinersChain, EndFork
  <2> QED
    BY <1>0, <2>1, <2>2, SamePlace, AskingPlaced
<1>6. ASSUME NEW p \in Peers, TrackerThread(p)
      PROVE  ListInv'
  <2>1. asked[p] \in Peers /\ life' = life /\ T!Serve(p, asked[p])
    BY <1>6 DEF DataTypes, TrackerThread, memberVars
  <2> QED
    BY <1>0, <2>1, ServingPlaced
<1>7. CASE UNCHANGED allVars
  <2>1. UNCHANGED <<trackerVars, life>>
    BY <1>7 DEF allVars, memberVars
  <2> QED
    BY <2>1, SamePlace
<1> QED
  BY <1>1, <1>2, <1>3, <1>4, <1>5, <1>6, <1>7 DEF MemberNext, Joiner

-----------------------------------------------------------------------------
(***************************************************************************)
(* The invariant.                                                          *)
(***************************************************************************)
LEMMA ListTypes ==
  ASSUME DataTypes, MemberTypeOK, CountTypes, [MemberNext]_allVars
  PROVE  todo' \in [Peers -> SUBSET Peers] /\ owed' \in [Peers -> Nat]
<1> USE DEF CountTypes
<1>1. todo \in [Peers -> SUBSET Peers] /\ answer \in [Peers -> SUBSET Peers]
  BY DEF MemberTypeOK, T!TypeOK
<1>2. ASSUME NEW p \in Peers, ReadList(p)
      PROVE  todo' \in [Peers -> SUBSET Peers] /\ owed' \in [Peers -> Nat]
  <2>1. todo' = [todo EXCEPT ![p] = answer[p]]
    BY <1>2 DEF ReadList
  <2>2. PICK n \in LongestOf({q \in answer[p] : Listening(q)}) :
          owed' = [owed EXCEPT ![p] = n]
    BY <1>2 DEF ReadList
  <2>3. \A q \in Peers : Len(chain[q]) \in Nat
    BY LenProperties DEF DataTypes
  <2>4. n \in Nat
    BY <1>1, <2>2, <2>3 DEF LongestOf
  <2> QED
    BY <1>1, <2>1, <2>2, <2>4
<1>3. ASSUME NEW p \in Peers, \/ \E q \in Peers : AskListed(p, q)
                              \/ FailToJoin(p)
                              \/ Crash(p)
      PROVE  todo' \in [Peers -> SUBSET Peers] /\ owed' \in [Peers -> Nat]
  <2>1. /\ owed' = owed
        /\ \E s \in SUBSET Peers : todo' = [todo EXCEPT ![p] = s]
    BY <1>1, <1>3 DEF AskListed, FailToJoin, Crash
  <2> QED
    BY <1>1, <2>1
<1>4. ASSUME UNCHANGED <<todo, owed>>
      PROVE  todo' \in [Peers -> SUBSET Peers] /\ owed' \in [Peers -> Nat]
  BY <1>1, <1>4
<1>5. ASSUME NEW p \in Peers, \/ Join(p)
                              \/ TakeListedChain(p)
                              \/ StartThreads(p)
                              \/ StartMining(p)
                              \/ MemberApplication(p)
                              \/ MinesAlone(p)
                              \/ MineBlock(p)
                              \/ AppendLast(p)
                              \/ Leave(p)
      PROVE  UNCHANGED <<todo, owed>>
  BY <1>5 DEF Join, TakeListedChain, StartThreads, StartMining,
              MemberApplication, MinesAlone, MineBlock, AppendLast, Leave,
              memberVars
<1>6. ASSUME NEW p \in Peers, \/ Broadcasting(p)
                              \/ MemberListener(p)
                              \/ MemberPoller(p)
                              \/ TrackerThread(p)
      PROVE  UNCHANGED <<todo, owed>>
  BY <1>6 DEF Broadcasting, LearnWhomToSend, SendNew, SkipPeer,
              MemberListener, ReceiveBlock, ServeRequester, MemberPoller,
              Decide, FaceFork, AbandonFork, LearnPort, AskMiner, PollerDies,
              TakeMinersChain, EndFork, TrackerThread, memberVars
<1>7. CASE UNCHANGED allVars
  BY <1>4, <1>7 DEF allVars, memberVars
<1> QED
  BY <1>2, <1>3, <1>4, <1>5, <1>6, <1>7 DEF MemberNext, Joiner

LEMMA MembersInit == MemberInit => MembersInv
<1> SUFFICES ASSUME MemberInit
             PROVE  MembersInv
  OBVIOUS
<1>1. DataTypes
  BY GenesisPrevType, EmptySeq DEF MemberInit, DataTypes
<1>2. T!TypeOK
  BY MembersAssumption DEF MemberInit, T!InitWith, T!TypeOK
<1>3. /\ todo \in [Peers -> SUBSET Peers]
      /\ owed \in [Peers -> Nat]
      /\ AllSane
  BY DEF MemberInit, AllSane, Sane, Lives
<1>4. MemberTypeOK /\ CountTypes /\ LifeInv
  BY <1>1, <1>2, <1>3, SaneMeaning
<1>5. MinerInv /\ IdsInv /\ RequestsInv /\ SnapshotInv /\ ReplyInv
  BY EmptySeq DEF MemberInit, MinerInv, IdsInv, RequestsInv, SnapshotInv, ReplyInv
<1>6. PendingInOrder
  <2>1. \A p \in Peers : Len(Pending(p)) = 0
    <3>1. Len(<<>> \o <<>>) = 0
      OBVIOUS
    <3> QED
      BY <3>1 DEF MemberInit, Pending
  <2> QED
    BY <2>1 DEF PendingInOrder
<1>7. FirstInv
  BY EmptySeq DEF MemberInit, FirstInv, Traffic
<1>8. ChainsWellFormed
  <2>1. WellFormed(<<>>)
    BY DEF WellFormed, Linked, PollNamesUnique, VotesFollowTheirPoll
  <2> QED
    BY <2>1 DEF MemberInit, ChainsWellFormed
<1>9. ListInv
  BY DEF MemberInit, T!InitWith, ListInv, ListsTheLiving, TrackerInv
<1> QED
  BY <1>1, <1>4, <1>5, <1>6, <1>7, <1>8, <1>9 DEF MembersInv, CoreInv

LEMMA MembersStep ==
  ASSUME MembersInv, [MemberNext]_allVars
  PROVE  MembersInv'
<1> USE DEF MembersInv, CoreInv
<1>1. ASSUME [PeersMove]_vars
      PROVE  CoreInv'
  BY <1>1, CoreStep
<1>2. ASSUME NEW p \in Peers, ComesOrGoes(p)
      PROVE  CoreInv'
  <2>1. life \in [Peers -> Lives]
    BY DEF MemberTypeOK
  <2>2. DataTypes' /\ MinerInv' /\ PendingInOrder' /\ RequestsInv'
    BY <1>2, ComingTypes, ComingMinerInv, ComingPending, ComingRequests
  <2>3. IdsInv' /\ SnapshotInv' /\ FirstInv'
    BY <1>2, <2>1, ComingIds, ComingSnapshot, ComingFirst
  <2>4. ReplyInv' /\ ChainsWellFormed'
    BY <1>2, <2>1, ComingReply, ComingWellFormed
  <2> QED
    BY <2>2, <2>3, <2>4
<1>3. CoreInv'
  BY <1>1, <1>2, MemberSteps
<1>4. AllSane'
  BY SaneMeaning, SaneStep
<1>5. T!TypeOK'
  <2>1. T!TypeOK
    BY DEF MemberTypeOK
  <2>2. CASE UNCHANGED trackerVars
    BY <2>1, <2>2 DEF T!TypeOK, trackerVars
  <2>3. CASE TrackerStep
    BY <2>1, <2>3, TrackerTypes
  <2> QED
    BY <2>2, <2>3, MemberTrackerSteps
<1>6. todo' \in [Peers -> SUBSET Peers] /\ owed' \in [Peers -> Nat]
  BY ListTypes
<1>7. MemberTypeOK' /\ CountTypes' /\ LifeInv'
  BY <1>3, <1>4, <1>5, <1>6
  DEF DataTypes, MemberTypeOK, CountTypes, LifeInv, AllSane, Sane
<1>8. ListInv'
  BY ListStep
<1> QED
  BY <1>3, <1>7, <1>8

\* Most of what PeerNetwork rests on survives that peers come and go: the
\* order of a peer's transactions, the requests under way, the links of the
\* chains, and with them what is said of the threads of a peer at each stage
\* of its life.
THEOREM MembersHold == MemberSpec => []MembersInv
<1>1. MemberInit => MembersInv
  BY MembersInit
<1>2. MembersInv /\ [MemberNext]_allVars => MembersInv'
  BY MembersStep
<1> QED
  BY <1>1, <1>2, PTL DEF MemberSpec

\* The variables keep their types, and blockchain_lock is held by the polling
\* thread exactly while it resolves a fork, by the mining thread exactly while
\* it broadcasts: whoever leaves, crashes or is cut off gives it back.
THEOREM MembersTypeCorrect == MemberSpec => []MemberTypeOK
<1>1. MembersInv => MemberTypeOK
  BY DEF MembersInv
<1> QED
  BY <1>1, MembersHold, PTL

\* The chain of a peer stays linked, with no poll twice and no vote before its
\* poll, also while it joins, takes over the chains of others, or leaves.
THEOREM MembersChainsWellFormed == MemberSpec => []ChainsWellFormed
<1>1. MembersInv => ChainsWellFormed
  BY DEF MembersInv, CoreInv
<1> QED
  BY <1>1, MembersHold, PTL

\* The tracker lists who lives: delete_peer finds the peer it takes off, though
\* leaving, failing and crashing cross the requests under way, and only a
\* crash, which ends the thread from outside, leaves a peer on the list.
THEOREM TrackerListsTheLiving == MemberSpec => []ListsTheLiving
<1>1. MembersInv => ListsTheLiving
  BY DEF MembersInv, ListInv
<1> QED
  BY <1>1, MembersHold, PTL

=============================================================================
