-------------------------- MODULE MembershipNews ----------------------------
(***************************************************************************)
(* What Membership promises of chains that travel: a joiner has or will    *)
(* get the longest chain it was offered, a block reaches the peers its     *)
(* miner told of it, and what was settled stays settled and is settled     *)
(* once.  Hence Membership implements OpenLedger.                          *)
(***************************************************************************)
EXTENDS MembershipProofs

USE DEF Working, Begins

-----------------------------------------------------------------------------
(***************************************************************************)
(* What a peer has it keeps as long as it lives.                           *)
(***************************************************************************)
Serving == {"started", "up", "leaving"}

LEMMA LifeSteps ==
  ASSUME MembersInv, [MemberNext]_allVars, NEW p \in Peers
  PROVE  \/ life'[p] = life[p] /\ owed'[p] = owed[p]
         \/ Join(p)
         \/ ReadList(p)
         \/ FailToJoin(p)
         \/ StartThreads(p)
         \/ StartMining(p)
         \/ Leave(p)
         \/ Crash(p)
<1> DEFINE Goal == \/ life'[p] = life[p] /\ owed'[p] = owed[p]
                   \/ Join(p)
                   \/ ReadList(p)
                   \/ FailToJoin(p)
                   \/ StartThreads(p)
                   \/ StartMining(p)
                   \/ Leave(p)
                   \/ Crash(p)
<1>1. ASSUME UNCHANGED <<life, owed>>
      PROVE  Goal
  BY <1>1
<1>2. ASSUME NEW q \in Peers, q # p, \/ Join(q)
                                     \/ ReadList(q)
                                     \/ FailToJoin(q)
                                     \/ StartThreads(q)
                                     \/ StartMining(q)
                                     \/ Leave(q)
                                     \/ Crash(q)
      PROVE  Goal
  <2>1. life \in [Peers -> Lives] /\ owed \in [Peers -> Nat]
    BY DEF MembersInv, CoreInv, MemberTypeOK, CountTypes
  <2>2. /\ \E l \in Lives : life' = [life EXCEPT ![q] = l]
        /\ owed' = owed \/ \E n : owed' = [owed EXCEPT ![q] = n]
    BY <1>2 DEF Join, ReadList, FailToJoin, StartThreads, StartMining, Leave,
                Crash, Lives
  <2> QED
    BY <1>2, <2>1, <2>2
<1>3. ASSUME NEW q \in Peers, \/ \E r \in Peers : AskListed(q, r)
                              \/ TakeListedChain(q)
                              \/ MemberApplication(q)
                              \/ MinesAlone(q)
                              \/ MineBlock(q)
                              \/ AppendLast(q)
                              \/ Broadcasting(q)
      PROVE  UNCHANGED <<life, owed>>
  BY <1>3 DEF AskListed, TakeListedChain, MemberApplication, MinesAlone,
              MineBlock, AppendLast, Broadcasting, LearnWhomToSend, SendNew, SkipPeer,
              memberVars
<1>4. ASSUME NEW q \in Peers, \/ MemberListener(q)
                              \/ MemberPoller(q)
                              \/ TrackerThread(q)
      PROVE  UNCHANGED <<life, owed>>
  BY <1>4 DEF MemberListener, ReceiveBlock, ServeRequester, MemberPoller,
              Decide, FaceFork, AbandonFork, LearnPort, AskMiner, PollerDies,
              TakeMinersChain, EndFork, TrackerThread, memberVars
<1>5. UNCHANGED allVars => UNCHANGED <<life, owed>>
  BY DEF allVars, memberVars
<1>6. ASSUME NEW q \in Peers, \/ Join(q)
                              \/ ReadList(q)
                              \/ FailToJoin(q)
                              \/ StartThreads(q)
                              \/ StartMining(q)
                              \/ Leave(q)
                              \/ Crash(q)
      PROVE  Goal
  BY <1>2, <1>6
<1> HIDE DEF Goal
<1>7. Goal
  BY <1>1, <1>3, <1>4, <1>5, <1>6 DEF MemberNext, Joiner
<1> QED
  BY <1>7 DEF Goal

LEMMA LivesOn ==
  ASSUME MembersInv, [MemberNext]_allVars, NEW p \in Peers
  PROVE  /\ life[p] = "crashed" => life'[p] = "crashed"
         /\ life[p] \in Serving => life'[p] \in Serving \cup {"crashed"}
<1>1. life \in [Peers -> Lives]
  BY DEF MembersInv, CoreInv, MemberTypeOK
<1> QED
  BY <1>1, LifeSteps
  DEF Join, ReadList, FailToJoin, StartThreads, StartMining, Leave, Crash, Serving

\* A chain never gets shorter while its peer lives.
LEMMA ChainsKept ==
  ASSUME MembersInv, [MemberNext]_allVars, NEW p \in Peers,
         life'[p] \notin {"failed", "crashed"}
  PROVE  /\ Len(chain[p]) \in Nat /\ Len(chain'[p]) \in Nat
         /\ Len(chain'[p]) >= Len(chain[p])
<1> USE DEF MembersInv, CoreInv
<1>1. Len(chain[p]) \in Nat /\ Len(chain'[p]) \in Nat
  <2>1. DataTypes'
    BY MembersStep
  <2> QED
    BY <2>1, LenProperties DEF DataTypes
<1>2. CASE [PeersMove]_vars
  BY <1>1, <1>2, ChainsGrow
<1>3. ASSUME NEW q \in Peers, ComesOrGoes(q)
      PROVE  Len(chain'[p]) >= Len(chain[p])
  <2>1. life \in [Peers -> Lives]
    BY DEF MemberTypeOK
  <2>2. chain'[p] = chain[p] \/ Len(chain'[p]) > Len(chain[p])
    BY <1>3, <2>1, ComingChains DEF Adoptable
  <2> QED
    BY <1>1, <2>2
<1> QED
  BY <1>1, <1>2, <1>3, MemberSteps

LEMMA HasForGood ==
  ASSUME MembersInv, [MemberNext]_allVars, NEW p \in Peers, NEW n \in Nat, Has(p, n)
  PROVE  Has(p, n)'
<1>1. CASE life[p] = "crashed"
  BY <1>1, LivesOn DEF Has
<1>2. CASE life[p] \in Serving /\ Len(chain[p]) >= n
  <2>1. life'[p] \in Serving \cup {"crashed"}
    BY <1>2, LivesOn
  <2>2. CASE life'[p] \in Serving
    <3>1. /\ Len(chain[p]) \in Nat /\ Len(chain'[p]) \in Nat
          /\ Len(chain'[p]) >= Len(chain[p])
      BY <2>2, ChainsKept DEF Serving
    <3>2. Len(chain'[p]) >= n
      BY <1>2, <3>1
    <3> QED
      BY <2>2, <3>2 DEF Has, Serving
  <2> QED
    BY <2>1, <2>2 DEF Has
<1> QED
  BY <1>1, <1>2 DEF Has, Serving

LEMMA HasLess ==
  ASSUME MembersInv, NEW p \in Peers, NEW n \in Nat, NEW m \in Nat, m <= n, Has(p, n)
  PROVE  Has(p, m)
<1>1. Len(chain[p]) \in Nat
  BY LenProperties DEF MembersInv, CoreInv, DataTypes
<1> QED
  BY <1>1 DEF Has

-----------------------------------------------------------------------------
(***************************************************************************)
(* Whoever asks for a chain gets one as long as it may expect.             *)
(***************************************************************************)
Alive == {"asking", "started", "up"}

\* What a step of PeerNetwork may do to a thread that waits for a chain.
LEMMA WaitingSteps ==
  ASSUME MembersInv, [PeersMove]_vars, NEW p \in Peers, ppc[p] # "idle"
  PROVE  \/ UNCHANGED <<ppc[p], asked[p], reply[p]>>
         \/ ppc[p] = "asking" /\ ppc'[p] = "waiting" /\ asked'[p] = asked[p]
         \/ /\ ppc[p] = "waiting" /\ ppc'[p] = "served"
            /\ life[asked[p]] \in Serving
            /\ reply'[p] = chain[asked[p]]
         \/ FinishFork(p)
<1> DEFINE Goal == \/ UNCHANGED <<ppc[p], asked[p], reply[p]>>
                   \/ /\ ppc[p] = "asking" /\ ppc'[p] = "waiting"
                      /\ asked'[p] = asked[p]
                   \/ /\ ppc[p] = "waiting" /\ ppc'[p] = "served"
                      /\ life[asked[p]] \in Serving
                      /\ reply'[p] = chain[asked[p]]
                   \/ FinishFork(p)
           Same == UNCHANGED <<ppc, asked, reply>>
<1>0. DataTypes /\ IdsInv /\ RequestsInv /\ LifeInv
  BY DEF MembersInv, CoreInv
<1>1. Same => Goal
  OBVIOUS
<1>2. ASSUME NEW q \in Peers, Application(q)
      PROVE  Same
  BY <1>2 DEF Application, CreatePoll, Vote, Submit, pollerVars
<1>3. ASSUME NEW q \in Peers, MinerMoves(q)
      PROVE  Same
  BY <1>3, SendBlockEffect, AppendOwnBlockEffect
  DEF MinerMoves, TakeTxn, SnapshotTip, RestartMining, GiveUpRound, FindNonce,
      RefuseBlock, LoseRace, pollerVars
<1>4. ASSUME NEW q \in Peers, AcceptBlock(q)
      PROVE  Same
  BY <1>4 DEF AcceptBlock, pollerVars
<1>5. ASSUME NEW q \in Peers, ServeChain(q)
      PROVE  Goal
  <2> DEFINE r == Head(inbox[q]).from
  <2>1. r \in Peers /\ asked[r] = q /\ ppc[r] = "waiting"
    BY <1>0, <1>5, HeadRequest DEF ServeChain
  <2>2. /\ ppc' = [ppc EXCEPT ![r] = "served"]
        /\ reply' = [reply EXCEPT ![r] = ServedChain(chain[q])]
        /\ asked' = asked
    BY <1>5 DEF ServeChain
  <2>3. ServedChain(chain[q]) = chain[q]
    BY <1>0, ServedChainIsChain DEF DataTypes, IdsInv
  <2>4. life[q] \in Serving
    BY <1>0, <1>5 DEF ServeChain, LifeInv, Serving
  <2> HIDE DEF r
  <2> QED
    BY <1>0, <2>1, <2>2, <2>3, <2>4 DEF DataTypes
<1>6. ASSUME NEW q \in Peers, Poller(q), q # p
      PROVE  Goal
  <2>1. CASE Same
    BY <1>1, <2>1
  <2>2. CASE /\ \E c : ppc' = [ppc EXCEPT ![q] = c]
             /\ asked' = asked \/ \E r : asked' = [asked EXCEPT ![q] = r]
             /\ reply' = reply \/ reply' = [reply EXCEPT ![q] = <<>>]
    <3>1. /\ ppc \in [Peers -> PollPhases] /\ asked \in [Peers -> Peers]
          /\ reply \in [Peers -> Seq(Block)]
      BY <1>0 DEF DataTypes, PollPhases
    <3>2. UNCHANGED <<ppc[p], asked[p], reply[p]>>
      BY <1>6, <2>2, <3>1
    <3> QED
      BY <3>2
  <2> HIDE DEF Goal
  <2> QED
    BY <1>6, <2>1, <2>2
    DEF Poller, DiscardInvalid, AppendReceived, DiscardStale, DetectFork,
        AskForChain, FinishFork, pollerVars
<1>7. ASSUME Poller(p)
      PROVE  Goal
  BY <1>0, <1>7 DEF Poller, DiscardInvalid, AppendReceived, DiscardStale,
              DetectFork, Polling, AskForChain, DataTypes, pollerVars
<1>8. ASSUME UNCHANGED vars
       PROVE  Same
  BY <1>8 DEF vars, pollerVars
<1> HIDE DEF Same, Goal
<1>9. Goal
  BY <1>1, <1>2, <1>3, <1>4, <1>5, <1>6, <1>7, <1>8 DEF PeersMove, Listener
<1> QED
  BY <1>9 DEF Goal

\* What comes with joining and leaving may do to it.
LEMMA WaitingComing ==
  ASSUME MembersInv, NEW q \in Peers, ComesOrGoes(q), NEW p \in Peers,
         ppc[p] # "idle", life'[p] \in Alive
  PROVE  \/ UNCHANGED <<ppc[p], asked[p], reply[p]>>
         \/ ppc'[p] \in {"reset", "dead"}
         \/ TakeListedChain(p)
<1> DEFINE Goal == \/ UNCHANGED <<ppc[p], asked[p], reply[p]>>
                   \/ ppc'[p] \in {"reset", "dead"}
                   \/ TakeListedChain(p)
<1>0. DataTypes /\ life \in [Peers -> Lives]
  BY DEF MembersInv, CoreInv, MemberTypeOK
<1>1. ASSUME UNCHANGED pollerVars
      PROVE  Goal
  BY <1>1 DEF pollerVars
<1>2. ASSUME NEW r \in Peers, AskListed(q, r)
      PROVE  Goal
  BY <1>0, <1>2 DEF DataTypes, AskListed
<1>3. ASSUME TakeListedChain(q)
      PROVE  Goal
  BY <1>0, <1>3 DEF DataTypes, TakeListedChain
<1>4. ASSUME EndFork(q)
      PROVE  Goal
  <2>1. p # q
    BY <1>0, <1>4 DEF EndFork, memberVars, Alive
  <2> QED
    BY <1>0, <1>4, <2>1 DEF DataTypes, EndFork
<1>5. ASSUME FailToJoin(q) \/ PollerDies(q)
      PROVE  Goal
  <2>1. reply' = reply /\ asked' = [asked EXCEPT ![q] = q]
    BY <1>5 DEF FailToJoin, PollerDies
  <2>2. CASE FailToJoin(q)
    <3>1. life'[q] = "failed" /\ ppc' = [ppc EXCEPT ![q] = "idle"]
      BY <1>0, <2>2 DEF FailToJoin
    <3>2. p # q
      BY <3>1 DEF Alive
    <3> QED
      BY <1>0, <2>1, <3>1, <3>2 DEF DataTypes
  <2>3. CASE PollerDies(q)
    <3>1. ppc' = [ppc EXCEPT ![q] = "dead"]
      BY <2>3 DEF PollerDies
    <3> QED
      BY <1>0, <2>1, <3>1 DEF DataTypes
  <2> QED
    BY <1>5, <2>2, <2>3
<1>6. ASSUME Leave(q)
      PROVE  Goal
  BY <1>0, <1>6 DEF DataTypes, Leave
<1>7. ASSUME Crash(q)
      PROVE  Goal
  <2>1. p # q
    BY <1>0, <1>7 DEF Crash, Alive
  <2> QED
    BY <1>0, <1>7, <2>1 DEF DataTypes, Crash
<1> HIDE DEF Goal
<1>8. Goal
  BY <1>1, <1>2, <1>3, <1>4, <1>5, <1>6, <1>7
  DEF ComesOrGoes, StartMining, SendsTo, SendingTo, AbandonFork
<1> QED
  BY <1>8 DEF Goal

LEMMA WillGetStep ==
  ASSUME MembersInv, AllKeepChain, [MemberNext]_allVars,
         NEW p \in Peers, life'[p] \in Alive, NEW n \in Nat, WillGet(p, n)
  PROVE  WillGet(p, n)' \/ Len(chain'[p]) >= n
<1> USE DEF MembersInv, CoreInv
<1>1. asked[p] \in Peers /\ reply[p] \in Seq(Block) /\ chain[p] \in Seq(Block)
  BY DEF DataTypes
<1>2. ppc[p] # "idle"
  BY DEF WillGet
<1>3. CASE UNCHANGED <<ppc[p], asked[p], reply[p]>>
  <2>1. PICK q \in Peers : q = asked[p]
    BY <1>1
  <2>2. Has(q, n) => Has(q, n)'
    BY HasForGood
  <2> QED
    BY <1>3, <2>1, <2>2 DEF WillGet, Has
<1>4. CASE ppc[p] = "asking" /\ ppc'[p] = "waiting" /\ asked'[p] = asked[p]
  <2>1. PICK q \in Peers : q = asked[p]
    BY <1>1
  <2>2. Has(q, n)
    BY <1>4, <2>1 DEF WillGet
  <2>3. Has(q, n)'
    BY <2>2, HasForGood
  <2> QED
    BY <1>4, <2>1, <2>3 DEF WillGet, Has
<1>5. CASE /\ ppc[p] = "waiting" /\ ppc'[p] = "served"
           /\ life[asked[p]] \in Serving
           /\ reply'[p] = chain[asked[p]]
  <2>1. Len(chain[asked[p]]) >= n
    BY <1>5 DEF WillGet, Has, Serving
  <2> QED
    BY <1>5, <2>1 DEF WillGet
<1>6. CASE FinishFork(p) \/ TakeListedChain(p)
  <2>1. /\ ppc[p] = "served"
        /\ chain'[p] = IF Adoptable(chain[p], reply[p]) THEN reply[p] ELSE chain[p]
    BY <1>6 DEF FinishFork, TakeListedChain, Better, DataTypes
  <2>2. Len(reply[p]) >= n
    BY <2>1 DEF WillGet
  <2>3. ReplaysFromEmpty(reply[p])
    BY <1>1, <2>1, WellFormedReplays DEF ReplyInv, AllKeepChain
  <2>4. Len(reply[p]) \in Nat /\ Len(chain[p]) \in Nat
    BY <1>1, LenProperties
  <2> QED
    BY <2>1, <2>2, <2>3, <2>4 DEF Adoptable
<1>7. CASE ppc'[p] \in {"reset", "dead"}
  BY <1>7 DEF WillGet
<1>8. CASE [PeersMove]_vars
  BY <1>2, <1>3, <1>4, <1>5, <1>6, <1>8, WaitingSteps
<1>9. CASE \E q \in Peers : ComesOrGoes(q)
  BY <1>2, <1>3, <1>6, <1>7, <1>9, WaitingComing
<1> QED
  BY <1>8, <1>9, MemberSteps

-----------------------------------------------------------------------------
(***************************************************************************)
(* Joining.                                                                *)
(***************************************************************************)
\* A listed peer stays to be asked until it is asked.
LEMMA TodoSteps ==
  ASSUME MembersInv, [MemberNext]_allVars,
         NEW p \in Peers, life[p] = "asking", life'[p] = "asking"
  PROVE  /\ owed'[p] = owed[p]
         /\ \A q \in todo[p] : \/ q \in todo'[p]
                               \/ ppc'[p] = "waiting" /\ asked'[p] = q
<1> DEFINE Goal == \A q \in todo[p] : \/ q \in todo'[p]
                                      \/ ppc'[p] = "waiting" /\ asked'[p] = q
<1>0. /\ life \in [Peers -> Lives] /\ todo \in [Peers -> SUBSET Peers]
      /\ ppc \in [Peers -> PollPhases] /\ asked \in [Peers -> Peers]
  BY DEF MembersInv, CoreInv, MemberTypeOK, DataTypes, PollPhases
<1>1. owed'[p] = owed[p]
  <2>1. ~ \/ Join(p)
          \/ ReadList(p)
          \/ FailToJoin(p)
          \/ StartThreads(p)
          \/ StartMining(p)
          \/ Leave(p)
          \/ Crash(p)
    BY <1>0 DEF Join, ReadList, FailToJoin, StartThreads, StartMining, Leave, Crash
  <2> QED
    BY <2>1, LifeSteps
<1>2. ASSUME NEW r \in Peers, ReadList(r)
      PROVE  Goal
  <2>1. p # r
    BY <1>2 DEF ReadList
  <2> QED
    BY <1>0, <1>2, <2>1 DEF ReadList
<1>3. ASSUME NEW r \in Peers, FailToJoin(r) \/ Crash(r)
      PROVE  Goal
  <2>1. /\ \E l \in {"failed", "crashed"} : life' = [life EXCEPT ![r] = l]
        /\ todo' = [todo EXCEPT ![r] = {}]
    BY <1>3 DEF FailToJoin, Crash
  <2>2. p # r
    BY <1>0, <2>1
  <2> QED
    BY <1>0, <2>1, <2>2
<1>4. ASSUME NEW r \in Peers, NEW s \in Peers, AskListed(r, s)
      PROVE  Goal
  <2>1. /\ todo' = [todo EXCEPT ![r] = @ \ {s}]
        /\ asked' = [asked EXCEPT ![r] = s]
        /\ ppc' = [ppc EXCEPT ![r] = "waiting"]
    BY <1>4 DEF AskListed
  <2> QED
    BY <1>0, <2>1
<1>5. UNCHANGED todo => Goal
  OBVIOUS
<1>6. ASSUME NEW r \in Peers, \/ Join(r)
                              \/ TakeListedChain(r)
                              \/ StartThreads(r)
                              \/ StartMining(r)
                              \/ MemberApplication(r)
                              \/ MinesAlone(r)
                              \/ MineBlock(r)
                              \/ AppendLast(r)
                              \/ Leave(r)
      PROVE  UNCHANGED todo
  BY <1>6 DEF Join, TakeListedChain, StartThreads, StartMining,
              MemberApplication, MinesAlone, MineBlock, AppendLast, Leave, memberVars
<1>7. ASSUME NEW r \in Peers, \/ Broadcasting(r)
                              \/ MemberListener(r)
                              \/ MemberPoller(r)
                              \/ TrackerThread(r)
      PROVE  UNCHANGED todo
  BY <1>7 DEF Broadcasting, LearnWhomToSend, SendNew, SkipPeer,
              MemberListener, ReceiveBlock, ServeRequester, MemberPoller,
              Decide, FaceFork, AbandonFork, LearnPort, AskMiner, PollerDies,
              TakeMinersChain, EndFork, TrackerThread, memberVars
<1>8. UNCHANGED allVars => UNCHANGED todo
  BY DEF allVars, memberVars
<1> HIDE DEF Goal
<1>9. Goal
  BY <1>2, <1>3, <1>4, <1>5, <1>6, <1>7, <1>8 DEF MemberNext, Joiner
<1> QED
  BY <1>1, <1>9 DEF Goal

\* The longest chain on the list is one of a peer that is yet to be asked.
LEMMA ListRead ==
  ASSUME MembersInv, NEW p \in Peers, ReadList(p)
  PROVE  \/ Len(chain'[p]) >= owed'[p]
         \/ \E q \in todo'[p] : Has(q, owed[p])'
<1>0. /\ owed \in [Peers -> Nat] /\ todo \in [Peers -> SUBSET Peers]
      /\ answer \in [Peers -> SUBSET Peers] /\ DataTypes
      /\ life \in [Peers -> Lives]
  BY DEF MembersInv, CoreInv, MemberTypeOK, CountTypes, T!TypeOK
<1>1. PICK n \in LongestOf({q \in answer[p] : Listening(q)}) :
        owed' = [owed EXCEPT ![p] = n]
  BY DEF ReadList
<1>2. owed'[p] = n /\ todo'[p] = answer[p] /\ chain' = chain
  BY <1>0, <1>1 DEF ReadList, vars
<1>3. CASE n = 0
  <2>1. Len(chain[p]) \in Nat
    BY <1>0, LenProperties DEF DataTypes
  <2> QED
    BY <1>2, <1>3, <2>1
<1>4. ASSUME NEW q \in answer[p], Listening(q), n = Len(chain[q])
      PROVE  q \in todo'[p] /\ Has(q, owed[p])'
  <2>1. q \in Peers /\ Len(chain[q]) \in Nat
    BY <1>0, LenProperties DEF DataTypes
  <2>2. life[q] \in {"started", "up"} /\ life[p] = "joining"
    BY <1>4 DEF Listening, ReadList
  <2>3. life'[q] = life[q]
    BY <1>0, <2>1, <2>2 DEF ReadList
  <2>4. Len(chain'[q]) >= owed'[p]
    BY <1>2, <1>4, <2>1
  <2> QED
    BY <1>2, <2>2, <2>3, <2>4 DEF Has
<1> QED
  BY <1>1, <1>3, <1>4 DEF LongestOf

LEMMA JoinInit == MemberInit => JoinInv
<1> SUFFICES ASSUME MemberInit, NEW p \in Peers
             PROVE  life[p] # "asking" /\ Len(chain[p]) >= owed[p]
  BY DEF JoinInv
<1>1. owed[p] = 0 /\ Len(chain[p]) = 0
  BY EmptySeq DEF MemberInit
<1> QED
  BY <1>1 DEF MemberInit

LEMMA JoinStep ==
  ASSUME MembersInv, JoinInv, [MemberNext]_allVars
  PROVE  JoinInv'
<1> SUFFICES ASSUME AllKeepChain, NEW p \in Peers
             PROVE  /\ life'[p] = "asking" =>
                         \/ Len(chain'[p]) >= owed'[p]
                         \/ \E q \in todo'[p] : Has(q, owed[p])'
                         \/ WillGet(p, owed[p])'
                    /\ Running(p)' => Len(chain'[p]) >= owed'[p]
  BY DEF JoinInv, AllKeepChain, KeepsChain, Has, WillGet
<1>0. /\ life \in [Peers -> Lives] /\ owed \in [Peers -> Nat]
      /\ todo \in [Peers -> SUBSET Peers]
  BY DEF MembersInv, CoreInv, MemberTypeOK, CountTypes
<1>1. PICK n \in Nat : n = owed[p]
  BY <1>0
<1>2. life'[p] \in Alive => /\ Len(chain[p]) \in Nat /\ Len(chain'[p]) \in Nat
                            /\ Len(chain'[p]) >= Len(chain[p])
  BY ChainsKept DEF Alive
<1>3. ASSUME life[p] = "asking", life'[p] = "asking"
      PROVE  \/ Len(chain'[p]) >= owed'[p]
             \/ \E q \in todo'[p] : Has(q, owed[p])'
             \/ WillGet(p, owed[p])'
  <2>1. owed'[p] = n
    BY <1>1, <1>3, TodoSteps
  <2>2. CASE Len(chain[p]) >= n
    BY <1>1, <1>2, <1>3, <2>1, <2>2 DEF Alive
  <2>3. ASSUME NEW q \in todo[p], Has(q, n)
        PROVE  (\E r \in todo'[p] : Has(r, n)') \/ WillGet(p, n)'
    <3>1. q \in Peers
      BY <1>0
    <3>2. Has(q, n)'
      BY <1>1, <2>3, <3>1, HasForGood
    <3>3. q \in todo'[p] \/ (ppc'[p] = "waiting" /\ asked'[p] = q)
      BY <1>3, TodoSteps
    <3> QED
      BY <3>2, <3>3 DEF WillGet, Has
  <2>4. ASSUME WillGet(p, n)
        PROVE  WillGet(p, n)' \/ Len(chain'[p]) >= n
    BY <1>1, <1>3, <2>4, WillGetStep DEF Alive
  <2>5. \/ Len(chain[p]) >= n
        \/ \E q \in todo[p] : Has(q, n)
        \/ WillGet(p, n)
    BY <1>1, <1>3 DEF JoinInv
  <2>6. \/ Len(chain'[p]) >= n
        \/ \E q \in todo'[p] : Has(q, n)'
        \/ WillGet(p, n)'
    BY <2>1, <2>2, <2>3, <2>4, <2>5
  <2> QED
    BY <2>1, <2>6 DEF Has, WillGet
<1>4. ASSUME life[p] # "asking", life'[p] = "asking"
      PROVE  \/ Len(chain'[p]) >= owed'[p]
             \/ \E q \in todo'[p] : Has(q, owed[p])'
  <2>1. ReadList(p)
    BY <1>0, <1>4, LifeSteps
    DEF Join, FailToJoin, StartThreads, StartMining, Leave, Crash
  <2> QED
    BY <2>1, ListRead
<1>5. ASSUME Running(p)'
      PROVE  Len(chain'[p]) >= owed'[p]
  <2>0. life'[p] \in {"started", "up"}
    BY <1>5 DEF Running
  <2>1. \/ life[p] \in {"started", "up"}
        \/ StartThreads(p)
    BY <1>0, <2>0, LifeSteps
    DEF Join, ReadList, FailToJoin, StartMining, Leave, Crash
  <2>2. owed'[p] = n
    BY <1>0, <1>1, <2>0, <2>1, LifeSteps
    DEF Join, ReadList, FailToJoin, StartThreads, StartMining, Leave, Crash
  <2>3. CASE Running(p)
    <3>1. Len(chain[p]) >= n
      BY <1>1, <2>3 DEF JoinInv
    <3> QED
      BY <1>1, <1>2, <2>0, <2>2, <3>1 DEF Alive
  <2>4. CASE StartThreads(p)
    <3>1. /\ life[p] = "asking" /\ ppc[p] = "idle" /\ todo[p] = {}
      BY <2>4 DEF StartThreads
    <3>2. Len(chain[p]) >= n
      BY <1>1, <3>1 DEF JoinInv, WillGet
    <3> QED
      BY <1>1, <1>2, <2>0, <2>2, <3>2 DEF Alive
  <2> QED
    BY <2>1, <2>3, <2>4 DEF Running
<1> QED
  BY <1>3, <1>4, <1>5

\* A joining peer (send_join_message) has, will be sent, or can still ask for
\* the longest chain among the peers it was told of, at every step of its join:
\* whoever mines, adopts, leaves or crashes meanwhile.
THEOREM JoinersGetTheLongest == MemberSpec => []JoinInv
<1>1. MemberInit => MembersInv /\ JoinInv
  BY MembersInit, JoinInit
<1>2. MembersInv /\ JoinInv /\ [MemberNext]_allVars => MembersInv' /\ JoinInv'
  BY MembersStep, JoinStep
<1> QED
  BY <1>1, <1>2, PTL DEF MemberSpec

\* A peer that has joined is at least as long as every chain there was when
\* the tracker told it of the peers, though peers mine, adopt chains and join
\* beside it.  A chain that a peer spoils on purpose is not taken over: so no
\* peer does.
THEOREM JoinersCatchUp ==
  ASSUME AllKeepChain
  PROVE  MemberSpec => []JoinerCaughtUp
<1>1. JoinInv => JoinerCaughtUp
  BY DEF JoinInv, JoinerCaughtUp
<1> QED
  BY <1>1, JoinersGetTheLongest, PTL

-----------------------------------------------------------------------------
(***************************************************************************)
(* Being told of a block.                                                  *)
(***************************************************************************)
LEMMA TellSteps ==
  ASSUME MembersInv, [MemberNext]_allVars, NEW p \in Peers
  PROVE  \/ told'[p] = told[p]
         \/ \E r \in Peers : SendNew(r, p)
<1> DEFINE Goal == \/ told'[p] = told[p]
                   \/ \E r \in Peers : SendNew(r, p)
<1>1. ASSUME NEW r \in Peers, NEW q \in Peers, SendNew(r, q)
      PROVE  Goal
  <2>1. told \in [Peers -> Nat] /\ \E n : told' = [told EXCEPT ![q] = n]
    BY <1>1 DEF MembersInv, CoreInv, CountTypes, SendNew
  <2> QED
    BY <1>1, <2>1
<1>2. UNCHANGED told => Goal
  OBVIOUS
<1>3. ASSUME NEW r \in Peers, \/ Join(r)
                              \/ Joiner(r)
                              \/ MemberApplication(r)
                              \/ MinesAlone(r)
                              \/ MineBlock(r)
                              \/ AppendLast(r)
                              \/ LearnWhomToSend(r)
                              \/ \E q \in Peers : SkipPeer(r, q)
                              \/ Leave(r)
                              \/ Crash(r)
      PROVE  UNCHANGED told
  BY <1>3 DEF Join, Joiner, ReadList, AskListed, TakeListedChain, FailToJoin,
              StartThreads, StartMining, MemberApplication, MinesAlone,
              MineBlock, AppendLast, LearnWhomToSend, SkipPeer, Leave, Crash, memberVars
<1>4. ASSUME NEW r \in Peers, \/ MemberListener(r)
                              \/ MemberPoller(r)
                              \/ TrackerThread(r)
      PROVE  UNCHANGED told
  BY <1>4 DEF MemberListener, ReceiveBlock, ServeRequester, MemberPoller,
              Decide, FaceFork, AbandonFork, LearnPort, AskMiner, PollerDies,
              TakeMinersChain, EndFork, TrackerThread, memberVars
<1>5. UNCHANGED allVars => UNCHANGED told
  BY DEF allVars, memberVars
<1> HIDE DEF Goal
<1>6. Goal
  BY <1>1, <1>2, <1>3, <1>4, <1>5 DEF MemberNext, Broadcasting
<1> QED
  BY <1>6 DEF Goal

\* When a peer crashes the blocks on their way to others stay so.
LEMMA BlocksStay ==
  ASSUME NEW S, NEW s \in Seq(S), NEW p, NEW m \in Range(s), m.type = "BLOCK"
  PROVE  m \in Range(WithoutRequest(s, p))
<1> DEFINE w == WithoutRequest(s, p)
<1>1. PICK j \in 1 .. Len(s) : m = s[j]
  BY DEF Range
<1>2. CASE w = s
  BY <1>2
<1>3. ASSUME NEW k \in 1 .. Len(s), s[k].type = "GET-CHAIN",
             Len(w) = Len(s) - 1,
             \A i \in 1 .. Len(s) - 1 : w[i] = s[IF i < k THEN i ELSE i + 1]
      PROVE  m \in Range(w)
  <2>1. PICK n \in Nat : n = Len(s)
    BY LenProperties
  <2>2. j # k
    BY <1>1, <1>3
  <2>3. PICK i \in 1 .. n - 1 : j = IF i < k THEN i ELSE i + 1
    <3>1. CASE j < k
      BY <2>1, <3>1
    <3>2. CASE j > k
      <4>1. j - 1 \in 1 .. n - 1 /\ ~(j - 1 < k) /\ j = (j - 1) + 1
        BY <2>1, <3>2
      <4> QED
        BY <4>1
    <3> QED
      BY <2>2, <3>1, <3>2
  <2>4. w[i] = m
    BY <1>1, <1>3, <2>1, <2>3
  <2>5. w \in Seq(S)
    BY WithoutRequestSeq
  <2>6. i \in 1 .. Len(w)
    BY <1>3, <2>1
  <2> HIDE DEF w
  <2> QED
    BY <2>4, <2>5, <2>6, LenProperties DEF Range
<1> HIDE DEF w
<1> QED
  BY <1>2, <1>3, WithoutRequestSeq DEF w

LEMMA UndecidedComing ==
  ASSUME MembersInv, NEW q \in Peers, ComesOrGoes(q), NEW p \in Peers,
         life'[p] \in Alive, NEW b \in Undecided(p)
  PROVE  b \in Undecided(p)'
<1>0. /\ inbox \in [Peers -> Seq(Connection)] /\ rcv \in [Peers -> Seq(Block)]
      /\ life \in [Peers -> Lives]
  BY DEF MembersInv, CoreInv, DataTypes, MemberTypeOK
<1>1. ASSUME inbox'[p] = inbox[p], rcv'[p] = rcv[p]
      PROVE  b \in Undecided(p)'
  BY <1>1 DEF Undecided
<1>2. ASSUME rcv'[p] = rcv[p],
             \A m \in Range(inbox[p]) : m.type = "BLOCK" => m \in Range(inbox'[p])
      PROVE  b \in Undecided(p)'
  BY <1>2 DEF Undecided
<1>3. ASSUME NEW r \in Peers, AskListed(q, r)
      PROVE  b \in Undecided(p)'
  <2>1. /\ inbox' = [inbox EXCEPT ![r] = Append(@, GetChainMsg(q))]
        /\ rcv' = rcv
    BY <1>3 DEF AskListed
  <2>2. GetChainMsg(q) \in Connection
    BY EmptySeq DEF GetChainMsg, Connection
  <2>3. Range(Append(inbox[p], GetChainMsg(q)))
        = Range(inbox[p]) \cup {GetChainMsg(q)}
    BY <1>0, <2>2, RangeAppend
  <2>4. \A m \in Range(inbox[p]) : m \in Range(inbox'[p])
    BY <1>0, <2>1, <2>3
  <2> QED
    BY <1>2, <2>1, <2>4
<1>4. ASSUME Leave(q)
      PROVE  b \in Undecided(p)'
  <2>1. p # q
    BY <1>0, <1>4 DEF Leave, Alive
  <2>2. inbox'[p] = inbox[p] /\ rcv'[p] = rcv[p]
    BY <1>0, <1>4, <2>1 DEF Leave
  <2> QED
    BY <1>1, <2>2
<1>5. ASSUME Crash(q)
      PROVE  b \in Undecided(p)'
  <2>1. p # q
    BY <1>0, <1>5 DEF Crash, Alive
  <2>2. inbox'[p] = WithoutRequest(inbox[p], q) /\ rcv'[p] = rcv[p]
    BY <1>0, <1>5, <2>1 DEF Crash
  <2>3. \A m \in Range(inbox[p]) : m.type = "BLOCK" => m \in Range(inbox'[p])
    BY <1>0, <2>2, BlocksStay
  <2> QED
    BY <1>2, <2>2, <2>3
<1>6. ASSUME UNCHANGED <<inbox, rcv>>
      PROVE  b \in Undecided(p)'
  BY <1>1, <1>6
<1>7. ASSUME AbandonFork(q)
      PROVE  b \in Undecided(p)'
  <2>1. p # q
    BY <1>0, <1>7 DEF AbandonFork, memberVars, Alive
  <2>2. inbox'[p] = inbox[p] /\ rcv'[p] = rcv[p]
    BY <1>0, <1>7, <2>1 DEF AbandonFork, Popped
  <2> QED
    BY <1>1, <2>2
<1> QED
  BY <1>3, <1>4, <1>5, <1>6, <1>7
  DEF ComesOrGoes, TakeListedChain, FailToJoin, StartMining, SendsTo,
      SendingTo, PollerDies, EndFork

\* What a peer decides on makes it as long as the block is high, or has it
\* ask the block's miner.
LEMMA DecidedNews ==
  ASSUME MembersInv, [MemberNext]_allVars, NEW p \in Peers, Decides(p),
         rcv[p] # <<>>, Head(rcv[p]) \in SentBlocks,
         NEW n \in Nat, Head(rcv[p]).id + 1 >= n
  PROVE  Len(chain'[p]) >= n \/ WillGet(p, n)'
<1> DEFINE b == Head(rcv[p])
           k == Len(chain[p])
<1>0. DataTypes
  BY DEF MembersInv, CoreInv
<1>1. /\ chain[p] \in Seq(Block) /\ k \in Nat /\ b.id \in Nat /\ b \in Block
      /\ b.txn.sender \in Peers /\ IsValid(b) /\ Has(b.txn.sender, b.id + 1)
  BY <1>0, LenProperties DEF DataTypes, SentBlocks, Block, Txn
<1>2. ~DiscardInvalid(p)
  BY <1>1 DEF DiscardInvalid
<1>3. ASSUME AppendReceived(p)
      PROVE  Len(chain'[p]) >= n
  <2>1. b.id = k /\ chain'[p] = Append(chain[p], b)
    BY <1>0, <1>3 DEF AppendReceived, CanAdd, DataTypes
  <2>2. Len(chain'[p]) = b.id + 1
    BY <1>1, <2>1, AppendProperties
  <2> QED
    BY <2>2
<1>4. ASSUME DiscardStale(p)
      PROVE  Len(chain'[p]) >= n
  <2>1. ~(b.id >= k) /\ chain' = chain
    BY <1>4 DEF DiscardStale, IsAhead
  <2>2. b.id + 1 >= n
    OBVIOUS
  <2> HIDE DEF b, k
  <2>3. k >= n
    BY <1>1, <2>1, <2>2
  <2> QED
    BY <2>1, <2>3 DEF k
<1>5. ASSUME DetectFork(p)
      PROVE  WillGet(p, n)'
  <2>1. PICK r \in Peers : r = b.txn.sender
    BY <1>1
  <2>2. PICK m \in Nat : m = b.id + 1
    BY <1>1
  <2>3. Has(r, m) /\ n <= m
    BY <1>1, <2>1, <2>2
  <2>4. Has(r, n)
    BY <2>3, HasLess
  <2>5. Has(r, n)'
    BY <2>4, HasForGood
  <2>6. ppc'[p] = "asking" /\ asked'[p] = r
    BY <1>0, <1>5, <2>1 DEF DetectFork, DataTypes
  <2> QED
    BY <2>5, <2>6 DEF WillGet, Has
<1> QED
  BY <1>2, <1>3, <1>4, <1>5 DEF Decides

LEMMA OwnBlockSent ==
  ASSUME MembersInv, NobodyTampers, [MemberNext]_allVars,
         NEW p \in Peers, AppendsBlock(p)
  PROVE  /\ Outgoing(p) \in Block /\ IsValid(Outgoing(p))
         /\ Outgoing(p).txn.sender = p
         /\ \E n : n = Outgoing(p).id + 1 /\ Has(p, n)'
<1> USE DEF MembersInv, CoreInv
<1>1. /\ current[p] # <<>> /\ mineId[p] = Len(chain[p])
      /\ Head(current[p]).sender = p
  BY AppendOwnBlockAtTip, OwnTxnInHand
<1>2. /\ Outgoing(p) \in Block
      /\ Outgoing(p).id = Len(chain[p])
      /\ Outgoing(p).txn.sender = p
  BY <1>1, OutgoingType
<1>3. IsValid(Outgoing(p))
  <2>1. ~Tampers(p)
    BY DEF NobodyTampers, Tampers
  <2>2. NewBlock(p) \in Block /\ chain[p] \in Seq(Block)
    BY <1>1, NewBlockType DEF DataTypes
  <2>3. Latest(Extended(p)) = NewBlock(p)
    BY <2>1, <2>2, AppendProperties DEF Extended, Latest
  <2> QED
    BY <2>1, <2>3 DEF Outgoing, NewBlock, MinedBlock, IsValid, Digest
<1>4. Len(chain'[p]) = Len(chain[p]) + 1 /\ Len(chain[p]) \in Nat
  BY AppendOwnBlockChain, LenProperties DEF DataTypes
<1>5. life[p] \in Serving
  BY DEF AppendsBlock, AppendBlock, LifeInv, Serving
<1>6. life'[p] \in Serving \cup {"crashed"}
  BY <1>5, LivesOn
<1>7. Len(chain'[p]) >= Len(chain[p]) + 1
  BY <1>4
<1>8. PICK n : n = Outgoing(p).id + 1
  OBVIOUS
<1>9. Has(p, n)'
  BY <1>2, <1>6, <1>7, <1>8 DEF Has, Serving
<1> QED
  BY <1>2, <1>3, <1>8, <1>9

\* What is sent stays to be had from its sender.
LEMMA SentStep ==
  ASSUME MembersInv, NobodyTampers, Traffic(SentBlocks), [MemberNext]_allVars
  PROVE  Traffic(SentBlocks)'
<1> USE DEF MembersInv, CoreInv
<1>1. PICK S : S = SentBlocks'
  OBVIOUS
<1>2. SentBlocks \subseteq S
  <2> SUFFICES ASSUME NEW b \in SentBlocks
               PROVE  b \in SentBlocks'
    BY <1>1
  <2>1. b \in Block /\ IsValid(b) /\ Has(b.txn.sender, b.id + 1)
    BY DEF SentBlocks
  <2>2. b.txn.sender \in Peers /\ b.id + 1 \in Nat
    <3>1. \A c \in Block : c.id \in Nat /\ c.txn.sender \in Peers
      BY DEF Block, Txn
    <3> QED
      BY <2>1, <3>1
  <2>3. PICK r \in Peers, n \in Nat : r = b.txn.sender /\ n = b.id + 1
    BY <2>2
  <2>4. Has(r, n)'
    BY <2>1, <2>3, HasForGood
  <2> QED
    BY <2>1, <2>3, <2>4 DEF SentBlocks
<1>3. Traffic(S)
  <2>1. Seq(SentBlocks) \subseteq Seq(S)
    BY <1>2, SeqMonotonic
  <2>2. Carrying(SentBlocks) \subseteq Carrying(S)
    BY <2>1 DEF Carrying
  <2>3. Seq(Carrying(SentBlocks)) \subseteq Seq(Carrying(S))
    BY <2>2, SeqMonotonic
  <2> QED
    BY <2>1, <2>3 DEF Traffic
<1>4. ASSUME NEW p \in Peers, AppendsBlock(p)
      PROVE  Outgoing(p) \in S
  <2>1. PICK b : b = Outgoing(p)
    OBVIOUS
  <2>2. b \in Block /\ IsValid(b) /\ b.txn.sender = p
    BY <1>4, <2>1, OwnBlockSent
  <2>3. PICK n : n = b.id + 1 /\ Has(p, n)'
    BY <1>4, <2>1, OwnBlockSent
  <2>4. b \in SentBlocks'
    BY <2>2, <2>3 DEF SentBlocks
  <2> QED
    BY <1>1, <2>1, <2>4
<1>5. ASSUME [PeersMove]_vars
      PROVE  Traffic(S)'
  BY <1>3, <1>4, <1>5, TrafficStep
<1>6. ASSUME NEW p \in Peers, ComesOrGoes(p)
      PROVE  Traffic(S)'
  BY <1>3, <1>6, ComingTraffic
<1>7. Traffic(S)'
  BY <1>5, <1>6, MemberSteps
<1> QED
  BY <1>1, <1>7 DEF Traffic

\* A peer that was told of a block still has it coming.
NewsComing(p, n) == \/ Len(chain[p]) >= n
                    \/ \E b \in Undecided(p) : b.id + 1 >= n
                    \/ WillGet(p, n)

LEMMA NewsComingStep ==
  ASSUME MembersInv, NobodyTampers, Traffic(SentBlocks), [MemberNext]_allVars,
         NEW p \in Peers, life'[p] \in Alive, NEW n \in Nat, NewsComing(p, n)
  PROVE  NewsComing(p, n)'
<1> USE DEF MembersInv, CoreInv
<1>1. AllKeepChain
  BY DEF NobodyTampers, AllKeepChain, KeepsChain
<1>2. CASE Len(chain[p]) >= n
  <2>1. /\ Len(chain[p]) \in Nat /\ Len(chain'[p]) \in Nat
        /\ Len(chain'[p]) >= Len(chain[p])
    BY ChainsKept DEF Alive
  <2>2. Len(chain'[p]) >= n
    BY <1>2, <2>1
  <2> QED
    BY <2>2 DEF NewsComing
<1>3. CASE WillGet(p, n)
  BY <1>1, <1>3, WillGetStep DEF NewsComing
<1>4. ASSUME NEW b \in Undecided(p), b.id + 1 >= n
      PROVE  NewsComing(p, n)'
  <2>1. CASE b \in Undecided(p)'
    BY <1>4, <2>1 DEF NewsComing
  <2>2. ASSUME Decides(p), rcv[p] # <<>>, b = Head(rcv[p])
        PROVE  NewsComing(p, n)'
    <3>1. rcv[p] \in Seq(SentBlocks)
      BY DEF Traffic
    <3>2. Head(rcv[p]) \in SentBlocks
      BY <2>2, <3>1, HeadTailProperties
    <3>3. Len(chain'[p]) >= n \/ WillGet(p, n)'
      BY <1>4, <2>2, <3>2, DecidedNews
    <3> QED
      BY <3>3 DEF NewsComing
  <2>3. CASE [PeersMove]_vars
    BY <2>1, <2>2, <2>3, UndecidedSteps
  <2>4. CASE \E q \in Peers : ComesOrGoes(q)
    BY <2>1, <2>4, UndecidedComing
  <2> QED
    BY <2>3, <2>4, MemberSteps
<1> QED
  BY <1>2, <1>3, <1>4 DEF NewsComing

\* The one that is told has the block to decide on.
LEMMA ToldOfBlock ==
  ASSUME MembersInv, NEW r \in Peers, NEW p \in Peers, SendNew(r, p),
         told'[p] # told[p]
  PROVE  \E b \in Undecided(p)' : b.id + 1 >= told'[p]
<1> USE DEF MembersInv, CoreInv
<1> DEFINE b == Head(outgoing[r])
           m == BlockMsg(r, b)
<1>1. /\ mpc[r] = "send"
      /\ inbox' = [inbox EXCEPT ![p] = Append(@, m)]
  BY SendBlockEffect DEF SendNew
<1>2. b \in Block /\ b.id \in Nat
  <2>1. outgoing[r] # <<>> /\ outgoing[r] \in Seq(Block)
    BY <1>1 DEF MinerInv, DataTypes
  <2>2. b \in Block
    BY <2>1, HeadTailProperties
  <2> HIDE DEF b
  <2> QED
    BY <2>2 DEF Block
<1>3. told'[p] = b.id + 1
  BY DEF SendNew, CountTypes
<1>4. m \in Connection /\ m.type = "BLOCK" /\ m.payload = <<b>>
  <2> HIDE DEF b
  <2> QED
    BY <1>2 DEF BlockMsg, Connection
<1>5. b \in Range(m.payload)
  <2> HIDE DEF b
  <2> QED
    BY <1>4 DEF Range
<1> HIDE DEF b, m
<1>6. m \in Range(inbox'[p])
  <2>1. inbox[p] \in Seq(Connection) /\ inbox'[p] = Append(inbox[p], m)
    BY <1>1 DEF DataTypes
  <2>2. Range(Append(inbox[p], m)) = Range(inbox[p]) \cup {m}
    BY <1>4, <2>1, RangeAppend
  <2> QED
    BY <2>1, <2>2
<1>7. b \in Undecided(p)'
  BY <1>4, <1>5, <1>6 DEF Undecided
<1>8. b.id + 1 >= told'[p]
  BY <1>2, <1>3
<1> QED
  BY <1>7, <1>8

LEMMA ToldInit == MemberInit => ToldInv
<1> SUFFICES ASSUME MemberInit
             PROVE  /\ Traffic(SentBlocks)
                    /\ \A p \in Peers : Len(chain[p]) >= told[p]
  BY DEF ToldInv
<1>1. \A p \in Peers : outgoing[p] = <<>> /\ rcv[p] = <<>> /\ inbox[p] = <<>>
  BY DEF MemberInit
<1>2. Traffic(SentBlocks)
  BY <1>1, EmptySeq DEF Traffic
<1>3. \A p \in Peers : told[p] = 0 /\ Len(chain[p]) = 0
  BY EmptySeq DEF MemberInit
<1> QED
  BY <1>2, <1>3

LEMMA ToldStep ==
  ASSUME MembersInv, ToldInv, [MemberNext]_allVars
  PROVE  ToldInv'
<1> SUFFICES ASSUME NobodyTampers
             PROVE  /\ Traffic(SentBlocks)'
                    /\ \A p \in Peers : Running(p)' => NewsComing(p, told[p])'
  BY DEF ToldInv, NobodyTampers, NewsComing
<1>1. /\ Traffic(SentBlocks)
      /\ \A p \in Peers : Running(p) => NewsComing(p, told[p])
  BY DEF ToldInv, NewsComing
<1>2. Traffic(SentBlocks)'
  BY <1>1, SentStep
<1>3. ASSUME NEW p \in Peers, Running(p)'
      PROVE  NewsComing(p, told[p])'
  <2>0. /\ life \in [Peers -> Lives] /\ told \in [Peers -> Nat]
        /\ life'[p] \in {"started", "up"}
    BY <1>3 DEF MembersInv, CoreInv, MemberTypeOK, CountTypes, Running
  <2>1. PICK n \in Nat : n = told[p]
    BY <2>0
  <2>2. Running(p) \/ StartThreads(p)
    BY <2>0, LifeSteps
    DEF Join, ReadList, FailToJoin, StartMining, Leave, Crash, Running
  <2>3. CASE told'[p] # told[p]
    <3>1. \E b \in Undecided(p)' : b.id + 1 >= told'[p]
      BY <2>3, TellSteps, ToldOfBlock
    <3> QED
      BY <3>1 DEF NewsComing
  <2>4. CASE told'[p] = told[p] /\ Running(p)
    <3>1. NewsComing(p, n)
      BY <1>1, <2>1, <2>4
    <3>2. NewsComing(p, n)'
      BY <1>1, <2>0, <3>1, NewsComingStep DEF Alive
    <3>3. told'[p] = n
      BY <2>1, <2>4
    <3> QED
      BY <3>2, <3>3 DEF NewsComing, WillGet, Has
  <2>5. CASE told'[p] = told[p] /\ StartThreads(p)
    <3>1. told'[p] = 0
      BY <2>5 DEF StartThreads, MembersInv, CoreInv, LifeInv
    <3>2. Len(chain'[p]) \in Nat
      BY <2>0, ChainsKept
    <3> QED
      BY <3>1, <3>2 DEF NewsComing
  <2> QED
    BY <2>2, <2>3, <2>4, <2>5
<1> QED
  BY <1>2, <1>3

\* A member that was sent a block (broadcast_block_to_all_peers) has a chain as
\* long as the block's, has the block still to look at, or asks a peer that has
\* such a chain; and every block under way is one whose miner has its chain.
THEOREM NewsIsNotLost == MemberSpec => []ToldInv
<1>1. MemberInit => MembersInv /\ ToldInv
  BY MembersInit, ToldInit
<1>2. MembersInv /\ ToldInv /\ [MemberNext]_allVars => MembersInv' /\ ToldInv'
  BY MembersStep, ToldStep
<1> QED
  BY <1>1, <1>2, PTL DEF MemberSpec

\* A block that reached a member is never without effect: once the member has
\* nothing left to decide its chain is as long as the highest block it was
\* sent, whoever joined, left or crashed meanwhile.  Blocks that are tampered
\* with are not kept: so none is.
THEOREM NewsSettles ==
  ASSUME NobodyTampers
  PROVE  MemberSpec => []NewsSettled
<1>1. ToldInv => NewsSettled
  <2> SUFFICES ASSUME ToldInv, NEW p \in Peers, Running(p), ppc[p] = "idle",
                      rcv[p] = <<>>, \A m \in Range(inbox[p]) : m.type # "BLOCK"
               PROVE  Len(chain[p]) >= told[p]
    BY DEF NewsSettled
  <2>1. \/ Len(chain[p]) >= told[p]
        \/ \E b \in Undecided(p) : b.id + 1 >= told[p]
        \/ WillGet(p, told[p])
    BY DEF ToldInv
  <2>2. ~WillGet(p, told[p])
    BY DEF WillGet
  <2>3. Range(rcv[p]) = {}
    BY EmptySeq DEF Range
  <2>4. Undecided(p) = {}
    BY <2>3 DEF Undecided
  <2> QED
    BY <2>1, <2>2, <2>4
<1> QED
  BY <1>1, NewsIsNotLost, PTL

-----------------------------------------------------------------------------
(***************************************************************************)
(* What was settled stays settled when peers come and go.                  *)
(***************************************************************************)
LEMMA SubmitterUp ==
  ASSUME DataTypes, [MemberNext]_allVars, NEW p \in Peers,
         submitted'[p] # submitted[p]
  PROVE  life[p] = "up"
<1>1. ASSUME NEW q \in Peers, MemberApplication(q)
      PROVE  life[p] = "up"
  <2>1. life[q] = "up" /\ submitted' = [submitted EXCEPT ![q] = @ + 1]
    BY <1>1, SubmitsOnce DEF MemberApplication
  <2>2. p = q
    BY <2>1 DEF DataTypes
  <2> QED
    BY <2>1, <2>2
<1>2. CASE submitted' = submitted
  BY <1>2
<1>3. ASSUME NEW q \in Peers, \/ MinesAlone(q) \/ MineBlock(q)
                              \/ AppendLast(q) \/ Broadcasting(q)
      PROVE  submitted' = submitted
  <2>1. MinerMoves(q) \/ submitted' = submitted
    BY <1>3, OwnBlockAppended
    DEF MinesAlone, MineBlock, AppendLast, AppendsBlock, Broadcasting,
        LearnWhomToSend, SendNew, SkipPeer, SendingTo, MinerMoves
  <2> QED
    BY <2>1, ThreadsSubmitNothing
<1>4. ASSUME NEW q \in Peers, MemberListener(q) \/ MemberPoller(q)
      PROVE  submitted' = submitted
  <2>1. Listener(q) \/ Poller(q) \/ submitted' = submitted
    BY <1>4 DEF MemberListener, ReceiveBlock, ServeRequester, Listener,
                MemberPoller, Decide, FaceFork, AbandonFork, LearnPort,
                AskMiner, PollerDies, TakeMinersChain, EndFork, Poller, vars
  <2> QED
    BY <2>1, ThreadsSubmitNothing
<1>5. ASSUME NEW q \in Peers, \/ Join(q) \/ Joiner(q)
                              \/ Leave(q) \/ Crash(q) \/ TrackerThread(q)
      PROVE  submitted' = submitted
  BY <1>5 DEF Join, Joiner, ReadList, AskListed, TakeListedChain, FailToJoin,
              StartThreads, StartMining, Leave, Crash, TrackerThread, vars
<1>6. UNCHANGED allVars => submitted' = submitted
  BY DEF allVars, vars
<1> QED
  BY <1>1, <1>2, <1>3, <1>4, <1>5, <1>6 DEF MemberNext

LEMMA QueueStep ==
  ASSUME MembersInv, QueueInv, [MemberNext]_allVars
  PROVE  QueueInv'
<1> SUFFICES ASSUME NEW p \in Peers, ~Working(p)'
             PROVE  txns'[p] = <<>> /\ current'[p] = <<>>
  BY DEF QueueInv
<1>0. DataTypes /\ life \in [Peers -> Lives]
  BY DEF MembersInv, CoreInv, MemberTypeOK
<1>1. CASE Working(p)
  <2>1. Crash(p)
    BY <1>0, <1>1, LifeSteps
    DEF Join, ReadList, FailToJoin, StartThreads, StartMining, Leave
  <2> QED
    BY <1>0, <2>1 DEF DataTypes, Crash, MinerDone
<1>2. CASE ~Working(p)
  <2>1. txns[p] = <<>> /\ current[p] = <<>>
    BY <1>2 DEF QueueInv
  <2>2. <<>> \o <<>> = <<>>
    OBVIOUS
  <2>3. CASE [PeersMove]_vars
    <3>1. submitted'[p] = submitted[p]
      BY <1>0, <1>2, SubmitterUp
    <3>2. ASSUME NEW t \in Txn, Submit(p, t)
          PROVE  FALSE
      BY <1>0, <3>1, <3>2 DEF Submit, DataTypes
    <3>3. ~TakeTxn(p)
      BY <2>1, <2>2 DEF TakeTxn, Pending
    <3> QED
      BY <1>0, <2>1, <2>2, <2>3, <3>2, <3>3, QueueSteps
  <2>4. ASSUME NEW q \in Peers, ComesOrGoes(q)
        PROVE  txns'[p] = <<>> /\ current'[p] = <<>>
    BY <1>0, <2>1, <2>4, ComingQueue
  <2> QED
    BY <1>0, <2>3, <2>4, MemberSteps DEF MembersInv
<1> QED
  BY <1>1, <1>2

LEMMA TransitComing ==
  ASSUME DataTypes, NEW p \in Peers, ComesOrGoes(p)
  PROVE  InTransit' \subseteq InTransit
<1>1. PICK S : S = InTransit
  OBVIOUS
<1>2. Traffic(S)
  BY <1>1, TransitWithin
<1>3. Traffic(S)'
  BY <1>2, ComingTraffic
<1> QED
  BY <1>1, <1>3, NextTransitWithin

\* A peer that comes or goes makes no ledger visible but the empty one, when
\* it loses its own.
LEMMA VisibleComing ==
  ASSUME MembersInv, NEW p \in Peers, ComesOrGoes(p), NEW l \in Visible'
  PROVE  \/ l \in Visible
         \/ l = <<>> /\ life'[p] \in {"failed", "crashed"}
<1>0. DataTypes /\ LifeInv /\ life \in [Peers -> Lives]
  BY DEF MembersInv, CoreInv, MemberTypeOK
<1> DEFINE Goal == \/ l \in Visible
                   \/ l = <<>> /\ life'[p] \in {"failed", "crashed"}
<1>1. ASSUME NEW q \in Peers, l = Entries(chain'[q])
      PROVE  Goal
  BY <1>0, <1>1, ComingChains, EntriesOfNone DEF Visible
<1>2. ASSUME NEW q \in Peers, ppc'[q] = "served", l = Entries(reply'[q])
      PROVE  Goal
  BY <1>0, <1>2, ComingPoller DEF Visible
<1>3. ASSUME NEW b \in InTransit', IsValid(b), l = Commits(b)
      PROVE  Goal
  BY <1>0, <1>3, TransitComing DEF Visible
<1> QED
  BY <1>1, <1>2, <1>3 DEF Visible

LEMMA LiveComing ==
  ASSUME MembersInv, NEW p \in Peers, ComesOrGoes(p)
  PROVE  LiveBlocks' \subseteq LiveBlocks
<1>0. DataTypes /\ LifeInv /\ life \in [Peers -> Lives]
  BY DEF MembersInv, CoreInv, MemberTypeOK
<1> SUFFICES ASSUME NEW b \in LiveBlocks'
             PROVE  b \in LiveBlocks
  OBVIOUS
<1>1. ASSUME NEW q \in Peers, b \in Range(chain'[q])
      PROVE  b \in LiveBlocks
  <2>1. Range(<<>>) = {}
    BY DEF Range
  <2> QED
    BY <1>0, <1>1, <2>1, ComingChains DEF LiveBlocks
<1>2. ASSUME NEW q \in Peers, ppc'[q] = "served", b \in Range(reply'[q])
      PROVE  b \in LiveBlocks
  BY <1>0, <1>2, ComingPoller DEF LiveBlocks
<1>3. ASSUME b \in InTransit', IsValid(b)
      PROVE  b \in LiveBlocks
  BY <1>0, <1>3, TransitComing DEF LiveBlocks
<1> QED
  BY <1>1, <1>2, <1>3 DEF LiveBlocks

\* A queue that is dropped settles its transactions as well as any other.
LEMMA TakenComing ==
  ASSUME MembersInv, NEW p \in Peers, ComesOrGoes(p), NEW t, TakenFor(t)
  PROVE  TakenFor(t)'
<1> DEFINE q == t.sender
           x == submitted[q]
           n == Len(Pending(q))
           m == Len(Pending(q)')
<1>0. CoreInv /\ DataTypes
  BY DEF MembersInv, CoreInv
<1>1. t \in Txn /\ q \in Peers /\ t.stamp \in Nat /\ t.stamp <= x - n
  BY DEF TakenFor, Txn
<1>2. x \in Nat /\ n \in Nat
  BY <1>0, <1>1, PendingType
<1>3. submitted'[q] = x
  BY <1>0, <1>1, ComingQueue
<1>4. m = n \/ m = 0
  <2>1. Len(<<>> \o <<>>) = 0
    OBVIOUS
  <2> QED
    BY <1>0, <1>1, <2>1, ComingQueue DEF Pending
<1>5. t.stamp <= x - m
  <2> HIDE DEF q, x, n, m
  <2> QED
    BY <1>1, <1>2, <1>4
<1> QED
  BY <1>1, <1>3, <1>5 DEF TakenFor

LEMMA MemberNothingAtFirst ==
  ASSUME MemberInit
  PROVE  /\ LiveBlocks = {}
         /\ \A p \in Peers : Pending(p) = <<>> /\ Entries(chain[p]) = <<>>
         /\ Visible \subseteq {<<>>}
<1>1. \A p \in Peers :
        /\ chain[p] = <<>> /\ ppc[p] = "idle" /\ txns[p] = <<>>
        /\ current[p] = <<>> /\ outgoing[p] = <<>> /\ rcv[p] = <<>>
        /\ inbox[p] = <<>>
  BY DEF MemberInit
<1> QED
  BY <1>1, EmptyNetwork

LEMMA PastInit == MemberInit => PastInv
<1> SUFFICES ASSUME MemberInit
             PROVE  PastInv
  OBVIOUS
<1>1. /\ LiveBlocks = {}
      /\ \A p \in Peers : Pending(p) = <<>> /\ Entries(chain[p]) = <<>>
      /\ Visible \subseteq {<<>>}
  BY MemberNothingAtFirst
<1>2. Len(<<>>) = 0
  OBVIOUS
<1>3. SettledInv /\ OnceInv
  BY <1>1, <1>2 DEF SettledInv, OnceInv
<1>4. HandInv /\ QueueInv
  BY <1>2 DEF MemberInit, HandInv, QueueInv
<1> QED
  BY <1>3, <1>4 DEF PastInv

LEMMA PastStep ==
  ASSUME MembersInv, PastInv, [MemberNext]_allVars
  PROVE  PastInv'
<1>0. CoreInv /\ DataTypes /\ MemberTypeOK /\ SettledInv /\ OnceInv /\ HandInv
  BY DEF MembersInv, CoreInv, PastInv
<1>1. ASSUME [PeersMove]_vars
      PROVE  SettledInv' /\ OnceInv' /\ HandInv'
  BY <1>0, <1>1, SettledStep, OnceStep, HandStep
<1>2. ASSUME NEW p \in Peers, ComesOrGoes(p)
      PROVE  SettledInv' /\ OnceInv' /\ HandInv'
  <2>1. Len(<<>>) = 0
    OBVIOUS
  <2>2. SettledInv'
    <3> SUFFICES ASSUME AllKeepChain, NEW l \in Visible', NEW i \in 1 .. Len(l)
                 PROVE  TakenFor(l[i])'
      BY DEF SettledInv, AllKeepChain
    <3>1. l \in Visible
      BY <1>2, <2>1, VisibleComing
    <3>2. TakenFor(l[i])
      BY <1>0, <3>1 DEF SettledInv
    <3> QED
      BY <1>2, <3>2, TakenComing
  <2>3. OnceInv'
    BY <1>0, <1>2, LiveComing DEF OnceInv, AllKeepChain
  <2>4. HandInv'
    BY <1>0, <1>2, <2>1, ComingQueue DEF HandInv
  <2> QED
    BY <2>2, <2>3, <2>4
<1>3. QueueInv'
  BY QueueStep DEF PastInv
<1> QED
  BY <1>0, <1>1, <1>2, <1>3, MemberSteps DEF PastInv

(***************************************************************************)
(* What a ledger that can be had holds is settled, and no two blocks of it *)
(* are for one transaction, also when the sender has quit with a           *)
(* transaction in hand, which its miner still mines or puts back, or has   *)
(* crashed with the block on its way (Peer.shutdown, Peer.mine).           *)
(***************************************************************************)
THEOREM PastIsKept == MemberSpec => []PastInv
<1>1. MemberInit => MembersInv /\ PastInv
  BY MembersInit, PastInit
<1>2. MembersInv /\ PastInv /\ [MemberNext]_allVars => (MembersInv /\ PastInv)'
  BY MembersStep, PastStep
<1> QED
  BY <1>1, <1>2, PTL DEF MemberSpec

(***************************************************************************)
(* A transaction is mined once also in a network that peers join, leave    *)
(* and drop out of: the threads of a peer that leaves do not requeue what  *)
(* was mined, and what a crashed peer had mined nobody mines again.        *)
(***************************************************************************)
THEOREM MembersMineOnce == MemberSpec => []MinedOnce
<1>1. MembersInv /\ PastInv => MinedOnce
  BY OnceMeansOnce DEF MembersInv, PastInv
<1> QED
  BY <1>1, MembersHold, PastIsKept, PTL

-----------------------------------------------------------------------------
(***************************************************************************)
(* Members implement OpenLedger.                                           *)
(***************************************************************************)
\* The membership of nobody changes.
StagesKept == \A q \in Peers : Stage(q)' = Stage(q)

\* What p was at when it quit it has finished.
Finishes(p) == /\ Stage(p) = "quitting"
               /\ Stage(p)' = "quit"
               /\ \A q \in Peers : q # p => Stage(q)' = Stage(q)
               /\ mpc'[p] # mpc[p]
               /\ \A q \in Peers : q # p => mpc'[q] = mpc[q]

\* While nobody joins, leaves or crashes only a miner's last try changes what
\* a peer is to its users.
LEMMA StageSteps ==
  ASSUME MembersInv, [MemberNext]_allVars, \A q \in Peers : life'[q] = life[q]
  PROVE  StagesKept \/ \E p \in Peers : Finishes(p)
<1>0. DataTypes /\ life \in [Peers -> Lives]
  BY DEF MembersInv, CoreInv, MemberTypeOK
<1> DEFINE Goal == StagesKept \/ \E p \in Peers : Finishes(p)
<1>1. ASSUME mpc' = mpc
      PROVE  Goal
  BY <1>1 DEF StagesKept, Stage
<1>2. ASSUME NEW p \in Peers, Running(p) \/ mpc[p] = "send",
             \E x : mpc' = [mpc EXCEPT ![p] = x],
             mpc'[p] \in {"attempt", "commit"} => Running(p)
      PROVE  Goal
  <2>1. Stage(p)' = Stage(p)
    BY <1>2 DEF Stage, Running
  <2>2. \A q \in Peers : q # p => mpc'[q] = mpc[q]
    BY <1>0, <1>2 DEF DataTypes
  <2> QED
    BY <2>1, <2>2 DEF StagesKept, Stage
<1>3. ASSUME NEW p \in Peers, life[p] = "leaving", mpc[p] \in {"attempt", "commit"},
             \E x \in {"idle", "commit"} : mpc' = [mpc EXCEPT ![p] = x]
      PROVE  Goal
  <2>1. \A q \in Peers : q # p => mpc'[q] = mpc[q]
    BY <1>0, <1>3 DEF DataTypes
  <2>2. \A q \in Peers : q # p => Stage(q)' = Stage(q)
    BY <2>1 DEF Stage
  <2>3. CASE mpc'[p] = "idle"
    <3>1. Stage(p) = "quitting" /\ Stage(p)' = "quit" /\ mpc'[p] # mpc[p]
      BY <1>3, <2>3 DEF Stage
    <3> QED
      BY <2>1, <2>2, <3>1 DEF Finishes
  <2>4. CASE mpc'[p] = "commit"
    <3>1. Stage(p)' = Stage(p)
      BY <1>3, <2>4 DEF Stage
    <3> QED
      BY <2>2, <3>1 DEF StagesKept
  <2> QED
    BY <1>0, <1>3, <2>3, <2>4 DEF DataTypes
<1> HIDE DEF Goal
<1>4. ASSUME NEW p \in Peers, MinesAlone(p)
      PROVE  Goal
  <2>1. CASE Running(p)
    <3>1. \E x : mpc' = [mpc EXCEPT ![p] = x]
      BY <1>4 DEF MinesAlone, TakeTxn, SnapshotTip, RestartMining, GiveUpRound,
                  FindNonce, RefuseBlock, LoseRace
    <3> QED
      BY <1>2, <2>1, <3>1
  <2>2. CASE ~Running(p)
    <3>1. life[p] = "leaving"
      BY <1>4, <2>2 DEF MinesAlone, Running
    <3>2. /\ mpc[p] \in {"attempt", "commit"}
          /\ \E x \in {"idle", "commit"} : mpc' = [mpc EXCEPT ![p] = x]
      BY <1>4, <2>2 DEF MinesAlone, RestartMining, GiveUpRound, FindNonce,
                        RefuseBlock, LoseRace
    <3> QED
      BY <1>3, <3>1, <3>2
  <2> QED
    BY <2>1, <2>2
<1>5. ASSUME NEW p \in Peers, MineBlock(p)
      PROVE  Goal
  <2>1. Running(p) /\ \E x : mpc' = [mpc EXCEPT ![p] = x]
    BY <1>5 DEF MineBlock, AppendOwnBlock, AppendBlock
  <2> QED
    BY <1>2, <2>1
<1>6. ASSUME NEW p \in Peers, AppendLast(p)
      PROVE  Goal
  <2>1. /\ life[p] = "leaving" /\ mpc[p] = "commit"
        /\ mpc' = [mpc EXCEPT ![p] = "idle"]
    BY <1>6 DEF AppendLast, AppendBlock
  <2> QED
    BY <1>3, <2>1
<1>7. ASSUME NEW p \in Peers, Broadcasting(p)
      PROVE  Goal
  <2>1. /\ mpc[p] = "send"
        /\ mpc' = mpc \/ mpc' = [mpc EXCEPT ![p] = "idle"]
    BY <1>7 DEF Broadcasting, LearnWhomToSend, SendNew, SkipPeer, SendingTo,
                SendBlock
  <2>2. CASE mpc' = [mpc EXCEPT ![p] = "idle"]
    <3>1. mpc'[p] = "idle"
      BY <1>0, <2>2 DEF DataTypes
    <3> QED
      BY <1>2, <2>1, <2>2, <3>1
  <2> QED
    BY <1>1, <2>1, <2>2
<1>8. ASSUME NEW p \in Peers, \/ Join(p)
                              \/ Joiner(p)
                              \/ MemberApplication(p)
                              \/ MemberListener(p)
                              \/ TrackerThread(p)
      PROVE  mpc' = mpc
  <2>1. Application(p) => mpc' = mpc
    BY DEF Application, CreatePoll, Vote, Submit, minerVars
  <2> QED
    BY <1>8, <2>1
    DEF Join, Joiner, ReadList, AskListed, TakeListedChain, FailToJoin,
        StartThreads, StartMining, MemberApplication, MemberListener,
        ReceiveBlock, ServeRequester, AcceptBlock, ServeChain, TrackerThread,
        vars, minerVars
<1>9. ASSUME NEW p \in Peers, MemberPoller(p)
      PROVE  mpc' = mpc
  BY <1>9 DEF MemberPoller, Decide, DiscardInvalid, AppendReceived, DiscardStale,
              FaceFork, DetectFork, AbandonFork, LearnPort, AskMiner, AskForChain,
              PollerDies, TakeMinersChain, FinishFork, EndFork, vars, minerVars
<1>10. ASSUME NEW p \in Peers
       PROVE  ~Leave(p) /\ ~Crash(p)
  BY <1>0 DEF Leave, Crash
<1>11. UNCHANGED allVars => mpc' = mpc
  BY DEF allVars, vars, minerVars
<1>12. Goal
  BY <1>1, <1>4, <1>5, <1>6, <1>7, <1>8, <1>9, <1>10, <1>11 DEF MemberNext
<1> QED
  BY <1>12 DEF Goal

LEMMA SameLedger ==
  /\ L!Forget <=> O!Forget
  /\ \A p \in Peers : /\ L!Submit(p) <=> O!Submit(p)
                      /\ L!Enter(p) <=> O!Enter(p)
                      /\ L!Refuse(p) <=> O!Refuse(p)
                      /\ L!Adopt(p) <=> O!Adopt(p)
BY DEF L!Submit, O!Submit, L!Enter, O!Enter, L!Refuse, O!Refuse, L!Adopt,
       O!Adopt, L!MayForget, O!MayForget, L!Admits, O!Admits, L!Mentions,
       O!Mentions, L!Forget, O!Forget

\* What a step of Ledger is to peers that stay what they are.
LEMMA StepsAreTaken ==
  ASSUME NEW p \in Peers, StagesKept
  PROVE  /\ L!Submit(p) /\ Running(p) => O!Takes(p)
         /\ L!Enter(p) /\ Running(p) => O!Takes(p)
         /\ L!Refuse(p) /\ Running(p) => O!Takes(p)
         /\ L!Adopt(p) /\ life[p] \notin {"failed", "crashed"} => O!Takes(p)
<1>1. [q \in Peers |-> Stage(q)]' = [q \in Peers |-> Stage(q)]
  BY DEF StagesKept
<1>2. Running(p) => [q \in Peers |-> Stage(q)][p] = "member"
  BY DEF Stage, Running
<1>3. life[p] \notin {"failed", "crashed"} => [q \in Peers |-> Stage(q)][p] # "lost"
  BY DEF Stage
<1>4. L!Submit(p) /\ Running(p) => O!Takes(p)
  BY <1>1, <1>2, SameLedger DEF O!Takes
<1>5. L!Enter(p) /\ Running(p) => O!Takes(p)
  BY <1>1, <1>2, SameLedger DEF O!Takes
<1>6. L!Refuse(p) /\ Running(p) => O!Takes(p)
  BY <1>1, <1>2, SameLedger DEF O!Takes
<1>7. L!Adopt(p) /\ life[p] \notin {"failed", "crashed"} => O!Takes(p)
  BY <1>1, <1>3, SameLedger DEF O!Takes
<1> QED
  BY <1>4, <1>5, <1>6, <1>7

LEMMA NothingIsTaken ==
  ASSUME StagesKept, L!Forget
  PROVE  O!OpenNext
<1>1. [q \in Peers |-> Stage(q)]' = [q \in Peers |-> Stage(q)]
  BY DEF StagesKept
<1> QED
  BY <1>1, SameLedger DEF O!OpenNext

\* What a step of Ledger is to a peer that finishes what it has in hand.
LEMMA LastIsTaken ==
  ASSUME NEW p \in Peers, Finishes(p), L!Enter(p) \/ L!Refuse(p) \/ L!Forget
  PROVE  O!OpenNext
<1> DEFINE stage == [q \in Peers |-> Stage(q)]
<1>1. stage[p] = "quitting" /\ stage' = [stage EXCEPT ![p] = "quit"]
  BY DEF Finishes
<1>2. O!Enter(p) \/ O!Refuse(p) \/ O!Forget
  BY SameLedger
<1>3. O!Finish(p)
  BY <1>1, <1>2 DEF O!Finish
<1> QED
  BY <1>3 DEF O!OpenNext

\* A step of PeerNetwork is a step of peers that take part, or the last one of
\* a peer that quits.
LEMMA ThreadsOpen ==
  ASSUME MembersInv, PastInv, AllKeepChain, [MemberNext]_allVars, [PeersMove]_vars,
         \A q \in Peers : life'[q] = life[q]
  PROVE  O!OpenNext
<1>0. /\ CoreInv /\ DataTypes /\ LifeInv /\ life \in [Peers -> Lives]
      /\ SettledInv /\ HandInv /\ QueueInv
  BY DEF MembersInv, CoreInv, MemberTypeOK, PastInv
<1>1. ASSUME NEW p \in Peers, Application(p), L!Submit(p)
      PROVE  O!OpenNext
  <2>1. submitted'[p] # submitted[p]
    <3>1. submitted' = [submitted EXCEPT ![p] = @ + 1]
      BY <1>0, <1>1, SubmitsOnce
    <3>2. submitted \in [Peers -> Nat]
      BY <1>0 DEF DataTypes
    <3> QED
      BY <3>1, <3>2
  <2>2. Running(p)
    BY <1>0, <2>1, SubmitterUp DEF Running
  <2>3. StagesKept
    <3>1. mpc' = mpc
      BY <1>1 DEF Application, CreatePoll, Vote, Submit, minerVars
    <3> QED
      BY <3>1 DEF StagesKept, Stage
  <2> QED
    BY <1>1, <2>2, <2>3, StepsAreTaken DEF O!OpenNext
<1>2. ASSUME NEW p \in Peers, \/ RefuseBlock(p) /\ L!Refuse(p)
                              \/ AppendsBlock(p) /\ L!Enter(p)
      PROVE  O!OpenNext
  <2>1. Pending(p) # <<>>
    BY <1>2 DEF L!Refuse, L!Enter
  <2>2. <<>> \o <<>> = <<>>
    OBVIOUS
  <2>3. Working(p)
    BY <1>0, <2>1, <2>2 DEF QueueInv, Pending
  <2>4. /\ mpc[p] = "commit"
        /\ \E x \in {"idle", "send"} : mpc' = [mpc EXCEPT ![p] = x]
    BY <1>2 DEF RefuseBlock, AppendsBlock, AppendBlock
  <2>5. /\ mpc'[p] \in {"idle", "send"}
        /\ \A q \in Peers : q # p => mpc'[q] = mpc[q]
    BY <1>0, <2>4 DEF DataTypes
  <2>6. CASE Running(p)
    <3>1. StagesKept
      BY <2>5, <2>6 DEF StagesKept, Stage, Running
    <3> QED
      BY <1>2, <2>6, <3>1, StepsAreTaken DEF O!OpenNext
  <2>7. CASE life[p] = "leaving"
    <3>1. Finishes(p)
      BY <2>4, <2>5, <2>7 DEF Finishes, Stage
    <3> QED
      BY <1>2, <3>1, LastIsTaken
  <2> QED
    BY <2>3, <2>6, <2>7 DEF Running
<1>3. ASSUME NEW p \in Peers, AppendReceived(p) \/ FinishFork(p), L!Adopt(p)
      PROVE  O!OpenNext
  <2>1. rcv[p] # <<>> \/ ppc[p] = "served"
    BY <1>0, <1>3, AppendReceivedEffect, FinishForkEffect
  <2>2. life[p] \notin {"failed", "crashed"}
    BY <1>0, <2>1 DEF LifeInv
  <2>3. StagesKept
    <3>1. mpc' = mpc
      BY <1>3 DEF AppendReceived, FinishFork, minerVars
    <3> QED
      BY <3>1 DEF StagesKept, Stage
  <2> QED
    BY <1>3, <2>2, <2>3, StepsAreTaken DEF O!OpenNext
<1>4. ASSUME L!Forget
      PROVE  O!OpenNext
  BY <1>4, StageSteps, NothingIsTaken, LastIsTaken
<1> QED
  BY <1>0, <1>1, <1>2, <1>3, <1>4, LedgerStep

\* A peer that comes or goes, and stays what it is, adopts a ledger or none.
LEMMA ComingOpen ==
  ASSUME MembersInv, NEW p \in Peers, ComesOrGoes(p),
         [MemberNext]_allVars, \A q \in Peers : life'[q] = life[q]
  PROVE  O!OpenNext
<1> DEFINE queue == [q \in Peers |-> Pending(q)]
           ledger == [q \in Peers |-> Entries(chain[q])]
<1>0. DataTypes /\ LifeInv /\ life \in [Peers -> Lives]
  BY DEF MembersInv, CoreInv, MemberTypeOK
<1>1. /\ ~FailToJoin(p) /\ ~StartMining(p) /\ ~Leave(p) /\ ~Crash(p)
      /\ life[p] \notin {"failed", "crashed"}
  <2>1. ~FailToJoin(p) /\ ~StartMining(p) /\ ~Leave(p) /\ ~Crash(p)
    BY <1>0 DEF FailToJoin, StartMining, Leave, Crash
  <2>2. life[p] \notin {"failed", "crashed"}
    BY <1>0, <2>1
    DEF ComesOrGoes, AskListed, TakeListedChain, SendsTo, PollerDies, EndFork,
        AbandonFork, LifeInv
  <2> QED
    BY <2>1, <2>2
<1>2. L!MayForget({})
  BY <1>1, VisibleComing DEF L!MayForget
<1>3. queue' = queue
  <2>1. txns' = txns /\ current' = current
    BY <1>1 DEF ComesOrGoes, AskListed, TakeListedChain, SendsTo, SendingTo,
                PollerDies, EndFork, AbandonFork, minerVars
  <2> QED
    BY <2>1 DEF Pending
<1>4. \A q \in Peers : q # p => chain'[q] = chain[q]
  BY <1>0, <1>1
  DEF ComesOrGoes, AskListed, TakeListedChain, SendsTo, SendingTo, PollerDies,
      EndFork, AbandonFork, DataTypes
<1>5. StagesKept
  <2>1. \/ mpc' = mpc
        \/ mpc[p] = "send" /\ mpc' = [mpc EXCEPT ![p] = "idle"]
    BY <1>1
    DEF ComesOrGoes, AskListed, TakeListedChain, SendsTo, SendingTo,
        PollerDies, EndFork, AbandonFork, minerVars
  <2>2. ASSUME NEW q \in Peers
        PROVE  Stage(q)' = Stage(q)
    <3>1. \/ mpc'[q] = mpc[q]
          \/ mpc[q] = "send" /\ mpc'[q] = "idle"
      BY <1>0, <2>1 DEF DataTypes
    <3> QED
      BY <3>1 DEF Stage
  <2> QED
    BY <2>2 DEF StagesKept
<1>6. CASE chain'[p] = chain[p]
  <2>1. ledger' = ledger
    BY <1>4, <1>6
  <2>2. L!Forget
    BY <1>2, <1>3, <2>1 DEF L!Forget
  <2> QED
    BY <1>5, <2>2, NothingIsTaken
<1>7. CASE /\ ppc[p] = "served" /\ Adoptable(chain[p], reply[p])
           /\ chain'[p] = reply[p]
  <2>1. Entries(reply[p]) \in Visible
    BY <1>7 DEF Visible
  <2>2. /\ Len(Entries(reply[p])) = Len(reply[p])
        /\ Len(Entries(chain[p])) = Len(chain[p])
    BY <1>0, EntriesType DEF DataTypes
  <2>3. Len(Entries(reply[p])) > Len(ledger[p])
    BY <1>7, <2>2 DEF Adoptable
  <2>4. ledger' = [ledger EXCEPT ![p] = Entries(reply[p])]
    BY <1>4, <1>7
  <2>5. L!Adopt(p)
    BY <1>2, <1>3, <2>1, <2>3, <2>4 DEF L!Adopt
  <2> QED
    BY <1>1, <1>5, <2>5, StepsAreTaken DEF O!OpenNext
<1> QED
  BY <1>0, <1>1, <1>6, <1>7, ComingChains

\* A peer whose life goes on enrols, quits, fails or is where it was.
LEMMA LifeOpen ==
  ASSUME MembersInv, PastInv, [MemberNext]_allVars, NEW p \in Peers,
         life'[p] # life[p]
  PROVE  O!OpenNext
<1> DEFINE queue == [q \in Peers |-> Pending(q)]
           ledger == [q \in Peers |-> Entries(chain[q])]
           stage == [q \in Peers |-> Stage(q)]
<1>0. DataTypes /\ life \in [Peers -> Lives] /\ QueueInv
  BY DEF MembersInv, CoreInv, MemberTypeOK, PastInv
<1>1. CASE Join(p) \/ ReadList(p)
  <2>1. UNCHANGED vars /\ stage' = stage
    BY <1>0, <1>1 DEF Join, ReadList, Stage, vars, minerVars
  <2>2. queue' = queue /\ ledger' = ledger /\ O!MayForget({})
    BY <2>1 DEF vars, minerVars, sendVars, pollerVars, Pending, Visible,
                InTransit, O!MayForget
  <2> QED
    BY <2>1, <2>2 DEF O!OpenNext, O!Forget
<1>2. CASE StartThreads(p)
  <2>1. /\ UNCHANGED vars
        /\ stage[p] = "outside" /\ stage' = [stage EXCEPT ![p] = "member"]
    BY <1>0, <1>2 DEF StartThreads, Stage, vars, minerVars
  <2>2. queue' = queue /\ ledger' = ledger /\ O!MayForget({})
    BY <2>1 DEF vars, minerVars, sendVars, pollerVars, Pending, Visible,
                InTransit, O!MayForget
  <2> QED
    BY <2>1, <2>2 DEF O!OpenNext, O!Enrol
<1>3. CASE StartMining(p)
  <2>1. stage' = stage
    BY <1>0, <1>3 DEF StartMining, Stage, minerVars
  <2>2. queue' = queue /\ ledger' = ledger
    BY <1>3 DEF StartMining, minerVars, Pending
  <2>3. O!MayForget({})
    BY <1>3 DEF StartMining, sendVars, pollerVars, Visible, InTransit, O!MayForget
  <2> QED
    BY <2>1, <2>2, <2>3 DEF O!OpenNext, O!Forget
<1>4. CASE FailToJoin(p) \/ Crash(p)
  <2>1. stage[p] \in {"outside", "member"} /\ stage' = [stage EXCEPT ![p] = "lost"]
    <3>1. /\ life[p] \in {"joining", "asking", "started", "up"}
          /\ \E l \in {"failed", "crashed"} : life' = [life EXCEPT ![p] = l]
      BY <1>4 DEF FailToJoin, Crash
    <3>2. mpc' = mpc \/ mpc' = [mpc EXCEPT ![p] = "idle"]
      BY <1>4 DEF FailToJoin, Crash, minerVars
    <3>3. \A q \in Peers : q # p => mpc'[q] = mpc[q]
      BY <1>0, <3>2 DEF DataTypes
    <3> QED
      BY <1>0, <3>1, <3>3 DEF Stage
  <2>2. queue' = [queue EXCEPT ![p] = <<>>]
    <3>1. <<>> \o <<>> = <<>>
      OBVIOUS
    <3>2. txns'[p] = <<>> /\ current'[p] = <<>>
      BY <1>0, <1>4 DEF FailToJoin, Crash, MinerDone, minerVars, DataTypes,
                        QueueInv
    <3>3. /\ txns' = txns \/ txns' = [txns EXCEPT ![p] = <<>>]
          /\ current' = current \/ current' = [current EXCEPT ![p] = <<>>]
      BY <1>4 DEF FailToJoin, Crash, MinerDone, minerVars
    <3> QED
      BY <1>0, <3>1, <3>2, <3>3 DEF Pending, DataTypes
  <2>3. ledger' = [ledger EXCEPT ![p] = <<>>]
    <3>1. chain' = [chain EXCEPT ![p] = <<>>]
      BY <1>4 DEF FailToJoin, Crash
    <3> QED
      BY <1>0, <3>1, EntriesOfNone DEF DataTypes
  <2>4. O!MayForget({<<>>})
    BY <1>4, VisibleComing DEF ComesOrGoes, O!MayForget
  <2> QED
    BY <2>1, <2>2, <2>3, <2>4 DEF O!OpenNext, O!Fail
<1>5. CASE Leave(p)
  <2>1. /\ stage[p] = "member"
        /\ \E s \in {"quitting", "quit"} : stage' = [stage EXCEPT ![p] = s]
    <3>1. /\ life[p] = "up" /\ life' = [life EXCEPT ![p] = "leaving"]
          /\ mpc' = mpc
      BY <1>5 DEF Leave, minerVars
    <3>2. /\ Stage(p) = "member" /\ Stage(p)' \in {"quitting", "quit"}
          /\ \A q \in Peers : q # p => Stage(q)' = Stage(q)
      BY <1>0, <3>1 DEF Stage
    <3> QED
      BY <3>2
  <2>2. queue' = queue
    BY <1>5 DEF Leave, minerVars, Pending
  <2>3. ledger' = ledger
    BY <1>5 DEF Leave
  <2>4. O!MayForget({})
    <3>1. life'[p] = "leaving"
      BY <1>0, <1>5 DEF Leave
    <3> QED
      BY <1>5, <3>1, VisibleComing DEF ComesOrGoes, O!MayForget
  <2> QED
    BY <2>1, <2>2, <2>3, <2>4 DEF O!OpenNext, O!Quit
<1> HIDE DEF queue, ledger, stage
<1> QED
  BY <1>1, <1>2, <1>3, <1>4, <1>5, LifeSteps

LEMMA OpenStep ==
  ASSUME MembersInv, PastInv, AllKeepChain, [MemberNext]_allVars
  PROVE  O!OpenNext
<1>1. ASSUME NEW p \in Peers, life'[p] # life[p]
      PROVE  O!OpenNext
  BY <1>1, LifeOpen
<1>2. ASSUME \A p \in Peers : life'[p] = life[p]
      PROVE  O!OpenNext
  BY <1>2, ThreadsOpen, ComingOpen, MemberSteps DEF MembersInv, CoreInv
<1> QED
  BY <1>1, <1>2

(***************************************************************************)
(* Peers that join, quit and crash at any time implement OpenLedger, where *)
(* nobody spoils its own chain: who joins starts from a ledger that a peer *)
(* had, a peer that quits (Peer.shutdown) settles at most the transaction  *)
(* its miner has in hand, by the rules, in a ledger that others may still  *)
(* get, and a peer that crashes loses its own queue and nobody else's.     *)
(***************************************************************************)
THEOREM MembersImplementOpenLedger ==
  ASSUME Peers # {}, AllKeepChain
  PROVE  MemberSpec => ImplementsOpenLedger
<1>1. MemberInit => O!OpenInit
  <2> SUFFICES ASSUME MemberInit
               PROVE  O!OpenInit
    OBVIOUS
  <2>1. \A p \in Peers : Pending(p) = <<>> /\ Entries(chain[p]) = <<>>
    BY MemberNothingAtFirst
  <2>2. Visible = {<<>>}
    BY <2>1, MemberNothingAtFirst DEF Visible
  <2>3. \A p \in Peers : Stage(p) \in {"outside", "member"}
    BY DEF MemberInit, Stage
  <2> QED
    BY <2>1, <2>2, <2>3 DEF O!OpenInit, O!Init
<1>2. MembersInv /\ PastInv /\ [MemberNext]_allVars => [O!OpenNext]_(O!openVars)
  BY OpenStep
<1> QED
  BY <1>1, <1>2, MembersHold, PastIsKept, PTL
  DEF MemberSpec, ImplementsOpenLedger, O!OpenSpec

=============================================================================
