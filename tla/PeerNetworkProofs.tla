------------------------- MODULE PeerNetworkProofs --------------------------
(***************************************************************************)
(* The inductive invariant of PeerNetwork, for any number of peers, any    *)
(* configuration of them and any number of transactions, and the theorems  *)
(* that follow from it.                                                    *)
(***************************************************************************)
EXTENDS PeerNetworkInvariant, BlockchainProofs

-----------------------------------------------------------------------------
(***************************************************************************)
(* Most of what follows does not depend on which blocks are sent.  So it   *)
(* is proved of peers that may keep any block to themselves, as a peer     *)
(* that leaves does (Membership).                                          *)
(***************************************************************************)
AppendsBlock(p) == \E sends \in BOOLEAN : AppendBlock(p, sends)

MinerMoves(p) == \/ TakeTxn(p)
                 \/ SnapshotTip(p)
                 \/ RestartMining(p)
                 \/ GiveUpRound(p)
                 \/ FindNonce(p)
                 \/ RefuseBlock(p)
                 \/ LoseRace(p)
                 \/ AppendsBlock(p)
                 \/ \E q \in Peers : SendBlock(p, q)

PeersMove ==
  \E p \in Peers : Application(p) \/ MinerMoves(p) \/ Listener(p) \/ Poller(p)

LEMMA OwnBlockAppended ==
  ASSUME NEW p \in Peers, AppendOwnBlock(p)
  PROVE  AppendsBlock(p)
<1>1. PICK sends \in BOOLEAN : sends <=> (Broadcasts(p) /\ Others(p) # {})
  OBVIOUS
<1>2. AppendBlock(p, sends)
  BY <1>1 DEF AppendOwnBlock, AppendBlock
<1> QED
  BY <1>2 DEF AppendsBlock

LEMMA NextMoves == [Next]_vars => [PeersMove]_vars
BY OwnBlockAppended DEF Next, PeersMove, Miner, MinerMoves

-----------------------------------------------------------------------------
(***************************************************************************)
(* Type correctness, and the discipline of the locks.                      *)
(***************************************************************************)
LEMMA DataTyped == TypeOK => DataTypes
BY DEF TypeOK, DataTypes

\* The mining thread has something in hand, so it builds a block.
LEMMA NewBlockType ==
  ASSUME DataTypes, NEW p \in Peers, current[p] # <<>>
  PROVE  NewBlock(p) \in Block
<1>1. Head(current[p]) \in Txn
  BY DEF DataTypes
<1>2. mineId[p] \in Nat /\ prevHash[p] \in Hash
  BY DEF DataTypes
<1> QED
  BY <1>1, <1>2, MinedBlockType DEF NewBlock

LEMMA ExtendedType ==
  ASSUME DataTypes, NEW p \in Peers, current[p] # <<>>
  PROVE  /\ Extended(p) \in Seq(Block)
         /\ SameButHashes(Append(chain[p], NewBlock(p)), Extended(p))
<1> DEFINE c == Append(chain[p], NewBlock(p))
<1>1. c \in Seq(Block)
  BY NewBlockType, AppendProperties DEF DataTypes
<1> HIDE DEF c
<1>2. CASE Extended(p) = c
  BY <1>1, <1>2 DEF SameButHashes, c
<1>3. CASE Len(c) >= 2 /\ Extended(p) = [c EXCEPT ![2].hash = <<Noise>>]
  BY <1>1, <1>3, SpoiledType DEF c
<1> QED
  BY <1>2, <1>3 DEF Extended, c

\* What goes out has the id, the sender and the kind of what was mined.
LEMMA OutgoingType ==
  ASSUME DataTypes, NEW p \in Peers, current[p] # <<>>
  PROVE  /\ Outgoing(p) \in Block
         /\ Outgoing(p).id = mineId[p]
         /\ Outgoing(p).txn.sender = Head(current[p]).sender
         /\ Outgoing(p).txn.type = Head(current[p]).type
<1> DEFINE b == Latest(Extended(p))
<1>1. /\ Append(chain[p], NewBlock(p)) \in Seq(Block)
      /\ Len(Append(chain[p], NewBlock(p))) = Len(chain[p]) + 1
      /\ Append(chain[p], NewBlock(p))[Len(chain[p]) + 1] = NewBlock(p)
      /\ Len(chain[p]) \in Nat
  <2>1. NewBlock(p) \in Block /\ chain[p] \in Seq(Block)
    BY NewBlockType DEF DataTypes
  <2> QED
    BY <2>1, AppendProperties, LenProperties
<1>2. /\ b \in Block
      /\ b.id = NewBlock(p).id
      /\ b.txn = NewBlock(p).txn
  <2>1. PICK n \in Nat : n = Len(chain[p]) + 1
    BY <1>1
  <2>2. /\ Extended(p) \in Seq(Block)
        /\ Len(Extended(p)) = n
        /\ Extended(p)[n].id = NewBlock(p).id
        /\ Extended(p)[n].txn = NewBlock(p).txn
    BY <1>1, <2>1, ExtendedType DEF SameButHashes
  <2>3. b = Extended(p)[n]
    BY <2>2 DEF Latest
  <2>4. Extended(p)[n] \in Block
    BY <1>1, <2>1, <2>2, ElementOfSeq
  <2> QED
    BY <2>2, <2>3, <2>4
<1>3. NewBlock(p).id = mineId[p] /\ NewBlock(p).txn = Head(current[p])
  BY DEF NewBlock, MinedBlock
<1> HIDE DEF b
<1>4. <<Noise>> \in Hash /\ <<p, 0>> \in Peers \X Nat
  BY DEF Hash
<1>5. [b EXCEPT !.hash = <<Noise>>] \in Block
  BY <1>2, <1>4 DEF Block
<1>6. [b EXCEPT !.prev_hash = <<Noise>>] \in Block
  BY <1>2, <1>4 DEF Block
<1>7. [b EXCEPT !.txn.poll_id = <<p, 0>>] \in Block
  BY <1>2, <1>4 DEF Block, Txn
<1>8. /\ [b EXCEPT !.txn.poll_id = <<p, 0>>].txn.sender = b.txn.sender
      /\ [b EXCEPT !.txn.poll_id = <<p, 0>>].txn.type = b.txn.type
      /\ [b EXCEPT !.txn.poll_id = <<p, 0>>].id = b.id
  BY <1>2 DEF Block, Txn
<1>9. \/ Outgoing(p) = b
      \/ Outgoing(p) = [b EXCEPT !.hash = <<Noise>>]
      \/ Outgoing(p) = [b EXCEPT !.prev_hash = <<Noise>>]
      \/ Outgoing(p) = [b EXCEPT !.txn.poll_id = <<p, 0>>]
  <2>1. TamperType[p] \in TamperTypes
    BY ConfigAssumption
  <2> QED
    BY <2>1 DEF Outgoing, TamperTypes, b
<1>10. Outgoing(p) \in Block
  BY <1>2, <1>5, <1>6, <1>7, <1>9
<1>11. \A d \in Block : d.id = b.id /\ d.txn = b.txn =>
         /\ d.id = mineId[p]
         /\ d.txn.sender = Head(current[p]).sender
         /\ d.txn.type = Head(current[p]).type
  BY <1>2, <1>3
<1>12. /\ [b EXCEPT !.hash = <<Noise>>].id = b.id
       /\ [b EXCEPT !.hash = <<Noise>>].txn = b.txn
       /\ [b EXCEPT !.prev_hash = <<Noise>>].id = b.id
       /\ [b EXCEPT !.prev_hash = <<Noise>>].txn = b.txn
  BY <1>2 DEF Block
<1>13. CASE Outgoing(p) # [b EXCEPT !.txn.poll_id = <<p, 0>>]
  BY <1>2, <1>5, <1>6, <1>9, <1>10, <1>11, <1>12, <1>13
<1>14. CASE Outgoing(p) = [b EXCEPT !.txn.poll_id = <<p, 0>>]
  BY <1>2, <1>3, <1>8, <1>10, <1>14
<1> QED
  BY <1>13, <1>14

-----------------------------------------------------------------------------
(***************************************************************************)
(* The effects of the steps of more than one outcome.                      *)
(***************************************************************************)
LEMMA CreatePollSubmits ==
  ASSUME DataTypes, NEW p \in Peers, NEW name \in PollNames, CreatePoll(p, name)
  PROVE  \E t \in Txn : /\ t.sender = p /\ t.stamp = submitted[p] + 1
                        /\ Submit(p, t)
<1> DEFINE t == [sender |-> p, stamp |-> submitted[p] + 1,
                 type |-> "create_poll",
                 poll_id |-> <<p, submitted[p] + 1>>, poll_name |-> name]
<1>1. submitted[p] \in Nat
  BY DEF DataTypes
<1>2. submitted[p] + 1 \in Nat \ {0}
  BY <1>1
<1>3. <<p, submitted[p] + 1>> \in Peers \X Nat
  BY <1>2
<1>4. t \in Txn /\ t.sender = p /\ t.stamp = submitted[p] + 1
  BY <1>2, <1>3 DEF Txn
<1>5. Submit(p, t)
  BY DEF CreatePoll
<1> QED
  BY <1>4, <1>5

LEMMA VoteSubmits ==
  ASSUME DataTypes, NEW p \in Peers, NEW i \in 1 .. Len(chain[p]), Vote(p, i)
  PROVE  \E t \in Txn : /\ t.sender = p /\ t.stamp = submitted[p] + 1
                        /\ Submit(p, t)
<1> DEFINE t == [sender |-> p, stamp |-> submitted[p] + 1, type |-> "vote",
                 poll_id |-> chain[p][i].txn.poll_id, poll_name |-> ""]
<1>1. submitted[p] \in Nat /\ chain[p][i] \in Block
  BY DEF DataTypes
<1>2. chain[p][i].txn.poll_id \in Peers \X Nat
  BY <1>1 DEF Block, Txn
<1>3. t \in Txn /\ t.sender = p /\ t.stamp = submitted[p] + 1
  BY <1>1, <1>2 DEF Txn
<1>4. Submit(p, t)
  BY DEF Vote
<1> QED
  BY <1>3, <1>4

LEMMA AppendOwnBlockEffect ==
  ASSUME NEW p \in Peers, AppendsBlock(p)
  PROVE  /\ mpc[p] = "commit" /\ lock[p] = "free"
         /\ chain' = [chain EXCEPT ![p] = Extended(p)]
         /\ step' = [step EXCEPT ![p] = NextStep(p)]
         /\ current' = [current EXCEPT ![p] = <<>>]
         /\ mineId' = [mineId EXCEPT ![p] = 0]
         /\ prevHash' = [prevHash EXCEPT ![p] = GenesisPrev]
         /\ \/ /\ mpc' = [mpc EXCEPT ![p] = "send"]
               /\ lock' = [lock EXCEPT ![p] = "miner"]
               /\ outgoing' = [outgoing EXCEPT ![p] = <<Outgoing(p)>>]
               /\ sendTo' = [sendTo EXCEPT ![p] = Others(p)]
            \/ /\ mpc' = [mpc EXCEPT ![p] = "idle"]
               /\ lock' = lock /\ outgoing' = outgoing /\ sendTo' = sendTo
         /\ UNCHANGED <<state, txns, submitted, inbox, rcv, ppc, asked, reply>>
BY DEF AppendsBlock, AppendBlock, MinerDone, sendVars, pollerVars

LEMMA SendBlockEffect ==
  ASSUME NEW p \in Peers, NEW q \in Peers, SendBlock(p, q)
  PROVE  /\ mpc[p] = "send" /\ q \in sendTo[p]
         /\ inbox' = [inbox EXCEPT ![q] =
                        Append(@, BlockMsg(p, Head(outgoing[p])))]
         /\ sendTo' = [sendTo EXCEPT ![p] = @ \ {q}]
         /\ \/ /\ mpc' = [mpc EXCEPT ![p] = "idle"]
               /\ lock' = [lock EXCEPT ![p] = "free"]
               /\ outgoing' = [outgoing EXCEPT ![p] = <<>>]
            \/ mpc' = mpc /\ lock' = lock /\ outgoing' = outgoing
         /\ UNCHANGED <<chain, state, txns, submitted, current, mineId,
                        prevHash, step, rcv, ppc, asked, reply>>
BY DEF SendBlock, pollerVars

-----------------------------------------------------------------------------
(***************************************************************************)
(* Types.                                                                  *)
(***************************************************************************)
LEMMA TypeInit == Init => TypeOK
BY DEF Init, TypeOK, Hash, GenesisPrev

LEMMA SubmitType ==
  ASSUME DataTypes, NEW p \in Peers, NEW t \in Txn, Submit(p, t)
  PROVE  DataTypes'
<1>1. txns' \in [Peers -> Seq(Txn)]
  BY AppendProperties DEF DataTypes, Submit
<1>2. submitted' \in [Peers -> Nat]
  BY DEF DataTypes, Submit
<1> QED
  BY <1>1, <1>2 DEF DataTypes, Submit, minerVars, sendVars, pollerVars

LEMMA DataStep ==
  ASSUME DataTypes, MinerInv, IdsInv, [PeersMove]_vars
  PROVE  DataTypes'
<1>1. CASE UNCHANGED vars
  BY <1>1 DEF DataTypes, vars, minerVars, sendVars, pollerVars
<1>2. ASSUME NEW p \in Peers, NEW name \in PollNames, CreatePoll(p, name)
      PROVE  DataTypes'
  BY <1>2, CreatePollSubmits, SubmitType
<1>3. ASSUME NEW p \in Peers, NEW i \in 1 .. Len(chain[p]), Vote(p, i)
      PROVE  DataTypes'
  BY <1>3, VoteSubmits, SubmitType
<1> USE DEF DataTypes
<1>4. ASSUME NEW p \in Peers, TakeTxn(p)
      PROVE  DataTypes'
  <2>1. /\ current[p] \o txns[p] \in Seq(Txn)
        /\ Head(current[p] \o txns[p]) \in Txn
        /\ Tail(current[p] \o txns[p]) \in Seq(Txn)
    BY <1>4, ConcatProperties, HeadTailProperties DEF TakeTxn
  <2>2. /\ current' \in [Peers -> Seq(Txn)]
        /\ txns' \in [Peers -> Seq(Txn)]
        /\ mpc' \in [Peers -> {"idle", "snapshot", "attempt", "commit", "send"}]
    BY <1>4, <2>1 DEF TakeTxn
  <2> QED
    BY <1>4, <2>2 DEF TakeTxn, sendVars, pollerVars
<1>5. ASSUME NEW p \in Peers, SnapshotTip(p)
      PROVE  DataTypes'
  <2>1. chain[p] # <<>> => Latest(chain[p]) \in Block
    BY ElementOfSeq, LenProperties, EmptySeq DEF Latest
  <2>2. chain[p] # <<>> => /\ Latest(chain[p]).id \in Nat
                          /\ Latest(chain[p]).hash \in Hash
    BY <2>1 DEF Block
  <2>3. NextId(chain[p]) \in Nat /\ TipHash(chain[p]) \in Hash
    BY <2>2, GenesisPrevType DEF NextId, TipHash
  <2> QED
    BY <1>5, <2>3 DEF SnapshotTip, sendVars, pollerVars
<1>6. ASSUME NEW p \in Peers, RestartMining(p)
      PROVE  DataTypes'
  <2>1. txns' \in [Peers -> Seq(Txn)]
    BY <1>6, ConcatProperties DEF RestartMining, Requeue
  <2>2. /\ current' \in [Peers -> Seq(Txn)]
        /\ mineId' \in [Peers -> Nat]
        /\ prevHash' \in [Peers -> Hash]
        /\ mpc' \in [Peers -> {"idle", "snapshot", "attempt", "commit", "send"}]
    BY <1>6, GenesisPrevType DEF RestartMining, MinerDone
  <2> QED
    BY <1>6, <2>1, <2>2 DEF RestartMining, sendVars, pollerVars
<1>7. ASSUME NEW p \in Peers, GiveUpRound(p)
      PROVE  DataTypes'
  BY <1>7, GenesisPrevType DEF GiveUpRound, sendVars, pollerVars
<1>8. ASSUME NEW p \in Peers, FindNonce(p)
      PROVE  DataTypes'
  BY <1>8 DEF FindNonce, sendVars, pollerVars
<1>9. ASSUME NEW p \in Peers, RefuseBlock(p)
      PROVE  DataTypes'
  BY <1>9, GenesisPrevType DEF RefuseBlock, MinerDone, sendVars, pollerVars
<1>10. ASSUME NEW p \in Peers, LoseRace(p)
       PROVE  DataTypes'
  BY <1>10, GenesisPrevType, ConcatProperties
  DEF LoseRace, Requeue, MinerDone, sendVars, pollerVars
<1>11. ASSUME NEW p \in Peers, AppendsBlock(p)
       PROVE  DataTypes'
  <2>1. current[p] # <<>>
    BY <1>11 DEF MinerInv, AppendsBlock, AppendBlock
  <2>2. Extended(p) \in Seq(Block) /\ Outgoing(p) \in Block
    BY <2>1, ExtendedType, OutgoingType
  <2>3. NextStep(p) \in Nat /\ Others(p) \in SUBSET Peers
    BY DEF NextStep, Others
  <2>4. GenesisPrev \in Hash
    BY GenesisPrevType
  <2>5. /\ chain' = [chain EXCEPT ![p] = Extended(p)]
        /\ step' = [step EXCEPT ![p] = NextStep(p)]
        /\ current' = [current EXCEPT ![p] = <<>>]
        /\ mineId' = [mineId EXCEPT ![p] = 0]
        /\ prevHash' = [prevHash EXCEPT ![p] = GenesisPrev]
        /\ UNCHANGED <<state, txns, submitted, inbox, rcv, ppc, asked, reply>>
    BY <1>11, AppendOwnBlockEffect
  <2>6. \/ /\ mpc' = [mpc EXCEPT ![p] = "send"]
           /\ lock' = [lock EXCEPT ![p] = "miner"]
           /\ outgoing' = [outgoing EXCEPT ![p] = <<Outgoing(p)>>]
           /\ sendTo' = [sendTo EXCEPT ![p] = Others(p)]
        \/ /\ mpc' = [mpc EXCEPT ![p] = "idle"]
           /\ lock' = lock /\ outgoing' = outgoing /\ sendTo' = sendTo
    BY <1>11, AppendOwnBlockEffect
  <2> HIDE DEF DataTypes
  <2>7. /\ chain' \in [Peers -> Seq(Block)]
        /\ step' \in [Peers -> Nat]
        /\ current' \in [Peers -> Seq(Txn)]
        /\ mineId' \in [Peers -> Nat]
        /\ prevHash' \in [Peers -> Hash]
    BY <2>2, <2>3, <2>4, <2>5 DEF DataTypes
  <2>8. /\ mpc' \in [Peers -> {"idle", "snapshot", "attempt", "commit", "send"}]
        /\ lock' \in [Peers -> {"free", "miner", "poller"}]
        /\ sendTo' \in [Peers -> SUBSET Peers]
        /\ outgoing' \in [Peers -> Seq(Block)]
    <3>1. <<Outgoing(p)>> \in Seq(Block)
      BY <2>2
    <3>2. CASE /\ mpc' = [mpc EXCEPT ![p] = "send"]
               /\ lock' = [lock EXCEPT ![p] = "miner"]
               /\ outgoing' = [outgoing EXCEPT ![p] = <<Outgoing(p)>>]
               /\ sendTo' = [sendTo EXCEPT ![p] = Others(p)]
      BY <2>3, <3>1, <3>2 DEF DataTypes
    <3>3. CASE /\ mpc' = [mpc EXCEPT ![p] = "idle"]
               /\ lock' = lock /\ outgoing' = outgoing /\ sendTo' = sendTo
      BY <3>3 DEF DataTypes
    <3> QED
      BY <2>6, <3>2, <3>3
  <2> QED
    BY <2>5, <2>7, <2>8 DEF DataTypes
<1>12. ASSUME NEW p \in Peers, NEW q \in Peers, SendBlock(p, q)
       PROVE  DataTypes'
  <2> DEFINE m == BlockMsg(p, Head(outgoing[p]))
  <2>1. outgoing[p] # <<>> /\ outgoing[p] \in Seq(Block)
    BY <1>12 DEF SendBlock, MinerInv
  <2>2. Head(outgoing[p]) \in Block
    BY <2>1, HeadTailProperties
  <2>3. m \in Connection
    BY <2>2 DEF BlockMsg, Connection
  <2>4. /\ inbox' = [inbox EXCEPT ![q] = Append(@, m)]
        /\ sendTo' = [sendTo EXCEPT ![p] = @ \ {q}]
        /\ \/ /\ mpc' = [mpc EXCEPT ![p] = "idle"]
              /\ lock' = [lock EXCEPT ![p] = "free"]
              /\ outgoing' = [outgoing EXCEPT ![p] = <<>>]
           \/ mpc' = mpc /\ lock' = lock /\ outgoing' = outgoing
        /\ UNCHANGED <<chain, state, txns, submitted, current, mineId,
                       prevHash, step, rcv, ppc, asked, reply>>
    BY <1>12, SendBlockEffect
  <2> HIDE DEF m
  <2>5. inbox' \in [Peers -> Seq(Connection)]
    BY <2>3, <2>4, AppendProperties
  <2>6. mpc' \in [Peers -> {"idle", "snapshot", "attempt", "commit", "send"}]
    BY <2>4
  <2>7. lock' \in [Peers -> {"free", "miner", "poller"}]
    BY <2>4
  <2>8. outgoing' \in [Peers -> Seq(Block)]
    <3>1. CASE outgoing' = outgoing
      BY <3>1
    <3>2. CASE outgoing' = [outgoing EXCEPT ![p] = <<>>]
      BY <3>2
    <3> QED
      BY <2>4, <3>1, <3>2
  <2> QED
    BY <2>4, <2>5, <2>6, <2>7, <2>8
<1>13. ASSUME NEW p \in Peers, AcceptBlock(p)
       PROVE  DataTypes'
  <2>1. Head(inbox[p]) \in Connection /\ Tail(inbox[p]) \in Seq(Connection)
    BY <1>13, HeadTailProperties DEF AcceptBlock
  <2>2. rcv[p] \o Head(inbox[p]).payload \in Seq(Block)
    BY <2>1, ConcatProperties DEF Connection
  <2> QED
    BY <1>13, <2>1, <2>2 DEF AcceptBlock, minerVars, sendVars, pollerVars
<1>14. ASSUME NEW p \in Peers, ServeChain(p)
       PROVE  DataTypes'
  <2>1. Head(inbox[p]) \in Connection /\ Tail(inbox[p]) \in Seq(Connection)
    BY <1>14, HeadTailProperties DEF ServeChain
  <2>2. ServedChain(chain[p]) \in Seq(Block)
    <3>1. /\ chain[p] \in Seq(Block)
          /\ \A i \in 1 .. Len(chain[p]) : chain[p][i].id = i - 1
      BY DEF IdsInv
    <3> QED
      BY <3>1, ServedChainIsChain
  <2> QED
    BY <1>14, <2>1, <2>2 DEF ServeChain, Connection, minerVars, sendVars
<1>15. ASSUME NEW p \in Peers, DiscardInvalid(p)
       PROVE  DataTypes'
  BY <1>15, HeadTailProperties
  DEF DiscardInvalid, Polling, Popped, minerVars, sendVars, pollerVars
<1>16. ASSUME NEW p \in Peers, AppendReceived(p)
       PROVE  DataTypes'
  <2>1. Head(rcv[p]) \in Block /\ Tail(rcv[p]) \in Seq(Block)
    BY <1>16, HeadTailProperties DEF AppendReceived, Polling
  <2>2. Append(chain[p], Head(rcv[p])) \in Seq(Block)
    BY <2>1, AppendProperties
  <2> QED
    BY <1>16, <2>1, <2>2
    DEF AppendReceived, Popped, minerVars, sendVars, pollerVars
<1>17. ASSUME NEW p \in Peers, DiscardStale(p)
       PROVE  DataTypes'
  BY <1>17, HeadTailProperties
  DEF DiscardStale, Polling, Popped, minerVars, sendVars, pollerVars
<1>18. ASSUME NEW p \in Peers, DetectFork(p)
       PROVE  DataTypes'
  <2>1. Head(rcv[p]) \in Block /\ Tail(rcv[p]) \in Seq(Block)
    BY <1>18, HeadTailProperties DEF DetectFork, Polling
  <2> QED
    BY <1>18, <2>1 DEF DetectFork, Popped, Block, Txn, minerVars, sendVars
<1>19. ASSUME NEW p \in Peers, AskForChain(p)
       PROVE  DataTypes'
  <2>1. GetChainMsg(p) \in Connection
    BY DEF GetChainMsg, Connection
  <2>2. asked[p] \in Peers
    OBVIOUS
  <2>3. inbox' \in [Peers -> Seq(Connection)]
    BY <1>19, <2>1, <2>2, AppendProperties DEF AskForChain
  <2> QED
    BY <1>19, <2>3 DEF AskForChain, minerVars, sendVars
<1>20. ASSUME NEW p \in Peers, FinishFork(p)
       PROVE  DataTypes'
  BY <1>20 DEF FinishFork, Resume, minerVars, sendVars
<1> QED
  BY <1>1, <1>2, <1>3, <1>4, <1>5, <1>6, <1>7, <1>8, <1>9, <1>10, <1>11,
     <1>12, <1>13, <1>14, <1>15, <1>16, <1>17, <1>18, <1>19, <1>20
  DEF PeersMove, Application, MinerMoves, Listener, Poller

LEMMA TypeStep ==
  ASSUME TypeOK, MinerInv, IdsInv, RequestsInv, [PeersMove]_vars
  PROVE  TypeOK'
<1> DEFINE Ok == /\ state' \in [Peers -> {"WAITING_FOR_CHAIN", "MINING"}]
                 /\ ppc' \in [Peers -> {"idle", "asking", "waiting", "served"}]
<1>1. DataTypes'
  BY DataTyped, DataStep
<1>2. state' = state /\ ppc' = ppc => Ok
  BY DEF TypeOK
<1>3. ASSUME NEW p \in Peers, Application(p)
      PROVE  Ok
  BY <1>2, <1>3 DEF Application, CreatePoll, Vote, Submit, pollerVars
<1>4. ASSUME NEW p \in Peers, MinerMoves(p)
      PROVE  Ok
  <2>1. state' = state /\ ppc' = ppc
    BY <1>4, AppendOwnBlockEffect, SendBlockEffect
    DEF MinerMoves, TakeTxn, SnapshotTip, RestartMining, GiveUpRound, FindNonce,
        RefuseBlock, LoseRace, pollerVars
  <2> QED
    BY <1>2, <2>1
<1>5. ASSUME NEW p \in Peers, Listener(p)
      PROVE  Ok
  <2>1. CASE AcceptBlock(p)
    BY <1>2, <2>1 DEF AcceptBlock, pollerVars
  <2>2. CASE ServeChain(p)
    <3>1. \E r : ppc' = [ppc EXCEPT ![r] = "served"]
      BY <2>2 DEF ServeChain
    <3>2. state' = state
      BY <2>2 DEF ServeChain
    <3> QED
      BY <3>1, <3>2 DEF TypeOK
  <2> QED
    BY <1>5, <2>1, <2>2 DEF Listener
<1>6. ASSUME NEW p \in Peers, Poller(p)
      PROVE  Ok
  <2>1. CASE DiscardInvalid(p) \/ AppendReceived(p) \/ DiscardStale(p)
    BY <1>2, <2>1 DEF DiscardInvalid, AppendReceived, DiscardStale, pollerVars
  <2>2. CASE DetectFork(p)
    BY <2>2 DEF DetectFork, TypeOK
  <2>3. CASE AskForChain(p)
    BY <2>3 DEF AskForChain, TypeOK
  <2>4. CASE FinishFork(p)
    BY <2>4 DEF FinishFork, Resume, TypeOK
  <2> QED
    BY <1>6, <2>1, <2>2, <2>3, <2>4 DEF Poller
<1>7. ASSUME UNCHANGED vars
      PROVE  Ok
  BY <1>2, <1>7 DEF vars, pollerVars
<1>8. Ok
  <2> HIDE DEF Ok
  <2> QED
    BY <1>3, <1>4, <1>5, <1>6, <1>7 DEF PeersMove
<1> QED
  BY <1>1, <1>8 DEF DataTypes, TypeOK

-----------------------------------------------------------------------------
(***************************************************************************)
(* Threads and locks.                                                      *)
(***************************************************************************)
\* A request that is served comes from a poller that waits for it.
LEMMA HeadRequest ==
  ASSUME DataTypes, RequestsInv, NEW p \in Peers, ServeChain(p)
  PROVE  /\ Head(inbox[p]) = inbox[p][1] /\ 1 \in 1 .. Len(inbox[p])
         /\ Head(inbox[p]).from \in Peers
         /\ ppc[Head(inbox[p]).from] = "waiting"
         /\ asked[Head(inbox[p]).from] = p
<1>1. inbox[p] # <<>> /\ inbox[p] \in Seq(Connection)
  BY DEF ServeChain, DataTypes
<1>2. Head(inbox[p]) = inbox[p][1] /\ 1 \in 1 .. Len(inbox[p])
  BY <1>1
<1>3. inbox[p][1] \in Connection
  BY <1>1, <1>2, ElementOfSeq
<1> QED
  BY <1>2, <1>3 DEF ServeChain, RequestsInv, Connection

LEMMA MinerInit == Init => MinerInv
BY DEF Init, MinerInv

LEMMA MinerStep ==
  ASSUME DataTypes, MinerInv, [PeersMove]_vars
  PROVE  MinerInv'
<1>1. ASSUME mpc' = mpc, current' = current, outgoing' = outgoing
      PROVE  MinerInv'
  BY <1>1 DEF MinerInv
<1>2. ASSUME NEW p \in Peers, TakeTxn(p)
      PROVE  MinerInv'
  BY <1>2 DEF MinerInv, DataTypes, TakeTxn, sendVars
<1>3. ASSUME NEW p \in Peers, SnapshotTip(p) \/ GiveUpRound(p) \/ FindNonce(p)
      PROVE  MinerInv'
  BY <1>3 DEF MinerInv, DataTypes, SnapshotTip, GiveUpRound, FindNonce, sendVars
<1>4. ASSUME NEW p \in Peers, RestartMining(p) \/ RefuseBlock(p) \/ LoseRace(p)
      PROVE  MinerInv'
  <2>1. /\ mpc' = [mpc EXCEPT ![p] = "idle"]
        /\ current' = [current EXCEPT ![p] = <<>>]
        /\ outgoing' = outgoing
    BY <1>4 DEF RestartMining, RefuseBlock, LoseRace, MinerDone, sendVars
  <2> QED
    BY <2>1 DEF MinerInv, DataTypes
<1>5. ASSUME NEW p \in Peers, AppendsBlock(p)
      PROVE  MinerInv'
  <2>1. current' = [current EXCEPT ![p] = <<>>]
    BY <1>5, AppendOwnBlockEffect
  <2>2. CASE /\ mpc' = [mpc EXCEPT ![p] = "send"]
             /\ outgoing' = [outgoing EXCEPT ![p] = <<Outgoing(p)>>]
    BY <2>1, <2>2 DEF MinerInv, DataTypes
  <2>3. CASE mpc' = [mpc EXCEPT ![p] = "idle"] /\ outgoing' = outgoing
    BY <2>1, <2>3 DEF MinerInv, DataTypes
  <2> QED
    BY <1>5, <2>2, <2>3, AppendOwnBlockEffect
<1>6. ASSUME NEW p \in Peers, NEW q \in Peers, SendBlock(p, q)
      PROVE  MinerInv'
  <2>1. current' = current
    BY <1>6, SendBlockEffect
  <2>2. CASE mpc' = mpc /\ outgoing' = outgoing
    BY <2>1, <2>2 DEF MinerInv
  <2>3. CASE /\ mpc' = [mpc EXCEPT ![p] = "idle"]
             /\ outgoing' = [outgoing EXCEPT ![p] = <<>>]
    BY <2>1, <2>3 DEF MinerInv, DataTypes
  <2> QED
    BY <1>6, <2>2, <2>3, SendBlockEffect
<1>7. ASSUME NEW p \in Peers, Application(p) \/ Listener(p) \/ Poller(p)
      PROVE  MinerInv'
  BY <1>1, <1>7
  DEF Application, CreatePoll, Vote, Submit, Listener, AcceptBlock, ServeChain,
      Poller, DiscardInvalid, AppendReceived, DiscardStale, DetectFork,
      AskForChain, FinishFork, minerVars, sendVars
<1>8. CASE UNCHANGED vars
  BY <1>1, <1>8 DEF vars, minerVars, sendVars
<1> QED
  BY <1>2, <1>3, <1>4, <1>5, <1>6, <1>7, <1>8 DEF PeersMove, MinerMoves

LEMMA ThreadsInit == Init => ThreadsInv
BY DEF Init, ThreadsInv

LEMMA ThreadsStep ==
  ASSUME TypeOK, ThreadsInv, RequestsInv, [PeersMove]_vars
  PROVE  ThreadsInv'
<1>1. CASE UNCHANGED vars
  BY <1>1 DEF ThreadsInv, vars, minerVars, sendVars, pollerVars
<1>2. ASSUME NEW p \in Peers, NEW name \in PollNames, CreatePoll(p, name)
      PROVE  ThreadsInv'
  BY <1>2 DEF ThreadsInv, TypeOK, CreatePoll, Submit, minerVars, sendVars,
  pollerVars
<1>3. ASSUME NEW p \in Peers, NEW i \in 1 .. Len(chain[p]), Vote(p, i)
      PROVE  ThreadsInv'
  BY <1>3 DEF ThreadsInv, TypeOK, Vote, Submit, minerVars, sendVars,
  pollerVars
<1>4. ASSUME NEW p \in Peers, TakeTxn(p)
      PROVE  ThreadsInv'
  BY <1>4 DEF ThreadsInv, TypeOK, TakeTxn, sendVars, pollerVars
<1>5. ASSUME NEW p \in Peers, SnapshotTip(p)
      PROVE  ThreadsInv'
  BY <1>5 DEF ThreadsInv, TypeOK, SnapshotTip, sendVars, pollerVars
<1>6. ASSUME NEW p \in Peers, RestartMining(p)
      PROVE  ThreadsInv'
  BY <1>6 DEF ThreadsInv, TypeOK, RestartMining, Requeue, MinerDone,
  sendVars, pollerVars
<1>7. ASSUME NEW p \in Peers, GiveUpRound(p)
      PROVE  ThreadsInv'
  BY <1>7 DEF ThreadsInv, TypeOK, GiveUpRound, sendVars, pollerVars
<1>8. ASSUME NEW p \in Peers, FindNonce(p)
      PROVE  ThreadsInv'
  BY <1>8 DEF ThreadsInv, TypeOK, FindNonce, sendVars, pollerVars
<1>9. ASSUME NEW p \in Peers, RefuseBlock(p)
      PROVE  ThreadsInv'
  BY <1>9 DEF ThreadsInv, TypeOK, RefuseBlock, MinerDone, sendVars,
  pollerVars
<1>10. ASSUME NEW p \in Peers, LoseRace(p)
       PROVE  ThreadsInv'
  BY <1>10 DEF ThreadsInv, TypeOK, LoseRace, Requeue, MinerDone, sendVars,
  pollerVars
<1>11. ASSUME NEW p \in Peers, AppendsBlock(p)
       PROVE  ThreadsInv'
  <2>1. /\ mpc[p] = "commit" /\ lock[p] = "free"
        /\ current' = [current EXCEPT ![p] = <<>>]
        /\ ppc' = ppc
    BY <1>11, AppendOwnBlockEffect
  <2>2. CASE /\ mpc' = [mpc EXCEPT ![p] = "send"]
             /\ lock' = [lock EXCEPT ![p] = "miner"]
             /\ outgoing' = [outgoing EXCEPT ![p] = <<Outgoing(p)>>]
    BY <2>1, <2>2 DEF ThreadsInv, TypeOK
  <2>3. CASE /\ mpc' = [mpc EXCEPT ![p] = "idle"]
             /\ lock' = lock /\ outgoing' = outgoing
    BY <2>1, <2>3 DEF ThreadsInv, TypeOK
  <2> QED
    BY <1>11, <2>2, <2>3, AppendOwnBlockEffect
<1>12. ASSUME NEW p \in Peers, NEW q \in Peers, SendBlock(p, q)
       PROVE  ThreadsInv'
  <2>1. mpc[p] = "send" /\ ppc' = ppc /\ current' = current
    BY <1>12, SendBlockEffect
  <2>2. CASE mpc' = mpc /\ lock' = lock /\ outgoing' = outgoing
    BY <2>1, <2>2 DEF ThreadsInv
  <2>3. CASE /\ mpc' = [mpc EXCEPT ![p] = "idle"]
             /\ lock' = [lock EXCEPT ![p] = "free"]
             /\ outgoing' = [outgoing EXCEPT ![p] = <<>>]
    BY <2>1, <2>3 DEF ThreadsInv, TypeOK
  <2> QED
    BY <1>12, <2>2, <2>3, SendBlockEffect
<1>13. ASSUME NEW p \in Peers, AcceptBlock(p)
       PROVE  ThreadsInv'
  BY <1>13 DEF ThreadsInv, TypeOK, AcceptBlock, minerVars, sendVars,
  pollerVars
<1>14. ASSUME NEW p \in Peers, ServeChain(p)
       PROVE  ThreadsInv'
  <2> DEFINE q == Head(inbox[p]).from
  <2>1. ppc[q] = "waiting" /\ q \in Peers
    BY <1>14, HeadRequest, DataTyped
  <2>2. /\ ppc' = [ppc EXCEPT ![q] = "served"]
        /\ UNCHANGED <<lock, mpc, current, outgoing>>
    BY <1>14 DEF ServeChain, minerVars, sendVars
  <2> HIDE DEF q
  <2> QED
    BY <2>1, <2>2 DEF ThreadsInv, TypeOK
<1>15. ASSUME NEW p \in Peers, DiscardInvalid(p)
       PROVE  ThreadsInv'
  BY <1>15 DEF ThreadsInv, TypeOK, DiscardInvalid, Polling, Popped,
  minerVars, sendVars, pollerVars
<1>16. ASSUME NEW p \in Peers, AppendReceived(p)
       PROVE  ThreadsInv'
  BY <1>16 DEF ThreadsInv, TypeOK, AppendReceived, Polling, Popped,
  minerVars, sendVars, pollerVars
<1>17. ASSUME NEW p \in Peers, DiscardStale(p)
       PROVE  ThreadsInv'
  BY <1>17 DEF ThreadsInv, TypeOK, DiscardStale, Polling, Popped, minerVars,
  sendVars, pollerVars
<1>18. ASSUME NEW p \in Peers, DetectFork(p)
       PROVE  ThreadsInv'
  BY <1>18 DEF ThreadsInv, TypeOK, DetectFork, Polling, Popped, minerVars,
  sendVars
<1>19. ASSUME NEW p \in Peers, AskForChain(p)
       PROVE  ThreadsInv'
  BY <1>19 DEF ThreadsInv, TypeOK, AskForChain, minerVars, sendVars
<1>20. ASSUME NEW p \in Peers, FinishFork(p)
       PROVE  ThreadsInv'
  BY <1>20 DEF ThreadsInv, TypeOK, FinishFork, Resume, minerVars, sendVars
<1> QED
  BY <1>1, <1>2, <1>3, <1>4, <1>5, <1>6, <1>7, <1>8, <1>9, <1>10, <1>11,
     <1>12, <1>13, <1>14, <1>15, <1>16, <1>17, <1>18, <1>19, <1>20
  DEF PeersMove, Application, MinerMoves, Listener, Poller

-----------------------------------------------------------------------------
(***************************************************************************)
(* A GET-CHAIN is under way only for a poller that waits for it, and once. *)
(***************************************************************************)
LEMMA InboxTail ==
  ASSUME DataTypes, NEW p \in Peers, inbox[p] # <<>>,
         inbox' = [inbox EXCEPT ![p] = Tail(@)]
  PROVE  /\ \A r \in Peers : r # p => inbox'[r] = inbox[r]
         /\ \A i \in 1 .. Len(inbox'[p]) :
              /\ inbox'[p][i] = inbox[p][i + 1]
              /\ i + 1 \in 1 .. Len(inbox[p])
              /\ i + 1 # 1
<1>1. inbox[p] \in Seq(Connection) /\ Len(inbox[p]) \in Nat
  BY LenProperties DEF DataTypes
<1>2. /\ Len(Tail(inbox[p])) = Len(inbox[p]) - 1
      /\ \A i \in 1 .. Len(Tail(inbox[p])) : Tail(inbox[p])[i] = inbox[p][i + 1]
  BY <1>1, HeadTailProperties
<1> QED
  BY <1>1, <1>2 DEF DataTypes

\* What a connection adds to an inbox.
LEMMA InboxGrows ==
  ASSUME DataTypes, NEW q \in Peers, NEW m \in Connection,
         inbox' = [inbox EXCEPT ![q] = Append(@, m)]
  PROVE  /\ \A r \in Peers : r # q => inbox'[r] = inbox[r]
         /\ Len(inbox[q]) \in Nat
         /\ Len(inbox'[q]) = Len(inbox[q]) + 1
         /\ \A i \in 1 .. Len(inbox[q]) : inbox'[q][i] = inbox[q][i]
         /\ inbox'[q][Len(inbox[q]) + 1] = m
<1>1. inbox[q] \in Seq(Connection) /\ inbox'[q] = Append(inbox[q], m)
      /\ \A r \in Peers : r # q => inbox'[r] = inbox[r]
  BY DEF DataTypes
<1> QED
  BY <1>1, AppendProperties, LenProperties

LEMMA RequestSender ==
  ASSUME DataTypes, NEW p \in Peers, NEW i \in 1 .. Len(inbox[p])
  PROVE  inbox[p][i].from \in Peers
<1>1. inbox[p][i] \in Connection
  BY ElementOfSeq DEF DataTypes
<1> QED
  BY <1>1 DEF Connection

\* The steps that change what a GET-CHAIN is about.
LEMMA RequestSteps ==
  ASSUME [PeersMove]_vars
  PROVE  \/ inbox' = inbox /\ ppc' = ppc /\ asked' = asked
         \/ \E p \in Peers : \/ \E q \in Peers : SendBlock(p, q)
                            \/ Listener(p)
                            \/ DetectFork(p) \/ AskForChain(p) \/ FinishFork(p)
<1> DEFINE Same == inbox' = inbox /\ ppc' = ppc /\ asked' = asked
<1>1. ASSUME NEW p \in Peers, Application(p)
      PROVE  Same
  BY <1>1 DEF Application, CreatePoll, Vote, Submit, pollerVars
<1>2. ASSUME NEW p \in Peers, MinerMoves(p)
      PROVE  Same \/ \E q \in Peers : SendBlock(p, q)
  BY <1>2, AppendOwnBlockEffect
  DEF MinerMoves, TakeTxn, SnapshotTip, RestartMining, GiveUpRound, FindNonce,
      RefuseBlock, LoseRace, pollerVars
<1>3. ASSUME NEW p \in Peers, Poller(p)
      PROVE  Same \/ DetectFork(p) \/ AskForChain(p) \/ FinishFork(p)
  BY <1>3 DEF Poller, DiscardInvalid, AppendReceived, DiscardStale, pollerVars
<1>4. CASE UNCHANGED vars
  BY <1>4 DEF vars, pollerVars
<1> QED
  BY <1>1, <1>2, <1>3, <1>4 DEF PeersMove

LEMMA RequestsInit == Init => RequestsInv
BY DEF Init, RequestsInv

LEMMA RequestsStep ==
  ASSUME DataTypes, MinerInv, RequestsInv, [PeersMove]_vars
  PROVE  RequestsInv'
<1>1. CASE inbox' = inbox /\ ppc' = ppc /\ asked' = asked
  BY <1>1 DEF RequestsInv
<1>2. ASSUME NEW p \in Peers, NEW q \in Peers, SendBlock(p, q)
      PROVE  RequestsInv'
  <2> DEFINE m == BlockMsg(p, Head(outgoing[p]))
  <2>1. /\ inbox' = [inbox EXCEPT ![q] = Append(@, m)]
        /\ ppc' = ppc /\ asked' = asked /\ mpc[p] = "send"
    BY <1>2, SendBlockEffect
  <2>2. Head(outgoing[p]) \in Block
    BY <2>1, HeadTailProperties DEF MinerInv, DataTypes
  <2>3. m \in Connection /\ m.type = "BLOCK"
    BY <2>2 DEF BlockMsg, Connection
  <2> HIDE DEF m
  <2>4. /\ \A r \in Peers : r # q => inbox'[r] = inbox[r]
        /\ Len(inbox[q]) \in Nat
        /\ Len(inbox'[q]) = Len(inbox[q]) + 1
        /\ \A i \in 1 .. Len(inbox[q]) : inbox'[q][i] = inbox[q][i]
        /\ inbox'[q][Len(inbox[q]) + 1].type = "BLOCK"
    BY <2>1, <2>3, InboxGrows
  <2> QED
    BY <2>1, <2>4 DEF RequestsInv
<1>3. ASSUME NEW p \in Peers, AcceptBlock(p)
      PROVE  RequestsInv'
  <2>1. /\ inbox[p] # <<>>
        /\ inbox' = [inbox EXCEPT ![p] = Tail(@)]
        /\ UNCHANGED <<ppc, asked>>
    BY <1>3 DEF AcceptBlock, pollerVars
  <2> QED
    BY <2>1, InboxTail DEF RequestsInv
<1>4. ASSUME NEW p \in Peers, ServeChain(p)
      PROVE  RequestsInv'
  <2> DEFINE q == Head(inbox[p]).from
  <2>1. /\ inbox[p] # <<>>
        /\ inbox' = [inbox EXCEPT ![p] = Tail(@)]
        /\ ppc' = [ppc EXCEPT ![q] = "served"]
        /\ asked' = asked
    BY <1>4 DEF ServeChain
  <2>2. /\ q \in Peers /\ asked[q] = p
        /\ q = inbox[p][1].from /\ inbox[p][1].type = "GET-CHAIN"
        /\ 1 \in 1 .. Len(inbox[p])
    BY <1>4, HeadRequest DEF ServeChain
  <2> HIDE DEF q
  <2>3. \A r \in Peers : r # q => ppc'[r] = ppc[r]
    BY <2>1, <2>2 DEF DataTypes
  <2>4. ASSUME NEW r \in Peers, NEW i \in 1 .. Len(inbox[r]),
               inbox[r][i].type = "GET-CHAIN", inbox[r][i].from = q
        PROVE  r = p /\ i = 1
    BY <2>2, <2>4 DEF RequestsInv
  <2>5. /\ \A r \in Peers : r # p => inbox'[r] = inbox[r]
        /\ \A i \in 1 .. Len(inbox'[p]) :
             /\ inbox'[p][i] = inbox[p][i + 1]
             /\ i + 1 \in 1 .. Len(inbox[p])
             /\ i + 1 # 1
    BY <2>1, InboxTail
  <2>6. ASSUME NEW r \in Peers, NEW i \in 1 .. Len(inbox'[r]),
               inbox'[r][i].type = "GET-CHAIN"
        PROVE  inbox'[r][i].from # q
    BY <2>4, <2>5, <2>6
  <2>7. ASSUME NEW r \in Peers, NEW i \in 1 .. Len(inbox'[r]),
               inbox'[r][i].type = "GET-CHAIN"
        PROVE  inbox'[r][i].from \in Peers
    BY <2>5, <2>7, RequestSender
  <2>8. ASSUME NEW r \in Peers, NEW i \in 1 .. Len(inbox'[r])
        PROVE  \E k \in 1 .. Len(inbox[r]) :
                 /\ inbox'[r][i] = inbox[r][k]
                 /\ k = IF r = p THEN i + 1 ELSE i
    BY <2>5, <2>8
  <2>9. ASSUME NEW r \in Peers, NEW i \in 1 .. Len(inbox'[r]),
               inbox'[r][i].type = "GET-CHAIN"
        PROVE  /\ ppc'[inbox'[r][i].from] = "waiting"
               /\ asked'[inbox'[r][i].from] = r
    <3>1. PICK k \in 1 .. Len(inbox[r]) : inbox'[r][i] = inbox[r][k]
      BY <2>8
    <3>2. /\ ppc[inbox'[r][i].from] = "waiting"
          /\ asked[inbox'[r][i].from] = r
      BY <2>9, <3>1 DEF RequestsInv
    <3> QED
      BY <2>1, <2>3, <2>6, <2>7, <2>9, <3>2
  <2>10. ASSUME NEW r \in Peers, NEW i \in 1 .. Len(inbox'[r]),
                NEW j \in 1 .. Len(inbox'[r]),
                inbox'[r][i].type = "GET-CHAIN",
                inbox'[r][j].type = "GET-CHAIN",
                inbox'[r][j].from = inbox'[r][i].from
         PROVE  i = j
    <3>1. PICK k \in 1 .. Len(inbox[r]) :
                 /\ inbox'[r][i] = inbox[r][k]
                 /\ k = IF r = p THEN i + 1 ELSE i
      BY <2>8
    <3>2. PICK l \in 1 .. Len(inbox[r]) :
                 /\ inbox'[r][j] = inbox[r][l]
                 /\ l = IF r = p THEN j + 1 ELSE j
      BY <2>8
    <3>3. k = l
      BY <2>10, <3>1, <3>2 DEF RequestsInv
    <3> QED
      BY <3>1, <3>2, <3>3
  <2> QED
    BY <2>9, <2>10 DEF RequestsInv
<1>5. ASSUME NEW p \in Peers, DetectFork(p)
      PROVE  RequestsInv'
  <2>1. /\ ppc[p] = "idle"
        /\ ppc' = [ppc EXCEPT ![p] = "asking"]
        /\ asked' = [asked EXCEPT ![p] = Head(rcv[p]).txn.sender]
        /\ inbox' = inbox
    BY <1>5 DEF DetectFork, Polling, Popped, minerVars, sendVars
  <2>2. \A r \in Peers : r # p => ppc'[r] = ppc[r] /\ asked'[r] = asked[r]
    BY <2>1 DEF DataTypes
  <2> QED
    BY <2>1, <2>2, RequestSender DEF RequestsInv
<1>6. ASSUME NEW p \in Peers, AskForChain(p)
      PROVE  RequestsInv'
  <2> DEFINE q == asked[p]
             m == GetChainMsg(p)
  <2>1. /\ q \in Peers /\ ppc[p] = "asking"
        /\ inbox' = [inbox EXCEPT ![q] = Append(@, m)]
        /\ asked' = asked
        /\ ppc'[p] = "waiting"
        /\ \A r \in Peers : r # p => ppc'[r] = ppc[r]
    BY <1>6 DEF AskForChain, DataTypes
  <2>2. m \in Connection /\ m.type = "GET-CHAIN" /\ m.from = p
    BY EmptySeq DEF GetChainMsg, Connection
  <2> HIDE DEF m, q
  <2>3. /\ \A r \in Peers : r # q => inbox'[r] = inbox[r]
        /\ Len(inbox[q]) \in Nat
        /\ Len(inbox'[q]) = Len(inbox[q]) + 1
        /\ \A i \in 1 .. Len(inbox[q]) : inbox'[q][i] = inbox[q][i]
        /\ inbox'[q][Len(inbox[q]) + 1] = m
    BY <2>1, <2>2, InboxGrows
  <2>4. ASSUME NEW r \in Peers, NEW i \in 1 .. Len(inbox[r]),
               inbox[r][i].type = "GET-CHAIN"
        PROVE  inbox[r][i].from \in Peers \ {p}
    BY <2>1, <2>4, RequestSender DEF RequestsInv
  <2>5. ASSUME NEW i \in 1 .. Len(inbox'[q]), i \notin 1 .. Len(inbox[q])
        PROVE  i = Len(inbox[q]) + 1
    BY <2>3, <2>5
  <2>6. asked'[p] = q
    BY <2>1 DEF q
  <2> QED
    BY <2>1, <2>2, <2>3, <2>4, <2>5, <2>6 DEF RequestsInv
<1>7. ASSUME NEW p \in Peers, FinishFork(p)
      PROVE  RequestsInv'
  <2>1. /\ ppc[p] = "served"
        /\ ppc' = [ppc EXCEPT ![p] = "idle"]
        /\ asked' = [asked EXCEPT ![p] = p]
        /\ inbox' = inbox
    BY <1>7 DEF FinishFork, Resume, minerVars, sendVars
  <2>2. \A r \in Peers : r # p => ppc'[r] = ppc[r] /\ asked'[r] = asked[r]
    BY <2>1 DEF DataTypes
  <2> QED
    BY <2>1, <2>2, RequestSender DEF RequestsInv
<1> QED
  BY <1>1, <1>2, <1>3, <1>4, <1>5, <1>6, <1>7, RequestSteps DEF Listener

-----------------------------------------------------------------------------
(***************************************************************************)
(* The blocks under way have whatever property the blocks sent have.       *)
(***************************************************************************)
LEMMA TrafficInit ==
  ASSUME NEW S, Init
  PROVE  Traffic(S)
<1>1. \A p \in Peers : outgoing[p] = <<>> /\ rcv[p] = <<>> /\ inbox[p] = <<>>
  BY DEF Init
<1> QED
  BY <1>1, EmptySeq DEF Traffic

LEMMA TrafficStep ==
  ASSUME NEW S, DataTypes, MinerInv, Traffic(S), \A p \in Peers :
    AppendsBlock(p) => Outgoing(p) \in S, [PeersMove]_vars
  PROVE  Traffic(S)'
<1>1. CASE UNCHANGED vars
  BY <1>1 DEF Traffic, vars, minerVars, sendVars, pollerVars
<1>2. ASSUME NEW p \in Peers, NEW name \in PollNames, CreatePoll(p, name)
      PROVE  Traffic(S)'
  BY <1>2 DEF Traffic, CreatePoll, Submit, minerVars, sendVars,
  pollerVars
<1>3. ASSUME NEW p \in Peers, NEW i \in 1 .. Len(chain[p]), Vote(p, i)
      PROVE  Traffic(S)'
  BY <1>3 DEF Traffic, Vote, Submit, minerVars, sendVars,
  pollerVars
<1>4. ASSUME NEW p \in Peers, TakeTxn(p)
      PROVE  Traffic(S)'
  BY <1>4 DEF Traffic, TakeTxn, sendVars, pollerVars
<1>5. ASSUME NEW p \in Peers, SnapshotTip(p)
      PROVE  Traffic(S)'
  BY <1>5 DEF Traffic, SnapshotTip, sendVars, pollerVars
<1>6. ASSUME NEW p \in Peers, RestartMining(p)
      PROVE  Traffic(S)'
  BY <1>6 DEF Traffic, RestartMining, Requeue, MinerDone,
  sendVars, pollerVars
<1>7. ASSUME NEW p \in Peers, GiveUpRound(p)
      PROVE  Traffic(S)'
  BY <1>7 DEF Traffic, GiveUpRound, sendVars, pollerVars
<1>8. ASSUME NEW p \in Peers, FindNonce(p)
      PROVE  Traffic(S)'
  BY <1>8 DEF Traffic, FindNonce, sendVars, pollerVars
<1>9. ASSUME NEW p \in Peers, RefuseBlock(p)
      PROVE  Traffic(S)'
  BY <1>9 DEF Traffic, RefuseBlock, MinerDone, sendVars,
  pollerVars
<1>10. ASSUME NEW p \in Peers, LoseRace(p)
       PROVE  Traffic(S)'
  BY <1>10 DEF Traffic, LoseRace, Requeue, MinerDone, sendVars,
  pollerVars
<1>11. ASSUME NEW p \in Peers, AppendsBlock(p)
       PROVE  Traffic(S)'
  <2>1. UNCHANGED <<inbox, rcv>> /\ <<Outgoing(p)>> \in Seq(S)
    BY <1>11, AppendOwnBlockEffect
  <2>2. CASE outgoing' = [outgoing EXCEPT ![p] = <<Outgoing(p)>>]
    BY <2>1, <2>2 DEF Traffic, DataTypes
  <2>3. CASE outgoing' = outgoing
    BY <2>1, <2>3 DEF Traffic
  <2> QED
    BY <1>11, <2>2, <2>3, AppendOwnBlockEffect
<1>12. ASSUME NEW p \in Peers, NEW q \in Peers, SendBlock(p, q)
       PROVE  Traffic(S)'
  <2> DEFINE m == BlockMsg(p, Head(outgoing[p]))
  <2>1. /\ inbox' = [inbox EXCEPT ![q] = Append(@, m)]
        /\ rcv' = rcv
        /\ mpc[p] = "send"
    BY <1>12, SendBlockEffect
  <2>2. Head(outgoing[p]) \in S
    BY <2>1, HeadTailProperties DEF Traffic, MinerInv
  <2>3. m \in Carrying(S)
    BY <2>2 DEF BlockMsg, Carrying
  <2> HIDE DEF m
  <2>4. Append(inbox[q], m) \in Seq(Carrying(S))
    BY <2>3, AppendProperties DEF Traffic
  <2>5. CASE outgoing' = outgoing
    BY <2>1, <2>4, <2>5 DEF Traffic, DataTypes
  <2>6. CASE outgoing' = [outgoing EXCEPT ![p] = <<>>]
    BY <2>1, <2>4, <2>6, EmptySeq DEF Traffic, DataTypes
  <2> QED
    BY <1>12, <2>5, <2>6, SendBlockEffect
<1>13. ASSUME NEW p \in Peers, AcceptBlock(p)
       PROVE  Traffic(S)'
  <2>1. /\ inbox[p] # <<>>
        /\ inbox' = [inbox EXCEPT ![p] = Tail(@)]
        /\ rcv' = [rcv EXCEPT ![p] = @ \o Head(inbox[p]).payload]
        /\ outgoing' = outgoing
    BY <1>13 DEF AcceptBlock, sendVars
  <2>2. /\ Head(inbox[p]) \in Carrying(S)
        /\ Tail(inbox[p]) \in Seq(Carrying(S))
    BY <2>1, HeadTailProperties DEF Traffic
  <2>3. Head(inbox[p]).payload \in Seq(S)
    BY <2>2 DEF Carrying
  <2>4. rcv[p] \o Head(inbox[p]).payload \in Seq(S)
    BY <2>3, ConcatProperties DEF Traffic
  <2> QED
    BY <2>1, <2>2, <2>4 DEF Traffic, DataTypes
<1>14. ASSUME NEW p \in Peers, ServeChain(p)
       PROVE  Traffic(S)'
  <2>1. /\ inbox[p] # <<>>
        /\ inbox' = [inbox EXCEPT ![p] = Tail(@)]
        /\ UNCHANGED <<outgoing, rcv>>
    BY <1>14 DEF ServeChain, sendVars
  <2>2. Tail(inbox[p]) \in Seq(Carrying(S))
    BY <2>1, HeadTailProperties DEF Traffic
  <2> QED
    BY <2>1, <2>2 DEF Traffic, DataTypes
<1>15. ASSUME NEW p \in Peers, DiscardInvalid(p)
       PROVE  Traffic(S)'
  <2>1. /\ rcv' = [rcv EXCEPT ![p] = Tail(@)] /\ rcv[p] # <<>>
        /\ UNCHANGED <<outgoing, inbox>>
    BY <1>15 DEF DiscardInvalid, Polling, Popped, minerVars, sendVars, pollerVars
  <2>2. Tail(rcv[p]) \in Seq(S)
    BY <2>1, HeadTailProperties DEF Traffic
  <2> QED
    BY <2>1, <2>2 DEF Traffic, DataTypes
<1>16. ASSUME NEW p \in Peers, AppendReceived(p)
       PROVE  Traffic(S)'
  <2>1. /\ rcv' = [rcv EXCEPT ![p] = Tail(@)] /\ rcv[p] # <<>>
        /\ UNCHANGED <<outgoing, inbox>>
    BY <1>16 DEF AppendReceived, Polling, Popped, minerVars, sendVars, pollerVars
  <2>2. Tail(rcv[p]) \in Seq(S)
    BY <2>1, HeadTailProperties DEF Traffic
  <2> QED
    BY <2>1, <2>2 DEF Traffic, DataTypes
<1>17. ASSUME NEW p \in Peers, DiscardStale(p)
       PROVE  Traffic(S)'
  <2>1. /\ rcv' = [rcv EXCEPT ![p] = Tail(@)] /\ rcv[p] # <<>>
        /\ UNCHANGED <<outgoing, inbox>>
    BY <1>17 DEF DiscardStale, Polling, Popped, minerVars, sendVars, pollerVars
  <2>2. Tail(rcv[p]) \in Seq(S)
    BY <2>1, HeadTailProperties DEF Traffic
  <2> QED
    BY <2>1, <2>2 DEF Traffic, DataTypes
<1>18. ASSUME NEW p \in Peers, DetectFork(p)
       PROVE  Traffic(S)'
  <2>1. /\ rcv' = [rcv EXCEPT ![p] = Tail(@)] /\ rcv[p] # <<>>
        /\ UNCHANGED <<outgoing, inbox>>
    BY <1>18 DEF DetectFork, Polling, Popped, minerVars, sendVars
  <2>2. Tail(rcv[p]) \in Seq(S)
    BY <2>1, HeadTailProperties DEF Traffic
  <2> QED
    BY <2>1, <2>2 DEF Traffic, DataTypes
<1>19. ASSUME NEW p \in Peers, AskForChain(p)
       PROVE  Traffic(S)'
  <2>1. /\ inbox' = [inbox EXCEPT ![asked[p]] = Append(@, GetChainMsg(p))]
        /\ UNCHANGED <<outgoing, rcv>>
        /\ asked[p] \in Peers
    BY <1>19 DEF AskForChain, sendVars, DataTypes
  <2>2. GetChainMsg(p) \in Carrying(S)
    BY EmptySeq DEF GetChainMsg, Carrying
  <2>3. Append(inbox[asked[p]], GetChainMsg(p)) \in Seq(Carrying(S))
    BY <2>1, <2>2, AppendProperties DEF Traffic
  <2> QED
    BY <2>1, <2>3 DEF Traffic, DataTypes
<1>20. ASSUME NEW p \in Peers, FinishFork(p)
       PROVE  Traffic(S)'
  BY <1>20 DEF Traffic, FinishFork, Resume, minerVars, sendVars
<1> QED
  BY <1>1, <1>2, <1>3, <1>4, <1>5, <1>6, <1>7, <1>8, <1>9, <1>10, <1>11,
     <1>12, <1>13, <1>14, <1>15, <1>16, <1>17, <1>18, <1>19, <1>20
  DEF PeersMove, Application, MinerMoves, Listener, Poller

-----------------------------------------------------------------------------
(***************************************************************************)
(* The queue.                                                              *)
(***************************************************************************)
LEMMA ConsHeadTail ==
  ASSUME NEW S, NEW s \in Seq(S), s # <<>>
  PROVE  <<Head(s)>> \o Tail(s) = s
<1>1. /\ Head(s) \in S /\ Tail(s) \in Seq(S)
      /\ Len(Tail(s)) = Len(s) - 1
      /\ \A i \in 1 .. Len(Tail(s)) : Tail(s)[i] = s[i + 1]
  BY HeadTailProperties
<1>2. Len(s) \in Nat \ {0} /\ Head(s) = s[1]
  BY EmptySeq
<1>3. <<Head(s)>> \in Seq(S) /\ Len(<<Head(s)>>) = 1
  BY <1>1
<1>4. /\ <<Head(s)>> \o Tail(s) \in Seq(S)
      /\ Len(<<Head(s)>> \o Tail(s)) = 1 + Len(Tail(s))
      /\ \A i \in 1 .. 1 + Len(Tail(s)) :
           (<<Head(s)>> \o Tail(s))[i] = IF i <= 1 THEN <<Head(s)>>[i]
                                                  ELSE Tail(s)[i - 1]
  BY <1>1, <1>3, ConcatProperties
<1>5. ASSUME NEW i \in 1 .. Len(s)
      PROVE  (<<Head(s)>> \o Tail(s))[i] = s[i]
  <2>1. CASE i = 1
    BY <1>1, <1>2, <1>4, <2>1
  <2>2. CASE i # 1
    BY <1>1, <1>2, <1>4, <2>2
  <2> QED
    BY <2>1, <2>2
<1> QED
  BY <1>1, <1>2, <1>4, <1>5, SeqEqual

\* The only steps that touch the queue or the miner's hand.
LEMMA QueueSteps ==
  ASSUME DataTypes, [PeersMove]_vars, NEW p \in Peers
  PROVE  \/ /\ txns'[p] = txns[p] /\ current'[p] = current[p]
            /\ submitted'[p] = submitted[p]
         \/ \E t \in Txn : /\ t.sender = p /\ t.stamp = submitted[p] + 1
                           /\ Submit(p, t)
         \/ TakeTxn(p)
         \/ /\ txns'[p] = current[p] \o txns[p] /\ current'[p] = <<>>
            /\ submitted'[p] = submitted[p]
         \/ /\ txns'[p] = txns[p] /\ current'[p] = <<>>
            /\ submitted'[p] = submitted[p]
<1> DEFINE Same == /\ txns'[p] = txns[p] /\ current'[p] = current[p]
                   /\ submitted'[p] = submitted[p]
           Submits == \E t \in Txn : /\ t.sender = p
                                     /\ t.stamp = submitted[p] + 1
                                     /\ Submit(p, t)
           Back == /\ txns'[p] = current[p] \o txns[p] /\ current'[p] = <<>>
                   /\ submitted'[p] = submitted[p]
           Settled == /\ txns'[p] = txns[p] /\ current'[p] = <<>>
                      /\ submitted'[p] = submitted[p]
<1>1. /\ txns \in [Peers -> Seq(Txn)] /\ current \in [Peers -> Seq(Txn)]
      /\ submitted \in [Peers -> Nat]
  BY DEF DataTypes
<1>2. ASSUME NEW q \in Peers, Application(q)
      PROVE  Same \/ Submits
  <2>1. CASE q = p
    BY <1>2, <2>1, CreatePollSubmits, VoteSubmits DEF Application
  <2>2. CASE q # p
    BY <1>1, <1>2, <2>2 DEF Application, CreatePoll, Vote, Submit, minerVars
  <2> QED
    BY <2>1, <2>2
<1>3. ASSUME NEW q \in Peers, MinerMoves(q)
      PROVE  Same \/ TakeTxn(p) \/ Back \/ Settled
  <2>1. ASSUME NEW r \in Peers, SendBlock(q, r)
        PROVE  Same
    BY <2>1, SendBlockEffect
  <2>2. CASE AppendsBlock(q)
    <3>1. /\ current' = [current EXCEPT ![q] = <<>>]
          /\ UNCHANGED <<txns, submitted>>
      BY <2>2, AppendOwnBlockEffect
    <3> QED
      BY <1>1, <3>1
  <2>3. CASE q = p
    BY <1>1, <1>3, <2>1, <2>2, <2>3
    DEF MinerMoves, SnapshotTip, RestartMining, GiveUpRound, FindNonce,
        RefuseBlock, LoseRace, Requeue, MinerDone
  <2>4. CASE q # p
    BY <1>1, <1>3, <2>1, <2>2, <2>4
    DEF MinerMoves, TakeTxn, SnapshotTip, RestartMining, GiveUpRound, FindNonce,
        RefuseBlock, LoseRace, Requeue, MinerDone
  <2> QED
    BY <2>3, <2>4
<1>4. ASSUME NEW q \in Peers, Listener(q)
      PROVE  Same
  BY <1>4 DEF Listener, AcceptBlock, ServeChain, minerVars
<1>5. ASSUME NEW q \in Peers, Poller(q)
      PROVE  Same
  BY <1>5 DEF Poller, DiscardInvalid, AppendReceived, DiscardStale,
              DetectFork, AskForChain, FinishFork, minerVars
<1>6. ASSUME UNCHANGED vars
      PROVE  Same
  BY <1>6 DEF vars, minerVars
<1> HIDE DEF Same, Submits, Back, Settled
<1>7. Same \/ Submits \/ TakeTxn(p) \/ Back \/ Settled
  BY <1>2, <1>3, <1>4, <1>5, <1>6 DEF PeersMove
<1> QED
  BY <1>7 DEF Same, Submits, Back, Settled

LEMMA PendingInit == Init => PendingInOrder
<1>1. <<>> \o <<>> = <<>>
  OBVIOUS
<1> QED
  BY <1>1 DEF Init, PendingInOrder, Pending

LEMMA PendingStep ==
  ASSUME DataTypes, PendingInOrder, [PeersMove]_vars
  PROVE  PendingInOrder'
<1> SUFFICES ASSUME NEW p \in Peers, NEW i \in 1 .. Len(Pending(p)')
             PROVE  /\ Pending(p)'[i].sender = p
                    /\ Pending(p)'[i].stamp =
                         submitted'[p] - Len(Pending(p)') + i
  BY DEF PendingInOrder
<1> DEFINE a == current[p]
           b == txns[p]
           n == submitted[p]
<1>1. /\ a \in Seq(Txn) /\ b \in Seq(Txn) /\ n \in Nat
      /\ txns \in [Peers -> Seq(Txn)] /\ current \in [Peers -> Seq(Txn)]
      /\ submitted \in [Peers -> Nat]
  BY DEF DataTypes
<1>2. \A k \in 1 .. Len(a \o b) : /\ (a \o b)[k].sender = p
                                  /\ (a \o b)[k].stamp = n - Len(a \o b) + k
  BY DEF PendingInOrder, Pending
<1>3. Pending(p)' = current'[p] \o txns'[p]
  BY DEF Pending
<1>4. a \o b \in Seq(Txn) /\ <<>> \o b = b /\ <<>> \o (a \o b) = a \o b
  BY <1>1, ConcatProperties, ConcatEmptySeq
<1>5. ASSUME Pending(p)' = a \o b, submitted'[p] = n
      PROVE  /\ Pending(p)'[i].sender = p
             /\ Pending(p)'[i].stamp = submitted'[p] - Len(Pending(p)') + i
  BY <1>2, <1>5
<1>6. CASE txns'[p] = b /\ current'[p] = a /\ submitted'[p] = n
  BY <1>3, <1>5, <1>6
<1>7. ASSUME NEW t \in Txn, t.sender = p, t.stamp = n + 1, Submit(p, t)
      PROVE  /\ Pending(p)'[i].sender = p
             /\ Pending(p)'[i].stamp = submitted'[p] - Len(Pending(p)') + i
  <2>1. txns'[p] = Append(b, t) /\ current'[p] = a /\ submitted'[p] = n + 1
    BY <1>1, <1>7 DEF Submit, minerVars
  <2>2. a \o Append(b, t) = Append(a \o b, t)
    BY <1>1
  <2>3. Pending(p)' = Append(a \o b, t)
    BY <1>3, <2>1, <2>2
  <2> DEFINE s == a \o b
  <2>4. s \in Seq(Txn) /\ Len(s) \in Nat
    BY <1>4, LenProperties
  <2>5. \A k \in 1 .. Len(s) : s[k].sender = p /\ s[k].stamp = n - Len(s) + k
    BY <1>2
  <2> HIDE DEF s
  <2>6. /\ Len(Append(s, t)) = Len(s) + 1
        /\ \A k \in 1 .. Len(s) : Append(s, t)[k] = s[k]
        /\ Append(s, t)[Len(s) + 1] = t
    BY <2>4, AppendProperties
  <2>7. Pending(p)' = Append(s, t)
    BY <2>3 DEF s
  <2> HIDE DEF n
  <2>8. i \in 1 .. Len(s) \/ i = Len(s) + 1
    BY <2>4, <2>6, <2>7
  <2>9. CASE i \in 1 .. Len(s)
    <3>1. Pending(p)'[i] = s[i] /\ Len(Pending(p)') = Len(s) + 1
      BY <2>6, <2>7, <2>9
    <3>2. s[i].sender = p /\ s[i].stamp = n - Len(s) + i
      BY <2>5, <2>9
    <3> QED
      BY <1>1, <2>1, <2>4, <3>1, <3>2
  <2>10. CASE i = Len(s) + 1
    <3>1. Pending(p)'[i] = t /\ Len(Pending(p)') = Len(s) + 1
      BY <2>6, <2>7, <2>10
    <3> QED
      BY <1>1, <1>7, <2>1, <2>4, <2>10, <3>1
  <2> QED
    BY <2>8, <2>9, <2>10
<1>8. CASE TakeTxn(p)
  <2>1. /\ a \o b # <<>>
        /\ current'[p] = <<Head(a \o b)>> /\ txns'[p] = Tail(a \o b)
        /\ submitted'[p] = n
    BY <1>1, <1>8 DEF TakeTxn
  <2>2. <<Head(a \o b)>> \o Tail(a \o b) = a \o b
    BY <1>4, <2>1, ConsHeadTail
  <2> QED
    BY <1>3, <1>5, <2>1, <2>2
<1>9. CASE txns'[p] = a \o b /\ current'[p] = <<>> /\ submitted'[p] = n
  BY <1>3, <1>4, <1>5, <1>9
<1>10. CASE txns'[p] = b /\ current'[p] = <<>> /\ submitted'[p] = n
  <2>1. Pending(p)' = b
    BY <1>3, <1>4, <1>10
  <2>2. /\ Len(a) \in Nat /\ Len(b) \in Nat
        /\ Len(a \o b) = Len(a) + Len(b)
        /\ \A k \in 1 .. Len(b) : (a \o b)[Len(a) + k] = b[k]
        /\ \A k \in 1 .. Len(b) : Len(a) + k \in 1 .. Len(a \o b)
    BY <1>1, ConcatProperties, LenProperties
  <2> HIDE DEF a, b, n
  <2>3. i \in 1 .. Len(b)
    BY <2>1
  <2>4. b[i].sender = p /\ b[i].stamp = n - Len(a \o b) + (Len(a) + i)
    BY <1>2, <2>2, <2>3
  <2> QED
    BY <1>1, <1>10, <2>1, <2>2, <2>3, <2>4
<1> QED
  BY <1>6, <1>7, <1>8, <1>9, <1>10, QueueSteps

\* What the miner has in hand is its own.
LEMMA OwnTxnInHand ==
  ASSUME DataTypes, PendingInOrder, NEW p \in Peers, current[p] # <<>>
  PROVE  Head(current[p]).sender = p
<1>1. current[p] \in Seq(Txn) /\ txns[p] \in Seq(Txn)
  BY DEF DataTypes
<1>2. Len(current[p]) \in Nat \ {0}
  BY <1>1, EmptySeq
<1>3. Len(txns[p]) \in Nat
  BY <1>1, LenProperties
<1> DEFINE s == current[p] \o txns[p]
           n == Len(current[p])
           m == Len(txns[p])
<1>4. /\ Len(s) = n + m
      /\ \A i \in 1 .. n + m :
           s[i] = IF i <= n THEN current[p][i] ELSE txns[p][i - n]
  BY <1>1, ConcatProperties
<1>5. n \in Nat \ {0} /\ m \in Nat /\ Head(current[p]) = current[p][1]
  BY <1>1, <1>2, <1>3
<1>6. \A i \in 1 .. Len(s) : s[i].sender = p
  BY DEF PendingInOrder, Pending
<1> HIDE DEF s, n, m
<1>7. 1 \in 1 .. Len(s) /\ s[1] = current[p][1]
  BY <1>4, <1>5
<1> QED
  BY <1>5, <1>6, <1>7

-----------------------------------------------------------------------------
(***************************************************************************)
(* The chain.  The miner's block fits, though the miner compares only ids. *)
(***************************************************************************)
\* The miner's block fits the chain, though only ids are compared.
LEMMA AppendOwnBlockAtTip ==
  ASSUME DataTypes, MinerInv, IdsInv, SnapshotInv,
         NEW p \in Peers, AppendsBlock(p)
  PROVE  /\ current[p] # <<>>
         /\ mineId[p] = Len(chain[p])
         /\ prevHash[p] = TipHash(chain[p])
<1>1. mpc[p] = "commit" /\ TipAsExpected(p)
  BY DEF AppendsBlock, AppendBlock
<1>2. chain[p] \in Seq(Block) /\ mineId[p] \in Nat
  BY DEF DataTypes
<1>3. mineId[p] <= Len(chain[p])
  BY <1>1 DEF SnapshotInv
<1>4. Len(chain[p]) \in Nat
  BY <1>2, LenProperties
<1>5. mineId[p] = Len(chain[p])
  <2>1. CASE chain[p] = <<>>
    BY <1>2, <1>3, <1>4, <2>1
  <2>2. CASE chain[p] # <<>>
    <3>1. Len(chain[p]) \in 1 .. Len(chain[p])
      BY <1>2, <2>2
    <3>2. chain[p][Len(chain[p])].id = Len(chain[p]) - 1
      BY <3>1 DEF IdsInv
    <3>3. chain[p][Len(chain[p])].id + 1 = mineId[p]
      BY <1>1, <2>2 DEF TipAsExpected, Latest
    <3> QED
      BY <1>4, <3>2, <3>3
  <2> QED
    BY <2>1, <2>2
<1> QED
  BY <1>1, <1>5 DEF SnapshotInv, MinerInv

\* The chain after the miner's append.
LEMMA AppendOwnBlockChain ==
  ASSUME DataTypes, MinerInv, NEW p \in Peers, AppendsBlock(p)
  PROVE  /\ chain'[p] = Extended(p)
         /\ \A q \in Peers : q # p => chain'[q] = chain[q]
         /\ Len(chain'[p]) = Len(chain[p]) + 1
         /\ \A i \in 1 .. Len(chain[p]) : chain'[p][i].id = chain[p][i].id
         /\ chain'[p][Len(chain[p]) + 1].id = mineId[p]
<1>1. current[p] # <<>> /\ chain[p] \in Seq(Block)
  BY DEF AppendsBlock, AppendBlock, MinerInv, DataTypes
<1>2. /\ chain'[p] = Extended(p)
      /\ \A q \in Peers : q # p => chain'[q] = chain[q]
  BY AppendOwnBlockEffect DEF DataTypes
<1> DEFINE c == Append(chain[p], NewBlock(p))
<1>3. /\ Len(c) = Len(chain[p]) + 1
      /\ \A i \in 1 .. Len(chain[p]) : c[i] = chain[p][i]
      /\ c[Len(chain[p]) + 1] = NewBlock(p)
      /\ Len(chain[p]) \in Nat
  BY <1>1, NewBlockType, AppendProperties, LenProperties
<1>4. SameButHashes(c, Extended(p))
  BY <1>1, ExtendedType
<1>5. NewBlock(p).id = mineId[p]
  BY DEF NewBlock, MinedBlock
<1> HIDE DEF c
<1> QED
  BY <1>2, <1>3, <1>4, <1>5 DEF SameButHashes

\* Only three steps change a chain.
LEMMA ChainSteps ==
  ASSUME [PeersMove]_vars
  PROVE  \/ chain' = chain
         \/ \E p \in Peers : AppendsBlock(p) \/ AppendReceived(p) \/ FinishFork(p)
<1> DEFINE Changed == \E p \in Peers : \/ AppendsBlock(p)
                                       \/ AppendReceived(p)
                                       \/ FinishFork(p)
<1>1. ASSUME NEW p \in Peers, Application(p)
      PROVE  chain' = chain
  BY <1>1 DEF Application, CreatePoll, Vote, Submit
<1>2. ASSUME NEW p \in Peers, MinerMoves(p)
      PROVE  chain' = chain \/ AppendsBlock(p)
  BY <1>2, SendBlockEffect
  DEF MinerMoves, TakeTxn, SnapshotTip, RestartMining, GiveUpRound, FindNonce,
      RefuseBlock, LoseRace
<1>3. ASSUME NEW p \in Peers, Listener(p)
      PROVE  chain' = chain
  BY <1>3 DEF Listener, AcceptBlock, ServeChain
<1>4. ASSUME NEW p \in Peers, Poller(p)
      PROVE  chain' = chain \/ AppendReceived(p) \/ FinishFork(p)
  BY <1>4 DEF Poller, DiscardInvalid, DiscardStale, DetectFork, AskForChain
<1> QED
  BY <1>1, <1>2, <1>3, <1>4 DEF PeersMove, vars

\* Chains only grow.
LEMMA ChainsGrow ==
  ASSUME DataTypes, MinerInv, [PeersMove]_vars
  PROVE  \A q \in Peers : \/ chain'[q] = chain[q]
                          \/ Len(chain'[q]) > Len(chain[q])
<1>1. CASE chain' = chain
  BY <1>1
<1>2. ASSUME NEW p \in Peers, AppendsBlock(p)
      PROVE  \A q \in Peers : \/ chain'[q] = chain[q]
                              \/ Len(chain'[q]) > Len(chain[q])
  <2>1. Len(chain[p]) \in Nat
    BY LenProperties DEF DataTypes
  <2>2. /\ Len(chain'[p]) = Len(chain[p]) + 1
        /\ \A q \in Peers : q # p => chain'[q] = chain[q]
    BY <1>2, AppendOwnBlockChain
  <2> QED
    BY <2>1, <2>2
<1>3. ASSUME NEW p \in Peers, AppendReceived(p)
      PROVE  \A q \in Peers : \/ chain'[q] = chain[q]
                              \/ Len(chain'[q]) > Len(chain[q])
  <2>1. Head(rcv[p]) \in Block
    BY <1>3, HeadTailProperties DEF AppendReceived, Polling, DataTypes
  <2>2. chain' = [chain EXCEPT ![p] = Append(chain[p], Head(rcv[p]))]
    BY <1>3 DEF AppendReceived
  <2>3. Len(Append(chain[p], Head(rcv[p]))) = Len(chain[p]) + 1
        /\ Len(chain[p]) \in Nat
    BY <2>1, AppendProperties, LenProperties DEF DataTypes
  <2> QED
    BY <2>2, <2>3 DEF DataTypes
<1>4. ASSUME NEW p \in Peers, FinishFork(p)
      PROVE  \A q \in Peers : \/ chain'[q] = chain[q]
                              \/ Len(chain'[q]) > Len(chain[q])
  BY <1>4 DEF FinishFork, Adoptable, DataTypes
<1> QED
  BY <1>1, <1>2, <1>3, <1>4, ChainSteps

LEMMA IdsInit == Init => IdsInv
BY DEF Init, IdsInv

\* A chain that grows by one keeps its ids if the new one is its place.
LEMMA IdsGrow ==
  ASSUME IdsInv, NEW p \in Peers,
         Len(chain[p]) \in Nat,
         Len(chain'[p]) = Len(chain[p]) + 1,
         \A i \in 1 .. Len(chain[p]) : chain'[p][i].id = chain[p][i].id,
         chain'[p][Len(chain[p]) + 1].id = Len(chain[p]),
         \A q \in Peers : q # p => chain'[q] = chain[q]
  PROVE  IdsInv'
<1> SUFFICES ASSUME NEW q \in Peers, NEW i \in 1 .. Len(chain'[q])
             PROVE  chain'[q][i].id = i - 1
  BY DEF IdsInv
<1>1. CASE q # p
  BY <1>1 DEF IdsInv
<1>2. CASE q = p /\ i \in 1 .. Len(chain[p])
  BY <1>2 DEF IdsInv
<1>3. CASE q = p /\ i = Len(chain[p]) + 1
  BY <1>3
<1> QED
  BY <1>1, <1>2, <1>3

LEMMA IdsStep ==
  ASSUME DataTypes, MinerInv, IdsInv, SnapshotInv, ReplyInv, [PeersMove]_vars
  PROVE  IdsInv'
<1>1. CASE chain' = chain
  BY <1>1 DEF IdsInv
<1>2. ASSUME NEW p \in Peers, AppendsBlock(p)
      PROVE  IdsInv'
  <2>1. Len(chain[p]) \in Nat
    BY LenProperties DEF DataTypes
  <2> QED
    BY <1>2, <2>1, AppendOwnBlockChain, AppendOwnBlockAtTip, IdsGrow
<1>3. ASSUME NEW p \in Peers, AppendReceived(p)
      PROVE  IdsInv'
  <2> DEFINE c == Append(chain[p], Head(rcv[p]))
  <2>1. Head(rcv[p]) \in Block /\ Head(rcv[p]).id = Len(chain[p])
    BY <1>3, HeadTailProperties DEF AppendReceived, Polling, CanAdd, DataTypes
  <2>2. chain'[p] = c /\ \A q \in Peers : q # p => chain'[q] = chain[q]
    BY <1>3 DEF AppendReceived, DataTypes
  <2>3. /\ Len(c) = Len(chain[p]) + 1
        /\ \A i \in 1 .. Len(chain[p]) : c[i] = chain[p][i]
        /\ c[Len(chain[p]) + 1] = Head(rcv[p])
        /\ Len(chain[p]) \in Nat
    BY <2>1, AppendProperties, LenProperties DEF DataTypes
  <2> HIDE DEF c
  <2> QED
    BY <2>1, <2>2, <2>3, IdsGrow
<1>4. ASSUME NEW p \in Peers, FinishFork(p)
      PROVE  IdsInv'
  <2>1. /\ ppc[p] = "served"
        /\ \E c \in {chain[p], reply[p]} : chain' = [chain EXCEPT ![p] = c]
    BY <1>4 DEF FinishFork
  <2>2. \A i \in 1 .. Len(reply[p]) : reply[p][i].id = i - 1
    BY <2>1 DEF ReplyInv
  <2>3. \A q \in Peers : chain'[q] \in {chain[q], reply[q]}
                        /\ (q # p => chain'[q] = chain[q])
    BY <2>1 DEF DataTypes
  <2> QED
    BY <2>2, <2>3 DEF IdsInv
<1> QED
  BY <1>1, <1>2, <1>3, <1>4, ChainSteps

-----------------------------------------------------------------------------
(***************************************************************************)
(* What the miner has read of the tip.                                     *)
(***************************************************************************)
LEMMA NextIdIsLen ==
  ASSUME DataTypes, IdsInv, NEW p \in Peers
  PROVE  NextId(chain[p]) = Len(chain[p])
<1>1. chain[p] \in Seq(Block) /\ Len(chain[p]) \in Nat
  BY LenProperties DEF DataTypes
<1>2. CASE chain[p] = <<>>
  BY <1>2 DEF NextId
<1>3. CASE chain[p] # <<>>
  <2>1. Len(chain[p]) \in 1 .. Len(chain[p])
    BY <1>1, <1>3
  <2>2. chain[p][Len(chain[p])].id = Len(chain[p]) - 1
    BY <2>1 DEF IdsInv
  <2> QED
    BY <1>1, <1>3, <2>2 DEF NextId, Latest
<1> QED
  BY <1>2, <1>3

\* What a step may do to what a mining thread has read.
LEMMA MinerSteps ==
  ASSUME DataTypes, [PeersMove]_vars, NEW p \in Peers
  PROVE  \/ mpc'[p] \notin {"attempt", "commit"}
         \/ /\ mpc[p] \in {"attempt", "commit"}
            /\ mineId'[p] = mineId[p]
            /\ prevHash'[p] = prevHash[p]
         \/ SnapshotTip(p)
<1> DEFINE Kept == mpc' = mpc /\ mineId' = mineId /\ prevHash' = prevHash
           Done == \/ mpc'[p] \notin {"attempt", "commit"}
                   \/ /\ mpc[p] \in {"attempt", "commit"}
                      /\ mineId'[p] = mineId[p]
                      /\ prevHash'[p] = prevHash[p]
                   \/ SnapshotTip(p)
<1>1. Kept => Done
  OBVIOUS
<1>2. ASSUME NEW q \in Peers, Application(q)
      PROVE  Kept
  BY <1>2 DEF Application, CreatePoll, Vote, Submit, minerVars
<1>0. /\ mpc \in [Peers -> {"idle", "snapshot", "attempt", "commit", "send"}]
      /\ mineId \in [Peers -> Nat] /\ prevHash \in [Peers -> Hash]
  BY DEF DataTypes
<1>3. ASSUME NEW q \in Peers, MinerMoves(q)
      PROVE  Done
  <2>1. ASSUME NEW r \in Peers, SendBlock(q, r)
        PROVE  Done
    <3>1. /\ mpc' = mpc \/ mpc' = [mpc EXCEPT ![q] = "idle"]
          /\ mineId' = mineId /\ prevHash' = prevHash
      BY <2>1, SendBlockEffect
    <3>2. CASE mpc' = [mpc EXCEPT ![q] = "idle"]
      BY <1>0, <3>1, <3>2
    <3> QED
      BY <3>1, <3>2
  <2>2. CASE AppendsBlock(q)
    <3>1. /\ \/ mpc' = [mpc EXCEPT ![q] = "send"]
             \/ mpc' = [mpc EXCEPT ![q] = "idle"]
          /\ mineId' = [mineId EXCEPT ![q] = 0]
          /\ prevHash' = [prevHash EXCEPT ![q] = GenesisPrev]
      BY <2>2, AppendOwnBlockEffect
    <3>2. CASE mpc' = [mpc EXCEPT ![q] = "send"]
      BY <1>0, <3>1, <3>2
    <3>3. CASE mpc' = [mpc EXCEPT ![q] = "idle"]
      BY <1>0, <3>1, <3>3
    <3> QED
      BY <3>1, <3>2, <3>3
  <2>3. CASE q = p
    BY <1>0, <1>3, <2>1, <2>2, <2>3
    DEF MinerMoves, TakeTxn, RestartMining, GiveUpRound, FindNonce, RefuseBlock,
        LoseRace
  <2>4. CASE q # p
    BY <1>0, <1>3, <2>1, <2>2, <2>4
    DEF MinerMoves, TakeTxn, SnapshotTip, RestartMining, GiveUpRound, FindNonce,
        RefuseBlock, LoseRace, MinerDone
  <2> QED
    BY <2>3, <2>4
<1>4. ASSUME NEW q \in Peers, Listener(q)
      PROVE  Kept
  BY <1>4 DEF Listener, AcceptBlock, ServeChain, minerVars
<1>5. ASSUME NEW q \in Peers, Poller(q)
      PROVE  Kept
  BY <1>5 DEF Poller, DiscardInvalid, AppendReceived, DiscardStale,
              DetectFork, AskForChain, FinishFork, minerVars
<1>6. ASSUME UNCHANGED vars
      PROVE  Kept
  BY <1>6 DEF vars, minerVars
<1> HIDE DEF Kept, Done
<1>7. Done
  BY <1>1, <1>2, <1>3, <1>4, <1>5, <1>6 DEF PeersMove
<1> QED
  BY <1>7 DEF Done

LEMMA SnapshotInit == Init => SnapshotInv
BY DEF Init, SnapshotInv

LEMMA SnapshotStep ==
  ASSUME DataTypes, MinerInv, IdsInv, SnapshotInv, [PeersMove]_vars
  PROVE  SnapshotInv'
<1> SUFFICES ASSUME NEW p \in Peers, mpc'[p] \in {"attempt", "commit"}
             PROVE  /\ mineId'[p] <= Len(chain'[p])
                    /\ mineId'[p] = Len(chain'[p])
                       => prevHash'[p] = TipHash(chain'[p])
  BY DEF SnapshotInv
<1>1. Len(chain[p]) \in Nat /\ mineId[p] \in Nat /\ Len(chain'[p]) \in Int
  <2>1. DataTypes'
    BY DataStep
  <2>2. chain'[p] \in Seq(Block)
    BY <2>1 DEF DataTypes
  <2> QED
    BY <2>2, LenProperties DEF DataTypes
<1>2. CASE /\ mpc[p] \in {"attempt", "commit"}
           /\ mineId'[p] = mineId[p]
           /\ prevHash'[p] = prevHash[p]
  <2>1. /\ mineId[p] <= Len(chain[p])
        /\ mineId[p] = Len(chain[p]) => prevHash[p] = TipHash(chain[p])
    BY <1>2 DEF SnapshotInv
  <2> QED
    BY <1>1, <1>2, <2>1, ChainsGrow
<1>3. CASE SnapshotTip(p)
  <2>1. /\ mineId' = [mineId EXCEPT ![p] = NextId(chain[p])]
        /\ prevHash' = [prevHash EXCEPT ![p] = TipHash(chain[p])]
        /\ chain' = chain
    BY <1>3 DEF SnapshotTip
  <2>2. mineId'[p] = NextId(chain[p]) /\ prevHash'[p] = TipHash(chain[p])
    BY <2>1 DEF DataTypes
  <2>3. NextId(chain[p]) = Len(chain[p])
    BY NextIdIsLen DEF DataTypes, IdsInv
  <2> QED
    BY <1>1, <2>1, <2>2, <2>3
<1> QED
  BY <1>2, <1>3, MinerSteps

-----------------------------------------------------------------------------
(***************************************************************************)
(* The miner of a block has a chain that is longer than the block is high. *)
(***************************************************************************)
LEMMA MinedInit == Init => MinedInv
BY TrafficInit DEF MinedInv

LEMMA MinedStep ==
  ASSUME DataTypes, MinerInv, PendingInOrder, IdsInv, SnapshotInv, MinedInv,
         [PeersMove]_vars
  PROVE  MinedInv'
<1>1. PICK S : S = MinedBlocks'
  OBVIOUS
<1>2. ASSUME NEW q \in Peers
      PROVE  /\ Len(chain[q]) \in Nat /\ Len(chain'[q]) \in Nat
             /\ Len(chain[q]) <= Len(chain'[q])
  <2>1. DataTypes'
    BY DataStep
  <2>2. Len(chain[q]) \in Nat /\ Len(chain'[q]) \in Nat
    BY <2>1, LenProperties DEF DataTypes
  <2> QED
    BY <2>2, ChainsGrow
<1>3. \A b \in Block : b.id \in Nat /\ b.txn.sender \in Peers
  BY DEF Block, Txn
<1>4. MinedBlocks \subseteq S
  BY <1>1, <1>2, <1>3 DEF MinedBlocks
<1>5. Traffic(S)
  <2>1. Seq(MinedBlocks) \subseteq Seq(S)
    BY <1>4, SeqMonotonic
  <2>2. Carrying(MinedBlocks) \subseteq Carrying(S)
    BY <2>1 DEF Carrying
  <2>3. Seq(Carrying(MinedBlocks)) \subseteq Seq(Carrying(S))
    BY <2>2, SeqMonotonic
  <2> QED
    BY <2>1, <2>3 DEF MinedInv, Traffic
<1>6. ASSUME NEW p \in Peers, AppendsBlock(p)
      PROVE  Outgoing(p) \in S
  <2>1. current[p] # <<>> /\ mineId[p] = Len(chain[p])
    BY <1>6, AppendOwnBlockAtTip
  <2>2. Head(current[p]).sender = p
    BY <2>1, OwnTxnInHand
  <2>3. /\ Outgoing(p) \in Block
        /\ Outgoing(p).id = Len(chain[p])
        /\ Outgoing(p).txn.sender = p
    BY <2>1, <2>2, OutgoingType
  <2>4. Len(chain'[p]) = Len(chain[p]) + 1
    BY <1>6, AppendOwnBlockChain
  <2> QED
    BY <1>1, <1>2, <2>3, <2>4 DEF MinedBlocks
<1>7. Traffic(S)'
  BY <1>5, <1>6, TrafficStep
<1> QED
  BY <1>1, <1>7 DEF MinedInv, Traffic

-----------------------------------------------------------------------------
(***************************************************************************)
(* A peer waits for a longer chain than its own.                           *)
(***************************************************************************)
\* What a step may do to what a polling thread waits for.
LEMMA PollerSteps ==
  ASSUME DataTypes, IdsInv, RequestsInv, [PeersMove]_vars, NEW p \in Peers
  PROVE  \/ ppc'[p] = "idle"
         \/ DetectFork(p)
         \/ /\ ppc[p] # "idle"
            /\ asked'[p] = asked[p]
            /\ ppc'[p] = "served" => \/ ppc[p] = "served" /\ reply'[p] = reply[p]
                                     \/ reply'[p] = chain[asked[p]]
<1> DEFINE Goal == \/ ppc'[p] = "idle"
                   \/ DetectFork(p)
                   \/ /\ ppc[p] # "idle"
                      /\ asked'[p] = asked[p]
                      /\ ppc'[p] = "served" =>
                           \/ ppc[p] = "served" /\ reply'[p] = reply[p]
                           \/ reply'[p] = chain[asked[p]]
           Same == UNCHANGED <<ppc, asked, reply>>
<1>1. Same => Goal
  OBVIOUS
<1>2. ASSUME NEW q \in Peers, Application(q)
      PROVE  Same
  BY <1>2 DEF Application, CreatePoll, Vote, Submit, pollerVars
<1>3. ASSUME NEW q \in Peers, MinerMoves(q)
      PROVE  Same
  BY <1>3, SendBlockEffect, AppendOwnBlockEffect
  DEF MinerMoves, TakeTxn, SnapshotTip, RestartMining, GiveUpRound, FindNonce,
      RefuseBlock, LoseRace, pollerVars
<1>4. ASSUME NEW q \in Peers, AcceptBlock(q)
      PROVE  Same
  BY <1>4 DEF AcceptBlock, pollerVars
<1>5. ASSUME NEW q \in Peers, ServeChain(q)
      PROVE  Goal
  <2> DEFINE r == Head(inbox[q]).from
  <2>1. r \in Peers /\ asked[r] = q /\ ppc[r] = "waiting"
    BY <1>5, HeadRequest DEF ServeChain
  <2>2. /\ ppc' = [ppc EXCEPT ![r] = "served"]
        /\ reply' = [reply EXCEPT ![r] = ServedChain(chain[q])]
        /\ asked' = asked
    BY <1>5 DEF ServeChain
  <2>3. ServedChain(chain[q]) = chain[q]
    BY ServedChainIsChain DEF DataTypes, IdsInv
  <2> HIDE DEF r
  <2>4. ppc \in [Peers -> {"idle", "asking", "waiting", "served", "reset", "dead"}]
        /\ reply \in [Peers -> Seq(Block)]
    BY DEF DataTypes
  <2>5. CASE r = p
    <3>1. /\ ppc'[p] = "served" /\ ppc[p] = "waiting"
          /\ asked'[p] = asked[p] /\ asked[p] = q
          /\ reply'[p] = chain[q]
      BY <2>1, <2>2, <2>3, <2>4, <2>5
    <3> QED
      BY <3>1
  <2>6. CASE r # p
    <3>1. ppc'[p] = ppc[p] /\ asked'[p] = asked[p] /\ reply'[p] = reply[p]
      BY <2>2, <2>4, <2>6
    <3> QED
      BY <3>1
  <2> QED
    BY <2>5, <2>6
<1>6. ASSUME NEW q \in Peers, Poller(q), q # p
      PROVE  Goal
  <2>1. /\ \E v : ppc' = [ppc EXCEPT ![q] = v] \/ ppc' = ppc
        /\ \E v : asked' = [asked EXCEPT ![q] = v] \/ asked' = asked
        /\ \E v : reply' = [reply EXCEPT ![q] = v] \/ reply' = reply
    <3>1. CASE DiscardInvalid(q) \/ AppendReceived(q) \/ DiscardStale(q)
      BY <3>1 DEF DiscardInvalid, AppendReceived, DiscardStale, pollerVars
    <3>2. CASE DetectFork(q)
      BY <3>2 DEF DetectFork
    <3>3. CASE AskForChain(q) \/ FinishFork(q)
      BY <3>3 DEF AskForChain, FinishFork
    <3> QED
      BY <1>6, <3>1, <3>2, <3>3 DEF Poller
  <2>2. ppc'[p] = ppc[p] /\ asked'[p] = asked[p] /\ reply'[p] = reply[p]
    BY <1>6, <2>1 DEF DataTypes
  <2> QED
    BY <2>2
<1>7. ASSUME Poller(p)
      PROVE  Goal
  BY <1>7 DEF Poller, DiscardInvalid, AppendReceived, DiscardStale,
              Polling, AskForChain, FinishFork, DataTypes, pollerVars
<1>8. ASSUME UNCHANGED vars
       PROVE  Same
  BY <1>8 DEF vars, pollerVars
<1> HIDE DEF Same, Goal
<1>9. Goal
  BY <1>1, <1>2, <1>3, <1>4, <1>5, <1>6, <1>7, <1>8 DEF PeersMove, Listener
<1> QED
  BY <1>9 DEF Goal

\* The lock is kept as long as the peer waits.
LEMMA PollerKeepsChain ==
  ASSUME DataTypes, ThreadsInv, [PeersMove]_vars,
         NEW p \in Peers, ppc[p] # "idle", ppc'[p] # "idle"
  PROVE  chain'[p] = chain[p]
<1>1. lock[p] = "poller"
  BY DEF ThreadsInv
<1>2. ASSUME NEW q \in Peers, AppendsBlock(q) \/ AppendReceived(q)
      PROVE  chain'[p] = chain[p]
  <2>1. lock[q] = "free" /\ \E c : chain' = [chain EXCEPT ![q] = c]
    BY <1>2, AppendOwnBlockEffect DEF AppendReceived
  <2> QED
    BY <1>1, <2>1 DEF DataTypes
<1>3. ASSUME NEW q \in Peers, FinishFork(q)
      PROVE  chain'[p] = chain[p]
  BY <1>3 DEF FinishFork, DataTypes
<1> QED
  BY <1>2, <1>3, ChainSteps

LEMMA WaitsInit == Init => WaitsOnLonger
BY DEF Init, WaitsOnLonger

LEMMA WaitsStep ==
  ASSUME DataTypes, MinerInv, ThreadsInv, IdsInv, RequestsInv, MinedInv, WaitsOnLonger,
         [PeersMove]_vars
  PROVE  WaitsOnLonger'
<1> SUFFICES ASSUME NEW p \in Peers, ppc'[p] # "idle"
             PROVE  Len(chain'[asked'[p]]) > Len(chain'[p])
  BY DEF WaitsOnLonger
<1>1. ASSUME NEW q \in Peers
      PROVE  Len(chain[q]) \in Nat
  BY LenProperties DEF DataTypes
<1>2. CASE DetectFork(p)
  <2> DEFINE b == Head(rcv[p])
  <2>1. /\ rcv[p] # <<>> /\ IsAhead(chain[p], b)
        /\ chain' = chain
        /\ asked'[p] = b.txn.sender
    BY <1>2 DEF DetectFork, Polling, DataTypes
  <2>2. b \in MinedBlocks
    BY <2>1, HeadTailProperties DEF MinedInv, Traffic
  <2>3. b.id \in Nat /\ b.txn.sender \in Peers /\ b.id < Len(chain[b.txn.sender])
    BY <2>2 DEF MinedBlocks, Block, Txn
  <2> HIDE DEF b
  <2> QED
    BY <1>1, <2>1, <2>3 DEF IsAhead
<1>3. CASE ppc[p] # "idle" /\ chain'[p] = chain[p] /\ asked'[p] = asked[p]
  <2>1. asked[p] \in Peers /\ Len(chain[asked[p]]) > Len(chain[p])
    BY <1>3 DEF WaitsOnLonger, DataTypes
  <2>2. \/ chain'[asked[p]] = chain[asked[p]]
        \/ Len(chain'[asked[p]]) > Len(chain[asked[p]])
    BY <2>1, ChainsGrow
  <2>3. Len(chain'[asked[p]]) \in Nat
    <3>1. DataTypes'
      BY DataStep
    <3> QED
      BY <2>1, <3>1, LenProperties DEF DataTypes
  <2> QED
    BY <1>1, <1>3, <2>1, <2>2, <2>3
<1> QED
  BY <1>2, <1>3, PollerSteps, PollerKeepsChain

-----------------------------------------------------------------------------
(***************************************************************************)
(* First blocks, which nobody looks at.                                    *)
(***************************************************************************)
\* The chain and the block of a miner whose chain was empty.
LEMMA FirstBlockMined ==
  ASSUME DataTypes, MinerInv, IdsInv, SnapshotInv,
         NEW p \in Peers, AppendsBlock(p), chain[p] = <<>>
  PROVE  /\ GoodFirst(NewBlock(p)) /\ IsValid(NewBlock(p))
         /\ Extended(p) = <<NewBlock(p)>>
<1>1. current[p] # <<>> /\ mineId[p] = 0 /\ prevHash[p] = GenesisPrev
  BY AppendOwnBlockAtTip, EmptySeq DEF TipHash
<1>2. NewBlock(p) \in Block
  BY <1>1, NewBlockType
<1>3. NewBlock(p).txn.type # "vote"
  BY EmptySeq DEF AppendsBlock, AppendBlock, Refused, IsVoteForNonexistentPoll
<1>4. NewBlock(p).txn.type = "create_poll"
  BY <1>2, <1>3 DEF Block, Txn
<1>5. NewBlock(p).prev_hash = GenesisPrev /\ IsValid(NewBlock(p))
  BY <1>1 DEF NewBlock, MinedBlock, IsValid, Digest
<1>6. Append(chain[p], NewBlock(p)) = <<NewBlock(p)>>
  OBVIOUS
<1>7. Extended(p) = <<NewBlock(p)>>
  BY <1>6 DEF Extended
<1> QED
  BY <1>4, <1>5, <1>7 DEF GoodFirst

\* Nothing invalid is made valid by tampering with it.
LEMMA FirstBlockSent ==
  ASSUME DataTypes, MinerInv, IdsInv, SnapshotInv,
         NEW p \in Peers, AppendsBlock(p)
  PROVE  Outgoing(p) \in FirstBlocks
<1>1. /\ current[p] # <<>> /\ mineId[p] = Len(chain[p])
      /\ Outgoing(p) \in Block /\ Outgoing(p).id = mineId[p]
  BY AppendOwnBlockAtTip, OutgoingType
<1> SUFFICES ASSUME Outgoing(p).id = 0, IsValid(Outgoing(p))
             PROVE  GoodFirst(Outgoing(p))
  BY <1>1 DEF FirstBlocks
<1> DEFINE b == NewBlock(p)
<1>2. chain[p] = <<>>
  BY <1>1, EmptySeq DEF DataTypes
<1>3. GoodFirst(b) /\ IsValid(b) /\ Latest(Extended(p)) = b
  <2>1. GoodFirst(b) /\ IsValid(b) /\ Extended(p) = <<b>>
    BY <1>2, FirstBlockMined
  <2> HIDE DEF b
  <2> QED
    BY <2>1 DEF Latest
<1>4. b \in Block
  BY <1>1, NewBlockType
<1>5. \/ Outgoing(p) = b
      \/ Outgoing(p) = [b EXCEPT !.hash = <<Noise>>]
      \/ Outgoing(p) = [b EXCEPT !.prev_hash = <<Noise>>]
      \/ Outgoing(p) = [b EXCEPT !.txn.poll_id = <<p, 0>>]
  <2>1. TamperType[p] \in TamperTypes
    BY ConfigAssumption
  <2> QED
    BY <1>3, <2>1 DEF Outgoing, TamperTypes
<1> HIDE DEF b
<1>6. CASE Outgoing(p) = [b EXCEPT !.hash = <<Noise>>]
  <2>1. /\ Outgoing(p).hash = <<Noise>>
        /\ Outgoing(p).prev_hash = <<>>
        /\ Outgoing(p).id \in Nat /\ Outgoing(p).txn \in Txn
    BY <1>3, <1>4, <1>6 DEF Block, GoodFirst, GenesisPrev
  <2>2. <<Noise>> = <<<<Outgoing(p).id, Outgoing(p).txn>>>>
    BY <2>1 DEF IsValid, Digest
  <2>3. Noise = <<Outgoing(p).id, Outgoing(p).txn>>
    BY <2>2
  <2> QED
    BY <2>1, <2>3, NoiseAssumption
<1>7. CASE Outgoing(p) = [b EXCEPT !.prev_hash = <<Noise>>]
  <2>1. /\ Outgoing(p).prev_hash = <<Noise>>
        /\ Outgoing(p).hash = b.hash /\ b.prev_hash = <<>>
    BY <1>3, <1>4, <1>7 DEF Block, GoodFirst, GenesisPrev
  <2> DEFINE x == <<b.id, b.txn>>
             y == <<Outgoing(p).id, Outgoing(p).txn>>
  <2>2. b.hash = Append(<<>>, x) /\ b.hash = Append(<<Noise>>, y)
    BY <1>3, <2>1 DEF IsValid, Digest
  <2> HIDE DEF x, y
  <2> DEFINE S == {Noise, x, y}
  <2>3. <<>> \in Seq(S) /\ <<Noise>> \in Seq(S) /\ x \in S /\ y \in S
    OBVIOUS
  <2>4. Len(Append(<<>>, x)) = 1 /\ Len(Append(<<Noise>>, y)) = 2
    BY <2>3, AppendProperties
  <2> QED
    BY <2>2, <2>4
<1>8. CASE Outgoing(p) = [b EXCEPT !.txn.poll_id = <<p, 0>>]
  <2>1. Outgoing(p).prev_hash = b.prev_hash
    BY <1>4, <1>8 DEF Block
  <2>2. Outgoing(p).txn.type = b.txn.type
    BY <1>1, OutgoingType DEF b, NewBlock, MinedBlock
  <2> QED
    BY <1>3, <2>1, <2>2 DEF GoodFirst
<1> QED
  BY <1>3, <1>5, <1>6, <1>7, <1>8

\* A received block that is taken by an empty chain is a good one.
LEMMA FirstBlockReceived ==
  ASSUME DataTypes, FirstInv, NEW p \in Peers, AppendReceived(p), chain[p] = <<>>
  PROVE  GoodFirst(Head(rcv[p]))
<1>1. Head(rcv[p]) \in FirstBlocks
  BY HeadTailProperties DEF FirstInv, Traffic, AppendReceived, Polling
<1>2. Head(rcv[p]).id = 0 /\ IsValid(Head(rcv[p]))
  BY EmptySeq DEF AppendReceived, CanAdd
<1> QED
  BY <1>1, <1>2 DEF FirstBlocks

LEMMA FirstInit == Init => FirstInv
<1>1. Init => Traffic(FirstBlocks)
  BY TrafficInit
<1> QED
  BY <1>1 DEF Init, FirstInv

LEMMA FirstStep ==
  ASSUME DataTypes, MinerInv, IdsInv, RequestsInv, SnapshotInv, FirstInv,
         [PeersMove]_vars
  PROVE  FirstInv'
<1> DEFINE Good(c) == c # <<>> => GoodFirst(c[1]) /\ IsValid(c[1])
<1>1. Traffic(FirstBlocks)'
  BY FirstBlockSent, TrafficStep DEF FirstInv
<1>2. ASSUME NEW q \in Peers
      PROVE  Good(chain[q]) /\ chain[q] \in Seq(Block) /\ Len(chain[q]) \in Nat
  BY LenProperties DEF FirstInv, DataTypes
<1>3. ASSUME NEW q \in Peers
      PROVE  Good(chain'[q])
  <2>1. ASSUME NEW p \in Peers, AppendsBlock(p)
        PROVE  Good(chain'[q])
    <3>1. /\ chain'[p] = Extended(p) /\ current[p] # <<>>
          /\ q # p => chain'[q] = chain[q]
      BY <2>1, AppendOwnBlockChain, AppendOwnBlockAtTip
    <3>2. CASE chain[p] = <<>>
      BY <1>2, <2>1, <3>1, <3>2, FirstBlockMined
    <3>3. CASE chain[p] # <<>>
      <4> DEFINE c == Append(chain[p], NewBlock(p))
      <4>1. c \in Seq(Block) /\ c[1] = chain[p][1] /\ Len(chain[p]) >= 1
        BY <1>2, <3>1, <3>3, NewBlockType, AppendProperties, EmptySeq
      <4>2. Extended(p) = c \/ Extended(p) = [c EXCEPT ![2].hash = <<Noise>>]
        BY DEF Extended
      <4> HIDE DEF c
      <4>3. Extended(p)[1] = chain[p][1]
        BY <4>1, <4>2
      <4> QED
        BY <1>2, <3>1, <3>3, <4>3
    <3> QED
      BY <3>2, <3>3
  <2>2. ASSUME NEW p \in Peers, AppendReceived(p)
        PROVE  Good(chain'[q])
    <3>1. /\ chain'[p] = Append(chain[p], Head(rcv[p]))
          /\ q # p => chain'[q] = chain[q]
          /\ IsValid(Head(rcv[p]))
      BY <2>2 DEF AppendReceived, DataTypes
    <3>2. Head(rcv[p]) \in Block
      BY <2>2, HeadTailProperties DEF AppendReceived, Polling, DataTypes
    <3>3. CASE chain[p] = <<>>
      BY <1>2, <2>2, <3>1, <3>2, <3>3, FirstBlockReceived
    <3>4. CASE chain[p] # <<>>
      <4>1. Append(chain[p], Head(rcv[p]))[1] = chain[p][1]
        BY <1>2, <3>2, <3>4, AppendProperties, EmptySeq
      <4> QED
        BY <1>2, <3>1, <3>4, <4>1
    <3> QED
      BY <3>3, <3>4
  <2>3. ASSUME NEW p \in Peers, FinishFork(p)
        PROVE  Good(chain'[q])
    <3>1. /\ ppc[p] = "served"
          /\ q # p => chain'[q] = chain[q]
          /\ \/ chain'[p] = chain[p]
             \/ chain'[p] = reply[p] /\ ReplaysFromEmpty(reply[p])
      BY <2>3 DEF FinishFork, Adoptable, DataTypes
    <3>2. /\ reply[p] # <<>> => GoodFirst(reply[p][1])
          /\ reply[p] \in Seq(Block)
      BY <3>1 DEF FirstInv, DataTypes
    <3>3. reply[p] # <<>> /\ ReplaysFromEmpty(reply[p]) => IsValid(reply[p][1])
      BY <3>2, EmptySeq DEF ReplaysFromEmpty
    <3> QED
      BY <1>2, <3>1, <3>2, <3>3
  <2> QED
    BY <1>2, <2>1, <2>2, <2>3, ChainSteps
<1>4. ASSUME NEW q \in Peers, ppc'[q] = "served", reply'[q] # <<>>
      PROVE  GoodFirst(reply'[q][1])
  <2>1. CASE DetectFork(q)
    BY <1>4, <2>1 DEF DetectFork, DataTypes
  <2>2. CASE ppc[q] = "served" /\ reply'[q] = reply[q]
    BY <1>4, <2>2 DEF FirstInv
  <2>3. CASE ppc[q] # "idle" /\ reply'[q] = chain[asked[q]]
    BY <1>2, <1>4, <2>3 DEF DataTypes
  <2> QED
    BY <1>4, <2>1, <2>2, <2>3, PollerSteps
<1> QED
  BY <1>1, <1>3, <1>4 DEF FirstInv

-----------------------------------------------------------------------------
(***************************************************************************)
(* Chains.                                                                 *)
(***************************************************************************)
LEMMA ReplyInit == Init => ReplyInv
BY DEF Init, ReplyInv

LEMMA ReplyStep ==
  ASSUME DataTypes, IdsInv, RequestsInv, ReplyInv, ChainsWellFormed, [PeersMove]_vars
  PROVE  ReplyInv'
<1> SUFFICES ASSUME NEW p \in Peers, ppc'[p] = "served"
             PROVE  /\ \A i \in 1 .. Len(reply'[p]) : reply'[p][i].id = i - 1
                    /\ KeepsChain(asked'[p]) => WellFormed(reply'[p])
  BY DEF ReplyInv
<1>1. CASE DetectFork(p)
  BY <1>1 DEF DetectFork, DataTypes
<1>2. CASE /\ ppc[p] = "served" /\ reply'[p] = reply[p]
           /\ asked'[p] = asked[p]
  BY <1>2 DEF ReplyInv
<1>3. CASE reply'[p] = chain[asked[p]] /\ asked'[p] = asked[p]
  <2>1. asked[p] \in Peers
    BY DEF DataTypes
  <2>2. \A i \in 1 .. Len(chain[asked[p]]) : chain[asked[p]][i].id = i - 1
    BY <2>1 DEF IdsInv
  <2>3. KeepsChain(asked[p]) => WellFormed(chain[asked[p]])
    BY <2>1 DEF ChainsWellFormed
  <2> QED
    BY <1>3, <2>2, <2>3 DEF KeepsChain
<1> QED
  BY <1>1, <1>2, <1>3, PollerSteps

LEMMA ServedInit == Init => ServedInv
BY DEF Init, ServedInv

LEMMA ServedStep ==
  ASSUME DataTypes, ThreadsInv, IdsInv, RequestsInv, ServedInv, WaitsOnLonger,
         [PeersMove]_vars
  PROVE  ServedInv'
<1> SUFFICES ASSUME NEW p \in Peers, ppc'[p] = "served"
             PROVE  Len(reply'[p]) > Len(chain'[p])
  BY DEF ServedInv
<1>1. CASE DetectFork(p)
  BY <1>1 DEF DetectFork, DataTypes
<1>2. CASE ppc[p] = "served" /\ reply'[p] = reply[p]
  BY <1>2, PollerKeepsChain DEF ServedInv
<1>3. CASE ppc[p] # "idle" /\ reply'[p] = chain[asked[p]]
  BY <1>3, PollerKeepsChain DEF WaitsOnLonger
<1> QED
  BY <1>1, <1>2, <1>3, PollerSteps

LEMMA ChainsInit == Init => ChainsWellFormed
<1>1. WellFormed(<<>>)
  BY DEF WellFormed, Linked, PollNamesUnique, VotesFollowTheirPoll
<1> QED
  BY <1>1 DEF Init, ChainsWellFormed

\* What the miner appends to an intact chain leaves it intact.
LEMMA OwnBlockFits ==
  ASSUME DataTypes, MinerInv, IdsInv, SnapshotInv,
         NEW p \in Peers, KeepsChain(p), WellFormed(chain[p]), AppendsBlock(p)
  PROVE  WellFormed(chain'[p])
<1>1. /\ current[p] # <<>> /\ mineId[p] = Len(chain[p])
      /\ prevHash[p] = TipHash(chain[p])
  BY AppendOwnBlockAtTip
<1>2. /\ NewBlock(p) \in Block
      /\ NewBlock(p).id = Len(chain[p])
      /\ NewBlock(p).prev_hash = TipHash(chain[p])
      /\ IsValid(NewBlock(p))
  BY <1>1, NewBlockType DEF NewBlock, MinedBlock, IsValid, Digest
<1>3. /\ ~IsRepeatPoll(chain[p], NewBlock(p))
      /\ ~IsVoteForNonexistentPoll(chain[p], NewBlock(p))
  BY DEF AppendsBlock, AppendBlock, Refused
<1>4. WellFormed(Append(chain[p], NewBlock(p)))
  BY <1>2, <1>3, AppendWellFormed DEF DataTypes
<1>5. chain'[p] = Append(chain[p], NewBlock(p))
  BY AppendOwnBlockChain DEF Extended, Tampers, KeepsChain
<1> QED
  BY <1>4, <1>5

\* So does a block that was received and may be added.
LEMMA ReceivedBlockFits ==
  ASSUME DataTypes, FirstInv,
         NEW p \in Peers, WellFormed(chain[p]), AppendReceived(p)
  PROVE  WellFormed(chain'[p])
<1> DEFINE b == Head(rcv[p])
<1>1. /\ chain'[p] = Append(chain[p], b)
      /\ IsValid(b) /\ CanAdd(chain[p], b)
  BY DEF AppendReceived, DataTypes
<1>2. b \in Block /\ chain[p] \in Seq(Block)
  BY HeadTailProperties DEF AppendReceived, Polling, DataTypes
<1>3. CASE chain[p] = <<>>
  <2>1. GoodFirst(b)
    BY <1>3, FirstBlockReceived
  <2>2. /\ ~IsRepeatPoll(chain[p], b)
        /\ ~IsVoteForNonexistentPoll(chain[p], b)
        /\ b.prev_hash = TipHash(chain[p])
    BY <1>3, <2>1, EmptySeq
    DEF IsRepeatPoll, IsVoteForNonexistentPoll, TipHash, GoodFirst
  <2> QED
    BY <1>1, <1>2, <2>2, AppendWellFormed DEF CanAdd
<1>4. CASE chain[p] # <<>>
  BY <1>1, <1>2, <1>4, AppendWellFormed DEF CanAdd, TipHash
<1> QED
  BY <1>3, <1>4

LEMMA ChainsStep ==
  ASSUME DataTypes, MinerInv, IdsInv, SnapshotInv, FirstInv, ChainsWellFormed,
         [PeersMove]_vars
  PROVE  ChainsWellFormed'
<1> SUFFICES ASSUME NEW q \in Peers, KeepsChain(q)
             PROVE  WellFormed(chain'[q])
  BY DEF ChainsWellFormed
<1>1. chain[q] \in Seq(Block) /\ WellFormed(chain[q])
  BY DEF ChainsWellFormed, DataTypes
<1>2. ASSUME NEW p \in Peers, AppendsBlock(p)
      PROVE  WellFormed(chain'[q])
  <2>1. CASE q # p
    BY <1>1, <1>2, <2>1, AppendOwnBlockChain
  <2>2. CASE q = p
    BY <1>1, <1>2, <2>2, OwnBlockFits
  <2> QED
    BY <2>1, <2>2
<1>3. ASSUME NEW p \in Peers, AppendReceived(p)
      PROVE  WellFormed(chain'[q])
  <2>1. q # p => chain'[q] = chain[q]
    BY <1>3 DEF AppendReceived, DataTypes
  <2>2. CASE q = p
    BY <1>1, <1>3, <2>2, ReceivedBlockFits
  <2> QED
    BY <1>1, <2>1, <2>2
<1>4. ASSUME NEW p \in Peers, FinishFork(p)
      PROVE  WellFormed(chain'[q])
  <2>1. /\ ppc[p] = "served" /\ reply[p] \in Seq(Block)
        /\ q # p => chain'[q] = chain[q]
        /\ \/ chain'[p] = chain[p]
           \/ chain'[p] = reply[p] /\ ReplaysFromEmpty(reply[p])
    BY <1>4 DEF FinishFork, Adoptable, DataTypes
  <2>2. ReplaysFromEmpty(reply[p]) => WellFormed(reply[p])
    BY <2>1, ReplayedWellFormed DEF FirstInv, GoodFirst
  <2> QED
    BY <1>1, <2>1, <2>2
<1> QED
  BY <1>1, <1>2, <1>3, <1>4, ChainSteps

-----------------------------------------------------------------------------
(***************************************************************************)
(* The theorems.                                                           *)
(***************************************************************************)
LEMMA InvariantInit == Init => IInv
BY TypeInit, MinerInit, ThreadsInit, PendingInit, IdsInit, RequestsInit,
   MinedInit, SnapshotInit, FirstInit, ReplyInit, ServedInit, WaitsInit,
   ChainsInit
DEF IInv

LEMMA CoreOf == IInv => CoreInv
BY DataTyped DEF IInv, CoreInv

LEMMA CoreStep ==
  ASSUME CoreInv, [PeersMove]_vars
  PROVE  CoreInv'
<1> USE DEF CoreInv
<1>1. DataTypes' /\ MinerInv' /\ PendingInOrder' /\ RequestsInv'
  BY DataStep, MinerStep, PendingStep, RequestsStep
<1>2. IdsInv' /\ SnapshotInv' /\ FirstInv'
  BY IdsStep, SnapshotStep, FirstStep
<1>3. ReplyInv' /\ ChainsWellFormed'
  BY ReplyStep, ChainsStep
<1> QED
  BY <1>1, <1>2, <1>3

LEMMA InvariantStep ==
  ASSUME IInv, [PeersMove]_vars
  PROVE  IInv'
<1> USE DEF IInv
<1>1. DataTypes
  BY DataTyped
<1>2. CoreInv'
  BY CoreOf, CoreStep
<1>3. TypeOK' /\ ThreadsInv' /\ MinedInv'
  BY <1>1, TypeStep, ThreadsStep, MinedStep
<1>4. ServedInv' /\ WaitsOnLonger'
  BY <1>1, ServedStep, WaitsStep
<1> QED
  BY <1>2, <1>3, <1>4 DEF CoreInv

\* The facts listed in PeerNetworkInvariant hold in every state: each step of
\* the three threads and of the application keeps them all.
THEOREM InvariantHolds == Spec => []IInv
<1>1. Init => IInv
  BY InvariantInit
<1>2. IInv /\ [Next]_vars => IInv'
  BY NextMoves, InvariantStep
<1> QED
  BY <1>1, <1>2, PTL DEF Spec

\* Every variable of a peer keeps its type: no thread reads a transaction, a
\* block or an answer that is not there.
THEOREM TypeCorrect == Spec => []TypeOK
<1>1. IInv => TypeOK
  BY DEF IInv
<1> QED
  BY <1>1, InvariantHolds, PTL

\* A peer asks for the chain of a peer whose chain is longer than its own, and
\* it is longer for as long as the lock is kept (poll_from_rcv_buffer), so no
\* circle of peers waits for one another.
THEOREM WaitsAreAcyclic == Spec => []WaitsOnLonger
<1>1. IInv => WaitsOnLonger
  BY DEF IInv
<1> QED
  BY <1>1, InvariantHolds, PTL

\* A chain is linked and holds no poll name twice and no vote before its poll,
\* whatever was mined against it, received or adopted, and whatever the other
\* peers tamper with (mine, can_add_block_to_chain, poll_from_rcv_buffer).
THEOREM ChainsStayWellFormed == Spec => []ChainsWellFormed
<1>1. IInv => ChainsWellFormed
  BY DEF IInv
<1> QED
  BY <1>1, InvariantHolds, PTL

\* The chain a peer is served replaces its own (get_chain_from_peer): a fork
\* resolution that was begun is never in vain.
THEOREM ForksResolve == Spec => []ForkResolves
<1>1. IInv => ForkResolves
  <2> SUFFICES ASSUME IInv, NEW p \in Peers, ppc[p] = "served",
                      KeepsChain(asked[p])
               PROVE  Adoptable(chain[p], reply[p])
    BY DEF ForkResolves
  <2>1. /\ Len(reply[p]) > Len(chain[p])
        /\ WellFormed(reply[p])
        /\ reply[p] \in Seq(Block)
    BY DEF IInv, ServedInv, ReplyInv, TypeOK
  <2> QED
    BY <2>1, WellFormedReplays DEF Adoptable
<1> QED
  BY <1>1, InvariantHolds, PTL

\* What a peer has not settled is the end of what it submitted, in order: the
\* miner loses, repeats and reorders nothing (create_txn, mine).
THEOREM QueueKeepsOrder == Spec => []PendingInOrder
<1>1. IInv => PendingInOrder
  BY DEF IInv
<1> QED
  BY <1>1, InvariantHolds, PTL

=============================================================================
