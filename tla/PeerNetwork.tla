---------------------------- MODULE PeerNetwork ----------------------------
(***************************************************************************)
(* The peers of peer.py once they have joined, and the messages between    *)
(* them.  Each peer runs three threads beside the application's:           *)
(*                                                                         *)
(*   mine                      takes a transaction, mines a block for it,  *)
(*                             appends the block and broadcasts it;        *)
(*   process_peer_connections  accepts one connection at a time: a BLOCK   *)
(*                             goes to rcv_buffer, a GET-CHAIN is answered *)
(*                             with the whole chain;                       *)
(*   poll_from_rcv_buffer      appends a received block, or resolves a     *)
(*                             fork by asking the block's miner for its    *)
(*                             chain.                                      *)
(*                                                                         *)
(* A step is what a thread does between two lock operations or two network *)
(* operations.  blockchain_lock is explicit because two threads keep it    *)
(* while they use the network (the miner during a broadcast, the poller    *)
(* during a fork resolution); every other critical section is one step.    *)
(* Membership is fixed and connections succeed.                            *)
(***************************************************************************)
EXTENDS Blockchain, Functions

CONSTANTS
  MaxSubmit,      \* bound: how many transactions each peer submits
  BroadcastFreq,  \* broadcast_freq of each peer, 0 for none
  TamperFreq,     \* tamper_freq of each peer, 0 for none
  TamperType      \* tamper_type of each peer

TamperTypes == {"hash", "prev_hash", "txn_data", "chain"}

ASSUME ConfigAssumption ==
  /\ MaxSubmit \in [Peers -> Nat]
  /\ BroadcastFreq \in [Peers -> Nat]
  /\ TamperFreq \in [Peers -> Nat]
  /\ TamperType \in [Peers -> TamperTypes]

VARIABLES
  chain,      \* blockchain.chain
  lock,       \* holder of blockchain_lock across steps
  state,      \* state (enums.State)
  txns,       \* the queue of submitted transactions
  submitted,  \* how many transactions the application has submitted
  mpc,        \* where the mining thread is
  current,    \* current_txn, as a sequence of at most one transaction
  mineId,     \* mine_id
  prevHash,   \* prev_hash
  step,       \* curr_step
  outgoing,   \* the block being broadcast, as a sequence of at most one block
  sendTo,     \* the peers it has still to be sent to
  inbox,      \* connections of the listening socket, oldest first
  rcv,        \* rcv_buffer
  ppc,        \* where the polling thread is
  asked,      \* whom the polling thread asks for its chain
  reply       \* the blocks received in answer

minerVars  == <<mpc, current, mineId, prevHash>>
sendVars   == <<outgoing, sendTo>>
pollerVars == <<ppc, asked, reply>>
vars == <<chain, lock, state, txns, submitted, minerVars, step, sendVars,
          inbox, rcv, pollerVars>>

Connection ==
  [type : {"BLOCK", "GET-CHAIN"}, from : Peers, payload : Seq(Block)]

BlockMsg(p, b)  == [type |-> "BLOCK", from |-> p, payload |-> <<b>>]
GetChainMsg(p) == [type |-> "GET-CHAIN", from |-> p, payload |-> <<>>]

TypeOK ==
  /\ chain \in [Peers -> Seq(Block)]
  /\ lock \in [Peers -> {"free", "miner", "poller"}]
  /\ state \in [Peers -> {"WAITING_FOR_CHAIN", "MINING"}]
  /\ txns \in [Peers -> Seq(Txn)]
  /\ submitted \in [Peers -> Nat]
  /\ mpc \in [Peers -> {"idle", "snapshot", "attempt", "commit", "send"}]
  /\ current \in [Peers -> Seq(Txn)]
  /\ mineId \in [Peers -> Nat]
  /\ prevHash \in [Peers -> Hash]
  /\ step \in [Peers -> Nat]
  /\ outgoing \in [Peers -> Seq(Block)]
  /\ sendTo \in [Peers -> SUBSET Peers]
  /\ inbox \in [Peers -> Seq(Connection)]
  /\ rcv \in [Peers -> Seq(Block)]
  /\ ppc \in [Peers -> {"idle", "asking", "waiting", "served"}]
  /\ asked \in [Peers -> Peers]
  /\ reply \in [Peers -> Seq(Block)]

\* Every peer has joined an empty network: send_join_message has returned.
Init ==
  /\ chain = [p \in Peers |-> <<>>]
  /\ lock = [p \in Peers |-> "free"]
  /\ state = [p \in Peers |-> "MINING"]
  /\ txns = [p \in Peers |-> <<>>]
  /\ submitted = [p \in Peers |-> 0]
  /\ mpc = [p \in Peers |-> "idle"]
  /\ current = [p \in Peers |-> <<>>]
  /\ mineId = [p \in Peers |-> 0]
  /\ prevHash = [p \in Peers |-> GenesisPrev]
  /\ step = [p \in Peers |-> 0]
  /\ outgoing = [p \in Peers |-> <<>>]
  /\ sendTo = [p \in Peers |-> {}]
  /\ inbox = [p \in Peers |-> <<>>]
  /\ rcv = [p \in Peers |-> <<>>]
  /\ ppc = [p \in Peers |-> "idle"]
  /\ asked = [p \in Peers |-> p]
  /\ reply = [p \in Peers |-> <<>>]

-----------------------------------------------------------------------------
(***************************************************************************)
(* The application: create_txn.                                            *)
(***************************************************************************)
Submit(p, t) ==
  /\ txns' = [txns EXCEPT ![p] = Append(@, t)]
  /\ submitted' = [submitted EXCEPT ![p] = @ + 1]
  /\ UNCHANGED <<chain, lock, state, minerVars, step, sendVars, inbox, rcv,
                 pollerVars>>

\* create_poll.  The name need not be new: a simulation file does not look.
CreatePoll(p, name) ==
  /\ submitted[p] < MaxSubmit[p]
  /\ Submit(p, [sender |-> p, stamp |-> submitted[p] + 1,
                type |-> "create_poll",
                poll_id |-> <<p, submitted[p] + 1>>, poll_name |-> name])

\* vote, for a poll that find_poll has found on the peer's own chain.
Vote(p, i) ==
  /\ submitted[p] < MaxSubmit[p]
  /\ lock[p] = "free"
  /\ i \in 1 .. Len(chain[p])
  /\ chain[p][i].txn.type = "create_poll"
  /\ Submit(p, [sender |-> p, stamp |-> submitted[p] + 1, type |-> "vote",
                poll_id |-> chain[p][i].txn.poll_id, poll_name |-> ""])

-----------------------------------------------------------------------------
(***************************************************************************)
(* The mining thread.                                                      *)
(***************************************************************************)
\* Takes the next transaction, unless one is still in hand.  Nothing is
\* started in any other state than MINING.
TakeTxn(p) ==
  /\ mpc[p] = "idle"
  /\ state[p] = "MINING"
  /\ current[p] \o txns[p] # <<>>
  /\ mpc' = [mpc EXCEPT ![p] = "snapshot"]
  /\ current' = [current EXCEPT ![p] = <<Head(@ \o txns[p])>>]
  /\ txns' = [txns EXCEPT ![p] = Tail(current[p] \o @)]
  /\ UNCHANGED <<chain, lock, state, submitted, mineId, prevHash, step,
                 sendVars, inbox, rcv, pollerVars>>

\* Reads, under blockchain_lock, what the new block is to be built upon.
SnapshotTip(p) ==
  /\ mpc[p] = "snapshot"
  /\ lock[p] = "free"
  /\ mpc' = [mpc EXCEPT ![p] = "attempt"]
  /\ mineId' = [mineId EXCEPT ![p] = NextId(chain[p])]
  /\ prevHash' = [prevHash EXCEPT ![p] = TipHash(chain[p])]
  /\ UNCHANGED <<chain, lock, state, txns, submitted, current, step, sendVars,
                 inbox, rcv, pollerVars>>

\* Mutant: the block mined upon is taken for a rival.
OvertakenByTip(p) == chain[p] # <<>> /\ Latest(chain[p]).id >= mineId[p] - 1

\* The test before each nonce: has a block with our id got there first?
Overtaken(p) == chain[p] # <<>> /\ Latest(chain[p]).id >= mineId[p]

\* Mutant: the transaction stays in hand.
DoneKeepingTxn(p) ==
  /\ current' = current
  /\ mineId' = [mineId EXCEPT ![p] = 0]
  /\ prevHash' = [prevHash EXCEPT ![p] = GenesisPrev]

\* Nothing is left in hand; what the thread has read is never used again.
MinerDone(p) ==
  /\ current' = [current EXCEPT ![p] = <<>>]
  /\ mineId' = [mineId EXCEPT ![p] = 0]
  /\ prevHash' = [prevHash EXCEPT ![p] = GenesisPrev]

\* Mutant: the transaction goes to the back of the queue.
RequeueLast(p) == txns' = [txns EXCEPT ![p] = @ \o current[p]]

\* The transaction in hand goes back to the front of the queue.
Requeue(p) == txns' = [txns EXCEPT ![p] = current[p] \o @]

\* Somebody else's block has our id: start over with the next one.
RestartMining(p) ==
  /\ mpc[p] = "attempt"
  /\ lock[p] = "free"
  /\ Overtaken(p)
  /\ Requeue(p)
  /\ MinerDone(p)
  /\ mpc' = [mpc EXCEPT ![p] = "idle"]
  /\ UNCHANGED <<chain, lock, state, submitted, step, sendVars, inbox, rcv,
                 pollerVars>>

\* A hundred nonces without success: the transaction is kept, the tip is
\* read again.
GiveUpRound(p) ==
  /\ mpc[p] = "attempt"
  /\ lock[p] = "free"
  /\ ~Overtaken(p)
  /\ mpc' = [mpc EXCEPT ![p] = "idle"]
  /\ mineId' = [mineId EXCEPT ![p] = 0]
  /\ prevHash' = [prevHash EXCEPT ![p] = GenesisPrev]
  /\ UNCHANGED <<chain, lock, state, txns, submitted, current, step, sendVars,
                 inbox, rcv, pollerVars>>

\* The nonce is found.
FindNonce(p) ==
  /\ mpc[p] = "attempt"
  /\ lock[p] = "free"
  /\ ~Overtaken(p)
  /\ mpc' = [mpc EXCEPT ![p] = "commit"]
  /\ UNCHANGED <<chain, lock, state, txns, submitted, current, mineId,
                 prevHash, step, sendVars, inbox, rcv, pollerVars>>

NewBlock(p) == MinedBlock(mineId[p], Head(current[p]), prevHash[p])

Refused(p) == \/ IsRepeatPoll(chain[p], NewBlock(p))
              \/ IsVoteForNonexistentPoll(chain[p], NewBlock(p))

\* Mutant: a block is appended whatever the tip has become.
TipAsExpectedAlways(p) == p \in Peers

TipAsExpected(p) == chain[p] # <<>> => Latest(chain[p]).id + 1 = mineId[p]

\* The chain does not admit the transaction: it is dropped for good.
RefuseBlock(p) ==
  /\ mpc[p] = "commit"
  /\ lock[p] = "free"
  /\ Refused(p)
  /\ MinerDone(p)
  /\ mpc' = [mpc EXCEPT ![p] = "idle"]
  /\ UNCHANGED <<chain, lock, state, txns, submitted, step, sendVars, inbox,
                 rcv, pollerVars>>

\* The tip moved while the nonce was computed: the block is dropped, the
\* transaction is not.
LoseRace(p) ==
  /\ mpc[p] = "commit"
  /\ lock[p] = "free"
  /\ ~Refused(p)
  /\ ~TipAsExpected(p)
  /\ Requeue(p)
  /\ MinerDone(p)
  /\ mpc' = [mpc EXCEPT ![p] = "idle"]
  /\ UNCHANGED <<chain, lock, state, submitted, step, sendVars, inbox, rcv,
                 pollerVars>>

\* Test configurations: which blocks are broadcast, which are tampered with.
Broadcasts(p) == BroadcastFreq[p] = 0 \/ step[p] % BroadcastFreq[p] = 0

Tampers(p) == /\ Broadcasts(p)
              /\ TamperFreq[p] # 0
              /\ step[p] % TamperFreq[p] = 0

NextStep(p) == IF BroadcastFreq[p] # 0 \/ TamperFreq[p] # 0
               THEN step[p] + 1 ELSE step[p]

\* The chain after the append: "chain" tampering spoils the second block.
Extended(p) ==
  LET c == Append(chain[p], NewBlock(p))
  IN  IF Tampers(p) /\ TamperType[p] = "chain" /\ Len(c) >= 2
      THEN [c EXCEPT ![2].hash = <<Noise>>]
      ELSE c

\* Mutant: the hash is computed anew over the spoiled previous hash.
OutgoingRehashed(p) ==
  LET b == Latest(Extended(p))
  IN  IF Tampers(p) /\ TamperType[p] = "prev_hash"
      THEN MinedBlock(b.id, b.txn, <<Noise>>)
      ELSE b

\* The block as it goes out; the other kinds of tampering are undone after
\* the broadcast and never seen in the chain.
Outgoing(p) ==
  LET b == Latest(Extended(p))
  IN  CASE ~Tampers(p) \/ TamperType[p] = "chain" -> b
        [] Tampers(p) /\ TamperType[p] = "hash" -> [b EXCEPT !.hash = <<Noise>>]
        [] Tampers(p) /\ TamperType[p] = "prev_hash" ->
             [b EXCEPT !.prev_hash = <<Noise>>]
        [] Tampers(p) /\ TamperType[p] = "txn_data" ->
             [b EXCEPT !.txn.poll_id = <<p, 0>>]

Others(p) == Peers \ {p}

\* The block enters the chain.  If it is sent, the lock is kept; LIST names
\* every other peer.
AppendBlock(p, sends) ==
  /\ mpc[p] = "commit"
  /\ lock[p] = "free"
  /\ ~Refused(p)
  /\ TipAsExpected(p)
  /\ chain' = [chain EXCEPT ![p] = Extended(p)]
  /\ step' = [step EXCEPT ![p] = NextStep(p)]
  /\ MinerDone(p)
  /\ IF sends
     THEN /\ mpc' = [mpc EXCEPT ![p] = "send"]
          /\ lock' = [lock EXCEPT ![p] = "miner"]
          /\ outgoing' = [outgoing EXCEPT ![p] = <<Outgoing(p)>>]
          /\ sendTo' = [sendTo EXCEPT ![p] = Others(p)]
     ELSE /\ mpc' = [mpc EXCEPT ![p] = "idle"]
          /\ UNCHANGED <<lock, sendVars>>
  /\ UNCHANGED <<state, txns, submitted, inbox, rcv, pollerVars>>

AppendOwnBlock(p) == AppendBlock(p, Broadcasts(p) /\ Others(p) # {})

\* broadcast_block_to_all_peers: one connection per peer, in any order; the
\* lock is released with the last one.
SendBlock(p, q) ==
  LET last == sendTo[p] = {q}
  IN  /\ mpc[p] = "send"
      /\ q \in sendTo[p]
      /\ inbox' = [inbox EXCEPT ![q] = Append(@, BlockMsg(p, Head(outgoing[p])))]
      /\ sendTo' = [sendTo EXCEPT ![p] = @ \ {q}]
      /\ IF last
         THEN /\ mpc' = [mpc EXCEPT ![p] = "idle"]
              /\ lock' = [lock EXCEPT ![p] = "free"]
              /\ outgoing' = [outgoing EXCEPT ![p] = <<>>]
         ELSE UNCHANGED <<mpc, lock, outgoing>>
      /\ UNCHANGED <<chain, state, txns, submitted, current, mineId, prevHash,
                     step, rcv, pollerVars>>

-----------------------------------------------------------------------------
(***************************************************************************)
(* The listening thread: process_peer_connections.                         *)
(***************************************************************************)
AcceptBlock(p) ==
  /\ inbox[p] # <<>>
  /\ Head(inbox[p]).type = "BLOCK"
  /\ inbox' = [inbox EXCEPT ![p] = Tail(@)]
  /\ rcv' = [rcv EXCEPT ![p] = @ \o Head(inbox[p]).payload]
  /\ UNCHANGED <<chain, lock, state, txns, submitted, minerVars, step,
                 sendVars, pollerVars>>

\* The thread waits here for blockchain_lock, and every later connection
\* waits behind it.  The lock is kept while the blocks are sent, so what
\* the requester reads is one state of the chain.
ServeChain(p) ==
  /\ inbox[p] # <<>>
  /\ Head(inbox[p]).type = "GET-CHAIN"
  /\ lock[p] = "free"
  /\ inbox' = [inbox EXCEPT ![p] = Tail(@)]
  /\ LET q == Head(inbox[p]).from
     IN  /\ reply' = [reply EXCEPT ![q] = ServedChain(chain[p])]
         /\ ppc' = [ppc EXCEPT ![q] = "served"]
  /\ UNCHANGED <<chain, lock, state, txns, submitted, minerVars, step,
                 sendVars, rcv, asked>>

-----------------------------------------------------------------------------
(***************************************************************************)
(* The polling thread: poll_from_rcv_buffer.                               *)
(***************************************************************************)
\* The next block of rcv_buffer is up for a decision.
Polling(p) == ppc[p] = "idle" /\ rcv[p] # <<>>

Popped(p) == rcv' = [rcv EXCEPT ![p] = Tail(@)]

DiscardInvalid(p) ==
  /\ Polling(p)
  /\ ~IsValid(Head(rcv[p]))
  /\ Popped(p)
  /\ UNCHANGED <<chain, lock, state, txns, submitted, minerVars, step,
                 sendVars, inbox, pollerVars>>

AppendReceived(p) ==
  /\ Polling(p)
  /\ lock[p] = "free"
  /\ IsValid(Head(rcv[p]))
  /\ CanAdd(chain[p], Head(rcv[p]))
  /\ Popped(p)
  /\ chain' = [chain EXCEPT ![p] = Append(@, Head(rcv[p]))]
  /\ UNCHANGED <<lock, state, txns, submitted, minerVars, step, sendVars,
                 inbox, pollerVars>>

\* Mutant: a block of the same height as the latest one is taken for a fork.
IsAheadByAny(c, b) == b.id >= Len(c) - 1

\* Mutant: only a block that leaves a gap is taken for a fork.
IsAheadByGap(c, b) == b.id > Len(c)

IsAhead(c, b) == b.id >= Len(c)

DiscardStale(p) ==
  /\ Polling(p)
  /\ lock[p] = "free"
  /\ IsValid(Head(rcv[p]))
  /\ ~CanAdd(chain[p], Head(rcv[p]))
  /\ ~IsAhead(chain[p], Head(rcv[p]))
  /\ Popped(p)
  /\ UNCHANGED <<chain, lock, state, txns, submitted, minerVars, step,
                 sendVars, inbox, pollerVars>>

\* Keeps blockchain_lock until the chain has been received.
DetectFork(p) ==
  /\ Polling(p)
  /\ lock[p] = "free"
  /\ IsValid(Head(rcv[p]))
  /\ ~CanAdd(chain[p], Head(rcv[p]))
  /\ IsAhead(chain[p], Head(rcv[p]))
  /\ Popped(p)
  /\ lock' = [lock EXCEPT ![p] = "poller"]
  /\ state' = [state EXCEPT ![p] = "WAITING_FOR_CHAIN"]
  /\ ppc' = [ppc EXCEPT ![p] = "asking"]
  /\ asked' = [asked EXCEPT ![p] = Head(rcv[p]).txn.sender]
  /\ UNCHANGED <<chain, txns, submitted, minerVars, step, sendVars, inbox,
                 reply>>

\* get_chain_from_peer: the port comes from the tracker, then GET-CHAIN.
AskForChain(p) ==
  /\ ppc[p] = "asking"
  /\ inbox' = [inbox EXCEPT ![asked[p]] = Append(@, GetChainMsg(p))]
  /\ ppc' = [ppc EXCEPT ![p] = "waiting"]
  /\ UNCHANGED <<chain, lock, state, txns, submitted, minerVars, step,
                 sendVars, rcv, asked, reply>>

\* Mutant: the blocks received are not checked.
AdoptableUnchecked(c, d) == Len(d) > Len(c)

\* Whether chain d, received from a peer, replaces chain c.
Adoptable(c, d) == ReplaysFromEmpty(d) /\ Len(d) > Len(c)

\* Mutant: the peer goes on waiting.
StayWaiting(p) == state' = [state EXCEPT ![p] = "WAITING_FOR_CHAIN"]

Resume(p) == state' = [state EXCEPT ![p] = "MINING"]

FinishFork(p) ==
  /\ ppc[p] = "served"
  /\ chain' = [chain EXCEPT ![p] = IF Adoptable(@, reply[p]) THEN reply[p]
                                                             ELSE @]
  /\ Resume(p)
  /\ lock' = [lock EXCEPT ![p] = "free"]
  /\ ppc' = [ppc EXCEPT ![p] = "idle"]
  /\ asked' = [asked EXCEPT ![p] = p]
  /\ reply' = [reply EXCEPT ![p] = <<>>]
  /\ UNCHANGED <<txns, submitted, minerVars, step, sendVars, inbox, rcv>>

-----------------------------------------------------------------------------
Application(p) == \/ \E name \in PollNames : CreatePoll(p, name)
                  \/ \E i \in 1 .. Len(chain[p]) : Vote(p, i)

Miner(p) == \/ TakeTxn(p)
            \/ SnapshotTip(p)
            \/ RestartMining(p)
            \/ GiveUpRound(p)
            \/ FindNonce(p)
            \/ RefuseBlock(p)
            \/ LoseRace(p)
            \/ AppendOwnBlock(p)
            \/ \E q \in Peers : SendBlock(p, q)

Listener(p) == AcceptBlock(p) \/ ServeChain(p)

Poller(p) == \/ DiscardInvalid(p)
             \/ AppendReceived(p)
             \/ DiscardStale(p)
             \/ DetectFork(p)
             \/ AskForChain(p)
             \/ FinishFork(p)

Next == \E p \in Peers : Application(p) \/ Miner(p) \/ Listener(p) \/ Poller(p)

Spec == Init /\ [][Next]_vars

-----------------------------------------------------------------------------
(***************************************************************************)
(* What the peers owe their users.                                         *)
(***************************************************************************)
\* The transactions of p that are not settled, in the order of submission.
Pending(p) == current[p] \o txns[p]

\* A peer that never spoils its own chain: the other kinds of tampering
\* touch only what is sent.
KeepsChain(p) == TamperFreq[p] # 0 => TamperType[p] # "chain"

\* Every block reaches every other peer as it was mined.
BroadcastsKept == \A p \in Peers : BroadcastFreq[p] = 0 /\ TamperFreq[p] = 0

\* All is mined, delivered and decided.
Quiescent ==
  \A p \in Peers : /\ Pending(p) = <<>>
                   /\ mpc[p] = "idle"
                   /\ inbox[p] = <<>>
                   /\ rcv[p] = <<>>
                   /\ ppc[p] = "idle"

(***************************************************************************)
(* The chain of a peer is linked from its first block on, holds no poll    *)
(* name twice and no vote before its poll, whatever the other peers tamper *)
(* with.  It takes some care: the miner compares only ids, with a tip it   *)
(* read three lock acquisitions earlier; a first block is taken without    *)
(* being looked at; and chains are replaced in between.                    *)
(***************************************************************************)
ChainsWellFormed == \A p \in Peers : KeepsChain(p) => WellFormed(chain[p])

(***************************************************************************)
(* A peer keeps its lock, and its listener waiting, while it asks for a    *)
(* chain.  The one it asks always has a longer chain: so peers never wait  *)
(* for each other in a circle.                                             *)
(***************************************************************************)
WaitsOnLonger ==
  \A p \in Peers : ppc[p] # "idle" => Len(chain[asked[p]]) > Len(chain[p])

(***************************************************************************)
(* A fork resolution is never in vain: the chain received is valid and     *)
(* longer than the peer's own, though it is sent long after the block that *)
(* announced it, and by a peer that has since changed its chain.           *)
(***************************************************************************)
ForkResolves ==
  \A p \in Peers : ppc[p] = "served" /\ KeepsChain(asked[p])
                   => Adoptable(chain[p], reply[p])

(***************************************************************************)
(* A transaction is mined once in the whole network, whatever is put back  *)
(* on the queue when a race is lost: wherever it occurs it is in the same  *)
(* block, and it occurs nowhere while its sender has yet to settle it.     *)
(***************************************************************************)
MinedOnce ==
  (\A p \in Peers : KeepsChain(p)) =>
    \A p, q \in Peers : \A i \in 1 .. Len(chain[p]) :
      /\ \A j \in 1 .. Len(chain[q]) :
           chain[p][i].txn = chain[q][j].txn => chain[p][i] = chain[q][j]
      /\ \A j \in 1 .. Len(Pending(q)) : chain[p][i].txn # Pending(q)[j]

(***************************************************************************)
(* The transactions not yet settled are the latest ones submitted, in the  *)
(* order of submission: none is lost, repeated or overtaken on its way     *)
(* through the queue, the miner's hand and back.                           *)
(***************************************************************************)
PendingInOrder ==
  \A p \in Peers : \A i \in 1 .. Len(Pending(p)) :
    /\ Pending(p)[i].sender = p
    /\ Pending(p)[i].stamp = submitted[p] - Len(Pending(p)) + i

(***************************************************************************)
(* Once everything is mined, delivered and decided the chains have the     *)
(* same length: no block that mattered was discarded as stale, and no fork *)
(* was overlooked.                                                         *)
(***************************************************************************)
QuiescentSameHeight ==
  Quiescent /\ BroadcastsKept =>
    \A p, q \in Peers : Len(chain[p]) = Len(chain[q])

(***************************************************************************)
(* docs/TESTING.md expects more of its stress test: "all the peers         *)
(* converge on the same chain in the end".                                 *)
(***************************************************************************)
QuiescentSameChain == Quiescent => \A p, q \in Peers : chain[p] = chain[q]

(***************************************************************************)
(* The comment of Blockchain.swap_block has the transactions of replaced   *)
(* blocks mined again.  A transaction a peer has entered into its chain    *)
(* would then stay there or go back to the queue.                          *)
(***************************************************************************)
OwnTxnsKept ==
  [][\A p \in Peers : \A i \in 1 .. Len(chain[p]) :
       chain[p][i].txn.sender = p =>
         \/ \E j \in 1 .. Len(chain'[p]) : chain'[p][j].txn = chain[p][i].txn
         \/ \E j \in 1 .. Len(Pending(p)') : Pending(p)'[j] = chain[p][i].txn
    ]_vars

-----------------------------------------------------------------------------
(***************************************************************************)
(* The peers implement Ledger.  A block stands for the transactions its    *)
(* hash commits to.                                                        *)
(***************************************************************************)
Entries(c) == [i \in 1 .. Len(c) |-> c[i].txn]

Commits(b) == [i \in 1 .. Len(b.hash) |-> b.hash[i][2]]

\* The blocks on their way to a peer.
InTransit ==
  UNION {Range(outgoing[p]) \cup Range(rcv[p])
         \cup UNION {Range(m.payload) : m \in Range(inbox[p])} : p \in Peers}

Visible == {Entries(chain[p]) : p \in Peers}
           \cup {Entries(reply[p]) : p \in {q \in Peers : ppc[q] = "served"}}
           \cup {Commits(b) : b \in {d \in InTransit : IsValid(d)}}

L == INSTANCE Ledger WITH queue <- [p \in Peers |-> Pending(p)],
                          ledger <- [p \in Peers |-> Entries(chain[p])],
                          visible <- Visible

(***************************************************************************)
(* Users see ledgers that grow by admitted transactions, each settled once *)
(* and in order, or are replaced by longer ledgers of other peers.         *)
(***************************************************************************)
ImplementsLedger == L!Spec

-----------------------------------------------------------------------------
(***************************************************************************)
(* The threads run.  A nonce is found sooner or later: each one tried      *)
(* succeeds with the same probability.  A thread that asks for a free lock *)
(* gets it.                                                                *)
(***************************************************************************)
Fairness ==
  \A p \in Peers : /\ WF_vars(Miner(p))
                   /\ SF_vars(FindNonce(p))
                   /\ WF_vars(Listener(p))
                   /\ WF_vars(Poller(p))

FairSpec == Spec /\ Fairness

(***************************************************************************)
(* A peer that waits for a chain, mining nothing, mines again.             *)
(***************************************************************************)
ForkResolutionEnds ==
  \A p \in Peers : state[p] = "WAITING_FOR_CHAIN" ~> state[p] = "MINING"

(***************************************************************************)
(* Every transaction submitted is entered into the chain or refused, with  *)
(* others mining against it.                                               *)
(***************************************************************************)
EveryTxnSettled ==
  \A p \in Peers : Pending(p) # <<>> ~> Pending(p) = <<>>

=============================================================================
