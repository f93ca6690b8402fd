------------------------ MODULE PeerNetworkInvariant ------------------------
(***************************************************************************)
(* Why the safety properties of PeerNetwork hold: the facts that every     *)
(* step relies on and every step keeps.  Their conjunction is inductive.   *)
(***************************************************************************)
EXTENDS PeerNetwork

\* The types, with what states and polling threads may be where peers join
\* and leave.
DataTypes ==
  /\ chain \in [Peers -> Seq(Block)]
  /\ lock \in [Peers -> {"free", "miner", "poller"}]
  /\ state \in [Peers -> {"IDLE", "WAITING_FOR_CHAIN", "MINING"}]
  /\ txns \in [Peers -> Seq(Txn)]
  /\ submitted \in [Peers -> Nat]
  /\ mpc \in [Peers -> {"idle", "snapshot", "attempt", "commit", "send"}]
  /\ current \in [Peers -> Seq(Txn)]
  /\ mineId \in [Peers -> Nat]
  /\ prevHash \in [Peers -> Hash]
  /\ step \in [Peers -> Nat]
  /\ outgoing \in [Peers -> Seq(Block)]
  /\ sendTo \in [Peers -> SUBSET Peers]
  /\ inbox \in [Peers -> Seq(Connection)]
  /\ rcv \in [Peers -> Seq(Block)]
  /\ ppc \in [Peers -> {"idle", "asking", "waiting", "served", "reset", "dead"}]
  /\ asked \in [Peers -> Peers]
  /\ reply \in [Peers -> Seq(Block)]

\* A thread that mines has a transaction in hand, one that broadcasts a block.
MinerInv ==
  \A p \in Peers :
    /\ mpc[p] \in {"snapshot", "attempt", "commit"} => current[p] # <<>>
    /\ mpc[p] = "send" => outgoing[p] # <<>>

\* The miner keeps the lock while it broadcasts, the poller while it
\* resolves a fork.
ThreadsInv ==
  \A p \in Peers :
    /\ lock[p] = "miner" <=> mpc[p] = "send"
    /\ lock[p] = "poller" <=> ppc[p] # "idle"

\* A block's id is its place in the chain.
IdsInv == \A p \in Peers : \A i \in 1 .. Len(chain[p]) : chain[p][i].id = i - 1

\* A GET-CHAIN is under way only for a poller that waits for it, and once.
RequestsInv ==
  \A p \in Peers : \A i \in 1 .. Len(inbox[p]) :
    inbox[p][i].type = "GET-CHAIN" =>
      /\ ppc[inbox[p][i].from] = "waiting"
      /\ asked[inbox[p][i].from] = p
      /\ \A j \in 1 .. Len(inbox[p]) :
           /\ inbox[p][j].type = "GET-CHAIN"
           /\ inbox[p][j].from = inbox[p][i].from
           => i = j

\* All blocks on their way to a peer belong to S.
Carrying(S) == [type : {"BLOCK", "GET-CHAIN"}, from : Peers, payload : Seq(S)]

Traffic(S) ==
  \A p \in Peers : /\ outgoing[p] \in Seq(S)
                   /\ rcv[p] \in Seq(S)
                   /\ inbox[p] \in Seq(Carrying(S))

\* The miner of a block has a chain that is longer than the block is high.
MinedBlocks == {b \in Block : b.id < Len(chain[b.txn.sender])}

MinedInv == Traffic(MinedBlocks)

\* What the miner read is an older tip, or the tip.
SnapshotInv ==
  \A p \in Peers : mpc[p] \in {"attempt", "commit"} =>
    /\ mineId[p] <= Len(chain[p])
    /\ mineId[p] = Len(chain[p]) => prevHash[p] = TipHash(chain[p])

\* A first block builds upon nothing and creates a poll.  Nobody checks it,
\* but nobody mines any other, and tampering makes it invalid.
GoodFirst(b) == b.prev_hash = GenesisPrev /\ b.txn.type = "create_poll"

FirstBlocks == {b \in Block : b.id = 0 /\ IsValid(b) => GoodFirst(b)}

FirstInv ==
  /\ Traffic(FirstBlocks)
  /\ \A p \in Peers :
       /\ chain[p] # <<>> => GoodFirst(chain[p][1]) /\ IsValid(chain[p][1])
       /\ ppc[p] = "served" /\ reply[p] # <<>> => GoodFirst(reply[p][1])

\* A peer that resolves a fork has been served a longer chain.
ServedInv ==
  \A p \in Peers : ppc[p] = "served" => Len(reply[p]) > Len(chain[p])

\* What a peer has been served is intact if the peer asked keeps its chain.
ReplyInv ==
  \A p \in Peers : ppc[p] = "served" =>
    /\ \A i \in 1 .. Len(reply[p]) : reply[p][i].id = i - 1
    /\ KeepsChain(asked[p]) => WellFormed(reply[p])

IInv == /\ TypeOK
        /\ MinerInv
        /\ ThreadsInv
        /\ PendingInOrder
        /\ IdsInv
        /\ RequestsInv
        /\ MinedInv
        /\ SnapshotInv
        /\ FirstInv
        /\ ReplyInv
        /\ ServedInv
        /\ WaitsOnLonger
        /\ ChainsWellFormed

\* What is left of it where peers join and leave: nobody need find the lock as
\* it left it, or the peer that mined a block.
CoreInv == /\ DataTypes
           /\ MinerInv
           /\ PendingInOrder
           /\ IdsInv
           /\ RequestsInv
           /\ SnapshotInv
           /\ FirstInv
           /\ ReplyInv
           /\ ChainsWellFormed

-----------------------------------------------------------------------------
(***************************************************************************)
(* What the promises of Ledger rest on beside IInv.  Nothing is promised   *)
(* of the blocks of a peer that spoils its own chain.                      *)
(***************************************************************************)
AllKeepChain == \A p \in Peers : KeepsChain(p)

\* The transaction was taken from its sender's queue for good.
TakenFor(t) ==
  /\ t \in Txn
  /\ t.stamp <= submitted[t.sender] - Len(Pending(t.sender))

\* No ledger that can be had mentions a transaction that is still pending,
\* or one that has yet to be submitted.
SettledInv ==
  AllKeepChain => \A l \in Visible : \A i \in 1 .. Len(l) : TakenFor(l[i])

\* The blocks that are in a chain or may yet get into one.
LiveBlocks ==
  (UNION {Range(chain[p]) : p \in Peers})
  \cup (UNION {Range(reply[p]) : p \in {q \in Peers : ppc[q] = "served"}})
  \cup {b \in InTransit : IsValid(b)}

OnceInv == AllKeepChain => \A b, c \in LiveBlocks : b.txn = c.txn => b = c

\* The blocks that q has been sent and has not looked at.
Undecided(q) ==
  Range(rcv[q])
  \cup UNION {Range(m.payload) : m \in {n \in Range(inbox[q]) : n.type = "BLOCK"}}

\* The blocks that were mined for q to see and that it has not looked at.
OnTheWay(q) ==
  {Head(outgoing[p]) : p \in {r \in Peers : q \in sendTo[r]}} \cup Undecided(q)

\* q will hear of a chain of length h: a block as high is on its way, or the
\* peer it asks has such a chain, or has sent it.
WillHear(q, h) ==
  \/ \E b \in OnTheWay(q) : b.id + 1 >= h
  \/ ppc[q] = "served" /\ Len(reply[q]) >= h
  \/ ppc[q] \in {"asking", "waiting"} /\ Len(chain[asked[q]]) >= h

NewsInv ==
  BroadcastsKept =>
    /\ \A b \in InTransit : IsValid(b)
    /\ \A p, q \in Peers :
         Len(chain[q]) < Len(chain[p]) => WillHear(q, Len(chain[p]))

\* The miner has one transaction in hand.
HandInv == \A p \in Peers : Len(current[p]) <= 1

\* When the miner has done with its broadcast it has nobody left to send to;
\* the chain that was served is one the other peer has had.
ExchangeInv ==
  \A p \in Peers :
    /\ mpc[p] # "send" => sendTo[p] = {}
    /\ ppc[p] = "served" => Len(reply[p]) <= Len(chain[asked[p]])

PromiseInv == SettledInv /\ OnceInv /\ HandInv /\ NewsInv /\ ExchangeInv

=============================================================================
