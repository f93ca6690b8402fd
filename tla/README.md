# A verification project for the blockchain voting system

The repository is a voting application on a small peer-to-peer blockchain:
peers mine one transaction per block, broadcast what they mine, and resolve
forks by fetching the chain of the peer that got ahead. This directory holds
TLA+ models of it, the TLC configurations that check them on small instances,
and TLAPS proofs of their main properties for every instance.

Sections: [inventory](#inventory), [modules](#modules),
[how the model follows the code](#how-the-model-follows-the-code),
[assumptions](#assumptions), [runs](#runs-what-they-check-and-show),
[fairness](#fairness), [proofs](#proofs), [findings](#findings),
[not modelled](#what-is-not-modelled), [plan](#plan).

## Inventory

| component | source | state | operations |
|---|---|---|---|
| Transaction, Block, Blockchain | `transaction.py`, `block.py`, `blockchain.py` | a list of blocks | validity of a block, admission of a block to a chain, the latest block, a block by id |
| Peer: mining thread | `peer.py:537-659` | queue, transaction in hand, id and previous hash it mines for | take, read the tip, try nonces, append, broadcast; withhold or spoil blocks in test configurations |
| Peer: listening thread | `peer.py:116-174` | the socket's backlog | one connection at a time: store a BLOCK, answer a GET-CHAIN |
| Peer: polling thread | `peer.py:176-343` | `rcv_buffer`, state, the peer asked | discard or append a block, resolve a fork |
| Joining and leaving | `peer.py:345-470, 686-696`, `app.py` | state, tracker connection | JOIN, ID, LIST, GET-CHAIN from each listed peer, LEAVE |
| Shutdown | `app.py:131-187`, `peer.py` | shutdown event, thread handles | set the event, close the sockets, join the threads, close the log |
| Tracker | `tracker.py` | `active_peers`, one thread per peer | JOIN, ID, LIST, GET-PEER, LEAVE, disconnection |
| Message framing | `socket_helper.py` | bytes received and not yet consumed | read up to a newline, read n bytes |
| Voting application | `app.py` | none of its own: reads the chain | create a poll, vote, list polls, count votes, run a simulation file |

**How they interact.** The three threads of a peer share `blockchain` under
`blockchain_lock`, the queue under `txn_lock`, `rcv_buffer` under its own lock
and `state` under `state_lock`. Two threads keep `blockchain_lock` while they
use the network: the miner from the moment it appends a block until it has
sent it to every other peer, and the poller from the moment it sees a fork
until it has read the other peer's whole chain. Peers exchange two messages,
each on a connection of its own: BLOCK, which is not answered, and GET-CHAIN,
which is answered with one BLOCK per block and an end marker. Peers learn each
other's addresses from the tracker.

**What is hard, and what would make it correct.**

* *Reads that are old when used.* The miner reads the tip, mines, and tests the
  tip twice more, each time under a new acquisition of the lock. The last test
  compares ids only, although the chain may have been replaced in between.
  Correct: chains stay linked, poll names unique, votes after their polls
  (`ChainsWellFormed`).
* *Queue order and single use.* A transaction that loses a race goes back to
  the head of the queue while the application appends to its tail. Correct: no
  transaction is lost, repeated or overtaken before it is settled
  (`PendingInOrder`), and it is mined once (`MinedOnce`).
* *Waiting with a lock held.* A poller waits for another peer's listener, which
  needs that peer's `blockchain_lock`. Correct: no circle of waiting
  (`WaitsOnLonger`), every wait ends (`ForkResolutionEnds`).
* *Old news.* A fork is announced by one block and resolved with the chain the
  peer has much later. Correct: what is received then is valid and longer
  (`ForkResolves`).
* *Decisions by height.* Whether a block is appended, starts a resolution or is
  dropped depends on its id. Correct: nothing that matters is dropped
  (`QuiescentSameHeight`).
* *Spoiled blocks and chains*, which the test configurations produce. Correct:
  the chains of the others are unharmed (`ChainsWellFormed`, `ForkResolves`).
* *Progress.* A miner may be overtaken for ever. Correct: every transaction is
  settled (`EveryTxnSettled`).
* *Membership.* The tracker lists a peer before the peer listens; lists and
  ports are used after they have become old; a peer leaves or crashes while it is
  asked. Correct: who joins has caught up (`JoinerCaughtUp`), a block that reached
  a member is not without effect (`NewsSettled`), nobody waits for ever for
  somebody who waits or is gone (`NobodyWaitsForEver`), the tracker finds the
  peers it deletes and lists nobody who has left (`ListsTheLiving`), and users are
  promised what they were promised in a closed network, up to what a peer leaves
  unsettled when it ends (`ImplementsOpenLedger`, `MinedOnce`).
* *Shutdown.* Sockets and the log are closed under threads that use them, and one
  lock is not given back when its holder raises. Correct: nobody waits for the
  dead (`NobodyWaitsForTheDead`), exchanges with the tracker are not cut off
  (`NoExchangeWithoutTracker`), everything ends (`QuitEnds`).
* *Framing.* TCP cuts the stream anywhere. Correct: the caller cannot tell
  (`ImplementsByteStream`, `MessagesIntact`, `EveryMessageArrives`).
* *Reading results.* Names, polls and votes are read from different copies of
  the chain. Correct: what is shown are votes that were cast, each once
  (`NoVoteCountedTwice`), and something is shown, unless a simulation file has
  voted for what the poll does not have (`OnlyFilesSpoilResults`; that it may is a
  [finding](#findings), `ResultsAreCounts`).

`PROJECT.json` lists these hazards at their lines, with the properties that
cover them.

## Modules

| module | what it is |
|---|---|
| `Blockchain` | the data and the pure functions on it: validity, `can_add_block_to_chain`, the chain as it is served and as it is accepted; `WellFormed`, an independent statement of what a chain should be |
| `PeerNetwork` | the peers: state, one action per step of a thread, the properties, fairness |
| `Ledger` | the abstract specification: queues and ledgers, without blocks, threads or messages |
| `OpenLedger` | the same for peers that enrol, quit (and may settle what they have in hand) and fail |
| `Tracker` | the tracker: `active_peers`, its thread for each peer, the peers' ends of the connections |
| `Membership` | `PeerNetwork` and `Tracker` composed: peers that join, leave and crash |
| `Shutdown` | the end of one peer: `app.shutdown` against the three threads, their locks, sockets and log |
| `ByteStream` | the abstract specification of framing: lines and payloads of a stream that is all there |
| `SocketHelper` | `socket_helper.py`: the same out of pieces, with a remainder kept between calls |
| `VotingApp` | the menu and the simulation files, on the ledgers of `Ledger` |
| `PeerNetworkInvariant` | the inductive invariants: `IInv` in thirteen named parts, of which `CoreInv` are the nine that survive comings and goings; `PromiseInv` on top of it in five |
| `MembershipInvariant` | the inductive invariants of `Membership`: `MembersInv`, and `JoinInv`, `ToldInv` and `PastInv` on top of it |
| `MCPeerNetwork`, `MCMembership`, `MCSocketHelper`, `MCVotingApp` | the instances for TLC (`Shutdown` needs none) |
| `BlockchainProofs` | lemmas about chains; `SoundChainServed` |
| `PeerNetworkProofs` | every step keeps `IInv`, one part at a time: types, requests and blocks in transit, the queue, the miner's snapshot, first blocks, chains; the theorems that follow |
| `PeerNetworkLedger` | every step keeps `PromiseInv`; `PeerNetwork` implements `Ledger` |
| `MembershipProofs` | what a peer that joins, leaves or crashes does to the facts of `PeerNetworkProofs`; the tracker's list; `MembersInv` |
| `MembershipNews` | joiners catch up, blocks that are sent have effect, what is settled stays so; `Membership` implements `OpenLedger` |
| `ShutdownProofs` | the invariants of `Shutdown` |
| `SocketHelperProofs` | lemmas on cutting sequences; `SocketHelper` implements `ByteStream` |
| `VotingAppProofs` | lemmas on looking up polls and counting votes; the invariants of `VotingApp` |

    Blockchain <- PeerNetwork --implements--> Ledger <-environment- VotingApp
                       ^                        ^
                  Membership --implements--> OpenLedger
                       |
                       +------INSTANCE-----> Tracker
    SocketHelper --implements--> ByteStream          Shutdown

`PeerNetwork` extends `Blockchain` and instantiates `Ledger` with a refinement
mapping; `VotingApp` stands on `Ledger`, so that what it shows holds for
whatever implements it. `Membership` extends `PeerNetwork` and takes over its
actions: as they are where membership makes no difference, composed with the
tracker's answer or a refused connection where it does. It instantiates
`OpenLedger`, which extends `Ledger`, with the mapping of `PeerNetwork` and the
stage of a peer's membership. Messages are whole in
all other modules, which `SocketHelper` justifies.

Definitions whose comment begins with "Mutant:" model nothing: each is a
plausible bug, kept to show that the property it is listed with in
`PROJECT.json` (`mutants`) notices it.

## How the model follows the code

**State.** `chain`, `state`, `txns`, `rcv` are the peer's fields of that name
(`rcv` is `rcv_buffer`). `mpc`, `current`, `mineId`, `prevHash` are the locals of
`mine`, `step` is `curr_step`; `outgoing` and `sendTo` are the block being
broadcast and the peers still to be sent to. `inbox` is the backlog of the
listening socket. `ppc`, `asked`, `reply` are the poller's place in
`poll_from_rcv_buffer`, the peer it asks and the candidate chain. `lock` says
which thread keeps `blockchain_lock` *between* steps; every other critical
section lies within one step, with `lock = "free"` as its guard.

**Steps.** A step is what a thread does between two lock or network operations
that others can observe.

| action | code |
|---|---|
| `CreatePoll`, `Vote` | `app.create_poll`, `app.vote`, then `create_txn` |
| `TakeTxn` | the state test, then the pop of the queue if nothing is in hand |
| `SnapshotTip` | `mine_id` and `prev_hash` read under the lock |
| `RestartMining` | the test before each nonce: somebody else has the id; back to the head of the queue |
| `GiveUpRound` | 100 nonces without success; the transaction stays in hand |
| `FindNonce` | `Block.mine` returns a block |
| `RefuseBlock`, `LoseRace`, `AppendOwnBlock` (`AppendBlock`) | the three outcomes under the lock |
| `SendBlock` | one connection of `broadcast_block_to_all_peers` |
| `AcceptBlock`, `ServeChain` | `process_peer_connections` |
| `DiscardInvalid`, `AppendReceived`, `DiscardStale`, `DetectFork` | the branches of `poll_from_rcv_buffer` |
| `AskForChain`, `FinishFork` | `get_chain_from_peer` and what follows it |

Steps that were merged, and why nothing is lost:

* `TakeTxn` merges the state test with the pop. Only this thread pops, and an
  append to the tail commutes with taking the head; a change of `state` in
  between leaves the miner with a transaction in hand, as it may be left one
  step later.
* `Vote` submits at the moment the poll is looked up. A transaction submitted
  later is one the miner takes later.
* The pop of `rcv_buffer` is merged with the critical section that follows: only
  the poller pops, and its test of validity reads nothing shared.
* `ServeChain` is one step: the lock is kept while the blocks are sent, the
  requester reads nothing else and keeps its own lock, so no one can tell when
  the individual blocks arrive.
* `FinishFork` sets `chain` and `state` in one step; `state` is read only by the
  miner, whose next step needs the lock that is still kept.

**Tracker and Membership.** `active` is `active_peers`, `thread` the place of
`process_peer_requests` for each connection; `link`, `request` and `answer` are
the peer's end of it. `life` is where a peer is between its start and its end,
`todo` the nodes of the loop in `send_join_message`. `owed` and `told` are no
program state: they record what was to be had when a joiner was told of the
peers, and the highest block a member was sent.

| action | code |
|---|---|
| `Join`, `ReadList` | JOIN and ID; the list that answers them |
| `AskListed`, `TakeListedChain`, `FailToJoin` | one turn of the loop over the list, in the application's thread; the ways it can raise |
| `StartThreads`, `StartMining` | `peer.py:425-430`, `432-433`; the polling thread may act in between |
| `MineBlock`, `LearnWhomToSend`, `SendNew`, `SkipPeer` | a broadcast with its LIST exchange; a failed connection is skipped |
| `AppendLast` | the block of a miner that was past the test of the event; it is not broadcast (`peer.py:508`) |
| `FaceFork`, `LearnPort`, `AskMiner`, `PollerDies` | a fork with its GET-PEER exchange; an exception ends the thread |
| `AbandonFork` | a fork detected after the event (`peer.py:224`) |
| `TakeMinersChain`, `EndFork` | the end of a fork resolution, going on or leaving |
| `Leave`, `Crash` | `shutdown` as others see it; the end of the process at any point |
| `TrackerThread` | `Register`, `SendPeers`, `SendPort`, `Deregister`, `ThreadDies` of `Tracker` |

A connection to a peer whose threads do not run yet is *refused*: the socket is
bound in `__init__`, but `listen` is called by the listening thread. At `Leave`
the listening thread may have one connection in hand, which it still serves;
those in the backlog are reset. Closed connections become resets only where data
was under way.

A peer that leaves keeps its chain, its queue and what its threads have in hand,
and each thread goes on to its next test of the event. The miner that is past the
test before a nonce (`peer.py:571`) may find the nonce and append its block, which
it sends to nobody (`AppendLast`), may be refused, or puts its transaction back
(`RestartMining`, `LoseRace`); a GET-CHAIN accepted before may be served the new
chain. The poller decides on the block it is at, and one more if it was past the
test of its loop (`InBuffer`). A transaction that is taken or a tip that is read
between the event and the test has no effect, and neither has a block received
in that time; these are left out.

**Shutdown.** One value per place at which a thread can be caught by the event, a
closed file or a lock: `mpc`, `ppc`, `lpc` for the threads, `apc` for the
application's. What the threads compute is a free choice, so is what other peers
and the tracker answer. A step that prints to a closed log, or uses a closed
socket, raises: the thread is `dead`, locks taken by `with` are free again,
`tracker_lock` (taken by `acquire()`) is not. `join` with a timeout may return
at any time. A valid block is decided under `blockchain_lock` whatever becomes of
it (`AdmitBlock`), so the poller may wait there for a broadcast to end.

**SocketHelper.** One action per turn of the two loops: the piece is the
remainder if there is one, else any prefix of what has been sent that fits the
size given to `recv`. The other side sends its messages one at a time (`Say`),
while the reader reads, and may go away in the middle of one (`Close`). `due` and `head` belong to the caller, who takes a line and
then the payload it announces. The mapping takes the unread bytes of `ByteStream`
to be `buf \o rem \o wire`: a byte in any of the three has not been handed out.

**VotingApp.** `dialogue` is what the application is waiting for and the poll it
has found; each `input` and each `get_chain` is a step. The ledgers change by the
actions of `Ledger`. A simulation file is any sequence of CREATE and VOTE
commands before the menu; its votes are for any option, as nothing compares it
with those of the poll (`app.py:210-218`).

**Data.** A hash stands for what it commits to: the sequence of (id,
transaction) pairs from the first block on. A transaction is identified by its
sender and its number among the sender's submissions. Nonces and timestamps are
left out, as they serve only to find and to vary a hash. Spoiled values are the
constant `Noise`, and the poll id `<<p, 0>>`.

**Test configurations.** `BroadcastFreq`, `TamperFreq`, `TamperType` are the
options of the configuration files, 0 standing for an absent one. A spoiled
block is restored after the broadcast, under the same lock, so the spoiling is
visible only in what is sent; type `chain` spoils the second block for good.

## Assumptions

* `NoiseAssumption`: what tampering writes over a hash is not the hash of
  anything. `ConfigAssumption`: the types of the configuration.
* SHA-256 has no collisions and RSA signatures verify; JSON round-trips.
* All peers use one difficulty (README.md, assumption 3), so a block that a peer
  mined passes the difficulty test of another.
* In `PeerNetwork` membership is fixed: every peer has joined, with an empty
  chain, before anything is submitted, and connections succeed. `Membership`
  drops this. Neither bounds the backlog of the listening socket
  (`MAX_QUEUED_CONNECTIONS`), where several blocks of one miner may queue while the
  listening thread waits for `blockchain_lock`.
* The tracker neither crashes nor stops answering; a peer's connections to others
  are closed by the operating system when it ends.
* `MembersAssumption`: founders, leavers and crashers are peers.
* `MessagesAssumption`: a line holds no newline, and `Announced`, the length it
  gives, is the length of the payload. `MaxAssumption`: `recv` is asked for at
  least one byte.
* `debug` is off: received chains are checked.

## Runs: what they check and show

Bounds: `MaxSubmit` is the number of transactions of each peer, `PollNames` the
names of polls. They bound everything else: a chain is at most as long as there
are transactions, an inbox as there are blocks and requests.

| run | instance | checks |
|---|---|---|
| `two_peers` | 2 peers, 3+2 transactions, one poll name, one peer withholds every other block | `TypeOK`, `ForkResolves`, `MinedOnce`, `PendingInOrder`, `ImplementsLedger`, `ForkResolutionEnds`, `EveryTxnSettled` |
| `three_peers` | 3 peers, 2+1+1 transactions | `ChainsWellFormed`, `WaitsOnLonger`, `MinedOnce`, `QuiescentSameHeight`, `PromiseInv` |
| `tampering` | 3 peers: one spoils its chain, one every other block it sends, one nothing | `ChainsWellFormed`, `ForkResolves`, `IInv` |
| `joining` | 3 peers: one mines 2 transactions and may crash, two join | `MemberTypeOK`, `JoinerCaughtUp`, `JoinInv`, `NobodyWaitsForEver` |
| `departures` | 2 peers, 2+1 transactions, the second joins, either may leave or crash | `MembersInv`, `ListsTheLiving`, `NewsSettled`, `ToldInv`, `PastInv`, `MinedOnce`, `NobodyWaitsForEver`, `ImplementsOpenLedger` |
| `shutdown` | one peer, no bounds | `TypeOK`, `NobodyWaitsForTheDead`, `NoExchangeWithoutTracker`, `QuitEnds` |
| `framing` | conversations of up to 3 messages, pieces of at most 2 and 3 bytes | `TypeOK`, `MessagesIntact`, `ImplementsByteStream`, `EveryMessageArrives` |
| `voting` | 2 users, one with a file, 2 transactions each, one name, 3 options | `TypeOK`, `OnlyFilesSpoilResults`, `NoVoteCountedTwice` |
| `convergence` | 2 peers, 2 transactions each | `QuiescentSameChain`, violated |
| `replaced_txns` | 2 peers, 2 transactions each | `OwnTxnsKept`, violated |
| `leaving_miner` | 2 peers, one mines 2 transactions and may leave | `PollerSurvives`, violated |
| `missing_option` | the instance of `voting` | `ResultsAreCounts`, violated |

Why this is enough. Two peers with three and two transactions lose races at
every place of the miner's loop, build rival chains that differ in more than one
block, resolve forks in both directions and one after another, and have a block
announced by a chain that has since been replaced. With one poll name the second
poll is always one that a chain refuses, and votes go to polls that may
disappear with a replaced chain. A third peer adds chains adopted from a peer
that adopted them itself, broadcasts that arrive in different orders, and a peer
that serves one while it asks another: the shortest circle of waiting that two
peers could not form. In `three_peers` peers with the same options are
interchangeable (`SYMMETRY`, in invariant runs only).

Two joiners beside a member are the fewest that can find each other on their
lists; the member's two blocks are enough for a joiner to miss one, or to be
refused one, and to fork at the next. In `departures` both peers mine, so either
may be asked when it leaves or crashes, and the other be in any of its steps; the
peer with two transactions may leave with one in its miner's hand and one behind
it in the queue.
Pieces of two and three bytes are shorter than a line with its newline and longer
than some messages, so every boundary falls inside, at the end of and across
pieces. `voting` has as many transactions as it takes for two polls of one name on
rival ledgers with a vote for one of them, and a third copy of the chain on which
neither is.

TLC checks for deadlock in the runs of `PeerNetwork`, `Membership` and
`Shutdown`: the system may stop only in `Finished`, where all transactions are
submitted and settled and nothing is in transit (in `Membership`: a peer may have
ended, or lost its polling thread), or at `Exit`. A circle of waiting peers would
be reported. `framing` and `voting` may stop anywhere: the other side may say no
more, the users do nothing.

`Ledger` states the promise: transactions of a peer are settled in order and
once, entered if the ledger admits them and refused otherwise; a ledger grows at
its end or is replaced by a longer one that some peer has built. The mapping
takes `current \o txns` for the queue, the transactions of the chain for the
ledger, and for `visible`, the ledgers still to be had, those of the peers, of
the replies, and those the blocks in transit commit to.

`OpenLedger` adds a stage to each peer. Who is `outside`, that is until the lists
of the tracker have been worked off, may adopt a ledger but has nothing to settle;
a `member` does what `Ledger` lets it do; who is `quitting` may enter the first
transaction of its queue, be refused it or leave it, once; who has `quit` settles
nothing any more. Both may finish to adopt a ledger. The mapping calls a peer that
has left `quitting` as long as its miner is past the test of the event with a
transaction in hand. Who is `lost` has lost queue and ledger. Nothing of the
others changes with a stage, and what was visible may be
adopted later, also when its owner is lost.

`ByteStream` states the promise of framing: lines and payloads as if the bytes
had all arrived, and a disconnection only when nothing complete is left.

## Fairness

`Fairness` (`PeerNetwork`) asks, for each peer, weak fairness of the three
threads (the operating system runs each of them, and they wait with timeouts or
short sleeps) and strong fairness of `FindNonce`: each nonce succeeds with the
same positive probability, so an attempt that is begun again and again succeeds.
Weak fairness would not do, as `GiveUpRound` and the lock take the step's guard
away from time to time. A lock that is free is obtained sooner or later. Nothing
is assumed of the application.

`MemberFairness` asks only that something of what is under way is done: a joiner,
a broadcast, a listener, a poller or a thread of the tracker. Mining, joining,
leaving and crashing are left to luck and to the users.

`Shutdown!FairSpec` asks weak fairness of each of the three threads, as they run
on their own and the tracker and the other peers answer or close, and strong
fairness of `ShuttingDown`: `state_lock` and `tracker_lock` are free again and
again, and Python's locks let a waiter in sooner or later. Nothing is assumed of
`Quit`.

`SocketHelper!FairSpec`: `recv` returns what has arrived. It is not assumed that
the other side sends everything: it may close at any point.

## Proofs

The theorems about `PeerNetwork` hold for every set of peers, names and
configuration, and for any number of transactions; they rest on
`NoiseAssumption` and `ConfigAssumption` only, and `PeersImplementLedger` on two
hypotheses of its own: that there is a peer, and that none spoils its own chain
(`AllKeepChain`, that is, nobody runs with the test option `tamper: chain`).
`MinedOnce` and `QuiescentSameHeight` carry such a condition in their statement.
Those about `Membership` hold for any peers, of which any may found, join, leave
and crash, from the same two assumptions and `MembersAssumption`; `JoinersCatchUp`
needs `AllKeepChain` besides, as a spoiled chain is not taken over, and
`NewsSettles` that nobody tampers at all, as a spoiled block is dropped.
`MembersImplementOpenLedger` has the two hypotheses of `PeersImplementLedger`.
Those about `SocketHelper` hold for every alphabet, every set of messages and
every limit given to `recv`, from `MessagesAssumption` and `MaxAssumption`; those
about `VotingApp` for every set of users, names and options and any number of
transactions, from `ScriptedAssumption`. `SpoiltByFilesOnly` says whose vote it is
when results cannot be shown; that they always can is false (see
[findings](#findings)).
`Shutdown` has no constants: its theorems say with an argument what the run says
by enumeration.

| theorem | says |
|---|---|
| `InvariantHolds` | `Spec => []IInv` |
| `TypeCorrect` | `Spec => []TypeOK` |
| `ChainsStayWellFormed` | `Spec => []ChainsWellFormed` |
| `ForksResolve` | `Spec => []ForkResolves` |
| `WaitsAreAcyclic` | `Spec => []WaitsOnLonger` |
| `QueueKeepsOrder` | `Spec => []PendingInOrder` |
| `PromisesKept` | `Spec => []PromiseInv` |
| `TxnsMinedOnce` | `Spec => []MinedOnce` |
| `SameHeightAtRest` | `Spec => []QuiescentSameHeight` |
| `PeersImplementLedger` | `Spec => ImplementsLedger`: each step of a thread is a step of `Ledger` or a stutter |
| `MembersHold` | `MemberSpec => []MembersInv` |
| `MembersTypeCorrect` | `MemberSpec => []MemberTypeOK`: `blockchain_lock` is held where the code holds it, whoever leaves or dies |
| `MembersChainsWellFormed` | `MemberSpec => []ChainsWellFormed` |
| `JoinersCatchUp` | `MemberSpec => []JoinerCaughtUp`, if nobody spoils its chain |
| `NewsSettles` | `MemberSpec => []NewsSettled`, if nobody tampers |
| `TrackerListsTheLiving` | `MemberSpec => []ListsTheLiving` |
| `JoinersGetTheLongest` | `MemberSpec => []JoinInv` |
| `NewsIsNotLost` | `MemberSpec => []ToldInv` |
| `PastIsKept` | `MemberSpec => []PastInv` |
| `MembersMineOnce` | `MemberSpec => []MinedOnce` |
| `MembersImplementOpenLedger` | `MemberSpec => ImplementsOpenLedger`, if there is a peer and nobody spoils its chain |
| `SoundChainServed` | a well-formed chain is served as it is and accepted block by block |
| `ShutdownProofs!TypeCorrect` | `Spec => []TypeOK` of `Shutdown`: locks are held where the code holds them, by the living |
| `NobodyWaits` | `Spec => []NobodyWaitsForTheDead` |
| `ExchangesSafe` | `Spec => []NoExchangeWithoutTracker` |
| `SocketHelperProofs!TypeCorrect` | `Spec => []TypeOK` of `SocketHelper`: no complete line or payload waits in `curr_buf` |
| `MessagesArriveIntact` | `Spec => []MessagesIntact` |
| `HelperImplementsStream` | `Spec => ImplementsByteStream` |
| `VotingAppProofs!TypeCorrect` | `Spec => []TypeOK` of `VotingApp`: who asks for an option or counts has found a poll |
| `VotesCountedOnce` | `Spec => []NoVoteCountedTwice` |
| `SpoiltByFilesOnly` | `Spec => []OnlyFilesSpoilResults` |

None of the properties of `PeerNetwork` but the types is inductive alone. The
argument:

1. A block's id is its place in the chain (`IdsInv`), whatever is tampered with.
2. Chains only get longer. What a miner has read is therefore the tip of a
   shorter chain, or of one equally long and then the tip itself
   (`SnapshotInv`): appends change the length, and a chain is replaced only by a
   longer one. This is why a comparison of ids is enough before a block is
   appended (`peer.py:597`), although the hash is not compared.
3. A block in transit is lower than the chain of its miner is long
   (`MinedInv`). The poller asks the miner, and only when the block is not lower
   than its own chain is long: so it waits for a peer with a longer chain
   (`WaitsOnLonger`), also later, as its own chain is locked and the other's
   grows.
4. A first block is added unchecked (`blockchain.py:90`), but the ones that are
   mined build on nothing and create a poll (a vote on an empty chain is
   refused), and one that is tampered with is invalid (`FirstInv`).
5. At most one request of a poller is under way and the poller waits for it
   (`RequestsInv`, `ThreadsInv`): so a reply arrives where it was asked for.
   With 3, what is served is longer than the requester's chain, and well-formed
   if its peer does not spoil its own chain (`ServedInv`, `ReplyInv`); by
   `SoundChainServed` it is then accepted.

`PeerNetworkProofs` proves, one conjunct at a time, that a step keeps it, from
lemmas that say which steps change a given variable and how.

What users are promised rests on a second invariant, `PromiseInv`, on top of
`IInv`:

6. A transaction leaves the queue of its sender for good only when it is refused
   or its block is appended; a race that is lost puts it back. So every
   transaction of a ledger that can be had (a chain, a reply, what a block in
   transit commits to) is settled: its number is not above those submitted less
   those pending (`SettledInv`). This is what lets `Ledger` enter the head of a
   queue without looking at the other ledgers.
7. Hence a block about to be appended holds a transaction that no block in a
   chain, in a reply or unspoiled in transit holds, and such blocks are equal as
   soon as their transactions are (`OnceInv`); `MinedOnce` follows, and that an
   adopted ledger is one of those `visible`.
8. If a peer's chain is shorter than another's, a block that is high enough is on
   its way to it, or it is asking, or has the answer of, a peer whose chain is long
   enough (`NewsInv`). Broadcasts, discarding of stale blocks and the fork
   resolution each keep this. At rest nothing is on its way, so no chain is
   shorter: `QuiescentSameHeight`.
9. A block in transit commits to a ledger that is read off it; that appending it
   extends exactly the ledger it commits to is `LinkedCommits`
   (`BlockchainProofs`), by following the links back to the first place where they
   would differ. That there is a first one is `LeastElement`, proved from the
   facts about intervals: it takes the place of an induction schema.

The refinement is then one step per action of `PeerNetwork`. `HandInv` and
`ExchangeInv` give the small facts it needs: at most one transaction in the miner's
hand, and a reply that its peer has had.

For `Membership` each step is one of `PeerNetwork` (where a block may be appended
without being sent, `AppendsBlock`), or one of ten that come with joining and
leaving (`MemberSteps`): a listed peer is asked and its answer taken, joining fails,
mining starts, a broadcast goes on or is cut short, a poller dies, a fork is
abandoned or ends with the peer, a peer leaves or crashes. So the
lemmas on single conjuncts carry over, their hypotheses reduced to what survives
(`CoreInv`, a part of `IInv` and of `MembersInv`), and only the ten are new.
What does not survive is that one waits for a longer chain than one's own
(`WaitsOnLonger`, `ServedInv`): a joiner asks whom it was told of, and the one
asked may be gone. `LifeInv` says in its place which threads and locks a peer
has at each stage of its life.

The tracker's list (`ListsTheLiving`) depends on both ends of a connection, which
see each other's steps late: `TrackerInv` says, for each stage of a peer's life, how
far its thread at the tracker and the request under way can be. A thread that
deletes its peer is past `Register`, which entered it, and no other thread deletes
it; so `del active_peers[peer_id]` does not raise (`tracker.py:25`).

* `JoinInv`: a chain of the length owed is in the joiner's hands, or a listed peer
  still to be asked has one (`Has`), or is asked or has answered (`WillGet`). Only
  `Join` and `ReadList` set what is owed; chains of the living get longer
  (`LivesOn`), and of two chains the joiner keeps the longer (`Better`).
* `ToldInv`: whatever is sent is intact, and its miner has the chain it is from
  (`SentBlocks`); a member that was told of a block has a chain as long, or has the
  block still to look at, or asks its miner. A block that is looked at is appended,
  is stale, or starts a fork resolution (`DecidedNews`): dropping none that is
  ahead is what the property is about.

* `PastInv`: `SettledInv` and `OnceInv` survive. What comes with membership makes no
  ledger visible that was not, and commits no new block (`TransitComing`,
  `VisibleComing`, `LiveComing`); the queue that is lost in a crash settles what was
  in it. Only a peer whose threads run, or finish what they are at, has a queue
  (`QueueInv`): so nothing of a crashed peer is put back or mined, and what the miner
  of a peer that quit still mines or puts back is what it had in hand. `MinedOnce`
  follows as in `PeerNetwork`.

For `OpenLedger` the steps of members are those of `Ledger`, by the lemmas for
`PeersImplementLedger`, whose hypotheses are `CoreInv`, `SettledInv`, `OnceInv` and
`HandInv` (`ThreadsOpen`); a joiner's chain taken over, and the end of a fork
resolution, are `Adopt`; what is lost in transit is `Forget` (`ComingOpen`); and the
steps in which a peer changes its stage are `Enrol`, `Quit` and `Fail` (`LifeOpen`),
and `Finish`. The last is the subtle one: while nobody joins, leaves or crashes, a
stage changes only when the miner of a peer that has left ends its try
(`StageSteps`), and a peer that has left settles a transaction only in such a step
(`ThreadsOpen`), so at most once.

In `JoinInv` and `ToldInv` a peer that has crashed counts as having the chain:
who asks it is refused or cut off, and then fails to join or loses its polling
thread, of which the two say nothing (see [findings](#findings)).

For `Shutdown` the invariant adds to the properties that the event, the closed
connection and the closed log tell how far `shutdown` is (`InOrder`), that
`tracker_lock` belongs to an exchange, during which the connection is open, or to
a dead thread (`TrackerLockHeld`), and that in the latter case the other thread is
outside the steps that need it (`DeadHolders`): the holder had `blockchain_lock`
when it took `tracker_lock`, and died because the connection was closed, hence
after the event, which keeps the other thread from starting a broadcast or a fork
resolution.

For `SocketHelper` the turns that hand nothing over leave `buf \o rem \o wire` as
it is (`GoesOn`), and the first newline of the piece, or its `due`-th byte counted
from the start of `curr_buf`, is that of the stream (`LineEndsStep`,
`DataEndsStep`), which is the refinement. That the caller gets what was sent
needs more (`StreamInv`): what is unread is the rest of what was sent, up to what
`Close` has cut off. The rest is given by the encodings of the suffixes of
`sent`, each the encoding of a message followed by the next (`Tails`): that such a
family exists is part of the invariant, as a recursive function would need an
induction to reason about, and is extended by each `Say`. A line holds no
newline, so the first newline of the rest ends the line of the next message
(`FirstLine`), and the length it announces ends its payload.

For `VotingApp` the invariant (`AppInv`) speaks of the set `A` of all transactions
ever submitted, wherever they are now. That there is such a set is part of the
invariant (`HistoryInv`), and each `Submit` adds to it: a transaction is known by
its sender and number, a poll id by the poll, and a vote is cast and names a poll
of `A`. So it does not matter that names, polls and votes are read from different
copies of the chain: the poll with the id of a vote is the poll that was looked up
when the vote was made, with its options. The pending transactions of a user are
the last ones submitted (`QueueInv`) and those of a ledger are settled, each once
(`LedgerInv`): `Enter` therefore adds one that the ledger lacks, and counting the
votes of a ledger is an injection into the votes that were cast.

Only model-checked: the liveness properties (`ForkResolutionEnds`,
`EveryTxnSettled`, `NobodyWaitsForEver`, `QuitEnds`, `EveryMessageArrives`), which
are out of the prover's reach.

## Findings

* **Peers may end on different chains** (run `convergence`). Two peers that
  mine a block of the same height keep their own, and nothing reconciles them
  until somebody mines on top. docs/TESTING.md:385 expects that "all the peers
  converge on the same chain in the end". What does hold, if no
  block is withheld or spoiled, is that the chains end equally long
  (`QuiescentSameHeight`).
* **Transactions of replaced blocks are dropped** (run `replaced_txns`). A peer
  that adopts a longer chain forgets the transactions of the blocks it gives up,
  its own included. The comment at src/blockchain.py:53 speaks of "a list of
  transactions that need to re-mined"; that function, `swap_block`, is
  never called. `Ledger!Adopt` therefore promises no more than the code keeps.
* **A departure can silence a member** (run `leaving_miner`). If the peer that
  mined the block which starts a fork resolution has left by the time it is asked,
  `connect` raises (`peer.py:298`) and the polling thread ends in state
  WAITING_FOR_CHAIN: the member neither receives nor mines again. docs/TESTING.md:113
  concludes from a run with one departure that "the network can handle the
  leaving of the peer". What does hold is that the lock is given back, so that the
  member still serves its chain (`NobodyWaitsForEver`, `MemberTypeOK`).
* **A vote can make results unreadable** (run `missing_option`). A simulation file may
  vote for an option that the poll it finds does not have: `parse_sim_file` looks up
  the poll by its name and does not look at the option (`app.py:210-218`), nor does the
  miner. `get_poll_results`, which is to return "a map of counts for each option in
  the poll" (`app.py:58`), then raises KeyError (`app.py:76`) at every peer that asks for
  the results, which ends its application. The file need not be wrong: where two peers
  create polls of one name with different options, which one is mined is up to a race.
  What does hold is that no vote from the menu does this (`OnlyFilesSpoilResults`).

Seen, without a run of their own. The model follows the code in all four:

* *Joining at the same time fails.* A peer is listed before it listens; another peer
  that joins meanwhile is refused (`peer.py:387`), and its program ends (`FailToJoin`,
  in the run `joining`). docs/DESIGN.md:49 has the listening threads of all listed
  peers handle the request. What does hold is that nobody waits for ever, and that
  who joins has caught up.
* *A joiner may miss a block for good.* A block mined after a joiner was served the
  chain and before it listens is refused and not sent again (`peer.py:526`,
  `SkipPeer`): the joiner stays behind until somebody mines on top. docs/TESTING.md:87
  observes that peers that join "recieve the longest chain in the network". What does
  hold is that a joiner has what was to be had when it was told of the peers
  (`JoinerCaughtUp`), and what it was sent once it listens (`NewsSettled`).
* *A crashed peer may stay listed.* If its connection is reset, the thread of the
  tracker ends in an exception (`tracker.py:126`, `ThreadDies`) and never deletes it.
  docs/DESIGN.md:19 has the thread detect that a connection has closed, and "when that
  happens it deletes the peer from the tracked peers". What does hold is that nothing
  else leaves a peer on the list (`ListsTheLiving`).
* *A fork resolution asks one peer.* docs/DESIGN.md:69-71 has it ask the tracker for the
  list of nodes and request the chain of every node. The code (`peer.py:229`) asks
  only the peer that mined the block, whose port it gets by GET-PEER.

## What is not modelled

* Never called: `swap_block`, `create_block`, `create_genesis_block`,
  `Blockchain.get_poll_results`, `Peer.send_leave_message`; `SYNCING`,
  `VALIDATING_BLOCK` and `MessageTypes` of `enums.py`.
* No state or behaviour of their own: key generation, signing, hashing, JSON,
  logging, prompts and the parsing of arguments; choice 2 of the menu, which
  prints one copy of the chain.
* What no peer sends: a LEAVE before JOIN, unknown requests, a second ID
  (`tracker.py:82-92, 172`), and an ID message cut in its middle (`tracker.py:111`).
* What happens to a connection that finds the backlog of a listening socket full.
* A miner that raises between the test of the event in `broadcast_block_to_all_peers`
  and the LIST exchange, as the socket to the tracker has been closed: `Shutdown` has
  it; in `Membership` it comes to `AppendLast`, but with a test option that spoils
  blocks the block would also stay spoiled in the chain of the peer that leaves.
* `archive/` and the `*_test` directories: testers of an earlier stage, and
  inputs and logs of simulation runs.

## Plan

All parts of the program that act are modelled, and every safety property that a
passing run checks is a theorem; so is every refinement. Liveness stays with TLC.
What could still be added is a bound on the backlog of the listening socket, and in
`OpenLedger` the ledger that a joiner is owed, which `JoinerCaughtUp` states of
chains. Of the bad chain that is served (`peer.py:330`) the properties would see an
ill-formed part adopted, not a good one.
