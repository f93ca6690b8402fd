----------------------------- MODULE Membership -----------------------------
(***************************************************************************)
(* Peers that join, leave and crash: PeerNetwork and Tracker composed.     *)
(*                                                                         *)
(* A joining peer is listed by the tracker before it listens: a connection *)
(* to it is refused until its threads run.  It asks every listed peer for  *)
(* its chain, with no way to go on without one of them.  A broadcast goes  *)
(* to the peers of a list that may be old when it is used, and a fork      *)
(* resolution goes to a peer that may have left.                           *)
(*                                                                         *)
(* The actions of PeerNetwork are taken over as they are where membership  *)
(* makes no difference; where the source asks the tracker or connects to a *)
(* peer, they are composed with the tracker's answer and with the refusal. *)
(***************************************************************************)
EXTENDS PeerNetwork

CONSTANTS
  Founders,  \* the peers that are up from the start
  Leavers,   \* bound: the peers that may quit
  Crashers   \* bound: the peers that may crash

ASSUME MembersAssumption ==
  Founders \subseteq Peers /\ Leavers \subseteq Peers /\ Crashers \subseteq Peers

VARIABLES
  active, thread, link, request, answer,  \* see Tracker
  life,  \* how far a peer is in its life
  todo,  \* the listed peers a joining peer has still to ask
  owed,  \* the longest chain among the peers listed when it was told of them
  told   \* one more than the highest block id a peer was sent

T == INSTANCE Tracker

trackerVars == <<active, thread, link, request, answer>>
memberVars  == <<life, todo, owed, told>>
allVars == <<vars, trackerVars, memberVars>>

(***************************************************************************)
(*   out        has not started, or has ended after a failed join;         *)
(*   joining    has sent JOIN and waits for the list;                      *)
(*   asking     collects the chains of the listed peers;                   *)
(*   started    its three threads run, its state is still IDLE;            *)
(*   up         a full member;                                             *)
(*   leaving    has sent LEAVE and listens no more; each of its threads    *)
(*              finishes what it is at, which may be to mine a block.      *)
(***************************************************************************)
Lives == {"out", "joining", "asking", "started", "up", "leaving",
          "failed", "crashed"}

MemberTypeOK ==
  /\ T!TypeOK
  /\ life \in [Peers -> Lives]
  /\ todo \in [Peers -> SUBSET Peers]
  /\ chain \in [Peers -> Seq(Block)]
  /\ rcv \in [Peers -> Seq(Block)]
  /\ inbox \in [Peers -> Seq(Connection)]
  /\ sendTo \in [Peers -> SUBSET Peers]
  /\ state \in [Peers -> {"IDLE", "WAITING_FOR_CHAIN", "MINING"}]
  /\ ppc \in [Peers -> {"idle", "asking", "waiting", "served", "reset", "dead"}]
  /\ \A p \in Peers :
       /\ lock[p] = "poller" <=>
            /\ life[p] \in {"started", "up", "leaving"}
            /\ ppc[p] \in {"asking", "waiting", "served", "reset"}
       /\ lock[p] = "miner" <=> mpc[p] = "send"

MemberInit ==
  /\ life = [p \in Peers |-> IF p \in Founders THEN "up" ELSE "out"]
  /\ todo = [p \in Peers |-> {}]
  /\ owed = [p \in Peers |-> 0]
  /\ told = [p \in Peers |-> 0]
  /\ T!InitWith(Founders)
  /\ chain = [p \in Peers |-> <<>>]
  /\ lock = [p \in Peers |-> "free"]
  /\ state = [p \in Peers |-> IF p \in Founders THEN "MINING" ELSE "IDLE"]
  /\ txns = [p \in Peers |-> <<>>]
  /\ submitted = [p \in Peers |-> 0]
  /\ mpc = [p \in Peers |-> "idle"]
  /\ current = [p \in Peers |-> <<>>]
  /\ mineId = [p \in Peers |-> 0]
  /\ prevHash = [p \in Peers |-> GenesisPrev]
  /\ step = [p \in Peers |-> 0]
  /\ outgoing = [p \in Peers |-> <<>>]
  /\ sendTo = [p \in Peers |-> {}]
  /\ inbox = [p \in Peers |-> <<>>]
  /\ rcv = [p \in Peers |-> <<>>]
  /\ ppc = [p \in Peers |-> "idle"]
  /\ asked = [p \in Peers |-> p]
  /\ reply = [p \in Peers |-> <<>>]

\* The threads of the peer run.
Running(p) == life[p] \in {"started", "up"}

\* They run, or finish what they were at when the peer left.
Working(p) == life[p] \in {"started", "up", "leaving"}

\* Mutant: the socket listens as soon as it is bound.
ListeningOnceBound(q) == life[q] \in {"joining", "asking", "started", "up"}

\* A connection to q is accepted.
Listening(q) == life[q] \in {"started", "up"}

Unasked(p) == request[p] = "none"

-----------------------------------------------------------------------------
(***************************************************************************)
(* Joining: send_join_message.                                             *)
(***************************************************************************)
Join(p) ==
  /\ life[p] = "out"
  /\ life' = [life EXCEPT ![p] = "joining"]
  /\ T!Join(p)
  /\ UNCHANGED <<vars, todo, owed, told>>

\* The longest chain of the peers, 0 if there are none.
LongestOf(peers) ==
  {n \in {0} \cup {Len(chain[q]) : q \in peers} :
     \A q \in peers : Len(chain[q]) <= n}

ReadList(p) ==
  /\ life[p] = "joining"
  /\ T!TakeAnswer(p)
  /\ life' = [life EXCEPT ![p] = "asking"]
  /\ todo' = [todo EXCEPT ![p] = answer[p]]
  /\ \E n \in LongestOf({q \in answer[p] : Listening(q)}) :
       owed' = [owed EXCEPT ![p] = n]
  /\ UNCHANGED <<vars, told>>

\* The thread that asks is the application's; nothing else runs yet, so
\* where the polling thread keeps the exchange serves for this one too.
AskListed(p, q) ==
  /\ life[p] = "asking"
  /\ ppc[p] = "idle"
  /\ q \in todo[p]
  /\ Listening(q)
  /\ todo' = [todo EXCEPT ![p] = @ \ {q}]
  /\ asked' = [asked EXCEPT ![p] = q]
  /\ ppc' = [ppc EXCEPT ![p] = "waiting"]
  /\ inbox' = [inbox EXCEPT ![q] = Append(@, GetChainMsg(p))]
  /\ UNCHANGED <<chain, lock, state, txns, submitted, minerVars, step,
                 sendVars, rcv, reply, trackerVars, life, owed, told>>

\* Mutant: the last chain received is kept.
LastReceived(c, d) == ReplaysFromEmpty(d)

\* Whether d is the best chain so far.
Better(c, d) == Adoptable(c, d)

TakeListedChain(p) ==
  /\ life[p] = "asking"
  /\ ppc[p] = "served"
  /\ chain' = [chain EXCEPT ![p] = IF Better(@, reply[p]) THEN reply[p] ELSE @]
  /\ ppc' = [ppc EXCEPT ![p] = "idle"]
  /\ asked' = [asked EXCEPT ![p] = p]
  /\ reply' = [reply EXCEPT ![p] = <<>>]
  /\ UNCHANGED <<lock, state, txns, submitted, minerVars, step, sendVars,
                 inbox, rcv, trackerVars, memberVars>>

\* A listed peer refuses the connection or closes it: the exception ends the
\* program before its threads have started.
FailToJoin(p) ==
  /\ life[p] = "asking"
  /\ \/ ppc[p] = "idle" /\ \E q \in todo[p] : ~Listening(q)
     \/ ppc[p] = "reset"
  /\ life' = [life EXCEPT ![p] = "failed"]
  /\ chain' = [chain EXCEPT ![p] = <<>>]
  /\ todo' = [todo EXCEPT ![p] = {}]
  /\ ppc' = [ppc EXCEPT ![p] = "idle"]
  /\ asked' = [asked EXCEPT ![p] = p]
  /\ T!Hangup(p)
  /\ UNCHANGED <<lock, state, txns, submitted, minerVars, step, sendVars,
                 inbox, rcv, reply, owed, told>>

StartThreads(p) ==
  /\ life[p] = "asking"
  /\ ppc[p] = "idle"
  /\ todo[p] = {}
  /\ life' = [life EXCEPT ![p] = "started"]
  /\ UNCHANGED <<vars, trackerVars, todo, owed, told>>

\* Whatever the polling thread has made of the state meanwhile.
StartMining(p) ==
  /\ life[p] = "started"
  /\ life' = [life EXCEPT ![p] = "up"]
  /\ state' = [state EXCEPT ![p] = "MINING"]
  /\ UNCHANGED <<chain, lock, txns, submitted, minerVars, step, sendVars,
                 inbox, rcv, pollerVars, trackerVars, todo, owed, told>>

Joiner(p) == \/ ReadList(p)
             \/ \E q \in Peers : AskListed(p, q)
             \/ TakeListedChain(p)
             \/ FailToJoin(p)
             \/ StartThreads(p)
             \/ StartMining(p)

-----------------------------------------------------------------------------
(***************************************************************************)
(* The mining thread: what it does alone, and the broadcast.               *)
(***************************************************************************)
\* Mutant: the event is not looked at between two tries.
BeginsOnceMore(p) == Working(p)

\* The event is looked at before each try.  A peer that leaves may take a
\* transaction and read the tip before it comes to the test, and does nothing
\* more with them; the try it is at it finishes.
Begins(p) == Running(p)

MinesAlone(p) ==
  /\ \/ /\ Begins(p)
        /\ TakeTxn(p) \/ SnapshotTip(p)
     \/ /\ Working(p)
        /\ \/ RestartMining(p)
           \/ GiveUpRound(p)
           \/ FindNonce(p)
           \/ RefuseBlock(p)
           \/ LoseRace(p)
  /\ UNCHANGED <<trackerVars, memberVars>>

\* The new block is followed by LIST, unless it is withheld.
MineBlock(p) ==
  /\ Running(p)
  /\ AppendOwnBlock(p)
  /\ IF mpc'[p] = "send" THEN T!Ask(p, "LIST") ELSE UNCHANGED trackerVars
  /\ UNCHANGED memberVars

\* A peer that leaves still appends the block of its last try, and sends it to
\* nobody.
AppendLast(p) ==
  /\ life[p] = "leaving"
  /\ AppendBlock(p, FALSE)
  /\ UNCHANGED <<trackerVars, memberVars>>

\* The end of broadcast_block_to_all_peers when peers are left to send to.
SendingTo(p, peers) ==
  /\ sendTo' = [sendTo EXCEPT ![p] = peers]
  /\ IF peers = {}
     THEN /\ mpc' = [mpc EXCEPT ![p] = "idle"]
          /\ lock' = [lock EXCEPT ![p] = "free"]
          /\ outgoing' = [outgoing EXCEPT ![p] = <<>>]
     ELSE UNCHANGED <<mpc, lock, outgoing>>
  /\ UNCHANGED <<chain, state, txns, submitted, current, mineId, prevHash,
                 step, inbox, rcv, pollerVars>>

LearnWhomToSend(p) ==
  /\ Running(p)
  /\ mpc[p] = "send"
  /\ T!TakeAnswer(p)
  /\ SendingTo(p, answer[p])
  /\ UNCHANGED memberVars

SendNew(p, q) ==
  /\ Unasked(p)
  /\ Listening(q)
  /\ SendBlock(p, q)
  /\ told' = [told EXCEPT ![q] = IF @ > Head(outgoing[p]).id THEN @
                                  ELSE Head(outgoing[p]).id + 1]
  /\ UNCHANGED <<trackerVars, life, todo, owed>>

\* The connection fails; the broadcast goes on with the next peer.
SkipPeer(p, q) ==
  /\ Unasked(p)
  /\ mpc[p] = "send"
  /\ q \in sendTo[p]
  /\ ~Listening(q)
  /\ SendingTo(p, sendTo[p] \ {q})
  /\ UNCHANGED <<trackerVars, memberVars>>

Broadcasting(p) == \/ LearnWhomToSend(p)
                   \/ \E q \in Peers : SendNew(p, q) \/ SkipPeer(p, q)

-----------------------------------------------------------------------------
(***************************************************************************)
(* The listening thread.                                                   *)
(***************************************************************************)
\* A peer that leaves still serves the connection it has accepted.
ServeRequester(p) ==
  /\ Working(p)
  /\ ServeChain(p)
  /\ UNCHANGED <<trackerVars, memberVars>>

ReceiveBlock(p) ==
  /\ Running(p)
  /\ AcceptBlock(p)
  /\ UNCHANGED <<trackerVars, memberVars>>

MemberListener(p) == ReceiveBlock(p) \/ ServeRequester(p)

-----------------------------------------------------------------------------
(***************************************************************************)
(* The polling thread.                                                     *)
(***************************************************************************)
Decide(p) ==
  /\ Working(p)
  /\ DiscardInvalid(p) \/ AppendReceived(p) \/ DiscardStale(p)
  /\ UNCHANGED <<trackerVars, memberVars>>

\* The fork is detected; GET-PEER asks for the port of the block's miner.
FaceFork(p) ==
  /\ Running(p)
  /\ DetectFork(p)
  /\ T!Ask(p, "GET-PEER")
  /\ UNCHANGED memberVars

\* A peer that leaves does not set out to resolve a fork.
AbandonFork(p) ==
  /\ life[p] = "leaving"
  /\ Polling(p)
  /\ lock[p] = "free"
  /\ IsValid(Head(rcv[p]))
  /\ ~CanAdd(chain[p], Head(rcv[p]))
  /\ IsAhead(chain[p], Head(rcv[p]))
  /\ Popped(p)
  /\ UNCHANGED <<chain, lock, state, txns, submitted, minerVars, step,
                 sendVars, inbox, pollerVars, trackerVars, memberVars>>

LearnPort(p) ==
  /\ Running(p)
  /\ ppc[p] = "asking"
  /\ T!TakeAnswer(p)
  /\ UNCHANGED <<vars, memberVars>>

Reachable(q, ports) == q \in ports /\ Listening(q)

AskMiner(p) ==
  /\ Working(p)
  /\ Unasked(p)
  /\ AskForChain(p)
  /\ Reachable(asked[p], answer[p])
  /\ UNCHANGED <<trackerVars, memberVars>>

\* Mutant: the thread ends with blockchain_lock held.
KeepLock(p) == lock' = lock

\* The with statement lets go of the lock on the way out.
FreeLock(p) == lock' = [lock EXCEPT ![p] = "free"]

\* The miner has left, is not listening or goes away halfway: nothing
\* catches the exception, the thread ends and the state stays.
PollerDies(p) ==
  /\ Working(p)
  /\ Unasked(p)
  /\ \/ ppc[p] = "asking" /\ ~Reachable(asked[p], answer[p])
     \/ ppc[p] = "reset"
  /\ FreeLock(p)
  /\ ppc' = [ppc EXCEPT ![p] = "dead"]
  /\ asked' = [asked EXCEPT ![p] = p]
  /\ UNCHANGED <<chain, state, txns, submitted, minerVars, step, sendVars,
                 inbox, rcv, reply, trackerVars, memberVars>>

TakeMinersChain(p) ==
  /\ Running(p)
  /\ FinishFork(p)
  /\ UNCHANGED <<trackerVars, memberVars>>

\* A peer that leaves ends the loop instead of going on.
EndFork(p) ==
  /\ life[p] = "leaving"
  /\ ppc[p] = "served"
  /\ chain' = [chain EXCEPT ![p] = IF Adoptable(@, reply[p]) THEN reply[p]
                                                             ELSE @]
  /\ FreeLock(p)
  /\ ppc' = [ppc EXCEPT ![p] = "idle"]
  /\ asked' = [asked EXCEPT ![p] = p]
  /\ reply' = [reply EXCEPT ![p] = <<>>]
  /\ UNCHANGED <<state, txns, submitted, minerVars, step, sendVars, inbox,
                 rcv, trackerVars, memberVars>>

MemberPoller(p) == \/ Decide(p)
                   \/ FaceFork(p)
                   \/ AbandonFork(p)
                   \/ LearnPort(p)
                   \/ AskMiner(p)
                   \/ PollerDies(p)
                   \/ TakeMinersChain(p)
                   \/ EndFork(p)

-----------------------------------------------------------------------------
(***************************************************************************)
(* Leaving and crashing.                                                   *)
(***************************************************************************)
\* The connections in s are closed: who waits for p behind one of them
\* reads the end of the stream.
Cut(p, s) == {q \in Peers : /\ ppc[q] = "waiting"
                            /\ asked[q] = p
                            /\ \E m \in Range(s) : /\ m.type = "GET-CHAIN"
                                                   /\ m.from = q}

\* How many connections the listening thread of p may have accepted and
\* not finished with: at most one, a GET-CHAIN that waits for the lock.
InHand(p) == IF inbox[p] # <<>> /\ Head(inbox[p]).type = "GET-CHAIN"
             THEN {0, 1} ELSE {0}

\* How many blocks of rcv_buffer the polling thread may still take: one, when
\* it is past the test of its loop.
InBuffer(p) == IF ppc[p] = "idle" /\ rcv[p] # <<>> THEN {0, 1} ELSE {0}

\* shutdown, from the event to the closed listening socket.  It waits for
\* tracker_lock.  Connections that were not accepted are closed unseen; the
\* blocks that nobody will look at are left out.  The miner keeps what it has
\* in hand, wherever it is.
Leave(p) ==
  /\ p \in Leavers
  /\ life[p] = "up"
  /\ Unasked(p)
  /\ life' = [life EXCEPT ![p] = "leaving"]
  /\ T!Hangup(p)
  /\ \E kept \in InHand(p) :
       /\ inbox' = [inbox EXCEPT ![p] = SubSeq(@, 1, kept)]
       /\ ppc' = [q \in Peers |->
                    IF q \in Cut(p, SubSeq(inbox[p], kept + 1, Len(inbox[p])))
                    THEN "reset" ELSE ppc[q]]
  /\ \E kept \in InBuffer(p) : rcv' = [rcv EXCEPT ![p] = SubSeq(@, 1, kept)]
  /\ UNCHANGED <<chain, lock, state, txns, submitted, minerVars, step,
                 sendVars, asked, reply, todo, owed, told>>

\* The connections of s but for the request of p.
WithoutRequest(s, p) ==
  LET at == {i \in 1 .. Len(s) : s[i].type = "GET-CHAIN" /\ s[i].from = p}
  IN  IF at = {} THEN s
      ELSE LET k == CHOOSE i \in at : TRUE
           IN  SubSeq(s, 1, k - 1) \o SubSeq(s, k + 1, Len(s))

\* The process dies.  The blocks it had sent are on their way; a GET-CHAIN
\* of its own would be answered to nobody, and is left out.
Crash(p) ==
  /\ p \in Crashers
  /\ life[p] \in {"joining", "asking", "started", "up"}
  /\ life' = [life EXCEPT ![p] = "crashed"]
  /\ T!Vanish(p)
  /\ inbox' = [q \in Peers |-> IF q = p THEN <<>>
                               ELSE WithoutRequest(inbox[q], p)]
  /\ ppc' = [q \in Peers |-> IF q = p THEN "idle"
                             ELSE IF q \in Cut(p, inbox[p]) THEN "reset"
                             ELSE ppc[q]]
  /\ mpc' = [mpc EXCEPT ![p] = "idle"]
  /\ MinerDone(p)
  /\ FreeLock(p)
  /\ chain' = [chain EXCEPT ![p] = <<>>]
  /\ txns' = [txns EXCEPT ![p] = <<>>]
  /\ rcv' = [rcv EXCEPT ![p] = <<>>]
  /\ outgoing' = [outgoing EXCEPT ![p] = <<>>]
  /\ sendTo' = [sendTo EXCEPT ![p] = {}]
  /\ asked' = [asked EXCEPT ![p] = p]
  /\ reply' = [reply EXCEPT ![p] = <<>>]
  /\ todo' = [todo EXCEPT ![p] = {}]
  /\ UNCHANGED <<state, submitted, step, owed, told>>

-----------------------------------------------------------------------------
MemberApplication(p) == life[p] = "up" /\ Application(p)
                        /\ UNCHANGED <<trackerVars, memberVars>>

TrackerThread(p) == T!Serve(p, asked[p]) /\ UNCHANGED <<vars, memberVars>>

MemberNext ==
  \E p \in Peers : \/ Join(p)
                   \/ Joiner(p)
                   \/ MemberApplication(p)
                   \/ MinesAlone(p)
                   \/ MineBlock(p)
                   \/ AppendLast(p)
                   \/ Broadcasting(p)
                   \/ MemberListener(p)
                   \/ MemberPoller(p)
                   \/ Leave(p)
                   \/ Crash(p)
                   \/ TrackerThread(p)

MemberSpec == MemberInit /\ [][MemberNext]_allVars

(***************************************************************************)
(* The threads go on, except that nothing is said of the time a nonce      *)
(* takes; joining, leaving and crashing are up to the users.               *)
(***************************************************************************)
GoesOn(p) == \/ Joiner(p)
             \/ Broadcasting(p)
             \/ MemberListener(p)
             \/ MemberPoller(p)
             \/ TrackerThread(p)

MemberFairness == WF_allVars(\E p \in Peers : GoesOn(p))

MemberFairSpec == MemberSpec /\ MemberFairness

-----------------------------------------------------------------------------
(***************************************************************************)
(* A peer that has joined is at least as long as every chain there was     *)
(* when the tracker told it of the peers, though peers mine, adopt chains  *)
(* and join beside it while it asks them one after the other.              *)
(***************************************************************************)
JoinerCaughtUp == \A p \in Peers : Running(p) => Len(chain[p]) >= owed[p]

(***************************************************************************)
(* A block that reached a member is never without effect: once the member  *)
(* has nothing left to decide its chain is as long as the highest block it *)
(* was sent, whoever had joined or left by then.                           *)
(***************************************************************************)
NewsSettled ==
  \A p \in Peers :
    /\ Running(p)
    /\ ppc[p] = "idle"
    /\ rcv[p] = <<>>
    /\ \A m \in Range(inbox[p]) : m.type # "BLOCK"
    => Len(chain[p]) >= told[p]

(***************************************************************************)
(* The tracker lists those who live and who have not been seen to end.     *)
(* Whoever has its list lists it too.  The thread that takes a peer off    *)
(* the list finds it there, so that delete_peer does not raise with        *)
(* active_peers_lock held; and only a crash keeps a peer on the list after *)
(* its thread, however leaving, failing and crashing cross the requests.   *)
(***************************************************************************)
ListsTheLiving ==
  \A p \in Peers :
    /\ life[p] \in {"asking", "started", "up"} => thread[p] = "serving"
    /\ thread[p] \in {"listed", "serving"} => p \in active
    /\ thread[p] = "ended" /\ p \in active => life[p] = "crashed"

\* The stage of a peer's membership that its users can tell.
Stage(p) == CASE life[p] \in {"started", "up"} -> "member"
              [] life[p] = "leaving" -> IF mpc[p] \in {"attempt", "commit"}
                                        THEN "quitting" ELSE "quit"
              [] life[p] \in {"failed", "crashed"} -> "lost"
              [] OTHER -> "outside"

O == INSTANCE OpenLedger WITH queue <- [p \in Peers |-> Pending(p)],
                              ledger <- [p \in Peers |-> Entries(chain[p])],
                              visible <- Visible,
                              stage <- [p \in Peers |-> Stage(p)]

(***************************************************************************)
(* Members see what ImplementsLedger promises, whoever comes and goes: a   *)
(* joiner starts from a ledger that some peer had, a peer that quits       *)
(* settles at most the transaction its miner has in hand and is true to    *)
(* the rules in that, and nobody settles a transaction twice or out of     *)
(* order because another one failed.                                       *)
(***************************************************************************)
ImplementsOpenLedger == O!OpenSpec

\* p is at something that others must let it finish.
InBetween(p) == \/ life[p] \in {"joining", "asking", "started"}
                \/ lock[p] = "poller"
                \/ (life[p] = "leaving" /\ p \in active)

(***************************************************************************)
(* What comes with membership ends.  Joining ends, also for peers that     *)
(* join at the same time and find each other on their lists.  A fork       *)
(* resolution ends and gives blockchain_lock back, also when the peer      *)
(* asked leaves or crashes on the way.  The tracker takes a peer that left *)
(* off its list.  Nobody waits for ever for somebody who waits or is gone. *)
(***************************************************************************)
NobodyWaitsForEver ==
  (\E p \in Peers : InBetween(p))
    ~> (\A p \in Peers : ~InBetween(p))

(***************************************************************************)
(* docs/TESTING.md has a peer leave and concludes that "the network can    *)
(* handle the leaving of the peer".  The members that stay would keep      *)
(* their threads.                                                          *)
(***************************************************************************)
PollerSurvives == \A p \in Peers : Running(p) => ppc[p] # "dead"

=============================================================================
