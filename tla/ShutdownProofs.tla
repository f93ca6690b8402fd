--------------------------- MODULE ShutdownProofs ---------------------------
(***************************************************************************)
(* Theorems about Shutdown: its invariants hold in every reachable state.  *)
(*                                                                         *)
(* A thread dies with tracker_lock in its hands only when the connection   *)
(* to the tracker is closed, hence after the event.  It held               *)
(* blockchain_lock when it took tracker_lock, so the other thread was      *)
(* outside the steps that lead there, and the event keeps it outside.      *)
(***************************************************************************)
EXTENDS Shutdown, TLAPS

\* How far shutdown is tells what is set and closed.
InOrder ==
  /\ event <=> (apc \notin {"run", "state", "event"})
  /\ tsock <=> (apc \in {"run", "state", "event", "tracker"})
  /\ log <=> (apc # "done")

\* tracker_lock belongs to an exchange, during which the connection stays
\* open, or to a dead thread.
TrackerLockHeld ==
  /\ mpc = "listing" => tlock = "miner" /\ tsock
  /\ tlock = "miner" => mpc \in {"listing", "dead"}
  /\ ppc = "porting" => tlock = "poller" /\ tsock
  /\ tlock = "poller" => ppc \in {"porting", "dead"}

\* The other thread is nowhere on the way to tracker_lock.
DeadHolders ==
  /\ tlock = "miner" /\ mpc = "dead" =>
       ~tsock /\ ppc \in {"loop", "decide", "admit", "check"} \cup Over
  /\ tlock = "poller" /\ ppc = "dead" =>
       ~tsock /\ mpc \notin {"list", "listing", "sending"}

IInv == TypeOK /\ InOrder /\ TrackerLockHeld /\ DeadHolders

LEMMA InitIInv == Init => IInv
BY DEF Init, IInv, TypeOK, InOrder, TrackerLockHeld, DeadHolders,
       MinerHolds, PollerHolds, Over

\* The steps of the mining thread.
LEMMA MinerKeepsIInv == ASSUME IInv, Miner PROVE IInv'
<1> USE DEF IInv, TypeOK, InOrder, TrackerLockHeld, DeadHolders, MinerHolds,
            PollerHolds, Over, MinerOnly, MinerGoes, files
<1>1. CASE MinerLoop BY <1>1 DEF MinerLoop
<1>2. CASE LookAtState BY <1>2 DEF LookAtState
<1>3. CASE ReadTip BY <1>3 DEF ReadTip
<1>4. CASE TryNonce BY <1>4 DEF TryNonce
<1>5. CASE LookAtTip BY <1>5 DEF LookAtTip
<1>6. CASE Commit BY <1>6 DEF Commit
<1>7. CASE StartBroadcast BY <1>7 DEF StartBroadcast, MayBroadcast
<1>8. CASE AskForList BY <1>8 DEF AskForList
<1>9. CASE GetList BY <1>9 DEF GetList
<1>10. CASE EndBroadcast BY <1>10 DEF EndBroadcast
<1> QED BY <1>1, <1>2, <1>3, <1>4, <1>5, <1>6, <1>7, <1>8, <1>9, <1>10 DEF Miner

\* The steps of the polling thread.
LEMMA PollerKeepsIInv == ASSUME IInv, Poller PROVE IInv'
<1> USE DEF IInv, TypeOK, InOrder, TrackerLockHeld, DeadHolders, MinerHolds,
            PollerHolds, Over, PollerOnly, PollerEnds, files, locks
<1>1. CASE PollerLoop BY <1>1 DEF PollerLoop
<1>2. CASE DecideBlock BY <1>2 DEF DecideBlock
<1>0. CASE AdmitBlock BY <1>0 DEF AdmitBlock
<1>3. CASE CheckEvent BY <1>3 DEF CheckEvent, MayResolve
<1>4. CASE WaitForChain BY <1>4 DEF WaitForChain
<1>5. CASE AskForPort BY <1>5 DEF AskForPort
<1>6. CASE GetPort BY <1>6 DEF GetPort
<1>7. CASE GetChain BY <1>7 DEF GetChain
<1>8. CASE RecheckEvent BY <1>8 DEF RecheckEvent
<1>9. CASE ResumeMining BY <1>9 DEF ResumeMining
<1> QED
  BY <1>0, <1>1, <1>2, <1>3, <1>4, <1>5, <1>6, <1>7, <1>8, <1>9 DEF Poller

\* The steps of the listening thread and of shutdown.
LEMMA OthersKeepIInv ==
  ASSUME IInv, Listener \/ Quit \/ ShuttingDown PROVE IInv'
<1> USE DEF IInv, TypeOK, InOrder, TrackerLockHeld, DeadHolders, MinerHolds,
            PollerHolds, Over, ListenerOnly, AppOnly, AppGoes, files, locks
<1>1. CASE Listener
  BY <1>1 DEF Listener, ListenerLoop, Accept, ServeChain
<1>2. CASE Quit BY <1>2 DEF Quit
<1>3. CASE ShuttingDown
  <2>1. CASE SetState BY <2>1 DEF SetState
  <2>2. CASE SetEvent BY <2>2 DEF SetEvent
  <2>3. CASE LeaveTracker
    <3>1. tsock' = FALSE /\ apc' = "socket" BY <2>3 DEF LeaveTracker, MayClose
    <3>2. UNCHANGED <<event, state, slock, block, tlock, lsock, log, mpc, ppc, lpc>>
      BY <2>3 DEF LeaveTracker
    <3>3. TypeOK'
      <4>1. {event, tsock, lsock, log}' \subseteq BOOLEAN BY <3>1, <3>2, Zenon
      <4> QED BY <3>1, <3>2, <4>1
    <3>4. InOrder' BY <2>3, <3>1, <3>2 DEF LeaveTracker, MayClose
    <3>5. TrackerLockHeld' BY <2>3, <3>1, <3>2 DEF LeaveTracker, MayClose
    <3>6. DeadHolders' BY <2>3, <3>1, <3>2 DEF LeaveTracker, MayClose
    <3> QED BY <3>3, <3>4, <3>5, <3>6
  <2>4. CASE CloseSocket
    <3>1. lsock' = FALSE /\ apc' = "listener" BY <2>4 DEF CloseSocket
    <3>2. UNCHANGED <<event, state, slock, block, tlock, tsock, log, mpc, ppc, lpc>>
      BY <2>4 DEF CloseSocket
    <3>3. TypeOK'
      <4>1. {event, tsock, lsock, log}' \subseteq BOOLEAN BY <3>1, <3>2, Zenon
      <4> QED BY <3>1, <3>2, <4>1
    <3>4. InOrder' BY <2>4, <3>1, <3>2 DEF CloseSocket
    <3>5. TrackerLockHeld' BY <2>4, <3>1, <3>2 DEF CloseSocket
    <3>6. DeadHolders' BY <2>4, <3>1, <3>2 DEF CloseSocket
    <3> QED BY <3>3, <3>4, <3>5, <3>6
  <2>5. CASE JoinThreads BY <2>5 DEF JoinThreads
  <2>6. CASE CloseLog
    <3>1. log' = FALSE /\ apc' = "done" BY <2>6 DEF CloseLog
    <3>2. UNCHANGED <<event, state, slock, block, tlock, tsock, lsock, mpc, ppc, lpc>>
      BY <2>6 DEF CloseLog
    <3>3. TypeOK'
      <4>1. {event, tsock, lsock, log}' \subseteq BOOLEAN BY <3>1, <3>2, Zenon
      <4> QED BY <3>1, <3>2, <4>1
    <3>4. InOrder' BY <2>6, <3>1, <3>2 DEF CloseLog
    <3>5. TrackerLockHeld' BY <2>6, <3>1, <3>2 DEF CloseLog
    <3>6. DeadHolders' BY <2>6, <3>1, <3>2 DEF CloseLog
    <3> QED BY <3>3, <3>4, <3>5, <3>6
  <2> QED BY <1>3, <2>1, <2>2, <2>3, <2>4, <2>5, <2>6 DEF ShuttingDown
<1> QED BY <1>1, <1>2, <1>3

LEMMA StutterKeepsIInv == ASSUME IInv, UNCHANGED vars PROVE IInv'
BY DEF IInv, TypeOK, InOrder, TrackerLockHeld, DeadHolders, vars, locks, files

(***************************************************************************)
(* The inductive invariant: what shutdown has closed, who holds            *)
(* tracker_lock, and where the other thread is when the holder is dead.    *)
(***************************************************************************)
THEOREM Invariance == Spec => []IInv
<1>1. Init => IInv BY InitIInv
<1>2. IInv /\ [Next]_vars => IInv'
  BY MinerKeepsIInv, PollerKeepsIInv, OthersKeepIInv, StutterKeepsIInv
     DEF Next, Exit
<1> QED BY <1>1, <1>2, PTL DEF Spec

(***************************************************************************)
(* The locks are held where the code holds them: a thread that ends, by    *)
(* its loop or by an exception, leaves blockchain_lock and state_lock free.*)
(***************************************************************************)
THEOREM TypeCorrect == Spec => []TypeOK
<1>1. IInv => TypeOK BY DEF IInv
<1> QED BY <1>1, Invariance, PTL

(***************************************************************************)
(* Nobody waits for the tracker_lock of a dead thread: the one lock that   *)
(* peer.py takes without with costs no thread its life.                    *)
(***************************************************************************)
THEOREM NobodyWaits == Spec => []NobodyWaitsForTheDead
<1>1. IInv => NobodyWaitsForTheDead
  BY DEF IInv, InOrder, DeadHolders, NobodyWaitsForTheDead, Over
<1> QED BY <1>1, Invariance, PTL

(***************************************************************************)
(* No exchange with the tracker is under way when its connection, or the   *)
(* log, is closed.                                                         *)
(***************************************************************************)
THEOREM ExchangesSafe == Spec => []NoExchangeWithoutTracker
<1>1. IInv => NoExchangeWithoutTracker
  BY DEF IInv, TypeOK, InOrder, TrackerLockHeld, DeadHolders,
         NoExchangeWithoutTracker
<1> QED BY <1>1, Invariance, PTL

=============================================================================
