------------------------------ MODULE Shutdown ------------------------------
(***************************************************************************)
(* The end of one peer: shutdown (app.py) against the three threads of     *)
(* peer.py.                                                                *)
(*                                                                         *)
(* The threads look at shutdown_event here and there, and go on to use     *)
(* sockets, locks and a log that shutdown closes beside them.  What they   *)
(* compute is left out: whether there is work, what becomes of it and what *)
(* other peers answer is a free choice.  A thread that raises is dead; a   *)
(* lock taken by a with statement is given back, tracker_lock is not: it   *)
(* is taken by acquire() in the threads.                                   *)
(***************************************************************************)
VARIABLES
  event,   \* shutdown_event
  state,   \* state
  slock,   \* the holder of state_lock
  block,   \* the holder of blockchain_lock
  tlock,   \* the holder of tracker_lock
  tsock,   \* whether tracker_socket is open
  lsock,   \* whether listening_sock is open
  log,     \* whether log_file is open
  apc,     \* where the application's thread is
  mpc,     \* where the mining thread is
  ppc,     \* where the polling thread is
  lpc      \* where the listening thread is

locks == <<slock, block, tlock>>
files == <<tsock, lsock, log>>
vars == <<event, state, locks, files, apc, mpc, ppc, lpc>>

Over == {"ended", "dead"}

\* The steps during which a thread holds blockchain_lock.
MinerHolds  == {"broadcast", "list", "listing", "sending"}
PollerHolds == {"check", "wait", "port", "porting", "chain", "recheck", "resume"}

TypeOK ==
  /\ event \in BOOLEAN /\ tsock \in BOOLEAN /\ lsock \in BOOLEAN /\ log \in BOOLEAN
  /\ state \in {"MINING", "WAITING_FOR_CHAIN", "SHUTTING_DOWN"}
  /\ apc \in {"run", "state", "event", "tracker", "socket",
              "listener", "poller", "miner", "log", "done"}
  /\ mpc \in {"loop", "look", "read", "try", "tip", "commit"} \cup MinerHolds \cup Over
  /\ ppc \in {"loop", "decide", "admit"} \cup PollerHolds \cup Over
  /\ lpc \in {"loop", "accept", "serve"} \cup Over
  /\ slock \in {"free", "poller"}
  /\ slock = "poller" <=> ppc \in {"wait", "resume"}
  /\ block \in {"free", "miner", "poller"}
  /\ block = "miner" <=> mpc \in MinerHolds
  /\ block = "poller" <=> ppc \in PollerHolds
  /\ tlock \in {"free", "miner", "poller"}

Init ==
  /\ event = FALSE
  /\ state = "MINING"
  /\ slock = "free" /\ block = "free" /\ tlock = "free"
  /\ tsock = TRUE /\ lsock = TRUE /\ log = TRUE
  /\ apc = "run" /\ mpc = "loop" /\ ppc = "loop" /\ lpc = "loop"

-----------------------------------------------------------------------------
(***************************************************************************)
(* The mining thread.                                                      *)
(***************************************************************************)
MinerGoes(from, to) == mpc = from /\ mpc' = to

MinerOnly == UNCHANGED <<event, state, slock, files, apc, ppc, lpc>>

MinerLoop ==
  /\ MinerGoes("loop", IF event THEN "ended" ELSE "look")
  /\ MinerOnly /\ UNCHANGED <<block, tlock>>

\* Round again unless the state is MINING and there is a transaction.
LookAtState ==
  /\ slock = "free"
  /\ \/ MinerGoes("look", "loop")
     \/ state = "MINING" /\ MinerGoes("look", "read")
  /\ MinerOnly /\ UNCHANGED <<block, tlock>>

ReadTip ==
  /\ block = "free"
  /\ MinerGoes("read", "try")
  /\ MinerOnly /\ UNCHANGED <<block, tlock>>

\* The test of the event comes before each nonce.
TryNonce ==
  /\ MinerGoes("try", IF event THEN "loop" ELSE "tip")
  /\ MinerOnly /\ UNCHANGED <<block, tlock>>

\* Overtaken or out of nonces, the next nonce, or a nonce found.
LookAtTip ==
  /\ block = "free"
  /\ \E next \in {"loop", "try", "commit"} : MinerGoes("tip", next)
  /\ MinerOnly /\ UNCHANGED <<block, tlock>>

\* The first thing done with a nonce is a line in the log.
Commit ==
  /\ mpc = "commit"
  /\ IF ~log THEN mpc' = "dead" /\ block' = block
     ELSE /\ block = "free"
          /\ \/ mpc' = "loop" /\ block' = block
             \/ mpc' = "broadcast" /\ block' = "miner"
  /\ MinerOnly /\ tlock' = tlock

\* Mutant: a broadcast begins during shutdown.
MayBroadcastAlways == event \in BOOLEAN

\* The test of broadcast_block_to_all_peers.
MayBroadcast == ~event

StartBroadcast ==
  /\ mpc = "broadcast"
  /\ IF ~log THEN mpc' = "dead" /\ block' = "free"
     ELSE IF MayBroadcast THEN mpc' = "list" /\ block' = block
     ELSE mpc' = "loop" /\ block' = "free"
  /\ MinerOnly /\ tlock' = tlock

\* request_nodes_from_tracker: LIST is sent with tracker_lock acquired.  On
\* a closed socket sendall raises, and nobody releases the lock.
AskForList ==
  /\ mpc = "list"
  /\ tlock = "free"
  /\ tlock' = "miner"
  /\ IF tsock THEN mpc' = "listing" /\ block' = block
              ELSE mpc' = "dead" /\ block' = "free"
  /\ MinerOnly

GetList ==
  /\ MinerGoes("listing", "sending")
  /\ tlock' = "free"
  /\ MinerOnly /\ block' = block

EndBroadcast ==
  /\ MinerGoes("sending", IF log THEN "loop" ELSE "dead")
  /\ block' = "free"
  /\ MinerOnly /\ tlock' = tlock

Miner == \/ MinerLoop \/ LookAtState \/ ReadTip \/ TryNonce \/ LookAtTip \/ Commit
         \/ StartBroadcast \/ AskForList \/ GetList \/ EndBroadcast

-----------------------------------------------------------------------------
(***************************************************************************)
(* The polling thread.                                                     *)
(***************************************************************************)
PollerOnly == UNCHANGED <<event, files, apc, mpc, lpc>>

\* Mutant: blockchain_lock is kept.
PollerEndsHolding(how) == ppc' = how /\ block' = block /\ slock' = "free"

\* The thread goes on to a step, or ends, giving back what with took.
PollerEnds(how) == ppc' = how /\ block' = "free" /\ slock' = "free"

PollerLoop ==
  /\ ppc = "loop"
  /\ ppc' = IF event THEN "ended" ELSE "decide"
  /\ PollerOnly /\ UNCHANGED <<state, locks>>

\* Nothing received, or an invalid block; or a valid one.  A block goes to the
\* log before it is looked at.
DecideBlock ==
  /\ ppc = "decide"
  /\ \/ ppc' = "loop"
     \/ ppc' = IF log THEN "admit" ELSE "dead"
  /\ PollerOnly /\ UNCHANGED <<state, locks>>

\* With blockchain_lock: appended or discarded, or a fork.  The first thing
\* done is again a line in the log.
AdmitBlock ==
  /\ ppc = "admit"
  /\ block = "free"
  /\ IF ~log THEN ppc' = "dead" /\ block' = block
     ELSE \/ ppc' = "loop" /\ block' = block
          \/ ppc' = "check" /\ block' = "poller"
  /\ PollerOnly /\ UNCHANGED <<state, slock, tlock>>

\* Mutant: a fork resolution begins during shutdown.
MayResolveAlways == event \in BOOLEAN

\* The test of the event under state_lock.
MayResolve == ~event

CheckEvent ==
  /\ ppc = "check"
  /\ slock = "free"
  /\ IF MayResolve THEN ppc' = "wait" /\ slock' = "poller" /\ block' = block
                   ELSE PollerEnds("ended")
  /\ PollerOnly /\ UNCHANGED <<state, tlock>>

WaitForChain ==
  /\ ppc = "wait"
  /\ ppc' = "port"
  /\ state' = "WAITING_FOR_CHAIN"
  /\ slock' = "free"
  /\ PollerOnly /\ UNCHANGED <<block, tlock>>

\* get_port_from_peer_id: as for LIST.
AskForPort ==
  /\ ppc = "port"
  /\ tlock = "free"
  /\ tlock' = "poller"
  /\ IF tsock THEN ppc' = "porting" /\ UNCHANGED <<block, slock>>
              ELSE PollerEnds("dead")
  /\ PollerOnly /\ state' = state

\* With the log closed the thread would raise before it releases the lock.
GetPort ==
  /\ ppc = "porting"
  /\ IF log THEN /\ tlock' = "free"
                 /\ \/ ppc' = "chain" /\ UNCHANGED <<block, slock>>
                    \/ PollerEnds("dead")
            ELSE tlock' = tlock /\ PollerEnds("dead")
  /\ PollerOnly /\ state' = state

\* The chain, or an exception: the other peer is gone, or the log is closed.
GetChain ==
  /\ ppc = "chain"
  /\ \/ log /\ ppc' = "recheck" /\ UNCHANGED <<block, slock>>
     \/ PollerEnds("dead")
  /\ PollerOnly /\ UNCHANGED <<state, tlock>>

RecheckEvent ==
  /\ ppc = "recheck"
  /\ slock = "free"
  /\ IF event THEN PollerEnds("ended")
              ELSE ppc' = "resume" /\ slock' = "poller" /\ block' = block
  /\ PollerOnly /\ UNCHANGED <<state, tlock>>

ResumeMining ==
  /\ ppc = "resume"
  /\ state' = "MINING"
  /\ PollerEnds(IF log THEN "loop" ELSE "dead")
  /\ PollerOnly /\ tlock' = tlock

Poller == \/ PollerLoop \/ DecideBlock \/ AdmitBlock \/ CheckEvent \/ WaitForChain
          \/ AskForPort \/ GetPort \/ GetChain \/ RecheckEvent \/ ResumeMining

-----------------------------------------------------------------------------
(***************************************************************************)
(* The listening thread.                                                   *)
(***************************************************************************)
ListenerOnly == UNCHANGED <<event, state, locks, files, apc, mpc, ppc>>

\* The end of the thread is logged.
ListenerLoop ==
  /\ lpc = "loop"
  /\ lpc' = CASE ~event -> "accept"
              [] event /\ log -> "ended"
              [] OTHER -> "dead"
  /\ ListenerOnly

\* accept times out after a second; on a closed socket it raises, which is
\* caught and logged, as a new connection is.
Accept ==
  /\ lpc = "accept"
  /\ \/ lpc' = "loop"
     \/ lsock /\ log /\ lpc' = "serve"
     \/ ~log /\ lpc' = "dead"
  /\ ListenerOnly

\* A GET-CHAIN waits for blockchain_lock; the end of it is logged.
ServeChain ==
  /\ lpc = "serve"
  /\ block = "free"
  /\ lpc' = IF log THEN "loop" ELSE "dead"
  /\ ListenerOnly

Listener == ListenerLoop \/ Accept \/ ServeChain

-----------------------------------------------------------------------------
(***************************************************************************)
(* The application's thread: shutdown.                                     *)
(***************************************************************************)
AppGoes(from, to) == apc = from /\ apc' = to

AppOnly == UNCHANGED <<locks, mpc, ppc, lpc>>

Quit ==
  /\ AppGoes("run", "state")
  /\ AppOnly /\ UNCHANGED <<event, state, files>>

SetState ==
  /\ slock = "free"
  /\ AppGoes("state", "event")
  /\ state' = "SHUTTING_DOWN"
  /\ AppOnly /\ UNCHANGED <<event, files>>

SetEvent ==
  /\ AppGoes("event", "tracker")
  /\ event' = TRUE
  /\ AppOnly /\ UNCHANGED <<state, files>>

\* Mutant: the connection is closed whoever uses it.
MayCloseAlways == tlock \in {"free", "miner", "poller"}

MayClose == tlock = "free"

\* LEAVE, and the end of the connection, with tracker_lock.
LeaveTracker ==
  /\ MayClose
  /\ AppGoes("tracker", "socket")
  /\ tsock' = FALSE
  /\ AppOnly /\ UNCHANGED <<event, state, lsock, log>>

CloseSocket ==
  /\ AppGoes("socket", "listener")
  /\ lsock' = FALSE
  /\ AppOnly /\ UNCHANGED <<event, state, tsock, log>>

\* join returns when the thread is over, or after three seconds.
JoinThreads ==
  /\ \/ AppGoes("listener", "poller")
     \/ AppGoes("poller", "miner")
     \/ AppGoes("miner", "log")
  /\ AppOnly /\ UNCHANGED <<event, state, files>>

CloseLog ==
  /\ AppGoes("log", "done")
  /\ log' = FALSE
  /\ AppOnly /\ UNCHANGED <<event, state, tsock, lsock>>

ShuttingDown == \/ SetState \/ SetEvent \/ LeaveTracker \/ CloseSocket
                \/ JoinThreads \/ CloseLog

-----------------------------------------------------------------------------
AllOver == apc = "done" /\ {mpc, ppc, lpc} \subseteq Over

\* The process ends with its last thread.
Exit == AllOver /\ UNCHANGED vars

Next == Miner \/ Poller \/ Listener \/ Quit \/ ShuttingDown \/ Exit

Spec == Init /\ [][Next]_vars

\* The threads run, the tracker and the other peers answer or close their
\* connections, and shutdown gets a lock that is free again and again; when
\* to quit is up to the user.
FairSpec == Spec /\ WF_vars(Miner) /\ WF_vars(Poller) /\ WF_vars(Listener)
                 /\ SF_vars(ShuttingDown)

(***************************************************************************)
(* A thread may die with tracker_lock in its hands, when the socket is     *)
(* closed between its test of the event and its request.  But then nobody  *)
(* waits for the lock, and nobody will: shutdown has had it, and a fork    *)
(* resolution or broadcast needs blockchain_lock first, then the event.    *)
(***************************************************************************)
NobodyWaitsForTheDead ==
  /\ tlock = "miner" /\ mpc = "dead" => ppc # "port" /\ apc # "tracker"
  /\ tlock = "poller" /\ ppc = "dead" => mpc # "list" /\ apc # "tracker"

(***************************************************************************)
(* The tracker exchanges are over before the log is closed: get_port_from_ *)
(* peer_id writes to it with tracker_lock held.                            *)
(***************************************************************************)
NoExchangeWithoutTracker ==
  mpc = "listing" \/ ppc = "porting" => tsock /\ log

(***************************************************************************)
(* Who quits gets out: shutdown ends, and all threads with it, whatever    *)
(* they were at and however long they are waited for.                      *)
(***************************************************************************)
QuitEnds == apc = "state" ~> AllOver

=============================================================================
