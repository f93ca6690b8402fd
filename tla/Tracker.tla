------------------------------ MODULE Tracker ------------------------------
(***************************************************************************)
(* The tracker (tracker.py): one connection and one thread per peer, and   *)
(* active_peers, which the threads share.                                  *)
(*                                                                         *)
(* A peer has at most one request outstanding: it sends LIST and GET-PEER  *)
(* under its tracker_lock.  Peers that join enter active_peers in one step *)
(* and are sent the list in another, so two may find each other there.     *)
(***************************************************************************)
EXTENDS Naturals

CONSTANT Peers

VARIABLES
  active,   \* the keys of active_peers
  thread,   \* where the thread of a peer's connection is
  link,     \* the peer's end of the connection
  request,  \* what the peer waits for
  answer    \* the peers named in the last answer

vars == <<active, thread, link, request, answer>>

TypeOK ==
  /\ active \subseteq Peers
  /\ thread \in [Peers -> {"none", "new", "listed", "serving", "ended"}]
  /\ link \in [Peers -> {"none", "open", "closed", "reset"}]
  /\ request \in [Peers -> {"none", "JOIN", "LIST", "GET-PEER", "answered"}]
  /\ answer \in [Peers -> SUBSET Peers]

\* The founders have joined already.
InitWith(founders) ==
  /\ active = founders
  /\ thread = [p \in Peers |-> IF p \in founders THEN "serving" ELSE "none"]
  /\ link = [p \in Peers |-> IF p \in founders THEN "open" ELSE "none"]
  /\ request = [p \in Peers |-> "none"]
  /\ answer = [p \in Peers |-> {}]

-----------------------------------------------------------------------------
(***************************************************************************)
(* The peer's end.                                                         *)
(***************************************************************************)
\* listen_for_connections starts a thread for the connection.
Accepted(p) == thread' = [thread EXCEPT ![p] = "new"]

\* Connects and sends JOIN and ID.
Join(p) ==
  /\ link[p] = "none"
  /\ link' = [link EXCEPT ![p] = "open"]
  /\ Accepted(p)
  /\ request' = [request EXCEPT ![p] = "JOIN"]
  /\ UNCHANGED <<active, answer>>

Ask(p, what) ==
  /\ request[p] = "none"
  /\ request' = [request EXCEPT ![p] = what]
  /\ UNCHANGED <<active, thread, link, answer>>

\* The answer is read; tracker_lock is free again.
TakeAnswer(p) ==
  /\ request[p] = "answered"
  /\ request' = [request EXCEPT ![p] = "none"]
  /\ UNCHANGED <<active, thread, link, answer>>

\* LEAVE, or the end of the peer with nothing under way: the thread reads it
\* in its turn.
Hangup(p) ==
  /\ link' = [link EXCEPT ![p] = "closed"]
  /\ UNCHANGED <<active, thread, request, answer>>

\* The peer ends; the connection is reset if an answer is under way.
Vanish(p) ==
  /\ \E l \in IF request[p] = "none" THEN {"closed"} ELSE {"closed", "reset"} :
       link' = [link EXCEPT ![p] = l]
  /\ UNCHANGED <<active, thread, request, answer>>

-----------------------------------------------------------------------------
(***************************************************************************)
(* The thread of the connection: process_peer_requests.                    *)
(***************************************************************************)
Register(p) ==
  /\ thread[p] = "new"
  /\ request[p] = "JOIN"
  /\ link[p] # "reset"
  /\ active' = active \cup {p}
  /\ thread' = [thread EXCEPT ![p] = "listed"]
  /\ UNCHANGED <<link, request, answer>>

\* An answer to a peer that has gone may come back as a reset.
Send(p, peers) ==
  /\ link[p] # "reset"
  /\ request' = [request EXCEPT ![p] = "answered"]
  /\ answer' = [answer EXCEPT ![p] = peers]
  /\ \E l \in IF link[p] = "closed" THEN {"closed", "reset"} ELSE {link[p]} :
       link' = [link EXCEPT ![p] = l]
  /\ active' = active

\* serialize_active_peers.
PeersBut(p) == active \ {p}

\* The list that closes the registration, or answers LIST.
SendPeers(p) ==
  /\ \/ thread[p] = "listed"
     \/ thread[p] = "serving" /\ request[p] = "LIST"
  /\ thread' = [thread EXCEPT ![p] = "serving"]
  /\ Send(p, PeersBut(p))

\* The port of q, or -1 if q is not listed.
SendPort(p, q) ==
  /\ thread[p] = "serving"
  /\ request[p] = "GET-PEER"
  /\ thread' = thread
  /\ Send(p, {q} \cap active)

\* Mutant: the thread ends without delete_peer.
StayListed(p) == active

Without(p) == active \ {p}

\* LEAVE, or nothing more to read: delete_peer.
Deregister(p) ==
  /\ link[p] = "closed"
  /\ thread[p] = "serving"
  /\ request[p] \in {"none", "answered"}
  /\ active' = Without(p)
  /\ thread' = [thread EXCEPT ![p] = "ended"]
  /\ UNCHANGED <<link, request, answer>>

\* recv or sendall raises: the thread ends and the peer stays listed.
ThreadDies(p) ==
  /\ link[p] = "reset"
  /\ thread[p] # "ended"
  /\ thread' = [thread EXCEPT ![p] = "ended"]
  /\ UNCHANGED <<active, link, request, answer>>

Serve(p, q) == \/ Register(p)
               \/ SendPeers(p)
               \/ SendPort(p, q)
               \/ Deregister(p)
               \/ ThreadDies(p)

=============================================================================
