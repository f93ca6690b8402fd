------------------------ MODULE MembershipInvariant ------------------------
(***************************************************************************)
(* Why the safety properties of Membership hold.  Most of what PeerNetwork *)
(* rests on survives that peers come and go (MembersInv); what was         *)
(* promised to a peer that joins, or has been sent a block, is a chain of  *)
(* some length that others have or are about to send it (JoinInv, ToldInv).*)
(***************************************************************************)
EXTENDS Membership, PeerNetworkInvariant

CountTypes == owed \in [Peers -> Nat] /\ told \in [Peers -> Nat]

\* The threads run from the start of a peer to its end.
LifeInv ==
  \A p \in Peers :
    /\ life[p] \in {"out", "joining", "failed", "crashed"} => ppc[p] = "idle"
    /\ life[p] = "asking" => ppc[p] \in {"idle", "waiting", "served", "reset"}
    /\ life[p] \notin {"started", "up", "leaving"} =>
         /\ lock[p] = "free"
         /\ mpc[p] = "idle"
         /\ inbox[p] = <<>>
         /\ rcv[p] = <<>>
    /\ life[p] \in {"out", "joining", "asking"} => told[p] = 0

\* What the two ends of a connection to the tracker know of one another.
TrackerInv ==
  \A p \in Peers :
    /\ life[p] = "out" => thread[p] = "none" /\ link[p] = "none"
    /\ life[p] = "joining" =>
         <<thread[p], request[p]>> \in {<<"new", "JOIN">>, <<"listed", "JOIN">>,
                                       <<"serving", "answered">>}
    /\ life[p] \in {"joining", "asking", "started", "up"} => link[p] = "open"
    /\ life[p] \in {"asking", "leaving", "failed"} => request[p] = "none"
    /\ life[p] \in {"leaving", "failed"} =>
         link[p] = "closed" /\ thread[p] \in {"serving", "ended"}
    /\ thread[p] \in {"none", "new"} => p \notin active
    /\ thread[p] = "none" => life[p] = "out"

ListInv == ListsTheLiving /\ TrackerInv

\* Peers that come and go leave intact what the threads rest on: the order of
\* the queue, the miner's snapshot of the tip, one request at a time for each
\* poller that waits, and with it well-formed chains; and a peer runs threads
\* and holds locks only where its life allows it.
MembersInv == /\ CoreInv
              /\ CountTypes
              /\ MemberTypeOK
              /\ LifeInv
              /\ ListInv

\* Only peers with threads have a queue.
QueueInv == \A p \in Peers : ~Working(p) => txns[p] = <<>> /\ current[p] = <<>>

\* What the ledgers that can be had hold is settled, and once, also of members
\* that have quit, while they finish their last try and after, or crashed.
PastInv == SettledInv /\ OnceInv /\ HandInv /\ QueueInv

-----------------------------------------------------------------------------
\* Once a member has a chain of length n it can be asked for one as long, as
\* long as it lives.
Has(p, n) == \/ life[p] = "crashed"
             \/ life[p] \in {"started", "up", "leaving"} /\ Len(chain[p]) >= n

\* p asks a peer for a chain of length n or has been sent one; or there is
\* nobody to ask any more.
WillGet(p, n) ==
  \/ ppc[p] \in {"asking", "waiting"} /\ Has(asked[p], n)
  \/ ppc[p] = "served" /\ Len(reply[p]) >= n
  \/ ppc[p] \in {"reset", "dead"}

\* A joining peer gets the longest chain of those it was told of: it has one as
\* long, a peer it is still to ask has, or one is on its way.
JoinInv ==
  AllKeepChain =>
    \A p \in Peers :
      /\ life[p] = "asking" => \/ Len(chain[p]) >= owed[p]
                               \/ \E q \in todo[p] : Has(q, owed[p])
                               \/ WillGet(p, owed[p])
      /\ Running(p) => Len(chain[p]) >= owed[p]

NobodyTampers == \A p \in Peers : TamperFreq[p] = 0

\* What a member sends is intact, and it has the chain the block is from.
SentBlocks == {b \in Block : IsValid(b) /\ Has(b.txn.sender, b.id + 1)}

\* A member that was sent a block has a chain as long as the block's, has the
\* block still to look at, or asks a peer that has such a chain.
ToldInv ==
  NobodyTampers =>
    /\ Traffic(SentBlocks)
    /\ \A p \in Peers : Running(p) =>
         \/ Len(chain[p]) >= told[p]
         \/ \E b \in Undecided(p) : b.id + 1 >= told[p]
         \/ WillGet(p, told[p])

=============================================================================
