------------------------------- MODULE Ledger -------------------------------
(***************************************************************************)
(* What the peers promise their users, without blocks, threads or messages *)
(* (the promises of README.md and docs/DESIGN.md, as peer.py keeps them).  *)
(*                                                                         *)
(* Every peer has a queue of its own transactions and a ledger.  The       *)
(* transactions of a queue are settled in order and once: entered into the *)
(* peer's ledger, if the ledger admits them, or refused.  A peer gives up  *)
(* its ledger only for a longer one that some peer has had.                *)
(***************************************************************************)
EXTENDS Sequences, Naturals

CONSTANT Peers

VARIABLES
  queue,    \* the transactions of each peer that are not settled
  ledger,   \* the ledger of each peer
  visible   \* ledgers a peer may still adopt

vars == <<queue, ledger, visible>>

Mentions(l, t) == \E i \in 1 .. Len(l) : l[i] = t

\* A poll has a new name, and a vote is for a poll.
Admits(l, t) ==
  IF t.type = "create_poll"
  THEN \A i \in 1 .. Len(l) : /\ l[i].type = "create_poll"
                              => l[i].poll_name # t.poll_name
  ELSE \E i \in 1 .. Len(l) : /\ l[i].type = "create_poll"
                              /\ l[i].poll_id = t.poll_id

\* A ledger becomes visible when it is built; it may be forgotten.
MayForget(new) == visible' \subseteq visible \cup new

Init ==
  /\ queue = [p \in Peers |-> <<>>]
  /\ ledger = [p \in Peers |-> <<>>]
  /\ visible = {<<>>}

\* The new transaction is one that nobody has seen.
Submit(p) ==
  /\ Len(queue'[p]) = Len(queue[p]) + 1
  /\ LET t == queue'[p][Len(queue'[p])]
     IN  /\ queue' = [queue EXCEPT ![p] = Append(@, t)]
         /\ t.sender = p
         /\ \A q \in Peers : ~Mentions(queue[q], t)
         /\ \A l \in visible : ~Mentions(l, t)
  /\ ledger' = ledger
  /\ MayForget({})

Enter(p) ==
  /\ queue[p] # <<>>
  /\ Admits(ledger[p], Head(queue[p]))
  /\ queue' = [queue EXCEPT ![p] = Tail(@)]
  /\ ledger' = [ledger EXCEPT ![p] = Append(@, Head(queue[p]))]
  /\ MayForget({ledger'[p]})

Refuse(p) ==
  /\ queue[p] # <<>>
  /\ ~Admits(ledger[p], Head(queue[p]))
  /\ queue' = [queue EXCEPT ![p] = Tail(@)]
  /\ ledger' = ledger
  /\ MayForget({})

Adopt(p) ==
  \E l \in visible :
    /\ Len(l) > Len(ledger[p])
    /\ ledger' = [ledger EXCEPT ![p] = l]
    /\ queue' = queue
    /\ MayForget({})

Forget == queue' = queue /\ ledger' = ledger /\ MayForget({})

Next == \/ \E p \in Peers : Submit(p) \/ Enter(p) \/ Refuse(p) \/ Adopt(p)
        \/ Forget

Spec == Init /\ [][Next]_vars

=============================================================================
