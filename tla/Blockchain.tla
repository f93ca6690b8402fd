----------------------------- MODULE Blockchain -----------------------------
(***************************************************************************)
(* The data of the voting chain and the pure functions on it: the classes  *)
(* Transaction, Block and Blockchain (transaction.py, block.py,            *)
(* blockchain.py).                                                         *)
(*                                                                         *)
(* SHA-256 is modelled as a function without collisions.  A digest         *)
(* commits to the block's id, transaction and previous hash, so it commits *)
(* to everything before the block as well: it is represented by the        *)
(* sequence of (id, transaction) pairs that it commits to.  Nonce and      *)
(* timestamp only make the hash fall below the target; a block of this     *)
(* model is one whose proof of work has already been found.                *)
(***************************************************************************)
EXTENDS Integers, Sequences

CONSTANTS
  Peers,      \* the peers; one stands for its address, its port and its keys
  PollNames,  \* names a user may give to a poll
  Noise       \* what the test-only tampering writes over a hash

(***************************************************************************)
(* A transaction is identified by its sender and by its place in the       *)
(* sender's submissions (the source signs a fresh timestamp and, for a     *)
(* poll, draws a fresh UUID).  Stamp 0 is no submission: poll id <<p, 0>>  *)
(* is the identifier that nobody will "enter on accident".                 *)
(***************************************************************************)
Txn == [sender    : Peers,
        stamp     : Nat \ {0},
        type      : {"create_poll", "vote"},
        poll_id   : Peers \X Nat,
        poll_name : PollNames \cup {""}]

ASSUME NoiseAssumption == Noise \notin Nat \X Txn

Hash == Seq((Nat \X Txn) \cup {Noise})

Block == [id : Nat, txn : Txn, prev_hash : Hash, hash : Hash]

\* The previous hash of a first block: the number 0 in the source.
GenesisPrev == <<>>

Digest(b) == Append(b.prev_hash, <<b.id, b.txn>>)

\* What Block.mine returns once a nonce is found.
MinedBlock(id, txn, prev) ==
  [id |-> id, txn |-> txn, prev_hash |-> prev,
   hash |-> Append(prev, <<id, txn>>)]

(***************************************************************************)
(* Block.is_valid: the recomputed digest is the stored one.  The other two *)
(* tests cannot fail where this one succeeds: peers share a difficulty     *)
(* (README, assumption 3) and sign what they mine.                         *)
(***************************************************************************)
IsValid(b) == b.hash = Digest(b)

-----------------------------------------------------------------------------
Latest(c) == c[Len(c)]

\* Mutant: the id of the latest block, not the one after it.
NextIdOffByOne(c) == Len(c) - 1

NextId(c) == IF c = <<>> THEN 0 ELSE Latest(c).id + 1

TipHash(c) == IF c = <<>> THEN GenesisPrev ELSE Latest(c).hash

IsRepeatPoll(c, b) ==
  /\ b.txn.type = "create_poll"
  /\ \E i \in 1 .. Len(c) : /\ c[i].txn.type = "create_poll"
                            /\ c[i].txn.poll_name = b.txn.poll_name

IsVoteForNonexistentPoll(c, b) ==
  /\ b.txn.type = "vote"
  /\ \A i \in 1 .. Len(c) : /\ c[i].txn.type = "create_poll"
                            => c[i].txn.poll_id # b.txn.poll_id

\* Mutant: the id alone is compared, the previous hash is not.
CanAddUnlinked(c, b) ==
  /\ b.id = Len(c)
  /\ c # <<>> => /\ ~IsRepeatPoll(c, b)
                 /\ ~IsVoteForNonexistentPoll(c, b)

\* can_add_block_to_chain.  A first block is taken whatever it holds.
CanAdd(c, b) ==
  /\ b.id = Len(c)
  /\ c # <<>> => /\ Latest(c).hash = b.prev_hash
                 /\ ~IsRepeatPoll(c, b)
                 /\ ~IsVoteForNonexistentPoll(c, b)

\* get_block_by_id: the first block of the chain with this id.
GetBlockById(c, id) ==
  c[CHOOSE i \in 1 .. Len(c) : /\ c[i].id = id
                               /\ \A j \in 1 .. i - 1 : c[j].id # id]

\* Mutant: the latest block is left out.
ServedChainShort(c) == [i \in 1 .. Len(c) - 1 |-> GetBlockById(c, i - 1)]

\* The blocks a GET-CHAIN request is answered with, in the order sent.
ServedChain(c) == [i \in 1 .. Len(c) |-> GetBlockById(c, i - 1)]

\* A received chain is accepted block by block, each one on top of the
\* candidate built from the blocks before it.
ReplaysFromEmpty(c) ==
  \A i \in 1 .. Len(c) : IsValid(c[i]) /\ CanAdd(SubSeq(c, 1, i - 1), c[i])

-----------------------------------------------------------------------------
(***************************************************************************)
(* What a chain ought to look like, stated without can_add_block_to_chain. *)
(***************************************************************************)
Linked(c) ==
  \A i \in 1 .. Len(c) :
    /\ c[i].id = i - 1
    /\ IsValid(c[i])
    /\ c[i].prev_hash = IF i = 1 THEN GenesisPrev ELSE c[i - 1].hash

PollNamesUnique(c) ==
  \A i, j \in 1 .. Len(c) :
    /\ c[i].txn.type = "create_poll"
    /\ c[j].txn.type = "create_poll"
    /\ c[i].txn.poll_name = c[j].txn.poll_name
    => i = j

VotesFollowTheirPoll(c) ==
  \A i \in 1 .. Len(c) :
    c[i].txn.type = "vote" =>
      \E j \in 1 .. i - 1 : /\ c[j].txn.type = "create_poll"
                            /\ c[j].txn.poll_id = c[i].txn.poll_id

WellFormed(c) == Linked(c) /\ PollNamesUnique(c) /\ VotesFollowTheirPoll(c)

=============================================================================
