-------------------------- MODULE BlockchainProofs --------------------------
(***************************************************************************)
(* What the functions of Blockchain return and keep, for chains of any     *)
(* length.                                                                 *)
(***************************************************************************)
EXTENDS Blockchain, SequenceTheorems, WellFoundedInduction,
        FiniteSetTheorems, TLAPS

LEMMA MinedBlockType ==
  ASSUME NEW id \in Nat, NEW txn \in Txn, NEW prev \in Hash
  PROVE  MinedBlock(id, txn, prev) \in Block
BY DEF MinedBlock, Block, Hash

LEMMA GenesisPrevType == GenesisPrev \in Hash
BY DEF GenesisPrev, Hash

-----------------------------------------------------------------------------
(***************************************************************************)
(* Chains that differ in the hashes they store, if at all.                 *)
(***************************************************************************)
\* Two chains that differ in the hashes they store, if at all.
SameButHashes(c, d) ==
  /\ Len(d) = Len(c)
  /\ \A i \in 1 .. Len(c) : /\ d[i].id = c[i].id
                            /\ d[i].txn = c[i].txn
                            /\ d[i].prev_hash = c[i].prev_hash

LEMMA SpoiledType ==
  ASSUME NEW c \in Seq(Block), Len(c) >= 2
  PROVE  /\ [c EXCEPT ![2].hash = <<Noise>>] \in Seq(Block)
         /\ SameButHashes(c, [c EXCEPT ![2].hash = <<Noise>>])
<1> DEFINE e == [c[2] EXCEPT !.hash = <<Noise>>]
<1>1. <<Noise>> \in Hash
  BY DEF Hash
<1>2. 2 \in 1 .. Len(c) /\ c[2] \in Block
  BY ElementOfSeq
<1>3. /\ e \in Block
      /\ e.id = c[2].id /\ e.txn = c[2].txn /\ e.prev_hash = c[2].prev_hash
  BY <1>1, <1>2 DEF Block
<1> HIDE DEF e
<1>4. /\ [c EXCEPT ![2] = e] \in Seq(Block)
      /\ Len([c EXCEPT ![2] = e]) = Len(c)
      /\ \A j \in 1 .. Len(c) : [c EXCEPT ![2] = e][j] = IF j = 2 THEN e ELSE c[j]
  BY <1>2, <1>3, ExceptSeq
<1>5. [c EXCEPT ![2].hash = <<Noise>>] = [c EXCEPT ![2] = e]
  BY DEF e
<1> QED
  BY <1>3, <1>4, <1>5 DEF SameButHashes

-----------------------------------------------------------------------------
(***************************************************************************)
(* A well-formed chain grows by a block that fits, and passes the test of  *)
(* the peer it is sent to; a chain that passes the test is well-formed if  *)
(* its first block, which the test does not look at, builds upon nothing   *)
(* and creates a poll.                                                     *)
(***************************************************************************)
\* A chain grows by a block that fits.
LEMMA AppendWellFormed ==
  ASSUME NEW c \in Seq(Block), WellFormed(c), NEW b \in Block,
         b.id = Len(c), IsValid(b), b.prev_hash = TipHash(c),
         ~IsRepeatPoll(c, b), ~IsVoteForNonexistentPoll(c, b)
  PROVE  WellFormed(Append(c, b))
<1> DEFINE d == Append(c, b)
           n == Len(c)
<1>1. /\ n \in Nat
      /\ Len(d) = n + 1
      /\ \A i \in 1 .. n : d[i] = c[i]
      /\ d[n + 1] = b
  BY AppendProperties, LenProperties
<1>2. TipHash(c) = IF n = 0 THEN GenesisPrev ELSE c[n].hash
  BY EmptySeq DEF TipHash, Latest
<1> HIDE DEF d, n
<1>3. \A i \in 1 .. n + 1 : i \in 1 .. n \/ i = n + 1
  BY <1>1
<1>4. n + 1 \notin 1 .. n /\ 1 .. n \subseteq 1 .. n + 1
  BY <1>1
<1>5. Linked(d)
  <2> SUFFICES ASSUME NEW i \in 1 .. n + 1
               PROVE  /\ d[i].id = i - 1
                      /\ IsValid(d[i])
                      /\ d[i].prev_hash = IF i = 1 THEN GenesisPrev
                                                   ELSE d[i - 1].hash
    BY <1>1 DEF Linked
  <2>1. CASE i \in 1 .. n
    BY <1>1, <2>1 DEF WellFormed, Linked, n
  <2>2. CASE i = n + 1
    BY <1>1, <1>2, <2>2 DEF n
  <2> QED
    BY <1>3, <2>1, <2>2
<1>6. PollNamesUnique(d)
  <2>1. ASSUME NEW i \in 1 .. n, d[i].txn.type = "create_poll",
               b.txn.type = "create_poll"
        PROVE  d[i].txn.poll_name # b.txn.poll_name
    BY <1>1, <2>1 DEF IsRepeatPoll, n
  <2>2. \A i, j \in 1 .. n :
          /\ d[i].txn.type = "create_poll"
          /\ d[j].txn.type = "create_poll"
          /\ d[i].txn.poll_name = d[j].txn.poll_name
          => i = j
    BY <1>1 DEF WellFormed, PollNamesUnique, n
  <2> QED
    BY <1>1, <1>3, <2>1, <2>2 DEF PollNamesUnique
<1>7. VotesFollowTheirPoll(d)
  <2> SUFFICES ASSUME NEW i \in 1 .. n + 1, d[i].txn.type = "vote"
               PROVE  \E j \in 1 .. i - 1 : /\ d[j].txn.type = "create_poll"
                                            /\ d[j].txn.poll_id = d[i].txn.poll_id
    BY <1>1 DEF VotesFollowTheirPoll
  <2>1. CASE i \in 1 .. n
    <3>1. \A j \in 1 .. i - 1 : j \in 1 .. n
      BY <1>1, <2>1
    <3> QED
      BY <1>1, <2>1, <3>1 DEF WellFormed, VotesFollowTheirPoll, n
  <2>2. CASE i = n + 1
    <3>1. i - 1 = n
      BY <1>1, <2>2
    <3> QED
      BY <1>1, <2>2, <3>1 DEF IsVoteForNonexistentPoll, n
  <2> QED
    BY <1>3, <2>1, <2>2
<1> QED
  BY <1>5, <1>6, <1>7 DEF WellFormed, d

LEMMA Prefix ==
  ASSUME NEW c \in Seq(Block), NEW i \in 1 .. Len(c)
  PROVE  /\ Len(c) \in Nat
         /\ Len(SubSeq(c, 1, i - 1)) = i - 1
         /\ \A j \in 1 .. i - 1 : SubSeq(c, 1, i - 1)[j] = c[j]
         /\ SubSeq(c, 1, i - 1) = <<>> <=> i = 1
<1>1. Len(c) \in Nat /\ i \in Int /\ 1 <= i /\ i <= Len(c)
  BY LenProperties
<1>2. /\ Len(SubSeq(c, 1, i - 1)) = i - 1
      /\ \A j \in 1 .. i - 1 : SubSeq(c, 1, i - 1)[j] = c[j]
      /\ SubSeq(c, 1, i - 1) \in Seq(Block)
  BY <1>1
<1> QED
  BY <1>1, <1>2, EmptySeq

\* What CanAdd says of a block on top of those before it.
LEMMA CanAddOnPrefix ==
  ASSUME NEW c \in Seq(Block), NEW i \in 1 .. Len(c)
  PROVE  CanAdd(SubSeq(c, 1, i - 1), c[i]) <=>
           /\ c[i].id = i - 1
           /\ i # 1 =>
                /\ c[i - 1].hash = c[i].prev_hash
                /\ ~ /\ c[i].txn.type = "create_poll"
                     /\ \E j \in 1 .. i - 1 :
                          /\ c[j].txn.type = "create_poll"
                          /\ c[j].txn.poll_name = c[i].txn.poll_name
                /\ ~ /\ c[i].txn.type = "vote"
                     /\ \A j \in 1 .. i - 1 :
                          c[j].txn.type = "create_poll"
                          => c[j].txn.poll_id # c[i].txn.poll_id
<1> DEFINE d == SubSeq(c, 1, i - 1)
<1>1. /\ Len(d) = i - 1
      /\ \A j \in 1 .. i - 1 : d[j] = c[j]
      /\ d = <<>> <=> i = 1
  BY Prefix
<1>2. i # 1 => i - 1 \in 1 .. i - 1
  BY LenProperties
<1> HIDE DEF d
<1>3. i # 1 => Latest(d).hash = c[i - 1].hash
  BY <1>1, <1>2 DEF Latest
<1>4. CanAdd(d, c[i]) <=>
        /\ c[i].id = i - 1
        /\ i # 1 => /\ Latest(d).hash = c[i].prev_hash
                    /\ ~IsRepeatPoll(d, c[i])
                    /\ ~IsVoteForNonexistentPoll(d, c[i])
  BY <1>1 DEF CanAdd
<1>5. IsRepeatPoll(d, c[i]) <=>
        /\ c[i].txn.type = "create_poll"
        /\ \E j \in 1 .. i - 1 : /\ c[j].txn.type = "create_poll"
                                 /\ c[j].txn.poll_name = c[i].txn.poll_name
  BY <1>1 DEF IsRepeatPoll
<1>6. IsVoteForNonexistentPoll(d, c[i]) <=>
        /\ c[i].txn.type = "vote"
        /\ \A j \in 1 .. i - 1 : /\ c[j].txn.type = "create_poll"
                                 => c[j].txn.poll_id # c[i].txn.poll_id
  BY <1>1 DEF IsVoteForNonexistentPoll
<1> QED
  BY <1>3, <1>4, <1>5, <1>6 DEF d

\* A chain received block by block is sound, if only its first block is.
LEMMA ReplayedWellFormed ==
  ASSUME NEW c \in Seq(Block), ReplaysFromEmpty(c),
         c # <<>> => /\ c[1].prev_hash = GenesisPrev
                     /\ c[1].txn.type = "create_poll"
  PROVE  WellFormed(c)
<1>1. \A i \in 1 .. Len(c) : IsValid(c[i]) /\ CanAdd(SubSeq(c, 1, i - 1), c[i])
  BY DEF ReplaysFromEmpty
<1>2. Len(c) \in Nat /\ (Len(c) # 0 => /\ c[1].prev_hash = GenesisPrev
                                      /\ c[1].txn.type = "create_poll")
  BY LenProperties, EmptySeq
<1>3. Linked(c)
  BY <1>1, <1>2, CanAddOnPrefix DEF Linked
<1>4. ASSUME NEW i \in 1 .. Len(c), NEW j \in 1 .. Len(c), i < j,
             c[i].txn.type = "create_poll", c[j].txn.type = "create_poll"
      PROVE  c[i].txn.poll_name # c[j].txn.poll_name
  <2>1. i \in 1 .. j - 1 /\ j # 1
    BY <1>2, <1>4
  <2> QED
    BY <1>1, <1>4, <2>1, CanAddOnPrefix
<1>5. PollNamesUnique(c)
  <2>1. \A i, j \in 1 .. Len(c) : i < j \/ j < i \/ i = j
    BY <1>2
  <2> QED
    BY <1>4, <2>1 DEF PollNamesUnique
<1>6. VotesFollowTheirPoll(c)
  <2> SUFFICES ASSUME NEW i \in 1 .. Len(c), c[i].txn.type = "vote"
               PROVE  \E j \in 1 .. i - 1 : /\ c[j].txn.type = "create_poll"
                                            /\ c[j].txn.poll_id = c[i].txn.poll_id
    BY DEF VotesFollowTheirPoll
  <2>1. i # 1
    BY <1>2
  <2> QED
    BY <1>1, <2>1, CanAddOnPrefix
<1> QED
  BY <1>3, <1>5, <1>6 DEF WellFormed

\* A sound chain passes the test of the peer that receives it.
LEMMA WellFormedReplays ==
  ASSUME NEW c \in Seq(Block), WellFormed(c)
  PROVE  ReplaysFromEmpty(c)
<1> SUFFICES ASSUME NEW i \in 1 .. Len(c)
             PROVE  IsValid(c[i]) /\ CanAdd(SubSeq(c, 1, i - 1), c[i])
  BY DEF ReplaysFromEmpty
<1>1. \A j \in 1 .. i - 1 : j \in 1 .. Len(c) /\ j # i
  BY LenProperties
<1>2. ~ /\ c[i].txn.type = "create_poll"
        /\ \E j \in 1 .. i - 1 : /\ c[j].txn.type = "create_poll"
                                 /\ c[j].txn.poll_name = c[i].txn.poll_name
  BY <1>1 DEF WellFormed, PollNamesUnique
<1>3. ~ /\ c[i].txn.type = "vote"
        /\ \A j \in 1 .. i - 1 : /\ c[j].txn.type = "create_poll"
                                 => c[j].txn.poll_id # c[i].txn.poll_id
  BY DEF WellFormed, VotesFollowTheirPoll
<1>4. /\ IsValid(c[i]) /\ c[i].id = i - 1
      /\ i # 1 => c[i].prev_hash = c[i - 1].hash
  BY DEF WellFormed, Linked
<1> QED
  BY <1>2, <1>3, <1>4, CanAddOnPrefix

\* Where ids are places, GET-CHAIN is answered with the chain as it is.
LEMMA ServedChainIsChain ==
  ASSUME NEW c \in Seq(Block), \A i \in 1 .. Len(c) : c[i].id = i - 1
  PROVE  ServedChain(c) = c
<1>1. ASSUME NEW k \in 1 .. Len(c)
      PROVE  GetBlockById(c, k - 1) = c[k]
  <2> DEFINE Q(i) == c[i].id = k - 1 /\ \A j \in 1 .. i - 1 : c[j].id # k - 1
  <2>1. Q(k)
    BY LenProperties
  <2>2. \A i \in 1 .. Len(c) : Q(i) => i = k
    BY LenProperties
  <2>3. (CHOOSE i \in 1 .. Len(c) : Q(i)) = k
    BY <2>1, <2>2
  <2> QED
    BY <2>3 DEF GetBlockById
<1>2. ServedChain(c) = [i \in 1 .. Len(c) |-> c[i]]
  BY <1>1 DEF ServedChain
<1> QED
  BY <1>2, LenProperties

\* A peer with a sound chain answers GET-CHAIN with blocks that any peer
\* accepts one after the other (get_block_by_id, can_add_block_to_chain).
THEOREM SoundChainServed ==
  ASSUME NEW c \in Seq(Block), WellFormed(c)
  PROVE  ServedChain(c) = c /\ ReplaysFromEmpty(ServedChain(c))
<1>1. \A i \in 1 .. Len(c) : c[i].id = i - 1
  BY DEF WellFormed, Linked
<1> QED
  BY <1>1, ServedChainIsChain, WellFormedReplays

-----------------------------------------------------------------------------
(***************************************************************************)
(* A hash commits to the whole chain below its block.  This takes an       *)
(* induction on the block's place, done as a search for the first block    *)
(* that fails: sets of natural numbers have a least element, because       *)
(* strict inclusion of finite sets is well-founded.                        *)
(***************************************************************************)
LEMMA LeastElement ==
  ASSUME NEW T \in SUBSET Nat, T # {}
  PROVE  \E x \in T : \A y \in T : x <= y
<1> DEFINE U == {1 .. x : x \in T}
           R == StrictSubsetOrdering(Nat)
<1>1. IsWellFoundedOn(R, FiniteSubsetsOf(Nat))
  BY FS_StrictSubsetOrderingWellFounded
<1>2. U \subseteq FiniteSubsetsOf(Nat) /\ U # {}
  <2>1. ASSUME NEW x \in T
        PROVE  1 .. x \in FiniteSubsetsOf(Nat)
    <3>1. IsFiniteSet(1 .. x)
      BY FS_Interval
    <3> QED
      BY <3>1 DEF FiniteSubsetsOf
  <2> QED
    BY <2>1
<1>3. PICK u \in U : \A v \in U : ~(<<v, u>> \in R)
  <2> HIDE DEF U, R
  <2> QED
    BY <1>1, <1>2, WFMin
<1>4. PICK x \in T : u = 1 .. x
  BY <1>3
<1>5. ASSUME NEW y \in T, y < x
      PROVE  FALSE
  <2>1. 1 .. y \in U /\ 1 .. y \subseteq 1 .. x /\ x \in 1 .. x /\ x \notin 1 .. y
    BY <1>5
  <2>2. <<1 .. y, 1 .. x>> \in R
    BY <1>5, <2>1 DEF StrictSubsetOrdering
  <2> QED
    BY <1>3, <1>4, <2>1, <2>2
<1> QED
  BY <1>5

\* The hash of a linked chain's block names the blocks up to it.
CommitsTo(c, i) ==
  /\ Len(c[i].hash) = i
  /\ \A j \in 1 .. i : c[i].hash[j] = <<j - 1, c[j].txn>>

LEMMA LinkedCommits ==
  ASSUME NEW c \in Seq(Block), Linked(c), NEW i \in 1 .. Len(c)
  PROVE  CommitsTo(c, i)
<1> DEFINE T == {k \in 1 .. Len(c) : ~CommitsTo(c, k)}
<1> SUFFICES ASSUME T # {}
             PROVE  FALSE
  OBVIOUS
<1>1. Len(c) \in Nat /\ \A k \in 1 .. Len(c) : c[k] \in Block
  BY LenProperties, ElementOfSeq
<1>2. T \in SUBSET Nat
  BY <1>1
<1>3. PICK k \in T : \A y \in T : k <= y
  <2> HIDE DEF T
  <2> QED
    BY <1>2, LeastElement
<1>4. /\ k \in 1 .. Len(c) /\ ~CommitsTo(c, k)
      /\ c[k].id = k - 1 /\ c[k].hash = Append(c[k].prev_hash, <<k - 1, c[k].txn>>)
      /\ c[k].prev_hash = IF k = 1 THEN <<>> ELSE c[k - 1].hash
  BY <1>3 DEF Linked, IsValid, Digest, GenesisPrev
<1>5. /\ c[k].prev_hash \in Seq((Nat \X Txn) \cup {Noise})
      /\ <<k - 1, c[k].txn>> \in (Nat \X Txn) \cup {Noise}
  BY <1>1, <1>4 DEF Block, Hash
<1>6. /\ Len(c[k].hash) = Len(c[k].prev_hash) + 1
      /\ \A j \in 1 .. Len(c[k].prev_hash) : c[k].hash[j] = c[k].prev_hash[j]
      /\ c[k].hash[Len(c[k].prev_hash) + 1] = <<k - 1, c[k].txn>>
  BY <1>4, <1>5, AppendProperties
<1>7. CASE k = 1
  <2>1. Len(c[k].prev_hash) = 0
    BY <1>4, <1>7, EmptySeq
  <2> QED
    BY <1>4, <1>6, <1>7, <2>1 DEF CommitsTo
<1>8. CASE k # 1
  <2>1. k - 1 \in 1 .. Len(c) /\ k - 1 \notin T
    BY <1>1, <1>3, <1>4, <1>8
  <2>2. /\ Len(c[k].prev_hash) = k - 1
        /\ \A j \in 1 .. k - 1 : c[k].prev_hash[j] = <<j - 1, c[j].txn>>
    BY <1>4, <1>8, <2>1 DEF CommitsTo
  <2> HIDE DEF T
  <2>0. k \in Nat /\ k >= 1
    BY <1>1, <1>4
  <2>3. ASSUME NEW j \in 1 .. k
        PROVE  c[k].hash[j] = <<j - 1, c[j].txn>>
    <3>1. CASE j = k
      <4>1. Len(c[k].prev_hash) + 1 = k
        BY <2>0, <2>2
      <4>2. c[k].hash[k] = <<k - 1, c[k].txn>>
        BY <1>6, <4>1, Zenon
      <4> QED
        BY <3>1, <4>2, Zenon
    <3>2. CASE j \in 1 .. k - 1
      BY <1>6, <2>2, <3>2
    <3> QED
      BY <2>0, <3>1, <3>2
  <2>4. Len(c[k].hash) = k
    BY <1>6, <2>0, <2>2
  <2> QED
    BY <1>4, <2>3, <2>4 DEF CommitsTo
<1> QED
  BY <1>7, <1>8

=============================================================================
