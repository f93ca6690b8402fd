------------------------- MODULE PeerNetworkLedger --------------------------
(***************************************************************************)
(* What users are promised, proved: a transaction is mined once, the peers *)
(* implement Ledger, and they end equally long.                            *)
(***************************************************************************)
EXTENDS PeerNetworkProofs

-----------------------------------------------------------------------------
(***************************************************************************)
(* Blocks in transit.                                                      *)
(***************************************************************************)
\* A sequence all elements of which are in S.
LEMMA SeqWithin ==
  ASSUME NEW T, NEW s \in Seq(T), NEW S, Range(s) \subseteq S
  PROVE  s \in Seq(S)
BY SeqOfRange, SeqMonotonic

LEMMA RangeWithin ==
  ASSUME NEW S, NEW s \in Seq(S)
  PROVE  Range(s) \subseteq S
BY RangeOfSeq

LEMMA RangeHeadTail ==
  ASSUME NEW T, NEW s \in Seq(T), s # <<>>
  PROVE  Range(s) = {Head(s)} \cup Range(Tail(s))
<1>1. Head(s) \in T /\ Tail(s) \in Seq(T)
  BY HeadTailProperties
<1>2. <<Head(s)>> \in Seq(T)
  BY <1>1
<1>3. Range(<<Head(s)>> \o Tail(s)) = Range(<<Head(s)>>) \cup Range(Tail(s))
  <2>1. PICK h, t \in Seq(T) : h = <<Head(s)>> /\ t = Tail(s)
    BY <1>1, <1>2
  <2>2. Range(h \o t) = Range(h) \cup Range(t)
    BY RangeConcatenation
  <2> QED
    BY <2>1, <2>2
<1>4. Range(<<Head(s)>>) = {Head(s)}
  BY DEF Range
<1> QED
  BY <1>3, <1>4, ConsHeadTail

LEMMA RangeAppend ==
  ASSUME NEW T, NEW s \in Seq(T), NEW e \in T
  PROVE  Range(Append(s, e)) = Range(s) \cup {e}
<1>1. Append(s, e) = s \o <<e>> /\ <<e>> \in Seq(T)
  BY AppendIsConcat
<1>2. Range(s \o <<e>>) = Range(s) \cup Range(<<e>>)
  <2>1. PICK t \in Seq(T) : t = <<e>>
    BY <1>1
  <2>2. Range(s \o t) = Range(s) \cup Range(t)
    BY RangeConcatenation
  <2> QED
    BY <2>1, <2>2
<1>3. Range(<<e>>) = {e}
  BY DEF Range
<1> QED
  BY <1>1, <1>2, <1>3

\* InTransit and what Traffic(S) says, of any value of the three variables.
CarriedBy(o, r, i) ==
  UNION {Range(o[p]) \cup Range(r[p])
         \cup UNION {Range(m.payload) : m \in Range(i[p])} : p \in Peers}

LEMMA CarriedWithin ==
  ASSUME NEW S, NEW o, NEW r, NEW i,
         \A p \in Peers : /\ o[p] \in Seq(S)
                          /\ r[p] \in Seq(S)
                          /\ i[p] \in Seq(Carrying(S))
  PROVE  CarriedBy(o, r, i) \subseteq S
<1> SUFFICES ASSUME NEW p \in Peers
             PROVE  /\ Range(o[p]) \subseteq S
                    /\ Range(r[p]) \subseteq S
                    /\ \A m \in Range(i[p]) : Range(m.payload) \subseteq S
  BY DEF CarriedBy
<1>1. Range(o[p]) \subseteq S /\ Range(r[p]) \subseteq S
  BY RangeWithin
<1>2. Range(i[p]) \subseteq Carrying(S)
  BY RangeWithin
<1>3. ASSUME NEW m \in Range(i[p])
      PROVE  Range(m.payload) \subseteq S
  <2>1. m.payload \in Seq(S)
    BY <1>2 DEF Carrying
  <2> QED
    BY <2>1, RangeWithin
<1> QED
  BY <1>1, <1>3

\* Traffic(S) says the same of the variables as InTransit \subseteq S.
LEMMA TransitWithin ==
  ASSUME DataTypes, NEW S, InTransit \subseteq S
  PROVE  Traffic(S)
<1> SUFFICES ASSUME NEW p \in Peers
             PROVE  /\ outgoing[p] \in Seq(S)
                    /\ rcv[p] \in Seq(S)
                    /\ inbox[p] \in Seq(Carrying(S))
  BY DEF Traffic
<1>1. outgoing[p] \in Seq(Block) /\ rcv[p] \in Seq(Block)
      /\ inbox[p] \in Seq(Connection)
  BY DEF DataTypes
<1>2. /\ Range(outgoing[p]) \subseteq S
      /\ Range(rcv[p]) \subseteq S
      /\ \A m \in Range(inbox[p]) : Range(m.payload) \subseteq S
  BY DEF InTransit
<1>3. ASSUME NEW m \in Range(inbox[p])
      PROVE  m \in Carrying(S)
  <2>1. m \in Connection
    BY <1>1, RangeWithin
  <2>2. m.payload \in Seq(Block)
    BY <2>1 DEF Connection
  <2>3. m.payload \in Seq(S)
    BY <1>2, <2>2, SeqWithin
  <2> QED
    BY <2>1, <2>3 DEF Connection, Carrying
<1> QED
  BY <1>1, <1>2, <1>3, SeqWithin

LEMMA TransitTypes ==
  ASSUME DataTypes
  PROVE  InTransit \subseteq Block
<1>1. PICK S : S = Block
  OBVIOUS
<1>2. Carrying(S) = Connection
  BY <1>1 DEF Carrying, Connection
<1>3. \A p \in Peers : /\ outgoing[p] \in Seq(S)
                       /\ rcv[p] \in Seq(S)
                       /\ inbox[p] \in Seq(Carrying(S))
  BY <1>1, <1>2 DEF DataTypes
<1>4. CarriedBy(outgoing, rcv, inbox) \subseteq S
  BY <1>3, CarriedWithin
<1> QED
  BY <1>1, <1>4 DEF InTransit, CarriedBy

LEMMA NextTransitWithin ==
  ASSUME NEW S, Traffic(S)'
  PROVE  InTransit' \subseteq S
<1>1. PICK o, r, i : o = outgoing' /\ r = rcv' /\ i = inbox'
  OBVIOUS
<1>2. \A p \in Peers : /\ o[p] \in Seq(S)
                       /\ r[p] \in Seq(S)
                       /\ i[p] \in Seq(Carrying(S))
  BY <1>1 DEF Traffic
<1>3. CarriedBy(o, r, i) \subseteq S
  BY <1>2, CarriedWithin
<1> QED
  BY <1>1, <1>3 DEF InTransit, CarriedBy

\* Nothing gets on its way but what a miner sends.
LEMMA TransitSteps ==
  ASSUME CoreInv, [PeersMove]_vars, NEW b \in InTransit'
  PROVE  b \in InTransit \/ \E p \in Peers : AppendsBlock(p) /\ b = Outgoing(p)
<1> DEFINE New == {d \in {Outgoing(p) : p \in Peers} :
                     \E p \in Peers : AppendsBlock(p) /\ d = Outgoing(p)}
<1>1. PICK S : S = InTransit \cup New
  OBVIOUS
<1>2. Traffic(S)
  BY <1>1, TransitWithin DEF CoreInv
<1>3. \A p \in Peers : AppendsBlock(p) => Outgoing(p) \in S
  BY <1>1
<1>4. Traffic(S)'
  BY <1>2, <1>3, TrafficStep DEF CoreInv
<1>5. b \in S
  BY <1>4, NextTransitWithin
<1> QED
  BY <1>1, <1>5 DEF New

-----------------------------------------------------------------------------
(***************************************************************************)
(* The ledger a chain stands for.                                          *)
(***************************************************************************)
LEMMA EntriesType ==
  ASSUME NEW c \in Seq(Block)
  PROVE  /\ Entries(c) \in Seq(Txn)
         /\ Len(Entries(c)) = Len(c)
         /\ \A i \in 1 .. Len(c) : Entries(c)[i] = c[i].txn
<1>1. Len(c) \in Nat /\ \A i \in 1 .. Len(c) : c[i] \in Block
  BY LenProperties, ElementOfSeq
<1>2. \A i \in 1 .. Len(c) : c[i].txn \in Txn
  BY <1>1 DEF Block
<1> QED
  BY <1>1, <1>2 DEF Entries

LEMMA EntriesOfNone == Entries(<<>>) = <<>>
<1>1. PICK c \in Seq(Block) : c = <<>>
  BY EmptySeq
<1>2. Entries(c) \in Seq(Txn) /\ Len(Entries(c)) = 0
  BY <1>1, EntriesType
<1> QED
  BY <1>1, <1>2, EmptySeq

LEMMA EntriesOfAppend ==
  ASSUME NEW c \in Seq(Block), NEW b \in Block
  PROVE  Entries(Append(c, b)) = Append(Entries(c), b.txn)
<1> DEFINE d == Append(c, b)
<1>1. /\ d \in Seq(Block) /\ Len(d) = Len(c) + 1 /\ Len(c) \in Nat
      /\ \A i \in 1 .. Len(c) : d[i] = c[i]
      /\ d[Len(c) + 1] = b
  BY AppendProperties, LenProperties
<1>2. b.txn \in Txn
  BY DEF Block
<1> HIDE DEF d
<1>3. /\ Entries(d) \in Seq(Txn) /\ Len(Entries(d)) = Len(c) + 1
      /\ \A i \in 1 .. Len(c) : Entries(d)[i] = c[i].txn
      /\ Entries(d)[Len(c) + 1] = b.txn
  BY <1>1, EntriesType
<1>4. Entries(c) \in Seq(Txn) /\ Len(Entries(c)) = Len(c)
      /\ \A i \in 1 .. Len(c) : Entries(c)[i] = c[i].txn
  BY EntriesType
<1>5. /\ Append(Entries(c), b.txn) \in Seq(Txn)
      /\ Len(Append(Entries(c), b.txn)) = Len(c) + 1
      /\ \A i \in 1 .. Len(c) : Append(Entries(c), b.txn)[i] = c[i].txn
      /\ Append(Entries(c), b.txn)[Len(c) + 1] = b.txn
  BY <1>2, <1>4, AppendProperties
<1>6. \A i \in 1 .. Len(c) + 1 : i \in 1 .. Len(c) \/ i = Len(c) + 1
  BY <1>1
<1>7. Entries(d) = Append(Entries(c), b.txn)
  BY <1>3, <1>5, <1>6, SeqEqual
<1> QED
  BY <1>7 DEF d

\* The last block of a linked chain stands for all of it.
LEMMA LatestCommits ==
  ASSUME NEW c \in Seq(Block), Linked(c), c # <<>>
  PROVE  Commits(Latest(c)) = Entries(c)
<1>1. Len(c) \in Nat \ {0}
  BY EmptySeq
<1>2. Len(c) \in 1 .. Len(c)
  BY <1>1
<1>3. CommitsTo(c, Len(c))
  BY <1>2, LinkedCommits
<1> QED
  BY <1>3 DEF CommitsTo, Commits, Entries, Latest

LEMMA HashOfValid ==
  ASSUME NEW b \in Block, IsValid(b)
  PROVE  /\ b.prev_hash \in Hash /\ Len(b.prev_hash) \in Nat
         /\ Len(b.hash) = Len(b.prev_hash) + 1
         /\ \A i \in 1 .. Len(b.prev_hash) : b.hash[i] = b.prev_hash[i]
         /\ b.hash[Len(b.prev_hash) + 1] = <<b.id, b.txn>>
<1>1. /\ b.prev_hash \in Seq((Nat \X Txn) \cup {Noise})
      /\ <<b.id, b.txn>> \in (Nat \X Txn) \cup {Noise}
      /\ b.hash = Append(b.prev_hash, <<b.id, b.txn>>)
  BY DEF Block, Hash, IsValid, Digest
<1> QED
  BY <1>1, AppendProperties, LenProperties DEF Hash

-----------------------------------------------------------------------------
(***************************************************************************)
(* The block a miner appends, where nobody spoils its own chain.           *)
(***************************************************************************)
LEMMA OwnBlock ==
  ASSUME CoreInv, NEW p \in Peers, AppendsBlock(p)
  PROVE  /\ current[p] # <<>>
         /\ NewBlock(p) \in Block
         /\ NewBlock(p).id = Len(chain[p])
         /\ NewBlock(p).txn = Head(current[p])
         /\ NewBlock(p).txn.sender = p
         /\ NewBlock(p).prev_hash = TipHash(chain[p])
         /\ IsValid(NewBlock(p))
         /\ \A q \in Peers : q # p => chain'[q] = chain[q]
         /\ KeepsChain(p) => /\ Extended(p) = Append(chain[p], NewBlock(p))
                             /\ chain'[p] = Append(chain[p], NewBlock(p))
<1>1. /\ current[p] # <<>> /\ mineId[p] = Len(chain[p])
      /\ prevHash[p] = TipHash(chain[p])
  BY AppendOwnBlockAtTip DEF CoreInv
<1>2. NewBlock(p) \in Block
  BY <1>1, NewBlockType DEF CoreInv
<1>3. Head(current[p]).sender = p
  BY <1>1, OwnTxnInHand DEF CoreInv
<1>4. chain'[p] = Extended(p) /\ \A q \in Peers : q # p => chain'[q] = chain[q]
  BY AppendOwnBlockChain DEF CoreInv
<1>5. KeepsChain(p) => Extended(p) = Append(chain[p], NewBlock(p))
  BY DEF Extended, Tampers, KeepsChain
<1> QED
  BY <1>1, <1>2, <1>3, <1>4, <1>5 DEF NewBlock, MinedBlock, IsValid, Digest

\* Tampering with what is sent makes it invalid: what is sent and valid is
\* what was mined.
LEMMA SentUnspoiled ==
  ASSUME CoreInv, NEW p \in Peers, KeepsChain(p), AppendsBlock(p),
         IsValid(Outgoing(p))
  PROVE  Outgoing(p) = NewBlock(p)
<1> DEFINE b == NewBlock(p)
           o == Outgoing(p)
<1>1. /\ b \in Block /\ IsValid(b) /\ b.prev_hash = TipHash(chain[p])
      /\ Extended(p) = Append(chain[p], b)
      /\ current[p] # <<>> /\ chain[p] \in Seq(Block)
  BY OwnBlock DEF CoreInv, DataTypes
<1>2. Latest(Extended(p)) = b
  BY <1>1, AppendProperties DEF Latest
<1>3. o \in Block
  BY <1>1, OutgoingType DEF CoreInv
<1>4. \/ o = b
      \/ o = [b EXCEPT !.hash = <<Noise>>]
      \/ o = [b EXCEPT !.prev_hash = <<Noise>>]
      \/ o = [b EXCEPT !.txn.poll_id = <<p, 0>>]
  <2>1. TamperType[p] \in TamperTypes
    BY ConfigAssumption
  <2> QED
    BY <1>2, <2>1 DEF Outgoing, TamperTypes
<1>5. IsValid(o)
  OBVIOUS
<1> HIDE DEF b, o
<1>9. /\ Len(b.prev_hash) \in Nat /\ Len(b.hash) = Len(b.prev_hash) + 1
      /\ \A i \in 1 .. Len(b.prev_hash) : b.hash[i] = b.prev_hash[i]
      /\ b.hash[Len(b.prev_hash) + 1] = <<b.id, b.txn>>
  BY <1>1, HashOfValid
<1>10. /\ Len(o.prev_hash) \in Nat /\ Len(o.hash) = Len(o.prev_hash) + 1
       /\ \A i \in 1 .. Len(o.prev_hash) : o.hash[i] = o.prev_hash[i]
       /\ o.hash[Len(o.prev_hash) + 1] = <<o.id, o.txn>>
  BY <1>3, <1>5, HashOfValid
<1>11. Len(<<Noise>>) = 1 /\ <<Noise>>[1] = Noise
  OBVIOUS
<1>6. ASSUME o = [b EXCEPT !.hash = <<Noise>>]
      PROVE  FALSE
  <2>1. o.hash = <<Noise>>
    BY <1>1, <1>6 DEF Block
  <2>2. Noise = <<o.id, o.txn>>
    <3>1. Len(o.prev_hash) = 0
      BY <1>10, <1>11, <2>1
    <3>2. o.hash[1] = <<o.id, o.txn>>
      BY <1>10, <3>1
    <3> QED
      BY <1>11, <2>1, <3>2
  <2>3. Noise \in Nat \X Txn
    BY <1>3, <2>2 DEF Block
  <2> QED
    BY <2>3, NoiseAssumption
<1>7. ASSUME o = [b EXCEPT !.prev_hash = <<Noise>>]
      PROVE  FALSE
  <2>1. o.prev_hash = <<Noise>> /\ o.hash = b.hash
    BY <1>1, <1>7 DEF Block
  <2>2. Len(o.hash) = 2 /\ o.hash[1] = Noise
    BY <1>10, <1>11, <2>1
  <2>3. Len(b.prev_hash) = 1 /\ b.prev_hash[1] = Noise
    <3>0. Len(b.hash) = 2
      BY <2>1, <2>2
    <3>1. Len(b.prev_hash) = 1
      <4>1. PICK n \in Nat : n = Len(b.prev_hash)
        BY <1>9
      <4>2. n + 1 = 2
        BY <1>9, <3>0, <4>1
      <4>3. n = 1
        BY <4>2
      <4> QED
        BY <4>1, <4>3
    <3>2. b.prev_hash[1] = b.hash[1]
      BY <1>9, <3>1
    <3> QED
      BY <2>1, <2>2, <3>1, <3>2
  <2>4. chain[p] # <<>>
    BY <1>1, <2>3, EmptySeq DEF TipHash, GenesisPrev
  <2>5. /\ Len(chain[p]) \in Nat \ {0}
        /\ b.prev_hash = chain[p][Len(chain[p])].hash
    BY <1>1, <2>4, EmptySeq DEF TipHash, Latest
  <2>6. Linked(chain[p])
    BY DEF CoreInv, ChainsWellFormed, WellFormed
  <2>7. CommitsTo(chain[p], Len(chain[p]))
    BY <1>1, <2>5, <2>6, LinkedCommits
  <2>8. Len(chain[p]) = 1
    BY <2>3, <2>5, <2>7 DEF CommitsTo
  <2>9. Noise = <<0, chain[p][1].txn>>
    <3>1. b.prev_hash = chain[p][1].hash
      BY <2>5, <2>8
    <3>2. chain[p][1].hash[1] = <<1 - 1, chain[p][1].txn>>
      BY <2>7, <2>8 DEF CommitsTo
    <3>3. 1 - 1 = 0
      OBVIOUS
    <3> QED
      BY <2>3, <3>1, <3>2, <3>3
  <2>10. chain[p][1] \in Block
    BY <1>1, <2>8, ElementOfSeq
  <2>11. chain[p][1].txn \in Txn
    BY <2>10 DEF Block
  <2> QED
    BY <2>9, <2>11, NoiseAssumption
<1>8. ASSUME o = [b EXCEPT !.txn.poll_id = <<p, 0>>]
      PROVE  o = b
  <2>1. o.id = b.id /\ o.prev_hash = b.prev_hash /\ o.hash = b.hash
    BY <1>1, <1>8 DEF Block
  <2>2. o.txn = b.txn
    <3>1. <<o.id, o.txn>> = <<b.id, b.txn>>
      BY <1>9, <1>10, <2>1
    <3> QED
      BY <3>1
  <2> QED
    BY <1>1, <1>3, <2>1, <2>2 DEF Block
<1> QED
  BY <1>4, <1>6, <1>7, <1>8 DEF b, o

-----------------------------------------------------------------------------
(***************************************************************************)
(* Nothing but a miner's append makes a ledger that could not be had       *)
(* before, or a block that was not there.                                  *)
(***************************************************************************)
LEMMA HeadUnderWay ==
  ASSUME CoreInv, NEW p \in Peers, rcv[p] # <<>>
  PROVE  /\ Head(rcv[p]) \in Block /\ Head(rcv[p]) \in InTransit
         /\ Head(rcv[p]) \in Range(rcv[p])
<1>1. rcv[p] \in Seq(Block)
  BY DEF CoreInv, DataTypes
<1>2. rcv[p] \in Seq(Range(rcv[p]))
  BY <1>1, SeqOfRange
<1>3. Head(rcv[p]) \in Range(rcv[p])
  BY <1>2, HeadTailProperties
<1> QED
  BY <1>1, <1>3, HeadTailProperties DEF InTransit

LEMMA FinishForkEffect ==
  ASSUME CoreInv, NEW p \in Peers, FinishFork(p)
  PROVE  /\ ppc[p] = "served"
         /\ \A q \in Peers : q # p => chain'[q] = chain[q]
         /\ \/ chain'[p] = chain[p]
            \/ chain'[p] = reply[p] /\ Len(reply[p]) > Len(chain[p])
BY DEF FinishFork, Adoptable, CoreInv, DataTypes

LEMMA AppendReceivedEffect ==
  ASSUME CoreInv, NEW p \in Peers, AppendReceived(p)
  PROVE  /\ rcv[p] # <<>> /\ IsValid(Head(rcv[p]))
         /\ Head(rcv[p]).id = Len(chain[p])
         /\ Head(rcv[p]) \in Block
         /\ chain'[p] = Append(chain[p], Head(rcv[p]))
         /\ \A q \in Peers : q # p => chain'[q] = chain[q]
BY HeadUnderWay DEF AppendReceived, Polling, CanAdd, CoreInv, DataTypes

LEMMA AdoptedVisible ==
  ASSUME CoreInv, AllKeepChain, [PeersMove]_vars, NEW p \in Peers,
         AppendReceived(p) \/ FinishFork(p)
  PROVE  Entries(chain'[p]) \in Visible
<1>1. CASE AppendReceived(p)
  <2> DEFINE b == Head(rcv[p])
             c == Append(chain[p], b)
  <2>1. /\ b \in Block /\ b \in InTransit /\ IsValid(b)
        /\ chain'[p] = c /\ chain[p] \in Seq(Block)
    BY <1>1, AppendReceivedEffect, HeadUnderWay DEF CoreInv, DataTypes
  <2>2. c \in Seq(Block) /\ c # <<>> /\ Latest(c) = b
    BY <2>1, AppendProperties DEF Latest
  <2>3. CoreInv'
    BY CoreStep
  <2>4. Linked(chain'[p])
    BY <2>3 DEF CoreInv, ChainsWellFormed, WellFormed, AllKeepChain
  <2> HIDE DEF c
  <2>5. Commits(b) = Entries(c)
    BY <2>1, <2>2, <2>4, LatestCommits
  <2> HIDE DEF b
  <2>6. Commits(b) \in Visible
    BY <2>1 DEF Visible
  <2> QED
    BY <2>1, <2>5, <2>6
<1>2. CASE FinishFork(p)
  BY <1>2, FinishForkEffect DEF Visible
<1> QED
  BY <1>1, <1>2

LEMMA VisibleSteps ==
  ASSUME CoreInv, AllKeepChain, [PeersMove]_vars, NEW l \in Visible'
  PROVE  l \in Visible \/ \E p \in Peers : /\ AppendsBlock(p)
                                          /\ l = Entries(chain'[p])
<1> DEFINE Goal == l \in Visible \/ \E p \in Peers : /\ AppendsBlock(p)
                                                    /\ l = Entries(chain'[p])
<1>1. ASSUME NEW q \in Peers, l = Entries(chain'[q])
      PROVE  Goal
  <2>1. CASE chain'[q] = chain[q]
    BY <1>1, <2>1 DEF Visible
  <2>2. ASSUME NEW p \in Peers, AppendsBlock(p)
        PROVE  chain'[q] = chain[q] \/ q = p
    BY <2>2, OwnBlock
  <2>3. ASSUME NEW p \in Peers, AppendReceived(p) \/ FinishFork(p)
        PROVE  chain'[q] = chain[q] \/ Entries(chain'[q]) \in Visible
    BY <2>3, AppendReceivedEffect, FinishForkEffect, AdoptedVisible
  <2> QED
    BY <1>1, <2>1, <2>2, <2>3, ChainSteps
<1>2. ASSUME NEW q \in Peers, ppc'[q] = "served", l = Entries(reply'[q])
      PROVE  Goal
  <2>1. \/ ppc[q] = "served" /\ reply'[q] = reply[q]
        \/ reply'[q] = chain[asked[q]]
    BY <1>2, PollerSteps DEF CoreInv, DetectFork, DataTypes
  <2>2. asked[q] \in Peers
    BY DEF CoreInv, DataTypes
  <2> QED
    BY <1>2, <2>1, <2>2 DEF Visible
<1>3. ASSUME NEW b \in InTransit', IsValid(b), l = Commits(b)
      PROVE  Goal
  <2>1. CASE b \in InTransit
    BY <1>3, <2>1 DEF Visible
  <2>2. ASSUME NEW p \in Peers, AppendsBlock(p), b = Outgoing(p)
        PROVE  l = Entries(chain'[p])
    <3> DEFINE c == Append(chain[p], NewBlock(p))
    <3>1. KeepsChain(p)
      BY DEF AllKeepChain
    <3>2. /\ b = NewBlock(p) /\ chain'[p] = c
          /\ NewBlock(p) \in Block /\ chain[p] \in Seq(Block)
      BY <1>3, <2>2, <3>1, SentUnspoiled, OwnBlock DEF CoreInv, DataTypes
    <3>3. c \in Seq(Block) /\ c # <<>> /\ Latest(c) = b
      BY <3>2, AppendProperties DEF Latest
    <3>4. CoreInv'
      BY CoreStep
    <3>5. Linked(chain'[p])
      BY <3>1, <3>4 DEF CoreInv, ChainsWellFormed, WellFormed
    <3> HIDE DEF c
    <3> QED
      BY <1>3, <3>2, <3>3, <3>5, LatestCommits
  <2> QED
    BY <2>1, <2>2, TransitSteps
<1> QED
  BY <1>1, <1>2, <1>3 DEF Visible

LEMMA LiveSteps ==
  ASSUME CoreInv, AllKeepChain, [PeersMove]_vars, NEW b \in LiveBlocks'
  PROVE  b \in LiveBlocks \/ \E p \in Peers : AppendsBlock(p) /\ b = NewBlock(p)
<1> DEFINE Goal == \/ b \in LiveBlocks
                   \/ \E p \in Peers : AppendsBlock(p) /\ b = NewBlock(p)
<1>0. ASSUME NEW c \in Seq(Block), NEW d \in Block
      PROVE  Range(Append(c, d)) = Range(c) \cup {d}
  BY RangeAppend
<1>1. ASSUME NEW q \in Peers, b \in Range(chain'[q])
      PROVE  Goal
  <2>0. chain[q] \in Seq(Block)
    BY DEF CoreInv, DataTypes
  <2>1. CASE chain'[q] = chain[q]
    BY <1>1, <2>1 DEF LiveBlocks
  <2>2. ASSUME NEW p \in Peers, AppendsBlock(p), q = p
        PROVE  Goal
    <3>1. /\ chain'[p] = Append(chain[p], NewBlock(p))
          /\ NewBlock(p) \in Block
      BY <2>2, OwnBlock DEF AllKeepChain
    <3>2. b \in Range(chain[q]) \/ b = NewBlock(p)
      BY <1>0, <1>1, <2>0, <2>2, <3>1
    <3> QED
      BY <2>2, <3>2 DEF LiveBlocks
  <2>3. ASSUME NEW p \in Peers, AppendReceived(p), q = p
        PROVE  Goal
    <3>1. /\ chain'[p] = Append(chain[p], Head(rcv[p]))
          /\ Head(rcv[p]) \in Block /\ Head(rcv[p]) \in InTransit
          /\ IsValid(Head(rcv[p]))
      BY <2>3, AppendReceivedEffect, HeadUnderWay
    <3>2. b \in Range(chain[q]) \/ b = Head(rcv[p])
      BY <1>0, <1>1, <2>0, <2>3, <3>1
    <3> QED
      BY <3>1, <3>2 DEF LiveBlocks
  <2>4. ASSUME NEW p \in Peers, FinishFork(p), q = p
        PROVE  Goal
    <3>1. ppc[q] = "served" /\ (chain'[q] = chain[q] \/ chain'[q] = reply[q])
      BY <2>4, FinishForkEffect
    <3> QED
      BY <1>1, <3>1 DEF LiveBlocks
  <2>5. ASSUME NEW p \in Peers, q # p,
               AppendsBlock(p) \/ AppendReceived(p) \/ FinishFork(p)
        PROVE  chain'[q] = chain[q]
    BY <2>5, OwnBlock, AppendReceivedEffect, FinishForkEffect
  <2> HIDE DEF Goal
  <2> QED
    BY <2>1, <2>2, <2>3, <2>4, <2>5, ChainSteps
<1>2. ASSUME NEW q \in Peers, ppc'[q] = "served", b \in Range(reply'[q])
      PROVE  Goal
  <2>1. \/ ppc[q] = "served" /\ reply'[q] = reply[q]
        \/ reply'[q] = chain[asked[q]]
    BY <1>2, PollerSteps DEF CoreInv, DetectFork, DataTypes
  <2>2. asked[q] \in Peers
    BY DEF CoreInv, DataTypes
  <2> QED
    BY <1>2, <2>1, <2>2 DEF LiveBlocks
<1>3. ASSUME b \in InTransit', IsValid(b)
      PROVE  Goal
  BY <1>3, TransitSteps, SentUnspoiled DEF LiveBlocks, AllKeepChain
<1> QED
  BY <1>1, <1>2, <1>3 DEF LiveBlocks

-----------------------------------------------------------------------------
(***************************************************************************)
(* A transaction is mined once.                                            *)
(***************************************************************************)
LEMMA PendingType ==
  ASSUME CoreInv, NEW p \in Peers
  PROVE  /\ Pending(p) \in Seq(Txn) /\ Len(Pending(p)) \in Nat
         /\ Len(current[p]) \in Nat /\ Len(txns[p]) \in Nat
         /\ submitted[p] \in Nat
         /\ Len(Pending(p)) = Len(current[p]) + Len(txns[p])
         /\ \A i \in 1 .. Len(Pending(p)) :
              /\ Pending(p)[i].sender = p
              /\ Pending(p)[i].stamp = submitted[p] - Len(Pending(p)) + i
<1>1. current[p] \in Seq(Txn) /\ txns[p] \in Seq(Txn) /\ submitted[p] \in Nat
  BY DEF CoreInv, DataTypes
<1>2. /\ Pending(p) \in Seq(Txn)
      /\ Len(Pending(p)) = Len(current[p]) + Len(txns[p])
  BY <1>1, ConcatProperties DEF Pending
<1> QED
  BY <1>1, <1>2, LenProperties DEF CoreInv, PendingInOrder

\* What the miner has in hand is the first of the pending transactions.
LEMMA FirstInHand ==
  ASSUME CoreInv, NEW p \in Peers, current[p] # <<>>
  PROVE  /\ Len(current[p]) >= 1 /\ Pending(p) # <<>>
         /\ Head(current[p]) \in Txn /\ Head(Pending(p)) = Head(current[p])
         /\ Head(current[p]).sender = p
         /\ Head(current[p]).stamp = submitted[p] - Len(Pending(p)) + 1
<1>1. current[p] \in Seq(Txn) /\ txns[p] \in Seq(Txn)
  BY DEF CoreInv, DataTypes
<1>2. Len(current[p]) >= 1 /\ Head(current[p]) = current[p][1]
      /\ Head(current[p]) \in Txn
  BY <1>1, EmptySeq, HeadTailProperties
<1>3. 1 \in 1 .. Len(current[p]) + Len(txns[p])
  <2> DEFINE a == Len(current[p])
             b == Len(txns[p])
  <2>1. a \in Nat /\ b \in Nat /\ a >= 1
    BY <1>2, PendingType
  <2> HIDE DEF a, b
  <2>2. 1 \in 1 .. a + b
    BY <2>1
  <2> QED
    BY <2>2 DEF a, b
<1>4. Pending(p)[1] = current[p][1]
  BY <1>1, <1>2, <1>3, ConcatProperties DEF Pending
<1>5. 1 \in 1 .. Len(Pending(p))
  BY <1>3, PendingType
<1>6. Pending(p) # <<>> /\ Head(Pending(p)) = Pending(p)[1]
  BY <1>5, PendingType, EmptySeq
<1>7. /\ Pending(p)[1].sender = p
      /\ Pending(p)[1].stamp = submitted[p] - Len(Pending(p)) + 1
  BY <1>5, PendingType
<1> QED
  BY <1>2, <1>4, <1>6, <1>7

\* How many transactions of a peer are settled.
LEMMA SettledGrows ==
  ASSUME CoreInv, [PeersMove]_vars, NEW p \in Peers
  PROVE  /\ submitted'[p] \in Nat /\ Len(Pending(p)') \in Nat
         /\ submitted[p] - Len(Pending(p)) <= submitted'[p] - Len(Pending(p)')
         /\ AppendsBlock(p) => submitted[p] - Len(Pending(p)) + 1
                                 <= submitted'[p] - Len(Pending(p)')
<1> DEFINE a == Len(current[p])
           b == Len(txns[p])
           x == submitted[p]
           n == Len(Pending(p))
           c == Len(current'[p])
           d == Len(txns'[p])
           y == submitted'[p]
           m == Len(Pending(p)')
<1>1. CoreInv'
  BY CoreStep
<1>2. n = a + b /\ n \in Nat /\ a \in Nat /\ b \in Nat /\ x \in Nat
  BY PendingType
<1>3. current[p] \in Seq(Txn) /\ txns[p] \in Seq(Txn)
  BY DEF CoreInv, DataTypes
<1>4. current'[p] \in Seq(Txn) /\ txns'[p] \in Seq(Txn) /\ y \in Nat
  BY <1>1 DEF CoreInv, DataTypes
<1>5. m = c + d /\ c \in Nat /\ d \in Nat
  BY <1>4, ConcatProperties, LenProperties DEF Pending
<1>6. m \in Nat
  <2> HIDE DEF a, b, c, d, n, m, x, y
  <2> QED
    BY <1>5
<1>7. \/ c = a /\ d = b /\ y = x
      \/ c = a /\ d = b + 1 /\ y = x + 1
      \/ c = 1 /\ d = n - 1 /\ y = x
      \/ c = 0 /\ d = n /\ y = x
      \/ c = 0 /\ d = b /\ y = x
  <2>1. CASE /\ txns'[p] = txns[p] /\ current'[p] = current[p]
             /\ submitted'[p] = submitted[p]
    BY <2>1
  <2>2. ASSUME NEW t \in Txn, Submit(p, t)
        PROVE  c = a /\ d = b + 1 /\ y = x + 1
    <3>1. txns'[p] = Append(txns[p], t) /\ current'[p] = current[p]
          /\ submitted'[p] = submitted[p] + 1
      BY <2>2 DEF Submit, minerVars, CoreInv, DataTypes
    <3> QED
      BY <1>3, <3>1, AppendProperties
  <2>3. ASSUME TakeTxn(p)
        PROVE  c = 1 /\ d = n - 1 /\ y = x
    <3>1. /\ Pending(p) # <<>>
          /\ current'[p] = <<Head(Pending(p))>> /\ txns'[p] = Tail(Pending(p))
          /\ submitted'[p] = submitted[p]
      BY <2>3 DEF TakeTxn, Pending, CoreInv, DataTypes
    <3> QED
      BY <3>1, PendingType, HeadTailProperties
  <2>4. ASSUME /\ txns'[p] = current[p] \o txns[p] /\ current'[p] = <<>>
               /\ submitted'[p] = submitted[p]
        PROVE  c = 0 /\ d = n /\ y = x
    BY <2>4 DEF Pending
  <2>5. ASSUME /\ txns'[p] = txns[p] /\ current'[p] = <<>>
               /\ submitted'[p] = submitted[p]
        PROVE  c = 0 /\ d = b /\ y = x
    BY <2>5
  <2> HIDE DEF a, b, c, d, n, m, x, y
  <2> QED
    BY <2>1, <2>2, <2>3, <2>4, <2>5, QueueSteps DEF CoreInv
<1>8. ASSUME AppendsBlock(p)
      PROVE  c = 0 /\ d = b /\ y = x /\ a >= 1
  <2>1. txns'[p] = txns[p] /\ current'[p] = <<>> /\ submitted'[p] = submitted[p]
    BY <1>8, AppendOwnBlockEffect DEF CoreInv, DataTypes
  <2> QED
    BY <1>8, <2>1, OwnBlock, FirstInHand
<1>9. m \in Nat /\ y \in Nat /\ x - n <= y - m
  <2> HIDE DEF a, b, c, d, n, m, x, y
  <2> QED
    BY <1>2, <1>4, <1>5, <1>6, <1>7
<1>10. AppendsBlock(p) => x - n + 1 <= y - m
  <2> HIDE DEF a, b, c, d, n, m, x, y
  <2> QED
    BY <1>2, <1>4, <1>5, <1>6, <1>8
<1> QED
  BY <1>9, <1>10

LEMMA TakenGrows ==
  ASSUME CoreInv, [PeersMove]_vars, NEW t, TakenFor(t)
  PROVE  TakenFor(t)'
<1> DEFINE p == t.sender
           n == submitted[p] - Len(Pending(p))
           m == submitted'[p] - Len(Pending(p)')
<1>1. t \in Txn /\ p \in Peers /\ t.stamp \in Nat /\ t.stamp <= n
  BY DEF TakenFor, Txn
<1>2. n <= m
  BY <1>1, SettledGrows
<1>4. n \in Int /\ m \in Int
  <2> DEFINE x == submitted[p]
             y == submitted'[p]
             a == Len(Pending(p))
             b == Len(Pending(p)')
  <2>1. x \in Nat /\ y \in Nat /\ a \in Nat /\ b \in Nat
    BY <1>1, SettledGrows, PendingType
  <2> HIDE DEF x, y, a, b
  <2>2. x - a \in Int /\ y - b \in Int
    BY <2>1
  <2> QED
    BY <2>2 DEF x, y, a, b
<1>3. t.stamp <= m
  <2> HIDE DEF n, m
  <2> QED
    BY <1>1, <1>2, <1>4
<1> QED
  BY <1>1, <1>3 DEF TakenFor

LEMMA SettledStep ==
  ASSUME CoreInv, SettledInv, [PeersMove]_vars
  PROVE  SettledInv'
<1> SUFFICES ASSUME AllKeepChain, NEW l \in Visible', NEW i \in 1 .. Len(l)
             PROVE  TakenFor(l[i])'
  BY DEF SettledInv, AllKeepChain
<1>1. \A m \in Visible : \A j \in 1 .. Len(m) : TakenFor(m[j])
  BY DEF SettledInv
<1>2. CASE l \in Visible
  BY <1>1, <1>2, TakenGrows
<1>3. ASSUME NEW p \in Peers, AppendsBlock(p), l = Entries(chain'[p])
      PROVE  TakenFor(l[i])'
  <2> DEFINE t == Head(current[p])
             m == Entries(chain[p])
  <2>1. /\ current[p] # <<>> /\ NewBlock(p) \in Block /\ NewBlock(p).txn = t
        /\ chain'[p] = Append(chain[p], NewBlock(p))
        /\ chain[p] \in Seq(Block)
    BY <1>3, OwnBlock DEF AllKeepChain, CoreInv, DataTypes
  <2>2. l = Append(m, t)
    BY <1>3, <2>1, EntriesOfAppend
  <2>3. m \in Seq(Txn) /\ m \in Visible
    BY <2>1, EntriesType DEF Visible
  <2>4. t \in Txn /\ t.sender = p /\ t.stamp = submitted[p] - Len(Pending(p)) + 1
    BY <2>1, FirstInHand
  <2> HIDE DEF t, m
  <2>5. /\ Len(l) = Len(m) + 1 /\ Len(m) \in Nat
        /\ \A j \in 1 .. Len(m) : l[j] = m[j]
        /\ l[Len(m) + 1] = t
    BY <2>2, <2>3, <2>4, AppendProperties, LenProperties
  <2>6. CASE i \in 1 .. Len(m)
    BY <1>1, <2>3, <2>5, <2>6, TakenGrows
  <2>7. CASE i = Len(m) + 1
    <3>1. t.stamp <= submitted'[p] - Len(Pending(p)')
      BY <1>3, <2>4, SettledGrows
    <3> QED
      BY <2>4, <2>5, <2>7, <3>1 DEF TakenFor
  <2> QED
    BY <2>5, <2>6, <2>7
<1> QED
  BY <1>2, <1>3, VisibleSteps

\* Every block that is there has its transaction in a ledger that can be had.
LEMMA LiveTaken ==
  ASSUME CoreInv, SettledInv, AllKeepChain, NEW b \in LiveBlocks
  PROVE  TakenFor(b.txn)
<1>1. \A l \in Visible : \A i \in 1 .. Len(l) : TakenFor(l[i])
  BY DEF SettledInv
<1>2. ASSUME NEW c \in Seq(Block), Entries(c) \in Visible, b \in Range(c)
      PROVE  TakenFor(b.txn)
  <2>1. PICK i \in 1 .. Len(c) : b = c[i]
    BY <1>2, RangeEquality
  <2>2. i \in 1 .. Len(Entries(c)) /\ Entries(c)[i] = b.txn
    BY <2>1, EntriesType
  <2> QED
    BY <1>1, <1>2, <2>2
<1>3. ASSUME NEW p \in Peers, b \in Range(chain[p])
      PROVE  TakenFor(b.txn)
  BY <1>2, <1>3 DEF Visible, CoreInv, DataTypes
<1>4. ASSUME NEW p \in Peers, ppc[p] = "served", b \in Range(reply[p])
      PROVE  TakenFor(b.txn)
  BY <1>2, <1>4 DEF Visible, CoreInv, DataTypes
<1>5. ASSUME b \in InTransit, IsValid(b)
      PROVE  TakenFor(b.txn)
  <2>1. b \in Block
    BY <1>5, TransitTypes DEF CoreInv
  <2>2. PICK n \in Nat : n = Len(b.hash) /\ n >= 1 /\ b.hash[n] = <<b.id, b.txn>>
    <3>1. PICK k \in Nat : k = Len(b.prev_hash)
      BY <1>5, <2>1, HashOfValid
    <3>2. k + 1 = Len(b.hash) /\ b.hash[k + 1] = <<b.id, b.txn>>
      BY <1>5, <2>1, <3>1, HashOfValid
    <3>3. k + 1 \in Nat /\ k + 1 >= 1
      OBVIOUS
    <3> QED
      BY <3>2, <3>3
  <2>3. Commits(b) = [i \in 1 .. n |-> b.hash[i][2]]
    BY <2>2 DEF Commits
  <2>4. n \in 1 .. Len(Commits(b)) /\ Commits(b)[n] = b.txn
    BY <2>2, <2>3
  <2>5. Commits(b) \in Visible
    BY <1>5 DEF Visible
  <2> QED
    BY <1>1, <2>4, <2>5
<1> QED
  BY <1>3, <1>4, <1>5 DEF LiveBlocks

LEMMA OnceStep ==
  ASSUME CoreInv, SettledInv, OnceInv, [PeersMove]_vars
  PROVE  OnceInv'
<1> SUFFICES ASSUME AllKeepChain, NEW b \in LiveBlocks', NEW c \in LiveBlocks',
                    b.txn = c.txn
             PROVE  b = c
  BY DEF OnceInv, AllKeepChain
<1>1. ASSUME NEW p \in Peers, AppendsBlock(p), NEW d \in LiveBlocks
      PROVE  d.txn # NewBlock(p).txn
  <2>1. /\ NewBlock(p).txn.sender = p
        /\ NewBlock(p).txn.stamp = submitted[p] - Len(Pending(p)) + 1
    BY <1>1, OwnBlock, FirstInHand
  <2>2. TakenFor(d.txn)
    BY LiveTaken
  <2>3. submitted[p] \in Nat /\ Len(Pending(p)) \in Nat
    BY PendingType
  <2> QED
    BY <2>1, <2>2, <2>3 DEF TakenFor
<1>2. ASSUME NEW p \in Peers, AppendsBlock(p), NEW q \in Peers,
             AppendsBlock(q), NewBlock(p).txn = NewBlock(q).txn
      PROVE  p = q
  BY <1>2, OwnBlock
<1>3. b \in LiveBlocks \/ \E p \in Peers : AppendsBlock(p) /\ b = NewBlock(p)
  BY LiveSteps
<1>4. c \in LiveBlocks \/ \E p \in Peers : AppendsBlock(p) /\ c = NewBlock(p)
  BY LiveSteps
<1> QED
  BY <1>1, <1>2, <1>3, <1>4 DEF OnceInv

LEMMA HandInit == Init => HandInv
<1>1. Len(<<>>) <= 1
  OBVIOUS
<1> QED
  BY <1>1 DEF Init, HandInv

LEMMA HandStep ==
  ASSUME DataTypes, HandInv, [PeersMove]_vars
  PROVE  HandInv'
<1> SUFFICES ASSUME NEW p \in Peers
             PROVE  Len(current'[p]) <= 1
  BY DEF HandInv
<1>1. CASE current'[p] = current[p]
  BY <1>1 DEF HandInv
<1>2. CASE current'[p] = <<>>
  BY <1>2
<1>3. ASSUME NEW t \in Txn, Submit(p, t)
      PROVE  current'[p] = current[p]
  BY <1>3 DEF Submit, minerVars
<1>4. ASSUME TakeTxn(p)
      PROVE  Len(current'[p]) <= 1
  <2>1. current'[p] = <<Head(Pending(p))>>
    BY <1>4 DEF TakeTxn, Pending, DataTypes
  <2> QED
    BY <2>1
<1> QED
  BY <1>1, <1>2, <1>3, <1>4, QueueSteps

\* Settled transactions, each in one block: mined once.
LEMMA OnceMeansOnce ==
  ASSUME CoreInv, SettledInv, OnceInv
  PROVE  MinedOnce
<1> SUFFICES ASSUME AllKeepChain,
                    NEW p \in Peers, NEW q \in Peers,
                    NEW i \in 1 .. Len(chain[p])
             PROVE  /\ \A j \in 1 .. Len(chain[q]) :
                         chain[p][i].txn = chain[q][j].txn
                         => chain[p][i] = chain[q][j]
                    /\ \A j \in 1 .. Len(Pending(q)) :
                         chain[p][i].txn # Pending(q)[j]
  BY DEF MinedOnce, AllKeepChain
<1>1. ASSUME NEW r \in Peers, NEW j \in 1 .. Len(chain[r])
      PROVE  chain[r][j] \in LiveBlocks
  <2>1. chain[r] \in Seq(Block)
    BY DEF CoreInv, DataTypes
  <2>2. chain[r][j] \in Range(chain[r])
    BY <2>1, RangeEquality
  <2> QED
    BY <2>2 DEF LiveBlocks
<1>2. ASSUME NEW j \in 1 .. Len(Pending(q)), chain[p][i].txn = Pending(q)[j]
      PROVE  FALSE
  <2> DEFINE n == Len(Pending(q))
             k == submitted[q]
  <2>1. TakenFor(Pending(q)[j])
    BY <1>1, <1>2, LiveTaken
  <2>2. Pending(q)[j].sender = q /\ Pending(q)[j].stamp = k - n + j
    BY PendingType
  <2>3. n \in Nat /\ k \in Nat /\ j \in 1 .. n
    BY PendingType
  <2>4. k - n + j <= k - n
    BY <2>1, <2>2 DEF TakenFor
  <2> HIDE DEF n, k
  <2> QED
    BY <2>3, <2>4
<1> QED
  BY <1>1, <1>2 DEF OnceInv

-----------------------------------------------------------------------------
(***************************************************************************)
(* What has been sent arrives.                                             *)
(***************************************************************************)
\* What a step may do to a miner's broadcast.
LEMMA SendSteps ==
  ASSUME IInv, [PeersMove]_vars, NEW p \in Peers
  PROVE  \/ /\ outgoing'[p] = outgoing[p] /\ sendTo'[p] = sendTo[p]
            /\ mpc'[p] = "send" <=> mpc[p] = "send"
         \/ AppendsBlock(p)
         \/ \E q \in Peers : SendBlock(p, q)
<1> DEFINE Same == /\ outgoing'[p] = outgoing[p] /\ sendTo'[p] = sendTo[p]
                   /\ mpc'[p] = "send" <=> mpc[p] = "send"
           Goal == \/ Same
                   \/ AppendsBlock(p)
                   \/ \E q \in Peers : SendBlock(p, q)
<1>0. /\ mpc \in [Peers -> {"idle", "snapshot", "attempt", "commit", "send"}]
      /\ outgoing \in [Peers -> Seq(Block)]
      /\ sendTo \in [Peers -> SUBSET Peers]
  BY DEF IInv, TypeOK
<1>1. ASSUME NEW q \in Peers, Application(q)
      PROVE  Same
  BY <1>1 DEF Application, CreatePoll, Vote, Submit, minerVars, sendVars
<1>2. ASSUME NEW q \in Peers, MinerMoves(q)
      PROVE  Goal
  <2>1. ASSUME NEW r \in Peers, SendBlock(q, r), q # p
        PROVE  Same
    BY <1>0, <2>1, SendBlockEffect
  <2>2. ASSUME AppendsBlock(q), q # p
        PROVE  Same
    BY <1>0, <2>2, AppendOwnBlockEffect
  <2>3. CASE TakeTxn(q)
    BY <1>0, <2>3 DEF TakeTxn, sendVars
  <2>4. CASE SnapshotTip(q)
    BY <1>0, <2>4 DEF SnapshotTip, sendVars
  <2>5. CASE RestartMining(q)
    BY <1>0, <2>5 DEF RestartMining, sendVars
  <2>6. CASE GiveUpRound(q)
    BY <1>0, <2>6 DEF GiveUpRound, sendVars
  <2>7. CASE FindNonce(q)
    BY <1>0, <2>7 DEF FindNonce, sendVars
  <2>8. CASE RefuseBlock(q)
    BY <1>0, <2>8 DEF RefuseBlock, sendVars
  <2>9. CASE LoseRace(q)
    BY <1>0, <2>9 DEF LoseRace, sendVars
  <2> HIDE DEF Same
  <2> QED
    BY <1>2, <2>1, <2>2, <2>3, <2>4, <2>5, <2>6, <2>7, <2>8, <2>9 DEF MinerMoves
<1>3. ASSUME NEW q \in Peers, Listener(q)
      PROVE  Same
  BY <1>3 DEF Listener, AcceptBlock, ServeChain, minerVars, sendVars
<1>4. ASSUME NEW q \in Peers, Poller(q)
      PROVE  Same
  BY <1>4 DEF Poller, DiscardInvalid, AppendReceived, DiscardStale, DetectFork,
              AskForChain, FinishFork, minerVars, sendVars
<1>5. ASSUME UNCHANGED vars
      PROVE  Same
  BY <1>5 DEF vars, minerVars, sendVars
<1> HIDE DEF Same
<1>6. Goal
  BY <1>1, <1>2, <1>3, <1>4, <1>5 DEF PeersMove
<1> QED
  BY <1>6 DEF Goal, Same

\* What a step may do to a peer's connections.
LEMMA InboxSteps ==
  ASSUME DataTypes, MinerInv, [PeersMove]_vars, NEW q \in Peers
  PROVE  \/ inbox'[q] = inbox[q]
         \/ \E m \in Connection : inbox'[q] = Append(inbox[q], m)
         \/ AcceptBlock(q)
         \/ ServeChain(q)
<1> DEFINE Goal == \/ inbox'[q] = inbox[q]
                   \/ \E m \in Connection : inbox'[q] = Append(inbox[q], m)
                   \/ AcceptBlock(q)
                   \/ ServeChain(q)
<1>0. inbox \in [Peers -> Seq(Connection)] /\ asked \in [Peers -> Peers]
  BY DEF DataTypes
<1>1. CASE inbox' = inbox
  BY <1>1
<1>2. ASSUME NEW p \in Peers, NEW r \in Peers, SendBlock(p, r)
      PROVE  Goal
  <2> DEFINE m == BlockMsg(p, Head(outgoing[p]))
  <2>1. inbox' = [inbox EXCEPT ![r] = Append(@, m)] /\ mpc[p] = "send"
    BY <1>2, SendBlockEffect
  <2>2. Head(outgoing[p]) \in Block
    BY <2>1, HeadTailProperties DEF MinerInv, DataTypes
  <2>3. m \in Connection
    BY <2>2 DEF BlockMsg, Connection
  <2> HIDE DEF m
  <2> QED
    BY <1>0, <2>1, <2>3
<1>3. ASSUME NEW p \in Peers, AskForChain(p)
      PROVE  Goal
  <2> DEFINE m == GetChainMsg(p)
  <2>1. inbox' = [inbox EXCEPT ![asked[p]] = Append(@, m)]
    BY <1>3 DEF AskForChain
  <2>2. m \in Connection
    BY EmptySeq DEF GetChainMsg, Connection
  <2> HIDE DEF m
  <2> QED
    BY <1>0, <2>1, <2>2
<1>4. ASSUME NEW p \in Peers, Listener(p)
      PROVE  Goal
  BY <1>0, <1>4 DEF Listener, AcceptBlock, ServeChain
<1>5. ASSUME NEW p \in Peers, DetectFork(p) \/ FinishFork(p)
      PROVE  Goal
  BY <1>5 DEF DetectFork, FinishFork
<1> HIDE DEF Goal
<1>6. Goal
  BY <1>1, <1>2, <1>3, <1>4, <1>5, RequestSteps DEF Goal
<1> QED
  BY <1>6 DEF Goal

Decides(q) == \/ DiscardInvalid(q) \/ AppendReceived(q)
              \/ DiscardStale(q) \/ DetectFork(q)

\* What a step may do to a peer's buffer.
LEMMA RcvSteps ==
  ASSUME DataTypes, [PeersMove]_vars, NEW q \in Peers
  PROVE  \/ rcv'[q] = rcv[q]
         \/ AcceptBlock(q)
         \/ Decides(q) /\ rcv[q] # <<>> /\ rcv'[q] = Tail(rcv[q])
<1> DEFINE Goal == \/ rcv'[q] = rcv[q]
                   \/ AcceptBlock(q)
                   \/ Decides(q) /\ rcv[q] # <<>> /\ rcv'[q] = Tail(rcv[q])
<1>0. rcv \in [Peers -> Seq(Block)]
  BY DEF DataTypes
<1>1. CASE rcv' = rcv
  BY <1>1
<1>2. ASSUME NEW p \in Peers, Application(p)
      PROVE  Goal
  BY <1>2 DEF Application, CreatePoll, Vote, Submit
<1>3. ASSUME NEW p \in Peers, MinerMoves(p)
      PROVE  Goal
  <2>1. rcv' = rcv
    BY <1>3, SendBlockEffect, AppendOwnBlockEffect
    DEF MinerMoves, TakeTxn, SnapshotTip, RestartMining, GiveUpRound, FindNonce,
        RefuseBlock, LoseRace
  <2> QED
    BY <2>1
<1>4. ASSUME NEW p \in Peers, Listener(p)
      PROVE  Goal
  BY <1>0, <1>4 DEF Listener, AcceptBlock, ServeChain
<1>5. ASSUME NEW p \in Peers, Poller(p)
      PROVE  Goal
  BY <1>0, <1>5 DEF Poller, DiscardInvalid, AppendReceived, DiscardStale,
                    DetectFork, AskForChain, FinishFork, Polling, Popped, Decides
<1>6. ASSUME UNCHANGED vars
      PROVE  Goal
  BY <1>6 DEF vars
<1> HIDE DEF Goal
<1>7. Goal
  BY <1>1, <1>2, <1>3, <1>4, <1>5, <1>6 DEF PeersMove
<1> QED
  BY <1>7 DEF Goal

LEMMA ExchangeInit == Init => ExchangeInv
BY DEF Init, ExchangeInv

LEMMA ExchangeStep ==
  ASSUME IInv, ExchangeInv, [PeersMove]_vars
  PROVE  ExchangeInv'
<1> SUFFICES ASSUME NEW p \in Peers
             PROVE  /\ mpc'[p] # "send" => sendTo'[p] = {}
                    /\ ppc'[p] = "served" =>
                         Len(reply'[p]) <= Len(chain'[asked'[p]])
  BY DEF ExchangeInv
<1>1. ASSUME mpc'[p] # "send"
      PROVE  sendTo'[p] = {}
  <2>1. CASE /\ sendTo'[p] = sendTo[p]
             /\ mpc'[p] = "send" <=> mpc[p] = "send"
    BY <1>1, <2>1 DEF ExchangeInv
  <2>2. CASE AppendsBlock(p)
    <3>1. mpc[p] = "commit" /\ (mpc'[p] = "send" \/ sendTo'[p] = sendTo[p])
      BY <2>2, AppendOwnBlockEffect DEF IInv, TypeOK
    <3> QED
      BY <1>1, <3>1 DEF ExchangeInv
  <2>3. ASSUME NEW q \in Peers, SendBlock(p, q)
        PROVE  sendTo'[p] = {}
    <3>1. /\ mpc[p] = "send" /\ sendTo'[p] = sendTo[p] \ {q}
          /\ sendTo[p] = {q} \/ mpc' = mpc
      BY <2>3 DEF SendBlock, IInv, TypeOK
    <3> QED
      BY <1>1, <3>1
  <2> QED
    BY <2>1, <2>2, <2>3, SendSteps
<1>2. ASSUME ppc'[p] = "served"
      PROVE  Len(reply'[p]) <= Len(chain'[asked'[p]])
  <2>1. /\ asked'[p] = asked[p]
        /\ \/ ppc[p] = "served" /\ reply'[p] = reply[p]
           \/ reply'[p] = chain[asked[p]]
    BY <1>2, PollerSteps, DataTyped DEF IInv, DetectFork, TypeOK
  <2>2. asked[p] \in Peers
    BY DEF IInv, TypeOK
  <2>3. IInv'
    BY InvariantStep
  <2> DEFINE q == asked[p]
             n == Len(chain[q])
             m == Len(chain'[q])
             k == Len(reply'[p])
  <2>4. n \in Nat /\ m \in Nat /\ k \in Nat
    BY <2>2, <2>3, LenProperties DEF IInv, TypeOK
  <2>5. chain'[q] = chain[q] \/ m > n
    BY <2>2, ChainsGrow, DataTyped DEF IInv
  <2>6. k <= n
    BY <2>1, <2>4 DEF ExchangeInv
  <2>7. n <= m
    BY <2>4, <2>5
  <2> HIDE DEF n, m, k
  <2>8. k <= m
    BY <2>4, <2>6, <2>7
  <2> QED
    BY <2>1, <2>8 DEF k, m
<1> QED
  BY <1>1, <1>2

-----------------------------------------------------------------------------
(***************************************************************************)
(* A peer with a shorter chain will hear of a longer one.                  *)
(***************************************************************************)
LEMMA OnTheWayTransit ==
  ASSUME IInv, ExchangeInv, NEW q \in Peers, NEW b \in OnTheWay(q)
  PROVE  b \in InTransit /\ b \in Block
<1>1. b \in InTransit
  <2>1. ASSUME NEW p \in Peers, q \in sendTo[p]
        PROVE  Head(outgoing[p]) \in InTransit
    <3>1. mpc[p] = "send"
      BY <2>1 DEF ExchangeInv
    <3>2. outgoing[p] \in Seq(Block) /\ outgoing[p] # <<>>
      BY <3>1 DEF IInv, MinerInv, TypeOK
    <3>3. Head(outgoing[p]) \in Range(outgoing[p])
      BY <3>2, RangeHeadTail
    <3> QED
      BY <3>3 DEF InTransit
  <2> QED
    BY <2>1 DEF OnTheWay, Undecided, InTransit
<1> QED
  BY <1>1, TransitTypes, CoreOf DEF CoreInv

LEMMA SendBlockArrives ==
  ASSUME IInv, ExchangeInv, NEW p \in Peers, NEW r \in Peers, SendBlock(p, r),
         NEW q \in Peers, q \in sendTo[p]
  PROVE  Head(outgoing[p]) \in OnTheWay(q)'
<1> DEFINE b == Head(outgoing[p])
           m == BlockMsg(p, b)
<1>1. /\ mpc[p] = "send" /\ r \in sendTo[p]
      /\ inbox' = [inbox EXCEPT ![r] = Append(@, m)]
      /\ sendTo' = [sendTo EXCEPT ![p] = @ \ {r}]
      /\ sendTo[p] # {r} => outgoing' = outgoing
  BY DEF SendBlock
<1>2. CASE q # r
  <2>1. q \in sendTo'[p] /\ outgoing'[p] = outgoing[p]
    BY <1>1, <1>2 DEF IInv, TypeOK
  <2> QED
    BY <2>1 DEF OnTheWay
<1>3. CASE q = r
  <2>1. b \in Block
    BY <1>1, HeadTailProperties DEF IInv, MinerInv, TypeOK
  <2>2. m \in Connection /\ m.type = "BLOCK" /\ m.payload = <<b>>
    BY <2>1 DEF BlockMsg, Connection
  <2> HIDE DEF b, m
  <2>3. inbox'[q] = Append(inbox[q], m) /\ inbox[q] \in Seq(Connection)
    BY <1>1, <1>3 DEF IInv, TypeOK
  <2>4. Range(inbox'[q]) = Range(inbox[q]) \cup {m}
    BY <2>2, <2>3, RangeAppend
  <2>5. b \in Range(m.payload)
    BY <2>2 DEF Range
  <2>6. b \in OnTheWay(q)'
    BY <2>2, <2>4, <2>5 DEF OnTheWay, Undecided
  <2> QED
    BY <2>6 DEF b
<1> QED
  BY <1>2, <1>3

\* A block leaves a peer's inbox and buffer only when it is decided on.
LEMMA UndecidedSteps ==
  ASSUME DataTypes, MinerInv, [PeersMove]_vars, NEW q \in Peers, NEW b \in Undecided(q)
  PROVE  \/ b \in Undecided(q)'
         \/ Decides(q) /\ rcv[q] # <<>> /\ b = Head(rcv[q])
<1> DEFINE Goal == \/ b \in Undecided(q)'
                   \/ Decides(q) /\ rcv[q] # <<>> /\ b = Head(rcv[q])
<1>1. ASSUME NEW m \in Range(inbox[q]), m.type = "BLOCK", b \in Range(m.payload)
      PROVE  Goal
  <2>0. inbox[q] \in Seq(Connection) /\ rcv[q] \in Seq(Block)
    BY DEF DataTypes
  <2>1. CASE m \in Range(inbox'[q])
    BY <1>1, <2>1 DEF Undecided
  <2>2. ASSUME NEW n \in Connection, inbox'[q] = Append(inbox[q], n)
        PROVE  m \in Range(inbox'[q])
    BY <1>1, <2>0, <2>2, RangeAppend
  <2>3. ASSUME AcceptBlock(q)
        PROVE  m \in Range(inbox'[q]) \/ b \in Range(rcv'[q])
    <3>1. /\ inbox[q] # <<>> /\ inbox'[q] = Tail(inbox[q])
          /\ rcv'[q] = rcv[q] \o Head(inbox[q]).payload
      BY <2>3 DEF AcceptBlock, DataTypes
    <3>2. m = Head(inbox[q]) \/ m \in Range(Tail(inbox[q]))
      BY <1>1, <2>0, <3>1, RangeHeadTail
    <3>3. CASE m = Head(inbox[q])
      <4>1. m \in Connection
        BY <1>1, <2>0, RangeWithin
      <4>2. m.payload \in Seq(Block)
        BY <4>1 DEF Connection
      <4>3. Range(rcv[q] \o m.payload) = Range(rcv[q]) \cup Range(m.payload)
        BY <2>0, <4>2, RangeConcatenation
      <4> QED
        BY <1>1, <3>1, <3>3, <4>3
    <3> QED
      BY <3>1, <3>2, <3>3
  <2>4. ASSUME ServeChain(q)
        PROVE  m \in Range(inbox'[q])
    <3>1. /\ inbox[q] # <<>> /\ inbox'[q] = Tail(inbox[q])
          /\ Head(inbox[q]).type = "GET-CHAIN"
      BY <2>4 DEF ServeChain, DataTypes
    <3> QED
      BY <1>1, <2>0, <3>1, RangeHeadTail
  <2>5. b \in Range(rcv'[q]) => Goal
    BY DEF Undecided
  <2> HIDE DEF Goal
  <2> QED
    BY <1>1, <2>1, <2>2, <2>3, <2>4, <2>5, InboxSteps
<1>2. ASSUME b \in Range(rcv[q])
      PROVE  Goal
  <2>0. rcv[q] \in Seq(Block) /\ inbox[q] \in Seq(Connection)
    BY DEF DataTypes
  <2>1. CASE b \in Range(rcv'[q])
    BY <2>1 DEF Undecided
  <2>2. ASSUME AcceptBlock(q)
        PROVE  b \in Range(rcv'[q])
    <3>1. inbox[q] # <<>> /\ rcv'[q] = rcv[q] \o Head(inbox[q]).payload
      BY <2>2 DEF AcceptBlock, DataTypes
    <3>2. Head(inbox[q]) \in Connection
      BY <2>0, <3>1, HeadTailProperties
    <3>3. Head(inbox[q]).payload \in Seq(Block)
      BY <3>2 DEF Connection
    <3>4. Range(rcv[q] \o Head(inbox[q]).payload)
          = Range(rcv[q]) \cup Range(Head(inbox[q]).payload)
      BY <2>0, <3>3, RangeConcatenation
    <3> QED
      BY <1>2, <3>1, <3>4
  <2>3. CASE Decides(q) /\ rcv[q] # <<>> /\ rcv'[q] = Tail(rcv[q])
    <3>1. b = Head(rcv[q]) \/ b \in Range(rcv'[q])
      BY <1>2, <2>0, <2>3, RangeHeadTail
    <3> QED
      BY <2>1, <2>3, <3>1
  <2> HIDE DEF Goal
  <2> QED
    BY <1>2, <2>1, <2>2, <2>3, RcvSteps
<1> QED
  BY <1>1, <1>2 DEF Undecided

\* A block on its way stays there until the polling thread decides on it.
LEMMA OnTheWaySteps ==
  ASSUME IInv, ExchangeInv, [PeersMove]_vars, NEW q \in Peers, NEW b \in OnTheWay(q)
  PROVE  \/ b \in OnTheWay(q)'
         \/ Decides(q) /\ rcv[q] # <<>> /\ b = Head(rcv[q])
<1> DEFINE Goal == \/ b \in OnTheWay(q)'
                   \/ Decides(q) /\ rcv[q] # <<>> /\ b = Head(rcv[q])
<1>1. ASSUME NEW p \in Peers, q \in sendTo[p], b = Head(outgoing[p])
      PROVE  Goal
  <2>1. CASE outgoing'[p] = outgoing[p] /\ sendTo'[p] = sendTo[p]
    BY <1>1, <2>1 DEF OnTheWay
  <2>2. ~AppendsBlock(p)
    BY <1>1, AppendOwnBlockEffect DEF ExchangeInv
  <2>3. ASSUME NEW r \in Peers, SendBlock(p, r)
        PROVE  b \in OnTheWay(q)'
    BY <1>1, <2>3, SendBlockArrives
  <2> QED
    BY <2>1, <2>2, <2>3, SendSteps
<1>2. ASSUME b \in Undecided(q)
      PROVE  Goal
  BY <1>2, DataTyped, UndecidedSteps DEF IInv, OnTheWay
<1> QED
  BY <1>1, <1>2 DEF OnTheWay

\* A peer goes on waiting until it is served, and then resolves the fork.
LEMMA PollerKeeps ==
  ASSUME IInv, [PeersMove]_vars, NEW p \in Peers, ppc[p] # "idle"
  PROVE  \/ FinishFork(p) /\ ppc[p] = "served"
         \/ /\ ppc'[p] # "idle" /\ asked'[p] = asked[p]
            /\ ppc[p] = "served" => ppc'[p] = "served"
            /\ ppc'[p] = "served" => \/ ppc[p] = "served" /\ reply'[p] = reply[p]
                                     \/ reply'[p] = chain[asked[p]]
<1>0. ppc \in [Peers -> {"idle", "asking", "waiting", "served"}]
  BY DEF IInv, TypeOK
<1>1. \/ FinishFork(p)
      \/ ppc'[p] # "idle" /\ (ppc[p] = "served" => ppc'[p] = "served")
  <2> DEFINE Kept == ppc'[p] # "idle" /\ (ppc[p] = "served" => ppc'[p] = "served")
  <2>1. ppc' = ppc => Kept
    OBVIOUS
  <2>2. ASSUME NEW q \in Peers, NEW r \in Peers, SendBlock(q, r)
        PROVE  ppc' = ppc
    BY <2>2, SendBlockEffect
  <2>3. ASSUME NEW q \in Peers, AcceptBlock(q)
        PROVE  ppc' = ppc
    BY <2>3 DEF AcceptBlock, pollerVars
  <2>4. ASSUME NEW q \in Peers, ServeChain(q)
        PROVE  Kept
    <3>1. /\ Head(inbox[q]).from \in Peers
          /\ ppc[Head(inbox[q]).from] = "waiting"
          /\ ppc' = [ppc EXCEPT ![Head(inbox[q]).from] = "served"]
      BY <2>4, HeadRequest, DataTyped DEF IInv, ServeChain
    <3> QED
      BY <1>0, <3>1
  <2>5. ASSUME NEW q \in Peers, DetectFork(q)
        PROVE  Kept
    BY <1>0, <2>5 DEF DetectFork, Polling
  <2>6. ASSUME NEW q \in Peers, AskForChain(q)
        PROVE  Kept
    BY <1>0, <2>6 DEF AskForChain
  <2>7. ASSUME NEW q \in Peers, FinishFork(q)
        PROVE  Kept \/ q = p
    BY <1>0, <2>7 DEF FinishFork
  <2> HIDE DEF Kept
  <2>8. FinishFork(p) \/ Kept
    BY <2>1, <2>2, <2>3, <2>4, <2>5, <2>6, <2>7, RequestSteps DEF Listener
  <2> QED
    BY <2>8 DEF Kept
<1>2. FinishFork(p) => ppc[p] = "served"
  BY DEF FinishFork
<1>3. \/ ppc'[p] = "idle"
      \/ DetectFork(p)
      \/ /\ asked'[p] = asked[p]
         /\ ppc'[p] = "served" => \/ ppc[p] = "served" /\ reply'[p] = reply[p]
                                  \/ reply'[p] = chain[asked[p]]
  BY PollerSteps, DataTyped DEF IInv
<1>4. ~DetectFork(p)
  BY DEF DetectFork, Polling
<1> QED
  BY <1>1, <1>2, <1>3, <1>4

\* Deciding on a block that is high enough makes the peer as long, or has it
\* ask the block's miner.
LEMMA DecidedWell ==
  ASSUME IInv, NEW q \in Peers, NEW h \in Nat, Decides(q), rcv[q] # <<>>,
         IsValid(Head(rcv[q])), Head(rcv[q]).id + 1 >= h
  PROVE  \/ Len(chain'[q]) >= h
         \/ ppc'[q] = "asking" /\ Len(chain'[asked'[q]]) >= h
<1> DEFINE b == Head(rcv[q])
           n == Len(chain[q])
<1>1. b \in Block /\ chain[q] \in Seq(Block) /\ n \in Nat /\ b.id \in Nat
      /\ b.txn.sender \in Peers
  BY HeadUnderWay, LenProperties, CoreOf DEF IInv, TypeOK, Block, Txn
<1>2. ~DiscardInvalid(q)
  BY DEF DiscardInvalid
<1>3. ASSUME AppendReceived(q)
      PROVE  Len(chain'[q]) >= h
  <2>1. b.id = n /\ chain'[q] = Append(chain[q], b)
    BY <1>3, AppendReceivedEffect, CoreOf
  <2>2. Len(chain'[q]) = b.id + 1
    BY <1>1, <2>1, AppendProperties
  <2> QED
    BY <2>2
<1>4. ASSUME DiscardStale(q)
      PROVE  Len(chain'[q]) >= h
  <2>1. ~(b.id >= n) /\ chain' = chain
    BY <1>4 DEF DiscardStale, IsAhead
  <2>2. b.id + 1 >= h
    OBVIOUS
  <2> HIDE DEF b, n
  <2>3. n >= h
    BY <1>1, <2>1, <2>2
  <2> QED
    BY <2>1, <2>3 DEF n
<1>5. ASSUME DetectFork(q)
      PROVE  ppc'[q] = "asking" /\ Len(chain'[asked'[q]]) >= h
  <2>1. /\ ppc'[q] = "asking" /\ asked'[q] = b.txn.sender /\ chain' = chain
    BY <1>5 DEF DetectFork, IInv, TypeOK
  <2>2. rcv[q] \in Seq(MinedBlocks)
    BY DEF IInv, MinedInv, Traffic
  <2>3. b \in MinedBlocks
    BY <2>2, HeadTailProperties
  <2>4. b.id < Len(chain[b.txn.sender])
    BY <2>3 DEF MinedBlocks
  <2>5. PICK k \in Nat : k = Len(chain[b.txn.sender])
    BY <1>1, LenProperties DEF IInv, TypeOK
  <2>6. b.id + 1 >= h /\ b.id < k
    BY <2>4, <2>5
  <2> HIDE DEF b
  <2>7. k >= h
    BY <1>1, <2>6
  <2> QED
    BY <2>1, <2>5, <2>7
<1> QED
  BY <1>2, <1>3, <1>4, <1>5 DEF Decides

LEMMA HearsOn ==
  ASSUME IInv, ExchangeInv, BroadcastsKept, \A b \in InTransit : IsValid(b),
         [PeersMove]_vars, NEW q \in Peers, NEW h \in Nat, WillHear(q, h),
         ~(Len(chain'[q]) >= h)
  PROVE  WillHear(q, h)'
<1>1. IInv'
  BY InvariantStep
<1>2. ASSUME NEW r \in Peers
      PROVE  /\ Len(chain[r]) \in Nat /\ Len(chain'[r]) \in Nat
             /\ Len(chain[r]) <= Len(chain'[r])
  <2>1. Len(chain[r]) \in Nat /\ Len(chain'[r]) \in Nat
    BY <1>1, LenProperties DEF IInv, TypeOK
  <2>2. chain'[r] = chain[r] \/ Len(chain'[r]) > Len(chain[r])
    BY ChainsGrow, DataTyped DEF IInv
  <2> QED
    BY <2>1, <2>2
<1>3. ASSUME NEW b \in OnTheWay(q), b.id + 1 >= h
      PROVE  WillHear(q, h)'
  <2>1. IsValid(b)
    BY OnTheWayTransit
  <2>2. CASE b \in OnTheWay(q)'
    BY <1>3, <2>2 DEF WillHear
  <2>3. CASE Decides(q) /\ rcv[q] # <<>> /\ b = Head(rcv[q])
    BY <1>3, <2>1, <2>3, DecidedWell DEF WillHear
  <2> QED
    BY <2>2, <2>3, OnTheWaySteps
<1>4. ASSUME ppc[q] # "idle", Len(chain[asked[q]]) >= h,
             ppc[q] = "served" => Len(reply[q]) >= h
      PROVE  WillHear(q, h)'
  <2>0. asked[q] \in Peers
    BY DEF IInv, TypeOK
  <2>1. ASSUME FinishFork(q), ppc[q] = "served"
        PROVE  Len(chain'[q]) >= h
    <3>1. KeepsChain(asked[q])
      BY <2>0 DEF BroadcastsKept, KeepsChain
    <3>2. WellFormed(reply[q]) /\ Len(reply[q]) > Len(chain[q])
      BY <2>1, <3>1 DEF IInv, ReplyInv, ServedInv
    <3>3. Adoptable(chain[q], reply[q])
      BY <3>2, WellFormedReplays DEF Adoptable, IInv, TypeOK
    <3>4. chain'[q] = reply[q]
      BY <2>1, <3>3 DEF FinishFork, IInv, TypeOK
    <3> QED
      BY <1>4, <2>1, <3>4
  <2>2. Len(chain'[asked[q]]) >= h
    <3> DEFINE n == Len(chain[asked[q]])
               m == Len(chain'[asked[q]])
    <3>1. n \in Nat /\ m \in Nat /\ n <= m /\ n >= h
      BY <1>2, <1>4, <2>0
    <3> HIDE DEF n, m
    <3>2. m >= h
      BY <3>1
    <3> QED
      BY <3>2 DEF m
  <2>3. ASSUME ppc'[q] # "idle", asked'[q] = asked[q],
               ppc'[q] = "served" => \/ ppc[q] = "served" /\ reply'[q] = reply[q]
                                     \/ reply'[q] = chain[asked[q]]
        PROVE  WillHear(q, h)'
    <3>1. ppc'[q] \in {"idle", "asking", "waiting", "served"}
      BY <1>1 DEF IInv, TypeOK
    <3>2. ppc'[q] = "served" => Len(reply'[q]) >= h
      BY <1>4, <2>3
    <3>3. Len(chain'[asked'[q]]) >= h
      BY <2>2, <2>3
    <3> QED
      BY <2>3, <3>1, <3>2, <3>3 DEF WillHear
  <2> QED
    BY <1>4, <2>1, <2>3, PollerKeeps
<1>5. CASE ppc[q] = "served" /\ Len(reply[q]) >= h
  <2> DEFINE n == Len(chain[asked[q]])
             k == Len(reply[q])
  <2>1. n \in Nat /\ k \in Nat
    BY <1>2, LenProperties DEF IInv, TypeOK
  <2>2. k <= n /\ k >= h
    BY <1>5 DEF ExchangeInv
  <2>3. n >= h
    <3> HIDE DEF n, k
    <3> QED
      BY <2>1, <2>2
  <2> QED
    BY <1>4, <1>5, <2>3
<1>6. CASE ppc[q] \in {"asking", "waiting"} /\ Len(chain[asked[q]]) >= h
  BY <1>4, <1>6
<1> QED
  BY <1>3, <1>5, <1>6 DEF WillHear

\* Where every block is broadcast as it is, so is this one.
LEMMA BroadcastBlock ==
  ASSUME IInv, BroadcastsKept, NEW p \in Peers, AppendOwnBlock(p)
  PROVE  /\ Outgoing(p) = NewBlock(p) /\ IsValid(Outgoing(p))
         /\ Len(chain'[p]) = Len(chain[p]) + 1
         /\ \A q \in Peers \ {p} : \A h \in Nat :
              h = Len(chain[p]) + 1 => WillHear(q, h)'
<1>0. AppendsBlock(p)
  BY OwnBlockAppended
<1>1. KeepsChain(p) /\ ~Tampers(p) /\ Broadcasts(p)
  BY DEF BroadcastsKept, KeepsChain, Tampers, Broadcasts
<1>2. /\ NewBlock(p) \in Block /\ IsValid(NewBlock(p))
      /\ NewBlock(p).id = Len(chain[p])
      /\ Extended(p) = Append(chain[p], NewBlock(p))
      /\ chain'[p] = Append(chain[p], NewBlock(p))
      /\ chain[p] \in Seq(Block)
  BY <1>0, <1>1, OwnBlock, CoreOf DEF IInv, TypeOK
<1>3. Outgoing(p) = NewBlock(p)
  <2>1. Latest(Extended(p)) = NewBlock(p)
    BY <1>2, AppendProperties DEF Latest
  <2> QED
    BY <1>1, <2>1 DEF Outgoing
<1>4. ASSUME NEW q \in Peers \ {p}, NEW h \in Nat, h = Len(chain[p]) + 1
      PROVE  WillHear(q, h)'
  <2>1. /\ outgoing' = [outgoing EXCEPT ![p] = <<Outgoing(p)>>]
        /\ sendTo' = [sendTo EXCEPT ![p] = Others(p)]
    BY <1>1 DEF AppendOwnBlock, AppendBlock, Others
  <2>2. q \in sendTo'[p] /\ Head(outgoing'[p]) = NewBlock(p)
    BY <1>3, <2>1 DEF Others, IInv, TypeOK
  <2>3. NewBlock(p) \in OnTheWay(q)'
    BY <2>2 DEF OnTheWay
  <2>4. NewBlock(p).id + 1 >= h
    BY <1>2, <1>4
  <2> QED
    BY <2>3, <2>4 DEF WillHear
<1>5. Len(chain'[p]) = Len(chain[p]) + 1
  BY <1>2, AppendProperties
<1> QED
  BY <1>2, <1>3, <1>4, <1>5

\* Peers that stay append no block without sending it.
LEMMA MinedIsSent ==
  ASSUME CoreInv, BroadcastsKept, [Next]_vars, NEW p \in Peers, AppendsBlock(p)
  PROVE  AppendOwnBlock(p)
<1>1. \/ chain' = chain
      \/ \E q \in Peers : AppendOwnBlock(q) \/ AppendReceived(q) \/ FinishFork(q)
  <2>1. ASSUME NEW q \in Peers, Miner(q)
        PROVE  chain' = chain \/ AppendOwnBlock(q)
    BY <2>1, SendBlockEffect
    DEF Miner, TakeTxn, SnapshotTip, RestartMining, GiveUpRound, FindNonce,
        RefuseBlock, LoseRace
  <2>2. ASSUME NEW q \in Peers, Application(q) \/ Listener(q)
        PROVE  chain' = chain
    BY <2>2 DEF Application, CreatePoll, Vote, Submit, Listener, AcceptBlock,
                ServeChain
  <2>3. ASSUME NEW q \in Peers, Poller(q)
        PROVE  chain' = chain \/ AppendReceived(q) \/ FinishFork(q)
    BY <2>3 DEF Poller, DiscardInvalid, DiscardStale, DetectFork, AskForChain
  <2> QED
    BY <2>1, <2>2, <2>3 DEF Next, vars
<1>2. chain'[p] # chain[p]
  <2>1. KeepsChain(p)
    BY DEF BroadcastsKept, KeepsChain
  <2>2. /\ chain'[p] = Append(chain[p], NewBlock(p)) /\ NewBlock(p) \in Block
        /\ chain[p] \in Seq(Block)
    BY <2>1, OwnBlock DEF CoreInv, DataTypes
  <2>3. Len(chain[p]) \in Nat /\ Len(chain'[p]) = Len(chain[p]) + 1
    BY <2>2, AppendProperties, LenProperties
  <2> QED
    BY <2>3
<1>3. current'[p] # current[p]
  <2>1. current[p] # <<>>
    BY OwnBlock
  <2>2. current' = [current EXCEPT ![p] = <<>>]
    BY AppendOwnBlockEffect
  <2> QED
    BY <2>1, <2>2 DEF CoreInv, DataTypes
<1>4. ASSUME NEW q \in Peers, AppendReceived(q) \/ FinishFork(q)
      PROVE  FALSE
  BY <1>3, <1>4 DEF AppendReceived, FinishFork, minerVars
<1>5. ASSUME NEW q \in Peers, AppendOwnBlock(q), q # p
      PROVE  FALSE
  BY <1>2, <1>5, OwnBlockAppended, OwnBlock
<1> QED
  BY <1>1, <1>2, <1>4, <1>5

\* But for the miner's append, no chain becomes longer than all others were.
LEMMA NoNewHeight ==
  ASSUME IInv, ExchangeInv, [PeersMove]_vars, NEW p \in Peers, ~AppendsBlock(p)
  PROVE  \E s \in Peers : Len(chain[s]) >= Len(chain'[p])
<1>0. \A s \in Peers : chain[s] \in Seq(Block) /\ Len(chain[s]) \in Nat
  BY LenProperties DEF IInv, TypeOK
<1>1. CASE chain'[p] = chain[p]
  BY <1>0, <1>1
<1>2. ASSUME AppendReceived(p)
      PROVE  \E s \in Peers : Len(chain[s]) >= Len(chain'[p])
  <2> DEFINE b == Head(rcv[p])
             n == Len(chain[p])
  <2>1. /\ b \in Block /\ b.id = n /\ rcv[p] # <<>>
        /\ chain'[p] = Append(chain[p], b)
    BY <1>2, AppendReceivedEffect, CoreOf
  <2>2. rcv[p] \in Seq(MinedBlocks)
    BY DEF IInv, MinedInv, Traffic
  <2>3. b \in MinedBlocks
    BY <2>1, <2>2, HeadTailProperties
  <2>4. PICK s \in Peers : n < Len(chain[s])
    BY <2>1, <2>3 DEF MinedBlocks, Block, Txn
  <2>5. Len(chain'[p]) = n + 1
    BY <1>0, <2>1, AppendProperties
  <2>6. PICK k \in Nat : k = Len(chain[s])
    BY <1>0
  <2>7. n < k /\ n \in Nat
    BY <1>0, <2>4, <2>6
  <2> HIDE DEF n
  <2>8. k >= n + 1
    BY <2>7
  <2> QED
    BY <2>5, <2>6, <2>8
<1>3. ASSUME FinishFork(p)
      PROVE  \E s \in Peers : Len(chain[s]) >= Len(chain'[p])
  <2>1. ppc[p] = "served" /\ (chain'[p] = chain[p] \/ chain'[p] = reply[p])
    BY <1>3, FinishForkEffect, CoreOf
  <2>2. asked[p] \in Peers /\ Len(reply[p]) \in Nat
    BY LenProperties DEF IInv, TypeOK
  <2>3. Len(reply[p]) <= Len(chain[asked[p]])
    BY <2>1 DEF ExchangeInv
  <2>4. Len(chain[asked[p]]) >= Len(reply[p])
    BY <1>0, <2>2, <2>3
  <2> QED
    BY <1>1, <2>1, <2>2, <2>4
<1>4. ASSUME NEW q \in Peers, q # p,
             AppendsBlock(q) \/ AppendReceived(q) \/ FinishFork(q)
      PROVE  chain'[p] = chain[p]
  BY <1>4, OwnBlock, AppendReceivedEffect, FinishForkEffect, CoreOf
<1> QED
  BY <1>1, <1>2, <1>3, <1>4, ChainSteps

LEMMA HearsOfLess ==
  ASSUME IInv, ExchangeInv, NEW q \in Peers, NEW k \in Nat, WillHear(q, k),
         NEW h \in Nat, k >= h
  PROVE  WillHear(q, h)
<1>1. ASSUME NEW n \in Nat, n >= k
      PROVE  n >= h
  BY <1>1
<1>2. ASSUME NEW b \in OnTheWay(q), b.id + 1 >= k
      PROVE  WillHear(q, h)
  <2>1. b \in Block
    BY OnTheWayTransit
  <2>2. b.id + 1 >= h
    BY <1>1, <1>2, <2>1 DEF Block
  <2> QED
    BY <2>2 DEF WillHear
<1>3. Len(reply[q]) \in Nat /\ Len(chain[asked[q]]) \in Nat
  BY LenProperties DEF IInv, TypeOK
<1>4. CASE ppc[q] = "served" /\ Len(reply[q]) >= k
  BY <1>1, <1>3, <1>4 DEF WillHear
<1>5. CASE ppc[q] \in {"asking", "waiting"} /\ Len(chain[asked[q]]) >= k
  BY <1>1, <1>3, <1>5 DEF WillHear
<1> QED
  BY <1>2, <1>4, <1>5 DEF WillHear

LEMMA NewsInit == Init => NewsInv
<1> SUFFICES ASSUME Init
             PROVE  NewsInv
  OBVIOUS
<1>1. InTransit = {}
  <2>1. \A p \in Peers : outgoing[p] = <<>> /\ rcv[p] = <<>> /\ inbox[p] = <<>>
    BY DEF Init
  <2>2. Range(<<>>) = {}
    BY DEF Range
  <2> QED
    BY <2>1, <2>2 DEF InTransit
<1>2. \A p, q \in Peers : ~(Len(chain[q]) < Len(chain[p]))
  BY DEF Init
<1> QED
  BY <1>1, <1>2 DEF NewsInv

LEMMA NewsStep ==
  ASSUME IInv, ExchangeInv, NewsInv, [Next]_vars
  PROVE  NewsInv'
<1> SUFFICES ASSUME BroadcastsKept
             PROVE  /\ \A b \in InTransit' : IsValid(b)
                    /\ \A p, q \in Peers : Len(chain'[q]) < Len(chain'[p])
                                           => WillHear(q, Len(chain[p]))'
  BY DEF NewsInv, BroadcastsKept
<1>0. [PeersMove]_vars
  BY NextMoves
<1>1. /\ \A b \in InTransit : IsValid(b)
      /\ \A p, q \in Peers :
           Len(chain[q]) < Len(chain[p]) => WillHear(q, Len(chain[p]))
  BY DEF NewsInv
<1>2. ASSUME NEW b \in InTransit'
      PROVE  IsValid(b)
  <2>1. CASE b \in InTransit
    BY <1>1, <2>1
  <2>2. ASSUME NEW p \in Peers, AppendsBlock(p), b = Outgoing(p)
        PROVE  IsValid(b)
    BY <2>2, MinedIsSent, BroadcastBlock, CoreOf
  <2> QED
    BY <1>0, <2>1, <2>2, TransitSteps, CoreOf
<1>3. ASSUME NEW p \in Peers, NEW q \in Peers, Len(chain'[q]) < Len(chain'[p])
      PROVE  WillHear(q, Len(chain[p]))'
  <2>0. IInv'
    BY <1>0, InvariantStep
  <2>1. PICK h \in Nat : h = Len(chain'[p])
    BY <2>0, LenProperties DEF IInv, TypeOK
  <2>2. PICK n \in Nat : n = Len(chain'[q])
    BY <2>0, LenProperties DEF IInv, TypeOK
  <2>3. n < h
    BY <1>3, <2>1, <2>2
  <2>4. WillHear(q, h)' => WillHear(q, Len(chain[p]))'
    BY <2>1
  <2>5. CASE AppendsBlock(p)
    <3>1. q # p
      BY <1>3, <2>1, <2>2, <2>3
    <3>2. WillHear(q, h)'
      BY <2>1, <2>5, <3>1, MinedIsSent, BroadcastBlock, CoreOf
    <3> QED
      BY <2>4, <3>2
  <2>6. CASE ~AppendsBlock(p)
    <3>1. PICK s \in Peers : Len(chain[s]) >= Len(chain'[p])
      BY <1>0, <2>6, NoNewHeight
    <3>2. PICK k \in Nat : k = Len(chain[s])
      BY LenProperties DEF IInv, TypeOK
    <3>3. k >= h
      BY <2>1, <3>1, <3>2
    <3>4. PICK m \in Nat : m = Len(chain[q])
      BY LenProperties DEF IInv, TypeOK
    <3>5. m <= n
      <4>1. chain'[q] = chain[q] \/ Len(chain'[q]) > Len(chain[q])
        BY <1>0, ChainsGrow, DataTyped DEF IInv
      <4> QED
        BY <2>2, <3>4, <4>1
    <3>6. m < k
      BY <2>3, <3>3, <3>5
    <3>7. WillHear(q, k)
      BY <1>1, <3>2, <3>4, <3>6
    <3>8. WillHear(q, h)
      BY <3>3, <3>7, HearsOfLess
    <3>9. ~(Len(chain'[q]) >= h)
      BY <2>2, <2>3
    <3>10. WillHear(q, h)'
      BY <1>0, <1>1, <3>8, <3>9, HearsOn
    <3> QED
      BY <2>4, <3>10
  <2> QED
    BY <2>5, <2>6
<1> QED
  BY <1>2, <1>3

-----------------------------------------------------------------------------
(***************************************************************************)
(* The promises hold.                                                      *)
(***************************************************************************)
LEMMA EmptyNetwork ==
  ASSUME \A p \in Peers :
           /\ chain[p] = <<>> /\ ppc[p] = "idle" /\ txns[p] = <<>>
           /\ current[p] = <<>> /\ outgoing[p] = <<>> /\ rcv[p] = <<>>
           /\ inbox[p] = <<>>
  PROVE  /\ LiveBlocks = {}
         /\ \A p \in Peers : Pending(p) = <<>> /\ Entries(chain[p]) = <<>>
         /\ Visible \subseteq {<<>>}
<1>1. Range(<<>>) = {}
  BY DEF Range
<1>2. InTransit = {}
  BY <1>1 DEF InTransit
<1>3. LiveBlocks = {}
  BY <1>1, <1>2 DEF LiveBlocks
<1>4. Entries(<<>>) = <<>>
  BY EntriesOfNone
<1>5. ASSUME NEW p \in Peers
      PROVE  Pending(p) = <<>>
  <2>1. <<>> \in Seq(Txn) /\ <<>> \o <<>> = <<>>
    BY ConcatEmptySeq, EmptySeq
  <2> QED
    BY <2>1 DEF Pending
<1>6. Visible \subseteq {<<>>}
  BY <1>2, <1>4 DEF Visible
<1> QED
  BY <1>2, <1>3, <1>4, <1>5, <1>6

LEMMA NothingAtFirst ==
  ASSUME Init
  PROVE  /\ LiveBlocks = {}
         /\ \A p \in Peers : Pending(p) = <<>> /\ Entries(chain[p]) = <<>>
         /\ Visible \subseteq {<<>>}
<1>1. \A p \in Peers :
        /\ chain[p] = <<>> /\ ppc[p] = "idle" /\ txns[p] = <<>>
        /\ current[p] = <<>> /\ outgoing[p] = <<>> /\ rcv[p] = <<>>
        /\ inbox[p] = <<>>
  BY DEF Init
<1> QED
  BY <1>1, EmptyNetwork

LEMMA PromiseInit == Init => PromiseInv
<1> SUFFICES ASSUME Init
             PROVE  SettledInv /\ OnceInv
  BY NewsInit, HandInit, ExchangeInit DEF PromiseInv
<1>1. ASSUME NEW l \in Visible
      PROVE  Len(l) = 0
  BY NothingAtFirst
<1> QED
  BY <1>1, NothingAtFirst DEF SettledInv, OnceInv

LEMMA PromiseStep ==
  ASSUME IInv, PromiseInv, [Next]_vars
  PROVE  PromiseInv'
<1>1. CoreInv /\ DataTypes /\ [PeersMove]_vars
  BY CoreOf, NextMoves DEF CoreInv
<1> QED
  BY <1>1, SettledStep, OnceStep, HandStep, NewsStep, ExchangeStep DEF PromiseInv

(***************************************************************************)
(* The promises are kept in every state: whatever ledger can be had holds  *)
(* only settled transactions (the miner's hand and the requeueing of       *)
(* Peer.mine), no two blocks that are or may get into a chain hold the     *)
(* same transaction, and a peer with the shorter chain has a block on its  *)
(* way, or a request, that will tell it (broadcast_block_to_all_peers and  *)
(* poll_from_rcv_buffer).                                                  *)
(***************************************************************************)
THEOREM PromisesKept == Spec => []PromiseInv
<1>1. Init => IInv /\ PromiseInv
  BY InvariantInit, PromiseInit
<1>2. IInv /\ PromiseInv /\ [Next]_vars => (IInv /\ PromiseInv)'
  BY NextMoves, InvariantStep, PromiseStep
<1> QED
  BY <1>1, <1>2, PTL DEF Spec

(***************************************************************************)
(* A transaction is mined once in the whole network, though a race that is *)
(* lost puts it back on the queue (Peer.mine): all chains hold it in the   *)
(* same block, and none does while its sender has yet to settle it.        *)
(***************************************************************************)
THEOREM TxnsMinedOnce == Spec => []MinedOnce
<1>1. IInv /\ PromiseInv => MinedOnce
  BY CoreOf, OnceMeansOnce DEF PromiseInv
<1> QED
  BY <1>1, InvariantHolds, PromisesKept, PTL

(***************************************************************************)
(* Once everything is mined, delivered and decided the chains have the     *)
(* same length: poll_from_rcv_buffer discards no block that mattered as    *)
(* stale, and overlooks no fork.                                           *)
(***************************************************************************)
THEOREM SameHeightAtRest == Spec => []QuiescentSameHeight
<1>1. IInv /\ PromiseInv => QuiescentSameHeight
  <2> SUFFICES ASSUME IInv, PromiseInv, Quiescent, BroadcastsKept,
                      NEW p \in Peers, NEW q \in Peers
               PROVE  Len(chain[p]) = Len(chain[q])
    BY DEF QuiescentSameHeight
  <2>1. ASSUME NEW r \in Peers, NEW h
        PROVE  ~WillHear(r, h)
    <3>1. inbox[r] = <<>> /\ rcv[r] = <<>> /\ ppc[r] = "idle"
      BY DEF Quiescent
    <3>2. \A s \in Peers : sendTo[s] = {}
      BY DEF Quiescent, PromiseInv, ExchangeInv
    <3>3. Range(<<>>) = {}
      BY DEF Range
    <3>4. OnTheWay(r) = {}
      BY <3>1, <3>2, <3>3 DEF OnTheWay, Undecided
    <3> QED
      BY <3>1, <3>4 DEF WillHear
  <2>2. Len(chain[p]) \in Nat /\ Len(chain[q]) \in Nat
    BY LenProperties DEF IInv, TypeOK
  <2>3. ~(Len(chain[p]) < Len(chain[q])) /\ ~(Len(chain[q]) < Len(chain[p]))
    BY <2>1 DEF PromiseInv, NewsInv
  <2> QED
    BY <2>2, <2>3
<1> QED
  BY <1>1, InvariantHolds, PromisesKept, PTL

-----------------------------------------------------------------------------
(***************************************************************************)
(* The peers implement Ledger.                                             *)
(***************************************************************************)
\* What the miner tests is whether the ledger admits the transaction.
LEMMA RefusedNotAdmitted ==
  ASSUME CoreInv, NEW p \in Peers, current[p] # <<>>
  PROVE  Refused(p) <=> ~L!Admits(Entries(chain[p]), Head(current[p]))
<1> DEFINE c == chain[p]
           l == Entries(c)
           t == Head(current[p])
<1>1. c \in Seq(Block) /\ NewBlock(p).txn = t /\ t \in Txn
  BY HeadTailProperties DEF CoreInv, DataTypes, NewBlock, MinedBlock
<1>2. Len(l) = Len(c) /\ \A i \in 1 .. Len(c) : l[i] = c[i].txn
  BY <1>1, EntriesType
<1>3. t.type \in {"create_poll", "vote"}
  BY <1>1 DEF Txn
<1>4. Refused(p) <=> \/ /\ t.type = "create_poll"
                        /\ \E i \in 1 .. Len(c) :
                             /\ c[i].txn.type = "create_poll"
                             /\ c[i].txn.poll_name = t.poll_name
                     \/ /\ t.type = "vote"
                        /\ \A i \in 1 .. Len(c) :
                             c[i].txn.type = "create_poll"
                             => c[i].txn.poll_id # t.poll_id
  BY <1>1 DEF Refused, IsRepeatPoll, IsVoteForNonexistentPoll
<1> HIDE DEF c, l, t
<1>5. L!Admits(l, t) <=> IF t.type = "create_poll"
                         THEN \A i \in 1 .. Len(c) :
                                c[i].txn.type = "create_poll"
                                => c[i].txn.poll_name # t.poll_name
                         ELSE \E i \in 1 .. Len(c) :
                                /\ c[i].txn.type = "create_poll"
                                /\ c[i].txn.poll_id = t.poll_id
  BY <1>2 DEF L!Admits
<1>6. Refused(p) <=> ~L!Admits(l, t)
  BY <1>3, <1>4, <1>5
<1> QED
  BY <1>6 DEF c, l, t

\* The transaction that is settled is the first one pending.
LEMMA Settles ==
  ASSUME CoreInv, HandInv, NEW p \in Peers, RefuseBlock(p) \/ AppendsBlock(p)
  PROVE  /\ current[p] # <<>> /\ Pending(p) # <<>>
         /\ Head(Pending(p)) = Head(current[p])
         /\ Pending(p)' = Tail(Pending(p))
         /\ \A q \in Peers : q # p => Pending(q)' = Pending(q)
<1>0. current[p] \in Seq(Txn) /\ txns[p] \in Seq(Txn)
  BY DEF CoreInv, DataTypes
<1>1. /\ mpc[p] = "commit" /\ txns' = txns
      /\ current' = [current EXCEPT ![p] = <<>>]
  BY AppendOwnBlockEffect DEF RefuseBlock, MinerDone
<1>2. current[p] # <<>>
  BY <1>1 DEF CoreInv, MinerInv
<1>3. PICK h \in Txn : h = Head(current[p])
  BY <1>0, <1>2, HeadTailProperties
<1>4. current[p] = <<h>>
  <2>1. Len(current[p]) = 1
    <3>1. PICK n \in Nat : n = Len(current[p])
      BY <1>0, LenProperties
    <3>2. n # 0 /\ n <= 1
      BY <1>0, <1>2, <3>1, EmptySeq DEF HandInv
    <3>3. n = 1
      BY <3>2
    <3> QED
      BY <3>1, <3>3
  <2>2. current[p][1] = h
    BY <1>0, <1>2, <1>3, HeadTailProperties
  <2> QED
    BY <1>0, <2>1, <2>2, SeqEqual
<1>5. Pending(p)' = txns[p]
  <2>1. current'[p] = <<>> /\ txns'[p] = txns[p]
    BY <1>1 DEF CoreInv, DataTypes
  <2> QED
    BY <1>0, <2>1, ConcatEmptySeq DEF Pending
<1>6. Tail(<<h>> \o txns[p]) = txns[p]
  BY <1>0
<1>7. \A q \in Peers : q # p => Pending(q)' = Pending(q)
  BY <1>1 DEF Pending, CoreInv, DataTypes
<1> QED
  BY <1>2, <1>4, <1>5, <1>6, <1>7, FirstInHand DEF Pending

\* Anything else only adds to what is pending, or moves it to and fro between
\* the queue and the miner's hand.
LEMMA PendingSteps ==
  ASSUME CoreInv, [PeersMove]_vars
  PROVE  \/ \E p \in Peers : \E t \in Txn :
              /\ t.sender = p /\ t.stamp = submitted[p] + 1
              /\ Submit(p, t)
              /\ Pending(p)' = Append(Pending(p), t)
              /\ \A q \in Peers : q # p => Pending(q)' = Pending(q)
         \/ \E p \in Peers : RefuseBlock(p) \/ AppendsBlock(p)
         \/ \A q \in Peers : Pending(q)' = Pending(q)
<1> DEFINE Submits == \E p \in Peers : \E t \in Txn :
              /\ t.sender = p /\ t.stamp = submitted[p] + 1
              /\ Submit(p, t)
              /\ Pending(p)' = Append(Pending(p), t)
              /\ \A q \in Peers : q # p => Pending(q)' = Pending(q)
           Settled == \E p \in Peers : RefuseBlock(p) \/ AppendsBlock(p)
           Same == \A q \in Peers : Pending(q)' = Pending(q)
<1>0. txns \in [Peers -> Seq(Txn)] /\ current \in [Peers -> Seq(Txn)]
  BY DEF CoreInv, DataTypes
<1>1. ASSUME NEW p \in Peers, Application(p)
      PROVE  Submits
  <2>1. PICK t \in Txn : /\ t.sender = p /\ t.stamp = submitted[p] + 1
                         /\ Submit(p, t)
    BY <1>1, CreatePollSubmits, VoteSubmits DEF Application, CoreInv
  <2>2. current' = current /\ txns' = [txns EXCEPT ![p] = Append(@, t)]
    BY <2>1 DEF Submit, minerVars
  <2>3. \A q \in Peers : q # p => Pending(q)' = Pending(q)
    BY <1>0, <2>2 DEF Pending
  <2>4. Pending(p)' = Append(Pending(p), t)
    <3>1. PICK s, u \in Seq(Txn) : s = current[p] /\ u = txns[p]
      BY <1>0
    <3>2. s \o Append(u, t) = Append(s \o u, t)
      <4>1. Append(u, t) = u \o <<t>> /\ <<t>> \in Seq(Txn) /\ s \o u \in Seq(Txn)
        BY AppendIsConcat, ConcatProperties
      <4>2. (s \o u) \o <<t>> = s \o (u \o <<t>>)
        BY <4>1, ConcatAssociative
      <4> QED
        BY <4>1, <4>2, AppendIsConcat
    <3> QED
      BY <1>0, <2>2, <3>1, <3>2 DEF Pending
  <2> QED
    BY <2>1, <2>3, <2>4
<1>2. ASSUME current' = current, txns' = txns
      PROVE  Same
  BY <1>2 DEF Pending
<1>3. ASSUME NEW p \in Peers, MinerMoves(p)
      PROVE  Settled \/ Same
  <2>1. ASSUME TakeTxn(p)
        PROVE  Same
    <3>1. /\ Pending(p) # <<>> /\ Pending(p) \in Seq(Txn)
          /\ current' = [current EXCEPT ![p] = <<Head(Pending(p))>>]
          /\ txns' = [txns EXCEPT ![p] = Tail(Pending(p))]
      BY <1>0, <2>1, PendingType DEF TakeTxn, Pending
    <3>2. Pending(p)' = <<Head(Pending(p))>> \o Tail(Pending(p))
      BY <1>0, <3>1 DEF Pending
    <3>3. Pending(p)' = Pending(p)
      BY <3>1, <3>2, ConsHeadTail
    <3>4. \A q \in Peers : q # p => Pending(q)' = Pending(q)
      BY <1>0, <3>1 DEF Pending
    <3> QED
      BY <3>3, <3>4
  <2>2. ASSUME Requeue(p), MinerDone(p)
        PROVE  Same
    <3>1. /\ current' = [current EXCEPT ![p] = <<>>]
          /\ txns' = [txns EXCEPT ![p] = Pending(p)]
      BY <1>0, <2>2 DEF Requeue, MinerDone, Pending
    <3>2. Pending(p)' = <<>> \o Pending(p)
      BY <1>0, <3>1 DEF Pending
    <3>3. Pending(p)' = Pending(p)
      BY <3>2, PendingType, ConcatEmptySeq
    <3>4. \A q \in Peers : q # p => Pending(q)' = Pending(q)
      BY <1>0, <3>1 DEF Pending
    <3> QED
      BY <3>3, <3>4
  <2>3. ASSUME NEW q \in Peers, SendBlock(p, q)
        PROVE  Same
    BY <1>2, <2>3, SendBlockEffect
  <2>4. ASSUME SnapshotTip(p) \/ GiveUpRound(p) \/ FindNonce(p)
        PROVE  Same
    BY <1>2, <2>4 DEF SnapshotTip, GiveUpRound, FindNonce
  <2> HIDE DEF Same
  <2> QED
    BY <1>3, <2>1, <2>2, <2>3, <2>4 DEF MinerMoves, RestartMining, LoseRace
<1>4. ASSUME NEW p \in Peers, Listener(p)
      PROVE  Same
  BY <1>2, <1>4 DEF Listener, AcceptBlock, ServeChain, minerVars
<1>5. ASSUME NEW p \in Peers, Poller(p)
      PROVE  Same
  BY <1>2, <1>5 DEF Poller, DiscardInvalid, AppendReceived, DiscardStale,
                    DetectFork, AskForChain, FinishFork, minerVars
<1>6. ASSUME UNCHANGED vars
      PROVE  Same
  BY <1>2, <1>6 DEF vars, minerVars
<1> HIDE DEF Submits, Settled, Same
<1>7. Submits \/ Settled \/ Same
  BY <1>1, <1>3, <1>4, <1>5, <1>6 DEF PeersMove
<1> QED
  BY <1>7 DEF Submits, Settled, Same

\* Nobody has seen a transaction that is submitted now.
LEMMA NewTxnUnseen ==
  ASSUME CoreInv, SettledInv, AllKeepChain, NEW p \in Peers, NEW t \in Txn,
         t.sender = p, t.stamp = submitted[p] + 1
  PROVE  /\ \A q \in Peers : ~L!Mentions(Pending(q), t)
         /\ \A l \in Visible : ~L!Mentions(l, t)
<1>1. submitted[p] \in Nat /\ Len(Pending(p)) \in Nat
  BY PendingType
<1>2. ASSUME NEW q \in Peers, NEW i \in 1 .. Len(Pending(q)), Pending(q)[i] = t
      PROVE  FALSE
  <2>1. q = p
    BY <1>2, PendingType
  <2> DEFINE x == submitted[q]
             n == Len(Pending(q))
  <2>2. t.stamp = x - n + i
    BY <1>2, PendingType
  <2>3. x \in Nat /\ n \in Nat /\ i \in 1 .. n /\ t.stamp = x + 1
    BY <1>1, <2>1
  <2> HIDE DEF x, n
  <2> QED
    BY <2>2, <2>3
<1>3. ASSUME NEW l \in Visible, NEW i \in 1 .. Len(l), l[i] = t
      PROVE  FALSE
  <2> DEFINE x == submitted[p]
             n == Len(Pending(p))
  <2>1. TakenFor(t)
    BY <1>3 DEF SettledInv
  <2>2. x \in Nat /\ n \in Nat /\ x + 1 <= x - n
    BY <1>1, <2>1 DEF TakenFor
  <2> HIDE DEF x, n
  <2> QED
    BY <2>2
<1> QED
  BY <1>2, <1>3 DEF L!Mentions

\* Transactions are submitted by the application of their sender.
LEMMA SubmitsOnce ==
  ASSUME DataTypes, NEW p \in Peers, Application(p)
  PROVE  submitted' = [submitted EXCEPT ![p] = @ + 1]
<1>1. PICK t \in Txn : Submit(p, t)
  BY CreatePollSubmits, VoteSubmits DEF Application
<1> QED
  BY <1>1 DEF Submit

LEMMA ThreadsSubmitNothing ==
  ASSUME NEW p \in Peers, MinerMoves(p) \/ Listener(p) \/ Poller(p)
  PROVE  submitted' = submitted
<1>1. CASE MinerMoves(p)
  BY <1>1, SendBlockEffect, AppendOwnBlockEffect
  DEF MinerMoves, TakeTxn, SnapshotTip, RestartMining, GiveUpRound, FindNonce,
      RefuseBlock, LoseRace
<1>2. CASE Listener(p)
  BY <1>2 DEF Listener, AcceptBlock, ServeChain
<1>3. CASE Poller(p)
  BY <1>3 DEF Poller, DiscardInvalid, AppendReceived, DiscardStale, DetectFork,
              AskForChain, FinishFork
<1> QED
  BY <1>1, <1>2, <1>3

LEMMA SubmitterActs ==
  ASSUME DataTypes, [PeersMove]_vars, NEW p \in Peers, submitted'[p] # submitted[p]
  PROVE  Application(p)
<1>1. ASSUME NEW q \in Peers, Application(q)
      PROVE  p = q
  BY <1>1, SubmitsOnce DEF DataTypes
<1>2. UNCHANGED vars => submitted' = submitted
  BY DEF vars
<1> QED
  BY <1>1, <1>2, ThreadsSubmitNothing DEF PeersMove

\* Every step is one of Ledger's, and says whose.
LEMMA LedgerStep ==
  ASSUME CoreInv, SettledInv, HandInv, AllKeepChain, [PeersMove]_vars
  PROVE  \/ \E p \in Peers :
              \/ Application(p) /\ L!Submit(p)
              \/ RefuseBlock(p) /\ L!Refuse(p)
              \/ AppendsBlock(p) /\ L!Enter(p)
              \/ AppendReceived(p) /\ L!Adopt(p)
              \/ FinishFork(p) /\ L!Adopt(p)
         \/ L!Forget
<1> DEFINE queue == [p \in Peers |-> Pending(p)]
           ledger == [p \in Peers |-> Entries(chain[p])]
<1>1. ASSUME \A p \in Peers : ~AppendsBlock(p)
      PROVE  L!MayForget({})
  BY <1>1, VisibleSteps DEF L!MayForget
<1>2. chain' = chain => ledger' = ledger
  OBVIOUS
<1>3. (\A p \in Peers : Pending(p)' = Pending(p)) => queue' = queue
  OBVIOUS
<1>4. ASSUME NEW p \in Peers, NEW t \in Txn,
             t.sender = p, t.stamp = submitted[p] + 1, Submit(p, t),
             Pending(p)' = Append(Pending(p), t),
             \A q \in Peers : q # p => Pending(q)' = Pending(q)
      PROVE  L!Submit(p)
  <2>1. Pending(p) \in Seq(Txn)
    BY PendingType
  <2>2. queue' = [queue EXCEPT ![p] = Append(@, t)]
    BY <1>4
  <2>3. /\ queue'[p] = Append(queue[p], t) /\ queue[p] = Pending(p)
        /\ Len(queue'[p]) = Len(queue[p]) + 1
        /\ queue'[p][Len(queue'[p])] = t
    BY <1>4, <2>1, AppendProperties
  <2>4. chain' = chain
    BY <1>4 DEF Submit
  <2>5. \A q \in Peers : ~AppendsBlock(q)
    <3>1. submitted'[p] # submitted[p]
      BY <1>4 DEF Submit, CoreInv, DataTypes
    <3> QED
      BY <3>1, AppendOwnBlockEffect
  <2>6. /\ \A q \in Peers : ~L!Mentions(queue[q], t)
        /\ \A l \in Visible : ~L!Mentions(l, t)
    BY <1>4, NewTxnUnseen
  <2>7. ledger' = ledger /\ L!MayForget({})
    BY <1>1, <1>2, <2>4, <2>5
  <2> HIDE DEF queue, ledger
  <2>8. /\ Len(queue'[p]) = Len(queue[p]) + 1
        /\ LET u == queue'[p][Len(queue'[p])]
           IN  /\ queue' = [queue EXCEPT ![p] = Append(@, u)]
               /\ u.sender = p
               /\ \A q \in Peers : ~L!Mentions(queue[q], u)
               /\ \A l \in Visible : ~L!Mentions(l, u)
        /\ ledger' = ledger
    BY <1>4, <2>2, <2>3, <2>6, <2>7
  <2> QED
    BY <2>7, <2>8 DEF L!Submit, queue, ledger
<1>5. ASSUME NEW p \in Peers, RefuseBlock(p) \/ AppendsBlock(p)
      PROVE  /\ queue[p] # <<>> /\ Head(queue[p]) = Head(current[p])
             /\ queue' = [queue EXCEPT ![p] = Tail(@)]
             /\ Refused(p) <=> ~L!Admits(ledger[p], Head(queue[p]))
  <2>1. /\ current[p] # <<>> /\ Pending(p) # <<>>
        /\ Head(Pending(p)) = Head(current[p])
        /\ Pending(p)' = Tail(Pending(p))
        /\ \A q \in Peers : q # p => Pending(q)' = Pending(q)
    BY <1>5, Settles
  <2> QED
    BY <2>1, RefusedNotAdmitted
<1>6. ASSUME NEW p \in Peers, RefuseBlock(p)
      PROVE  L!Refuse(p)
  <2>1. chain' = chain /\ Refused(p)
    BY <1>6 DEF RefuseBlock
  <2>2. \A q \in Peers : ~AppendsBlock(q)
    BY <2>1, OwnBlock, AppendOwnBlockChain DEF CoreInv
  <2> QED
    BY <1>1, <1>2, <1>5, <1>6, <2>1, <2>2 DEF L!Refuse
<1>7. ASSUME NEW p \in Peers, AppendsBlock(p)
      PROVE  L!Enter(p)
  <2>1. ~Refused(p) /\ Head(current[p]) = NewBlock(p).txn
    BY <1>7, OwnBlock DEF AppendsBlock, AppendBlock
  <2>2. /\ chain'[p] = Append(chain[p], NewBlock(p)) /\ NewBlock(p) \in Block
        /\ chain[p] \in Seq(Block)
        /\ \A q \in Peers : q # p => chain'[q] = chain[q]
    <3>1. chain[p] \in Seq(Block)
      BY DEF CoreInv, DataTypes
    <3>2. KeepsChain(p)
      BY DEF AllKeepChain
    <3> QED
      BY <1>7, <3>1, <3>2, OwnBlock
  <2>3. Entries(chain'[p]) = Append(Entries(chain[p]), Head(current[p]))
    BY <2>1, <2>2, EntriesOfAppend
  <2>4. ledger' = [ledger EXCEPT ![p] = Append(@, Head(queue[p]))]
    BY <1>5, <1>7, <2>2, <2>3
  <2>5. \A q \in Peers : AppendsBlock(q) => q = p
    BY <1>7, <2>2, AppendOwnBlockChain, OwnBlock DEF CoreInv
  <2>6. Visible' \subseteq Visible \cup {ledger'[p]}
    BY <2>5, VisibleSteps
  <2> QED
    BY <1>5, <1>7, <2>1, <2>4, <2>6 DEF L!Enter, L!MayForget
<1>8. ASSUME NEW p \in Peers, AppendReceived(p) \/ FinishFork(p)
      PROVE  L!Adopt(p) \/ L!Forget
  <2>1. Entries(chain'[p]) \in Visible
    BY <1>8, AdoptedVisible
  <2>2. CoreInv'
    BY CoreStep
  <2>3. /\ Len(Entries(chain'[p])) = Len(chain'[p])
        /\ Len(Entries(chain[p])) = Len(chain[p])
    <3>1. PICK c, d \in Seq(Block) : c = chain[p] /\ d = chain'[p]
      BY <2>2 DEF CoreInv, DataTypes
    <3> QED
      BY <3>1, EntriesType
  <2>4. chain'[p] = chain[p] \/ Len(chain'[p]) > Len(chain[p])
    BY ChainsGrow DEF CoreInv
  <2>5. \A q \in Peers : q # p => chain'[q] = chain[q]
    BY <1>8, AppendReceivedEffect, FinishForkEffect
  <2>6. current' = current /\ txns' = txns
    BY <1>8 DEF AppendReceived, FinishFork, minerVars
  <2>7. queue' = queue
    BY <1>3, <2>6 DEF Pending
  <2>8. \A q \in Peers : ~AppendsBlock(q)
    <3>1. ASSUME NEW q \in Peers, AppendsBlock(q)
          PROVE  FALSE
      <4>1. current[q] # <<>>
        BY <3>1, OwnBlock
      <4>2. current' = [current EXCEPT ![q] = <<>>]
        BY <3>1, AppendOwnBlockEffect
      <4> QED
        BY <2>6, <4>1, <4>2 DEF CoreInv, DataTypes
    <3> QED
      BY <3>1
  <2>9. L!MayForget({})
    BY <1>1, <2>8
  <2>10. CASE chain'[p] = chain[p]
    <3>1. ledger' = ledger
      BY <2>5, <2>10
    <3> QED
      BY <2>7, <2>9, <3>1 DEF L!Forget
  <2>11. CASE Len(chain'[p]) > Len(chain[p])
    <3>1. PICK l \in Visible : l = Entries(chain'[p])
      BY <2>1
    <3>2. Len(l) > Len(ledger[p])
      BY <2>3, <2>11, <3>1
    <3>3. ledger' = [ledger EXCEPT ![p] = l]
      BY <2>5, <3>1
    <3> QED
      BY <2>7, <2>9, <3>1, <3>2, <3>3 DEF L!Adopt
  <2> QED
    BY <2>4, <2>10, <2>11
<1>9. ASSUME \A p \in Peers : Pending(p)' = Pending(p),
             \A p \in Peers : ~AppendsBlock(p), chain' = chain
      PROVE  L!Forget
  BY <1>1, <1>2, <1>3, <1>9 DEF L!Forget
<1>10. ASSUME NEW p \in Peers, NEW t \in Txn, Submit(p, t)
       PROVE  Application(p)
  <2>1. submitted[p] \in Nat /\ submitted'[p] = submitted[p] + 1
    BY <1>10 DEF Submit, CoreInv, DataTypes
  <2> QED
    BY <2>1, SubmitterActs DEF CoreInv
<1> HIDE DEF queue, ledger
<1> QED
  BY <1>4, <1>6, <1>7, <1>8, <1>9, <1>10, PendingSteps, ChainSteps

(***************************************************************************)
(* Where nobody spoils its own chain, the threads, queues and messages of  *)
(* peer.py implement Ledger: users see ledgers that grow by admitted       *)
(* transactions, each settled once and in order, or are replaced by longer *)
(* ledgers of other peers.                                                 *)
(***************************************************************************)
THEOREM PeersImplementLedger ==
  ASSUME Peers # {}, AllKeepChain
  PROVE  Spec => ImplementsLedger
<1>1. Init => L!Init
  <2> SUFFICES ASSUME Init
               PROVE  L!Init
    OBVIOUS
  <2>1. \A p \in Peers : Pending(p) = <<>> /\ Entries(chain[p]) = <<>>
    BY NothingAtFirst
  <2>2. Visible = {<<>>}
    BY <2>1, NothingAtFirst DEF Visible
  <2> QED
    BY <2>1, <2>2 DEF L!Init
<1>2. IInv /\ PromiseInv /\ [Next]_vars => [L!Next]_(L!vars)
  BY CoreOf, NextMoves, LedgerStep DEF PromiseInv, L!Next
<1> QED
  BY <1>1, <1>2, InvariantHolds, PromisesKept, PTL
  DEF Spec, ImplementsLedger, L!Spec

=============================================================================
