--------------------------- MODULE MCPeerNetwork ---------------------------
(***************************************************************************)
(* Instances of PeerNetwork for TLC.                                       *)
(***************************************************************************)
EXTENDS PeerNetworkInvariant, TLC

CONSTANTS p1, p2, p3

\* How many transactions each peer submits.
TwoEach     == [p \in Peers |-> 2]
ThreeAndTwo == [p \in Peers |-> IF p = p1 THEN 3 ELSE 2]
TwoAndOnes  == [p \in Peers |-> IF p = p1 THEN 2 ELSE 1]
SecondTwo   == [p \in Peers |-> IF p = p2 THEN 2 ELSE 1]

\* The options of the test configuration files: how often a peer broadcasts
\* or tampers, and how.  With FirstTwo and OneOfEach, p1 spoils its own chain
\* whenever it mines, p2 spoils every other block it sends, and p3 nothing.
Never       == [p \in Peers |-> 0]
AllHash     == [p \in Peers |-> "hash"]
FirstHalf   == [p \in Peers |-> IF p = p1 THEN 2 ELSE 0]
FirstTwo    == [p \in Peers |-> CASE p = p1 -> 1 [] p = p2 -> 2 [] OTHER -> 0]
OneOfEach   == [p \in Peers |-> CASE p = p1 -> "chain"
                                  [] p = p2 -> "prev_hash"
                                  [] OTHER  -> "txn_data"]

\* Peers with the same configuration are interchangeable.
SymmetryOfTwo == Permutations({p2, p3})

\* The system may stop only when there is nothing left to submit, to mine,
\* to deliver or to decide.
Finished == /\ Quiescent
            /\ submitted = MaxSubmit
            /\ UNCHANGED vars

MCNext == Next \/ Finished

MCSpec == Init /\ [][MCNext]_vars

MCFairSpec == MCSpec /\ Fairness

=============================================================================
