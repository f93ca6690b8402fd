---------------------------- MODULE MCMembership ----------------------------
(***************************************************************************)
(* Instances of Membership for TLC.                                        *)
(***************************************************************************)
EXTENDS MembershipInvariant

CONSTANTS p1, p2, p3

\* How many transactions each peer submits.
FirstTwo  == [p \in Peers |-> IF p = p1 THEN 2 ELSE 0]
TwoAndOne == [p \in Peers |-> IF p = p1 THEN 2 ELSE 1]

\* Every block is broadcast as it was mined.
Never   == [p \in Peers |-> 0]
AllHash == [p \in Peers |-> "hash"]

\* A peer may stop when it has ended, or has nothing left to do; one whose
\* polling thread is dead mines nothing any more.
AtRest(p) ==
  /\ life[p] \in {"up", "leaving", "failed", "crashed"}
  /\ mpc[p] = "idle" \/ (life[p] = "leaving" /\ mpc[p] = "snapshot")
  /\ lock[p] = "free"
  /\ inbox[p] = <<>>
  /\ request[p] = "none" \/ life[p] \in {"failed", "crashed"}
  /\ thread[p] = IF life[p] = "up" THEN "serving" ELSE "ended"
  /\ life[p] = "leaving" => rcv[p] = <<>>
  /\ life[p] = "up" => /\ ppc[p] # "dead" => /\ rcv[p] = <<>>
                                             /\ Pending(p) = <<>>
                       /\ submitted[p] = MaxSubmit[p]

Finished == /\ \A p \in Peers : AtRest(p)
            /\ UNCHANGED allVars

MCSpec == MemberInit /\ [][MemberNext \/ Finished]_allVars

MCFairSpec == MCSpec /\ MemberFairness

=============================================================================
