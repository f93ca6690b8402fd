----------------------------- MODULE OpenLedger -----------------------------
(***************************************************************************)
(* What peers promise their users where peers come and go: Ledger, with an *)
(* open membership.                                                        *)
(*                                                                         *)
(* A peer takes part from when it has joined.  Before, it may adopt a      *)
(* ledger but settle nothing.  When it quits it submits nothing more, and  *)
(* settles at most the first transaction of its queue; the others are not  *)
(* settled any more.  It may also finish to adopt a ledger.  When it fails,*)
(* its queue and its ledger are lost for good.                             *)
(***************************************************************************)
EXTENDS Ledger

VARIABLE stage  \* how far a peer is in its membership

openVars == <<vars, stage>>

OpenInit == /\ Init
            /\ stage \in [Peers -> {"outside", "member"}]

\* What Ledger has the peers do.
Takes(p) == /\ \/ stage[p] = "member" /\ (Submit(p) \/ Enter(p) \/ Refuse(p))
               \/ stage[p] # "lost" /\ Adopt(p)
            /\ stage' = stage

Enrol(p) == /\ stage[p] = "outside"
            /\ stage' = [stage EXCEPT ![p] = "member"]
            /\ queue' = queue
            /\ ledger' = ledger
            /\ MayForget({})

\* A peer that quits may have a transaction in hand.
Quit(p) == /\ stage[p] = "member"
           /\ \E s \in {"quitting", "quit"} : stage' = [stage EXCEPT ![p] = s]
           /\ queue' = queue
           /\ ledger' = ledger
           /\ MayForget({})

\* It settles it, or leaves it.
Finish(p) == /\ stage[p] = "quitting"
             /\ stage' = [stage EXCEPT ![p] = "quit"]
             /\ \/ Enter(p)
                \/ Refuse(p)
                \/ Forget

Fail(p) == /\ stage[p] \in {"outside", "member"}
           /\ stage' = [stage EXCEPT ![p] = "lost"]
           /\ queue' = [queue EXCEPT ![p] = <<>>]
           /\ ledger' = [ledger EXCEPT ![p] = <<>>]
           /\ MayForget({<<>>})

OpenNext == \/ \E p \in Peers : \/ Takes(p)
                               \/ Enrol(p)
                               \/ Quit(p)
                               \/ Finish(p)
                               \/ Fail(p)
            \/ Forget /\ stage' = stage

OpenSpec == OpenInit /\ [][OpenNext]_openVars

=============================================================================
