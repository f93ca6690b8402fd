----------------------------- MODULE VotingApp -----------------------------
(***************************************************************************)
(* The voting application (app.py): its menu and its simulation files, on  *)
(* top of the ledgers of module Ledger, which PeerNetwork implements.      *)
(*                                                                         *)
(* Every question to the user and every copy of the chain (get_chain) is a *)
(* step: the ledger may grow or be replaced between one and the next.      *)
(* Transactions enter the ledgers, or are refused, as Ledger says.         *)
(***************************************************************************)
EXTENDS Integers, Sequences, FiniteSets

CONSTANTS
  Peers,      \* the peers, each with its user
  Scripted,   \* the peers whose user gives a simulation file
  PollNames,  \* names of polls
  Options,    \* options of polls
  MaxSubmit   \* bound: how many transactions each peer submits

ASSUME ScriptedAssumption ==
  Scripted \subseteq Peers /\ MaxSubmit \in Nat

VARIABLES
  queue, ledger, visible,  \* see Ledger
  dialogue,  \* what the application of each peer is at
  shown,     \* the results it has just printed, as a sequence of at most one
  submitted, \* how many transactions it has submitted
  cast       \* all votes ever submitted

L == INSTANCE Ledger

appVars == <<dialogue, shown, submitted, cast>>
vars == <<queue, ledger, visible, appVars>>

Txn == [type : {"create_poll", "vote"}, sender : Peers, poll_id : Peers \X Nat,
        stamp : Nat, poll_name : PollNames \cup {""},
        options : SUBSET Options, vote : Options \cup {""}]

\* The application waits for input, with what it found for the last one; or
\* it has ended with an exception.
At(where, name, found) == [at |-> where, name |-> name, poll |-> found]

Menu == At("menu", "", <<>>)

\* The simulation file comes before the menu.
Script == At("script", "", <<>>)

TypeOK ==
  /\ queue \in [Peers -> Seq(Txn)]
  /\ ledger \in [Peers -> Seq(Txn)]
  /\ cast \subseteq {t \in Txn : t.type = "vote"}
  /\ \A p \in Peers :
       /\ dialogue[p].at \in {"script", "menu", "options", "option", "find",
                             "count", "raised"}
       /\ dialogue[p].at \in {"option", "find", "count", "raised"}
            => Len(dialogue[p].poll) = 1

Init ==
  /\ L!Init
  /\ dialogue = [p \in Peers |-> IF p \in Scripted THEN Script ELSE Menu]
  /\ shown = [p \in Peers |-> <<>>]
  /\ submitted = [p \in Peers |-> 0]
  /\ cast = {}

-----------------------------------------------------------------------------
\* The first poll of the ledger whose field has the value, if any.
FindPoll(l, poll_field, value) ==
  LET at == {i \in 1 .. Len(l) : /\ l[i].type = "create_poll"
                                 /\ l[i][poll_field] = value}
  IN  IF at = {} THEN <<>>
      ELSE <<l[CHOOSE i \in at : \A j \in at : i <= j]>>

Named(p, name) == FindPoll(ledger[p], "poll_name", name)

WithId(p, id) == FindPoll(ledger[p], "poll_id", id)

\* create_txn.
Submit(p, t) ==
  /\ queue' = [queue EXCEPT ![p] = Append(@, t)]
  /\ visible' = visible
  /\ L!Submit(p)
  /\ submitted' = [submitted EXCEPT ![p] = @ + 1]
  /\ cast' = IF t.type = "vote" THEN cast \cup {t} ELSE cast
  /\ shown' = shown

\* create_poll: the identifier is new.
SubmitPoll(p, name, options) ==
  /\ submitted[p] < MaxSubmit
  /\ Submit(p, [type |-> "create_poll", sender |-> p, stamp |-> submitted[p] + 1,
                poll_id |-> <<p, submitted[p] + 1>>, poll_name |-> name,
                options |-> options, vote |-> ""])

\* vote.
SubmitVote(p, id, option) ==
  /\ submitted[p] < MaxSubmit
  /\ Submit(p, [type |-> "vote", sender |-> p, stamp |-> submitted[p] + 1,
                poll_id |-> id, poll_name |-> "", options |-> {},
                vote |-> option])

Says(p, d) == dialogue' = [dialogue EXCEPT ![p] = d]

LedgersKept == UNCHANGED <<queue, ledger, visible>>

\* A choice from the menu begins a dialogue.
Begins(p, d) ==
  /\ dialogue[p] = Menu
  /\ Says(p, d)
  /\ shown' = [shown EXCEPT ![p] = <<>>]
  /\ LedgersKept /\ UNCHANGED <<submitted, cast>>

-----------------------------------------------------------------------------
(***************************************************************************)
(* The menu.                                                               *)
(***************************************************************************)
\* 1: the name must be new on the chain.
NamePoll(p, name) ==
  /\ Named(p, name) = <<>>
  /\ Begins(p, At("options", name, <<>>))

\* Two options at least, each once.
ListOptions(p, options) ==
  /\ dialogue[p].at = "options"
  /\ Cardinality(options) >= 2
  /\ SubmitPoll(p, dialogue[p].name, options)
  /\ Says(p, Menu)

\* 3: the poll is looked up by its name.
ChoosePoll(p, name) ==
  /\ Named(p, name) # <<>>
  /\ Begins(p, At("option", name, Named(p, name)))

\* Mutant: the poll is looked up once more.
ChosenAnew(p) == IF Named(p, dialogue[p].name) = <<>> THEN dialogue[p].poll[1]
                 ELSE Named(p, dialogue[p].name)[1]

\* The poll whose options were listed.
Chosen(p) == dialogue[p].poll[1]

ChooseOption(p, option) ==
  /\ dialogue[p].at = "option"
  /\ option \in dialogue[p].poll[1].options
  /\ SubmitVote(p, Chosen(p).poll_id, option)
  /\ Says(p, Menu)

\* Anything else ends the choice.
RejectOption(p) ==
  /\ dialogue[p].at = "option"
  /\ Says(p, Menu)
  /\ LedgersKept /\ UNCHANGED <<shown, submitted, cast>>

\* 4: the name gives the poll, its identifier gives the poll again.
AskResults(p, name) ==
  /\ Named(p, name) # <<>>
  /\ Begins(p, At("find", name, Named(p, name)))

\* Mutant: the second look at the chain finds what the first one found.
CountsAnyway(p, found) == At("count", dialogue[p].name, found)

\* get_poll_results gives up a poll that is no longer on the chain.
CountsIfFound(p, found) ==
  IF found = <<>> THEN Menu ELSE At("count", dialogue[p].name, found)

FindAgain(p) ==
  /\ dialogue[p].at = "find"
  /\ Says(p, CountsIfFound(p, WithId(p, dialogue[p].poll[1].poll_id)))
  /\ LedgersKept /\ UNCHANGED <<shown, submitted, cast>>

VotesFor(l, id) == {i \in 1 .. Len(l) : l[i].type = "vote" /\ l[i].poll_id = id}

\* Counts the votes of a third copy of the chain.  An option that the poll
\* does not have is a KeyError, which ends the application.
CountVotes(p) ==
  LET poll  == dialogue[p].poll[1]
      votes == VotesFor(ledger[p], poll.poll_id)
  IN  /\ dialogue[p].at = "count"
      /\ IF \A i \in votes : ledger[p][i].vote \in poll.options
         THEN /\ shown' = [shown EXCEPT ![p] =
                   <<[poll_id |-> poll.poll_id,
                      counts |-> [o \in poll.options |->
                        Cardinality({i \in votes : ledger[p][i].vote = o})]]>>]
              /\ Says(p, Menu)
         ELSE /\ shown' = shown
              /\ Says(p, At("raised", "", <<poll>>))
      /\ LedgersKept /\ UNCHANGED <<submitted, cast>>

(***************************************************************************)
(* parse_sim_file: a poll with any options, under any name; a vote for     *)
(* whatever option the file says, which nothing looks at.                  *)
(***************************************************************************)
ScriptCreates(p, name, options) ==
  /\ dialogue[p] = Script
  /\ SubmitPoll(p, name, options)
  /\ UNCHANGED dialogue

ScriptVotes(p, name, option) ==
  /\ dialogue[p] = Script
  /\ Named(p, name) # <<>>
  /\ SubmitVote(p, Named(p, name)[1].poll_id, option)
  /\ UNCHANGED dialogue

\* The file has no more lines, whatever it holds.
ScriptEnds(p) ==
  /\ dialogue[p] = Script
  /\ Says(p, Menu)
  /\ LedgersKept /\ UNCHANGED <<shown, submitted, cast>>

-----------------------------------------------------------------------------
(***************************************************************************)
(* The peers below: Ledger.  Nothing that was visible is forgotten, which  *)
(* leaves the peers the most to adopt.                                     *)
(***************************************************************************)
\* Mutant: the transaction is entered and stays in the queue.
LeftToSettle(p) == queue[p]

Settled(p) == Tail(queue[p])

Enter(p) ==
  /\ queue[p] # <<>>
  /\ L!Admits(ledger[p], Head(queue[p]))
  /\ queue' = [queue EXCEPT ![p] = Settled(p)]
  /\ ledger' = [ledger EXCEPT ![p] = Append(@, Head(queue[p]))]
  /\ visible' = visible \cup {ledger'[p]}
  /\ UNCHANGED appVars

Refuse(p) == visible' = visible /\ L!Refuse(p) /\ UNCHANGED appVars

Adopt(p) == visible' = visible /\ L!Adopt(p) /\ UNCHANGED appVars

Next ==
  \E p \in Peers :
    \/ \E name \in PollNames :
         \/ NamePoll(p, name)
         \/ ChoosePoll(p, name)
         \/ AskResults(p, name)
         \/ \E options \in SUBSET Options : ScriptCreates(p, name, options)
         \/ \E option \in Options : ScriptVotes(p, name, option)
    \/ \E options \in SUBSET Options : ListOptions(p, options)
    \/ \E option \in Options : ChooseOption(p, option)
    \/ RejectOption(p)
    \/ ScriptEnds(p)
    \/ FindAgain(p)
    \/ CountVotes(p)
    \/ Enter(p)
    \/ Refuse(p)
    \/ Adopt(p)

Spec == Init /\ [][Next]_vars

-----------------------------------------------------------------------------
(***************************************************************************)
(* Results can be shown for every poll: get_poll_results returns "a map of *)
(* counts for each option in the poll".  The code violates this: nothing   *)
(* looks at the option that a simulation file votes for, and even one that *)
(* the first poll of a name has may be missing in the poll of that name    *)
(* that is found.                                                          *)
(***************************************************************************)
ResultsAreCounts == \A p \in Peers : dialogue[p].at # "raised"

(***************************************************************************)
(* Only files spoil results.  A user who votes at the menu votes for an    *)
(* option of the poll whose options were listed, though the chain on which *)
(* that poll was found may have given way to one with another poll of its  *)
(* name before the vote, and the poll and the votes are counted from       *)
(* different copies of the chain.  So if results cannot be shown, a user   *)
(* with a file has voted for an option that this very poll lacks.          *)
(***************************************************************************)
OnlyFilesSpoilResults ==
  \A p \in Peers : dialogue[p].at = "raised" =>
    \E v \in cast : /\ v.sender \in Scripted
                    /\ v.poll_id = dialogue[p].poll[1].poll_id
                    /\ v.vote \notin dialogue[p].poll[1].options

(***************************************************************************)
(* The results shown never exceed the votes that were cast, by all users   *)
(* together: no vote is counted twice, whatever ledgers it has been in.    *)
(***************************************************************************)
NoVoteCountedTwice ==
  \A p \in Peers : \A i \in 1 .. Len(shown[p]) :
    \A o \in DOMAIN shown[p][i].counts :
      shown[p][i].counts[o] <=
        Cardinality({v \in cast : /\ v.poll_id = shown[p][i].poll_id
                                  /\ v.vote = o})

=============================================================================
