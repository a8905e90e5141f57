------------------------------- MODULE MCAnswers -------------------------------
(* Answers for TLC: two workflows read the same account's comments, one with *)
(* approval; both may answer one comment a day.                              *)
EXTENDS AnswersRefinement, TLC

CONSTANTS careful, quick

MCLimits == [w \in {careful, quick} |-> 1]

Symmetry == Permutations(Runs) \cup Permutations(Comments)
\* Of these initial states, those whose new comment is new to both workflows
\* (to one on YouTube), and those that interrupted an execution of each.
MCInit ==
  /\ Init
  /\ IF news = Taken THEN {run[r].workflow : r \in Runs} = Workflows
     ELSE \E readers \in SUBSET Workflows, c \in Comments :
            /\ NewTo(readers, c)
            /\ IF channel = "youtube" THEN Cardinality(readers) = 1 ELSE readers = Workflows

MCSpec == MCInit /\ [][Next]_vars
=============================================================================
