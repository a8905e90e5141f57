--------------------------- MODULE MCRunExecution ---------------------------
(* RunExecution for TLC over four workflow versions: news published at once  *)
(* and after approval, news published at once, comments answered through an  *)
(* API after approval, YouTube comments answered after approval.             *)
EXTENDS RunRefinement, TLC

MCSteps == {"source", "publish", "ask", "act"}

KindsWith(act) ==
  [source |-> "plain", publish |-> "publish", ask |-> "approval", act |-> act]

News ==
  [order |-> <<"source", "publish", "ask", "act">>,
   kind |-> KindsWith("publish"),
   parents |-> [source |-> {}, publish |-> {"source"}, ask |-> {"source"}, act |-> {"ask"}]]

Headlines == [News EXCEPT !.order = <<"source", "publish">>]

Comments ==
  [News EXCEPT !.order = <<"source", "ask", "act">>, !.kind = KindsWith("action")]

Replies ==
  [News EXCEPT !.order = <<"source", "act">>, !.kind = KindsWith("reply"),
               !.parents.act = {"source"}]

Approvals == {News, Comments, Replies}
Interrupted == {Headlines, Comments, Replies}
Answers == {Comments}

Symmetry == Permutations(Workers)
=============================================================================
