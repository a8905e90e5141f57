------------------------------- MODULE MCBuilder -------------------------------
EXTENDS Builder, TLC

\* Workflows to start from: one that can be switched on as it is, and a draft
\* with an old source of two addresses and two cards that could form a circle.
Line(kinds) ==
  [cards |-> [k \in DOMAIN kinds |-> [kind |-> kinds[k], set |-> TRUE]],
   edges |-> {<<k, k + 1>> : k \in 1 .. Len(kinds) - 1}]

Later(g, n) ==
  [cards |-> [k \in {x + n : x \in KeysOf(g)} |-> g.cards[k - n]],
   edges |-> {<<e[1] + n, e[2] + n>> : e \in g.edges}]

MCGoals == {Line(<<"feed", "publish">>), Later(Line(<<"bundle", "ai", "ai">>), 2)}

\* What other clients save: no card at all, which may be a draft only.
MCSent == {EmptyGraph}

Symmetry == Permutations(Browsers) \cup Permutations(Flows) \cup Permutations(Calls)

-----------------------------------------------------------------------------
\* The algorithm against its meaning, for every graph of three cards.
Small == [cards : [1 .. 3 -> {[kind |-> kind, set |-> TRUE] : kind \in {"feed", "collection", "image", "ai", "draft"}}],
          edges : SUBSET ((1 .. 3) \X (1 .. 3))]

ASSUME GraphProblemIsRight ==
  \A g \in Small :
    ~GraphProblem(g, TRUE) <=> (\A e \in g.edges : Placed(g, e)) /\ Conducts(g)
==============================================================================
