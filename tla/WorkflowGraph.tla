----------------------------- MODULE WorkflowGraph -----------------------------
(***************************************************************************)
(* The graph of a workflow and what makes it acceptable                     *)
(* (packages/workflow/src/graph.ts). A graph has cards under their keys and *)
(* a set of edges; no key and no edge can occur twice in it, so the checks  *)
(* for that (graph_invalid_step, seen) are left out. Kinds of card the      *)
(* checks treat alike are one kind.                                         *)
(***************************************************************************)
EXTENDS Naturals, FiniteSets

SourceKinds == {"feed", "bundle", "manual", "collection"}
OutputKinds == {"publish", "draft"}
Kinds == SourceKinds \cup {"ai", "image"} \cup OutputKinds

\* "set": the settings the card needs are filled in.
Card == [kind : Kinds, set : BOOLEAN]

KeysOf(g) == DOMAIN g.cards
KindOf(g, k) == g.cards[k].kind
Sources(g) == {k \in KeysOf(g) : KindOf(g, k) \in SourceKinds}
Outputs(g) == {k \in KeysOf(g) : KindOf(g, k) \in OutputKinds}

\* Keys are numbers; an edge joins two cards of its graph.
IsGraph(g) ==
  /\ IsFiniteSet(KeysOf(g)) /\ KeysOf(g) \subseteq Nat
  /\ g \in [cards : [KeysOf(g) -> Card], edges : SUBSET (KeysOf(g) \X KeysOf(g))]

Before(g, k) == {e[1] : e \in {x \in g.edges : x[2] = k}}
After(g, k) == {e[2] : e \in {x \in g.edges : x[1] = k}}

\* A collection goes to publishing or to an image, its image to publishing.
KeepsCollection(g, from, to) ==
  /\ KindOf(g, from) = "collection" => KindOf(g, to) \in {"publish", "image"}
  /\ /\ KindOf(g, from) = "image"
     /\ \E k \in Before(g, from) \cap KeysOf(g) : KindOf(g, k) = "collection"
     => KindOf(g, to) = "publish"

\* The two cards may be joined in this direction.
Directed(g, from, to) ==
  from # to /\ from \notin Outputs(g) /\ to \notin Sources(g)

Placed(g, e) ==
  /\ {e[1], e[2]} \subseteq KeysOf(g)
  /\ KeepsCollection(g, e[1], e[2])
  /\ Directed(g, e[1], e[2])

\* Kahn's rounds: a card leaves once no card before it is left.
Rounds(g) == Cardinality(KeysOf(g))
StillBehind(g, K) == {k \in K : Before(g, k) \cap K # {}}

Knotted(g) ==
  LET left[n \in 0 .. Rounds(g)] ==
        IF n = 0 THEN KeysOf(g) ELSE StillBehind(g, left[n - 1])
  IN left[Rounds(g)]

\* The cards that are reached from the given ones.
Onward(g, K) == K \cup UNION {After(g, k) : k \in K}

Reached(g, start) ==
  LET reached[n \in 0 .. Rounds(g)] ==
        IF n = 0 THEN start ELSE Onward(g, reached[n - 1])
  IN reached[Rounds(g)]

Fed(g) == Reached(g, Sources(g))

MissesInput(g) ==
  \/ Sources(g) = {}
  \/ \E k \in KeysOf(g) : (k \in Sources(g)) # (Before(g, k) = {})

EndsOpen(g) ==
  Fed(g) # KeysOf(g) \/ \E k \in KeysOf(g) \ Outputs(g) : After(g, k) = {}

\* graphProblem returns the first of these, and null otherwise.
GraphProblem(g, active) ==
  \/ \E e \in g.edges : ~Placed(g, e)
  \/ Knotted(g) # {}
  \/ active /\ (MissesInput(g) \/ EndsOpen(g))

-----------------------------------------------------------------------------
(* What an accepted graph is for, said without the algorithm.               *)

Acyclic(g) ==
  \A K \in (SUBSET KeysOf(g)) \ {{}} : \E k \in K : Before(g, k) \cap K = {}

\* Whatever is closed under "before" holds a source, under "after" an output:
\* every card is on a way from a source to an output.
Conducts(g) ==
  /\ Acyclic(g)
  /\ KeysOf(g) # {}
  /\ \A K \in (SUBSET KeysOf(g)) \ {{}} :
       /\ (\A k \in K : Before(g, k) \subseteq K) => K \cap Sources(g) # {}
       /\ (\A k \in K : After(g, k) \subseteq K) => K \cap Outputs(g) # {}
==============================================================================
