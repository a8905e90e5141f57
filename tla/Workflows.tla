------------------------------- MODULE Workflows -------------------------------
(***************************************************************************)
(* Saving, loading and deleting workflows (apps/api/src/routes/             *)
(* workflows.ts). A save is checked outside any transaction against what    *)
(* was read before; the transaction then locks the workspace and the row    *)
(* and decides on the row it locked. Saves run side by side.                *)
(*                                                                          *)
(* A PUT may leave out the status or the autonomy. It is then checked with  *)
(* what the row read first says, and stored with what the locked row says.  *)
(* Whether an account, a profile or a connection a card names can be used   *)
(* is the choice of the environment: a check may fail for it at any time.   *)
(* "draft" stands for every status but "active", also paused and archived.  *)
(***************************************************************************)
EXTENDS WorkflowGraph, Sequences

CONSTANTS
  Flows,       \* workflows of the workspace
  Calls,       \* bound: saves in flight at a time
  MaxActive,   \* subscription.maxWorkflows
  MaxSaves,    \* bound on the saves that succeed
  Nothing

ASSUME WorkflowConstants ==
  /\ IsFiniteSet(Flows) /\ IsFiniteSet(Calls)
  /\ MaxActive \in Nat /\ MaxSaves \in Nat
  /\ Nothing \notin Flows \cup Calls

VARIABLES
  flow,   \* workflows with their versions
  call,   \* saves the server works on
  saves   \* saves that succeeded

api == <<flow, call, saves>>

EmptyGraph == [cards |-> [k \in {} |-> [kind |-> "ai", set |-> TRUE]], edges |-> {}]

\* What updateWorkflowSchema lets a request leave out.
Optional == {"status", "mode"}
NoSettings == [active |-> FALSE, auto |-> FALSE]

Without(status) == [status |-> status, auto |-> FALSE, versions |-> <<>>]
NoFlow == Without("none")
NoCall == [state |-> "free", flow |-> Nothing, graph |-> EmptyGraph,
           active |-> FALSE, auto |-> FALSE, omits |-> {}, read |-> NoSettings, version |-> 0]

Stored(w) == flow[w].status \in {"draft", "active"}
Active == {w \in Flows : flow[w].status = "active"}
Current(w) == Len(flow[w].versions)
SettingsOf(row) == [active |-> row.status = "active", auto |-> row.auto]

ApiInit(graphs) ==
  /\ \E g \in graphs, w \in Flows :
       flow = [x \in Flows |-> IF x = w
         THEN [status |-> "draft", auto |-> TRUE, versions |-> <<g>>] ELSE NoFlow]
  /\ call = [c \in Calls |-> NoCall]
  /\ saves = 0

-----------------------------------------------------------------------------
(* The checks of a save.                                                    *)

AutoSources == SourceKinds \ {"manual"}

\* autoWorkflowProblem: what can be said without the workspace's accounts.
RunsByItself(g) ==
  /\ ~GraphProblem(g, TRUE)
  /\ \E k \in KeysOf(g) : KindOf(g, k) \in AutoSources
  /\ \A k \in KeysOf(g) : KindOf(g, k) # "manual" /\ g.cards[k].set

Judged_AsDraft(g, active, auto) ==
  ~GraphProblem(g, FALSE) /\ (active /\ auto => \A k \in KeysOf(g) : g.cards[k].set)
Judged(g, active, auto) ==
  ~GraphProblem(g, active) /\ (active /\ auto => RunsByItself(g))

\* What a request says of its workflow, over what a row says.
Over(x, settings) ==
  [active |-> IF "status" \in x.omits THEN settings.active ELSE x.active,
   auto |-> IF "mode" \in x.omits THEN settings.auto ELSE x.auto]

Accepted(x, settings) ==
  LET s == Over(x, settings) IN Judged(x.graph, s.active, s.auto)

\* A request that leaves the status out keeps the place there is. The locked
\* row, not the one read before, says whether a place is taken.
TakesPlace_New(c) == call[c].active /\ call[c].flow = Nothing
TakesPlace(c) ==
  /\ "status" \notin call[c].omits /\ call[c].active
  /\ call[c].flow = Nothing \/ flow[call[c].flow].status # "active"

Reserved(c) == TakesPlace(c) => Cardinality(Active) < MaxActive

-----------------------------------------------------------------------------
(* POST /workflows and PUT /workflows/:id.                                  *)

Request(c, w, g, asked, omits) ==
  /\ call[c].state = "free"
  /\ call' = [call EXCEPT ![c] =
       [state |-> "sent", flow |-> w, graph |-> g, active |-> asked.active, auto |-> asked.auto,
        omits |-> omits, read |-> NoSettings, version |-> 0]]

To(c, state) == call' = [call EXCEPT ![c].state = state]

\* The row as the handler reads it; a POST has none.
Row(c) == IF call[c].flow = Nothing THEN NoSettings ELSE SettingsOf(flow[call[c].flow])

Passes_AsAsked(c) == Judged(call[c].graph, call[c].active, call[c].auto)
Passes(c) == Accepted(call[c], Row(c))

\* The existing row, the graph and the settings are looked at; the handler
\* keeps the row it read.
Judge(c) ==
  /\ call[c].state = "sent"
  /\ \/ /\ call[c].flow # Nothing => Stored(call[c].flow)
        /\ Passes(c)
        /\ call' = [call EXCEPT ![c].state = "judged", ![c].read = Row(c)]
     \/ /\ \/ call[c].flow # Nothing /\ ~Stored(call[c].flow)
           \/ ~Passes(c)
           \/ Over(call[c], Row(c)) = [active |-> TRUE, auto |-> TRUE]
        /\ To(c, "refused")
  /\ UNCHANGED <<flow, saves>>

\* The row after the save, with its new version.
Written(c, row) ==
  LET s == Over(call[c], SettingsOf(row)) IN
  [status |-> IF s.active THEN "active" ELSE "draft", auto |-> s.auto,
   versions |-> Append(row.versions, call[c].graph)]

\* One transaction under the workspace's and the workflow's row locks.
Commit(c) ==
  /\ call[c].state = "judged"
  /\ Reserved(c)
  /\ saves < MaxSaves /\ saves' = saves + 1
  /\ \E w \in Flows :
       /\ IF call[c].flow = Nothing THEN flow[w].status = "none" ELSE w = call[c].flow /\ Stored(w)
       /\ flow' = [flow EXCEPT ![w] = Written(c, @)]
       /\ call' = [call EXCEPT ![c].state = "done", ![c].flow = w, ![c].version = Current(w) + 1]

\* The plan is full, the row is gone, or the workspace may not write.
Decline(c) ==
  /\ call[c].state = "judged"
  /\ To(c, "refused")
  /\ UNCHANGED <<flow, saves>>

Save(c) == Judge(c) \/ Commit(c) \/ Decline(c)

\* DELETE: refuses an active workflow; its runs and publications are elsewhere.
DeleteFlow(w) ==
  /\ flow[w].status = "draft"
  /\ flow' = [flow EXCEPT ![w] = Without("deleted")]
  /\ UNCHANGED <<call, saves>>
==============================================================================
