------------------------------- MODULE Builder -------------------------------
(***************************************************************************)
(* The workflow editor (apps/web/app/components/workflow-builder.tsx) in    *)
(* several browsers over the workflow routes. The canvas is edited while a  *)
(* workflow still loads and while a save is out; an answer may never come,  *)
(* whatever the server did with the request. Other clients use the same     *)
(* routes and may leave out what the editor always says.                    *)
(*                                                                          *)
(* The editor compares its canvas with the snapshot it took when it last    *)
(* loaded or saved. That it warns of a difference only once something was   *)
(* loaded (line 223) is left out: the snapshot is kept in any case.         *)
(***************************************************************************)
EXTENDS Workflows, FiniteSetsExt

CONSTANTS
  Browsers,
  Goals,      \* graphs to start from; their keys are numbers
  Addable,    \* bound: kinds of card a person adds
  Sendable,   \* bound: graphs that clients other than the editor send
  MaxMoves,   \* bound on edits, new workflows, deletions and other clients' requests
  MaxLost     \* bound on answers that never arrive

Bundles(g) == {k \in KeysOf(g) : KindOf(g, k) = "bundle"}

\* Graphs the editor or a model makes up: the old sources are only stored ones.
Templates == {g \in Goals : \A k \in KeysOf(g) : KindOf(g, k) # "bundle"}

\* What the ends of an edge depend on.
Class(card) ==
  IF card.kind \in SourceKinds THEN "source"
  ELSE IF card.kind \in OutputKinds THEN "output" ELSE "middle"

\* A goal is a graph the editor can draw, with one old source at most (a
\* bound); a key that two goals share is the same kind of card in both.
ASSUME BuilderConstants ==
  /\ Addable \subseteq Kinds \ {"bundle"}
  /\ Sendable \subseteq Templates \cup {EmptyGraph}
  /\ MaxMoves \in Nat /\ MaxLost \in Nat
  /\ IsFiniteSet(Browsers) /\ IsFiniteSet(Goals)
  /\ \A g \in Goals :
       /\ IsGraph(g) /\ Acyclic(g)
       /\ \A e \in g.edges : Directed(g, e[1], e[2])
       /\ \A k, l \in Bundles(g) : k = l
       /\ \A h \in Goals : \A k \in KeysOf(g) \cap KeysOf(h) :
            Class(g.cards[k]) = Class(h.cards[k])

VARIABLES
  tab,    \* what each browser shows
  moves,  \* edits so far
  lost    \* answers lost so far

vars == <<api, tab, moves, lost>>

\* removed is removedCard with the edges it had, again says it was put back.
NoCard == [key |-> Nothing, card |-> Nothing, edges |-> {}]
Blank == [page |-> "closed", target |-> Nothing, row |-> FALSE,
          flow |-> Nothing, canvas |-> EmptyGraph, auto |-> FALSE,
          saved |-> [graph |-> EmptyGraph, auto |-> FALSE],
          removed |-> NoCard, again |-> FALSE, busy |-> Nothing, agreed |-> Nothing]

Init ==
  /\ ApiInit(Goals)
  /\ tab = [b \in Browsers |-> Blank]
  /\ moves = 0 /\ lost = 0

Move ==
  /\ moves < MaxMoves
  /\ moves' = moves + 1
  /\ UNCHANGED <<api, lost>>

\* The graphs there are, and the cards that were taken out.
InPlay ==
  Goals \cup {tab[b].canvas : b \in Browsers} \cup {call[c].graph : c \in Calls}
  \cup UNION {{flow[w].versions[n] : n \in 1 .. Current(w)} : w \in Flows}
Lifted == {r \in {tab[b].removed : b \in Browsers} : r # NoCard}

\* Keys carry the time and a random part: no key is made twice.
InUse ==
  (UNION {KeysOf(g) : g \in InPlay})
  \cup UNION {{r.key} \cup UNION {{e[1], e[2]} : e \in r.edges} : r \in Lifted}

freshKey == 1 + Max(InUse \cup {0})

Put(g, k, card) ==
  [g EXCEPT !.cards = [x \in KeysOf(g) \cup {k} |-> IF x = k THEN card ELSE g.cards[x]]]

-----------------------------------------------------------------------------
(* Opening the editor.                                                      *)

\* An old source of two addresses becomes two sources with the same outputs.
Split(g, k, key) ==
  LET two == Put(Put(g, k, [kind |-> "feed", set |-> TRUE]), key, [kind |-> "feed", set |-> TRUE])
  IN [two EXCEPT !.edges = @ \cup {<<key, to>> : to \in After(g, k)}]
migrate(g, key) ==
  IF Bundles(g) = {} THEN g ELSE Split(g, CHOOSE k \in Bundles(g) : TRUE, key)

OpenNew(b) ==
  /\ tab[b].page = "closed"
  /\ Move
  /\ \E g \in Templates \cup {EmptyGraph} :
       tab' = [tab EXCEPT ![b] = [Blank EXCEPT !.page = "ready", !.canvas = g]]

Open(b, w) ==
  /\ tab[b].page = "closed"
  /\ Stored(w)
  /\ tab' = [tab EXCEPT ![b] = [Blank EXCEPT !.page = "opening", !.target = w]]
  /\ UNCHANGED <<api, moves, lost>>

\* GET /workflows/:id reads the row first, then the latest version; a row
\* deleted in between has none, and the editor shows an empty canvas.
LoadRow(b) ==
  /\ tab[b].page = "opening"
  /\ tab' = [tab EXCEPT ![b].page = IF Stored(tab[b].target) THEN "loading" ELSE "ready",
                        ![b].row = flow[tab[b].target].status = "active",
                        ![b].target = IF Stored(@) THEN @ ELSE Nothing]
  /\ UNCHANGED <<api, moves, lost>>

LoadVersion(b) ==
  LET w == tab[b].target
      key == freshKey
      g == IF Stored(w) THEN migrate(flow[w].versions[Current(w)], key) ELSE EmptyGraph
  IN /\ tab[b].page = "loading"
     /\ tab' = [tab EXCEPT ![b].page = "ready", ![b].flow = w,
          ![b].target = Nothing, ![b].row = FALSE, ![b].canvas = g, ![b].auto = tab[b].row, ![b].again = FALSE,
          ![b].saved = [graph |-> g, auto |-> tab[b].row],
          ![b].agreed = [flow |-> w, version |-> Current(w), active |-> tab[b].row, key |-> key]]
     /\ UNCHANGED <<api, moves, lost>>

\* No answer: the editor stays as it is and may save what it shows.
LoadFails(b) ==
  /\ tab[b].page = "loading"
  /\ lost < MaxLost
  /\ lost' = lost + 1
  /\ tab' = [tab EXCEPT ![b].page = "ready", ![b].target = Nothing, ![b].row = FALSE]
  /\ UNCHANGED <<api, moves>>

Close(b) ==
  /\ tab[b].page = "ready" /\ tab[b].busy = Nothing
  /\ tab' = [tab EXCEPT ![b] = Blank]
  /\ UNCHANGED <<api, moves, lost>>

-----------------------------------------------------------------------------
(* Editing. The canvas does not wait for a load or for a save.              *)

Shown(b) == tab[b].page # "closed"

Edit(b, g) ==
  /\ Shown(b)
  /\ Move
  /\ tab' = [tab EXCEPT ![b].canvas = g]

add(b) ==
  \E kind \in Addable :
    Edit(b, Put(tab[b].canvas, freshKey, [kind |-> kind, set |-> kind \notin {"feed", "publish"}]))

\* A setting is filled in or emptied.
update(b) ==
  \E k \in KeysOf(tab[b].canvas) :
    /\ KindOf(tab[b].canvas, k) \in {"feed", "publish"}
    /\ Edit(b, [tab[b].canvas EXCEPT !.cards[k].set = ~@])

switchSource(b) ==
  \E k \in KeysOf(tab[b].canvas) :
    /\ KindOf(tab[b].canvas, k) \in {"feed", "manual"}
    /\ \E kind \in {"feed", "manual"} :
         Edit(b, [tab[b].canvas EXCEPT !.cards[k] = [kind |-> kind, set |-> kind = "manual"]])

remove(b) ==
  \E k \in KeysOf(tab[b].canvas) :
    LET g == tab[b].canvas
        touching == {e \in g.edges : k \in {e[1], e[2]}}
    IN /\ Shown(b)
       /\ Move
       /\ tab' = [tab EXCEPT
            ![b].canvas = [cards |-> [x \in KeysOf(g) \ {k} |-> g.cards[x]], edges |-> g.edges \ touching],
            ![b].removed = [key |-> k, card |-> g.cards[k], edges |-> touching]]

\* The card comes back, and the edges whose ends are there.
PutBack(g, out) ==
  LET whole == IF out.key \in KeysOf(g) THEN g ELSE Put(g, out.key, out.card)
  IN [whole EXCEPT !.edges = @ \cup {e \in out.edges : {e[1], e[2]} \subseteq KeysOf(whole)}]

undo(b) ==
  /\ tab[b].removed # NoCard
  /\ tab' = [tab EXCEPT ![b].canvas = PutBack(@, tab[b].removed), ![b].removed = NoCard, ![b].again = TRUE]
  /\ UNCHANGED <<api, moves, lost>>

\* visit: the target does not lead back to the source.
Closes_Never(g, from, to) == FALSE
Closes(g, from, to) == from \in Reached(g, {to})

connect(b) ==
  \E from, to \in KeysOf(tab[b].canvas) :
    LET g == tab[b].canvas IN
    /\ KeepsCollection(g, from, to) /\ Directed(g, from, to)
    /\ <<from, to>> \notin g.edges
    /\ ~Closes(g, from, to)
    /\ Edit(b, [g EXCEPT !.edges = @ \cup {<<from, to>>}])

removeEdge(b) ==
  \E e \in tab[b].canvas.edges : Edit(b, [tab[b].canvas EXCEPT !.edges = @ \ {e}])

\* POST /workflows/generate answers with a graph that would be accepted as
\* active; an address it was not given and an account it made up are emptied.
\* The suggestion replaces the canvas of an editor that has no workflow yet,
\* under keys of its own.
Suggested(g) ==
  LET shift == freshKey IN
  [cards |-> [k \in {x + shift : x \in KeysOf(g)} |->
     [kind |-> KindOf(g, k - shift), set |-> KindOf(g, k - shift) \notin {"feed", "publish"}]],
   edges |-> {<<e[1] + shift, e[2] + shift>> : e \in g.edges}]

applyGeneratedWorkflow(b) ==
  /\ Shown(b) /\ tab[b].flow = Nothing
  /\ Move
  /\ \E g \in Templates :
       /\ ~GraphProblem(g, TRUE)
       /\ tab' = [tab EXCEPT ![b].auto = FALSE, ![b].canvas = Suggested(g)]

Editing(b) ==
  \/ add(b) \/ update(b) \/ switchSource(b) \/ remove(b) \/ undo(b)
  \/ connect(b) \/ removeEdge(b) \/ applyGeneratedWorkflow(b)

-----------------------------------------------------------------------------
(* Saving.                                                                  *)

\* Only a person starts it: no feed that a poller reads.
Manual(g) ==
  /\ \E k \in KeysOf(g) : KindOf(g, k) = "manual"
  /\ \A k \in KeysOf(g) : KindOf(g, k) \notin {"feed", "bundle"}

\* "save" keeps the mode, the other button turns it over; where only a person
\* starts it that button saves a draft and runs it.
MaySave(b, active) ==
  \/ active = tab[b].auto
  \/ ~active /\ Manual(tab[b].canvas)
  \/ ~Manual(tab[b].canvas) /\ KeysOf(tab[b].canvas) # {}

save(b, active) ==
  /\ Shown(b) /\ tab[b].busy = Nothing
  /\ MaySave(b, active)
  /\ \E c \in Calls :
       /\ Request(c, tab[b].flow, tab[b].canvas,
                  [active |-> active, auto |-> ~Manual(tab[b].canvas)], {})
       /\ tab' = [tab EXCEPT ![b].busy = c]
  /\ UNCHANGED <<flow, saves, moves, lost>>

\* The snapshot is what the handler closed over when it was called.
Snapshot_OfCanvas(b, c) == tab[b].canvas
Snapshot(b, c) == call[c].graph

Answered(b) ==
  LET c == tab[b].busy IN
  /\ c # Nothing
  /\ \/ /\ call[c].state = "done"
        /\ tab' = [tab EXCEPT ![b].busy = Nothing, ![b].flow = call[c].flow,
             ![b].auto = call[c].active, ![b].removed = NoCard,
             ![b].saved = [graph |-> Snapshot(b, c), auto |-> call[c].active],
             ![b].agreed = [flow |-> call[c].flow, version |-> call[c].version,
                            active |-> call[c].active, key |-> Nothing]]
     \/ /\ call[c].state = "refused"
        /\ tab' = [tab EXCEPT ![b].busy = Nothing]
  /\ call' = [call EXCEPT ![c] = NoCall]
  /\ UNCHANGED <<flow, saves, moves, lost>>

\* The editor reports a failure and is free; the server may go on.
AnswerLost(b) ==
  /\ tab[b].busy # Nothing
  /\ lost < MaxLost
  /\ lost' = lost + 1
  /\ tab' = [tab EXCEPT ![b].busy = Nothing]
  /\ UNCHANGED <<api, moves>>

\* A client that is no editor sends a POST, which has a default for what it
\* leaves out, or a PUT, which has none.
Ask(c) ==
  /\ \E g \in Sendable, w \in {x \in Flows : Stored(x)} \cup {Nothing}, omits \in SUBSET Optional :
       /\ w = Nothing => omits = {}
       /\ \E active \in BOOLEAN, auto \in BOOLEAN :
            /\ "status" \in omits => ~active
            /\ "mode" \in omits => ~auto
            /\ Request(c, w, g, [active |-> active, auto |-> auto], omits)
  /\ moves < MaxMoves /\ moves' = moves + 1
  /\ UNCHANGED <<flow, saves, tab, lost>>

\* Nobody waits for what the server has finished.
Forgotten(c) ==
  /\ call[c].state \in {"done", "refused"}
  /\ \A b \in Browsers : tab[b].busy # c
  /\ call' = [call EXCEPT ![c] = NoCall]
  /\ UNCHANGED <<flow, saves, tab, moves, lost>>

-----------------------------------------------------------------------------
Browsing(b) ==
  \/ OpenNew(b) \/ \E w \in Flows : Open(b, w)
  \/ LoadRow(b) \/ LoadVersion(b) \/ LoadFails(b) \/ Close(b)
  \/ Editing(b)
  \/ \E active \in BOOLEAN : save(b, active)
  \/ Answered(b) \/ AnswerLost(b)

Serving ==
  \/ (\E c \in Calls : Save(c)) /\ UNCHANGED <<tab, moves, lost>>
  \/ (\E w \in Flows : DeleteFlow(w)) /\ moves < MaxMoves /\ moves' = moves + 1 /\ UNCHANGED <<tab, lost>>

Next ==
  \/ \E b \in Browsers : Browsing(b)
  \/ Serving
  \/ \E c \in Calls : Ask(c) \/ Forgotten(c)

Spec == Init /\ [][Next]_vars

-----------------------------------------------------------------------------
(* Properties.                                                              *)

Unchanged(b) == [graph |-> tab[b].canvas, auto |-> tab[b].auto] = tab[b].saved

\* An editor of a workflow whose canvas and mode are those of its snapshot
\* shows what the server stored as the version it last loaded or saved, and the
\* mode it was told with it, also where the load failed and only a save
\* answered: nothing edited while a save was out is taken for saved
\* (workflow-builder.tsx:223, 744).
CleanMeansSaved ==
  \A b \in Browsers :
    tab[b].flow # Nothing /\ Unchanged(b) =>
      LET a == tab[b].agreed IN
      /\ tab[b].flow = a.flow
      /\ tab[b].auto = a.active
      /\ Stored(a.flow) => tab[b].canvas = migrate(flow[a.flow].versions[a.version], a.key)

\* Whatever is drawn in whatever order, an edge joins two cards of the canvas,
\* leaves no output and enters no source; without a card that was put back no
\* circle can be drawn (workflow-builder.tsx:660, 787).
CanvasSound ==
  \A b \in Browsers :
    LET g == tab[b].canvas IN
    /\ \A e \in g.edges : {e[1], e[2]} \subseteq KeysOf(g) /\ Directed(g, e[1], e[2])
    /\ tab[b].again \/ Acyclic(g)

FilledIn(g) == \A k \in KeysOf(g) : KindOf(g, k) # "manual" /\ g.cards[k].set

\* The save of c ends for w in this step, and the setting it left out has been
\* switched on since its handler read the row.
SwitchedOn(c, w, setting) ==
  /\ call[c].state = "judged" /\ call[c].flow = w /\ call'[c].state = "done"
  /\ setting \in call[c].omits
  /\ CASE setting = "status" -> flow[w].status = "active" /\ ~call[c].read.active
       [] setting = "mode" -> flow[w].auto /\ ~call[c].read.auto

\* Whatever is stored as active carries every item from a source to an output,
\* and has no card left to fill in if it runs by itself, unless the save left
\* out a setting that another save switched on between the check and the lock:
\* no other order of saves gets a graph past the checks (workflows.ts:791, 813).
StoresConducting ==
  [][\A w \in Flows :
       flow'[w].status = "active" /\ flow'[w] # flow[w] =>
         LET g == flow'[w].versions[Len(flow'[w].versions)]
             Late(setting) == \E c \in Calls : SwitchedOn(c, w, setting)
         IN /\ Conducts(g) \/ Late("status")
            /\ flow'[w].auto => FilledIn(g) \/ Late("status") \/ Late("mode")]_vars

\* The current version of an active workflow carries every item from a source
\* to an output (apps/api/src/collection-publication-flow.test.ts:57). It is so
\* where only editors save, and not where a save may leave out the status.
ActiveConducts == \A w \in Active : Conducts(flow[w].versions[Current(w)])

\* Never more active workflows than the plan has places, with saves side by
\* side (workflows.ts:603, tenant-policy.ts:29).
WithinPlan == Cardinality(Active) <= MaxActive

-----------------------------------------------------------------------------
(* The invariants behind them.                                              *)

FlowStates == {"none", "draft", "active", "deleted"}
CallStates == {"free", "sent", "judged", "done", "refused"}
Pages == {"closed", "opening", "loading", "ready"}

IsFlow(f) ==
  /\ f \in [status : FlowStates, auto : BOOLEAN,
            versions : Seq({f.versions[n] : n \in 1 .. Len(f.versions)})]
  /\ \A n \in 1 .. Len(f.versions) : IsGraph(f.versions[n])
  /\ f.status \in {"draft", "active"} => Len(f.versions) > 0

IsCall(x) ==
  /\ x \in [state : CallStates, flow : Flows \cup {Nothing}, graph : {x.graph},
            active : BOOLEAN, auto : BOOLEAN, omits : SUBSET Optional,
            read : [active : BOOLEAN, auto : BOOLEAN], version : Nat]
  /\ IsGraph(x.graph)
  /\ x.flow = Nothing => x.omits = {}

IsRemoved(r) ==
  /\ r \in [key : Nat, card : Card, edges : SUBSET (Nat \X Nat)]
  /\ IsFiniteSet(r.edges)

IsTab(t) ==
  /\ t \in [page : Pages, target : Flows \cup {Nothing}, row : BOOLEAN,
            flow : Flows \cup {Nothing}, canvas : {t.canvas}, auto : BOOLEAN,
            saved : [graph : {t.saved.graph}, auto : BOOLEAN],
            removed : {t.removed}, again : BOOLEAN, busy : Calls \cup {Nothing},
            agreed : {t.agreed}]
  /\ IsGraph(t.canvas)
  /\ t.page \in {"opening", "loading"} => t.target \in Flows
  /\ t.removed = NoCard \/ IsRemoved(t.removed)

\* The type invariant: every workflow, save and editor has its type.
TypeOK ==
  /\ flow = [w \in Flows |-> flow[w]] /\ \A w \in Flows : IsFlow(flow[w])
  /\ call = [c \in Calls |-> call[c]] /\ \A c \in Calls : IsCall(call[c])
  /\ tab = [b \in Browsers |-> tab[b]] /\ \A b \in Browsers : IsTab(tab[b])
  /\ saves \in Nat /\ moves \in Nat /\ lost \in Nat

\* The versions have no circle and one old source at most.
FlowKept(w) ==
  \A n \in 1 .. Current(w) :
    Acyclic(flow[w].versions[n]) /\ \A k, l \in Bundles(flow[w].versions[n]) : k = l

Once(w) == flow[w].status # "none"

\* A save carries what was checked against the row it read, and its answer what
\* was stored.
CallKept(c) ==
  LET x == call[c] IN
  /\ Bundles(x.graph) = {}
  /\ x.state = "judged" => Accepted(x, x.read)
  /\ x.state = "done" =>
       /\ x.flow \in Flows /\ Once(x.flow)
       /\ Stored(x.flow) =>
            x.version \in 1 .. Current(x.flow) /\ flow[x.flow].versions[x.version] = x.graph

\* The snapshot is the version that was agreed on, as long as it is stored.
TabKept(b) ==
  LET t == tab[b] IN
  /\ Bundles(t.canvas) = {}
  /\ t.removed # NoCard => t.removed.card.kind # "bundle"
  /\ t.again \/ Acyclic(t.canvas)
  /\ t.page \in {"opening", "loading"} => Once(t.target)
  /\ t.flow # Nothing =>
       LET a == t.agreed IN
       /\ t.flow = a.flow /\ Once(a.flow)
       /\ t.saved.auto = a.active
       /\ Stored(a.flow) =>
            /\ a.version \in 1 .. Current(a.flow)
            /\ t.saved.graph = migrate(flow[a.flow].versions[a.version], a.key)

\* A key is one class of card wherever it occurs, and every edge is one that
\* may be drawn, also where it lost its ends.
Mark(k, class) ==
  \/ \E g \in InPlay : k \in KeysOf(g) /\ Class(g.cards[k]) = class
  \/ \E r \in Lifted : k = r.key /\ Class(r.card) = class
Classes == {"source", "middle", "output"}

Joined(e) == e[1] # e[2] /\ ~Mark(e[1], "output") /\ ~Mark(e[2], "source")

OneClass == \A k \in InUse : \A x, y \in Classes : Mark(k, x) /\ Mark(k, y) => x = y
AllJoined ==
  /\ \A g \in InPlay : \A e \in g.edges : Directed(g, e[1], e[2])
  /\ \A r \in Lifted : \A e \in r.edges : Joined(e)

IInv ==
  /\ \A w \in Flows : FlowKept(w)
  /\ \A c \in Calls : CallKept(c)
  /\ \A b \in Browsers : TabKept(b)
  /\ OneClass /\ AllJoined
  /\ WithinPlan
==============================================================================
