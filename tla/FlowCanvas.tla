----------------------------- MODULE FlowCanvas -----------------------------
(***************************************************************************)
(* The canvas of the flow editor (web, screens/flows: FlowCanvas.tsx,      *)
(* flow-canvas-model.ts, palette-model.ts) and the store that saves what   *)
(* is not part of the definition: where a node is drawn and what it is     *)
(* called (flow-layout-model.ts).  An edit changes both at once and is one *)
(* step of the undo history; the definition goes to the editor, the layout *)
(* to the daemon, one request at a time.                                   *)
(***************************************************************************)
EXTENDS Naturals, Sequences, FiniteSets, SequencesExt, FiniteSetsExt

CONSTANTS
  Plugins,      \* what may be added: [start, error, enabled, outs]
  OpenFlows,    \* definitions a flow may be opened with
  SmallFlows,   \* definitions to delete from
  MaxNodeId,    \* bound: numbers of nodes
  MaxPast,      \* steps that can be undone; the code's are 100
  MaxCanvasEdits, \* bound: edits
  MaxLayoutCuts \* bound: layout saves that fail

VARIABLES
  shown,        \* the definition the editor holds
  history,      \* the snapshots of the canvas
  sequence,     \* the number the next node is looked for from
  store,        \* the layout store of this browser
  wire,         \* its request
  kept,         \* the layout the daemon has
  canvasEdits, layoutCuts

canvasVars == <<shown, history, sequence, store, wire, kept, canvasEdits, layoutCuts>>

\* A definition: nodes by their number, each a plugin and what was typed into it, and edges.
Edge(f, o, t) == [from |-> f, out |-> o, to |-> t]
Node(p)       == [plugin |-> p, inputs |-> 0]
Nodes(d)      == DOMAIN d.nodes
Plugin(d, n)  == d.nodes[n].plugin

Starts(d)       == {n \in Nodes(d) : Plugin(d, n).start}
ErrorEntries(d) == {n \in Nodes(d) : Plugin(d, n).error}
Next1(d, ns)    == {e.to : e \in {x \in d.edges : x.from \in ns}}

-----------------------------------------------------------------------------
(* The layout: of each node a place, and the name the operator gave it.    *)

Dragged == 99
View(place, name) == [at |-> place, name |-> name]
EmptyLayout == [n \in {} |-> View(0, "")]
Over(under, top) == [n \in DOMAIN under \cup DOMAIN top |-> IF n \in DOMAIN top THEN top[n] ELSE under[n]]

\* autoLayout: layers from the entries, and below them what no entry reaches.
Layers(d) ==
  LET layer[i \in 0..MaxNodeId] ==
        IF i = 0 THEN Starts(d) \cup ErrorEntries(d)
        ELSE Next1(d, layer[i - 1]) \ UNION {layer[j] : j \in 0..(i - 1)}
  IN layer

AutoLayout(d) ==
  LET reached == {i \in 0..MaxNodeId : Layers(d)[i] # {}}
      LayerOf(n) == {i \in reached : n \in Layers(d)[i]}
  IN [n \in Nodes(d) |-> View(IF LayerOf(n) = {} THEN 1 + Max(reached \cup {0}) ELSE Min(LayerOf(n)), "")]

Snapshot(d, l) == [def |-> d, layout |-> l]
Present == history.present
Fresh(d, l) == [past |-> <<>>, present |-> Snapshot(d, l), future |-> <<>>]

-----------------------------------------------------------------------------
(* The operations on a definition.  One that is refused returns it as it was.*)

\* nextNodeId: the first free number from the one the canvas has come to.
FreeId(d, from) == Min({n \in from..(MaxNodeId + 1) : n \notin Nodes(d)})

Addable(d, p) == p.enabled /\ (p.start => Starts(d) = {}) /\ (p.error => ErrorEntries(d) = {})

WithNode(d, n, p) == [d EXCEPT !.nodes = [m \in Nodes(d) \cup {n} |-> IF m = n THEN Node(p) ELSE d.nodes[m]]]

Wired(d, n, out) == \E e \in d.edges : e.from = n /\ e.out = out

ConnectStealing(d, e, old) == IF e.out > Plugin(d, e.from).outs THEN d ELSE [d EXCEPT !.edges = (@ \ old) \cup {e}]

\* connectNodes: a declared output, and never one that is wired; "old" is the edge that is
\* drawn anew, if there is one.
Connect(d, e, old) ==
  IF e.out > Plugin(d, e.from).outs \/ Wired([d EXCEPT !.edges = @ \ old], e.from, e.out)
  THEN d ELSE [d EXCEPT !.edges = (@ \ old) \cup {e}]

\* insertNodeOnEdge: the edge ends at the new node, whose chosen output goes on.
Insert(d, e, n, p, out) ==
  IF p.start \/ out > p.outs \/ ~Addable(d, p) THEN d
  ELSE [WithNode(d, n, p) EXCEPT !.edges = (@ \ {e}) \cup {[e EXCEPT !.to = n], Edge(n, out, e.to)}]

\* Where a path through deleted nodes comes out: each must have one output, wired by one
\* edge that is not deleted itself; no node stands for nowhere.
Nowhere == 0
WalkAnyBranch(d, removed, cut, n) ==
  LET Onward(m) == {e \in d.edges \ cut : e.from = m}
      walk[i \in 0..Cardinality(Nodes(d)), m \in Nodes(d)] ==
        IF m \notin removed THEN m
        ELSE IF i = 0 \/ Onward(m) = {} THEN Nowhere
        ELSE walk[i - 1, (CHOOSE e \in Onward(m) : TRUE).to]
  IN walk[Cardinality(Nodes(d)), n]
Walk(d, removed, cut, n) ==
  LET Leaving(m) == {e \in d.edges : e.from = m}
      walk[i \in 0..Cardinality(Nodes(d)), m \in Nodes(d)] ==
        IF m \notin removed THEN m
        ELSE IF i = 0 \/ Plugin(d, m).outs # 1 \/ Cardinality(Leaving(m)) # 1 \/ Leaving(m) \subseteq cut
        THEN Nowhere
        ELSE walk[i - 1, (CHOOSE e \in Leaving(m) : TRUE).to]
  IN walk[Cardinality(Nodes(d)), n]

\* deleteSelection: the start is protected, and an edge into a deleted node is healed.
Deleted(d, selected, cut) ==
  LET removed == selected \ Starts(d)
      staying == {e \in d.edges \ cut : e.from \notin removed}
      Healed(e) == [e EXCEPT !.to = Walk(d, removed, cut, e.to)]
  IN [nodes |-> [n \in Nodes(d) \ removed |-> d.nodes[n]],
      edges |-> {Healed(e) : e \in {x \in staying : Healed(x).to # Nowhere}}]

\* deleteCanvasSelection: the wires of a deleted node are its own, whether selected or not.
OwnWires(d, selected, cut) ==
  LET removed == selected \ Starts(d)
  IN {e \in cut : e.from \notin removed /\ e.to \notin removed}

-----------------------------------------------------------------------------
(* The history.                                                            *)

PushKeepingFuture(h, s) ==
  IF s = h.present THEN h
  ELSE [past |-> Append(IF Len(h.past) < MaxPast THEN h.past ELSE Tail(h.past), h.present),
        present |-> s, future |-> h.future]

\* The oldest step makes room, and what was undone is gone.
Push(h, s) ==
  IF s = h.present THEN h
  ELSE [past |-> Append(IF Len(h.past) < MaxPast THEN h.past ELSE Tail(h.past), h.present),
        present |-> s, future |-> <<>>]

Undone(h) == [past |-> Front(h.past), present |-> Last(h.past), future |-> <<h.present>> \o h.future]
Redone(h) == [past |-> Append(h.past, h.present), present |-> Head(h.future), future |-> Tail(h.future)]

-----------------------------------------------------------------------------
(* The layout store: one request at a time, and newer moves wait for it.   *)

Idle == [at |-> "none", layout |-> EmptyLayout]
Unsaved(s) == s.saving \/ s.error \/ s.layout # s.saved

\* persist: what is drawn now is sent, unless a request is on its way.
Persisted(s) == IF s.saving \/ ~Unsaved(s) THEN s ELSE [s EXCEPT !.saving = TRUE, !.error = FALSE]
Sent(s, w)   == IF s.saving \/ ~Unsaved(s) THEN w ELSE [at |-> "sent", layout |-> s.layout]

LayoutDrawn(layout) ==
  LET s == [store EXCEPT !.layout = layout]
  IN IF layout = store.layout THEN UNCHANGED <<store, wire>>
     ELSE store' = Persisted(s) /\ wire' = Sent(s, wire)

\* An answer acknowledges what was sent, and not what has been drawn since.
AcknowledgedAll(s, w) == [s EXCEPT !.saved = s.layout, !.saving = FALSE]
Acknowledged(s, w) == [s EXCEPT !.saved = w.layout, !.saving = FALSE]

ServeLayout ==
  /\ wire.at = "sent"
  /\ kept' = wire.layout /\ wire' = [wire EXCEPT !.at = "served"]
  /\ UNCHANGED <<shown, history, sequence, store, canvasEdits, layoutCuts>>

\* The request or its answer is lost, or the daemon refuses it.
CutLayout ==
  /\ wire.at \in {"sent", "served"} /\ layoutCuts < MaxLayoutCuts
  /\ wire' = [wire EXCEPT !.at = "failed"] /\ layoutCuts' = layoutCuts + 1
  /\ UNCHANGED <<shown, history, sequence, store, kept, canvasEdits>>

\* What was drawn meanwhile is sent at once; after an error it waits for the next move or for Retry.
TakeLayout ==
  /\ wire.at \in {"served", "failed"}
  /\ LET s == IF wire.at = "served" THEN Acknowledged(store, wire)
              ELSE [store EXCEPT !.saving = FALSE, !.error = TRUE]
     IN IF s.error THEN store' = s /\ wire' = Idle
        ELSE store' = Persisted(s) /\ wire' = Sent(s, Idle)
  /\ UNCHANGED <<shown, history, sequence, kept, canvasEdits, layoutCuts>>

RetryLayout ==
  /\ store.error
  /\ store' = Persisted(store) /\ wire' = Sent(store, wire)
  /\ UNCHANGED <<shown, history, sequence, kept, canvasEdits, layoutCuts>>

-----------------------------------------------------------------------------
(* The canvas.                                                             *)

MayEdit == canvasEdits < MaxCanvasEdits

\* commit: the snapshot is remembered and both halves of it are passed on.
Commit(d, layout) ==
  /\ MayEdit /\ canvasEdits' = canvasEdits + 1
  /\ history' = Push(history, Snapshot(d, layout))
  /\ shown' = d
  /\ LayoutDrawn(layout)
  /\ UNCHANGED <<kept, layoutCuts>>

Keeping(d) == Commit(d, Present.layout) /\ UNCHANGED sequence

\* A number is not given twice while the canvas is open.
CountsOn(n) == sequence' = n + 1

Placed(d, n) ==
  /\ d # shown
  /\ Commit(d, Over(Present.layout, [m \in {n} |-> View(Dragged, "")])) /\ CountsOn(n)

AddNode(p) ==
  LET n == FreeId(shown, sequence) IN
  n <= MaxNodeId /\ Addable(shown, p) /\ Placed(WithNode(shown, n, p), n)

InsertNode(e, p) ==
  LET n == FreeId(shown, sequence) IN
  n <= MaxNodeId /\ \E out \in 1..p.outs : Placed(Insert(shown, e, n, p, out), n)

Wire(f, out, t)      == LET d == Connect(shown, Edge(f, out, t), {}) IN d # shown /\ Keeping(d)
Rewire(e, f, out, t) == LET d == Connect(shown, Edge(f, out, t), {e}) IN d # shown /\ Keeping(d)

\* A box that selects a node selects its wires with it.
DeleteSelected(ns, es) ==
  LET d == Deleted(shown, ns, OwnWires(shown, ns, es)) IN d # shown /\ Keeping(d)

\* NodeConfig answers with the inputs and the name together.
Configure(n, inputs, name) ==
  /\ Commit([shown EXCEPT !.nodes[n].inputs = inputs],
            Over(Present.layout, [m \in {n} |-> View(Present.layout[n].at, name)]))
  /\ UNCHANGED sequence

\* settledLayout: the place is written over all the layout had of the node.
DragNode(n) ==
  /\ Present.layout[n].at # Dragged
  /\ Commit(shown, Over(Present.layout, [m \in {n} |-> View(Dragged, "")])) /\ UNCHANGED sequence

Tidy == Commit(shown, AutoLayout(shown)) /\ UNCHANGED sequence

\* travel: both halves of the snapshot are passed on.
Travel(h) ==
  /\ history' = h /\ shown' = h.present.def
  /\ LayoutDrawn(h.present.layout)
  /\ UNCHANGED <<sequence, kept, canvasEdits, layoutCuts>>

Undo == history.past # <<>> /\ Travel(Undone(history))
Redo == history.future # <<>> /\ Travel(Redone(history))

\* The editor puts another definition in (it has discarded its draft, or a publish was
\* answered with the daemon's): the history begins anew, here or on a canvas mounted anew,
\* whose numbers begin anew too.
Replaced(d) ==
  /\ MayEdit /\ canvasEdits' = canvasEdits + 1 /\ d # shown
  /\ shown' = d
  /\ \/ history' = Fresh(d, Over(AutoLayout(d), Present.layout)) /\ UNCHANGED sequence
     \/ history' = Fresh(d, Over(AutoLayout(d), store.layout)) /\ sequence' = 1
  /\ UNCHANGED <<store, wire, kept, layoutCuts>>

-----------------------------------------------------------------------------

CanvasInit ==
  /\ shown \in OpenFlows
  /\ kept = EmptyLayout
  /\ history = Fresh(shown, AutoLayout(shown))
  /\ sequence = 1
  /\ store = [layout |-> kept, saved |-> kept, saving |-> FALSE, error |-> FALSE]
  /\ wire = Idle /\ canvasEdits = 0 /\ layoutCuts = 0

CanvasNext ==
  \/ \E p \in Plugins : AddNode(p) \/ \E e \in shown.edges : InsertNode(e, p)
  \/ \E f, t \in Nodes(shown), out \in 1..2 :
       Wire(f, out, t) \/ \E e \in shown.edges : Rewire(e, f, out, t)
  \/ \E n, m \in Nodes(shown) : DeleteSelected({n, m}, {}) \/ \E e \in shown.edges : DeleteSelected({n}, {e})
  \/ \E n \in Nodes(shown) : DragNode(n) \/ \E i \in {0, 1} : Configure(n, i, "mine")
  \/ Tidy \/ Undo \/ Redo
  \/ \E d \in OpenFlows : Replaced(d)
  \/ ServeLayout \/ CutLayout \/ TakeLayout \/ RetryLayout

-----------------------------------------------------------------------------

\* The canvas, its history and the store have their types.
CanvasTypeOK ==
  LET IsDef(d) == Nodes(d) \subseteq 1..MaxNodeId /\ \A e \in d.edges : e.out \in 1..2
      IsLayout(l) == DOMAIN l \subseteq 1..MaxNodeId /\ \A n \in DOMAIN l : l[n].name \in {"", "mine"}
      IsSnapshot(s) == IsDef(s.def) /\ IsLayout(s.layout)
  IN /\ IsDef(shown) /\ IsSnapshot(history.present)
     /\ Len(history.past) <= MaxPast + Len(history.future)
     /\ \A i \in DOMAIN history.past : IsSnapshot(history.past[i])
     /\ \A i \in DOMAIN history.future : IsSnapshot(history.future[i])
     /\ sequence \in 1..(MaxNodeId + 1) /\ wire.at \in {"none", "sent", "served", "failed"}
     /\ IsLayout(store.layout) /\ IsLayout(store.saved) /\ IsLayout(kept) /\ IsLayout(wire.layout)
     /\ store.saving \in BOOLEAN /\ store.error \in BOOLEAN

\* No edit makes a graph the executor could not walk: edges join nodes that are there by
\* outputs they have, an output leads one way, and there is one start and one error entry
\* at most (flow-canvas-model.ts).
EditsKeepTheShape ==
  /\ \A e \in shown.edges : {e.from, e.to} \subseteq Nodes(shown) /\ e.out <= Plugin(shown, e.from).outs
  /\ \A e, f \in shown.edges : e.from = f.from /\ e.out = f.out => e = f
  /\ Cardinality(Starts(shown)) <= 1 /\ Cardinality(ErrorEntries(shown)) <= 1

\* What the canvas draws is what the editor holds, and every node has a place, through undo and
\* redo and when the editor puts another definition in (FlowCanvas.tsx).
DrawnIsHeld == Present.def = shown /\ Nodes(shown) \subseteq DOMAIN Present.layout

\* A layout that is said to be saved is the one the daemon has, and one that is drawn and not
\* saved is on its way or is shown as failed (createLayoutStore).
LayoutIsSaved ==
  /\ store.layout = store.saved /\ ~store.saving /\ ~store.error => kept = store.layout
  /\ store.saving <=> wire.at # "none"
  /\ store.layout # store.saved => store.saving \/ store.error

\* Deleting nodes joins what came before them to what came after only when every file that
\* entered them would have come out there, and deletes no node but those selected, and never
\* the start (deleteSelection): of every small graph.
HealsTheOnlyWay ==
  \A d \in SmallFlows : \A ns \in SUBSET Nodes(d), cut \in {{}} \cup {{e} : e \in d.edges} :
    LET after == Deleted(d, ns, cut)
        removed == Nodes(d) \ Nodes(after)
        Inside(n) == LET grow[i \in 0..Cardinality(removed)] ==
                           IF i = 0 THEN {n} ELSE grow[i - 1] \cup Next1(d, grow[i - 1] \cap removed)
                     IN grow[Cardinality(removed)]
        OneWay(n) == /\ Cardinality(Inside(n) \ removed) = 1
                     /\ \A m \in Inside(n) \cap removed :
                          Plugin(d, m).outs = 1 /\ \E e \in d.edges \ cut : e.from = m
    IN /\ removed \subseteq ns /\ Starts(d) \subseteq Nodes(after)
       /\ after.edges = {[e EXCEPT !.to = CHOOSE t \in Inside(e.to) : t \notin removed] :
                           e \in {x \in d.edges \ cut : x.from \notin removed /\ OneWay(x.to)}}

\* The steps that are remembered are one line: undo and redo move along it, names and places
\* included, an edit cuts it off after what is drawn and adds to it, and the layout that is
\* drawn then is the one that is saved (pushHistory, undoHistory, redoHistory).
UndoIsExact ==
  [][LET UpTo(h) == h.past \o <<h.present>>
         Line(h) == UpTo(h) \o h.future
     IN history' # history /\ history'.past # <<>> =>
          /\ \/ Line(history') = Line(history)
             \/ Line(history') \in {Append(UpTo(history), Present'), Append(Tail(UpTo(history)), Present')}
          /\ Present'.layout # Present.layout => store'.layout = Present'.layout]_canvasVars

\* Does not hold: a drag writes the place over the name, and so does Auto-layout ("A name the
\* operator typed wins outright", flow-canvas-model.ts).
NameSurvivesMove ==
  [][\A n \in Nodes(shown) : DragNode(n) \/ Tidy => Present'.layout[n].name = Present.layout[n].name]_canvasVars

CanvasSpec == CanvasInit /\ [][CanvasNext]_canvasVars
=============================================================================
