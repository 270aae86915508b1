----------------------------- MODULE FlowEditor -----------------------------
(***************************************************************************)
(* One flow as its editors see it: the definition that is published, its   *)
(* one saved draft, its versions (flow-repo.ts, flow-version-repo.ts,      *)
(* routes/flows.ts), and the browser tabs in which people edit it          *)
(* (FlowEditor.tsx).  A definition stands for its own hash.  A request and *)
(* its answer are one step; between two requests of a tab anything of      *)
(* another tab, of a script or of a restore may happen.                    *)
(***************************************************************************)
EXTENDS Naturals, Sequences

CONSTANTS
  Graphs,       \* definitions that validate
  Unfinished,   \* definitions that are well formed and do not validate
  Tabs,
  MaxVersions   \* bound: publishes of the flow

VARIABLES
  published,    \* the live definition
  versions,     \* what was published, oldest first
  draft,        \* the saved draft of the flow, or NoDraft
  tabs,         \* what each tab shows
  buffers       \* unsaved graphs kept outside the component of each tab

editorVars == <<published, versions, draft, tabs, buffers>>

Canvas  == Graphs \cup Unfinished
NoDraft == [graph |-> 0, base |-> 0, from |-> 0]

\* "from" is the published definition the edits began with: nothing reads it.
Closed == [step |-> "closed", graph |-> 0, saved |-> 0, base |-> 0, live |-> 0, from |-> 0,
           held |-> FALSE]

\* The tab after it has loaded, or has published, the flow.
Loaded(d, held) == [step |-> "editing", graph |-> d, saved |-> d, base |-> d, live |-> d,
                    from |-> d, held |-> held]

EditorTypeOK ==
  /\ published \in Graphs
  /\ versions \in Seq([graph : Graphs, over : Graphs \cup {0}])
  /\ draft = NoDraft \/ (draft.graph \in Canvas /\ draft.base \in Graphs)
  /\ tabs \in [Tabs -> [step : {"closed", "editing", "stored", "preview", "told", "discarding"},
                        graph : Canvas \cup {0}, saved : Canvas \cup {0},
                        base : Graphs \cup {0}, live : Graphs \cup {0}, from : Graphs \cup {0},
                        held : BOOLEAN]]
  /\ \A t \in Tabs : buffers[t] = NoDraft \/ buffers[t].base \in Graphs

EditorInit ==
  /\ published \in Graphs /\ versions = <<[graph |-> published, over |-> 0]>> /\ draft = NoDraft
  /\ tabs = [t \in Tabs |-> Closed] /\ buffers = [t \in Tabs |-> NoDraft]

-----------------------------------------------------------------------------
(* The flow row.                                                           *)

\* Mutant: what is published is not validated.
StoreAnything(d, over) ==
  /\ Len(versions) < MaxVersions
  /\ published' = d /\ draft' = NoDraft
  /\ versions' = Append(versions, [graph |-> d, over |-> over])

\* A publish replaces the definition, appends the version and drops the draft.
\* "over" is the definition its author had begun with, 0 for an author who
\* names none: nothing reads it.
Store(d, over) ==
  /\ Len(versions) < MaxVersions /\ d \in Graphs
  /\ published' = d /\ draft' = NoDraft
  /\ versions' = Append(versions, [graph |-> d, over |-> over])

\* The base is compared inside the transaction that writes.
Current(base) == base = published

\* PUT /flows/:id without a base, and a restore, which is a publish of an old one.
PublishUnseen == \E d \in Canvas : Store(d, 0) /\ UNCHANGED <<tabs, buffers>>
Restore ==
  \E i \in 1..Len(versions) : Store(versions[i].graph, 0) /\ UNCHANGED <<tabs, buffers>>

ClearDraft == draft' = NoDraft /\ UNCHANGED <<published, versions, tabs, buffers>>

-----------------------------------------------------------------------------
(* A tab.                                                                  *)

Dirty(t) == tabs[t].graph # tabs[t].saved
Stale(t) == tabs[t].base # tabs[t].live
CanEdit(t) == tabs[t].step \in {"editing", "told"}

\* The editor opens on what the tab still holds, else on the draft, else on the flow.
Open(t) ==
  /\ tabs[t].step = "closed"
  /\ LET server == IF draft = NoDraft
                   THEN [graph |-> published, base |-> published, from |-> published] ELSE draft
         start  == IF buffers[t] = NoDraft THEN server ELSE buffers[t]
     IN tabs' = [tabs EXCEPT ![t] = [step |-> "editing", graph |-> start.graph,
                                     saved |-> server.graph, base |-> start.base,
                                     live |-> published, from |-> start.from,
                                     held |-> draft # NoDraft]]
  /\ UNCHANGED <<published, versions, draft, buffers>>

\* The editor is left, or its session ends under it: what is unsaved stays in the tab.
Leave(t) ==
  /\ tabs[t].step # "closed"
  /\ tabs' = [tabs EXCEPT ![t] = Closed]
  /\ UNCHANGED <<published, versions, draft, buffers>>

\* The browser tab itself goes.
CloseTab(t) ==
  /\ tabs' = [tabs EXCEPT ![t] = Closed] /\ buffers' = [buffers EXCEPT ![t] = NoDraft]
  /\ UNCHANGED <<published, versions, draft>>

Change(t) ==
  /\ CanEdit(t)
  /\ \E d \in Canvas :
       /\ tabs' = [tabs EXCEPT ![t].graph = d, ![t].step = "editing"]
       /\ buffers' = [buffers EXCEPT ![t] =
            IF d = tabs[t].saved THEN NoDraft
            ELSE [graph |-> d, base |-> tabs[t].base, from |-> tabs[t].from]]
  /\ UNCHANGED <<published, versions, draft>>

\* PUT /flows/:id/draft: nothing about the flow is compared.
DraftOf(t) == [graph |-> tabs[t].graph, base |-> tabs[t].base, from |-> tabs[t].from]

StoredRebased(t, step) ==
  [tabs[t] EXCEPT !.saved = tabs[t].graph, !.live = published, !.base = published,
                  !.held = TRUE, !.step = step]

\* What the tab shows once its draft is stored: the base of its edits stays.
Stored(t, step) ==
  [tabs[t] EXCEPT !.saved = tabs[t].graph, !.live = published, !.held = TRUE, !.step = step]

StoreDraft(t, step) ==
  /\ draft' = DraftOf(t)
  /\ tabs' = [tabs EXCEPT ![t] = Stored(t, step)]
  /\ buffers' = [buffers EXCEPT ![t] = NoDraft]
  /\ UNCHANGED <<published, versions>>

SaveDraft(t) ==
  /\ CanEdit(t) /\ (Dirty(t) \/ tabs[t].held)
  /\ \/ StoreDraft(t, "editing")
     \/ draft' = DraftOf(t) /\ UNCHANGED <<published, versions, tabs, buffers>>

\* Review saves the draft first and reads the flow in a second request.
Review(t) ==
  /\ CanEdit(t)
  /\ ~Stale(t) /\ tabs[t].graph \in Graphs /\ tabs[t].graph # tabs[t].live
  /\ StoreDraft(t, "stored")

Reviewed(t) ==
  /\ tabs[t].step = "stored"
  /\ tabs' = [tabs EXCEPT ![t].live = published,
                          ![t].step = IF tabs[t].base = published THEN "preview" ELSE "told"]
  /\ UNCHANGED <<published, versions, draft, buffers>>

CancelReview(t) ==
  /\ tabs[t].step = "preview" /\ tabs' = [tabs EXCEPT ![t].step = "editing"]
  /\ UNCHANGED <<published, versions, draft, buffers>>

\* Publish sends the base the edits began with.  An answer that never arrives
\* leaves the tab where it was.
Publish(t) ==
  /\ tabs[t].step = "preview" /\ ~Stale(t)
  /\ \/ /\ Current(tabs[t].base) /\ Store(tabs[t].graph, tabs[t].from)
        /\ \/ /\ tabs' = [tabs EXCEPT ![t] = Loaded(tabs[t].graph, FALSE)]
              /\ buffers' = [buffers EXCEPT ![t] = NoDraft]
           \/ UNCHANGED <<tabs, buffers>>
     \/ /\ ~Current(tabs[t].base)
        /\ tabs' = [tabs EXCEPT ![t].step = "editing"]
        /\ UNCHANGED <<published, versions, draft, buffers>>

\* Discard deletes the draft in one request and loads the flow in the next,
\* which may fail.
Discard(t) ==
  /\ CanEdit(t) /\ (Dirty(t) \/ tabs[t].held)
  /\ draft' = NoDraft /\ tabs' = [tabs EXCEPT ![t].step = "discarding"]
  /\ UNCHANGED <<published, versions, buffers>>

Discarded(t) ==
  /\ tabs[t].step = "discarding"
  /\ \/ /\ tabs' = [tabs EXCEPT ![t] = Loaded(published, draft # NoDraft)]
        /\ buffers' = [buffers EXCEPT ![t] = NoDraft]
     \/ tabs' = [tabs EXCEPT ![t].step = "editing"] /\ UNCHANGED buffers
  /\ UNCHANGED <<published, versions, draft>>

EditorNext ==
  \/ PublishUnseen \/ Restore \/ ClearDraft
  \/ \E t \in Tabs : \/ Open(t) \/ Leave(t) \/ CloseTab(t) \/ Change(t) \/ SaveDraft(t)
                     \/ Review(t) \/ Reviewed(t) \/ CancelReview(t) \/ Publish(t)
                     \/ Discard(t) \/ Discarded(t)

EditorSpec == EditorInit /\ [][EditorNext]_editorVars

-----------------------------------------------------------------------------

\* What an editor publishes replaces the definition its edits began with and
\* no other: through saved drafts, recovered buffers, lost answers and the
\* publishes of others, nobody's publish is overwritten unseen, and the newest
\* version is the definition that runs.
NothingOverwrittenUnseen ==
  /\ versions[Len(versions)].graph = published
  /\ \A i \in 2..Len(versions) :
       versions[i].over # 0 => versions[i].over = versions[i - 1].graph

\* "Your draft is preserved" (FlowEditor.tsx:382): a tab that says so has its
\* graph on the daemon or in its buffer.
PreservedDraftIsKept ==
  \A t \in Tabs : tabs[t].step = "told" =>
     draft.graph = tabs[t].graph \/ buffers[t].graph = tabs[t].graph
=============================================================================
