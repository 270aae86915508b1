-------------------------- MODULE MCControl_proofs --------------------------
(***************************************************************************)
(* Proofs about what the operator works on (MCControl), for any flows,     *)
(* tabs, libraries, sources, maps, requests and numbers of them: no publish*)
(* is overwritten unseen, a library is held for its flow exactly when that *)
(* cannot run, what is installed is on disk, a preview compares with one   *)
(* definition, the nodes are enrolled, told and served right, files are    *)
(* deleted, shown and listed as they are, and settings and secrets are     *)
(* kept as they were typed.                                                *)
(*                                                                         *)
(* Each part has an inductive invariant over its own variables, proved of  *)
(* its own next-state relation.  A step of MCControl is a step of one part *)
(* and leaves the variables of the others alone (ControlSteps).            *)
(***************************************************************************)
EXTENDS MCControl, FiniteSetTheorems, SequenceTheorems, TLAPS

\* A step of one part is a step of that part and leaves the others alone.
LEMMA ControlSteps ==
  [ControlNext]_controlVars =>
    /\ [Editor!EditorNext]_editorVars
    /\ [Health!HealthNext]_healthVars
    /\ [Sources!SourcesNext]_sourceVars
    /\ [Dry!PreviewNext]_previewVars
    /\ [Config!ConfigNext]_configVars
    /\ [Enrol!EnrolNext]_enrolVars
    /\ [Store!StoreNext]_storeVars
    /\ [Stored!SettingsNext]_settingVars
    /\ [Dests!AlertSettingsNext]_destVars
    /\ [Panel!PanelNext]_panelVars
    /\ [Listed!ListNext]_listVars
  BY DEF ControlNext, controlVars, flowVars, nodeVars, restVars, fileVars

-----------------------------------------------------------------------------
(* A flow and its editors (FlowEditor).                                    *)

\* A version as it is stored, and an edit as a draft or a buffer keeps it.
VersionRow == [graph : Graphs, over : Graphs \cup {0}]
KeptEdit   == [graph : Editor!Canvas \cup {0}, base : Graphs \cup {0}, from : Graphs \cup {0}]
TabRecord  == [step : {"closed", "editing", "stored", "preview", "told", "discarding"},
               graph : Editor!Canvas \cup {0}, saved : Editor!Canvas \cup {0},
               base : Graphs \cup {0}, live : Graphs \cup {0}, from : Graphs \cup {0},
               held : BOOLEAN]

EditorTypes ==
  /\ published \in Graphs
  /\ versions \in Seq(VersionRow) /\ versions # << >>
  /\ draft \in KeptEdit
  /\ tabs \in [Tabs -> TabRecord]
  /\ buffers \in [Tabs -> KeptEdit]

\* The base that is compared is the definition the edits began with, wherever they are kept.
BaseIsTheBeginning ==
  /\ draft.base = draft.from
  /\ \A t \in Tabs : tabs[t].base = tabs[t].from /\ buffers[t].base = buffers[t].from

EditorInv == EditorTypes /\ BaseIsTheBeginning /\ Editor!NothingOverwrittenUnseen

\* One tab is in another state, the same of its edits.
LEMMA TabChanges ==
  ASSUME EditorInv, NEW t \in Tabs, NEW r \in TabRecord, r.base = r.from,
         tabs' = [tabs EXCEPT ![t] = r]
  PROVE  tabs' \in [Tabs -> TabRecord] /\ \A u \in Tabs : tabs'[u].base = tabs'[u].from
  BY DEF EditorInv, EditorTypes, BaseIsTheBeginning

\* A publish is the next version.  Its author began with the definition that is replaced.
LEMMA Publishes ==
  ASSUME EditorInv, NEW d, NEW over \in Graphs \cup {0}, over # 0 => over = published,
         Editor!Store(d, over)
  PROVE  /\ published' \in Graphs /\ versions' \in Seq(VersionRow) /\ versions' # << >>
         /\ draft' = Editor!NoDraft /\ Editor!NothingOverwrittenUnseen'
<1> DEFINE v == [graph |-> d, over |-> over]
<1>1. d \in Graphs /\ published' = d /\ draft' = Editor!NoDraft /\ versions' = Append(versions, v)
  BY DEF Editor!Store
<1>2. v \in VersionRow /\ v.graph = d /\ v.over = over
  BY <1>1 DEF VersionRow
<1>3. versions \in Seq(VersionRow) /\ versions # << >>
  BY DEF EditorInv, EditorTypes
<1> HIDE DEF v
<1>4. /\ versions' \in Seq(VersionRow) /\ Len(versions') = Len(versions) + 1
      /\ versions'[Len(versions) + 1] = v /\ Len(versions) \in Nat /\ Len(versions) > 0
      /\ \A i \in 1..Len(versions) : versions'[i] = versions[i]
  BY <1>1, <1>2, <1>3
<1>5. versions'[Len(versions')].graph = published'
  BY <1>1, <1>2, <1>4
<1>6. ASSUME NEW i \in 2..Len(versions'), versions'[i].over # 0
      PROVE  versions'[i].over = versions'[i - 1].graph
  <2>1. CASE i <= Len(versions)
    <3>1. i \in 1..Len(versions) /\ i - 1 \in 1..Len(versions) /\ i \in 2..Len(versions)
      BY <2>1, <1>4
    <3>2. versions'[i] = versions[i] /\ versions'[i - 1] = versions[i - 1]
      BY <3>1, <1>4
    <3> QED BY <3>1, <3>2, <1>6 DEF EditorInv, Editor!NothingOverwrittenUnseen
  <2>2. CASE i > Len(versions)
    <3>1. i = Len(versions) + 1 /\ i - 1 = Len(versions) /\ i - 1 \in 1..Len(versions)
      BY <2>2, <1>4
    <3>2. versions'[i] = v /\ versions'[i - 1] = versions[Len(versions)]
      BY <3>1, <1>4
    <3>3. versions[Len(versions)].graph = published
      BY DEF EditorInv, Editor!NothingOverwrittenUnseen
    <3> QED BY <3>2, <3>3, <1>2, <1>6
  <2> QED BY <2>1, <2>2, <1>4
<1>7. versions' # << >>
  BY <1>4
<1> QED BY <1>1, <1>4, <1>5, <1>6, <1>7 DEF Editor!NothingOverwrittenUnseen

LEMMA EditorInitial == Editor!EditorInit => EditorInv
<1> SUFFICES ASSUME Editor!EditorInit PROVE EditorInv
  OBVIOUS
<1>1. versions = <<[graph |-> published, over |-> 0]>> /\ published \in Graphs
  BY DEF Editor!EditorInit
<1>2. versions \in Seq(VersionRow) /\ Len(versions) = 1 /\ versions[1].graph = published
  BY <1>1 DEF VersionRow
<1>3. Editor!NothingOverwrittenUnseen
  BY <1>2 DEF Editor!NothingOverwrittenUnseen
<1>4. draft \in KeptEdit /\ draft.base = draft.from
  BY DEF Editor!EditorInit, Editor!NoDraft, KeptEdit
<1>5. tabs \in [Tabs -> TabRecord] /\ \A t \in Tabs : tabs[t].base = tabs[t].from
  BY DEF Editor!EditorInit, Editor!Closed, TabRecord
<1>6. buffers \in [Tabs -> KeptEdit] /\ \A t \in Tabs : buffers[t].base = buffers[t].from
  BY DEF Editor!EditorInit, Editor!NoDraft, KeptEdit
<1> QED BY <1>1, <1>2, <1>3, <1>4, <1>5, <1>6 DEF EditorInv, EditorTypes, BaseIsTheBeginning

LEMMA EditorStep == EditorInv /\ [Editor!EditorNext]_editorVars => EditorInv'
<1> SUFFICES ASSUME EditorInv, [Editor!EditorNext]_editorVars PROVE EditorInv'
  OBVIOUS
<1> USE DEF EditorInv
<1>a. /\ published \in Graphs /\ versions \in Seq(VersionRow) /\ versions # << >>
      /\ draft \in KeptEdit /\ tabs \in [Tabs -> TabRecord] /\ buffers \in [Tabs -> KeptEdit]
  BY DEF EditorTypes
<1>b. Editor!NoDraft \in KeptEdit /\ Editor!NoDraft.base = Editor!NoDraft.from
  BY DEF Editor!NoDraft, KeptEdit
<1>c. Editor!Closed \in TabRecord /\ Editor!Closed.base = Editor!Closed.from
  BY DEF Editor!Closed, TabRecord
<1>d. Editor!NothingOverwrittenUnseen' <=>
        /\ versions'[Len(versions')].graph = published'
        /\ \A i \in 2..Len(versions') :
             versions'[i].over # 0 => versions'[i].over = versions'[i - 1].graph
  BY DEF Editor!NothingOverwrittenUnseen
<1>e. ASSUME UNCHANGED <<published, versions>> PROVE Editor!NothingOverwrittenUnseen'
  BY <1>e DEF Editor!NothingOverwrittenUnseen
<1>f. \A t \in Tabs : tabs[t] \in TabRecord /\ buffers[t] \in KeptEdit
  BY <1>a
<1>g. \A t \in Tabs : tabs[t].base = tabs[t].from /\ buffers[t].base = buffers[t].from
  BY DEF BaseIsTheBeginning
<1>h. draft.base = draft.from
  BY DEF BaseIsTheBeginning
<1>i. ASSUME tabs' \in [Tabs -> TabRecord], \A t \in Tabs : tabs'[t].base = tabs'[t].from,
             buffers' = buffers \/ \E t \in Tabs, e \in KeptEdit :
               e.base = e.from /\ buffers' = [buffers EXCEPT ![t] = e],
             draft' \in KeptEdit, draft'.base = draft'.from, published' \in Graphs,
             versions' \in Seq(VersionRow), versions' # << >>, Editor!NothingOverwrittenUnseen'
      PROVE  EditorInv'
  <2>1. buffers' \in [Tabs -> KeptEdit] /\ \A t \in Tabs : buffers'[t].base = buffers'[t].from
    BY <1>a, <1>g, <1>i
  <2> QED BY <2>1, <1>i DEF EditorTypes, BaseIsTheBeginning
<1>1. CASE Editor!PublishUnseen
  <2> PICK d : Editor!Store(d, 0) /\ UNCHANGED <<tabs, buffers>>
    BY <1>1 DEF Editor!PublishUnseen
  <2>1. /\ published' \in Graphs /\ versions' \in Seq(VersionRow) /\ versions' # << >>
        /\ draft' = Editor!NoDraft /\ Editor!NothingOverwrittenUnseen'
    BY Publishes
  <2> QED BY <2>1, <1>a, <1>b, <1>g, <1>i
<1>2. CASE Editor!Restore
  <2> PICK i \in 1..Len(versions) : Editor!Store(versions[i].graph, 0) /\ UNCHANGED <<tabs, buffers>>
    BY <1>2 DEF Editor!Restore
  <2>1. /\ published' \in Graphs /\ versions' \in Seq(VersionRow) /\ versions' # << >>
        /\ draft' = Editor!NoDraft /\ Editor!NothingOverwrittenUnseen'
    BY Publishes
  <2> QED BY <2>1, <1>a, <1>b, <1>g, <1>i
<1>3. CASE Editor!ClearDraft
  BY <1>3, <1>a, <1>b, <1>e, <1>g, <1>i DEF Editor!ClearDraft
<1>4. ASSUME NEW t \in Tabs, Editor!Open(t) PROVE EditorInv'
  <2> DEFINE server == IF draft = Editor!NoDraft
                       THEN [graph |-> published, base |-> published, from |-> published] ELSE draft
             start  == IF buffers[t] = Editor!NoDraft THEN server ELSE buffers[t]
             opened == [step |-> "editing", graph |-> start.graph, saved |-> server.graph,
                        base |-> start.base, live |-> published, from |-> start.from,
                        held |-> draft # Editor!NoDraft]
  <2>1. tabs' = [tabs EXCEPT ![t] = opened] /\ UNCHANGED <<published, versions, draft, buffers>>
    BY <1>4 DEF Editor!Open
  <2>2. server \in KeptEdit /\ server.base = server.from
    BY <1>a, <1>h DEF KeptEdit, Editor!Canvas
  <2>3. start \in KeptEdit /\ start.base = start.from
    BY <2>2, <1>f, <1>g
  <2>4. opened \in TabRecord /\ opened.base = opened.from
    <3> HIDE DEF start, server
    <3> QED BY <2>2, <2>3, <1>a DEF KeptEdit, TabRecord
  <2> HIDE DEF opened
  <2>5. tabs' \in [Tabs -> TabRecord] /\ \A u \in Tabs : tabs'[u].base = tabs'[u].from
    BY <2>1, <2>4, TabChanges
  <2> QED BY <2>1, <2>5, <1>a, <1>e, <1>h, <1>i
<1>5. ASSUME NEW t \in Tabs, Editor!Leave(t) PROVE EditorInv'
  <2>1. tabs' \in [Tabs -> TabRecord] /\ \A u \in Tabs : tabs'[u].base = tabs'[u].from
    BY <1>5, <1>c, TabChanges DEF Editor!Leave
  <2> QED BY <2>1, <1>5, <1>a, <1>e, <1>h, <1>i DEF Editor!Leave
<1>6. ASSUME NEW t \in Tabs, Editor!CloseTab(t) PROVE EditorInv'
  <2>1. tabs' \in [Tabs -> TabRecord] /\ \A u \in Tabs : tabs'[u].base = tabs'[u].from
    BY <1>6, <1>c, TabChanges DEF Editor!CloseTab
  <2> QED BY <2>1, <1>6, <1>a, <1>b, <1>e, <1>h, <1>i DEF Editor!CloseTab
<1>7. ASSUME NEW t \in Tabs, Editor!Change(t) PROVE EditorInv'
  <2> PICK d \in Editor!Canvas :
        /\ tabs' = [tabs EXCEPT ![t].graph = d, ![t].step = "editing"]
        /\ buffers' = [buffers EXCEPT ![t] =
             IF d = tabs[t].saved THEN Editor!NoDraft
             ELSE [graph |-> d, base |-> tabs[t].base, from |-> tabs[t].from]]
    BY <1>7 DEF Editor!Change
  <2> DEFINE r == [tabs[t] EXCEPT !.graph = d, !.step = "editing"]
             e == IF d = tabs[t].saved THEN Editor!NoDraft
                  ELSE [graph |-> d, base |-> tabs[t].base, from |-> tabs[t].from]
  <2>1. r \in TabRecord /\ r.base = r.from
    BY <1>f, <1>g DEF TabRecord
  <2>2. tabs' = [tabs EXCEPT ![t] = r]
    BY <1>a
  <2>3. e \in KeptEdit /\ e.base = e.from /\ buffers' = [buffers EXCEPT ![t] = e]
    BY <1>b, <1>f, <1>g DEF KeptEdit, TabRecord
  <2> HIDE DEF r, e
  <2>4. tabs' \in [Tabs -> TabRecord] /\ \A u \in Tabs : tabs'[u].base = tabs'[u].from
    BY <2>1, <2>2, TabChanges
  <2>5. UNCHANGED <<published, versions, draft>>
    BY <1>7 DEF Editor!Change
  <2>6. Editor!NothingOverwrittenUnseen'
    BY <2>5, <1>e
  <2>7. /\ draft' \in KeptEdit /\ draft'.base = draft'.from /\ published' \in Graphs
        /\ versions' \in Seq(VersionRow) /\ versions' # << >>
    BY <2>5, <1>a, <1>h
  <2>8. \E u \in Tabs, k \in KeptEdit : k.base = k.from /\ buffers' = [buffers EXCEPT ![u] = k]
    BY <2>3
  <2> QED BY <2>4, <2>6, <2>7, <2>8, <1>i
<1>8. ASSUME NEW t \in Tabs PROVE Editor!DraftOf(t) \in KeptEdit /\ Editor!DraftOf(t).base = Editor!DraftOf(t).from
  BY <1>f, <1>g DEF Editor!DraftOf, KeptEdit, TabRecord
<1>9. ASSUME NEW t \in Tabs, NEW step \in {"editing", "stored"}, Editor!StoreDraft(t, step)
      PROVE  EditorInv'
  <2>1. Editor!Stored(t, step) \in TabRecord /\ Editor!Stored(t, step).base = Editor!Stored(t, step).from
    BY <1>a, <1>f, <1>g DEF Editor!Stored, TabRecord
  <2>2. tabs' \in [Tabs -> TabRecord] /\ \A u \in Tabs : tabs'[u].base = tabs'[u].from
    BY <2>1, <1>9, TabChanges DEF Editor!StoreDraft
  <2> QED BY <2>2, <1>8, <1>9, <1>a, <1>b, <1>e, <1>i DEF Editor!StoreDraft
<1>10. ASSUME NEW t \in Tabs, Editor!SaveDraft(t) PROVE EditorInv'
  <2>1. CASE Editor!StoreDraft(t, "editing")
    BY <2>1, <1>9
  <2>2. CASE draft' = Editor!DraftOf(t) /\ UNCHANGED <<published, versions, tabs, buffers>>
    BY <2>2, <1>8, <1>a, <1>e, <1>g, <1>i
  <2> QED BY <2>1, <2>2, <1>10 DEF Editor!SaveDraft
<1>11. ASSUME NEW t \in Tabs, Editor!Review(t) PROVE EditorInv'
  BY <1>9, <1>11 DEF Editor!Review
<1>12. ASSUME NEW t \in Tabs, NEW step \in {"preview", "told", "editing", "discarding"},
              NEW l \in Graphs \cup {0},
              tabs' = [tabs EXCEPT ![t].live = l, ![t].step = step],
              UNCHANGED <<published, versions, buffers>>,
              draft' \in KeptEdit, draft'.base = draft'.from
       PROVE  EditorInv'
  <2> DEFINE r == [tabs[t] EXCEPT !.live = l, !.step = step]
  <2>1. r \in TabRecord /\ r.base = r.from
    BY <1>f, <1>g DEF TabRecord
  <2>2. tabs' = [tabs EXCEPT ![t] = r]
    BY <1>a, <1>12
  <2> HIDE DEF r
  <2>3. tabs' \in [Tabs -> TabRecord] /\ \A u \in Tabs : tabs'[u].base = tabs'[u].from
    BY <2>1, <2>2, TabChanges
  <2> QED BY <2>3, <1>12, <1>a, <1>e, <1>i
<1>13. ASSUME NEW t \in Tabs, NEW step \in {"preview", "told", "editing", "discarding"},
              tabs' = [tabs EXCEPT ![t].step = step],
              UNCHANGED <<published, versions, buffers>>,
              draft' \in KeptEdit, draft'.base = draft'.from
       PROVE  EditorInv'
  <2> DEFINE r == [tabs[t] EXCEPT !.step = step]
  <2>1. r \in TabRecord /\ r.base = r.from
    BY <1>f, <1>g DEF TabRecord
  <2>2. tabs' = [tabs EXCEPT ![t] = r]
    BY <1>a, <1>13
  <2> HIDE DEF r
  <2>3. tabs' \in [Tabs -> TabRecord] /\ \A u \in Tabs : tabs'[u].base = tabs'[u].from
    BY <2>1, <2>2, TabChanges
  <2> QED BY <2>3, <1>13, <1>a, <1>e, <1>i
<1>14. ASSUME NEW t \in Tabs, Editor!Reviewed(t) PROVE EditorInv'
  BY <1>14, <1>12, <1>a, <1>h DEF Editor!Reviewed
<1>15. ASSUME NEW t \in Tabs, Editor!CancelReview(t) PROVE EditorInv'
  BY <1>15, <1>13, <1>a, <1>h DEF Editor!CancelReview
<1>16. ASSUME NEW t \in Tabs, NEW d \in Graphs, NEW held \in BOOLEAN,
              tabs' = [tabs EXCEPT ![t] = Editor!Loaded(d, held)]
       PROVE  tabs' \in [Tabs -> TabRecord] /\ \A u \in Tabs : tabs'[u].base = tabs'[u].from
  <2>1. Editor!Loaded(d, held) \in TabRecord /\ Editor!Loaded(d, held).base = Editor!Loaded(d, held).from
    BY DEF Editor!Loaded, TabRecord, Editor!Canvas
  <2> QED BY <2>1, <1>16, TabChanges
<1>17. ASSUME NEW t \in Tabs, Editor!Publish(t) PROVE EditorInv'
  <2>1. CASE Editor!Current(tabs[t].base) /\ Editor!Store(tabs[t].graph, tabs[t].from)
    <3>1. tabs[t].from = published /\ tabs[t].from \in Graphs \cup {0}
      BY <2>1, <1>a, <1>g DEF Editor!Current
    <3>2. /\ published' \in Graphs /\ versions' \in Seq(VersionRow) /\ versions' # << >>
          /\ draft' = Editor!NoDraft /\ Editor!NothingOverwrittenUnseen'
      BY <2>1, <3>1, Publishes
    <3>3. CASE /\ tabs' = [tabs EXCEPT ![t] = Editor!Loaded(tabs[t].graph, FALSE)]
               /\ buffers' = [buffers EXCEPT ![t] = Editor!NoDraft]
      <4>1. tabs[t].graph \in Graphs
        BY <2>1 DEF Editor!Store
      <4>2. tabs' \in [Tabs -> TabRecord] /\ \A u \in Tabs : tabs'[u].base = tabs'[u].from
        BY <4>1, <3>3, <1>16
      <4> QED BY <4>2, <3>2, <3>3, <1>b, <1>i
    <3>4. CASE UNCHANGED <<tabs, buffers>>
      BY <3>2, <3>4, <1>a, <1>b, <1>g, <1>i
    <3> QED BY <2>1, <3>3, <3>4, <1>17 DEF Editor!Publish
  <2>2. CASE ~ Editor!Current(tabs[t].base)
    BY <2>2, <1>17, <1>13, <1>a, <1>h DEF Editor!Publish
  <2> QED BY <2>1, <2>2, <1>17 DEF Editor!Publish
<1>18. ASSUME NEW t \in Tabs, Editor!Discard(t) PROVE EditorInv'
  BY <1>18, <1>13, <1>b DEF Editor!Discard
<1>19. ASSUME NEW t \in Tabs, Editor!Discarded(t) PROVE EditorInv'
  <2>1. CASE /\ tabs' = [tabs EXCEPT ![t] = Editor!Loaded(published, draft # Editor!NoDraft)]
             /\ buffers' = [buffers EXCEPT ![t] = Editor!NoDraft]
    <3>1. tabs' \in [Tabs -> TabRecord] /\ \A u \in Tabs : tabs'[u].base = tabs'[u].from
      BY <2>1, <1>16, <1>a
    <3> QED BY <2>1, <3>1, <1>19, <1>a, <1>b, <1>e, <1>h, <1>i DEF Editor!Discarded
  <2>2. CASE tabs' = [tabs EXCEPT ![t].step = "editing"] /\ UNCHANGED buffers
    BY <2>2, <1>19, <1>13, <1>a, <1>h DEF Editor!Discarded
  <2> QED BY <2>1, <2>2, <1>19 DEF Editor!Discarded
<1>20. CASE UNCHANGED editorVars
  BY <1>20, <1>a, <1>e, <1>g, <1>h, <1>i DEF editorVars
<1> QED BY <1>1, <1>2, <1>3, <1>4, <1>5, <1>6, <1>7, <1>10, <1>11, <1>14, <1>15, <1>17, <1>18,
           <1>19, <1>20 DEF Editor!EditorNext

\* No publish overwrites one its author has not seen, and what runs is the newest version:
\* for any definitions, tabs and number of publishes (FlowEditor.tsx, flow-repo.ts).
THEOREM PublishesAreSeen == ControlSpec => []NothingOverwrittenUnseen
<1>1. ControlInit => EditorInv
  BY EditorInitial DEF ControlInit
<1>2. EditorInv /\ [ControlNext]_controlVars => EditorInv'
  BY EditorStep, ControlSteps
<1>3. EditorInv => NothingOverwrittenUnseen
  BY DEF EditorInv, NothingOverwrittenUnseen
<1> QED BY <1>1, <1>2, <1>3, PTL DEF ControlSpec

-----------------------------------------------------------------------------
(* Libraries and the flow they are attached to (LibraryHealth).            *)

Pauses     == Health!Reasons \cup {"none", "operator"}
PluginIs   == {"absent", "good", "changed"}
LibraryRow == [attached : BOOLEAN, pause : Pauses, due : BOOLEAN, scanning : BOOLEAN,
               reads : Graphs \cup {Health!NoFlow}, under : Graphs \cup {Health!NoFlow},
               checked : PluginIs]

\* A pause that is not the operator's is what the flow as it stands would be found to be by
\* the plugin as the last check saw it: a plugin may change and change back unchecked.
PauseIsCurrent(l) ==
  libs[l].pause # "operator" =>
    libs[l].pause = Health!FlowInvalidReason(libs[l].attached, live, libs[l].checked)

\* A scan of the library under the flow as it stands is due, under way or done.
ScanIsCurrent(l) ==
  libs[l].attached =>
     \/ libs[l].due
     \/ libs[l].scanning /\ libs[l].reads = live
     \/ ~ libs[l].scanning /\ libs[l].under = live

HealthInv == Health!HealthTypeOK /\ \A l \in Libraries : PauseIsCurrent(l) /\ ScanIsCurrent(l)

LEMMA ReasonTypes ==
  ASSUME NEW attached \in BOOLEAN, NEW d, NEW p
  PROVE  Health!FlowInvalidReason(attached, d, p) \in Health!Reasons \cup {"none"}
  BY DEF Health!FlowInvalidReason, Health!Reasons

\* One library after a check.
LEMMA CheckWrites ==
  ASSUME NEW r \in LibraryRow, NEW d, NEW p \in PluginIs
  PROVE  LET c == Health!CheckLibraryHealth(r, d, p) IN
           /\ c \in LibraryRow /\ c.checked = p
           /\ c.attached = r.attached /\ c.due = r.due /\ c.scanning = r.scanning
           /\ c.reads = r.reads /\ c.under = r.under
           /\ IF r.pause = "operator" THEN c.pause = "operator"
              ELSE c.pause = Health!FlowInvalidReason(r.attached, d, p)
<1> DEFINE reason == Health!FlowInvalidReason(r.attached, d, p)
<1>1. reason \in Pauses
  BY ReasonTypes DEF LibraryRow, Pauses
<1> HIDE DEF reason
<1>2. Health!CheckLibraryHealth(r, d, p) =
        IF r.pause = "operator" THEN [r EXCEPT !.checked = p]
        ELSE [r EXCEPT !.pause = reason, !.checked = p]
  BY DEF Health!CheckLibraryHealth, reason
<1>3. CASE r.pause = "operator"
  BY <1>2, <1>3 DEF LibraryRow
<1>4. CASE r.pause # "operator"
  BY <1>1, <1>2, <1>4 DEF LibraryRow, reason
<1> QED BY <1>3, <1>4

LEMMA HealthTypes ==
  Health!HealthTypeOK <=>
    live \in Graphs \cup {Health!NoFlow} /\ plugin \in PluginIs /\ libs \in [Libraries -> LibraryRow]
  BY DEF Health!HealthTypeOK, PluginIs, LibraryRow, Pauses

LEMMA HealthInitial == Health!HealthInit => HealthInv
<1> SUFFICES ASSUME Health!HealthInit PROVE HealthInv
  OBVIOUS
<1> DEFINE r == Health!CheckLibraryHealth(Health!NewLibrary, live, "good")
<1>1. Health!NewLibrary \in LibraryRow /\ Health!NewLibrary.due /\ Health!NewLibrary.pause = "none"
  BY DEF Health!NewLibrary, LibraryRow, Pauses, PluginIs
<1>2. live \in Graphs /\ plugin = "good" /\ "good" \in PluginIs
  BY DEF Health!HealthInit, PluginIs
<1>3. /\ r \in LibraryRow /\ r.due /\ r.checked = "good"
      /\ r.pause = Health!FlowInvalidReason(r.attached, live, "good")
  BY <1>1, <1>2, CheckWrites
<1>4. libs = [l \in Libraries |-> r]
  BY DEF Health!HealthInit
<1> HIDE DEF r
<1> QED BY <1>2, <1>3, <1>4, HealthTypes DEF HealthInv, PauseIsCurrent, ScanIsCurrent

\* One library of a step.
RowIsRight(r, d) ==
  /\ r \in LibraryRow
  /\ r.pause # "operator" => r.pause = Health!FlowInvalidReason(r.attached, d, r.checked)
  /\ r.attached => \/ r.due
                   \/ r.scanning /\ r.reads = d
                   \/ ~ r.scanning /\ r.under = d

LEMMA RowsAreRight ==
  HealthInv <=>
    /\ live \in Graphs \cup {Health!NoFlow} /\ plugin \in PluginIs
    /\ DOMAIN libs = Libraries /\ libs = [l \in Libraries |-> libs[l]]
    /\ \A l \in Libraries : RowIsRight(libs[l], live)
  BY HealthTypes DEF HealthInv, PauseIsCurrent, ScanIsCurrent, RowIsRight

\* A check of a row, of a flow that has not changed or whose files are to be scanned.
LEMMA ChecksAreRight ==
  ASSUME NEW r \in LibraryRow, NEW d, NEW p \in PluginIs, NEW due \in BOOLEAN,
         \/ due
         \/ r.due = due /\ (r.attached => IF r.scanning THEN r.reads = d ELSE r.under = d)
         \/ ~ r.attached
  PROVE  RowIsRight([Health!CheckLibraryHealth(r, d, p) EXCEPT !.due = due], d)
<1> DEFINE c == Health!CheckLibraryHealth(r, d, p)
<1>1. /\ c \in LibraryRow /\ c.checked = p
      /\ c.attached = r.attached /\ c.due = r.due /\ c.scanning = r.scanning
      /\ c.reads = r.reads /\ c.under = r.under
      /\ c.pause # "operator" => c.pause = Health!FlowInvalidReason(r.attached, d, p)
  BY CheckWrites
<1> HIDE DEF c
<1> DEFINE e == [c EXCEPT !.due = due]
<1>2. /\ e \in LibraryRow /\ e.checked = p /\ e.due = due
      /\ e.attached = r.attached /\ e.scanning = r.scanning
      /\ e.reads = r.reads /\ e.under = r.under /\ e.pause = c.pause
  BY <1>1 DEF LibraryRow
<1> HIDE DEF e
<1>3. RowIsRight(e, d)
  BY <1>1, <1>2 DEF RowIsRight
<1> QED BY <1>3 DEF c, e

LEMMA HealthStep == HealthInv /\ [Health!HealthNext]_healthVars => HealthInv'
<1> SUFFICES ASSUME HealthInv, [Health!HealthNext]_healthVars PROVE HealthInv'
  OBVIOUS
<1>a. /\ live \in Graphs \cup {Health!NoFlow} /\ plugin \in PluginIs
      /\ DOMAIN libs = Libraries /\ libs = [l \in Libraries |-> libs[l]]
      /\ \A l \in Libraries : RowIsRight(libs[l], live) /\ libs[l] \in LibraryRow
  BY RowsAreRight DEF RowIsRight
<1>b. ASSUME live' \in Graphs \cup {Health!NoFlow}, plugin' \in PluginIs,
             DOMAIN libs' = Libraries, libs' = [l \in Libraries |-> libs'[l]],
             \A l \in Libraries : RowIsRight(libs'[l], live')
      PROVE  HealthInv'
  <2>1. libs' \in [Libraries -> LibraryRow]
    BY <1>b DEF RowIsRight
  <2>2. Health!HealthTypeOK'
    BY <1>b, <2>1 DEF Health!HealthTypeOK, PluginIs, LibraryRow, Pauses
  <2>3. \A l \in Libraries : PauseIsCurrent(l)' /\ ScanIsCurrent(l)'
    BY <1>b DEF RowIsRight, PauseIsCurrent, ScanIsCurrent
  <2> QED BY <2>2, <2>3 DEF HealthInv
<1>c. ASSUME NEW l \in Libraries, NEW r, RowIsRight(r, live),
             libs' = [libs EXCEPT ![l] = r], UNCHANGED <<live, plugin>>
      PROVE  HealthInv'
  BY <1>a, <1>b, <1>c
<1>1. CASE Health!PublishFlow
  <2> PICK d \in Graphs :
        /\ live' = d /\ plugin' = plugin
        /\ libs' = [l \in Libraries |-> [Health!CheckAllLibraries(libs, d)[l] EXCEPT
                      !.due = @ \/ libs[l].attached]]
    BY <1>1 DEF Health!PublishFlow
  <2>1. ASSUME NEW l \in Libraries PROVE RowIsRight(libs'[l], live')
    <3> DEFINE c == Health!CheckLibraryHealth(libs[l], d, plugin)
    <3>1. Health!CheckAllLibraries(libs, d)[l] = c
      BY DEF Health!CheckAllLibraries
    <3>2. c.due = libs[l].due /\ libs[l] \in LibraryRow /\ plugin \in PluginIs
      BY <1>a, CheckWrites
    <3>3. libs'[l] = [c EXCEPT !.due = c.due \/ libs[l].attached]
      BY <3>1
    <3> DEFINE due == c.due \/ libs[l].attached
    <3>4. due \in BOOLEAN /\ (due \/ ~ libs[l].attached)
      BY <3>2 DEF LibraryRow
    <3>5. libs'[l] = [Health!CheckLibraryHealth(libs[l], d, plugin) EXCEPT !.due = due]
      BY <3>3
    <3> HIDE DEF c, due
    <3> QED BY <3>2, <3>4, <3>5, ChecksAreRight
  <2> QED BY <2>1, <1>a, <1>b
<1>2. CASE Health!DeleteFlow
  <2> DEFINE bare(l) == [libs[l] EXCEPT !.attached = FALSE]
  <2>1. /\ live' = Health!NoFlow /\ plugin' = plugin
        /\ libs' = [l \in Libraries |-> Health!CheckLibraryHealth(bare(l), Health!NoFlow, plugin)]
    BY <1>2 DEF Health!DeleteFlow, Health!CheckAllLibraries
  <2>2. ASSUME NEW l \in Libraries PROVE RowIsRight(libs'[l], live')
    <3>1. bare(l) \in LibraryRow /\ ~ bare(l).attached
      BY <1>a DEF LibraryRow
    <3>2. libs'[l] = Health!CheckLibraryHealth(bare(l), live', plugin') /\ plugin' \in PluginIs
      BY <2>1, <1>a
    <3> HIDE DEF bare
    <3> DEFINE c == Health!CheckLibraryHealth(bare(l), live', plugin')
    <3>3. /\ c \in LibraryRow /\ ~ c.attached /\ c.checked = plugin'
          /\ c.pause # "operator" =>
               c.pause = Health!FlowInvalidReason(c.attached, live', plugin')
      BY <3>1, <3>2, CheckWrites
    <3> QED BY <3>2, <3>3 DEF RowIsRight
  <2> QED BY <2>1, <2>2, <1>a, <1>b
<1>3. CASE Health!PluginChanges
  <2> PICK p \in PluginIs : p # plugin /\ plugin' = p /\ UNCHANGED <<live, libs>>
    BY <1>3 DEF Health!PluginChanges, PluginIs
  <2>1. ASSUME NEW l \in Libraries PROVE RowIsRight(libs'[l], live')
    BY <1>a DEF RowIsRight
  <2> QED BY <2>1, <1>a, <1>b
<1>4. CASE Health!Restart
  <2>1. ASSUME NEW l \in Libraries PROVE RowIsRight(libs'[l], live')
    <3> DEFINE c == Health!CheckLibraryHealth(libs[l], live, plugin)
               e == [c EXCEPT !.due = TRUE, !.scanning = FALSE, !.reads = Health!NoFlow]
    <3>1. libs'[l] = e /\ UNCHANGED <<live, plugin>>
      BY <1>4 DEF Health!Restart
    <3>2. /\ c \in LibraryRow /\ c.checked = plugin /\ c.attached = libs[l].attached
          /\ c.pause # "operator" => c.pause = Health!FlowInvalidReason(c.attached, live, plugin)
      BY <1>a, CheckWrites
    <3> HIDE DEF c
    <3>3. /\ e \in LibraryRow /\ e.due /\ e.checked = c.checked /\ e.attached = c.attached
          /\ e.pause = c.pause
      BY <3>2 DEF LibraryRow
    <3> HIDE DEF e
    <3> QED BY <3>1, <3>2, <3>3 DEF RowIsRight
  <2> QED BY <2>1, <1>4, <1>a, <1>b DEF Health!Restart
<1>5. ASSUME NEW l \in Libraries, Health!UpdateLibrary(l) PROVE HealthInv'
  <2> PICK attached \in BOOLEAN :
        libs' = [libs EXCEPT ![l] =
          [Health!CheckLibraryHealth([libs[l] EXCEPT !.attached = attached], live, plugin)
             EXCEPT !.due = @ \/ attached # libs[l].attached]]
    BY <1>5 DEF Health!UpdateLibrary
  <2> DEFINE r == [libs[l] EXCEPT !.attached = attached]
             c == Health!CheckLibraryHealth(r, live, plugin)
             due == c.due \/ attached # libs[l].attached
  <2>1. /\ r \in LibraryRow /\ r.attached = attached /\ r.due = libs[l].due
        /\ r.scanning = libs[l].scanning /\ r.reads = libs[l].reads /\ r.under = libs[l].under
    BY <1>a DEF LibraryRow
  <2>2. libs' = [libs EXCEPT ![l] = [Health!CheckLibraryHealth(r, live, plugin) EXCEPT !.due = due]]
    OBVIOUS
  <2>3. c.due = r.due
    <3> HIDE DEF r
    <3> QED BY <2>1, <1>a, CheckWrites
  <2>4. due \in BOOLEAN /\ (due = (r.due \/ attached # libs[l].attached))
    BY <2>1, <2>3 DEF LibraryRow
  <2>5. \/ due
        \/ r.due = due /\ (r.attached => IF r.scanning THEN r.reads = live ELSE r.under = live)
        \/ ~ r.attached
    <3>1. RowIsRight(libs[l], live)
      BY <1>a
    <3>2. libs[l] \in LibraryRow
      BY <1>a
    <3> HIDE DEF r, due
    <3>3. CASE attached # libs[l].attached
      BY <2>4, <3>3
    <3>4. CASE attached = libs[l].attached /\ ~ libs[l].due
      <4>1. due = r.due
        BY <2>1, <2>4, <3>2, <3>4 DEF LibraryRow
      <4>2. libs[l].attached => IF libs[l].scanning THEN libs[l].reads = live
                                ELSE libs[l].under = live
        BY <3>1, <3>4 DEF RowIsRight
      <4>3. r.attached => IF r.scanning THEN r.reads = live ELSE r.under = live
        BY <2>1, <3>4, <4>2
      <4> QED BY <4>1, <4>3
    <3>5. CASE libs[l].due
      BY <2>1, <2>4, <3>5
    <3> QED BY <3>2, <3>3, <3>4, <3>5 DEF LibraryRow
  <2> HIDE DEF r, c, due
  <2>6. RowIsRight([Health!CheckLibraryHealth(r, live, plugin) EXCEPT !.due = due], live)
    BY <2>1, <2>4, <2>5, <1>a, ChecksAreRight
  <2> QED BY <2>2, <2>6, <1>5, <1>c DEF Health!UpdateLibrary
<1>6. ASSUME NEW l \in Libraries, Health!Pause(l) PROVE HealthInv'
  <2> DEFINE r == [libs[l] EXCEPT !.pause = "operator"]
  <2>1. /\ r \in LibraryRow /\ r.pause = "operator" /\ r.attached = libs[l].attached
        /\ r.due = libs[l].due /\ r.scanning = libs[l].scanning /\ r.reads = libs[l].reads
        /\ r.under = libs[l].under
    BY <1>a DEF LibraryRow, Pauses
  <2>2. libs' = [libs EXCEPT ![l] = r] /\ UNCHANGED <<live, plugin>>
    BY <1>6, <1>a DEF Health!Pause
  <2> HIDE DEF r
  <2>3. RowIsRight(r, live)
    BY <2>1, <1>a DEF RowIsRight
  <2> QED BY <2>2, <2>3, <1>c
<1>7. ASSUME NEW l \in Libraries, Health!Resume(l) PROVE HealthInv'
  <2> DEFINE r == [libs[l] EXCEPT !.pause = "none"]
             c == Health!CheckLibraryHealth(r, live, plugin)
  <2>1. /\ r \in LibraryRow /\ r.pause = "none" /\ r.attached = libs[l].attached
        /\ r.due = libs[l].due /\ r.scanning = libs[l].scanning /\ r.reads = libs[l].reads
        /\ r.under = libs[l].under
    BY <1>a DEF LibraryRow, Pauses
  <2>2. libs' = [libs EXCEPT ![l] = c] /\ UNCHANGED <<live, plugin>>
    BY <1>7 DEF Health!Resume
  <2> HIDE DEF r
  <2>3. /\ c \in LibraryRow /\ c.checked = plugin
        /\ c.attached = r.attached /\ c.due = r.due /\ c.scanning = r.scanning
        /\ c.reads = r.reads /\ c.under = r.under
        /\ c.pause = Health!FlowInvalidReason(r.attached, live, plugin)
    BY <2>1, <1>a, CheckWrites
  <2> HIDE DEF c
  <2>4. RowIsRight(c, live)
    BY <2>1, <2>3, <1>a DEF RowIsRight
  <2> QED BY <2>2, <2>4, <1>c
<1>8. ASSUME NEW l \in Libraries, Health!ScanStarts(l) PROVE HealthInv'
  <2> DEFINE reads == IF libs[l].attached THEN live ELSE Health!NoFlow
             r == [libs[l] EXCEPT !.due = FALSE, !.scanning = TRUE, !.reads = reads]
  <2>1. libs' = [libs EXCEPT ![l] = r] /\ UNCHANGED <<live, plugin>>
    BY <1>8, <1>a DEF Health!ScanStarts
  <2>2. reads \in Graphs \cup {Health!NoFlow} /\ (libs[l].attached => reads = live)
    BY <1>a
  <2> HIDE DEF reads
  <2>3. /\ r \in LibraryRow /\ r.pause = libs[l].pause /\ r.attached = libs[l].attached
        /\ r.scanning /\ r.reads = reads /\ r.checked = libs[l].checked
    BY <1>a, <2>2 DEF LibraryRow
  <2> HIDE DEF r
  <2>4. RowIsRight(r, live)
    BY <2>2, <2>3, <1>a DEF RowIsRight
  <2> QED BY <2>1, <2>4, <1>c
<1>9. ASSUME NEW l \in Libraries, Health!ScanEnds(l) PROVE HealthInv'
  <2> DEFINE r == [libs[l] EXCEPT !.scanning = FALSE, !.under = libs[l].reads, !.reads = Health!NoFlow]
  <2>1. libs' = [libs EXCEPT ![l] = r] /\ UNCHANGED <<live, plugin>> /\ libs[l].scanning
    BY <1>9, <1>a DEF Health!ScanEnds
  <2>2. /\ r \in LibraryRow /\ r.pause = libs[l].pause /\ r.attached = libs[l].attached
        /\ ~ r.scanning /\ r.under = libs[l].reads /\ r.checked = libs[l].checked
        /\ r.due = libs[l].due
    BY <1>a DEF LibraryRow
  <2> HIDE DEF r
  <2>3. RowIsRight(r, live)
    BY <2>1, <2>2, <1>a DEF RowIsRight
  <2> QED BY <2>1, <2>3, <1>c
<1>10. CASE UNCHANGED healthVars
  BY <1>10, <1>a, <1>b DEF healthVars
<1> QED BY <1>1, <1>2, <1>3, <1>4, <1>5, <1>6, <1>7, <1>8, <1>9, <1>10 DEF Health!HealthNext

\* Only a resume ends the pause of an operator, and it checks the flow at once.
OperatorEndsIt(l) ==
  libs[l].pause = "operator" /\ libs'[l].pause # "operator" =>
    live' = live /\ plugin' = plugin /\ libs'[l] = [libs[l] EXCEPT
      !.pause = Health!FlowInvalidReason(libs[l].attached, live, plugin), !.checked = plugin]

LEMMA OperatorEnds ==
  HealthInv /\ [Health!HealthNext]_healthVars => \A l \in Libraries : OperatorEndsIt(l)
<1> SUFFICES ASSUME HealthInv, [Health!HealthNext]_healthVars, NEW m \in Libraries,
                    libs[m].pause = "operator"
             PROVE  OperatorEndsIt(m)
  BY DEF OperatorEndsIt
<1>a. /\ plugin \in PluginIs /\ DOMAIN libs = Libraries
      /\ \A l \in Libraries : libs[l] \in LibraryRow
  BY RowsAreRight DEF RowIsRight
<1>b. ASSUME libs'[m].pause = "operator" PROVE OperatorEndsIt(m)
  BY <1>b DEF OperatorEndsIt
<1>1. CASE Health!PublishFlow
  <2> PICK d \in Graphs :
        libs' = [l \in Libraries |-> [Health!CheckAllLibraries(libs, d)[l] EXCEPT
                   !.due = @ \/ libs[l].attached]]
    BY <1>1 DEF Health!PublishFlow
  <2> DEFINE c == Health!CheckLibraryHealth(libs[m], d, plugin)
  <2>1. c \in LibraryRow /\ c.pause = "operator"
    BY <1>a, CheckWrites
  <2>2. libs'[m] = [c EXCEPT !.due = c.due \/ libs[m].attached]
    BY DEF Health!CheckAllLibraries
  <2> HIDE DEF c
  <2> QED BY <2>1, <2>2, <1>b DEF LibraryRow
<1>2. CASE Health!DeleteFlow
  <2> DEFINE bare == [libs[m] EXCEPT !.attached = FALSE]
  <2>1. libs'[m] = Health!CheckLibraryHealth(bare, Health!NoFlow, plugin)
    BY <1>2 DEF Health!DeleteFlow, Health!CheckAllLibraries
  <2>2. bare \in LibraryRow /\ bare.pause = "operator"
    BY <1>a DEF LibraryRow
  <2> HIDE DEF bare
  <2> QED BY <2>1, <2>2, <1>a, <1>b, CheckWrites
<1>3. CASE Health!PluginChanges
  BY <1>3, <1>b DEF Health!PluginChanges
<1>4. CASE Health!Restart
  <2> DEFINE c == Health!CheckLibraryHealth(libs[m], live, plugin)
  <2>1. c \in LibraryRow /\ c.pause = "operator"
    BY <1>a, CheckWrites
  <2>2. libs'[m] = [c EXCEPT !.due = TRUE, !.scanning = FALSE, !.reads = Health!NoFlow]
    BY <1>4 DEF Health!Restart
  <2> HIDE DEF c
  <2> QED BY <2>1, <2>2, <1>b DEF LibraryRow
<1>5. ASSUME NEW l \in Libraries, Health!UpdateLibrary(l) PROVE OperatorEndsIt(m)
  <2> PICK attached \in BOOLEAN :
        libs' = [libs EXCEPT ![l] =
          [Health!CheckLibraryHealth([libs[l] EXCEPT !.attached = attached], live, plugin)
             EXCEPT !.due = @ \/ attached # libs[l].attached]]
    BY <1>5 DEF Health!UpdateLibrary
  <2> DEFINE r == [libs[l] EXCEPT !.attached = attached]
             c == Health!CheckLibraryHealth(r, live, plugin)
  <2>1. r \in LibraryRow /\ r.pause = libs[l].pause
    BY <1>a DEF LibraryRow
  <2>2. libs' = [libs EXCEPT ![l] = [c EXCEPT !.due = c.due \/ attached # libs[l].attached]]
    OBVIOUS
  <2> HIDE DEF r
  <2>3. c \in LibraryRow /\ (l = m => c.pause = "operator")
    BY <2>1, <1>a, CheckWrites
  <2> HIDE DEF c
  <2>4. libs'[m].pause = "operator"
    BY <2>2, <2>3, <1>a DEF LibraryRow
  <2> QED BY <2>4, <1>b
<1>6. ASSUME NEW l \in Libraries, Health!Pause(l) PROVE OperatorEndsIt(m)
  <2>1. libs'[m].pause = "operator"
    BY <1>6, <1>a DEF Health!Pause, LibraryRow
  <2> QED BY <2>1, <1>b
<1>7. ASSUME NEW l \in Libraries, Health!Resume(l) PROVE OperatorEndsIt(m)
  <2>1. /\ libs' = [libs EXCEPT ![l] =
             Health!CheckLibraryHealth([libs[l] EXCEPT !.pause = "none"], live, plugin)]
        /\ live' = live /\ plugin' = plugin
    BY <1>7 DEF Health!Resume
  <2>2. CASE l # m
    BY <2>1, <2>2, <1>a, <1>b
  <2>3. CASE l = m
    <3> DEFINE r == [libs[m] EXCEPT !.pause = "none"]
               reason == Health!FlowInvalidReason(libs[m].attached, live, plugin)
    <3>1. r.pause = "none" /\ r.attached = libs[m].attached
      BY <1>a DEF LibraryRow
    <3>2. libs'[m] = [r EXCEPT !.pause = reason, !.checked = plugin]
      BY <2>1, <2>3, <3>1, <1>a DEF Health!CheckLibraryHealth
    <3> HIDE DEF reason
    <3>3. libs'[m] = [libs[m] EXCEPT !.pause = reason, !.checked = plugin]
      BY <3>2, <1>a DEF LibraryRow
    <3> QED BY <3>3, <2>1 DEF OperatorEndsIt, reason
  <2> QED BY <2>2, <2>3
<1>8. ASSUME NEW l \in Libraries, Health!ScanStarts(l) PROVE OperatorEndsIt(m)
  <2>1. libs'[m].pause = "operator"
    BY <1>8, <1>a DEF Health!ScanStarts, LibraryRow
  <2> QED BY <2>1, <1>b
<1>9. ASSUME NEW l \in Libraries, Health!ScanEnds(l) PROVE OperatorEndsIt(m)
  <2>1. libs'[m].pause = "operator"
    BY <1>9, <1>a DEF Health!ScanEnds, LibraryRow
  <2> QED BY <2>1, <1>b
<1>10. CASE UNCHANGED healthVars
  BY <1>10, <1>b DEF healthVars
<1> QED BY <1>1, <1>2, <1>3, <1>4, <1>5, <1>6, <1>7, <1>8, <1>9, <1>10 DEF Health!HealthNext

\* A library is held for its flow exactly when the flow cannot run, no file stays converged
\* under a flow it was not compared with, and the operator's pause ends by the operator's
\* request: for any flows and libraries (library-health.ts, routes/libraries.ts).
THEOREM PausesAreTheFlows == ControlSpec => PauseIsTheFlows
<1>1. ControlInit => HealthInv
  BY HealthInitial DEF ControlInit
<1>2. HealthInv /\ [ControlNext]_controlVars => HealthInv'
  BY HealthStep, ControlSteps
<1>3. HealthInv => (part = "health" => Health!PauseIsTheFlows /\ Health!NothingConvergesUnseen)
  BY DEF HealthInv, PauseIsCurrent, ScanIsCurrent, Health!PauseIsTheFlows, Health!NothingConvergesUnseen
<1>4. HealthInv /\ [ControlNext]_controlVars =>
        [\A l \in Libraries :
           libs[l].pause = "operator" /\ libs'[l].pause # "operator" =>
             live' = live /\ plugin' = plugin /\ libs'[l] = [libs[l] EXCEPT
               !.pause = Health!FlowInvalidReason(libs[l].attached, live, plugin),
               !.checked = plugin]]_Health!healthVars
  BY OperatorEnds, ControlSteps DEF OperatorEndsIt
<1> QED
  BY <1>1, <1>2, <1>3, <1>4, PTL DEF ControlSpec, PauseIsTheFlows, Health!OperatorPauseIsTheOperators

-----------------------------------------------------------------------------
(* The sources of plugins (PluginSources).                                 *)

Trees      == Nat \cup {Sources!Own}
Kinds      == {"local", "tarball"}
SyncRecord == [stage : {"idle", "fetching", "validating", "ending"}, tree : Trees, reg : Nat,
               kind : Kinds, run : Nat]

SourceTypes ==
  /\ source \in [reg : Nat, kind : Kinds]
  /\ rows \in [tree : Trees, reg : Nat]
  /\ disk \subseteq 1..asked \cup {Sources!Own} /\ Sources!Own \in disk
  /\ sync \in SyncRecord
  /\ status \in [run : Nat, running : BOOLEAN, ended : {"never", "report", "error"}]
  /\ asked \in Nat /\ added \in Nat
  /\ host \in {"up", "stopping", "closed"}

\* A sync has a tree of its own on disk, or the operator's, and the source it was asked for is
\* still there; nothing is told of it yet, and the database is open.
SyncIsTheSources ==
  Sources!Syncing =>
    /\ sync.tree \in disk /\ source # Sources!NoRow /\ sync.reg = source.reg
    /\ IF sync.kind = "tarball" THEN sync.tree # Sources!Own /\ sync.tree # rows.tree
       ELSE sync.tree = Sources!Own
    /\ status.ended = "never" /\ host # "closed"

RowsHaveTheirSource ==
  rows # Sources!NoRows =>
    rows.tree \in disk /\ source # Sources!NoRow /\ rows.reg = source.reg

SourcesInv ==
  SourceTypes /\ SyncIsTheSources /\ RowsHaveTheirSource /\ Sources!SlotIsBounded

LEMMA SourcesInitial == Sources!SourcesInit => SourcesInv
<1> SUFFICES ASSUME Sources!SourcesInit PROVE SourcesInv
  OBVIOUS
<1> USE DEF Sources!SourcesInit, Sources!NoRow, Sources!NoRows, Sources!Idle, Sources!Blank
<1>1. SourceTypes
  BY DEF SourceTypes, Trees, Kinds, SyncRecord
<1>2. SyncIsTheSources
  BY DEF SyncIsTheSources, Sources!Syncing
<1>3. RowsHaveTheirSource
  BY DEF RowsHaveTheirSource
<1>4. Sources!SlotIsBounded
  BY DEF Sources!SlotIsBounded
<1> QED BY <1>1, <1>2, <1>3, <1>4 DEF SourcesInv

\* What the last sync ended with, once it has.
LEMMA Settles ==
  ASSUME SourceTypes, NEW how \in {"report", "error"}, Sources!Settle(how)
  PROVE  /\ sync' \in SyncRecord /\ sync'.stage = "idle" /\ ~ Sources!Syncing'
         /\ status' \in [run : Nat, running : BOOLEAN, ended : {"never", "report", "error"}]
         /\ status'.ended = how
<1>1. sync.run \in Nat
  BY DEF SourceTypes, SyncRecord
<1> QED
  BY <1>1 DEF Sources!Settle, Sources!Idle, SyncRecord, Trees, Kinds, Sources!Syncing

\* A sync that wrote nothing takes its own tree with it.
LEMMA CleansUp ==
  ASSUME SourcesInv, Sources!Syncing
  PROVE  LET left == Sources!Cleanup(sync.tree, sync.kind) IN
           /\ left \subseteq disk /\ Sources!Own \in left
           /\ rows # Sources!NoRows => rows.tree \in left
<1>1. CASE sync.kind = "tarball"
  BY <1>1 DEF SourcesInv, SourceTypes, SyncIsTheSources, RowsHaveTheirSource, Sources!Cleanup
<1>2. CASE sync.kind # "tarball"
  BY <1>2 DEF SourcesInv, SourceTypes, SyncIsTheSources, RowsHaveTheirSource, Sources!Cleanup
<1> QED BY <1>1, <1>2

\* A step that ends the sync and leaves the rows.
LEMMA SyncFails ==
  ASSUME SourcesInv, Sources!Syncing, Sources!Settle("error"),
         disk' = Sources!Cleanup(sync.tree, sync.kind),
         UNCHANGED <<source, rows, asked, added, job, failed, host>>
  PROVE  SourcesInv'
<1> DEFINE left == Sources!Cleanup(sync.tree, sync.kind)
<1>1. left \subseteq disk /\ Sources!Own \in left /\ (rows # Sources!NoRows => rows.tree \in left)
  BY CleansUp
<1>2. SourceTypes
  BY DEF SourcesInv
<1>3. /\ sync' \in SyncRecord /\ ~ Sources!Syncing'
      /\ status' \in [run : Nat, running : BOOLEAN, ended : {"never", "report", "error"}]
      /\ status'.ended = "error"
  BY <1>2, Settles
<1>4. disk' = left
  OBVIOUS
<1> HIDE DEF left
<1>5. SourceTypes'
  BY <1>1, <1>2, <1>3, <1>4 DEF SourceTypes
<1>6. RowsHaveTheirSource'
  BY <1>1, <1>4 DEF SourcesInv, RowsHaveTheirSource
<1>7. SyncIsTheSources'
  BY <1>3 DEF SyncIsTheSources
<1>8. Sources!SlotIsBounded'
  BY <1>3 DEF Sources!SlotIsBounded
<1> QED BY <1>5, <1>6, <1>7, <1>8 DEF SourcesInv

LEMMA RequestsSync == SourcesInv /\ Sources!RequestSync => SourcesInv'
<1> SUFFICES ASSUME SourcesInv, Sources!RequestSync PROVE SourcesInv'
  OBVIOUS
<1> USE DEF SourcesInv
<1> DEFINE dir == IF source.kind = "local" THEN Sources!Own ELSE asked + 1
<1>1. /\ sync' = [stage |-> "fetching", tree |-> dir, reg |-> source.reg, kind |-> source.kind,
                  run |-> asked + 1]
      /\ disk' = disk \cup {sync'.tree} /\ asked' = asked + 1 /\ host = "up"
      /\ status' = [run |-> asked + 1, running |-> TRUE, ended |-> "never"]
      /\ source # Sources!NoRow /\ UNCHANGED <<source, rows, added, job, failed, host>>
  BY DEF Sources!RequestSync
<1>2. source.reg \in Nat /\ source.kind \in Kinds /\ asked \in Nat
  BY DEF SourceTypes
<1>3. dir \in Trees /\ dir \in 1..(asked + 1) \cup {Sources!Own}
      /\ IF source.kind = "tarball" THEN dir = asked + 1 ELSE dir = Sources!Own
  BY <1>2 DEF Trees, Kinds
<1> HIDE DEF dir
<1>4. /\ sync' \in SyncRecord /\ sync'.tree = dir /\ sync'.reg = source.reg
      /\ sync'.kind = source.kind /\ status'.ended = "never"
  BY <1>1, <1>2, <1>3 DEF SyncRecord
<1>5. disk' = disk \cup {dir} /\ disk' \subseteq 1..asked' \cup {Sources!Own}
  <2>1. disk' = disk \cup {dir} /\ asked' = asked + 1 /\ asked \in Nat
    BY <1>1, <1>2, <1>4
  <2>2. disk \subseteq 1..asked \cup {Sources!Own}
    BY DEF SourceTypes
  <2>3. 1..asked \subseteq 1..(asked + 1)
    BY <2>1
  <2> QED BY <2>1, <2>2, <2>3, <1>3
<1>6. status' \in [run : Nat, running : BOOLEAN, ended : {"never", "report", "error"}]
  BY <1>1, <1>2
<1>7. SourceTypes'
  BY <1>1, <1>2, <1>4, <1>5, <1>6 DEF SourceTypes
<1>8. asked + 1 # Sources!Own /\ asked + 1 # rows.tree
  <2>1. rows.tree \in 1..asked \cup {Sources!Own} \/ rows.tree = 0
    <3>1. CASE rows = Sources!NoRows
      BY <3>1 DEF Sources!NoRows
    <3>2. CASE rows # Sources!NoRows
      BY <3>2 DEF SourceTypes, RowsHaveTheirSource
    <3> QED BY <3>1, <3>2
  <2> QED BY <2>1, <1>2 DEF Sources!Own
<1>9. SyncIsTheSources'
  BY <1>1, <1>3, <1>4, <1>5, <1>8 DEF SyncIsTheSources
<1>10. RowsHaveTheirSource'
  BY <1>1, <1>5 DEF RowsHaveTheirSource
<1>11. Sources!SlotIsBounded'
  BY <1>4 DEF Sources!SlotIsBounded
<1> QED BY <1>7, <1>9, <1>10, <1>11

LEMMA SyncFetched == SourcesInv /\ Sources!Fetched => SourcesInv'
<1> SUFFICES ASSUME SourcesInv, Sources!Fetched PROVE SourcesInv'
  OBVIOUS
<1>1. Sources!Syncing
  BY DEF Sources!Fetched, Sources!Syncing
<1>2. CASE sync' = [sync EXCEPT !.stage = "validating"] /\ UNCHANGED <<disk, status>>
  <2>1. /\ sync' \in SyncRecord /\ sync'.tree = sync.tree /\ sync'.reg = sync.reg
        /\ sync'.kind = sync.kind
    BY <1>2 DEF SourcesInv, SourceTypes, SyncRecord
  <2>2. UNCHANGED <<source, rows, disk, status, asked, added, host>>
    BY <1>2 DEF Sources!Fetched
  <2>3. SourceTypes'
    BY <2>1, <2>2 DEF SourcesInv, SourceTypes
  <2>4. SyncIsTheSources' /\ RowsHaveTheirSource' /\ Sources!SlotIsBounded'
    BY <1>1, <2>1, <2>2
       DEF SourcesInv, SyncIsTheSources, RowsHaveTheirSource, Sources!SlotIsBounded
  <2> QED BY <2>3, <2>4 DEF SourcesInv
<1>3. CASE Sources!Settle("error") /\ disk' = Sources!Cleanup(sync.tree, sync.kind)
  BY <1>1, <1>3, SyncFails DEF Sources!Fetched
<1> QED BY <1>2, <1>3 DEF Sources!Fetched

\* What a sync writes points into its tree, under the source it was asked for.
LEMMA RowsWritten ==
  ASSUME SourcesInv, Sources!Syncing, rows' = [tree |-> sync.tree, reg |-> sync.reg]
  PROVE  /\ rows' \in [tree : Trees, reg : Nat] /\ rows'.tree = sync.tree
         /\ rows'.tree \in disk /\ rows'.reg = source.reg /\ source # Sources!NoRow
  BY DEF SourcesInv, SourceTypes, SyncRecord, SyncIsTheSources

LEMMA SyncWrites == SourcesInv /\ Sources!Write => SourcesInv'
<1> SUFFICES ASSUME SourcesInv, Sources!Write PROVE SourcesInv'
  OBVIOUS
<1>1. Sources!Syncing /\ source # Sources!NoRow
  BY DEF Sources!Write, Sources!Syncing, SourcesInv, SyncIsTheSources
<1>2. /\ rows' = [tree |-> sync.tree, reg |-> sync.reg]
      /\ UNCHANGED <<source, asked, added, job, failed, host>>
      /\ \/ disk' = Sources!Prune(sync.tree, sync.kind) /\ Sources!Settle("report")
         \/ sync.kind = "tarball" /\ Sources!Settle("error") /\ UNCHANGED disk
  BY <1>1 DEF Sources!Write
<1>3. /\ rows' \in [tree : Trees, reg : Nat] /\ rows'.tree = sync.tree
      /\ rows'.tree \in disk /\ rows'.reg = source.reg
  BY <1>1, <1>2, RowsWritten
<1>4. SourceTypes
  BY DEF SourcesInv
<1>5. PICK how \in {"report", "error"} : Sources!Settle(how) /\ (how = "report" => disk' = Sources!Prune(sync.tree, sync.kind))
  BY <1>2
<1>6. /\ sync' \in SyncRecord /\ ~ Sources!Syncing'
      /\ status' \in [run : Nat, running : BOOLEAN, ended : {"never", "report", "error"}]
      /\ status'.ended = how
  BY <1>4, <1>5, Settles
<1>7. disk' \subseteq disk /\ Sources!Own \in disk' /\ sync.tree \in disk'
  <2>1. Sources!Own \in disk /\ sync.tree \in disk
    BY <1>3, <1>4 DEF SourceTypes
  <2> QED BY <2>1, <1>2 DEF Sources!Prune
<1>8. SourceTypes'
  BY <1>2, <1>3, <1>4, <1>6, <1>7 DEF SourceTypes
<1>9. RowsHaveTheirSource'
  BY <1>1, <1>2, <1>3, <1>7 DEF RowsHaveTheirSource
<1>10. SyncIsTheSources'
  BY <1>6 DEF SyncIsTheSources
<1>11. Sources!SlotIsBounded'
  <2>1. ASSUME how = "report", sync.tree # Sources!Own PROVE disk' \subseteq {sync.tree, Sources!Own}
    <3>1. sync.kind = "tarball"
      BY <1>1, <2>1 DEF SourcesInv, SyncIsTheSources
    <3> QED BY <3>1, <2>1, <1>5 DEF Sources!Prune
  <2> QED BY <2>1, <1>3, <1>6 DEF Sources!SlotIsBounded
<1> QED BY <1>8, <1>9, <1>10, <1>11 DEF SourcesInv

LEMMA DaemonDies == SourcesInv /\ Sources!Crash => SourcesInv'
<1> SUFFICES ASSUME SourcesInv, Sources!Crash PROVE SourcesInv'
  OBVIOUS
<1> USE DEF SourcesInv
<1>1. /\ sync' = Sources!Idle /\ status' = Sources!Blank /\ host' = "up"
      /\ UNCHANGED <<source, disk, asked, added, failed>>
      /\ \/ UNCHANGED rows
         \/ /\ sync.stage = "validating" /\ source # Sources!NoRow
            /\ rows' = [tree |-> sync.tree, reg |-> sync.reg]
  BY DEF Sources!Crash
<1>2. /\ sync' \in SyncRecord /\ ~ Sources!Syncing' /\ status'.ended = "never"
      /\ status' \in [run : Nat, running : BOOLEAN, ended : {"never", "report", "error"}]
  BY <1>1 DEF Sources!Idle, Sources!Blank, SyncRecord, Trees, Kinds, Sources!Syncing
<1>3. rows' \in [tree : Trees, reg : Nat] /\ RowsHaveTheirSource'
  <2>1. CASE UNCHANGED rows
    BY <2>1, <1>1 DEF SourceTypes, RowsHaveTheirSource
  <2>2. CASE sync.stage = "validating" /\ rows' = [tree |-> sync.tree, reg |-> sync.reg]
    <3>1. Sources!Syncing
      BY <2>2 DEF Sources!Syncing
    <3> QED BY <2>2, <3>1, <1>1, RowsWritten DEF RowsHaveTheirSource
  <2> QED BY <2>1, <2>2, <1>1
<1>4. SourceTypes'
  BY <1>1, <1>2, <1>3 DEF SourceTypes
<1>5. SyncIsTheSources' /\ Sources!SlotIsBounded'
  BY <1>2 DEF SyncIsTheSources, Sources!SlotIsBounded
<1> QED BY <1>3, <1>4, <1>5

LEMMA SourcesStep == SourcesInv /\ [Sources!SourcesNext]_sourceVars => SourcesInv'
<1> SUFFICES ASSUME SourcesInv, [Sources!SourcesNext]_sourceVars PROVE SourcesInv'
  OBVIOUS
<1> USE DEF SourcesInv
<1>1. ASSUME NEW kind \in Kinds, Sources!AddSource(kind) PROVE SourcesInv'
  <2>1. rows = Sources!NoRows /\ ~ Sources!Syncing
    BY <1>1 DEF Sources!AddSource, RowsHaveTheirSource, SyncIsTheSources
  <2>2. /\ source' = [reg |-> added + 1, kind |-> kind] /\ added' = added + 1
        /\ UNCHANGED <<rows, disk, sync, status, asked, job, failed, host>>
    BY <1>1 DEF Sources!AddSource
  <2>3. SourceTypes'
    BY <2>2 DEF SourceTypes
  <2>4. SyncIsTheSources' /\ RowsHaveTheirSource' /\ Sources!SlotIsBounded'
    BY <2>1, <2>2
       DEF SyncIsTheSources, RowsHaveTheirSource, Sources!SlotIsBounded, Sources!Syncing
  <2> QED BY <2>3, <2>4
<1>2. CASE Sources!RemoveSource
  <2>1. /\ source' = Sources!NoRow /\ rows' = Sources!NoRows /\ ~ Sources!Syncing
        /\ UNCHANGED <<disk, sync, status, asked, added, job, failed, host>>
    BY <1>2 DEF Sources!RemoveSource
  <2>2. SourceTypes'
    BY <2>1 DEF SourceTypes, Sources!NoRow, Sources!NoRows, Trees, Kinds
  <2>3. SyncIsTheSources' /\ RowsHaveTheirSource' /\ Sources!SlotIsBounded'
    BY <2>1 DEF SyncIsTheSources, RowsHaveTheirSource, Sources!SlotIsBounded, Sources!Syncing
  <2> QED BY <2>2, <2>3
<1>3. CASE Sources!WriteRefused
  <2>1. Sources!Syncing
    BY <1>3 DEF Sources!WriteRefused, Sources!Syncing
  <2> QED BY <2>1, <1>3, SyncFails DEF Sources!WriteRefused
<1>4. ASSUME UNCHANGED <<source, rows, disk, sync, status, asked, added>>,
             host' \in {"up", "stopping", "closed"}, host' = "closed" => host = "closed" \/ ~ Sources!Syncing
      PROVE  SourcesInv'
  <2>1. SourceTypes'
    BY <1>4 DEF SourceTypes
  <2>2. SyncIsTheSources' /\ RowsHaveTheirSource' /\ Sources!SlotIsBounded'
    BY <1>4 DEF SyncIsTheSources, RowsHaveTheirSource, Sources!SlotIsBounded, Sources!Syncing
  <2> QED BY <2>1, <2>2
<1>5. host \in {"up", "stopping", "closed"}
  BY DEF SourceTypes
<1>6. CASE Sources!BuildJob \/ Sources!LoadPlugin \/ Sources!JobEnds \/ Sources!StopRequests \/ Sources!CloseDb
  BY <1>4, <1>5, <1>6
     DEF Sources!BuildJob, Sources!LoadPlugin, Sources!JobEnds, Sources!StopRequests, Sources!CloseDb
<1>7. CASE UNCHANGED sourceVars
  BY <1>4, <1>5, <1>7 DEF sourceVars
<1> QED BY <1>1, <1>2, <1>3, <1>6, <1>7, RequestsSync, SyncFetched, SyncWrites, DaemonDies
        DEF Sources!SourcesNext, Kinds

\* The plugins that are installed are on disk and of their source, one tree stays in the slot
\* of a source that was synced, and no sync outlives the database: for any number of syncs,
\* sources, crashes and jobs (sync-coordinator.ts, sync-source.ts, fetch-source.ts).
THEOREM InstalledStays == ControlSpec => []InstalledIsOnDisk
<1>1. ControlInit => SourcesInv
  BY SourcesInitial DEF ControlInit
<1>2. SourcesInv /\ [ControlNext]_controlVars => SourcesInv'
  BY SourcesStep, ControlSteps
<1>3. SourcesInv => InstalledIsOnDisk
  BY DEF SourcesInv, SourceTypes, SyncIsTheSources, RowsHaveTheirSource, InstalledIsOnDisk,
         Sources!InstalledIsOnDisk, Sources!RowsAreTheSources, Sources!NoSyncAfterClose
<1> QED BY <1>1, <1>2, <1>3, PTL DEF ControlSpec

-----------------------------------------------------------------------------
(* Previews (Previews).                                                    *)

RunRecord == [flow : Flows \cup {"none"}, status : {"none", "running", "cancelled", "done", "failed"},
              at : {"none", "file", "canvas", "both", "over"}, processed : 0..Dry!Files,
              published : Nat, compared : SUBSET Nat]

OnItsWay(r) == r.at \in {"file", "canvas", "both"}

PreviewTypes ==
  /\ stored \in [Flows -> Nat] /\ publishes \in Nat
  /\ runs \in [Dry!Ids -> RunRecord]
  /\ current \in [Flows -> Nat]
  /\ closing \in {"open", "closing", "closed"}

\* A run that was started is of a flow, compares with one definition, and can be asked for
\* while it is running.
RunIsRight(i, r) ==
  /\ r.compared \subseteq {r.published}
  /\ OnItsWay(r) => r.status # "none" /\ r.processed < Dry!Files
  /\ r.status # "none" => r.flow \in Flows
  /\ OnItsWay(r) /\ r.status = "running" => current[r.flow] = i

\* What can be asked for is a run of its flow.
CurrentIsOfTheFlow ==
  \A f \in Flows : current[f] # 0 =>
    current[f] \in Dry!Ids /\ runs[current[f]].flow = f /\ runs[current[f]].status # "none"

ClosedIsQuiet == closing = "closed" => \A i \in Dry!Ids : ~ OnItsWay(runs[i])

PreviewInv ==
  PreviewTypes /\ (\A i \in Dry!Ids : RunIsRight(i, runs[i])) /\ CurrentIsOfTheFlow /\ ClosedIsQuiet

LEMMA PreviewInitial == Dry!PreviewInit => PreviewInv
<1> SUFFICES ASSUME Dry!PreviewInit PROVE PreviewInv
  OBVIOUS
<1> USE DEF Dry!PreviewInit
<1>1. Dry!NoRun \in RunRecord /\ Dry!NoRun.status = "none" /\ Dry!NoRun.compared = {} /\ ~ OnItsWay(Dry!NoRun)
  BY DEF Dry!NoRun, RunRecord, Dry!Files, OnItsWay
<1>2. PreviewTypes
  BY <1>1 DEF PreviewTypes
<1>3. \A i \in Dry!Ids : runs[i] = Dry!NoRun
  OBVIOUS
<1>4. CurrentIsOfTheFlow /\ ClosedIsQuiet
  BY DEF CurrentIsOfTheFlow, ClosedIsQuiet
<1> QED BY <1>1, <1>2, <1>3, <1>4 DEF PreviewInv, RunIsRight

\* One run goes on or ends.
LEMMA RunGoesOn ==
  ASSUME PreviewInv, NEW i \in Dry!Ids, NEW r \in RunRecord, OnItsWay(runs[i]),
         r.flow = runs[i].flow, r.status # "none", r.compared \subseteq {r.published},
         r.status = "running" => runs[i].status = "running", OnItsWay(r) => r.processed < Dry!Files,
         runs' = [runs EXCEPT ![i] = r], UNCHANGED <<stored, current, publishes, closing>>
  PROVE  PreviewInv'
<1> USE DEF PreviewInv
<1>1. runs \in [Dry!Ids -> RunRecord]
  BY DEF PreviewTypes
<1>2. PreviewTypes'
  BY <1>1 DEF PreviewTypes
<1>3. RunIsRight(i, r)'
  <2>1. RunIsRight(i, runs[i])
    OBVIOUS
  <2> QED BY <2>1 DEF RunIsRight, OnItsWay
<1>4. ASSUME NEW j \in Dry!Ids PROVE RunIsRight(j, runs[j])'
  <2>1. CASE i = j
    <3>1. runs'[j] = r
      BY <1>1, <2>1
    <3> QED BY <1>3, <2>1, <3>1 DEF RunIsRight, OnItsWay
  <2>2. CASE i # j
    <3>1. runs'[j] = runs[j] /\ RunIsRight(j, runs[j])
      BY <1>1, <2>2
    <3> QED BY <3>1 DEF RunIsRight, OnItsWay
  <2> QED BY <2>1, <2>2
<1>5. CurrentIsOfTheFlow'
  BY <1>1 DEF CurrentIsOfTheFlow
<1>6. ClosedIsQuiet'
  BY DEF ClosedIsQuiet
<1> QED BY <1>2, <1>4, <1>5, <1>6

\* Runs are cancelled: those that are running.
LEMMA Cancels ==
  ASSUME PreviewTypes, NEW is
  PROVE  /\ Dry!CancelAll(is) \in [Dry!Ids -> RunRecord]
         /\ \A i \in Dry!Ids :
              LET r == Dry!CancelAll(is)[i] IN
                /\ r.flow = runs[i].flow /\ r.at = runs[i].at /\ r.published = runs[i].published
                /\ r.compared = runs[i].compared /\ r.processed = runs[i].processed
                /\ r.status = IF i \in is /\ runs[i].status = "running" THEN "cancelled"
                              ELSE runs[i].status
<1>1. \A i \in Dry!Ids : runs[i] \in RunRecord
  BY DEF PreviewTypes
<1>2. ASSUME NEW r \in RunRecord
      PROVE  /\ Dry!Cancelled(r) \in RunRecord
             /\ Dry!Cancelled(r).flow = r.flow /\ Dry!Cancelled(r).at = r.at
             /\ Dry!Cancelled(r).published = r.published /\ Dry!Cancelled(r).compared = r.compared
             /\ Dry!Cancelled(r).processed = r.processed
             /\ Dry!Cancelled(r).status = IF r.status = "running" THEN "cancelled" ELSE r.status
  BY DEF Dry!Cancelled, RunRecord
<1>3. \A i \in Dry!Ids : Dry!CancelAll(is)[i] = IF i \in is THEN Dry!Cancelled(runs[i]) ELSE runs[i]
  BY DEF Dry!CancelAll
<1>4. \A i \in Dry!Ids : Dry!CancelAll(is)[i] \in RunRecord
  BY <1>1, <1>2, <1>3
<1>5. Dry!CancelAll(is) \in [Dry!Ids -> RunRecord]
  BY <1>4 DEF Dry!CancelAll
<1> QED BY <1>1, <1>2, <1>3, <1>5

LEMMA RunsCancelled ==
  ASSUME PreviewInv, NEW is, runs' = Dry!CancelAll(is), UNCHANGED <<stored, current, publishes>>,
         closing' \in {"open", "closing"}
  PROVE  PreviewInv'
<1> USE DEF PreviewInv
<1>1. PreviewTypes'
  BY Cancels DEF PreviewTypes
<1>2. ASSUME NEW i \in Dry!Ids PROVE RunIsRight(i, runs[i])'
  <2>1. RunIsRight(i, runs[i])
    OBVIOUS
  <2> QED BY <2>1, Cancels DEF RunIsRight, OnItsWay
<1>3. CurrentIsOfTheFlow'
  BY Cancels DEF CurrentIsOfTheFlow
<1>4. ClosedIsQuiet'
  BY DEF ClosedIsQuiet
<1> QED BY <1>1, <1>2, <1>3, <1>4

LEMMA PreviewStarts ==
  ASSUME PreviewInv, NEW f \in Flows, Dry!Start(f)
  PROVE  /\ PreviewInv'
         /\ \A j \in Dry!Ids : runs[j].status = "cancelled" =>
              runs'[j].status = "cancelled" /\ runs'[j].processed = runs[j].processed
<1> USE DEF PreviewInv
<1> DEFINE is == {current[g] : g \in Dry!Gone \cup {f}} \ {0}
<1>1. PICK i \in Dry!Ids :
        /\ runs[i] = Dry!NoRun
        /\ runs' = [Dry!CancelAll(is) EXCEPT ![i] =
             [Dry!NoRun EXCEPT !.flow = f, !.status = "running", !.at = "file",
                               !.published = stored[f]]]
        /\ current' = [g \in Flows |-> IF g = f THEN i ELSE IF g \in Dry!Gone THEN 0 ELSE current[g]]
  BY DEF Dry!Start
<1>2. UNCHANGED <<stored, publishes, closing>> /\ closing = "open"
  BY DEF Dry!Start
<1> DEFINE new == [Dry!NoRun EXCEPT !.flow = f, !.status = "running", !.at = "file",
                                    !.published = stored[f]]
<1>3. stored[f] \in Nat /\ i \in Nat /\ i # 0
  BY DEF PreviewTypes, Dry!Ids
<1>4. /\ new \in RunRecord /\ new.flow = f /\ new.status = "running" /\ new.compared = {}
      /\ OnItsWay(new) /\ new.processed < Dry!Files /\ runs[i].status = "none"
  <2>1. new = [flow |-> f, status |-> "running", at |-> "file", processed |-> 0,
               published |-> stored[f], compared |-> {}]
    <3> DEFINE flowed == [Dry!NoRun EXCEPT !.flow = f]
               opened == [flowed EXCEPT !.status = "running"]
               begun  == [opened EXCEPT !.at = "file"]
    <3>1. flowed = [flow |-> f, status |-> "none", at |-> "none", processed |-> 0,
                    published |-> 0, compared |-> {}]
      BY DEF Dry!NoRun
    <3>2. new = [begun EXCEPT !.published = stored[f]]
      BY DEF new
    <3> HIDE DEF flowed, new
    <3>3. opened = [flow |-> f, status |-> "running", at |-> "none", processed |-> 0,
                    published |-> 0, compared |-> {}]
      BY <3>1
    <3> HIDE DEF opened
    <3>4. begun = [flow |-> f, status |-> "running", at |-> "file", processed |-> 0,
                   published |-> 0, compared |-> {}]
      BY <3>3
    <3> HIDE DEF begun
    <3> QED BY <3>2, <3>4
  <2>2. runs[i].status = "none"
    BY <1>1 DEF Dry!NoRun
  <2> HIDE DEF new
  <2> QED BY <2>1, <2>2, <1>3 DEF RunRecord, Dry!Files, OnItsWay
<1>5. runs' = [Dry!CancelAll(is) EXCEPT ![i] = new]
  BY <1>1
<1>6. \A g \in Dry!Gone \cup {f} : current[g] # 0 => current[g] \in is
  OBVIOUS
<1> HIDE DEF new, is
<1>7. /\ runs' \in [Dry!Ids -> RunRecord] /\ runs'[i] = new
      /\ \A j \in Dry!Ids : j # i => runs'[j] = Dry!CancelAll(is)[j]
  BY <1>4, <1>5, Cancels
<1>8. PreviewTypes'
  BY <1>1, <1>2, <1>3, <1>7 DEF PreviewTypes
<1>9. ASSUME NEW j \in Dry!Ids PROVE RunIsRight(j, runs[j])'
  <2>1. CASE j = i
    BY <2>1, <1>1, <1>4, <1>7 DEF RunIsRight, OnItsWay
  <2>2. CASE j # i
    <3> DEFINE r == Dry!CancelAll(is)[j]
    <3>1. runs'[j] = r
      BY <2>2, <1>7
    <3>2. /\ r.flow = runs[j].flow /\ r.at = runs[j].at /\ r.published = runs[j].published
          /\ r.compared = runs[j].compared
          /\ r.status = IF j \in is /\ runs[j].status = "running" THEN "cancelled"
                        ELSE runs[j].status
      BY Cancels
    <3>3. RunIsRight(j, runs[j])
      OBVIOUS
    <3> HIDE DEF r
    <3>4. ASSUME OnItsWay(r), r.status = "running" PROVE current'[r.flow] = j
      <4>1. runs[j].status = "running" /\ j \notin is /\ OnItsWay(runs[j])
        BY <3>2, <3>4 DEF OnItsWay
      <4>2. r.flow \in Flows /\ current[r.flow] = j
        BY <3>2, <3>3, <4>1 DEF RunIsRight
      <4>3. j # 0
        BY DEF Dry!Ids
      <4>4. r.flow \notin Dry!Gone \cup {f}
        BY <4>1, <4>2, <4>3, <1>6
      <4> QED BY <4>2, <4>4, <1>1
    <3>5. /\ r.compared \subseteq {r.published}
          /\ OnItsWay(r) => r.status # "none" /\ runs'[j].processed < Dry!Files
          /\ r.status # "none" => r.flow \in Flows
      BY <3>1, <3>2, <3>3, Cancels DEF RunIsRight, OnItsWay, r
    <3> QED BY <3>1, <3>4, <3>5 DEF RunIsRight, OnItsWay
  <2> QED BY <2>1, <2>2
<1>10. CurrentIsOfTheFlow'
  <2> SUFFICES ASSUME NEW g \in Flows, current'[g] # 0
               PROVE  current'[g] \in Dry!Ids /\ runs'[current'[g]].flow = g
                      /\ runs'[current'[g]].status # "none"
    BY DEF CurrentIsOfTheFlow
  <2>1. CASE g = f
    BY <2>1, <1>1, <1>4, <1>7
  <2>2. CASE g # f
    <3>1. current'[g] = current[g] /\ current[g] # 0
      BY <2>2, <1>1
    <3>2. current[g] \in Dry!Ids /\ runs[current[g]].flow = g /\ runs[current[g]].status # "none"
      BY <3>1 DEF CurrentIsOfTheFlow
    <3>3. current[g] # i
      BY <3>2, <1>4
    <3>4. runs'[current[g]] = Dry!CancelAll(is)[current[g]]
      BY <3>2, <3>3, <1>7
    <3> QED BY <3>1, <3>2, <3>4, Cancels
  <2> QED BY <2>1, <2>2
<1>11. ClosedIsQuiet'
  BY <1>2 DEF ClosedIsQuiet
<1>12. ASSUME NEW j \in Dry!Ids, runs[j].status = "cancelled"
       PROVE  runs'[j].status = "cancelled" /\ runs'[j].processed = runs[j].processed
  <2>1. j # i
    BY <1>4, <1>12
  <2>2. runs'[j] = Dry!CancelAll(is)[j]
    BY <2>1, <1>7
  <2> QED BY <2>2, <1>12, Cancels
<1> QED BY <1>8, <1>9, <1>10, <1>11, <1>12

\* A run that was cancelled stays cancelled, and adds nothing to what it said.
StaysPut ==
  \A i \in Dry!Ids : runs[i].status = "cancelled" =>
    runs'[i].status = "cancelled" /\ runs'[i].processed = runs[i].processed

\* One step of a walk.
LEMMA WalkGoesOn ==
  ASSUME PreviewInv, NEW i \in Dry!Ids,
         Dry!Canvas(i) \/ Dry!PublishedHalf(i) \/ Dry!Row(i) \/ Dry!Throws(i)
  PROVE  PreviewInv' /\ StaysPut
<1> USE DEF PreviewInv
<1>1. /\ runs \in [Dry!Ids -> RunRecord] /\ runs[i] \in RunRecord
      /\ UNCHANGED <<stored, current, publishes, closing>>
  BY DEF PreviewTypes, Dry!Canvas, Dry!PublishedHalf, Dry!Row, Dry!Throws
<1>2. RunIsRight(i, runs[i])
  OBVIOUS
<1>3. OnItsWay(runs[i])
  BY DEF OnItsWay, Dry!Canvas, Dry!PublishedHalf, Dry!Row, Dry!Throws, Dry!Walking
<1>4. runs[i].status # "none" /\ runs[i].flow \in Flows /\ runs[i].compared \subseteq {runs[i].published}
      /\ runs[i].published \in Nat /\ runs[i].processed \in Nat
      /\ runs[i].processed < Dry!Files
  BY <1>1, <1>2, <1>3 DEF RunIsRight, RunRecord, Dry!Files
<1>5. ASSUME NEW r \in RunRecord, r.flow = runs[i].flow, r.status # "none",
             r.compared \subseteq {r.published}, r.status = "running" => runs[i].status = "running",
             OnItsWay(r) => r.processed < Dry!Files,
             runs' = [runs EXCEPT ![i] = r],
             runs[i].status = "cancelled" => r.status = "cancelled" /\ r.processed = runs[i].processed
      PROVE  PreviewInv' /\ StaysPut
  <2>1. PreviewInv'
    BY <1>1, <1>3, <1>5, RunGoesOn
  <2>2. \A j \in Dry!Ids : runs'[j] = IF j = i THEN r ELSE runs[j]
    BY <1>1, <1>5
  <2> QED BY <2>1, <2>2, <1>5 DEF StaysPut
<1>6. CASE Dry!Canvas(i)
  <2> DEFINE at == IF runs[i].status = "cancelled" THEN "over" ELSE "canvas"
             r == [runs[i] EXCEPT !.at = at]
  <2>1. runs' = [runs EXCEPT ![i] = r]
    BY <1>1, <1>6 DEF Dry!Canvas
  <2>2. /\ r \in RunRecord /\ r.flow = runs[i].flow /\ r.status = runs[i].status
        /\ r.compared = runs[i].compared /\ r.published = runs[i].published
        /\ r.processed = runs[i].processed
    BY <1>1 DEF RunRecord
  <2> HIDE DEF r
  <2> QED BY <2>1, <2>2, <1>4, <1>5
<1>7. CASE Dry!PublishedHalf(i)
  <2> DEFINE at == IF runs[i].status = "cancelled" THEN "over" ELSE "both"
             compared == IF runs[i].status = "cancelled" THEN runs[i].compared
                         ELSE runs[i].compared \cup ({runs[i].published} \ {0})
             r == [runs[i] EXCEPT !.at = at, !.compared = compared]
  <2>1. runs' = [runs EXCEPT ![i] = r]
    BY <1>1, <1>7 DEF Dry!PublishedHalf, Dry!Against
  <2>2. at \in {"over", "both"} /\ compared \subseteq {runs[i].published} /\ compared \in SUBSET Nat
    BY <1>4
  <2> HIDE DEF at, compared
  <2>3. /\ r \in RunRecord /\ r.flow = runs[i].flow /\ r.status = runs[i].status
        /\ r.compared = compared /\ r.published = runs[i].published
        /\ r.processed = runs[i].processed
    BY <1>1, <2>2 DEF RunRecord
  <2> HIDE DEF r
  <2> QED BY <2>1, <2>2, <2>3, <1>4, <1>5
<1>8. CASE Dry!Row(i)
  <2>1. CASE runs[i].status = "cancelled"
    <3> DEFINE r == [runs[i] EXCEPT !.at = "over"]
    <3>1. runs' = [runs EXCEPT ![i] = r]
      BY <1>1, <1>8, <2>1 DEF Dry!Row
    <3>2. /\ r \in RunRecord /\ r.flow = runs[i].flow /\ r.status = runs[i].status
          /\ r.compared = runs[i].compared /\ r.published = runs[i].published
          /\ r.processed = runs[i].processed
      BY <1>1 DEF RunRecord
    <3> HIDE DEF r
    <3> QED BY <3>1, <3>2, <1>4, <1>5
  <2>2. CASE runs[i].status # "cancelled" /\ runs[i].processed + 1 = Dry!Files
    <3> DEFINE r == [runs[i] EXCEPT !.processed = Dry!Files, !.at = "over", !.status = "done"]
    <3>1. runs' = [runs EXCEPT ![i] = r]
      BY <1>1, <1>8, <2>2 DEF Dry!Row
    <3>2. /\ r \in RunRecord /\ r.flow = runs[i].flow /\ r.status = "done" /\ r.at = "over"
          /\ r.compared = runs[i].compared /\ r.published = runs[i].published
      <4>1. Dry!Files \in 0..Dry!Files
        BY DEF Dry!Files
      <4> QED BY <1>1, <4>1 DEF RunRecord
    <3> HIDE DEF r
    <3> QED BY <3>1, <3>2, <2>2, <1>4, <1>5 DEF OnItsWay
  <2>3. CASE runs[i].status # "cancelled" /\ runs[i].processed + 1 # Dry!Files
    <3> DEFINE next == runs[i].processed + 1
               r == [runs[i] EXCEPT !.processed = next, !.at = "file"]
    <3>1. runs' = [runs EXCEPT ![i] = r]
      BY <1>1, <1>8, <2>3 DEF Dry!Row
    <3>a. next \in 0..Dry!Files /\ next < Dry!Files
      BY <1>4, <2>3 DEF Dry!Files
    <3> HIDE DEF next
    <3>2. /\ r \in RunRecord /\ r.flow = runs[i].flow /\ r.status = runs[i].status
          /\ r.processed = next
          /\ r.compared = runs[i].compared /\ r.published = runs[i].published
      BY <1>1, <3>a DEF RunRecord
    <3> HIDE DEF r
    <3> QED BY <3>1, <3>2, <3>a, <2>3, <1>4, <1>5
  <2> QED BY <2>1, <2>2, <2>3
<1>9. CASE Dry!Throws(i)
  <2> DEFINE status1 == IF runs[i].status = "cancelled" THEN "cancelled" ELSE "failed"
             r == [runs[i] EXCEPT !.at = "over", !.status = status1]
  <2>1. runs' = [runs EXCEPT ![i] = r]
    BY <1>1, <1>9 DEF Dry!Throws
  <2>2. /\ r \in RunRecord /\ r.flow = runs[i].flow /\ r.status = status1
        /\ r.compared = runs[i].compared /\ r.published = runs[i].published
        /\ r.processed = runs[i].processed
    BY <1>1 DEF RunRecord
  <2> HIDE DEF r
  <2> QED BY <2>1, <2>2, <1>4, <1>5
<1> QED BY <1>6, <1>7, <1>8, <1>9

LEMMA PreviewStep == PreviewInv /\ [Dry!PreviewNext]_previewVars => PreviewInv' /\ StaysPut
<1> SUFFICES ASSUME PreviewInv, [Dry!PreviewNext]_previewVars PROVE PreviewInv' /\ StaysPut
  OBVIOUS
<1>1. ASSUME NEW is, runs' = Dry!CancelAll(is), UNCHANGED <<stored, current, publishes>>,
             closing' \in {"open", "closing"}
      PROVE  PreviewInv' /\ StaysPut
  <2>1. StaysPut
    BY <1>1, Cancels DEF PreviewInv, StaysPut
  <2> QED BY <2>1, <1>1, RunsCancelled
<1>2. ASSUME UNCHANGED runs, stored' \in [Flows -> Nat], publishes' \in Nat,
             current' \in [Flows -> Nat], closing' \in {"open", "closing", "closed"},
             \A f \in Flows : current'[f] # current[f] =>
                              current'[f] = 0 /\ runs[current[f]].status # "running",
             closing' = "closed" /\ closing # "closed" => \A i \in Dry!Ids : ~ OnItsWay(runs[i])
      PROVE  PreviewInv' /\ StaysPut
  <2> USE DEF PreviewInv
  <2>1. PreviewTypes'
    BY <1>2 DEF PreviewTypes
  <2>2. ASSUME NEW i \in Dry!Ids PROVE RunIsRight(i, runs[i])'
    <3>1. RunIsRight(i, runs[i]) /\ runs' = runs
      BY <1>2
    <3> QED BY <3>1, <1>2 DEF RunIsRight, OnItsWay
  <2>3. CurrentIsOfTheFlow'
    BY <1>2 DEF CurrentIsOfTheFlow
  <2>4. ClosedIsQuiet'
    BY <1>2 DEF ClosedIsQuiet
  <2>5. StaysPut
    BY <1>2 DEF StaysPut
  <2> QED BY <2>1, <2>2, <2>3, <2>4, <2>5
<1>3. /\ stored \in [Flows -> Nat] /\ publishes \in Nat /\ current \in [Flows -> Nat]
      /\ closing \in {"open", "closing", "closed"}
  BY DEF PreviewInv, PreviewTypes
<1>4. ASSUME NEW f \in Flows, Dry!StopRun(f) PROVE PreviewInv' /\ StaysPut
  BY <1>1, <1>3, <1>4 DEF Dry!StopRun
<1>5. ASSUME NEW f \in Flows, Dry!CancelOrDrop(f) PROVE PreviewInv' /\ StaysPut
  <2>1. CASE runs[current[f]].status = "running"
    BY <2>1, <1>1, <1>3, <1>5 DEF Dry!CancelOrDrop
  <2>2. CASE runs[current[f]].status # "running"
    <3>1. current' = [current EXCEPT ![f] = 0] /\ UNCHANGED <<runs, stored, publishes, closing>>
      BY <2>2, <1>5 DEF Dry!CancelOrDrop
    <3> QED BY <3>1, <2>2, <1>2, <1>3
  <2> QED BY <2>1, <2>2
<1>6. ASSUME NEW f \in Flows, Dry!Publish(f) \/ Dry!DeleteFlow(f) PROVE PreviewInv' /\ StaysPut
  <2>1. stored' \in [Flows -> Nat] /\ publishes' \in Nat /\ UNCHANGED <<runs, current, closing>>
    BY <1>3, <1>6 DEF Dry!Publish, Dry!DeleteFlow
  <2> QED BY <2>1, <1>2, <1>3
<1>7. CASE Dry!StopAll
  BY <1>1, <1>7 DEF Dry!StopAll
<1>8. CASE Dry!Stopped
  BY <1>2, <1>3, <1>8 DEF Dry!Stopped, Dry!Walking, OnItsWay
<1>9. CASE UNCHANGED previewVars
  BY <1>2, <1>3, <1>9 DEF previewVars
<1>10. ASSUME NEW f \in Flows, Dry!Start(f) PROVE PreviewInv' /\ StaysPut
  BY <1>10, PreviewStarts DEF StaysPut
<1> QED BY <1>4, <1>5, <1>6, <1>7, <1>8, <1>9, <1>10, WalkGoesOn DEF Dry!PreviewNext

\* A preview compares with one definition, none walks on that nobody can read, but of a flow
\* that was deleted, and a cancelled one stays as it was read: for any flows and number of
\* previews and publishes (flow/dry-run-runs.ts).
THEOREM PreviewsAnswerOne == ControlSpec => OneComparison
<1>1. ControlInit => PreviewInv
  BY PreviewInitial DEF ControlInit
<1>2. PreviewInv /\ [ControlNext]_controlVars => PreviewInv'
  BY PreviewStep, ControlSteps
<1>3. PreviewInv => (part = "previews" => Dry!OneComparison /\ Dry!OrphansAreCancelled)
  BY DEF PreviewInv, RunIsRight, ClosedIsQuiet, OnItsWay, Dry!OneComparison,
         Dry!OrphansAreCancelled, Dry!Walking
<1>4. PreviewInv /\ [ControlNext]_controlVars =>
        [\A i \in Dry!Ids : runs[i].status = "cancelled" =>
           runs'[i].status = "cancelled" /\ runs'[i].processed = runs[i].processed]_Dry!previewVars
  BY PreviewStep, ControlSteps DEF StaysPut
<1> QED
  BY <1>1, <1>2, <1>3, <1>4, PTL DEF ControlSpec, OneComparison, Dry!CancelledStaysPut

-----------------------------------------------------------------------------
(* Bundles on the server (BundleStore).                                    *)

BundleHashes == Contents \cup {Store!Gone, Store!Torn}
Listings     == (Contents \cup {Store!Gone}) \X Nat
BundleTree   == [content : Contents \cup {Store!Gone}, stamp : Nat]
CacheRow     == [signature : Listings \cup {<< >>}, hash : BundleHashes]
Reading      == {"preparing", "listing"}
BundleRequest ==
  [phase : {"idle", "preparing", "sent", "listing", "fetching", "fetched", "failed"},
   root : Roots \cup {Store!Gone}, signature : Listings \cup {<< >>},
   asked : BundleHashes, listed : BundleHashes]

StoreTypes ==
  /\ tree \in [Roots -> BundleTree]
  /\ cacheByRoot \in [Roots -> CacheRow]
  /\ \A h \in DOMAIN rootByHash : rootByHash[h] \in Roots
  /\ request \in [Requests -> BundleRequest]
  /\ \A q \in Requests : request[q].phase \in Reading =>
       request[q].root \in Roots /\ request[q].signature \in Listings

StoreInv == StoreTypes /\ Store!ServedHashIsTheLast /\ Store!BytesAreTheHash

LEMMA StoreInitial == Store!StoreInit => StoreInv
<1> SUFFICES ASSUME Store!StoreInit PROVE StoreInv
  OBVIOUS
<1> USE DEF Store!StoreInit
<1>1. Store!NoEntry \in CacheRow
  BY DEF Store!NoEntry, CacheRow, BundleHashes
<1>2. Store!Idle \in BundleRequest /\ Store!Idle.phase = "idle"
  BY DEF Store!Idle, BundleRequest, BundleHashes
<1>3. tree \in [Roots -> BundleTree]
  BY DEF BundleTree
<1>4. DOMAIN rootByHash = {}
  OBVIOUS
<1>5. StoreTypes
  BY <1>1, <1>2, <1>3, <1>4 DEF StoreTypes, Reading
<1>6. Store!ServedHashIsTheLast /\ Store!BytesAreTheHash
  BY <1>2, <1>4 DEF Store!ServedHashIsTheLast, Store!BytesAreTheHash
<1> QED BY <1>5, <1>6 DEF StoreInv

\* One request goes on; what is served stays.
LEMMA RequestGoesOn ==
  ASSUME StoreInv, NEW q \in Requests, NEW r \in BundleRequest, request' = [request EXCEPT ![q] = r],
         r.phase \in Reading => r.root \in Roots /\ r.signature \in Listings,
         r.phase \in {"fetching", "fetched"} => r.listed = r.asked,
         UNCHANGED <<tree, cacheByRoot, rootByHash>>
  PROVE  StoreInv'
<1> USE DEF StoreInv
<1>1. request' \in [Requests -> BundleRequest] /\ \A p \in Requests : request'[p] = IF p = q THEN r ELSE request[p]
  BY DEF StoreTypes
<1>2. StoreTypes'
  BY <1>1 DEF StoreTypes
<1>3. Store!BytesAreTheHash'
  BY <1>1 DEF Store!BytesAreTheHash
<1>4. Store!ServedHashIsTheLast'
  BY DEF Store!ServedHashIsTheLast
<1> QED BY <1>2, <1>3, <1>4

\* A walk of a tree that is not answered from the cache fails or goes on to read it.
LEMMA Walks ==
  ASSUME StoreInv, NEW q \in Requests, NEW r \in Roots, NEW reading \in Reading,
         NEW cached \in BundleRequest, cached.phase \notin Reading,
         cached.phase \in {"fetching", "fetched"} => cached.listed = cached.asked,
         Store!Walk(q, r, reading, cached), UNCHANGED <<tree, cacheByRoot, rootByHash>>
  PROVE  StoreInv'
<1>1. request[q] \in BundleRequest /\ tree[r] \in BundleTree
  BY DEF StoreInv, StoreTypes
<1> DEFINE refusal == [request[q] EXCEPT !.phase = "failed"]
           signature == <<tree[r].content, tree[r].stamp>>
           walking == [request[q] EXCEPT !.phase = reading, !.root = r, !.signature = signature]
<1>2. \E v \in {refusal, cached, walking} : request' = [request EXCEPT ![q] = v]
  <2>1. \A p : request[p] = request[p]
    OBVIOUS
  <2> QED BY DEF Store!Walk, Store!Signature, StoreInv, StoreTypes
<1>3. refusal \in BundleRequest /\ refusal.phase = "failed"
  BY <1>1 DEF BundleRequest
<1>4. signature \in Listings
  BY <1>1 DEF BundleTree, Listings
<1> HIDE DEF refusal, signature
<1>5. /\ walking \in BundleRequest /\ walking.phase = reading
      /\ walking.root = r /\ walking.signature = signature
  BY <1>1, <1>4 DEF BundleRequest, Reading
<1> HIDE DEF walking
<1> QED BY <1>2, <1>3, <1>4, <1>5, RequestGoesOn DEF Reading

\* A hash is registered for a tree: the one it had before names nothing any more.
LEMMA Registers ==
  ASSUME StoreInv, NEW r \in Roots, NEW signature \in Listings, NEW hash \in BundleHashes,
         Store!Register(r, signature, hash)
  PROVE  /\ cacheByRoot' \in [Roots -> CacheRow]
         /\ \A h \in DOMAIN rootByHash' : rootByHash'[h] \in Roots
         /\ Store!ServedHashIsTheLast'
<1> DEFINE stale == {cacheByRoot[r].hash} \ {hash}
           entry == [signature |-> signature, hash |-> hash]
<1>1. /\ cacheByRoot' = [cacheByRoot EXCEPT ![r] = entry]
      /\ rootByHash' = [h \in {hash} \cup (DOMAIN rootByHash \ stale) |->
                          IF h = hash THEN r ELSE rootByHash[h]]
  BY DEF Store!Register
<1>2. entry \in CacheRow /\ entry.hash = hash
  BY DEF CacheRow
<1>3. /\ cacheByRoot \in [Roots -> CacheRow]
      /\ \A h \in DOMAIN rootByHash : rootByHash[h] \in Roots /\ cacheByRoot[rootByHash[h]].hash = h
  BY DEF StoreInv, StoreTypes, Store!ServedHashIsTheLast
<1> HIDE DEF entry
<1>4. /\ cacheByRoot' \in [Roots -> CacheRow] /\ cacheByRoot'[r] = entry
      /\ \A p \in Roots : p # r => cacheByRoot'[p] = cacheByRoot[p]
  BY <1>1, <1>2, <1>3
<1>5. /\ DOMAIN rootByHash' = {hash} \cup (DOMAIN rootByHash \ stale)
      /\ \A h \in DOMAIN rootByHash' : rootByHash'[h] = IF h = hash THEN r ELSE rootByHash[h]
  BY <1>1
<1>6. ASSUME NEW h \in DOMAIN rootByHash'
      PROVE  rootByHash'[h] \in Roots /\ cacheByRoot'[rootByHash'[h]].hash = h
  <2>1. CASE h = hash
    BY <2>1, <1>2, <1>4, <1>5
  <2>2. CASE h # hash
    <3>1. h \in DOMAIN rootByHash \ stale /\ rootByHash'[h] = rootByHash[h]
      BY <2>2, <1>5
    <3>2. rootByHash[h] \in Roots /\ cacheByRoot[rootByHash[h]].hash = h
      BY <3>1, <1>3
    <3>3. rootByHash[h] # r
      BY <2>2, <3>1, <3>2
    <3> QED BY <3>1, <3>2, <3>3, <1>4
  <2> QED BY <2>1, <2>2
<1> QED BY <1>4, <1>6 DEF Store!ServedHashIsTheLast

LEMMA StoreStep == StoreInv /\ [Store!StoreNext]_storeVars => StoreInv'
<1> SUFFICES ASSUME StoreInv, [Store!StoreNext]_storeVars PROVE StoreInv'
  OBVIOUS
<1>a. /\ tree \in [Roots -> BundleTree] /\ cacheByRoot \in [Roots -> CacheRow]
      /\ request \in [Requests -> BundleRequest]
  BY DEF StoreInv, StoreTypes
<1>b. \A q \in Requests : request[q] \in BundleRequest
  BY <1>a
<1>1. ASSUME NEW q \in Requests, NEW r \in Roots, Store!Prepare(q, r) PROVE StoreInv'
  <2> DEFINE hash == cacheByRoot[r].hash
             sent == [request[q] EXCEPT !.phase = "sent", !.root = r, !.asked = hash]
  <2>1. hash \in BundleHashes
    BY <1>a DEF CacheRow
  <2>2. Store!Walk(q, r, "preparing", sent) /\ UNCHANGED <<tree, cacheByRoot, rootByHash>>
    BY <1>1 DEF Store!Prepare
  <2> HIDE DEF hash
  <2>3. sent \in BundleRequest /\ sent.phase = "sent"
    BY <2>1, <1>b DEF BundleRequest
  <2> HIDE DEF sent
  <2> QED BY <2>2, <2>3, Walks DEF Reading
<1>2. ASSUME NEW q \in Requests, NEW phase \in {"failed", "fetched"}, phase = "fetched" => request[q].phase = "fetching",
             request' = [request EXCEPT ![q].phase = phase], UNCHANGED <<tree, cacheByRoot, rootByHash>>
      PROVE  StoreInv'
  <2> DEFINE r == [request[q] EXCEPT !.phase = phase]
  <2>1. r \in BundleRequest /\ r.phase = phase /\ r.listed = request[q].listed /\ r.asked = request[q].asked
    BY <1>b DEF BundleRequest
  <2>2. request' = [request EXCEPT ![q] = r]
    BY <1>2, <1>a
  <2>3. request[q].phase = "fetching" => request[q].listed = request[q].asked
    BY DEF StoreInv, Store!BytesAreTheHash
  <2> HIDE DEF r
  <2> QED BY <2>1, <2>2, <2>3, <1>2, RequestGoesOn DEF Reading
<1>3. ASSUME NEW q \in Requests, Store!GetManifest(q) PROVE StoreInv'
  <2>1. CASE request[q].asked \notin DOMAIN rootByHash
    BY <2>1, <1>2, <1>3 DEF Store!GetManifest
  <2>2. CASE request[q].asked \in DOMAIN rootByHash
    <3> DEFINE r == rootByHash[request[q].asked]
               hash == cacheByRoot[r].hash
               phase == IF hash = request[q].asked THEN "fetching" ELSE "failed"
               answered == [request[q] EXCEPT !.phase = phase, !.listed = hash]
    <3>1. r \in Roots
      BY <2>2 DEF StoreInv, StoreTypes
    <3>2. Store!Walk(q, r, "listing", answered) /\ UNCHANGED <<tree, cacheByRoot, rootByHash>>
      BY <2>2, <1>3 DEF Store!GetManifest, Store!Answers
    <3> HIDE DEF r
    <3>3. hash \in BundleHashes
      BY <3>1, <1>a DEF CacheRow
    <3> HIDE DEF hash
    <3>4. phase \in {"fetching", "failed"} /\ (phase = "fetching" => hash = request[q].asked)
      OBVIOUS
    <3> HIDE DEF phase
    <3>5. /\ answered \in BundleRequest /\ answered.phase = phase /\ answered.listed = hash
          /\ answered.asked = request[q].asked
      BY <3>3, <3>4, <1>b DEF BundleRequest
    <3> HIDE DEF answered
    <3> QED BY <3>1, <3>2, <3>4, <3>5, Walks DEF Reading
  <2> QED BY <2>1, <2>2
<1>4. ASSUME NEW q \in Requests, Store!ReadEnds(q) PROVE StoreInv'
  <2> DEFINE c == request[q]
  <2> PICK hash \in Store!Seen(c.root, c.signature) :
        /\ Store!Register(c.root, c.signature, hash)
        /\ request' = [request EXCEPT ![q] =
             IF c.phase = "preparing" THEN [c EXCEPT !.phase = "sent", !.asked = hash]
             ELSE [c EXCEPT !.phase = IF Store!Answers(hash, c.asked) THEN "fetching" ELSE "failed",
                            !.listed = hash]]
    BY <1>4 DEF Store!ReadEnds
  <2>1. c.phase \in Reading /\ UNCHANGED <<tree, edits>>
    BY <1>4 DEF Store!ReadEnds, Reading
  <2>2. c.root \in Roots /\ c.signature \in Listings /\ c \in BundleRequest
    BY <2>1, <1>b DEF StoreInv, StoreTypes
  <2>3. hash \in BundleHashes
    <3>1. c.signature[1] \in Contents \cup {Store!Gone} /\ tree[c.root].content \in Contents \cup {Store!Gone}
      BY <2>2, <1>a DEF Listings, BundleTree
    <3> QED BY <3>1 DEF Store!Seen, BundleHashes
  <2>4. /\ cacheByRoot' \in [Roots -> CacheRow]
        /\ \A h \in DOMAIN rootByHash' : rootByHash'[h] \in Roots
        /\ Store!ServedHashIsTheLast'
    BY <2>2, <2>3, Registers
  <2> DEFINE phase == IF hash = c.asked THEN "fetching" ELSE "failed"
             sent == [c EXCEPT !.phase = "sent", !.asked = hash]
             answered == [c EXCEPT !.phase = phase, !.listed = hash]
  <2>5. PICK v \in {sent, answered} : request' = [request EXCEPT ![q] = v]
    BY DEF Store!Answers
  <2>6. phase \in {"fetching", "failed"} /\ (phase = "fetching" => hash = c.asked)
    OBVIOUS
  <2> HIDE DEF c, phase
  <2>7. /\ sent \in BundleRequest /\ sent.phase = "sent"
        /\ answered \in BundleRequest /\ answered.phase = phase /\ answered.listed = hash
        /\ answered.asked = c.asked
    BY <2>2, <2>3, <2>6 DEF BundleRequest
  <2> HIDE DEF sent, answered
  <2>8. /\ v \in BundleRequest /\ v.phase \notin Reading
        /\ v.phase \in {"fetching", "fetched"} => v.listed = v.asked
    BY <2>5, <2>6, <2>7 DEF Reading
  <2>9. request' \in [Requests -> BundleRequest]
        /\ \A p \in Requests : request'[p] = IF p = q THEN v ELSE request[p]
    BY <2>5, <2>8, <1>a
  <2>10. StoreTypes'
    BY <2>1, <2>4, <2>8, <2>9 DEF StoreInv, StoreTypes
  <2>11. Store!BytesAreTheHash'
    BY <2>8, <2>9 DEF StoreInv, Store!BytesAreTheHash
  <2> QED BY <2>4, <2>10, <2>11 DEF StoreInv
<1>5. ASSUME NEW q \in Requests, Store!ReadFails(q) PROVE StoreInv'
  BY <1>2, <1>5 DEF Store!ReadFails
<1>6. ASSUME NEW q \in Requests, Store!GetFiles(q) PROVE StoreInv'
  <2> DEFINE wanted == request[q].asked
             phase == IF wanted \in DOMAIN rootByHash /\ tree[rootByHash[wanted]].content = request[q].listed
                      THEN "fetched" ELSE "failed"
  <2>1. /\ request' = [request EXCEPT ![q].phase = phase] /\ request[q].phase = "fetching"
        /\ UNCHANGED <<tree, cacheByRoot, rootByHash>>
    BY <1>6 DEF Store!GetFiles
  <2>2. phase \in {"failed", "fetched"}
    OBVIOUS
  <2> HIDE DEF phase
  <2> QED BY <2>1, <2>2, <1>2
<1>7. ASSUME NEW q \in Requests, Store!Settles(q) PROVE StoreInv'
  <2>1. Store!Idle \in BundleRequest /\ Store!Idle.phase = "idle"
    BY DEF Store!Idle, BundleRequest, BundleHashes
  <2> QED BY <2>1, <1>7, RequestGoesOn DEF Store!Settles, Reading
<1>8. ASSUME NEW r \in Roots, Store!Edit(r) PROVE StoreInv'
  <2> PICK c \in Contents \cup {Store!Gone} :
        tree' = [tree EXCEPT ![r] = [content |-> c, stamp |-> @.stamp + 1]]
    BY <1>8 DEF Store!Edit
  <2>1. tree' \in [Roots -> BundleTree]
    BY <1>a DEF BundleTree
  <2>2. UNCHANGED <<cacheByRoot, rootByHash, request>>
    BY <1>8 DEF Store!Edit
  <2> QED BY <2>1, <2>2 DEF StoreInv, StoreTypes, Store!ServedHashIsTheLast, Store!BytesAreTheHash
<1>9. CASE UNCHANGED storeVars
  BY <1>9 DEF storeVars, StoreInv, StoreTypes, Store!ServedHashIsTheLast, Store!BytesAreTheHash
<1> QED BY <1>1, <1>3, <1>4, <1>5, <1>6, <1>7, <1>8, <1>9 DEF Store!StoreNext

-----------------------------------------------------------------------------
(* How a machine becomes a node (Enrolment).                               *)

NodeRecord ==
  [name : NodeNames \cup {"none"}, token : Calls \cup {0}, expired : BOOLEAN,
   secret : Calls \cup {0}, revoked : BOOLEAN]
NodeCall ==
  [kind : {"none", "create", "token", "enrol"},
   at : {"unused", "hashing", "verifying", "refused", "answered", "lost"},
   id : NodeIds \cup {0}, name : NodeNames \cup {"none"}, token : Calls \cup {0},
   rows : SUBSET (NodeIds \X (Calls \cup {0}))]

\* A row a request was answered the secret of has it, until the node is removed.
Holds(r, c) == r = Enrol!Removed \/ r.secret = c
AnswersHold ==
  \A c \in Calls : call[c].kind = "enrol" /\ call[c].at = "answered" =>
    call[c].id \in NodeIds /\ Holds(nodeRow[call[c].id], c)

EnrolTypes == nodeRow \in [NodeIds -> NodeRecord] /\ call \in [Calls -> NodeCall]
EnrolInv   == EnrolTypes /\ Enrol!NamesAreUnique /\ AnswersHold

LEMMA EmptyRows ==
  /\ Enrol!NoNode \in NodeRecord /\ Enrol!Removed \in NodeRecord
  /\ Enrol!NoNode.secret = 0 /\ Enrol!NoNode.token = 0 /\ Enrol!Removed # Enrol!NoNode
  /\ Enrol!Removed.token = 0
  /\ Enrol!Unused \in NodeCall /\ Enrol!Unused.kind = "none" /\ Enrol!Unused.at = "unused"
<1>1. Enrol!NoNode \in NodeRecord /\ Enrol!NoNode.secret = 0 /\ Enrol!NoNode.token = 0 /\ ~ Enrol!NoNode.revoked
  BY DEF Enrol!NoNode, Enrol!None, NodeRecord
<1>2. Enrol!Removed \in NodeRecord /\ Enrol!Removed.revoked /\ Enrol!Removed.token = 0
  BY <1>1 DEF Enrol!Removed, NodeRecord
<1>3. Enrol!Unused \in NodeCall /\ Enrol!Unused.kind = "none" /\ Enrol!Unused.at = "unused"
  BY DEF Enrol!Unused, Enrol!None, NodeCall
<1>4. Enrol!Removed # Enrol!NoNode
  BY <1>1, <1>2
<1> QED BY <1>1, <1>2, <1>3, <1>4

LEMMA EnrolInitial == Enrol!EnrolInit => EnrolInv
BY EmptyRows DEF Enrol!EnrolInit, EnrolInv, EnrolTypes, Enrol!NamesAreUnique, Enrol!Registered, AnswersHold

KeepsAnswers ==
  \A i \in NodeIds : \A c \in Calls : Holds(nodeRow[i], c) => Holds(nodeRow'[i], c)

\* One row goes on.
LEMMA RowGoesOn ==
  ASSUME ControlAssumption, EnrolInv, NEW i \in NodeIds, NEW r \in NodeRecord,
         nodeRow' = [nodeRow EXCEPT ![i] = r],
         nodeRow[i] # Enrol!Removed,
         nodeRow[i].secret # 0 => r = Enrol!Removed \/ r.secret = nodeRow[i].secret,
         r = Enrol!Removed \/ \A j \in Enrol!Registered : j # i => nodeRow[j].name # r.name
  PROVE  nodeRow' \in [NodeIds -> NodeRecord] /\ Enrol!NamesAreUnique' /\ KeepsAnswers
<1>1. /\ nodeRow' \in [NodeIds -> NodeRecord]
      /\ \A j \in NodeIds : nodeRow'[j] = IF j = i THEN r ELSE nodeRow[j]
  BY DEF EnrolInv, EnrolTypes
<1>2. Enrol!NamesAreUnique'
  <2>1. \A j \in Enrol!Registered' : j # i => j \in Enrol!Registered /\ nodeRow'[j] = nodeRow[j]
    BY <1>1 DEF Enrol!Registered
  <2>2. i \in Enrol!Registered' => r # Enrol!Removed /\ nodeRow'[i] = r
    BY <1>1 DEF Enrol!Registered
  <2> QED BY <2>1, <2>2 DEF EnrolInv, Enrol!NamesAreUnique
<1>3. KeepsAnswers
  BY <1>1 DEF KeepsAnswers, Holds, ControlAssumption
<1> QED BY <1>1, <1>2, <1>3

\* One request goes on, and maybe a row with it.
LEMMA CallGoesOn ==
  ASSUME EnrolInv, NEW c \in Calls, NEW k \in NodeCall, call' = [call EXCEPT ![c] = k],
         nodeRow' \in [NodeIds -> NodeRecord], Enrol!NamesAreUnique', KeepsAnswers,
         k.kind = "enrol" /\ k.at = "answered" => k.id \in NodeIds /\ nodeRow'[k.id].secret = c
  PROVE  EnrolInv'
<1>1. /\ call' \in [Calls -> NodeCall]
      /\ \A d \in Calls : call'[d] = IF d = c THEN k ELSE call[d]
  BY DEF EnrolInv, EnrolTypes
<1>2. AnswersHold'
  <2> SUFFICES ASSUME NEW d \in Calls, call'[d].kind = "enrol", call'[d].at = "answered"
               PROVE  call'[d].id \in NodeIds /\ Holds(nodeRow'[call'[d].id], d)
    BY DEF AnswersHold, Holds
  <2>1. CASE d = c
    BY <2>1, <1>1 DEF Holds
  <2>2. CASE d # c
    BY <2>2, <1>1 DEF EnrolInv, AnswersHold, KeepsAnswers
  <2> QED BY <2>1, <2>2
<1> QED BY <1>1, <1>2 DEF EnrolInv, EnrolTypes

\* A request that is not answered a secret leaves the answers as they were.
LEMMA AnswerGoesOn ==
  ASSUME EnrolInv, NEW c \in Calls, NEW at \in {"refused", "answered", "lost", "hashing", "verifying"},
         Enrol!Answer(c, at), nodeRow' \in [NodeIds -> NodeRecord], Enrol!NamesAreUnique', KeepsAnswers,
         at = "answered" /\ call[c].kind = "enrol" =>
           call[c].id \in NodeIds /\ nodeRow'[call[c].id].secret = c
  PROVE  EnrolInv'
<1> DEFINE k == [call[c] EXCEPT !.at = at]
<1>1. call \in [Calls -> NodeCall] /\ call[c] \in NodeCall
  BY DEF EnrolInv, EnrolTypes
<1>2. k \in NodeCall /\ k.kind = call[c].kind /\ k.at = at /\ k.id = call[c].id
  BY <1>1 DEF NodeCall
<1>3. call' = [call EXCEPT ![c] = k]
  BY <1>1 DEF Enrol!Answer
<1> HIDE DEF k
<1> QED BY <1>2, <1>3, CallGoesOn

LEMMA EnrolStep == ControlAssumption /\ EnrolInv /\ [Enrol!EnrolNext]_enrolVars => EnrolInv'
<1> SUFFICES ASSUME ControlAssumption, EnrolInv, [Enrol!EnrolNext]_enrolVars PROVE EnrolInv'
  OBVIOUS
<1>a. /\ nodeRow \in [NodeIds -> NodeRecord] /\ call \in [Calls -> NodeCall]
      /\ Enrol!NamesAreUnique /\ AnswersHold
  BY DEF EnrolInv, EnrolTypes
<1>b. \A c \in Calls : call[c] \in NodeCall
  BY <1>a
<1>c. \A i \in NodeIds : nodeRow[i] \in NodeRecord
  BY <1>a
<1>d. ASSUME UNCHANGED nodeRow
      PROVE  nodeRow' \in [NodeIds -> NodeRecord] /\ Enrol!NamesAreUnique' /\ KeepsAnswers
  BY <1>a, <1>d DEF Enrol!NamesAreUnique, Enrol!Registered, KeepsAnswers
<1>e. ASSUME nodeRow' \in [NodeIds -> NodeRecord], Enrol!NamesAreUnique', KeepsAnswers, UNCHANGED call
      PROVE  EnrolInv'
  BY <1>a, <1>e DEF EnrolInv, EnrolTypes, AnswersHold, KeepsAnswers
<1>f. \A i \in Enrol!Registered : i \in NodeIds /\ nodeRow[i] # Enrol!Removed /\ nodeRow[i] # Enrol!NoNode
  BY DEF Enrol!Registered
<1>g. \A i \in Enrol!Registered : \A j \in Enrol!Registered : j # i => nodeRow[j].name # nodeRow[i].name
  BY <1>a DEF Enrol!NamesAreUnique
<1>1. ASSUME NEW c \in Calls, NEW name \in NodeNames, Enrol!CreateStarts(c, name) PROVE EnrolInv'
  <2> DEFINE at == IF Enrol!NameTaken(name) THEN "refused" ELSE "hashing"
             k == [Enrol!Unused EXCEPT !.kind = "create", !.name = name, !.at = at]
  <2>1. call' = [call EXCEPT ![c] = k] /\ UNCHANGED nodeRow
    BY <1>1 DEF Enrol!CreateStarts
  <2>2. at \in {"refused", "hashing"}
    OBVIOUS
  <2> HIDE DEF at
  <2>3. k \in NodeCall /\ k.kind = "create"
    BY <2>2, EmptyRows DEF NodeCall
  <2> HIDE DEF k
  <2> QED BY <2>1, <2>3, <1>d, CallGoesOn
<1>2. ASSUME NEW c \in Calls, NEW i \in NodeIds, Enrol!TokenStarts(c, i) PROVE EnrolInv'
  <2> DEFINE at == IF nodeRow[i].secret # Enrol!None THEN "refused" ELSE "hashing"
             k == [Enrol!Unused EXCEPT !.kind = "token", !.id = i, !.at = at]
  <2>1. call' = [call EXCEPT ![c] = k] /\ UNCHANGED nodeRow
    BY <1>2 DEF Enrol!TokenStarts
  <2>2. at \in {"refused", "hashing"}
    OBVIOUS
  <2> HIDE DEF at
  <2>3. k \in NodeCall /\ k.kind = "token"
    BY <2>2, EmptyRows DEF NodeCall
  <2> HIDE DEF k
  <2> QED BY <2>1, <2>3, <1>d, CallGoesOn
<1>3. ASSUME NEW c \in Calls, NEW t \in Enrol!Tokens, Enrol!EnrolStarts(c, t) PROVE EnrolInv'
  <2> DEFINE waiting == {<<i, nodeRow[i].token>> : i \in Enrol!Candidates}
             k == [Enrol!Unused EXCEPT !.kind = "enrol", !.at = "verifying", !.token = t, !.rows = waiting]
  <2>1. call' = [call EXCEPT ![c] = k] /\ UNCHANGED nodeRow
    BY <1>3 DEF Enrol!EnrolStarts
  <2>2. waiting \in SUBSET (NodeIds \X (Calls \cup {0}))
    BY <1>c DEF Enrol!Candidates, Enrol!Registered, NodeRecord
  <2>3. t \in Calls
    BY DEF Enrol!Tokens
  <2> HIDE DEF waiting
  <2>4. k \in NodeCall /\ k.at = "verifying"
    BY <2>2, <2>3, EmptyRows DEF NodeCall
  <2> HIDE DEF k
  <2> QED BY <2>1, <2>4, <1>d, CallGoesOn
<1>4. ASSUME NEW c \in Calls, Enrol!CreateEnds(c) PROVE EnrolInv'
  <2>1. call[c].kind = "create"
    BY <1>4 DEF Enrol!CreateEnds
  <2>2. CASE Enrol!TakenMeanwhile(call[c].name)
    BY <2>1, <2>2, <1>4, <1>d, AnswerGoesOn DEF Enrol!CreateEnds
  <2>3. CASE ~ Enrol!TakenMeanwhile(call[c].name)
    <3> DEFINE r == [Enrol!NoNode EXCEPT !.name = call[c].name, !.token = c]
    <3> PICK i \in NodeIds : nodeRow[i] = Enrol!NoNode /\ nodeRow' = [nodeRow EXCEPT ![i] = r]
                             /\ Enrol!Answer(c, "answered")
      BY <2>3, <1>4 DEF Enrol!CreateEnds
    <3>1. r \in NodeRecord /\ r.name = call[c].name
      BY <1>b, EmptyRows DEF NodeRecord, NodeCall
    <3>2. \A j \in Enrol!Registered : nodeRow[j].name # call[c].name
      BY <2>3 DEF Enrol!TakenMeanwhile, Enrol!NameTaken
    <3> HIDE DEF r
    <3>3. nodeRow' \in [NodeIds -> NodeRecord] /\ Enrol!NamesAreUnique' /\ KeepsAnswers
      BY <3>1, <3>2, EmptyRows, RowGoesOn
    <3> QED BY <3>3, <2>1, AnswerGoesOn
  <2> QED BY <2>2, <2>3
<1>5. ASSUME NEW c \in Calls, Enrol!TokenEnds(c) PROVE EnrolInv'
  <2> DEFINE i == call[c].id
             r == [nodeRow[i] EXCEPT !.token = c, !.expired = FALSE]
  <2>1. call[c].kind = "token" /\ Enrol!Answer(c, "answered")
    BY <1>5 DEF Enrol!TokenEnds
  <2>2. CASE i \notin Enrol!Registered
    BY <2>1, <2>2, <1>5, <1>d, AnswerGoesOn DEF Enrol!TokenEnds
  <2>3. CASE i \in Enrol!Registered
    <3>1. i \in NodeIds /\ nodeRow[i] \in NodeRecord
      BY <2>3, <1>c, <1>f
    <3>2. nodeRow' = [nodeRow EXCEPT ![i] = r]
      BY <2>3, <3>1, <1>5, <1>a DEF Enrol!TokenEnds, NodeRecord
    <3> HIDE DEF i
    <3>3. r \in NodeRecord /\ r.name = nodeRow[i].name /\ r.secret = nodeRow[i].secret
      BY <3>1 DEF NodeRecord
    <3> HIDE DEF r
    <3>4. nodeRow' \in [NodeIds -> NodeRecord] /\ Enrol!NamesAreUnique' /\ KeepsAnswers
      BY <2>3, <3>1, <3>2, <3>3, <1>f, <1>g, RowGoesOn
    <3> QED BY <3>4, <2>1, AnswerGoesOn
  <2> QED BY <2>2, <2>3
<1>6. ASSUME NEW c \in Calls, Enrol!EnrolVerifies(c) PROVE EnrolInv'
  <2> DEFINE refusal == [call[c] EXCEPT !.at = "refused", !.rows = {}]
             chosen(r) == [call[c] EXCEPT !.at = "hashing", !.id = r[1], !.rows = {}]
  <2>1. UNCHANGED nodeRow
    BY <1>6 DEF Enrol!EnrolVerifies
  <2>2. CASE call' = [call EXCEPT ![c].at = "refused", ![c].rows = {}]
    <3>1. call' = [call EXCEPT ![c] = refusal]
      BY <2>2, <1>a, <1>b DEF NodeCall
    <3>2. refusal \in NodeCall /\ refusal.at = "refused"
      BY <1>b DEF NodeCall
    <3> HIDE DEF refusal
    <3> QED BY <2>1, <3>1, <3>2, <1>d, CallGoesOn
  <2>3. ASSUME NEW r \in call[c].rows,
               call' = [call EXCEPT ![c].at = "hashing", ![c].id = r[1], ![c].rows = {}]
        PROVE  EnrolInv'
    <3>1. call' = [call EXCEPT ![c] = chosen(r)]
      BY <2>3, <1>a, <1>b DEF NodeCall
    <3>2. r[1] \in NodeIds
      BY <1>b DEF NodeCall
    <3>3. chosen(r) \in NodeCall /\ chosen(r).at = "hashing"
      BY <3>2, <1>b DEF NodeCall
    <3> HIDE DEF chosen
    <3> QED BY <2>1, <3>1, <3>3, <1>d, CallGoesOn
  <2> QED BY <2>2, <2>3, <1>6 DEF Enrol!EnrolVerifies
<1>7. ASSUME NEW c \in Calls, Enrol!EnrolEnds(c) PROVE EnrolInv'
  <2> DEFINE i == call[c].id
             r == [nodeRow[i] EXCEPT !.secret = c, !.token = 0, !.expired = FALSE]
  <2>1. CASE ~ Enrol!StillWaits(i)
    BY <2>1, <1>7, <1>d, AnswerGoesOn DEF Enrol!EnrolEnds
  <2>2. CASE Enrol!StillWaits(i)
    <3>1. i \in Enrol!Registered /\ nodeRow[i].secret = 0
      BY <2>2 DEF Enrol!StillWaits, Enrol!None
    <3>2. i \in NodeIds /\ nodeRow[i] \in NodeRecord
      BY <3>1, <1>c, <1>f
    <3>3. nodeRow' = [nodeRow EXCEPT ![i] = r] /\ Enrol!Answer(c, "answered")
      BY <2>2, <3>2, <1>7, <1>a DEF Enrol!EnrolEnds, Enrol!None, NodeRecord
    <3> HIDE DEF i
    <3>4. r \in NodeRecord /\ r.name = nodeRow[i].name /\ r.secret = c
      BY <3>2 DEF NodeRecord
    <3> HIDE DEF r
    <3>5. nodeRow' \in [NodeIds -> NodeRecord] /\ Enrol!NamesAreUnique' /\ KeepsAnswers
      BY <3>1, <3>2, <3>3, <3>4, <1>f, <1>g, RowGoesOn
    <3>6. nodeRow'[i].secret = c
      BY <3>2, <3>3, <3>4, <1>a
    <3> QED BY <3>2, <3>3, <3>5, <3>6, AnswerGoesOn DEF i
  <2> QED BY <2>1, <2>2
<1>8. ASSUME NEW c \in Calls, Enrol!CallLost(c) PROVE EnrolInv'
  <2> DEFINE k == [call[c] EXCEPT !.at = "lost", !.rows = {}]
  <2>1. call' = [call EXCEPT ![c] = k] /\ UNCHANGED nodeRow
    BY <1>8, <1>a, <1>b DEF Enrol!CallLost, NodeCall
  <2>2. k \in NodeCall /\ k.at = "lost"
    BY <1>b DEF NodeCall
  <2> HIDE DEF k
  <2> QED BY <2>1, <2>2, <1>d, CallGoesOn
<1>9. ASSUME NEW i \in NodeIds, nodeRow[i] # Enrol!Removed, NEW r \in NodeRecord, UNCHANGED call,
             nodeRow' = [nodeRow EXCEPT ![i] = r],
             r = Enrol!Removed \/ r.secret = nodeRow[i].secret,
             r = Enrol!Removed \/ \A j \in Enrol!Registered : j # i => nodeRow[j].name # r.name
      PROVE  EnrolInv'
  BY <1>9, <1>e, RowGoesOn
<1>10. ASSUME NEW i \in NodeIds, NEW name \in NodeNames, Enrol!Rename(i, name) PROVE EnrolInv'
  <2> DEFINE r == [nodeRow[i] EXCEPT !.name = name]
  <2>1. nodeRow' = [nodeRow EXCEPT ![i] = r] /\ UNCHANGED call /\ i \in Enrol!Registered
    BY <1>10, <1>a DEF Enrol!Rename
  <2>2. \A j \in Enrol!Registered : j # i => nodeRow[j].name # name
    BY <1>10 DEF Enrol!Rename
  <2>3. r \in NodeRecord /\ r.name = name /\ r.secret = nodeRow[i].secret
    BY <1>c DEF NodeRecord
  <2> HIDE DEF r
  <2> QED BY <2>1, <2>2, <2>3, <1>f, <1>9
<1>11. ASSUME NEW i \in NodeIds, Enrol!TokenExpires(i) PROVE EnrolInv'
  <2> DEFINE r == [nodeRow[i] EXCEPT !.expired = TRUE]
  <2>1. nodeRow' = [nodeRow EXCEPT ![i] = r] /\ UNCHANGED call /\ nodeRow[i].token # 0
    BY <1>11, <1>a DEF Enrol!TokenExpires, Enrol!None
  <2>2. i \in Enrol!Registered
    BY <2>1, EmptyRows DEF Enrol!Registered
  <2>3. r \in NodeRecord /\ r.name = nodeRow[i].name /\ r.secret = nodeRow[i].secret
    BY <1>c DEF NodeRecord
  <2> HIDE DEF r
  <2> QED BY <2>1, <2>2, <2>3, <1>f, <1>g, <1>9
<1>12. ASSUME NEW i \in NodeIds, Enrol!Revoke(i) PROVE EnrolInv'
  <2> DEFINE r == [nodeRow[i] EXCEPT !.revoked = TRUE]
  <2>1. nodeRow' = [nodeRow EXCEPT ![i] = r] /\ UNCHANGED call /\ i \in Enrol!Registered
    BY <1>12, <1>a DEF Enrol!Revoke
  <2>2. r \in NodeRecord /\ r.name = nodeRow[i].name /\ r.secret = nodeRow[i].secret
    BY <1>c DEF NodeRecord
  <2> HIDE DEF r
  <2> QED BY <2>1, <2>2, <1>f, <1>g, <1>9
<1>13. ASSUME NEW i \in NodeIds, Enrol!Remove(i) PROVE EnrolInv'
  BY <1>13, <1>9, <1>f, EmptyRows DEF Enrol!Remove
<1>14. CASE UNCHANGED enrolVars
  BY <1>14, <1>d, <1>e DEF enrolVars
<1> QED BY <1>1, <1>2, <1>3, <1>4, <1>5, <1>6, <1>7, <1>8, <1>10, <1>11, <1>12, <1>13, <1>14
        DEF Enrol!EnrolNext

-----------------------------------------------------------------------------
(* Path maps (NodeConfig).                                                 *)

LEMMA WithinIs ==
  ASSUME NEW S, NEW r \in Seq(S), NEW p \in Seq(S), Config!Within(r, p)
  PROVE  Config!Below(r, p) \in Seq(S) /\ p = r \o Config!Below(r, p)
<1> DEFINE b == SubSeq(p, Len(r) + 1, Len(p))
<1>1. Len(r) \in Nat /\ Len(p) \in Nat /\ Len(r) <= Len(p) /\ SubSeq(p, 1, Len(r)) = r
  BY LenProperties DEF Config!Within
<1>2. \A i \in (Len(r) + 1)..Len(p) : p[i] \in S
  BY <1>1, ElementOfSeq
<1>3. b \in Seq(S)
  BY <1>1, <1>2, SubSeqProperties
<1>4. SubSeq(p, 1, Len(r)) \o SubSeq(p, Len(r) + 1, Len(p)) = SubSeq(p, 1, Len(p))
  <2>1. 1 \in 1..(Len(p) + 1) /\ Len(r) \in (1 - 1)..Len(p) /\ Len(p) \in Len(r)..Len(p)
    BY <1>1
  <2> QED BY <2>1, ConcatAdjacentSubSeq
<1>5. SubSeq(p, 1, Len(p)) = p
  BY SubSeqFull
<1> QED BY <1>1, <1>3, <1>4, <1>5 DEF Config!Below

LEMMA WithinJoined ==
  ASSUME NEW S, NEW r \in Seq(S), NEW b \in Seq(S)
  PROVE  /\ r \o b \in Seq(S) /\ Len(r \o b) = Len(r) + Len(b)
         /\ Config!Within(r, r \o b) /\ Config!Below(r, r \o b) = b
<1> DEFINE p == r \o b
<1>1. /\ p \in Seq(S) /\ Len(r) \in Nat /\ Len(b) \in Nat /\ Len(p) = Len(r) + Len(b)
      /\ \A i \in 1..(Len(r) + Len(b)) : p[i] = IF i <= Len(r) THEN r[i] ELSE b[i - Len(r)]
  BY ConcatProperties, LenProperties
<1> HIDE DEF p
<1>2. \A i \in 1..Len(p) : p[i] \in S
  BY <1>1, ElementOfSeq
<1>3. SubSeq(p, 1, Len(r)) = r
  <2>1. /\ SubSeq(p, 1, Len(r)) \in Seq(S)
        /\ Len(SubSeq(p, 1, Len(r))) = IF 1 <= Len(r) THEN Len(r) - 1 + 1 ELSE 0
        /\ \A i \in 1..(Len(r) - 1 + 1) : SubSeq(p, 1, Len(r))[i] = p[1 + i - 1]
    <3>1. \A i \in 1..Len(r) : p[i] \in S
      BY <1>1, <1>2
    <3>2. 1 \in Int /\ Len(r) \in Int
      BY <1>1
    <3> QED BY <3>1, <3>2, SubSeqProperties
  <2>2. Len(SubSeq(p, 1, Len(r))) = Len(r)
    BY <1>1, <2>1
  <2>3. \A i \in 1..Len(r) : SubSeq(p, 1, Len(r))[i] = r[i]
    BY <1>1, <2>1
  <2> QED BY <2>1, <2>2, <2>3, SeqEqual
<1>4. SubSeq(p, Len(r) + 1, Len(p)) = b
  <2>1. /\ SubSeq(p, Len(r) + 1, Len(p)) \in Seq(S)
        /\ Len(SubSeq(p, Len(r) + 1, Len(p)))
             = IF Len(r) + 1 <= Len(p) THEN Len(p) - (Len(r) + 1) + 1 ELSE 0
        /\ \A i \in 1..(Len(p) - (Len(r) + 1) + 1) :
             SubSeq(p, Len(r) + 1, Len(p))[i] = p[(Len(r) + 1) + i - 1]
    <3>1. \A i \in (Len(r) + 1)..Len(p) : p[i] \in S
      BY <1>1, <1>2
    <3>2. Len(r) + 1 \in Int /\ Len(p) \in Int
      BY <1>1
    <3> QED BY <3>1, <3>2, SubSeqProperties
  <2>2. Len(SubSeq(p, Len(r) + 1, Len(p))) = Len(b)
    BY <1>1, <2>1
  <2>3. \A i \in 1..Len(b) : SubSeq(p, Len(r) + 1, Len(p))[i] = b[i]
    BY <1>1, <2>1
  <2> QED BY <2>1, <2>2, <2>3, SeqEqual
<1> QED BY <1>1, <1>3, <1>4 DEF Config!Within, Config!Below, p

\* Of two directories a path is in, the shorter holds the longer.
LEMMA WithinNests ==
  ASSUME NEW S, NEW r \in Seq(S), NEW s \in Seq(S), NEW p \in Seq(S),
         Config!Within(r, p), Config!Within(s, p), Len(r) <= Len(s)
  PROVE  Config!Within(r, s)
<1>1. /\ Len(r) \in Nat /\ Len(s) \in Nat /\ Len(p) \in Nat
      /\ Len(r) <= Len(p) /\ SubSeq(p, 1, Len(r)) = r
      /\ Len(s) <= Len(p) /\ SubSeq(p, 1, Len(s)) = s
  BY LenProperties DEF Config!Within
<1>2. CASE Len(r) = 0
  <2>1. SubSeq(s, 1, 0) = << >> /\ SubSeq(p, 1, 0) = << >>
    BY SubSeqEmpty
  <2> QED BY <1>1, <1>2, <2>1 DEF Config!Within
<1>3. CASE Len(r) > 0
  <2>1. SubSeq(SubSeq(p, 1, Len(s)), 1, Len(r)) = SubSeq(p, 1 + 1 - 1, 1 + Len(r) - 1)
    <3>1. /\ 1 \in 1..Len(p) /\ Len(s) \in 1..Len(p)
          /\ 1 \in 1..(Len(s) - 1 + 1) /\ Len(r) \in 1..(Len(s) - 1 + 1)
      BY <1>1, <1>3
    <3> QED BY <3>1, SubSeqOfSubSeq
  <2>2. 1 + 1 - 1 = 1 /\ 1 + Len(r) - 1 = Len(r)
    BY <1>1
  <2> QED BY <1>1, <2>1, <2>2 DEF Config!Within
<1> QED BY <1>1, <1>2, <1>3

\* The provers do not know that "b" is a string.
Segment   == STRING \cup {"b"}
Path      == Seq(Segment)
PathEntry == [server : Path, node : Path]

LEMMA Regroups ==
  ASSUME NEW r \in Path, NEW s \in Path, NEW t \in Path
  PROVE  (r \o s) \o t = r \o (s \o t)
BY ConcatAssociative DEF Path

\* A map read from the node's side is a map, and one that may be saved if the other may.
LEMMA Flipped ==
  ASSUME NEW m \in Seq(PathEntry)
  PROVE  /\ Config!Flip(m) \in Seq(PathEntry) /\ DOMAIN Config!Flip(m) = DOMAIN m
         /\ \A n \in DOMAIN m : /\ m[n].server \in Path /\ m[n].node \in Path
                                /\ Config!Flip(m)[n].server = m[n].node
                                /\ Config!Flip(m)[n].node = m[n].server
         /\ Config!Flip(Config!Flip(m)) = m
         /\ Config!Valid(m) => Config!Valid(Config!Flip(m))
<1> DEFINE f == [n \in DOMAIN m |-> [server |-> m[n].node, node |-> m[n].server]]
<1>1. /\ Config!Flip(m) = f
      /\ Config!Flip(f) = [n \in DOMAIN f |-> [server |-> f[n].node, node |-> f[n].server]]
  BY DEF Config!Flip, Config!Entry
<1>2. Len(m) \in Nat /\ DOMAIN m = 1..Len(m)
  BY LenProperties
<1>3. \A n \in DOMAIN m : m[n] \in PathEntry
  BY <1>2, ElementOfSeq
<1>4. \A n \in DOMAIN m : /\ m[n].server \in Path /\ m[n].node \in Path
                          /\ m[n] = [server |-> m[n].server, node |-> m[n].node]
  BY <1>3 DEF PathEntry
<1>5. /\ DOMAIN f = DOMAIN m
      /\ \A n \in DOMAIN m : f[n].server = m[n].node /\ f[n].node = m[n].server
  OBVIOUS
<1>6. f \in Seq(PathEntry)
  <2>1. \A n \in 1..Len(m) : [server |-> m[n].node, node |-> m[n].server] \in PathEntry
    BY <1>2, <1>4 DEF PathEntry
  <2>2. f = [n \in 1..Len(m) |-> [server |-> m[n].node, node |-> m[n].server]]
    BY <1>2
  <2>3. f \in [1..Len(m) -> PathEntry]
    BY <2>1, <2>2
  <2> QED BY <1>2, <2>3, SeqDef
<1> HIDE DEF f
<1>7. Config!Flip(f) = m
  <2>1. \A n \in DOMAIN m : Config!Flip(f)[n] = m[n]
    BY <1>1, <1>4, <1>5
  <2>2. DOMAIN Config!Flip(f) = DOMAIN m
    BY <1>1, <1>5
  <2>3. m = [n \in DOMAIN m |-> m[n]] /\ Config!Flip(f) = [n \in DOMAIN Config!Flip(f) |-> Config!Flip(f)[n]]
    BY <1>1, <1>2, LenProperties, SeqDef
  <2> QED BY <2>1, <2>2, <2>3
<1>8. Config!Valid(m) => Config!Valid(f)
  <2> SUFFICES ASSUME Config!Valid(m), NEW k \in DOMAIN m, NEW n \in DOMAIN m, k # n
               PROVE  /\ f[k].server # f[n].server /\ f[k].node # f[n].node
                      /\ Config!Within(f[k].node, f[n].node) <=> Config!Within(f[k].server, f[n].server)
                      /\ Config!Within(f[k].server, f[n].server) =>
                           Config!Below(f[k].server, f[n].server) = Config!Below(f[k].node, f[n].node)
    BY <1>5 DEF Config!Valid
  <2>1. /\ m[k].server # m[n].server /\ m[k].node # m[n].node
        /\ Config!Within(m[k].node, m[n].node) <=> Config!Within(m[k].server, m[n].server)
        /\ Config!Within(m[k].server, m[n].server) =>
             Config!Below(m[k].server, m[n].server) = Config!Below(m[k].node, m[n].node)
    BY DEF Config!Valid
  <2> QED BY <2>1, <1>5
<1> QED BY <1>1, <1>4, <1>5, <1>6, <1>7, <1>8

\* Whichever entry a path goes by, it comes back by: for a map of any length.
LEMMA RoundTrip ==
  ASSUME NEW m \in Seq(PathEntry), Config!Valid(m), NEW p \in Path, Config!ToNode(m, p) # Config!Unmapped
  PROVE  Config!ToServer(m, Config!ToNode(m, p)) = p
<1> DEFINE f == Config!Flip(m)
           n == CHOOSE k \in Config!Best(m, p) : TRUE
           b == Config!Below(m[n].server, p)
           q == m[n].node \o b
<1>1. /\ f \in Seq(PathEntry) /\ DOMAIN f = DOMAIN m
      /\ \A k \in DOMAIN m : /\ m[k].server \in Path /\ m[k].node \in Path
                             /\ f[k].server = m[k].node /\ f[k].node = m[k].server
  BY Flipped
<1>2. Config!Best(m, p) # {} /\ Config!ToNode(m, p) = q
  BY DEF Config!ToNode
<1>3. n \in Config!Best(m, p)
  BY <1>2
<1> HIDE DEF f, n
<1>4. /\ n \in DOMAIN m /\ Config!Within(m[n].server, p)
      /\ \A k \in DOMAIN m : Config!Within(m[k].server, p) =>
           \/ Len(m[k].server) < Len(m[n].server)
           \/ Len(m[k].server) = Len(m[n].server) /\ n <= k
  BY <1>3 DEF Config!Best
<1>5. b \in Path /\ p = m[n].server \o b
  BY <1>1, <1>4, WithinIs DEF Path
<1> HIDE DEF b
<1>6. q \in Path /\ Config!Within(m[n].node, q) /\ Config!Below(m[n].node, q) = b
  BY <1>1, <1>4, <1>5, WithinJoined DEF Path
<1>7. Len(m) \in Nat /\ DOMAIN m = 1..Len(m) /\ \A k \in DOMAIN m : Len(m[k].node) \in Nat /\ Len(m[k].server) \in Nat
  BY <1>1, LenProperties DEF Path
<1>8. ASSUME NEW k \in DOMAIN m, k # n, Config!Within(m[k].node, q)
      PROVE  Len(m[k].node) < Len(m[n].node)
  <2> SUFFICES ASSUME Len(m[n].node) <= Len(m[k].node) PROVE FALSE
    BY <1>4, <1>7
  <2> DEFINE d == Config!Below(m[n].node, m[k].node)
             rest == Config!Below(m[k].node, q)
  <2>1. Config!Within(m[n].node, m[k].node)
    <3>1. m[n].node \in Path /\ m[k].node \in Path
      BY <1>1, <1>4
    <3>2. q \in Path /\ Config!Within(m[n].node, q) /\ Config!Within(m[k].node, q)
      BY <1>6, <1>8
    <3> HIDE DEF q
    <3> QED BY <3>1, <3>2, WithinNests DEF Path
  <2>2. /\ Config!Within(m[n].server, m[k].server) /\ Config!Below(m[n].server, m[k].server) = d
        /\ m[k].node # m[n].node
    BY <2>1, <1>4, <1>8 DEF Config!Valid
  <2>3. d \in Path /\ m[k].node = m[n].node \o d
    BY <2>1, <1>1, <1>4, WithinIs DEF Path
  <2>4. m[k].server = m[n].server \o d
    <3>1. m[k].server \in Path /\ m[n].server \in Path
      BY <1>1, <1>4
    <3>2. m[k].server = m[n].server \o Config!Below(m[n].server, m[k].server)
      BY <3>1, <2>2, WithinIs DEF Path
    <3> QED BY <3>2, <2>2
  <2>5. rest \in Path /\ q = m[k].node \o rest
    BY <1>1, <1>6, <1>8, WithinIs DEF Path
  <2> HIDE DEF d, rest
  <2>6. q = m[n].node \o (d \o rest) /\ d \o rest \in Path
    <3>1. m[n].node \in Path /\ d \in Path /\ rest \in Path
      BY <1>1, <1>4, <2>3, <2>5
    <3>2. (m[n].node \o d) \o rest = m[n].node \o (d \o rest)
      BY <3>1, Regroups
    <3>3. d \o rest \in Path
      BY <3>1, ConcatProperties DEF Path
    <3> QED BY <3>2, <3>3, <2>3, <2>5
  <2>7. b = d \o rest
    <3>1. m[n].node \in Path
      BY <1>1, <1>4
    <3>2. Config!Below(m[n].node, m[n].node \o (d \o rest)) = d \o rest
      BY <3>1, <2>6, WithinJoined DEF Path
    <3> QED BY <3>2, <2>6, <1>6
  <2>8. p = m[k].server \o rest
    <3>1. m[n].server \in Path /\ d \in Path /\ rest \in Path
      BY <1>1, <1>4, <2>3, <2>5
    <3>2. (m[n].server \o d) \o rest = m[n].server \o (d \o rest)
      BY <3>1, Regroups
    <3> QED BY <3>2, <2>4, <2>7, <1>5
  <2>9. Config!Within(m[k].server, p)
    BY <2>5, <2>8, <1>1, WithinJoined DEF Path
  <2>10. Len(m[k].server) = Len(m[n].server) + Len(d) /\ Len(d) \in Nat
    BY <2>3, <2>4, <1>1, <1>4, ConcatProperties, LenProperties DEF Path
  <2>11. Len(d) # 0
    <3>1. Len(d) = 0 => d = << >>
      BY <2>3, EmptySeq DEF Path
    <3>2. m[n].node \o << >> = m[n].node
      BY <1>1, <1>4, ConcatEmptySeq DEF Path
    <3> QED BY <3>1, <3>2, <2>2, <2>3
  <2> QED BY <2>9, <2>10, <2>11, <1>4, <1>7
<1>9. Config!Best(f, q) = {n}
  <2>1. ASSUME NEW k \in DOMAIN m, Config!Within(m[k].node, q)
        PROVE  \/ Len(m[k].node) < Len(m[n].node)
               \/ Len(m[k].node) = Len(m[n].node) /\ n <= k
    BY <2>1, <1>4, <1>7, <1>8
  <2>2. n \in Config!Best(f, q)
    BY <2>1, <1>1, <1>4, <1>6 DEF Config!Best
  <2>3. ASSUME NEW k \in Config!Best(f, q) PROVE k = n
    <3>1. /\ k \in DOMAIN m /\ Config!Within(m[k].node, q)
          /\ \/ Len(m[n].node) < Len(m[k].node)
             \/ Len(m[n].node) = Len(m[k].node) /\ k <= n
      BY <1>1, <1>4, <1>6 DEF Config!Best
    <3> QED BY <3>1, <1>4, <1>7, <1>8
  <2> QED BY <2>2, <2>3
<1>10. (CHOOSE k \in Config!Best(f, q) : TRUE) = n
  BY <1>9
<1>11. Config!ToNode(f, q) = m[n].server \o Config!Below(m[n].node, q)
  BY <1>1, <1>4, <1>9, <1>10 DEF Config!ToNode
<1> QED BY <1>2, <1>5, <1>6, <1>11 DEF Config!ToServer, f

\* A path goes to the node and back, and to the server and back.
LEMMA MapsRoundTrip == ControlAssumption => Config!ValidMapsRoundTrip
<1> SUFFICES ASSUME ControlAssumption, NEW m \in Config!Maps, Config!Valid(m)
             PROVE  /\ \A p \in ServerPaths \cup {Append(q, "b") : q \in ServerPaths} :
                         Config!ToNode(m, p) # Config!Unmapped =>
                           Config!ToServer(m, Config!ToNode(m, p)) = p
                    /\ \A p \in NodePaths \cup {Append(q, "b") : q \in NodePaths} :
                         Config!ToServer(m, p) # Config!Unmapped =>
                           Config!ToNode(m, Config!ToServer(m, p)) = p
  BY DEF Config!ValidMapsRoundTrip
<1>0. ServerPaths \subseteq Path /\ NodePaths \subseteq Path
  <2>1. STRING \subseteq Segment
    BY DEF Segment
  <2>2. Seq(STRING) \subseteq Path
    BY <2>1, SeqMonotonic DEF Path
  <2> QED BY <2>2 DEF ControlAssumption
<1>1. m \in Seq(PathEntry)
  <2> DEFINE entries == {Config!Entry(s, t) : s \in ServerPaths, t \in NodePaths}
  <2>1. \A e \in entries : e \in PathEntry
    BY <1>0 DEF Config!Entry, PathEntry
  <2>2. m \in {<< >>} \cup {<<e>> : e \in entries} \cup {<<d, e>> : d, e \in entries}
    BY DEF Config!Maps
  <2> HIDE DEF entries
  <2>3. << >> \in Seq(PathEntry) /\ \A d, e \in PathEntry : <<e>> \in Seq(PathEntry) /\ <<d, e>> \in Seq(PathEntry)
    OBVIOUS
  <2>4. \/ m = << >>
        \/ \E e \in entries : m = <<e>>
        \/ \E d, e \in entries : m = <<d, e>>
    BY <2>2
  <2> QED BY <2>1, <2>3, <2>4
<1>2. ASSUME NEW p \in Path
      PROVE  Config!ToNode(m, p) # Config!Unmapped => Config!ToServer(m, Config!ToNode(m, p)) = p
  BY <1>1, RoundTrip
<1>3. ASSUME NEW p \in Path
      PROVE  Config!ToServer(m, p) # Config!Unmapped => Config!ToNode(m, Config!ToServer(m, p)) = p
  <2>1. /\ Config!Flip(m) \in Seq(PathEntry) /\ Config!Valid(Config!Flip(m))
        /\ Config!Flip(Config!Flip(m)) = m
    BY <1>1, Flipped
  <2>2. Config!ToNode(Config!Flip(m), p) # Config!Unmapped =>
          Config!ToServer(Config!Flip(m), Config!ToNode(Config!Flip(m), p)) = p
    BY <2>1, RoundTrip
  <2> QED BY <2>1, <2>2 DEF Config!ToServer
<1>4. \A q \in Path : Append(q, "b") \in Path
  <2>1. "b" \in Segment
    BY DEF Segment
  <2> QED BY <2>1, AppendProperties DEF Path
<1> QED BY <1>0, <1>2, <1>3, <1>4

-----------------------------------------------------------------------------
(* What a node is told and answers (NodeConfig).                           *)

SeenOnce  == {Config!Seen(l, m) : l \in Layouts, m \in MapsInUse} \cup {Config!NoConfig}
NodeFrame == {Config!JobFrame} \cup [type : {"config"}, config : SeenOnce]
HubFrame  == [type : {"libraries"}, of : SeenOnce, reachable : BOOLEAN]
ProbeRow  == [of : SeenOnce, current : BOOLEAN]
JobRow    ==
  [at : {"none", "preparing", "sent", "running", "reported"}, map : MapsInUse \cup {<< >>},
   library : Layouts \cup {Config!NoJob.library},
   wrote : {Config!Unmapped} \cup NodeTree \cup {Config!ToNode(m, FilePath) : m \in MapsInUse \cup {<< >>}}]

ConfigTypes ==
  /\ map \in MapsInUse /\ library \in Layouts /\ config \in SeenOnce
  /\ toNode \in Seq(NodeFrame) /\ toHub \in Seq(HubFrame)
  /\ \A p \in probes : p \in ProbeRow
  /\ sentJob \in JobRow

\* The last configuration among the frames, and whether there is one.
LastSays(s, c) ==
  \A i \in DOMAIN s :
    s[i].type = "config" /\ (\A j \in DOMAIN s : j > i => s[j].type # "config") => s[i].config = c
Silent(s)  == \A i \in DOMAIN s : s[i].type # "config"
NoJobIn(s) == \A i \in DOMAIN s : s[i].type # "job"
OneJob(s)  == \A i, j \in DOMAIN s : s[i].type = "job" /\ s[j].type = "job" => i = j

Now == Config!Seen(library, map)

\* A node that is linked was told how things are, or is about to hear it.
NewsUnderWay == linked => LastSays(toNode, Now) /\ (Silent(toNode) => config = Now)

\* And once it has heard, so was its answer given, or is about to be.
AnswerUnderWay ==
  linked /\ Silent(toNode) =>
    \/ \E p \in probes : p.current
    \/ toHub # << >> /\ toHub[Len(toHub)].of = config
    \/ toHub = << >> /\ (fresh => probed.of = config)

ProbesAreOfTheConfig == \A p \in probes : p.current => p.of = config

\* A job is on the wire once, while it is the one that was sent.
JobUnderWay    == OneJob(toNode) /\ (sentJob.at # "sent" => NoJobIn(toNode))
RefusedIsStale == refused => sentJob = Config!NoJob /\ ~ fresh

ConfigInv ==
  /\ ConfigTypes /\ NewsUnderWay /\ AnswerUnderWay /\ ProbesAreOfTheConfig
  /\ JobUnderWay /\ RefusedIsStale /\ Config!ReportsComeHome

LEMMA FrameTypes ==
  ASSUME NEW f \in NodeFrame
  PROVE  /\ f.type \in {"config", "job"}
         /\ f.type = "config" => f.config \in SeenOnce
BY DEF NodeFrame, Config!JobFrame

LEMMA NoFrames == Silent(<< >>) /\ NoJobIn(<< >>) /\ OneJob(<< >>) /\ \A c : LastSays(<< >>, c)
<1>1. DOMAIN << >> = {}
  OBVIOUS
<1> QED BY <1>1 DEF Silent, NoJobIn, OneJob, LastSays

\* A frame is sent behind those that are under way.
LEMMA FrameSent ==
  ASSUME NEW s \in Seq(NodeFrame), NEW f \in NodeFrame
  PROVE  /\ Append(s, f) \in Seq(NodeFrame)
         /\ f.type = "config" => /\ LastSays(Append(s, f), f.config) /\ ~ Silent(Append(s, f))
                                 /\ OneJob(s) => OneJob(Append(s, f))
                                 /\ NoJobIn(s) => NoJobIn(Append(s, f))
         /\ f.type = "job" => /\ \A c : LastSays(s, c) => LastSays(Append(s, f), c)
                              /\ Silent(Append(s, f)) => Silent(s)
                              /\ NoJobIn(s) => OneJob(Append(s, f))
<1> DEFINE t == Append(s, f)
<1>1. /\ t \in Seq(NodeFrame) /\ Len(s) \in Nat /\ Len(t) = Len(s) + 1
      /\ \A i \in 1..Len(s) : t[i] = s[i]
      /\ t[Len(s) + 1] = f
  BY AppendProperties, LenProperties
<1>2. DOMAIN s = 1..Len(s) /\ DOMAIN t = 1..Len(t)
  BY <1>1, LenProperties
<1> HIDE DEF t
<1>3. Len(t) \in DOMAIN t /\ t[Len(t)] = f /\ \A i \in DOMAIN s : i \in DOMAIN t /\ i < Len(t) /\ t[i] = s[i]
  BY <1>1, <1>2
<1>4. \A i \in DOMAIN t : i = Len(t) \/ i \in DOMAIN s
  BY <1>1, <1>2
<1>5. \A i \in DOMAIN t : i \in Nat /\ i <= Len(t) /\ Len(t) \in Nat
  BY <1>1, <1>2
<1>6. CASE f.type = "config"
  <2>1. LastSays(t, f.config)
    <3> SUFFICES ASSUME NEW i \in DOMAIN t, t[i].type = "config",
                        \A j \in DOMAIN t : j > i => t[j].type # "config"
                 PROVE  t[i].config = f.config
      BY DEF LastSays
    <3>1. i = Len(t)
      BY <1>3, <1>5, <1>6
    <3> QED BY <3>1, <1>3
  <2>2. ~ Silent(t)
    BY <1>3, <1>6 DEF Silent
  <2>3. OneJob(s) => OneJob(t)
    BY <1>3, <1>4, <1>6 DEF OneJob
  <2>4. NoJobIn(s) => NoJobIn(t)
    BY <1>3, <1>4, <1>6 DEF NoJobIn
  <2> QED BY <2>1, <2>2, <2>3, <2>4, <1>1, <1>6 DEF t
<1>7. CASE f.type = "job"
  <2>1. ASSUME NEW c, LastSays(s, c) PROVE LastSays(t, c)
    <3> SUFFICES ASSUME NEW i \in DOMAIN t, t[i].type = "config",
                        \A j \in DOMAIN t : j > i => t[j].type # "config"
                 PROVE  t[i].config = c
      BY DEF LastSays
    <3>1. i \in DOMAIN s /\ t[i] = s[i]
      BY <1>3, <1>4, <1>7
    <3>2. \A j \in DOMAIN s : j > i => s[j].type # "config"
      BY <1>3
    <3> QED BY <3>1, <3>2, <2>1 DEF LastSays
  <2>2. Silent(t) => Silent(s)
    BY <1>3 DEF Silent
  <2>3. NoJobIn(s) => OneJob(t)
    BY <1>3, <1>4 DEF NoJobIn, OneJob
  <2> QED BY <2>1, <2>2, <2>3, <1>1, <1>7 DEF t
<1> QED BY <1>6, <1>7, FrameTypes

\* The first frame is read.
LEMMA FrameRead ==
  ASSUME NEW s \in Seq(NodeFrame), s # << >>
  PROVE  /\ Tail(s) \in Seq(NodeFrame) /\ Head(s) \in NodeFrame
         /\ \A c : LastSays(s, c) => LastSays(Tail(s), c)
         /\ OneJob(s) => OneJob(Tail(s))
         /\ NoJobIn(s) => NoJobIn(Tail(s))
         /\ Head(s).type = "config" /\ Silent(Tail(s)) => \A c : LastSays(s, c) => Head(s).config = c
         /\ Head(s).type = "job" => /\ Silent(Tail(s)) => Silent(s)
                                    /\ OneJob(s) => NoJobIn(Tail(s))
                                    /\ ~ NoJobIn(s)
<1> DEFINE t == Tail(s)
<1>1. /\ Head(s) \in NodeFrame /\ t \in Seq(NodeFrame) /\ Len(t) = Len(s) - 1 /\ Len(s) \in Nat
      /\ \A i \in 1..Len(t) : t[i] = s[i + 1]
  BY HeadTailProperties, LenProperties
<1>2. DOMAIN s = 1..Len(s) /\ DOMAIN t = 1..Len(t) /\ Len(s) > 0 /\ Head(s) = s[1]
  BY <1>1, LenProperties, EmptySeq
<1> HIDE DEF t
<1>3. \A i \in DOMAIN t : i \in Nat /\ i + 1 \in DOMAIN s /\ t[i] = s[i + 1] /\ i + 1 # 1
  BY <1>1, <1>2
<1>4. \A i \in DOMAIN s : i \in Nat /\ (i = 1 \/ (i - 1 \in DOMAIN t /\ s[i] = t[i - 1]))
  <2> SUFFICES ASSUME NEW i \in DOMAIN s, i # 1
               PROVE  i \in Nat /\ i - 1 \in DOMAIN t /\ s[i] = t[i - 1]
    BY <1>1, <1>2
  <2>1. i - 1 \in 1..Len(t) /\ (i - 1) + 1 = i
    BY <1>1, <1>2
  <2> QED BY <2>1, <1>1, <1>2
<1>5. 1 \in DOMAIN s
  BY <1>1, <1>2
<1>6. ASSUME NEW c, LastSays(s, c) PROVE LastSays(t, c)
  <2> SUFFICES ASSUME NEW i \in DOMAIN t, t[i].type = "config",
                      \A j \in DOMAIN t : j > i => t[j].type # "config"
               PROVE  t[i].config = c
    BY DEF LastSays
  <2>1. ASSUME NEW j \in DOMAIN s, j > i + 1 PROVE s[j].type # "config"
    <3>1. j - 1 \in DOMAIN t /\ s[j] = t[j - 1] /\ j - 1 > i
      BY <2>1, <1>3, <1>4
    <3> QED BY <3>1
  <2> QED BY <2>1, <1>3, <1>6 DEF LastSays
<1>7. OneJob(s) => OneJob(t)
  BY <1>3 DEF OneJob
<1>8. NoJobIn(s) => NoJobIn(t)
  BY <1>3 DEF NoJobIn
<1>9. ASSUME Head(s).type = "config", Silent(t), NEW c, LastSays(s, c) PROVE Head(s).config = c
  <2>1. \A j \in DOMAIN s : j > 1 => s[j].type # "config"
    BY <1>4, <1>9 DEF Silent
  <2> QED BY <2>1, <1>2, <1>5, <1>9 DEF LastSays
<1>10. ASSUME Head(s).type = "job" PROVE (Silent(t) => Silent(s)) /\ (OneJob(s) => NoJobIn(t)) /\ ~ NoJobIn(s)
  <2>1. s[1].type = "job"
    BY <1>2, <1>10
  <2>2. Silent(t) => Silent(s)
    BY <2>1, <1>4 DEF Silent
  <2>3. OneJob(s) => NoJobIn(t)
    BY <2>1, <1>3, <1>5 DEF OneJob, NoJobIn
  <2> QED BY <2>1, <2>2, <2>3, <1>5 DEF NoJobIn
<1> QED BY <1>1, <1>6, <1>7, <1>8, <1>9, <1>10 DEF t

LEMMA ConfigInitial == Config!ConfigInit => ConfigInv
<1> SUFFICES ASSUME Config!ConfigInit PROVE ConfigInv
  OBVIOUS
<1> USE DEF Config!ConfigInit
<1>1. Config!NoJob \in JobRow /\ Config!NoJob.at = "none"
  BY DEF Config!NoJob, JobRow
<1>2. toNode = << >> /\ toHub = << >> /\ << >> \in Seq(NodeFrame) /\ << >> \in Seq(HubFrame)
  BY EmptySeq
<1>3. ConfigTypes
  BY <1>1, <1>2 DEF ConfigTypes, SeenOnce
<1>4. NewsUnderWay /\ AnswerUnderWay /\ RefusedIsStale
  BY DEF NewsUnderWay, AnswerUnderWay, RefusedIsStale
<1>5. ProbesAreOfTheConfig /\ Config!ReportsComeHome
  BY DEF ProbesAreOfTheConfig, Config!ReportsComeHome
<1>6. JobUnderWay
  BY <1>2, NoFrames DEF JobUnderWay
<1> QED BY <1>3, <1>4, <1>5, <1>6 DEF ConfigInv

\* What a step that leaves a part alone keeps of it.
LEMMA ConfigKept ==
  ASSUME ConfigInv
  PROVE  /\ UNCHANGED <<map, library, linked, toNode, config>> => NewsUnderWay'
         /\ UNCHANGED <<linked, toNode, probes, toHub, fresh, probed, config>> => AnswerUnderWay'
         /\ UNCHANGED <<probes, config>> => ProbesAreOfTheConfig'
         /\ UNCHANGED <<toNode, sentJob>> => JobUnderWay'
         /\ UNCHANGED <<refused, sentJob, fresh>> => RefusedIsStale'
         /\ UNCHANGED recorded => Config!ReportsComeHome'
<1> USE DEF ConfigInv
<1>1. ASSUME UNCHANGED <<map, library, linked, toNode, config>> PROVE NewsUnderWay'
  BY <1>1 DEF NewsUnderWay, Now
<1>2. ASSUME UNCHANGED <<linked, toNode, probes, toHub, fresh, probed, config>> PROVE AnswerUnderWay'
  BY <1>2 DEF AnswerUnderWay
<1>3. ASSUME UNCHANGED <<probes, config>> PROVE ProbesAreOfTheConfig'
  BY <1>3 DEF ProbesAreOfTheConfig
<1>4. ASSUME UNCHANGED <<toNode, sentJob>> PROVE JobUnderWay'
  BY <1>4 DEF JobUnderWay
<1>5. ASSUME UNCHANGED <<refused, sentJob, fresh>> PROVE RefusedIsStale'
  BY <1>5 DEF RefusedIsStale
<1>6. ASSUME UNCHANGED recorded PROVE Config!ReportsComeHome'
  BY <1>6 DEF Config!ReportsComeHome, Config!ToNode, Config!Best
<1> QED BY <1>1, <1>2, <1>3, <1>4, <1>5, <1>6

\* The configuration as it is after an edit is sent, if there is a connection.
LEMMA Pushed ==
  ASSUME ConfigInv, NEW l \in Layouts, NEW m \in MapsInUse, Config!Push(l, m),
         library' = l, map' = m,
         UNCHANGED <<linked, toHub, probed, config, probes, mounted, sentJob, recorded, refused>>
  PROVE  ConfigInv'
<1> DEFINE frame == Config!ConfigFrame(l, m)
<1>1. frame \in NodeFrame /\ frame.type = "config" /\ frame.config = Config!Seen(l, m)
  BY DEF Config!ConfigFrame, NodeFrame, SeenOnce
<1> HIDE DEF frame
<1>2. toNode \in Seq(NodeFrame)
  BY DEF ConfigInv, ConfigTypes
<1>3. \/ linked /\ fresh' = FALSE /\ toNode' = Append(toNode, frame)
      \/ ~ linked /\ UNCHANGED <<fresh, toNode>>
  BY DEF Config!Push, frame
<1>4. /\ Append(toNode, frame) \in Seq(NodeFrame)
      /\ LastSays(Append(toNode, frame), Config!Seen(l, m)) /\ ~ Silent(Append(toNode, frame))
      /\ OneJob(toNode) => OneJob(Append(toNode, frame))
      /\ NoJobIn(toNode) => NoJobIn(Append(toNode, frame))
  BY <1>1, <1>2, FrameSent
<1>5. ConfigTypes'
  BY <1>2, <1>3, <1>4 DEF ConfigInv, ConfigTypes
<1>6. NewsUnderWay'
  BY <1>3, <1>4 DEF NewsUnderWay, Now
<1>7. AnswerUnderWay'
  BY <1>3, <1>4 DEF AnswerUnderWay
<1>8. JobUnderWay'
  BY <1>3, <1>4 DEF ConfigInv, JobUnderWay
<1>9. RefusedIsStale'
  BY <1>3 DEF ConfigInv, RefusedIsStale
<1> QED BY <1>5, <1>6, <1>7, <1>8, <1>9, ConfigKept DEF ConfigInv

LEMMA NodeReads == ConfigInv /\ (Config!ApplyConfig \/ Config!StartJob) => ConfigInv'
<1> SUFFICES ASSUME ConfigInv, Config!ApplyConfig \/ Config!StartJob PROVE ConfigInv'
  OBVIOUS
<1> DEFINE f == Head(toNode)
<1>1. toNode \in Seq(NodeFrame) /\ toNode # << >> /\ toNode' = Tail(toNode)
  BY DEF ConfigInv, ConfigTypes, Config!ApplyConfig, Config!StartJob
<1>2. /\ Tail(toNode) \in Seq(NodeFrame) /\ f \in NodeFrame
      /\ \A c : LastSays(toNode, c) => LastSays(Tail(toNode), c)
      /\ OneJob(toNode) => OneJob(Tail(toNode))
      /\ NoJobIn(toNode) => NoJobIn(Tail(toNode))
      /\ f.type = "config" /\ Silent(Tail(toNode)) => \A c : LastSays(toNode, c) => f.config = c
      /\ f.type = "job" => /\ Silent(Tail(toNode)) => Silent(toNode)
                           /\ OneJob(toNode) => NoJobIn(Tail(toNode))
                           /\ ~ NoJobIn(toNode)
  BY <1>1, FrameRead
<1>3. f.type = "config" => f.config \in SeenOnce
  BY <1>2, FrameTypes
<1> HIDE DEF f
<1>4. CASE Config!ApplyConfig
  <2>1. /\ f.type = "config" /\ config' = f.config
        /\ probes' = {[p EXCEPT !.current = FALSE] : p \in probes} \cup {[of |-> f.config, current |-> TRUE]}
        /\ UNCHANGED <<map, library, linked, fresh, toHub, probed, sentJob, recorded, refused>>
    BY <1>4 DEF Config!ApplyConfig, f
  <2>2. /\ \A p \in probes' : p \in ProbeRow
        /\ \A p \in probes' : p.current => p.of = f.config
        /\ \E p \in probes' : p.current
    <3> DEFINE own == [of |-> f.config, current |-> TRUE]
               blurred(p) == [p EXCEPT !.current = FALSE]
    <3>1. \A p \in probes : blurred(p) \in ProbeRow /\ ~ blurred(p).current
      BY DEF ConfigInv, ConfigTypes, ProbeRow
    <3>2. own \in ProbeRow /\ own.of = f.config /\ own.current
      BY <2>1, <1>3 DEF ProbeRow
    <3>3. probes' = {blurred(p) : p \in probes} \cup {own}
      BY <2>1
    <3> HIDE DEF own, blurred
    <3> QED BY <3>1, <3>2, <3>3
  <2>3. ConfigTypes'
    BY <2>1, <2>2, <1>1, <1>2, <1>3 DEF ConfigInv, ConfigTypes
  <2>4. NewsUnderWay'
    BY <2>1, <1>1, <1>2 DEF ConfigInv, NewsUnderWay, Now
  <2>5. AnswerUnderWay' /\ ProbesAreOfTheConfig'
    BY <2>1, <2>2 DEF AnswerUnderWay, ProbesAreOfTheConfig
  <2>6. JobUnderWay'
    BY <2>1, <1>1, <1>2 DEF ConfigInv, JobUnderWay
  <2> QED BY <2>1, <2>3, <2>4, <2>5, <2>6, ConfigKept DEF ConfigInv
<1>5. CASE Config!StartJob
  <2>1. /\ f.type = "job" /\ sentJob' = [sentJob EXCEPT !.at = "running"]
        /\ UNCHANGED <<map, library, linked, fresh, toHub, probed, config, probes, recorded, refused>>
    BY <1>5 DEF Config!StartJob, f
  <2>2. sentJob' \in JobRow
    BY <2>1 DEF ConfigInv, ConfigTypes, JobRow
  <2>3. ConfigTypes'
    BY <2>1, <2>2, <1>1, <1>2 DEF ConfigInv, ConfigTypes
  <2>4. NewsUnderWay'
    BY <2>1, <1>1, <1>2 DEF ConfigInv, NewsUnderWay, Now
  <2>5. AnswerUnderWay'
    BY <2>1, <1>1, <1>2 DEF ConfigInv, AnswerUnderWay
  <2>6. JobUnderWay'
    BY <2>1, <1>1, <1>2 DEF ConfigInv, JobUnderWay
  <2>7. RefusedIsStale'
    <3>1. sentJob.at = "sent"
      BY <2>1, <1>2 DEF ConfigInv, JobUnderWay
    <3>2. Config!NoJob.at = "none"
      BY DEF Config!NoJob
    <3> QED BY <2>1, <3>1, <3>2 DEF ConfigInv, RefusedIsStale
  <2> QED BY <2>1, <2>3, <2>4, <2>5, <2>6, <2>7, ConfigKept DEF ConfigInv
<1> QED BY <1>4, <1>5

\* The answers of the node: a probe begins or ends, and the hub hears of one.
LEMMA ProbesGoOn ==
  ConfigInv /\ (Config!ProbeAgain \/ (\E p \in probes : Config!ProbeEnds(p)) \/ Config!HearLibraries) => ConfigInv'
<1> SUFFICES ASSUME ConfigInv,
                    Config!ProbeAgain \/ (\E p \in probes : Config!ProbeEnds(p)) \/ Config!HearLibraries
             PROVE  ConfigInv'
  OBVIOUS
<1>1. /\ UNCHANGED <<map, library, linked, toNode, config, sentJob, recorded>>
      /\ NewsUnderWay' /\ JobUnderWay' /\ Config!ReportsComeHome'
  <2>1. UNCHANGED <<map, library, linked, toNode, config, sentJob, recorded>>
    BY DEF Config!ProbeAgain, Config!ProbeEnds, Config!HearLibraries
  <2> QED BY <2>1, ConfigKept
<1>2. toHub \in Seq(HubFrame) /\ config \in SeenOnce
  BY DEF ConfigInv, ConfigTypes
<1>3. CASE Config!ProbeAgain
  <2> DEFINE own == [of |-> config, current |-> TRUE]
  <2>1. probes' = probes \cup {own} /\ UNCHANGED <<fresh, toHub, probed, refused>>
    BY <1>3 DEF Config!ProbeAgain
  <2>2. own \in ProbeRow /\ own.of = config /\ own.current
    BY <1>2 DEF ProbeRow
  <2> HIDE DEF own
  <2>3. ConfigTypes'
    BY <2>1, <2>2, <1>1 DEF ConfigInv, ConfigTypes
  <2>4. AnswerUnderWay' /\ ProbesAreOfTheConfig'
    BY <2>1, <2>2, <1>1 DEF ConfigInv, AnswerUnderWay, ProbesAreOfTheConfig
  <2> QED BY <2>1, <2>3, <2>4, <1>1, ConfigKept DEF ConfigInv
<1>4. ASSUME NEW p \in probes, Config!ProbeEnds(p) PROVE ConfigInv'
  <2> DEFINE answer == [type |-> "libraries", of |-> p.of, reachable |-> Config!Reachable(p.of)]
  <2>1. /\ probes' = probes \ {p} /\ UNCHANGED <<fresh, probed, refused>>
        /\ toHub' = IF linked /\ p.current THEN Append(toHub, answer) ELSE toHub
    BY <1>4 DEF Config!ProbeEnds, Config!Wanted
  <2>2. answer \in HubFrame /\ answer.of = p.of
    <3>1. p.of \in SeenOnce
      BY DEF ConfigInv, ConfigTypes, ProbeRow
    <3>2. Config!Reachable(p.of) \in BOOLEAN
      BY DEF Config!Reachable
    <3> QED BY <3>1, <3>2 DEF HubFrame
  <2> HIDE DEF answer
  <2>3. /\ Append(toHub, answer) \in Seq(HubFrame) /\ Append(toHub, answer) # << >>
        /\ Append(toHub, answer)[Len(Append(toHub, answer))] = answer
    BY <2>2, <1>2, AppendProperties
  <2>4. ConfigTypes'
    BY <2>1, <2>3, <1>1, <1>2 DEF ConfigInv, ConfigTypes
  <2>5. ProbesAreOfTheConfig'
    BY <2>1, <1>1 DEF ConfigInv, ProbesAreOfTheConfig
  <2>6. AnswerUnderWay'
    <3>1. CASE linked /\ p.current
      <4>1. toHub' = Append(toHub, answer)
        BY <3>1, <2>1
      <4>2. toHub' # << >> /\ toHub'[Len(toHub')] = answer
        BY <4>1, <2>3
      <4>3. answer.of = config
        BY <3>1, <2>2 DEF ConfigInv, ProbesAreOfTheConfig
      <4> QED BY <4>2, <4>3, <1>1 DEF AnswerUnderWay
    <3>2. CASE ~ linked
      BY <3>2, <1>1 DEF AnswerUnderWay
    <3>3. CASE ~ p.current
      <4>1. \A r \in probes : r.current => r \in probes'
        BY <3>3, <2>1
      <4>2. UNCHANGED <<toHub, fresh, probed>>
        BY <3>3, <2>1
      <4> QED BY <4>1, <4>2, <1>1 DEF ConfigInv, AnswerUnderWay
    <3> QED BY <3>1, <3>2, <3>3
  <2> QED BY <2>1, <2>4, <2>5, <2>6, <1>1, ConfigKept DEF ConfigInv
<1>5. CASE Config!HearLibraries
  <2>1. /\ toHub # << >> /\ probed' = [of |-> Head(toHub).of, reachable |-> Head(toHub).reachable]
        /\ fresh' = TRUE /\ toHub' = Tail(toHub) /\ refused' = FALSE /\ UNCHANGED probes
    BY <1>5 DEF Config!HearLibraries
  <2>2. /\ Tail(toHub) \in Seq(HubFrame) /\ Len(Tail(toHub)) = Len(toHub) - 1 /\ Len(toHub) \in Nat
        /\ \A i \in 1..Len(Tail(toHub)) : Tail(toHub)[i] = toHub[i + 1]
    BY <2>1, <1>2, HeadTailProperties, LenProperties
  <2>3. ConfigTypes'
    BY <2>1, <2>2, <1>1 DEF ConfigInv, ConfigTypes
  <2>4. AnswerUnderWay'
    <3>1. CASE Tail(toHub) = << >>
      <4>1. Len(toHub) = 1 /\ Head(toHub) = toHub[1]
        <5>1. Len(Tail(toHub)) = 0
          BY <3>1, <2>2, EmptySeq
        <5> QED BY <5>1, <2>2
      <4>2. toHub' = << >> /\ probed'.of = Head(toHub).of
        BY <3>1, <2>1
      <4>3. Head(toHub) = toHub[Len(toHub)]
        BY <4>1
      <4> QED BY <4>2, <4>3, <2>1, <1>1 DEF ConfigInv, AnswerUnderWay
    <3>2. CASE Tail(toHub) # << >>
      <4>1. Len(Tail(toHub)) \in 1..Len(Tail(toHub)) /\ Len(Tail(toHub)) + 1 = Len(toHub)
        BY <3>2, <2>2, EmptySeq
      <4>2. Tail(toHub)[Len(Tail(toHub))] = toHub[Len(toHub)]
        BY <4>1, <2>2
      <4>3. toHub' # << >> /\ toHub'[Len(toHub')] = toHub[Len(toHub)]
        BY <4>2, <3>2, <2>1
      <4> QED BY <4>3, <2>1, <1>1 DEF ConfigInv, AnswerUnderWay
    <3> QED BY <3>1, <3>2
  <2>5. ProbesAreOfTheConfig' /\ RefusedIsStale'
    BY <2>1, <1>1 DEF ConfigInv, ProbesAreOfTheConfig, RefusedIsStale
  <2> QED BY <2>3, <2>4, <2>5, <1>1 DEF ConfigInv
<1> QED BY <1>3, <1>4, <1>5

\* A job is claimed, sent, run and reported, or it is given back.
LEMMA JobGoesOn ==
  ASSUME ConfigInv, NEW j \in JobRow, sentJob' = j,
         UNCHANGED <<map, library, linked, toHub, probed, config, probes, mounted>>,
         \/ UNCHANGED toNode /\ (j.at # "sent" => NoJobIn(toNode))
         \/ toNode' = Append(toNode, Config!JobFrame) /\ sentJob.at # "sent" /\ j.at = "sent",
         UNCHANGED fresh \/ fresh' = FALSE,
         RefusedIsStale', Config!ReportsComeHome'
  PROVE  ConfigInv'
<1>1. toNode \in Seq(NodeFrame) /\ OneJob(toNode) /\ (sentJob.at # "sent" => NoJobIn(toNode))
  BY DEF ConfigInv, ConfigTypes, JobUnderWay
<1>2. Config!JobFrame \in NodeFrame /\ Config!JobFrame.type = "job"
  BY DEF NodeFrame, Config!JobFrame
<1>3. /\ Append(toNode, Config!JobFrame) \in Seq(NodeFrame)
      /\ \A c : LastSays(toNode, c) => LastSays(Append(toNode, Config!JobFrame), c)
      /\ Silent(Append(toNode, Config!JobFrame)) => Silent(toNode)
      /\ NoJobIn(toNode) => OneJob(Append(toNode, Config!JobFrame))
  BY <1>1, <1>2, FrameSent
<1>4. /\ toNode' \in Seq(NodeFrame)
      /\ \A c : LastSays(toNode, c) => LastSays(toNode', c)
      /\ Silent(toNode') => Silent(toNode)
      /\ OneJob(toNode') /\ (j.at # "sent" => NoJobIn(toNode'))
  BY <1>1, <1>3
<1>5. ConfigTypes'
  BY <1>4 DEF ConfigInv, ConfigTypes
<1>6. NewsUnderWay'
  BY <1>4 DEF ConfigInv, NewsUnderWay, Now
<1>7. AnswerUnderWay'
  BY <1>4 DEF ConfigInv, AnswerUnderWay
<1>8. JobUnderWay'
  BY <1>4 DEF JobUnderWay
<1> QED BY <1>5, <1>6, <1>7, <1>8, ConfigKept DEF ConfigInv

LEMMA ConfigStep == ConfigInv /\ [Config!ConfigNext]_configVars => ConfigInv'
<1> SUFFICES ASSUME ConfigInv, [Config!ConfigNext]_configVars PROVE ConfigInv'
  OBVIOUS
<1>a. /\ map \in MapsInUse /\ library \in Layouts /\ toNode \in Seq(NodeFrame) /\ sentJob \in JobRow
      /\ (sentJob.at # "sent" => NoJobIn(toNode))
  BY DEF ConfigInv, ConfigTypes, JobUnderWay
<1>b. Config!NoJob \in JobRow /\ Config!NoJob.at = "none"
  BY DEF Config!NoJob, JobRow
<1>c. refused => sentJob = Config!NoJob /\ ~ fresh
  BY DEF ConfigInv, RefusedIsStale
<1>d. UNCHANGED recorded => Config!ReportsComeHome'
  BY ConfigKept
<1>1. CASE Config!Welcome
  <2> DEFINE frame == Config!ConfigFrame(library, map)
  <2>1. /\ frame \in NodeFrame /\ frame.type = "config" /\ frame.config = Now
        /\ toNode' = <<frame>> /\ toHub' = << >> /\ fresh' = FALSE
        /\ UNCHANGED <<map, library, probed, config, probes, sentJob, recorded, refused>>
    BY <1>1, <1>a DEF Config!Welcome, Config!ConfigFrame, NodeFrame, SeenOnce, Now
  <2> HIDE DEF frame
  <2>2. << >> \in Seq(NodeFrame) /\ << >> \in Seq(HubFrame) /\ Append(<< >>, frame) = <<frame>>
    BY <2>1, EmptySeq
  <2>3. /\ toNode' \in Seq(NodeFrame) /\ LastSays(toNode', Now) /\ ~ Silent(toNode')
        /\ OneJob(toNode') /\ NoJobIn(toNode')
    <3>1. NoJobIn(<< >>) /\ OneJob(<< >>)
      BY NoFrames
    <3>2. /\ Append(<< >>, frame) \in Seq(NodeFrame)
          /\ LastSays(Append(<< >>, frame), frame.config) /\ ~ Silent(Append(<< >>, frame))
          /\ OneJob(Append(<< >>, frame)) /\ NoJobIn(Append(<< >>, frame))
      BY <2>1, <2>2, <3>1, FrameSent
    <3> QED BY <2>1, <2>2, <3>2
  <2>4. ConfigTypes'
    BY <2>1, <2>2, <2>3 DEF ConfigInv, ConfigTypes
  <2>5. NewsUnderWay' /\ AnswerUnderWay'
    BY <2>1, <2>3 DEF NewsUnderWay, AnswerUnderWay, Now
  <2>6. JobUnderWay' /\ RefusedIsStale'
    BY <2>1, <2>3, <1>c DEF JobUnderWay, RefusedIsStale
  <2> QED BY <2>1, <2>4, <2>5, <2>6, ConfigKept DEF ConfigInv
<1>2. CASE Config!LinkLost
  <2>1. /\ linked' = FALSE /\ fresh' = FALSE /\ toNode' = << >> /\ toHub' = << >>
        /\ UNCHANGED <<map, library, probed, config, probes, sentJob, recorded, refused>>
    BY <1>2 DEF Config!LinkLost
  <2>2. << >> \in Seq(NodeFrame) /\ << >> \in Seq(HubFrame)
    BY EmptySeq
  <2>3. ConfigTypes'
    BY <2>1, <2>2 DEF ConfigInv, ConfigTypes
  <2>4. NewsUnderWay' /\ AnswerUnderWay'
    BY <2>1 DEF NewsUnderWay, AnswerUnderWay
  <2>5. JobUnderWay' /\ RefusedIsStale'
    BY <2>1, <1>c, NoFrames DEF JobUnderWay, RefusedIsStale
  <2> QED BY <2>1, <2>3, <2>4, <2>5, ConfigKept DEF ConfigInv
<1>3. ASSUME NEW m \in MapsInUse, Config!PutMap(m) PROVE ConfigInv'
  BY <1>3, <1>a, Pushed DEF Config!PutMap
<1>4. ASSUME NEW l \in Layouts, Config!PatchLibrary(l) PROVE ConfigInv'
  BY <1>4, <1>a, Pushed DEF Config!PatchLibrary
<1>5. CASE Config!Mount
  <2>1. UNCHANGED <<map, library, linked, fresh, toNode, toHub, probed, config, probes, sentJob, recorded, refused>>
    BY <1>5 DEF Config!Mount
  <2>2. ConfigTypes'
    BY <2>1 DEF ConfigInv, ConfigTypes
  <2> QED BY <2>1, <2>2, ConfigKept DEF ConfigInv
<1>6. CASE UNCHANGED configVars
  <2>1. UNCHANGED <<map, library, linked, fresh, toNode, toHub, probed, config, probes, sentJob, recorded, refused>>
    BY <1>6 DEF configVars
  <2>2. ConfigTypes'
    BY <2>1 DEF ConfigInv, ConfigTypes
  <2> QED BY <2>1, <2>2, ConfigKept DEF ConfigInv
<1>7. CASE Config!JobEnds
  <2> PICK path \in {Config!ToNode(sentJob.map, FilePath)} \cup NodeTree :
             sentJob' = [sentJob EXCEPT !.at = "reported", !.wrote = path]
    BY <1>7 DEF Config!JobEnds
  <2> DEFINE j == [sentJob EXCEPT !.at = "reported", !.wrote = path]
  <2>1. /\ sentJob.at = "running" /\ sentJob' = j
        /\ UNCHANGED <<map, library, linked, fresh, toNode, toHub, probed, config, probes, mounted, recorded, refused>>
    BY <1>7 DEF Config!JobEnds
  <2>2. j \in JobRow /\ j.at = "reported"
    BY <1>a DEF JobRow
  <2>3. ~ refused
    BY <2>1, <1>b, <1>c
  <2> HIDE DEF j
  <2>4. RefusedIsStale'
    BY <2>1, <2>3 DEF RefusedIsStale
  <2> QED BY <2>1, <2>2, <2>4, <1>a, <1>d, JobGoesOn
<1>8. CASE Config!Claim
  <2> DEFINE j == [Config!NoJob EXCEPT !.at = "preparing", !.map = map, !.library = library]
  <2>1. /\ sentJob = Config!NoJob /\ fresh /\ sentJob' = j /\ recorded' = Config!NoRecord
        /\ UNCHANGED <<map, library, linked, fresh, toNode, toHub, probed, config, probes, mounted, refused>>
    BY <1>8 DEF Config!Claim, Config!Offered
  <2>2. j \in JobRow /\ j.at = "preparing"
    BY <1>a, <1>b DEF JobRow
  <2> HIDE DEF j
  <2>3. RefusedIsStale' /\ Config!ReportsComeHome'
    BY <2>1, <1>c DEF RefusedIsStale, Config!ReportsComeHome
  <2> QED BY <2>1, <2>2, <2>3, <1>a, <1>b, JobGoesOn
<1>9. CASE Config!PrepareFails
  <2>1. /\ sentJob.at = "preparing" /\ fresh' = FALSE /\ sentJob' = Config!NoJob
        /\ UNCHANGED <<map, library, linked, toNode, toHub, probed, config, probes, mounted, recorded>>
    BY <1>9 DEF Config!PrepareFails, Config!GoesStale
  <2>2. RefusedIsStale'
    BY <2>1 DEF RefusedIsStale
  <2> QED BY <2>1, <2>2, <1>a, <1>b, <1>d, JobGoesOn
<1>10. CASE Config!SendJob
  <2> DEFINE j == [sentJob EXCEPT !.at = "sent"]
  <2>1. /\ sentJob.at = "preparing"
        /\ UNCHANGED <<map, library, linked, fresh, toHub, probed, config, probes, mounted, recorded, refused>>
        /\ \/ toNode' = Append(toNode, Config!JobFrame) /\ sentJob' = j
           \/ UNCHANGED toNode /\ sentJob' = Config!NoJob
    BY <1>10 DEF Config!SendJob
  <2>2. j \in JobRow /\ j.at = "sent"
    BY <1>a DEF JobRow
  <2>3. ~ refused
    BY <2>1, <1>b, <1>c
  <2> HIDE DEF j
  <2>4. RefusedIsStale'
    BY <2>1, <2>3 DEF RefusedIsStale
  <2> QED BY <2>1, <2>2, <2>4, <1>a, <1>b, <1>d, JobGoesOn
<1>11. CASE Config!JobLost
  <2>1. /\ toNode = << >> /\ sentJob' = Config!NoJob
        /\ UNCHANGED <<map, library, linked, fresh, toNode, toHub, probed, config, probes, mounted, recorded, refused>>
    BY <1>11 DEF Config!JobLost
  <2>2. RefusedIsStale'
    BY <2>1, <1>c DEF RefusedIsStale
  <2> QED BY <2>1, <2>2, <1>b, <1>d, NoFrames, JobGoesOn
<1>12. CASE Config!ReportArrives
  <2> DEFINE home == Config!ToServer(sentJob.map, sentJob.wrote)
  <2>1. /\ sentJob.at = "reported" /\ sentJob' = Config!NoJob
        /\ UNCHANGED <<map, library, linked, fresh, toNode, toHub, probed, config, probes, mounted, refused>>
        /\ recorded' = IF home # Config!Unmapped /\ Config!ToNode(sentJob.map, home) = sentJob.wrote
                         THEN [wrote |-> sentJob.wrote, path |-> home, map |-> sentJob.map]
                         ELSE Config!NoRecord
    BY <1>12 DEF Config!ReportArrives, Config!MapOf
  <2> HIDE DEF home
  <2>2. recorded' # Config!NoRecord => Config!ToNode(recorded'.map, recorded'.path) = recorded'.wrote
    BY <2>1
  <2>3. Config!ReportsComeHome'
    BY <2>2 DEF Config!ReportsComeHome, Config!ToNode, Config!Best
  <2>4. RefusedIsStale'
    BY <2>1, <1>c DEF RefusedIsStale
  <2> QED BY <2>1, <2>3, <2>4, <1>a, <1>b, JobGoesOn
<1> QED BY <1>1, <1>2, <1>3, <1>4, <1>5, <1>6, <1>7, <1>8, <1>9, <1>10, <1>11, <1>12, NodeReads, ProbesGoOn
        DEF Config!ConfigNext

\* A path comes back as it went, a report is of the file the node wrote, a probe that vouches
\* once nothing is under way vouches for what is, a file that cannot be mapped is not claimed
\* straight back, no two nodes have one name, a secret that was answered works, and a bundle is
\* what its hash says: for any maps of directories, layouts, requests, trees and number of edits
\* and lost connections (path-map.ts, nodes/hub.ts, db/node-repo.ts, nodes/bundles.ts).
THEOREM NodesServed == ControlSpec => []NodesAreServedRight
<1>1. ControlInit => ConfigInv /\ EnrolInv /\ StoreInv
  BY ConfigInitial, EnrolInitial, StoreInitial DEF ControlInit
<1>2. ConfigInv /\ EnrolInv /\ StoreInv /\ [ControlNext]_controlVars => (ConfigInv /\ EnrolInv /\ StoreInv)'
  BY ControlAssumption, ConfigStep, EnrolStep, StoreStep, ControlSteps
<1>3. ConfigInv => Config!NoClaimLoop /\ Config!QuietProbeIsCurrent /\ Config!ReportsComeHome
  <2> SUFFICES ASSUME ConfigInv PROVE Config!NoClaimLoop /\ Config!QuietProbeIsCurrent
    BY DEF ConfigInv
  <2>1. Config!NoClaimLoop
    BY DEF ConfigInv, RefusedIsStale, Config!NoClaimLoop
  <2>2. Config!QuietProbeIsCurrent
    <3> SUFFICES ASSUME linked, fresh, toNode = << >>, toHub = << >>, probes = {}
                 PROVE  probed.of = Config!Seen(library, map)
      BY DEF Config!QuietProbeIsCurrent
    <3>1. Silent(toNode)
      BY NoFrames
    <3>2. config = Now
      BY <3>1 DEF ConfigInv, NewsUnderWay
    <3>3. probed.of = config
      BY <3>1 DEF ConfigInv, AnswerUnderWay
    <3> QED BY <3>2, <3>3 DEF Now
  <2> QED BY <2>1, <2>2
<1>4. ConfigInv /\ EnrolInv /\ StoreInv => NodesAreServedRight
  <2> SUFFICES ASSUME ConfigInv, EnrolInv, StoreInv PROVE NodesAreServedRight
    OBVIOUS
  <2>1. Config!ValidMapsRoundTrip /\ Config!NoClaimLoop /\ Config!QuietProbeIsCurrent /\ Config!ReportsComeHome
    BY <1>3, ControlAssumption, MapsRoundTrip
  <2>2. Enrol!NamesAreUnique
    BY DEF EnrolInv
  <2>3. Enrol!AnsweredSecretsWork
    BY DEF EnrolInv, AnswersHold, Holds, Enrol!AnsweredSecretsWork, Enrol!Answered, Enrol!Registered
  <2>4. Store!ServedHashIsTheLast /\ Store!BytesAreTheHash
    BY DEF StoreInv
  <2> QED BY <2>1, <2>2, <2>3, <2>4 DEF NodesAreServedRight
<1> QED BY <1>1, <1>2, <1>4, PTL DEF ControlSpec

-----------------------------------------------------------------------------
(* One file: its row, its deletes and the panel that shows it (FilePanel). *)

FileRow == [state : {"none", "queued", "running", "held", "failed"},
            until : {"none", "later", "due", "parked"}, raised : BOOLEAN]
AskedBy == {"panel", "other", "left"}
DeleteRow == [step : {"idle", "unlink", "drop", "restore"}, file : FileIds \cup {0},
              previous : FileRow, by : AskedBy]
Disturbance == [unguarded : SUBSET FileIds, crashed : BOOLEAN, crossed : BOOLEAN]

DeleteTypes ==
  /\ row \in [FileIds -> FileRow] /\ jobs \in [FileIds -> Nat]
  /\ onDisk \subseteq FileIds /\ reserved \subseteq FileIds
  /\ deletion \in [Deletes -> DeleteRow] /\ disturbed \in Disturbance

\* A delete in hand remembers a row that was there, and drops it once its file is gone.
InHand(d) ==
  /\ deletion[d].step = "idle" <=> deletion[d].file = 0
  /\ deletion[d].step = "drop" => deletion[d].file \notin onDisk
  /\ deletion[d].step # "idle" => deletion[d].previous.state # "none"

\* What it has is parked, and no worker has it.
Guarded(f) == row[f].state = "held" /\ row[f].until = "parked" /\ jobs[f] = 0
DeleteIsGuarded(d) ==
  deletion[d].step # "idle" /\ deletion[d].file \notin disturbed.unguarded =>
    /\ Guarded(deletion[d].file)
    /\ ~ disturbed.crashed => deletion[d].previous.until # "parked"

OneDelete ==
  \A d, e \in Deletes :
    deletion[d].step # "idle" /\ deletion[d].file \notin disturbed.unguarded
      /\ deletion[d].file = deletion[e].file => d = e

DeletesInv ==
  /\ DeleteTypes /\ OneDelete
  /\ \A d \in Deletes : InHand(d) /\ DeleteIsGuarded(d)
  /\ Panel!NothingStaysParked /\ Panel!HistoryGoesWithTheFile

LEMMA EmptyFileRows ==
  /\ Panel!NoRow \in FileRow /\ Panel!NoRow.state = "none" /\ Panel!NoRow.until = "none"
  /\ Panel!NewRow \in FileRow /\ Panel!NewRow.state = "queued" /\ Panel!NewRow.until = "none"
  /\ Panel!Idle \in DeleteRow /\ Panel!Idle.step = "idle" /\ Panel!Idle.file = 0
  /\ Panel!Nothing \in Disturbance
<1>1. Panel!NoRow \in FileRow /\ Panel!NoRow.state = "none" /\ Panel!NoRow.until = "none"
  BY DEF Panel!NoRow, FileRow
<1>2. Panel!NewRow \in FileRow /\ Panel!NewRow.state = "queued" /\ Panel!NewRow.until = "none"
  BY DEF Panel!NewRow, FileRow
<1>3. Panel!Idle \in DeleteRow /\ Panel!Idle.step = "idle" /\ Panel!Idle.file = 0
  BY <1>1 DEF Panel!Idle, Panel!Nobody, DeleteRow, AskedBy
<1>4. Panel!Nothing \in Disturbance
  BY DEF Panel!Nothing, Disturbance
<1> QED BY <1>1, <1>2, <1>3, <1>4

LEMMA DeletesInitial == ControlAssumption /\ Panel!PanelInit => DeletesInv
<1> SUFFICES ASSUME ControlAssumption, Panel!PanelInit PROVE DeletesInv
  OBVIOUS
<1>1. \A f \in FileIds : row[f] \in FileRow /\ row[f].state # "none" /\ row[f].until = "none"
  <2> DEFINE other == [Panel!NewRow EXCEPT !.state = "failed"]
  <2>1. other \in FileRow /\ other.state = "failed" /\ other.until = "none"
    BY EmptyFileRows DEF FileRow
  <2>2. \A f \in FileIds : row[f] \in {Panel!NewRow, other}
    BY DEF Panel!PanelInit
  <2> HIDE DEF other
  <2> QED BY <2>1, <2>2, EmptyFileRows
<1>2. /\ deletion = [d \in Deletes |-> Panel!Idle] /\ reserved = {} /\ onDisk = FileIds
      /\ jobs = [f \in FileIds |-> 0] /\ disturbed = Panel!Nothing
      /\ row = [f \in FileIds |-> row[f]]
  BY DEF Panel!PanelInit
<1>3. \A d \in Deletes : deletion[d] \in DeleteRow /\ deletion[d].step = "idle" /\ deletion[d].file = 0
  BY <1>2, EmptyFileRows
<1>4. DeleteTypes
  BY <1>1, <1>2, EmptyFileRows DEF DeleteTypes
<1>5. OneDelete /\ \A d \in Deletes : InHand(d) /\ DeleteIsGuarded(d)
  BY <1>3 DEF OneDelete, InHand, DeleteIsGuarded
<1>6. Panel!NothingStaysParked
  BY <1>1, <1>2, <1>3 DEF Panel!NothingStaysParked, ControlAssumption
<1>7. Panel!HistoryGoesWithTheFile
  BY <1>1 DEF Panel!HistoryGoesWithTheFile, Panel!Known
<1> QED BY <1>4, <1>5, <1>6, <1>7 DEF DeletesInv

\* The row of one file goes on: a file a delete has stays as it is guarded.
LEMMA FileRowGoesOn ==
  ASSUME DeletesInv, NEW f \in FileIds, NEW r \in FileRow, NEW n \in Nat,
         row' = [row EXCEPT ![f] = r], jobs' = [jobs EXCEPT ![f] = n],
         UNCHANGED <<onDisk, reserved, deletion>>, disturbed' \in Disturbance,
         disturbed.unguarded \subseteq disturbed'.unguarded, disturbed'.crashed = disturbed.crashed,
         r.state = "none" => row[f].state = "none",
         \/ f \in disturbed'.unguarded
         \/ f \notin reserved
         \/ r.state = row[f].state /\ r.until = row[f].until /\ n = jobs[f],
         r.until = "parked" => row[f].until = "parked"
  PROVE  DeletesInv'
<1> USE DEF DeletesInv
<1>1. /\ row' \in [FileIds -> FileRow] /\ jobs' \in [FileIds -> Nat]
      /\ \A g \in FileIds : /\ row'[g] = IF g = f THEN r ELSE row[g]
                            /\ jobs'[g] = IF g = f THEN n ELSE jobs[g]
  BY DEF DeleteTypes
<1>2. DeleteTypes'
  BY <1>1 DEF DeleteTypes
<1>3. OneDelete'
  BY DEF OneDelete
<1>4. ASSUME NEW d \in Deletes PROVE InHand(d)' /\ DeleteIsGuarded(d)'
  <2>1. InHand(d)'
    BY DEF InHand
  <2>2. DeleteIsGuarded(d)'
    <3> SUFFICES ASSUME deletion[d].step # "idle", deletion[d].file \notin disturbed'.unguarded
                 PROVE  /\ Guarded(deletion[d].file)'
                        /\ ~ disturbed.crashed => deletion[d].previous.until # "parked"
      BY DEF DeleteIsGuarded, Guarded
    <3> DEFINE g == deletion[d].file
    <3>1. g \in FileIds /\ g \notin disturbed.unguarded
      BY DEF InHand, DeleteTypes, DeleteRow
    <3>2. Guarded(g) /\ (~ disturbed.crashed => deletion[d].previous.until # "parked")
      BY <3>1 DEF DeleteIsGuarded
    <3>3. g \in reserved
      BY <3>1 DEF Panel!NothingStaysParked
    <3>4. row'[g].state = row[g].state /\ row'[g].until = row[g].until /\ jobs'[g] = jobs[g]
      BY <3>1, <3>3, <1>1
    <3> QED BY <3>2, <3>4 DEF Guarded
  <2> QED BY <2>1, <2>2
<1>5. Panel!NothingStaysParked'
  BY <1>1 DEF Panel!NothingStaysParked
<1>6. Panel!HistoryGoesWithTheFile'
  BY <1>1 DEF Panel!HistoryGoesWithTheFile, Panel!Known
<1> QED BY <1>2, <1>3, <1>4, <1>5, <1>6

\* A step that leaves the rows and what the deletes have.
LEMMA DeletesKept ==
  ASSUME DeletesInv, UNCHANGED <<row, jobs, reserved>>, onDisk' \subseteq onDisk,
         disturbed' \in Disturbance, disturbed'.unguarded = disturbed.unguarded,
         disturbed'.crashed = disturbed.crashed,
         deletion' \in [Deletes -> DeleteRow],
         \A d \in Deletes : /\ deletion'[d].file = deletion[d].file
                            /\ deletion'[d].previous = deletion[d].previous
                            /\ deletion'[d].step = "idle" <=> deletion[d].step = "idle"
                            /\ deletion'[d].step = "drop" => deletion[d].file \notin onDisk'
  PROVE  DeletesInv'
<1> USE DEF DeletesInv
<1>1. DeleteTypes'
  BY DEF DeleteTypes
<1>2. OneDelete'
  BY DEF OneDelete
<1>3. ASSUME NEW d \in Deletes PROVE InHand(d)' /\ DeleteIsGuarded(d)'
  BY DEF InHand, DeleteIsGuarded, Guarded
<1>4. Panel!NothingStaysParked'
  BY DEF Panel!NothingStaysParked
<1>5. Panel!HistoryGoesWithTheFile'
  BY DEF Panel!HistoryGoesWithTheFile, Panel!Known
<1> QED BY <1>1, <1>2, <1>3, <1>4, <1>5

\* A file a delete has reserved is one of a delete in hand.
LEMMA ReservedIsGuarded ==
  ASSUME ControlAssumption, DeletesInv, NEW f \in FileIds, f \notin disturbed.unguarded
  PROVE  /\ f \in reserved => Guarded(f)
         /\ f \in reserved <=> \E d \in Deletes : deletion[d].file = f /\ deletion[d].step # "idle"
<1>1. f \in reserved <=> \E d \in Deletes : deletion[d].file = f
  BY DEF DeletesInv, Panel!NothingStaysParked
<1>2. \A d \in Deletes : deletion[d].file = f => deletion[d].step # "idle"
  BY DEF DeletesInv, InHand, ControlAssumption
<1>3. \A d \in Deletes : deletion[d].file = f => Guarded(f)
  BY <1>2 DEF DeletesInv, DeleteIsGuarded
<1> QED BY <1>1, <1>2, <1>3

LEMMA QueueKeepsDeletes ==
  ASSUME ControlAssumption, DeletesInv, NEW f \in FileIds,
         Panel!Claim(f) \/ Panel!Settle(f) \/ Panel!HoldEnds(f) \/ Panel!Hold(f)
  PROVE  DeletesInv'
<1>0. row[f] \in FileRow /\ jobs[f] \in Nat /\ disturbed \in Disturbance /\ DeleteTypes
  BY DEF DeletesInv, DeleteTypes
<1>1. CASE Panel!Claim(f)
  <2> DEFINE r == [row[f] EXCEPT !.state = "running"]
  <2>1. row' = [row EXCEPT ![f] = r] /\ jobs' = [jobs EXCEPT ![f] = jobs[f] + 1]
    BY <1>1 DEF Panel!Claim
  <2>2. r \in FileRow /\ r.state = "running" /\ r.until = row[f].until
    BY <1>0 DEF FileRow
  <2>3. UNCHANGED <<onDisk, reserved, deletion, disturbed>>
    BY <1>1 DEF Panel!Claim
  <2>4. row[f].until # "parked"
    BY <1>1 DEF Panel!Claim, Panel!Claimable
  <2>5. f \in disturbed.unguarded \/ f \notin reserved
    BY <2>4, ReservedIsGuarded DEF Guarded
  <2>6. jobs[f] + 1 \in Nat
    BY <1>0
  <2> HIDE DEF r
  <2> QED BY <2>1, <2>2, <2>3, <2>5, <2>6, <1>0, FileRowGoesOn
<1>2. CASE Panel!Settle(f)
  <2> DEFINE r == IF Panel!Known(f) THEN [row[f] EXCEPT !.state = "held", !.until = "later"] ELSE row[f]
  <2>1. jobs' = [jobs EXCEPT ![f] = jobs[f] - 1] /\ jobs[f] - 1 \in Nat
    BY <1>0, <1>2 DEF Panel!Settle
  <2>2. row' = [row EXCEPT ![f] = r]
    <3>1. CASE Panel!Known(f)
      BY <1>2, <3>1 DEF Panel!Settle
    <3>2. CASE ~ Panel!Known(f)
      BY <1>2, <3>2, <1>0 DEF Panel!Settle, DeleteTypes
    <3> QED BY <3>1, <3>2
  <2>3. r \in FileRow /\ (r.state = "none" => row[f].state = "none") /\ (r.until = "parked" => row[f].until = "parked")
    BY <1>0 DEF FileRow, Panel!Known
  <2>4. UNCHANGED <<onDisk, reserved, deletion, disturbed>>
    BY <1>2 DEF Panel!Settle
  <2>5. f \in disturbed.unguarded \/ f \notin reserved
    <3>1. jobs[f] # 0
      BY <1>2 DEF Panel!Settle
    <3>2. ~ Guarded(f)
      BY <3>1 DEF Guarded
    <3> QED BY <3>2, <1>0, ReservedIsGuarded
  <2> HIDE DEF r
  <2> QED BY <2>1, <2>2, <2>3, <2>4, <2>5, <1>0, FileRowGoesOn
<1>3. CASE Panel!HoldEnds(f)
  <2> DEFINE r == [row[f] EXCEPT !.until = "due"]
  <2>1. row' = [row EXCEPT ![f] = r] /\ jobs' = [jobs EXCEPT ![f] = jobs[f]]
    BY <1>0, <1>3 DEF Panel!HoldEnds, DeleteTypes
  <2>2. r \in FileRow /\ r.state = row[f].state /\ r.until = "due"
    BY <1>0 DEF FileRow
  <2>3. UNCHANGED <<onDisk, reserved, deletion, disturbed>>
    BY <1>3 DEF Panel!HoldEnds
  <2>4. f \in disturbed.unguarded \/ f \notin reserved
    BY <1>3, ReservedIsGuarded DEF Guarded, Panel!HoldEnds
  <2> HIDE DEF r
  <2> QED BY <2>1, <2>2, <2>3, <2>4, <1>0, FileRowGoesOn
<1>4. CASE Panel!Hold(f)
  <2> DEFINE r == [row[f] EXCEPT !.state = "held", !.until = "later"]
  <2>1. row' = [row EXCEPT ![f] = r] /\ jobs' = [jobs EXCEPT ![f] = jobs[f]]
    BY <1>0, <1>4 DEF Panel!Hold, DeleteTypes
  <2>2. r \in FileRow /\ r.state = "held" /\ r.until = "later"
    BY <1>0 DEF FileRow
  <2>3. UNCHANGED <<onDisk, reserved, deletion>>
    BY <1>4 DEF Panel!Hold
  <2>4. /\ disturbed' \in Disturbance /\ disturbed.unguarded \subseteq disturbed'.unguarded
        /\ disturbed'.crashed = disturbed.crashed
        /\ f \in disturbed'.unguarded \/ f \notin reserved
    BY <1>0, <1>4 DEF Panel!Hold, Disturbance
  <2> HIDE DEF r
  <2> QED BY <2>1, <2>2, <2>3, <2>4, <1>0, FileRowGoesOn
<1> QED BY <1>1, <1>2, <1>3, <1>4

LEMMA RequeueKeepsDeletes ==
  ASSUME ControlAssumption, DeletesInv, NEW f \in FileIds,
         Panel!requeue(f) \/ Panel!setPriority(f), UNCHANGED <<onDisk, jobs, reserved, deletion, disturbed>>
  PROVE  DeletesInv'
<1>0. row[f] \in FileRow /\ jobs[f] \in Nat /\ disturbed \in Disturbance /\ DeleteTypes
  BY DEF DeletesInv, DeleteTypes
<1>1. jobs' = [jobs EXCEPT ![f] = jobs[f]]
  BY <1>0 DEF DeleteTypes
<1>2. CASE UNCHANGED row
  BY <1>2, <1>0, DeletesKept DEF DeletesInv, DeleteTypes, InHand
<1>3. CASE Panel!requeue(f) /\ ~ UNCHANGED row
  <2> DEFINE r == [row[f] EXCEPT !.state = "queued", !.until = "none"]
  <2>1. row' = [row EXCEPT ![f] = r] /\ f \notin reserved
    BY <1>3 DEF Panel!requeue, Panel!RequeueBlocked
  <2>2. r \in FileRow /\ r.state = "queued" /\ r.until = "none"
    BY <1>0 DEF FileRow
  <2> HIDE DEF r
  <2> QED BY <2>1, <2>2, <1>0, <1>1, FileRowGoesOn
<1>4. CASE Panel!setPriority(f) /\ ~ UNCHANGED row
  <2> DEFINE r == [row[f] EXCEPT !.raised = TRUE]
  <2>1. row' = [row EXCEPT ![f] = r]
    BY <1>4 DEF Panel!setPriority
  <2>2. r \in FileRow /\ r.state = row[f].state /\ r.until = row[f].until
    BY <1>0 DEF FileRow
  <2> HIDE DEF r
  <2> QED BY <2>1, <2>2, <1>0, <1>1, FileRowGoesOn
<1> QED BY <1>2, <1>3, <1>4

\* A file is taken for a delete: nobody else's, or no longer guarded.
LEMMA DeleteBegins ==
  ASSUME ControlAssumption, DeletesInv, NEW f \in FileIds, NEW who \in AskedBy, Panel!DeleteAsked(f, who),
         UNCHANGED <<onDisk, jobs>>
  PROVE  DeletesInv'
<1>0. row[f] \in FileRow /\ jobs[f] \in Nat /\ disturbed \in Disturbance /\ DeleteTypes
  BY DEF DeletesInv, DeleteTypes
<1>1. CASE UNCHANGED <<row, reserved, deletion, disturbed>>
  BY <1>1, <1>0, DeletesKept DEF DeletesInv, DeleteTypes, InHand
<1>2. ASSUME Panel!MayReserve(f), NEW d \in Deletes, deletion[d].step = "idle", Panel!reserveForDeletion(d, f, who),
             disturbed' = IF f \in reserved THEN [disturbed EXCEPT !.unguarded = @ \cup {f}] ELSE disturbed
      PROVE  DeletesInv'
  <2> DEFINE r == [row[f] EXCEPT !.state = "held", !.until = "parked"]
             n == [step |-> "unlink", file |-> f, previous |-> row[f], by |-> who]
  <2>1. row' = [row EXCEPT ![f] = r] /\ reserved' = reserved \cup {f} /\ deletion' = [deletion EXCEPT ![d] = n]
    BY <1>2 DEF Panel!reserveForDeletion
  <2>2. r \in FileRow /\ r.state = "held" /\ r.until = "parked"
    BY <1>0 DEF FileRow
  <2>3. n \in DeleteRow /\ n.step = "unlink" /\ n.file = f /\ n.previous = row[f]
    BY <1>0 DEF DeleteRow
  <2> HIDE DEF r, n
  <2>4. /\ disturbed' \in Disturbance /\ disturbed.unguarded \subseteq disturbed'.unguarded
        /\ disturbed'.crashed = disturbed.crashed
        /\ f \in disturbed'.unguarded \/ f \notin reserved
    BY <1>0, <1>2 DEF Disturbance
  <2>5. /\ \A g \in FileIds : row'[g] = IF g = f THEN r ELSE row[g]
        /\ \A x \in Deletes : deletion'[x] = IF x = d THEN n ELSE deletion[x]
    BY <2>1, <1>0 DEF DeleteTypes
  <2>6. DeleteTypes'
    BY <1>0, <2>1, <2>2, <2>3, <2>4 DEF DeleteTypes
  <2>7. row[f].state # "none" /\ jobs[f] = 0
    BY <1>2 DEF Panel!MayReserve, Panel!MayReserveByState, Panel!Known
  <2>8. \A g \in FileIds \ disturbed'.unguarded :
          /\ g \in reserved <=> \E x \in Deletes : deletion[x].file = g
          /\ row[g].until = "parked" /\ ~ disturbed.crashed => g \in reserved
    BY <2>4 DEF DeletesInv, Panel!NothingStaysParked
  <2>9. f \notin disturbed'.unguarded => \A x \in Deletes : deletion[x].file # f
    BY <2>4, <2>8
  <2>10. deletion[d].file = 0
    BY <1>2 DEF DeletesInv, InHand
  <2>11. OneDelete'
    <3> SUFFICES ASSUME NEW x \in Deletes, NEW e \in Deletes, deletion'[x].step # "idle",
                        deletion'[x].file \notin disturbed'.unguarded, deletion'[x].file = deletion'[e].file
                 PROVE  x = e
      BY DEF OneDelete
    <3>1. CASE x = d
      BY <3>1, <2>3, <2>5, <2>9
    <3>2. CASE x # d /\ e = d
      BY <3>2, <2>3, <2>5, <2>9
    <3>3. CASE x # d /\ e # d
      BY <3>3, <2>5, <2>4 DEF DeletesInv, OneDelete
    <3> QED BY <3>1, <3>2, <3>3
  <2>12. ASSUME NEW x \in Deletes PROVE InHand(x)' /\ DeleteIsGuarded(x)'
    <3>1. CASE x = d
      <4>1. InHand(x)'
        BY <3>1, <2>3, <2>5, <2>7 DEF InHand, ControlAssumption
      <4>2. DeleteIsGuarded(x)'
        BY <3>1, <2>2, <2>3, <2>4, <2>5, <2>7, <2>8 DEF DeleteIsGuarded, Guarded
      <4> QED BY <4>1, <4>2
    <3>2. CASE x # d
      <4>1. InHand(x)'
        BY <3>2, <2>5 DEF DeletesInv, InHand
      <4>2. DeleteIsGuarded(x)'
        <5> SUFFICES ASSUME deletion[x].step # "idle", deletion[x].file \notin disturbed'.unguarded
                     PROVE  /\ Guarded(deletion[x].file)'
                            /\ ~ disturbed.crashed => deletion[x].previous.until # "parked"
          BY <3>2, <2>4, <2>5 DEF DeleteIsGuarded, Guarded
        <5>1. deletion[x].file # f /\ deletion[x].file \in FileIds
          BY <2>9, <1>0 DEF DeletesInv, InHand, DeleteTypes, DeleteRow
        <5>2. Guarded(deletion[x].file) /\ (~ disturbed.crashed => deletion[x].previous.until # "parked")
          BY <2>4 DEF DeletesInv, DeleteIsGuarded
        <5>3. deletion'[x] = deletion[x] /\ row'[deletion[x].file] = row[deletion[x].file]
          BY <3>2, <5>1, <2>5
        <5> QED BY <5>2, <5>3 DEF Guarded
      <4> QED BY <4>1, <4>2
    <3> QED BY <3>1, <3>2
  <2>13. Panel!NothingStaysParked'
    <3> SUFFICES ASSUME NEW g \in FileIds, g \notin disturbed'.unguarded
                 PROVE  /\ g \in reserved' <=> \E x \in Deletes : deletion'[x].file = g
                        /\ row'[g].until = "parked" /\ ~ disturbed'.crashed => g \in reserved'
      BY DEF Panel!NothingStaysParked
    <3>1. CASE g = f
      BY <3>1, <2>1, <2>3, <2>5
    <3>2. CASE g # f
      <4>1. g \in reserved' <=> g \in reserved
        BY <3>2, <2>1
      <4>2. \A x \in Deletes : deletion'[x].file = g <=> deletion[x].file = g
        BY <3>2, <2>3, <2>5, <2>10 DEF ControlAssumption
      <4> QED BY <4>1, <4>2, <3>2, <2>4, <2>5, <2>8
    <3> QED BY <3>1, <3>2
  <2>14. Panel!HistoryGoesWithTheFile'
    BY <2>2, <2>5 DEF DeletesInv, Panel!HistoryGoesWithTheFile, Panel!Known
  <2> QED BY <2>6, <2>11, <2>12, <2>13, <2>14 DEF DeletesInv
<1> QED BY <1>1, <1>2 DEF Panel!DeleteAsked, Panel!Answered

\* A delete ends: its row goes with the file, or is what it was.
LEMMA DeleteEnds ==
  ASSUME ControlAssumption, DeletesInv, NEW d \in Deletes, deletion[d].step # "idle",
         NEW r \in FileRow, row' = [row EXCEPT ![deletion[d].file] = r],
         reserved' = reserved \ {deletion[d].file}, deletion' = [deletion EXCEPT ![d] = Panel!Idle],
         UNCHANGED <<onDisk, jobs, disturbed>>,
         r.state = "none" => deletion[d].file \notin onDisk,
         r.until = "parked" => disturbed.crashed \/ deletion[d].file \in disturbed.unguarded
  PROVE  DeletesInv'
<1> DEFINE f == deletion[d].file
<1>0. DeleteTypes /\ f \in FileIds
  BY DEF DeletesInv, DeleteTypes, DeleteRow, InHand
<1>1. /\ \A g \in FileIds : row'[g] = IF g = f THEN r ELSE row[g]
      /\ \A x \in Deletes : deletion'[x] = IF x = d THEN Panel!Idle ELSE deletion[x]
  BY <1>0 DEF DeleteTypes
<1>2. DeleteTypes'
  BY <1>0, EmptyFileRows DEF DeleteTypes
<1>3. OneDelete'
  <2> SUFFICES ASSUME NEW x \in Deletes, NEW e \in Deletes, deletion'[x].step # "idle",
                      deletion'[x].file \notin disturbed.unguarded, deletion'[x].file = deletion'[e].file
               PROVE  x = e
    BY DEF OneDelete
  <2>1. x # d /\ deletion'[x] = deletion[x]
    BY <1>1, EmptyFileRows
  <2>2. deletion[x].file # 0
    BY <2>1 DEF DeletesInv, InHand
  <2>3. e # d /\ deletion'[e] = deletion[e]
    BY <2>1, <2>2, <1>1, EmptyFileRows
  <2> QED BY <2>1, <2>3 DEF DeletesInv, OneDelete
<1>4. ASSUME NEW x \in Deletes PROVE InHand(x)' /\ DeleteIsGuarded(x)'
  <2>1. CASE x = d
    BY <2>1, <1>1, EmptyFileRows DEF InHand, DeleteIsGuarded
  <2>2. CASE x # d
    <3>1. InHand(x)'
      BY <2>2, <1>1 DEF DeletesInv, InHand
    <3>2. DeleteIsGuarded(x)'
      <4> SUFFICES ASSUME deletion[x].step # "idle", deletion[x].file \notin disturbed.unguarded
                   PROVE  /\ Guarded(deletion[x].file)'
                          /\ ~ disturbed.crashed => deletion[x].previous.until # "parked"
        BY <2>2, <1>1 DEF DeleteIsGuarded, Guarded
      <4>1. deletion[x].file # f /\ deletion[x].file \in FileIds
        BY <2>2, <1>0 DEF DeletesInv, OneDelete, InHand, DeleteTypes, DeleteRow
      <4>2. Guarded(deletion[x].file) /\ (~ disturbed.crashed => deletion[x].previous.until # "parked")
        BY DEF DeletesInv, DeleteIsGuarded
      <4> QED BY <4>1, <4>2, <1>1 DEF Guarded
    <3> QED BY <3>1, <3>2
  <2> QED BY <2>1, <2>2
<1>5. Panel!NothingStaysParked'
  <2> SUFFICES ASSUME NEW g \in FileIds, g \notin disturbed.unguarded
               PROVE  /\ g \in reserved' <=> \E x \in Deletes : deletion'[x].file = g
                      /\ row'[g].until = "parked" /\ ~ disturbed.crashed => g \in reserved'
    BY DEF Panel!NothingStaysParked
  <2>1. /\ g \in reserved <=> \E x \in Deletes : deletion[x].file = g
        /\ row[g].until = "parked" /\ ~ disturbed.crashed => g \in reserved
    BY DEF DeletesInv, Panel!NothingStaysParked
  <2>2. CASE g = f
    <3>1. \A x \in Deletes : x # d => deletion[x].file # f
      BY <2>2 DEF DeletesInv, OneDelete
    <3>2. \A x \in Deletes : deletion'[x].file # f
      BY <3>1, <1>0, <1>1, EmptyFileRows DEF ControlAssumption
    <3> QED BY <2>2, <3>2, <1>1
  <2>3. CASE g # f
    <3>1. \A x \in Deletes : deletion'[x].file = g <=> deletion[x].file = g
      BY <2>3, <1>1, EmptyFileRows DEF ControlAssumption
    <3> QED BY <3>1, <2>1, <2>3, <1>1
  <2> QED BY <2>2, <2>3
<1>6. Panel!HistoryGoesWithTheFile'
  BY <1>1 DEF DeletesInv, Panel!HistoryGoesWithTheFile, Panel!Known
<1> QED BY <1>2, <1>3, <1>4, <1>5, <1>6 DEF DeletesInv

LEMMA RequestsKeepDeletes ==
  ASSUME ControlAssumption, DeletesInv, NEW d \in Deletes,
         Panel!Unlink(d) \/ Panel!delete(d) \/ Panel!restoreFromDeletion(d)
  PROVE  DeletesInv'
<1> DEFINE f == deletion[d].file
<1>0. DeleteTypes /\ deletion[d] \in DeleteRow /\ InHand(d) /\ DeleteIsGuarded(d)
  BY DEF DeletesInv, DeleteTypes
<1>1. CASE Panel!Unlink(d)
  <2>1. PICK s \in {"drop", "restore"} :
          /\ deletion' = [deletion EXCEPT ![d].step = s] /\ onDisk' \subseteq onDisk
          /\ s = "drop" => f \notin onDisk'
    BY <1>1 DEF Panel!Unlink
  <2> DEFINE n == [deletion[d] EXCEPT !.step = s]
  <2>2. n \in DeleteRow /\ n.step = s /\ n.file = f /\ n.previous = deletion[d].previous
    BY <1>0 DEF DeleteRow
  <2>3. deletion' = [deletion EXCEPT ![d] = n]
    BY <2>1
  <2> HIDE DEF n
  <2>4. UNCHANGED <<row, jobs, reserved, disturbed>> /\ deletion[d].step = "unlink"
    BY <1>1 DEF Panel!Unlink
  <2>5. /\ deletion' \in [Deletes -> DeleteRow]
        /\ \A x \in Deletes : deletion'[x] = IF x = d THEN n ELSE deletion[x]
    BY <2>2, <2>3, <1>0 DEF DeleteTypes
  <2>6. ASSUME NEW x \in Deletes
        PROVE  /\ deletion'[x].file = deletion[x].file /\ deletion'[x].previous = deletion[x].previous
               /\ deletion'[x].step = "idle" <=> deletion[x].step = "idle"
               /\ deletion'[x].step = "drop" => deletion[x].file \notin onDisk'
    BY <2>1, <2>2, <2>4, <2>5 DEF DeletesInv, InHand
  <2> QED BY <2>1, <2>4, <2>5, <2>6, <1>0, DeletesKept DEF DeleteTypes
<1>2. CASE Panel!delete(d)
  <2>1. /\ deletion[d].step = "drop" /\ row' = [row EXCEPT ![f] = Panel!NoRow]
        /\ reserved' = reserved \ {f} /\ deletion' = [deletion EXCEPT ![d] = Panel!Idle]
        /\ UNCHANGED <<onDisk, jobs, disturbed>>
    BY <1>2 DEF Panel!delete
  <2>2. f \notin onDisk
    BY <2>1, <1>0 DEF InHand
  <2>3. Panel!NoRow \in FileRow /\ Panel!NoRow.until = "none"
    BY EmptyFileRows
  <2> QED BY <2>1, <2>2, <2>3, DeleteEnds
<1>3. CASE Panel!restoreFromDeletion(d)
  <2> DEFINE p == deletion[d].previous
             r == IF Panel!Known(f) THEN [row[f] EXCEPT !.state = p.state, !.until = p.until] ELSE row[f]
  <2>1. /\ deletion[d].step = "restore"
        /\ row' = IF Panel!Known(f) THEN [row EXCEPT ![f].state = p.state, ![f].until = p.until] ELSE row
        /\ reserved' = reserved \ {f} /\ deletion' = [deletion EXCEPT ![d] = Panel!Idle]
        /\ UNCHANGED <<onDisk, jobs, disturbed>>
    BY <1>3 DEF Panel!restoreFromDeletion
  <2>2. f \in FileIds /\ row[f] \in FileRow /\ p \in FileRow /\ p.state # "none"
    BY <1>0, <2>1 DEF DeleteTypes, DeleteRow, InHand
  <2>3. row' = [row EXCEPT ![f] = r]
    <3>1. CASE Panel!Known(f)
      BY <2>1, <3>1
    <3>2. CASE ~ Panel!Known(f)
      BY <2>1, <2>2, <3>2, <1>0 DEF DeleteTypes
    <3> QED BY <3>1, <3>2
  <2>4. r \in FileRow
    BY <2>2 DEF FileRow
  <2>5. r.state = "none" => f \notin onDisk
    BY <2>2 DEF FileRow, Panel!Known, DeletesInv, Panel!HistoryGoesWithTheFile
  <2>6. r.until = "parked" => disturbed.crashed \/ f \in disturbed.unguarded
    BY <1>0, <2>1, <2>2 DEF FileRow, Panel!Known, DeleteIsGuarded, Guarded
  <2> HIDE DEF r
  <2> QED BY <2>1, <2>3, <2>4, <2>5, <2>6, DeleteEnds
<1> QED BY <1>1, <1>2, <1>3

LEMMA CrashKeepsDeletes ==
  ASSUME ControlAssumption, DeletesInv, Panel!Crash
  PROVE  DeletesInv'
<1> DEFINE r(f) == IF jobs[f] > 0 /\ Panel!Known(f) THEN [row[f] EXCEPT !.state = "held", !.until = "later"] ELSE row[f]
<1>0. DeleteTypes
  BY DEF DeletesInv
<1>1. /\ reserved' = {} /\ deletion' = [d \in Deletes |-> Panel!Idle] /\ jobs' = [f \in FileIds |-> 0]
      /\ row' = [f \in FileIds |-> r(f)] /\ UNCHANGED onDisk
      /\ disturbed' = [disturbed EXCEPT !.crashed = TRUE]
  BY DEF Panel!Crash
<1>2. ASSUME NEW f \in FileIds PROVE r(f) \in FileRow /\ (r(f).state = "none" => row[f].state = "none")
  <2>1. row[f] \in FileRow
    BY <1>0 DEF DeleteTypes
  <2> QED BY <2>1 DEF FileRow, Panel!Known
<1> HIDE DEF r
<1>3. disturbed' \in Disturbance /\ disturbed'.crashed
  BY <1>0, <1>1 DEF DeleteTypes, Disturbance
<1>4. DeleteTypes'
  BY <1>0, <1>1, <1>2, <1>3, EmptyFileRows DEF DeleteTypes
<1>5. \A d \in Deletes : deletion'[d].step = "idle" /\ deletion'[d].file = 0
  BY <1>1, EmptyFileRows
<1>6. OneDelete' /\ \A d \in Deletes : InHand(d)' /\ DeleteIsGuarded(d)'
  BY <1>5 DEF OneDelete, InHand, DeleteIsGuarded
<1>7. Panel!NothingStaysParked'
  BY <1>1, <1>3, <1>5 DEF Panel!NothingStaysParked, ControlAssumption
<1>8. Panel!HistoryGoesWithTheFile'
  BY <1>1, <1>2 DEF DeletesInv, Panel!HistoryGoesWithTheFile, Panel!Known
<1> QED BY <1>4, <1>6, <1>7, <1>8 DEF DeletesInv

PanelRec == [id : FileIds \cup {0}, loading : BOOLEAN, file : FileIds \cup {0}, history : FileIds \cup {0},
             flow : FileIds \cup {0}, confirming : BOOLEAN, deleteBusy : BOOLEAN, armedFor : FileIds \cup {0}]
LoadRec   == [of : FileIds, stage : {"file", "library"}, found : BOOLEAN, cancelled : BOOLEAN]
AnswerRec == [kind : {"requeue", "priority", "delete"}, of : FileIds \cup {0}, ok : BOOLEAN, by : AskedBy]

\* A load that was not dropped is of the file the panel is at.
LoadsAreOfTheAddress(id) == \A l \in loads : ~ l.cancelled => l.of = id

PanelInv ==
  /\ panel \in PanelRec /\ loads \subseteq LoadRec /\ answers \subseteq AnswerRec
  /\ LoadsAreOfTheAddress(panel.id) /\ Panel!PanelIsOfOneFile

LEMMA PanelClosed ==
  /\ Panel!Closed \in PanelRec /\ Panel!Closed.id = 0
BY DEF Panel!Closed, Panel!Nobody, PanelRec

LEMMA AnswersTyped ==
  ASSUME answers \subseteq AnswerRec, NEW f \in FileIds, NEW who \in AskedBy,
         NEW kind \in {"requeue", "priority", "delete"}, NEW ok \in BOOLEAN, Panel!Answered(kind, f, ok, who)
  PROVE  answers' \subseteq AnswerRec
<1>1. Panel!Answer(kind, f, ok, who) \in AnswerRec
  BY DEF Panel!Answer, AnswerRec
<1> QED BY <1>1 DEF Panel!Answered

\* A step that leaves the panel and what it loads.
LEMMA PanelKept ==
  ASSUME PanelInv, UNCHANGED <<panel, loads>>, answers' \subseteq AnswerRec, disturbed'.crossed = disturbed.crossed
  PROVE  PanelInv'
<1>1. LoadsAreOfTheAddress(panel.id)'
  BY DEF PanelInv, LoadsAreOfTheAddress
<1>2. Panel!PanelIsOfOneFile'
  BY DEF PanelInv, Panel!PanelIsOfOneFile, Panel!Shown
<1> QED BY <1>1, <1>2 DEF PanelInv

\* A button of the panel.
LEMMA PanelPressed ==
  ASSUME PanelInv, panel' \in PanelRec, UNCHANGED loads, answers' \subseteq AnswerRec,
         disturbed'.crossed = disturbed.crossed, panel'.id = panel.id, panel'.loading = panel.loading,
         panel'.file = panel.file, panel'.history = panel.history, panel'.flow = panel.flow
  PROVE  PanelInv'
<1>1. LoadsAreOfTheAddress(panel.id)'
  BY DEF PanelInv, LoadsAreOfTheAddress
<1>2. Panel!PanelIsOfOneFile'
  BY DEF PanelInv, Panel!PanelIsOfOneFile, Panel!Shown
<1> QED BY <1>1, <1>2 DEF PanelInv

LEMMA LoadsDropped ==
  ASSUME loads \subseteq LoadRec
  PROVE  \A l \in {[m EXCEPT !.cancelled = TRUE] : m \in loads} : l \in LoadRec /\ l.cancelled
<1> SUFFICES ASSUME NEW m \in loads PROVE [m EXCEPT !.cancelled = TRUE] \in LoadRec /\ [m EXCEPT !.cancelled = TRUE].cancelled
  OBVIOUS
<1> QED BY DEF LoadRec

LEMMA PanelLeft ==
  ASSUME PanelInv, NEW coming \in SUBSET answers, Panel!Leave(coming)
  PROVE  PanelInv'
<1>1. panel' = Panel!Closed /\ loads' = {[l EXCEPT !.cancelled = TRUE] : l \in loads}
  BY DEF Panel!Leave
<1>2. loads' \subseteq LoadRec /\ LoadsAreOfTheAddress(panel.id)'
  BY <1>1, LoadsDropped DEF PanelInv, LoadsAreOfTheAddress
<1>3. answers' \subseteq AnswerRec
  <2>1. answers' = {[a EXCEPT !.by = "left"] : a \in {b \in coming : b.kind = "delete"}}
    BY DEF Panel!Leave
  <2>2. \A a \in AnswerRec : [a EXCEPT !.by = "left"] \in AnswerRec
    BY DEF AnswerRec, AskedBy
  <2> QED BY <2>1, <2>2 DEF PanelInv
<1>4. Panel!PanelIsOfOneFile'
  BY <1>1, PanelClosed DEF Panel!PanelIsOfOneFile, Panel!Shown, Panel!Nobody
<1> QED BY <1>1, <1>2, <1>3, <1>4, PanelClosed DEF PanelInv

LEMMA LeftKeepsDeletes ==
  ASSUME DeletesInv, NEW coming, Panel!Leave(coming), UNCHANGED <<row, onDisk, jobs, reserved, disturbed>>
  PROVE  DeletesInv'
<1> DEFINE left(n) == IF n.by = "panel" THEN [n EXCEPT !.by = "left"] ELSE n
<1>1. deletion' = [d \in Deletes |-> left(deletion[d])]
  BY DEF Panel!Leave
<1>2. \A n \in DeleteRow : left(n) \in DeleteRow /\ left(n).file = n.file /\ left(n).step = n.step /\ left(n).previous = n.previous
  BY DEF DeleteRow, AskedBy
<1>3. \A d \in Deletes : deletion[d] \in DeleteRow /\ InHand(d)
  BY DEF DeletesInv, DeleteTypes
<1> HIDE DEF left
<1>4. /\ deletion' \in [Deletes -> DeleteRow]
      /\ \A d \in Deletes : deletion'[d] = left(deletion[d])
  BY <1>1, <1>2, <1>3
<1>5. disturbed \in Disturbance
  BY DEF DeletesInv, DeleteTypes
<1> QED BY <1>2, <1>3, <1>4, <1>5, DeletesKept DEF InHand

LEMMA PanelInitial == ControlAssumption /\ Panel!PanelInit => PanelInv
<1> SUFFICES ASSUME Panel!PanelInit PROVE PanelInv
  OBVIOUS
<1>1. panel = Panel!Closed /\ loads = {} /\ answers = {}
  BY DEF Panel!PanelInit
<1> QED BY <1>1, PanelClosed DEF PanelInv, LoadsAreOfTheAddress, Panel!PanelIsOfOneFile, Panel!Shown, Panel!Nobody

\* What the queue, the disk and the requests do.
LEMMA PanelSeesWork ==
  ASSUME ControlAssumption, DeletesInv, PanelInv,
         \/ \E f \in FileIds : \/ Panel!Claim(f) \/ Panel!Settle(f) \/ Panel!HoldEnds(f) \/ Panel!Vanish(f)
                               \/ Panel!Hold(f) \/ Panel!DeleteElsewhere(f)
         \/ \E d \in Deletes : Panel!Unlink(d) \/ Panel!delete(d) \/ Panel!restoreFromDeletion(d)
         \/ Panel!Crash
  PROVE  DeletesInv' /\ PanelInv'
<1>0. disturbed \in Disturbance /\ answers \subseteq AnswerRec /\ DeleteTypes
  BY DEF DeletesInv, DeleteTypes, PanelInv
<1>1. ASSUME NEW f \in FileIds, Panel!Claim(f) \/ Panel!Settle(f) \/ Panel!HoldEnds(f) \/ Panel!Hold(f)
      PROVE  DeletesInv' /\ PanelInv'
  <2>1. UNCHANGED <<panel, loads, answers>>
    BY <1>1 DEF Panel!Claim, Panel!Settle, Panel!HoldEnds, Panel!Hold
  <2>2. disturbed'.crossed = disturbed.crossed
    BY <1>0, <1>1 DEF Panel!Claim, Panel!Settle, Panel!HoldEnds, Panel!Hold, Disturbance
  <2> QED BY <1>0, <1>1, <2>1, <2>2, QueueKeepsDeletes, PanelKept
<1>2. ASSUME NEW f \in FileIds, Panel!Vanish(f) PROVE DeletesInv' /\ PanelInv'
  <2>1. onDisk' \subseteq onDisk /\ UNCHANGED <<row, jobs, reserved, deletion, panel, loads, answers, disturbed>>
    BY <1>2 DEF Panel!Vanish
  <2>2. \A d \in Deletes : deletion[d].step = "drop" => deletion[d].file \notin onDisk'
    BY <2>1 DEF DeletesInv, InHand
  <2> QED BY <1>0, <2>1, <2>2, DeletesKept, PanelKept DEF DeleteTypes
<1>3. ASSUME NEW f \in FileIds, Panel!DeleteElsewhere(f) PROVE DeletesInv' /\ PanelInv'
  <2>1. /\ Panel!DeleteAsked(f, "other") /\ "other" \in AskedBy
        /\ UNCHANGED <<onDisk, jobs, panel, loads>>
    BY <1>3 DEF Panel!DeleteElsewhere, AskedBy
  <2>2. answers' = answers /\ disturbed'.crossed = disturbed.crossed
    BY <2>1, <1>0 DEF Panel!DeleteAsked, Panel!Answered, Disturbance
  <2> QED BY <1>0, <2>1, <2>2, DeleteBegins, PanelKept
<1>4. ASSUME NEW d \in Deletes, Panel!Unlink(d) \/ Panel!delete(d) \/ Panel!restoreFromDeletion(d)
      PROVE  DeletesInv' /\ PanelInv'
  <2>1. UNCHANGED <<panel, loads, disturbed>>
    BY <1>4 DEF Panel!Unlink, Panel!delete, Panel!restoreFromDeletion
  <2>2. answers' \subseteq AnswerRec
    <3>1. CASE Panel!Unlink(d)
      BY <3>1, <1>0 DEF Panel!Unlink
    <3>2. CASE Panel!delete(d) \/ Panel!restoreFromDeletion(d)
      <4>1. PICK ok \in BOOLEAN : Panel!Answered("delete", deletion[d].file, ok, deletion[d].by)
        BY <3>2 DEF Panel!delete, Panel!restoreFromDeletion
      <4>2. deletion[d].step # "idle"
        BY <3>2 DEF Panel!delete, Panel!restoreFromDeletion
      <4>3. deletion[d].file \in FileIds /\ deletion[d].by \in AskedBy
        BY <4>2, <1>0 DEF DeletesInv, InHand, DeleteTypes, DeleteRow
      <4> QED BY <4>1, <4>3, <1>0, AnswersTyped
    <3> QED BY <3>1, <3>2, <1>4
  <2> QED BY <1>4, <2>1, <2>2, RequestsKeepDeletes, PanelKept
<1>5. ASSUME Panel!Crash PROVE DeletesInv' /\ PanelInv'
  <2>1. UNCHANGED <<panel, loads>> /\ disturbed' = [disturbed EXCEPT !.crashed = TRUE]
    BY <1>5 DEF Panel!Crash
  <2>2. answers' = answers \cup {Panel!Answer("delete", deletion[d].file, FALSE, deletion[d].by) :
                                   d \in {x \in Deletes : deletion[x].by # "other"}}
    BY <1>5 DEF Panel!Crash
  <2>3. \A d \in Deletes : Panel!Answer("delete", deletion[d].file, FALSE, deletion[d].by) \in AnswerRec
    BY <1>0 DEF DeleteTypes, DeleteRow, Panel!Answer, AnswerRec
  <2>4. disturbed'.crossed = disturbed.crossed
    BY <2>1, <1>0 DEF Disturbance
  <2> QED BY <1>0, <1>5, <2>1, <2>2, <2>3, <2>4, CrashKeepsDeletes, PanelKept
<1> QED BY <1>1, <1>2, <1>3, <1>4, <1>5

\* What the panel loads and shows.
LEMMA PanelShows ==
  ASSUME DeletesInv, PanelInv,
         (\E f \in FileIds : Panel!Open(f)) \/ (\E l \in loads : Panel!ReadFile(l) \/ Panel!Show(l))
  PROVE  DeletesInv' /\ PanelInv'
<1>0. disturbed \in Disturbance /\ answers \subseteq AnswerRec /\ DeleteTypes /\ panel \in PanelRec /\ loads \subseteq LoadRec
  BY DEF DeletesInv, DeleteTypes, PanelInv
<1>1. /\ UNCHANGED <<row, onDisk, jobs, reserved, deletion, answers>>
      /\ disturbed' \in Disturbance /\ disturbed'.unguarded = disturbed.unguarded
      /\ disturbed'.crashed = disturbed.crashed
  BY <1>0 DEF Panel!Open, Panel!ReadFile, Panel!Show, Disturbance
<1>2. DeletesInv'
  BY <1>0, <1>1, DeletesKept DEF DeletesInv, InHand, DeleteTypes
<1>3. ASSUME NEW f \in FileIds, Panel!Open(f) PROVE PanelInv'
  <2> DEFINE l0 == [of |-> f, stage |-> "file", found |-> FALSE, cancelled |-> FALSE]
  <2>1. /\ panel' = [panel EXCEPT !.id = f, !.loading = TRUE]
        /\ loads' = {[l EXCEPT !.cancelled = TRUE] : l \in loads} \cup {l0}
    BY <1>3 DEF Panel!Open
  <2>2. panel' \in PanelRec /\ panel'.id = f /\ panel'.loading
    BY <1>0, <2>1 DEF PanelRec
  <2>3. l0 \in LoadRec /\ l0.of = f
    BY DEF LoadRec
  <2> HIDE DEF l0
  <2>4. loads' \subseteq LoadRec /\ LoadsAreOfTheAddress(panel.id)'
    BY <1>0, <2>1, <2>2, <2>3, LoadsDropped DEF LoadsAreOfTheAddress
  <2> QED BY <1>0, <1>1, <2>2, <2>4 DEF PanelInv, Panel!PanelIsOfOneFile, Panel!Shown
<1>4. ASSUME NEW l \in loads, Panel!ReadFile(l) PROVE PanelInv'
  <2> DEFINE n == [l EXCEPT !.stage = "library", !.found = Panel!Known(l.of)]
  <2>1. /\ loads' = (loads \ {l}) \cup (IF l.cancelled THEN {} ELSE {n})
        /\ UNCHANGED <<panel, disturbed>>
    BY <1>4 DEF Panel!ReadFile
  <2>2. n \in LoadRec /\ n.of = l.of /\ n.cancelled = l.cancelled
    BY <1>0 DEF LoadRec, Panel!Known
  <2> HIDE DEF n
  <2>3. loads' \subseteq LoadRec /\ LoadsAreOfTheAddress(panel.id)'
    BY <1>0, <2>1, <2>2 DEF LoadsAreOfTheAddress, PanelInv
  <2>4. Panel!PanelIsOfOneFile'
    BY <2>1 DEF PanelInv, Panel!PanelIsOfOneFile, Panel!Shown
  <2> QED BY <1>0, <1>1, <2>1, <2>3, <2>4 DEF PanelInv
<1>5. ASSUME NEW l \in loads, Panel!Show(l) PROVE PanelInv'
  <2> DEFINE n == [panel EXCEPT !.loading = FALSE, !.file = l.of, !.history = l.of, !.flow = l.of]
  <2>1. loads' \subseteq loads /\ UNCHANGED disturbed /\ (panel' = panel \/ (panel' = n /\ ~ l.cancelled))
    <3>1. loads' = loads \ {l} /\ UNCHANGED disturbed
      BY <1>5 DEF Panel!Show
    <3>2. panel' = panel \/ (panel' = n /\ ~ l.cancelled)
      BY <1>5, Zenon DEF Panel!Show
    <3> QED BY <3>1, <3>2
  <2>2. /\ n \in PanelRec /\ n.id = panel.id
        /\ n.file = l.of /\ n.history = l.of /\ n.flow = l.of
    BY <1>0 DEF LoadRec, PanelRec
  <2> HIDE DEF n
  <2>3. panel' \in PanelRec /\ loads' \subseteq LoadRec /\ LoadsAreOfTheAddress(panel.id)'
    BY <1>0, <2>1, <2>2 DEF LoadsAreOfTheAddress, PanelInv
  <2>4. Panel!PanelIsOfOneFile'
    <3>1. CASE panel' = panel
      BY <3>1, <2>1 DEF PanelInv, Panel!PanelIsOfOneFile, Panel!Shown
    <3>2. CASE panel' = n /\ ~ l.cancelled
      BY <3>2, <2>2 DEF PanelInv, LoadsAreOfTheAddress, Panel!PanelIsOfOneFile, Panel!Shown
    <3> QED BY <3>1, <3>2, <2>1
  <2> QED BY <1>0, <1>1, <2>3, <2>4 DEF PanelInv
<1> QED BY <1>2, <1>3, <1>4, <1>5

\* What the operator presses.
LEMMA PanelButtons ==
  ASSUME ControlAssumption, DeletesInv, PanelInv,
         \/ Panel!PressRequeue \/ Panel!PressPriority \/ Panel!PressDelete \/ Panel!PressCancel
         \/ Panel!PressConfirm \/ Panel!Back
  PROVE  DeletesInv' /\ PanelInv'
<1>0. disturbed \in Disturbance /\ answers \subseteq AnswerRec /\ DeleteTypes /\ panel \in PanelRec
  BY DEF DeletesInv, DeleteTypes, PanelInv
<1>1. Panel!Shown => panel.id \in FileIds
  BY <1>0 DEF Panel!Shown, Panel!Nobody, PanelRec
<1>2. ASSUME Panel!PressRequeue \/ Panel!PressPriority PROVE DeletesInv' /\ PanelInv'
  <2>1. UNCHANGED <<onDisk, jobs, reserved, deletion, panel, loads, disturbed>> /\ panel.id \in FileIds
    BY <1>1, <1>2 DEF Panel!PressRequeue, Panel!PressPriority
  <2>2. Panel!requeue(panel.id) \/ Panel!setPriority(panel.id)
    BY <1>2 DEF Panel!PressRequeue, Panel!PressPriority
  <2>3. PICK kind \in {"requeue", "priority"}, ok \in BOOLEAN : Panel!Answered(kind, panel.id, ok, "panel")
    BY <2>2 DEF Panel!requeue, Panel!setPriority, Panel!Known
  <2>4. answers' \subseteq AnswerRec
    BY <1>0, <2>1, <2>3, AnswersTyped DEF AskedBy
  <2> QED BY <2>1, <2>2, <2>4, RequeueKeepsDeletes, PanelKept
<1>3. ASSUME Panel!PressDelete \/ Panel!PressCancel PROVE DeletesInv' /\ PanelInv'
  <2>1. UNCHANGED <<row, onDisk, jobs, reserved, deletion, loads, answers, disturbed>>
    BY <1>3 DEF Panel!PressDelete, Panel!PressCancel
  <2>2. DeletesInv'
    BY <1>0, <2>1, DeletesKept DEF DeletesInv, InHand, DeleteTypes
  <2>3. PICK c \in BOOLEAN, f \in FileIds \cup {0} : panel' = [panel EXCEPT !.confirming = c, !.armedFor = f]
    BY <1>0, <1>3 DEF Panel!PressDelete, Panel!PressCancel, Panel!Nobody, PanelRec
  <2>4. /\ panel' \in PanelRec /\ panel'.id = panel.id /\ panel'.loading = panel.loading
        /\ panel'.file = panel.file /\ panel'.history = panel.history /\ panel'.flow = panel.flow
    BY <1>0, <2>3 DEF PanelRec
  <2> QED BY <1>0, <2>1, <2>2, <2>4, PanelPressed
<1>4. ASSUME Panel!PressConfirm PROVE DeletesInv' /\ PanelInv'
  <2>1. /\ panel' = [panel EXCEPT !.deleteBusy = TRUE] /\ Panel!DeleteAsked(panel.id, "panel")
        /\ UNCHANGED <<onDisk, jobs, loads>> /\ panel.id \in FileIds
    BY <1>1, <1>4 DEF Panel!PressConfirm
  <2>2. /\ panel' \in PanelRec /\ panel'.id = panel.id /\ panel'.loading = panel.loading
        /\ panel'.file = panel.file /\ panel'.history = panel.history /\ panel'.flow = panel.flow
    BY <1>0, <2>1 DEF PanelRec
  <2>3. "panel" \in AskedBy
    BY DEF AskedBy
  <2>4. answers' = answers \/ Panel!Answered("delete", panel.id, FALSE, "panel")
    BY <2>1 DEF Panel!DeleteAsked
  <2>5. answers' \subseteq AnswerRec
    BY <1>0, <2>1, <2>3, <2>4, AnswersTyped
  <2>6. disturbed'.crossed = disturbed.crossed
    BY <1>0, <2>1 DEF Panel!DeleteAsked, Disturbance
  <2> QED BY <2>1, <2>2, <2>3, <2>5, <2>6, DeleteBegins, PanelPressed
<1>5. ASSUME Panel!Back PROVE DeletesInv' /\ PanelInv'
  <2>1. Panel!Leave(answers) /\ UNCHANGED <<row, onDisk, jobs, reserved, disturbed>>
    BY <1>5 DEF Panel!Back
  <2> QED BY <2>1, PanelLeft, LeftKeepsDeletes
<1> QED BY <1>2, <1>3, <1>4, <1>5

\* What the panel is answered.
LEMMA PanelAnswered ==
  ASSUME DeletesInv, PanelInv, NEW a \in answers, Panel!ApplyRow(a) \/ Panel!ApplyDelete(a)
  PROVE  DeletesInv' /\ PanelInv'
<1>0. /\ disturbed \in Disturbance /\ answers \subseteq AnswerRec /\ DeleteTypes /\ panel \in PanelRec
      /\ a \in AnswerRec /\ answers \ {a} \in SUBSET answers
  BY DEF DeletesInv, DeleteTypes, PanelInv
<1>1. CASE Panel!ApplyRow(a)
  <2>1. answers' = answers \ {a} /\ UNCHANGED <<row, onDisk, jobs, reserved, deletion, loads>>
    BY <1>1 DEF Panel!ApplyRow
  <2>2. /\ disturbed' \in Disturbance /\ disturbed'.unguarded = disturbed.unguarded
        /\ disturbed'.crashed = disturbed.crashed
    BY <1>0, <1>1 DEF Panel!ApplyRow, Disturbance
  <2>3. DeletesInv'
    BY <1>0, <2>1, <2>2, DeletesKept DEF DeletesInv, InHand, DeleteTypes
  <2>4. CASE UNCHANGED <<panel, disturbed>>
    BY <1>0, <2>1, <2>3, <2>4, PanelKept
  <2>5. CASE a.ok /\ panel.id # 0
    <3>1. panel' = [panel EXCEPT !.file = a.of] /\ (panel.id # a.of => disturbed'.crossed)
      BY <1>0, <1>1, <2>5 DEF Panel!ApplyRow, Panel!Nobody, Disturbance
    <3>2. /\ panel' \in PanelRec /\ panel'.id = panel.id /\ panel'.loading = panel.loading
          /\ panel'.file = a.of /\ panel'.history = panel.history /\ panel'.flow = panel.flow
      BY <1>0, <3>1 DEF PanelRec, AnswerRec
    <3>3. Panel!PanelIsOfOneFile'
      BY <3>1, <3>2 DEF PanelInv, Panel!PanelIsOfOneFile, Panel!Shown
    <3>4. LoadsAreOfTheAddress(panel.id)'
      BY <2>1, <3>2 DEF PanelInv, LoadsAreOfTheAddress
    <3> QED BY <1>0, <2>1, <2>3, <3>2, <3>3, <3>4 DEF PanelInv
  <2> QED BY <1>1, <2>4, <2>5 DEF Panel!ApplyRow, Panel!Nobody
<1>2. CASE Panel!ApplyDelete(a)
  <2>1. UNCHANGED <<row, onDisk, jobs, reserved, disturbed>>
    BY <1>2 DEF Panel!ApplyDelete
  <2>2. CASE Panel!Leave(answers \ {a})
    BY <1>0, <2>1, <2>2, PanelLeft, LeftKeepsDeletes
  <2>3. CASE ~ a.ok
    <3>1. answers' = answers \ {a} /\ UNCHANGED <<loads, deletion>>
      BY <1>2, <2>3 DEF Panel!ApplyDelete
    <3>2. panel' = panel \/ panel' = [panel EXCEPT !.confirming = FALSE, !.deleteBusy = FALSE, !.armedFor = 0]
      BY <1>2, <2>3 DEF Panel!ApplyDelete, Panel!Nobody
    <3>3. /\ panel' \in PanelRec /\ panel'.id = panel.id /\ panel'.loading = panel.loading
          /\ panel'.file = panel.file /\ panel'.history = panel.history /\ panel'.flow = panel.flow
      BY <1>0, <3>2 DEF PanelRec
    <3>4. DeletesInv'
      BY <1>0, <2>1, <3>1, DeletesKept DEF DeletesInv, InHand, DeleteTypes
    <3> QED BY <1>0, <2>1, <3>1, <3>3, <3>4, PanelPressed
  <2> QED BY <1>2, <2>2, <2>3 DEF Panel!ApplyDelete
<1> QED BY <1>1, <1>2

LEMMA PanelStep ==
  ASSUME ControlAssumption, DeletesInv, PanelInv, [Panel!PanelNext]_panelVars
  PROVE  DeletesInv' /\ PanelInv'
<1>1. CASE UNCHANGED panelVars
  <2>1. UNCHANGED <<row, onDisk, jobs, reserved, deletion, panel, loads, answers, disturbed>>
    BY <1>1 DEF panelVars
  <2>2. DeletesInv'
    BY <2>1, DeletesKept DEF DeletesInv, InHand, DeleteTypes
  <2>3. PanelInv'
    BY <2>1, PanelKept DEF PanelInv
  <2> QED BY <2>2, <2>3
<1>2. CASE \/ \E f \in FileIds : \/ Panel!Claim(f) \/ Panel!Settle(f) \/ Panel!HoldEnds(f) \/ Panel!Vanish(f)
                                 \/ Panel!Hold(f) \/ Panel!DeleteElsewhere(f)
           \/ \E d \in Deletes : Panel!Unlink(d) \/ Panel!delete(d) \/ Panel!restoreFromDeletion(d)
           \/ Panel!Crash
  BY <1>2, PanelSeesWork
<1>3. CASE (\E f \in FileIds : Panel!Open(f)) \/ (\E l \in loads : Panel!ReadFile(l) \/ Panel!Show(l))
  BY <1>3, PanelShows
<1>4. CASE \E a \in answers : Panel!ApplyRow(a) \/ Panel!ApplyDelete(a)
  BY <1>4, PanelAnswered
<1>5. CASE \/ Panel!PressRequeue \/ Panel!PressPriority \/ Panel!PressDelete \/ Panel!PressCancel
           \/ Panel!PressConfirm \/ Panel!Back
  BY <1>5, PanelButtons
<1> QED BY <1>1, <1>2, <1>3, <1>4, <1>5 DEF Panel!PanelNext

-----------------------------------------------------------------------------
(* The list of files (FileList). *)

LoopShape(l) ==
  /\ l = [filters |-> l.filters, offset |-> l.offset, collected |-> l.collected, page |-> l.page, cancelled |-> l.cancelled]
  /\ l.cancelled \in BOOLEAN
ListShape ==
  /\ list = [rows |-> list.rows, total |-> list.total, loading |-> list.loading, more |-> list.more, failed |-> list.failed]
  /\ list.loading \in BOOLEAN /\ list.more \in BOOLEAN /\ list.failed \in BOOLEAN
  /\ field = [q |-> field.q, typed |-> field.typed] /\ field.typed \in BOOLEAN
  /\ filters = [state |-> filters.state, q |-> filters.q]
  /\ moved \in BOOLEAN /\ \A l \in fetches : LoopShape(l)

\* One loop asks for pages at a time; the others were dropped.
OneLoop == \A k, l \in fetches : ~ k.cancelled /\ ~ l.cancelled => k = l

\* What it has collected is the front of the list, and its page is what follows.
Collects(l) ==
  LET all == Listed!Filtered(filters) IN
  /\ l.offset \in 0..Len(all) /\ l.collected = SubSeq(all, 1, l.offset)
  /\ l.page.asked => l.page = Listed!query(filters, l.offset)

ListInv ==
  /\ ListShape /\ OneLoop
  /\ \A l \in fetches : ~ l.cancelled /\ ~ moved => Collects(l)
  /\ Listed!ListIsWhole /\ Listed!ListEnds /\ Listed!DraftIsTheFilter

LEMMA CountIsCardinality == \A T : Listed!Cardinality(T) = Cardinality(T)
BY DEF Listed!Cardinality, Cardinality

LEMMA FilteredIsAList ==
  ASSUME ControlAssumption, NEW f
  PROVE  \E S : Listed!Filtered(f) \in Seq(S)
<1> DEFINE taken == {p \in Paths : Listed!Takes(f, p)}
           at(i) == CHOOSE p \in taken : Listed!Cardinality({q \in taken : q < p}) = i - 1
           S == {at(i) : i \in 1..Listed!Cardinality(taken)}
<1>1. Listed!Cardinality(taken) \in Nat
  BY CountIsCardinality, FS_Subset, FS_CardinalityType DEF ControlAssumption
<1>2. Listed!Filtered(f) = [i \in 1..Listed!Cardinality(taken) |-> at(i)]
  BY DEF Listed!Filtered, Listed!InOrder
<1> HIDE DEF taken, at
<1>3. Listed!Filtered(f) \in [1..Listed!Cardinality(taken) -> S]
  BY <1>2
<1>4. Listed!Filtered(f) \in Seq(S)
  BY <1>1, <1>3
<1> QED BY <1>4

\* Two pages, one after the other, are a longer front of the list.
LEMMA PagesFollow ==
  ASSUME NEW S, NEW all \in Seq(S), NEW o \in 0..Len(all), PageSize \in Nat \ {0}
  PROVE  /\ o + PageSize < Len(all) =>
              SubSeq(all, 1, o) \o Listed!Page(all, o) = SubSeq(all, 1, o + PageSize)
         /\ o + PageSize >= Len(all) \/ Listed!Page(all, o) = <<>> =>
              SubSeq(all, 1, o) \o Listed!Page(all, o) = all
<1> DEFINE end == IF o + PageSize < Len(all) THEN o + PageSize ELSE Len(all)
<1>1. Len(all) \in Nat /\ end \in o..Len(all) /\ o \in Nat
  OBVIOUS
<1>2. Listed!Page(all, o) = SubSeq(all, o + 1, end)
  BY <1>1 DEF Listed!Page, Listed!Min
<1>3. end = o => o = Len(all)
  BY <1>1
<1>4. end = IF o + PageSize < Len(all) THEN o + PageSize ELSE Len(all)
  OBVIOUS
<1> HIDE DEF end
<1>5. SubSeq(all, 1, o) \o SubSeq(all, o + 1, end) = SubSeq(all, 1, end)
  <2>1. 1 \in 1..Len(all) + 1 /\ o \in 1 - 1..Len(all)
    BY <1>1
  <2> QED BY <1>1, <2>1, ConcatAdjacentSubSeq
<1>6. SubSeq(all, 1, Len(all)) = all
  BY SubSeqFull
<1>7. SubSeq(all, o + 1, end) = <<>> => end = o
  <2>1. \A i \in o + 1..end : all[i] \in S
    BY <1>1
  <2>2. Len(SubSeq(all, o + 1, end)) = IF o + 1 <= end THEN end - (o + 1) + 1 ELSE 0
    BY <1>1, <2>1, SubSeqProperties
  <2> QED BY <1>1, <2>2
<1>8. ASSUME o + PageSize < Len(all)
      PROVE  SubSeq(all, 1, o) \o Listed!Page(all, o) = SubSeq(all, 1, o + PageSize)
  BY <1>8, <1>2, <1>4, <1>5
<1>9. ASSUME o + PageSize >= Len(all) \/ Listed!Page(all, o) = <<>>
      PROVE  SubSeq(all, 1, o) \o Listed!Page(all, o) = all
  <2>1. end = Len(all)
    <3>1. CASE o + PageSize >= Len(all)
      BY <3>1, <1>1, <1>4
    <3>2. CASE Listed!Page(all, o) = <<>>
      BY <3>2, <1>2, <1>3, <1>7
    <3> QED BY <1>9, <3>1, <3>2
  <2> QED BY <2>1, <1>2, <1>5, <1>6
<1> QED BY <1>8, <1>9

\* While no row changes, what the filters take is the same.
LEMMA FilteredKept ==
  ASSUME UNCHANGED ledger
  PROVE  Listed!Filtered(filters)' = Listed!Filtered(filters')
<1>1. \A p : Listed!Takes(filters, p)' <=> Listed!Takes(filters', p)
  BY DEF Listed!Takes
<1>2. {p \in Paths : Listed!Takes(filters, p)'} = {p \in Paths : Listed!Takes(filters', p)}
  BY <1>1
<1> QED BY <1>2 DEF Listed!Filtered

LEMMA ListEndsMeans ==
  Listed!ListEnds <=>
    /\ (list.loading \/ list.more) <=> \E l \in fetches : ~ l.cancelled
    /\ \A l \in fetches : ~ l.cancelled => l.filters = filters /\ l.collected = list.rows
BY DEF Listed!ListEnds

OneOf(f, o, c, p, b) == [filters : {f}, offset : {o}, collected : {c}, page : {p}, cancelled : {b}]

LEMMA LoopIs ==
  ASSUME NEW l, NEW f, NEW o, NEW c, NEW p, NEW b
  PROVE  l \in OneOf(f, o, c, p, b) <=>
           l = [filters |-> f, offset |-> o, collected |-> c, page |-> p, cancelled |-> b]
BY DEF OneOf

LEMMA LoopDropped ==
  ASSUME NEW l, LoopShape(l), NEW b
  PROVE  [l EXCEPT !.cancelled = b] =
           [filters |-> l.filters, offset |-> l.offset, collected |-> l.collected, page |-> l.page, cancelled |-> b]
<1> DEFINE n == [l EXCEPT !.cancelled = b]
<1>1. l \in OneOf(l.filters, l.offset, l.collected, l.page, l.cancelled)
  BY LoopIs DEF LoopShape
<1>2. n \in OneOf(l.filters, l.offset, l.collected, l.page, b)
  BY <1>1 DEF OneOf
<1> HIDE DEF n
<1>3. n = [filters |-> l.filters, offset |-> l.offset, collected |-> l.collected, page |-> l.page, cancelled |-> b]
  BY <1>2, LoopIs
<1> QED BY <1>3 DEF n

LEMMA LoopGoesOn ==
  ASSUME NEW l, LoopShape(l), NEW o, NEW c, NEW p
  PROVE  [l EXCEPT !.offset = o, !.collected = c, !.page = p] =
           [filters |-> l.filters, offset |-> o, collected |-> c, page |-> p, cancelled |-> l.cancelled]
<1> DEFINE n == [l EXCEPT !.offset = o, !.collected = c, !.page = p]
<1>1. l \in OneOf(l.filters, l.offset, l.collected, l.page, l.cancelled)
  BY LoopIs DEF LoopShape
<1>2. n \in OneOf(l.filters, o, c, p, l.cancelled)
  BY <1>1 DEF OneOf
<1> HIDE DEF n
<1>3. n = [filters |-> l.filters, offset |-> o, collected |-> c, page |-> p, cancelled |-> l.cancelled]
  BY <1>2, LoopIs
<1> QED BY <1>3 DEF n

\* Everything begins anew, for the filters as they are now.
LEMMA ListReloaded ==
  ASSUME ControlAssumption, ListInv, Listed!Reload(filters'), UNCHANGED ledger,
         filters' = [state |-> filters'.state, q |-> filters'.q],
         field' = [q |-> field'.q, typed |-> field'.typed], field'.typed \in BOOLEAN, Listed!DraftIsTheFilter'
  PROVE  ListInv'
<1> DEFINE l0 == Listed!Fetch(filters')
           dropped == {[l EXCEPT !.cancelled = TRUE] : l \in fetches}
<1>1. list' = Listed!Empty /\ fetches' = dropped \cup {l0} /\ moved' = FALSE
  BY DEF Listed!Reload
<1>2. /\ LoopShape(l0) /\ l0.filters = filters' /\ l0.offset = 0 /\ l0.collected = <<>>
      /\ l0.page.asked = FALSE /\ l0.cancelled = FALSE
  BY DEF Listed!Fetch, LoopShape, Listed!NoPage
<1>3. \A l \in dropped : LoopShape(l) /\ l.cancelled
  <2> SUFFICES ASSUME NEW l \in fetches
               PROVE  LoopShape([l EXCEPT !.cancelled = TRUE]) /\ [l EXCEPT !.cancelled = TRUE].cancelled
    OBVIOUS
  <2>1. LoopShape(l)
    BY DEF ListInv, ListShape
  <2> DEFINE n == [l EXCEPT !.cancelled = TRUE]
  <2>2. n = [filters |-> l.filters, offset |-> l.offset, collected |-> l.collected, page |-> l.page, cancelled |-> TRUE]
    BY <2>1, LoopDropped
  <2> HIDE DEF n
  <2>3. LoopShape(n) /\ n.cancelled
    BY <2>2 DEF LoopShape
  <2> QED BY <2>3 DEF n
<1>4. /\ list' = [rows |-> list'.rows, total |-> list'.total, loading |-> list'.loading, more |-> list'.more, failed |-> list'.failed]
      /\ list'.rows = <<>> /\ list'.loading = TRUE /\ list'.more = FALSE /\ list'.failed = FALSE
  BY <1>1 DEF Listed!Empty
<1> HIDE DEF l0, dropped
<1>5. ListShape'
  <2>1. \A l \in fetches' : LoopShape(l)
    BY <1>1, <1>2, <1>3
  <2>2. \A l \in fetches' : LoopShape(l)'
    BY <2>1 DEF LoopShape
  <2> QED BY <2>2, <1>1, <1>4 DEF ListShape
<1>6. OneLoop'
  BY <1>1, <1>2, <1>3 DEF OneLoop
<1>7. \A l \in fetches' : ~ l.cancelled => l = l0
  BY <1>1, <1>2, <1>3
<1>8. ASSUME NEW l \in fetches', ~ l.cancelled PROVE Collects(l)'
  <2> DEFINE all == Listed!Filtered(filters)'
  <2>1. PICK S : all \in Seq(S)
    <3>1. \E S : Listed!Filtered(filters') \in Seq(S)
      BY FilteredIsAList
    <3>2. Listed!Filtered(filters)' = Listed!Filtered(filters')
      BY FilteredKept
    <3> QED BY <3>1, <3>2
  <2> HIDE DEF all
  <2>2. Len(all) \in Nat
    BY <2>1
  <2>3. SubSeq(all, 1, 0) = <<>>
    BY SubSeqEmpty
  <2>4. l = l0
    BY <1>7, <1>8
  <2>5. /\ l.offset = 0 /\ l.collected = <<>> /\ l.page.asked = FALSE
    BY <2>4, <1>2
  <2>6. l.offset \in 0..Len(all) /\ l.collected = SubSeq(all, 1, l.offset)
    BY <2>2, <2>3, <2>5
  <2> QED BY <2>5, <2>6 DEF Collects, all
<1>9. Listed!ListIsWhole'
  BY <1>4 DEF Listed!ListIsWhole
<1>10. Listed!ListEnds'
  <2>1. l0 \in fetches' /\ ~ l0.cancelled
    BY <1>1, <1>2
  <2>2. \A l \in fetches' : ~ l.cancelled => l.filters = filters' /\ l.collected = list'.rows
    BY <1>2, <1>4, <1>7
  <2> QED BY <2>1, <2>2, <1>4 DEF Listed!ListEnds
<1> QED BY <1>5, <1>6, <1>8, <1>9, <1>10 DEF ListInv

\* A step that leaves the rows, the list and its loops.
LEMMA ListKept ==
  ASSUME ListInv, UNCHANGED <<ledger, filters, list, fetches, moved>>,
         field' = [q |-> field'.q, typed |-> field'.typed], field'.typed \in BOOLEAN, Listed!DraftIsTheFilter'
  PROVE  ListInv'
<1>1. Listed!Filtered(filters)' = Listed!Filtered(filters)
  BY FilteredKept
<1>2. ListShape'
  BY DEF ListInv, ListShape, LoopShape
<1>3. OneLoop'
  BY DEF ListInv, OneLoop
<1>4. \A l \in fetches : ~ l.cancelled /\ ~ moved => Collects(l)'
  BY <1>1 DEF ListInv, Collects, Listed!query
<1>5. Listed!ListIsWhole' /\ Listed!ListEnds'
  BY <1>1 DEF ListInv, Listed!ListIsWhole, Listed!ListEnds
<1> QED BY <1>2, <1>3, <1>4, <1>5 DEF ListInv

\* A row changes.
LEMMA ListMoves ==
  ASSUME ListInv, NEW p, NEW s, Listed!Move(p, s)
  PROVE  ListInv'
<1>1. UNCHANGED <<filters, field, list, fetches>> /\ moved' \in BOOLEAN
  BY DEF Listed!Move
<1>2. ~ moved' => ~ moved /\ Listed!Filtered(filters)' = Listed!Filtered(filters)
  BY DEF Listed!Move
<1>3. ListShape'
  BY <1>1 DEF ListInv, ListShape, LoopShape
<1>4. OneLoop'
  BY <1>1 DEF ListInv, OneLoop
<1>5. \A l \in fetches : ~ l.cancelled /\ ~ moved' => Collects(l)'
  BY <1>1, <1>2 DEF ListInv, Collects, Listed!query
<1>6. Listed!ListIsWhole' /\ Listed!ListEnds' /\ Listed!DraftIsTheFilter'
  BY <1>1, <1>2 DEF ListInv, Listed!ListIsWhole, Listed!ListEnds, Listed!DraftIsTheFilter
<1> QED BY <1>1, <1>3, <1>4, <1>5, <1>6 DEF ListInv

\* A page is answered.
LEMMA ListServed ==
  ASSUME ListInv, NEW l \in fetches, Listed!Serve(l)
  PROVE  ListInv'
<1> DEFINE n == [l EXCEPT !.page = Listed!query(l.filters, l.offset)]
<1>1. /\ fetches' = (fetches \ {l}) \cup {n}
      /\ UNCHANGED <<ledger, filters, field, list, moved>>
  BY DEF Listed!Serve
<1>2. LoopShape(l)
  BY DEF ListInv, ListShape
<1>3. /\ LoopShape(n) /\ n.filters = l.filters /\ n.offset = l.offset /\ n.collected = l.collected
      /\ n.page = Listed!query(l.filters, l.offset) /\ n.cancelled = l.cancelled
  BY <1>2 DEF LoopShape
<1> HIDE DEF n
<1>4. Listed!Filtered(filters)' = Listed!Filtered(filters)
  BY <1>1, FilteredKept
<1>5. ListShape'
  <2>1. \A k \in fetches' : LoopShape(k)'
    BY <1>1, <1>3 DEF ListInv, ListShape, LoopShape
  <2> QED BY <2>1, <1>1 DEF ListInv, ListShape
<1>6. OneLoop'
  <2>1. \A k \in fetches : ~ k.cancelled /\ ~ l.cancelled => k = l
    BY DEF ListInv, OneLoop
  <2>2. \A k, j \in fetches : ~ k.cancelled /\ ~ j.cancelled => k = j
    BY DEF ListInv, OneLoop
  <2> QED BY <2>1, <2>2, <1>1, <1>3 DEF OneLoop
<1>7. \A k \in fetches : ~ k.cancelled => k.filters = filters /\ k.collected = list.rows
  BY ListEndsMeans DEF ListInv
<1>8. ASSUME NEW k \in fetches', ~ k.cancelled, ~ moved PROVE Collects(k)'
  <2>1. CASE k \in fetches
    <3>1. Collects(k)
      BY <2>1, <1>8 DEF ListInv
    <3> QED BY <3>1, <1>1, <1>4 DEF Collects, Listed!query
  <2>2. CASE k = n
    <3>1. Collects(l) /\ l.filters = filters
      BY <2>2, <1>3, <1>7, <1>8 DEF ListInv
    <3>2. k.offset = l.offset /\ k.collected = l.collected /\ k.page = Listed!query(filters, l.offset)
      BY <2>2, <3>1, <1>3
    <3> QED BY <3>1, <3>2, <1>1, <1>4 DEF Collects, Listed!query
  <2> QED BY <2>1, <2>2, <1>1
<1>9. Listed!ListIsWhole' /\ Listed!DraftIsTheFilter'
  BY <1>1, <1>4 DEF ListInv, Listed!ListIsWhole, Listed!DraftIsTheFilter
<1>10. Listed!ListEnds'
  <2>1. (list.loading \/ list.more) <=> \E k \in fetches : ~ k.cancelled
    BY ListEndsMeans DEF ListInv
  <2>2. (\E k \in fetches : ~ k.cancelled) <=> \E k \in fetches' : ~ k.cancelled
    BY <1>1, <1>3
  <2>3. \A k \in fetches' : ~ k.cancelled => k.filters = filters /\ k.collected = list.rows
    BY <1>1, <1>3, <1>7
  <2> QED BY <2>1, <2>2, <2>3, <1>1 DEF Listed!ListEnds
<1> QED BY <1>1, <1>5, <1>6, <1>8, <1>9, <1>10 DEF ListInv

\* A loop ends: with its list whole, failed, or after it was dropped.
LEMMA LoopGone ==
  ASSUME ListInv, NEW l \in fetches, fetches' = fetches \ {l},
         UNCHANGED <<ledger, filters, field, moved>>,
         list' = [rows |-> list'.rows, total |-> list'.total, loading |-> list'.loading, more |-> list'.more, failed |-> list'.failed],
         \/ l.cancelled /\ UNCHANGED list
         \/ /\ ~ l.cancelled /\ list'.loading = FALSE /\ list'.more = FALSE /\ list'.failed \in BOOLEAN
            /\ ~ list'.failed /\ ~ moved =>
                 list'.rows = Listed!Filtered(filters) /\ list'.total = Len(list'.rows)
  PROVE  ListInv'
<1>1. Listed!Filtered(filters)' = Listed!Filtered(filters)
  BY FilteredKept
<1>2. ListShape'
  BY DEF ListInv, ListShape, LoopShape
<1>3. OneLoop'
  BY DEF ListInv, OneLoop
<1>4. \A k \in fetches' : ~ k.cancelled /\ ~ moved => Collects(k)'
  <2>1. \A k \in fetches : ~ k.cancelled /\ ~ moved => Collects(k)
    BY DEF ListInv
  <2> QED BY <1>1, <2>1 DEF Collects, Listed!query
<1>5. Listed!DraftIsTheFilter'
  BY DEF ListInv, Listed!DraftIsTheFilter
<1>6. /\ (list.loading \/ list.more) <=> \E k \in fetches : ~ k.cancelled
      /\ \A k \in fetches : ~ k.cancelled => k.filters = filters /\ k.collected = list.rows
  BY ListEndsMeans DEF ListInv
<1>7. CASE l.cancelled /\ UNCHANGED list
  <2>1. Listed!ListIsWhole'
    BY <1>1, <1>7 DEF ListInv, Listed!ListIsWhole
  <2>2. (\E k \in fetches : ~ k.cancelled) <=> \E k \in fetches' : ~ k.cancelled
    BY <1>7
  <2>3. Listed!ListEnds'
    BY <1>6, <1>7, <2>2 DEF Listed!ListEnds
  <2> QED BY <1>2, <1>3, <1>4, <1>5, <2>1, <2>3 DEF ListInv
<1>8. CASE ~ l.cancelled
  <2>1. Listed!ListIsWhole'
    BY <1>1, <1>8 DEF Listed!ListIsWhole
  <2>2. \A k \in fetches' : k.cancelled
    BY <1>8 DEF ListInv, OneLoop, ListShape, LoopShape
  <2>3. Listed!ListEnds'
    BY <1>8, <2>2 DEF Listed!ListEnds
  <2> QED BY <1>2, <1>3, <1>4, <1>5, <2>1, <2>3 DEF ListInv
<1> QED BY <1>7, <1>8

\* A page comes to its loop.
LEMMA ListArrives ==
  ASSUME ControlAssumption, ListInv, NEW l \in fetches, Listed!Arrive(l)
  PROVE  ListInv'
<1> DEFINE all  == l.collected \o l.page.items
           next == l.offset + PageSize
           done == l.page.items = <<>> \/ next >= l.page.total
           F    == Listed!Filtered(filters)
           n    == [l EXCEPT !.offset = next, !.collected = all, !.page = Listed!NoPage]
<1>1. l.page.asked /\ UNCHANGED <<ledger, filters, field, moved>>
  BY DEF Listed!Arrive
<1>2. CASE l.cancelled
  <2>1. fetches' = fetches \ {l} /\ UNCHANGED list
    BY <1>2 DEF Listed!Arrive
  <2>2. list = [rows |-> list.rows, total |-> list.total, loading |-> list.loading, more |-> list.more, failed |-> list.failed]
    BY DEF ListInv, ListShape
  <2> QED BY <1>1, <1>2, <2>1, <2>2, LoopGone
<1>3. CASE ~ l.cancelled
  <2>1. /\ list' = [rows |-> all, total |-> l.page.total, loading |-> FALSE, more |-> ~ done, failed |-> FALSE]
        /\ fetches' = (fetches \ {l}) \cup (IF done THEN {} ELSE {n})
    BY <1>3 DEF Listed!Arrive
  <2>2. PICK S : F \in Seq(S)
    BY FilteredIsAList
  <2>3. ASSUME ~ moved
        PROVE  /\ l.offset \in 0..Len(F) /\ l.collected = SubSeq(F, 1, l.offset)
               /\ l.page.items = Listed!Page(F, l.offset) /\ l.page.total = Len(F)
    <3>1. Collects(l) /\ l.page = Listed!query(filters, l.offset)
      BY <1>1, <1>3, <2>3 DEF ListInv, Collects
    <3> QED BY <3>1 DEF Collects, Listed!query
  <2>4. ASSUME ~ moved, done PROVE all = F /\ l.page.total = Len(F)
    BY <2>2, <2>3, <2>4, PagesFollow DEF ControlAssumption
  <2>5. ASSUME ~ moved, ~ done PROVE next \in 0..Len(F) /\ all = SubSeq(F, 1, next)
    <3>1. l.offset \in 0..Len(F) /\ ~ (next >= Len(F))
      BY <2>3, <2>5
    <3>2. Len(F) \in Nat /\ next \in Nat /\ next < Len(F) /\ next \in 0..Len(F)
      BY <2>2, <3>1 DEF ControlAssumption
    <3>3. SubSeq(F, 1, l.offset) \o Listed!Page(F, l.offset) = SubSeq(F, 1, next)
      BY <2>2, <3>1, <3>2, PagesFollow DEF ControlAssumption
    <3>4. all = SubSeq(F, 1, l.offset) \o Listed!Page(F, l.offset)
      BY <2>3, <2>5
    <3> QED BY <3>2, <3>3, <3>4
  <2>6. LoopShape(l)
    BY DEF ListInv, ListShape
  <2>7. /\ LoopShape(n) /\ n.filters = l.filters /\ n.offset = next /\ n.collected = all
        /\ n.page.asked = FALSE /\ n.cancelled = l.cancelled
    <3>1. n = [filters |-> l.filters, offset |-> next, collected |-> all, page |-> Listed!NoPage, cancelled |-> l.cancelled]
      BY <2>6, LoopGoesOn, Zenon
    <3> HIDE DEF n
    <3>2. LoopShape(n) /\ n.filters = l.filters /\ n.offset = next /\ n.collected = all /\ n.page = Listed!NoPage /\ n.cancelled = l.cancelled
      BY <2>6, <3>1 DEF LoopShape
    <3>3. Listed!NoPage.asked = FALSE
      BY DEF Listed!NoPage
    <3> QED BY <3>2, <3>3
  <2>8. done \in BOOLEAN
    OBVIOUS
  <2> HIDE DEF all, next, done, F, n
  <2>9. /\ list'.rows = all /\ list'.total = l.page.total /\ list'.loading = FALSE /\ list'.more = ~ done
        /\ list'.failed = FALSE
        /\ list' = [rows |-> list'.rows, total |-> list'.total, loading |-> list'.loading, more |-> list'.more, failed |-> list'.failed]
    BY <2>1
  <2>10. CASE done
    <3>1. fetches' = fetches \ {l} /\ list'.more = FALSE
      BY <2>1, <2>9, <2>10
    <3>2. ~ moved => list'.rows = Listed!Filtered(filters) /\ list'.total = Len(list'.rows)
      BY <2>4, <2>9, <2>10 DEF F
    <3> QED BY <1>1, <1>3, <2>9, <3>1, <3>2, LoopGone
  <2>11. CASE ~ done
    <3>1. fetches' = (fetches \ {l}) \cup {n} /\ list'.more = TRUE
      BY <2>1, <2>9, <2>11
    <3>2. \A k \in fetches \ {l} : k.cancelled
      BY <1>3 DEF ListInv, OneLoop, ListShape, LoopShape
    <3>3. Listed!Filtered(filters)' = F
      BY <1>1, FilteredKept DEF F
    <3>4. ListShape'
      <4>1. \A k \in fetches' : LoopShape(k)'
        BY <2>7, <3>1 DEF ListInv, ListShape, LoopShape
      <4> QED BY <4>1, <1>1, <2>9, <3>1 DEF ListInv, ListShape
    <3>5. \A k \in fetches' : ~ k.cancelled => k = n
      BY <3>1, <3>2
    <3>6. OneLoop'
      BY <3>5 DEF OneLoop
    <3>7. ~ moved => Collects(n)'
      BY <1>1, <2>5, <2>7, <2>11, <3>3 DEF Collects
    <3>8. Listed!ListIsWhole' /\ Listed!DraftIsTheFilter'
      BY <1>1, <3>1 DEF ListInv, Listed!ListIsWhole, Listed!DraftIsTheFilter
    <3>9. Listed!ListEnds'
      <4>1. n \in fetches' /\ ~ n.cancelled
        BY <1>3, <2>7, <3>1
      <4>2. l.filters = filters
        BY <1>3, ListEndsMeans DEF ListInv
      <4>3. \A k \in fetches' : ~ k.cancelled => k.filters = filters' /\ k.collected = list'.rows
        BY <1>1, <2>7, <2>9, <3>5, <4>2
      <4> QED BY <3>1, <4>1, <4>3 DEF Listed!ListEnds
    <3> QED BY <1>1, <3>4, <3>5, <3>6, <3>7, <3>8, <3>9 DEF ListInv
  <2> QED BY <2>10, <2>11
<1> QED BY <1>2, <1>3

LEMMA ListFails ==
  ASSUME ListInv, NEW l \in fetches, Listed!Fail(l)
  PROVE  ListInv'
<1>1. list = [rows |-> list.rows, total |-> list.total, loading |-> list.loading, more |-> list.more, failed |-> list.failed]
  BY DEF ListInv, ListShape
<1>2. fetches' = fetches \ {l} /\ UNCHANGED <<ledger, filters, field, moved>>
  BY DEF Listed!Fail
<1>3. CASE l.cancelled
  <2>1. UNCHANGED list
    BY <1>3 DEF Listed!Fail
  <2> QED BY <1>1, <1>2, <1>3, <2>1, LoopGone
<1>4. CASE ~ l.cancelled
  <2>1. list' = [rows |-> list.rows, total |-> list.total, loading |-> FALSE, more |-> FALSE, failed |-> TRUE]
    <3>1. list' = [list EXCEPT !.loading = FALSE, !.more = FALSE, !.failed = TRUE]
      BY <1>4 DEF Listed!Fail
    <3> QED BY <1>1, <3>1
  <2>2. /\ list' = [rows |-> list'.rows, total |-> list'.total, loading |-> list'.loading, more |-> list'.more, failed |-> list'.failed]
        /\ list'.loading = FALSE /\ list'.more = FALSE /\ list'.failed = TRUE
    BY <2>1
  <2> QED BY <1>2, <1>4, <2>2, LoopGone
<1> QED BY <1>3, <1>4

\* Other filters, or the same: the field follows.
LEMMA ListNavigates ==
  ASSUME ControlAssumption, ListInv, NEW f, f = [state |-> f.state, q |-> f.q], Listed!Navigate(f),
         field' = [q |-> field'.q, typed |-> field'.typed], field'.typed \in BOOLEAN,
         ~ field'.typed => field'.q = f.q
  PROVE  ListInv'
<1>1. filters' = f /\ UNCHANGED ledger /\ Listed!DraftIsTheFilter'
  BY DEF Listed!Navigate, Listed!DraftIsTheFilter
<1>2. CASE f = filters
  <2>1. UNCHANGED <<list, fetches, moved>>
    BY <1>2 DEF Listed!Navigate
  <2> QED BY <1>1, <1>2, <2>1, ListKept
<1>3. CASE f # filters
  <2>1. Listed!Reload(filters')
    BY <1>1, <1>3 DEF Listed!Navigate
  <2> QED BY <1>1, <2>1, ListReloaded
<1> QED BY <1>2, <1>3

LEMMA FieldFollows ==
  ASSUME ListInv, NEW f
  PROVE  LET new == Listed!Resync(f) IN
         /\ new = [q |-> new.q, typed |-> new.typed] /\ new.typed \in BOOLEAN
         /\ ~ new.typed => new.q = f.q
<1>1. /\ field = [q |-> field.q, typed |-> field.typed] /\ field.typed \in BOOLEAN
      /\ ~ field.typed => field.q = filters.q
  BY DEF ListInv, ListShape, Listed!DraftIsTheFilter
<1>2. CASE f.q = filters.q
  BY <1>1, <1>2 DEF Listed!Resync
<1>3. CASE f.q # filters.q
  BY <1>3 DEF Listed!Resync
<1> QED BY <1>2, <1>3

\* What the operator does.
LEMMA ListIsDriven ==
  ASSUME ControlAssumption, ListInv,
         \/ (\E s : Listed!SetState(s)) \/ (\E s, q : Listed!FollowLink([state |-> s, q |-> q]))
         \/ (\E q : Listed!Type(q))
         \/ Listed!Apply \/ Listed!Retry
  PROVE  ListInv'
<1>0. /\ filters = [state |-> filters.state, q |-> filters.q]
      /\ field = [q |-> field.q, typed |-> field.typed] /\ Listed!DraftIsTheFilter /\ field.typed \in BOOLEAN
  BY DEF ListInv, ListShape
<1>1. ASSUME NEW s, Listed!SetState(s) PROVE ListInv'
  <2> DEFINE f == [filters EXCEPT !.state = s]
  <2>1. f = [state |-> s, q |-> filters.q]
    BY <1>0
  <2>2. Listed!Navigate(f) /\ field' = Listed!Resync(f)
    BY <1>1 DEF Listed!SetState
  <2> HIDE DEF f
  <2>3. f = [state |-> f.state, q |-> f.q]
    BY <2>1
  <2> QED BY <2>2, <2>3, FieldFollows, ListNavigates
<1>2. ASSUME NEW s, NEW q, Listed!FollowLink([state |-> s, q |-> q]) PROVE ListInv'
  <2> DEFINE f == [state |-> s, q |-> q]
  <2>1. f = [state |-> f.state, q |-> f.q]
    OBVIOUS
  <2>2. Listed!Navigate(f) /\ field' = Listed!Resync(f)
    BY <1>2 DEF Listed!FollowLink
  <2> HIDE DEF f
  <2> QED BY <2>1, <2>2, FieldFollows, ListNavigates
<1>3. ASSUME NEW q, Listed!Type(q) PROVE ListInv'
  <2>1. field' = [q |-> q, typed |-> TRUE] /\ UNCHANGED <<ledger, filters, list, fetches, moved>>
    BY <1>3 DEF Listed!Type
  <2>2. field' = [q |-> field'.q, typed |-> field'.typed] /\ field'.typed = TRUE
    BY <2>1
  <2>3. Listed!DraftIsTheFilter'
    BY <2>2 DEF Listed!DraftIsTheFilter
  <2> QED BY <2>1, <2>2, <2>3, ListKept
<1>4. ASSUME Listed!Apply PROVE ListInv'
  <2> DEFINE f == [filters EXCEPT !.q = field.q]
             new == Listed!Resync(f)
  <2>1. f = [state |-> filters.state, q |-> field.q]
    BY <1>0
  <2>2. Listed!Navigate(f) /\ field' = [new EXCEPT !.typed = FALSE]
    BY <1>4 DEF Listed!Apply
  <2> HIDE DEF f
  <2>3. f = [state |-> f.state, q |-> f.q] /\ f.q = field.q
    BY <2>1
  <2>4. new.q = f.q
    BY <2>3 DEF Listed!Resync
  <2>5. new = [q |-> new.q, typed |-> new.typed]
    BY FieldFollows
  <2> HIDE DEF new
  <2>6. field' = [q |-> new.q, typed |-> FALSE]
    BY <2>2, <2>5
  <2>7. field' = [q |-> field'.q, typed |-> field'.typed] /\ field'.typed = FALSE /\ field'.q = f.q
    BY <2>4, <2>6
  <2> QED BY <2>2, <2>3, <2>7, ListNavigates
<1>5. ASSUME Listed!Retry PROVE ListInv'
  <2>1. Listed!Reload(filters) /\ UNCHANGED <<ledger, filters, field>>
    BY <1>5 DEF Listed!Retry
  <2>2. Listed!Reload(filters') /\ Listed!DraftIsTheFilter'
    BY <1>0, <2>1 DEF Listed!DraftIsTheFilter
  <2> QED BY <1>0, <2>1, <2>2, ListReloaded
<1> QED BY <1>1, <1>2, <1>3, <1>4, <1>5

LEMMA ListInitial == ControlAssumption /\ Listed!ListInit => ListInv
<1> SUFFICES ASSUME ControlAssumption, Listed!ListInit PROVE ListInv
  OBVIOUS
<1>1. /\ filters = [state |-> Listed!Unset, q |-> Listed!Unset] /\ field = [q |-> Listed!Unset, typed |-> FALSE]
      /\ list = Listed!Empty /\ fetches = {Listed!Fetch(filters)} /\ moved = FALSE
  BY DEF Listed!ListInit
<1> DEFINE l0 == Listed!Fetch(filters)
<1>2. /\ LoopShape(l0) /\ l0.filters = filters /\ l0.offset = 0 /\ l0.collected = <<>>
      /\ l0.page.asked = FALSE /\ l0.cancelled = FALSE
  BY DEF Listed!Fetch, LoopShape, Listed!NoPage
<1>3. /\ list = [rows |-> list.rows, total |-> list.total, loading |-> list.loading, more |-> list.more, failed |-> list.failed]
      /\ list.rows = <<>> /\ list.loading = TRUE /\ list.more = FALSE /\ list.failed = FALSE
  BY <1>1 DEF Listed!Empty
<1> HIDE DEF l0
<1>4. fetches = {l0}
  BY <1>1 DEF l0
<1>5. ListShape /\ OneLoop
  BY <1>1, <1>2, <1>3, <1>4 DEF ListShape, OneLoop
<1>6. Collects(l0)
  <2> DEFINE all == Listed!Filtered(filters)
  <2>1. PICK S : all \in Seq(S)
    BY FilteredIsAList
  <2> HIDE DEF all
  <2>2. Len(all) \in Nat /\ SubSeq(all, 1, 0) = <<>>
    BY <2>1, SubSeqEmpty
  <2> QED BY <2>2, <1>2 DEF Collects, all
<1>7. Listed!ListIsWhole /\ Listed!DraftIsTheFilter
  BY <1>1, <1>3 DEF Listed!ListIsWhole, Listed!DraftIsTheFilter
<1>8. Listed!ListEnds
  BY <1>2, <1>3, <1>4, ListEndsMeans
<1> QED BY <1>4, <1>5, <1>6, <1>7, <1>8 DEF ListInv

LEMMA ListStep ==
  ASSUME ControlAssumption, ListInv, [Listed!ListNext]_listVars
  PROVE  ListInv'
<1>1. CASE UNCHANGED listVars
  BY <1>1, ListKept DEF listVars, ListInv, ListShape, Listed!DraftIsTheFilter
<1>2. CASE \E p \in Paths, s \in States \cup {Listed!Absent} : Listed!Move(p, s)
  BY <1>2, ListMoves
<1>3. CASE \E l \in fetches : Listed!Serve(l) \/ Listed!Arrive(l) \/ Listed!Fail(l)
  BY <1>3, ListServed, ListArrives, ListFails
<1>4. CASE \/ \E s \in States \cup {Listed!Unset} : Listed!SetState(s)
           \/ \E s \in States \cup {Listed!Unset}, q \in Searches \cup {Listed!Unset} :
                Listed!FollowLink([state |-> s, q |-> q])
           \/ \E q \in Searches \cup {Listed!Unset} : Listed!Type(q)
           \/ Listed!Apply \/ Listed!Retry
  BY <1>4, ListIsDriven
<1> QED BY <1>1, <1>2, <1>3, <1>4 DEF Listed!ListNext

\* A file is deleted only while no worker has it, whole or not at all, and a delete that
\* failed leaves it in the queue; the panel shows one file, however late it is answered
\* (FilePanel: routes/files.ts, FileDetail.tsx).  The list holds all that its filters take,
\* page by page, if nothing came between, and stops asking when it does (FileList: Files.tsx).
THEOREM FilesTold == ControlSpec => []FilesAreTold
<1>1. ControlInit => DeletesInv /\ PanelInv /\ ListInv
  BY ControlAssumption, DeletesInitial, PanelInitial, ListInitial DEF ControlInit
<1>2. DeletesInv /\ PanelInv /\ ListInv /\ [ControlNext]_controlVars => DeletesInv' /\ PanelInv' /\ ListInv'
  <2> SUFFICES ASSUME DeletesInv, PanelInv, ListInv, [ControlNext]_controlVars
               PROVE  DeletesInv' /\ PanelInv' /\ ListInv'
    OBVIOUS
  <2>1. [Panel!PanelNext]_panelVars /\ [Listed!ListNext]_listVars
    BY ControlSteps
  <2> QED BY <2>1, ControlAssumption, PanelStep, ListStep
<1>3. DeletesInv /\ PanelInv /\ ListInv => FilesAreTold
  <2> SUFFICES ASSUME DeletesInv, PanelInv, ListInv PROVE FilesAreTold
    OBVIOUS
  <2>1. Panel!DeletedWhileFree
    BY DEF Panel!DeletedWhileFree, DeletesInv, DeleteIsGuarded, Guarded
  <2>2. Panel!HistoryGoesWithTheFile /\ Panel!NothingStaysParked /\ Panel!PanelIsOfOneFile
    BY DEF DeletesInv, PanelInv
  <2>3. Listed!ListIsWhole /\ Listed!ListEnds /\ Listed!DraftIsTheFilter
    BY DEF ListInv
  <2> QED BY <2>1, <2>2, <2>3 DEF FilesAreTold
<1> QED BY <1>1, <1>2, <1>3, PTL DEF ControlSpec

-----------------------------------------------------------------------------
(* The stored settings (Settings).                                         *)

ScheduleGroup == <<"timezone", "counts", "windows">>
AuthGroup     == <<"enabled", "issuer">>
PathsGroup    == <<"paths">>

LEMMA GroupKeys ==
  /\ Stored!ToSet(ScheduleGroup) = {"timezone", "counts", "windows"}
  /\ Stored!ToSet(AuthGroup) = {"enabled", "issuer"}
  /\ Stored!ToSet(PathsGroup) = {"paths"}
  /\ Stored!Groups = {ScheduleGroup, AuthGroup, PathsGroup}
<1>1. Stored!ToSet(ScheduleGroup) = {"timezone", "counts", "windows"}
  BY DEF Stored!ToSet, ScheduleGroup
<1>2. Stored!ToSet(AuthGroup) = {"enabled", "issuer"}
  BY DEF Stored!ToSet, AuthGroup
<1>3. Stored!ToSet(PathsGroup) = {"paths"}
  BY DEF Stored!ToSet, PathsGroup
<1> QED BY <1>1, <1>2, <1>3 DEF Stored!Groups, ScheduleGroup, AuthGroup, PathsGroup

SettingKeys == {"timezone", "counts", "windows", "enabled", "issuer", "paths"}

LEMMA KeysAre == Stored!Keys = SettingKeys
<1>1. Stored!Keys = UNION {Stored!ToSet(g) : g \in {ScheduleGroup, AuthGroup, PathsGroup}}
  BY GroupKeys DEF Stored!Keys
<1>2. @ = Stored!ToSet(ScheduleGroup) \cup Stored!ToSet(AuthGroup) \cup Stored!ToSet(PathsGroup)
  OBVIOUS
<1> QED BY <1>1, <1>2, GroupKeys DEF SettingKeys

LEMMA GroupsOfKeys ==
  /\ \A k \in {"timezone", "counts", "windows"} : Stored!Group(k) = ScheduleGroup
  /\ \A k \in {"enabled", "issuer"} : Stored!Group(k) = AuthGroup
  /\ Stored!Group("paths") = PathsGroup
<1>1. ASSUME NEW k \in {"timezone", "counts", "windows"} PROVE Stored!Group(k) = ScheduleGroup
  <2>1. \A g \in Stored!Groups : k \in Stored!ToSet(g) <=> g = ScheduleGroup
    BY GroupKeys
  <2> QED BY <2>1, GroupKeys DEF Stored!Group
<1>2. ASSUME NEW k \in {"enabled", "issuer"} PROVE Stored!Group(k) = AuthGroup
  <2>1. \A g \in Stored!Groups : k \in Stored!ToSet(g) <=> g = AuthGroup
    BY GroupKeys
  <2> QED BY <2>1, GroupKeys DEF Stored!Group
<1>3. Stored!Group("paths") = PathsGroup
  <2>1. \A g \in Stored!Groups : "paths" \in Stored!ToSet(g) <=> g = PathsGroup
    BY GroupKeys
  <2> QED BY <2>1, GroupKeys DEF Stored!Group
<1> QED BY <1>1, <1>2, <1>3

LEMMA GroupIsSeq == \A g \in Stored!Groups : g \in Seq(SettingKeys)
<1>1. ASSUME NEW S, NEW a \in S, NEW b \in S, NEW c \in S
      PROVE  <<a, b, c>> \in Seq(S) /\ <<a, b>> \in Seq(S) /\ <<a>> \in Seq(S)
  OBVIOUS
<1> QED BY <1>1, GroupKeys DEF SettingKeys, ScheduleGroup, AuthGroup, PathsGroup

\* The first n rows of a group.
LEMMA WholeGroup ==
  ASSUME NEW g \in Stored!Groups
  PROVE  Stored!ToSet(SubSeq(g, 1, Len(g))) = Stored!ToSet(g)
BY GroupIsSeq, SubSeqFull

\* The values of a key, and the row it may have.
KeyValues == [timezone |-> {"UTC", "paris"}, counts |-> 0..2, windows |-> SUBSET {"night"},
              enabled |-> BOOLEAN, issuer |-> {"", "idp"}, paths |-> {"", "map"}]
IsRow(k, v) == v = <<>> \/ \E x \in KeyValues[k] : v = <<x>>
AreRows(r)  == \A k \in SettingKeys : IsRow(k, r[k])
AreValues(v) == \A k \in SettingKeys : v[k] \in KeyValues[k]

LEMMA DefaultsAreValues == AreValues(Stored!Default)
<1>1. ASSUME NEW k \in SettingKeys PROVE Stored!Default[k] \in KeyValues[k]
  <2>1. k = "timezone" \/ k = "counts" \/ k = "windows" \/ k = "enabled" \/ k = "issuer" \/ k = "paths"
    BY DEF SettingKeys
  <2>2. CASE k = "timezone"
    BY <2>2 DEF Stored!Default, KeyValues
  <2>3. CASE k = "counts"
    BY <2>3 DEF Stored!Default, KeyValues
  <2>4. CASE k = "windows"
    BY <2>4 DEF Stored!Default, KeyValues
  <2>5. CASE k = "enabled"
    BY <2>5 DEF Stored!Default, KeyValues
  <2>6. CASE k = "issuer"
    BY <2>6 DEF Stored!Default, KeyValues
  <2>7. CASE k = "paths"
    BY <2>7 DEF Stored!Default, KeyValues
  <2> QED BY <2>1, <2>2, <2>3, <2>4, <2>5, <2>6, <2>7
<1> QED BY <1>1 DEF AreValues

LEMMA ValueOfRow ==
  ASSUME NEW r, NEW k, NEW x, r[k] = <<x>>
  PROVE  Stored!Value(r, k) = x
BY DEF Stored!Value, Stored!Unset

LEMMA RowValue ==
  ASSUME NEW r, AreRows(r), NEW k \in SettingKeys
  PROVE  /\ Stored!Value(r, k) \in KeyValues[k]
         /\ r[k] # <<>> => r[k] = <<Stored!Value(r, k)>>
         /\ r[k] = <<>> => Stored!Value(r, k) = Stored!Default[k]
<1>1. CASE r[k] = <<>>
  BY <1>1, DefaultsAreValues DEF AreValues, Stored!Value, Stored!Unset
<1>2. ASSUME r[k] # <<>> PROVE r[k][1] \in KeyValues[k] /\ r[k] = <<r[k][1]>> /\ Stored!Value(r, k) = r[k][1]
  <2>1. PICK x \in KeyValues[k] : r[k] = <<x>>
    BY <1>2 DEF AreRows, IsRow
  <2>2. r[k][1] = x
    BY <2>1
  <2> QED BY <2>1, <2>2, <1>2 DEF Stored!Value, Stored!Unset
<1> QED BY <1>1, <1>2

\* What a patch makes of the rows of its group, the first n of which are written.
FitsItsKeys(patch) == \A j \in SettingKeys : j \in DOMAIN patch => patch[j] \in KeyValues[j]

GroupWritten(q, r, g, patch, n) ==
  \A k \in SettingKeys :
    /\ IsRow(k, q[k])
    /\ k \notin DOMAIN patch => Stored!Value(q, k) = Stored!Value(r, k)
    /\ k \notin DOMAIN patch /\ r[k] # <<>> => q[k] = r[k]
    /\ Stored!Value(q, k) = Stored!Value(r, k) \/ (k \in DOMAIN patch /\ Stored!Value(q, k) = patch[k])
    /\ k \notin Stored!ToSet(SubSeq(g, 1, n)) => q[k] = r[k]
    /\ k \in Stored!ToSet(SubSeq(g, 1, n)) /\ k \in DOMAIN patch => q[k] = <<patch[k]>>

LEMMA WrittenRows ==
  ASSUME NEW r, AreRows(r), NEW patch, FitsItsKeys(patch), NEW g, NEW n
  PROVE  GroupWritten(Stored!Written(r, g, patch, n), r, g, patch, n)
<1> DEFINE q == Stored!Written(r, g, patch, n)
<1> SUFFICES ASSUME NEW k \in SettingKeys
             PROVE  /\ IsRow(k, q[k])
                    /\ k \notin DOMAIN patch => Stored!Value(q, k) = Stored!Value(r, k)
                    /\ k \notin DOMAIN patch /\ r[k] # <<>> => q[k] = r[k]
                    /\ \/ Stored!Value(q, k) = Stored!Value(r, k)
                       \/ k \in DOMAIN patch /\ Stored!Value(q, k) = patch[k]
                    /\ k \notin Stored!ToSet(SubSeq(g, 1, n)) => q[k] = r[k]
                    /\ k \in Stored!ToSet(SubSeq(g, 1, n)) /\ k \in DOMAIN patch => q[k] = <<patch[k]>>
  BY DEF GroupWritten
<1> DEFINE v == Stored!Patched(r, patch)[k]
<1>1. q[k] = IF k \in Stored!ToSet(SubSeq(g, 1, n)) THEN <<v>> ELSE r[k]
  BY KeysAre DEF Stored!Written
<1>2. v = IF k \in DOMAIN patch THEN patch[k] ELSE Stored!Value(r, k)
  BY KeysAre DEF Stored!Patched
<1>3. v \in KeyValues[k]
  BY <1>2, RowValue DEF FitsItsKeys
<1>4. CASE k \notin Stored!ToSet(SubSeq(g, 1, n))
  <2>1. q[k] = r[k]
    BY <1>1, <1>4
  <2> HIDE DEF q, v
  <2> QED BY <2>1, <1>4 DEF AreRows, Stored!Value, q
<1>5. CASE k \in Stored!ToSet(SubSeq(g, 1, n))
  <2>1. q[k] = <<v>>
    BY <1>1, <1>5
  <2>2. Stored!Value(q, k) = v
    BY <2>1 DEF Stored!Value, Stored!Unset
  <2>3. IsRow(k, q[k])
    BY <2>1, <1>3 DEF IsRow
  <2>4. r[k] # <<>> => r[k] = <<Stored!Value(r, k)>>
    BY RowValue
  <2> HIDE DEF q, v
  <2> QED BY <2>1, <2>2, <2>3, <2>4, <1>2, <1>5 DEF q
<1> QED BY <1>4, <1>5

-----------------------------------------------------------------------------
(* The seeds of the environment.                                           *)

\* The rows after each of the seeds.
FirstSeeded(e)  == Stored!Seeded(e, setting, setting, "timezone")
SecondSeeded(e) == Stored!Seeded(e, setting, FirstSeeded(e), "counts")
ThirdSeeded(e)  == Stored!Seeded(e, setting, SecondSeeded(e), "issuer")
FourthSeeded(e) == Stored!Seeded(e, setting, ThirdSeeded(e), "enabled")

LEMMA SeedsUnrolled ==
  ASSUME NEW e
  PROVE  /\ Stored!SeededUpTo(e, 0) = setting
         /\ Stored!SeededUpTo(e, 1) = FirstSeeded(e)
         /\ Stored!SeededUpTo(e, 2) = SecondSeeded(e)
         /\ Stored!SeededUpTo(e, 3) = ThirdSeeded(e)
         /\ Stored!SeededUpTo(e, 4) = FourthSeeded(e)
<1> DEFINE Step(f, m) == IF m = 0 THEN setting ELSE Stored!Seeded(e, setting, f[m - 1], Stored!Seeds[m])
           steps == CHOOSE f : f = [m \in 0..Len(Stored!Seeds) |-> Step(f, m)]
           known == [m \in 0..4 |-> IF m = 0 THEN setting ELSE IF m = 1 THEN FirstSeeded(e)
                                    ELSE IF m = 2 THEN SecondSeeded(e) ELSE IF m = 3 THEN ThirdSeeded(e)
                                    ELSE FourthSeeded(e)]
<1>1. Len(Stored!Seeds) = 4 /\ Stored!Seeds[1] = "timezone" /\ Stored!Seeds[2] = "counts"
      /\ Stored!Seeds[3] = "issuer" /\ Stored!Seeds[4] = "enabled"
  BY DEF Stored!Seeds
<1>2. \A n : Stored!SeededUpTo(e, n) = steps[n]
  BY DEF Stored!SeededUpTo
<1>3. \A m \in 0..4 : known[m] = Step(known, m)
  <2>1. \A m \in 0..4 : m = 0 \/ m = 1 \/ m = 2 \/ m = 3 \/ m = 4
    OBVIOUS
  <2>2. /\ known[0] = setting /\ known[1] = FirstSeeded(e) /\ known[2] = SecondSeeded(e)
        /\ known[3] = ThirdSeeded(e) /\ known[4] = FourthSeeded(e)
    OBVIOUS
  <2> HIDE DEF known
  <2> QED BY <2>1, <2>2, <1>1 DEF FirstSeeded, SecondSeeded, ThirdSeeded, FourthSeeded
<1>4. known = [m \in 0..Len(Stored!Seeds) |-> Step(known, m)]
  <2>1. known = [m \in 0..4 |-> known[m]]
    OBVIOUS
  <2> HIDE DEF known
  <2> QED BY <2>1, <1>1, <1>3
<1>5. steps = [m \in 0..Len(Stored!Seeds) |-> Step(steps, m)]
  <2> HIDE DEF known, Step
  <2> QED BY <1>4
<1>6. \A m \in 0..4 : steps[m] = Step(steps, m)
  <2> HIDE DEF steps, Step
  <2> QED BY <1>5, <1>1
<1> HIDE DEF steps
<1>7. steps[0] = setting /\ steps[1] = Stored!Seeded(e, setting, steps[0], "timezone")
      /\ steps[2] = Stored!Seeded(e, setting, steps[1], "counts")
      /\ steps[3] = Stored!Seeded(e, setting, steps[2], "issuer")
      /\ steps[4] = Stored!Seeded(e, setting, steps[3], "enabled")
  BY <1>6, <1>1
<1> QED BY <1>7, <1>2 DEF FirstSeeded, SecondSeeded, ThirdSeeded, FourthSeeded

SeedKeys == {"timezone", "counts", "issuer", "enabled"}

LEMMA ValidIs ==
  ASSUME NEW v
  PROVE  /\ Stored!Valid(v, ScheduleGroup) <=> v["timezone"] # "nowhere"
         /\ Stored!Valid(v, AuthGroup) <=> (v["enabled"] => v["issuer"] # "")
         /\ Stored!Valid(v, PathsGroup)
<1>1. "enabled" \notin Stored!ToSet(ScheduleGroup) /\ "timezone" \in Stored!ToSet(ScheduleGroup)
  BY GroupKeys
<1>2. "timezone" \notin Stored!ToSet(AuthGroup) /\ "enabled" \in Stored!ToSet(AuthGroup)
  BY GroupKeys
<1>3. "timezone" \notin Stored!ToSet(PathsGroup) /\ "enabled" \notin Stored!ToSet(PathsGroup)
  BY GroupKeys
<1> QED BY <1>1, <1>2, <1>3 DEF Stored!Valid

LEMMA PatchIsValid ==
  ASSUME NEW r, NEW v
  PROVE  /\ Stored!Valid(Stored!Patched(r, Stored!Only("timezone", v)), ScheduleGroup) <=> v # "nowhere"
         /\ Stored!Valid(Stored!Patched(r, Stored!Only("counts", v)), ScheduleGroup)
              <=> Stored!Value(r, "timezone") # "nowhere"
         /\ Stored!Valid(Stored!Patched(r, Stored!Only("issuer", v)), AuthGroup)
              <=> (Stored!Value(r, "enabled") => v # "")
         /\ Stored!Valid(Stored!Patched(r, Stored!Only("enabled", v)), AuthGroup)
              <=> (v => Stored!Value(r, "issuer") # "")
<1>1. \A k, j \in SettingKeys :
        Stored!Patched(r, Stored!Only(k, v))[j] = IF j = k THEN v ELSE Stored!Value(r, j)
  BY KeysAre DEF Stored!Patched, Stored!Only
<1>2. "timezone" \in SettingKeys /\ "counts" \in SettingKeys /\ "issuer" \in SettingKeys /\ "enabled" \in SettingKeys
  BY DEF SettingKeys
<1>3. Stored!Patched(r, Stored!Only("timezone", v))["timezone"] = v
  BY <1>1, <1>2
<1>4. Stored!Patched(r, Stored!Only("counts", v))["timezone"] = Stored!Value(r, "timezone")
  BY <1>1, <1>2
<1>5. /\ Stored!Patched(r, Stored!Only("issuer", v))["enabled"] = Stored!Value(r, "enabled")
      /\ Stored!Patched(r, Stored!Only("issuer", v))["issuer"] = v
  BY <1>1, <1>2
<1>6. /\ Stored!Patched(r, Stored!Only("enabled", v))["issuer"] = Stored!Value(r, "issuer")
      /\ Stored!Patched(r, Stored!Only("enabled", v))["enabled"] = v
  BY <1>1, <1>2
<1> QED BY <1>3, <1>4, <1>5, <1>6, ValidIs

LEMMA SeedIs ==
  ASSUME NEW e \in Seedings, NEW k \in SeedKeys, e[k] # <<>>
  PROVE  /\ e[k] = <<e[k][1]>>
         /\ e[k][1] \in KeyValues[k] \/ (k = "timezone" /\ e[k][1] = "nowhere")
<1>1. e \in [timezone : Optional({"UTC", "paris", "nowhere"}), counts : Optional(0..2),
             issuer : Optional({"", "idp"}), enabled : Optional(BOOLEAN)]
  BY ControlAssumption DEF NoText
<1>2. ASSUME NEW S, e[k] \in Optional(S) PROVE e[k] = <<e[k][1]>> /\ e[k][1] \in S
  <2>1. PICK x \in S : e[k] = <<x>>
    BY <1>2 DEF Optional
  <2>2. <<x>>[1] = x
    OBVIOUS
  <2> QED BY <2>1, <2>2
<1>3. CASE k = "timezone"
  <2>1. e[k] \in Optional({"UTC", "paris", "nowhere"})
    BY <1>1, <1>3
  <2>2. KeyValues[k] = {"UTC", "paris"}
    BY <1>3 DEF KeyValues
  <2> QED BY <2>1, <2>2, <1>2, <1>3
<1>4. CASE k = "counts"
  <2>1. e[k] \in Optional(0..2)
    BY <1>1, <1>4
  <2>2. KeyValues[k] = 0..2
    BY <1>4 DEF KeyValues
  <2> QED BY <2>1, <2>2, <1>2
<1>5. CASE k = "issuer"
  <2>1. e[k] \in Optional({"", "idp"})
    BY <1>1, <1>5
  <2>2. KeyValues[k] = {"", "idp"}
    BY <1>5 DEF KeyValues
  <2> QED BY <2>1, <2>2, <1>2
<1>6. CASE k = "enabled"
  <2>1. e[k] \in Optional(BOOLEAN)
    BY <1>1, <1>6
  <2>2. KeyValues[k] = BOOLEAN
    BY <1>6 DEF KeyValues
  <2> QED BY <2>1, <2>2, <1>2
<1> QED BY <1>3, <1>4, <1>5, <1>6 DEF SeedKeys

\* A seed that is accepted is a value of its key.
LEMMA SeedAccepted ==
  ASSUME NEW e \in Seedings, NEW k \in SeedKeys, e[k] # <<>>, NEW r,
         Stored!Accepts(r, Stored!Group(k), Stored!Only(k, e[k][1]))
  PROVE  e[k][1] \in KeyValues[k]
<1>1. CASE k = "timezone"
  <2>1. Stored!Patched(r, Stored!Only(k, e[k][1]))["timezone"] = e[k][1]
    BY <1>1, KeysAre DEF Stored!Patched, Stored!Only, SettingKeys
  <2>2. Stored!Group(k) = ScheduleGroup
    BY <1>1, GroupsOfKeys
  <2> QED BY <2>1, <2>2, ValidIs, SeedIs DEF Stored!Accepts
<1>2. CASE k # "timezone"
  BY <1>2, SeedIs
<1> QED BY <1>1, <1>2

\* What a seed leaves of the rows before it.
Follows(q, r, k) ==
  /\ AreRows(q)
  /\ \A j \in SettingKeys : j # k => Stored!Value(q, j) = Stored!Value(r, j)
  /\ \A j \in SettingKeys : j # k /\ r[j] # <<>> => q[j] = r[j]
  /\ setting[k] # <<>> => q = r
  /\ \A g \in Stored!Groups : Stored!Valid(Stored!Values(r), g) => Stored!Valid(Stored!Values(q), g)

Takes(e, q, r, k) ==
  /\ e[k] # <<>> /\ setting[k] = <<>>
  /\ Stored!Valid(Stored!Values(r), Stored!Group(k))
  /\ Stored!Valid(Stored!Patched(r, Stored!Only(k, e[k][1])), Stored!Group(k))
  => q[k] = e[k]

LEMMA SeededRows ==
  ASSUME NEW e \in Seedings, NEW k \in SeedKeys, NEW r, AreRows(r)
  PROVE  /\ Follows(Stored!Seeded(e, setting, r, k), r, k)
         /\ Takes(e, Stored!Seeded(e, setting, r, k), r, k)
<1> DEFINE q == Stored!Seeded(e, setting, r, k)
           g == Stored!Group(k)
           patch == Stored!Only(k, e[k][1])
           now == Stored!SeedsNow(e, setting, r, k) /\ Stored!Accepts(r, g, patch)
<1>0. k \in SettingKeys /\ g \in Stored!Groups /\ k \in Stored!ToSet(g)
  BY GroupsOfKeys, GroupKeys DEF SeedKeys, SettingKeys
<1>1. q = IF now THEN Stored!Written(r, g, patch, Len(g)) ELSE r
  BY DEF Stored!Seeded
<1>2. now <=> /\ e[k] # <<>> /\ setting[k] = <<>> /\ Stored!Accepts(r, g, patch)
  BY DEF Stored!SeedsNow, Stored!Unset
<1>3. CASE ~now
  <2>1. q = r
    BY <1>1, <1>3
  <2>2. ~(e[k] # <<>> /\ setting[k] = <<>> /\ Stored!Accepts(r, g, patch))
    BY <1>2, <1>3
  <2> HIDE DEF now, q, g, patch
  <2> QED BY <2>1, <2>2 DEF q, g, patch, Follows, Takes, Stored!Accepts
<1>4. CASE now
  <2>1. q = Stored!Written(r, g, patch, Len(g))
    BY <1>1, <1>4
  <2>2. DOMAIN patch = {k} /\ patch[k] = e[k][1]
    BY DEF Stored!Only
  <2>3. e[k][1] \in KeyValues[k] /\ e[k] = <<e[k][1]>>
    BY <1>2, <1>4, SeedAccepted, SeedIs
  <2> HIDE DEF now, q, patch, g
  <2>4. FitsItsKeys(patch)
    BY <2>2, <2>3 DEF FitsItsKeys
  <2>a. GroupWritten(q, r, g, patch, Len(g))
    BY <2>1, <2>4, WrittenRows
  <2>5. \A j \in SettingKeys :
          /\ IsRow(j, q[j])
          /\ j # k => Stored!Value(q, j) = Stored!Value(r, j)
          /\ j # k /\ r[j] # <<>> => q[j] = r[j]
    BY <2>a, <2>2 DEF GroupWritten
  <2>6. q[k] = <<patch[k]>>
    <3>1. k \in Stored!ToSet(SubSeq(g, 1, Len(g)))
      BY <1>0, WholeGroup DEF g
    <3> QED BY <2>a, <2>2, <3>1, <1>0 DEF GroupWritten
  <2>7. q[k] = e[k]
    BY <2>6, <2>2, <2>3
  <2>8. ASSUME NEW h \in Stored!Groups, Stored!Valid(Stored!Values(r), h)
        PROVE  Stored!Valid(Stored!Values(q), h)
    <3>1. \A j \in SettingKeys : Stored!Values(q)[j] = Stored!Patched(r, patch)[j]
      <4>1. Stored!Value(q, k) = patch[k]
        BY <2>6, ValueOfRow
      <4> QED BY <4>1, <2>5, <2>2, KeysAre DEF Stored!Values, Stored!Patched
    <3>2. {"timezone", "enabled", "issuer"} \subseteq SettingKeys
      BY DEF SettingKeys
    <3>3. CASE h = g
      <4>1. Stored!Valid(Stored!Patched(r, patch), h)
        BY <3>3, <1>4, <1>2 DEF Stored!Accepts, g, patch
      <4> QED BY <4>1, <3>1, <3>2, ValidIs, GroupKeys
    <3>4. CASE h # g
      <4>1. k \notin Stored!ToSet(h)
        <5>1. h = ScheduleGroup \/ h = AuthGroup \/ h = PathsGroup
          BY GroupKeys
        <5> QED BY <5>1, <3>4, GroupsOfKeys, GroupKeys DEF g, SeedKeys
      <4>2. \A j \in SettingKeys : j # k => Stored!Values(q)[j] = Stored!Values(r)[j]
        BY <2>5, KeysAre DEF Stored!Values
      <4>3. CASE h = ScheduleGroup
        BY <4>3, <4>1, <4>2, <3>2, <2>8, ValidIs, GroupKeys
      <4>4. CASE h = AuthGroup
        BY <4>4, <4>1, <4>2, <3>2, <2>8, ValidIs, GroupKeys
      <4>5. CASE h = PathsGroup
        BY <4>5, ValidIs
      <4> QED BY <4>3, <4>4, <4>5, GroupKeys
    <3> QED BY <3>3, <3>4
  <2>9. AreRows(q)
    BY <2>5 DEF AreRows
  <2>10. setting[k] = <<>>
    BY <1>2, <1>4
  <2> QED BY <2>5, <2>7, <2>8, <2>9, <2>10 DEF q, Follows, Takes
<1> QED BY <1>3, <1>4

LEMMA SeedsFollow ==
  ASSUME AreRows(setting), NEW e \in Seedings
  PROVE  /\ Follows(FirstSeeded(e), setting, "timezone")
         /\ Follows(SecondSeeded(e), FirstSeeded(e), "counts")
         /\ Follows(ThirdSeeded(e), SecondSeeded(e), "issuer")
         /\ Follows(FourthSeeded(e), ThirdSeeded(e), "enabled")
         /\ Takes(e, FirstSeeded(e), setting, "timezone")
         /\ Takes(e, SecondSeeded(e), FirstSeeded(e), "counts")
         /\ Takes(e, ThirdSeeded(e), SecondSeeded(e), "issuer")
         /\ Takes(e, FourthSeeded(e), ThirdSeeded(e), "enabled")
<1>1. ASSUME NEW r, AreRows(r), NEW k \in SeedKeys
      PROVE  Follows(Stored!Seeded(e, setting, r, k), r, k) /\ Takes(e, Stored!Seeded(e, setting, r, k), r, k)
  BY <1>1, SeededRows
<1>2. "timezone" \in SeedKeys /\ "counts" \in SeedKeys /\ "issuer" \in SeedKeys /\ "enabled" \in SeedKeys
  BY DEF SeedKeys
<1>3. /\ Follows(FirstSeeded(e), setting, "timezone") /\ Takes(e, FirstSeeded(e), setting, "timezone")
      /\ AreRows(FirstSeeded(e))
  BY <1>1, <1>2 DEF FirstSeeded, Follows
<1>4. /\ Follows(SecondSeeded(e), FirstSeeded(e), "counts") /\ Takes(e, SecondSeeded(e), FirstSeeded(e), "counts")
      /\ AreRows(SecondSeeded(e))
  BY <1>1, <1>2, <1>3 DEF SecondSeeded, Follows
<1>5. /\ Follows(ThirdSeeded(e), SecondSeeded(e), "issuer") /\ Takes(e, ThirdSeeded(e), SecondSeeded(e), "issuer")
      /\ AreRows(ThirdSeeded(e))
  BY <1>1, <1>2, <1>4 DEF ThirdSeeded, Follows
<1>6. /\ Follows(FourthSeeded(e), ThirdSeeded(e), "enabled") /\ Takes(e, FourthSeeded(e), ThirdSeeded(e), "enabled")
  BY <1>1, <1>2, <1>5 DEF FourthSeeded, Follows
<1> QED BY <1>3, <1>4, <1>5, <1>6

\* The rows of a start are rows, wherever it ends.
LEMMA SeededAreRows ==
  ASSUME AreRows(setting), NEW e \in Seedings, NEW n \in 0..4
  PROVE  AreRows(Stored!SeededUpTo(e, n))
<1>1. n = 0 \/ n = 1 \/ n = 2 \/ n = 3 \/ n = 4
  OBVIOUS
<1> QED BY <1>1, SeedsUnrolled, SeedsFollow DEF Follows

\* A variable fills a row that is unset and overrides none, whatever the rows beside it.
LEMMA SeedsOnlyFill == AreRows(setting) => Stored!SeedsFillOnly
<1> SUFFICES ASSUME AreRows(setting), NEW e \in Seedings
             PROVE  LET up == Stored!SeededUpTo(e, Len(Stored!Seeds)) IN
                    /\ \A k \in Stored!Keys : setting[k] # Stored!Unset => up[k] = setting[k]
                    /\ \A k \in Stored!ToSet(Stored!Seeds) :
                         ( /\ setting[k] = Stored!Unset /\ e[k] # Stored!Unset
                           /\ Stored!Valid(Stored!Values(setting), Stored!Group(k))
                           /\ Stored!Valid(Stored!Patched(up, Stored!Only(k, e[k][1])), Stored!Group(k)) )
                         => up[k] = e[k]
  BY DEF Stored!SeedsFillOnly
<1> DEFINE a == FirstSeeded(e)
           b == SecondSeeded(e)
           c == ThirdSeeded(e)
           d == FourthSeeded(e)
<1>1. Stored!SeededUpTo(e, Len(Stored!Seeds)) = d
  <2>1. Len(Stored!Seeds) = 4
    BY DEF Stored!Seeds
  <2> QED BY <2>1, SeedsUnrolled
<1>2. /\ Follows(a, setting, "timezone") /\ Follows(b, a, "counts")
      /\ Follows(c, b, "issuer") /\ Follows(d, c, "enabled")
      /\ Takes(e, a, setting, "timezone") /\ Takes(e, b, a, "counts")
      /\ Takes(e, c, b, "issuer") /\ Takes(e, d, c, "enabled")
  BY SeedsFollow
<1> HIDE DEF a, b, c, d
<1>3. Stored!ToSet(Stored!Seeds) = SeedKeys
  BY DEF Stored!Seeds, Stored!ToSet, SeedKeys
<1>4. "timezone" \in SettingKeys /\ "counts" \in SettingKeys /\ "issuer" \in SettingKeys /\ "enabled" \in SettingKeys
  BY DEF SettingKeys
<1>5. ASSUME NEW k \in SettingKeys, setting[k] # <<>> PROVE d[k] = setting[k]
  <2>1. a[k] = setting[k]
    BY <1>2, <1>5 DEF Follows
  <2>2. b[k] = setting[k]
    BY <1>2, <1>5, <2>1 DEF Follows
  <2>3. c[k] = setting[k]
    BY <1>2, <1>5, <2>2 DEF Follows
  <2> QED BY <1>2, <1>5, <2>3 DEF Follows
<1>6. \A k \in SettingKeys :
        /\ k # "timezone" => Stored!Value(a, k) = Stored!Value(setting, k)
        /\ k # "counts" => Stored!Value(b, k) = Stored!Value(a, k)
        /\ k # "issuer" => Stored!Value(c, k) = Stored!Value(b, k)
        /\ k # "enabled" => Stored!Value(d, k) = Stored!Value(c, k)
  BY <1>2 DEF Follows
<1>7. \A g \in Stored!Groups : Stored!Valid(Stored!Values(setting), g) =>
        /\ Stored!Valid(Stored!Values(a), g) /\ Stored!Valid(Stored!Values(b), g)
        /\ Stored!Valid(Stored!Values(c), g)
  BY <1>2 DEF Follows
<1>9. ScheduleGroup \in Stored!Groups /\ AuthGroup \in Stored!Groups
  BY GroupKeys
<1>10. ASSUME setting["timezone"] = <<>>, e["timezone"] # <<>>,
              Stored!Valid(Stored!Values(setting), ScheduleGroup),
              Stored!Valid(Stored!Patched(d, Stored!Only("timezone", e["timezone"][1])), ScheduleGroup)
       PROVE  d["timezone"] = e["timezone"]
  <2>1. Stored!Valid(Stored!Patched(setting, Stored!Only("timezone", e["timezone"][1])), ScheduleGroup)
    BY <1>10, PatchIsValid
  <2>2. a["timezone"] = e["timezone"]
    BY <2>1, <1>10, <1>2, GroupsOfKeys DEF Takes
  <2>3. b["timezone"] = e["timezone"]
    BY <2>2, <1>2, <1>4, <1>10 DEF Follows
  <2>4. c["timezone"] = e["timezone"]
    BY <2>3, <1>2, <1>4, <1>10 DEF Follows
  <2> QED BY <2>4, <1>2, <1>4, <1>10 DEF Follows
<1>11. ASSUME setting["counts"] = <<>>, e["counts"] # <<>>,
              Stored!Valid(Stored!Values(setting), ScheduleGroup),
              Stored!Valid(Stored!Patched(d, Stored!Only("counts", e["counts"][1])), ScheduleGroup)
       PROVE  d["counts"] = e["counts"]
  <2>1. Stored!Value(d, "timezone") = Stored!Value(a, "timezone")
    BY <1>6, <1>4
  <2>2. Stored!Valid(Stored!Patched(a, Stored!Only("counts", e["counts"][1])), ScheduleGroup)
    BY <1>11, <2>1, PatchIsValid
  <2>3. b["counts"] = e["counts"]
    BY <2>2, <1>11, <1>2, <1>7, <1>9, GroupsOfKeys DEF Takes
  <2>4. c["counts"] = e["counts"]
    BY <2>3, <1>2, <1>4, <1>11 DEF Follows
  <2> QED BY <2>4, <1>2, <1>4, <1>11 DEF Follows
<1>12. ASSUME setting["issuer"] = <<>>, e["issuer"] # <<>>,
              Stored!Valid(Stored!Values(setting), AuthGroup),
              Stored!Valid(Stored!Patched(d, Stored!Only("issuer", e["issuer"][1])), AuthGroup)
       PROVE  d["issuer"] = e["issuer"]
  <2>1. Stored!Value(b, "enabled") = Stored!Value(setting, "enabled")
    BY <1>6, <1>4
  <2>2. Stored!Value(b, "enabled") => Stored!Value(d, "enabled")
    <3>1. CASE setting["enabled"] = <<>>
      BY <3>1, <2>1 DEF Stored!Value, Stored!Unset, Stored!Default
    <3>2. CASE setting["enabled"] # <<>>
      BY <3>2, <1>5, <1>4, <2>1 DEF Stored!Value
    <3> QED BY <3>1, <3>2
  <2>3. Stored!Valid(Stored!Patched(b, Stored!Only("issuer", e["issuer"][1])), AuthGroup)
    BY <1>12, <2>2, PatchIsValid
  <2>4. c["issuer"] = e["issuer"]
    BY <2>3, <1>12, <1>2, <1>7, <1>9, GroupsOfKeys DEF Takes
  <2> QED BY <2>4, <1>2, <1>4, <1>12 DEF Follows
<1>13. ASSUME setting["enabled"] = <<>>, e["enabled"] # <<>>,
              Stored!Valid(Stored!Values(setting), AuthGroup),
              Stored!Valid(Stored!Patched(d, Stored!Only("enabled", e["enabled"][1])), AuthGroup)
       PROVE  d["enabled"] = e["enabled"]
  <2>1. Stored!Value(d, "issuer") = Stored!Value(c, "issuer")
    BY <1>6, <1>4
  <2>2. Stored!Valid(Stored!Patched(c, Stored!Only("enabled", e["enabled"][1])), AuthGroup)
    BY <1>13, <2>1, PatchIsValid
  <2> QED BY <2>2, <1>13, <1>2, <1>7, <1>9, GroupsOfKeys DEF Takes
<1>14. ASSUME NEW k \in SeedKeys, setting[k] = <<>>, e[k] # <<>>,
              Stored!Valid(Stored!Values(setting), Stored!Group(k)),
              Stored!Valid(Stored!Patched(d, Stored!Only(k, e[k][1])), Stored!Group(k))
       PROVE  d[k] = e[k]
  <2>1. CASE k = "timezone"
    BY <2>1, <1>14, <1>10, GroupsOfKeys
  <2>2. CASE k = "counts"
    BY <2>2, <1>14, <1>11, GroupsOfKeys
  <2>3. CASE k = "issuer"
    BY <2>3, <1>14, <1>12, GroupsOfKeys
  <2>4. CASE k = "enabled"
    BY <2>4, <1>14, <1>13, GroupsOfKeys
  <2> QED BY <2>1, <2>2, <2>3, <2>4 DEF SeedKeys
<1> QED BY <1>1, <1>3, <1>5, <1>14, KeysAre DEF Stored!Unset

-----------------------------------------------------------------------------
(* The sections and the routes.                                            *)

Vals == {v \in [SettingKeys -> UNION {KeyValues[k] : k \in SettingKeys}] : AreValues(v)}

SavedWire == [at : {"none", "sent", "served", "refused"}, value : Vals]
SavedPage == [section : Stored!Sections \cup {"none"}, loaded : BOOLEAN, shown : Vals, kept : Vals,
         dirty : BOOLEAN, get : SavedWire, put : SavedWire]

\* What a page holds: nothing before its section is open, something typed only in what was
\* loaded, and nothing typed that a save on its way does not send where the inputs are locked.
PageOK(g) ==
  /\ g.section = "none" => ~g.loaded /\ g.get.at = "none" /\ g.put.at = "none"
  /\ ~g.loaded => ~g.dirty /\ g.put.at = "none"
  /\ g.get.at # "none" => g.section = "workers" \/ ~g.loaded
  /\ g.section = "schedule" => ~g.dirty
  /\ g.section = "paths" /\ g.dirty /\ g.put.at \in {"sent", "served"} =>
       g.shown["paths"] = g.put.value["paths"]

SettingsInv == AreRows(setting) /\ page \in [Tabs -> SavedPage] /\ \A p \in Tabs : PageOK(page[p])

TypedStays(p) ==
  page[p].dirty /\ ~page'[p].dirty =>
    \/ page'[p].shown = page[p].kept /\ page'[p].put = page[p].put /\ page'[p].get = page[p].get
    \/ /\ page[p].put.at = "served"
       /\ page[p].section \in Stored!Locked =>
            \A k \in Stored!Shows(page[p].section) : page[p].shown[k] = page[p].put.value[k]

SaveIsNarrow ==
  daemon = "up" =>
    \A k \in Stored!Keys : Stored!Value(setting', k) # Stored!Value(setting, k) =>
      \E p \in Tabs :
        /\ page[p].put.at = "sent" /\ page'[p].put.at # "sent"
        /\ k \in Stored!Shows(page[p].section) /\ Stored!Value(setting', k) = page[p].put.value[k]

PageGoes(p) == page'[p] \in SavedPage /\ PageOK(page'[p]) /\ TypedStays(p)

LEMMA ValsAre ==
  ASSUME NEW v
  PROVE  v \in Vals <=> v = [k \in SettingKeys |-> v[k]] /\ AreValues(v)
BY DEF Vals, AreValues

LEMMA DefaultVals == Stored!Default \in Vals
<1>1. Stored!Default = [k \in SettingKeys |-> Stored!Default[k]]
  BY DEF Stored!Default, SettingKeys
<1> QED BY <1>1, ValsAre, DefaultsAreValues

LEMMA WiresAre == Stored!NoWire \in SavedWire /\ Stored!Asking \in SavedWire /\ Stored!NoWire.at = "none" /\ Stored!Asking.at = "sent"
BY DefaultVals DEF Stored!NoWire, Stored!Asking, SavedWire

LEMMA PatchedVals ==
  ASSUME NEW v \in Vals, NEW patch, FitsItsKeys(patch)
  PROVE  [k \in Stored!Keys |-> IF k \in DOMAIN patch THEN patch[k] ELSE v[k]] \in Vals
<1> DEFINE w == [k \in Stored!Keys |-> IF k \in DOMAIN patch THEN patch[k] ELSE v[k]]
<1>1. w = [k \in SettingKeys |-> w[k]]
  BY KeysAre
<1>2. AreValues(w)
  BY KeysAre, ValsAre DEF AreValues, FitsItsKeys
<1> HIDE DEF w
<1>3. w \in Vals
  BY <1>1, <1>2, ValsAre
<1> QED BY <1>3 DEF w

LEMMA WindowVals ==
  ASSUME NEW v \in Vals
  PROVE  [v EXCEPT !.windows = IF "night" \in @ THEN @ \ {"night"} ELSE @ \cup {"night"}] \in Vals
<1> DEFINE w == [v EXCEPT !.windows = IF "night" \in @ THEN @ \ {"night"} ELSE @ \cup {"night"}]
<1>0. v = [k \in SettingKeys |-> v[k]] /\ AreValues(v) /\ "windows" \in SettingKeys
  BY ValsAre DEF SettingKeys
<1>1. w = [k \in SettingKeys |-> w[k]]
  BY <1>0
<1>2. ASSUME NEW k \in SettingKeys PROVE w[k] \in KeyValues[k]
  <2>1. CASE k = "windows"
    <3>1. v["windows"] \in SUBSET {"night"}
      BY <1>0 DEF AreValues, KeyValues
    <3>2. w["windows"] = IF "night" \in v["windows"] THEN v["windows"] \ {"night"} ELSE v["windows"] \cup {"night"}
      BY <1>0
    <3>3. w["windows"] \in SUBSET {"night"}
      BY <3>1, <3>2
    <3> QED BY <3>3, <2>1 DEF KeyValues
  <2>2. CASE k # "windows"
    BY <2>2, <1>0 DEF AreValues
  <2> QED BY <2>1, <2>2
<1> HIDE DEF w
<1>3. w \in Vals
  BY <1>1, <1>2, ValsAre DEF AreValues
<1> QED BY <1>3 DEF w

LEMMA AnswersAre ==
  ASSUME NEW r, AreRows(r), NEW s
  PROVE  /\ Stored!Answer(r, s) \in SavedWire
         /\ Stored!Answer(r, s).at \in {"served", "refused"}
         /\ Stored!Answer(r, s).at = "served" =>
              \A k \in Stored!Shows(s) : k \in SettingKeys => Stored!Answer(r, s).value[k] = Stored!Value(r, k)
<1> DEFINE v == [k \in Stored!Keys |-> IF k \in Stored!Shows(s) THEN Stored!Value(r, k) ELSE Stored!Default[k]]
<1>1. v = [k \in SettingKeys |-> v[k]]
  BY KeysAre
<1>2. AreValues(v)
  BY KeysAre, RowValue, DefaultsAreValues DEF AreValues
<1>3. \A k \in Stored!Shows(s) : k \in SettingKeys => v[k] = Stored!Value(r, k)
  BY KeysAre
<1>4. v \in Vals
  <2> HIDE DEF v
  <2> QED BY <1>1, <1>2, ValsAre
<1>5. \/ Stored!Answer(r, s) = [at |-> "served", value |-> v]
      \/ Stored!Answer(r, s) = [at |-> "refused", value |-> Stored!Default]
  BY DEF Stored!Answer
<1> HIDE DEF v
<1>6. CASE Stored!Answer(r, s) = [at |-> "served", value |-> v]
  BY <1>6, <1>3, <1>4 DEF SavedWire
<1>7. CASE Stored!Answer(r, s) = [at |-> "refused", value |-> Stored!Default]
  BY <1>7, DefaultVals DEF SavedWire
<1> QED BY <1>5, <1>6, <1>7

\* A request that was lost.
LEMMA LostWire ==
  ASSUME NEW w \in SavedWire
  PROVE  /\ Stored!Lost(w) \in SavedWire /\ Stored!Lost(w).at # "sent" /\ Stored!Lost(w).value = w.value
         /\ Stored!Lost(w).at = "none" <=> w.at = "none"
         /\ Stored!Lost(w).at = "served" <=> w.at = "served"
BY DEF Stored!Lost, SavedWire

LEMMA HungUp ==
  ASSUME SettingsInv, page' = [p \in Tabs |-> Stored!Hangup(p)], NEW q \in Tabs
  PROVE  PageGoes(q) /\ page'[q].put.at # "sent"
<1>1. page[q] \in SavedPage /\ PageOK(page[q])
  BY DEF SettingsInv
<1>2. page'[q] = [page[q] EXCEPT !.get = Stored!Lost(page[q].get), !.put = Stored!Lost(page[q].put)]
  BY <1>1 DEF Stored!Hangup, SavedPage
<1>3. page[q].get \in SavedWire /\ page[q].put \in SavedWire
  BY <1>1 DEF SavedPage
<1>4. /\ page'[q].section = page[q].section /\ page'[q].loaded = page[q].loaded
      /\ page'[q].shown = page[q].shown /\ page'[q].kept = page[q].kept
      /\ page'[q].dirty = page[q].dirty
      /\ page'[q].get = Stored!Lost(page[q].get) /\ page'[q].put = Stored!Lost(page[q].put)
      /\ page'[q] \in SavedPage
  BY <1>1, <1>2, <1>3, LostWire DEF SavedPage
<1>5. PageOK(page'[q])
  BY <1>1, <1>3, <1>4, LostWire DEF PageOK
<1> QED BY <1>3, <1>4, <1>5, LostWire DEF PageGoes, TypedStays

LEMMA SamePage ==
  ASSUME SettingsInv, NEW q \in Tabs, page'[q] = page[q]
  PROVE  PageGoes(q)
BY DEF SettingsInv, PageGoes, TypedStays

\* An action of one page.
LEMMA OnePage ==
  ASSUME SettingsInv, NEW p \in Tabs, NEW g, page' = [page EXCEPT ![p] = g], PageGoes(p)
  PROVE  page' \in [Tabs -> SavedPage] /\ \A q \in Tabs : PageGoes(q)
<1>1. \A q \in Tabs : q # p => page'[q] = page[q]
  BY DEF SettingsInv
<1>2. \A q \in Tabs : PageGoes(q)
  BY <1>1, SamePage
<1>3. page' = [q \in Tabs |-> page'[q]]
  BY DEF SettingsInv
<1> QED BY <1>2, <1>3 DEF PageGoes

LEMMA OpenPage ==
  ASSUME SettingsInv, NEW p \in Tabs, NEW s \in Stored!Sections, Stored!OpenSection(p, s)
  PROVE  \A q \in Tabs : PageGoes(q)
<1> DEFINE g == [Stored!NoPage EXCEPT !.section = s, !.get = Stored!Asking]
<1>1. page' = [page EXCEPT ![p] = g] /\ page[p] \in SavedPage /\ PageOK(page[p]) /\ page[p].section = "none"
  BY DEF Stored!OpenSection, SettingsInv
<1>2. page'[p] = g
  BY <1>1 DEF SettingsInv
<1>3. /\ g \in SavedPage /\ g.section = s /\ ~g.loaded /\ ~g.dirty /\ g.get = Stored!Asking
      /\ g.put = Stored!NoWire
  BY DefaultVals, WiresAre DEF Stored!NoPage, SavedPage
<1> HIDE DEF g
<1>4. PageOK(g)
  BY <1>3, WiresAre DEF PageOK, Stored!Sections
<1>5. PageGoes(p)
  BY <1>1, <1>2, <1>3, <1>4 DEF PageGoes, PageOK, TypedStays
<1> QED BY <1>1, <1>5, OnePage

LEMMA AskPage ==
  ASSUME SettingsInv, NEW p \in Tabs, Stored!AskAgain(p)
  PROVE  \A q \in Tabs : PageGoes(q)
<1> DEFINE g == [page[p] EXCEPT !.get = Stored!Asking]
<1>1. /\ page' = [page EXCEPT ![p] = g] /\ page[p] \in SavedPage /\ PageOK(page[p])
      /\ page[p].section # "none" /\ (page[p].section = "workers" \/ ~page[p].loaded)
  BY DEF Stored!AskAgain, SettingsInv
<1>2. page'[p] = g
  BY <1>1 DEF SettingsInv
<1>3. /\ g \in SavedPage /\ g.section = page[p].section /\ g.loaded = page[p].loaded
      /\ g.shown = page[p].shown /\ g.dirty = page[p].dirty /\ g.put = page[p].put
      /\ g.get = Stored!Asking
  BY <1>1, WiresAre DEF SavedPage
<1> HIDE DEF g
<1>4. PageOK(g)
  BY <1>1, <1>3 DEF PageOK
<1>5. PageGoes(p)
  BY <1>2, <1>3, <1>4 DEF PageGoes, TypedStays
<1> QED BY <1>1, <1>5, OnePage

\* What may be typed is a value, and nothing is typed into the schedule or before a section is open.
LEMMA TypeableIs ==
  ASSUME NEW g, NEW patch \in Stored!Typeable(g)
  PROVE  FitsItsKeys(patch) /\ (g.section = "paths" => "paths" \in DOMAIN patch) /\ g.section # "schedule"
<1>1. ASSUME NEW k \in SettingKeys, NEW v \in KeyValues[k]
      PROVE  FitsItsKeys(Stored!Only(k, v)) /\ k \in DOMAIN Stored!Only(k, v)
  BY <1>1 DEF FitsItsKeys, Stored!Only
<1>2. CASE g.section = "workers"
  <2>1. patch = Stored!Only("counts", 2)
    BY <1>2 DEF Stored!Typeable
  <2>2. "counts" \in SettingKeys /\ 2 \in KeyValues["counts"]
    BY DEF SettingKeys, KeyValues
  <2> QED BY <2>1, <2>2, <1>1, <1>2
<1>3. CASE g.section = "auth"
  <2>1. patch \in {Stored!Only("enabled", b) : b \in BOOLEAN} \/ patch = Stored!Only("issuer", "idp")
    BY <1>3 DEF Stored!Typeable
  <2>2. "enabled" \in SettingKeys /\ KeyValues["enabled"] = BOOLEAN
        /\ "issuer" \in SettingKeys /\ "idp" \in KeyValues["issuer"]
    BY DEF SettingKeys, KeyValues
  <2>3. CASE patch = Stored!Only("issuer", "idp")
    BY <2>2, <2>3, <1>1, <1>3
  <2>4. CASE patch \in {Stored!Only("enabled", b) : b \in BOOLEAN}
    <3>1. PICK b \in BOOLEAN : patch = Stored!Only("enabled", b)
      BY <2>4
    <3> QED BY <2>2, <3>1, <1>1, <1>3
  <2> QED BY <2>1, <2>3, <2>4
<1>4. CASE g.section = "paths"
  <2>1. patch = Stored!Only("paths", "map")
    BY <1>4 DEF Stored!Typeable
  <2>2. "paths" \in SettingKeys /\ "map" \in KeyValues["paths"]
    BY DEF SettingKeys, KeyValues
  <2> QED BY <2>1, <2>2, <1>1, <1>4
<1>5. g.section = "workers" \/ g.section = "auth" \/ g.section = "paths"
  BY DEF Stored!Typeable
<1> QED BY <1>2, <1>3, <1>4, <1>5

LEMMA TypePage ==
  ASSUME SettingsInv, NEW p \in Tabs, NEW patch, Stored!TypeIn(p, patch)
  PROVE  \A q \in Tabs : PageGoes(q)
<1> DEFINE v == [k \in Stored!Keys |-> IF k \in DOMAIN patch THEN patch[k] ELSE page[p].shown[k]]
           g == [page[p] EXCEPT !.shown = v, !.dirty = TRUE]
<1>1. /\ page[p] \in SavedPage /\ PageOK(page[p]) /\ page[p].loaded
      /\ Stored!MayType(page[p].section, page[p].put.at # "none")
      /\ patch \in Stored!Typeable(page[p])
  BY DEF Stored!TypeIn, SettingsInv
<1>2. page' = [page EXCEPT ![p] = g]
  BY <1>1 DEF Stored!TypeIn, SettingsInv
<1>3. page'[p] = g
  BY <1>2 DEF SettingsInv
<1>4. v \in Vals
  BY <1>1, PatchedVals, TypeableIs DEF SavedPage
<1> HIDE DEF v
<1>5. /\ g \in SavedPage /\ g.section = page[p].section /\ g.loaded = page[p].loaded
      /\ g.dirty /\ g.put = page[p].put /\ g.get = page[p].get
  BY <1>1, <1>4 DEF SavedPage
<1> HIDE DEF g
<1>6. page[p].section # "schedule" /\ (page[p].section = "paths" => page[p].put.at = "none")
  BY <1>1, TypeableIs DEF Stored!MayType, Stored!Locked
<1>7. PageOK(g)
  BY <1>1, <1>5, <1>6 DEF PageOK
<1>8. PageGoes(p)
  BY <1>3, <1>5, <1>7 DEF PageGoes, TypedStays
<1> QED BY <1>2, <1>8, OnePage

LEMMA SavePage ==
  ASSUME SettingsInv, NEW p \in Tabs, Stored!Save(p) \/ Stored!SaveWindow(p, "night")
  PROVE  \A q \in Tabs : PageGoes(q)
<1> DEFINE w == [page[p].shown EXCEPT !.windows = IF "night" \in @ THEN @ \ {"night"} ELSE @ \cup {"night"}]
<1>1. /\ page[p] \in SavedPage /\ PageOK(page[p]) /\ page[p].loaded /\ page[p].put.at = "none"
  BY DEF Stored!Save, Stored!SaveWindow, SettingsInv
<1>2. page[p].shown \in Vals /\ w \in Vals
  BY <1>1, WindowVals DEF SavedPage
<1>3. PICK v \in Vals : /\ page' = [page EXCEPT ![p] = [page[p] EXCEPT !.put = [at |-> "sent", value |-> v]]]
                        /\ v = page[p].shown \/ page[p].section = "schedule"
  <2>1. CASE Stored!Save(p)
    <3>1. page' = [page EXCEPT ![p] = [page[p] EXCEPT !.put = [at |-> "sent", value |-> page[p].shown]]]
      BY <2>1 DEF Stored!Save, SettingsInv
    <3> QED BY <3>1, <1>2
  <2>2. CASE Stored!SaveWindow(p, "night")
    <3>1. /\ page' = [page EXCEPT ![p] = [page[p] EXCEPT !.put = [at |-> "sent", value |-> w]]]
          /\ page[p].section = "schedule"
      BY <2>2 DEF Stored!SaveWindow, SettingsInv
    <3> HIDE DEF w
    <3> QED BY <3>1, <1>2
  <2> QED BY <2>1, <2>2
<1> DEFINE g == [page[p] EXCEPT !.put = [at |-> "sent", value |-> v]]
<1>4. page'[p] = g
  BY <1>3 DEF SettingsInv
<1>5. /\ g \in SavedPage /\ g.section = page[p].section /\ g.loaded = page[p].loaded
      /\ g.shown = page[p].shown /\ g.dirty = page[p].dirty /\ g.get = page[p].get
      /\ g.put.at = "sent" /\ g.put.value = v
  BY <1>1 DEF SavedPage, SavedWire
<1> HIDE DEF g, w
<1>6. PageOK(g)
  BY <1>1, <1>3, <1>5 DEF PageOK
<1>7. PageGoes(p)
  BY <1>4, <1>5, <1>6 DEF PageGoes, TypedStays
<1>8. page' = [page EXCEPT ![p] = g]
  BY <1>3 DEF g
<1> QED BY <1>8, <1>7, OnePage

LEMMA DiscardPage ==
  ASSUME SettingsInv, NEW p \in Tabs, Stored!Discard(p)
  PROVE  \A q \in Tabs : PageGoes(q)
<1> DEFINE g == [page[p] EXCEPT !.shown = page[p].kept, !.dirty = FALSE]
<1>1. page[p] \in SavedPage /\ PageOK(page[p]) /\ page[p].section = "auth" /\ page[p].loaded
  BY DEF Stored!Discard, SettingsInv
<1>2. page' = [page EXCEPT ![p] = g]
  BY <1>1 DEF Stored!Discard, SettingsInv
<1>3. page'[p] = g
  BY <1>2 DEF SettingsInv
<1>4. /\ g \in SavedPage /\ g.section = "auth" /\ g.loaded = page[p].loaded
      /\ g.shown = page[p].kept /\ ~g.dirty /\ g.get = page[p].get /\ g.put = page[p].put
  BY <1>1 DEF SavedPage
<1> HIDE DEF g
<1>5. PageGoes(p)
  BY <1>1, <1>3, <1>4 DEF PageGoes, TypedStays, PageOK
<1> QED BY <1>2, <1>5, OnePage

LEMMA GetPage ==
  ASSUME SettingsInv, NEW p \in Tabs, Stored!ServeGet(p)
  PROVE  \A q \in Tabs : PageGoes(q)
<1> DEFINE a == Stored!Answer(setting, page[p].section)
           g == [page[p] EXCEPT !.get = a]
<1>1. /\ page[p] \in SavedPage /\ PageOK(page[p]) /\ page[p].get.at = "sent" /\ AreRows(setting)
      /\ page' = [page EXCEPT ![p] = g]
  BY DEF Stored!ServeGet, SettingsInv
<1>2. page'[p] = g
  BY <1>1 DEF SettingsInv
<1>3. a \in SavedWire
  BY <1>1, AnswersAre
<1> HIDE DEF a
<1>4. /\ g \in SavedPage /\ g.section = page[p].section /\ g.loaded = page[p].loaded
      /\ g.shown = page[p].shown /\ g.dirty = page[p].dirty /\ g.put = page[p].put
  BY <1>1, <1>3 DEF SavedPage
<1> HIDE DEF g
<1>5. PageGoes(p)
  BY <1>1, <1>2, <1>4 DEF PageGoes, TypedStays, PageOK
<1> QED BY <1>1, <1>5, OnePage

LEMMA TakeGetPage ==
  ASSUME SettingsInv, NEW p \in Tabs, Stored!TakeGet(p)
  PROVE  \A q \in Tabs : PageGoes(q)
<1> DEFINE o == page[p]
           first == Stored!SeedsInputs(o)
           g == IF o.get.at = "served"
                THEN [o EXCEPT !.get = Stored!NoWire, !.loaded = TRUE, !.kept = o.get.value,
                               !.shown = IF first THEN o.get.value ELSE o.shown,
                               !.dirty = IF first THEN FALSE ELSE o.dirty]
                ELSE [o EXCEPT !.get = Stored!NoWire]
<1>1. /\ o \in SavedPage /\ PageOK(o) /\ o.get.at \in {"served", "refused"}
  BY DEF Stored!TakeGet, SettingsInv
<1>2. page' = [page EXCEPT ![p] = g]
  BY DEF Stored!TakeGet
<1>3. page'[p] = g
  BY <1>2 DEF SettingsInv
<1>4. first <=> ~(o.section = "workers" /\ o.loaded)
  BY DEF Stored!SeedsInputs
<1>5. o.get.value \in Vals /\ o.section # "none"
  BY <1>1 DEF SavedPage, SavedWire, PageOK
<1>6. CASE o.get.at = "served"
  <2>1. g = [o EXCEPT !.get = Stored!NoWire, !.loaded = TRUE, !.kept = o.get.value,
                      !.shown = IF first THEN o.get.value ELSE o.shown,
                      !.dirty = IF first THEN FALSE ELSE o.dirty]
    BY <1>6
  <2>2. /\ g.section = o.section /\ g.loaded /\ g.put = o.put /\ g.get = Stored!NoWire
        /\ first => ~g.dirty
        /\ ~first => g.dirty = o.dirty /\ g.shown = o.shown
    <3> HIDE DEF first, g, o
    <3> QED BY <2>1, <1>1 DEF SavedPage
  <2>3. g \in SavedPage
    <3> HIDE DEF first, g, o
    <3> QED BY <2>1, <1>1, <1>5, WiresAre DEF SavedPage
  <2> HIDE DEF g, first, o
  <2>4. first => ~o.dirty
    BY <1>1, <1>4 DEF PageOK
  <2>5. PageOK(g)
    BY <1>1, <1>4, <1>5, <2>2, <2>4, WiresAre DEF PageOK
  <2> QED BY <1>2, <1>3, <2>2, <2>3, <2>4, <2>5, OnePage DEF PageGoes, TypedStays, o
<1>7. CASE o.get.at = "refused"
  <2>1. g = [o EXCEPT !.get = Stored!NoWire]
    BY <1>7
  <2>2. /\ g.section = o.section /\ g.loaded = o.loaded /\ g.put = o.put /\ g.get = Stored!NoWire
        /\ g.dirty = o.dirty /\ g.shown = o.shown /\ g \in SavedPage
    <3> HIDE DEF first, g, o
    <3> QED BY <2>1, <1>1, WiresAre DEF SavedPage
  <2> HIDE DEF g, first, o
  <2>3. PageOK(g)
    BY <1>1, <2>2, WiresAre DEF PageOK
  <2> QED BY <1>2, <1>3, <2>2, <2>3, OnePage DEF PageGoes, TypedStays, o
<1> QED BY <1>1, <1>6, <1>7

LEMMA TakePutPage ==
  ASSUME SettingsInv, NEW p \in Tabs, Stored!TakePut(p)
  PROVE  \A q \in Tabs : PageGoes(q)
<1> DEFINE o == page[p]
           g == IF o.put.at = "served"
                THEN [o EXCEPT !.put = Stored!NoWire, !.shown = o.put.value, !.kept = o.put.value,
                               !.dirty = FALSE]
                ELSE [o EXCEPT !.put = Stored!NoWire]
<1>1. /\ o \in SavedPage /\ PageOK(o) /\ o.put.at \in {"served", "refused"}
  BY DEF Stored!TakePut, SettingsInv
<1>2. page' = [page EXCEPT ![p] = g]
  BY DEF Stored!TakePut
<1>3. page'[p] = g
  BY <1>2 DEF SettingsInv
<1>5. o.put.value \in Vals /\ o.section # "none"
  BY <1>1 DEF SavedPage, SavedWire, PageOK
<1>6. CASE o.put.at = "served"
  <2>1. g = [o EXCEPT !.put = Stored!NoWire, !.shown = o.put.value, !.kept = o.put.value, !.dirty = FALSE]
    BY <1>6
  <2>2. /\ g.section = o.section /\ g.loaded = o.loaded /\ g.get = o.get /\ g.put = Stored!NoWire
        /\ ~g.dirty /\ g \in SavedPage
    <3> HIDE DEF g, o
    <3> QED BY <2>1, <1>1, <1>5, WiresAre DEF SavedPage
  <2> HIDE DEF g, o
  <2>3. PageOK(g)
    BY <1>1, <2>2, WiresAre DEF PageOK
  <2>4. o.dirty /\ o.section \in Stored!Locked =>
          \A k \in Stored!Shows(o.section) : o.shown[k] = o.put.value[k]
    <3>1. SUFFICES ASSUME o.dirty, o.section \in Stored!Locked
                   PROVE  \A k \in Stored!Shows(o.section) : o.shown[k] = o.put.value[k]
      OBVIOUS
    <3>2. o.section = "paths" /\ o.shown["paths"] = o.put.value["paths"]
      BY <3>1, <1>1, <1>6 DEF PageOK, Stored!Locked
    <3> QED BY <3>2 DEF Stored!Shows
  <2>5. TypedStays(p)
    BY <1>3, <1>6, <2>4 DEF TypedStays, o
  <2> QED BY <1>2, <1>3, <2>2, <2>3, <2>5, OnePage DEF PageGoes
<1>7. CASE o.put.at = "refused"
  <2>1. g = [o EXCEPT !.put = Stored!NoWire]
    BY <1>7
  <2>2. /\ g.section = o.section /\ g.loaded = o.loaded /\ g.get = o.get /\ g.put = Stored!NoWire
        /\ g.dirty = o.dirty /\ g.shown = o.shown /\ g \in SavedPage
    <3> HIDE DEF g, o
    <3> QED BY <2>1, <1>1, WiresAre DEF SavedPage
  <2> HIDE DEF g, o
  <2>3. PageOK(g)
    BY <1>1, <2>2, WiresAre DEF PageOK
  <2> QED BY <1>2, <1>3, <2>2, <2>3, OnePage DEF PageGoes, TypedStays, o
<1> QED BY <1>1, <1>6, <1>7

\* What a save sends: the fields of its section, which are values of their keys.
LEMMA PatchSent ==
  ASSUME SettingsInv, NEW p \in Tabs, page[p].put.at = "sent"
  PROVE  /\ FitsItsKeys(Stored!PatchOf(p))
         /\ DOMAIN Stored!PatchOf(p) = Stored!Shows(page[p].section)
         /\ \A k \in Stored!Shows(page[p].section) : Stored!PatchOf(p)[k] = page[p].put.value[k]
<1>1. page[p].put.value \in Vals
  BY DEF SettingsInv, SavedPage, SavedWire
<1> QED BY <1>1, ValsAre DEF Stored!PatchOf, FitsItsKeys, AreValues

\* Rows that are written for a save change only what its section shows.
LEMMA WrittenIsNarrow ==
  ASSUME SettingsInv, NEW p \in Tabs, page[p].put.at = "sent", NEW n, NEW g,
         setting' = Stored!Written(setting, g, Stored!PatchOf(p), n), page'[p].put.at # "sent"
  PROVE  AreRows(setting') /\ SaveIsNarrow
<1>1. GroupWritten(setting', setting, g, Stored!PatchOf(p), n)
  BY PatchSent, WrittenRows DEF SettingsInv
<1>2. AreRows(setting')
  BY <1>1 DEF GroupWritten, AreRows
<1>3. ASSUME NEW k \in SettingKeys, Stored!Value(setting', k) # Stored!Value(setting, k)
      PROVE  k \in Stored!Shows(page[p].section) /\ Stored!Value(setting', k) = page[p].put.value[k]
  BY <1>1, <1>3, PatchSent DEF GroupWritten
<1> QED BY <1>2, <1>3, KeysAre DEF SaveIsNarrow

LEMMA PathsGroupIs ==
  ASSUME NEW p \in Tabs, page[p].section = "paths"
  PROVE  Stored!GroupOf(p) = PathsGroup /\ Stored!Shows(page[p].section) = {"paths"}
<1>1. Stored!Shows(page[p].section) = {"paths"}
  BY DEF Stored!Shows
<1>2. \A g \in Stored!Groups : {"paths"} \subseteq Stored!ToSet(g) <=> g = PathsGroup
  BY GroupKeys
<1> QED BY <1>1, <1>2, GroupKeys DEF Stored!GroupOf

LEMMA PutPage ==
  ASSUME SettingsInv, NEW p \in Tabs, Stored!ServePut(p)
  PROVE  AreRows(setting') /\ SaveIsNarrow /\ \A q \in Tabs : PageGoes(q)
<1> DEFINE o == page[p]
<1>1. o \in SavedPage /\ PageOK(o) /\ o.put.at = "sent" /\ AreRows(setting)
  BY DEF Stored!ServePut, SettingsInv
<1>2. CASE Stored!Accepts(setting, Stored!GroupOf(p), Stored!PatchOf(p))
  <2> DEFINE a == Stored!Answer(setting', o.section)
             g == [o EXCEPT !.put = a]
  <2>1. /\ setting' = Stored!Written(setting, Stored!GroupOf(p), Stored!PatchOf(p), Len(Stored!GroupOf(p)))
        /\ page' = [page EXCEPT ![p] = g]
    BY <1>2 DEF Stored!ServePut, SettingsInv
  <2>2. page'[p] = g
    BY <2>1 DEF SettingsInv
  <2>3. GroupWritten(setting', setting, Stored!GroupOf(p), Stored!PatchOf(p), Len(Stored!GroupOf(p)))
    BY <1>1, <2>1, PatchSent, WrittenRows
  <2>4. AreRows(setting')
    BY <2>3 DEF GroupWritten, AreRows
  <2>5. /\ a \in SavedWire /\ a.at \in {"served", "refused"}
        /\ a.at = "served" => \A k \in Stored!Shows(o.section) :
             k \in SettingKeys => a.value[k] = Stored!Value(setting', k)
    BY <2>4, AnswersAre
  <2> HIDE DEF a
  <2>6. /\ g \in SavedPage /\ g.section = o.section /\ g.loaded = o.loaded
        /\ g.shown = o.shown /\ g.dirty = o.dirty /\ g.get = o.get /\ g.put = a
    BY <1>1, <2>5 DEF SavedPage
  <2>7. o.section = "paths" /\ a.at = "served" => a.value["paths"] = o.put.value["paths"]
    <3> SUFFICES ASSUME o.section = "paths", a.at = "served" PROVE a.value["paths"] = o.put.value["paths"]
      OBVIOUS
    <3>1. "paths" \in SettingKeys /\ PathsGroup \in Stored!Groups /\ "paths" \in Stored!ToSet(PathsGroup)
      BY GroupKeys DEF SettingKeys
    <3>2. "paths" \in Stored!ToSet(SubSeq(PathsGroup, 1, Len(PathsGroup)))
      BY <3>1, WholeGroup
    <3>3. "paths" \in DOMAIN Stored!PatchOf(p) /\ Stored!PatchOf(p)["paths"] = o.put.value["paths"]
      BY <1>1, PatchSent, PathsGroupIs
    <3>4. setting'["paths"] = <<o.put.value["paths"]>>
      BY <2>3, <3>1, <3>2, <3>3, PathsGroupIs DEF GroupWritten
    <3>5. Stored!Value(setting', "paths") = o.put.value["paths"]
      BY <3>4, ValueOfRow
    <3> QED BY <2>5, <3>1, <3>5, PathsGroupIs
  <2>8. page'[p].put.at # "sent"
    BY <2>2, <2>5, <2>6
  <2> HIDE DEF g
  <2>9. PageOK(g)
    BY <1>1, <2>5, <2>6, <2>7 DEF PageOK
  <2>10. PageGoes(p)
    BY <2>2, <2>6, <2>9 DEF PageGoes, TypedStays
  <2>11. SaveIsNarrow
    BY <1>1, <2>1, <2>8, WrittenIsNarrow
  <2> QED BY <2>1, <2>4, <2>10, <2>11, OnePage
<1>3. CASE ~Stored!Accepts(setting, Stored!GroupOf(p), Stored!PatchOf(p))
  <2> DEFINE g == [o EXCEPT !.put = [o.put EXCEPT !.at = "refused"]]
  <2>1. setting' = setting /\ page' = [page EXCEPT ![p] = g]
    BY <1>3, <1>1 DEF Stored!ServePut, SettingsInv, SavedPage
  <2>2. page'[p] = g
    BY <2>1 DEF SettingsInv
  <2>3. o.put \in SavedWire
    BY <1>1 DEF SavedPage
  <2>4. /\ g \in SavedPage /\ g.section = o.section /\ g.loaded = o.loaded
        /\ g.shown = o.shown /\ g.dirty = o.dirty /\ g.get = o.get /\ g.put.at = "refused"
    BY <1>1, <2>3 DEF SavedPage, SavedWire
  <2> HIDE DEF g
  <2>5. PageOK(g)
    BY <1>1, <2>4 DEF PageOK
  <2>6. PageGoes(p)
    BY <2>2, <2>4, <2>5 DEF PageGoes, TypedStays
  <2> QED BY <1>1, <2>1, <2>6, OnePage DEF SaveIsNarrow
<1> QED BY <1>2, <1>3

LEMMA DiesPage ==
  ASSUME SettingsInv, NEW p \in Tabs, Stored!ServeDies(p)
  PROVE  AreRows(setting') /\ SaveIsNarrow /\ \A q \in Tabs : PageGoes(q)
<1>1. page[p].put.at = "sent" /\ page' = [q \in Tabs |-> Stored!Hangup(q)]
  BY DEF Stored!ServeDies
<1>2. PICK n : setting' = Stored!Written(setting, Stored!GroupOf(p), Stored!PatchOf(p), n)
  BY DEF Stored!ServeDies
<1>3. \A q \in Tabs : PageGoes(q) /\ page'[q].put.at # "sent"
  BY <1>1, HungUp
<1> QED BY <1>1, <1>2, <1>3, WrittenIsNarrow

\* The daemon dies over one of its seeds.
DiesAt(e, r, k) ==
  /\ Stored!SeedsNow(e, setting, r, k) /\ Stored!Accepts(r, Stored!Group(k), Stored!Only(k, e[k][1]))
  /\ \E m \in 0..(Len(Stored!Group(k)) - 1) :
       setting' = Stored!Written(r, Stored!Group(k), Stored!Only(k, e[k][1]), m)

LEMMA StartRows ==
  ASSUME SettingsInv, NEW e \in Seedings, Stored!Start(e) \/ Stored!StartDies(e)
  PROVE  AreRows(setting') /\ SaveIsNarrow /\ UNCHANGED page
<1>0. AreRows(setting) /\ daemon = "down" /\ UNCHANGED page
  BY DEF SettingsInv, Stored!Start, Stored!StartDies
<1>1. Len(Stored!Seeds) = 4
  BY DEF Stored!Seeds
<1>2. CASE Stored!Start(e)
  <2>1. setting' = Stored!SeededUpTo(e, 4)
    BY <1>1, <1>2 DEF Stored!Start
  <2> QED BY <2>1, <1>0, SeededAreRows DEF SaveIsNarrow
<1>3. CASE Stored!StartDies(e)
  <2>1. \E n \in 0..(Len(Stored!Seeds) - 1) : DiesAt(e, Stored!SeededUpTo(e, n), Stored!Seeds[n + 1])
    BY <1>3, Zenon DEF Stored!StartDies, DiesAt
  <2>2. PICK n \in 0..3 : DiesAt(e, Stored!SeededUpTo(e, n), Stored!Seeds[n + 1])
    BY <1>1, <2>1
  <2> DEFINE r == Stored!SeededUpTo(e, n)
             k == Stored!Seeds[n + 1]
             patch == Stored!Only(k, e[k][1])
  <2>3. k \in SeedKeys
    BY DEF Stored!Seeds, SeedKeys
  <2>4. AreRows(r)
    BY <1>0, SeededAreRows
  <2>5. DiesAt(e, r, k)
    BY <2>2
  <2> HIDE DEF r, k
  <2>6. e[k] # <<>> /\ Stored!Accepts(r, Stored!Group(k), patch)
    BY <2>5 DEF DiesAt, Stored!SeedsNow, Stored!Unset
  <2>7. PICK m : setting' = Stored!Written(r, Stored!Group(k), patch, m)
    BY <2>5 DEF DiesAt
  <2>8. FitsItsKeys(patch)
    <3>1. e[k][1] \in KeyValues[k]
      BY <2>3, <2>6, SeedAccepted
    <3> QED BY <3>1 DEF FitsItsKeys, Stored!Only
  <2> HIDE DEF patch
  <2>9. GroupWritten(setting', r, Stored!Group(k), patch, m)
    BY <2>4, <2>7, <2>8, WrittenRows
  <2> QED BY <1>0, <2>9 DEF GroupWritten, AreRows, SaveIsNarrow
<1> QED BY <1>0, <1>2, <1>3

LEMMA PagesStay ==
  ASSUME SettingsInv, [Stored!SettingsNext]_settingVars
  PROVE  page' = [q \in Tabs |-> page'[q]]
<1>0. page = [q \in Tabs |-> page[q]]
  BY DEF SettingsInv
<1>1. ASSUME NEW e \in Seedings, Stored!Start(e) \/ Stored!StartDies(e) PROVE page' = page
  BY <1>1 DEF Stored!Start, Stored!StartDies
<1>2. ASSUME NEW p \in Tabs, NEW s \in Stored!Sections, Stored!OpenSection(p, s) \/ Stored!AskAgain(p)
      PROVE  page' = [q \in Tabs |-> page'[q]]
  BY <1>0, <1>2 DEF Stored!OpenSection, Stored!AskAgain
<1>3. ASSUME NEW p \in Tabs, NEW patch, Stored!TypeIn(p, patch) PROVE page' = [q \in Tabs |-> page'[q]]
  BY <1>0, <1>3 DEF Stored!TypeIn
<1>4. ASSUME NEW p \in Tabs, Stored!AskAgain(p) \/ Stored!Save(p) \/ Stored!SaveWindow(p, "night") \/ Stored!Discard(p)
      PROVE  page' = [q \in Tabs |-> page'[q]]
  BY <1>0, <1>4 DEF Stored!AskAgain, Stored!Save, Stored!SaveWindow, Stored!Discard
<1>5. ASSUME NEW p \in Tabs, Stored!ServeGet(p) \/ Stored!ServePut(p) PROVE page' = [q \in Tabs |-> page'[q]]
  BY <1>0, <1>5 DEF Stored!ServeGet, Stored!ServePut
<1>6. ASSUME NEW p \in Tabs, Stored!TakeGet(p) \/ Stored!TakePut(p) PROVE page' = [q \in Tabs |-> page'[q]]
  BY <1>0, <1>6 DEF Stored!TakeGet, Stored!TakePut
<1>7. ASSUME NEW p \in Tabs, Stored!ServeDies(p) PROVE page' = [q \in Tabs |-> page'[q]]
  BY <1>7 DEF Stored!ServeDies
<1>8. ASSUME Stored!StopDaemon PROVE page' = [q \in Tabs |-> page'[q]]
  BY <1>8 DEF Stored!StopDaemon
<1>9. ASSUME UNCHANGED settingVars PROVE page' = page
  BY <1>9 DEF settingVars
<1>10. ASSUME NEW p \in Tabs, NEW s \in Stored!Sections, Stored!OpenSection(p, s)
       PROVE  page' = [q \in Tabs |-> page'[q]]
  BY <1>2, <1>10
<1> QED BY <1>0, <1>1, <1>10, <1>3, <1>4, <1>5, <1>6, <1>7, <1>8, <1>9 DEF Stored!SettingsNext

SettingsGo == AreRows(setting') /\ SaveIsNarrow /\ \A p \in Tabs : PageGoes(p)

\* A step of the settings.
LEMMA SettingsStep ==
  ASSUME SettingsInv, [Stored!SettingsNext]_settingVars
  PROVE  SettingsInv' /\ SaveIsNarrow /\ \A p \in Tabs : TypedStays(p)
<1>0. AreRows(setting)
  BY DEF SettingsInv
<1>1. ASSUME setting' = setting, \A p \in Tabs : PageGoes(p) PROVE SettingsGo
  BY <1>0, <1>1 DEF SettingsGo, SaveIsNarrow
<1>2. ASSUME UNCHANGED page PROVE \A p \in Tabs : PageGoes(p)
  BY <1>2, SamePage
<1>3. ASSUME NEW e \in Seedings, Stored!Start(e) \/ Stored!StartDies(e) PROVE SettingsGo
  BY <1>2, <1>3, StartRows DEF SettingsGo
<1>4. ASSUME Stored!StopDaemon PROVE SettingsGo
  <2>1. page' = [p \in Tabs |-> Stored!Hangup(p)] /\ setting' = setting
    BY <1>4 DEF Stored!StopDaemon
  <2> QED BY <2>1, <1>1, HungUp
<1>5. ASSUME NEW p \in Tabs, NEW s \in Stored!Sections, Stored!OpenSection(p, s) PROVE SettingsGo
  <2>1. setting' = setting
    BY <1>5 DEF Stored!OpenSection
  <2> QED BY <2>1, <1>1, <1>5, OpenPage
<1>6. ASSUME NEW p \in Tabs, NEW patch \in Stored!Typeable(page[p]), Stored!TypeIn(p, patch) PROVE SettingsGo
  <2>1. setting' = setting
    BY <1>6 DEF Stored!TypeIn
  <2> QED BY <2>1, <1>1, <1>6, TypePage
<1>7. ASSUME NEW p \in Tabs, Stored!AskAgain(p) PROVE SettingsGo
  <2>1. setting' = setting
    BY <1>7 DEF Stored!AskAgain
  <2> QED BY <2>1, <1>1, <1>7, AskPage
<1>8. ASSUME NEW p \in Tabs, Stored!Save(p) \/ Stored!SaveWindow(p, "night") PROVE SettingsGo
  <2>1. setting' = setting
    BY <1>8 DEF Stored!Save, Stored!SaveWindow
  <2> QED BY <2>1, <1>1, <1>8, SavePage
<1>9. ASSUME NEW p \in Tabs, Stored!Discard(p) PROVE SettingsGo
  <2>1. setting' = setting
    BY <1>9 DEF Stored!Discard
  <2> QED BY <2>1, <1>1, <1>9, DiscardPage
<1>10. ASSUME NEW p \in Tabs, Stored!ServeGet(p) PROVE SettingsGo
  <2>1. setting' = setting
    BY <1>10 DEF Stored!ServeGet
  <2> QED BY <2>1, <1>1, <1>10, GetPage
<1>11. ASSUME NEW p \in Tabs, Stored!TakeGet(p) PROVE SettingsGo
  <2>1. setting' = setting
    BY <1>11 DEF Stored!TakeGet
  <2> QED BY <2>1, <1>1, <1>11, TakeGetPage
<1>12. ASSUME NEW p \in Tabs, Stored!TakePut(p) PROVE SettingsGo
  <2>1. setting' = setting
    BY <1>12 DEF Stored!TakePut
  <2> QED BY <2>1, <1>1, <1>12, TakePutPage
<1>13. ASSUME NEW p \in Tabs, Stored!ServePut(p) \/ Stored!ServeDies(p) PROVE SettingsGo
  BY <1>13, PutPage, DiesPage DEF SettingsGo
<1>14. ASSUME UNCHANGED settingVars PROVE SettingsGo
  <2>1. setting' = setting /\ page' = page
    BY <1>14 DEF settingVars
  <2> QED BY <2>1, <1>1, <1>2
<1>15. SettingsGo
  BY <1>3, <1>4, <1>5, <1>6, <1>7, <1>8, <1>9, <1>10, <1>11, <1>12, <1>13, <1>14 DEF Stored!SettingsNext
<1>16. page' \in [Tabs -> SavedPage]
  BY <1>15, PagesStay DEF SettingsGo, PageGoes
<1> QED BY <1>15, <1>16 DEF SettingsGo, PageGoes, SettingsInv, AreRows

LEMMA SettingsStart == Stored!SettingsInit => SettingsInv
<1> SUFFICES ASSUME Stored!SettingsInit PROVE SettingsInv
  OBVIOUS
<1>1. AreRows(setting)
  BY KeysAre DEF Stored!SettingsInit, AreRows, IsRow, Stored!Unset
<1>2. page = [p \in Tabs |-> Stored!NoPage]
  BY DEF Stored!SettingsInit
<1>3. Stored!NoPage \in SavedPage /\ PageOK(Stored!NoPage)
  BY DefaultVals, WiresAre DEF Stored!NoPage, SavedPage, PageOK
<1> QED BY <1>1, <1>2, <1>3 DEF SettingsInv

-----------------------------------------------------------------------------
(* The windows of the schedule.                                            *)

LEMMA OnceRound ==
  ASSUME NEW M \in Nat \ {0}, NEW x \in Nat, x < 2 * M
  PROVE  x % M = IF x < M THEN x ELSE x - M
OBVIOUS

\* The days of the week as multiples of a day.
DayBegins(d, p) ==
  \/ d = 0 /\ p = 0
  \/ d = 1 /\ p = DayMinutes
  \/ d = 2 /\ p = 2 * DayMinutes
  \/ d = 3 /\ p = 3 * DayMinutes
  \/ d = 4 /\ p = 4 * DayMinutes
  \/ d = 5 /\ p = 5 * DayMinutes
  \/ d = 6 /\ p = 6 * DayMinutes

LEMMA DaysBegin ==
  ASSUME DayMinutes \in Nat, NEW d \in 0..6
  PROVE  DayBegins(d, d * DayMinutes)
BY DEF DayBegins

\* A moment of the week is one minute of one day.
LEMMA MomentIs ==
  ASSUME DayMinutes \in Nat \ {0}, NEW a \in 0..6, NEW b \in 0..6,
         NEW x \in 0..(DayMinutes - 1), NEW y \in 0..(DayMinutes - 1)
  PROVE  a * DayMinutes + x = b * DayMinutes + y <=> a = b /\ x = y
<1> DEFINE p == a * DayMinutes
           q == b * DayMinutes
<1>1. DayBegins(a, p) /\ DayBegins(b, q) /\ p \in Int /\ q \in Int
  BY DaysBegin
<1> HIDE DEF p, q
<1>2. p + x = q + y <=> a = b /\ x = y
  BY <1>1 DEF DayBegins
<1> QED BY <1>2 DEF p, q

\* A day and the minutes from its begin on, over midnight and the end of the week.
LEMMA Onward ==
  ASSUME DayMinutes \in Nat \ {0}, NEW d \in 0..6, NEW x \in 0..(2 * DayMinutes - 1)
  PROVE  /\ x < DayMinutes => (d * DayMinutes + x) % (7 * DayMinutes) = d * DayMinutes + x
         /\ x >= DayMinutes =>
              \E n \in 0..6 : /\ (n + 6) % 7 = d
                              /\ (d * DayMinutes + x) % (7 * DayMinutes) = n * DayMinutes + (x - DayMinutes)
<1> DEFINE p == d * DayMinutes
<1>1. DayBegins(d, p) /\ p \in Int
  BY DaysBegin
<1> HIDE DEF p
<1>2. p + x \in Nat /\ p + x < 2 * (7 * DayMinutes) /\ 7 * DayMinutes \in Nat \ {0}
  BY <1>1 DEF DayBegins
<1>3. (p + x) % (7 * DayMinutes) = IF p + x < 7 * DayMinutes THEN p + x ELSE (p + x) - (7 * DayMinutes)
  BY <1>2, OnceRound
<1>4. ASSUME x < DayMinutes PROVE p + x < 7 * DayMinutes
  BY <1>1, <1>4 DEF DayBegins
<1>5. ASSUME x >= DayMinutes, d = 6
      PROVE  (0 + 6) % 7 = d /\ (p + x) % (7 * DayMinutes) = 0 * DayMinutes + (x - DayMinutes)
  BY <1>1, <1>3, <1>5 DEF DayBegins
<1>6. ASSUME x >= DayMinutes, d # 6
      PROVE  ((d + 1) + 6) % 7 = d /\ (p + x) % (7 * DayMinutes) = (d + 1) * DayMinutes + (x - DayMinutes)
  <2>1. (d + 1) * DayMinutes = p + DayMinutes
    BY DEF p
  <2>2. p + x < 7 * DayMinutes
    BY <1>1, <1>6 DEF DayBegins
  <2> QED BY <2>1, <2>2, <1>1, <1>3, <1>6
<1>7. (x < DayMinutes => (p + x) % (7 * DayMinutes) = p + x)
  BY <1>3, <1>4
<1>8. x >= DayMinutes => \E n \in 0..6 : /\ (n + 6) % 7 = d
                              /\ (p + x) % (7 * DayMinutes) = n * DayMinutes + (x - DayMinutes)
  <2>1. CASE d = 6
    BY <2>1, <1>5
  <2>2. CASE d # 6
    <3>1. d + 1 \in 0..6
      BY <2>2
    <3> QED BY <2>2, <3>1, <1>6
  <2> QED BY <2>1, <2>2
<1> QED BY <1>7, <1>8 DEF p

-----------------------------------------------------------------------------
(* The destinations of alerts (AlertSettings).                             *)

FormHeader == [key : Nat, masked : BOOLEAN]
FormRow    == [key : DestNames \cup {""}, name : DestNames, url : [masked : BOOLEAN, host : Hosts],
               headers : Seq(FormHeader)]
LoadedDest == [host : Hosts \cup {""}, headers : Nat]
ShownForm  == [at : {"none", "ready", "saving", "answered"}, form : SUBSET FormRow,
               loaded : [DestNames -> LoadedDest]]
HomeSecret(n, h) == [for : {n}, host : {h}, id : Nat]

\* A destination that nobody has made, or one whose secrets are its own.
DestIs(d, n) == \/ d = Dests!NoDest
                \/ d.host \in Hosts /\ d.headers \in Seq(HomeSecret(n, d.host))

DestsInv == /\ \A n \in DestNames : DestIs(destination[n], n)
            /\ puts \in Nat /\ screen \in [Tabs -> ShownForm]

LEMMA HostsAreNamed == "" \notin Hosts
BY ControlAssumption DEF ControlAssumption, NoText

LEMMA HeadersAreCounted == MaxHeaders \in Nat
BY ControlAssumption DEF ControlAssumption

LEMMA DayHasMinutes == DayMinutes \in Nat \ {0}
BY ControlAssumption DEF ControlAssumption

LEMMA NoDestIs == Dests!NoDest.host = "" /\ Dests!NoDest.headers = <<>>
BY Zenon DEF Dests!NoDest

LEMMA SecretIs ==
  ASSUME NEW n, NEW h, NEW i \in Nat
  PROVE  Dests!Secret(n, h, i) \in HomeSecret(n, h)
<1>1. n \in {n} /\ h \in {h}
  OBVIOUS
<1> QED BY <1>1, Zenon DEF Dests!Secret, HomeSecret

LEMMA FormsAre ==
  ASSUME NEW loaded \in [DestNames -> LoadedDest]
  PROVE  Dests!FormOf(loaded) \in SUBSET FormRow
<1> DEFINE RowFor(n) == [key |-> n, name |-> n, url |-> Dests!Masked(loaded[n].host),
                    headers |-> [i \in 1..loaded[n].headers |-> [key |-> i, masked |-> TRUE]]]
<1>1. Dests!FormOf(loaded) = {RowFor(n) : n \in Dests!Known(loaded)}
  BY DEF Dests!FormOf
<1>2. ASSUME NEW n \in Dests!Known(loaded) PROVE RowFor(n) \in FormRow
  <2> DEFINE s == [i \in 1..loaded[n].headers |-> [key |-> i, masked |-> TRUE]]
  <2>1. n \in DestNames /\ loaded[n].host \in Hosts /\ loaded[n].headers \in Nat
    BY DEF Dests!Known, LoadedDest
  <2>2. s \in Seq(FormHeader)
    <3>1. \A i \in 1..loaded[n].headers : [key |-> i, masked |-> TRUE] \in FormHeader
      BY DEF FormHeader
    <3> QED BY <3>1, <2>1, IsASeq
  <2>3. Dests!Masked(loaded[n].host) \in [masked : BOOLEAN, host : Hosts]
    BY <2>1 DEF Dests!Masked
  <2> HIDE DEF s
  <2>4. [key |-> n, name |-> n, url |-> Dests!Masked(loaded[n].host), headers |-> s] \in FormRow
    BY <2>1, <2>2, <2>3 DEF FormRow
  <2> QED BY <2>4 DEF s
<1> HIDE DEF RowFor
<1> QED BY <1>1, <1>2

LEMMA PresentedIs ==
  ASSUME NEW s, \A n \in DestNames : DestIs(s[n], n)
  PROVE  Dests!Presented(s) \in [DestNames -> LoadedDest]
<1>1. ASSUME NEW n \in DestNames PROVE [host |-> s[n].host, headers |-> Len(s[n].headers)] \in LoadedDest
  <2>1. CASE s[n] = Dests!NoDest
    <3>1. s[n].host = "" /\ s[n].headers = <<>>
      BY <2>1, NoDestIs
    <3>2. Len(s[n].headers) = 0
      BY <3>1, EmptySeq
    <3> QED BY <3>1, <3>2 DEF LoadedDest
  <2>2. CASE s[n].host \in Hosts /\ s[n].headers \in Seq(HomeSecret(n, s[n].host))
    <3>1. Len(s[n].headers) \in Nat
      BY <2>2, LenProperties
    <3> QED BY <2>2, <3>1 DEF LoadedDest
  <2> QED BY <2>1, <2>2 DEF DestIs
<1> QED BY <1>1 DEF Dests!Presented

LEMMA EditedIs ==
  ASSUME NEW r \in FormRow, NEW q \in Dests!Edited(r)
  PROVE  q \in FormRow
<1>1. /\ r.name \in DestNames /\ r.url \in [masked : BOOLEAN, host : Hosts]
      /\ r.headers \in Seq(FormHeader)
  BY DEF FormRow
<1>2. ASSUME NEW s \in Seq(FormHeader) PROVE [r EXCEPT !.headers = s] \in FormRow
  BY <1>2 DEF FormRow
<1>3. CASE q \in {[r EXCEPT !.name = n] : n \in DestNames}
  BY <1>3 DEF FormRow
<1>4. CASE q \in {[r EXCEPT !.url = Dests!Typed(h)] : h \in Hosts}
  <2>1. PICK h \in Hosts : q = [r EXCEPT !.url = Dests!Typed(h)]
    BY <1>4
  <2>2. Dests!Typed(h) \in [masked : BOOLEAN, host : Hosts]
    BY DEF Dests!Typed
  <2> QED BY <2>1, <2>2 DEF FormRow
<1>5. CASE q \in {[r EXCEPT !.headers = Append(@, [key |-> 0, masked |-> FALSE])]}
  <2>1. [key |-> 0, masked |-> FALSE] \in FormHeader
    BY DEF FormHeader
  <2>2. Append(r.headers, [key |-> 0, masked |-> FALSE]) \in Seq(FormHeader)
    BY <1>1, <2>1, AppendProperties
  <2>3. q = [r EXCEPT !.headers = Append(r.headers, [key |-> 0, masked |-> FALSE])]
    BY <1>5 DEF FormRow
  <2> QED BY <2>2, <2>3, <1>2
<1>6. CASE q \in {[r EXCEPT !.headers[i].masked = FALSE] : i \in DOMAIN r.headers}
  <2>1. PICK i \in DOMAIN r.headers : q = [r EXCEPT !.headers[i].masked = FALSE]
    BY <1>6
  <2>2. i \in 1..Len(r.headers) /\ r.headers[i] \in FormHeader
    BY <1>1, ElementOfSeq, LenProperties
  <2>3. [r.headers[i] EXCEPT !.masked = FALSE] \in FormHeader
    BY <2>2 DEF FormHeader
  <2>4. [r.headers EXCEPT ![i] = [r.headers[i] EXCEPT !.masked = FALSE]] \in Seq(FormHeader)
    BY <2>2, <2>3, <1>1, ExceptSeq
  <2>5. q = [r EXCEPT !.headers = [r.headers EXCEPT ![i] = [r.headers[i] EXCEPT !.masked = FALSE]]]
    BY <2>1
  <2> QED BY <2>4, <2>5, <1>2
<1>7. CASE q \in {[r EXCEPT !.headers = SubSeq(@, 1, i - 1) \o SubSeq(@, i + 1, Len(@))] : i \in DOMAIN r.headers}
  <2>1. PICK i \in DOMAIN r.headers :
          q = [r EXCEPT !.headers = SubSeq(r.headers, 1, i - 1) \o SubSeq(r.headers, i + 1, Len(r.headers))]
    BY <1>7
  <2>2. i \in 1..Len(r.headers) /\ Len(r.headers) \in Nat
    BY <1>1, LenProperties
  <2>3. SubSeq(r.headers, 1, i - 1) \in Seq(FormHeader)
    BY <1>1, <2>2, SubSeqProperties
  <2>4. SubSeq(r.headers, i + 1, Len(r.headers)) \in Seq(FormHeader)
    BY <1>1, <2>2, SubSeqProperties
  <2>5. SubSeq(r.headers, 1, i - 1) \o SubSeq(r.headers, i + 1, Len(r.headers)) \in Seq(FormHeader)
    BY <2>3, <2>4, ConcatProperties
  <2> QED BY <2>1, <2>5, <1>2
<1> QED BY <1>3, <1>4, <1>5, <1>6, <1>7 DEF Dests!Edited

LEMMA SomeEdited ==
  ASSUME NEW form \in SUBSET FormRow,
         NEW f \in Dests!EditedForms(form)
  PROVE  f \in SUBSET FormRow
<1>1. ASSUME NEW r \in Dests!NewRows PROVE r \in FormRow
  <2>1. <<>> \in Seq(FormHeader)
    BY EmptySeq
  <2>2. \A h \in Hosts : Dests!Typed(h) \in [masked : BOOLEAN, host : Hosts]
    BY DEF Dests!Typed
  <2> QED BY <2>1, <2>2 DEF Dests!NewRows, FormRow
<1> DEFINE A == UNION {{(form \ {r}) \cup {q} : q \in Dests!Edited(r)} : r \in form}
           B == {form \ {r} : r \in form}
           C == {form \cup {r} : r \in Dests!NewRows}
<1>2. CASE f \in A
  <2>1. PICK r \in form : f \in {(form \ {r}) \cup {q} : q \in Dests!Edited(r)}
    BY <1>2
  <2>2. PICK q \in Dests!Edited(r) : f = (form \ {r}) \cup {q}
    BY <2>1
  <2>3. q \in FormRow
    BY EditedIs
  <2> QED BY <2>2, <2>3
<1>3. CASE f \in B
  BY <1>3
<1>4. CASE f \in C
  <2>1. PICK r \in Dests!NewRows : f = form \cup {r}
    BY <1>4
  <2> QED BY <2>1, <1>1
<1>5. Dests!EditedForms(form) = (A \cup B) \cup C
  BY Zenon DEF Dests!EditedForms
<1> HIDE DEF A, B, C
<1> QED BY <1>2, <1>3, <1>4, <1>5

\* What a row becomes is the row's own.
LEMMA MergedIs ==
  ASSUME DestsInv, NEW form \in SUBSET FormRow, Dests!Mergeable(form), NEW r \in form
  PROVE  DestIs(Dests!Merged(r), r.name)
<1>1. /\ r.name \in DestNames /\ r.url.host \in Hosts /\ r.headers \in Seq(FormHeader)
      /\ DestIs(destination[r.name], r.name) /\ puts \in Nat
  BY DEF FormRow, DestsInv
<1> DEFINE s == [i \in DOMAIN r.headers |->
                  IF r.headers[i].masked THEN destination[r.name].headers[i]
                  ELSE Dests!Secret(r.name, r.url.host, MaxHeaders + puts)]
<1>2. DOMAIN r.headers = 1..Len(r.headers) /\ Len(r.headers) \in Nat
  BY <1>1, LenProperties
<1>3. ASSUME NEW i \in 1..Len(r.headers), r.headers[i].masked
      PROVE  destination[r.name].headers[i] \in HomeSecret(r.name, r.url.host)
  <2>1. Dests!KeepsHeader(r, i)
    BY <1>2, <1>3 DEF Dests!Mergeable
  <2>2. destination[r.name] # Dests!NoDest /\ r.url.host = destination[r.name].host
        /\ i <= Len(destination[r.name].headers)
    BY <2>1 DEF Dests!KeepsHeader, Dests!KeepsUrl
  <2>3. destination[r.name].headers \in Seq(HomeSecret(r.name, r.url.host))
    BY <2>2, <1>1 DEF DestIs
  <2>4. i \in 1..Len(destination[r.name].headers)
    BY <2>2, <2>3, LenProperties
  <2> QED BY <2>3, <2>4, ElementOfSeq
<1>4. Dests!Secret(r.name, r.url.host, MaxHeaders + puts) \in HomeSecret(r.name, r.url.host)
  <2>1. MaxHeaders + puts \in Nat
    BY <1>1, HeadersAreCounted
  <2> QED BY <2>1, SecretIs
<1>5. s \in Seq(HomeSecret(r.name, r.url.host))
  BY <1>2, <1>3, <1>4, IsASeq
<1>6. Dests!Merged(r).host = r.url.host /\ Dests!Merged(r).headers = s
  BY DEF Dests!Merged
<1> HIDE DEF s
<1> QED BY <1>1, <1>5, <1>6 DEF DestIs

LEMMA StoredDests ==
  ASSUME DestsInv, NEW form \in SUBSET FormRow, Dests!Mergeable(form), NEW n \in DestNames
  PROVE  DestIs(Dests!Stored(form)[n], n)
<1>1. CASE \E r \in form : r.name = n
  <2>1. PICK r \in form : r = (CHOOSE q \in form : q.name = n) /\ r.name = n
    BY <1>1
  <2>2. Dests!Stored(form)[n] = Dests!Merged(r)
    BY <1>1, <2>1 DEF Dests!Stored
  <2> QED BY <2>1, <2>2, MergedIs
<1>2. CASE ~\E r \in form : r.name = n
  <2>1. Dests!Stored(form)[n] = Dests!NoDest
    BY <1>2 DEF Dests!Stored
  <2> QED BY <2>1 DEF DestIs
<1> QED BY <1>1, <1>2

LEMMA DestsStart == Dests!AlertSettingsInit => DestsInv
<1> SUFFICES ASSUME Dests!AlertSettingsInit PROVE DestsInv
  OBVIOUS
<1>1. puts \in Nat
  BY DEF Dests!AlertSettingsInit
<1>2. screen \in [Tabs -> ShownForm]
  <2>1. screen = [b \in Tabs |-> Dests!NoScreen]
    BY DEF Dests!AlertSettingsInit
  <2>2. Dests!NoScreen \in ShownForm
    BY DEF Dests!NoScreen, ShownForm, LoadedDest
  <2> QED BY <2>1, <2>2
<1>3. ASSUME NEW n \in DestNames PROVE DestIs(destination[n], n)
  <2>1. PICK h \in Hosts : destination = [m \in DestNames |-> [host |-> h, token |-> 0,
                   headers |-> [i \in 1..MaxHeaders |-> Dests!Secret(m, h, i)]]]
    BY DEF Dests!AlertSettingsInit
  <2> DEFINE s == [i \in 1..MaxHeaders |-> Dests!Secret(n, h, i)]
  <2>2. s \in Seq(HomeSecret(n, h))
    <3>1. \A i \in 1..MaxHeaders : Dests!Secret(n, h, i) \in HomeSecret(n, h)
      BY SecretIs
    <3>2. MaxHeaders \in Nat
      BY HeadersAreCounted
    <3> QED BY <3>1, <3>2, IsASeq
  <2>3. destination[n].host = h /\ destination[n].headers = s
    BY <2>1
  <2> HIDE DEF s
  <2> QED BY <2>2, <2>3 DEF DestIs
<1> QED BY <1>1, <1>2, <1>3 DEF DestsInv

LEMMA DestsStep == DestsInv /\ [Dests!AlertSettingsNext]_destVars => DestsInv'
<1> SUFFICES ASSUME DestsInv, [Dests!AlertSettingsNext]_destVars PROVE DestsInv'
  OBVIOUS
<1>a. puts \in Nat /\ screen \in [Tabs -> ShownForm] /\ \A n \in DestNames : DestIs(destination[n], n)
  BY DEF DestsInv
<1>b. ASSUME NEW b \in Tabs, NEW g \in ShownForm, screen' = [screen EXCEPT ![b] = g]
      PROVE  screen' \in [Tabs -> ShownForm]
  BY <1>a, <1>b
<1>c. ASSUME UNCHANGED destination PROVE \A n \in DestNames : DestIs(destination'[n], n)
  BY <1>a, <1>c
<1>d. ASSUME NEW b \in Tabs, NEW at \in {"ready", "saving"} PROVE [screen[b] EXCEPT !.at = at] \in ShownForm
  BY <1>a DEF ShownForm
<1>e. ASSUME NEW at \in {"ready", "answered"}, NEW form \in SUBSET FormRow, NEW loaded \in [DestNames -> LoadedDest]
      PROVE  [at |-> at, form |-> form, loaded |-> loaded] \in ShownForm
  BY DEF ShownForm
<1>1. ASSUME NEW b \in Tabs, Dests!LoadAlerts(b) PROVE DestsInv'
  <2>1. Dests!Presented(destination) \in [DestNames -> LoadedDest]
    BY <1>a, PresentedIs
  <2>2. [at |-> "ready", form |-> Dests!FormOf(Dests!Presented(destination)),
         loaded |-> Dests!Presented(destination)] \in ShownForm
    BY <2>1, <1>e, FormsAre
  <2>3. screen' \in [Tabs -> ShownForm]
    BY <2>2, <1>1, <1>b DEF Dests!LoadAlerts
  <2>4. UNCHANGED <<destination, puts>>
    BY <1>1 DEF Dests!LoadAlerts
  <2> QED BY <2>3, <2>4, <1>a, <1>c DEF DestsInv
<1>2. ASSUME NEW b \in Tabs, Dests!EditForm(b) PROVE DestsInv'
  <2>0. screen[b].form \in SUBSET FormRow /\ screen[b] \in ShownForm
    BY <1>a DEF ShownForm
  <2>1. PICK form : /\ screen' = [screen EXCEPT ![b].form = form]
                    /\ form \in Dests!EditedForms(screen[b].form)
    BY <1>2 DEF Dests!EditForm
  <2>2. form \in SUBSET FormRow
    BY <2>0, <2>1, SomeEdited
  <2>3. [screen[b] EXCEPT !.form = form] \in ShownForm
    BY <2>0, <2>2 DEF ShownForm
  <2>4. screen' \in [Tabs -> ShownForm]
    BY <2>1, <2>3, <1>b
  <2>5. UNCHANGED <<destination, puts>>
    BY <1>2 DEF Dests!EditForm
  <2> QED BY <2>4, <2>5, <1>a, <1>c DEF DestsInv
<1>3. ASSUME NEW b \in Tabs, Dests!SaveAlerts(b) \/ Dests!SendUnchecked(b) PROVE DestsInv'
  <2>1. /\ screen' = [screen EXCEPT ![b] = [screen[b] EXCEPT !.at = "saving"]]
        /\ puts' = puts + 1 /\ UNCHANGED destination
    BY <1>3 DEF Dests!SaveAlerts, Dests!SendUnchecked
  <2>2. [screen[b] EXCEPT !.at = "saving"] \in ShownForm
    BY <1>d
  <2>3. screen' \in [Tabs -> ShownForm]
    BY <2>1, <2>2, <1>b
  <2> QED BY <2>1, <2>3, <1>a, <1>c DEF DestsInv
<1>4. ASSUME NEW b \in Tabs, Dests!ServeAlerts(b) PROVE DestsInv'
  <2>0. screen[b].form \in SUBSET FormRow /\ puts' = puts
    BY <1>a, <1>4 DEF ShownForm, Dests!ServeAlerts
  <2>1. CASE ~(Dests!Mergeable(screen[b].form) /\ Dests!Unreferenced(screen[b].form))
    <3>1. screen' = [screen EXCEPT ![b] = [screen[b] EXCEPT !.at = "ready"]] /\ UNCHANGED destination
      BY <2>1, <1>4 DEF Dests!ServeAlerts
    <3>2. screen' \in [Tabs -> ShownForm]
      BY <3>1, <1>b, <1>d
    <3> QED BY <2>0, <3>1, <3>2, <1>a, <1>c DEF DestsInv
  <2>2. CASE Dests!Mergeable(screen[b].form) /\ Dests!Unreferenced(screen[b].form)
    <3>1. destination' = Dests!Stored(screen[b].form)
      BY <2>2, <1>4 DEF Dests!ServeAlerts
    <3>2. \A n \in DestNames : DestIs(destination'[n], n)
      BY <2>0, <2>2, <3>1, StoredDests
    <3>3. Dests!Presented(destination') \in [DestNames -> LoadedDest]
      BY <3>2, PresentedIs
    <3>4. screen' = [screen EXCEPT ![b] = [at |-> "answered", form |-> screen[b].form, loaded |-> Dests!Presented(destination')]]
      BY <2>2, <1>4, <1>a DEF Dests!ServeAlerts
    <3>5. screen' \in [Tabs -> ShownForm]
      BY <3>3, <3>4, <2>0, <1>b, <1>e
    <3> QED BY <2>0, <3>2, <3>5, <1>a DEF DestsInv
  <2> QED BY <2>1, <2>2
<1>5. ASSUME NEW b \in Tabs, Dests!TakeAlerts(b) PROVE DestsInv'
  <2>0. screen[b].loaded \in [DestNames -> LoadedDest]
    BY <1>a DEF ShownForm
  <2>1. screen' = [screen EXCEPT ![b] = [at |-> "ready", form |-> Dests!FormOf(screen[b].loaded), loaded |-> screen[b].loaded]]
    BY <1>5, <1>a DEF Dests!TakeAlerts
  <2>2. screen' \in [Tabs -> ShownForm]
    BY <2>0, <2>1, <1>b, <1>e, FormsAre
  <2>3. UNCHANGED <<destination, puts>>
    BY <1>5 DEF Dests!TakeAlerts
  <2> QED BY <2>2, <2>3, <1>a, <1>c DEF DestsInv
<1>6. ASSUME (\E n \in DestNames : Dests!PublishUse(n)) \/ UNCHANGED destVars PROVE DestsInv'
  <2>1. UNCHANGED <<destination, screen, puts>>
    BY <1>6 DEF Dests!PublishUse, destVars
  <2> QED BY <2>1, <1>a, <1>c DEF DestsInv
<1> QED BY <1>1, <1>2, <1>3, <1>4, <1>5, <1>6 DEF Dests!AlertSettingsNext

\* What the invariant says of the secrets and of the two checks.
LEMMA SecretsAreHome == DestsInv => Dests!SecretsStayHome /\ Dests!BothChecksAgree
<1> SUFFICES ASSUME DestsInv PROVE Dests!SecretsStayHome /\ Dests!BothChecksAgree
  OBVIOUS
<1>1. ASSUME NEW n \in DestNames, NEW i \in DOMAIN destination[n].headers
      PROVE  destination[n].headers[i].for = n /\ destination[n].headers[i].host = destination[n].host
  <2>1. DestIs(destination[n], n)
    BY DEF DestsInv
  <2>2. CASE destination[n] = Dests!NoDest
    <3>1. destination[n].headers = <<>>
      BY <2>2, NoDestIs
    <3> QED BY <3>1, <1>1
  <2>3. CASE destination[n].headers \in Seq(HomeSecret(n, destination[n].host))
    <3>1. destination[n].headers[i] \in HomeSecret(n, destination[n].host)
      BY <2>3, <1>1, ElementOfSeq, LenProperties
    <3> QED BY <3>1 DEF HomeSecret
  <2> QED BY <2>1, <2>2, <2>3 DEF DestIs
<1>2. ASSUME NEW b \in Tabs, screen[b].loaded = Dests!Presented(destination)
      PROVE  Dests!FormIsSendable(screen[b].form, screen[b].loaded) <=> Dests!Mergeable(screen[b].form)
  <2> DEFINE form == screen[b].form
             loaded == screen[b].loaded
  <2>1. ASSUME NEW r \in form
        PROVE  /\ Dests!UrlIsKept(r, loaded) <=> Dests!KeepsUrl(r)
               /\ Len(destination[r.name].headers) = loaded[r.name].headers
    <3>1. r \in FormRow
      BY DEF DestsInv, ShownForm
    <3>2. r.name \in DestNames /\ r.url \in [masked : BOOLEAN, host : Hosts] /\ DestIs(destination[r.name], r.name)
      BY <3>1 DEF FormRow, DestsInv
    <3>3. loaded[r.name].host = destination[r.name].host /\ loaded[r.name].headers = Len(destination[r.name].headers)
      BY <3>2, <1>2 DEF Dests!Presented
    <3>4. destination[r.name] = Dests!NoDest <=> destination[r.name].host = ""
      <4>1. "" \notin Hosts
        BY HostsAreNamed
      <4> QED BY <3>2, <4>1, NoDestIs DEF DestIs
    <3>5. r.url = Dests!Masked(destination[r.name].host)
            <=> r.url.masked /\ r.url.host = destination[r.name].host
      <4>1. r.url = [masked |-> r.url.masked, host |-> r.url.host] /\ r.url.masked \in BOOLEAN
        BY <3>2
      <4>2. ASSUME r.url.masked, r.url.host = destination[r.name].host
            PROVE  r.url = [masked |-> TRUE, host |-> destination[r.name].host]
        BY <4>1, <4>2
      <4> QED BY <4>2 DEF Dests!Masked
    <3>6. r.name \in Dests!Known(loaded) <=> destination[r.name] # Dests!NoDest
      BY <3>2, <3>3, <3>4 DEF Dests!Known
    <3> QED BY <3>3, <3>5, <3>6 DEF Dests!UrlIsKept, Dests!KeepsUrl
  <2> HIDE DEF form, loaded
  <2>2. ASSUME NEW r \in form
        PROVE  Dests!RowIsSendable(r, loaded) <=>
                 /\ r.url.masked => Dests!KeepsUrl(r)
                 /\ \A i \in DOMAIN r.headers : r.headers[i].masked => Dests!KeepsHeader(r, i)
    BY <2>1 DEF Dests!RowIsSendable, Dests!KeepsHeader
  <2>3. Dests!FormIsSendable(form, loaded) <=> Dests!Mergeable(form)
    BY <2>2 DEF Dests!FormIsSendable, Dests!Mergeable
  <2> QED BY <2>3 DEF form, loaded
<1> QED BY <1>1, <1>2 DEF Dests!SecretsStayHome, Dests!BothChecksAgree

\* A minute of a day, and one counted on from the begin of a day over the end of the week.
Moment(d, x) == d * DayMinutes + x
At(d, x)     == (d * DayMinutes + x) % (Stored!Week * DayMinutes)

LEMMA MomentIsOne ==
  ASSUME DayMinutes \in Nat \ {0}, NEW a \in 0..6, NEW b \in 0..6,
         NEW x \in 0..(DayMinutes - 1), NEW y \in 0..(DayMinutes - 1)
  PROVE  Moment(a, x) = Moment(b, y) <=> a = b /\ x = y
<1>1. a * DayMinutes + x = b * DayMinutes + y <=> a = b /\ x = y
  BY MomentIs
<1> QED BY <1>1, Zenon DEF Moment

LEMMA Ahead ==
  ASSUME DayMinutes \in Nat \ {0}, NEW d \in 0..6, NEW x \in 0..(2 * DayMinutes - 1)
  PROVE  /\ x < DayMinutes => At(d, x) = Moment(d, x) /\ x \in 0..(DayMinutes - 1)
         /\ x >= DayMinutes => /\ x - DayMinutes \in 0..(DayMinutes - 1)
                               /\ \E n \in 0..6 : (n + 6) % 7 = d /\ At(d, x) = Moment(n, x - DayMinutes)
<1>1. x < DayMinutes => x \in 0..(DayMinutes - 1)
  OBVIOUS
<1>2. x >= DayMinutes => x - DayMinutes \in 0..(DayMinutes - 1)
  OBVIOUS
<1>3. /\ x < DayMinutes => At(d, x) = Moment(d, x)
      /\ x >= DayMinutes => \E n \in 0..6 : (n + 6) % 7 = d /\ At(d, x) = Moment(n, x - DayMinutes)
  BY Onward, Zenon DEF Moment, At, Stored!Week
<1> QED BY <1>1, <1>2, <1>3

\* A window by its span.
LEMMA ShortWindow ==
  ASSUME NEW w \in Stored!SomeWindows, w.end > w.start, NEW day \in 0..6, NEW minute \in 0..(DayMinutes - 1),
         DayMinutes \in Nat \ {0}
  PROVE  Stored!WindowContains(w, day, minute) <=> Stored!Covers(w, day * DayMinutes + minute)
<1>1. /\ w.start \in 0..(DayMinutes - 1) /\ w.end \in 1..DayMinutes
      /\ w.days \in {{}, {0}, {6}, {3, 4}}
  BY DEF Stored!SomeWindows
<1> DEFINE Days == IF w.days = {} THEN 0..6 ELSE w.days
<1>2. \A d \in Days : d \in 0..6
  BY <1>1
<1>3. day \in Days <=> w.days = {} \/ day \in w.days
  OBVIOUS
<1>4. Stored!Length(w) = w.end - w.start /\ Stored!Week - 1 = 6
  BY <1>1 DEF Stored!Length, Stored!Week
<1>5. Stored!WindowContains(w, day, minute) <=> minute >= w.start /\ minute < w.end /\ day \in Days
  BY <1>1, <1>3 DEF Stored!WindowContains, Stored!InSpan, Stored!StartedOn
<1>6. ASSUME NEW d \in 0..6, NEW i \in 0..(Stored!Length(w) - 1)
      PROVE  /\ day * DayMinutes + minute = (d * DayMinutes + w.start + i) % (Stored!Week * DayMinutes)
                  <=> d = day /\ minute = w.start + i
             /\ w.start + i \in 0..(DayMinutes - 1) /\ w.start + i < w.end
  <2>1. w.start + i \in 0..(DayMinutes - 1) /\ w.start + i < w.end
    BY <1>1, <1>4
  <2>2. d * DayMinutes + w.start + i = d * DayMinutes + (w.start + i)
    <3>1. d * DayMinutes \in Int /\ w.start \in Int /\ i \in Int
      BY <1>1
    <3> QED BY <3>1
  <2>3. (d * DayMinutes + (w.start + i)) % (7 * DayMinutes) = d * DayMinutes + (w.start + i)
    <3>1. w.start + i \in 0..(2 * DayMinutes - 1) /\ w.start + i < DayMinutes
      BY <2>1
    <3> QED BY <3>1, Onward
  <2>4. day * DayMinutes + minute = d * DayMinutes + (w.start + i) <=> day = d /\ minute = w.start + i
    BY <2>1, MomentIs
  <2> QED BY <2>1, <2>2, <2>3, <2>4 DEF Stored!Week
<1>7. Stored!Covers(w, day * DayMinutes + minute)
        <=> \E d \in Days, i \in 0..(Stored!Length(w) - 1) :
              day * DayMinutes + minute = (d * DayMinutes + w.start + i) % (Stored!Week * DayMinutes)
  BY <1>4 DEF Stored!Covers
<1> HIDE DEF Days
<1>8. ASSUME minute >= w.start, minute < w.end, day \in Days PROVE Stored!Covers(w, day * DayMinutes + minute)
  <2>1. minute - w.start \in 0..(Stored!Length(w) - 1) /\ minute = w.start + (minute - w.start)
    BY <1>1, <1>4, <1>8
  <2> QED BY <2>1, <1>6, <1>7, <1>8
<1>9. ASSUME Stored!Covers(w, day * DayMinutes + minute)
      PROVE  minute >= w.start /\ minute < w.end /\ day \in Days
  <2>1. PICK d \in Days, i \in 0..(Stored!Length(w) - 1) :
              day * DayMinutes + minute = (d * DayMinutes + w.start + i) % (Stored!Week * DayMinutes)
    BY <1>7, <1>9
  <2>2. d = day /\ minute = w.start + i /\ w.start + i < w.end
    BY <2>1, <1>2, <1>6
  <2> QED BY <2>2, <1>1
<1> QED BY <1>5, <1>8, <1>9

\* One that goes over midnight.
LEMMA LongWindow ==
  ASSUME NEW w \in Stored!SomeWindows, w.end <= w.start, NEW day \in 0..6, NEW minute \in 0..(DayMinutes - 1),
         DayMinutes \in Nat \ {0}
  PROVE  Stored!WindowContains(w, day, minute) <=> Stored!Covers(w, day * DayMinutes + minute)
<1>1. /\ w.start \in 0..(DayMinutes - 1) /\ w.end \in 1..DayMinutes
      /\ w.days \in {{}, {0}, {6}, {3, 4}}
  BY DEF Stored!SomeWindows
<1> DEFINE Days == IF w.days = {} THEN 0..6 ELSE w.days
           m    == day * DayMinutes + minute
           Back == (day + 6) % 7
<1>2. \A d \in Days : d \in 0..6
  BY <1>1
<1>3. Back \in 0..6 /\ \A d : d \in Days <=> (d \in 0..6 /\ (w.days = {} \/ d \in w.days))
  BY <1>1
<1>4. Stored!Length(w) = w.end + DayMinutes - w.start /\ Stored!Week - 1 = 6
  BY <1>1 DEF Stored!Length, Stored!Week
<1>5. Stored!WindowContains(w, day, minute) <=>
        \/ minute < w.end /\ Back \in Days
        \/ minute >= w.start /\ day \in Days
  <2>1. ~(minute < w.end /\ minute >= w.start)
    BY <1>1
  <2> HIDE DEF Days
  <2> QED BY <2>1, <1>1, <1>3 DEF Stored!WindowContains, Stored!InSpan, Stored!StartedOn, Stored!Week
<1> DEFINE Here(d, x) == \/ x < DayMinutes /\ d = day /\ minute = x
                         \/ x >= DayMinutes /\ d = Back /\ minute = x - DayMinutes
           Point(d, i) == (d * DayMinutes + w.start + i) % (Stored!Week * DayMinutes)
<1>6. ASSUME NEW d \in 0..6, NEW i \in 0..(Stored!Length(w) - 1)
      PROVE  m = Point(d, i) <=> Here(d, w.start + i)
  <2>1. w.start + i \in 0..(2 * DayMinutes - 1)
    BY <1>1, <1>4
  <2>2. Point(d, i) = At(d, w.start + i)
    <3>1. d * DayMinutes \in Int /\ w.start \in Int /\ i \in Int
      BY <1>1
    <3>2. d * DayMinutes + w.start + i = d * DayMinutes + (w.start + i)
      BY <3>1
    <3> QED BY <3>2 DEF At
  <2>3. m = Moment(day, minute)
    BY DEF Moment
  <2> DEFINE x == w.start + i
  <2>4. x \in 0..(2 * DayMinutes - 1) /\ x \in Int
    BY <2>1
  <2> HIDE DEF m, x, Back
  <2>5. m = At(d, x) <=> Here(d, x)
    <3>1. CASE x < DayMinutes
      <4>1. At(d, x) = Moment(d, x) /\ x \in 0..(DayMinutes - 1)
        BY <2>4, <3>1, Ahead
      <4>2. m = Moment(d, x) <=> day = d /\ minute = x
        BY <4>1, <2>3, MomentIsOne
      <4> QED BY <2>4, <3>1, <4>1, <4>2
    <3>2. CASE x >= DayMinutes
      <4>1. /\ x - DayMinutes \in 0..(DayMinutes - 1)
            /\ \E n \in 0..6 : (n + 6) % 7 = d /\ At(d, x) = Moment(n, x - DayMinutes)
        BY <2>4, <3>2, Ahead
      <4>2. PICK n \in 0..6 : (n + 6) % 7 = d /\ At(d, x) = Moment(n, x - DayMinutes)
        BY <4>1
      <4>3. m = Moment(n, x - DayMinutes) <=> day = n /\ minute = x - DayMinutes
        BY <4>1, <2>3, MomentIsOne
      <4>4. day = n <=> d = Back
        BY <4>2 DEF Back
      <4> QED BY <2>4, <3>2, <4>2, <4>3, <4>4
    <3> QED BY <2>4, <3>1, <3>2
  <2> HIDE DEF Here, Point
  <2>6. m = At(d, w.start + i) <=> Here(d, w.start + i)
    BY <2>5, Zenon DEF x
  <2> QED BY <2>2, <2>6, Zenon
<1>7. Stored!Covers(w, m) <=> \E d \in Days, i \in 0..(Stored!Length(w) - 1) : m = Point(d, i)
  BY <1>4 DEF Stored!Covers
<1> HIDE DEF Days, m, Back, Point
<1>8. ASSUME minute >= w.start, day \in Days PROVE Stored!Covers(w, m)
  <2>1. minute - w.start \in 0..(Stored!Length(w) - 1) /\ minute = w.start + (minute - w.start)
        /\ w.start + (minute - w.start) < DayMinutes
    BY <1>1, <1>4, <1>8
  <2>2. Here(day, w.start + (minute - w.start))
    BY <2>1
  <2> HIDE DEF Here
  <2>3. m = Point(day, minute - w.start)
    BY <2>1, <2>2, <1>6
  <2> QED BY <2>1, <2>3, <1>7, <1>8
<1>9. ASSUME minute < w.end, Back \in Days PROVE Stored!Covers(w, m)
  <2> DEFINE x == minute + DayMinutes
             i == x - w.start
  <2>1. /\ i \in 0..(Stored!Length(w) - 1) /\ w.start + i = x
        /\ x >= DayMinutes /\ minute = x - DayMinutes
    BY <1>1, <1>4, <1>9
  <2> HIDE DEF i, x
  <2>2. Here(Back, x)
    BY <2>1
  <2> HIDE DEF Here
  <2>3. m = Point(Back, i)
    BY <2>1, <2>2, <1>3, <1>6
  <2> QED BY <2>1, <2>3, <1>7, <1>9
<1>10. ASSUME Stored!Covers(w, m)
       PROVE  \/ minute < w.end /\ Back \in Days
              \/ minute >= w.start /\ day \in Days
  <2>1. PICK d \in Days, i \in 0..(Stored!Length(w) - 1) : m = Point(d, i)
    BY <1>7, <1>10
  <2> DEFINE x == w.start + i
  <2>2. x \in Int /\ x - DayMinutes < w.end /\ x >= w.start
    BY <1>1, <1>4
  <2>3. Here(d, w.start + i)
    <3> HIDE DEF Here
    <3> QED BY <2>1, <1>2, <1>6
  <2> HIDE DEF Here, x
  <2>4. Here(d, x)
    BY <2>3, Zenon DEF x
  <2>5. CASE x < DayMinutes /\ d = day /\ minute = x
    BY <2>2, <2>5
  <2>6. CASE x >= DayMinutes /\ d = Back /\ minute = x - DayMinutes
    BY <2>2, <2>6
  <2> QED BY <2>4, <2>5, <2>6 DEF Here
<1>11. Stored!WindowContains(w, day, minute) <=> Stored!Covers(w, m)
  BY <1>5, <1>8, <1>9, <1>10
<1> QED BY <1>11 DEF m

LEMMA WindowCovers ==
  ASSUME NEW w \in Stored!SomeWindows, NEW day \in 0..6, NEW minute \in 0..(DayMinutes - 1)
  PROVE  Stored!WindowContains(w, day, minute) <=> Stored!Covers(w, day * DayMinutes + minute)
<1>1. w.start \in Int /\ w.end \in Int
  BY DEF Stored!SomeWindows
<1>2. CASE w.end > w.start
  BY <1>2, ShortWindow, DayHasMinutes
<1>3. CASE w.end <= w.start
  BY <1>3, LongWindow, DayHasMinutes
<1> QED BY <1>1, <1>2, <1>3

\* The counts two windows leave.
Over(counts, w, day, minute) ==
  IF Stored!WindowContains(w, day, minute)
  THEN [c \in DOMAIN counts |-> IF c \in DOMAIN w.counts THEN w.counts[c] ELSE counts[c]] ELSE counts

LEMMA ScheduleUnrolled ==
  ASSUME NEW base, NEW v, NEW w, NEW day, NEW minute
  PROVE  Stored!EvaluateSchedule(base, <<v, w>>, day, minute)
           = Over(Over(base, v, day, minute), w, day, minute)
<1> DEFINE windows == <<v, w>>
           Overwrite(counts, x) ==
             [c \in DOMAIN counts |-> IF c \in DOMAIN x.counts THEN x.counts[c] ELSE counts[c]]
           Step(f, n) == IF n = 0 THEN base
                         ELSE IF Stored!WindowContains(windows[n], day, minute) THEN Overwrite(f[n - 1], windows[n])
                              ELSE f[n - 1]
           after == CHOOSE f : f = [n \in 0..Len(windows) |-> Step(f, n)]
           first  == Over(base, v, day, minute)
           second == Over(first, w, day, minute)
           known  == [n \in 0..2 |-> IF n = 0 THEN base ELSE IF n = 1 THEN first ELSE second]
<1>1. Len(windows) = 2 /\ windows[1] = v /\ windows[2] = w
  OBVIOUS
<1>2. Stored!EvaluateSchedule(base, <<v, w>>, day, minute) = after[Len(windows)]
  BY DEF Stored!EvaluateSchedule
<1> HIDE DEF windows
<1>3. \A f, x : /\ windows[x] = v => Step(f, x) = (IF x = 0 THEN base ELSE Over(f[x - 1], v, day, minute))
                /\ windows[x] = w => Step(f, x) = (IF x = 0 THEN base ELSE Over(f[x - 1], w, day, minute))
                /\ x = 0 => Step(f, x) = base
  BY DEF Over
<1> HIDE DEF Step
<1>4. \A n \in 0..2 : known[n] = Step(known, n)
  <2>1. \A n \in 0..2 : n = 0 \/ n = 1 \/ n = 2
    OBVIOUS
  <2>2. known[0] = base /\ known[1] = first /\ known[2] = second
    BY DEF known
  <2> HIDE DEF known
  <2>3. known[0] = Step(known, 0)
    BY <2>2, <1>3
  <2>4. known[1] = Step(known, 1)
    BY <2>2, <1>3, <1>1
  <2>5. known[2] = Step(known, 2)
    BY <2>2, <1>3, <1>1
  <2> QED BY <2>1, <2>3, <2>4, <2>5
<1>5. known = [n \in 0..Len(windows) |-> Step(known, n)]
  <2>1. known = [n \in 0..2 |-> known[n]]
    BY DEF known
  <2> HIDE DEF known
  <2> QED BY <2>1, <1>1, <1>4
<1>6. after = [n \in 0..Len(windows) |-> Step(after, n)]
  <2> HIDE DEF known
  <2> QED BY <1>5
<1>7. \A n \in 0..2 : after[n] = Step(after, n)
  <2> HIDE DEF after
  <2> QED BY <1>6, <1>1
<1> HIDE DEF after
<1>8. after[0] = base /\ after[1] = Over(after[0], v, day, minute) /\ after[2] = Over(after[1], w, day, minute)
  BY <1>7, <1>3, <1>1
<1> QED BY <1>8, <1>2, <1>1

\* The windows mean what they cover.
LEMMA WindowsMean == Stored!WindowMeansItsSpan
<1> DEFINE Base == [transcode |-> 1, health |-> 0]
           Naming(ws, m, c) == {i \in DOMAIN ws : Stored!Covers(ws[i], m) /\ c \in DOMAIN ws[i].counts}
<1> SUFFICES ASSUME NEW v \in Stored!SomeWindows, NEW w \in Stored!SomeWindows,
                    NEW day \in {0, 1, 6}, NEW minute \in 0..(DayMinutes - 1), NEW c \in DOMAIN Base
             PROVE  Stored!EvaluateSchedule(Base, <<v, w>>, day, minute)[c] =
                      CASE 2 \in Naming(<<v, w>>, day * DayMinutes + minute, c) -> w.counts[c]
                        [] Naming(<<v, w>>, day * DayMinutes + minute, c) = {1} -> v.counts[c]
                        [] OTHER -> Base[c]
  BY DEF Stored!WindowMeansItsSpan
<1> DEFINE m == day * DayMinutes + minute
           ws == <<v, w>>
           N == Naming(ws, m, c)
<1>1. day \in 0..6
  OBVIOUS
<1>2. /\ Stored!WindowContains(v, day, minute) <=> Stored!Covers(v, m)
      /\ Stored!WindowContains(w, day, minute) <=> Stored!Covers(w, m)
  BY <1>1, WindowCovers
<1>3. DOMAIN ws = {1, 2} /\ ws[1] = v /\ ws[2] = w
  OBVIOUS
<1> HIDE DEF ws, m
<1>4. /\ 1 \in N <=> Stored!Covers(v, m) /\ c \in DOMAIN v.counts
      /\ 2 \in N <=> Stored!Covers(w, m) /\ c \in DOMAIN w.counts
      /\ N \subseteq {1, 2}
  BY <1>3
<1> HIDE DEF Naming, N, Base
<1>5. Stored!EvaluateSchedule(Base, ws, day, minute) = Over(Over(Base, v, day, minute), w, day, minute)
  BY ScheduleUnrolled DEF ws
<1>6. \A counts, x : DOMAIN Over(counts, x, day, minute) = DOMAIN counts
  BY DEF Over
<1>7. \A counts, x : c \in DOMAIN counts =>
        Over(counts, x, day, minute)[c] =
          IF Stored!WindowContains(x, day, minute) /\ c \in DOMAIN x.counts THEN x.counts[c] ELSE counts[c]
  BY DEF Over
<1>8. Stored!EvaluateSchedule(Base, ws, day, minute)[c] =
        IF 2 \in N THEN w.counts[c] ELSE IF 1 \in N THEN v.counts[c] ELSE Base[c]
  BY <1>2, <1>4, <1>5, <1>6, <1>7
<1>9. 2 \notin N => (N = {1} <=> 1 \in N)
  BY <1>4
<1>10. Stored!EvaluateSchedule(Base, ws, day, minute)[c] =
        CASE 2 \in N -> w.counts[c] [] N = {1} -> v.counts[c] [] OTHER -> Base[c]
  <2>1. CASE 2 \in N
    <3>1. N # {1}
      BY <2>1
    <3> QED BY <2>1, <3>1, <1>8
  <2>2. CASE 2 \notin N
    BY <2>2, <1>8, <1>9
  <2> QED BY <2>1, <2>2
<1> QED BY <1>10 DEF N, ws, m

\* The environment fills the settings that are unset and overrides none, a save changes what its
\* section shows and no other, what was typed stays until it is saved or discarded, the windows
\* of a schedule mean the minutes they cover (Settings: db/settings-repo.ts, config/env-settings.ts,
\* Config.tsx, core schedule.ts), and a stored secret stays with the name and the host it was typed
\* for, by one rule in the browser and in the daemon (AlertSettings: routes/alerts.ts, alerts-model.ts).
THEOREM SettingsKept == ControlSpec => SettingsAreKept
<1>1. ControlInit => SettingsInv /\ DestsInv
  BY SettingsStart, DestsStart DEF ControlInit
<1>2. SettingsInv /\ DestsInv /\ [ControlNext]_controlVars => SettingsInv' /\ DestsInv'
  <2> SUFFICES ASSUME SettingsInv, DestsInv, [ControlNext]_controlVars PROVE SettingsInv' /\ DestsInv'
    OBVIOUS
  <2>1. [Stored!SettingsNext]_settingVars /\ [Dests!AlertSettingsNext]_destVars
    BY ControlSteps
  <2> QED BY <2>1, SettingsStep, DestsStep
<1>3. SettingsInv /\ DestsInv =>
        /\ part = "settings" /\ starts = 0 => Stored!WindowMeansItsSpan
        /\ part = "settings" => Stored!SeedsFillOnly
        /\ part = "alerts" => Dests!SecretsStayHome /\ Dests!BothChecksAgree
  <2> SUFFICES ASSUME SettingsInv, DestsInv
               PROVE  /\ Stored!WindowMeansItsSpan /\ Stored!SeedsFillOnly
                      /\ Dests!SecretsStayHome /\ Dests!BothChecksAgree
    OBVIOUS
  <2>1. AreRows(setting)
    BY DEF SettingsInv
  <2> QED BY <2>1, WindowsMean, SeedsOnlyFill, SecretsAreHome
<1>4. SettingsInv /\ [ControlNext]_controlVars =>
        /\ [daemon = "up" =>
             \A k \in Stored!Keys : Stored!Value(setting', k) # Stored!Value(setting, k) =>
               \E p \in Tabs :
                 /\ page[p].put.at = "sent" /\ page'[p].put.at # "sent"
                 /\ k \in Stored!Shows(page[p].section) /\ Stored!Value(setting', k) = page[p].put.value[k]]_Stored!settingVars
        /\ [\A p \in Tabs :
             page[p].dirty /\ ~page'[p].dirty =>
               \/ page'[p].shown = page[p].kept /\ page'[p].put = page[p].put /\ page'[p].get = page[p].get
               \/ /\ page[p].put.at = "served"
                  /\ page[p].section \in Stored!Locked =>
                       \A k \in Stored!Shows(page[p].section) :
                         page[p].shown[k] = page[p].put.value[k]]_Stored!settingVars
  BY SettingsStep, ControlSteps DEF SaveIsNarrow, TypedStays
<1> QED
  BY <1>1, <1>2, <1>3, <1>4, PTL
     DEF ControlSpec, SettingsAreKept, Stored!SavesAreNarrow, Stored!TypedIsKept
=============================================================================
