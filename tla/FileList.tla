------------------------------ MODULE FileList ------------------------------
(***************************************************************************)
(* The list of files (web/src/screens/files/Files.tsx): it asks for every  *)
(* page of the files its filters take, one after the other                 *)
(* (GET /files of server/src/api/routes/files.ts, MediaFileRepo.query), and*)
(* shows what has come.  Pages are counted from the front of the list as it*)
(* is when each is asked for, while scans and runs change that list, and   *)
(* the operator changes the filters while pages are on their way.          *)
(***************************************************************************)
EXTENDS Naturals, Sequences, FiniteSets, SequencesExt

CONSTANTS
  Paths,     \* the files the library may have, in the order of their paths
  States,    \* the ledger states the filter offers
  Searches,  \* what the operator searches the paths for, and
  Matches,   \*   the files each of them finds
  PageSize,  \* the rows of one page
  MaxTurns,  \* bound: what the operator does
  MaxMoves   \* bound: the rows that come, go or change

VARIABLES
  ledger,   \* the state of each file that has a row
  filters,  \* the filters in the address
  field,    \* the search as it stands in its field, and whether it was typed
  list,     \* the rows that have come, the total, and whether more are to come
  fetches,  \* the loops that ask for pages, dropped ones among them
  moved,    \* the filtered list has changed since the last loop began
  turns, moves

listVars == <<ledger, filters, field, list, fetches, moved, turns, moves>>

Unset    == "any"
Absent == "absent"
NoPage == [items |-> <<>>, total |-> 0, asked |-> FALSE]
Empty  == [rows |-> <<>>, total |-> 0, loading |-> TRUE, more |-> FALSE, failed |-> FALSE]

Fetch(f) == [filters |-> f, offset |-> 0, collected |-> <<>>, page |-> NoPage, cancelled |-> FALSE]

ListInit ==
  /\ ledger \in [Paths -> States \cup {Absent}]
  /\ filters = [state |-> Unset, q |-> Unset]
  /\ field = [q |-> Unset, typed |-> FALSE]
  /\ list = Empty
  /\ fetches = {Fetch(filters)}
  /\ moved = FALSE /\ turns = 0 /\ moves = 0

\* One condition for the rows and for their total.
Takes(f, p) ==
  /\ ledger[p] # Absent
  /\ f.state \in {Unset, ledger[p]}
  /\ f.q = Unset \/ p \in Matches[f.q]

\* Each file at the place that the number of those before it gives.
InOrder(S) ==
  [i \in 1..Cardinality(S) |-> CHOOSE p \in S : Cardinality({q \in S : q < p}) = i - 1]

Filtered(f) == InOrder({p \in Paths : Takes(f, p)})

Page(rows, offset) == SubSeq(rows, offset + 1, Min({offset + PageSize, Len(rows)}))

query(f, offset) ==
  [items |-> Page(Filtered(f), offset), total |-> Len(Filtered(f)), asked |-> TRUE]

-----------------------------------------------------------------------------

\* A scan or a run changes a row, brings one, or takes one away.
Move(p, s) ==
  /\ moves < MaxMoves /\ s # ledger[p]
  /\ ledger' = [ledger EXCEPT ![p] = s] /\ UNCHANGED filters
  /\ moved' = (moved \/ Filtered(filters)' # Filtered(filters))
  /\ moves' = moves + 1
  /\ UNCHANGED <<field, list, fetches, turns>>

\* The daemon answers with the page as it is now.
Serve(l) ==
  /\ ~ l.page.asked
  /\ fetches' = (fetches \ {l}) \cup {[l EXCEPT !.page = query(l.filters, l.offset)]}
  /\ UNCHANGED <<ledger, filters, field, list, moved, turns, moves>>

\* The page is added to what has come, and the next one is asked for until all of them have:
\* unless this loop was dropped while it waited.
Arrive(l) ==
  LET all  == l.collected \o l.page.items
      next == l.offset + PageSize
      done == l.page.items = <<>> \/ next >= l.page.total
  IN /\ l.page.asked
     /\ IF l.cancelled
        THEN fetches' = fetches \ {l} /\ UNCHANGED list
        ELSE /\ list' = [rows |-> all, total |-> l.page.total, loading |-> FALSE, more |-> ~ done, failed |-> FALSE]
             /\ fetches' = (fetches \ {l}) \cup
                  (IF done THEN {} ELSE {[l EXCEPT !.offset = next, !.collected = all, !.page = NoPage]})
     /\ UNCHANGED <<ledger, filters, field, moved, turns, moves>>

\* A page cannot be had.
Fail(l) ==
  /\ turns < MaxTurns /\ turns' = turns + 1
  /\ fetches' = fetches \ {l}
  /\ list' = IF l.cancelled THEN list ELSE [list EXCEPT !.loading = FALSE, !.more = FALSE, !.failed = TRUE]
  /\ UNCHANGED <<ledger, filters, field, moved, moves>>

\* The effect of other filters: the loop is dropped, and another begins from an empty list.
Reload(f) ==
  /\ list' = Empty
  /\ fetches' = {[l EXCEPT !.cancelled = TRUE] : l \in fetches} \cup {Fetch(f)}
  /\ moved' = FALSE

\* The field follows the filter whenever that changes.
Resync(f) == IF f.q = filters.q THEN field ELSE [q |-> f.q, typed |-> FALSE]

Navigate(f) ==
  /\ turns < MaxTurns /\ turns' = turns + 1
  /\ filters' = f
  /\ IF f = filters THEN UNCHANGED <<list, fetches, moved>> ELSE Reload(f)
  /\ UNCHANGED <<ledger, moves>>

\* A state is chosen; the page before is gone back to, or a link is followed.
SetState(s) == LET f == [filters EXCEPT !.state = s] IN Navigate(f) /\ field' = Resync(f)

FollowLink(f) == f # filters /\ Navigate(f) /\ field' = Resync(f)

Type(q) ==
  /\ turns < MaxTurns /\ turns' = turns + 1
  /\ field' = [q |-> q, typed |-> TRUE]
  /\ UNCHANGED <<ledger, filters, list, fetches, moved, moves>>

Apply ==
  LET f == [filters EXCEPT !.q = field.q] IN
  Navigate(f) /\ field' = [Resync(f) EXCEPT !.typed = FALSE]

\* Retry asks again for the same.
Retry ==
  /\ turns < MaxTurns /\ turns' = turns + 1
  /\ list.failed
  /\ Reload(filters)
  /\ UNCHANGED <<ledger, filters, field, moves>>

ListNext ==
  \/ \E p \in Paths, s \in States \cup {Absent} : Move(p, s)
  \/ \E l \in fetches : Serve(l) \/ Arrive(l) \/ Fail(l)
  \/ \E s \in States \cup {Unset} : SetState(s)
  \/ \E s \in States \cup {Unset}, q \in Searches \cup {Unset} : FollowLink([state |-> s, q |-> q])
  \/ \E q \in Searches \cup {Unset} : Type(q)
  \/ Apply \/ Retry

ListTypeOK ==
  /\ ledger \in [Paths -> States \cup {Absent}]
  /\ filters.state \in States \cup {Unset} /\ {filters.q, field.q} \subseteq Searches \cup {Unset}
  /\ Range(list.rows) \subseteq Paths

\* When every page has come, the list holds each of the files its filters take, once and in
\* order, and its total counts them, if none came, went or changed meanwhile.
ListIsWhole ==
  ~ list.loading /\ ~ list.more /\ ~ list.failed /\ ~ moved =>
    list.rows = Filtered(filters) /\ list.total = Len(list.rows)

\* It says that more is to come exactly while one loop is asking, for the filters it has now.
ListEnds ==
  LET alive == {l \in fetches : ~ l.cancelled} IN
  /\ (list.loading \/ list.more) <=> alive # {}
  /\ \A l \in alive : l.filters = filters /\ l.collected = list.rows

\* A search that was not typed is the one the list is filtered by: Apply never sends a text
\* that an address has replaced.
DraftIsTheFilter == ~ field.typed => field.q = filters.q

\* Does not hold: no file is listed twice, or skipped, because another came before it.
NoFileTwice == IsInjective(list.rows)

ListSpec == ListInit /\ [][ListNext]_listVars
=============================================================================
