--------------------------- MODULE AlertSettings ---------------------------
(***************************************************************************)
(* The destinations of alerts and their secrets (server api/routes/        *)
(* alerts.ts, db/settings-repo.ts; web Alerts.tsx, alerts-model.ts).  A    *)
(* secret leaves the daemon as a mask, comes back as the mask when it is   *)
(* to be kept, and may be kept only where it belongs.                      *)
(***************************************************************************)
EXTENDS Naturals, Sequences, FiniteSets, SequencesExt

CONSTANTS
  Screens,     \* browsers that show the alerts
  DestNames,   \* names of destinations
  Hosts,       \* hosts of webhooks
  MaxRows,     \* bound: rows of a form
  MaxHeaders,  \* bound: headers of a destination, all of one name
  MaxFormEdits, \* bound: edits of the forms
  MaxPuts      \* bound: saves

VARIABLES
  destination, \* the destination of each name
  used,        \* names that published flows send to
  screen,      \* what each browser loaded and made of it
  formEdits, puts

alertSettingVars == <<destination, used, screen, formEdits, puts>>

\* A secret: the name and the host it was typed for, and which one it is.
Secret(name, host, id) == [for |-> name, host |-> host, id |-> id]
Secrets == [for : DestNames, host : Hosts, id : 0..(MaxHeaders + MaxPuts)]

\* A stored destination: the host of its url, the token in its path, its header values.
NoDest == [host |-> "", token |-> 0, headers |-> <<>>]

\* maskUrl shows the origin of a url and nothing of its path; a header value shows nothing.
Masked(host) == [masked |-> TRUE, host |-> host]
Typed(host)  == [masked |-> FALSE, host |-> host]

\* What GET answers, by name (present).
Presented(s) == [n \in DestNames |-> [host |-> s[n].host, headers |-> Len(s[n].headers)]]
Known(loaded) == {n \in DestNames : loaded[n].host # ""}

\* A row of the form has the key of what it was loaded from ("" for a new one), and so
\* has each of its headers (formFromResource).
FormOf(loaded) ==
  LET RowFor(n) == [key |-> n, name |-> n, url |-> Masked(loaded[n].host),
                    headers |-> [i \in 1..loaded[n].headers |-> [key |-> i, masked |-> TRUE]]]
  IN {RowFor(n) : n \in Known(loaded)}

NoScreen == [at |-> "none", form |-> {}, loaded |-> [n \in DestNames |-> [host |-> "", headers |-> 0]]]

-----------------------------------------------------------------------------
(* The form.                                                               *)

\* urlIsKept: the url is exactly the mask that was answered for a destination of this name.
UrlIsKept(r, loaded) == r.name \in Known(loaded) /\ r.url = Masked(loaded[r.name].host)

\* validateAlerts of the browser: names are unique, and a mask is sent only where the daemon
\* would keep what it stands for; headers of one name are told by their order.
RowIsSendable(r, loaded) ==
  /\ r.url.masked => UrlIsKept(r, loaded)
  /\ \A i \in DOMAIN r.headers :
       r.headers[i].masked => UrlIsKept(r, loaded) /\ i <= loaded[r.name].headers

UniqueNames(form) == \A r, q \in form : r.name = q.name => r = q
FormIsSendable(form, loaded) == UniqueNames(form) /\ \A r \in form : RowIsSendable(r, loaded)

LoadAlerts(b) ==
  /\ screen[b].at = "none"
  /\ screen' = [screen EXCEPT ![b] = [at |-> "ready", form |-> FormOf(Presented(destination)),
                                      loaded |-> Presented(destination)]]
  /\ UNCHANGED <<destination, used, formEdits, puts>>

\* A row is renamed, pointed elsewhere, given a header, retyped in one or rid of one.
Edited(r) ==
       {[r EXCEPT !.name = n] : n \in DestNames}
  \cup {[r EXCEPT !.url = Typed(h)] : h \in Hosts}
  \cup {[r EXCEPT !.headers = Append(@, [key |-> 0, masked |-> FALSE])]}
  \cup {[r EXCEPT !.headers[i].masked = FALSE] : i \in DOMAIN r.headers}
  \cup {[r EXCEPT !.headers = SubSeq(@, 1, i - 1) \o SubSeq(@, i + 1, Len(@))] : i \in DOMAIN r.headers}

NewRows == [key : {""}, name : DestNames, url : {Typed(h) : h \in Hosts}, headers : {<<>>}]

\* A row is edited or removed, or one is added.
EditedForms(form) ==
       (UNION {{(form \ {r}) \cup {q} : q \in Edited(r)} : r \in form})
  \cup {form \ {r} : r \in form}
  \cup {form \cup {r} : r \in NewRows}

\* The inputs and buttons are disabled while a save is on its way.
EditForm(b) ==
  /\ screen[b].at = "ready" /\ formEdits < MaxFormEdits
  /\ \E form \in EditedForms(screen[b].form) :
       /\ form # screen[b].form /\ Cardinality(form) <= MaxRows
       /\ \A r \in form : Len(r.headers) <= MaxHeaders
       /\ screen' = [screen EXCEPT ![b].form = form]
  /\ formEdits' = formEdits + 1
  /\ UNCHANGED <<destination, used, puts>>

SaveAlerts(b) ==
  /\ screen[b].at = "ready" /\ puts < MaxPuts
  /\ FormIsSendable(screen[b].form, screen[b].loaded)
  /\ screen' = [screen EXCEPT ![b].at = "saving"]
  /\ puts' = puts + 1
  /\ UNCHANGED <<destination, used, formEdits>>

\* A script that uses the same routes checks nothing.
SendUnchecked(b) ==
  /\ screen[b].at = "ready" /\ puts < MaxPuts
  /\ screen' = [screen EXCEPT ![b].at = "saving"]
  /\ puts' = puts + 1
  /\ UNCHANGED <<destination, used, formEdits>>

-----------------------------------------------------------------------------
(* PUT /alerts.                                                            *)

\* A masked url is a request to keep the one stored under the same name.
KeepsUrl(r) == r.url.masked /\ destination[r.name] # NoDest /\ r.url.host = destination[r.name].host

\* A masked header is kept only beside a url that is kept, or a stored token could be sent
\* to a host it was not typed for.
KeepsHeaderAlone(r, i) == destination[r.name] # NoDest /\ i <= Len(destination[r.name].headers)
KeepsHeader(r, i) == KeepsUrl(r) /\ i <= Len(destination[r.name].headers)

Mergeable(form) ==
  /\ UniqueNames(form)
  /\ \A r \in form : /\ r.url.masked => KeepsUrl(r)
                     /\ \A i \in DOMAIN r.headers : r.headers[i].masked => KeepsHeader(r, i)

\* What a row becomes: what was typed in it is new, and belongs to it.
Merged(r) ==
  [host    |-> r.url.host,
   token   |-> IF r.url.masked THEN destination[r.name].token ELSE MaxHeaders + puts,
   headers |-> [i \in DOMAIN r.headers |->
                  IF r.headers[i].masked THEN destination[r.name].headers[i]
                  ELSE Secret(r.name, r.url.host, MaxHeaders + puts)]]

\* A destination that a published flow names is neither removed nor renamed.
Unreferenced(form) == \A n \in used : destination[n] # NoDest => \E r \in form : r.name = n

Stored(form) == [n \in DestNames |-> IF \E r \in form : r.name = n
                                     THEN Merged(CHOOSE r \in form : r.name = n) ELSE NoDest]

ServeAlerts(b) ==
  /\ screen[b].at = "saving"
  /\ IF Mergeable(screen[b].form) /\ Unreferenced(screen[b].form)
     THEN /\ destination' = Stored(screen[b].form)
          /\ screen' = [screen EXCEPT ![b] = [at |-> "answered", form |-> @.form, loaded |-> Presented(destination')]]
     ELSE screen' = [screen EXCEPT ![b].at = "ready"] /\ UNCHANGED destination
  /\ UNCHANGED <<used, formEdits, puts>>

\* The answer replaces the form.
TakeAlerts(b) ==
  /\ screen[b].at = "answered"
  /\ screen' = [screen EXCEPT ![b] = [at |-> "ready", form |-> FormOf(@.loaded), loaded |-> @.loaded]]
  /\ UNCHANGED <<destination, used, formEdits, puts>>

\* A flow is published with a Send Webhook node, or without the one it had.
PublishUse(n) ==
  /\ used' = IF n \in used THEN used \ {n} ELSE used \cup {n}
  /\ formEdits < MaxFormEdits /\ formEdits' = formEdits + 1
  /\ UNCHANGED <<destination, screen, puts>>

-----------------------------------------------------------------------------

\* Destinations of one host, with two headers of one name.
AlertSettingsInit ==
  /\ destination \in {[n \in DestNames |-> [host |-> h, token |-> 0,
                   headers |-> [i \in 1..MaxHeaders |-> Secret(n, h, i)]]] : h \in Hosts}
  /\ used = {} /\ screen = [b \in Screens |-> NoScreen] /\ formEdits = 0 /\ puts = 0

AlertSettingsNext ==
  \/ \E b \in Screens :
       \/ LoadAlerts(b) \/ EditForm(b) \/ SaveAlerts(b) \/ SendUnchecked(b)
       \/ ServeAlerts(b) \/ TakeAlerts(b)
  \/ \E n \in DestNames : PublishUse(n)

-----------------------------------------------------------------------------

\* The destinations, the forms and their rows have their types.
AlertSettingsTypeOK ==
  /\ \A n \in DestNames : destination[n] = NoDest \/
       (destination[n].host \in Hosts /\ ToSet(destination[n].headers) \subseteq Secrets)
  /\ used \subseteq DestNames /\ formEdits \in 0..MaxFormEdits /\ puts \in 0..MaxPuts
  /\ \A b \in Screens :
       /\ screen[b].at \in {"none", "ready", "saving", "answered"}
       /\ \A r \in screen[b].form :
            /\ r.key \in DestNames \cup {""} /\ r.name \in DestNames
            /\ r.url.host \in Hosts /\ Len(r.headers) <= MaxHeaders

\* A stored secret lies under the name and beside the host it was typed for, whatever was
\* renamed, pointed elsewhere or saved from another browser meanwhile (merge).
SecretsStayHome ==
  \A n \in DestNames : \A i \in DOMAIN destination[n].headers :
    destination[n].headers[i].for = n /\ destination[n].headers[i].host = destination[n].host

\* The browser refuses before it sends exactly what the daemon would refuse of a form whose
\* masks are still those of the stored destinations: two versions of one rule
\* (alerts-model.ts validateAlerts, alerts.ts merge).
BothChecksAgree ==
  \A b \in Screens : screen[b].at = "ready" /\ screen[b].loaded = Presented(destination)
                       => (FormIsSendable(screen[b].form, screen[b].loaded) <=> Mergeable(screen[b].form))

\* Does not hold: headers of one name are told by their order, so the second of two takes the
\* value of the first when that is removed ("each keeps its own stored value", alerts.ts); and
\* a row renamed to a name that was removed from the form keeps that destination's url and
\* headers when their hosts are the same, and loses its own.
EachKeepsItsOwn ==
  [][\A b \in Screens : screen[b].at = "saving" /\ screen'[b].at = "answered" =>
       \A r \in screen[b].form :
         /\ r.url.masked /\ r.key # "" => destination'[r.name].token = destination[r.key].token
         /\ \A i \in DOMAIN r.headers : r.headers[i].masked =>
              destination'[r.name].headers[i] = destination[r.key].headers[r.headers[i].key]]_alertSettingVars

AlertSettingsSpec == AlertSettingsInit /\ [][AlertSettingsNext]_alertSettingVars
=============================================================================
