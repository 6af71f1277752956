------------------------------ MODULE SavedFilters ------------------------------
(***************************************************************************)
(* The saved filters of a list, kept in the browser's local storage and    *)
(* shared by all tabs.  A panel keeps the views it loaded last; every      *)
(* change goes through load, change, validate and store.                   *)
(* A search is what the URL of a tab holds: filters, perhaps a cursor, and *)
(* perhaps what no saved filter has (an unknown or repeated field, too     *)
(* long a text); bytes is the size of its JSON.  What the user types as a  *)
(* name is chosen when it is used; error messages are left out.            *)
(***************************************************************************)
EXTENDS MonitorQueries

CONSTANTS Tabs, Names, Searches,
          Trim, Lower,          \* String.trim and toLowerCase, as functions on Names
          MAX_FILTERS, MAX_STORAGE_BYTES,
          MaxSaves              \* bound on the ids handed out

ASSUME SavedFiltersAssumption ==
    /\ MAX_FILTERS \in Nat /\ MAX_STORAGE_BYTES \in Nat /\ MaxSaves \in Nat
    /\ Trim \in [Names -> Names] /\ Lower \in [Names -> Names] /\ "" \in Names
    /\ \A name \in Names : Trim[Trim[name]] = Trim[name]

VARIABLES stored,   \* [readable, views]: the item of local storage
          panels,   \* the state of the panel of each tab, with the search of its URL
          saves

savedVars == <<stored, panels, saves>>

--------------------------------------------------------------------------------
(* Storage. *)

Rejected == [ok |-> FALSE, views |-> <<>>]
Accepted(views) == [ok |-> TRUE, views |-> views]

\* Broken: any combination of filters is saved.
normalizesLoosely(search) == ~search.unsupported

normalizes(search) ==
    LET f == search.filters
    IN  /\ ~search.unsupported
        /\ Malformed \notin {f.from, f.to}
        /\ (f.from # Absent /\ f.to # Absent) => f.from < f.to
        /\ f.definitionVersion # Absent => f.definitionVersion \in 1..MaxVersion /\ f.definitionId # 0
        /\ f.currentStepId # 0 => f.definitionId # 0
        /\ f.stepStartedBefore # Absent => f.currentStepId # 0 /\ f.stepStartedBefore # Malformed
        /\ f.statuses \subseteq PROCESS_INSTANCE_STATUSES

\* Cursor and page size are dropped.
normalizeFilterSearch(search) ==
    [filters |-> search.filters, cursor |-> <<>>, unsupported |-> search.unsupported,
     bytes |-> search.bytes]

Bytes(views) ==
    LET sum[n \in 0..Len(views)] == IF n = 0 THEN 0 ELSE sum[n - 1] + views[n].search.bytes
    IN  sum[Len(views)]

validateViews(views) ==
    IF /\ Len(views) <= MAX_FILTERS
       /\ \A n \in DOMAIN views : Trim[views[n].name] # "" /\ normalizes(views[n].search)
       /\ \A m, n \in DOMAIN views : m # n =>
              /\ views[m].id # views[n].id
              /\ Lower[Trim[views[m].name]] # Lower[Trim[views[n].name]]
    THEN Accepted([n \in DOMAIN views |->
             [id |-> views[n].id, name |-> Trim[views[n].name],
              search |-> normalizeFilterSearch(views[n].search)]])
    ELSE Rejected

loadSavedFilters ==
    IF ~stored.readable \/ Bytes(stored.views) > MAX_STORAGE_BYTES THEN Rejected
    ELSE validateViews(stored.views)

\* What storeSavedFilters would write.
storeSavedFilters(views) ==
    LET valid == validateViews(views)
    IN  IF valid.ok /\ Bytes(valid.views) > MAX_STORAGE_BYTES THEN Rejected ELSE valid

--------------------------------------------------------------------------------
(* The panel. *)

Find(views, P(_)) ==
    LET found == {n \in DOMAIN views : P(views[n])}
    IN  IF found = {} THEN <<>> ELSE <<views[CHOOSE n \in found : \A m \in found : n <= m]>>

\* The initial state of a panel on a page with this search.
mountPanel(search) ==
    LET loaded  == loadSavedFilters
        applied == IF normalizes(search)
                   THEN Find(loaded.views, LAMBDA v : v.search = normalizeFilterSearch(search)) ELSE <<>>
    IN  [search |-> search, views |-> loaded.views,
         selected |-> IF applied = <<>> THEN 0 ELSE applied[1].id]

Fail == UNCHANGED <<stored, panels>>

\* Broken: a change starts from what the panel shows, not from the storage.
viewsShown(t) == Accepted(panels[t].views)

viewsToChange(t) == loadSavedFilters

\* update with the changed views, and what the caller selects when it succeeds; writing
\* may fail for want of space.
update(t, changed, selected) ==
    LET views == storeSavedFilters(changed)
    IN  \/ Fail
        \/ /\ viewsToChange(t).ok /\ views.ok
           /\ stored' = [readable |-> TRUE, views |-> views.views]
           /\ panels' = [panels EXCEPT ![t] = [@ EXCEPT !.views = views.views, !.selected = selected]]

Save(t) ==
    /\ saves < MaxSaves /\ saves' = saves + 1
    /\ \E name \in Names :
          LET view == [id |-> saves + 1, name |-> name, search |-> panels[t].search]
          IN  IF ~normalizes(view.search) THEN Fail
              ELSE update(t, Append(viewsToChange(t).views, view), panels[t].selected)

Select(t) ==
    /\ \E n \in 0..Len(panels[t].views) :
          panels' = [panels EXCEPT ![t].selected = IF n = 0 THEN 0 ELSE panels[t].views[n].id]
    /\ UNCHANGED <<stored, saves>>

Renamed(views, id, name) ==
    [n \in DOMAIN views |-> [id |-> views[n].id, search |-> views[n].search,
                             name |-> IF views[n].id = id THEN name ELSE views[n].name]]

Rename(t) ==
    /\ panels[t].selected # 0
    /\ \E name \in Names :
          update(t, Renamed(viewsToChange(t).views, panels[t].selected, name), panels[t].selected)
    /\ UNCHANGED saves

\* No two views have the same id.
Without(views, id) ==
    IF \E n \in DOMAIN views : views[n].id = id
    THEN LET n == CHOOSE n \in DOMAIN views : views[n].id = id
         IN  SubSeq(views, 1, n - 1) \o SubSeq(views, n + 1, Len(views))
    ELSE views

Delete(t) ==
    /\ panels[t].selected # 0
    /\ update(t, Without(viewsToChange(t).views, panels[t].selected), 0)
    /\ UNCHANGED saves

Clear(t) ==
    /\ stored' = [readable |-> TRUE, views |-> <<>>]
    /\ panels' = [panels EXCEPT ![t] = [@ EXCEPT !.views = <<>>, !.selected = 0]]
    /\ UNCHANGED saves

\* The tab goes to a search; the panel is mounted again when the list has to be loaded.
Visit(t, search) ==
    \/ panels' = [panels EXCEPT ![t].search = search]
    \/ panels' = [panels EXCEPT ![t] = mountPanel(search)]

Apply(t) ==
    /\ panels[t].selected # 0
    /\ LET view == Find(loadSavedFilters.views, LAMBDA v : v.id = panels[t].selected)
       IN  /\ loadSavedFilters.ok /\ view # <<>>
           /\ Visit(t, normalizeFilterSearch(view[1].search))
    /\ UNCHANGED <<stored, saves>>

\* Any other navigation.
Browse(t) ==
    /\ \E search \in Searches : search # panels[t].search /\ Visit(t, search)
    /\ UNCHANGED <<stored, saves>>

--------------------------------------------------------------------------------

\* Nothing is stored yet, or something that this version cannot read.
SavedInit ==
    /\ stored \in {[readable |-> TRUE, views |-> <<>>], [readable |-> FALSE, views |-> <<>>]}
    /\ \E search \in Searches : panels = [t \in Tabs |-> mountPanel(search)]
    /\ saves = 0

SavedNext ==
    \E t \in Tabs :
        Save(t) \/ Select(t) \/ Rename(t) \/ Delete(t) \/ Clear(t) \/ Apply(t) \/ Browse(t)

SavedSpec == SavedInit /\ [][SavedNext]_savedVars

--------------------------------------------------------------------------------
(* Properties. *)

\* A saved filter leaves the storage only when a tab deletes the very filter it has
\* selected or clears the list: no tab overwrites what another one saved meanwhile.
SavedFiltersSurvive ==
    [][LET ids(views) == {views[n].id : n \in DOMAIN views}
           lost == ids(stored.views) \ ids(stored'.views)
       IN  \/ stored'.views = <<>>
           \/ \E t \in Tabs : lost \subseteq {panels[t].selected}]_stored

\* What is in the storage can be loaded again, within the limits and without two
\* names alike, and the API accepts every search that a saved filter leads to.
SavedFiltersStayUsable ==
    stored.readable =>
        /\ loadSavedFilters = Accepted(stored.views)
        /\ \A n \in DOMAIN stored.views : validateFilters(stored.views[n].search.filters)
================================================================================
