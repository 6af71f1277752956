------------------------------ MODULE MonitorApp ------------------------------
(***************************************************************************)
(* The monitor as a whole.  Its parts do not share state: a screen owns    *)
(* its queries, because no two screens use the same query keys, and the    *)
(* saved filters own their item of the storage.  A behaviour is therefore  *)
(* that of one part, which Init chooses, with the others at rest.          *)
(***************************************************************************)
EXTENDS MonitorInstance, SavedFilters, MonitorChecks

CONSTANTS InstanceRuns, ListRuns   \* the histories (indices into Runs) that a part is seen with

VARIABLE part

restOfInstance == <<queries, views, cycle>>
restOfLists    == <<entries, position, cache>>
appVars == <<part, browser, restOfInstance, restOfLists, savedVars, checkVars>>

InstanceAtRest ==
    /\ detailQ = NoQuery /\ executionsQ = <<>> /\ variablesQ = NoQuery /\ snapshotsQ = <<>>
    /\ cursor = <<>> /\ cursorHistory = <<>>
    /\ detailView = "overview" /\ historyView = "table" /\ inspected = 0 /\ expanded = 0
    /\ cycle = NoCycle
ListsAtRest == entries = <<InstanceAt>> /\ position = 1 /\ cache = <<>>
SavedAtRest == stored = [readable |-> TRUE, views |-> <<>>] /\ panels = <<>> /\ saves = 0

AppInit ==
    \/ /\ part = "instance" /\ InstanceInit /\ run \in InstanceRuns
       /\ ListsAtRest /\ SavedAtRest /\ ChecksInit
    \/ /\ part = "lists" /\ ListsInit /\ run \in ListRuns
       /\ InstanceAtRest /\ SavedAtRest /\ ChecksInit
    \/ /\ part = "saved" /\ SavedInit /\ BrowserInit /\ run = 1
       /\ InstanceAtRest /\ ListsAtRest /\ ChecksInit
    \/ /\ part = "checks" /\ ChecksInit /\ BrowserInit /\ run = 1
       /\ InstanceAtRest /\ ListsAtRest /\ SavedAtRest

AppNext ==
    \/ part = "instance" /\ InstanceNext /\ UNCHANGED <<part, restOfLists, savedVars, checkVars>>
    \/ part = "lists" /\ ListsNext /\ UNCHANGED <<part, restOfInstance, savedVars, checkVars>>
    \/ part = "saved" /\ SavedNext /\ UNCHANGED <<part, browser, restOfInstance, restOfLists, checkVars>>
    \/ part = "checks" /\ ChecksNext /\ UNCHANGED <<part, browser, restOfInstance, restOfLists, savedVars>>

AppFairness ==
    WF_appVars(part = "instance" /\ Progress /\ UNCHANGED <<part, restOfLists, savedVars, checkVars>>)

AppSpec == AppInit /\ [][AppNext]_appVars /\ AppFairness
================================================================================
