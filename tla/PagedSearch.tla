----------------------------- MODULE PagedSearch -----------------------------
(***************************************************************************)
(* What the discovery pipeline promises for the search tasks of a campaign,*)
(* with no queue, worker, claim, retry or crash in sight: the pages of a   *)
(* search are persisted one after the other, each of them once, together   *)
(* with what was found on it, until a page is the last one.                *)
(***************************************************************************)
EXTENDS Naturals, Sequences

CONSTANTS Tasks, Ids

VARIABLES
  log,        \* per task, the pages persisted so far, in order
  found,      \* which task found which business
  finished    \* tasks whose last page has been persisted

searchVars == <<log, found, finished>>

SearchInit ==
  /\ log = [t \in Tasks |-> << >>]
  /\ found = {}
  /\ finished = {}

\* The next page of an unfinished search, with the businesses it shows.
PersistPage(t) ==
  /\ t \notin finished
  /\ log' = [log EXCEPT ![t] = Append(@, Len(@) + 1)]
  /\ \E ids \in SUBSET Ids : found' = found \cup ({t} \X ids)
  /\ finished' \in {finished, finished \cup {t}}

SearchNext == \E t \in Tasks : PersistPage(t)

SearchSpec == SearchInit /\ [][SearchNext]_searchVars
=============================================================================
