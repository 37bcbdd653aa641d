---------------------------- MODULE Canonicalizer ----------------------------
(***************************************************************************)
(* The transactions that canonicalize candidates: the pages of discovery   *)
(* (business-discovery.processor.ts:182-260) and the backfill of the       *)
(* candidates that are older than canonicalization                         *)
(* (canonicalization-backfill.ts).  PostgreSQL runs them READ COMMITTED:   *)
(* a statement sees what is committed then and what its own transaction    *)
(* wrote.  Decisions are serialized by the workspace's advisory lock only. *)
(***************************************************************************)
EXTENDS Matching, FiniteSetsExt

CONSTANTS
  Pages,            \* page transactions at the same time
  Backfills,        \* runs of the backfill at the same time
  Old,              \* candidates that exist before, without a business
  OldIdentities,    \* identities they may have
  Found,            \* name and address texts a provider may return
  PageSize,         \* bound: results of a page
  BatchSize         \* batchSize of the backfill

Actors == Pages \cup Backfills

Workspaces == {WorkspaceOf[c] : c \in Candidates}

Nobody == None

ASSUME CanonicalizerAssumption ==
  /\ Old \subseteq Candidates
  /\ Candidates \subseteq Nat \ {0}        \* in the order of createdAt
  /\ Workspaces \subseteq Nat
  /\ OldIdentities \subseteq Identities
  /\ Found \subseteq [name : Values, address : Values]
  /\ Pages \cap Backfills = {}
  /\ Nobody \notin Actors
  /\ PageSize \in Nat \ {0} /\ BatchSize \in Nat \ {0}

VARIABLES
  db,     \* the committed candidate and Business rows
  lock,   \* the advisory lock of each workspace
  tx      \* the transactions, with the rows each has written so far

vars == <<db, lock, tx>>

Steps == {"idle", "pick", "lock", "list", "work", "done"}

NoWrites == [row |-> << >>, business |-> << >>]

IdleTx == [pc |-> "idle", workspace |-> 0, todo |-> {}, found |-> << >>,
           wrote |-> NoWrites]

TypeOK ==
  /\ db \in Views
  /\ lock \in [Workspaces -> Actors \cup {Nobody}]
  /\ DOMAIN tx = Actors
  /\ \A a \in Actors :
       /\ tx[a].pc \in Steps
       /\ tx[a].todo \subseteq Candidates
       /\ tx[a].workspace \in Workspaces \cup {0}
       /\ tx[a].pc = "work" /\ a \in Pages => tx[a].todo \subseteq DOMAIN tx[a].found

\* The migration: candidates without a business, and no Business at all.
Init ==
  /\ \E identity \in [Old -> OldIdentities] :
       db = [row |-> [c \in Candidates |->
                        IF c \in Old
                        THEN [identity |-> identity[c], business |-> None,
                              reason |-> "none"]
                        ELSE Absent],
             business |-> [c \in Candidates |-> Nothing]]
  /\ lock = [w \in Workspaces |-> Nobody]
  /\ tx = [a \in Actors |-> IdleTx]

Overlay(f, g) == [x \in DOMAIN f |-> IF x \in DOMAIN g THEN g[x] ELSE f[x]]

\* What a statement of the transaction sees.
View(a) == [row      |-> Overlay(db.row, tx[a].wrote.row),
            business |-> Overlay(db.business, tx[a].wrote.business)]

Unmatched(view) == {c \in Candidates : Exists(view, c) /\ ~Matched(view, c)}
-----------------------------------------------------------------------------
\* A page of a campaign of some workspace has been found and is to be persisted.
BeginPage(p) ==
  /\ tx[p].pc = "idle"
  /\ \E w \in Workspaces :
       tx' = [tx EXCEPT ![p] = [IdleTx EXCEPT !.pc = "lock", !.workspace = w]]
  /\ UNCHANGED <<db, lock>>

\* The results of the page, different listings.  They were known before the
\* transaction began; nothing reads them until now.
Take(p) ==
  /\ tx[p].pc = "list"
  /\ \E S \in SUBSET {c \in Candidates : WorkspaceOf[c] = tx[p].workspace} :
       /\ S # {} /\ Cardinality(S) <= PageSize
       /\ \A c, d \in S : ListingOf[c] = ListingOf[d] => c = d
       /\ \E found \in [S -> Found] :
            tx' = [tx EXCEPT ![p].pc = "work", ![p].todo = S, ![p].found = found]
  /\ UNCHANGED <<db, lock>>

\* backfillBusinessCandidates is called.
BeginBackfill(b) ==
  /\ tx[b].pc \in {"idle", "done"}
  /\ tx' = [tx EXCEPT ![b] = [IdleTx EXCEPT !.pc = "pick"]]
  /\ UNCHANGED <<db, lock>>

\* findFirst, outside any transaction: the workspace to work on, or the end.
Pick(b) ==
  /\ tx[b].pc = "pick"
  /\ tx' = [tx EXCEPT ![b] =
              IF Unmatched(db) = {} THEN [IdleTx EXCEPT !.pc = "done"]
              ELSE [IdleTx EXCEPT !.pc = "lock",
                      !.workspace = Min({WorkspaceOf[c] : c \in Unmatched(db)})]]
  /\ UNCHANGED <<db, lock>>

\* Mutant of Acquire: goes on without the lock.
AcquireNothing(a) ==
  /\ tx[a].pc = "lock"
  /\ tx' = [tx EXCEPT ![a].pc = "list"]
  /\ UNCHANGED <<db, lock>>

\* acquireWorkspaceCanonicalizationLock, at the beginning of the transaction.
Acquire(a) ==
  /\ tx[a].pc = "lock"
  /\ lock[tx[a].workspace] = Nobody
  /\ lock' = [lock EXCEPT ![tx[a].workspace] = a]
  /\ tx' = [tx EXCEPT ![a].pc = "list"]
  /\ UNCHANGED db

\* The oldest members of a set of candidates, n of them or all.
Oldest(S, n) == {c \in S : Cardinality({d \in S : d < c}) < n}

\* findMany under the lock: a batch of candidates that are still unmatched.
List(b) ==
  /\ tx[b].pc = "list"
  /\ tx' = [tx EXCEPT ![b].pc = "work",
              ![b].todo = Oldest({c \in Unmatched(View(b)) :
                                    WorkspaceOf[c] = tx[b].workspace}, BatchSize)]
  /\ UNCHANGED <<db, lock>>

\* The upsert of a candidate: name and address are taken over, whatever else
\* the row says stays; a new row has nothing else.
Upserted(view, c, found) ==
  LET blank == [f \in Fields |-> None]
      old   == IF Exists(view, c) THEN view.row[c]
               ELSE [identity |-> blank, business |-> None, reason |-> "none"]
  IN [view EXCEPT !.row[c] =
        [old EXCEPT !.identity["name"] = found.name,
                    !.identity["address"] = found.address]]

\* The view of a becomes new, by a's writing of c's row and of some businesses.
Write(a, c, new) ==
  LET old  == tx[a].wrote
      bs   == DOMAIN old.business \cup
              {b \in Candidates : new.business[b] # View(a).business[b]}
  IN tx' = [tx EXCEPT
       ![a].todo = @ \ {c},
       ![a].wrote = [row      |-> [d \in DOMAIN old.row \cup {c} |-> new.row[d]],
                     business |-> [b \in bs |-> new.business[b]]]]

\* One result of a page: upsert and canonicalize.  Its provenance row is part
\* of module Discovery.  The results are taken in any order.
PersistResult(p, c) ==
  /\ p \in Pages /\ tx[p].pc = "work" /\ c \in tx[p].todo
  /\ \E new \in {Canonicalized(Upserted(View(p), c, tx[p].found[c]), c)} :
       Write(p, c, new)
  /\ UNCHANGED <<db, lock>>

\* One candidate of a batch, in the order of the list.
BackfillCandidate(b, c) ==
  /\ b \in Backfills /\ tx[b].pc = "work" /\ c \in Oldest(tx[b].todo, 1)
  /\ \E new \in {Canonicalized(View(b), c)} : Write(b, c, new)
  /\ UNCHANGED <<db, lock>>

\* The end of a transaction gives its lock back.
Unlocked(a) == [w \in Workspaces |-> IF lock[w] = a THEN Nobody ELSE lock[w]]

\* Mutant of Commit: a backfill ends after its first batch.
CommitOnce(a) ==
  /\ tx[a].pc = "work" /\ tx[a].todo = {}
  /\ db' = View(a)
  /\ lock' = Unlocked(a)
  /\ tx' = [tx EXCEPT ![a] = IF a \in Backfills THEN [IdleTx EXCEPT !.pc = "done"]
                             ELSE IdleTx]

\* Everything has been written: commit; a backfill looks for the next batch.
Commit(a) ==
  /\ tx[a].pc = "work" /\ tx[a].todo = {}
  /\ db' = View(a)
  /\ lock' = Unlocked(a)
  /\ tx' = [tx EXCEPT ![a] = IF a \in Backfills THEN [IdleTx EXCEPT !.pc = "pick"]
                             ELSE IdleTx]

\* The transaction fails (the claim of the task is gone, an error, the process
\* dies) and is rolled back; the handler or the backfill command ends.
Abort(a) ==
  /\ tx[a].pc \in {"lock", "list", "work"}
  /\ lock' = Unlocked(a)
  /\ tx' = [tx EXCEPT ![a] = IdleTx]
  /\ UNCHANGED db
-----------------------------------------------------------------------------
Next ==
  \/ \E p \in Pages : BeginPage(p) \/ Take(p)
  \/ \E b \in Backfills : BeginBackfill(b) \/ Pick(b) \/ List(b)
  \/ \E a \in Actors : Acquire(a) \/ Commit(a) \/ Abort(a)
  \/ \E a \in Actors, c \in Candidates : PersistResult(a, c) \/ BackfillCandidate(a, c)

Spec == Init /\ [][Next]_vars
-----------------------------------------------------------------------------
(***************************************************************************)
(* Properties.                                                             *)
(***************************************************************************)
\* "The same provider/external ID across campaigns in one workspace resolves to
\* the same business", whichever transactions found it first, side by side.
SameListingSameBusiness ==
  \A c, d \in Candidates :
    /\ Matched(db, c) /\ Matched(db, d)
    /\ WorkspaceOf[c] = WorkspaceOf[d] /\ ListingOf[c] = ListingOf[d]
    => db.row[c].business = db.row[d].business

Twins(b, d) ==
  /\ b # d /\ db.business[b] # Nothing /\ db.business[d] # Nothing
  /\ db.business[b].workspace = db.business[d].workspace
  /\ \A f \in {"name", "address"} :
       db.business[b].normal[f] = db.business[d].normal[f]
       /\ db.business[b].normal[f] # None

Irreconcilable(b, d) == Conflict(db.business[b].normal, db.business[d].normal)

\* "Concurrent equivalent candidates cannot create two canonical businesses":
\* two businesses of one name and address that nothing tells apart exist only
\* where the choice was ambiguous, between two others that a phone or domain
\* does tell apart.
TwinsAreAmbiguous ==
  \A b, d \in Candidates :
    Twins(b, d) /\ ~Irreconcilable(b, d) =>
      \E e, f \in Candidates :
        /\ Twins(e, f) /\ Irreconcilable(e, f)
        /\ Twins(b, e) \/ b = e

\* A candidate joined to a business by a weaker rule never disagrees with it on a
\* phone or domain, however many candidates have filled it in before or since.
WeakReasons == {"NAME_ADDRESS_EXACT", "NAME_CITY_POSTAL_EXACT", "FUZZY_HIGH_CONFIDENCE"}

WeakLinksAgree ==
  \A c \in Candidates :
    Matched(db, c) /\ db.row[c].reason \in WeakReasons =>
      ~Conflict(NormalIdentity(db.row[c].identity),
                db.business[db.row[c].business].normal)

\* A match, and what a business is known by, is never taken back or replaced: not
\* by a replayed page, a backfill that runs beside it, or a later candidate.
MatchesAreFinal ==
  [][\A c \in Candidates :
       /\ Matched(db, c) => /\ db'.row[c].business = db.row[c].business
                            /\ db'.row[c].reason = db.row[c].reason
       /\ db.business[c] # Nothing =>
            \A f \in Fields : db.business[c].normal[f] # None =>
              db'.business[c].normal[f] = db.business[c].normal[f]]_vars

\* Where a backfill has ended without an error no candidate is without a business,
\* nor is any later: pages that were persisted beside it have left none behind.
BackfillLeavesNone ==
  (\E b \in Backfills : tx[b].pc = "done") => Unmatched(db) = {}
=============================================================================
