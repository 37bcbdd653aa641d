----------------------------- MODULE MapsSearch -----------------------------
(***************************************************************************)
(* A search with the browser provider (google-maps-browser.provider.ts):   *)
(* a chain of calls of runSearch, each in a browser session of its own,    *)
(* from one stored cursor to the next.  A call extracts what the page has  *)
(* rendered, asks whether that is the end of the list, and scrolls; the    *)
(* page renders more listings in the meantime, in its own time.            *)
(*                                                                         *)
(* A call that throws is made again by the retry of its job, from the      *)
(* cursor of before.  A page that is returned is persisted at once; module *)
(* Discovery is about what can happen in between.                          *)
(***************************************************************************)
EXTENDS Integers, Sequences, FiniteSetsExt

CONSTANTS
  Feeds,        \* the lists, in their order, that the site may answer with
  Prompt,       \* TRUE: a scroll renders the next Batch, at once and only then
  Batch,
  Interpreter,  \* whether there is a page interpreter
  PageSize, MaxSeen, MaxRounds, MaxEmpty,     \* lines 34-38
  RetryLimit    \* of the job of a page

Listings == UNION {Range(feed) : feed \in Feeds}

ASSUME MapsSearchAssumption ==
  /\ \A feed \in Feeds : feed \in Seq(Range(feed)) /\ IsInjective(feed)
  /\ Prompt \in BOOLEAN /\ Interpreter \in BOOLEAN
  /\ {Batch, PageSize, MaxSeen, MaxRounds, MaxEmpty} \subseteq Nat \ {0}
  /\ RetryLimit \in Nat

VARIABLES
  cursor,   \* the cursor of the task; the empty one for none
  found,    \* the listings of the pages persisted so far
  ended,    \* why the search is over
  page,     \* the browser: the list behind it and how much of it is rendered
  call,     \* the local variables of runSearch
  thrown    \* number of calls for the present page that failed

vars == <<cursor, found, ended, page, call, thrown>>

Endings == {"failed", "end", "no results", "nothing new", "rounds", "unscrollable"}

\* What validateCursor lets through.
Cursors == [seen : {S \in SUBSET Listings : Cardinality(S) <= MaxSeen},
            rounds : 0 .. MaxRounds]

TypeOK ==
  /\ cursor \in Cursors
  /\ found \subseteq Listings
  /\ ended \in Endings \cup {"no"}
  /\ page.feed \in Feeds /\ page.shown \in 0 .. Len(page.feed)
  /\ page.marks \in BOOLEAN /\ page.scrolls \in BOOLEAN
  /\ call.pc \in {"idle", "extract", "end", "turn"}
  /\ call.seen \subseteq Listings /\ Cardinality(call.seen) <= MaxSeen
  /\ call.results \subseteq Listings /\ Cardinality(call.results) <= PageSize
  /\ call.rounds \in 0 .. MaxRounds
  /\ call.empty \in 0 .. MaxEmpty
  /\ call.shown \in 0 .. Len(page.feed)
  /\ {call.scrolled, call.asked, call.fresh, call.left} \subseteq BOOLEAN
  /\ thrown \in 0 .. RetryLimit

NoCall == [pc |-> "idle", seen |-> {}, results |-> {}, rounds |-> 0, empty |-> 0,
           scrolled |-> FALSE, asked |-> FALSE, shown |-> 0, fresh |-> FALSE,
           left |-> FALSE]

Init ==
  /\ cursor = [seen |-> {}, rounds |-> 0]
  /\ found = {} /\ ended = "no" /\ thrown = 0
  /\ page \in [feed : Feeds, shown : {0}, marks : {FALSE}, scrolls : {FALSE}]
  /\ call = NoCall
-----------------------------------------------------------------------------
\* How much of a list may be rendered after n of it were, and a request for more.
Rendered(feed, n) ==
  IF Prompt THEN {IF n + Batch < Len(feed) THEN n + Batch ELSE Len(feed)}
  ELSE n .. Len(feed)

\* searchBusinesses or continueSearch: a new session, at the top of the list.
\* Not every page says where its list ends, nor has a feed that can be scrolled.
Open ==
  /\ call.pc = "idle" /\ ended = "no"
  /\ \E feed \in Feeds, marks, scrolls \in BOOLEAN :
       \E n \in Rendered(feed, 0) :
         /\ Prompt => marks /\ scrolls
         /\ page' = [feed |-> feed, shown |-> n, marks |-> marks, scrolls |-> scrolls]
  /\ call' = [NoCall EXCEPT !.pc = "extract", !.seen = cursor.seen,
                            !.rounds = cursor.rounds]
  /\ UNCHANGED <<cursor, found, ended, thrown>>

\* The page renders more, whatever the call is waiting for.
Load ==
  /\ call.pc # "idle" /\ ~Prompt
  /\ page.shown < Len(page.feed)
  /\ page' = [page EXCEPT !.shown = @ + 1]
  /\ UNCHANGED <<cursor, found, ended, call, thrown>>

\* extractGoogleMapsListings: the places of the list that the page shows now.  Each
\* listing has one place.
Extracted == 1 .. page.shown

\* Mutant of Room: room on the page only.
RoomOnPage(fresh) == Min({PageSize - Cardinality(call.results), Cardinality(fresh)})

\* How many of the new listings are taken.
Room(fresh) == Min({PageSize - Cardinality(call.results),
                    MaxSeen - Cardinality(call.seen), Cardinality(fresh)})

\* The first n of a set of places.
First(places, n) == {i \in places : Cardinality({j \in places : j < i}) < n}

\* Lines 150-161: the first new listings, as many as there is room for.
Extract ==
  /\ call.pc = "extract"
  /\ LET fresh == {i \in Extracted : page.feed[i] \notin call.seen}
         taken == {page.feed[i] : i \in First(fresh, Room(fresh))}
     IN call' = [call EXCEPT !.pc = "end", !.shown = page.shown,
                             !.seen = @ \cup taken, !.results = @ \cup taken,
                             !.fresh = fresh # {},
                             !.left = Cardinality(fresh) > Room(fresh)]
  /\ UNCHANGED <<cursor, found, ended, page, thrown>>

\* hasReachedGoogleMapsEnd, as the page is by now.
ReachedEnd == page.marks /\ page.shown = Len(page.feed)

\* Mutant of AtEnd: forgets the listings there was no room for.
AtEndOfList == ReachedEnd

\* The end of the list has been reached, and nothing rendered is left over.
AtEnd == ReachedEnd /\ ~call.left

IsFull == Cardinality(call.results) >= PageSize \/ Cardinality(call.seen) >= MaxSeen

\* A page is returned and persisted, without a cursor: the task is completed.
ReturnLast(why) ==
  /\ found' = found \cup call.results
  /\ cursor' = [seen |-> {}, rounds |-> 0]
  /\ ended' = why
  /\ call' = [call EXCEPT !.pc = "idle"]
  /\ UNCHANGED <<page, thrown>>

\* Mutant of NextCursor: where this call began.
NextCursorStale == cursor

\* The cursor of the next call.
NextCursor == [seen |-> call.seen, rounds |-> call.rounds]

\* The page is full, and there is more: it is returned with a cursor.
ReturnFull ==
  /\ call.pc = "end" /\ IsFull /\ ~AtEnd
  /\ found' = found \cup call.results
  /\ cursor' = NextCursor
  /\ thrown' = 0
  /\ call' = [call EXCEPT !.pc = "idle"]
  /\ UNCHANGED <<ended, page>>

ReturnAtEnd ==
  /\ call.pc = "end" /\ AtEnd
  /\ ReturnLast("end")

\* Neither full nor at the end: the call goes on.
GoOn ==
  /\ call.pc = "end" /\ ~IsFull /\ ~AtEnd
  /\ call' = [call EXCEPT !.pc = "turn"]
  /\ UNCHANGED <<cursor, found, ended, page, thrown>>

\* Lines 182-187: nothing at all is rendered, and nobody has looked at why.
Puzzled == call.shown = 0 /\ call.results = {} /\ Interpreter /\ ~call.asked

\* The interpreter says that there are no results, or that the call may go on.
Interpret ==
  /\ call.pc = "turn" /\ Puzzled
  /\ \/ ReturnLast("no results")
     \/ /\ call' = [call EXCEPT !.asked = TRUE]
        /\ UNCHANGED <<cursor, found, ended, page, thrown>>

\* emptyScrollRounds, of this session only.
EmptyRounds ==
  IF call.fresh \/ ~call.scrolled THEN 0 ELSE call.empty + 1

GiveUp ==
  /\ call.pc = "turn" /\ ~Puzzled
  /\ \/ EmptyRounds >= MaxEmpty /\ ReturnLast("nothing new")
     \/ EmptyRounds < MaxEmpty /\ call.rounds >= MaxRounds /\ ReturnLast("rounds")

MayScroll == /\ call.pc = "turn" /\ ~Puzzled
             /\ EmptyRounds < MaxEmpty /\ call.rounds < MaxRounds

\* There is no feed to scroll: what there is is returned (nothing is an error).
Unscrollable ==
  /\ MayScroll /\ ~page.scrolls /\ call.results # {}
  /\ ReturnLast("unscrollable")

\* Mutant of Scrolled: the new round is not counted.
ScrolledUncounted == [call EXCEPT !.pc = "extract", !.empty = EmptyRounds]

Scrolled == [call EXCEPT !.pc = "extract", !.empty = EmptyRounds,
                         !.rounds = @ + 1, !.scrolled = TRUE]

Scroll ==
  /\ MayScroll /\ page.scrolls
  /\ call' = Scrolled
  /\ \E n \in Rendered(page.feed, page.shown) : page' = [page EXCEPT !.shown = n]
  /\ UNCHANGED <<cursor, found, ended, thrown>>

\* A call fails; after the last retry the task stays FAILED.
Failed ==
  /\ thrown' = IF thrown < RetryLimit THEN thrown + 1 ELSE thrown
  /\ ended' = IF thrown < RetryLimit THEN "no" ELSE "failed"
  /\ call' = [call EXCEPT !.pc = "idle"]
  /\ UNCHANGED <<cursor, found, page>>

\* The call throws: no session, access blocked, what the interpreter says, the
\* browser dies, or the page cannot be persisted.
Throw ==
  /\ call.pc # "idle"
  /\ Failed

\* There is no feed to scroll and there are no results: layout not understood.
NoFeed ==
  /\ MayScroll /\ ~page.scrolls /\ call.results = {}
  /\ Failed

Next ==
  \/ Open \/ Load \/ Extract \/ ReturnFull \/ ReturnAtEnd \/ GoOn
  \/ Interpret \/ GiveUp \/ Unscrollable \/ Scroll \/ Throw \/ NoFeed

Spec == Init /\ [][Next]_vars

\* A call that has begun goes on, and a search that is not over is called again.
FairSpec ==
  /\ Spec
  /\ WF_vars(Open \/ Extract \/ ReturnFull \/ ReturnAtEnd \/ GoOn \/ Interpret
             \/ GiveUp \/ Unscrollable \/ Scroll \/ NoFeed)
-----------------------------------------------------------------------------
(***************************************************************************)
(* Properties.                                                             *)
(***************************************************************************)
\* The cursor remembers the listings that were persisted, no more (a listing
\* would be lost) and no fewer (it would be returned again), and a call has
\* looked past these and its own results only.
CursorIsWhatWasFound ==
  /\ ended = "no" => cursor.seen = found
  /\ ended = "no" /\ call.pc # "idle" =>
       /\ call.seen = found \cup call.results
       /\ found \cap call.results = {}

\* A search that ends because of the end of the list has found all of it, if
\* the page rendered nothing between the extraction and the look for the end.
EndIsComplete ==
  ended = "end" /\ call.shown = page.shown => Range(page.feed) \subseteq found

\* A call ends, however the page behaves: it scrolls a bounded number of times.
CallsEnd == call.pc # "idle" ~> call.pc = "idle"

\* A search ends, whatever the site shows in each session, if it does not see as
\* many listings as it may remember.
SearchEnds == <>(ended # "no" \/ Cardinality(found) >= MaxSeen)

\* "a new browser session can resume": the search goes on where the last session
\* stopped, so that of a list that stays the same all is found.
NothingMissed == ended \notin {"no", "failed"} => Range(page.feed) \subseteq found
=============================================================================
