------------------------------- MODULE Paging -------------------------------
(***************************************************************************)
(* A client that reads a list page by page (comments and notifications by  *)
(* createdAt, goals by confidenceScore) while rows are added, scores       *)
(* change, and goals leave a list of the pending ones: normalizePagination *)
(* and the queries with ORDER BY ... DESC, skip and take.  The database    *)
(* may put rows with equal keys in any order each time.                    *)
(*                                                                         *)
(* A page is a query of its own, except that a page of goals for an        *)
(* anonymous client is cached for 60 s (utils/cache.ts: in Redis, or in a  *)
(* process's own map), each page by itself, and no change deletes it.      *)
(* Sixty seconds are not counted: an entry may expire at any time.         *)
(***************************************************************************)
EXTENDS Integers, FiniteSets, SequencesExt

CONSTANTS
    Rows,       \* rows the list may have
    MaxKey,     \* bound on the keys it is ordered by
    AskedPages, \* pages a client may begin with: the first, or one below it
    AskedLimits,\* limits it may ask for
    MaxLimit,   \* the largest limit granted (100 in the code)
    MaxEntries  \* bound on the cached pages

PagingAssumption ==
    /\ MaxKey \in Nat /\ MaxEntries \in Nat
    /\ AskedPages \subseteq Int /\ AskedLimits \subseteq Int
    /\ \A page \in AskedPages : page <= 1
    /\ IsFiniteSet(Rows)
    /\ MaxLimit \in Nat \ {0}

VARIABLES
    key,        \* per row: its key, Absent when it is not in the list
    pages,      \* the cached pages
    asked,      \* the page and limit the client asks for next
    reading,    \* where the client is
    start,      \* the rows there were when it began
    seen,       \* rows it was given
    moved,      \* history: a key changed, or a row left, since it began
    outdated    \* history: it was given a page cached before a change

vars == <<key, pages, asked, reading, start, seen, moved, outdated>>

Absent == -1
Listed == {r \in Rows : key[r] # Absent}

\* A response: the rows and, in its meta data, page, limit and total.
\* current is history: the list is as it was when the page was read.
Responses ==
    [page : Nat, limit : Nat, rows : SUBSET Rows, total : Nat,
     current : BOOLEAN]

\* Types; what the client saw is in the list, and so is what it began with,
\* until a row leaves.
TypeOK ==
    /\ key \in [Rows -> Absent..MaxKey]
    /\ pages \subseteq Responses
    /\ asked \in [page : Int, limit : Int]
    /\ reading \in {"no", "pages", "over"}
    /\ start \subseteq Rows /\ seen \subseteq Rows
    /\ moved \in BOOLEAN /\ outdated \in BOOLEAN
    /\ ~moved => start \subseteq Listed
    /\ ~moved /\ ~outdated => seen \subseteq Listed

Init ==
    /\ key = [r \in Rows |-> Absent]
    /\ pages = {}
    /\ asked = [page |-> 1, limit |-> 1]
    /\ reading = "no" /\ start = {} /\ seen = {}
    /\ moved = FALSE /\ outdated = FALSE

-----------------------------------------------------------------------------
(***************************************************************************)
(* The list changes; the cached pages stay.                                *)
(***************************************************************************)

Becomes(r, k) ==
    /\ key' = [key EXCEPT ![r] = k]
    /\ pages' = {[e EXCEPT !.current = FALSE] : e \in pages}
    /\ UNCHANGED <<asked, reading, start, seen, outdated>>

\* A comment, notification or goal is stored.  Its key need not be the largest:
\* createdAt is when its transaction began.
Add(r) ==
    /\ key[r] = Absent
    /\ \E k \in 0..MaxKey : Becomes(r, k)
    /\ UNCHANGED moved

NewKeys(r) == 0..MaxKey \ {key[r]}

\* A goal's score is computed anew.
Rescore(r) ==
    /\ r \in Listed
    /\ \E k \in NewKeys(r) : Becomes(r, k)
    /\ moved' = (moved \/ reading # "no")

\* A goal is settled, and the list is of the goals with its former status.
Depart(r) ==
    /\ r \in Listed
    /\ Becomes(r, Absent)
    /\ moved' = (moved \/ reading # "no")

-----------------------------------------------------------------------------
AtLeastOne(n) == IF n < 1 THEN 1 ELSE n
AtMost(max, n) == IF n > max THEN max ELSE n

\* A slip: the first page is the second.
FromPageZero(a) ==
    LET limit == AtMost(MaxLimit, AtLeastOne(a.limit)) IN
    [page |-> AtLeastOne(a.page), limit |-> limit,
     offset |-> AtLeastOne(a.page) * limit]

NormalizePagination(a) ==
    LET limit == AtMost(MaxLimit, AtLeastOne(a.limit)) IN
    [page |-> AtLeastOne(a.page), limit |-> limit,
     offset |-> (AtLeastOne(a.page) - 1) * limit]

\* The orders in which the database may return the rows.
Orders ==
    {s \in SetToSeqs(Listed) :
       \A i, j \in DOMAIN s : i < j => key[s[i]] >= key[s[j]]}

\* What the query for a page may return.
Found(p) ==
    {[page |-> p.page, limit |-> p.limit,
      rows |-> {s[i] : i \in {j \in DOMAIN s :
                   j > p.offset /\ j <= p.offset + p.limit}},
      total |-> Cardinality(Listed), current |-> TRUE] : s \in Orders}

\* An anonymous client asks for a page of goals that is not cached: the
\* response is cached.
FillPage(a) ==
    /\ Cardinality(pages) < MaxEntries
    /\ \E e \in Found(NormalizePagination(a)) : pages' = pages \cup {e}
    /\ UNCHANGED <<key, asked, reading, start, seen, moved, outdated>>

Expire(e) ==
    /\ pages' = pages \ {e}
    /\ UNCHANGED <<key, asked, reading, start, seen, moved, outdated>>

-----------------------------------------------------------------------------
Begin(page, limit) ==
    /\ reading = "no"
    /\ reading' = "pages" /\ start' = Listed
    /\ asked' = [page |-> page, limit |-> limit]
    /\ UNCHANGED <<key, pages, seen, moved, outdated>>

\* The client takes the response, and goes on to the next page by its meta
\* data.
Receive(e) ==
    /\ seen' = seen \cup e.rows
    /\ asked' = [asked EXCEPT !.page = e.page + 1]
    /\ reading' = IF e.page * e.limit >= e.total THEN "over" ELSE "pages"
    /\ UNCHANGED <<key, pages, start, moved>>

\* A page no cache has, or of a list that is not cached.
ReadPage ==
    /\ reading = "pages"
    /\ \E e \in Found(NormalizePagination(asked)) : Receive(e)
    /\ UNCHANGED outdated

\* A page of goals from the cache.
ReadCached(e) ==
    LET p == NormalizePagination(asked) IN
    /\ reading = "pages"
    /\ e.page = p.page /\ e.limit = p.limit
    /\ Receive(e)
    /\ outdated' = (outdated \/ ~e.current)

Next ==
    \/ \E r \in Rows : Add(r) \/ Rescore(r) \/ Depart(r)
    \/ \E page \in 1..Cardinality(Rows), limit \in AskedLimits :
          FillPage([page |-> page, limit |-> limit])
    \/ \E page \in AskedPages, limit \in AskedLimits : Begin(page, limit)
    \/ ReadPage
    \/ \E e \in pages : ReadCached(e) \/ Expire(e)

Spec == Init /\ [][Next]_vars

-----------------------------------------------------------------------------
\* A client that reads to the end gets every row that was there when it began,
\* whatever is added meanwhile, except rows that share their key with another
\* (their order may change between two pages).  Among goals also: except when
\* a score changed or a goal left the list, or when it was given a page cached
\* before a change, as anonymous clients are.
MissedHasReason ==
    reading = "over" /\ ~moved /\ ~outdated =>
      \A r \in start \ seen : \E q \in Listed \ {r} : key[q] = key[r]

=============================================================================
