----------------------------- MODULE SocialLinks -----------------------------
(***************************************************************************)
(* What one user attaches to one other user or goal: a follow, a bookmark, *)
(* a reaction of one type.  Each is a row under a unique index; user       *)
(* .service.ts and reaction.service.ts look for the row first and insert   *)
(* or delete it later, one query at a time, in processes that share        *)
(* nothing but the database.                                               *)
(*                                                                         *)
(* The followed user or the goal exists (no code deletes either); calls    *)
(* that a guard refuses before the first query on the row change nothing   *)
(* and are left out.  Scores are in Engagement, notify in Notifications.   *)
(***************************************************************************)
EXTENDS Naturals, FiniteSets

CONSTANTS
    Calls,      \* calls that may be made, each once
    NoRow,      \* "no row"
    MaxErrors   \* bound on calls that an error ends

LinksAssumption == NoRow \notin Calls /\ MaxErrors \in Nat

VARIABLES
    rows,       \* the rows, named by the call that inserted them
    call,       \* per call: what it does, where it is, the row it found
    told,       \* rows whose notification was stored
    untold,     \* rows nobody wanted to be told of (or the owner's own)
    errors

vars == <<rows, call, told, untold, errors>>

Kinds == {"follow", "bookmark", "reaction"}
Ends == {"ok", "refused", "failed"}
Pcs == {"idle", "find", "insert", "delete", "rescore", "notify"} \cup Ends
Rows == [kind : Kinds, id : Calls]
CallRows == [pc : Pcs, op : {"add", "remove"}, kind : Kinds,
             row : Calls \cup {NoRow}, older : SUBSET Rows,
             seen : SUBSET BOOLEAN]

\* Types; a row, and the row a call found, was inserted by a call of its kind.
TypeOK ==
    /\ rows \subseteq Rows
    /\ call \in [Calls -> CallRows]
    /\ told \subseteq Calls /\ untold \subseteq Calls
    /\ errors \in Nat
    /\ \A r \in rows : call[r.id].kind = r.kind /\ call[r.id].op = "add"
    /\ \A c \in Calls : call[c].row # NoRow =>
         call[call[c].row].kind = call[c].kind

Idle == [pc |-> "idle", op |-> "add", kind |-> "follow", row |-> NoRow,
         older |-> {}, seen |-> {}]

Init ==
    /\ rows = {} /\ told = {} /\ untold = {} /\ errors = 0
    /\ call = [c \in Calls |-> Idle]

Of(k, table) == {r \in table : r.kind = k}
Present(k) == Of(k, rows) # {}
InFlight(c) == call[c].pc \notin {"idle"} \cup Ends

Goto(c, pc) == call' = [call EXCEPT ![c].pc = pc]

\* The table changes and c goes on; calls under way on the same pair may see
\* the new state.
Change(c, pc, table) ==
    LET k == call[c].kind
        now == Of(k, table) # {}
        Witnessed(d) == IF InFlight(d) /\ call[d].kind = k
                        THEN [call[d] EXCEPT !.seen = @ \cup {now}]
                        ELSE call[d] IN
    /\ rows' = table
    /\ call' = [d \in Calls |-> IF d = c THEN [Witnessed(d) EXCEPT !.pc = pc]
                                ELSE Witnessed(d)]

-----------------------------------------------------------------------------
\* removeFollow and removeBookmark delete by pair, without looking.
FirstQuery(op, k) ==
    IF op = "remove" /\ k # "reaction" THEN "delete" ELSE "find"

Start(c, op, k) ==
    /\ call[c].pc = "idle"
    /\ call' = [call EXCEPT ![c] =
                  [pc |-> FirstQuery(op, k), op |-> op, kind |-> k,
                   row |-> NoRow, older |-> {}, seen |-> {Present(k)}]]
    /\ UNCHANGED <<rows, told, untold, errors>>

\* followUser and bookmark return as if they had inserted it; a reaction
\* is answered with 409.
WhenPresent(k) == IF k = "reaction" THEN "refused" ELSE "ok"

FindForAdd(c) ==
    /\ call[c].pc = "find" /\ call[c].op = "add"
    /\ Goto(c, IF Present(call[c].kind) THEN WhenPresent(call[c].kind)
               ELSE "insert")
    /\ UNCHANGED <<rows, told, untold, errors>>

\* A slip: a follow is over with its insert.
NobodyToTell(k) == IF k = "reaction" THEN "rescore" ELSE "ok"

AfterInsert(k) ==
    CASE k = "follow" -> "notify"
      [] k = "bookmark" -> "ok"
      [] k = "reaction" -> "rescore"

IsUnique(k) == ~Present(k)

Insert(c) ==
    LET k == call[c].kind IN
    /\ call[c].pc = "insert"
    /\ IsUnique(k)
    /\ Change(c, AfterInsert(k), rows \cup {[kind |-> k, id |-> c]})
    /\ UNCHANGED <<told, untold, errors>>

InsertRefused(c) ==
    /\ call[c].pc = "insert"
    /\ ~IsUnique(call[c].kind)
    /\ Goto(c, "refused")
    /\ UNCHANGED <<rows, told, untold, errors>>

-----------------------------------------------------------------------------
FindForRemove(c) ==
    /\ call[c].pc = "find" /\ call[c].op = "remove"
    /\ \/ ~Present(call[c].kind) /\ Goto(c, "ok")
       \/ \E r \in Of(call[c].kind, rows) :
            call' = [call EXCEPT ![c].pc = "delete", ![c].row = r.id,
                                 ![c].older = rows]
    /\ UNCHANGED <<rows, told, untold, errors>>

\* A slip: a reaction, too, is deleted by user, goal and type.
ByPair(c) == Of(call[c].kind, rows)

\* A slip: the row is looked for by the id of the user.
ByWrongId(c) == {}

Doomed(c) ==
    IF call[c].kind = "reaction"
    THEN {r \in rows : r.id = call[c].row}
    ELSE Of(call[c].kind, rows)

Delete(c) ==
    /\ call[c].pc = "delete"
    /\ Change(c, IF call[c].kind = "reaction" THEN "rescore" ELSE "ok",
              rows \ Doomed(c))
    /\ UNCHANGED <<told, untold, errors>>

Rescore(c) ==
    /\ call[c].pc = "rescore"
    /\ Goto(c, IF call[c].op = "add" THEN "notify" ELSE "ok")
    /\ UNCHANGED <<rows, told, untold, errors>>

\* notify; skipped for a reaction to one's own goal.
Notify(c) ==
    /\ call[c].pc = "notify"
    /\ \/ told' = told \cup {c} /\ UNCHANGED untold
       \/ untold' = untold \cup {c} /\ UNCHANGED told
    /\ Goto(c, "ok")
    /\ UNCHANGED <<rows, errors>>

\* A query throws or the process dies: what was written stays written.
Fail(c) ==
    /\ InFlight(c)
    /\ errors < MaxErrors
    /\ errors' = errors + 1
    /\ Goto(c, "failed")
    /\ UNCHANGED <<rows, told, untold>>

Next ==
    \E c \in Calls :
      \/ \E op \in {"add", "remove"}, k \in Kinds : Start(c, op, k)
      \/ FindForAdd(c) \/ Insert(c) \/ InsertRefused(c)
      \/ FindForRemove(c) \/ Delete(c)
      \/ Rescore(c) \/ Notify(c)
      \/ Fail(c)

Spec == Init /\ [][Next]_vars

-----------------------------------------------------------------------------
\* At most one follow, bookmark or reaction of a type for a pair, although
\* calls that look at the same time all find none ("Duplicate reactions
\* prevented by unique index", src/README.md:82).
NoDuplicates == \A k \in Kinds : Cardinality(Of(k, rows)) <= 1

\* An answer is true of some moment during its call: who added or was refused
\* could have found the row, who removed could have found none, however many
\* calls were looking, inserting and deleting meanwhile.
AnswersAreTrue ==
    \A c \in Calls :
      /\ call[c].op = "add" /\ call[c].pc \in {"ok", "refused"} =>
           TRUE \in call[c].seen
      /\ call[c].op = "remove" /\ call[c].pc = "ok" => FALSE \in call[c].seen

\* A reaction made again while its removal is under way is not taken by that
\* removal: a call deletes only what was there when it looked.
SparesNewer ==
    \A c \in Calls : call[c].kind = "reaction" /\ call[c].pc = "delete"
                       /\ call'[c].pc = "rescore" =>
      rows \ rows' \subseteq call[c].older

RemovalSparesNewer == [][SparesNewer]_vars

\* A follow or reaction that is there, and whose owner was neither told nor
\* did not want to be, comes from a call that is under way or failed after its
\* insert: the retry finds the row and tells nobody.
UntoldNeedsFailure ==
    \A r \in rows : r.kind # "bookmark" /\ r.id \notin told \cup untold =>
      InFlight(r.id) \/ (call[r.id].pc = "failed" /\ errors > 0)

=============================================================================
