---------------------------- MODULE Notifications ----------------------------
(***************************************************************************)
(* The notifications of one user and the row of                            *)
(* "notification_preferences" they depend on: notify, getPreferences,      *)
(* updatePreferences and markRead of notification.service.ts, query by     *)
(* query.  The row is made by the first call that misses it                *)
(* (ensureDefault), and saved as TypeORM does: SELECT, compare with the    *)
(* entity, UPDATE the columns that differ.                                 *)
(***************************************************************************)
EXTENDS Naturals

CONSTANTS
    Calls,      \* calls that may be made, each once
    Types,      \* types of notification
    MaxErrors   \* bound on failing queries

AllTypes == {"GOAL_REMINDER", "GOAL_ACHIEVED", "GOAL_FAILED", "COMMENT",
             "REACTION", "FOLLOW"}

NotificationsAssumption ==
    Types # {} /\ Types \subseteq AllTypes /\ MaxErrors \in Nat

\* The column that switches a type on and off.
Preference(t) ==
    CASE t = "GOAL_REMINDER" -> "goalReminder"
      [] t \in {"GOAL_ACHIEVED", "GOAL_FAILED"} -> "goalAchieved"
      [] t = "COMMENT" -> "comments"
      [] t = "REACTION" -> "reactions"
      [] t = "FOLLOW" -> "follows"

Columns == {Preference(t) : t \in Types}

VARIABLES
    stored,     \* is there a preference row?
    pref,       \* its columns, all TRUE before
    call,       \* per call: what it does, where it is, the entity it holds
    inbox,      \* notifications stored, by the call that stored them
    read,       \* those marked as read
    chosen,     \* history, per column: the user's choice that was saved last
    mixed,      \* history: columns saved while another save held an entity
    errors      \* failed queries so far

rows == <<stored, pref, inbox, read>>
history == <<chosen, mixed, errors>>
vars == <<rows, call, history>>

\* What an update may ask for: a value for some of the columns.
Choices == UNION {[S -> BOOLEAN] : S \in SUBSET Columns}
NoChoice == [k \in {} |-> TRUE]

Pcs == {"idle", "find", "insert", "deliver", "select", "write", "over",
        "failed"}
CallRows == [pc : Pcs, op : {"none", "notify", "get", "update"},
             type : Types, choice : Choices, entity : [Columns -> BOOLEAN],
             dirty : SUBSET Columns, had : BOOLEAN, seen : SUBSET BOOLEAN]

\* Types; preferences differ from the defaults only in a row.
TypeOK ==
    /\ stored \in BOOLEAN
    /\ pref \in [Columns -> BOOLEAN]
    /\ call \in [Calls -> CallRows]
    /\ inbox \subseteq Calls /\ read \subseteq inbox
    /\ chosen \in [Columns -> BOOLEAN] /\ mixed \subseteq Columns
    /\ errors \in Nat
    /\ ~stored => \A k \in Columns : pref[k]

SomeType == CHOOSE t \in Types : TRUE
Defaults == [k \in Columns |-> TRUE]
Fresh == [pc |-> "idle", op |-> "none", type |-> SomeType,
          choice |-> NoChoice, entity |-> Defaults, dirty |-> {}, had |-> FALSE,
          seen |-> {}]

Init ==
    /\ stored = FALSE /\ pref = Defaults
    /\ call = [c \in Calls |-> Fresh]
    /\ inbox = {} /\ read = {}
    /\ chosen = Defaults /\ mixed = {} /\ errors = 0

ColumnOf(c) == Preference(call[c].type)

-----------------------------------------------------------------------------
\* notify, getPreferences, or updatePreferences.
Start(c, op, t, choice) ==
    /\ call[c].pc = "idle"
    /\ call' = [call EXCEPT ![c] =
                  [Fresh EXCEPT !.pc = "find", !.op = op, !.type = t,
                                !.choice = choice, !.had = stored,
                                !.seen = {chosen[Preference(t)]}]]
    /\ UNCHANGED <<rows, history>>

\* Where ensureDefault returns to.
AfterEnsure(c) ==
    CASE call[c].op = "notify" -> "deliver"
      [] call[c].op = "update" -> "select"
      [] OTHER -> "over"

\* A slip: the entity found is thrown away for a new one.
NewEntity == Defaults

Loaded == pref

\* A slip: the row is looked for by the wrong id.
NeverFound == FALSE

RowFound == stored

\* ensureDefault: findByUserId.
Find(c) ==
    /\ call[c].pc = "find"
    /\ call' = [call EXCEPT ![c] =
                  IF RowFound
                  THEN [@ EXCEPT !.pc = AfterEnsure(c), !.entity = Loaded]
                  ELSE [@ EXCEPT !.pc = "insert"]]
    /\ UNCHANGED <<rows, history>>

\* ensureDefault: the INSERT, which returns the defaults.
Insert(c) ==
    /\ call[c].pc = "insert"
    /\ ~stored
    /\ stored' = TRUE
    /\ call' = [call EXCEPT ![c].pc = AfterEnsure(c), ![c].entity = Defaults]
    /\ UNCHANGED <<pref, inbox, read, history>>

\* The unique index on the user refuses the second row: the call fails.
InsertRefused(c) ==
    /\ call[c].pc = "insert"
    /\ stored
    /\ call' = [call EXCEPT ![c].pc = "failed"]
    /\ UNCHANGED <<rows, history>>

\* A slip: the preference is not asked.
Anyway(c) == TRUE

Wanted(c) == call[c].entity[ColumnOf(c)]

\* The rest of notify, with the preference as it was read.
Deliver(c) ==
    /\ call[c].pc = "deliver"
    /\ inbox' = IF Wanted(c) THEN inbox \cup {c} ELSE inbox
    /\ call' = [call EXCEPT ![c].pc = "over"]
    /\ UNCHANGED <<stored, pref, read, history>>

MarkRead(c) ==
    /\ c \in inbox
    /\ read' = read \cup {c}
    /\ UNCHANGED <<stored, pref, inbox, call, history>>

-----------------------------------------------------------------------------
\* Other updates that loaded their entity and did not save it yet.
OthersSaving(c) ==
    {d \in Calls \ {c} : call[d].pc \in {"select", "write"}}

\* Object.assign(preference, input)
Assigned(c, e) == [k \in Columns |-> IF k \in DOMAIN call[c].choice
                                     THEN call[c].choice[k] ELSE e[k]]

\* c's choice is saved: calls of notify under way may see it or not.
ChoiceSaved(c) ==
    LET asked == DOMAIN call[c].choice
        Sees(d) == call[d].op = "notify" /\ call[d].pc # "over"
                     /\ ColumnOf(d) \in asked IN
    /\ chosen' = Assigned(c, chosen)
    /\ mixed' = IF OthersSaving(c) = {} THEN mixed ELSE mixed \cup asked
    /\ call' = [d \in Calls |->
         CASE d = c -> [call[d] EXCEPT !.pc = "over"]
           [] d # c /\ Sees(d) ->
                [call[d] EXCEPT !.seen = @ \cup {call[c].choice[ColumnOf(d)]}]
           [] OTHER -> call[d]]

Differing(e) == {k \in Columns : e[k] # pref[k]}

\* The SELECT of save.
SelectFindsSame(c) ==
    /\ call[c].pc = "select"
    /\ Differing(Assigned(c, call[c].entity)) = {}
    /\ ChoiceSaved(c)
    /\ UNCHANGED <<rows, errors>>

SelectFindsChange(c) ==
    LET e == Assigned(c, call[c].entity) IN
    /\ call[c].pc = "select"
    /\ Differing(e) # {}
    /\ call' = [call EXCEPT ![c].pc = "write", ![c].entity = e,
                            ![c].dirty = Differing(e)]
    /\ UNCHANGED <<rows, history>>

\* The UPDATE of save.
Write(c) ==
    /\ call[c].pc = "write"
    /\ pref' = [k \in Columns |-> IF k \in call[c].dirty THEN call[c].entity[k]
                                  ELSE pref[k]]
    /\ ChoiceSaved(c)
    /\ UNCHANGED <<stored, inbox, read, errors>>

QueryError(c) ==
    /\ call[c].pc \notin {"idle", "over", "failed"}
    /\ errors < MaxErrors
    /\ errors' = errors + 1
    /\ call' = [call EXCEPT ![c].pc = "failed"]
    /\ UNCHANGED <<rows, chosen, mixed>>

Next ==
    \E c \in Calls :
      \/ \E t \in Types : Start(c, "notify", t, NoChoice)
      \/ Start(c, "get", SomeType, NoChoice)
      \/ \E choice \in Choices : Start(c, "update", SomeType, choice)
      \/ Find(c) \/ Insert(c) \/ InsertRefused(c)
      \/ Deliver(c) \/ MarkRead(c)
      \/ SelectFindsSame(c) \/ SelectFindsChange(c) \/ Write(c)
      \/ QueryError(c)

Spec == Init /\ [][Next]_vars

-----------------------------------------------------------------------------
\* A column holds what the user chose last, unless the choice was saved while
\* another update held an entity it had loaded before: that one's save may
\* write the old value back.
ChoiceKept == \A k \in Columns : pref[k] # chosen[k] => k \in mixed

\* A call of notify that returns stored its notification if, and only if, the
\* user wanted it at some time during the call.
DeliveredAsChosen ==
    \A c \in Calls : call[c].op = "notify" /\ call[c].pc = "over" =>
      (c \in inbox) \in call[c].seen \/ ColumnOf(c) \in mixed

\* Only a user's first calls, made before the row existed, can lose to each
\* other on the unique index; afterwards a call fails only with its query.
FailsOnlyAtFirst ==
    \A c \in Calls : call[c].pc = "failed" => ~call[c].had \/ errors > 0

=============================================================================
