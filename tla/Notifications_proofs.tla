------------------------- MODULE Notifications_proofs -------------------------
(***************************************************************************)
(* Proofs about Notifications, for every number of calls and errors and    *)
(* all types of notification.                                              *)
(*                                                                         *)
(* The argument follows one column.  A call of updatePreferences that      *)
(* holds an entity holds the stored value of the column, or the column is  *)
(* mixed: whoever changed it meanwhile saw that somebody else was saving.  *)
(* So what a save writes beside the choice it was asked for is mixed, and  *)
(* what any other call reads is the choice, or mixed.                      *)
(***************************************************************************)
EXTENDS Notifications, TLAPS

-----------------------------------------------------------------------------
(* The invariant *)

\* An update that loaded its entity.
Loads(c) ==
    call[c].pc = "select" =>
      \A k \in Columns : call[c].entity[k] # pref[k] => k \in mixed

\* An update that compared it with the row.
Compared(c) ==
    call[c].pc = "write" =>
      \A k \in Columns :
        IF k \in DOMAIN call[c].choice
        THEN /\ call[c].entity[k] = call[c].choice[k]
             /\ k \notin call[c].dirty /\ pref[k] # call[c].choice[k] => k \in mixed
        ELSE k \in call[c].dirty => k \in mixed

\* What notify may rely on.
Sees(c) ==
    /\ call[c].op = "notify" /\ call[c].pc # "over" =>
         chosen[ColumnOf(c)] \in call[c].seen
    /\ call[c].pc = "deliver" =>
         call[c].entity[ColumnOf(c)] \in call[c].seen \/ ColumnOf(c) \in mixed

\* A call that has done its work.
Told(c) ==
    call[c].op = "notify" /\ call[c].pc = "over" =>
      (c \in inbox) \in call[c].seen \/ ColumnOf(c) \in mixed

\* Where a call of each kind can be, and what the row must be for that.
Placed(c) ==
    /\ call[c].pc = "idle" => call[c].op = "none"
    /\ call[c].pc \in {"select", "write"} => call[c].op = "update" /\ stored
    /\ call[c].pc = "deliver" => call[c].op = "notify" /\ stored
    /\ call[c].pc = "insert" => ~call[c].had
    /\ call[c].had => stored
    /\ call[c].pc = "failed" => ~call[c].had \/ errors > 0
    /\ c \in inbox => call[c].pc = "over"

CallInv(c) == Loads(c) /\ Compared(c) /\ Sees(c) /\ Told(c) /\ Placed(c)

NoticesInv == TypeOK /\ ChoiceKept /\ \A c \in Calls : CallInv(c)

-----------------------------------------------------------------------------
(* Columns and choices *)

\* There is a type to choose.
LEMMA SomeTypeType == ASSUME NotificationsAssumption PROVE SomeType \in Types
<1>1. \E t \in Types : TRUE
  BY DEF NotificationsAssumption
<1> QED
  BY <1>1 DEF SomeType

\* A type's column is one of the columns.
LEMMA PreferenceColumn ==
    ASSUME NEW t \in Types PROVE Preference(t) \in Columns
BY DEF Columns

\* A choice gives values to some of the columns.
LEMMA ChoiceValues ==
    ASSUME NEW choice \in Choices
    PROVE  DOMAIN choice \subseteq Columns /\ \A k \in DOMAIN choice : choice[k] \in BOOLEAN
<1>1. PICK S \in SUBSET Columns : choice \in [S -> BOOLEAN]
  BY DEF Choices
<1> QED
  BY <1>1

\* Choosing nothing is a choice.
LEMMA NoChoiceChoice == NoChoice \in Choices
<1>1. NoChoice \in [{} -> BOOLEAN]
  BY DEF NoChoice
<1> QED
  BY <1>1 DEF Choices

\* A call that was not made yet is a call.
LEMMA FreshRow ==
    ASSUME NotificationsAssumption
    PROVE  Fresh \in CallRows /\ Fresh.pc = "idle" /\ Fresh.op = "none" /\ ~Fresh.had
<1>1. Defaults \in [Columns -> BOOLEAN]
  BY DEF Defaults
<1> QED
  BY <1>1, SomeTypeType, NoChoiceChoice DEF Fresh, CallRows, Pcs

\* What Object.assign makes of an entity.
LEMMA AssignedEntity ==
    ASSUME TypeOK, NEW c \in Calls, NEW e \in [Columns -> BOOLEAN]
    PROVE  /\ Assigned(c, e) \in [Columns -> BOOLEAN]
           /\ \A k \in Columns : Assigned(c, e)[k] = IF k \in DOMAIN call[c].choice
                                                      THEN call[c].choice[k] ELSE e[k]
<1>1. call[c].choice \in Choices
  BY DEF TypeOK, CallRows
<1>2. \A k \in DOMAIN call[c].choice : call[c].choice[k] \in BOOLEAN
  BY <1>1, ChoiceValues
<1>3. \A k \in Columns :
        (IF k \in DOMAIN call[c].choice THEN call[c].choice[k] ELSE e[k]) \in BOOLEAN
  BY <1>2
<1> QED
  BY <1>3 DEF Assigned

\* The invariant holds at first.
LEMMA NoticesInit == ASSUME NotificationsAssumption, Init PROVE NoticesInv
<1>1. \A c \in Calls : call[c] = Fresh
  BY DEF Init
<1>2. Defaults \in [Columns -> BOOLEAN] /\ \A k \in Columns : Defaults[k]
  BY DEF Defaults
<1>3. TypeOK
  BY <1>2, FreshRow DEF Init, TypeOK
<1>4. ChoiceKept
  BY DEF Init, ChoiceKept
<1>5. \A c \in Calls : CallInv(c)
  BY <1>1, FreshRow DEF Init, CallInv, Loads, Compared, Sees, Told, Placed
<1> QED
  BY <1>3, <1>4, <1>5 DEF NoticesInv

-----------------------------------------------------------------------------
(* Moves of one call *)

\* One call goes on, and no column changes.
LEMMA CallMoves ==
    ASSUME NoticesInv, NEW c \in Calls, NEW n \in CallRows,
           call' = [call EXCEPT ![c] = n],
           UNCHANGED <<pref, chosen, mixed>>,
           stored' \in BOOLEAN, stored => stored',
           errors' \in Nat, errors <= errors',
           inbox' \subseteq Calls, read' \subseteq inbox',
           \A d \in Calls : d # c => (d \in inbox' <=> d \in inbox),
           CallInv(c)'
    PROVE  NoticesInv'
<1>1. \A d \in Calls : call'[d] = IF d = c THEN n ELSE call[d]
  BY DEF NoticesInv, TypeOK
<1>2. TypeOK'
  BY DEF NoticesInv, TypeOK
<1>3. ChoiceKept'
  BY DEF NoticesInv, ChoiceKept
<1>4. ASSUME NEW d \in Calls, d # c PROVE CallInv(d)'
  <2>1. call'[d] = call[d] /\ (d \in inbox' <=> d \in inbox)
    BY <1>1, <1>4
  <2>2. CallInv(d)
    BY DEF NoticesInv
  <2>3. Loads(d)'
    BY <2>1, <2>2 DEF CallInv, Loads
  <2>4. Compared(d)'
    BY <2>1, <2>2 DEF CallInv, Compared
  <2>5. Sees(d)'
    BY <2>1, <2>2 DEF CallInv, Sees, ColumnOf
  <2>6. Told(d)'
    <3>1. (d \in inbox') = (d \in inbox)
      BY <2>1
    <3> QED
      BY <2>1, <2>2, <3>1 DEF CallInv, Told, ColumnOf
  <2>7. Placed(d)'
    BY <2>1, <2>2 DEF CallInv, Placed, NoticesInv, TypeOK
  <2> QED
    BY <2>3, <2>4, <2>5, <2>6, <2>7 DEF CallInv
<1> QED
  BY <1>2, <1>3, <1>4 DEF NoticesInv

\* Facts of TypeOK about one call.
LEMMA RowFacts ==
    ASSUME NoticesInv, NEW c \in Calls
    PROVE  /\ call[c] \in CallRows /\ ColumnOf(c) \in Columns
           /\ call[c].entity \in [Columns -> BOOLEAN]
           /\ stored \in BOOLEAN /\ errors \in Nat
           /\ inbox \subseteq Calls /\ read \subseteq inbox
           /\ pref \in [Columns -> BOOLEAN] /\ chosen \in [Columns -> BOOLEAN]
           /\ CallInv(c)
BY PreferenceColumn DEF NoticesInv, TypeOK, CallRows, ColumnOf

\* A call begins.
LEMMA StartStep ==
    ASSUME NotificationsAssumption, NoticesInv, NEW c \in Calls,
           NEW op \in {"notify", "get", "update"}, NEW t \in Types,
           NEW choice \in Choices, Start(c, op, t, choice)
    PROVE  NoticesInv'
<1> DEFINE n == [Fresh EXCEPT !.pc = "find", !.op = op, !.type = t,
                              !.choice = choice, !.had = stored,
                              !.seen = {chosen[Preference(t)]}]
<1>0. call' = [call EXCEPT ![c] = n] /\ UNCHANGED <<rows, history>>
      /\ call[c].pc = "idle"
  BY DEF Start
<1>1. Preference(t) \in Columns
  BY PreferenceColumn
<1>2. chosen[Preference(t)] \in BOOLEAN
  BY <1>1, RowFacts
<1>3. /\ n \in CallRows /\ n.pc = "find" /\ n.op = op /\ n.type = t /\ n.had = stored
      /\ n.seen = {chosen[Preference(t)]}
  BY <1>2, FreshRow, RowFacts DEF CallRows, Pcs
<1> HIDE DEF n
<1>4. call'[c] = n
  BY <1>0 DEF NoticesInv, TypeOK
<1>5. c \notin inbox
  BY <1>0, RowFacts DEF CallInv, Placed
<1>6. CallInv(c)'
  BY <1>0, <1>3, <1>4, <1>5
     DEF CallInv, Loads, Compared, Sees, Told, Placed, ColumnOf, rows, history
<1>7. /\ UNCHANGED <<pref, chosen, mixed>> /\ stored' \in BOOLEAN /\ (stored => stored')
      /\ errors' \in Nat /\ errors <= errors'
      /\ inbox' \subseteq Calls /\ read' \subseteq inbox'
      /\ \A d \in Calls : d # c => (d \in inbox' <=> d \in inbox)
  BY <1>0, RowFacts DEF rows, history
<1> QED
  BY <1>0, <1>3, <1>6, <1>7, CallMoves

\* Where ensureDefault returns to, with the entity it found.
LEMMA EnsuredStep ==
    ASSUME NoticesInv, NEW c \in Calls, NEW e \in [Columns -> BOOLEAN],
           call[c].pc \in {"find", "insert"},
           \A k \in Columns : e[k] = pref[k],
           call' = [call EXCEPT ![c].pc = AfterEnsure(c), ![c].entity = e],
           stored' = TRUE, UNCHANGED <<pref, inbox, read, history>>
    PROVE  NoticesInv'
<1> DEFINE n == [call[c] EXCEPT !.pc = AfterEnsure(c), !.entity = e]
<1>1. AfterEnsure(c) \in {"deliver", "select", "over"}
      /\ (AfterEnsure(c) = "deliver" <=> call[c].op = "notify")
      /\ (AfterEnsure(c) = "select" => call[c].op = "update")
  BY DEF AfterEnsure
<1>2. /\ n \in CallRows /\ n.pc = AfterEnsure(c) /\ n.entity = e
      /\ n.op = call[c].op /\ n.type = call[c].type /\ n.had = call[c].had
      /\ n.seen = call[c].seen
  BY <1>1, RowFacts DEF CallRows, Pcs
<1>3. call' = [call EXCEPT ![c] = n]
  OBVIOUS
<1> HIDE DEF n
<1>4. call'[c] = n
  BY <1>3 DEF NoticesInv, TypeOK
<1>5. ColumnOf(c) \in Columns /\ ColumnOf(c)' = ColumnOf(c)
  BY <1>2, <1>4, RowFacts DEF ColumnOf
<1>6. Loads(c)'
  BY <1>2, <1>4 DEF Loads
<1>7. Compared(c)'
  BY <1>1, <1>2, <1>4 DEF Compared
<1>8. Sees(c)'
  <2>1. call[c].op = "notify" => chosen[ColumnOf(c)] \in call[c].seen
    BY RowFacts DEF CallInv, Sees
  <2>2. pref[ColumnOf(c)] # chosen[ColumnOf(c)] => ColumnOf(c) \in mixed
    BY <1>5 DEF NoticesInv, ChoiceKept
  <2>3. e[ColumnOf(c)] = pref[ColumnOf(c)]
    BY <1>5
  <2>4. UNCHANGED <<chosen, mixed>>
    BY DEF history
  <2>5. CASE call[c].op = "notify"
    <3>1. chosen'[ColumnOf(c)'] \in call'[c].seen
      BY <1>2, <1>4, <1>5, <2>1, <2>4, <2>5
    <3>2. call'[c].entity[ColumnOf(c)'] \in call'[c].seen \/ ColumnOf(c)' \in mixed'
      BY <1>2, <1>4, <1>5, <2>1, <2>2, <2>3, <2>4, <2>5
    <3> QED
      BY <3>1, <3>2 DEF Sees
  <2>6. CASE call[c].op # "notify"
    BY <1>1, <1>2, <1>4, <2>6 DEF Sees
  <2> QED
    BY <2>5, <2>6
<1>9. Told(c)'
  BY <1>1, <1>2, <1>4 DEF Told
<1>10. Placed(c)'
  <2>1. c \notin inbox
    BY RowFacts DEF CallInv, Placed
  <2> QED
    BY <1>1, <1>2, <1>4, <2>1 DEF Placed
<1>11. CallInv(c)'
  BY <1>6, <1>7, <1>8, <1>9, <1>10 DEF CallInv
<1>12. /\ UNCHANGED <<pref, chosen, mixed>> /\ stored' \in BOOLEAN /\ (stored => stored')
       /\ errors' \in Nat /\ errors <= errors'
       /\ inbox' \subseteq Calls /\ read' \subseteq inbox'
       /\ \A d \in Calls : d # c => (d \in inbox' <=> d \in inbox)
  BY RowFacts DEF history
<1> QED
  BY <1>2, <1>3, <1>11, <1>12, CallMoves

\* ensureDefault looks for the row.
LEMMA FindStep ==
    ASSUME NotificationsAssumption, NoticesInv, NEW c \in Calls, Find(c)
    PROVE  NoticesInv'
<1>0. call[c].pc = "find" /\ UNCHANGED <<rows, history>>
  BY DEF Find
<1>1. CASE stored
  <2>1. call' = [call EXCEPT ![c].pc = AfterEnsure(c), ![c].entity = pref]
    BY <1>1 DEF Find, RowFound, Loaded
  <2> QED
    BY <1>0, <1>1, <2>1, EnsuredStep, RowFacts DEF rows
<1>2. CASE ~stored
  <2> DEFINE n == [call[c] EXCEPT !.pc = "insert"]
  <2>1. call' = [call EXCEPT ![c] = n]
    BY <1>2 DEF Find, RowFound
  <2>2. n \in CallRows /\ n.pc = "insert" /\ n.op = call[c].op /\ n.seen = call[c].seen
        /\ n.type = call[c].type /\ n.had = call[c].had
    BY RowFacts DEF CallRows, Pcs
  <2> HIDE DEF n
  <2>3. call'[c] = n
    BY <2>1 DEF NoticesInv, TypeOK
  <2>4. CallInv(c)'
    BY <1>0, <1>2, <2>2, <2>3, RowFacts
       DEF CallInv, Loads, Compared, Sees, Told, Placed, ColumnOf, rows, history
  <2>5. /\ UNCHANGED <<pref, chosen, mixed>> /\ stored' \in BOOLEAN /\ (stored => stored')
        /\ errors' \in Nat /\ errors <= errors'
        /\ inbox' \subseteq Calls /\ read' \subseteq inbox'
        /\ \A d \in Calls : d # c => (d \in inbox' <=> d \in inbox)
    BY <1>0, RowFacts DEF rows, history
  <2> QED
    BY <2>1, <2>2, <2>4, <2>5, CallMoves
<1> QED
  BY <1>1, <1>2, RowFacts

\* ensureDefault inserts the row.
LEMMA InsertStep ==
    ASSUME NotificationsAssumption, NoticesInv, NEW c \in Calls, Insert(c)
    PROVE  NoticesInv'
<1>1. Defaults \in [Columns -> BOOLEAN] /\ \A k \in Columns : Defaults[k] = TRUE
  BY DEF Defaults
<1>2. \A k \in Columns : pref[k] = TRUE
  BY DEF Insert, NoticesInv, TypeOK
<1>3. /\ call[c].pc = "insert" /\ stored' = TRUE
      /\ UNCHANGED <<pref, inbox, read, history>>
      /\ call' = [call EXCEPT ![c].pc = AfterEnsure(c), ![c].entity = Defaults]
  BY DEF Insert
<1> QED
  BY <1>1, <1>2, <1>3, EnsuredStep

\* The index refuses the row, or a query fails.
LEMMA FailStep ==
    ASSUME NotificationsAssumption, NoticesInv, NEW c \in Calls,
           InsertRefused(c) \/ QueryError(c)
    PROVE  NoticesInv'
<1> DEFINE n == [call[c] EXCEPT !.pc = "failed"]
<1>1. /\ call' = [call EXCEPT ![c] = n]
      /\ UNCHANGED <<rows, chosen, mixed>>
      /\ call[c].pc \notin {"idle", "over", "failed"}
      /\ errors' \in Nat /\ errors <= errors'
      /\ errors' > 0 \/ call[c].pc = "insert"
  BY RowFacts DEF InsertRefused, QueryError, history
<1>2. n \in CallRows /\ n.pc = "failed" /\ n.op = call[c].op /\ n.seen = call[c].seen
      /\ n.type = call[c].type /\ n.had = call[c].had
  BY RowFacts DEF CallRows, Pcs
<1> HIDE DEF n
<1>3. call'[c] = n
  BY <1>1 DEF NoticesInv, TypeOK
<1>4. CallInv(c)'
  BY <1>1, <1>2, <1>3, RowFacts
     DEF CallInv, Loads, Compared, Sees, Told, Placed, ColumnOf, rows
<1> QED
  BY <1>1, <1>2, <1>4, CallMoves, RowFacts DEF rows

\* notify stores what the preference it read wants.
LEMMA DeliverStep ==
    ASSUME NotificationsAssumption, NoticesInv, NEW c \in Calls, Deliver(c)
    PROVE  NoticesInv'
<1> DEFINE n == [call[c] EXCEPT !.pc = "over"]
<1>1. /\ call' = [call EXCEPT ![c] = n] /\ call[c].pc = "deliver"
      /\ inbox' = IF call[c].entity[ColumnOf(c)] THEN inbox \cup {c} ELSE inbox
      /\ UNCHANGED <<stored, pref, read, history>>
  BY DEF Deliver, Wanted
<1>2. n \in CallRows /\ n.pc = "over" /\ n.op = call[c].op /\ n.seen = call[c].seen
      /\ n.type = call[c].type /\ n.had = call[c].had
  BY RowFacts DEF CallRows, Pcs
<1> HIDE DEF n
<1>3. call'[c] = n
  BY <1>1 DEF NoticesInv, TypeOK
<1>4. ColumnOf(c)' = ColumnOf(c) /\ mixed' = mixed
  BY <1>1, <1>2, <1>3 DEF ColumnOf, history
<1>5. c \notin inbox
  BY <1>1, RowFacts DEF CallInv, Placed
<1>6. call[c].entity[ColumnOf(c)] \in BOOLEAN
  BY RowFacts
<1>7. (c \in inbox') = call[c].entity[ColumnOf(c)]
  BY <1>1, <1>5, <1>6
<1>8. call[c].entity[ColumnOf(c)] \in call[c].seen \/ ColumnOf(c) \in mixed
  BY <1>1, RowFacts DEF CallInv, Sees
<1>9. Told(c)'
  BY <1>2, <1>3, <1>4, <1>7, <1>8 DEF Told
<1>10. CallInv(c)'
  BY <1>1, <1>2, <1>3, <1>9, RowFacts
     DEF CallInv, Loads, Compared, Sees, Placed, history
<1>11. /\ UNCHANGED <<pref, chosen, mixed>> /\ stored' \in BOOLEAN /\ (stored => stored')
       /\ errors' \in Nat /\ errors <= errors'
       /\ inbox' \subseteq Calls /\ read' \subseteq inbox'
       /\ \A d \in Calls : d # c => (d \in inbox' <=> d \in inbox)
  BY <1>1, RowFacts DEF history
<1> QED
  BY <1>1, <1>2, <1>10, <1>11, CallMoves

\* A notification is marked as read.
LEMMA MarkReadStep ==
    ASSUME NoticesInv, NEW c \in Calls, MarkRead(c)
    PROVE  NoticesInv'
<1>1. c \in inbox /\ read' = read \cup {c} /\ UNCHANGED <<stored, pref, inbox, call, history>>
  BY DEF MarkRead
<1>2. TypeOK'
  BY <1>1 DEF NoticesInv, TypeOK, history
<1>3. ChoiceKept' /\ \A d \in Calls : CallInv(d)'
  BY <1>1 DEF NoticesInv, ChoiceKept, CallInv, Loads, Compared, Sees, Told,
              Placed, ColumnOf, history
<1> QED
  BY <1>2, <1>3 DEF NoticesInv

\* save finds that the entity, with the choice in it, differs from the row.
LEMMA FindsChangeStep ==
    ASSUME NoticesInv, NEW c \in Calls, SelectFindsChange(c)
    PROVE  NoticesInv'
<1> DEFINE e == Assigned(c, call[c].entity)
           n == [call[c] EXCEPT !.pc = "write", !.entity = e,
                                !.dirty = Differing(e)]
<1>1. /\ call' = [call EXCEPT ![c] = n] /\ call[c].pc = "select"
      /\ UNCHANGED <<rows, history>>
  BY DEF SelectFindsChange
<1>2. /\ e \in [Columns -> BOOLEAN]
      /\ \A k \in Columns : e[k] = IF k \in DOMAIN call[c].choice
                                   THEN call[c].choice[k] ELSE call[c].entity[k]
  BY AssignedEntity, RowFacts DEF NoticesInv
<1> HIDE DEF e
<1>3. /\ Differing(e) \subseteq Columns
      /\ \A k \in Columns : k \in Differing(e) <=> e[k] # pref[k]
  BY DEF Differing
<1>4. /\ n \in CallRows /\ n.pc = "write" /\ n.entity = e /\ n.dirty = Differing(e)
      /\ n.op = call[c].op /\ n.seen = call[c].seen /\ n.choice = call[c].choice
      /\ n.type = call[c].type /\ n.had = call[c].had
  BY <1>2, <1>3, RowFacts DEF CallRows, Pcs
<1> HIDE DEF n
<1>5. call'[c] = n
  BY <1>1 DEF NoticesInv, TypeOK
<1>6. \A k \in Columns : call[c].entity[k] # pref[k] => k \in mixed
  BY <1>1, RowFacts DEF CallInv, Loads
<1>7. Compared(c)'
  BY <1>1, <1>2, <1>3, <1>4, <1>5, <1>6 DEF Compared, rows, history
<1>8. CallInv(c)'
  BY <1>1, <1>4, <1>5, <1>7, RowFacts
     DEF CallInv, Loads, Sees, Told, Placed, ColumnOf, rows, history
<1>9. /\ UNCHANGED <<pref, chosen, mixed>> /\ stored' \in BOOLEAN /\ (stored => stored')
      /\ errors' \in Nat /\ errors <= errors'
      /\ inbox' \subseteq Calls /\ read' \subseteq inbox'
      /\ \A d \in Calls : d # c => (d \in inbox' <=> d \in inbox)
  BY <1>1, RowFacts DEF rows, history
<1> QED
  BY <1>1, <1>4, <1>8, <1>9, CallMoves

-----------------------------------------------------------------------------
(* A choice is saved *)

\* What ChoiceSaved does to the calls and the history.
LEMMA SavedRows ==
    ASSUME NoticesInv, NEW c \in Calls, ChoiceSaved(c)
    PROVE  /\ call' \in [Calls -> CallRows]
           /\ call'[c] = [call[c] EXCEPT !.pc = "over"]
           /\ \A d \in Calls : d # c =>
                /\ \/ call'[d] = call[d]
                   \/ /\ call[d].pc # "over"
                      /\ \E v \in BOOLEAN :
                           call'[d] = [call[d] EXCEPT !.seen = @ \cup {v}]
                /\ /\ call[d].op = "notify" /\ call[d].pc # "over"
                   /\ ColumnOf(d) \in DOMAIN call[c].choice
                   => call[c].choice[ColumnOf(d)] \in call'[d].seen
           /\ chosen' \in [Columns -> BOOLEAN]
           /\ \A k \in Columns : chosen'[k] = IF k \in DOMAIN call[c].choice
                                              THEN call[c].choice[k] ELSE chosen[k]
           /\ mixed \subseteq mixed' /\ mixed' \subseteq Columns
           /\ \A d \in Calls : d # c /\ call[d].pc \in {"select", "write"} =>
                DOMAIN call[c].choice \subseteq mixed'
<1> DEFINE asked == DOMAIN call[c].choice
           See(d) == call[d].op = "notify" /\ call[d].pc # "over"
                     /\ ColumnOf(d) \in asked
           n(d) == CASE d = c -> [call[d] EXCEPT !.pc = "over"]
                     [] d # c /\ See(d) ->
                          [call[d] EXCEPT !.seen = @ \cup {call[c].choice[ColumnOf(d)]}]
                     [] OTHER -> call[d]
<1>1. /\ chosen' = Assigned(c, chosen)
      /\ mixed' = IF OthersSaving(c) = {} THEN mixed ELSE mixed \cup asked
      /\ call' = [d \in Calls |-> n(d)]
  BY DEF ChoiceSaved
<1>2. asked \subseteq Columns /\ \A k \in asked : call[c].choice[k] \in BOOLEAN
  BY ChoiceValues, RowFacts DEF CallRows
<1>3. \A d \in Calls : call[d] \in CallRows
  BY RowFacts
<1>4. call'[c] = [call[c] EXCEPT !.pc = "over"]
  BY <1>1
<1>5. ASSUME NEW d \in Calls, d # c, See(d)
      PROVE  /\ call[d].pc # "over"
             /\ call'[d] = [call[d] EXCEPT !.seen = @ \cup {call[c].choice[ColumnOf(d)]}]
             /\ call[c].choice[ColumnOf(d)] \in BOOLEAN
  BY <1>1, <1>2, <1>5
<1>6. ASSUME NEW d \in Calls, d # c, ~See(d) PROVE call'[d] = call[d]
  BY <1>1, <1>6
<1> HIDE DEF n
<1>7. \A d \in Calls : call'[d] \in CallRows
  <2>1. call'[c] \in CallRows
    BY <1>3, <1>4 DEF CallRows, Pcs
  <2>2. ASSUME NEW d \in Calls, d # c, See(d) PROVE call'[d] \in CallRows
    <3>1. PICK v \in BOOLEAN : call'[d] = [call[d] EXCEPT !.seen = @ \cup {v}]
      BY <1>5, <2>2
    <3> QED
      BY <1>3, <3>1 DEF CallRows
  <2> QED
    BY <1>3, <1>6, <2>1, <2>2
<1>8. call' \in [Calls -> CallRows]
  BY <1>1, <1>7
<1> HIDE DEF See
<1>9. ASSUME NEW d \in Calls, d # c
      PROVE  \/ call'[d] = call[d]
             \/ /\ call[d].pc # "over"
                /\ \E v \in BOOLEAN : call'[d] = [call[d] EXCEPT !.seen = @ \cup {v}]
  <2>1. CASE See(d)
    <3>1. call[d].pc # "over" /\ call[c].choice[ColumnOf(d)] \in BOOLEAN
          /\ call'[d] = [call[d] EXCEPT !.seen = @ \cup {call[c].choice[ColumnOf(d)]}]
      BY <1>5, <1>9, <2>1
    <3> QED
      BY <3>1
  <2>2. CASE ~See(d)
    BY <1>6, <1>9, <2>2
  <2> QED
    BY <2>1, <2>2
<1>10. ASSUME NEW d \in Calls, d # c, call[d].op = "notify", call[d].pc # "over",
              ColumnOf(d) \in asked
       PROVE  call[c].choice[ColumnOf(d)] \in call'[d].seen
  <2>1. call'[d] = [call[d] EXCEPT !.seen = @ \cup {call[c].choice[ColumnOf(d)]}]
    BY <1>5, <1>10 DEF See
  <2> QED
    BY <1>3, <2>1 DEF CallRows
<1>11. /\ chosen' \in [Columns -> BOOLEAN]
       /\ \A k \in Columns : chosen'[k] = IF k \in asked THEN call[c].choice[k]
                                          ELSE chosen[k]
  BY <1>1, AssignedEntity, RowFacts DEF NoticesInv
<1>12. mixed \subseteq mixed' /\ mixed' \subseteq Columns
  BY <1>1, <1>2 DEF NoticesInv, TypeOK
<1>13. \A d \in Calls : d # c /\ call[d].pc \in {"select", "write"} =>
         asked \subseteq mixed'
  BY <1>1 DEF OthersSaving
<1> HIDE DEF asked
<1> QED
  BY <1>4, <1>8, <1>9, <1>10, <1>11, <1>12, <1>13 DEF asked

\* The same, of the other calls' fields.
LEMMA OthersKeep ==
    ASSUME NoticesInv, NEW c \in Calls, ChoiceSaved(c), NEW d \in Calls, d # c
    PROVE  /\ call'[d].pc = call[d].pc /\ call'[d].op = call[d].op
           /\ call'[d].choice = call[d].choice /\ call'[d].entity = call[d].entity
           /\ call'[d].dirty = call[d].dirty /\ call'[d].had = call[d].had
           /\ ColumnOf(d)' = ColumnOf(d)
           /\ \A v \in call[d].seen : v \in call'[d].seen
           /\ call[d].pc = "over" => call'[d] = call[d]
<1>1. call[d] \in CallRows
  BY RowFacts
<1>2. CASE call'[d] = call[d]
  BY <1>2 DEF ColumnOf
<1>3. CASE call[d].pc # "over"
           /\ \E v \in BOOLEAN : call'[d] = [call[d] EXCEPT !.seen = @ \cup {v}]
  <2>1. PICK v \in BOOLEAN : call'[d] = [call[d] EXCEPT !.seen = @ \cup {v}]
    BY <1>3
  <2>2. call'[d].type = call[d].type
    BY <1>1, <2>1 DEF CallRows
  <2> QED
    BY <1>1, <1>3, <2>1, <2>2 DEF CallRows, ColumnOf
<1> QED
  BY <1>2, <1>3, SavedRows

\* c's save writes, of the columns it was not asked for, only mixed ones; of those
\* it was asked for it leaves the choice, or they are mixed.
LEMMA SaveStep ==
    ASSUME NoticesInv, NEW c \in Calls, call[c].pc \in {"select", "write"},
           ChoiceSaved(c), UNCHANGED <<stored, inbox, read, errors>>,
           pref' \in [Columns -> BOOLEAN],
           \A k \in Columns :
             IF k \in DOMAIN call[c].choice
             THEN pref'[k] = call[c].choice[k] \/ (k \in mixed /\ pref'[k] = pref[k])
             ELSE pref'[k] = pref[k] \/ k \in mixed
    PROVE  NoticesInv'
<1>1. stored /\ call[c].op = "update"
  BY RowFacts DEF CallInv, Placed
<1>2. TypeOK'
  BY <1>1, SavedRows DEF NoticesInv, TypeOK
<1>3. ChoiceKept'
  <2>1. SUFFICES ASSUME NEW k \in Columns, pref'[k] # chosen'[k] PROVE k \in mixed'
    BY DEF ChoiceKept
  <2>2. mixed \subseteq mixed' /\ (pref[k] # chosen[k] => k \in mixed)
    BY SavedRows DEF NoticesInv, ChoiceKept
  <2>3. chosen'[k] = IF k \in DOMAIN call[c].choice THEN call[c].choice[k]
                     ELSE chosen[k]
    BY SavedRows
  <2> QED
    BY <2>1, <2>2, <2>3
<1>4. CallInv(c)'
  <2>1. call'[c].pc = "over" /\ call'[c].op = "update" /\ call'[c].had = call[c].had
    <3>1. call'[c] = [call[c] EXCEPT !.pc = "over"]
      BY SavedRows
    <3>2. call[c] \in CallRows
      BY RowFacts
    <3> QED
      BY <1>1, <3>1, <3>2 DEF CallRows
  <2> QED
    BY <1>1, <2>1 DEF CallInv, Loads, Compared, Sees, Told, Placed
<1>5. ASSUME NEW d \in Calls, d # c PROVE CallInv(d)'
  <2>1. /\ call'[d].pc = call[d].pc /\ call'[d].op = call[d].op
        /\ call'[d].choice = call[d].choice /\ call'[d].entity = call[d].entity
        /\ call'[d].dirty = call[d].dirty /\ call'[d].had = call[d].had
        /\ ColumnOf(d)' = ColumnOf(d)
        /\ \A v \in call[d].seen : v \in call'[d].seen
        /\ call[d].pc = "over" => call'[d] = call[d]
    BY <1>5, OthersKeep
  <2>2. CallInv(d) /\ ColumnOf(d) \in Columns
    BY RowFacts
  <2>3. mixed \subseteq mixed'
    BY SavedRows
  <2>4. ASSUME call[d].pc \in {"select", "write"}, NEW k \in Columns,
               pref'[k] # pref[k]
        PROVE  k \in mixed'
    <3>1. DOMAIN call[c].choice \subseteq mixed'
      BY <1>5, <2>4, SavedRows
    <3> QED
      BY <2>3, <2>4, <3>1
  <2>5. Loads(d)'
    <3>1. SUFFICES ASSUME call[d].pc = "select", NEW k \in Columns,
                          call[d].entity[k] # pref'[k]
          PROVE  k \in mixed'
      BY <2>1 DEF Loads
    <3>2. call[d].entity[k] # pref[k] => k \in mixed
      BY <2>2, <3>1 DEF CallInv, Loads
    <3> QED
      BY <2>3, <2>4, <3>1, <3>2
  <2>6. Compared(d)'
    <3>1. SUFFICES ASSUME call[d].pc = "write", NEW k \in Columns
          PROVE  IF k \in DOMAIN call[d].choice
                 THEN /\ call[d].entity[k] = call[d].choice[k]
                      /\ k \notin call[d].dirty /\ pref'[k] # call[d].choice[k]
                         => k \in mixed'
                 ELSE k \in call[d].dirty => k \in mixed'
      BY <2>1 DEF Compared
    <3>2. IF k \in DOMAIN call[d].choice
          THEN /\ call[d].entity[k] = call[d].choice[k]
               /\ k \notin call[d].dirty /\ pref[k] # call[d].choice[k] => k \in mixed
          ELSE k \in call[d].dirty => k \in mixed
      BY <2>2, <3>1 DEF CallInv, Compared
    <3> QED
      BY <2>3, <2>4, <3>1, <3>2
  <2>7. Sees(d)'
    <3>1. ASSUME call[d].op = "notify", call[d].pc # "over"
          PROVE  chosen'[ColumnOf(d)] \in call'[d].seen
      <4>1. chosen[ColumnOf(d)] \in call[d].seen
        BY <2>2, <3>1 DEF CallInv, Sees
      <4>2. chosen'[ColumnOf(d)] =
              IF ColumnOf(d) \in DOMAIN call[c].choice
              THEN call[c].choice[ColumnOf(d)] ELSE chosen[ColumnOf(d)]
        BY <2>2, SavedRows
      <4>3. ColumnOf(d) \in DOMAIN call[c].choice =>
              call[c].choice[ColumnOf(d)] \in call'[d].seen
        BY <1>5, <3>1, SavedRows
      <4> QED
        BY <2>1, <4>1, <4>2, <4>3
    <3>2. ASSUME call[d].pc = "deliver"
          PROVE  call[d].entity[ColumnOf(d)] \in call'[d].seen \/ ColumnOf(d) \in mixed'
      <4>1. call[d].entity[ColumnOf(d)] \in call[d].seen \/ ColumnOf(d) \in mixed
        BY <2>2, <3>2 DEF CallInv, Sees
      <4> QED
        BY <2>1, <2>3, <4>1
    <3> QED
      BY <2>1, <3>1, <3>2 DEF Sees
  <2>8. Told(d)'
    <3>1. SUFFICES ASSUME call[d].op = "notify", call[d].pc = "over"
          PROVE  (d \in inbox) \in call[d].seen \/ ColumnOf(d) \in mixed'
      BY <2>1 DEF Told
    <3>2. (d \in inbox) \in call[d].seen \/ ColumnOf(d) \in mixed
      BY <2>2, <3>1 DEF CallInv, Told
    <3> QED
      BY <2>3, <3>2
  <2>9. Placed(d)'
    BY <2>1, <2>2 DEF CallInv, Placed
  <2> QED
    BY <2>5, <2>6, <2>7, <2>8, <2>9 DEF CallInv
<1> QED
  BY <1>2, <1>3, <1>4, <1>5 DEF NoticesInv

\* save finds the row as it should be.
LEMMA FindsSameStep ==
    ASSUME NoticesInv, NEW c \in Calls, SelectFindsSame(c)
    PROVE  NoticesInv'
<1>1. /\ call[c].pc = "select" /\ ChoiceSaved(c) /\ UNCHANGED <<rows, errors>>
      /\ Differing(Assigned(c, call[c].entity)) = {}
  BY DEF SelectFindsSame
<1>2. \A k \in Columns : Assigned(c, call[c].entity)[k] = pref[k]
  BY <1>1 DEF Differing
<1>3. \A k \in DOMAIN call[c].choice : k \in Columns => pref[k] = call[c].choice[k]
  BY <1>2, AssignedEntity, RowFacts DEF NoticesInv
<1>4. UNCHANGED <<stored, pref, inbox, read, errors>>
  BY <1>1 DEF rows
<1>5. pref' \in [Columns -> BOOLEAN]
  BY <1>4, RowFacts
<1>6. \A k \in Columns :
        IF k \in DOMAIN call[c].choice
        THEN pref'[k] = call[c].choice[k] \/ (k \in mixed /\ pref'[k] = pref[k])
        ELSE pref'[k] = pref[k] \/ k \in mixed
  BY <1>3, <1>4
<1> QED
  BY <1>1, <1>4, <1>5, <1>6, SaveStep

\* save updates the columns it found different.
LEMMA WriteStep ==
    ASSUME NoticesInv, NEW c \in Calls, Write(c)
    PROVE  NoticesInv'
<1>1. /\ call[c].pc = "write" /\ ChoiceSaved(c)
      /\ UNCHANGED <<stored, inbox, read, errors>>
      /\ pref' = [k \in Columns |-> IF k \in call[c].dirty THEN call[c].entity[k]
                                    ELSE pref[k]]
  BY DEF Write
<1>2. \A k \in Columns : pref'[k] = IF k \in call[c].dirty THEN call[c].entity[k]
                                    ELSE pref[k]
  BY <1>1
<1>3. pref' \in [Columns -> BOOLEAN]
  <2>1. \A k \in Columns : call[c].entity[k] \in BOOLEAN /\ pref[k] \in BOOLEAN
    BY RowFacts
  <2>2. \A k \in Columns :
          (IF k \in call[c].dirty THEN call[c].entity[k] ELSE pref[k]) \in BOOLEAN
    BY <2>1
  <2> QED
    BY <1>1, <2>2
<1>4. \A k \in Columns :
        IF k \in DOMAIN call[c].choice
        THEN /\ call[c].entity[k] = call[c].choice[k]
             /\ k \notin call[c].dirty /\ pref[k] # call[c].choice[k] => k \in mixed
        ELSE k \in call[c].dirty => k \in mixed
  BY <1>1, RowFacts DEF CallInv, Compared
<1>5. \A k \in Columns :
        IF k \in DOMAIN call[c].choice
        THEN pref'[k] = call[c].choice[k] \/ (k \in mixed /\ pref'[k] = pref[k])
        ELSE pref'[k] = pref[k] \/ k \in mixed
  BY <1>2, <1>4
<1> QED
  BY <1>1, <1>3, <1>5, SaveStep

-----------------------------------------------------------------------------
(* Theorems *)

\* Every step keeps NoticesInv.
LEMMA NoticesStep ==
    ASSUME NotificationsAssumption, NoticesInv, [Next]_vars
    PROVE  NoticesInv'
<1>1. CASE Next
  <2>1. PICK c \in Calls :
          \/ \E t \in Types : Start(c, "notify", t, NoChoice)
          \/ Start(c, "get", SomeType, NoChoice)
          \/ \E choice \in Choices : Start(c, "update", SomeType, choice)
          \/ Find(c) \/ Insert(c) \/ InsertRefused(c)
          \/ Deliver(c) \/ MarkRead(c)
          \/ SelectFindsSame(c) \/ SelectFindsChange(c) \/ Write(c)
          \/ QueryError(c)
    BY <1>1 DEF Next
  <2>2. CASE \/ \E t \in Types : Start(c, "notify", t, NoChoice)
             \/ Start(c, "get", SomeType, NoChoice)
             \/ \E choice \in Choices : Start(c, "update", SomeType, choice)
    BY <2>2, StartStep, SomeTypeType, NoChoiceChoice
  <2> QED
    BY <2>1, <2>2, FindStep, InsertStep, FailStep, DeliverStep, MarkReadStep,
       FindsSameStep, FindsChangeStep, WriteStep
<1>2. CASE UNCHANGED vars
  BY <1>2 DEF vars, rows, history, NoticesInv, TypeOK, ChoiceKept, CallInv, Loads,
              Compared, Sees, Told, Placed, ColumnOf
<1> QED
  BY <1>1, <1>2

\* Every reachable state satisfies NoticesInv: what a call holds of the
\* preferences is what is stored, or the column is mixed.
THEOREM NoticesCorrect ==
    ASSUME NotificationsAssumption PROVE Spec => []NoticesInv
<1>1. NoticesInv /\ [Next]_vars => NoticesInv'
  BY NoticesStep
<1> QED
  BY <1>1, NoticesInit, PTL DEF Spec

\* Types of the rows and calls.
THEOREM NotificationsTypeCorrect ==
    ASSUME NotificationsAssumption PROVE Spec => []TypeOK
<1>1. NoticesInv => TypeOK
  BY DEF NoticesInv
<1> QED
  BY <1>1, NoticesCorrect, PTL

\* A saved choice is kept, unless it was saved while another update was saving.
THEOREM ChoiceKeptCorrect ==
    ASSUME NotificationsAssumption PROVE Spec => []ChoiceKept
<1>1. NoticesInv => ChoiceKept
  BY DEF NoticesInv
<1> QED
  BY <1>1, NoticesCorrect, PTL

\* notify stores a notification if, and only if, the user wanted it during the
\* call, or the column is mixed.
THEOREM DeliveredCorrect ==
    ASSUME NotificationsAssumption PROVE Spec => []DeliveredAsChosen
<1>1. NoticesInv => DeliveredAsChosen
  BY DEF NoticesInv, CallInv, Told, DeliveredAsChosen
<1> QED
  BY <1>1, NoticesCorrect, PTL

\* Only calls that began before there was a row fail without a failing query.
THEOREM FailsOnlyAtFirstCorrect ==
    ASSUME NotificationsAssumption PROVE Spec => []FailsOnlyAtFirst
<1>1. NoticesInv => FailsOnlyAtFirst
  BY DEF NoticesInv, CallInv, Placed, FailsOnlyAtFirst
<1> QED
  BY <1>1, NoticesCorrect, PTL

=============================================================================
