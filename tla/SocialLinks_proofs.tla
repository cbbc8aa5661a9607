-------------------------- MODULE SocialLinks_proofs --------------------------
(***************************************************************************)
(* Proofs about SocialLinks for every number of calls and errors.          *)
(*                                                                         *)
(* AnswersAreTrue is about what was the case at some moment of a call.  It *)
(* follows from a stronger fact: a call under way has seen what is the     *)
(* case now (WitnessInv), because every change of the table is shown to    *)
(* all calls on the pair.  A removal of a reaction deletes by id, and so   *)
(* may delete nothing; that it still answers truly rests on the uniqueness *)
(* of rows (RowsInv) and on what becomes of the row it found (FoundInv).   *)
(***************************************************************************)
EXTENDS SocialLinks, FiniteSetTheorems, TLAPS

\* Every step but the stuttering one is one of a call.
LEMMA StepCases ==
    ASSUME Next,
           NEW P,
           ASSUME NEW c \in Calls, NEW op \in {"add", "remove"},
                  NEW k \in Kinds, Start(c, op, k)
           PROVE  P,
           ASSUME NEW c \in Calls, FindForAdd(c) PROVE P,
           ASSUME NEW c \in Calls, Insert(c) PROVE P,
           ASSUME NEW c \in Calls, InsertRefused(c) PROVE P,
           ASSUME NEW c \in Calls, FindForRemove(c) PROVE P,
           ASSUME NEW c \in Calls, Delete(c) PROVE P,
           ASSUME NEW c \in Calls, Rescore(c) PROVE P,
           ASSUME NEW c \in Calls, Notify(c) PROVE P,
           ASSUME NEW c \in Calls, Fail(c) PROVE P
    PROVE  P
BY DEF Next

-----------------------------------------------------------------------------
(* The invariant *)

\* Where a call is says what it does.
PathsInv ==
    \A c \in Calls :
      /\ call[c].pc = "insert" => call[c].op = "add"
      /\ call[c].pc = "delete" => call[c].op = "remove"
      /\ call[c].pc = "notify" => call[c].op = "add" /\ call[c].kind # "bookmark"
      /\ call[c].pc = "rescore" => call[c].kind = "reaction"

\* A row comes from a call that got past its insert, and is the only one of
\* its kind; a row that was found was once inserted.
RowsInv ==
    /\ \A r \in rows : call[r.id].pc \notin {"idle", "find", "insert"}
    /\ \A r, s \in rows : r.kind = s.kind => r = s
    /\ \A c \in Calls : call[c].row # NoRow => call[call[c].row].pc # "idle"

Found(c) == [kind |-> "reaction", id |-> call[c].row]

\* The reaction a removal found was there before, and if it is gone the removal
\* was under way when there was none.
FoundInv ==
    \A c \in Calls : call[c].pc = "delete" /\ call[c].kind = "reaction" =>
      /\ Found(c) \in call[c].older
      /\ Found(c) \in rows \/ FALSE \in call[c].seen

\* A call under way has seen what is the case, and what it did itself.
WitnessInv ==
    \A c \in Calls :
      /\ InFlight(c) => Present(call[c].kind) \in call[c].seen
      /\ call[c].op = "add" /\ call[c].pc \in {"rescore", "notify"} =>
           TRUE \in call[c].seen
      /\ call[c].op = "remove" /\ call[c].pc = "rescore" =>
           FALSE \in call[c].seen

LinksInv ==
    /\ TypeOK /\ PathsInv /\ RowsInv /\ FoundInv /\ WitnessInv
    /\ AnswersAreTrue /\ UntoldNeedsFailure

-----------------------------------------------------------------------------
(* Types *)

\* A call gets a new row of its own; the table stays.
LEMMA TypeOfQuiet ==
    ASSUME TypeOK, NEW c \in Calls, NEW n \in CallRows,
           call' = [call EXCEPT ![c] = n], rows' = rows,
           told' \subseteq Calls, untold' \subseteq Calls, errors' \in Nat,
           \/ n.kind = call[c].kind /\ n.op = call[c].op
           \/ /\ \A r \in rows : r.id # c
              /\ \A d \in Calls : call[d].row # c,
           n.row # NoRow => n.row # c /\ call[n.row].kind = n.kind
    PROVE  TypeOK'
<1>1. \A d \in Calls : call'[d] = IF d = c THEN n ELSE call[d]
  BY DEF TypeOK
<1>2. call' \in [Calls -> CallRows]
  BY DEF TypeOK
<1>3. \A r \in rows' : call'[r.id].kind = r.kind /\ call'[r.id].op = "add"
  BY <1>1 DEF TypeOK, Rows
<1>4. ASSUME NEW d \in Calls, call'[d].row # NoRow
      PROVE  call'[call'[d].row].kind = call'[d].kind
  <2>1. CASE d = c
    BY <1>1, <1>4, <2>1 DEF CallRows
  <2>2. CASE d # c
    BY <1>1, <1>4, <2>2 DEF TypeOK, CallRows
  <2> QED
    BY <2>1, <2>2
<1> QED
  BY <1>2, <1>3, <1>4 DEF TypeOK

\* What a call's query leaves of the calls: all keep their state, but the
\* caller goes on, and those under way on the pair see the new table.
LEMMA ChangeMoves ==
    ASSUME TypeOK, NEW c \in Calls, NEW pc \in Pcs, NEW table \in SUBSET Rows,
           Change(c, pc, table)
    PROVE  /\ rows' = table
           /\ call' \in [Calls -> CallRows]
           /\ \A d \in Calls :
                /\ call'[d].pc = IF d = c THEN pc ELSE call[d].pc
                /\ call'[d].op = call[d].op /\ call'[d].kind = call[d].kind
                /\ call'[d].row = call[d].row
                /\ call'[d].older = call[d].older
                /\ call'[d].seen = IF InFlight(d) /\ call[d].kind = call[c].kind
                                   THEN call[d].seen
                                          \cup {Of(call[c].kind, table) # {}}
                                   ELSE call[d].seen
<1> DEFINE now == Of(call[c].kind, table) # {}
           Witnessed(d) == IF InFlight(d) /\ call[d].kind = call[c].kind
                           THEN [call[d] EXCEPT !.seen = @ \cup {now}]
                           ELSE call[d]
<1>1. \A d \in Calls : call[d] \in CallRows
  BY DEF TypeOK
<1>2. now \in BOOLEAN
  OBVIOUS
<1> HIDE DEF now
<1>3. \A d \in Calls : Witnessed(d) \in CallRows
  BY <1>1, <1>2 DEF CallRows
<1>4. /\ rows' = table
      /\ call' = [d \in Calls |-> IF d = c THEN [Witnessed(d) EXCEPT !.pc = pc]
                                  ELSE Witnessed(d)]
  BY DEF Change, now
<1>5. \A d \in Calls :
        /\ Witnessed(d).pc = call[d].pc
        /\ Witnessed(d).op = call[d].op /\ Witnessed(d).kind = call[d].kind
        /\ Witnessed(d).row = call[d].row /\ Witnessed(d).older = call[d].older
        /\ Witnessed(d).seen = IF InFlight(d) /\ call[d].kind = call[c].kind
                                THEN call[d].seen \cup {now} ELSE call[d].seen
  BY <1>1 DEF CallRows
<1> HIDE DEF Witnessed
<1>6. call' \in [Calls -> CallRows]
  <2>1. \A d \in Calls : [Witnessed(d) EXCEPT !.pc = pc] \in CallRows
    BY <1>3 DEF CallRows
  <2> QED
    BY <1>3, <1>4, <2>1
<1>7. \A d \in Calls :
        call'[d] = IF d = c THEN [Witnessed(d) EXCEPT !.pc = pc] ELSE Witnessed(d)
  BY <1>4
<1> QED
  BY <1>3, <1>4, <1>5, <1>6, <1>7 DEF CallRows, now

\* A change of rows keeps the types.
LEMMA TypeOfChange ==
    ASSUME TypeOK, NEW c \in Calls, NEW pc \in Pcs, NEW table \in SUBSET Rows,
           Change(c, pc, table), UNCHANGED <<told, untold, errors>>,
           \A r \in table \ rows :
             call[r.id].kind = r.kind /\ call[r.id].op = "add"
    PROVE  TypeOK'
<1>1. /\ rows' = table
      /\ call' \in [Calls -> CallRows]
      /\ \A d \in Calls : /\ call'[d].op = call[d].op
                          /\ call'[d].kind = call[d].kind
                          /\ call'[d].row = call[d].row
  BY ChangeMoves
<1>2. \A r \in rows' : call'[r.id].kind = r.kind /\ call'[r.id].op = "add"
  BY <1>1 DEF TypeOK, Rows
<1>3. \A d \in Calls : call'[d].row # NoRow =>
        call'[call'[d].row].kind = call'[d].kind
  BY <1>1 DEF TypeOK, CallRows
<1> QED
  BY <1>1, <1>2, <1>3 DEF TypeOK

\* A call goes on and changes nothing else.
LEMMA GotoMoves ==
    ASSUME TypeOK, NEW c \in Calls, NEW pc \in Pcs, Goto(c, pc)
    PROVE  /\ [call[c] EXCEPT !.pc = pc] \in CallRows
           /\ call' = [call EXCEPT ![c] = [call[c] EXCEPT !.pc = pc]]
           /\ \A d \in Calls :
                /\ call'[d].pc = IF d = c THEN pc ELSE call[d].pc
                /\ call'[d].op = call[d].op /\ call'[d].kind = call[d].kind
                /\ call'[d].row = call[d].row
                /\ call'[d].older = call[d].older
                /\ call'[d].seen = call[d].seen
BY DEF TypeOK, CallRows, Goto

\* A call that moves on keeps the types.
LEMMA TypeOfGoto ==
    ASSUME TypeOK, NEW c \in Calls, NEW pc \in Pcs, Goto(c, pc), rows' = rows,
           told' \subseteq Calls, untold' \subseteq Calls, errors' \in Nat
    PROVE  TypeOK'
<1> DEFINE n == [call[c] EXCEPT !.pc = pc]
<1>1. call[c] \in CallRows /\ n \in CallRows
      /\ call' = [call EXCEPT ![c] = n]
  BY GotoMoves DEF TypeOK
<1>2. n.kind = call[c].kind /\ n.op = call[c].op /\ n.row = call[c].row
  BY <1>1 DEF CallRows
<1> HIDE DEF n
<1>3. \A d \in Calls : call'[d] = IF d = c THEN n ELSE call[d]
  BY <1>1 DEF TypeOK
<1>4. \A r \in rows' : call'[r.id].kind = r.kind /\ call'[r.id].op = "add"
  BY <1>2, <1>3 DEF TypeOK, Rows
<1>5. \A d \in Calls : call'[d].row # NoRow =>
        call'[call'[d].row].kind = call'[d].kind
  BY <1>2, <1>3 DEF TypeOK, CallRows
<1> QED
  BY <1>1, <1>4, <1>5 DEF TypeOK

-----------------------------------------------------------------------------
(* The steps *)

\* A call goes on to insert, to notify, or to its end, and has seen what its
\* answer says.
LEMMA GotoKeeps ==
    ASSUME LinksInv, NEW c \in Calls, NEW pc \in {"insert", "notify"} \cup Ends,
           Goto(c, pc), rows' = rows,
           InFlight(c),
           pc = "insert" => call[c].op = "add" /\ call[c].pc = "find",
           pc = "notify" => /\ call[c].op = "add" /\ call[c].kind # "bookmark"
                            /\ TRUE \in call[c].seen,
           call[c].op = "add" /\ pc \in {"ok", "refused"} =>
             TRUE \in call[c].seen,
           call[c].op = "remove" /\ pc = "ok" => FALSE \in call[c].seen,
           told \subseteq told', untold \subseteq untold',
           told' \subseteq Calls, untold' \subseteq Calls,
           errors' \in Nat, errors' >= errors,
           \A r \in rows : r.id = c /\ r.kind # "bookmark"
                            /\ c \notin told' \cup untold' =>
             pc = "notify" \/ (pc = "failed" /\ errors' > 0)
    PROVE  LinksInv'
<1>0. pc \in Pcs
  BY DEF Ends, Pcs
<1>1. TypeOK'
  BY <1>0, TypeOfGoto DEF LinksInv
<1>2. \A d \in Calls :
        /\ call'[d].pc = IF d = c THEN pc ELSE call[d].pc
        /\ call'[d].op = call[d].op /\ call'[d].kind = call[d].kind
        /\ call'[d].row = call[d].row
        /\ call'[d].older = call[d].older
        /\ call'[d].seen = call[d].seen
  BY <1>0, GotoMoves DEF LinksInv
<1>3. PathsInv'
  BY <1>2 DEF PathsInv, LinksInv, Ends
<1>4. \A r \in rows : r.id \in Calls
  BY DEF LinksInv, TypeOK, Rows
<1>5. \A d \in Calls : call[d].row # NoRow => call[d].row \in Calls
  BY DEF LinksInv, TypeOK, CallRows
<1>6. RowsInv'
  <2>1. \A r \in rows : call[r.id].pc \notin {"idle", "find", "insert"}
    BY DEF LinksInv, RowsInv
  <2>2. \A r \in rows : call'[r.id].pc \notin {"idle", "find", "insert"}
    BY <1>2, <1>4, <2>1 DEF Ends
  <2>3. \A d \in Calls : call'[d].row # NoRow => call'[call'[d].row].pc # "idle"
    BY <1>2, <1>5 DEF LinksInv, RowsInv, Ends
  <2> QED
    BY <2>2, <2>3 DEF LinksInv, RowsInv
<1>7. FoundInv'
  BY <1>2 DEF LinksInv, FoundInv, Found, Ends
<1>8. WitnessInv'
  <2>1. \A d \in Calls : InFlight(d)' => InFlight(d)
    BY <1>2 DEF InFlight
  <2>2. \A d \in Calls :
          InFlight(d)' => (Present(call[d].kind) \in call[d].seen)'
    <3>1. \A d \in Calls : Present(call[d].kind)' = Present(call[d].kind)
      BY <1>2 DEF Present, Of
    <3> QED
      BY <1>2, <2>1, <3>1 DEF LinksInv, WitnessInv
  <2>3. \A d \in Calls :
          /\ call'[d].op = "add" /\ call'[d].pc \in {"rescore", "notify"} =>
               TRUE \in call'[d].seen
          /\ call'[d].op = "remove" /\ call'[d].pc = "rescore" =>
               FALSE \in call'[d].seen
    BY <1>2 DEF LinksInv, WitnessInv, Ends
  <2> QED
    BY <2>2, <2>3 DEF WitnessInv
<1>9. AnswersAreTrue'
  BY <1>2 DEF LinksInv, AnswersAreTrue
<1>10. UntoldNeedsFailure'
  <2> SUFFICES ASSUME NEW r \in rows, r.kind # "bookmark",
                      r.id \notin told' \cup untold'
               PROVE  InFlight(r.id)' \/ (call'[r.id].pc = "failed" /\ errors' > 0)
    BY DEF UntoldNeedsFailure
  <2>1. CASE r.id = c
    BY <1>2, <2>1 DEF InFlight, Ends
  <2>2. CASE r.id # c
    <3>1. InFlight(r.id) \/ (call[r.id].pc = "failed" /\ errors > 0)
      BY DEF LinksInv, UntoldNeedsFailure
    <3> QED
      BY <1>2, <1>4, <2>2, <3>1 DEF InFlight, LinksInv, TypeOK
  <2> QED
    BY <2>1, <2>2
<1> QED
  BY <1>1, <1>3, <1>6, <1>7, <1>8, <1>9, <1>10 DEF LinksInv

\* As most do: with a table and notifications that stay.
LEMMA QuietKeeps ==
    ASSUME LinksInv, NEW c \in Calls,
           NEW pc \in {"insert", "notify", "ok", "refused"},
           Goto(c, pc), UNCHANGED <<rows, told, untold, errors>>,
           InFlight(c),
           pc = "insert" => call[c].op = "add" /\ call[c].pc = "find",
           pc = "notify" => /\ call[c].op = "add" /\ call[c].kind # "bookmark"
                            /\ TRUE \in call[c].seen,
           call[c].op = "add" /\ pc \in {"ok", "refused"} =>
             TRUE \in call[c].seen,
           call[c].op = "remove" /\ pc = "ok" => FALSE \in call[c].seen,
           pc = "notify" \/ \A r \in rows : r.id # c
    PROVE  LinksInv'
<1>1. /\ told \subseteq told' /\ untold \subseteq untold'
      /\ told' \subseteq Calls /\ untold' \subseteq Calls
      /\ errors' \in Nat /\ errors' >= errors
  BY DEF LinksInv, TypeOK
<1>2. pc \in {"insert", "notify"} \cup Ends
  BY DEF Ends
<1>3. \A r \in rows : r.id = c /\ r.kind # "bookmark"
                       /\ c \notin told' \cup untold' =>
        pc = "notify" \/ (pc = "failed" /\ errors' > 0)
  OBVIOUS
<1>4. rows' = rows
  OBVIOUS
<1> QED
  BY <1>1, <1>2, <1>3, <1>4, GotoKeeps

\* A call begins.
LEMMA StartKeeps ==
    ASSUME LinksInv, NEW c \in Calls, NEW op \in {"add", "remove"},
           NEW k \in Kinds, Start(c, op, k)
    PROVE  LinksInv'
<1> DEFINE n == [pc |-> FirstQuery(op, k), op |-> op, kind |-> k,
                 row |-> NoRow, older |-> {}, seen |-> {Present(k)}]
<1>1. /\ call[c].pc = "idle"
      /\ call' = [call EXCEPT ![c] = n]
      /\ rows' = rows /\ told' = told /\ untold' = untold /\ errors' = errors
  BY DEF Start
<1>2. /\ n.pc \in {"find", "delete"}
      /\ n.pc = "delete" => op = "remove" /\ k # "reaction"
      /\ n.op = op /\ n.kind = k /\ n.row = NoRow /\ n.seen = {Present(k)}
  BY DEF FirstQuery
<1>3. n \in CallRows
  <2>1. Present(k) \in BOOLEAN
    BY DEF Present
  <2>2. FirstQuery(op, k) \in Pcs
    BY DEF FirstQuery, Pcs
  <2> QED
    BY <2>1, <2>2 DEF CallRows
<1>4. /\ \A r \in rows : r.id \in Calls /\ r.id # c
      /\ \A d \in Calls : call[d].row \in Calls \cup {NoRow}
      /\ \A d \in Calls : call[d].row # NoRow => call[d].row # c
  BY <1>1 DEF LinksInv, TypeOK, Rows, CallRows, RowsInv
<1> HIDE DEF n
<1>5. \A d \in Calls : call'[d] = IF d = c THEN n ELSE call[d]
  BY <1>1 DEF LinksInv, TypeOK
<1>6. TypeOK'
  <2>1. call' \in [Calls -> CallRows]
    BY <1>1, <1>3 DEF LinksInv, TypeOK
  <2>2. \A r \in rows' : call'[r.id].kind = r.kind /\ call'[r.id].op = "add"
    BY <1>1, <1>4, <1>5 DEF LinksInv, TypeOK
  <2>3. \A d \in Calls : call'[d].row # NoRow =>
          call'[call'[d].row].kind = call'[d].kind
    BY <1>2, <1>4, <1>5 DEF LinksInv, TypeOK
  <2> QED
    BY <1>1, <2>1, <2>2, <2>3 DEF LinksInv, TypeOK
<1>7. PathsInv'
  BY <1>2, <1>5 DEF LinksInv, PathsInv
<1>8. RowsInv'
  <2>1. \A r \in rows' : call'[r.id].pc \notin {"idle", "find", "insert"}
    BY <1>1, <1>4, <1>5 DEF LinksInv, RowsInv
  <2>2. \A d \in Calls : call'[d].row # NoRow => call'[call'[d].row].pc # "idle"
    BY <1>2, <1>4, <1>5 DEF LinksInv, RowsInv
  <2> QED
    BY <1>1, <2>1, <2>2 DEF LinksInv, RowsInv
<1>9. FoundInv'
  <2> SUFFICES ASSUME NEW d \in Calls, call'[d].pc = "delete",
                      call'[d].kind = "reaction"
               PROVE  /\ Found(d)' \in call'[d].older
                      /\ Found(d)' \in rows' \/ FALSE \in call'[d].seen
    BY DEF FoundInv
  <2>1. d # c /\ call'[d] = call[d]
    BY <1>2, <1>5
  <2>2. Found(d)' = Found(d)
    BY <2>1 DEF Found
  <2> QED
    BY <1>1, <2>1, <2>2 DEF LinksInv, FoundInv
<1>10. WitnessInv'
  <2>1. ASSUME NEW d \in Calls, InFlight(d)'
        PROVE  (Present(call[d].kind) \in call[d].seen)'
    <3>1. CASE d = c
      <4>1. Present(call[c].kind)' = Present(k)
        BY <1>1, <1>2, <1>5 DEF Present, Of
      <4> QED
        BY <1>2, <1>5, <3>1, <4>1
    <3>2. CASE d # c
      <4>1. Present(call[d].kind)' = Present(call[d].kind)
        BY <1>1, <1>5, <3>2 DEF Present, Of
      <4>2. InFlight(d) /\ call'[d].seen = call[d].seen
        BY <1>5, <2>1, <3>2 DEF InFlight
      <4> QED
        BY <4>1, <4>2 DEF LinksInv, WitnessInv
    <3> QED
      BY <3>1, <3>2
  <2>2. \A d \in Calls :
          /\ call'[d].op = "add" /\ call'[d].pc \in {"rescore", "notify"} =>
               TRUE \in call'[d].seen
          /\ call'[d].op = "remove" /\ call'[d].pc = "rescore" =>
               FALSE \in call'[d].seen
    BY <1>2, <1>5 DEF LinksInv, WitnessInv
  <2> QED
    BY <2>1, <2>2 DEF WitnessInv
<1>11. AnswersAreTrue'
  BY <1>2, <1>5 DEF LinksInv, AnswersAreTrue
<1>12. UntoldNeedsFailure'
  BY <1>1, <1>4, <1>5 DEF LinksInv, UntoldNeedsFailure, InFlight
<1> QED
  BY <1>6, <1>7, <1>8, <1>9, <1>10, <1>11, <1>12 DEF LinksInv

\* A removal finds the reaction it is to delete.
LEMMA PickRowKeeps ==
    ASSUME LinksInv, NEW c \in Calls, call[c].pc = "find",
           call[c].op = "remove", NEW r \in Of(call[c].kind, rows),
           NEW n \in CallRows, call' = [call EXCEPT ![c] = n],
           n.pc = "delete", n.op = call[c].op, n.kind = call[c].kind,
           n.row = r.id, n.older = rows, n.seen = call[c].seen,
           UNCHANGED <<rows, told, untold, errors>>
    PROVE  LinksInv'
<1>1. r \in rows /\ r \in Rows /\ r.kind = call[c].kind /\ r.id \in Calls
  BY DEF Of, LinksInv, TypeOK, Rows
<1>2. r.id # c /\ call[r.id].pc # "idle"
  BY <1>1 DEF LinksInv, RowsInv
<1>6. \A d \in Calls : call'[d] = IF d = c THEN n ELSE call[d]
  BY DEF LinksInv, TypeOK
<1>7. TypeOK'
  <2>1. call[r.id].kind = r.kind
    BY <1>1 DEF LinksInv, TypeOK
  <2>2. told' \subseteq Calls /\ untold' \subseteq Calls /\ errors' \in Nat
    BY DEF LinksInv, TypeOK
  <2>3. n.row # NoRow => n.row # c /\ call[n.row].kind = n.kind
    BY <1>1, <1>2, <2>1
  <2>4. TypeOK /\ rows' = rows /\ n.kind = call[c].kind /\ n.op = call[c].op
    BY DEF LinksInv
  <2> QED
    BY <2>2, <2>3, <2>4, TypeOfQuiet
<1>61. \A d \in Calls : /\ call'[d].kind = call[d].kind
                        /\ call'[d].seen = call[d].seen
                        /\ call'[d].op = call[d].op
                        /\ call'[d].pc = IF d = c THEN "delete" ELSE call[d].pc
  BY <1>6
<1>62. \A d \in Calls : call'[d].pc \in {"ok", "refused", "rescore", "notify"} =>
                        call'[d].pc = call[d].pc
  BY <1>61
<1>8. PathsInv'
  BY <1>61 DEF LinksInv, PathsInv
<1>9. RowsInv'
  <2>1. \A s \in rows' : call'[s.id].pc \notin {"idle", "find", "insert"}
    BY <1>6 DEF LinksInv, RowsInv, TypeOK, Rows
  <2>2. \A d \in Calls : call'[d].row # NoRow => call'[call'[d].row].pc # "idle"
    BY <1>1, <1>2, <1>6 DEF LinksInv, RowsInv, TypeOK, CallRows
  <2> QED
    BY <2>1, <2>2 DEF LinksInv, RowsInv
<1>10. FoundInv'
  <2> SUFFICES ASSUME NEW d \in Calls, call'[d].pc = "delete",
                      call'[d].kind = "reaction"
               PROVE  /\ Found(d)' \in call'[d].older
                      /\ Found(d)' \in rows \/ FALSE \in call'[d].seen
    BY DEF FoundInv
  <2>1. CASE d = c
    <3>1. Found(d)' = r
      BY <1>1, <1>6, <2>1 DEF Found, Rows
    <3> QED
      BY <1>1, <1>6, <2>1, <3>1
  <2>2. CASE d # c
    <3>1. call'[d] = call[d] /\ Found(d)' = Found(d)
      BY <1>6, <2>2 DEF Found
    <3> QED
      BY <3>1 DEF LinksInv, FoundInv
  <2> QED
    BY <2>1, <2>2
<1>11. WitnessInv'
  <2>1. \A d \in Calls : InFlight(d)' => InFlight(d)
    BY <1>61 DEF InFlight, Ends
  <2>2. \A d \in Calls : Present(call[d].kind)' = Present(call[d].kind)
    BY <1>61 DEF Present, Of
  <2>3. \A d \in Calls :
          InFlight(d)' => (Present(call[d].kind) \in call[d].seen)'
    BY <1>61, <2>1, <2>2 DEF LinksInv, WitnessInv
  <2>4. \A d \in Calls :
          /\ call'[d].op = "add" /\ call'[d].pc \in {"rescore", "notify"} =>
               TRUE \in call'[d].seen
          /\ call'[d].op = "remove" /\ call'[d].pc = "rescore" =>
               FALSE \in call'[d].seen
    BY <1>61, <1>62 DEF LinksInv, WitnessInv
  <2> QED
    BY <2>3, <2>4 DEF WitnessInv
<1>12. AnswersAreTrue'
  BY <1>61, <1>62 DEF LinksInv, AnswersAreTrue
<1>13. UntoldNeedsFailure'
  BY <1>6 DEF LinksInv, UntoldNeedsFailure, InFlight, TypeOK, Rows, Ends
<1> QED
  BY <1>7, <1>8, <1>9, <1>10, <1>11, <1>12, <1>13 DEF LinksInv

\* What a query that changes the table needs to know of it: the caller is in
\* order where it goes on to, rows come and go with their reasons, and those
\* under way on the pair see what became of it.
LEMMA ChangeKeeps ==
    ASSUME LinksInv, NEW c \in Calls, NEW pc \in {"notify", "rescore", "ok"},
           NEW table \in SUBSET Rows,
           Change(c, pc, table), UNCHANGED <<told, untold, errors>>,
           call[c].pc \in {"insert", "delete"},
           pc = "notify" => call[c].op = "add" /\ call[c].kind # "bookmark",
           pc = "rescore" => call[c].kind = "reaction",
           call[c].op = "add" => Of(call[c].kind, table) # {},
           call[c].op = "remove" => \/ Of(call[c].kind, table) = {}
                                    \/ FALSE \in call[c].seen,
           \A r \in table \ rows : /\ r.id = c /\ r.kind = call[c].kind
                                   /\ call[c].op = "add"
                                   /\ r.kind # "bookmark" => pc # "ok",
           \A r, s \in table : r.kind = s.kind => r = s,
           \A r \in rows \ table : /\ r.kind = call[c].kind
                                   /\ Of(call[c].kind, table) = {},
           \A k \in Kinds : k # call[c].kind => Of(k, table) = Of(k, rows)
    PROVE  LinksInv'
<1> DEFINE now == Of(call[c].kind, table) # {}
           Sees(d) == InFlight(d) /\ call[d].kind = call[c].kind
<1>0. pc \in Pcs /\ TypeOK
  BY DEF Ends, Pcs, LinksInv
<1>1. /\ rows' = table
      /\ call' \in [Calls -> CallRows]
      /\ \A d \in Calls :
           /\ call'[d].pc = IF d = c THEN pc ELSE call[d].pc
           /\ call'[d].op = call[d].op /\ call'[d].kind = call[d].kind
           /\ call'[d].row = call[d].row
           /\ call'[d].older = call[d].older
           /\ call'[d].seen = IF Sees(d) THEN call[d].seen \cup {now}
                              ELSE call[d].seen
  BY <1>0, ChangeMoves
<1>2. /\ InFlight(c)
      /\ \A d \in Calls : call[d].kind \in Kinds
      /\ \A r \in rows : r.id \in Calls /\ r.kind \in Kinds
      /\ \A d \in Calls : call[d].row \in Calls \cup {NoRow}
  BY <1>0 DEF InFlight, Ends, TypeOK, Rows, CallRows
<1>3. \A d \in Calls : call[d].seen \subseteq call'[d].seen
  BY <1>1
<1>4. \A d \in Calls : Sees(d) => now \in call'[d].seen
  BY <1>1
<1>5. \A d \in Calls : InFlight(d)' => InFlight(d)
  BY <1>1, <1>2 DEF InFlight
<1> HIDE DEF now, Sees
<1>a. \A d \in Calls :
        /\ call'[d].op = call[d].op /\ call'[d].kind = call[d].kind
        /\ call'[d].row = call[d].row
        /\ d # c => call'[d].pc = call[d].pc
        /\ d = c => call'[d].pc = pc
  BY <1>1
<1>b. call[c].op = "add" => TRUE \in call'[c].seen
  BY <1>2, <1>4 DEF now, Sees
<1>c. call[c].op = "remove" => FALSE \in call'[c].seen
  BY <1>2, <1>3, <1>4 DEF now, Sees
<1>6. TypeOK'
  <2>1. \A r \in table \ rows :
          call[r.id].kind = r.kind /\ call[r.id].op = "add"
    OBVIOUS
  <2> QED
    BY <1>0, <2>1, TypeOfChange
<1>7. PathsInv'
  BY <1>a DEF LinksInv, PathsInv
<1>8. RowsInv'
  <2>1. \A r \in rows' : call'[r.id].pc \notin {"idle", "find", "insert"}
    <3>1. ASSUME NEW r \in rows, r \in table
          PROVE  call'[r.id].pc \notin {"idle", "find", "insert"}
      BY <1>a, <1>2 DEF LinksInv, RowsInv
    <3>2. ASSUME NEW r \in table \ rows
          PROVE  call'[r.id].pc \notin {"idle", "find", "insert"}
      BY <1>a
    <3> QED
      BY <1>1, <3>1, <3>2
  <2>2. \A d \in Calls : call'[d].row # NoRow => call'[call'[d].row].pc # "idle"
    BY <1>a, <1>2 DEF LinksInv, RowsInv
  <2> QED
    BY <1>1, <2>1, <2>2 DEF RowsInv
<1>9. FoundInv'
  <2> SUFFICES ASSUME NEW d \in Calls, call'[d].pc = "delete",
                      call'[d].kind = "reaction"
               PROVE  /\ Found(d)' \in call'[d].older
                      /\ Found(d)' \in rows' \/ FALSE \in call'[d].seen
    BY DEF FoundInv
  <2>1. d # c /\ call[d].pc = "delete" /\ call[d].kind = "reaction"
    BY <1>1
  <2>2. Found(d)' = Found(d)
    BY <1>1 DEF Found
  <2>3. /\ Found(d) \in call[d].older
        /\ Found(d) \in rows \/ FALSE \in call[d].seen
    BY <2>1 DEF LinksInv, FoundInv
  <2>4. CASE Found(d) \in rows \ table
    <3>1. Sees(d)
      BY <2>1, <2>4 DEF InFlight, Ends, Found, Sees
    <3>2. now = FALSE
      BY <2>4 DEF now
    <3> QED
      BY <1>1, <1>4, <2>2, <2>3, <3>1, <3>2
  <2> QED
    BY <1>1, <1>3, <2>2, <2>3, <2>4
<1>10. WitnessInv'
  <2>1. ASSUME NEW d \in Calls, InFlight(d)'
        PROVE  (Present(call[d].kind) \in call[d].seen)'
    <3>1. CASE call[d].kind = call[c].kind
      <4>1. Present(call[d].kind)' = now
        BY <1>1, <1>a, <3>1 DEF Present, Of, now
      <4>2. Sees(d)
        BY <1>5, <2>1, <3>1 DEF Sees
      <4> QED
        BY <1>4, <4>1, <4>2
    <3>2. CASE call[d].kind # call[c].kind
      <4>1. Present(call[d].kind)' = Present(call[d].kind)
        <5>1. Of(call[d].kind, table) = Of(call[d].kind, rows)
          BY <1>2, <3>2
        <5> QED
          BY <1>1, <1>a, <5>1 DEF Present, Of
      <4>2. Present(call[d].kind) \in call[d].seen
        BY <1>5, <2>1 DEF LinksInv, WitnessInv
      <4> QED
        BY <1>3, <4>1, <4>2
    <3> QED
      BY <3>1, <3>2
  <2>4. \A d \in Calls :
          /\ call'[d].op = "add" /\ call'[d].pc \in {"rescore", "notify"} =>
               TRUE \in call'[d].seen
          /\ call'[d].op = "remove" /\ call'[d].pc = "rescore" =>
               FALSE \in call'[d].seen
    BY <1>a, <1>3, <1>b, <1>c DEF LinksInv, WitnessInv
  <2> QED
    BY <2>1, <2>4 DEF WitnessInv
<1>11. AnswersAreTrue'
  BY <1>a, <1>3, <1>b, <1>c DEF LinksInv, AnswersAreTrue
<1>12. UntoldNeedsFailure'
  <2> SUFFICES ASSUME NEW r \in table, r.kind # "bookmark",
                      r.id \notin told \cup untold
               PROVE  InFlight(r.id)' \/ (call'[r.id].pc = "failed" /\ errors > 0)
    BY <1>1 DEF UntoldNeedsFailure
  <2>1. CASE r \notin rows
    BY <1>1, <2>1 DEF InFlight, Ends
  <2>2. CASE r \in rows
    <3>1. r.id \in Calls /\ call[r.id].op = "add"
      BY <1>0, <1>2, <2>2 DEF TypeOK
    <3>2. r.id # c
      BY <2>2, <3>1 DEF LinksInv, RowsInv, PathsInv
    <3>3. InFlight(r.id) \/ (call[r.id].pc = "failed" /\ errors > 0)
      BY <2>2 DEF LinksInv, UntoldNeedsFailure
    <3> QED
      BY <1>1, <3>1, <3>2, <3>3 DEF InFlight
  <2> QED
    BY <2>1, <2>2
<1> QED
  BY <1>6, <1>7, <1>8, <1>9, <1>10, <1>11, <1>12 DEF LinksInv

\* The insert: the index says that the pair had no row.
LEMMA InsertKeeps ==
    ASSUME LinksInv, NEW c \in Calls, Insert(c)
    PROVE  LinksInv'
<1> DEFINE k == call[c].kind
           row == [kind |-> k, id |-> c]
           table == rows \cup {row}
<1>1. /\ call[c].pc = "insert" /\ Of(k, rows) = {}
      /\ Change(c, AfterInsert(k), table) /\ UNCHANGED <<told, untold, errors>>
  BY DEF Insert, IsUnique, Present
<1>2. /\ k \in Kinds /\ rows \subseteq Rows /\ call[c].op = "add"
      /\ row \in Rows /\ row.kind = k /\ row.id = c
  BY <1>1 DEF LinksInv, TypeOK, PathsInv, CallRows, Rows
<1>3. /\ AfterInsert(k) \in {"notify", "rescore", "ok"}
      /\ AfterInsert(k) = "notify" => k = "follow"
      /\ AfterInsert(k) = "rescore" => k = "reaction"
      /\ AfterInsert(k) = "ok" => k = "bookmark"
  BY <1>2 DEF AfterInsert, Kinds
<1> HIDE DEF row
<1>4. row \in Of(k, table)
  BY <1>2 DEF Of
<1>5. \A r \in rows : r.kind # k
  BY <1>1 DEF Of
<1>6. \A r, s \in table : r.kind = s.kind => r = s
  BY <1>2, <1>5 DEF LinksInv, RowsInv
<1>7. \A j \in Kinds : j # k => Of(j, table) = Of(j, rows)
  BY <1>2 DEF Of
<1>8. \A r \in table \ rows : r = row
  OBVIOUS
<1>9. table \in SUBSET Rows /\ rows \ table = {}
  BY <1>2
<1> HIDE DEF table, k
<1> QED
  BY <1>1, <1>2, <1>3, <1>4, <1>6, <1>7, <1>8, <1>9, ChangeKeeps DEF k

\* What a removal deletes is of its kind, and leaves nothing of it or was
\* gone already; of the reactions only the one it found.
LEMMA DoomedRows ==
    ASSUME LinksInv, NoRow \notin Calls, NEW c \in Calls, Delete(c)
    PROVE  /\ Doomed(c) \subseteq Of(call[c].kind, rows)
           /\ call[c].kind = "reaction" => Doomed(c) \subseteq call[c].older
           /\ Doomed(c) # {} => Of(call[c].kind, rows \ Doomed(c)) = {}
           /\ \/ Of(call[c].kind, rows \ Doomed(c)) = {}
              \/ FALSE \in call[c].seen
<1>1. call[c].pc = "delete"
  BY DEF Delete
<1>2. CASE call[c].kind # "reaction"
  BY <1>2 DEF Doomed, Of
<1>3. CASE call[c].kind = "reaction"
  <2>1. Doomed(c) = {r \in rows : r.id = call[c].row}
    BY <1>3 DEF Doomed
  <2>2. ASSUME NEW r \in rows, r.id = call[c].row
        PROVE  r.kind = "reaction" /\ r = Found(c)
    <3>1. r \in Rows /\ r.kind = call[r.id].kind /\ call[c].row \in Calls
      BY <2>2 DEF LinksInv, TypeOK, Rows
    <3>2. r.kind = "reaction"
      BY <1>3, <2>2, <3>1 DEF LinksInv, TypeOK
    <3> QED
      BY <2>2, <3>1, <3>2 DEF Rows, Found
  <2>3. /\ Found(c) \in call[c].older
        /\ Found(c) \in rows \/ FALSE \in call[c].seen
    BY <1>1, <1>3 DEF LinksInv, FoundInv
  <2>4. Found(c).kind = "reaction" /\ Found(c).id = call[c].row
    BY DEF Found
  <2>5. Found(c) \in rows => Of("reaction", rows \ Doomed(c)) = {}
    BY <2>1, <2>4 DEF Of, LinksInv, RowsInv
  <2>6. Doomed(c) \subseteq {Found(c)} /\ Doomed(c) \subseteq rows
    BY <2>1, <2>2
  <2>7. Doomed(c) \subseteq Of("reaction", rows)
    BY <2>1, <2>2 DEF Of
  <2>8. Doomed(c) # {} => Found(c) \in rows
    BY <2>6
  <2> QED
    BY <1>3, <2>3, <2>5, <2>6, <2>7, <2>8
<1> QED
  BY <1>2, <1>3

\* The delete.
LEMMA DeleteKeeps ==
    ASSUME LinksInv, NoRow \notin Calls, NEW c \in Calls, Delete(c)
    PROVE  LinksInv'
<1> DEFINE k == call[c].kind
           table == rows \ Doomed(c)
           pc == IF k = "reaction" THEN "rescore" ELSE "ok"
<1>1. /\ call[c].pc = "delete" /\ Change(c, pc, table)
      /\ UNCHANGED <<told, untold, errors>>
  BY DEF Delete
<1>2. /\ rows \subseteq Rows /\ call[c].op = "remove"
  BY <1>1 DEF LinksInv, TypeOK, PathsInv
<1>3. /\ Doomed(c) \subseteq Of(k, rows)
      /\ Doomed(c) # {} => Of(k, table) = {}
      /\ Of(k, table) = {} \/ FALSE \in call[c].seen
  BY DoomedRows
<1>4. /\ pc \in {"notify", "rescore", "ok"} /\ pc # "notify"
      /\ pc = "rescore" => k = "reaction"
  OBVIOUS
<1>5. \A r, s \in table : r.kind = s.kind => r = s
  BY DEF LinksInv, RowsInv
<1>6. \A r \in rows \ table : r.kind = k /\ Of(k, table) = {}
  BY <1>3 DEF Of
<1>7. \A j \in Kinds : j # k => Of(j, table) = Of(j, rows)
  BY <1>3 DEF Of
<1>8. table \in SUBSET Rows /\ table \ rows = {}
  BY <1>2
<1> HIDE DEF table, k, pc
<1> QED
  BY <1>1, <1>2, <1>3, <1>4, <1>5, <1>6, <1>7, <1>8, ChangeKeeps DEF k

-----------------------------------------------------------------------------
(* The theorems *)

\* The invariant holds at first,
LEMMA LinksInit == Init => LinksInv
<1> SUFFICES ASSUME Init PROVE LinksInv
  OBVIOUS
<1>1. Idle \in CallRows
  BY DEF Idle, CallRows, Pcs, Kinds
<1>2. TypeOK
  BY <1>1 DEF Init, TypeOK, Idle
<1>3. \A c \in Calls : call[c] = Idle
  BY DEF Init
<1> QED
  BY <1>2, <1>3 DEF Init, Idle, LinksInv, PathsInv, RowsInv, FoundInv,
                    WitnessInv, InFlight, AnswersAreTrue, UntoldNeedsFailure

\* and every step keeps it.
LEMMA LinksStep ==
    ASSUME LinksInv, LinksAssumption, [Next]_vars PROVE LinksInv'
<1>0. NoRow \notin Calls /\ TypeOK /\ MaxErrors \in Nat
  BY DEF LinksAssumption, LinksInv
<1>1. CASE UNCHANGED vars
  <2>1. TypeOK'
    BY <1>1 DEF vars, LinksInv, TypeOK
  <2>2. PathsInv' /\ RowsInv' /\ AnswersAreTrue'
    BY <1>1 DEF vars, LinksInv, PathsInv, RowsInv, AnswersAreTrue
  <2>3. FoundInv' /\ UntoldNeedsFailure'
    BY <1>1 DEF vars, LinksInv, FoundInv, Found, UntoldNeedsFailure, InFlight
  <2>4. WitnessInv'
    BY <1>1 DEF vars, LinksInv, WitnessInv, InFlight, Present, Of
  <2> QED
    BY <2>1, <2>2, <2>3, <2>4 DEF LinksInv
<1>2. ASSUME NEW c \in Calls, FindForAdd(c) PROVE LinksInv'
  <2> DEFINE pc == IF Present(call[c].kind) THEN WhenPresent(call[c].kind)
                   ELSE "insert"
  <2>1. /\ call[c].pc = "find" /\ call[c].op = "add" /\ Goto(c, pc)
        /\ UNCHANGED <<rows, told, untold, errors>>
    BY <1>2 DEF FindForAdd
  <2>2. InFlight(c)
    BY <2>1 DEF InFlight, Ends
  <2>3. /\ pc \in {"insert", "notify", "ok", "refused"} /\ pc # "notify"
        /\ pc \in {"ok", "refused"} => Present(call[c].kind)
    BY DEF WhenPresent
  <2>4. Present(call[c].kind) => TRUE \in call[c].seen
    BY <2>2 DEF LinksInv, WitnessInv
  <2>5. \A r \in rows : r.id # c
    BY <2>1 DEF LinksInv, RowsInv
  <2> HIDE DEF pc
  <2> QED
    BY <2>1, <2>2, <2>3, <2>4, <2>5, QuietKeeps
<1>3. ASSUME NEW c \in Calls, InsertRefused(c) PROVE LinksInv'
  <2>1. /\ call[c].pc = "insert" /\ Present(call[c].kind) /\ Goto(c, "refused")
        /\ UNCHANGED <<rows, told, untold, errors>>
    BY <1>3 DEF InsertRefused, IsUnique
  <2>2. InFlight(c)
    BY <2>1 DEF InFlight, Ends
  <2>3. call[c].op = "add" /\ TRUE \in call[c].seen
    BY <2>1, <2>2 DEF LinksInv, WitnessInv, PathsInv
  <2>4. \A r \in rows : r.id # c
    BY <2>1 DEF LinksInv, RowsInv
  <2> QED
    BY <2>1, <2>2, <2>3, <2>4, QuietKeeps
<1>4. ASSUME NEW c \in Calls, FindForRemove(c) PROVE LinksInv'
  <2>1. /\ call[c].pc = "find" /\ call[c].op = "remove"
        /\ UNCHANGED <<rows, told, untold, errors>>
    BY <1>4 DEF FindForRemove
  <2>2. CASE ~Present(call[c].kind) /\ Goto(c, "ok")
    <3>1. InFlight(c)
      BY <2>1 DEF InFlight, Ends
    <3>2. FALSE \in call[c].seen
      <4>1. Present(call[c].kind) = FALSE
        BY <2>2 DEF Present
      <4> QED
        BY <3>1, <4>1 DEF LinksInv, WitnessInv
    <3>3. \A r \in rows : r.id # c
      BY <2>1 DEF LinksInv, RowsInv
    <3> QED
      BY <2>1, <2>2, <3>1, <3>2, <3>3, QuietKeeps
  <2>3. ASSUME NEW r \in Of(call[c].kind, rows),
               call' = [call EXCEPT ![c].pc = "delete", ![c].row = r.id,
                                    ![c].older = rows]
        PROVE  LinksInv'
    <3> DEFINE n == [call[c] EXCEPT !.pc = "delete", !.row = r.id,
                                    !.older = rows]
    <3>1. call[c] \in CallRows /\ rows \in SUBSET Rows /\ r.id \in Calls
      BY <1>0 DEF TypeOK, Of, Rows
    <3>2. /\ n \in CallRows /\ n.pc = "delete" /\ n.op = call[c].op
          /\ n.kind = call[c].kind /\ n.row = r.id /\ n.older = rows
          /\ n.seen = call[c].seen
      BY <3>1 DEF CallRows, Pcs
    <3>3. call' = [call EXCEPT ![c] = n]
      BY <1>0, <2>3 DEF TypeOK
    <3> HIDE DEF n
    <3> QED
      BY <2>1, <3>2, <3>3, PickRowKeeps
  <2> QED
    BY <1>4, <2>2, <2>3 DEF FindForRemove
<1>5. ASSUME NEW c \in Calls, Notify(c) PROVE LinksInv'
  <2>1. /\ call[c].pc = "notify" /\ Goto(c, "ok")
        /\ UNCHANGED <<rows, errors>>
        /\ told \subseteq told' /\ untold \subseteq untold'
        /\ told' \subseteq Calls /\ untold' \subseteq Calls
        /\ c \in told' \cup untold'
        /\ errors' \in Nat /\ errors' >= errors
    BY <1>0, <1>5 DEF Notify, TypeOK
  <2>2. InFlight(c)
    BY <2>1 DEF InFlight, Ends
  <2>3. call[c].op = "add" /\ TRUE \in call[c].seen
    BY <2>1 DEF LinksInv, WitnessInv, PathsInv
  <2>4. "ok" \in {"insert", "notify"} \cup Ends
    BY DEF Ends
  <2>5. \A r \in rows : r.id = c => c \in told' \cup untold'
    BY <2>1
  <2> QED
    BY <2>1, <2>2, <2>3, <2>4, <2>5, GotoKeeps
<1>6. ASSUME NEW c \in Calls, Fail(c) PROVE LinksInv'
  <2>1. /\ InFlight(c) /\ errors' = errors + 1 /\ Goto(c, "failed")
        /\ UNCHANGED <<rows, told, untold>>
    BY <1>6 DEF Fail
  <2>2. errors' \in Nat /\ errors' >= errors /\ errors' > 0
    BY <1>0, <2>1 DEF TypeOK
  <2>3. "failed" \in {"insert", "notify"} \cup Ends
    BY DEF Ends
  <2> QED
    BY <1>0, <2>1, <2>2, <2>3, GotoKeeps DEF TypeOK
<1>7. ASSUME NEW c \in Calls, Rescore(c) PROVE LinksInv'
  <2>1. /\ call[c].pc = "rescore" /\ call[c].kind = "reaction"
        /\ Goto(c, IF call[c].op = "add" THEN "notify" ELSE "ok")
        /\ UNCHANGED <<rows, told, untold, errors>>
    BY <1>7 DEF Rescore, LinksInv, PathsInv
  <2>2. InFlight(c)
    BY <2>1 DEF InFlight, Ends
  <2>3. /\ call[c].op = "add" => TRUE \in call[c].seen
        /\ call[c].op = "remove" => FALSE \in call[c].seen
    BY <2>1 DEF LinksInv, WitnessInv
  <2>5. CASE call[c].op = "add"
    <3>1. Goto(c, "notify")
      BY <2>1, <2>5
    <3>2. call[c].kind # "bookmark"
      BY <2>1
    <3> QED
      BY <2>1, <2>2, <2>3, <2>5, <3>1, <3>2, QuietKeeps
  <2>6. CASE call[c].op # "add"
    <3>1. \A r \in rows : r.id # c
      BY <1>0, <2>6 DEF TypeOK
    <3>2. call[c].op = "remove"
      BY <1>0, <2>6 DEF TypeOK, CallRows
    <3>3. Goto(c, "ok")
      BY <2>1, <2>6
    <3> QED
      BY <2>1, <2>2, <2>3, <3>1, <3>2, <3>3, QuietKeeps
  <2> QED
    BY <2>5, <2>6
<1> QED
  BY <1>0, <1>1, <1>2, <1>3, <1>4, <1>5, <1>6, <1>7, StepCases, StartKeeps,
     InsertKeeps, DeleteKeeps

\* LinksInv is an invariant for any number of calls and errors.
THEOREM LinksCorrect == ASSUME LinksAssumption PROVE Spec => []LinksInv
<1>1. LinksInv /\ [Next]_vars => LinksInv'
  BY LinksStep
<1> QED
  BY <1>1, LinksInit, PTL DEF Spec

\* Types, and the kinds of the rows that calls found or inserted.
THEOREM LinksTypeCorrect == ASSUME LinksAssumption PROVE Spec => []TypeOK
<1>1. LinksInv => TypeOK
  BY DEF LinksInv
<1> QED
  BY <1>1, LinksCorrect, PTL

\* The unique indexes hold up: the check before the insert is not needed for it.
THEOREM NoDuplicatesCorrect ==
    ASSUME LinksAssumption PROVE Spec => []NoDuplicates
<1>1. LinksInv => NoDuplicates
  <2> SUFFICES ASSUME LinksInv, NEW k \in Kinds
               PROVE  Cardinality(Of(k, rows)) <= 1
    BY DEF NoDuplicates
  <2>1. CASE Of(k, rows) = {}
    BY <2>1, FS_EmptySet
  <2>2. ASSUME NEW r \in Of(k, rows)
        PROVE  Cardinality(Of(k, rows)) <= 1
    <3>1. Of(k, rows) = {r}
      BY <2>2 DEF Of, LinksInv, RowsInv
    <3>2. Cardinality({r}) = 1
      BY FS_Singleton
    <3> QED
      BY <3>1, <3>2
  <2> QED
    BY <2>1, <2>2
<1> QED
  BY <1>1, LinksCorrect, PTL

\* Whoever adds or removes is told something that was true during the call.
THEOREM AnswersCorrect ==
    ASSUME LinksAssumption PROVE Spec => []AnswersAreTrue
<1>1. LinksInv => AnswersAreTrue
  BY DEF LinksInv
<1> QED
  BY <1>1, LinksCorrect, PTL

\* A follow or reaction nobody was told of met an error.
THEOREM UntoldCorrect ==
    ASSUME LinksAssumption PROVE Spec => []UntoldNeedsFailure
<1>1. LinksInv => UntoldNeedsFailure
  BY DEF LinksInv
<1> QED
  BY <1>1, LinksCorrect, PTL

\* What a step does to a reaction that a removal is about to delete: only this
\* removal goes on, and it deletes what it found.
LEMMA SparesNewerStep ==
    ASSUME LinksInv, LinksAssumption, [Next]_vars PROVE SparesNewer
<1> SUFFICES ASSUME NEW c \in Calls, call[c].kind = "reaction",
                    call[c].pc = "delete", call'[c].pc = "rescore"
             PROVE  rows \ rows' \subseteq call[c].older
  BY DEF SparesNewer
<1>0. NoRow \notin Calls /\ TypeOK
  BY DEF LinksAssumption, LinksInv
<1> DEFINE P == rows \ rows' \subseteq call[c].older
<1>1. ASSUME NEW d \in Calls, rows' = rows PROVE P
  BY <1>1
<1>2. CASE UNCHANGED vars
  BY <1>2 DEF vars
<1>3. ASSUME NEW d \in Calls, Insert(d) PROVE P
  BY <1>3 DEF Insert, Change
<1>4. ASSUME NEW d \in Calls, Delete(d) PROVE P
  <2>1. Change(d, IF call[d].kind = "reaction" THEN "rescore" ELSE "ok",
               rows \ Doomed(d))
    BY <1>4 DEF Delete
  <2>2. CASE d = c
    <3>1. Doomed(c) \subseteq call[c].older
      BY <1>0, <1>4, <2>2, DoomedRows
    <3> QED
      BY <2>1, <2>2, <3>1 DEF Change
  <2>3. CASE d # c
    <3>1. rows \ Doomed(d) \in SUBSET Rows
      BY <1>0 DEF TypeOK
    <3>2. call'[c].pc = call[c].pc
      <4> DEFINE pc == IF call[d].kind = "reaction" THEN "rescore" ELSE "ok"
      <4>1. pc \in Pcs
        BY DEF Pcs, Ends
      <4> DEFINE table == rows \ Doomed(d)
      <4>2. Change(d, pc, table) /\ table \in SUBSET Rows
        BY <2>1, <3>1
      <4> HIDE DEF pc, table
      <4>3. call'[c].pc = IF c = d THEN pc ELSE call[c].pc
        BY <1>0, <4>1, <4>2, ChangeMoves
      <4> QED
        BY <2>3, <4>3
    <3> QED
      BY <3>2
  <2> QED
    BY <2>2, <2>3
<1> QED
  BY <1>1, <1>2, <1>3, <1>4, StepCases DEF Start, FindForAdd, InsertRefused,
     FindForRemove, Rescore, Notify, Fail

\* A removal spares a reaction that was made after it looked.
THEOREM RemovalSparesNewerCorrect ==
    ASSUME LinksAssumption PROVE Spec => RemovalSparesNewer
<1>1. LinksInv /\ [Next]_vars => [SparesNewer]_vars
  BY SparesNewerStep
<1> QED
  BY <1>1, LinksCorrect, PTL DEF Spec, RemovalSparesNewer

=============================================================================
