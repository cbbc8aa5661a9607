-------------------------- MODULE Sessions_proofs --------------------------
(***************************************************************************)
(* Proofs about Sessions for every number of calls and every lifetime.     *)
(***************************************************************************)
EXTENDS Sessions, FiniteSetTheorems, TLAPS

USE DEF Openers, Calls, Tokens, history

-----------------------------------------------------------------------------
(* Type correctness *)

\* Init: nothing has happened.
LEMMA TypeInit == Init => TypeOK
BY SessionsAssumption
DEF Init, TypeOK, NoUser, NoRow, NewCall, NothingAsked, Users, ResetTokens,
    Rows, CallRows, CallPcs, SavingRows, Columns, Passwords, NoToken

\* What a step of one call leaves of the types.
LEMMA CallType ==
    ASSUME TypeOK, NEW c \in Calls, NEW n \in CallRows, call' = [call EXCEPT ![c] = n],
           n.pc = "store" => n.new \in Tokens,
           n.pc = "revoke" => n.old \in Tokens
    PROVE  /\ call' \in [Calls -> CallRows]
           /\ \A d \in Calls :
                /\ call'[d].pc = "store" => call'[d].new \in Tokens
                /\ call'[d].pc = "revoke" => call'[d].old \in Tokens
<1>1. call \in [Calls -> CallRows]
  BY DEF TypeOK
<1>2. \A d \in Calls : call'[d] = IF d = c THEN n ELSE call[d]
  BY <1>1
<1> QED
  BY <1>1, <1>2 DEF TypeOK

\* A call that moves on is well typed.
LEMMA GoType ==
    ASSUME TypeOK, NEW c \in Calls, NEW p \in {"create", "sign", "change", "revokeAll", "done"},
           Go(c, p)
    PROVE  /\ call' \in [Calls -> CallRows]
           /\ \A d \in Calls :
                /\ call'[d].pc = "store" => call'[d].new \in Tokens
                /\ call'[d].pc = "revoke" => call'[d].old \in Tokens
<1> DEFINE n == [call[c] EXCEPT !.pc = p]
<1>1. n \in CallRows /\ n.pc = p /\ call' = [call EXCEPT ![c] = n]
  BY DEF TypeOK, CallRows, CallPcs, Go
<1> QED
  BY <1>1, CallType

\* Every step keeps the types.
LEMMA TypeStep ==
    ASSUME TypeOK, [Next]_vars
    PROVE  TypeOK'
<1> USE SessionsAssumption
<1>0. /\ \A c \in Calls : call[c] \in CallRows
      /\ \A t \in Tokens : row[t] \in Rows
      /\ now \in Tokens /\ user \in Users
  BY DEF TypeOK
<1>1. CASE UNCHANGED vars
  BY <1>1 DEF TypeOK, vars
<1>2. CASE Tick
  BY <1>2 DEF Tick, TypeOK
<1>3. ASSUME NEW c \in Registers, StartRegister(c)
      PROVE  TypeOK'
  BY <1>3, GoType DEF StartRegister, TypeOK
<1>4. ASSUME NEW c \in Registers, CreateUser(c)
      PROVE  TypeOK'
  <2> DEFINE n == [call[c] EXCEPT !.pc = "sign", !.password = c]
  <2>1. n \in CallRows /\ n.pc = "sign"
    <3>1. c \in Passwords /\ call[c] \in CallRows
      BY <1>0 DEF Passwords
    <3> QED
      BY <3>1 DEF CallRows, CallPcs
  <2>2. user' \in Users /\ latest' \in Passwords
    BY <1>4 DEF CreateUser, TypeOK, Users, Passwords
  <2>3. CASE user.password = NoPassword
    BY <1>4, <2>1, <2>2, <2>3, CallType DEF CreateUser, TypeOK
  <2>4. CASE user.password # NoPassword
    BY <1>4, <2>4, GoType DEF CreateUser, TypeOK
  <2> QED
    BY <2>3, <2>4
<1>5. ASSUME NEW c \in Logins, StartLogin(c)
      PROVE  TypeOK'
  <2> DEFINE n == [call[c] EXCEPT !.pc = "sign", !.password = user.password]
  <2>1. n \in CallRows /\ n.pc = "sign"
    BY <1>0 DEF CallRows, CallPcs, Users
  <2> QED
    BY <1>5, <2>1, CallType DEF StartLogin, TypeOK
<1>6. ASSUME NEW c \in Openers \cup Refreshes, Sign(c)
      PROVE  TypeOK'
  <2> DEFINE n == [call[c] EXCEPT !.pc = "store", !.new = now]
  <2>1. n \in CallRows /\ n.pc = "store" /\ n.new \in Tokens
    BY <1>0 DEF CallRows, CallPcs
  <2> QED
    BY <1>6, <2>1, CallType DEF Sign, TypeOK
<1>7. ASSUME NEW c \in Openers \cup Refreshes, Store(c)
      PROVE  TypeOK'
  <2>1. row' \in [Tokens -> Rows]
    BY <1>7 DEF Store, TypeOK, CallRows, Rows
  <2> QED
    BY <1>7, <2>1, GoType DEF Store, TypeOK
<1>8. ASSUME NEW c \in Refreshes, NEW t \in Tokens, StartRefresh(c, t)
      PROVE  TypeOK'
  <2> DEFINE n == [call[c] EXCEPT !.pc = "revoke", !.old = t,
                                  !.password = row[t].password, !.late = row[t].late]
  <2>1. n \in CallRows /\ n.pc = "revoke" /\ n.old \in Tokens
    <3>1. /\ call[c] \in CallRows
          /\ row[t].password \in Passwords /\ row[t].late \in BOOLEAN
      BY <1>0 DEF Rows
    <3> QED
      BY <3>1 DEF CallRows, CallPcs
  <2> QED
    BY <1>8, <2>1, CallType DEF StartRefresh, TypeOK
<1>9. ASSUME NEW c \in Logouts, NEW t \in Tokens, StartLogout(c, t)
      PROVE  TypeOK'
  <2> DEFINE n == [call[c] EXCEPT !.pc = "revoke", !.old = t]
  <2>1. n \in CallRows /\ n.pc = "revoke" /\ n.old \in Tokens
    BY <1>0 DEF CallRows, CallPcs
  <2> QED
    BY <1>9, <2>1, CallType DEF StartLogout, TypeOK
<1>10. ASSUME NEW t \in Tokens, Revoke(t)
       PROVE  row' \in [Tokens -> Rows]
  <2>1. row \in [Tokens -> Rows] /\ [row[t] EXCEPT !.state = "revoked"] \in Rows
    BY <1>0 DEF TypeOK, Rows
  <2> QED
    BY <1>10, <2>1 DEF Revoke
<1>11. ASSUME NEW c \in Refreshes, RefreshRevoke(c)
       PROVE  TypeOK'
  BY <1>10, <1>11, GoType DEF RefreshRevoke, TypeOK
<1>12. ASSUME NEW c \in Logouts, LogoutRevoke(c)
       PROVE  TypeOK'
  BY <1>10, <1>12, GoType DEF LogoutRevoke, TypeOK
<1>13. ASSUME NEW f \in Forgots, ForgotPassword(f)
       PROVE  TypeOK'
  <2>1. user' \in Users
    <3>1. [by |-> f, ends |-> now + ResetLifetime] \in ResetTokens
      BY <1>0 DEF ResetTokens
    <3> QED
      BY <1>0, <1>13, <3>1 DEF ForgotPassword, Users
  <2> QED
    <3>1. user.reset.by \in Forgots \cup {NoReset}
      BY <1>0 DEF Users, ResetTokens
    <3>2. spent' \subseteq Forgots \cup {NoReset}
      BY <1>13, <3>1 DEF ForgotPassword, TypeOK
    <3> QED
      BY <1>13, <2>1, <3>2 DEF ForgotPassword, TypeOK
<1>14. ASSUME NEW c \in Resets, StartReset(c)
       PROVE  TypeOK'
  <2> DEFINE n == [call[c] EXCEPT !.pc = "change", !.link = user.reset.by]
  <2>1. n \in CallRows /\ n.pc = "change"
    <3>1. call[c] \in CallRows /\ user.reset.by \in Forgots \cup {NoReset}
      BY <1>0 DEF Users, ResetTokens
    <3> QED
      BY <3>1 DEF CallRows, CallPcs
  <2> QED
    BY <1>14, <2>1, CallType DEF StartReset, TypeOK
<1>15. ASSUME NEW c \in Resets, UpdatePassword(c)
       PROVE  TypeOK'
  <2>1. user' \in Users /\ latest' \in Passwords
    BY <1>15 DEF UpdatePassword, ChangePassword, NothingAsked, Users, ResetTokens, Passwords
  <2> QED
    <3>1. call[c].link \in Forgots \cup {NoReset}
      BY <1>0 DEF CallRows
    <3>2. spent' \subseteq Forgots \cup {NoReset}
      BY <1>15, <3>1 DEF UpdatePassword, TypeOK
    <3> QED
      BY <1>15, <2>1, <3>2, GoType DEF UpdatePassword, TypeOK
<1>16. ASSUME NEW c \in Resets, RevokeAll(c)
       PROVE  TypeOK'
  <2>1. row' \in [Tokens -> Rows]
    BY <1>16 DEF RevokeAll, RevokedRows, RevokeLive, TypeOK, Rows
  <2>2. call' \in [Calls -> CallRows]
    <3>1. \A d \in Calls : /\ [call[d] EXCEPT !.pc = "done"] \in CallRows
                            /\ [call[d] EXCEPT !.late = TRUE] \in CallRows
      BY <1>0 DEF CallRows, CallPcs
    <3> QED
      BY <1>0, <1>16, <3>1 DEF RevokeAll
  <2>3. \A d \in Calls :
          /\ call'[d].old = call[d].old /\ call'[d].new = call[d].new
          /\ call'[d].pc = "store" => call[d].pc = "store"
          /\ call'[d].pc = "revoke" => call[d].pc = "revoke"
    BY <1>16 DEF RevokeAll, TypeOK, CallRows
  <2>4. /\ now' = now /\ user' = user /\ saving' = saving /\ asked' = asked
        /\ latest' = latest /\ spent' = spent /\ changed' = changed
        /\ raced' = raced
        /\ ended' = ended \cup {c}
    BY <1>16 DEF RevokeAll
  <2> QED
    BY <2>1, <2>2, <2>3, <2>4 DEF TypeOK
<1>17. ASSUME NEW c \in Calls, Abandon(c)
       PROVE  TypeOK'
  BY <1>17, GoType DEF Abandon, TypeOK
<1>18. ASSUME NEW s \in Streaks, StreakRead(s) \/ StreakCompare(s)
       PROVE  TypeOK'
  <2>1. saving' \in [Streaks -> SavingRows]
    <3>1. saving \in [Streaks -> SavingRows] /\ saving[s] \in SavingRows
      BY DEF TypeOK
    <3>2. /\ [saving[s] EXCEPT !.pc = "compare", !.entity = user] \in SavingRows
          /\ [saving[s] EXCEPT !.pc = "write",
                 !.dirty = {k \in Columns : user[k] # saving[s].entity[k]}] \in SavingRows
      BY <1>0, <3>1 DEF SavingRows
    <3> QED
      BY <1>18, <3>1, <3>2 DEF StreakRead, StreakCompare
  <2> QED
    BY <1>18, <2>1 DEF StreakRead, StreakCompare, TypeOK
<1>19. ASSUME NEW s \in Streaks, StreakWrite(s)
       PROVE  TypeOK'
  <2>1. saving' \in [Streaks -> SavingRows]
    BY <1>19 DEF StreakWrite, TypeOK, SavingRows
  <2>2. user' \in Users
    BY <1>19 DEF StreakWrite, WriteDirty, TypeOK, SavingRows, Users, Columns
  <2> QED
    BY <1>19, <2>1, <2>2 DEF StreakWrite, TypeOK
<1> QED
  BY <1>1, <1>2, <1>3, <1>4, <1>5, <1>6, <1>7, <1>8, <1>9, <1>11, <1>12,
     <1>13, <1>14, <1>15, <1>16, <1>17, <1>18, <1>19
  DEF Next

\* The types hold of every behaviour of auth.service.ts and updateStreak.
THEOREM SessionsTypeCorrect == Spec => []TypeOK
BY TypeInit, TypeStep, PTL DEF Spec

-----------------------------------------------------------------------------
(* What a step can do to the rows, the calls, the saves and the user *)

\* All the actions, for the case split of a step.
StepOf(c) ==
    \/ c \in Registers /\ (StartRegister(c) \/ CreateUser(c))
    \/ c \in Logins /\ StartLogin(c)
    \/ c \in Refreshes /\ (RefreshRevoke(c) \/ \E t \in Tokens : StartRefresh(c, t))
    \/ c \in Logouts /\ (LogoutRevoke(c) \/ \E t \in Tokens : StartLogout(c, t))
    \/ c \in Openers \cup Refreshes /\ (Sign(c) \/ Store(c))
    \/ c \in Resets /\ (StartReset(c) \/ UpdatePassword(c) \/ RevokeAll(c))
    \/ Abandon(c)

\* Every step is one of these.
LEMMA StepCases ==
    ASSUME [Next]_vars
    PROVE  \/ UNCHANGED vars \/ Tick
           \/ \E c \in Calls : StepOf(c)
           \/ \E f \in Forgots : ForgotPassword(f)
           \/ \E s \in Streaks : StreakRead(s) \/ StreakCompare(s) \/ StreakWrite(s)
BY DEF Next, StepOf

\* A row is left alone, revoked, or inserted for a call with a new token.
LEMMA RowMoves ==
    ASSUME TypeOK, [Next]_vars, NEW t \in Tokens
    PROVE  \/ row'[t] = row[t]
           \/ row'[t].state = "revoked"
           \/ /\ row[t].state = "none" /\ row'[t].state = "live"
              /\ \E c \in Openers \cup Refreshes :
                   /\ call[c].pc = "store"
                   /\ row'[t].password = call[c].password
                   /\ row'[t].late = call[c].late
<1>0. row \in [Tokens -> Rows] /\ row[t] \in Rows
  BY DEF TypeOK
<1>1. CASE row' = row
  BY <1>1
<1>2. ASSUME NEW c \in Calls, Revoke(call[c].old)
      PROVE  row'[t] = row[t] \/ row'[t].state = "revoked"
  BY <1>0, <1>2 DEF Revoke, Rows
<1>3. ASSUME NEW c \in Openers \cup Refreshes, Store(c)
      PROVE  \/ row'[t] = row[t]
             \/ /\ row[t].state = "none" /\ row'[t].state = "live"
                /\ call[c].pc = "store"
                /\ row'[t].password = call[c].password /\ row'[t].late = call[c].late
  <2> DEFINE n == [state |-> "live", password |-> call[c].password, late |-> call[c].late]
  <2>1. /\ call[c].pc = "store"
        /\ row'[t] = row[t] \/ (row[t].state = "none" /\ row'[t] = n)
    BY <1>0, <1>3 DEF Store, TokenIsNew
  <2>2. n.state = "live" /\ n.password = call[c].password /\ n.late = call[c].late
    OBVIOUS
  <2> HIDE DEF n
  <2> QED
    BY <2>1, <2>2
<1>5. ASSUME NEW c \in Resets, RevokeAll(c)
      PROVE  row'[t] = row[t] \/ row'[t].state = "revoked"
  BY <1>0, <1>5 DEF RevokeAll, RevokedRows, RevokeLive, Rows
<1>6. ASSUME NEW c \in Calls, StepOf(c)
      PROVE  \/ row' = row
             \/ Revoke(call[c].old)
             \/ c \in Openers \cup Refreshes /\ Store(c)
             \/ c \in Resets /\ RevokeAll(c)
  BY <1>6 DEF StepOf, StartRegister, CreateUser, StartLogin, StartRefresh,
     RefreshRevoke, StartLogout, LogoutRevoke, Sign, StartReset, UpdatePassword,
     Abandon
<1>7. \/ row' = row \/ \E c \in Calls : StepOf(c)
  BY StepCases DEF vars, Tick, ForgotPassword, StreakRead, StreakCompare, StreakWrite
<1>8. CASE \E c \in Openers \cup Refreshes : Store(c)
  <2>1. PICK c \in Openers \cup Refreshes : Store(c)
    BY <1>8
  <2> QED
    BY <1>3, <2>1, Zenon
<1> QED
  BY <1>1, <1>2, <1>5, <1>6, <1>7, <1>8

\* A session that was ended never comes back, in any interleaving of calls.
THEOREM RevokedForGoodCorrect == Spec => RevokedForGood
<1>1. ASSUME TypeOK, [Next]_vars
      PROVE  [\A t \in Tokens : row[t].state = "revoked" => row'[t].state = "revoked"]_vars
  BY <1>1, RowMoves
<1> QED
  BY <1>1, SessionsTypeCorrect, PTL DEF Spec, RevokedForGood

-----------------------------------------------------------------------------
(* The password and the reset token *)

\* A save that has put a column back stays so.
LEMMA PutBackStays ==
    ASSUME TypeOK, [Next]_vars, NEW k, PutBack(k)
    PROVE  PutBack(k)'
<1>1. PICK s \in Streaks : saving[s].pc = "done" /\ k \in saving[s].dirty
  BY DEF PutBack
<1>2. CASE saving' = saving
  BY <1>1, <1>2 DEF PutBack
<1>3. ASSUME NEW z \in Streaks, StreakRead(z) \/ StreakCompare(z) \/ StreakWrite(z)
      PROVE  saving'[s] = saving[s]
  BY <1>1, <1>3 DEF StreakRead, StreakCompare, StreakWrite, TypeOK
<1>4. \/ saving' = saving
      \/ \E z \in Streaks : StreakRead(z) \/ StreakCompare(z) \/ StreakWrite(z)
  BY StepCases DEF vars, Tick, ForgotPassword, StepOf, StartRegister, CreateUser,
     StartLogin, StartRefresh, RefreshRevoke, StartLogout, LogoutRevoke, Sign,
     Store, StartReset, UpdatePassword, RevokeAll, Abandon
<1> QED
  BY <1>1, <1>2, <1>3, <1>4 DEF PutBack

\* A save of the streak writes a column only if it found it changed.
LEMMA WriteMoves ==
    ASSUME TypeOK, NEW s \in Streaks, StreakWrite(s), NEW k \in Columns
    PROVE  user'[k] = user[k] \/ PutBack(k)'
<1>1. user'[k] = IF k \in saving[s].dirty THEN saving[s].entity[k] ELSE user[k]
  BY DEF StreakWrite, WriteDirty
<1>2. saving'[s].pc = "done" /\ saving'[s].dirty = saving[s].dirty
  BY DEF StreakWrite, TypeOK, SavingRows
<1> QED
  BY <1>1, <1>2 DEF PutBack

\* Who writes the user's row, or the latest password.
LEMMA UserMoves ==
    ASSUME [Next]_vars
    PROVE  \/ user' = user /\ latest' = latest
           \/ \E c \in Registers : CreateUser(c) /\ user.password = NoPassword
           \/ \E f \in Forgots : ForgotPassword(f)
           \/ \E c \in Resets : UpdatePassword(c)
           \/ \E s \in Streaks : StreakWrite(s)
BY StepCases DEF vars, Tick, StepOf, StartRegister, CreateUser, StartLogin,
   StartRefresh, RefreshRevoke, StartLogout, LogoutRevoke, Sign, Store,
   StartReset, RevokeAll, Abandon, StreakRead, StreakCompare

\* Every step keeps PasswordKept.
LEMMA PasswordKeptStep ==
    ASSUME TypeOK, PasswordKept, [Next]_vars
    PROVE  PasswordKept'
<1>0. user \in Users
  BY DEF TypeOK
<1>1. ASSUME user'.password = user.password, latest' = latest
      PROVE  PasswordKept'
  BY <1>1, PutBackStays DEF PasswordKept
<1>2. ASSUME NEW c \in Registers, CreateUser(c), user.password = NoPassword
      PROVE  PasswordKept'
  BY <1>0, <1>2 DEF CreateUser, Users, PasswordKept
<1>3. ASSUME NEW f \in Forgots, ForgotPassword(f)
      PROVE  user'.password = user.password /\ latest' = latest
  BY <1>0, <1>3 DEF ForgotPassword, Users
<1>4. ASSUME NEW c \in Resets, UpdatePassword(c)
      PROVE  PasswordKept'
  BY <1>4 DEF UpdatePassword, ChangePassword, PasswordKept
<1>5. ASSUME NEW s \in Streaks, StreakWrite(s)
      PROVE  (user'.password = user.password \/ PutBack("password")') /\ latest' = latest
  <2>1. user'["password"] = user["password"] \/ PutBack("password")'
    BY <1>5, WriteMoves DEF Columns
  <2> QED
    BY <1>5, <2>1 DEF StreakWrite
<1> QED
  BY <1>1, <1>2, <1>3, <1>4, <1>5, UserMoves DEF PasswordKept

\* A password is lost only to a save of the streak that put an older one back.
THEOREM PasswordKeptCorrect == Spec => []PasswordKept
<1>1. Init => PasswordKept
  BY DEF Init, NoUser, PasswordKept
<1> QED
  BY <1>1, PasswordKeptStep, SessionsTypeCorrect, PTL DEF Spec

\* A step of a call that does not end the sessions leaves the others alone.
LEMMA OtherCalls ==
    ASSUME TypeOK, ~ \E r \in Resets : RevokeAll(r),
           NEW c \in Calls, StepOf(c), NEW d \in Calls, c # d
    PROVE  call'[d] = call[d]
<1>1. call \in [Calls -> CallRows]
  BY DEF TypeOK
<1> QED
  BY <1>1 DEF StepOf, StartRegister, CreateUser, StartLogin,
     StartRefresh, RefreshRevoke, StartLogout, LogoutRevoke, Sign, Store,
     StartReset, UpdatePassword, Abandon, Go

\* There are no tokens at first.
LEMMA LinksInvInit == Init => LinksInv
BY SessionsAssumption
DEF Init, NoUser, NewCall, NothingAsked, LinksInv, ResetTokenSpent

\* Every step keeps LinksInv.
LEMMA LinksInvStep ==
    ASSUME TypeOK, LinksInv, [Next]_vars
    PROVE  LinksInv'
<1> USE SessionsAssumption
<1>0. user \in Users /\ call \in [Calls -> CallRows] /\ saving \in [Streaks -> SavingRows]
  BY DEF TypeOK
<1>1. asked \subseteq asked'
  BY StepCases DEF vars, Tick, ForgotPassword, StepOf, StartRegister, CreateUser,
     StartLogin, StartRefresh, RefreshRevoke, StartLogout, LogoutRevoke, Sign, Store,
     StartReset, UpdatePassword, RevokeAll, Abandon, StreakRead, StreakCompare,
     StreakWrite
<1>2. /\ ResetTokenSpent' /\ spent' \subseteq asked'
      /\ user'.reset.by \in asked' \cup {NoReset}
  <2>1. CASE user'.reset = user.reset /\ spent' = spent
    BY <1>1, <2>1, PutBackStays DEF LinksInv, ResetTokenSpent
  <2>2. ASSUME NEW c \in Registers, CreateUser(c)
        PROVE  user'.reset = user.reset /\ spent' = spent
    BY <1>0, <2>2 DEF CreateUser, Users
  <2>3. CASE \E f \in Forgots : ForgotPassword(f)
    <3>1. PICK f \in Forgots : ForgotPassword(f)
      BY <2>3
    <3>2. /\ user'.reset.by = f /\ f \notin asked /\ asked' = asked \cup {f}
          /\ spent' = spent \cup ({user.reset.by} \ {NoReset})
      BY <1>0, <3>1 DEF ForgotPassword, Users
    <3> QED
      BY <3>2 DEF LinksInv, ResetTokenSpent
  <2>4. ASSUME NEW c \in Resets, UpdatePassword(c)
        PROVE  /\ user'.reset.by = NoReset /\ NoReset \notin spent'
               /\ spent' \subseteq asked'
    <3>1. /\ user'.reset.by = NoReset /\ spent' = spent \cup {call[c].link}
          /\ asked' = asked /\ call[c].pc = "change"
      BY <2>4 DEF UpdatePassword, ChangePassword, NothingAsked
    <3>2. spent' \subseteq asked /\ asked \subseteq Forgots
      BY <3>1 DEF LinksInv, TypeOK
    <3> QED
      BY <3>1, <3>2
  <2>5. CASE \E s \in Streaks : StreakWrite(s)
    <3>1. PICK s \in Streaks : StreakWrite(s)
      BY <2>5
    <3>2. user'["reset"] = user["reset"] \/ PutBack("reset")'
      BY <3>1, WriteMoves DEF Columns
    <3>3. /\ user'.reset = user.reset \/ user'.reset = saving[s].entity.reset
          /\ spent' = spent /\ asked' = asked
      BY <3>1 DEF StreakWrite, WriteDirty, Columns
    <3>4. user'.reset.by \in asked' \cup {NoReset} /\ spent' \subseteq asked'
      BY <3>3 DEF LinksInv
    <3>5. user'.reset = user.reset \/ PutBack("reset")'
      BY <3>2
    <3> QED
      BY <2>1, <3>3, <3>4, <3>5 DEF ResetTokenSpent
  <2>6. \/ user' = user /\ spent' = spent
        \/ \E c \in Registers : CreateUser(c)
        \/ \E f \in Forgots : ForgotPassword(f)
        \/ \E c \in Resets : UpdatePassword(c)
        \/ \E s \in Streaks : StreakWrite(s)
    BY StepCases DEF vars, Tick, StepOf, StartRegister, StartLogin,
       StartRefresh, RefreshRevoke, StartLogout, LogoutRevoke, Sign, Store,
       StartReset, RevokeAll, Abandon, StreakRead, StreakCompare
  <2> QED
    BY <2>1, <2>2, <2>3, <2>4, <2>5, <2>6 DEF ResetTokenSpent
<1>3. ASSUME NEW s \in Streaks
      PROVE  saving'[s].entity.reset.by \in asked' \cup {NoReset}
  <2>1. ASSUME NEW z \in Streaks, StreakRead(z) \/ StreakCompare(z) \/ StreakWrite(z)
        PROVE  saving'[s].entity = saving[s].entity \/ saving'[s].entity = user
    <3>0. saving[z] \in SavingRows
      BY <1>0
    <3>1. CASE StreakRead(z)
      BY <1>0, <3>0, <3>1 DEF StreakRead, SavingRows
    <3>2. CASE StreakCompare(z)
      BY <1>0, <3>0, <3>2 DEF StreakCompare, SavingRows
    <3>3. CASE StreakWrite(z)
      BY <1>0, <3>0, <3>3 DEF StreakWrite, SavingRows
    <3> QED
      BY <2>1, <3>1, <3>2, <3>3
  <2>2. saving' = saving \/ \E z \in Streaks :
          StreakRead(z) \/ StreakCompare(z) \/ StreakWrite(z)
    BY StepCases DEF vars, Tick, ForgotPassword, StepOf, StartRegister, CreateUser,
       StartLogin, StartRefresh, RefreshRevoke, StartLogout, LogoutRevoke, Sign,
       Store, StartReset, UpdatePassword, RevokeAll, Abandon
  <2>3. saving'[s].entity = saving[s].entity \/ saving'[s].entity = user
    BY <2>1, <2>2
  <2> QED
    BY <1>1, <2>3 DEF LinksInv
<1>4. ASSUME NEW d \in Resets, call'[d].pc = "change"
      PROVE  call'[d].link \in asked'
  <2>1. CASE call'[d].pc = call[d].pc /\ call'[d].link = call[d].link
    BY <1>1, <1>4, <2>1 DEF LinksInv
  <2>2. ASSUME NEW c \in Resets, RevokeAll(c)
        PROVE  call'[d].pc = call[d].pc /\ call'[d].link = call[d].link
    BY <1>0, <1>4, <2>2 DEF RevokeAll, CallRows
  <2>3. CASE StepOf(d) /\ ~ \E c \in Resets : RevokeAll(c)
    <3>1. StartReset(d)
      <4>1. StartReset(d) \/ UpdatePassword(d) \/ Abandon(d)
        BY <2>3 DEF StepOf
      <4>2. ~UpdatePassword(d) /\ ~Abandon(d)
        BY <1>0, <1>4 DEF UpdatePassword, Abandon, Go, CallRows
      <4> QED
        BY <4>1, <4>2
    <3>2. /\ call'[d].link = user.reset.by /\ user.reset.by # NoReset
          /\ asked' = asked
      BY <1>0, <3>1 DEF StartReset, CallRows
    <3> QED
      BY <3>2 DEF LinksInv
  <2>4. call' = call \/ \E c \in Calls : StepOf(c)
    BY StepCases DEF vars, Tick, ForgotPassword, StreakRead, StreakCompare, StreakWrite
  <2> QED
    BY <2>1, <2>2, <2>3, <2>4, OtherCalls
<1> QED
  BY <1>2, <1>3, <1>4 DEF LinksInv

\* A replaced or used reset token is found again only if a save put it back.
THEOREM LinksCorrect == Spec => []LinksInv
<1>1. TypeOK /\ LinksInv /\ [Next]_vars => LinksInv'
  BY LinksInvStep
<1> QED
  BY <1>1, LinksInvInit, SessionsTypeCorrect, PTL DEF Spec

-----------------------------------------------------------------------------
(* Sessions after a reset *)

\* Unless the sessions are ended, an excuse holds for good.
LEMMA ExcusedStays ==
    ASSUME TypeOK, PasswordKept, ResetInv, [Next]_vars,
           ~ \E c \in Resets : RevokeAll(c),
           NEW p, p # NoPassword, NEW l, Excused(p, l)
    PROVE  Excused(p, l)'
<1>1. CASE PutBack("password")
  BY <1>1, PutBackStays DEF Excused
<1>2. CASE l
  BY <1>2 DEF Excused
<1>3. ASSUME NEW c \in Resets, UpdatePassword(c)
      PROVE  changed' # ended'
  <2>1. c \notin ended /\ ended' = ended /\ c \in changed'
    BY <1>3 DEF UpdatePassword, ResetInv
  <2> QED
    BY <2>1
<1>4. ASSUME NEW c \in Registers, CreateUser(c), user.password = NoPassword,
             ~PutBack("password")
      PROVE  p # latest /\ changed' = changed /\ ended' = ended
  BY <1>4 DEF CreateUser, PasswordKept
<1>5. \/ latest' = latest /\ changed' = changed /\ ended' = ended
      \/ \E c \in Registers : CreateUser(c) /\ user.password = NoPassword
      \/ \E c \in Resets : UpdatePassword(c)
  BY StepCases DEF vars, Tick, StepOf, StartRegister, CreateUser, StartLogin,
     StartRefresh, RefreshRevoke, StartLogout, LogoutRevoke, Sign, Store,
     StartReset, Abandon, ForgotPassword, StreakRead, StreakCompare, StreakWrite
<1> QED
  BY <1>1, <1>2, <1>3, <1>4, <1>5 DEF Excused

\* Where a call that is about to store a session has its password from.
LEMMA CallMoves ==
    ASSUME TypeOK, [Next]_vars, ~ \E c \in Resets : RevokeAll(c),
           NEW d \in Calls, Opening(d)'
    PROVE  \/ /\ Opening(d)
              /\ call'[d].password = call[d].password /\ call'[d].late = call[d].late
           \/ call'[d].password = user.password /\ user.password # NoPassword
           \/ call'[d].password = latest' /\ latest' # NoPassword
           \/ \E t \in Tokens :
                /\ Live(t)
                /\ call'[d].password = row[t].password /\ call'[d].late = row[t].late
<1> USE SessionsAssumption
<1>0. call \in [Calls -> CallRows]
  BY DEF TypeOK
<1>1. CASE call'[d] = call[d]
  BY <1>1 DEF Opening
<1>2. ASSUME NEW c \in Calls, StepOf(c), c # d
      PROVE  call'[d] = call[d]
  BY <1>2, OtherCalls
<1>3. ASSUME StepOf(d)
      PROVE  \/ /\ Opening(d)
                /\ call'[d].password = call[d].password /\ call'[d].late = call[d].late
             \/ call'[d].password = user.password /\ user.password # NoPassword
             \/ call'[d].password = latest' /\ latest' # NoPassword
             \/ \E t \in Tokens :
                  /\ Live(t)
                  /\ call'[d].password = row[t].password /\ call'[d].late = row[t].late
  <2>0. call[d] \in CallRows
    BY <1>0
  <2>1. CASE d \in Registers /\ CreateUser(d)
    <3>1. CASE user.password = NoPassword
      <4> DEFINE n == [call[d] EXCEPT !.pc = "sign", !.password = d]
      <4>1. latest' = d /\ call' = [call EXCEPT ![d] = n]
        BY <2>1, <3>1 DEF CreateUser
      <4>2. n.password = d /\ d # NoPassword
        BY <2>0, <2>1 DEF CallRows
      <4> QED
        BY <1>0, <4>1, <4>2
    <3>2. CASE user.password # NoPassword
      BY <1>0, <2>0, <2>1, <3>2 DEF CreateUser, CallRows, Opening, Go
    <3> QED
      BY <3>1, <3>2
  <2>2. CASE d \in Logins /\ StartLogin(d)
    BY <1>0, <2>0, <2>2 DEF StartLogin, CallRows
  <2>3. CASE d \in Refreshes /\ \E t \in Tokens : StartRefresh(d, t)
    <3>1. PICK t \in Tokens : StartRefresh(d, t)
      BY <2>3
    <3> QED
      BY <1>0, <2>0, <3>1 DEF StartRefresh, Refreshable, CallRows
  <2>4. CASE d \in Refreshes /\ RefreshRevoke(d)
    BY <1>0, <2>0, <2>4 DEF RefreshRevoke, CallRows, Opening, Go
  <2>5. CASE d \in Openers \cup Refreshes /\ Sign(d)
    BY <1>0, <2>0, <2>5 DEF Sign, CallRows, Opening
  <2>6. CASE \/ d \in Registers /\ StartRegister(d)
             \/ d \in Logouts
             \/ d \in Openers \cup Refreshes /\ Store(d)
             \/ d \in Resets /\ UpdatePassword(d)
             \/ Abandon(d)
    BY <1>0, <2>0, <2>6 DEF StartRegister, Store, UpdatePassword,
       Abandon, CallRows, Opening, Go
  <2>7. CASE d \in Resets /\ StartReset(d)
    BY <1>0, <2>0, <2>7 DEF StartReset, CallRows, Opening
  <2> QED
    BY <1>3, <2>1, <2>2, <2>3, <2>4, <2>5, <2>6, <2>7 DEF StepOf
<1>4. call' = call \/ \E c \in Calls : StepOf(c)
  BY StepCases DEF vars, Tick, ForgotPassword, StreakRead, StreakCompare, StreakWrite
<1> QED
  BY <1>1, <1>2, <1>3, <1>4

\* There are no sessions at first.
LEMMA ResetInvInit == Init => ResetInv
<1> SUFFICES ASSUME Init PROVE ResetInv
  OBVIOUS
<1>1. \A t \in Tokens : ~Live(t)
  BY DEF Init, Live, NoRow
<1>2. \A c \in Calls : ~Opening(c)
  BY DEF Init, Opening, NewCall
<1>3. ended = {}
  BY DEF Init
<1> QED
  BY <1>1, <1>2, <1>3 DEF ResetInv, ResetEndsSessions

\* The last query of a reset leaves no session alive but those under way.
LEMMA RevokeAllStep ==
    ASSUME TypeOK, ResetInv, NEW c \in Resets, RevokeAll(c)
    PROVE  ResetInv'
<1>0. call \in [Calls -> CallRows] /\ row \in [Tokens -> Rows]
  BY DEF TypeOK
<1>1. \A t \in Tokens : row'[t].state # "live"
  BY <1>0 DEF RevokeAll, RevokedRows, RevokeLive, Rows
<1>2. \A d \in Calls : Opening(d)' =>
        Opening(d) /\ call'[d].password = call[d].password /\ call'[d].late
  BY <1>0 DEF RevokeAll, Opening, CallRows
<1>3. \A d \in Resets :
        call'[d].pc \in {"idle", "change", "revokeAll"} =>
          d # c /\ call[d].pc = call'[d].pc
  BY <1>0 DEF RevokeAll, CallRows
<1>4. \A d \in Resets :
        call'[d].pc \in {"idle", "change", "revokeAll"} => d \notin ended'
  BY <1>3 DEF RevokeAll, ResetInv
<1> QED
  BY <1>1, <1>2, <1>4 DEF ResetInv, ResetEndsSessions, Live, Excused

\* Every step keeps ResetInv.
LEMMA ResetInvStep ==
    ASSUME TypeOK, PasswordKept, ResetInv, [Next]_vars
    PROVE  ResetInv'
<1>1. CASE \E c \in Resets : RevokeAll(c)
  BY <1>1, RevokeAllStep
<1>2. CASE ~ \E c \in Resets : RevokeAll(c)
  <2>1. ASSUME NEW p, p # NoPassword, NEW l, Excused(p, l)
        PROVE  Excused(p, l)'
    BY <1>2, <2>1, ExcusedStays
  <2>2. ASSUME NEW c \in Calls, Opening(c), NEW p, p = call[c].password,
               NEW l, l = call[c].late
        PROVE  p # NoPassword /\ Excused(p, l)'
    <3>1. p # NoPassword /\ Excused(p, l)
      BY <2>2 DEF ResetInv
    <3> QED
      BY <2>1, <3>1
  <2>3. ASSUME NEW t \in Tokens, Live(t), NEW p, p = row[t].password,
               NEW l, l = row[t].late
        PROVE  p # NoPassword /\ Excused(p, l)'
    <3>1. p # NoPassword /\ Excused(p, l)
      BY <2>3 DEF ResetInv, ResetEndsSessions
    <3> QED
      BY <2>1, <3>1
  <2>4. ASSUME NEW t \in Tokens, Live(t)', NEW p, p = row'[t].password,
               NEW l, l = row'[t].late
        PROVE  p # NoPassword /\ Excused(p, l)'
    <3>1. CASE row'[t] = row[t]
      BY <2>3, <2>4, <3>1 DEF Live
    <3>2. CASE \E c \in Openers \cup Refreshes :
                 /\ call[c].pc = "store"
                 /\ p = call[c].password /\ l = call[c].late
      <4>1. PICK c \in Openers \cup Refreshes :
              call[c].pc = "store" /\ p = call[c].password /\ l = call[c].late
        BY <3>2
      <4>2. Opening(c)
        BY <4>1, SessionsAssumption DEF Opening
      <4> QED
        BY <2>2, <4>1, <4>2
    <3> QED
      BY <2>4, <3>1, <3>2, RowMoves DEF Live
  <2>5. ASSUME NEW d \in Calls, Opening(d)', NEW p, p = call'[d].password,
               NEW l, l = call'[d].late
        PROVE  p # NoPassword /\ Excused(p, l)'
    <3>1. CASE /\ Opening(d) /\ p = call[d].password /\ l = call[d].late
      BY <2>2, <3>1
    <3>2. CASE p = user.password /\ user.password # NoPassword
      <4>1. Excused(p, l)
        BY <3>2 DEF PasswordKept, Excused
      <4> QED
        BY <2>1, <3>2, <4>1
    <3>3. CASE p = latest' /\ latest' # NoPassword
      BY <3>3 DEF Excused
    <3>4. CASE \E t \in Tokens : Live(t) /\ p = row[t].password /\ l = row[t].late
      BY <2>3, <3>4
    <3> QED
      BY <1>2, <2>5, <3>1, <3>2, <3>3, <3>4, CallMoves
  <2>6. ASSUME NEW d \in Resets, call'[d].pc \in {"idle", "change", "revokeAll"}
        PROVE  d \notin ended'
    <3>1. call \in [Calls -> CallRows]
      BY DEF TypeOK
    <3>2. ended' = ended
      BY <1>2, StepCases DEF vars, Tick, StepOf, StartRegister, CreateUser,
         StartLogin, StartRefresh, RefreshRevoke, StartLogout, LogoutRevoke,
         Sign, Store, StartReset, UpdatePassword, Abandon, ForgotPassword,
         StreakRead, StreakCompare, StreakWrite
    <3>3. call'[d] = call[d] \/ \E c \in Calls : StepOf(c) /\ call'[d] # call[d]
      BY StepCases DEF vars, Tick, ForgotPassword, StreakRead, StreakCompare,
         StreakWrite
    <3>4. ASSUME NEW c \in Calls, StepOf(c), call'[d] # call[d]
          PROVE  call[d].pc \in {"idle", "change"}
      <4>1. c = d
        BY <1>2, <3>4, OtherCalls
      <4>2. StartReset(d) \/ UpdatePassword(d) \/ Abandon(d)
        BY <1>2, <3>4, <4>1, SessionsAssumption DEF StepOf
      <4>3. ~Abandon(d)
        BY <2>6, <3>1 DEF Abandon, Go, CallRows
      <4> QED
        BY <4>2, <4>3 DEF StartReset, UpdatePassword
    <3> QED
      BY <2>6, <3>2, <3>3, <3>4 DEF ResetInv
  <2> QED
    BY <2>4, <2>5, <2>6 DEF ResetInv, ResetEndsSessions, Excused
<1> QED
  BY <1>1, <1>2

\* After a reset no older session is alive, but for the three reasons Excused
\* names, however the calls interleave and wherever they stop.
THEOREM ResetCorrect == Spec => []ResetInv
<1>1. TypeOK /\ PasswordKept /\ ResetInv /\ [Next]_vars => ResetInv'
  BY ResetInvStep
<1> QED
  BY <1>1, ResetInvInit, SessionsTypeCorrect, PasswordKeptCorrect, PTL DEF Spec

\* In particular ResetEndsSessions.
THEOREM ResetEndsSessionsCorrect == Spec => []ResetEndsSessions
<1>1. ResetInv => ResetEndsSessions
  BY DEF ResetInv
<1> QED
  BY <1>1, ResetCorrect, PTL

-----------------------------------------------------------------------------
(* The number of sessions *)

\* A refresh that lost its race has given up its token already.
RacedLate == \A c \in raced : call[c].pc \notin {"idle", "revoke"}

AccountInv == SessionsAccounted /\ RacedLate

\* What is counted is finite.
LEMMA Accounts ==
    ASSUME NEW S, S \in SUBSET Tokens \/ S \in SUBSET Calls
    PROVE  IsFiniteSet(S) /\ Cardinality(S) \in Nat
<1>1. IsFiniteSet(Tokens) /\ IsFiniteSet(Calls)
  BY SessionsAssumption, FS_Interval
<1>2. IsFiniteSet(S)
  <2> HIDE DEF Tokens, Calls
  <2> QED
    BY <1>1, FS_Subset
<1> QED
  BY <1>2, FS_CardinalityType

\* No session is added.
Fewer ==
    /\ LiveTokens' \subseteq LiveTokens /\ Rotating' \subseteq Rotating
    /\ Opened \subseteq Opened' /\ raced' = raced

\* A registration or login stores its session.
Opens(c, t) ==
    /\ LiveTokens' \subseteq LiveTokens \cup {t} /\ Rotating' \subseteq Rotating
    /\ c \notin Opened /\ Opened' = Opened \cup {c} /\ raced' = raced

\* A refresh stores the session that follows the one it gave up.
Replaces(c, t) ==
    /\ LiveTokens' \subseteq LiveTokens \cup {t}
    /\ c \in Rotating /\ Rotating' = Rotating \ {c}
    /\ Opened' = Opened /\ raced' = raced

\* A refresh gives up its session, or finds it given up.
GivesUp(c, t) ==
    /\ Rotating' \subseteq Rotating \cup {c} /\ Opened' = Opened
    /\ \/ t \in LiveTokens /\ LiveTokens' = LiveTokens \ {t} /\ raced' = raced
       \/ LiveTokens' \subseteq LiveTokens /\ c \notin raced /\ raced' = raced \cup {c}

\* None of these lets the sessions outgrow the account.
LEMMA AccountKept ==
    ASSUME TypeOK, TypeOK', SessionsAccounted, NEW c, NEW t,
           Fewer \/ Opens(c, t) \/ Replaces(c, t) \/ GivesUp(c, t)
    PROVE  SessionsAccounted'
<1>1. /\ IsFiniteSet(LiveTokens) /\ IsFiniteSet(Rotating)
      /\ IsFiniteSet(Opened) /\ IsFiniteSet(raced)
      /\ Cardinality(LiveTokens) \in Nat /\ Cardinality(Rotating) \in Nat
      /\ Cardinality(Opened) \in Nat /\ Cardinality(raced) \in Nat
  <2>1. /\ LiveTokens \in SUBSET Tokens /\ Rotating \in SUBSET Calls
        /\ Opened \in SUBSET Calls /\ raced \in SUBSET Calls
    BY DEF LiveTokens, Rotating, Opened, TypeOK
  <2> QED
    BY <2>1, Accounts
<1>2. /\ IsFiniteSet(Opened')
      /\ Cardinality(LiveTokens') \in Nat /\ Cardinality(Rotating') \in Nat
      /\ Cardinality(Opened') \in Nat /\ Cardinality(raced') \in Nat
  <2>1. /\ LiveTokens' \in SUBSET Tokens /\ Rotating' \in SUBSET Calls
        /\ Opened' \in SUBSET Calls /\ raced' \in SUBSET Calls
    BY DEF LiveTokens, Rotating, Opened, TypeOK
  <2> QED
    BY <2>1, Accounts
<1>3. Cardinality(LiveTokens) + Cardinality(Rotating) <= Cardinality(Opened) + Cardinality(raced)
  BY DEF SessionsAccounted
<1>4. /\ IsFiniteSet(LiveTokens \cup {t}) /\ Cardinality(LiveTokens \cup {t}) <= Cardinality(LiveTokens) + 1
      /\ IsFiniteSet(Rotating \cup {c}) /\ Cardinality(Rotating \cup {c}) <= Cardinality(Rotating) + 1
      /\ Cardinality(LiveTokens \cup {t}) \in Nat /\ Cardinality(Rotating \cup {c}) \in Nat
  <2>1. ASSUME NEW S, NEW x, IsFiniteSet(S)
        PROVE  /\ IsFiniteSet(S \cup {x}) /\ Cardinality(S \cup {x}) \in Nat
               /\ Cardinality(S \cup {x}) <= Cardinality(S) + 1
    <3>1. Cardinality(S) \in Nat
      BY <2>1, FS_CardinalityType
    <3>2. /\ IsFiniteSet(S \cup {x})
          /\ Cardinality(S \cup {x}) = IF x \in S THEN Cardinality(S) ELSE Cardinality(S) + 1
      BY <2>1, FS_AddElement
    <3> QED
      BY <3>1, <3>2
  <2> QED
    BY <1>1, <2>1
<1>5. CASE Fewer
  <2>1. /\ Cardinality(LiveTokens') <= Cardinality(LiveTokens)
        /\ Cardinality(Rotating') <= Cardinality(Rotating)
        /\ Cardinality(Opened) <= Cardinality(Opened') /\ raced' = raced
    BY <1>1, <1>2, <1>5, FS_Subset DEF Fewer
  <2> QED
    BY <1>1, <1>2, <1>3, <2>1 DEF SessionsAccounted
<1>6. CASE Opens(c, t)
  <2>1. /\ Cardinality(LiveTokens') <= Cardinality(LiveTokens \cup {t})
        /\ Cardinality(Rotating') <= Cardinality(Rotating)
        /\ Cardinality(Opened') = Cardinality(Opened) + 1 /\ raced' = raced
    BY <1>1, <1>4, <1>6, FS_Subset, FS_AddElement DEF Opens
  <2> QED
    BY <1>1, <1>2, <1>3, <1>4, <2>1 DEF SessionsAccounted
<1>7. CASE Replaces(c, t)
  <2>1. /\ Cardinality(LiveTokens') <= Cardinality(LiveTokens \cup {t})
        /\ Cardinality(Rotating') = Cardinality(Rotating) - 1
        /\ Opened' = Opened /\ raced' = raced
    BY <1>1, <1>4, <1>7, FS_Subset, FS_RemoveElement DEF Replaces
  <2> QED
    BY <1>1, <1>2, <1>3, <1>4, <2>1 DEF SessionsAccounted
<1>8. CASE GivesUp(c, t)
  <2>1. /\ Cardinality(Rotating') <= Cardinality(Rotating \cup {c}) /\ Opened' = Opened
    BY <1>4, <1>8, FS_Subset DEF GivesUp
  <2>2. CASE t \in LiveTokens /\ LiveTokens' = LiveTokens \ {t} /\ raced' = raced
    <3>1. Cardinality(LiveTokens') = Cardinality(LiveTokens) - 1
      BY <1>1, <2>2, FS_RemoveElement
    <3> QED
      BY <1>1, <1>2, <1>3, <1>4, <2>1, <2>2, <3>1 DEF SessionsAccounted
  <2>3. CASE LiveTokens' \subseteq LiveTokens /\ c \notin raced /\ raced' = raced \cup {c}
    <3>1. /\ Cardinality(LiveTokens') <= Cardinality(LiveTokens)
          /\ Cardinality(raced') = Cardinality(raced) + 1
      BY <1>1, <2>3, FS_Subset, FS_AddElement
    <3> QED
      BY <1>1, <1>2, <1>3, <1>4, <2>1, <3>1 DEF SessionsAccounted
  <2> QED
    BY <1>8, <2>2, <2>3 DEF GivesUp
<1> QED
  BY <1>5, <1>6, <1>7, <1>8

\* A call that moves on without giving up or storing a session.
LEMMA Moves ==
    ASSUME TypeOK, NEW c \in Calls, NEW n,
           call' = [call EXCEPT ![c] = n], call[c].pc # "done",
           n.pc \in {"sign", "store"} /\ c \in Refreshes =>
             call[c].pc \in {"sign", "store"},
           row' = row \/ Revoke(call[c].old), raced' = raced
    PROVE  Fewer
<1>1. call \in [Calls -> CallRows] /\ row \in [Tokens -> Rows]
  BY DEF TypeOK
<1>2. \A d \in Calls : call'[d] = IF d = c THEN n ELSE call[d]
  BY <1>1
<1>3. Rotating' \subseteq Rotating /\ Opened \subseteq Opened'
  BY <1>2 DEF Rotating, Opened
<1>4. \A t \in Tokens : row'[t] = row[t] \/ row'[t].state = "revoked"
  BY <1>1 DEF Revoke, Rows
<1>5. LiveTokens' \subseteq LiveTokens
  BY <1>4 DEF LiveTokens, Live
<1> QED
  BY <1>3, <1>5 DEF Fewer

\* Every step is one of the four.
LEMMA AccountMoves ==
    ASSUME TypeOK, RacedLate, [Next]_vars
    PROVE  \E c, t : Fewer \/ Opens(c, t) \/ Replaces(c, t) \/ GivesUp(c, t)
<1> USE SessionsAssumption
<1>0. call \in [Calls -> CallRows] /\ row \in [Tokens -> Rows]
  BY DEF TypeOK
<1>1. CASE UNCHANGED <<row, call, raced>>
  BY <1>1 DEF Fewer, LiveTokens, Live, Rotating, Opened
<1>2. ASSUME NEW c \in Calls, StepOf(c)
      PROVE  \E d, t : Fewer \/ Opens(d, t) \/ Replaces(d, t) \/ GivesUp(d, t)
  <2>0. call[c] \in CallRows
    BY <1>0
  <2>1. CASE c \in Openers \cup Refreshes /\ Store(c)
    <3> DEFINE t == call[c].new
    <3>1. call[c].pc = "store" /\ t \in Tokens /\ t # NoToken /\ raced' = raced
      BY <2>1 DEF Store, TypeOK, NoToken
    <3>2. \A d \in Calls :
            /\ d # c => call'[d] = call[d]
            /\ call'[d].new = call[d].new
            /\ d = c => call'[d].pc = "done"
      BY <1>0, <2>0, <2>1 DEF Store, Go, CallRows
    <3>3. \A u \in Tokens : u # t => row'[u] = row[u]
      BY <1>0, <2>1, <3>1 DEF Store
    <3>4. LiveTokens' \subseteq LiveTokens \cup {t}
      BY <3>3 DEF LiveTokens, Live
    <3>0. /\ \A d \in Openers : d # c => call'[d] = call[d]
          /\ \A d \in Refreshes : d # c => call'[d] = call[d]
          /\ call'[c].new = call[c].new /\ call'[c].pc = "done"
          /\ ~(c \in Openers /\ c \in Refreshes)
      <4>1. Openers \subseteq Calls /\ Refreshes \subseteq Calls
        OBVIOUS
      <4>2. Openers \cap Refreshes = {}
        OBVIOUS
      <4> HIDE DEF Openers, Calls, Tokens
      <4> QED
        BY <3>2, <4>1, <4>2
    <3> HIDE DEF Openers, Calls, Tokens
    <3>5. CASE c \in Openers
      <4>1. c \notin Opened /\ Opened' = Opened \cup {c}
        BY <3>0, <3>1, <3>5 DEF Opened
      <4>2. Rotating' \subseteq Rotating
        BY <3>0, <3>5 DEF Rotating
      <4> QED
        BY <3>1, <3>4, <4>1, <4>2 DEF Opens
    <3>6. CASE c \in Refreshes
      <4>1. c \in Rotating /\ Rotating' = Rotating \ {c}
        BY <3>0, <3>1, <3>6 DEF Rotating
      <4>2. Opened' = Opened
        BY <3>0, <3>6 DEF Opened
      <4> QED
        BY <3>1, <3>4, <4>1, <4>2 DEF Replaces
    <3> QED
      BY <2>1, <3>5, <3>6
  <2>2. CASE c \in Refreshes /\ RefreshRevoke(c)
    <3> DEFINE t == call[c].old
    <3>1. call[c].pc = "revoke" /\ t \in Tokens
      BY <2>2 DEF RefreshRevoke, TypeOK
    <3>2. \A d \in Calls : d # c => call'[d] = call[d]
      BY <1>0, <2>2 DEF RefreshRevoke, Go
    <3>3. \A u \in Tokens : (u # t => row'[u] = row[u]) /\ row'[t].state = "revoked"
      BY <1>0, <2>2, <3>1 DEF RefreshRevoke, Revoke, Rows
    <3>4. LiveTokens' = LiveTokens \ {t}
      BY <3>1, <3>3 DEF LiveTokens, Live
    <3>5. Rotating' \subseteq Rotating \cup {c} /\ Opened' = Opened
      BY <2>2, <3>2 DEF Rotating, Opened
    <3>6. \/ t \in LiveTokens /\ raced' = raced
          \/ c \notin raced /\ raced' = raced \cup {c}
      BY <2>2, <3>1 DEF RefreshRevoke, RacedLate, LiveTokens
    <3> QED
      BY <3>4, <3>5, <3>6 DEF GivesUp
  <2>3. CASE c \in Resets /\ RevokeAll(c)
    <3>1. \A d \in Calls :
            /\ d # c => call'[d].pc = call[d].pc
            /\ call'[d].new = call[d].new
      BY <1>0, <2>3 DEF RevokeAll, CallRows
    <3>2. \A t \in Tokens : row'[t].state # "live"
      BY <1>0, <2>3 DEF RevokeAll, RevokedRows, RevokeLive, Rows
    <3>3. raced' = raced
      BY <2>3 DEF RevokeAll
    <3>4. Rotating' \subseteq Rotating /\ Opened \subseteq Opened'
      BY <2>3, <3>1 DEF Rotating, Opened
    <3> QED
      BY <3>2, <3>3, <3>4 DEF Fewer, LiveTokens, Live
  <2>4. CASE c \in Registers /\ (StartRegister(c) \/ CreateUser(c))
    BY <2>4, Moves DEF StartRegister, CreateUser, Go
  <2>5. CASE c \in Logins /\ StartLogin(c)
    BY <2>5, Moves DEF StartLogin
  <2>6. CASE c \in Refreshes /\ \E t \in Tokens : StartRefresh(c, t)
    <3>1. PICK t \in Tokens : StartRefresh(c, t)
      BY <2>6
    <3> DEFINE n == [call[c] EXCEPT !.pc = "revoke", !.old = t,
                                    !.password = row[t].password, !.late = row[t].late]
    <3>2. call' = [call EXCEPT ![c] = n] /\ n.pc = "revoke" /\ call[c].pc # "done"
          /\ row' = row /\ raced' = raced
      BY <2>0, <3>1 DEF StartRefresh, CallRows
    <3> HIDE DEF n
    <3> QED
      BY <3>2, Moves
  <2>7. CASE c \in Logouts /\ (LogoutRevoke(c) \/ \E t \in Tokens : StartLogout(c, t))
    BY <2>7, Moves DEF LogoutRevoke, StartLogout, Go
  <2>8. CASE c \in Openers \cup Refreshes /\ Sign(c)
    BY <2>8, Moves DEF Sign
  <2>9. CASE c \in Resets /\ (StartReset(c) \/ UpdatePassword(c))
    BY <2>9, Moves DEF StartReset, UpdatePassword, Go
  <2>10. CASE Abandon(c)
    <3> DEFINE n == [call[c] EXCEPT !.pc = "done"]
    <3>1. call' = [call EXCEPT ![c] = n] /\ n.pc = "done" /\ call[c].pc # "done"
          /\ row' = row /\ raced' = raced
      BY <2>0, <2>10 DEF Abandon, Go, CallRows
    <3> HIDE DEF n
    <3> QED
      BY <3>1, Moves
  <2> QED
    BY <1>2, <2>1, <2>2, <2>3, <2>4, <2>5, <2>6, <2>7, <2>8, <2>9, <2>10 DEF StepOf
<1>3. UNCHANGED <<row, call, raced>> \/ \E c \in Calls : StepOf(c)
  BY StepCases DEF vars, Tick, ForgotPassword, StreakRead, StreakCompare, StreakWrite
<1> QED
  BY <1>1, <1>2, <1>3

\* A refresh that lost its race does not start again.
LEMMA RacedStep ==
    ASSUME TypeOK, RacedLate, [Next]_vars
    PROVE  RacedLate'
<1> USE SessionsAssumption
<1>0. call \in [Calls -> CallRows] /\ raced \subseteq Refreshes
  BY DEF TypeOK
<1>1. CASE UNCHANGED <<call, raced>>
  BY <1>1 DEF RacedLate
<1>2. ASSUME NEW c \in Calls, StepOf(c) PROVE RacedLate'
  <2>1. CASE \E d \in Resets : RevokeAll(d)
    <3>1. PICK d \in Resets : RevokeAll(d)
      BY <2>1
    <3>2. \A e \in Calls : e # d => call'[e].pc = call[e].pc
      BY <1>0, <3>1 DEF RevokeAll, CallRows
    <3>3. raced' = raced /\ d \notin raced
      BY <1>0, <3>1 DEF RevokeAll
    <3> QED
      BY <1>0, <3>2, <3>3 DEF RacedLate
  <2>2. CASE ~ \E d \in Resets : RevokeAll(d)
    <3>1. \A d \in Calls : d # c => call'[d] = call[d]
      BY <1>2, <2>2, OtherCalls
    <3>2. raced' \subseteq raced \cup {c}
      BY <1>2, <2>2 DEF StepOf, StartRegister, CreateUser, StartLogin, StartRefresh,
         RefreshRevoke, StartLogout, LogoutRevoke, Sign, Store, StartReset,
         UpdatePassword, Abandon
    <3>3. ASSUME c \in raced' PROVE call'[c].pc \notin {"idle", "revoke"}
      <4>1. c \in Refreshes
        BY <1>0, <1>2, <2>2, <3>3 DEF StepOf, StartRegister, CreateUser, StartLogin,
           StartRefresh, RefreshRevoke, StartLogout, LogoutRevoke, Sign, Store,
           StartReset, UpdatePassword, Abandon
      <4>2. call[c] \in CallRows
        BY <1>0
      <4>3. CASE RefreshRevoke(c)
        BY <1>0, <4>2, <4>3 DEF RefreshRevoke, Go, CallRows
      <4>4. CASE Sign(c)
        BY <1>0, <4>2, <4>4 DEF Sign, CallRows
      <4>5. CASE Store(c) \/ Abandon(c)
        BY <1>0, <4>2, <4>5 DEF Store, Abandon, Go, CallRows
      <4>6. CASE \E t \in Tokens : StartRefresh(c, t)
        BY <3>3, <4>6 DEF StartRefresh, RacedLate
      <4> QED
        BY <1>2, <4>1, <4>3, <4>4, <4>5, <4>6 DEF StepOf
    <3> QED
      BY <1>0, <3>1, <3>2, <3>3 DEF RacedLate
  <2> QED
    BY <2>1, <2>2
<1>3. UNCHANGED <<call, raced>> \/ \E c \in Calls : StepOf(c)
  BY StepCases DEF vars, Tick, ForgotPassword, StreakRead, StreakCompare, StreakWrite
<1> QED
  BY <1>1, <1>2, <1>3

\* Sessions do not multiply: however registrations, logins, refreshes, logouts
\* and resets interleave and wherever they stop, there is at most one for each
\* registration and login, and one for each refresh that lost a race.
THEOREM SessionsAccountedCorrect == Spec => []SessionsAccounted
<1>1. ASSUME Init PROVE AccountInv
  <2>1. LiveTokens = {} /\ Rotating = {} /\ Opened = {} /\ raced = {}
    BY <1>1, SessionsAssumption
    DEF Init, LiveTokens, Live, NoRow, Rotating, Opened, NewCall
  <2> QED
    BY <2>1, FS_EmptySet DEF AccountInv, SessionsAccounted, RacedLate
<1>2. TypeOK /\ TypeOK' /\ AccountInv /\ [Next]_vars => AccountInv'
  BY AccountMoves, AccountKept, RacedStep DEF AccountInv
<1>3. AccountInv => SessionsAccounted
  BY DEF AccountInv
<1> QED
  BY <1>1, <1>2, <1>3, SessionsTypeCorrect, PTL DEF Spec

=============================================================================
