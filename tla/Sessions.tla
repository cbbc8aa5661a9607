------------------------------ MODULE Sessions ------------------------------
(***************************************************************************)
(* The sessions of one user: registration, login, refresh, logout, the     *)
(* forgotten password and its reset (auth.service.ts), over the user's row *)
(* and the table "refresh_tokens"; and updateStreak of the worker, which   *)
(* saves the whole user row.  Calls run in several processes and share     *)
(* only the database: each query is a step of its own.                     *)
(*                                                                         *)
(* A refresh token is a JWT over the user, the role and the second it was  *)
(* signed in, so the tokens of one user are named by that second: two      *)
(* tokens signed in the same second are the same string.                   *)
(***************************************************************************)
EXTENDS Integers, FiniteSets

CONSTANTS
    Registers, Logins, Refreshes, Logouts,  \* HTTP calls, each used at most
    Forgots, Resets,                        \*   once
    Streaks,        \* calls of updateStreak for this user
    NoPassword,     \* "the user is not registered"
    NoReset,        \* "no reset is asked for"
    MaxTime,        \* bound on the clock, in seconds
    Lifetime,       \* seconds a refresh token is valid
    ResetLifetime   \* seconds a reset token is valid

Openers == Registers \cup Logins
Calls == Openers \cup Refreshes \cup Logouts \cup Resets

ASSUME SessionsAssumption ==
    /\ MaxTime \in Nat /\ Lifetime \in Nat \ {0} /\ ResetLifetime \in Nat \ {0}
    /\ NoPassword \notin Registers \cup Resets
    /\ NoReset \notin Forgots
    /\ Openers \cap (Refreshes \cup Logouts \cup Resets) = {}
    /\ Refreshes \cap (Logouts \cup Resets) = {} /\ Logouts \cap Resets = {}
    /\ IsFiniteSet(Calls)

VARIABLES
    now,
    user,       \* the user's row: password and reset token with its expiry
    row,        \* per token: its row of refresh_tokens
    call,       \* per call: where it is and what it holds
    saving,     \* per updateStreak: where it is and the entity it holds
    asked,      \* the calls of forgotPassword that stored their token
    latest,     \* history: the password chosen last
    spent,      \* history: reset tokens replaced, or used for a new password
    changed,    \* history: resets that changed the password
    ended,      \* history: those of them that also ended the sessions
    raced       \* history: refreshes that revoked a token revoked before

vars == <<now, user, row, call, saving, asked, latest, spent, changed,
          ended, raced>>
history == <<latest, spent, changed, ended, raced>>

\* A password is named by the call that chose it.
Passwords == {NoPassword} \cup Registers \cup Resets
Tokens == 0..MaxTime
NoToken == -1
ResetTokens == [by : Forgots \cup {NoReset}, ends : Nat]
Users == [password : Passwords, reset : ResetTokens]
Rows == [state : {"none", "live", "revoked"}, password : Passwords,
         late : BOOLEAN]
CallPcs == {"idle", "create", "sign", "store", "revoke", "change",
            "revokeAll", "done"}
CallRows == [pc : CallPcs, old : Tokens \cup {NoToken},
             new : Tokens \cup {NoToken}, password : Passwords, late : BOOLEAN,
             link : Forgots \cup {NoReset}]
Columns == {"password", "reset"}
SavingRows == [pc : {"idle", "compare", "write", "done"}, entity : Users,
               dirty : SUBSET Columns]

\* Types; a call that is to store a session holds its token and a password.
TypeOK ==
    /\ now \in 0..MaxTime
    /\ user \in Users
    /\ row \in [Tokens -> Rows]
    /\ call \in [Calls -> CallRows]
    /\ saving \in [Streaks -> SavingRows]
    /\ asked \subseteq Forgots
    /\ latest \in Passwords /\ spent \subseteq Forgots \cup {NoReset}
    /\ changed \subseteq Resets /\ ended \subseteq Resets
    /\ raced \subseteq Refreshes
    /\ \A c \in Calls :
         /\ call[c].pc = "store" => call[c].new \in Tokens
         /\ call[c].pc = "revoke" => call[c].old \in Tokens

NothingAsked == [by |-> NoReset, ends |-> 0]
NoRow == [state |-> "none", password |-> NoPassword, late |-> FALSE]
NewCall == [pc |-> "idle", old |-> NoToken, new |-> NoToken,
            password |-> NoPassword, late |-> FALSE, link |-> NoReset]
NoUser == [password |-> NoPassword, reset |-> NothingAsked]

Init ==
    /\ now = 0
    /\ user = NoUser
    /\ row = [t \in Tokens |-> NoRow]
    /\ call = [c \in Calls |-> NewCall]
    /\ saving = [s \in Streaks |->
                   [pc |-> "idle", entity |-> NoUser, dirty |-> {}]]
    /\ asked = {} /\ latest = NoPassword /\ spent = {}
    /\ changed = {} /\ ended = {} /\ raced = {}

Live(t) == row[t].state = "live"
Usable(t) == now < t + Lifetime
Go(c, p) == call' = [call EXCEPT ![c].pc = p]

-----------------------------------------------------------------------------
\* register: the e-mail and the user name are free ...
StartRegister(c) ==
    /\ call[c].pc = "idle"
    /\ user.password = NoPassword
    /\ Go(c, "create")
    /\ UNCHANGED <<now, user, row, saving, asked, history>>

\* ... and still are when the row is inserted, or their unique indexes refuse.
CreateUser(c) ==
    /\ call[c].pc = "create"
    /\ IF user.password = NoPassword
       THEN /\ user' = [user EXCEPT !.password = c] /\ latest' = c
            /\ call' = [call EXCEPT ![c] = [@ EXCEPT !.pc = "sign", !.password = c]]
       ELSE UNCHANGED <<user, latest>> /\ Go(c, "done")
    /\ UNCHANGED <<now, row, saving, asked, spent, changed, ended, raced>>

\* login with the password of the row just read; others are refused.
StartLogin(c) ==
    /\ call[c].pc = "idle"
    /\ user.password # NoPassword
    /\ call' = [call EXCEPT ![c] =
                  [@ EXCEPT !.pc = "sign", !.password = user.password]]
    /\ UNCHANGED <<now, user, row, saving, asked, history>>

\* After bcrypt, or the revocation: the token gets the present second.
Sign(c) ==
    /\ call[c].pc = "sign"
    /\ call' = [call EXCEPT ![c] = [@ EXCEPT !.pc = "store", !.new = now]]
    /\ UNCHANGED <<now, user, row, saving, asked, history>>

\* A slip: the token column is not unique and save updates the row it finds.
StoresAnyway(t) == TRUE

TokenIsNew(t) == row[t].state = "none"

\* createToken: the insert fails if this very token exists already.
Store(c) ==
    /\ call[c].pc = "store"
    /\ row' = IF TokenIsNew(call[c].new)
              THEN [row EXCEPT ![call[c].new] =
                      [state |-> "live", password |-> call[c].password,
                       late |-> call[c].late]]
              ELSE row
    /\ Go(c, "done")
    /\ UNCHANGED <<now, user, saving, asked, history>>

-----------------------------------------------------------------------------
Refreshable(t) == Live(t) /\ Usable(t)

\* refresh: the JWT is valid, its row exists and is neither revoked nor expired.
StartRefresh(c, t) ==
    /\ call[c].pc = "idle"
    /\ Refreshable(t)
    /\ call' = [call EXCEPT ![c] =
                  [@ EXCEPT !.pc = "revoke", !.old = t,
                            !.password = row[t].password, !.late = row[t].late]]
    /\ UNCHANGED <<now, user, row, saving, asked, history>>

\* A slip: the update is built but never executed.
RevokeNothing(t) == UNCHANGED row

Revoke(t) == row' = [row EXCEPT ![t].state = "revoked"]

\* revokeToken by id, whether or not another call revoked it meanwhile.
RefreshRevoke(c) ==
    /\ call[c].pc = "revoke"
    /\ Revoke(call[c].old)
    /\ raced' = IF Live(call[c].old) THEN raced ELSE raced \cup {c}
    /\ Go(c, "sign")
    /\ UNCHANGED <<now, user, saving, asked, latest, spent, changed,
                   ended>>

StartLogout(c, t) ==
    /\ call[c].pc = "idle"
    /\ row[t].state # "none"
    /\ call' = [call EXCEPT ![c] = [@ EXCEPT !.pc = "revoke", !.old = t]]
    /\ UNCHANGED <<now, user, row, saving, asked, history>>

LogoutRevoke(c) ==
    /\ call[c].pc = "revoke"
    /\ Revoke(call[c].old)
    /\ Go(c, "done")
    /\ UNCHANGED <<now, user, saving, asked, history>>

-----------------------------------------------------------------------------
\* forgotPassword: the hash of a fresh token replaces an older one.
ForgotPassword(f) ==
    /\ f \notin asked
    /\ user.password # NoPassword
    /\ user' = [user EXCEPT !.reset = [by |-> f, ends |-> now + ResetLifetime]]
    /\ asked' = asked \cup {f}
    /\ spent' = spent \cup ({user.reset.by} \ {NoReset})
    /\ UNCHANGED <<now, row, call, saving, latest, changed, ended, raced>>

\* resetPassword: findByResetTokenHash, then bcrypt.
StartReset(c) ==
    /\ call[c].pc = "idle"
    /\ user.reset.by # NoReset
    /\ user.reset.ends > now
    /\ call' = [call EXCEPT ![c] = [@ EXCEPT !.pc = "change", !.link = user.reset.by]]
    /\ UNCHANGED <<now, user, row, saving, asked, history>>

\* A slip: the reset token is not cleared.
ChangeKeepsToken(c) == user' = [user EXCEPT !.password = c]

ChangePassword(c) == user' = [password |-> c, reset |-> NothingAsked]

UpdatePassword(c) ==
    /\ call[c].pc = "change"
    /\ ChangePassword(c)
    /\ latest' = c /\ changed' = changed \cup {c}
    /\ spent' = spent \cup {call[c].link}
    /\ Go(c, "revokeAll")
    /\ UNCHANGED <<now, row, saving, asked, ended, raced>>

\* Calls between their reading of the database and their new session.
Opening(c) == call[c].pc \in {"revoke", "sign", "store"} /\ c \notin Logouts

RevokeLive(r) == IF r.state = "live" THEN [r EXCEPT !.state = "revoked"] ELSE r

\* A slip: only the sessions that are about to expire are ended.
RevokeSome(c) == [t \in Tokens |-> IF t < now THEN RevokeLive(row[t]) ELSE row[t]]

RevokedRows(c) == [t \in Tokens |-> RevokeLive(row[t])]

\* revokeAllForUser, the last query of resetPassword.
RevokeAll(c) ==
    /\ call[c].pc = "revokeAll"
    /\ row' = RevokedRows(c)
    /\ ended' = ended \cup {c}
    /\ call' = [d \in Calls |->
                  IF d = c THEN [call[d] EXCEPT !.pc = "done"]
                  ELSE IF Opening(d) THEN [call[d] EXCEPT !.late = TRUE]
                  ELSE call[d]]
    /\ UNCHANGED <<now, user, saving, asked, latest, spent, changed, raced>>

\* A query throws or the process dies: nothing already written is undone.
Abandon(c) ==
    /\ call[c].pc \notin {"idle", "done"}
    /\ Go(c, "done")
    /\ UNCHANGED <<now, user, row, saving, asked, history>>

-----------------------------------------------------------------------------
\* updateStreak: findById ...
StreakRead(s) ==
    /\ saving[s].pc = "idle"
    /\ user.password # NoPassword
    /\ saving' = [saving EXCEPT ![s] = [@ EXCEPT !.pc = "compare", !.entity = user]]
    /\ UNCHANGED <<now, user, row, call, asked, history>>

\* ... and save, which compares the entity with the row as it is now ...
StreakCompare(s) ==
    /\ saving[s].pc = "compare"
    /\ saving' = [saving EXCEPT ![s] =
         [@ EXCEPT !.pc = "write",
                   !.dirty = {k \in Columns : user[k] # saving[s].entity[k]}]]
    /\ UNCHANGED <<now, user, row, call, asked, history>>

\* A slip: the columns are written whether or not they differ.
WriteAll(s) == saving[s].entity

\* A slip: the columns that do not differ are lost.
WriteOnlyDirty(s) == [k \in saving[s].dirty |-> saving[s].entity[k]]

WriteDirty(s) == [k \in Columns |-> IF k \in saving[s].dirty
                                    THEN saving[s].entity[k] ELSE user[k]]

\* ... and writes the columns that differ, besides those of the streak.
StreakWrite(s) ==
    /\ saving[s].pc = "write"
    /\ user' = WriteDirty(s)
    /\ saving' = [saving EXCEPT ![s].pc = "done"]
    /\ UNCHANGED <<now, row, call, asked, history>>

Tick ==
    /\ now < MaxTime
    /\ now' = now + 1
    /\ UNCHANGED <<user, row, call, saving, asked, history>>

Next ==
    \/ Tick
    \/ \E c \in Registers : StartRegister(c) \/ CreateUser(c)
    \/ \E c \in Logins : StartLogin(c)
    \/ \E c \in Refreshes : RefreshRevoke(c) \/ \E t \in Tokens : StartRefresh(c, t)
    \/ \E c \in Logouts : LogoutRevoke(c) \/ \E t \in Tokens : StartLogout(c, t)
    \/ \E c \in Openers \cup Refreshes : Sign(c) \/ Store(c)
    \/ \E f \in Forgots : ForgotPassword(f)
    \/ \E c \in Resets : StartReset(c) \/ UpdatePassword(c) \/ RevokeAll(c)
    \/ \E c \in Calls : Abandon(c)
    \/ \E s \in Streaks : StreakRead(s) \/ StreakCompare(s) \/ StreakWrite(s)

Spec == Init /\ [][Next]_vars

-----------------------------------------------------------------------------
\* A session that was ended, by logout, rotation or reset, never comes back:
\* not by a late insert either, though a token signed in the same second is
\* the same string.
RevokedForGood ==
    [][\A t \in Tokens : row[t].state = "revoked" => row'[t].state = "revoked"]_vars

LiveTokens == {t \in Tokens : Live(t)}
\* Refreshes that gave up a session and have not stored the next one.
Rotating == {c \in Refreshes : call[c].pc \in {"sign", "store"}}
\* Registrations and logins that got as far as a session.
Opened == {c \in Openers : call[c].pc = "done" /\ call[c].new # NoToken}

\* Sessions do not multiply: beyond one for each registration and login there
\* is at most one for each refresh that lost a race for its token.
SessionsAccounted ==
    Cardinality(LiveTokens) + Cardinality(Rotating)
      <= Cardinality(Opened) + Cardinality(raced)

\* updateStreak saves the whole row: it has put back a column that another
\* call wrote after it read the row.
PutBack(k) == \E s \in Streaks : saving[s].pc = "done" /\ k \in saving[s].dirty

\* A password, once chosen, is lost to no other call than a save of the streak
\* that read the row before and compared it after: updateStreak of the worker
\* races resetPassword of the API.
PasswordKept == user.password = latest \/ PutBack("password")

\* A session that rests on password p may be: its password is the latest, or it
\* belongs to a call that was under way when sessions were ended, or a reset
\* stopped between changing the password and ending the sessions, or the old
\* password was put back.
Excused(p, late) ==
    p = latest \/ late \/ changed # ended \/ PutBack("password")

\* After a reset no session opened with an older password is alive, except for
\* those three reasons.
ResetEndsSessions ==
    \A t \in Tokens : Live(t) => Excused(row[t].password, row[t].late)

\* Why: the same holds of the session a call is about to store, and a reset that
\* has not yet changed the password, or not yet ended the sessions, is not
\* counted as having done so.
ResetInv ==
    /\ ResetEndsSessions
    /\ \A t \in Tokens : Live(t) => row[t].password # NoPassword
    /\ \A c \in Calls : Opening(c) =>
         /\ call[c].password # NoPassword
         /\ Excused(call[c].password, call[c].late)
    /\ \A c \in Resets :
         call[c].pc \in {"idle", "change", "revokeAll"} => c \notin ended

\* A reset token that was replaced by a newer one or has changed the password is
\* spent: no call finds it any more, unless a save of the streak put it back.
ResetTokenSpent == user.reset.by \notin spent \/ PutBack("reset")

\* Why: tokens come from calls of forgotPassword, each of which makes a new one.
LinksInv ==
    /\ ResetTokenSpent
    /\ spent \subseteq asked
    /\ user.reset.by \in asked \cup {NoReset}
    /\ \A s \in Streaks : saving[s].entity.reset.by \in asked \cup {NoReset}
    /\ \A c \in Resets : call[c].pc = "change" => call[c].link \in asked

=============================================================================
