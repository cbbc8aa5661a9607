------------------------------ MODULE Engagement ------------------------------
(***************************************************************************)
(* The comments and reactions of one goal and the confidence score that    *)
(* each of them has recomputed: comment.service.ts, reaction.service.ts    *)
(* and recomputeConfidence of manifestation.service.ts.                    *)
(*                                                                         *)
(* The score is told apart by the numbers it was computed from: those of   *)
(* comments (soft-deleted ones count, too) and reactions.  How a reaction  *)
(* is looked for and found unique is SocialLinks' subject, the             *)
(* notification that ends a call that of Notifications; neither bears on   *)
(* what follows.                                                           *)
(***************************************************************************)
EXTENDS Naturals, FiniteSets

CONSTANTS
    Calls,      \* calls that may be made, each once
    NoParent,   \* "not a reply"
    Elsewhere,  \* a comment on another goal
    MaxErrors   \* bound on calls that an error ends

EngagementAssumption ==
    /\ NoParent \notin Calls /\ Elsewhere \notin Calls
    /\ NoParent # Elsewhere
    /\ MaxErrors \in Nat

VARIABLES
    comments,   \* rows, named by the call that inserted them
    parent,     \* per comment: its parentCommentId
    deleted,    \* comments with isDeleted
    reactions,  \* rows, named likewise
    score,      \* the numbers behind the goal's confidenceScore
    call,       \* per call: what it does, where it is, what it loaded
    overlapped, \* history: rows or score changed under a call's loaded entity
    errors

vars == <<comments, parent, deleted, reactions, score, call, overlapped,
          errors>>

Ends == {"ok", "refused", "failed"}
Pcs == {"idle", "check", "insert", "find", "remove", "mark",
        "read", "select", "write"} \cup Ends
Ops == {"comment", "react", "unreact", "softDelete"}
Parents == Calls \cup {NoParent, Elsewhere}
Loads == [comments : SUBSET Calls, reactions : SUBSET Calls]
CallRows == [pc : Pcs, op : Ops, target : Parents, loaded : Loads]

\* Threads are whole: following replies to their parents, whatever was deleted
\* or is being posted, never leaves the comments of this goal and never goes in
\* a circle, so it ends at a top-level comment.
ThreadsAreWhole ==
    /\ \A c \in comments : parent[c] \in comments \cup {NoParent}
    /\ \A S \in (SUBSET comments) \ {{}} : \E c \in S : parent[c] \notin S

\* Types; rows come from calls that make such rows, only comments are marked as
\* deleted, and threads are whole.
TypeOK ==
    /\ comments \subseteq Calls /\ reactions \subseteq Calls
    /\ parent \in [Calls -> Parents]
    /\ deleted \subseteq comments
    /\ score \in [comments : Nat, reactions : Nat]
    /\ call \in [Calls -> CallRows]
    /\ overlapped \in BOOLEAN /\ errors \in Nat
    /\ \A c \in comments : call[c].op = "comment"
    /\ \A c \in reactions : call[c].op = "react"
    /\ ThreadsAreWhole

Nothing == [comments |-> {}, reactions |-> {}]
Idle == [pc |-> "idle", op |-> "comment", target |-> NoParent,
         loaded |-> Nothing]

Init ==
    /\ comments = {} /\ reactions = {} /\ deleted = {}
    /\ parent = [c \in Calls |-> NoParent]
    /\ score = [comments |-> 0, reactions |-> 0]
    /\ call = [c \in Calls |-> Idle]
    /\ overlapped = FALSE /\ errors = 0

Goto(c, pc) == call' = [call EXCEPT ![c].pc = pc]

InFlight(c) == call[c].pc \notin {"idle"} \cup Ends
Holding(c) == call[c].pc \in {"select", "write"}

\* c changes what other calls have loaded or are about to compare.
Disturb(c) == overlapped' = (overlapped \/ \E d \in Calls \ {c} : Holding(d))

-----------------------------------------------------------------------------
FirstQuery(op, target) ==
    CASE op = "comment" /\ target # NoParent -> "check"
      [] op = "comment" /\ target = NoParent -> "insert"
      [] op = "react" -> "insert"
      [] op \in {"unreact", "softDelete"} -> "find"

\* A request, with the comment or reaction it names.
Start(c, op, target) ==
    /\ call[c].pc = "idle"
    /\ call' = [call EXCEPT ![c] = [pc |-> FirstQuery(op, target), op |-> op,
                                    target |-> target, loaded |-> Nothing]]
    /\ UNCHANGED <<comments, parent, deleted, reactions, score, overlapped,
                   errors>>

\* A slip: the parent has to exist, on whatever goal.
ExistsAnywhere(p) == p \in comments \cup {Elsewhere}

ParentIsValid(p) == p \in comments

CheckParent(c) ==
    /\ call[c].pc = "check"
    /\ Goto(c, IF ParentIsValid(call[c].target) THEN "insert" ELSE "refused")
    /\ UNCHANGED <<comments, parent, deleted, reactions, score, overlapped,
                   errors>>

InsertComment(c) ==
    /\ call[c].pc = "insert" /\ call[c].op = "comment"
    /\ comments' = comments \cup {c}
    /\ parent' = [parent EXCEPT ![c] = call[c].target]
    /\ Goto(c, "read")
    /\ Disturb(c)
    /\ UNCHANGED <<deleted, reactions, score, errors>>

InsertReaction(c) ==
    /\ call[c].pc = "insert" /\ call[c].op = "react"
    /\ reactions' = reactions \cup {c}
    /\ Goto(c, "read")
    /\ Disturb(c)
    /\ UNCHANGED <<comments, parent, deleted, score, errors>>

\* remove of a reaction, softDelete of a comment: find it,
Find(c) ==
    LET unreact == call[c].op = "unreact" IN
    /\ call[c].pc = "find"
    /\ Goto(c, CASE unreact /\ call[c].target \in reactions -> "remove"
                 [] unreact /\ call[c].target \notin reactions -> "ok"
                 [] ~unreact /\ call[c].target \in comments -> "mark"
                 [] ~unreact /\ call[c].target \notin comments -> "refused")
    /\ UNCHANGED <<comments, parent, deleted, reactions, score, overlapped,
                   errors>>

\* A slip: the score is not computed anew after a removal.
ForgetsScore == "ok"

AfterRemove == "read"

\* delete it by its id,
RemoveReaction(c) ==
    /\ call[c].pc = "remove"
    /\ reactions' = reactions \ {call[c].target}
    /\ Goto(c, AfterRemove)
    /\ Disturb(c)
    /\ UNCHANGED <<comments, parent, deleted, score, errors>>

\* or save it with isDeleted, which leaves the row and the score alone.
MarkDeleted(c) ==
    /\ call[c].pc = "mark"
    /\ deleted' = deleted \cup {call[c].target}
    /\ Goto(c, "ok")
    /\ UNCHANGED <<comments, parent, reactions, score, overlapped, errors>>

-----------------------------------------------------------------------------
Numbers(loaded) == [comments |-> Cardinality(loaded.comments),
                    reactions |-> Cardinality(loaded.reactions)]
Now == [comments |-> comments, reactions |-> reactions]

\* recomputeConfidence: findById with its relations, and the user's rate.
Read(c) ==
    /\ call[c].pc = "read"
    /\ call' = [call EXCEPT ![c].pc = "select", ![c].loaded = Now]
    /\ UNCHANGED <<comments, parent, deleted, reactions, score, overlapped,
                   errors>>

\* save would detach a stored comment or reaction the entity does not contain.
Detaches(c) ==
    \/ comments \ call[c].loaded.comments # {}
    \/ reactions \ call[c].loaded.reactions # {}

\* save: the SELECT,
Select(c) ==
    /\ call[c].pc = "select"
    /\ ~Detaches(c)
    /\ Goto(c, IF Numbers(call[c].loaded) = score THEN "ok" ELSE "write")
    /\ UNCHANGED <<comments, parent, deleted, reactions, score, overlapped,
                   errors>>

\* which throws when a row is to be detached (its manifestationId must not be
\* NULL),
SaveThrows(c) ==
    /\ call[c].pc = "select"
    /\ Detaches(c)
    /\ Goto(c, "failed")
    /\ UNCHANGED <<comments, parent, deleted, reactions, score, overlapped,
                   errors>>

\* and the UPDATE.
Write(c) ==
    /\ call[c].pc = "write"
    /\ score' = Numbers(call[c].loaded)
    /\ Goto(c, "ok")
    /\ Disturb(c)
    /\ UNCHANGED <<comments, parent, deleted, reactions, errors>>

\* A query throws or the process dies.
Fail(c) ==
    /\ InFlight(c)
    /\ errors < MaxErrors
    /\ errors' = errors + 1
    /\ Goto(c, "failed")
    /\ UNCHANGED <<comments, parent, deleted, reactions, score, overlapped>>

Next ==
    \E c \in Calls :
      \/ \E p \in Parents : Start(c, "comment", p)
      \/ Start(c, "react", NoParent)
      \/ \E t \in Calls : Start(c, "unreact", t) \/ Start(c, "softDelete", t)
      \/ CheckParent(c) \/ InsertComment(c) \/ InsertReaction(c)
      \/ Find(c) \/ RemoveReaction(c) \/ MarkDeleted(c)
      \/ Read(c) \/ Select(c) \/ SaveThrows(c) \/ Write(c)
      \/ Fail(c)

Spec == Init /\ [][Next]_vars

-----------------------------------------------------------------------------
\* Once nobody is about to compute it, the score is that of the goal's comments
\* and reactions, unless an error ended a call or rows or score changed
\* between some call's query and its save.
Scoring(c) == call[c].pc \in {"read", "select", "write"}
ScoreIsCurrent ==
    \/ overlapped \/ errors > 0
    \/ \E c \in Calls : Scoring(c)
    \/ score = Numbers(Now)

=============================================================================
