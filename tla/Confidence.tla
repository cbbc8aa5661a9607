------------------------------ MODULE Confidence ------------------------------
(***************************************************************************)
(* The confidence score of one goal (algorithm.ts) over the life of the    *)
(* goal and of its owner's other goals: when it is stored                  *)
(* (recomputeConfidence) and what it would be now.                         *)
(*                                                                         *)
(* Scores are integers in units of 0.0001, as toFixed(4) leaves them; the  *)
(* parts of the sum are fractions over common denominators, so nothing is  *)
(* rounded before the end.                                                 *)
(***************************************************************************)
EXTENDS Integers

CONSTANTS
    Lifetime,       \* ticks from the goal's creation to its deadline
    MaxTime,        \* bound on the clock
    MaxCount,       \* bound on comments and on reactions
    MaxGoals        \* bound on the owner's other goals that have ended

ConfidenceAssumption ==
    /\ Lifetime \in Nat \ {0} /\ MaxTime \in Nat
    /\ MaxCount \in Nat /\ MaxGoals \in Nat

VARIABLES
    now,                \* ticks since the goal was created
    comments, reactions, proof,
    achieved, failed,   \* the owner's goals that have ended
    score,              \* the column confidenceScore
    rate                \* history: the success rate it was computed from

activity == <<comments, reactions, proof>>
goals == <<achieved, failed>>
stored == <<score, rate>>
vars == <<now, activity, goals, stored>>

-----------------------------------------------------------------------------
\* The largest score, 1, in its units.
One == 10000

\* getSuccessRate, in percent.  Both queries count users, joined with their
\* goals: TypeORM's getCount counts distinct rows of the main entity, so each
\* is 1 or 0.
UsersWith(n) == IF n > 0 THEN 1 ELSE 0

SuccessRate(a, f) ==
    LET ended == UsersWith(a + f)
    IN  IF ended = 0 THEN 0 ELSE (100 * UsersWith(a)) \div ended

AtMost(max, n) == IF n > max THEN max ELSE n

\* normalizeActivityScore, in percent.
Activity(c, r, p) == AtMost(100, 5 * c + 3 * r + IF p THEN 30 ELSE 2)

\* A slip: time that has passed counts instead of time that is left.
Elapsed(t) == IF t >= Lifetime THEN Lifetime ELSE t

\* calculateTimeFactor, in units of Lifetime.
TimeLeft(t) == IF t >= Lifetime THEN 0 ELSE Lifetime - t

\* calculateGoalConfidence: 0.5, 0.3 and 0.2 of its parts, to four digits.
Score(percent, act, left) ==
    LET sum == 50 * percent * Lifetime + 30 * act * Lifetime + 2000 * left
    IN  (2 * sum + Lifetime) \div (2 * Lifetime)

Fresh(c, r, p, t) ==
    Score(SuccessRate(achieved, failed), Activity(c, r, p), TimeLeft(t))

\* Types; nothing but an integer of four digits is ever stored.
TypeOK ==
    /\ now \in 0..MaxTime
    /\ comments \in 0..MaxCount /\ reactions \in 0..MaxCount
    /\ proof \in BOOLEAN
    /\ achieved \in Nat /\ failed \in Nat /\ achieved + failed <= MaxGoals
    /\ score \in Nat /\ score <= One
    /\ rate \in Nat /\ rate <= 100

\* create scores with activity 0.
Init ==
    /\ now = 0 /\ comments = 0 /\ reactions = 0 /\ proof = FALSE
    /\ achieved \in 0..MaxGoals /\ failed \in 0..(MaxGoals - achieved)
    /\ rate = SuccessRate(achieved, failed)
    /\ score = Score(rate, 0, TimeLeft(0))

-----------------------------------------------------------------------------
\* A comment, a reaction or its removal, or the proof, and the
\* recomputeConfidence in the same request.
Becomes(c, r, p) ==
    /\ comments' = c /\ reactions' = r /\ proof' = p
    /\ rate' = SuccessRate(achieved, failed)
    /\ score' = Fresh(c, r, p, now)
    /\ UNCHANGED <<now, goals>>

Comment == comments < MaxCount /\ Becomes(comments + 1, reactions, proof)
React == reactions < MaxCount /\ Becomes(comments, reactions + 1, proof)
Unreact == reactions > 0 /\ Becomes(comments, reactions - 1, proof)
Prove == ~proof /\ now < Lifetime /\ Becomes(comments, reactions, TRUE)

\* Another goal of the owner ends; this goal's score is left alone.
OtherGoalEnds ==
    /\ achieved + failed < MaxGoals
    /\ \/ achieved' = achieved + 1 /\ failed' = failed
       \/ failed' = failed + 1 /\ achieved' = achieved
    /\ UNCHANGED <<now, activity, stored>>

Tick ==
    /\ now < MaxTime
    /\ now' = now + 1
    /\ UNCHANGED <<activity, goals, stored>>

Next == Comment \/ React \/ Unreact \/ Prove \/ OtherGoalEnds \/ Tick

Spec == Init /\ [][Next]_vars

-----------------------------------------------------------------------------
\* Between two requests the stored score only ages: it is what would be
\* computed now, or above it by no more than the fifth that time is worth (and
\* a freshly created goal's below by the activity nobody had yet), as long as
\* the owner's success rate is what it was.
StoredOnlyAges ==
    rate = SuccessRate(achieved, failed) =>
      LET fresh == Fresh(comments, reactions, proof, now) IN
      /\ score <= fresh + One \div 5
      /\ score >= fresh - 30 * Activity(0, 0, FALSE)

\* What src/README.md:56 multiplies by 0.5 is a rate of success, the share of the
\* owner's ended goals that were achieved.
RateIsShare ==
    achieved + failed > 0 =>
      SuccessRate(achieved, failed) * (achieved + failed) = 100 * achieved

=============================================================================
