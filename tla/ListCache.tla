------------------------------ MODULE ListCache ------------------------------
(***************************************************************************)
(* A cached list of goals (cache.ts, and its callers in                    *)
(* manifestation.service.ts): a key of Redis shared by all processes, and  *)
(* the map each process keeps beside it and reads when Redis does not      *)
(* answer.  The list is told apart only by the version of the database it  *)
(* was read from.  Key "trending" is deleted by every request that changes *)
(* a goal, after its change; key "list" (a search) only expires.           *)
(*                                                                         *)
(* Time is what is left of an entry and how long a version has been        *)
(* superseded, in ticks of the lifetime.                                   *)
(***************************************************************************)
EXTENDS RedisClient, Integers

CONSTANTS
    Key,            \* "trending" or "list"
    Fills,          \* calls of trending or list in flight
    Writers,        \* requests and jobs that change a goal
    NoProc,         \* "the call is not in flight"
    Ttl,            \* lifetime of an entry (60 s in the code)
    FillTime,       \* bound: ticks from a fill's query to its last step
    MaxVersion,     \* bound on the changes
    MaxMishaps      \* bound on lost connections, crashes and errors

CacheAssumption ==
    /\ Key \in {"trending", "list"}
    /\ NoProc \notin Procs
    /\ Ttl \in Nat \ {0} /\ FillTime \in Nat
    /\ MaxVersion \in Nat /\ MaxMishaps \in Nat

VARIABLES
    version,    \* the database's version
    gone,       \* per version: ticks since it was superseded
    cache,      \* the entry in Redis
    memory,     \* per process: the entry in memoryCache
    fill,       \* per call: where it is, its process and the list it read
    writer,     \* per change: where its deletion is
    missed,     \* history: a deletion was lost since the entry was stored
    mishaps

vars == <<link, version, gone, cache, memory, fill, writer, missed, mishaps>>

Versions == 0..MaxVersion
Entries == [version : Versions, left : 0..Ttl, late : BOOLEAN]
FillRows == [pc : {"idle", "read", "keep", "store"}, proc : Procs \cup {NoProc},
             version : Versions, age : 0..FillTime]
WriterRows == [pc : {"idle", "forget", "delete"}, proc : Procs \cup {NoProc}]

\* Types; a call or change in flight belongs to a process; nothing that is
\* cached or about to be comes from a version still to come.
TypeOK ==
    /\ LinkTypeOK
    /\ version \in Versions
    /\ gone \in [Versions -> Nat]
    /\ cache \in Entries
    /\ memory \in [Procs -> Entries]
    /\ fill \in [Fills -> FillRows]
    /\ writer \in [Writers -> WriterRows]
    /\ missed \in BOOLEAN /\ mishaps \in Nat
    /\ \A f \in Fills : fill[f].pc # "idle" => fill[f].proc # NoProc
    /\ \A w \in Writers : writer[w].pc # "idle" => writer[w].proc # NoProc
    /\ cache.version <= version
    /\ \A p \in Procs : memory[p].version <= version
    /\ \A f \in Fills : fill[f].version <= version

NoEntry == [version |-> 0, left |-> 0, late |-> FALSE]
IdleFill == [pc |-> "idle", proc |-> NoProc, version |-> 0, age |-> 0]
IdleWriter == [pc |-> "idle", proc |-> NoProc]

Init ==
    /\ LinkInit
    /\ version = 0 /\ gone = [v \in Versions |-> 0]
    /\ cache = NoEntry /\ memory = [p \in Procs |-> NoEntry]
    /\ fill = [f \in Fills |-> IdleFill]
    /\ writer = [w \in Writers |-> IdleWriter]
    /\ missed = FALSE /\ mishaps = 0

Mishap == mishaps < MaxMishaps /\ mishaps' = mishaps + 1

-----------------------------------------------------------------------------
\* What cacheGetJson finds: Redis if it answers, else the process's own map.
Found(p) == IF Answers(p) THEN cache ELSE memory[p]

\* The entry is there: it is the response.
Hit(f, p) ==
    /\ fill[f].pc = "idle"
    /\ Found(p).left > 0
    /\ UNCHANGED vars

Miss(f, p) ==
    /\ fill[f].pc = "idle"
    /\ Found(p).left = 0
    /\ fill' = [fill EXCEPT ![f] = [IdleFill EXCEPT !.pc = "read", !.proc = p]]
    /\ UNCHANGED <<link, version, gone, cache, memory, writer, missed, mishaps>>

\* getTrending, or list of the repository.
Query(f) ==
    /\ fill[f].pc = "read"
    /\ fill' = [fill EXCEPT ![f] = [@ EXCEPT !.pc = "keep",
                                             !.version = version, !.age = 0]]
    /\ UNCHANGED <<link, version, gone, cache, memory, writer, missed, mishaps>>

Stored(v) == [version |-> v, left |-> Ttl, late |-> v < version]

\* cacheSetJson: first the map of the process,
Keep(f) ==
    /\ fill[f].pc = "keep"
    /\ memory' = [memory EXCEPT ![fill[f].proc] = Stored(fill[f].version)]
    /\ fill' = [fill EXCEPT ![f].pc = "store"]
    /\ UNCHANGED <<link, version, gone, cache, writer, missed, mishaps>>

\* then SET key ... EX ttl, whose error is swallowed.
Store(f) ==
    /\ fill[f].pc = "store"
    /\ IF Answers(fill[f].proc)
       THEN cache' = Stored(fill[f].version) /\ missed' = FALSE
       ELSE UNCHANGED <<cache, missed>>
    /\ fill' = [fill EXCEPT ![f] = IdleFill]
    /\ UNCHANGED <<link, version, gone, memory, writer, mishaps>>

-----------------------------------------------------------------------------
\* A slip: the change does not go on to delete the key.
NothingToDelete == "idle"

AfterChange == IF Key = "trending" THEN "forget" ELSE "idle"

\* create, recomputeConfidence or finalizeByDeadline saves a goal.
Change(w, p) ==
    /\ writer[w].pc = "idle"
    /\ version < MaxVersion
    /\ version' = version + 1
    /\ writer' = [writer EXCEPT ![w] = [pc |-> AfterChange, proc |-> p]]
    /\ UNCHANGED <<link, gone, cache, memory, fill, missed, mishaps>>

\* cacheDelete: the map of this process, and of no other,
Forget(w) ==
    /\ writer[w].pc = "forget"
    /\ memory' = [memory EXCEPT ![writer[w].proc] = NoEntry]
    /\ writer' = [writer EXCEPT ![w].pc = "delete"]
    /\ UNCHANGED <<link, version, gone, cache, fill, missed, mishaps>>

\* then DEL, whose error is swallowed.
Delete(w) ==
    /\ writer[w].pc = "delete"
    /\ IF Answers(writer[w].proc)
       THEN cache' = NoEntry /\ missed' = FALSE
       ELSE cache' = cache /\ missed' = TRUE
    /\ writer' = [writer EXCEPT ![w] = IdleWriter]
    /\ UNCHANGED <<link, version, gone, memory, fill, mishaps>>

\* Something between the save and the deletion throws: scheduling the jobs,
\* updating the streak, notifying.
SkipDelete(w) ==
    /\ writer[w].pc = "forget"
    /\ Mishap
    /\ writer' = [writer EXCEPT ![w] = IdleWriter]
    /\ missed' = TRUE
    /\ UNCHANGED <<link, version, gone, cache, memory, fill>>

-----------------------------------------------------------------------------
Disconnect(p) ==
    /\ Mishap
    /\ LoseLink(p)
    /\ UNCHANGED <<version, gone, cache, memory, fill, writer, missed>>

Crash(p) ==
    /\ Mishap
    /\ Reboot(p)
    /\ memory' = [memory EXCEPT ![p] = NoEntry]
    /\ fill' = [f \in Fills |-> IF fill[f].proc = p THEN IdleFill ELSE fill[f]]
    /\ writer' = [w \in Writers |->
                    IF writer[w].proc = p THEN IdleWriter ELSE writer[w]]
    /\ missed' = (missed \/ \E w \in Writers : /\ writer[w].proc = p
                                               /\ writer[w].pc # "idle")
    /\ UNCHANGED <<version, gone, cache>>

\* A slip: the entry has no lifetime.
Eternal(e) == e

\* A slip: an entry in its last tick is kept at that.
LastTickStays(e) == IF e.left > 1 THEN [e EXCEPT !.left = @ - 1] ELSE e

Aged(e) == IF e.left > 1 THEN [e EXCEPT !.left = @ - 1] ELSE NoEntry

\* Older than any entry can get: the count stops there.
VeryOld == Ttl + FillTime + 1

Tick ==
    /\ \A f \in Fills : fill[f].pc \in {"keep", "store"} => fill[f].age < FillTime
    /\ gone' = [v \in Versions |->
                  IF v < version /\ gone[v] < VeryOld THEN gone[v] + 1
                  ELSE gone[v]]
    /\ cache' = Aged(cache)
    /\ memory' = [p \in Procs |-> Aged(memory[p])]
    /\ fill' = [f \in Fills |-> IF fill[f].pc \in {"keep", "store"}
                                THEN [fill[f] EXCEPT !.age = @ + 1] ELSE fill[f]]
    /\ UNCHANGED <<link, version, writer, missed, mishaps>>

FillStep(f) == Query(f) \/ Keep(f) \/ Store(f)
WriterStep(w) == Forget(w) \/ Delete(w)

Next ==
    \/ \E f \in Fills : FillStep(f) \/ \E p \in Procs : Hit(f, p) \/ Miss(f, p)
    \/ \E w \in Writers :
         WriterStep(w) \/ SkipDelete(w) \/ \E p \in Procs : Change(w, p)
    \/ \E p \in Procs : Disconnect(p) \/ Crash(p)
    \/ Tick

Spec == Init /\ [][Next]_vars

\* Time passes, calls and changes under way go on.  Nobody has to ask for the
\* list or change a goal, nothing has to fail.
Fairness ==
    /\ WF_vars(Tick)
    /\ \A f \in Fills : WF_vars(FillStep(f))
    /\ \A w \in Writers : WF_vars(WriterStep(w))

FairSpec == Spec /\ Fairness

-----------------------------------------------------------------------------
\* Why answers are recent: an entry that has t left is of a version that was
\* current when it was read, at most FillTime before it was stored.
EntryIsRecent(e) == e.left > 0 => gone[e.version] + e.left <= Ttl + FillTime

\* What a call may be given, from Redis or from the map of a process that
\* lost Redis, was the database's list less than a lifetime and a fill ago,
\* though deletions may be raced, lost or made in another process only.
AnswersAreRecent ==
    /\ EntryIsRecent(cache)
    /\ \A p \in Procs : EntryIsRecent(memory[p])
    /\ \A f \in Fills : fill[f].pc \in {"keep", "store"} =>
         gone[fill[f].version] <= fill[f].age

\* Redis holds a superseded list only if its fill read it before the change
\* and stored it after, if the deletion is still to come, or if it was lost.
StaleHasReason ==
    cache.left > 0 /\ cache.version < version =>
      \/ cache.late \/ missed
      \/ \E w \in Writers : writer[w].pc # "idle"

\* Once nothing changes any more, what callers are given is the database's
\* list before long, whatever was raced or lost.
Current(e) == e.left > 0 => e.version = version
Converges == <>[](Current(cache) /\ \A p \in Procs : Current(memory[p]))

=============================================================================
