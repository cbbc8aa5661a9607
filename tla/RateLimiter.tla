----------------------------- MODULE RateLimiter -----------------------------
(***************************************************************************)
(* createRateLimiter (rate-limiter.middleware.ts) for one route and one    *)
(* user: a key of Redis that all processes increment, and the map each     *)
(* process falls back to.  INCR, EXPIRE and TTL are commands of their own, *)
(* so requests interleave between them and the connection may be lost, or  *)
(* the process may die, after any of them.                                 *)
(*                                                                         *)
(* Time is what is left of each expiry, in ticks of the window: the user   *)
(* may go on for ever sending requests, of which at most Requests are      *)
(* recent at a time.                                                       *)
(***************************************************************************)
EXTENDS RedisClient, Integers, FiniteSets

CONSTANTS
    Requests,       \* requests that are recent or in flight
    NoProc,         \* "the request did not arrive yet"
    MaxRequests,    \* requests the route admits in a window
    WindowSeconds,  \* length of the window
    MaxCount,       \* bound on the counter: it stays there, above the limit
    MaxMishaps      \* bound on lost connections and crashes

LimiterAssumption ==
    /\ NoProc \notin Procs /\ "redis" \notin Procs
    /\ MaxRequests \in Nat \ {0} /\ WindowSeconds \in Nat \ {0}
    /\ MaxCount \in Nat /\ MaxCount > MaxRequests
    /\ MaxMishaps \in Nat

VARIABLES
    counter,    \* the key "rate-limit:<route>:<user>", 0 while there is none
    ttl,        \* what is left of its expiry, Never if it has none
    memory,     \* per process: its record in memoryRateStore
    req,        \* per request: where it is, its number and who counted it
    mishaps     \* lost connections and crashes so far

vars == <<link, counter, ttl, memory, req, mishaps>>

Never == -1
Pcs == {"idle", "expire", "ttl", "admitted", "refused"}
Records == [count : Nat, left : 0..WindowSeconds]
RequestRows == [pc : Pcs, proc : Procs \cup {NoProc}, number : Nat,
                by : {"none", "redis", "memory"}, fresh : BOOLEAN,
                age : 0..WindowSeconds]

\* Types; a request that arrived belongs to a process and has a counter.
TypeOK ==
    /\ LinkTypeOK
    /\ counter \in Nat
    /\ ttl \in {Never} \cup 1..WindowSeconds
    /\ memory \in [Procs -> Records]
    /\ req \in [Requests -> RequestRows]
    /\ \A r \in Requests : req[r].pc # "idle" =>
         req[r].proc # NoProc /\ req[r].by # "none"
    /\ mishaps \in Nat

NoRecord == [count |-> 0, left |-> 0]
Idle == [pc |-> "idle", proc |-> NoProc, number |-> 0, by |-> "none",
         fresh |-> FALSE, age |-> 0]

Init ==
    /\ LinkInit
    /\ counter = 0 /\ ttl = Never
    /\ memory = [p \in Procs |-> NoRecord]
    /\ req = [r \in Requests |-> Idle]
    /\ mishaps = 0

InFlight(r) == req[r].pc \in {"expire", "ttl"}

-----------------------------------------------------------------------------
\* A slip: one request too many passes.
OneTooMany(n) == IF n > MaxRequests + 1 THEN "refused" ELSE "admitted"

Verdict(n) == IF n > MaxRequests THEN "refused" ELSE "admitted"

\* A slip: every request sets the expiry anew.
ExpiresAlways(n) == "expire"

AfterIncr(n) == IF n = 1 THEN "expire" ELSE "ttl"

\* What INCR answers; requests with the largest number are all refused.
NextNumber == IF counter < MaxCount THEN counter + 1 ELSE MaxCount

\* INCR
Incr(r, p) ==
    /\ req[r].pc = "idle"
    /\ Answers(p)
    /\ counter' = NextNumber
    /\ req' = [req EXCEPT ![r] = [pc |-> AfterIncr(NextNumber), proc |-> p,
                                  number |-> NextNumber, by |-> "redis",
                                  fresh |-> TRUE, age |-> 0]]
    /\ UNCHANGED <<link, ttl, memory, mishaps>>

\* EXPIRE
Expire(r) ==
    /\ req[r].pc = "expire"
    /\ Answers(req[r].proc)
    /\ ttl' = WindowSeconds
    /\ req' = [req EXCEPT ![r].pc = "ttl"]
    /\ UNCHANGED <<link, counter, memory, mishaps>>

\* TTL, whose answer only fills a header, and the decision.
Decide(r) ==
    /\ req[r].pc = "ttl"
    /\ Answers(req[r].proc)
    /\ req' = [req EXCEPT ![r].pc = Verdict(req[r].number)]
    /\ UNCHANGED <<link, counter, ttl, memory, mishaps>>

Counted(m) ==
    IF m.left = 0 THEN [count |-> 1, left |-> WindowSeconds]
    ELSE [m EXCEPT !.count = @ + 1]

\* consumeMemoryRateLimit: its number replaces any that Redis gave before.
ConsumeMemory(r, p) ==
    LET m == Counted(memory[p]) IN
    /\ memory' = [memory EXCEPT ![p] = m]
    /\ req' = [req EXCEPT ![r] = [pc |-> Verdict(m.count), proc |-> p,
                                  number |-> m.count, by |-> "memory",
                                  fresh |-> TRUE, age |-> 0]]
    /\ UNCHANGED <<link, counter, ttl, mishaps>>

\* Redis was not there at start, or INCR is rejected.
ArriveOffline(r, p) ==
    /\ req[r].pc = "idle"
    /\ ~Answers(p)
    /\ ConsumeMemory(r, p)

\* EXPIRE or TTL is rejected: what INCR did stays done.
FallBack(r) ==
    /\ InFlight(r)
    /\ ~Answers(req[r].proc)
    /\ ConsumeMemory(r, req[r].proc)

-----------------------------------------------------------------------------
Disconnect(p) ==
    /\ mishaps < MaxMishaps
    /\ mishaps' = mishaps + 1
    /\ LoseLink(p)
    /\ UNCHANGED <<counter, ttl, memory, req>>

\* The process dies with its map and its requests and is started again.
Crash(p) ==
    /\ mishaps < MaxMishaps
    /\ mishaps' = mishaps + 1
    /\ Reboot(p)
    /\ memory' = [memory EXCEPT ![p] = NoRecord]
    /\ req' = [r \in Requests |->
                 IF req[r].proc = p /\ (InFlight(r) \/ req[r].by = "memory")
                 THEN Idle ELSE req[r]]
    /\ UNCHANGED <<counter, ttl>>

Aged(m) == IF m.left > 1 THEN [m EXCEPT !.left = @ - 1] ELSE NoRecord

\* The counter that gave the request its number ends with this tick.
Outlived(r) ==
    CASE req[r].by = "redis" -> ttl = 1
      [] req[r].by = "memory" -> memory[req[r].proc].left <= 1
      [] OTHER -> FALSE

Older(r) ==
    IF req[r].pc = "idle" \/ (~InFlight(r) /\ req[r].age + 1 >= WindowSeconds)
    THEN Idle
    ELSE [req[r] EXCEPT !.age = IF @ < WindowSeconds THEN @ + 1 ELSE @,
                        !.fresh = @ /\ ~Outlived(r)]

Tick ==
    /\ ttl' = IF ttl > 1 THEN ttl - 1 ELSE Never
    /\ counter' = IF ttl = 1 THEN 0 ELSE counter
    /\ memory' = [p \in Procs |-> Aged(memory[p])]
    /\ req' = [r \in Requests |-> Older(r)]
    /\ UNCHANGED <<link, mishaps>>

RequestStep(r) == Expire(r) \/ Decide(r) \/ FallBack(r)

Next ==
    \/ \E r \in Requests :
         \/ \E p \in Procs : Incr(r, p) \/ ArriveOffline(r, p)
         \/ RequestStep(r)
    \/ \E p \in Procs : Disconnect(p) \/ Crash(p)
    \/ Tick

Spec == Init /\ [][Next]_vars

\* Time passes and a request that arrived is answered.  No user has to send
\* requests, no failure has to happen.
Fairness ==
    /\ WF_vars(Tick)
    /\ \A r \in Requests : WF_vars(RequestStep(r))

FairSpec == Spec /\ Fairness

-----------------------------------------------------------------------------
\* Who counted the request: Redis, or the map of its process.
Source(r) == IF req[r].by = "redis" THEN "redis" ELSE req[r].proc

\* No life of a counter, be it Redis' key or a process's record, admits more
\* than MaxRequests requests: INCR is atomic, the map is read and written without
\* an await in between, and the expiry is set once in a life.
WindowBound ==
    \A source \in {"redis"} \cup Procs :
      Cardinality({r \in Requests : /\ req[r].pc = "admitted" /\ req[r].fresh
                                    /\ Source(r) = source}) <= MaxRequests

Admitted(source) ==
    {r \in Requests : /\ req[r].pc = "admitted" /\ req[r].age < WindowSeconds
                      /\ Source(r) = source}

\* In no stretch of one window's length does Redis, or the map of one
\* process, admit more than twice the limit (a window's end and the next
\* one's start), whatever connections and processes fail.
BurstBound ==
    \A source \in {"redis"} \cup Procs :
      Cardinality(Admitted(source)) <= 2 * MaxRequests

\* A counter without expiry that no request is about to give one.
Orphaned ==
    /\ counter > 0 /\ ttl = Never
    /\ \A r \in Requests : req[r].pc # "expire"

\* A user who ran into the limit is admitted again one day, however many
\* requests keep coming; only a connection lost, or a process killed, between
\* INCR and EXPIRE leaves a counter that never expires.
BlockedIsFreed ==
    (counter > MaxRequests) ~> (counter = 0 \/ (Orphaned /\ mishaps > 0))

=============================================================================
