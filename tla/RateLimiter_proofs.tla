-------------------------- MODULE RateLimiter_proofs --------------------------
(***************************************************************************)
(* Proofs about RateLimiter, for every number of processes, requests and   *)
(* mishaps, every limit and every window.                                  *)
(*                                                                         *)
(* A counter deals out numbers.  As long as it lives, the requests it      *)
(* counted hold different ones, none above the count, so those it admits   *)
(* are at most as many as there are numbers within the limit.              *)
(***************************************************************************)
EXTENDS RateLimiter, FiniteSetTheorems, TLAPS

-----------------------------------------------------------------------------
(* The invariant *)

\* The counter counts to MaxCount; its expiry exists only with it, and until
\* then the request that created it is the one about to set it.
KeyInv ==
    /\ counter <= MaxCount
    /\ ttl # Never => counter > 0
    /\ \A r \in Requests :
         req[r].pc = "expire" => counter > 0 /\ ttl = Never
    /\ \A r, s \in Requests :
         req[r].pc = "expire" /\ req[s].pc = "expire" => r = s
    /\ \A p \in Procs : memory[p].left = 0 => memory[p].count = 0

\* A request holds a number of the counter that counted it.
Dealt ==
    \A r \in Requests : req[r].fresh =>
      /\ req[r].number > 0
      /\ req[r].by = "redis" => req[r].number <= counter
      /\ req[r].by = "memory" => req[r].number <= memory[req[r].proc].count

\* r and s were counted by the same counter.
SameSource(r, s) ==
    /\ req[r].by = req[s].by
    /\ req[r].by = "memory" => req[r].proc = req[s].proc

\* No number within the limit is dealt twice.
Distinct ==
    \A r, s \in Requests :
      r # s /\ req[r].fresh /\ req[s].fresh /\ SameSource(r, s)
      /\ req[r].number <= MaxRequests
      => req[r].number # req[s].number

\* Only such a number admits.
Honoured ==
    \A r \in Requests :
      /\ req[r].pc = "admitted" => req[r].number <= MaxRequests
      /\ req[r].pc = "idle" => ~req[r].fresh

LimiterInv == TypeOK /\ KeyInv /\ Dealt /\ Distinct /\ Honoured

\* The invariant holds at first.
LEMMA LimiterInit == ASSUME LimiterAssumption, Init PROVE LimiterInv
<1>1. \A r \in Requests : req[r] = Idle
  BY DEF Init
<1>2. Idle \in RequestRows /\ ~Idle.fresh /\ Idle.pc = "idle"
  BY DEF Idle, RequestRows, Pcs, LimiterAssumption
<1>3. NoRecord \in Records /\ NoRecord.count = 0
  BY DEF NoRecord, Records, LimiterAssumption
<1>4. \A p \in Procs : memory[p] = NoRecord
  BY DEF Init
<1>5. TypeOK
  BY <1>1, <1>2, <1>3
     DEF Init, TypeOK, LinkInit, LinkTypeOK, BootLinks, Links, LimiterAssumption
<1>6. KeyInv
  BY <1>1, <1>2, <1>3, <1>4 DEF Init, KeyInv, Never, LimiterAssumption
<1> QED
  BY <1>1, <1>2, <1>5, <1>6 DEF LimiterInv, Dealt, Distinct, Honoured, Idle

-----------------------------------------------------------------------------
(* Moves *)

\* A request gets the next number of a counter.
LEMMA NumberDealt ==
    ASSUME LimiterAssumption, LimiterInv, NEW r \in Requests, NEW n \in RequestRows,
           \A s \in Requests : req'[s] = IF s = r THEN n ELSE req[s],
           req' \in [Requests -> RequestRows],
           n.fresh, n.proc # NoProc, n.by # "none", n.number > 0,
           n.pc # "idle", n.pc = "admitted" => n.number <= MaxRequests,
           KeyInv', LinkTypeOK', mishaps' \in Nat,
           counter' \in Nat, ttl' \in {Never} \cup 1..WindowSeconds,
           memory' \in [Procs -> Records],
           counter <= counter',
           \A p \in Procs : memory[p].count <= memory'[p].count,
           n.by = "redis" => /\ n.number <= counter'
                             /\ n.number <= MaxRequests => n.number > counter,
           n.by = "memory" => /\ n.number <= memory'[n.proc].count
                              /\ n.number > memory[n.proc].count
    PROVE  LimiterInv'
<1>0. TypeOK /\ KeyInv /\ Dealt /\ Distinct /\ Honoured
  BY DEF LimiterInv
<1>1. /\ req \in [Requests -> RequestRows]
      /\ \A s \in Requests : req[s].pc # "idle" => req[s].proc # NoProc /\ req[s].by # "none"
      /\ memory \in [Procs -> Records] /\ counter \in Nat
  BY <1>0 DEF TypeOK
<1>2. TypeOK'
  BY <1>1 DEF TypeOK
<1>3. MaxRequests \in Nat
  BY DEF LimiterAssumption
<1>4. \A s \in Requests : /\ req[s].number \in Nat
                          /\ req[s].fresh => req[s].pc # "idle" /\ req[s].proc \in Procs
  BY <1>0, <1>1 DEF RequestRows, Honoured
<1>5. n.number \in Nat /\ n.proc \in Procs /\ n.by \in {"redis", "memory"}
  BY DEF RequestRows
<1>6. \A p \in Procs : memory[p].count \in Nat /\ memory'[p].count \in Nat
  BY <1>1 DEF Records
<1>7. Dealt'
  <2>1. SUFFICES ASSUME NEW s \in Requests, req'[s].fresh
        PROVE  /\ req'[s].number > 0
               /\ req'[s].by = "redis" => req'[s].number <= counter'
               /\ req'[s].by = "memory" =>
                    req'[s].number <= memory'[req'[s].proc].count
    BY DEF Dealt
  <2>2. CASE s = r
    BY <2>2
  <2>3. CASE s # r
    <3>1. req'[s] = req[s]
      BY <2>3
    <3>2. /\ req[s].number > 0
          /\ req[s].by = "redis" => req[s].number <= counter
          /\ req[s].by = "memory" => req[s].number <= memory[req[s].proc].count
      BY <1>0, <2>1, <3>1 DEF Dealt
    <3>3. req[s].by = "memory" => memory[req[s].proc].count <= memory'[req[s].proc].count
      BY <1>4, <2>1, <3>1
    <3>4. req[s].proc \in Procs
      BY <1>4, <2>1, <3>1
    <3> QED
      BY <1>1, <1>4, <1>6, <3>1, <3>2, <3>3, <3>4
  <2> QED
    BY <2>2, <2>3
<1>8. \A s \in Requests :
        /\ s # r /\ req[s].fresh /\ req[s].by = n.by
        /\ n.by = "memory" => req[s].proc = n.proc
        /\ n.number <= MaxRequests
        => n.number # req[s].number
  <2>1. SUFFICES ASSUME NEW s \in Requests, s # r, req[s].fresh,
                        req[s].by = n.by,
                        n.by = "memory" => req[s].proc = n.proc,
                        n.number <= MaxRequests
        PROVE  n.number > req[s].number
    BY <1>4, <1>5
  <2>2. /\ req[s].by = "redis" => req[s].number <= counter
        /\ req[s].by = "memory" => req[s].number <= memory[req[s].proc].count
    BY <1>0, <2>1 DEF Dealt
  <2> QED
    BY <1>1, <1>4, <1>5, <1>6, <2>1, <2>2
<1>9. Distinct'
  <2>1. SUFFICES ASSUME NEW s \in Requests, NEW u \in Requests, s # u,
                        req'[s].fresh, req'[u].fresh,
                        req'[s].by = req'[u].by,
                        req'[s].by = "memory" => req'[s].proc = req'[u].proc,
                        req'[s].number <= MaxRequests
        PROVE  req'[s].number # req'[u].number
    BY DEF Distinct, SameSource
  <2>2. CASE s = r
    BY <1>8, <2>1, <2>2
  <2>3. CASE u = r
    <3>1. CASE n.number <= MaxRequests
      BY <1>8, <2>1, <2>3, <3>1
    <3>2. CASE ~(n.number <= MaxRequests)
      BY <2>1, <2>3, <3>2
    <3> QED
      BY <3>1, <3>2
  <2>4. CASE s # r /\ u # r
    BY <1>0, <2>1, <2>4 DEF Distinct, SameSource
  <2> QED
    BY <2>2, <2>3, <2>4
<1>10. Honoured'
  BY <1>0 DEF Honoured
<1> QED
  BY <1>2, <1>7, <1>9, <1>10 DEF LimiterInv

\* Requests keep their numbers, or are forgotten; counters lose nothing that a
\* request still holds.
LEMMA NumbersKept ==
    ASSUME LimiterAssumption, LimiterInv,
           req' \in [Requests -> RequestRows],
           \A s \in Requests :
             /\ req'[s].pc # "idle" => req'[s].proc # NoProc /\ req'[s].by # "none"
             /\ req'[s].pc = "idle" => ~req'[s].fresh
             /\ req'[s].pc = "admitted" =>
                  req'[s].number <= MaxRequests
             /\ req'[s].fresh => /\ req[s].fresh
                                 /\ req'[s].number = req[s].number
                                 /\ req'[s].by = req[s].by
                                 /\ req'[s].proc = req[s].proc
                                 /\ req[s].by = "redis" => counter <= counter'
                                 /\ req[s].by = "memory" =>
                                      memory[req[s].proc].count
                                        <= memory'[req[s].proc].count,
           KeyInv', LinkTypeOK', mishaps' \in Nat,
           counter' \in Nat, ttl' \in {Never} \cup 1..WindowSeconds,
           memory' \in [Procs -> Records]
    PROVE  LimiterInv'
<1>0. TypeOK /\ Dealt /\ Distinct /\ Honoured
  BY DEF LimiterInv
<1>1. TypeOK'
  BY DEF TypeOK
<1>2. /\ req \in [Requests -> RequestRows]
      /\ memory \in [Procs -> Records] /\ counter \in Nat
  BY <1>0 DEF TypeOK
<1>3. \A s \in Requests : req[s].fresh => req[s].proc \in Procs /\ req[s].number \in Nat
  BY <1>0, <1>2 DEF RequestRows, TypeOK, Honoured
<1>4. \A p \in Procs : memory[p].count \in Nat /\ memory'[p].count \in Nat
  BY <1>2 DEF Records
<1>5. Dealt'
  <2>1. SUFFICES ASSUME NEW s \in Requests, req'[s].fresh
        PROVE  /\ req'[s].number > 0
               /\ req'[s].by = "redis" => req'[s].number <= counter'
               /\ req'[s].by = "memory" =>
                    req'[s].number <= memory'[req'[s].proc].count
    BY DEF Dealt
  <2>2. /\ req[s].number > 0
        /\ req[s].by = "redis" => req[s].number <= counter
        /\ req[s].by = "memory" => req[s].number <= memory[req[s].proc].count
    BY <1>0, <2>1 DEF Dealt
  <2> QED
    BY <1>2, <1>3, <1>4, <2>1, <2>2
<1>6. Distinct'
  BY <1>0 DEF Distinct, SameSource
<1>7. Honoured'
  BY DEF Honoured
<1> QED
  BY <1>1, <1>5, <1>6, <1>7 DEF LimiterInv

-----------------------------------------------------------------------------
(* Steps *)

\* Every step is one of these.
LEMMA StepCases ==
    ASSUME Next,
           NEW P,
           ASSUME NEW r \in Requests, NEW p \in Procs, Incr(r, p) PROVE P,
           ASSUME NEW r \in Requests, NEW p \in Procs, ArriveOffline(r, p) PROVE P,
           ASSUME NEW r \in Requests, Expire(r) PROVE P,
           ASSUME NEW r \in Requests, Decide(r) PROVE P,
           ASSUME NEW r \in Requests, FallBack(r) PROVE P,
           ASSUME NEW p \in Procs, Disconnect(p) PROVE P,
           ASSUME NEW p \in Procs, Crash(p) PROVE P,
           ASSUME Tick PROVE P
    PROVE  P
BY DEF Next, RequestStep

\* What TypeOK and LimiterAssumption say, for use step by step.
LEMMA Facts ==
    ASSUME LimiterAssumption, LimiterInv
    PROVE  /\ req \in [Requests -> RequestRows] /\ memory \in [Procs -> Records]
           /\ counter \in Nat /\ mishaps \in Nat /\ LinkTypeOK
           /\ ttl \in {Never} \cup 1..WindowSeconds
           /\ MaxRequests \in Nat \ {0} /\ WindowSeconds \in Nat \ {0}
           /\ MaxCount \in Nat /\ MaxCount > MaxRequests
           /\ \A r \in Requests : req[r].pc # "idle" =>
                req[r].proc \in Procs /\ req[r].proc # NoProc /\ req[r].by # "none"
           /\ \A p \in Procs : p # NoProc
           /\ KeyInv
BY DEF LimiterAssumption, LimiterInv, TypeOK, RequestRows

\* What the map makes of a record.
LEMMA CountedRecord ==
    ASSUME LimiterAssumption, NEW m \in Records, m.left = 0 => m.count = 0
    PROVE  /\ Counted(m) \in Records /\ Counted(m).left # 0
           /\ Counted(m).count = m.count + 1
<1>1. m.count \in Nat /\ m.left \in 0..WindowSeconds
  BY DEF Records
<1>2. WindowSeconds \in Nat \ {0}
  BY DEF LimiterAssumption
<1>3. CASE m.left = 0
  <2>1. Counted(m) = [count |-> 1, left |-> WindowSeconds] /\ m.count = 0
    BY <1>3 DEF Counted
  <2> QED
    BY <1>2, <2>1 DEF Records
<1>4. CASE m.left # 0
  <2>1. Counted(m) = [m EXCEPT !.count = m.count + 1]
    BY <1>4 DEF Counted
  <2> QED
    BY <1>1, <1>4, <2>1 DEF Records
<1> QED
  BY <1>3, <1>4

\* INCR
LEMMA IncrStep ==
    ASSUME LimiterAssumption, LimiterInv, NEW r \in Requests, NEW p \in Procs,
           Incr(r, p)
    PROVE  LimiterInv'
<1> DEFINE n == [pc |-> AfterIncr(NextNumber), proc |-> p,
                 number |-> NextNumber, by |-> "redis", fresh |-> TRUE, age |-> 0]
<1>0. /\ req' = [req EXCEPT ![r] = n] /\ counter' = NextNumber
      /\ UNCHANGED <<link, ttl, memory, mishaps>>
  BY DEF Incr
<1>1. NextNumber \in Nat /\ NextNumber > 0 /\ counter <= NextNumber
      /\ NextNumber <= MaxCount
      /\ (NextNumber <= MaxRequests => NextNumber > counter)
      /\ (NextNumber = 1 => counter = 0)
  BY Facts DEF NextNumber, KeyInv
<1>2. AfterIncr(NextNumber) \in {"expire", "ttl"}
      /\ (AfterIncr(NextNumber) = "expire" => counter = 0)
  BY <1>1 DEF AfterIncr
<1>3. /\ n \in RequestRows /\ n.pc \in {"expire", "ttl"} /\ n.number = NextNumber
      /\ n.fresh /\ n.by = "redis" /\ n.proc = p
      /\ n.pc = "expire" => counter = 0
  BY <1>1, <1>2, Facts DEF RequestRows, Pcs
<1> HIDE DEF n
<1>4. \A s \in Requests : req'[s] = IF s = r THEN n ELSE req[s]
  BY <1>0, Facts
<1>5. req' \in [Requests -> RequestRows]
  BY <1>0, <1>3, Facts
<1>6. KeyInv'
  BY <1>0, <1>1, <1>3, <1>4, Facts DEF KeyInv, Never
<1>7. LinkTypeOK'
  BY <1>0, Facts DEF LinkTypeOK
<1>8. \A q \in Procs : memory[q].count <= memory'[q].count
  BY <1>0, Facts DEF Records
<1>9. ttl' \in {Never} \cup 1..WindowSeconds /\ memory' \in [Procs -> Records]
      /\ mishaps' \in Nat
  BY <1>0, Facts
<1> QED
  BY <1>0, <1>1, <1>3, <1>4, <1>5, <1>6, <1>7, <1>8, <1>9, Facts, NumberDealt

\* The map of a process counts a request.
LEMMA MemoryStep ==
    ASSUME LimiterAssumption, LimiterInv, NEW r \in Requests, NEW p \in Procs,
           ConsumeMemory(r, p)
    PROVE  LimiterInv'
<1> DEFINE m == Counted(memory[p])
           n == [pc |-> Verdict(m.count), proc |-> p, number |-> m.count,
                 by |-> "memory", fresh |-> TRUE, age |-> 0]
<1>0. /\ memory' = [memory EXCEPT ![p] = m] /\ req' = [req EXCEPT ![r] = n]
      /\ UNCHANGED <<link, counter, ttl, mishaps>>
  BY DEF ConsumeMemory
<1>1. memory[p] \in Records /\ memory[p].count \in Nat
      /\ (memory[p].left = 0 => memory[p].count = 0)
  BY Facts DEF Records, KeyInv
<1>2. m \in Records /\ m.left # 0 /\ m.count = memory[p].count + 1
  BY <1>1, CountedRecord
<1>3. /\ Verdict(m.count) \in {"admitted", "refused"}
      /\ Verdict(m.count) = "admitted" => m.count <= MaxRequests
  BY <1>1, <1>2, Facts DEF Verdict
<1> HIDE DEF m
<1>4. /\ n \in RequestRows /\ n.pc \in {"admitted", "refused"} /\ n.number = m.count
      /\ n.fresh /\ n.by = "memory" /\ n.proc = p
      /\ n.pc = "admitted" => n.number <= MaxRequests
  BY <1>1, <1>2, <1>3, Facts DEF RequestRows, Pcs
<1> HIDE DEF n
<1>5. \A s \in Requests : req'[s] = IF s = r THEN n ELSE req[s]
  BY <1>0, Facts
<1>6. req' \in [Requests -> RequestRows] /\ memory' \in [Procs -> Records]
  BY <1>0, <1>2, <1>4, Facts
<1>7. \A q \in Procs : memory'[q] = IF q = p THEN m ELSE memory[q]
  BY <1>0, Facts
<1>8. KeyInv'
  BY <1>0, <1>2, <1>4, <1>5, <1>7, Facts DEF KeyInv, Never
<1>9. LinkTypeOK'
  BY <1>0, Facts DEF LinkTypeOK
<1>10. \A q \in Procs : memory[q].count <= memory'[q].count
  BY <1>1, <1>2, <1>7, Facts DEF Records
<1>11. n.number > 0 /\ n.number <= memory'[n.proc].count
       /\ n.number > memory[n.proc].count
  BY <1>1, <1>2, <1>4, <1>7
<1>12. ttl' \in {Never} \cup 1..WindowSeconds /\ mishaps' \in Nat /\ counter' \in Nat
       /\ counter <= counter'
  BY <1>0, Facts
<1> QED
  BY <1>4, <1>5, <1>6, <1>8, <1>9, <1>10, <1>11, <1>12, Facts, NumberDealt

\* EXPIRE, TTL and the decision leave numbers and counters alone.
LEMMA RedisStep ==
    ASSUME LimiterAssumption, LimiterInv, NEW r \in Requests,
           Expire(r) \/ Decide(r)
    PROVE  LimiterInv'
<1> DEFINE to == IF req[r].pc = "expire" THEN "ttl" ELSE Verdict(req[r].number)
<1>0. /\ req' = [req EXCEPT ![r].pc = to]
      /\ UNCHANGED <<link, counter, memory, mishaps>>
      /\ req[r].pc \in {"expire", "ttl"}
      /\ ttl' = IF req[r].pc = "expire" THEN WindowSeconds ELSE ttl
  BY DEF Expire, Decide
<1>1. req[r] \in RequestRows /\ req[r].number \in Nat
  BY Facts DEF RequestRows
<1>2. /\ to \in {"ttl", "admitted", "refused"}
      /\ to = "admitted" => req[r].number <= MaxRequests
      /\ req[r].pc # "expire" => to # "ttl"
  BY <1>0, <1>1, Facts DEF Verdict
<1> HIDE DEF to
<1>3. \A s \in Requests :
        /\ req'[s].pc = IF s = r THEN to ELSE req[s].pc
        /\ req'[s].number = req[s].number /\ req'[s].by = req[s].by
        /\ req'[s].proc = req[s].proc /\ req'[s].fresh = req[s].fresh
  BY <1>0, Facts DEF RequestRows
<1>4. req' \in [Requests -> RequestRows]
  BY <1>0, <1>1, <1>2, Facts DEF RequestRows, Pcs
<1>5. \A s \in Requests : req'[s].pc = "expire" => req[s].pc = "expire" /\ s # r
  BY <1>2, <1>3
<1>6. KeyInv'
  BY <1>0, <1>5, Facts DEF KeyInv, Never
<1>7. counter' \in Nat /\ mishaps' \in Nat /\ memory' \in [Procs -> Records]
      /\ ttl' \in {Never} \cup 1..WindowSeconds /\ counter <= counter'
  BY <1>0, Facts
<1>8. LinkTypeOK'
  BY <1>0, Facts DEF LinkTypeOK
<1>9. \A q \in Procs : memory[q].count <= memory'[q].count
  BY <1>0, Facts DEF Records
<1>10. \A s \in Requests :
         /\ req'[s].pc # "idle" => req[s].pc # "idle"
         /\ req'[s].pc = "idle" => req[s].pc = "idle"
         /\ req'[s].pc = "admitted" => req[s].pc = "admitted" \/ s = r
  BY <1>0, <1>2, <1>3
<1>11. \A s \in Requests :
         /\ req[s].pc = "idle" => ~req[s].fresh
         /\ req[s].pc = "admitted" => req[s].number <= MaxRequests
  BY DEF LimiterInv, Honoured
<1>12. \A s \in Requests : req'[s].pc = "admitted" => req'[s].number <= MaxRequests
  BY <1>0, <1>2, <1>3, <1>11
<1>13. \A s \in Requests : req[s].fresh => req[s].proc \in Procs
  BY <1>11, Facts
<1> QED
  BY <1>3, <1>4, <1>6, <1>7, <1>8, <1>9, <1>10, <1>11, <1>12, <1>13, Facts,
     NumbersKept

\* A lost connection.
LEMMA DisconnectStep ==
    ASSUME LimiterAssumption, LimiterInv, NEW p \in Procs, Disconnect(p)
    PROVE  LimiterInv'
<1>1. LinkTypeOK'
  BY Facts DEF Disconnect, LoseLink, LinkTypeOK, Links
<1>2. UNCHANGED <<counter, ttl, memory, req>> /\ mishaps' \in Nat
  BY Facts DEF Disconnect
<1> QED
  BY <1>1, <1>2
     DEF LimiterInv, TypeOK, KeyInv, Dealt, Distinct, SameSource, Honoured

\* A process dies with its map.
LEMMA CrashStep ==
    ASSUME LimiterAssumption, LimiterInv, NEW p \in Procs, Crash(p)
    PROVE  LimiterInv'
<1>0. /\ UNCHANGED <<counter, ttl>> /\ mishaps' = mishaps + 1
      /\ memory' = [memory EXCEPT ![p] = NoRecord]
      /\ \A s \in Requests :
           req'[s] = IF req[s].proc = p /\ (InFlight(s) \/ req[s].by = "memory")
                     THEN Idle ELSE req[s]
      /\ req' = [s \in Requests |-> req'[s]]
  BY DEF Crash
<1>1. Idle \in RequestRows /\ Idle.pc = "idle" /\ ~Idle.fresh
  BY DEF Idle, RequestRows, Pcs, LimiterAssumption
<1>2. NoRecord \in Records /\ NoRecord.count = 0 /\ NoRecord.left = 0
  BY Facts DEF NoRecord, Records
<1>3. LinkTypeOK'
  BY Facts DEF Crash, Reboot, BootLinks, LinkTypeOK, Links
<1>4. \A s \in Requests : req'[s] = Idle \/ req'[s] = req[s]
  BY <1>0
<1>5. req' \in [Requests -> RequestRows]
  BY <1>0, <1>1, <1>4, Facts
<1>6. \A q \in Procs : memory'[q] = IF q = p THEN NoRecord ELSE memory[q]
  BY <1>0, Facts
<1>7. memory' \in [Procs -> Records]
  BY <1>0, <1>2, Facts
<1>8. KeyInv'
  BY <1>0, <1>1, <1>2, <1>4, <1>6, Facts DEF KeyInv, Never
<1>9. \A s \in Requests :
        /\ req[s].pc = "idle" => ~req[s].fresh
        /\ req[s].pc = "admitted" => req[s].number <= MaxRequests
  BY DEF LimiterInv, Honoured
<1>10. \A s \in Requests : req'[s].fresh => req'[s] = req[s] /\ req[s].pc # "idle"
  BY <1>1, <1>4, <1>9
<1>11. \A s \in Requests :
         req'[s].fresh /\ req[s].by = "memory" => req[s].proc # p
  BY <1>0, <1>1
<1>12. \A q \in Procs : memory[q].count \in Nat /\ memory[q].count <= memory[q].count
  BY Facts DEF Records
<1>13. \A s \in Requests : req'[s].fresh /\ req[s].by = "memory" =>
         memory[req[s].proc].count <= memory'[req[s].proc].count
  BY <1>6, <1>10, <1>11, <1>12, Facts
<1>14. counter <= counter' /\ counter' \in Nat /\ mishaps' \in Nat
       /\ ttl' \in {Never} \cup 1..WindowSeconds
  BY <1>0, Facts
<1>15. \A s \in Requests :
         /\ req'[s].pc # "idle" => req'[s].proc # NoProc /\ req'[s].by # "none"
         /\ req'[s].pc = "idle" => ~req'[s].fresh
         /\ req'[s].pc = "admitted" => req'[s].number <= MaxRequests
  BY <1>1, <1>4, <1>9, Facts
<1> QED
  BY <1>3, <1>5, <1>7, <1>8, <1>10, <1>13, <1>14, <1>15, NumbersKept

\* What a tick makes of a record.
LEMMA AgedRecord ==
    ASSUME LimiterAssumption, NEW m \in Records
    PROVE  /\ Aged(m) \in Records
           /\ Aged(m).left = 0 => Aged(m).count = 0
           /\ m.left > 1 => Aged(m).count = m.count
<1>1. m.left \in 0..WindowSeconds /\ m.count \in Nat /\ WindowSeconds \in Nat
  BY DEF Records, LimiterAssumption
<1>2. CASE m.left > 1
  <2>1. Aged(m) = [m EXCEPT !.left = m.left - 1]
    BY <1>2 DEF Aged
  <2> QED
    BY <1>1, <1>2, <2>1 DEF Records
<1>3. CASE ~(m.left > 1)
  BY <1>1, <1>3 DEF Aged, NoRecord, Records
<1> QED
  BY <1>2, <1>3

\* What a tick makes of a request.
LEMMA OlderRow ==
    ASSUME LimiterAssumption, LimiterInv, NEW r \in Requests
    PROVE  /\ Older(r) \in RequestRows
           /\ Older(r) = Idle \/ /\ Older(r).pc = req[r].pc
                                 /\ Older(r).number = req[r].number
                                 /\ Older(r).by = req[r].by
                                 /\ Older(r).proc = req[r].proc
           /\ Older(r).fresh => req[r].fresh /\ ~Outlived(r)
           /\ Older(r) = Idle \/ req[r].pc # "idle"
<1>1. Idle \in RequestRows /\ ~Idle.fresh
  BY DEF Idle, RequestRows, Pcs, LimiterAssumption
<1>2. CASE req[r].pc = "idle" \/ (~InFlight(r) /\ req[r].age + 1 >= WindowSeconds)
  BY <1>1, <1>2 DEF Older
<1>3. CASE ~(req[r].pc = "idle" \/ (~InFlight(r) /\ req[r].age + 1 >= WindowSeconds))
  <2> DEFINE a == IF req[r].age < WindowSeconds THEN req[r].age + 1 ELSE req[r].age
             b == req[r].fresh /\ ~Outlived(r)
  <2>1. Older(r) = [req[r] EXCEPT !.age = a, !.fresh = b]
    BY <1>3 DEF Older
  <2>2. req[r] \in RequestRows
    BY Facts
  <2>3. a \in 0..WindowSeconds
    BY <2>2, Facts DEF RequestRows
  <2>4. b \in BOOLEAN
    BY <2>2 DEF RequestRows
  <2>5. b => req[r].fresh /\ ~Outlived(r)
    OBVIOUS
  <2> HIDE DEF a, b
  <2>6. /\ Older(r) \in RequestRows /\ Older(r).fresh = b
        /\ Older(r).pc = req[r].pc /\ Older(r).number = req[r].number
        /\ Older(r).by = req[r].by /\ Older(r).proc = req[r].proc
    BY <2>1, <2>2, <2>3, <2>4 DEF RequestRows
  <2> QED
    BY <1>3, <2>5, <2>6
<1> QED
  BY <1>2, <1>3

\* A tick ends the lives whose time is over; whoever holds a number of theirs is
\* not fresh any more.
LEMMA TickStep ==
    ASSUME LimiterAssumption, LimiterInv, Tick
    PROVE  LimiterInv'
<1>0. /\ ttl' = IF ttl > 1 THEN ttl - 1 ELSE Never
      /\ counter' = IF ttl = 1 THEN 0 ELSE counter
      /\ memory' = [p \in Procs |-> Aged(memory[p])]
      /\ req' = [r \in Requests |-> Older(r)]
      /\ UNCHANGED <<link, mishaps>>
  BY DEF Tick
<1>1. \A r \in Requests : req'[r] = Older(r)
  BY <1>0
<1>2. req' \in [Requests -> RequestRows]
  BY <1>0, OlderRow
<1>3. \A p \in Procs : memory'[p] = Aged(memory[p])
  BY <1>0
<1>4. memory' \in [Procs -> Records]
  BY <1>0, AgedRecord, Facts
<1>5. counter' \in Nat /\ mishaps' \in Nat /\ ttl' \in {Never} \cup 1..WindowSeconds
  BY <1>0, Facts DEF Never
<1>6. LinkTypeOK'
  BY <1>0, Facts DEF LinkTypeOK
<1>7. Idle.pc = "idle" /\ ~Idle.fresh
  BY DEF Idle
<1>8. \A p \in Procs : memory'[p].left = 0 => memory'[p].count = 0
  BY <1>3, AgedRecord, Facts
<1>9. \A r \in Requests : req'[r].pc = "expire" => req[r].pc = "expire"
  BY <1>1, <1>7, OlderRow
<1>10. KeyInv'
  <2>1. counter' <= MaxCount /\ (ttl' # Never => counter' > 0)
    BY <1>0, Facts DEF KeyInv, Never
  <2>2. \A r \in Requests :
          req'[r].pc = "expire" => counter' > 0 /\ ttl' = Never
    BY <1>0, <1>9, Facts DEF KeyInv, Never
  <2>3. \A r, s \in Requests :
          req'[r].pc = "expire" /\ req'[s].pc = "expire" => r = s
    BY <1>9, Facts DEF KeyInv
  <2> QED
    BY <1>8, <2>1, <2>2, <2>3 DEF KeyInv
<1>11. \A r \in Requests :
        /\ req[r].pc = "idle" => ~req[r].fresh
        /\ req[r].pc = "admitted" => req[r].number <= MaxRequests
  BY DEF LimiterInv, Honoured
<1>12. \A r \in Requests :
         /\ req'[r].pc # "idle" => req'[r].proc # NoProc /\ req'[r].by # "none"
         /\ req'[r].pc = "idle" => ~req'[r].fresh
         /\ req'[r].pc = "admitted" => req'[r].number <= MaxRequests
  BY <1>1, <1>7, <1>11, OlderRow, Facts
<1>13. ASSUME NEW r \in Requests, req'[r].fresh
       PROVE  /\ req[r].fresh /\ req'[r].number = req[r].number
              /\ req'[r].by = req[r].by /\ req'[r].proc = req[r].proc
              /\ req[r].by = "redis" => counter <= counter'
              /\ req[r].by = "memory" =>
                   memory[req[r].proc].count <= memory'[req[r].proc].count
  <2>1. /\ req[r].fresh /\ ~Outlived(r) /\ req'[r].number = req[r].number
        /\ req'[r].by = req[r].by /\ req'[r].proc = req[r].proc
    BY <1>1, <1>7, <1>13, OlderRow
  <2>2. req[r].proc \in Procs
    BY <1>11, <2>1, Facts
  <2>3. req[r].by = "redis" => counter <= counter'
    BY <1>0, <2>1, Facts DEF Outlived
  <2>4. ASSUME req[r].by = "memory"
        PROVE  memory[req[r].proc].count <= memory'[req[r].proc].count
    <3>1. memory[req[r].proc] \in Records
      BY <2>2, Facts
    <3>2. memory[req[r].proc].left > 1 /\ memory[req[r].proc].count \in Nat
      BY <2>1, <2>4, <3>1, Facts DEF Outlived, Records
    <3> QED
      BY <1>3, <2>2, <3>1, <3>2, AgedRecord
  <2> QED
    BY <2>1, <2>3, <2>4
<1> QED
  BY <1>2, <1>4, <1>5, <1>6, <1>10, <1>12, <1>13, NumbersKept

\* Every step keeps LimiterInv.
LEMMA LimiterStep ==
    ASSUME LimiterAssumption, LimiterInv, [Next]_vars
    PROVE  LimiterInv'
<1>1. CASE Next
  <2>1. ASSUME NEW r \in Requests, NEW p \in Procs, ArriveOffline(r, p)
        PROVE  LimiterInv'
    BY <2>1, MemoryStep DEF ArriveOffline
  <2>2. ASSUME NEW r \in Requests, FallBack(r) PROVE LimiterInv'
    <3>1. req[r].proc \in Procs /\ ConsumeMemory(r, req[r].proc)
      BY <2>2, Facts DEF FallBack, InFlight
    <3> QED
      BY <3>1, MemoryStep
  <2> QED
    BY <1>1, <2>1, <2>2, IncrStep, RedisStep, DisconnectStep, CrashStep,
       TickStep, StepCases
<1>2. CASE UNCHANGED vars
  BY <1>2 DEF vars, LimiterInv, TypeOK, LinkTypeOK, KeyInv, Dealt, Distinct,
              SameSource, Honoured
<1> QED
  BY <1>1, <1>2

-----------------------------------------------------------------------------
(* Theorems *)

\* Every reachable state of the rate limiter satisfies LimiterInv: numbers are
\* dealt once in a counter's life.
THEOREM LimiterCorrect ==
    ASSUME LimiterAssumption PROVE Spec => []LimiterInv
<1>1. LimiterInv /\ [Next]_vars => LimiterInv'
  BY LimiterStep
<1> QED
  BY <1>1, LimiterInit, PTL DEF Spec

\* Types: a request that arrived belongs to a process and has a counter.
THEOREM LimiterTypeCorrect ==
    ASSUME LimiterAssumption PROVE Spec => []TypeOK
<1>1. LimiterInv => TypeOK
  BY DEF LimiterInv
<1> QED
  BY <1>1, LimiterCorrect, PTL

\* The numbers of the requests that one counter admits are different, and within
\* the limit.
LEMMA NumbersBound ==
    ASSUME LimiterAssumption, LimiterInv
    PROVE  WindowBound
<1>1. SUFFICES ASSUME NEW source \in {"redis"} \cup Procs
      PROVE  Cardinality({r \in Requests : /\ req[r].pc = "admitted" /\ req[r].fresh
                                           /\ Source(r) = source}) <= MaxRequests
  BY DEF WindowBound
<1> DEFINE S == {r \in Requests : /\ req[r].pc = "admitted" /\ req[r].fresh
                                  /\ Source(r) = source}
           f == [r \in S |-> req[r].number]
<1>2. \A r \in S : req[r].number \in 1..MaxRequests
  BY Facts DEF LimiterInv, Dealt, Honoured, RequestRows
<1>3. ASSUME NEW r \in S, NEW s \in S, r # s PROVE req[r].number # req[s].number
  <2>1. req[r].by \in {"redis", "memory"} /\ req[s].by \in {"redis", "memory"}
    BY Facts DEF RequestRows
  <2>2. req[r].proc \in Procs /\ req[s].proc \in Procs /\ "redis" \notin Procs
    BY Facts DEF LimiterAssumption
  <2>3. Source(r) = Source(s)
    OBVIOUS
  <2>4. SameSource(r, s)
    BY <2>1, <2>2, <2>3 DEF SameSource, Source
  <2> QED
    BY <1>2, <1>3, <2>4 DEF LimiterInv, Distinct
<1>4. f \in Injection(S, 1..MaxRequests)
  BY <1>2, <1>3 DEF Injection, IsInjective
<1>5. MaxRequests \in Nat /\ MaxRequests > 0
  BY Facts
<1>6. IsFiniteSet(1..MaxRequests) /\ Cardinality(1..MaxRequests) = MaxRequests
  BY <1>5, FS_Interval
<1> QED
  BY <1>4, <1>6, FS_Injection

\* However requests of several processes interleave with lost connections,
\* crashes and expiries, one life of a counter admits no more than the limit.
THEOREM WindowCorrect ==
    ASSUME LimiterAssumption PROVE Spec => []WindowBound
<1>1. LimiterInv => WindowBound
  BY NumbersBound
<1> QED
  BY <1>1, LimiterCorrect, PTL

-----------------------------------------------------------------------------
(* Two lives of a counter *)

\* Who holds a number of a life that is over is older than that life's end: when
\* the present life ends, a whole window has passed.
Outliving(r) ==
    /\ req[r].by = "redis" => ttl = Never \/ req[r].age + ttl >= WindowSeconds
    /\ req[r].by = "memory" =>
         \/ memory[req[r].proc].left = 0
         \/ req[r].age + memory[req[r].proc].left >= WindowSeconds

Stale(r) == req[r].pc # "idle" /\ ~req[r].fresh

StaleAged == \A r \in Requests : Stale(r) => Outliving(r)

\* Those of them that are younger than a window held numbers of one life.
StaleDistinct ==
    \A r, s \in Requests :
      /\ r # s /\ Stale(r) /\ Stale(s) /\ SameSource(r, s)
      /\ req[r].age < WindowSeconds /\ req[s].age < WindowSeconds
      /\ req[r].number <= MaxRequests
      => req[r].number # req[s].number

Numbered == \A r \in Requests : req[r].pc # "idle" => req[r].number > 0

BurstInv == Numbered /\ StaleAged /\ StaleDistinct

\* No request is stale at first.
LEMMA BurstInit == ASSUME Init PROVE BurstInv
<1>1. \A r \in Requests : req[r].pc = "idle"
  BY DEF Init, Idle
<1> QED
  BY <1>1 DEF BurstInv, Numbered, StaleAged, StaleDistinct, Stale

\* Between ticks no request gets stale, and an expiry that changes is set anew
\* or gone.
LEMMA StaleKept ==
    ASSUME LimiterAssumption, LimiterInv, LimiterInv', BurstInv,
           \A r \in Requests :
             \/ req'[r].pc = "idle" \/ req'[r].fresh
             \/ /\ req[r].pc # "idle" /\ req'[r].fresh = req[r].fresh
                /\ req'[r].number = req[r].number /\ req'[r].by = req[r].by
                /\ req'[r].proc = req[r].proc /\ req'[r].age = req[r].age,
           ttl' = ttl \/ ttl' = WindowSeconds,
           \A p \in Procs : memory'[p].left \in {memory[p].left, WindowSeconds, 0}
    PROVE  BurstInv'
<1>1. /\ Numbered /\ StaleAged /\ StaleDistinct /\ Dealt'
  BY DEF BurstInv, LimiterInv
<1>2. \A r \in Requests : Stale(r)' =>
        /\ Stale(r) /\ req'[r].number = req[r].number /\ req'[r].by = req[r].by
        /\ req'[r].proc = req[r].proc /\ req'[r].age = req[r].age
  BY DEF Stale
<1>3. Numbered'
  BY <1>1 DEF Numbered, Dealt
<1>4. StaleAged'
  <2>1. SUFFICES ASSUME NEW r \in Requests, Stale(r)' PROVE Outliving(r)'
    BY DEF StaleAged
  <2>2. /\ Stale(r) /\ Outliving(r) /\ req'[r].by = req[r].by
        /\ req'[r].proc = req[r].proc /\ req'[r].age = req[r].age
    BY <1>1, <1>2, <2>1 DEF StaleAged
  <2>3. /\ req[r].age \in Nat /\ req[r].proc \in Procs /\ WindowSeconds \in Nat
        /\ memory[req[r].proc].left \in Nat
    BY <2>2, Facts DEF Stale, RequestRows, Records
  <2>4. /\ req[r].age + WindowSeconds >= WindowSeconds
        /\ memory'[req[r].proc].left \in {memory[req[r].proc].left, WindowSeconds, 0}
    BY <2>3
  <2> QED
    BY <2>2, <2>4 DEF Outliving
<1>5. StaleDistinct'
  BY <1>1, <1>2 DEF StaleDistinct, SameSource
<1> QED
  BY <1>3, <1>4, <1>5 DEF BurstInv

\* What a tick does to the age of a request.
LEMMA OlderAge ==
    ASSUME LimiterAssumption, LimiterInv, NEW r \in Requests, Older(r).pc # "idle"
    PROVE  /\ req[r].age \in 0..WindowSeconds /\ Older(r).age \in 0..WindowSeconds
           /\ Older(r).age = IF req[r].age < WindowSeconds THEN req[r].age + 1
                             ELSE req[r].age
           /\ Older(r).fresh = (req[r].fresh /\ ~Outlived(r))
           /\ Older(r).pc = req[r].pc /\ Older(r).number = req[r].number
           /\ Older(r).by = req[r].by /\ Older(r).proc = req[r].proc
<1>1. req[r] \in RequestRows /\ WindowSeconds \in Nat
  BY Facts
<1>2. ~(req[r].pc = "idle" \/ (~InFlight(r) /\ req[r].age + 1 >= WindowSeconds))
  BY DEF Older, Idle
<1> DEFINE a == IF req[r].age < WindowSeconds THEN req[r].age + 1 ELSE req[r].age
           b == req[r].fresh /\ ~Outlived(r)
<1>3. Older(r) = [req[r] EXCEPT !.age = a, !.fresh = b]
  BY <1>2 DEF Older
<1>4. req[r].age \in 0..WindowSeconds /\ a \in 0..WindowSeconds
  BY <1>1 DEF RequestRows
<1>5. /\ Older(r).age = a /\ Older(r).fresh = b
      /\ Older(r).pc = req[r].pc /\ Older(r).number = req[r].number
      /\ Older(r).by = req[r].by /\ Older(r).proc = req[r].proc
  <2> HIDE DEF a, b
  <2> QED
    BY <1>1, <1>3 DEF RequestRows
<1> QED
  BY <1>4, <1>5

\* A tick: whoever gets stale with it is alone with those of its life, for
\* all that were stale before are a window old.
LEMMA BurstTick ==
    ASSUME LimiterAssumption, LimiterInv, BurstInv, Tick
    PROVE  BurstInv'
<1>1. /\ Numbered /\ StaleAged /\ StaleDistinct /\ Dealt /\ Distinct /\ KeyInv
  BY DEF BurstInv, LimiterInv
<1>2. /\ ttl' = IF ttl > 1 THEN ttl - 1 ELSE Never
      /\ \A p \in Procs : memory'[p] = Aged(memory[p])
      /\ \A r \in Requests : req'[r] = Older(r)
      /\ WindowSeconds \in Nat \ {0} /\ ttl \in {Never} \cup 1..WindowSeconds
  BY Facts DEF Tick
<1>3. ASSUME NEW r \in Requests, req'[r].pc # "idle"
      PROVE  /\ req[r].pc # "idle" /\ req'[r].number = req[r].number
             /\ req'[r].by = req[r].by /\ req'[r].proc = req[r].proc
             /\ req[r].by \in {"redis", "memory"} /\ req[r].proc \in Procs
             /\ req[r].age \in 0..WindowSeconds
             /\ req'[r].age = IF req[r].age < WindowSeconds THEN req[r].age + 1
                              ELSE req[r].age
             /\ req'[r].fresh = (req[r].fresh /\ ~Outlived(r))
  <2>1. req'[r] = Older(r)
    BY <1>2
  <2>2. Older(r).pc = req[r].pc
    BY <1>3, <2>1, OlderAge
  <2>3. req[r].by \in {"redis", "memory"} /\ req[r].proc \in Procs
    BY <1>3, <2>1, <2>2, Facts DEF RequestRows
  <2> QED
    BY <1>3, <2>1, <2>2, <2>3, OlderAge
<1>4. \A p \in Procs : /\ memory[p].left \in 0..WindowSeconds
                       /\ memory'[p].left = IF memory[p].left > 1
                                            THEN memory[p].left - 1 ELSE 0
  <2>1. ASSUME NEW p \in Procs
        PROVE  /\ memory[p].left \in 0..WindowSeconds
               /\ Aged(memory[p]).left = IF memory[p].left > 1
                                         THEN memory[p].left - 1 ELSE 0
    BY Facts DEF Records, Aged, NoRecord
  <2> QED
    BY <1>2, <2>1
<1>5. Numbered'
  BY <1>1, <1>3 DEF Numbered
\* Whose life goes on, or ended before, is stale only if it was.
<1>6. ASSUME NEW r \in Requests, Stale(r)', ~Stale(r)
      PROVE  /\ req[r].fresh /\ Outlived(r)
             /\ req[r].by = "redis" => ttl = 1
             /\ req[r].by = "memory" => memory[req[r].proc].left = 1
  <2>1. req[r].pc # "idle" /\ req[r].fresh /\ Outlived(r)
    BY <1>3, <1>6 DEF Stale
  <2>2. req[r].by = "redis" => ttl = 1
    BY <2>1 DEF Outlived
  <2>3. ASSUME req[r].by = "memory" PROVE memory[req[r].proc].left = 1
    <3>1. req[r].proc \in Procs
      BY <1>3, <1>6 DEF Stale
    <3>2. /\ memory[req[r].proc].left <= 1 /\ memory[req[r].proc].left \in Nat
          /\ memory[req[r].proc].count \in Nat
      BY <2>1, <2>3, <3>1, Facts DEF Outlived, Records
    <3>3. memory[req[r].proc].left # 0
      <4>1. req[r].number > 0 /\ req[r].number <= memory[req[r].proc].count
        BY <1>1, <2>1, <2>3 DEF Dealt
      <4>2. req[r].number \in Nat
        BY Facts DEF RequestRows
      <4>3. memory[req[r].proc].count # 0
        BY <3>2, <4>1, <4>2
      <4> QED
        BY <1>1, <3>1, <4>3 DEF KeyInv
    <3> QED
      BY <3>2, <3>3
  <2> QED
    BY <2>1, <2>2, <2>3
<1>7. StaleAged'
  <2>1. SUFFICES ASSUME NEW r \in Requests, Stale(r)' PROVE Outliving(r)'
    BY DEF StaleAged
  <2>2. req'[r].pc # "idle"
    BY <2>1 DEF Stale
  <2>3. CASE Stale(r)
    <3>1. Outliving(r)
      BY <1>1, <2>3 DEF StaleAged
    <3>2. ASSUME req[r].by = "redis"
          PROVE  ttl' = Never \/ req'[r].age + ttl' >= WindowSeconds
      <4>1. ttl = Never \/ req[r].age + ttl >= WindowSeconds
        BY <3>1, <3>2 DEF Outliving
      <4>2. CASE ttl = Never
        BY <1>2, <4>2 DEF Never
      <4>3. CASE ttl # Never /\ req[r].age + ttl >= WindowSeconds
        BY <1>2, <1>3, <2>2, <4>3
      <4> QED
        BY <4>1, <4>2, <4>3
    <3>3. ASSUME req[r].by = "memory"
          PROVE  \/ memory'[req[r].proc].left = 0
                 \/ req'[r].age + memory'[req[r].proc].left >= WindowSeconds
      <4>1. \/ memory[req[r].proc].left = 0
            \/ req[r].age + memory[req[r].proc].left >= WindowSeconds
        BY <3>1, <3>3 DEF Outliving
      <4> QED
        BY <1>2, <1>3, <1>4, <2>2, <4>1
    <3> QED
      BY <1>3, <2>2, <3>2, <3>3 DEF Outliving
  <2>4. CASE ~Stale(r)
    <3>1. /\ req[r].by = "redis" => ttl = 1
          /\ req[r].by = "memory" => memory[req[r].proc].left = 1
      BY <1>6, <2>1, <2>4
    <3>2. ttl = 1 => ttl' = Never
      BY <1>2
    <3>3. \A p \in Procs : memory[p].left = 1 => memory'[p].left = 0
      BY <1>4
    <3> QED
      BY <1>3, <2>2, <3>1, <3>2, <3>3 DEF Outliving
  <2> QED
    BY <2>3, <2>4
<1>8. StaleDistinct'
  <2>1. SUFFICES ASSUME NEW r \in Requests, NEW s \in Requests, r # s,
                        Stale(r)', Stale(s)', SameSource(r, s)',
                        req'[r].age < WindowSeconds, req'[s].age < WindowSeconds,
                        req'[r].number <= MaxRequests
                 PROVE  req'[r].number # req'[s].number
    BY DEF StaleDistinct
  <2>2. /\ req'[r].pc # "idle" /\ req'[s].pc # "idle"
        /\ req[r].age < WindowSeconds /\ req[s].age < WindowSeconds
        /\ req[r].age + 1 < WindowSeconds /\ req[s].age + 1 < WindowSeconds
    BY <1>2, <1>3, <2>1 DEF Stale
  <2>3. /\ SameSource(r, s) /\ req'[r].number = req[r].number
        /\ req'[s].number = req[s].number
    BY <1>3, <2>1, <2>2 DEF SameSource
  \* One that was stale before is a window old if the other's life ends now.
  <2>4. ASSUME NEW x \in {r, s}, NEW y \in {r, s}, Stale(x), ~Stale(y)
        PROVE  FALSE
    <3>1. /\ Outliving(x) /\ SameSource(x, y) /\ req[x].age + 1 < WindowSeconds
          /\ req[x].age \in Nat
          /\ req[x].by \in {"redis", "memory"}
          /\ req[y].by = "redis" => ttl = 1
          /\ req[y].by = "memory" => memory[req[y].proc].left = 1
      BY <1>1, <1>3, <1>6, <2>1, <2>2, <2>3, <2>4 DEF StaleAged, SameSource
    <3>2. CASE req[x].by = "redis"
      BY <1>2, <3>1, <3>2 DEF Outliving, SameSource, Never
    <3>3. CASE req[x].by = "memory"
      BY <1>2, <3>1, <3>3 DEF Outliving, SameSource
    <3> QED
      BY <3>1, <3>2, <3>3
  <2>5. CASE Stale(r) /\ Stale(s)
    BY <1>1, <2>1, <2>2, <2>3, <2>5 DEF StaleDistinct
  <2>6. CASE ~Stale(r) /\ ~Stale(s)
    <3>1. req[r].fresh /\ req[s].fresh
      BY <1>6, <2>1, <2>6
    <3> QED
      BY <1>1, <2>1, <2>3, <3>1 DEF Distinct
  <2> QED
    BY <2>4, <2>5, <2>6
<1> QED
  BY <1>5, <1>7, <1>8 DEF BurstInv

\* Every step keeps BurstInv.
LEMMA BurstStep ==
    ASSUME LimiterAssumption, LimiterInv, LimiterInv', BurstInv, [Next]_vars
    PROVE  BurstInv'
<1>0. /\ req \in [Requests -> RequestRows] /\ memory \in [Procs -> Records]
      /\ Idle.pc = "idle" /\ NoRecord.left = 0
  BY Facts DEF Idle, NoRecord
<1>1. ASSUME NEW r \in Requests, NEW p \in Procs, Incr(r, p) PROVE BurstInv'
  <2>1. \A s \in Requests : (s = r /\ req'[s].fresh) \/ req'[s] = req[s]
    BY <1>0, <1>1 DEF Incr
  <2>2. ttl' = ttl /\ memory' = memory
    BY <1>1 DEF Incr
  <2> QED
    BY <2>1, <2>2, StaleKept
<1>2. ASSUME NEW r \in Requests, NEW p \in Procs, ConsumeMemory(r, p)
      PROVE  BurstInv'
  <2>1. \A s \in Requests : (s = r /\ req'[s].fresh) \/ req'[s] = req[s]
    BY <1>0, <1>2 DEF ConsumeMemory
  <2>2. ttl' = ttl /\ memory' = [memory EXCEPT ![p] = Counted(memory[p])]
    BY <1>2 DEF ConsumeMemory
  <2>3. Counted(memory[p]).left \in {memory[p].left, WindowSeconds}
    BY <1>0 DEF Counted, Records
  <2>4. \A q \in Procs : memory'[q].left \in {memory[q].left, WindowSeconds, 0}
    BY <1>0, <2>2, <2>3
  <2> QED
    BY <2>1, <2>2, <2>4, StaleKept
<1>3. ASSUME NEW r \in Requests, Expire(r) \/ Decide(r) PROVE BurstInv'
  <2>1. \E pc : req' = [req EXCEPT ![r].pc = pc]
    BY <1>3 DEF Expire, Decide
  <2>2. /\ req[r].pc # "idle" /\ memory' = memory
        /\ ttl' = ttl \/ ttl' = WindowSeconds
    BY <1>3 DEF Expire, Decide
  <2>3. \A s \in Requests :
          /\ s # r => req'[s] = req[s]
          /\ req'[s].fresh = req[s].fresh /\ req'[s].number = req[s].number
          /\ req'[s].by = req[s].by /\ req'[s].proc = req[s].proc
          /\ req'[s].age = req[s].age
    BY <1>0, <2>1 DEF RequestRows
  <2>4. \A s \in Requests : req[s].pc = "idle" => req'[s] = req[s]
    BY <2>2, <2>3
  <2> QED
    BY <2>2, <2>3, <2>4, StaleKept
<1>4. ASSUME NEW p \in Procs, Disconnect(p) PROVE BurstInv'
  BY <1>4, StaleKept DEF Disconnect
<1>5. ASSUME NEW p \in Procs, Crash(p) PROVE BurstInv'
  <2>1. /\ ttl' = ttl /\ memory' = [memory EXCEPT ![p] = NoRecord]
        /\ \A s \in Requests : req'[s] = Idle \/ req'[s] = req[s]
    BY <1>5 DEF Crash
  <2>2. \A q \in Procs : memory'[q].left \in {memory[q].left, WindowSeconds, 0}
    BY <1>0, <2>1
  <2> QED
    BY <1>0, <2>1, <2>2, StaleKept
<1>6. CASE Tick
  BY <1>6, BurstTick
<1>7. CASE UNCHANGED vars
  BY <1>7, StaleKept DEF vars
<1>8. ASSUME NEW r \in Requests, FallBack(r) PROVE BurstInv'
  <2>1. req[r].proc \in Procs /\ ConsumeMemory(r, req[r].proc)
    BY <1>8, Facts DEF FallBack, InFlight
  <2> QED
    BY <1>2, <2>1
<1>9. CASE Next
  <2>1. ASSUME NEW r \in Requests, NEW p \in Procs, ArriveOffline(r, p)
        PROVE  BurstInv'
    BY <1>2, <2>1 DEF ArriveOffline
  <2> QED
    BY <1>1, <1>3, <1>4, <1>5, <1>6, <1>8, <1>9, <2>1, StepCases
<1> QED
  BY <1>7, <1>9

\* What a window sees of a source are the numbers of two lives: the one that
\* goes on, and the last one that ended.
LEMMA TwoLives ==
    ASSUME LimiterAssumption, LimiterInv, BurstInv
    PROVE  BurstBound
<1>1. SUFFICES ASSUME NEW source \in {"redis"} \cup Procs
               PROVE  Cardinality(Admitted(source)) <= 2 * MaxRequests
  BY DEF BurstBound
<1> DEFINE fresh == {r \in Requests : /\ req[r].pc = "admitted" /\ req[r].fresh
                                      /\ Source(r) = source}
           stale == {r \in Admitted(source) : Stale(r)}
           f == [r \in stale |-> req[r].number]
           g == [r \in fresh |-> req[r].number]
<1>2. MaxRequests \in Nat /\ MaxRequests > 0
  BY Facts
<1>3. IsFiniteSet(1..MaxRequests) /\ Cardinality(1..MaxRequests) = MaxRequests
  BY <1>2, FS_Interval
<1>4. ASSUME NEW r \in Requests, NEW s \in Requests, req[r].pc = "admitted",
             req[s].pc = "admitted", Source(r) = source, Source(s) = source
      PROVE  SameSource(r, s)
  <2>1. req[r].by \in {"redis", "memory"} /\ req[s].by \in {"redis", "memory"}
    BY <1>4, Facts DEF RequestRows
  <2>2. req[r].proc \in Procs /\ req[s].proc \in Procs /\ "redis" \notin Procs
    BY <1>4, Facts DEF LimiterAssumption
  <2> QED
    BY <1>4, <2>1, <2>2 DEF SameSource, Source
<1>5. \A r \in Requests : req[r].pc = "admitted" => req[r].number \in 1..MaxRequests
  BY Facts DEF BurstInv, Numbered, LimiterInv, Honoured, RequestRows
<1>6. IsFiniteSet(stale) /\ Cardinality(stale) <= MaxRequests
  <2>1. \A r \in stale : /\ r \in Requests /\ req[r].pc = "admitted" /\ Source(r) = source
                         /\ Stale(r) /\ req[r].age < WindowSeconds
    BY DEF Admitted
  <2>2. ASSUME NEW r \in stale, NEW s \in stale, r # s
        PROVE  req[r].number # req[s].number
    BY <1>4, <1>5, <2>1, <2>2 DEF BurstInv, StaleDistinct
  <2>3. f \in Injection(stale, 1..MaxRequests)
    BY <1>5, <2>1, <2>2 DEF Injection, IsInjective
  <2> QED
    BY <1>3, <2>3, FS_Injection
<1>7. IsFiniteSet(fresh) /\ Cardinality(fresh) <= MaxRequests
  <2>1. ASSUME NEW r \in fresh, NEW s \in fresh, r # s
        PROVE  req[r].number # req[s].number
    BY <1>4, <1>5, <2>1 DEF LimiterInv, Distinct
  <2>2. g \in Injection(fresh, 1..MaxRequests)
    BY <1>5, <2>1 DEF Injection, IsInjective
  <2> QED
    BY <1>3, <2>2, FS_Injection
<1>8. Admitted(source) \subseteq fresh \cup stale
  BY DEF Admitted, Stale
<1>9. /\ IsFiniteSet(fresh \cup stale)
      /\ Cardinality(fresh \cup stale)
           = Cardinality(fresh) + Cardinality(stale) - Cardinality(fresh \cap stale)
  BY <1>6, <1>7, FS_Union
<1>10. Cardinality(Admitted(source)) <= Cardinality(fresh \cup stale)
  BY <1>8, <1>9, FS_Subset
<1>11. /\ Cardinality(fresh) \in Nat /\ Cardinality(stale) \in Nat
       /\ Cardinality(fresh \cap stale) \in Nat /\ Cardinality(fresh \cup stale) \in Nat
       /\ Cardinality(Admitted(source)) \in Nat
  <2>1. IsFiniteSet(fresh \cap stale) /\ IsFiniteSet(Admitted(source))
    BY <1>6, <1>8, <1>9, FS_Subset
  <2> QED
    BY <1>6, <1>7, <1>9, <2>1, FS_CardinalityType
<1> HIDE DEF fresh, stale
<1> QED
  BY <1>2, <1>6, <1>7, <1>9, <1>10, <1>11

\* In no stretch of a window's length does Redis, or the map of one process,
\* admit more than twice the limit.
THEOREM BurstCorrect ==
    ASSUME LimiterAssumption PROVE Spec => []BurstBound
<1>1. LimiterInv /\ LimiterInv' /\ BurstInv /\ [Next]_vars => BurstInv'
  BY BurstStep
<1>2. LimiterInv /\ BurstInv => BurstBound
  BY TwoLives
<1> QED
  BY <1>1, <1>2, BurstInit, LimiterCorrect, PTL DEF Spec

=============================================================================
