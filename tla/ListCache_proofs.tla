--------------------------- MODULE ListCache_proofs ---------------------------
(***************************************************************************)
(* Proofs about ListCache, for every number of processes, calls, changes   *)
(* and mishaps, every lifetime and every time a fill may take.             *)
(*                                                                         *)
(* An answer is recent because its age is bounded twice: a fill stores a   *)
(* list FillTime after its query at most, and an entry ages in step with   *)
(* the version it holds.  No deletion is needed for that, so the fact is   *)
(* proved of both keys, whatever becomes of the deletions.                 *)
(***************************************************************************)
EXTENDS ListCache, TLAPS

-----------------------------------------------------------------------------
(* Entries *)

\* What cacheSetJson stores.
LEMMA StoredEntry ==
    ASSUME CacheAssumption, NEW v \in Versions, version \in Versions
    PROVE  /\ Stored(v) \in Entries
           /\ Stored(v).version = v /\ Stored(v).left = Ttl
           /\ Stored(v).late <=> v < version
<1>1. Ttl \in 0..Ttl
  BY DEF CacheAssumption
<1>2. (v < version) \in BOOLEAN
  BY DEF Versions, CacheAssumption
<1> QED
  BY <1>1, <1>2 DEF Stored, Entries

\* What is not there.
LEMMA NoEntryEntry ==
    ASSUME CacheAssumption
    PROVE  NoEntry \in Entries /\ NoEntry.left = 0 /\ NoEntry.version = 0
BY DEF CacheAssumption, NoEntry, Entries, Versions

\* What a tick makes of an entry.
LEMMA AgedEntry ==
    ASSUME CacheAssumption, NEW e \in Entries
    PROVE  /\ Aged(e) \in Entries
           /\ Aged(e).left > 0 => /\ e.left > 0 /\ Aged(e).left = e.left - 1
                                  /\ Aged(e).version = e.version
                                  /\ Aged(e).late = e.late
           /\ Aged(e).version <= e.version
<1>1. CASE e.left > 1
  <2>1. Aged(e) = [e EXCEPT !.left = e.left - 1]
    BY <1>1 DEF Aged
  <2>2. e.left \in Nat /\ e.left - 1 \in 0..Ttl /\ e.version \in Nat
    BY <1>1 DEF Entries, Versions, CacheAssumption
  <2>3. Aged(e) \in Entries
    BY <2>1, <2>2 DEF Entries
  <2>4. /\ Aged(e).left = e.left - 1 /\ Aged(e).version = e.version
        /\ Aged(e).late = e.late
    BY <2>1 DEF Entries
  <2> QED
    BY <1>1, <2>2, <2>3, <2>4
<1>2. CASE ~(e.left > 1)
  <2>1. Aged(e) = NoEntry
    BY <1>2 DEF Aged
  <2> QED
    BY <2>1, NoEntryEntry DEF Entries, Versions, CacheAssumption
<1> QED
  BY <1>1, <1>2

-----------------------------------------------------------------------------
(* The invariant *)

\* Only superseded versions have an age.
GoneInv == \A v \in Versions : v >= version => gone[v] = 0

CacheInv == TypeOK /\ GoneInv /\ AnswersAreRecent

\* Every step is one of these.
LEMMA StepCases ==
    ASSUME Next,
           NEW P,
           ASSUME NEW f \in Fills, NEW p \in Procs, Hit(f, p) PROVE P,
           ASSUME NEW f \in Fills, NEW p \in Procs, Miss(f, p) PROVE P,
           ASSUME NEW f \in Fills, Query(f) PROVE P,
           ASSUME NEW f \in Fills, Keep(f) PROVE P,
           ASSUME NEW f \in Fills, Store(f) PROVE P,
           ASSUME NEW w \in Writers, NEW p \in Procs, Change(w, p) PROVE P,
           ASSUME NEW w \in Writers, Forget(w) PROVE P,
           ASSUME NEW w \in Writers, Delete(w) PROVE P,
           ASSUME NEW w \in Writers, SkipDelete(w) PROVE P,
           ASSUME NEW p \in Procs, Disconnect(p) PROVE P,
           ASSUME NEW p \in Procs, Crash(p) PROVE P,
           ASSUME Tick PROVE P
    PROVE  P
BY DEF Next, FillStep, WriterStep

\* A call of trending or list has no process unless it is under way, and one
\* that is just beginning or over holds version 0.
LEMMA IdleRows ==
    ASSUME CacheAssumption
    PROVE  /\ IdleFill \in FillRows /\ IdleFill.pc = "idle"
           /\ IdleFill.version = 0
           /\ IdleWriter \in WriterRows /\ IdleWriter.pc = "idle"
BY DEF CacheAssumption, IdleFill, IdleWriter, FillRows, WriterRows, Versions

\* One call's row is replaced.
LEMMA FillMoves ==
    ASSUME CacheInv, CacheAssumption, NEW f \in Fills, NEW n \in FillRows,
           fill' = [fill EXCEPT ![f] = n],
           n.pc # "idle" => n.proc # NoProc,
           n.version <= version,
           n.pc \in {"keep", "store"} => gone[n.version] <= n.age,
           UNCHANGED <<link, version, gone, writer, mishaps>>,
           missed' \in BOOLEAN,
           cache' \in Entries, cache'.version <= version, EntryIsRecent(cache)',
           memory' \in [Procs -> Entries],
           \A p \in Procs : memory'[p].version <= version /\ EntryIsRecent(memory[p])'
    PROVE  CacheInv'
<1>1. \A g \in Fills : fill'[g] = IF g = f THEN n ELSE fill[g]
  BY DEF CacheInv, TypeOK
<1>2. fill' \in [Fills -> FillRows]
  BY DEF CacheInv, TypeOK
<1>3. LinkTypeOK'
  BY DEF CacheInv, TypeOK, LinkTypeOK
<1>4. TypeOK'
  BY <1>1, <1>2, <1>3 DEF CacheInv, TypeOK
<1>5. \A g \in Fills : fill'[g].pc \in {"keep", "store"} =>
        gone'[fill'[g].version] <= fill'[g].age
  BY <1>1 DEF CacheInv, AnswersAreRecent
<1>6. AnswersAreRecent'
  BY <1>5 DEF AnswersAreRecent
<1>7. GoneInv'
  BY DEF CacheInv, GoneInv
<1> QED
  BY <1>4, <1>6, <1>7 DEF CacheInv

\* A change, its deletion or a mishap: entries stay or go, a call stays or is lost.
LEMMA WriterMoves ==
    ASSUME CacheInv, CacheAssumption, writer' \in [Writers -> WriterRows],
           \A w \in Writers : writer'[w].pc # "idle" => writer'[w].proc # NoProc,
           link' \in [Procs -> Links], mishaps' \in Nat, missed' \in BOOLEAN,
           version' \in Versions, version' >= version,
           UNCHANGED gone,
           \A f \in Fills : fill'[f] = fill[f] \/ fill'[f] = IdleFill,
           fill' \in [Fills -> FillRows],
           cache' = cache \/ cache' = NoEntry,
           memory' \in [Procs -> Entries],
           \A p \in Procs : memory'[p] = memory[p] \/ memory'[p] = NoEntry
    PROVE  CacheInv'
<1>0. /\ NoEntry \in Entries /\ NoEntry.left = 0 /\ NoEntry.version = 0
      /\ IdleFill.pc = "idle" /\ IdleFill.version = 0
      /\ version \in Nat /\ version' \in Nat /\ version' >= version
  BY NoEntryEntry, IdleRows DEF CacheInv, TypeOK, Versions, CacheAssumption
<1>1. /\ cache' \in Entries /\ cache'.version <= version'
      /\ EntryIsRecent(cache)'
  <2>1. CASE cache' = cache
    <3>1. cache.version \in Nat /\ cache.version <= version
      BY DEF CacheInv, TypeOK, Entries, Versions
    <3> QED
      BY <1>0, <2>1, <3>1 DEF CacheInv, TypeOK, AnswersAreRecent, EntryIsRecent
  <2>2. CASE cache' = NoEntry
    BY <1>0, <2>2 DEF EntryIsRecent
  <2> QED
    BY <2>1, <2>2
<1>2. ASSUME NEW p \in Procs
      PROVE  memory'[p].version <= version' /\ EntryIsRecent(memory[p])'
  <2>1. CASE memory'[p] = memory[p]
    <3>1. memory[p].version \in Nat /\ memory[p].version <= version
      BY DEF CacheInv, TypeOK, Entries, Versions
    <3>2. EntryIsRecent(memory[p])
      BY DEF CacheInv, AnswersAreRecent
    <3> QED
      BY <1>0, <2>1, <3>1, <3>2 DEF EntryIsRecent
  <2>2. CASE memory'[p] = NoEntry
    BY <1>0, <2>2 DEF EntryIsRecent
  <2> QED
    BY <2>1, <2>2
<1>3. ASSUME NEW f \in Fills
      PROVE  /\ fill'[f].version <= version'
             /\ fill'[f].pc # "idle" => fill'[f].proc # NoProc
             /\ fill'[f].pc \in {"keep", "store"} =>
                  gone'[fill'[f].version] <= fill'[f].age
  <2>1. CASE fill'[f] = fill[f]
    <3>1. fill[f].version \in Nat /\ fill[f].version <= version
      BY DEF CacheInv, TypeOK, FillRows, Versions
    <3> QED
      BY <1>0, <2>1, <3>1 DEF CacheInv, TypeOK, AnswersAreRecent
  <2>2. CASE fill'[f] = IdleFill
    BY <1>0, <2>2
  <2> QED
    BY <2>1, <2>2
<1>4. TypeOK'
  BY <1>1, <1>2, <1>3 DEF CacheInv, TypeOK, LinkTypeOK
<1>5. AnswersAreRecent'
  BY <1>1, <1>2, <1>3 DEF AnswersAreRecent
<1>6. GoneInv'
  BY <1>0 DEF CacheInv, GoneInv, Versions, CacheAssumption
<1> QED
  BY <1>4, <1>5, <1>6 DEF CacheInv

\* Time passes: an entry, and a fill, age as their version does.
LEMMA TickKeeps ==
    ASSUME CacheInv, CacheAssumption, Tick PROVE CacheInv'
<1> DEFINE Runs(f) == fill[f].pc \in {"keep", "store"}
<1>0. TypeOK /\ Ttl \in Nat /\ FillTime \in Nat /\ MaxVersion \in Nat
  BY DEF CacheInv, CacheAssumption
<1>1. /\ \A f \in Fills : Runs(f) => fill[f].age < FillTime
      /\ gone' = [v \in Versions |->
                    IF v < version /\ gone[v] < VeryOld THEN gone[v] + 1
                    ELSE gone[v]]
      /\ cache' = Aged(cache) /\ memory' = [p \in Procs |-> Aged(memory[p])]
      /\ fill' = [f \in Fills |-> IF Runs(f)
                                  THEN [fill[f] EXCEPT !.age = fill[f].age + 1]
                                  ELSE fill[f]]
      /\ UNCHANGED <<link, version, writer, missed, mishaps>>
  BY DEF Tick
<1>2. \A v \in Versions :
        /\ gone[v] \in Nat /\ gone'[v] \in Nat
        /\ gone[v] <= gone'[v] /\ gone'[v] <= gone[v] + 1
        /\ v >= version => gone'[v] = gone[v]
  BY <1>0, <1>1 DEF TypeOK, Versions
<1>3. ASSUME NEW f \in Fills
      PROVE  /\ fill'[f] \in FillRows
             /\ fill'[f].pc = fill[f].pc /\ fill'[f].proc = fill[f].proc
             /\ fill'[f].version = fill[f].version
             /\ Runs(f) => fill'[f].age = fill[f].age + 1
  <2>1. fill[f] \in FillRows
    BY <1>0 DEF TypeOK
  <2>2. CASE Runs(f)
    <3>1. fill[f].age + 1 \in 0..FillTime
      BY <1>0, <1>1, <2>1, <2>2 DEF FillRows
    <3>2. fill'[f] = [fill[f] EXCEPT !.age = fill[f].age + 1]
      BY <1>1, <2>2
    <3> QED
      BY <2>1, <3>1, <3>2 DEF FillRows
  <2>3. CASE ~Runs(f)
    BY <1>1, <2>1, <2>3
  <2> QED
    BY <2>2, <2>3
<1>4. ASSUME NEW e \in Entries, e.version <= version, EntryIsRecent(e)
      PROVE  /\ Aged(e) \in Entries /\ Aged(e).version <= version
             /\ Aged(e).left > 0 =>
                  gone'[Aged(e).version] + Aged(e).left <= Ttl + FillTime
  <2>1. /\ Aged(e) \in Entries
        /\ Aged(e).left > 0 => /\ e.left > 0 /\ Aged(e).left = e.left - 1
                               /\ Aged(e).version = e.version
        /\ Aged(e).version <= e.version
    BY AgedEntry
  <2>2. /\ e.version \in Versions /\ e.left \in Nat /\ Aged(e).version \in Nat
        /\ version \in Nat /\ e.version \in Nat
    BY <1>0, <2>1 DEF Entries, TypeOK, Versions
  <2>3. Aged(e).left > 0 =>
          gone'[Aged(e).version] + Aged(e).left <= Ttl + FillTime
    BY <1>0, <1>2, <1>4, <2>1, <2>2 DEF EntryIsRecent
  <2>4. Aged(e).version <= version
    BY <1>4, <2>1, <2>2
  <2> QED
    BY <2>1, <2>3, <2>4
<1>5. /\ cache' \in Entries /\ cache'.version <= version'
      /\ EntryIsRecent(cache)'
  BY <1>0, <1>1, <1>4 DEF CacheInv, TypeOK, AnswersAreRecent, EntryIsRecent
<1>6. \A p \in Procs : /\ memory'[p] \in Entries
                       /\ memory'[p].version <= version'
                       /\ EntryIsRecent(memory[p])'
  <2> TAKE p \in Procs
  <2>1. memory'[p] = Aged(memory[p])
    BY <1>1
  <2>2. /\ memory[p] \in Entries /\ memory[p].version <= version
        /\ EntryIsRecent(memory[p])
    BY <1>0 DEF TypeOK, CacheInv, AnswersAreRecent
  <2> QED
    BY <1>1, <1>4, <2>1, <2>2 DEF EntryIsRecent
<1>7. TypeOK'
  <2>1. gone' \in [Versions -> Nat] /\ fill' \in [Fills -> FillRows]
        /\ memory' \in [Procs -> Entries]
    BY <1>1, <1>2, <1>3, <1>6
  <2>2. LinkTypeOK'
    BY <1>0, <1>1 DEF TypeOK, LinkTypeOK
  <2> QED
    BY <1>0, <1>1, <1>3, <1>5, <1>6, <2>1, <2>2 DEF TypeOK
<1>8. AnswersAreRecent'
  <2>1. ASSUME NEW f \in Fills, Runs(f)
        PROVE  gone'[fill'[f].version] <= fill'[f].age
    <3>1. /\ fill[f].version \in Versions /\ fill[f].age \in Nat
          /\ gone[fill[f].version] <= fill[f].age
      BY <1>0, <2>1 DEF CacheInv, AnswersAreRecent, TypeOK, FillRows
    <3> QED
      BY <1>2, <1>3, <2>1, <3>1
  <2> QED
    BY <1>3, <1>5, <1>6, <2>1 DEF AnswersAreRecent
<1>9. GoneInv'
  BY <1>1, <1>2 DEF CacheInv, GoneInv
<1> QED
  BY <1>7, <1>8, <1>9 DEF CacheInv

\* The invariant holds at first,
LEMMA CacheInit == CacheAssumption /\ Init => CacheInv
<1> SUFFICES ASSUME CacheAssumption, Init PROVE CacheInv
  OBVIOUS
<1>1. /\ NoEntry \in Entries /\ NoEntry.left = 0 /\ NoEntry.version = 0
      /\ IdleFill \in FillRows /\ IdleFill.pc = "idle" /\ IdleFill.version = 0
      /\ IdleWriter \in WriterRows /\ IdleWriter.pc = "idle"
  BY NoEntryEntry, IdleRows
<1>2. 0 \in Versions /\ BootLinks \subseteq Links
  BY DEF Versions, CacheAssumption, BootLinks, Links
<1>3. TypeOK
  <2>1. LinkTypeOK
    BY <1>2 DEF Init, LinkInit, LinkTypeOK
  <2>2. gone \in [Versions -> Nat] /\ version \in Versions
    BY <1>2 DEF Init
  <2>3. /\ cache \in Entries /\ memory \in [Procs -> Entries]
        /\ fill \in [Fills -> FillRows] /\ writer \in [Writers -> WriterRows]
    BY <1>1 DEF Init
  <2>4. /\ \A f \in Fills : fill[f].pc = "idle" /\ fill[f].version <= version
        /\ \A w \in Writers : writer[w].pc = "idle"
        /\ \A p \in Procs : memory[p].version <= version
        /\ cache.version <= version
    BY <1>1 DEF Init
  <2>5. missed \in BOOLEAN /\ mishaps \in Nat
    BY DEF Init
  <2> QED
    BY <2>1, <2>2, <2>3, <2>4, <2>5 DEF TypeOK
<1>4. AnswersAreRecent
  BY <1>1 DEF Init, AnswersAreRecent, EntryIsRecent
<1>5. GoneInv
  BY DEF Init, GoneInv
<1> QED
  BY <1>3, <1>4, <1>5 DEF CacheInv

\* and every step keeps it.
LEMMA CacheStep ==
    ASSUME CacheInv, CacheAssumption, [Next]_vars PROVE CacheInv'
<1>0. /\ TypeOK /\ version \in Versions /\ version \in Nat
      /\ NoEntry \in Entries /\ IdleFill \in FillRows
      /\ IdleWriter \in WriterRows /\ IdleWriter.pc = "idle"
      /\ IdleFill.pc = "idle" /\ IdleFill.version = 0 /\ version >= version
      /\ IdleFill.version <= version
  BY NoEntryEntry, IdleRows DEF CacheInv, TypeOK, Versions, CacheAssumption
<1>1. /\ cache \in Entries /\ cache.version <= version /\ EntryIsRecent(cache)
      /\ memory \in [Procs -> Entries]
      /\ \A p \in Procs :
           memory[p].version <= version /\ EntryIsRecent(memory[p])
  BY <1>0 DEF TypeOK, CacheInv, AnswersAreRecent
<1>2. \A f \in Fills :
        /\ fill[f] \in FillRows /\ fill[f].version \in Versions
        /\ fill[f].version <= version
        /\ fill[f].pc # "idle" => fill[f].proc \in Procs
        /\ fill[f].pc \in {"keep", "store"} =>
             gone[fill[f].version] <= fill[f].age
  BY <1>0 DEF TypeOK, CacheInv, AnswersAreRecent, FillRows
\* What a fill stores is recent.
<1>3. ASSUME NEW f \in Fills, fill[f].pc \in {"keep", "store"}
      PROVE  /\ Stored(fill[f].version) \in Entries
             /\ Stored(fill[f].version).version <= version
             /\ EntryIsRecent(Stored(fill[f].version))
  <2> DEFINE v == fill[f].version
  <2>1. /\ Stored(v) \in Entries /\ Stored(v).version = v
        /\ Stored(v).left = Ttl
    BY <1>0, <1>2, StoredEntry
  <2>2. /\ gone[v] \in Nat /\ fill[f].age \in 0..FillTime
        /\ gone[v] <= fill[f].age
    BY <1>0, <1>2, <1>3 DEF TypeOK, FillRows
  <2>3. gone[v] + Ttl <= Ttl + FillTime
    BY <2>2 DEF CacheAssumption
  <2> QED
    BY <1>2, <2>1, <2>3 DEF EntryIsRecent
<1>4. CASE UNCHANGED vars
  <2>1. TypeOK' /\ GoneInv'
    BY <1>0, <1>4 DEF vars, TypeOK, LinkTypeOK, CacheInv, GoneInv
  <2>2. AnswersAreRecent'
    BY <1>4 DEF vars, CacheInv, AnswersAreRecent, EntryIsRecent
  <2> QED
    BY <2>1, <2>2 DEF CacheInv
<1>5. ASSUME NEW f \in Fills, NEW p \in Procs, Miss(f, p) PROVE CacheInv'
  <2> DEFINE n == [IdleFill EXCEPT !.pc = "read", !.proc = p]
  <2>1. /\ n \in FillRows /\ n.pc = "read" /\ n.proc = p
        /\ n.version <= version
    BY <1>0 DEF FillRows
  <2>2. /\ fill' = [fill EXCEPT ![f] = n]
        /\ UNCHANGED <<link, version, gone, cache, memory, writer, missed, mishaps>>
    BY <1>5 DEF Miss
  <2>3. p # NoProc /\ missed' \in BOOLEAN
    BY <1>0, <2>2 DEF CacheAssumption, TypeOK
  <2>4. EntryIsRecent(cache)' /\ \A q \in Procs : EntryIsRecent(memory[q])'
    BY <1>1, <2>2 DEF EntryIsRecent
  <2> HIDE DEF n
  <2> QED
    BY <1>0, <1>1, <2>1, <2>2, <2>3, <2>4, FillMoves
<1>6. ASSUME NEW f \in Fills, Query(f) PROVE CacheInv'
  <2> DEFINE n == [fill[f] EXCEPT !.pc = "keep", !.version = version, !.age = 0]
  <2>1. /\ n \in FillRows /\ n.pc = "keep" /\ n.proc = fill[f].proc
        /\ n.version = version /\ n.age = 0
    <3>1. 0 \in 0..FillTime /\ fill[f] \in FillRows
      BY <1>2 DEF CacheAssumption
    <3> QED
      BY <1>0, <3>1 DEF FillRows
  <2>2. /\ fill' = [fill EXCEPT ![f] = n] /\ fill[f].pc = "read"
        /\ UNCHANGED <<link, version, gone, cache, memory, writer, missed, mishaps>>
    BY <1>6 DEF Query
  <2>3. n.proc # NoProc /\ missed' \in BOOLEAN /\ gone[n.version] <= n.age
    BY <1>0, <1>2, <2>1, <2>2 DEF CacheAssumption, TypeOK, CacheInv, GoneInv
  <2>4. EntryIsRecent(cache)' /\ \A q \in Procs : EntryIsRecent(memory[q])'
    BY <1>1, <2>2 DEF EntryIsRecent
  <2> HIDE DEF n
  <2> QED
    BY <1>0, <1>1, <2>1, <2>2, <2>3, <2>4, FillMoves
<1>7. ASSUME NEW f \in Fills, Keep(f) PROVE CacheInv'
  <2> DEFINE n == [fill[f] EXCEPT !.pc = "store"]
  <2>1. /\ n \in FillRows /\ n.pc = "store" /\ n.proc = fill[f].proc
        /\ n.version = fill[f].version /\ n.age = fill[f].age
    BY <1>2 DEF FillRows
  <2>2. /\ fill' = [fill EXCEPT ![f] = n] /\ fill[f].pc = "keep"
        /\ memory' = [memory EXCEPT ![fill[f].proc] = Stored(fill[f].version)]
        /\ UNCHANGED <<link, version, gone, cache, writer, missed, mishaps>>
    BY <1>7 DEF Keep
  <2>3. n.proc # NoProc /\ missed' \in BOOLEAN
    BY <1>0, <1>2, <2>1, <2>2 DEF CacheAssumption, TypeOK
  <2>4. EntryIsRecent(cache)'
    BY <1>1, <2>2 DEF EntryIsRecent
  <2>5. \A q \in Procs : \/ memory'[q] = memory[q]
                         \/ memory'[q] = Stored(fill[f].version)
    BY <1>1, <2>2
  <2>6. /\ memory' \in [Procs -> Entries]
        /\ \A q \in Procs :
             memory'[q].version <= version /\ EntryIsRecent(memory[q])'
    BY <1>1, <1>3, <2>2, <2>5 DEF EntryIsRecent
  <2> HIDE DEF n
  <2> QED
    BY <1>0, <1>1, <1>2, <2>1, <2>2, <2>3, <2>4, <2>6, FillMoves
<1>8. ASSUME NEW f \in Fills, Store(f) PROVE CacheInv'
  <2>1. /\ fill' = [fill EXCEPT ![f] = IdleFill] /\ fill[f].pc = "store"
        /\ cache' = Stored(fill[f].version) \/ cache' = cache
        /\ missed' = FALSE \/ missed' = missed
        /\ UNCHANGED <<link, version, gone, memory, writer, mishaps>>
    BY <1>8 DEF Store
  <2>2. /\ missed' \in BOOLEAN /\ cache' \in Entries
        /\ cache'.version <= version /\ EntryIsRecent(cache)'
    BY <1>0, <1>1, <1>3, <2>1 DEF TypeOK, EntryIsRecent
  <2>3. \A q \in Procs : EntryIsRecent(memory[q])'
    BY <1>1, <2>1 DEF EntryIsRecent
  <2> QED
    BY <1>0, <1>1, <2>1, <2>2, <2>3, FillMoves
<1>9. ASSUME NEW w \in Writers, NEW p \in Procs, Change(w, p) PROVE CacheInv'
  <2> DEFINE n == [pc |-> AfterChange, proc |-> p]
  <2>1. n \in WriterRows /\ n.proc # NoProc
    BY DEF WriterRows, AfterChange, CacheAssumption
  <2>2. /\ writer' = [writer EXCEPT ![w] = n] /\ version' = version + 1
        /\ version < MaxVersion
        /\ UNCHANGED <<link, gone, cache, memory, fill, missed, mishaps>>
    BY <1>9 DEF Change
  <2>3. version' \in Versions /\ version' >= version
    BY <1>0, <2>2 DEF Versions, CacheAssumption
  <2> HIDE DEF n
  <2>4. /\ writer' \in [Writers -> WriterRows]
        /\ \A v \in Writers : writer'[v].pc # "idle" => writer'[v].proc # NoProc
    BY <1>0, <2>1, <2>2 DEF TypeOK
  <2> QED
    BY <1>0, <2>2, <2>3, <2>4, WriterMoves DEF TypeOK, LinkTypeOK
<1>10. ASSUME NEW w \in Writers, Forget(w) PROVE CacheInv'
  <2> DEFINE n == [writer[w] EXCEPT !.pc = "delete"]
  <2>1. /\ n \in WriterRows /\ n.proc = writer[w].proc /\ writer[w].pc = "forget"
        /\ writer[w].proc # NoProc
    BY <1>0, <1>10 DEF WriterRows, TypeOK, Forget
  <2>2. /\ writer' = [writer EXCEPT ![w] = n]
        /\ memory' = [memory EXCEPT ![writer[w].proc] = NoEntry]
        /\ UNCHANGED <<link, version, gone, cache, fill, missed, mishaps>>
    BY <1>10 DEF Forget
  <2> HIDE DEF n
  <2>3. /\ writer' \in [Writers -> WriterRows]
        /\ \A v \in Writers : writer'[v].pc # "idle" => writer'[v].proc # NoProc
    BY <1>0, <2>1, <2>2 DEF TypeOK
  <2>4. /\ memory' \in [Procs -> Entries]
        /\ \A p \in Procs : memory'[p] = memory[p] \/ memory'[p] = NoEntry
    BY <1>0, <2>2 DEF TypeOK
  <2> QED
    BY <1>0, <2>2, <2>3, <2>4, WriterMoves DEF TypeOK, LinkTypeOK
<1>11. ASSUME NEW w \in Writers, Delete(w) \/ SkipDelete(w) PROVE CacheInv'
  <2>1. /\ writer' = [writer EXCEPT ![w] = IdleWriter]
        /\ cache' = cache \/ cache' = NoEntry
        /\ missed' \in BOOLEAN /\ mishaps' \in Nat
        /\ UNCHANGED <<link, version, gone, memory, fill>>
    <3>1. CASE Delete(w)
      BY <1>0, <3>1 DEF Delete, TypeOK
    <3>2. CASE SkipDelete(w)
      BY <1>0, <3>2 DEF SkipDelete, Mishap, TypeOK
    <3> QED
      BY <1>11, <3>1, <3>2
  <2>2. /\ writer' \in [Writers -> WriterRows]
        /\ \A v \in Writers : writer'[v].pc # "idle" => writer'[v].proc # NoProc
    BY <1>0, <2>1 DEF TypeOK
  <2> QED
    BY <1>0, <2>1, <2>2, WriterMoves DEF TypeOK, LinkTypeOK
<1>12. ASSUME NEW p \in Procs, Disconnect(p) PROVE CacheInv'
  <2>1. /\ link' \in [Procs -> Links] /\ mishaps' \in Nat
        /\ UNCHANGED <<version, gone, cache, memory, fill, writer, missed>>
    BY <1>0, <1>12 DEF Disconnect, Mishap, LoseLink, TypeOK, LinkTypeOK, Links
  <2> QED
    BY <1>0, <2>1, WriterMoves DEF TypeOK
<1>13. ASSUME NEW p \in Procs, Crash(p) PROVE CacheInv'
  <2>1. /\ link' \in [Procs -> Links] /\ mishaps' \in Nat /\ missed' \in BOOLEAN
        /\ UNCHANGED <<version, gone, cache>>
    BY <1>0, <1>13 DEF Crash, Mishap, Reboot, BootLinks, TypeOK, LinkTypeOK, Links
  <2>2. /\ memory' = [memory EXCEPT ![p] = NoEntry]
        /\ fill' = [f \in Fills |-> IF fill[f].proc = p THEN IdleFill ELSE fill[f]]
        /\ writer' = [w \in Writers |->
                        IF writer[w].proc = p THEN IdleWriter ELSE writer[w]]
    BY <1>13 DEF Crash
  <2>3. /\ memory' \in [Procs -> Entries]
        /\ \A q \in Procs : memory'[q] = memory[q] \/ memory'[q] = NoEntry
    BY <1>0, <2>2 DEF TypeOK
  <2>4. /\ fill' \in [Fills -> FillRows]
        /\ \A f \in Fills : fill'[f] = fill[f] \/ fill'[f] = IdleFill
    BY <1>0, <2>2 DEF TypeOK
  <2>5. /\ writer' \in [Writers -> WriterRows]
        /\ \A w \in Writers : writer'[w].pc # "idle" => writer'[w].proc # NoProc
    BY <1>0, <2>2 DEF TypeOK
  <2> QED
    BY <1>0, <2>1, <2>3, <2>4, <2>5, WriterMoves
<1>14. ASSUME NEW f \in Fills, NEW p \in Procs, Hit(f, p) PROVE CacheInv'
  BY <1>4, <1>14 DEF Hit
<1> QED
  BY <1>4, <1>5, <1>6, <1>7, <1>8, <1>9, <1>10, <1>11, <1>12, <1>13, <1>14,
     TickKeeps, StepCases

\* Nothing cached or about to be is too old, or of a version still to come.
THEOREM CacheCorrect == ASSUME CacheAssumption PROVE Spec => []CacheInv
<1>1. CacheInv /\ [Next]_vars => CacheInv'
  BY CacheStep
<1> QED
  BY <1>1, CacheInit, PTL DEF Spec

\* Types.
THEOREM CacheTypeCorrect == ASSUME CacheAssumption PROVE Spec => []TypeOK
<1>1. CacheInv => TypeOK
  BY DEF CacheInv
<1> QED
  BY <1>1, CacheCorrect, PTL

\* No answer is older than a lifetime and the time of a fill.
THEOREM RecentCorrect ==
    ASSUME CacheAssumption PROVE Spec => []AnswersAreRecent
<1>1. CacheInv => AnswersAreRecent
  BY DEF CacheInv
<1> QED
  BY <1>1, CacheCorrect, PTL

\* Why the reasons of StaleHasReason are complete: a change is followed by its
\* deletion, and a stale list that is stored is marked as late.
LEMMA StaleStep ==
    ASSUME CacheInv, CacheAssumption, Key = "trending", StaleHasReason,
           [Next]_vars
    PROVE  StaleHasReason'
<1>0. TypeOK /\ version \in Nat /\ cache \in Entries
  BY DEF CacheInv, TypeOK, Versions, CacheAssumption
<1>1. ASSUME UNCHANGED <<version, cache, writer, missed>>
      PROVE  StaleHasReason'
  BY <1>1 DEF StaleHasReason
<1>2. CASE UNCHANGED vars
  BY <1>1, <1>2 DEF vars
<1>3. ASSUME NEW f \in Fills, Store(f) PROVE StaleHasReason'
  <2>1. UNCHANGED <<version, writer>>
    BY <1>3 DEF Store
  <2>2. CASE UNCHANGED <<cache, missed>>
    BY <1>1, <2>1, <2>2
  <2>3. CASE cache' = Stored(fill[f].version)
    <3>1. fill[f].version \in Versions
      BY <1>0 DEF TypeOK, FillRows
    <3>2. cache'.version = fill[f].version
          /\ (cache'.late <=> fill[f].version < version)
      BY <1>0, <2>3, <3>1, StoredEntry DEF TypeOK
    <3> QED
      BY <2>1, <3>2 DEF StaleHasReason
  <2> QED
    BY <1>3, <2>2, <2>3 DEF Store
<1>4. ASSUME NEW w \in Writers, NEW p \in Procs, Change(w, p)
      PROVE  StaleHasReason'
  <2>1. writer'[w].pc # "idle"
    BY <1>0, <1>4 DEF Change, AfterChange, TypeOK
  <2> QED
    BY <2>1 DEF StaleHasReason
<1>5. ASSUME NEW w \in Writers, Forget(w) PROVE StaleHasReason'
  <2>1. writer' = [writer EXCEPT ![w].pc = "delete"]
        /\ UNCHANGED <<version, cache, missed>>
    BY <1>5 DEF Forget
  <2>2. writer'[w].pc = "delete"
    BY <1>0, <2>1 DEF TypeOK, WriterRows
  <2> QED
    BY <2>2 DEF StaleHasReason
<1>6. ASSUME NEW w \in Writers, Delete(w) PROVE StaleHasReason'
  <2>1. CASE cache' = NoEntry
    BY <2>1, NoEntryEntry DEF StaleHasReason
  <2>2. CASE missed' = TRUE
    BY <2>2 DEF StaleHasReason
  <2> QED
    BY <1>6, <2>1, <2>2 DEF Delete
<1>7. ASSUME NEW w \in Writers, SkipDelete(w) PROVE StaleHasReason'
  BY <1>7 DEF SkipDelete, StaleHasReason
<1>8. ASSUME NEW p \in Procs, Crash(p) PROVE StaleHasReason'
  <2>1. /\ UNCHANGED <<version, cache>>
        /\ writer' = [w \in Writers |->
                        IF writer[w].proc = p THEN IdleWriter ELSE writer[w]]
        /\ missed' = (missed \/ \E w \in Writers : /\ writer[w].proc = p
                                                   /\ writer[w].pc # "idle")
    BY <1>8 DEF Crash
  <2>2. ASSUME NEW w \in Writers, writer[w].pc # "idle"
        PROVE  missed' \/ writer'[w].pc # "idle"
    <3>1. CASE writer[w].proc = p
      BY <2>1, <2>2, <3>1
    <3>2. CASE writer[w].proc # p
      BY <2>1, <2>2, <3>2
    <3> QED
      BY <3>1, <3>2
  <2>3. missed => missed'
    BY <2>1
  <2> QED
    BY <2>1, <2>2, <2>3 DEF StaleHasReason
<1>9. CASE Tick
  <2>1. /\ cache' = Aged(cache) /\ UNCHANGED <<version, writer, missed>>
    BY <1>9 DEF Tick
  <2>2. cache'.left > 0 => /\ cache.left > 0 /\ cache'.version = cache.version
                           /\ cache'.late = cache.late
    BY <1>0, <2>1, AgedEntry
  <2> QED
    BY <2>1, <2>2 DEF StaleHasReason
<1>10. ASSUME NEW f \in Fills, NEW p \in Procs, Hit(f, p) \/ Miss(f, p)
       PROVE  StaleHasReason'
  BY <1>1, <1>10 DEF Hit, Miss, vars
<1>11. ASSUME NEW f \in Fills, Query(f) \/ Keep(f) PROVE StaleHasReason'
  BY <1>1, <1>11 DEF Query, Keep
<1>12. ASSUME NEW p \in Procs, Disconnect(p) PROVE StaleHasReason'
  BY <1>1, <1>12 DEF Disconnect
<1> QED
  BY <1>2, <1>3, <1>4, <1>5, <1>6, <1>7, <1>8, <1>9, <1>10, <1>11, <1>12,
     StepCases

\* Of the trending list: a superseded one is in Redis only for a reason.
THEOREM StaleCorrect ==
    ASSUME CacheAssumption, Key = "trending" PROVE Spec => []StaleHasReason
<1>1. Init => StaleHasReason
  BY NoEntryEntry DEF Init, StaleHasReason
<1>2. CacheInv /\ StaleHasReason /\ [Next]_vars => StaleHasReason'
  BY StaleStep
<1> QED
  BY <1>1, <1>2, CacheCorrect, PTL DEF Spec

=============================================================================
