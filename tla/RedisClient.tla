----------------------------- MODULE RedisClient -----------------------------
(***************************************************************************)
(* The ioredis client each process of the backend keeps (config/redis.ts), *)
(* as its users see it: the cache, the rate limiter and the queues ask     *)
(* isRedisReady and then send a command.                                   *)
(*                                                                         *)
(* initializeRedis runs once in a process, so the flag it sets is what the *)
(* process believes for the rest of its life.  The client neither          *)
(* reconnects (retryStrategy gives null) nor queues commands while it is   *)
(* disconnected (enableOfflineQueue is false): after a lost connection     *)
(* every command is rejected at once.                                      *)
(***************************************************************************)
CONSTANT Procs      \* the processes

VARIABLE link       \* per process: the state of its client

\* "off": the connection failed at start.  "lost": it failed later.
Links == {"off", "up", "lost"}

LinkTypeOK == link \in [Procs -> Links]

\* What initializeRedis may find when the process starts.
BootLinks == {"off", "up"}

LinkInit == link \in [Procs -> BootLinks]

IsRedisReady(p) == link[p] # "off"

Answers(p) == link[p] = "up"

LoseLink(p) ==
    /\ link[p] = "up"
    /\ link' = [link EXCEPT ![p] = "lost"]

\* PM2 starts the process again, whatever it finds then.
Reboot(p) == \E l \in BootLinks : link' = [link EXCEPT ![p] = l]

=============================================================================
