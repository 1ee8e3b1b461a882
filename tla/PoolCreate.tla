----------------------------- MODULE PoolCreate -----------------------------
(***************************************************************************)
(* carquet_worker_pool_create (reader/worker_pool.c): the threads are      *)
(* started one by one, and when one cannot be started the others are told  *)
(* to stop, joined, and the pool is freed.  The creator sets shutdown and  *)
(* broadcasts without the mutex, so a worker that has tested shutdown and  *)
(* not yet slept may miss both: the join then never returns.  WorkerPool   *)
(* begins with the pool this call returns.                                 *)
(***************************************************************************)
EXTENDS Naturals

CONSTANT num_threads

\* With less than one thread the call returns NULL at once.
ASSUME CreateAssumption == num_threads \in Nat \ {0}

VARIABLES
    creator,      \* "idle", "alloc", "start", "broadcast", "join", "pool" or "null"
    started,      \* threads started
    joined,       \* threads joined
    stopping,     \* pool->shutdown
    thread_at,    \* where each thread is in worker_thread_func
    allocated     \* the pool and its mutex exist

createVars == <<creator, started, joined, stopping, thread_at, allocated>>

ThreadIds == 1..num_threads

(* ------------------------------- the workers ----------------------------- *)

\* The loop test, mutex held.  A pool under construction has no task.
ThreadTests(i) ==
    /\ thread_at[i] = "lock"
    /\ thread_at' = [thread_at EXCEPT ![i] = IF stopping THEN "exit" ELSE "wait"]
    /\ UNCHANGED <<creator, started, joined, stopping, allocated>>

\* pthread_cond_wait gives the mutex up and sleeps.
ThreadSleeps(i) ==
    /\ thread_at[i] = "wait"
    /\ thread_at' = [thread_at EXCEPT ![i] = "sleep"]
    /\ UNCHANGED <<creator, started, joined, stopping, allocated>>

\* A wake-up without a broadcast, which the loop allows for.
ThreadWakes(i) ==
    /\ thread_at[i] = "sleep"
    /\ thread_at' = [thread_at EXCEPT ![i] = "lock"]
    /\ UNCHANGED <<creator, started, joined, stopping, allocated>>

(* ------------------------------- the creator ----------------------------- *)

AllocatePool ==
    /\ creator = "alloc"
    /\ \/ creator' = "start" /\ allocated' = TRUE
       \/ creator' = "null" /\ UNCHANGED allocated
    /\ UNCHANGED <<started, joined, stopping, thread_at>>

StartThread ==
    /\ creator = "start" /\ started < num_threads
    /\ \/ /\ started' = started + 1
          /\ thread_at' = [thread_at EXCEPT ![started'] = "lock"]
          /\ UNCHANGED <<creator, stopping>>
       \/ /\ stopping' = TRUE /\ creator' = "broadcast"
          /\ UNCHANGED <<started, thread_at>>
    /\ UNCHANGED <<joined, allocated>>

BroadcastStop ==
    /\ creator = "broadcast"
    /\ creator' = "join"
    /\ thread_at' = [i \in ThreadIds |-> IF thread_at[i] = "sleep" THEN "lock" ELSE thread_at[i]]
    /\ UNCHANGED <<started, joined, stopping, allocated>>

\* pthread_join returns once the thread has left its function.
JoinThread ==
    /\ creator = "join" /\ joined < started /\ thread_at[joined + 1] = "exit"
    /\ joined' = joined + 1
    /\ UNCHANGED <<creator, started, stopping, thread_at, allocated>>

AllJoined_OneShort == joined + 1 >= started

\* Every thread started before the one that failed.
AllJoined == joined = started

FreePool ==
    /\ creator = "join" /\ AllJoined
    /\ creator' = "null" /\ allocated' = FALSE
    /\ UNCHANGED <<started, joined, stopping, thread_at>>

ReturnPool ==
    /\ creator = "start" /\ started = num_threads
    /\ creator' = "pool"
    /\ UNCHANGED <<started, joined, stopping, thread_at, allocated>>

(* ------------------------------ specification ---------------------------- *)

CreateIdle ==
    /\ creator = "idle" /\ started = 0 /\ joined = 0 /\ stopping = FALSE
    /\ thread_at = <<>> /\ allocated = FALSE

CreateInit ==
    /\ creator = "alloc" /\ started = 0 /\ joined = 0 /\ stopping = FALSE
    /\ thread_at = [i \in ThreadIds |-> "none"] /\ allocated = FALSE

CreateNext ==
    \/ AllocatePool \/ StartThread \/ BroadcastStop \/ JoinThread \/ FreePool \/ ReturnPool
    \/ \E i \in DOMAIN thread_at : ThreadTests(i) \/ ThreadSleeps(i) \/ ThreadWakes(i)

CreateSpec == CreateInit /\ [][CreateNext]_createVars

(* ------------------------------- properties ------------------------------ *)

\* The call gives all of a pool or nothing: a pool it returns has every thread
\* alive, and when it returns NULL no thread is left that could still lock the
\* freed mutex, however the threads' first steps fall between the creator's.
PoolIsAllOrNothing ==
    /\ creator = "pool" => allocated /\ \A i \in ThreadIds : thread_at[i] \notin {"none", "exit"}
    /\ creator = "null" => ~allocated /\ \A i \in ThreadIds : thread_at[i] \in {"none", "exit"}
=============================================================================
