---- MODULE SharedMutex ----
(***************************************************************************)
(* The mutex nginx workers share in a zone of shared memory                *)
(* (ngx_shmtx.c, with atomic operations and POSIX semaphores): a lock word *)
(* holding the owner's process id, a count of waiters, a semaphore.  Every *)
(* atomic operation is a step.  A worker may die in any of them; the       *)
(* master, collecting it, unlocks in its name (ngx_unlock_mutexes) and     *)
(* starts another.  Spinning before the wait is another try, no step of    *)
(* its own.                                                                *)
(***************************************************************************)
EXTENDS Naturals, FiniteSets

CONSTANTS Workers, Master, NoPid,
          MaxCount    \* bound: waiters and posts counted at a time

ASSUME MutexAssumption ==
    /\ IsFiniteSet(Workers) /\ Master \notin Workers
    /\ NoPid \notin Workers \cup {Master}
    /\ MaxCount \in Nat \ {0}

VARIABLES lock,   \* *mtx->lock
          wait,   \* *mtx->wait
          sem,    \* the value of mtx->sem
          at,     \* where each process is
          seen,   \* the wait it read in ngx_shmtx_wakeup, 0 outside
          lost    \* a worker died that others had to rely on

vars == <<lock, wait, sem, at, seen, lost>>

Processes == Workers \cup {Master}

(* "rest": elsewhere in its cycle; "try": before the first attempt; "count": *)
(* it failed; "again": counted as a waiter; "sleep": in sem_wait; "awake":   *)
(* back at the head of the loop; "in": owner; "read", "swap", "post": in     *)
(* ngx_shmtx_wakeup; "dead"; "collected" by the master.                      *)
Places == {"rest", "try", "count", "again", "sleep", "awake", "in",
           "read", "swap", "post", "dead", "collected"}

Waiting == {p \in Processes : at[p] \in {"again", "sleep"}}
Posting == {p \in Processes : at[p] = "post"}

Go(p, place) == at' = [at EXCEPT ![p] = place]

(***************************************************************************)
(* ngx_shmtx_lock                                                          *)
(***************************************************************************)
Lock(p) == /\ at[p] = "rest" /\ p # Master
           /\ Go(p, "try")
           /\ UNCHANGED <<lock, wait, sem, seen, lost>>

(* ngx_atomic_cmp_set(mtx->lock, 0, ngx_pid) succeeds. *)
Acquire(p) == /\ at[p] \in {"try", "awake", "again"}
              /\ lock = NoPid
              /\ lock' = p
              /\ Go(p, "in")
              /\ UNCHANGED <<wait, sem, seen, lost>>

Fail(p) == /\ at[p] \in {"try", "awake"} /\ lock # NoPid
           /\ Go(p, "count")
           /\ UNCHANGED <<lock, wait, sem, seen, lost>>

(* ngx_atomic_fetch_add(mtx->wait, 1) *)
CountAndSleep(p) == /\ at[p] = "count" /\ wait + sem + Cardinality(Posting) < MaxCount
                    /\ wait' = wait + 1
                    /\ Go(p, "sleep")
                    /\ UNCHANGED <<lock, sem, seen, lost>>

Count(p) == /\ at[p] = "count" /\ wait + sem + Cardinality(Posting) < MaxCount
            /\ wait' = wait + 1
            /\ Go(p, "again")
            /\ UNCHANGED <<lock, sem, seen, lost>>

FailAgain(p) == /\ at[p] = "again" /\ lock # NoPid
                /\ Go(p, "sleep")
                /\ UNCHANGED <<lock, wait, sem, seen, lost>>

(* sem_wait returns and the loop starts over. *)
Wake(p) == /\ at[p] = "sleep" /\ sem > 0
           /\ sem' = sem - 1
           /\ Go(p, "awake")
           /\ UNCHANGED <<lock, wait, seen, lost>>

(***************************************************************************)
(* ngx_shmtx_unlock and ngx_shmtx_wakeup                                   *)
(***************************************************************************)
Unlock(p) == /\ at[p] = "in"
             /\ IF lock = p THEN lock' = NoPid /\ Go(p, "read")
                ELSE Go(p, "rest") /\ UNCHANGED lock
             /\ UNCHANGED <<wait, sem, seen, lost>>

ReadUnchecked(p) == /\ at[p] = "read"
                    /\ seen' = [seen EXCEPT ![p] = wait]
                    /\ Go(p, "swap")
                    /\ UNCHANGED <<lock, wait, sem, lost>>

ReadWait(p) == /\ at[p] = "read"
               /\ seen' = [seen EXCEPT ![p] = wait]
               /\ Go(p, IF wait = 0 THEN "rest" ELSE "swap")
               /\ UNCHANGED <<lock, wait, sem, lost>>

SwapUnchecked(p) == /\ at[p] = "swap"
                    /\ wait' = seen[p] - 1
                    /\ Go(p, "post")
                    /\ seen' = [seen EXCEPT ![p] = 0]
                    /\ UNCHANGED <<lock, sem, lost>>

SwapWait(p) == /\ at[p] = "swap"
               /\ IF wait = seen[p] THEN wait' = seen[p] - 1 /\ Go(p, "post")
                  ELSE Go(p, "read") /\ UNCHANGED wait
               /\ seen' = [seen EXCEPT ![p] = 0]
               /\ UNCHANGED <<lock, sem, lost>>

Post(p) == /\ at[p] = "post"
           /\ sem' = sem + 1
           /\ Go(p, "rest")
           /\ UNCHANGED <<lock, wait, seen, lost>>

(***************************************************************************)
(* A worker dies.  One that has given the lock back and not yet passed the *)
(* wake-up on, or has been woken and not tried yet, takes the wake-up with *)
(* it: nobody else stands in for it.                                       *)
(***************************************************************************)
Relied(place) == place \in {"awake", "read", "swap", "post"}

Die(p) == /\ p # Master /\ at[p] \notin {"dead", "collected"}
          /\ Go(p, "dead")
          /\ lost' = (lost \/ Relied(at[p]))
          /\ seen' = [seen EXCEPT ![p] = 0]
          /\ UNCHANGED <<lock, wait, sem>>

(* ngx_process_get_status: the child is waited for, the mutex unlocked if  *)
(* it was the owner (ngx_shmtx_force_unlock).                              *)
CollectAny(p) ==
    /\ at[p] = "dead" /\ at[Master] = "rest"
    /\ lock' = NoPid /\ at' = [at EXCEPT ![p] = "collected", ![Master] = "read"]
    /\ UNCHANGED <<wait, sem, seen, lost>>

CollectQuietly(p) ==
    /\ at[p] = "dead" /\ at[Master] = "rest"
    /\ lock' = IF lock = p THEN NoPid ELSE lock
    /\ Go(p, "collected")
    /\ UNCHANGED <<wait, sem, seen, lost>>

Collect(p) ==
    /\ at[p] = "dead" /\ at[Master] = "rest"
    /\ IF lock = p
       THEN lock' = NoPid /\ at' = [at EXCEPT ![p] = "collected", ![Master] = "read"]
       ELSE Go(p, "collected") /\ UNCHANGED lock
    /\ UNCHANGED <<wait, sem, seen, lost>>

(* ngx_reap_children, after the handler: another worker in its place. *)
Respawn(p) == /\ at[p] = "collected" /\ at[Master] = "rest"
              /\ Go(p, "rest")
              /\ UNCHANGED <<lock, wait, sem, seen, lost>>

Init == /\ lock = NoPid /\ wait = 0 /\ sem = 0
        /\ at = [p \in Processes |-> "rest"]
        /\ seen = [p \in Processes |-> 0]
        /\ lost = FALSE

(* What a process does once it has started, as long as it lives. *)
GoesOn(p) == Acquire(p) \/ Fail(p) \/ Count(p) \/ FailAgain(p) \/ Wake(p)
             \/ Unlock(p) \/ ReadWait(p) \/ SwapWait(p) \/ Post(p)

Next == \E p \in Processes :
          \/ Lock(p) \/ Acquire(p) \/ Fail(p) \/ Count(p) \/ FailAgain(p) \/ Wake(p)
          \/ Unlock(p) \/ ReadWait(p) \/ SwapWait(p) \/ Post(p)
          \/ Die(p) \/ Collect(p) \/ Respawn(p)

(* The scheduler runs every process that can run, the master collects.    *)
Fairness == \A p \in Processes : WF_vars(GoesOn(p)) /\ WF_vars(Collect(p))

Spec == Init /\ [][Next]_vars /\ Fairness
----------------------------------------------------------------------------
(* The words of the mutex and the places have their types. *)
TypeOK == /\ lock \in Workers \cup {NoPid}
          /\ wait \in 0 .. MaxCount /\ sem \in 0 .. MaxCount
          /\ at \in [Processes -> Places]
          /\ seen \in [Processes -> 0 .. MaxCount]
          /\ lost \in BOOLEAN

(* One owner: the process in the section is the one whose id the lock      *)
(* holds, so unlocking for the dead takes the lock from no one living.     *)
Owned == \A p \in Workers : at[p] = "in" => lock = p

(* Every waiter is counted, or a post for it is there or on its way: the   *)
(* decrement for one waiter never stands for two.                          *)
Counted == ~lost => Cardinality(Waiting) <= wait + sem + Cardinality(Posting)

(* No wake-up is lost: while the lock is free and somebody sleeps, a post  *)
(* is there, or a process that will wake a sleeper or take the lock.       *)
NoLostWakeup ==
    (lock = NoPid /\ ~lost /\ \E p \in Processes : at[p] = "sleep") =>
    sem > 0 \/ \E q \in Processes : Relied(at[q])

(* Nobody sleeps for ever beside a lock that is free or that a dead worker  *)
(* held (ngx_unlock_mutexes gives it back).                                 *)
LetGo == lock = NoPid \/ at[lock] = "dead"
SomebodyEnters ==
    (LetGo /\ \E p \in Processes : at[p] = "sleep")
    ~> (lost \/ ~LetGo \/ \A p \in Processes : at[p] # "sleep")
====
