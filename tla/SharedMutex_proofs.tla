------------------------- MODULE SharedMutex_proofs --------------------------
(* Proofs about SharedMutex, for every finite set of workers and every      *)
(* bound on the counters.                                                   *)
EXTENDS SharedMutex, FiniteSetTheorems, TLAPS

-----------------------------------------------------------------------------
(* The inductive invariant.                                                *)

\* The counts stay within the bound the guard of Count keeps.
Bounded == wait + sem + Cardinality(Posting) <= MaxCount

\* The master only ever wakes sleepers; who is about to decrement the count
\* of waiters has read one that is not zero.
Roles == /\ at[Master] \in {"rest", "read", "swap", "post"}
         /\ \A p \in Processes : at[p] = "swap" => seen[p] > 0

Safe == TypeOK /\ Bounded /\ Roles /\ Owned
IInv == Safe /\ Counted /\ NoLostWakeup

-----------------------------------------------------------------------------
(* Counting the processes at a place.                                      *)

\* There are finitely many processes.
LEMMA FinitelyMany ==
  ASSUME NEW S \in SUBSET Processes
  PROVE  IsFiniteSet(S) /\ Cardinality(S) \in Nat
<1>1. IsFiniteSet(Processes)
  BY MutexAssumption, FS_AddElement DEF Processes
<1>2. IsFiniteSet(S)
  BY <1>1, FS_Subset
<1>3. QED
  BY <1>2, FS_CardinalityType

\* One process more or less makes a difference of one.
LEMMA OneMoreOrLess ==
  ASSUME NEW S \in SUBSET Processes, NEW p \in Processes
  PROVE  /\ p \notin S => Cardinality(S \cup {p}) = Cardinality(S) + 1
         /\ p \in S => Cardinality(S \ {p}) = Cardinality(S) - 1
         /\ Cardinality(S \ {p}) <= Cardinality(S)
<1>1. IsFiniteSet(S) /\ Cardinality(S) \in Nat
  BY FinitelyMany
<1>2. Cardinality(S \cup {p}) = IF p \in S THEN Cardinality(S) ELSE Cardinality(S) + 1
  BY <1>1, FS_AddElement
<1>3. Cardinality(S \ {p}) = IF p \in S THEN Cardinality(S) - 1 ELSE Cardinality(S)
  BY <1>1, FS_RemoveElement
<1>4. QED
  BY <1>1, <1>2, <1>3

\* How a step of one process changes who waits and who posts.
LEMMA Moves ==
  ASSUME TypeOK, NEW p \in Processes, NEW place \in Places, Go(p, place)
  PROVE  /\ Waiting' = IF place \in {"again", "sleep"} THEN Waiting \cup {p}
                       ELSE Waiting \ {p}
         /\ Posting' = IF place = "post" THEN Posting \cup {p} ELSE Posting \ {p}
         /\ p \in Waiting <=> at[p] \in {"again", "sleep"}
         /\ p \in Posting <=> at[p] = "post"
         /\ Waiting \in SUBSET Processes /\ Posting \in SUBSET Processes
         /\ Cardinality(Waiting) \in Nat /\ Cardinality(Posting) \in Nat
         /\ at'[p] = place /\ \A q \in Processes : q # p => at'[q] = at[q]
<1>1. at' = [at EXCEPT ![p] = place] /\ at \in [Processes -> Places]
  BY DEF Go, TypeOK
<1>2. at'[p] = place /\ \A q \in Processes : q # p => at'[q] = at[q]
  BY <1>1
<1>3. Waiting' = {q \in Processes : at'[q] \in {"again", "sleep"}}
  BY DEF Waiting
<1>4. Posting' = {q \in Processes : at'[q] = "post"}
  BY DEF Posting
<1>5. Waiting \in SUBSET Processes /\ Posting \in SUBSET Processes
  BY DEF Waiting, Posting
<1>6. Waiting' = IF place \in {"again", "sleep"} THEN Waiting \cup {p} ELSE Waiting \ {p}
  BY <1>2, <1>3 DEF Waiting
<1>7. Posting' = IF place = "post" THEN Posting \cup {p} ELSE Posting \ {p}
  BY <1>2, <1>4 DEF Posting
<1>8. QED
  BY <1>2, <1>5, <1>6, <1>7, FinitelyMany DEF Waiting, Posting

-----------------------------------------------------------------------------
(* Type, bound, roles and the owner.                                       *)

\* The steps that change neither the lock nor the counters.
LEMMA QuietSafe ==
  ASSUME Safe, NEW p \in Processes,
         Lock(p) \/ Fail(p) \/ FailAgain(p) \/ Respawn(p)
  PROVE  Safe'
<1>1. PICK place \in {"try", "count", "sleep", "rest"} : Go(p, place)
  BY DEF Lock, Fail, FailAgain, Respawn
<1>2. UNCHANGED <<lock, wait, sem, seen, lost>>
  BY DEF Lock, Fail, FailAgain, Respawn
<1>3. place \in Places /\ place # "post" /\ place # "in" /\ place # "swap"
  BY <1>1 DEF Places
<1>4. TypeOK'
  BY <1>1, <1>2, <1>3 DEF Safe, TypeOK, Go
<1>5. Posting' = Posting \ {p} /\ Posting \in SUBSET Processes
  BY <1>1, <1>3, Moves DEF Safe
<1>6. Cardinality(Posting') <= Cardinality(Posting)
      /\ Cardinality(Posting) \in Nat /\ Cardinality(Posting') \in Nat
  BY <1>5, OneMoreOrLess, FinitelyMany
<1>7. Bounded'
  BY <1>2, <1>6, MutexAssumption DEF Safe, Bounded, TypeOK
<1>8. at'[p] = place /\ \A q \in Processes : q # p => at'[q] = at[q]
  BY <1>1, <1>3, Moves DEF Safe
<1>9. p # Master
  BY DEF Lock, Fail, FailAgain, Respawn, Safe, Roles
<1>10. Roles' /\ Owned'
  BY <1>2, <1>3, <1>8, <1>9 DEF Safe, Roles, Owned, Processes
<1>11. QED
  BY <1>4, <1>7, <1>10 DEF Safe

\* Taking the lock: it was free, so there was no owner.
LEMMA AcquireSafe ==
  ASSUME Safe, NEW p \in Processes, Acquire(p)
  PROVE  Safe'
<1>1. p \in Workers
  BY DEF Acquire, Safe, Roles, Processes
<1>2. TypeOK'
  BY <1>1 DEF Acquire, Safe, TypeOK, Go, Places
<1>3. /\ Posting' = Posting \ {p} /\ Posting \in SUBSET Processes
      /\ at'[p] = "in" /\ \A q \in Processes : q # p => at'[q] = at[q]
  BY Moves DEF Acquire, Safe, Places
<1>4. Cardinality(Posting') <= Cardinality(Posting)
      /\ Cardinality(Posting) \in Nat /\ Cardinality(Posting') \in Nat
  BY <1>3, OneMoreOrLess, FinitelyMany
<1>5. Bounded'
  BY <1>4, MutexAssumption DEF Acquire, Safe, Bounded, TypeOK
<1>6. Roles'
  BY <1>1, <1>3, MutexAssumption DEF Acquire, Safe, Roles, Processes
<1>7. Owned'
  BY <1>1, <1>3, MutexAssumption DEF Acquire, Safe, Owned, Processes
<1>8. QED
  BY <1>2, <1>5, <1>6, <1>7 DEF Safe

\* Counting oneself as a waiter, within the bound.
LEMMA CountSafe ==
  ASSUME Safe, NEW p \in Processes, Count(p)
  PROVE  Safe'
<1>1. /\ Posting' = Posting \ {p} /\ Posting \in SUBSET Processes /\ p \notin Posting
      /\ Cardinality(Posting) \in Nat
      /\ at'[p] = "again" /\ \A q \in Processes : q # p => at'[q] = at[q]
  BY Moves DEF Count, Safe, Places
<1>2. Cardinality(Posting') = Cardinality(Posting)
  BY <1>1
<1>3. wait \in Nat /\ sem \in Nat /\ MaxCount \in Nat
  BY MutexAssumption DEF Safe, TypeOK
<1>4. Bounded'
  BY <1>1, <1>2, <1>3 DEF Count, Bounded
<1>5. wait' \in 0 .. MaxCount
  BY <1>1, <1>3 DEF Count
<1>6. TypeOK'
  BY <1>5 DEF Count, Safe, TypeOK, Go, Places
<1>7. Roles' /\ Owned'
  BY <1>1 DEF Count, Safe, Roles, Owned, Processes
<1>8. QED
  BY <1>4, <1>6, <1>7 DEF Safe

\* Waking up takes from the semaphore.
LEMMA WakeSafe ==
  ASSUME Safe, NEW p \in Processes, Wake(p)
  PROVE  Safe'
<1>1. /\ Posting' = Posting \ {p} /\ Posting \in SUBSET Processes /\ p \notin Posting
      /\ Cardinality(Posting) \in Nat
      /\ at'[p] = "awake" /\ \A q \in Processes : q # p => at'[q] = at[q]
  BY Moves DEF Wake, Safe, Places
<1>2. Cardinality(Posting') = Cardinality(Posting)
  BY <1>1
<1>3. wait \in Nat /\ sem \in Nat /\ MaxCount \in Nat /\ sem <= MaxCount
  BY MutexAssumption DEF Safe, TypeOK
<1>4. Bounded'
  BY <1>1, <1>2, <1>3 DEF Wake, Safe, Bounded
<1>5. sem' \in 0 .. MaxCount
  BY <1>3 DEF Wake
<1>6. TypeOK'
  BY <1>5 DEF Wake, Safe, TypeOK, Go, Places
<1>7. Roles' /\ Owned'
  BY <1>1 DEF Wake, Safe, Roles, Owned, Processes
<1>8. QED
  BY <1>4, <1>6, <1>7 DEF Safe

\* The owner gives the lock back and goes to wake somebody.
LEMMA UnlockSafe ==
  ASSUME Safe, NEW p \in Processes, Unlock(p)
  PROVE  /\ Safe' /\ lock = p /\ lock' = NoPid /\ Go(p, "read")
         /\ UNCHANGED <<wait, sem, seen, lost>>
<1>1. p \in Workers
  BY DEF Unlock, Safe, Roles, Processes
<1>2. lock = p
  BY <1>1 DEF Unlock, Safe, Owned
<1>3. lock' = NoPid /\ Go(p, "read") /\ UNCHANGED <<wait, sem, seen, lost>>
  BY <1>2 DEF Unlock
<1>4. TypeOK'
  BY <1>3 DEF Safe, TypeOK, Go, Places
<1>5. /\ Posting' = Posting \ {p} /\ Posting \in SUBSET Processes
      /\ at'[p] = "read" /\ \A q \in Processes : q # p => at'[q] = at[q]
  BY <1>3, Moves DEF Safe, Places
<1>6. Cardinality(Posting') <= Cardinality(Posting)
      /\ Cardinality(Posting) \in Nat /\ Cardinality(Posting') \in Nat
  BY <1>5, OneMoreOrLess, FinitelyMany
<1>7. Bounded'
  BY <1>3, <1>6, MutexAssumption DEF Safe, Bounded, TypeOK
<1>8. Roles'
  BY <1>1, <1>3, <1>5, MutexAssumption DEF Safe, Roles, Processes
<1>9. Owned'
  BY <1>2, <1>5 DEF Safe, Owned, Processes
<1>10. QED
  BY <1>2, <1>3, <1>4, <1>7, <1>8, <1>9 DEF Safe

\* Reading the count of waiters.
LEMMA ReadSafe ==
  ASSUME Safe, NEW p \in Processes, ReadWait(p)
  PROVE  Safe'
<1>1. PICK place \in {"rest", "swap"} : /\ Go(p, place)
                                        /\ place = "swap" => wait # 0
  BY DEF ReadWait
<1>2. wait \in 0 .. MaxCount /\ seen' = [seen EXCEPT ![p] = wait]
      /\ seen \in [Processes -> 0 .. MaxCount] /\ UNCHANGED <<lock, wait, sem, lost>>
  BY DEF ReadWait, Safe, TypeOK
<1>3. TypeOK'
  BY <1>1, <1>2 DEF Safe, TypeOK, Go, Places
<1>4. /\ Posting' = Posting \ {p} /\ Posting \in SUBSET Processes
      /\ at'[p] = place /\ \A q \in Processes : q # p => at'[q] = at[q]
  BY <1>1, Moves DEF Safe, Places
<1>5. Cardinality(Posting') <= Cardinality(Posting)
      /\ Cardinality(Posting) \in Nat /\ Cardinality(Posting') \in Nat
  BY <1>4, OneMoreOrLess, FinitelyMany
<1>6. Bounded'
  BY <1>2, <1>5, MutexAssumption DEF Safe, Bounded, TypeOK
<1>7. at'[Master] \in {"rest", "read", "swap", "post"}
  BY <1>1, <1>4 DEF Safe, Roles, Processes
<1>8. seen'[p] = wait /\ \A q \in Processes : q # p => seen'[q] = seen[q]
  BY <1>2
<1>9. Roles'
  BY <1>1, <1>2, <1>4, <1>7, <1>8 DEF Safe, Roles
<1>10. Owned'
  BY <1>1, <1>2, <1>4 DEF Safe, Owned, Processes
<1>11. QED
  BY <1>3, <1>6, <1>9, <1>10 DEF Safe

\* The exchange: one waiter less and one post on its way, or another look.
LEMMA SwapSafe ==
  ASSUME Safe, NEW p \in Processes, SwapWait(p)
  PROVE  Safe'
<1>1. PICK place \in {"read", "post"} :
        /\ Go(p, place)
        /\ IF place = "post" THEN wait' = wait - 1 /\ wait = seen[p] ELSE wait' = wait
  BY DEF SwapWait
<1>2. seen' = [seen EXCEPT ![p] = 0] /\ UNCHANGED <<lock, sem, lost>> /\ at[p] = "swap"
  BY DEF SwapWait
<1>3. wait \in 0 .. MaxCount /\ sem \in 0 .. MaxCount /\ MaxCount \in Nat /\ seen[p] > 0
  BY <1>2, MutexAssumption DEF Safe, TypeOK, Roles
<1>4. wait' \in 0 .. MaxCount
  BY <1>1, <1>3
<1>5. TypeOK'
  BY <1>1, <1>2, <1>3, <1>4 DEF Safe, TypeOK, Go, Places
<1>6. /\ Posting' = IF place = "post" THEN Posting \cup {p} ELSE Posting \ {p}
      /\ Posting \in SUBSET Processes /\ p \notin Posting
      /\ at'[p] = place /\ \A q \in Processes : q # p => at'[q] = at[q]
  BY <1>1, <1>2, Moves DEF Safe, Places
<1>7. Cardinality(Posting) \in Nat /\ Cardinality(Posting') \in Nat
  BY <1>6, FinitelyMany
<1>8. Bounded'
  <2>1. CASE place = "post"
    <3>1. Cardinality(Posting') = Cardinality(Posting) + 1
      BY <1>6, <2>1, OneMoreOrLess
    <3>2. wait' = wait - 1
      BY <1>1, <2>1
    <3>3. QED
      BY <1>2, <1>3, <1>7, <3>1, <3>2 DEF Safe, Bounded
  <2>2. CASE place = "read"
    <3>1. Cardinality(Posting') <= Cardinality(Posting)
      BY <1>6, <2>2, OneMoreOrLess
    <3>2. wait' = wait
      BY <1>1, <2>2
    <3>3. QED
      BY <1>2, <1>3, <1>7, <3>1, <3>2 DEF Safe, Bounded
  <2>3. QED
    BY <2>1, <2>2
<1>9. Roles'
  BY <1>1, <1>2, <1>6 DEF Safe, Roles, TypeOK, Processes
<1>10. Owned'
  BY <1>1, <1>2, <1>6 DEF Safe, Owned, Processes
<1>11. QED
  BY <1>5, <1>8, <1>9, <1>10 DEF Safe

\* The post arrives.
LEMMA PostSafe ==
  ASSUME Safe, NEW p \in Processes, Post(p)
  PROVE  Safe'
<1>1. /\ Posting' = Posting \ {p} /\ Posting \in SUBSET Processes /\ p \in Posting
      /\ at'[p] = "rest" /\ \A q \in Processes : q # p => at'[q] = at[q]
  BY Moves DEF Post, Safe, Places
<1>2. /\ Cardinality(Posting') = Cardinality(Posting) - 1
      /\ Cardinality(Posting) \in Nat /\ Cardinality(Posting') \in Nat
  BY <1>1, OneMoreOrLess, FinitelyMany
<1>3. wait \in Nat /\ sem \in Nat /\ MaxCount \in Nat
  BY MutexAssumption DEF Safe, TypeOK
<1>4. Bounded'
  BY <1>2, <1>3 DEF Post, Safe, Bounded
<1>5. sem' \in 0 .. MaxCount
  BY <1>2, <1>3 DEF Post, Safe, Bounded
<1>6. TypeOK'
  BY <1>5 DEF Post, Safe, TypeOK, Go, Places
<1>7. Roles' /\ Owned'
  BY <1>1 DEF Post, Safe, Roles, Owned, Processes
<1>8. QED
  BY <1>4, <1>6, <1>7 DEF Safe

\* A worker dies, possibly as the owner.
LEMMA DieSafe ==
  ASSUME Safe, NEW p \in Processes, Die(p)
  PROVE  Safe'
<1>a. lost' \in BOOLEAN
  BY Zenon DEF Die
<1>1. TypeOK'
  BY <1>a, MutexAssumption DEF Die, Safe, TypeOK, Go, Places
<1>2. /\ Posting' = Posting \ {p} /\ Posting \in SUBSET Processes
      /\ at'[p] = "dead" /\ \A q \in Processes : q # p => at'[q] = at[q]
  BY Moves DEF Die, Safe, Places
<1>3. Cardinality(Posting') <= Cardinality(Posting)
      /\ Cardinality(Posting) \in Nat /\ Cardinality(Posting') \in Nat
  BY <1>2, OneMoreOrLess, FinitelyMany
<1>4. Bounded'
  BY <1>3, MutexAssumption DEF Die, Safe, Bounded, TypeOK
<1>5. Roles'
  BY <1>2 DEF Die, Safe, Roles, TypeOK, Processes
<1>6. Owned'
  BY <1>2 DEF Die, Safe, Owned, Processes
<1>7. QED
  BY <1>1, <1>4, <1>5, <1>6 DEF Safe

\* The master unlocks for the dead owner only.
LEMMA CollectSafe ==
  ASSUME Safe, NEW p \in Processes, Collect(p)
  PROVE  Safe'
<1>1. p \in Workers /\ p # Master
  BY DEF Collect, Safe, Roles, Processes
<1>2. Master \in Processes
  BY DEF Processes
<1>3. TypeOK'
  BY <1>1 DEF Collect, Safe, TypeOK, Go, Places
<1>4. /\ at'[p] = "collected" /\ at'[Master] \in {"rest", "read"}
      /\ \A q \in Processes : q \notin {p, Master} => at'[q] = at[q]
  BY <1>1, <1>2 DEF Collect, Safe, TypeOK, Go
<1>5. Posting' = Posting
  BY <1>1, <1>4 DEF Posting, Collect
<1>6. Cardinality(Posting') = Cardinality(Posting)
  BY <1>5
<1>7. Bounded'
  BY <1>6 DEF Collect, Safe, Bounded
<1>8. Roles'
  BY <1>1, <1>4 DEF Collect, Safe, Roles, Processes
<1>9. Owned'
  BY <1>1, <1>4, MutexAssumption DEF Collect, Safe, Owned, Processes
<1>10. QED
  BY <1>3, <1>7, <1>8, <1>9 DEF Safe

-----------------------------------------------------------------------------
(* Every waiter is counted.                                                *)

\* The steps after which nobody new waits and no counter has changed.
LEMMA QuietCounted ==
  ASSUME Safe, Counted, NEW p \in Processes, NEW place \in Places, Go(p, place),
         UNCHANGED <<wait, sem, lost>>, place # "post", at[p] # "post",
         place \in {"again", "sleep"} => at[p] \in {"again", "sleep"}
  PROVE  Counted'
<1>1. Waiting' \subseteq Waiting /\ Posting' = Posting /\ Waiting \in SUBSET Processes
      /\ Cardinality(Waiting) \in Nat /\ Cardinality(Posting) \in Nat
  BY Moves DEF Safe
<1>2. Cardinality(Waiting') \in Nat /\ Cardinality(Waiting') <= Cardinality(Waiting)
  BY <1>1, FinitelyMany, FS_Subset
<1>3. Cardinality(Posting') = Cardinality(Posting)
  BY <1>1
<1>4. wait \in Nat /\ sem \in Nat
  BY DEF Safe, TypeOK
<1>5. QED
  BY <1>1, <1>2, <1>3, <1>4 DEF Counted

\* The steps that count: a waiter more, a waiter less.
LEMMA CountingCounted ==
  ASSUME Safe, Counted, NEW p \in Processes, Count(p) \/ Wake(p) \/ SwapWait(p) \/ Post(p)
  PROVE  Counted'
<1>. wait \in Nat /\ sem \in Nat
  BY DEF Safe, TypeOK
<1>1. CASE Count(p)
  <2>1. /\ Waiting' = Waiting \cup {p} /\ p \notin Waiting /\ Posting' = Posting
        /\ Waiting \in SUBSET Processes
        /\ Cardinality(Waiting) \in Nat /\ Cardinality(Posting) \in Nat
    BY <1>1, Moves DEF Count, Safe, Places
  <2>2. Cardinality(Waiting') = Cardinality(Waiting) + 1
        /\ Cardinality(Posting') = Cardinality(Posting)
    BY <2>1, OneMoreOrLess
  <2>3. QED
    BY <1>1, <2>1, <2>2 DEF Count, Counted
<1>2. CASE Wake(p)
  <2>1. /\ Waiting' = Waiting \ {p} /\ p \in Waiting /\ Posting' = Posting
        /\ Waiting \in SUBSET Processes
        /\ Cardinality(Waiting) \in Nat /\ Cardinality(Posting) \in Nat
    BY <1>2, Moves DEF Wake, Safe, Places
  <2>2. Cardinality(Waiting') = Cardinality(Waiting) - 1
        /\ Cardinality(Posting') = Cardinality(Posting)
    BY <2>1, OneMoreOrLess
  <2>3. QED
    BY <1>2, <2>1, <2>2 DEF Wake, Counted
<1>3. CASE SwapWait(p)
  <2>1. CASE wait = seen[p]
    <3>1. /\ Waiting' = Waiting /\ Posting' = Posting \cup {p} /\ p \notin Posting
          /\ Posting \in SUBSET Processes
          /\ Cardinality(Waiting) \in Nat /\ Cardinality(Posting) \in Nat
      BY <1>3, <2>1, Moves DEF SwapWait, Safe, Places
    <3>2. Cardinality(Posting') = Cardinality(Posting) + 1
          /\ Cardinality(Waiting') = Cardinality(Waiting)
      BY <3>1, OneMoreOrLess
    <3>3. QED
      BY <1>3, <2>1, <3>1, <3>2 DEF SwapWait, Counted
  <2>2. CASE wait # seen[p]
    BY <1>3, <2>2, QuietCounted DEF SwapWait, Places
  <2>3. QED
    BY <2>1, <2>2
<1>4. CASE Post(p)
  <2>1. /\ Waiting' = Waiting /\ Posting' = Posting \ {p} /\ p \in Posting
        /\ Posting \in SUBSET Processes
        /\ Cardinality(Waiting) \in Nat /\ Cardinality(Posting) \in Nat
    BY <1>4, Moves DEF Post, Safe, Places
  <2>2. Cardinality(Posting') = Cardinality(Posting) - 1
        /\ Cardinality(Waiting') = Cardinality(Waiting)
    BY <2>1, OneMoreOrLess
  <2>3. QED
    BY <1>4, <2>1, <2>2 DEF Post, Counted
<1>5. QED
  BY <1>1, <1>2, <1>3, <1>4

\* A death is excused where it takes a post with it.
LEMMA DieCounted ==
  ASSUME Safe, Counted, NEW p \in Processes, Die(p)
  PROVE  Counted'
<1>1. CASE Relied(at[p])
  BY <1>1 DEF Die, Counted
<1>2. CASE ~Relied(at[p])
  <2>1. Go(p, "dead") /\ at[p] # "post" /\ UNCHANGED <<wait, sem>>
    BY <1>2 DEF Die, Relied
  <2>2. lost' = lost
    BY <1>2, Zenon DEF Die, Safe, TypeOK
  <2>3. QED
    BY <2>1, <2>2, QuietCounted DEF Places
<1>3. QED
  BY <1>1, <1>2

\* Collecting the dead counts nobody.
LEMMA CollectCounted ==
  ASSUME Safe, Counted, NEW p \in Processes, Collect(p)
  PROVE  Counted'
<1>1. p # Master /\ Master \in Processes
  BY DEF Collect, Safe, Roles, Processes
<1>2. /\ at'[p] = "collected" /\ at'[Master] \in {"rest", "read"} /\ at[p] = "dead"
      /\ at[Master] = "rest" /\ \A q \in Processes : q \notin {p, Master} => at'[q] = at[q]
  BY <1>1 DEF Collect, Safe, TypeOK, Go
<1>3. Posting' = Posting
  BY <1>1, <1>2 DEF Posting
<1>4. Waiting' = Waiting
  BY <1>1, <1>2 DEF Waiting
<1>5. QED
  BY <1>3, <1>4 DEF Collect, Counted

\* Every action keeps the waiters counted.
LEMMA NextCounted ==
  ASSUME Safe, Counted, NEW p \in Processes,
         \/ Lock(p) \/ Acquire(p) \/ Fail(p) \/ Count(p) \/ FailAgain(p) \/ Wake(p)
         \/ Unlock(p) \/ ReadWait(p) \/ SwapWait(p) \/ Post(p)
         \/ Die(p) \/ Collect(p) \/ Respawn(p)
  PROVE  Counted'
<1>1. CASE Lock(p) \/ Acquire(p) \/ Fail(p) \/ FailAgain(p) \/ Respawn(p)
  <2>1. PICK place \in {"try", "in", "count", "sleep", "rest"} :
          /\ Go(p, place) /\ UNCHANGED <<wait, sem, lost>> /\ at[p] # "post"
          /\ place = "sleep" => at[p] = "again"
    BY <1>1 DEF Lock, Acquire, Fail, FailAgain, Respawn
  <2>2. QED
    BY <2>1, QuietCounted DEF Places
<1>2. CASE Unlock(p)
  <2>1. Go(p, "read") /\ UNCHANGED <<wait, sem, lost>> /\ at[p] # "post"
    BY <1>2, UnlockSafe DEF Unlock
  <2>2. QED
    BY <2>1, QuietCounted DEF Places
<1>3. CASE ReadWait(p)
  <2>1. PICK place \in {"rest", "swap"} :
          Go(p, place) /\ UNCHANGED <<wait, sem, lost>> /\ at[p] # "post"
    BY <1>3 DEF ReadWait
  <2>2. QED
    BY <2>1, QuietCounted DEF Places
<1>4. QED
  BY <1>1, <1>2, <1>3, CountingCounted, DieCounted, CollectCounted

-----------------------------------------------------------------------------
(* No wake-up is lost.                                                     *)

\* A step of a process nobody relies on, which neither frees the lock nor
\* goes to sleep, loses no wake-up.
LEMMA QuietWakeup ==
  ASSUME Safe, NoLostWakeup, NEW p \in Processes, NEW place \in Places, Go(p, place),
         ~Relied(at[p]), place # "sleep", UNCHANGED <<lock, sem, lost>>
  PROVE  NoLostWakeup'
<1>1. SUFFICES ASSUME lock' = NoPid, ~lost', NEW r \in Processes, at'[r] = "sleep"
               PROVE  sem' > 0 \/ \E q \in Processes : Relied(at'[q])
  BY DEF NoLostWakeup, Relied
<1>2. at'[p] = place /\ \A q \in Processes : q # p => at'[q] = at[q]
  BY Moves DEF Safe
<1>3. at[r] = "sleep"
  BY <1>1, <1>2
<1>4. sem > 0 \/ \E q \in Processes : Relied(at[q])
  BY <1>1, <1>3 DEF NoLostWakeup
<1>5. QED
  BY <1>2, <1>4

\* The waker that finds nobody counted leaves nobody sleeping behind.
LEMMA ReadWakeup ==
  ASSUME Safe, Counted, NoLostWakeup, NEW p \in Processes, ReadWait(p)
  PROVE  NoLostWakeup'
<1>1. SUFFICES ASSUME lock' = NoPid, ~lost', NEW r \in Processes, at'[r] = "sleep"
               PROVE  sem' > 0 \/ \E q \in Processes : Relied(at'[q])
  BY DEF NoLostWakeup, Relied
<1>2. CASE wait = 0
  <2>1. Go(p, "rest") /\ UNCHANGED <<wait, sem, lost>> /\ at[p] = "read"
    BY <1>2 DEF ReadWait
  <2>2. /\ at'[p] = "rest" /\ \A q \in Processes : q # p => at'[q] = at[q]
        /\ Waiting \in SUBSET Processes /\ Posting \in SUBSET Processes
        /\ Cardinality(Waiting) \in Nat /\ Cardinality(Posting) \in Nat
    BY <2>1, Moves DEF Safe, Places
  <2>3. r \in Waiting
    BY <1>1, <2>2 DEF Waiting
  <2>4. Cardinality(Waiting) # 0
    BY <2>2, <2>3, FinitelyMany, FS_EmptySet
  <2>5. sem \in Nat
    BY DEF Safe, TypeOK
  <2>6. sem > 0 \/ Cardinality(Posting) # 0
    BY <1>1, <1>2, <2>1, <2>2, <2>4, <2>5 DEF Counted
  <2>7. CASE Cardinality(Posting) # 0
    <3>1. PICK q \in Processes : q \in Posting
      BY <2>2, <2>7, FS_EmptySet
    <3>2. at'[q] = "post"
      BY <2>1, <2>2, <3>1 DEF Posting
    <3>3. QED
      BY <3>2 DEF Relied
  <2>8. QED
    BY <2>1, <2>6, <2>7
<1>3. CASE wait # 0
  <2>1. Go(p, "swap")
    BY <1>3 DEF ReadWait
  <2>2. at'[p] = "swap"
    BY <2>1, Moves DEF Safe, Places
  <2>3. QED
    BY <2>2 DEF Relied
<1>4. QED
  BY <1>2, <1>3

\* Every action keeps the wake-ups.
LEMMA NextWakeup ==
  ASSUME Safe, Counted, NoLostWakeup, NEW p \in Processes,
         \/ Lock(p) \/ Acquire(p) \/ Fail(p) \/ Count(p) \/ FailAgain(p) \/ Wake(p)
         \/ Unlock(p) \/ ReadWait(p) \/ SwapWait(p) \/ Post(p)
         \/ Die(p) \/ Collect(p) \/ Respawn(p)
  PROVE  NoLostWakeup'
<1>1. CASE Lock(p) \/ Count(p) \/ Respawn(p)
  <2>1. PICK place \in {"try", "again", "rest"} :
          Go(p, place) /\ UNCHANGED <<lock, sem, lost>> /\ ~Relied(at[p])
    BY <1>1 DEF Lock, Count, Respawn, Relied
  <2>2. QED
    BY <2>1, QuietWakeup DEF Places
<1>2. CASE Acquire(p)
  BY <1>2, MutexAssumption DEF Acquire, NoLostWakeup, Safe, Roles, Processes
<1>3. CASE Fail(p) \/ FailAgain(p)
  BY <1>3 DEF Fail, FailAgain, NoLostWakeup
<1>4. CASE Wake(p) \/ Unlock(p) \/ SwapWait(p)
  <2>1. PICK place \in {"awake", "read", "post"} : Go(p, place)
    BY <1>4, UnlockSafe DEF Wake, SwapWait
  <2>2. at'[p] = place
    BY <2>1, Moves DEF Safe, Places
  <2>3. Relied(at'[p])
    BY <2>2 DEF Relied
  <2>4. QED
    BY <2>3 DEF NoLostWakeup, Relied
<1>5. CASE Post(p)
  <2>1. sem \in Nat
    BY DEF Safe, TypeOK
  <2>2. sem' > 0
    BY <1>5, <2>1 DEF Post
  <2>3. QED
    BY <2>2 DEF NoLostWakeup
<1>6. CASE Die(p)
  <2>1. CASE Relied(at[p])
    BY <1>6, <2>1 DEF Die, NoLostWakeup
  <2>2. CASE ~Relied(at[p])
    <3>1. Go(p, "dead") /\ UNCHANGED <<lock, sem>>
      BY <1>6 DEF Die
    <3>2. lost' = lost
      BY <1>6, <2>2, Zenon DEF Die, Safe, TypeOK
    <3>3. QED
      BY <2>2, <3>1, <3>2, QuietWakeup DEF Places
  <2>3. QED
    BY <2>1, <2>2
<1>7. CASE Collect(p)
  <2>1. CASE lock = p
    <3>1. Master \in Processes /\ at' = [at EXCEPT ![p] = "collected", ![Master] = "read"]
      BY <1>7, <2>1 DEF Collect, Processes
    <3>2. Relied(at'[Master])
      BY <3>1 DEF Safe, TypeOK, Relied
    <3>3. QED
      BY <3>1, <3>2 DEF NoLostWakeup, Relied
  <2>2. CASE lock # p
    <3>1. Go(p, "collected") /\ UNCHANGED <<lock, sem, lost>> /\ ~Relied(at[p])
      BY <1>7, <2>2 DEF Collect, Relied
    <3>2. QED
      BY <3>1, QuietWakeup DEF Places
  <2>3. QED
    BY <2>1, <2>2
<1>8. QED
  BY <1>1, <1>2, <1>3, <1>4, <1>5, <1>6, <1>7, ReadWakeup

-----------------------------------------------------------------------------
(* The theorems.                                                           *)

\* The invariant holds at first, and every step keeps it.
LEMMA InitInv == Init => IInv
<1>1. SUFFICES ASSUME Init PROVE IInv
  OBVIOUS
<1>2. MaxCount \in Nat /\ NoPid \notin Workers
  BY MutexAssumption
<1>3. TypeOK
  <2>1. 0 \in 0 .. MaxCount /\ "rest" \in Places
    BY <1>2 DEF Places
  <2>2. at \in [Processes -> Places] /\ seen \in [Processes -> 0 .. MaxCount]
    BY <1>1, <2>1 DEF Init
  <2>3. QED
    BY <1>1, <2>1, <2>2 DEF Init, TypeOK
<1>4. Waiting = {} /\ Posting = {}
  BY <1>1 DEF Init, Waiting, Posting
<1>5. Cardinality(Waiting) = 0 /\ Cardinality(Posting) = 0
  BY <1>4, FS_EmptySet
<1>6. Bounded /\ Counted
  BY <1>1, <1>2, <1>5 DEF Init, Bounded, Counted
<1>7. Roles /\ Owned /\ NoLostWakeup
  BY <1>1, MutexAssumption DEF Init, Roles, Owned, NoLostWakeup, Processes
<1>8. QED
  BY <1>3, <1>6, <1>7 DEF IInv, Safe

LEMMA NextInv == IInv /\ [Next]_vars => IInv'
<1>1. SUFFICES ASSUME IInv, [Next]_vars PROVE IInv'
  OBVIOUS
<1>2. CASE UNCHANGED vars
  BY <1>1, <1>2 DEF vars, IInv, Safe, TypeOK, Bounded, Roles, Owned, Counted,
                    NoLostWakeup, Waiting, Posting, Relied
<1>3. CASE Next
  <2>1. PICK p \in Processes :
         \/ Lock(p) \/ Acquire(p) \/ Fail(p) \/ Count(p) \/ FailAgain(p) \/ Wake(p)
         \/ Unlock(p) \/ ReadWait(p) \/ SwapWait(p) \/ Post(p)
         \/ Die(p) \/ Collect(p) \/ Respawn(p)
    BY <1>3 DEF Next
  <2>2. Safe'
    BY <1>1, <2>1, QuietSafe, AcquireSafe, CountSafe, WakeSafe, UnlockSafe, ReadSafe,
       SwapSafe, PostSafe, DieSafe, CollectSafe DEF IInv
  <2>3. Counted' /\ NoLostWakeup'
    BY <1>1, <2>1, NextCounted, NextWakeup DEF IInv
  <2>4. QED
    BY <2>2, <2>3 DEF IInv
<1>4. QED
  BY <1>1, <1>2, <1>3

\* The inductive invariant holds throughout.
LEMMA Invariance == Spec => []IInv
  BY InitInv, NextInv, PTL DEF Spec

\* Lock word, counters and places have the values the code gives them.
THEOREM TypeCorrect == Spec => []TypeOK
<1>1. IInv => TypeOK
  BY DEF IInv, Safe
<1>2. QED
  BY <1>1, Invariance, PTL

\* Who is in the section holds the lock, whoever dies: unlocking in the
\* name of the dead (ngx_shmtx_force_unlock) never frees a living owner.
THEOREM OneOwner == Spec => []Owned
<1>1. IInv => Owned
  BY DEF IInv, Safe
<1>2. QED
  BY <1>1, Invariance, PTL

\* Two workers are never in the section.
THEOREM MutualExclusion ==
  Spec => [](\A p, q \in Workers : at[p] = "in" /\ at[q] = "in" => p = q)
<1>1. IInv => \A p, q \in Workers : at[p] = "in" /\ at[q] = "in" => p = q
  BY DEF IInv, Safe, Owned
<1>2. QED
  BY <1>1, Invariance, PTL

\* ngx_shmtx_wakeup never takes one count for two waiters.
THEOREM WaitersCounted == Spec => []Counted
<1>1. IInv => Counted
  BY DEF IInv
<1>2. QED
  BY <1>1, Invariance, PTL

\* Unless a worker dies with a wake-up in hand, nobody sleeps beside a free
\* lock with nobody to wake it.
THEOREM WakeupKept == Spec => []NoLostWakeup
<1>1. IInv => NoLostWakeup
  BY DEF IInv
<1>2. QED
  BY <1>1, Invariance, PTL
=============================================================================
