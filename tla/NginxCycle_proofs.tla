-------------------------- MODULE NginxCycle_proofs --------------------------
(* Proofs about NginxCycle: for any number of workers, any size of the table *)
(* and any number of signals, edits and accidents.                           *)
(*                                                                           *)
(* The invariant Good is stated of the master's variables w and of the kinds *)
(* of accident so far, so that it can be carried through the stages of one   *)
(* pass: each stage keeps it, and the steps of the workers do.               *)
EXTENDS NginxCycle, FiniteSetTheorems, TLAPS

\* An entry's fields agree: only the process of an entry that has been waited
\* for is gone, who has been told is exiting, and who is exiting and alive has
\* still to read it or is leaving.
Sane(e) ==
    /\ e.exited => e.child = "none" /\ e.told = {}
    /\ e.detached => ~e.respawn
    /\ e.told # {} => e.exiting
    /\ e.child = "leaving" => e.exiting
    /\ e.exiting /\ Alive(e) => e.told # {} \/ e.child = "leaving"

\* Whoever runs another configuration than c has been told to go.
Old(e, c) == Alive(e) /\ ~e.detached /\ e.conf # c => e.exiting

Nobody(w) == \A s \in SlotNumber : Alive(w.table[s]) => w.table[s].detached

\* Without an upgrade of the binary nothing of one is about.
Plain(w) == /\ w.newBinary = NoBinary /\ ~w.noaccepting
            /\ w.flags \cap {"restart", "change_binary", "noaccept"} = {}

\* The entries that count for the full strength.
Counted(w) == {s \in SlotNumber : Stays(w.table[s]) /\ w.table[s].conf = w.conf}

\* No fork or start has failed, in this pass or before, and nobody upgrades.
Unmarred(w, mark) == mark \subseteq {"hung"} /\ ~w.short

\* A worker that waits to be started again has the configuration in force.
Due(w) == \A s \in SlotNumber :
    w.table[s].respawn /\ ~w.table[s].exiting /\ ~Alive(w.table[s])
    => w.table[s].conf = w.conf

\* Every child that has been waited for has been seen to.
Ready(w, mark) == ~Ending(w) /\ Unmarred(w, mark) =>
                  \A s \in SlotNumber : ~w.table[s].exited

Typed(w) ==
    /\ w \in Master
    /\ \A s \in SlotNumber : s > w.last => w.table[s] = Free
    /\ w.conf <= file.edit

Entered(w) == \A s \in SlotNumber : /\ Sane(w.table[s]) /\ ~w.table[s].just
                                    /\ Old(w.table[s], w.conf)

Left(w, mark) == /\ w.gone => ~w.live
                 /\ "upgrade" \notin mark => Plain(w) /\ (~w.live => Nobody(w))

Strong(w, mark) == ~Ending(w) /\ Unmarred(w, mark) =>
                   /\ Due(w) /\ \A s \in SlotNumber : w.table[s].child # "fatal"
                   /\ Cardinality(Counted(w)) = WorkerProcesses

Good(w, mark) == Typed(w) /\ Entered(w) /\ Left(w, mark) /\ Strong(w, mark)

\* Between two passes.
Quiet(w) == ~w.short /\ ~w.failed /\ w.raised = {}

IInv == /\ TypeOK
        /\ Good(master, marred) /\ Ready(master, marred) /\ Quiet(master)

\* The configurations that are served, as Serving says of the master.
Shown(w) == {w.table[s].conf : s \in {t \in SlotNumber :
                /\ w.table[t].child \in {"starting", "serving"}
                /\ ~w.table[t].detached}}

-----------------------------------------------------------------------------
(* What each handler does to one entry.                                      *)

LEMMA FreeEntry ==
  /\ Free \in Entry /\ Sane(Free) /\ ~Alive(Free)
  /\ ~Free.exited /\ ~Free.just /\ ~Free.detached /\ ~Free.respawn /\ ~Free.exiting
  /\ Free.told = {} /\ Free.child = "none"
<1>1. 0 \in 0 .. MaxEdits
  BY NginxAssumption
<1>2. QED
  BY <1>1 DEF Free, Entry, Sane, Alive, Children

\* The new binary.
LEMMA BinaryEntry ==
  ASSUME NEW c \in 0 .. MaxEdits, NEW e, e = [Spawned(c) EXCEPT !.detached = TRUE]
  PROVE  e \in Entry /\ Sane(e) /\ ~e.just /\ e.detached /\ e.conf = c
BY DEF Spawned, Free, Entry, Sane, Alive, Children

LEMMA SignalledEntry ==
  ASSUME NEW e \in Entry, Sane(e), NEW what \in {"quit", "terminate", "kill", "reopen"},
         NEW f, f = Signalled(e, what)
  PROVE  /\ f \in Entry /\ Sane(f) /\ ~f.just
         /\ f.conf = e.conf /\ f.detached = e.detached /\ f.respawn = e.respawn
         /\ f.exited = e.exited
         /\ f.child \in {e.child, "dead"}
         /\ Alive(f) => f.child = e.child /\ (e.exiting => f.exiting)
         /\ ~e.exited /\ e.exiting => f.exiting
         /\ e = Free => f = Free
<1>1. CASE PassedOver(e, what)
  <2>1. f = [e EXCEPT !.just = FALSE]
    BY <1>1 DEF Signalled
  <2>2. f \in Entry
    BY <2>1 DEF Entry
  <2>3. /\ ~f.just /\ f.child = e.child /\ f.told = e.told /\ f.exited = e.exited
        /\ f.exiting = e.exiting /\ f.respawn = e.respawn /\ f.detached = e.detached
        /\ f.conf = e.conf
    BY <2>1 DEF Entry
  <2>4. e = Free => f = Free
    <3>1. SUFFICES ASSUME e = Free PROVE f = Free
      OBVIOUS
    <3>2. DOMAIN f = DOMAIN Free /\ \A x \in DOMAIN Free : f[x] = Free[x]
      BY <2>1, <3>1 DEF Free
    <3>3. QED
      BY <3>2, <2>1, <3>1 DEF Free
  <2>5. Sane(f)
    BY <2>3 DEF Sane, Alive
  <2>6. QED
    BY <2>2, <2>3, <2>4, <2>5
<1>2. CASE ~PassedOver(e, what) /\ e.exited
  <2>1. f = [e EXCEPT !.exiting = FALSE] /\ e # Free
    BY <1>2 DEF Signalled, Heard, PassedOver
  <2>2. ~e.just
    BY <1>2 DEF PassedOver
  <2>3. QED
    BY <1>2, <2>1, <2>2 DEF Entry, Sane, Alive
<1>3. CASE ~PassedOver(e, what) /\ ~e.exited /\ what = "reopen"
  BY <1>3 DEF Signalled, Heard, PassedOver
<1>4. CASE ~PassedOver(e, what) /\ ~e.exited /\ what = "kill"
  <2>1. f = [e EXCEPT !.exiting = TRUE, !.child = IF Alive(e) THEN "dead" ELSE @]
    BY <1>4 DEF Signalled, Heard
  <2>2. ~e.just /\ e # Free
    BY <1>4 DEF PassedOver
  <2>3. CASE Alive(e)
    BY <1>4, <2>1, <2>2, <2>3 DEF Entry, Sane, Alive, Children
  <2>4. CASE ~Alive(e)
    BY <1>4, <2>1, <2>2, <2>4 DEF Entry, Sane, Alive, Children
  <2>5. QED
    BY <2>3, <2>4
<1>5. CASE ~PassedOver(e, what) /\ ~e.exited /\ what \in {"quit", "terminate"}
  <2>1. f = [e EXCEPT !.exiting = TRUE, !.told = @ \cup {what}]
    BY <1>5 DEF Signalled, Heard
  <2>2. ~e.just /\ e # Free
    BY <1>5 DEF PassedOver
  <2>3. f \in Entry
    <3>1. e.told \cup {what} \in SUBSET {"quit", "terminate"}
      BY <1>5 DEF Entry
    <3>2. PICK told \in SUBSET {"quit", "terminate"} : told = e.told \cup {what}
      BY <3>1
    <3>3. f = [e EXCEPT !.exiting = TRUE, !.told = told]
      BY <2>1, <3>2
    <3>4. QED
      BY <3>3 DEF Entry
  <2>4. /\ f.exiting /\ f.told = e.told \cup {what}
        /\ f.child = e.child /\ f.exited = e.exited /\ f.respawn = e.respawn
        /\ f.detached = e.detached /\ f.conf = e.conf /\ f.just = e.just
    BY <2>1 DEF Entry
  <2>5. Sane(f)
    BY <1>5, <2>4 DEF Sane, Alive
  <2>6. QED
    BY <2>2, <2>3, <2>4, <2>5
<1>6. QED
  BY <1>1, <1>2, <1>3, <1>4, <1>5

\* A "quit" reaches everyone who lives and has not just been started.
LEMMA QuitEntry ==
  ASSUME NEW e \in Entry, Sane(e), NEW f, f = Signalled(e, "quit")
  PROVE  /\ e.just => f = [e EXCEPT !.just = FALSE]
         /\ ~e.just /\ ~e.exited /\ ~e.detached /\ e # Free => f.exiting
         /\ f # Free => e # Free
<1>1. CASE PassedOver(e, "quit")
  <2>1. f = [e EXCEPT !.just = FALSE]
    BY <1>1 DEF Signalled
  <2>2. QED
    BY <1>1, <2>1 DEF PassedOver, Entry, Free
<1>2. CASE ~PassedOver(e, "quit") /\ e.exited
  BY <1>2 DEF Signalled, Heard, PassedOver, Entry
<1>3. CASE ~PassedOver(e, "quit") /\ ~e.exited
  <2>1. f = [e EXCEPT !.exiting = TRUE, !.told = @ \cup {"quit"}]
    BY <1>3 DEF Signalled, Heard
  <2>2. QED
    BY <1>3, <2>1 DEF PassedOver, Entry
<1>4. QED
  BY <1>1, <1>2, <1>3

LEMMA ReopenEntry ==
  ASSUME NEW e \in Entry, ~e.exited, ~e.just
  PROVE  Signalled(e, "reopen") = e
BY DEF Signalled, Heard, PassedOver, Entry

LEMMA CollectedEntry ==
  ASSUME NEW e \in Entry, Sane(e), NEW f, f = Collected(e)
  PROVE  /\ f \in Entry /\ Sane(f)
         /\ f.conf = e.conf /\ f.detached = e.detached /\ f.just = e.just
         /\ f.exiting = e.exiting /\ (f.respawn => e.respawn)
         /\ Alive(f) <=> Alive(e)
         /\ Alive(f) => f = e
         /\ e.child # "fatal" => f.respawn = e.respawn
         /\ e = Free => f = Free
<1>1. CASE e.child \notin {"dead", "fatal"}
  BY <1>1 DEF Collected
<1>2. CASE e.child \in {"dead", "fatal"}
  <2>1. f = [e EXCEPT !.child = "none", !.exited = TRUE, !.told = {},
                      !.respawn = @ /\ e.child # "fatal"]
    BY <1>2 DEF Collected
  <2>2. /\ f.respawn = (e.respawn /\ e.child # "fatal")
        /\ f.respawn \in BOOLEAN /\ e.respawn \in BOOLEAN
    BY <2>1 DEF Entry
  <2>3. f \in Entry
    BY <2>1, <2>2 DEF Entry, Children
  <2>4. /\ f.child = "none" /\ f.exited /\ f.told = {} /\ f.exiting = e.exiting
        /\ f.detached = e.detached /\ f.conf = e.conf /\ f.just = e.just
    BY <2>1 DEF Entry
  <2>5. Sane(f) /\ ~Alive(f) /\ ~Alive(e)
    BY <1>2, <2>2, <2>4 DEF Sane, Alive
  <2>6. e # Free
    BY <1>2, FreeEntry
  <2>7. QED
    BY <2>2, <2>3, <2>4, <2>5, <2>6
<1>3. QED
  BY <1>1, <1>2

LEMMA RespawnedEntry ==
  ASSUME NEW w, w.conf \in 0 .. MaxEdits, NEW e \in Entry, Sane(e), Respawns(w, e),
         NEW f, f = Respawn(w, e)
  PROVE  /\ f \in Entry /\ Sane(f) /\ Alive(f) /\ ~f.exited /\ ~f.exiting /\ f.told = {}
         /\ f.child = "starting" /\ f.conf = w.conf /\ f.respawn /\ ~f.detached
         /\ f.just = e.just
BY DEF Respawn, Respawns, Entry, Sane, Alive, Children

-----------------------------------------------------------------------------
(* What each stage does to the master's variables.                           *)

LEMMA MasterFields ==
  ASSUME NEW w \in Master
  PROVE  /\ w.table \in [SlotNumber -> Entry] /\ w.last \in 0 .. MaxProcesses
         /\ w.conf \in 0 .. MaxEdits /\ w.flags \in SUBSET Flags /\ w.live \in BOOLEAN
         /\ w.newBinary \in 0 .. FailedBinary /\ w.noaccepting \in BOOLEAN
         /\ w.delay \in 0 .. 2 * LongDelay /\ w.sigio \in 0 .. WorkerProcesses + 2
         /\ w.gone \in BOOLEAN /\ w.short \in BOOLEAN /\ w.failed \in BOOLEAN
         /\ w.raised \in SUBSET {"CHLD"}
BY DEF Master

LEMMA SignalFields ==
  ASSUME NEW w \in Master, \A s \in SlotNumber : Sane(w.table[s]),
         NEW what \in {"quit", "terminate", "kill", "reopen"},
         NEW v, v = SignalWorkers(w, what)
  PROVE  /\ v \in Master
         /\ v.table = [s \in SlotNumber |-> Signalled(w.table[s], what)]
         /\ v.last = w.last /\ v.conf = w.conf /\ v.live = w.live
         /\ v.newBinary = w.newBinary /\ v.noaccepting = w.noaccepting
         /\ v.gone = w.gone /\ v.short = w.short /\ v.failed = w.failed
         /\ w.flags \subseteq v.flags /\ v.flags \subseteq w.flags \cup {"reap"}
<1> DEFINE tab == [s \in SlotNumber |-> Signalled(w.table[s], what)]
           reached == {s \in SlotNumber : ~PassedOver(w.table[s], what)}
           fl == IF \E s \in reached : w.table[s].exited THEN w.flags \cup {"reap"}
                 ELSE w.flags
           ra == IF what = "kill" /\ \E s \in reached : Alive(w.table[s])
                 THEN w.raised \cup {"CHLD"} ELSE w.raised
<1>1. v = [w EXCEPT !.table = tab, !.flags = fl, !.raised = ra]
  BY DEF SignalWorkers
<1>2. tab \in [SlotNumber -> Entry]
  <2>1. \A s \in SlotNumber : Signalled(w.table[s], what) \in Entry
    BY MasterFields, SignalledEntry
  <2>2. QED
    BY <2>1
<1>3. fl \in SUBSET Flags /\ w.flags \subseteq fl /\ fl \subseteq w.flags \cup {"reap"}
  BY MasterFields DEF Flags
<1>4. ra \in SUBSET {"CHLD"}
  BY MasterFields
<1> HIDE DEF tab, fl, ra, reached
<1>5. QED
  BY <1>1, <1>2, <1>3, <1>4 DEF Master, tab

LEMMA SpawnFields ==
  ASSUME NEW w \in Master, NEW n \in Nat, NEW h \in Reach(w, n), NEW entry \in Entry,
         NEW v, v = Spawn(w, h, n, entry)
  PROVE  /\ v \in Master
         /\ v.table = [s \in SlotNumber |->
                          IF s \in Taken(w, h) THEN entry ELSE w.table[s]]
         /\ v.last = IF h > w.last THEN h ELSE w.last
         /\ v.short = (w.short \/ Cardinality(Taken(w, h)) < n)
         /\ v.conf = w.conf /\ v.live = w.live /\ v.flags = w.flags
         /\ v.newBinary = w.newBinary /\ v.noaccepting = w.noaccepting
         /\ v.gone = w.gone
<1> DEFINE tab == [s \in SlotNumber |-> IF s \in Taken(w, h) THEN entry ELSE w.table[s]]
           short == Cardinality(Taken(w, h)) < n
           la == IF h > w.last THEN h ELSE w.last
           sh == w.short \/ short
           fa == w.failed \/ (short /\ Taken(w, h) # Vacant(w))
<1>1. v = [w EXCEPT !.table = tab, !.last = la, !.short = sh, !.failed = fa]
  BY DEF Spawn
<1>2. tab \in [SlotNumber -> Entry]
  BY MasterFields
<1>3. la \in 0 .. MaxProcesses
  <2>1. h \in 0 .. MaxProcesses
    BY NginxAssumption DEF Reach, Vacant, SlotNumber
  <2>2. QED
    BY <2>1, MasterFields
<1>4. sh \in BOOLEAN /\ fa \in BOOLEAN
  OBVIOUS
<1> HIDE DEF tab, la, sh, fa
<1>5. QED
  BY <1>1, <1>2, <1>3, <1>4 DEF Master, tab, la, sh, short

LEMMA ReapedFields ==
  ASSUME NEW w \in Master, \A s \in SlotNumber : Sane(w.table[s]),
         NEW lost \in SUBSET Again(w), NEW v, v = Reaped(w, lost)
  PROVE  /\ v \in Master
         /\ v.table = [s \in SlotNumber |->
                          IF s \in Dropped(w) THEN Free
                          ELSE IF s \in Again(w) \ lost THEN Respawn(w, w.table[s])
                          ELSE w.table[s]]
         /\ v.last = LastAfter(w) /\ v.conf = w.conf
         /\ v.live = (Again(w) \ lost # {} \/ \E s \in SlotNumber : Lives(w.table[s]))
         /\ v.newBinary \in {w.newBinary, NoBinary}
         /\ v.noaccepting => w.noaccepting
         /\ w.flags \ {"reap"} \subseteq v.flags
         /\ v.flags \subseteq (w.flags \ {"reap"}) \cup
                              (IF w.noaccepting THEN {"restart"} ELSE {})
         /\ v.gone = w.gone /\ v.short = (w.short \/ lost # {})
<1> DEFINE isNew == w.newBinary \in Dropped(w)
           tab == [s \in SlotNumber |->
                      IF s \in Dropped(w) THEN Free
                      ELSE IF s \in Again(w) \ lost THEN Respawn(w, w.table[s])
                      ELSE w.table[s]]
           la == LastAfter(w)
           li == Again(w) \ lost # {} \/ \E s \in SlotNumber : Lives(w.table[s])
           nb == IF isNew THEN NoBinary ELSE w.newBinary
           fl == (w.flags \ {"reap"}) \cup
                 (IF isNew /\ w.noaccepting THEN {"restart"} ELSE {})
           na == w.noaccepting /\ ~isNew
           sh == w.short \/ lost # {}
           fa == w.failed \/ lost # {}
<1>1. v = [w EXCEPT !.table = tab, !.last = la, !.live = li, !.newBinary = nb,
                    !.flags = fl, !.noaccepting = na, !.short = sh, !.failed = fa]
  BY DEF Reaped
<1>2. tab \in [SlotNumber -> Entry]
  <2>1. \A s \in Again(w) : Respawn(w, w.table[s]) \in Entry
    BY MasterFields, RespawnedEntry DEF Again
  <2>2. QED
    BY <2>1, MasterFields, FreeEntry
<1>3. la \in 0 .. MaxProcesses
  BY MasterFields, NginxAssumption DEF LastAfter, Dropped, SlotNumber
<1>4. nb \in 0 .. FailedBinary /\ nb \in {w.newBinary, NoBinary}
  BY MasterFields, NginxAssumption DEF NoBinary, FailedBinary
<1>5. /\ fl \in SUBSET Flags /\ w.flags \ {"reap"} \subseteq fl
      /\ fl \subseteq (w.flags \ {"reap"}) \cup (IF w.noaccepting THEN {"restart"} ELSE {})
  BY MasterFields DEF Flags
<1>6. /\ li \in BOOLEAN /\ na \in BOOLEAN /\ sh \in BOOLEAN /\ fa \in BOOLEAN
      /\ na => w.noaccepting
  OBVIOUS
<1> HIDE DEF tab, la, li, nb, fl, na, sh, fa, isNew
<1>7. v \in Master
  BY <1>1, <1>2, <1>3, <1>4, <1>5, <1>6 DEF Master
<1>8. /\ v.table = tab /\ v.last = la /\ v.live = li /\ v.newBinary = nb
      /\ v.flags = fl /\ v.noaccepting = na /\ v.short = sh
      /\ v.conf = w.conf /\ v.gone = w.gone
  BY <1>1 DEF Master
<1>9. QED
  BY <1>4, <1>5, <1>6, <1>7, <1>8 DEF tab, la, li, sh

-----------------------------------------------------------------------------
(* The stages keep the invariant.                                            *)

Steady(w, mark) == Typed(w) /\ Entered(w) /\ Left(w, mark) /\ ~w.gone
Full(w, mark) == Strong(w, mark) /\ Ready(w, mark)

LEMMA UpgradeExcepts ==
  ASSUME NEW w, NEW mark, "upgrade" \in mark
  PROVE  Full(w, mark)
BY DEF Full, Strong, Ready, Unmarred

LEMMA EndingExcepts ==
  ASSUME NEW w, NEW mark, Ending(w)
  PROVE  Full(w, mark)
BY DEF Full, Strong, Ready

LEMMA SignalKeeps ==
  ASSUME NEW w, NEW mark, Steady(w, mark),
         NEW what \in {"quit", "terminate", "kill", "reopen"},
         NEW v, v = SignalWorkers(w, what)
  PROVE  /\ Steady(v, mark) /\ Shown(v) \subseteq Shown(w) /\ v.conf = w.conf
         /\ Ending(w) <=> Ending(v)
<1>1. w \in Master /\ \A s \in SlotNumber : Sane(w.table[s]) /\ w.table[s] \in Entry
  BY MasterFields DEF Steady, Typed, Entered
<1>2. /\ v \in Master
      /\ v.table = [s \in SlotNumber |-> Signalled(w.table[s], what)]
      /\ v.last = w.last /\ v.conf = w.conf /\ v.live = w.live
      /\ v.newBinary = w.newBinary /\ v.noaccepting = w.noaccepting /\ v.gone = w.gone
      /\ w.flags \subseteq v.flags /\ v.flags \subseteq w.flags \cup {"reap"}
  BY <1>1, SignalFields
<1>3. ASSUME NEW s \in SlotNumber
      PROVE  /\ Sane(v.table[s]) /\ ~v.table[s].just
             /\ v.table[s].conf = w.table[s].conf
             /\ v.table[s].detached = w.table[s].detached
             /\ Alive(v.table[s]) => /\ v.table[s].child = w.table[s].child
                                     /\ w.table[s].exiting => v.table[s].exiting
             /\ w.table[s] = Free => v.table[s] = Free
  BY <1>1, <1>2, SignalledEntry
<1>4. Typed(v)
  BY <1>2, <1>3 DEF Steady, Typed
<1>5. \A s \in SlotNumber : Alive(v.table[s]) => Alive(w.table[s])
  BY <1>3 DEF Alive
<1>6. Entered(v)
  BY <1>2, <1>3, <1>5 DEF Steady, Entered, Old
<1>7. Left(v, mark) /\ ~v.gone
  BY <1>2, <1>3, <1>5 DEF Steady, Left, Plain, Nobody
<1>8. Shown(v) \subseteq Shown(w)
  BY <1>3 DEF Shown, Alive
<1>9. Ending(w) <=> Ending(v)
  BY <1>2 DEF Ending
<1>10. QED
  BY <1>2, <1>4, <1>6, <1>7, <1>8, <1>9 DEF Steady

LEMMA ReopenFull ==
  ASSUME NEW w, NEW mark, Steady(w, mark), Full(w, mark),
         NEW v, v = SignalWorkers(w, "reopen")
  PROVE  Full(v, mark)
<1>1. w \in Master /\ \A s \in SlotNumber : /\ Sane(w.table[s]) /\ ~w.table[s].just
                                            /\ w.table[s] \in Entry
  BY MasterFields DEF Steady, Typed, Entered
<1>2. /\ v.table = [s \in SlotNumber |-> Signalled(w.table[s], "reopen")]
      /\ v.conf = w.conf /\ v.short = w.short
      /\ w.flags \subseteq v.flags
  BY <1>1, SignalFields
<1>3. SUFFICES ASSUME ~Ending(v), Unmarred(v, mark)
               PROVE  Full(v, mark)
  BY DEF Full, Strong, Ready
<1>4. ~Ending(w) /\ Unmarred(w, mark)
  BY <1>2, <1>3 DEF Ending, Unmarred
<1>5. \A s \in SlotNumber : v.table[s] = w.table[s]
  BY <1>1, <1>2, <1>4, ReopenEntry DEF Full, Ready
<1>6. Counted(v) = Counted(w)
  BY <1>2, <1>5 DEF Counted
<1>7. QED
  BY <1>2, <1>4, <1>5, <1>6 DEF Full, Strong, Ready, Due

LEMMA SpawnKeeps ==
  ASSUME NEW w, NEW mark, Typed(w), Entered(w), ~w.gone, NEW n \in Nat, NEW h \in Reach(w, n),
         NEW entry \in Entry, Sane(entry), ~entry.just, entry.conf = w.conf,
         NEW v, v = Spawn(w, h, n, entry)
  PROVE  /\ Typed(v) /\ Entered(v) /\ ~v.gone
         /\ Shown(v) \subseteq Shown(w) \cup {w.conf}
         /\ v.conf = w.conf /\ v.live = w.live /\ v.flags = w.flags
<1>1. w \in Master /\ w.table \in [SlotNumber -> Entry] /\ w.last \in 0 .. MaxProcesses
  BY MasterFields DEF Typed
<1>2. /\ v \in Master
      /\ v.table = [s \in SlotNumber |->
                       IF s \in Taken(w, h) THEN entry ELSE w.table[s]]
      /\ v.last = (IF h > w.last THEN h ELSE w.last)
      /\ v.conf = w.conf /\ v.live = w.live /\ v.flags = w.flags /\ v.gone = w.gone
  BY <1>1, SpawnFields
<1>3. h \in Nat /\ \A s \in Taken(w, h) : s \in SlotNumber /\ s <= h
  BY NginxAssumption DEF Taken, Vacant, Reach, SlotNumber
<1>4. \A s \in SlotNumber : v.table[s] = entry \/ v.table[s] = w.table[s]
  BY <1>2
<1>5. Typed(v)
  <2>1. ASSUME NEW s \in SlotNumber, s > v.last PROVE v.table[s] = Free
    <3>1. s > h /\ s > w.last /\ s \in Nat
      BY <1>1, <1>2, <1>3, <2>1, NginxAssumption DEF SlotNumber
    <3>2. s \notin Taken(w, h)
      BY <1>3, <3>1
    <3>3. QED
      BY <1>2, <3>1, <3>2 DEF Typed
  <2>2. QED
    BY <1>2, <2>1 DEF Typed
<1>6. Entered(v)
  BY <1>2, <1>4 DEF Entered, Old
<1>7. Shown(v) \subseteq Shown(w) \cup {w.conf}
  BY <1>4 DEF Shown
<1>8. QED
  BY <1>2, <1>5, <1>6, <1>7

\* A run of forks takes at most as many entries as are asked for.
LEMMA ReachBounds ==
  ASSUME NEW w, NEW n \in Nat, NEW h \in Reach(w, n)
  PROVE  /\ Taken(w, h) \subseteq SlotNumber /\ h \in 0 .. MaxProcesses
         /\ Cardinality(Taken(w, h)) \in Nat /\ Cardinality(Taken(w, h)) <= n
<1>1. IsFiniteSet(SlotNumber)
  BY FS_Interval, NginxAssumption DEF SlotNumber
<1>2. Taken(w, h) \subseteq SlotNumber /\ h \in 0 .. MaxProcesses
  BY NginxAssumption DEF Taken, Vacant, Reach, SlotNumber
<1>3. Cardinality(Taken(w, h)) \in Nat
  BY <1>1, <1>2, FS_Subset, FS_CardinalityType
<1>4. CASE h = 0
  <2>1. Taken(w, h) = {}
    BY <1>4, NginxAssumption DEF Taken, Vacant, SlotNumber
  <2>2. QED
    BY <1>2, <1>3, <2>1, FS_EmptySet
<1>5. CASE h # 0
  BY <1>2, <1>3, <1>5 DEF Reach
<1>6. QED
  BY <1>4, <1>5

LEMMA ReconfigureKeeps ==
  ASSUME NEW w, NEW mark, Steady(w, mark), Full(w, mark), file.edit \in 0 .. MaxEdits,
         NEW v \in Reconfigure(w)
  PROVE  /\ Steady(v, mark) /\ Full(v, mark) /\ v.conf \in {w.conf, file.edit}
         /\ Shown(v) \subseteq Shown(w) \cup {v.conf}
<1>1. CASE "reconfigure" \notin w.flags
  BY <1>1 DEF Reconfigure
<1>2. CASE "reconfigure" \in w.flags
  <2> DEFINE c == [w EXCEPT !.conf = file.edit, !.flags = @ \ {"reconfigure"}]
             entry == [Spawned(c.conf) EXCEPT !.respawn = TRUE, !.just = TRUE]
  <2>1. PICK h \in Reach(c, WorkerProcesses) :
           v = SignalWorkers([Spawn(c, h, WorkerProcesses, entry) EXCEPT !.live = TRUE],
                             "quit")
    BY <1>2 DEF Reconfigure, StartWorkers
  <2> DEFINE a == Spawn(c, h, WorkerProcesses, entry)
             b == [a EXCEPT !.live = TRUE]
             T == Taken(c, h)
  <2>2. w \in Master /\ \A s \in SlotNumber : w.table[s] \in Entry
    BY MasterFields DEF Steady, Typed
  <2>3. /\ c \in Master /\ c.conf = file.edit /\ c.flags = w.flags \ {"reconfigure"}
        /\ c.table = w.table /\ c.last = w.last /\ c.live = w.live /\ c.gone = w.gone
        /\ c.newBinary = w.newBinary /\ c.noaccepting = w.noaccepting
        /\ c.short = w.short
    BY <2>2 DEF Master
  <2>4. entry = [Spawned(file.edit) EXCEPT !.respawn = TRUE, !.just = TRUE]
    BY <2>3
  <2> HIDE DEF c, entry
  <2>5. /\ entry \in Entry /\ Sane(entry) /\ Alive(entry) /\ ~entry.exited
        /\ ~entry.exiting /\ entry.told = {} /\ entry.child = "starting"
        /\ entry.respawn /\ entry.just /\ ~entry.detached /\ entry.conf = file.edit
    BY <2>4 DEF Spawned, Free, Entry, Sane, Alive, Children
  <2>6. T \subseteq SlotNumber /\ Cardinality(T) \in Nat
        /\ Cardinality(T) <= WorkerProcesses /\ h \in 0 .. MaxProcesses
    BY ReachBounds, NginxAssumption
  <2>7. /\ a \in Master
        /\ a.table = [s \in SlotNumber |-> IF s \in T THEN entry ELSE w.table[s]]
        /\ a.last = (IF h > w.last THEN h ELSE w.last)
        /\ a.short = (w.short \/ Cardinality(T) < WorkerProcesses)
        /\ a.conf = file.edit /\ a.flags = w.flags \ {"reconfigure"} /\ ~a.gone
        /\ a.newBinary = w.newBinary /\ a.noaccepting = w.noaccepting
    BY <2>3, <2>5, SpawnFields, NginxAssumption DEF Steady
  <2> HIDE DEF a, T
  <2>8. /\ b \in Master /\ b.table = a.table /\ b.last = a.last /\ b.short = a.short
        /\ b.conf = a.conf /\ b.flags = a.flags /\ ~b.gone /\ b.live
        /\ b.newBinary = a.newBinary /\ b.noaccepting = a.noaccepting
    BY <2>7 DEF Master
  <2> HIDE DEF b
  <2>9. \A s \in SlotNumber : Sane(b.table[s]) /\ b.table[s] \in Entry
    BY <2>2, <2>5, <2>7, <2>8 DEF Steady, Entered
  <2>10. v = SignalWorkers(b, "quit")
    BY <2>1 DEF a, b
  <2>11. /\ v \in Master
         /\ v.table = [s \in SlotNumber |-> Signalled(b.table[s], "quit")]
         /\ v.last = b.last /\ v.conf = file.edit /\ v.live
         /\ v.newBinary = w.newBinary /\ v.noaccepting = w.noaccepting
         /\ ~v.gone /\ v.short = b.short
         /\ b.flags \subseteq v.flags /\ v.flags \subseteq b.flags \cup {"reap"}
    BY <2>7, <2>8, <2>9, <2>10, SignalFields
  <2>12. ASSUME NEW s \in SlotNumber
         PROVE  Sane(v.table[s]) /\ ~v.table[s].just /\ v.table[s] \in Entry
    BY <2>9, <2>11, SignalledEntry
  <2>13. ASSUME NEW s \in T
         PROVE  /\ v.table[s].child = "starting" /\ v.table[s].told = {}
                /\ ~v.table[s].exiting /\ ~v.table[s].exited /\ v.table[s].respawn
                /\ v.table[s].conf = file.edit
    <3>1. v.table[s] = Signalled(entry, "quit")
      BY <2>6, <2>7, <2>8, <2>11, <2>13
    <3>2. v.table[s] = [entry EXCEPT !.just = FALSE]
      BY <2>5, <3>1, QuitEntry
    <3>3. QED
      BY <2>5, <3>2 DEF Entry
  <2>14. ASSUME NEW s \in SlotNumber, s \notin T
         PROVE  /\ v.table[s].conf = w.table[s].conf
                /\ v.table[s].detached = w.table[s].detached
                /\ v.table[s].respawn = w.table[s].respawn
                /\ v.table[s].exited = w.table[s].exited
                /\ v.table[s].child \in {w.table[s].child, "dead"}
                /\ Alive(v.table[s]) => v.table[s].child = w.table[s].child
                /\ w.table[s] = Free => v.table[s] = Free
                /\ ~w.table[s].exited /\ ~w.table[s].detached /\ w.table[s] # Free
                   => v.table[s].exiting
    <3>1. v.table[s] = Signalled(w.table[s], "quit")
      BY <2>7, <2>8, <2>11, <2>14
    <3>2. Sane(w.table[s]) /\ ~w.table[s].just
      BY DEF Steady, Entered
    <3>3. QED
      BY <2>2, <3>1, <3>2, SignalledEntry, QuitEntry
  <2>15. Typed(v)
    <3>1. ASSUME NEW s \in SlotNumber, s > v.last PROVE v.table[s] = Free
      <4>1. s > h /\ s > w.last /\ s \in Nat
        BY <2>2, <2>6, <2>7, <2>8, <2>11, <3>1, MasterFields, NginxAssumption DEF SlotNumber
      <4>2. s \notin T
        BY <2>6, <4>1 DEF T, Taken
      <4>3. QED
        BY <2>14, <4>1, <4>2 DEF Steady, Typed
    <3>2. QED
      BY <2>11, <3>1 DEF Typed
  <2>16. Entered(v)
    <3>1. ASSUME NEW s \in SlotNumber, s \notin T, Alive(v.table[s]), ~v.table[s].detached
          PROVE  v.table[s].exiting
      <4>1. Alive(w.table[s]) /\ Sane(w.table[s])
        BY <2>14, <3>1 DEF Alive, Steady, Entered
      <4>2. ~w.table[s].exited /\ w.table[s] # Free
        BY <4>1, FreeEntry DEF Sane, Alive
      <4>3. QED
        BY <2>14, <3>1, <4>2
    <3>2. QED
      BY <2>11, <2>12, <2>13, <3>1 DEF Entered, Old
  <2>17. Steady(v, mark)
    <3>1. "upgrade" \notin mark => Plain(v)
      BY <2>7, <2>8, <2>11 DEF Steady, Left, Plain
    <3>2. QED
      BY <2>11, <2>15, <2>16, <3>1 DEF Steady, Left
  <2>18. Shown(v) \subseteq Shown(w) \cup {v.conf}
    <3>1. ASSUME NEW s \in SlotNumber, v.table[s].child \in {"starting", "serving"},
                 ~v.table[s].detached
          PROVE  v.table[s].conf \in Shown(w) \cup {v.conf}
      <4>1. CASE s \in T
        BY <2>11, <2>13, <4>1
      <4>2. CASE s \notin T
        BY <2>14, <3>1, <4>2 DEF Shown, Alive
      <4>3. QED
        BY <4>1, <4>2
    <3>2. QED
      BY <3>1 DEF Shown
  <2>19. Full(v, mark)
    <3>1. SUFFICES ASSUME ~Ending(v), Unmarred(v, mark)
                   PROVE  /\ Strong(v, mark) /\ \A s \in SlotNumber : ~v.table[s].exited
      BY DEF Full, Strong, Ready
    <3>2. ~Ending(w) /\ Unmarred(w, mark) /\ Cardinality(T) = WorkerProcesses
      <4>1. ~Ending(w)
        BY <2>7, <2>8, <2>11, <3>1 DEF Ending
      <4>2. ~v.short /\ mark \subseteq {"hung"}
        BY <3>1 DEF Unmarred
      <4>3. ~w.short /\ ~(Cardinality(T) < WorkerProcesses)
        BY <2>7, <2>8, <2>11, <4>2
      <4>4. QED
        BY <2>6, <4>1, <4>2, <4>3, NginxAssumption DEF Unmarred
    <3>3. \A s \in SlotNumber : ~w.table[s].exited /\ w.table[s].child # "fatal"
      BY <3>2 DEF Full, Ready, Strong
    <3>4. \A s \in SlotNumber : ~v.table[s].exited /\ v.table[s].child # "fatal"
      BY <2>13, <2>14, <3>3
    <3>5. ASSUME NEW s \in SlotNumber, s \notin T, v.table[s].respawn
          PROVE  v.table[s].exiting
      <4>1. w.table[s].respawn /\ Sane(w.table[s])
        BY <2>14, <3>5 DEF Steady, Entered
      <4>2. ~w.table[s].detached /\ w.table[s] # Free
        BY <4>1, FreeEntry DEF Sane
      <4>3. QED
        BY <2>14, <3>3, <3>5, <4>2
    <3>6. Due(v)
      BY <2>11, <2>13, <3>5 DEF Due
    <3>7. \A s \in SlotNumber : s \in T => Stays(v.table[s])
      BY <2>13 DEF Stays, Alive
    <3>8. \A s \in SlotNumber : s \notin T => ~Stays(v.table[s])
      BY <2>12, <3>5 DEF Stays, Sane
    <3>9. Counted(v) = T
      BY <2>6, <2>11, <2>13, <3>7, <3>8 DEF Counted
    <3>10. QED
      BY <3>2, <3>4, <3>6, <3>9 DEF Strong
  <2>20. QED
    BY <2>11, <2>17, <2>18, <2>19
<1>3. QED
  BY <1>1, <1>2

\* Workers started while the binary is being upgraded.
LEMMA StartKeeps ==
  ASSUME NEW w, NEW mark, Typed(w), Entered(w), ~w.gone,
         NEW v \in StartWorkers(w, FALSE)
  PROVE  /\ Typed(v) /\ Entered(v) /\ ~v.gone
         /\ Shown(v) \subseteq Shown(w) \cup {w.conf}
         /\ v.conf = w.conf /\ v.live = w.live /\ v.flags = w.flags
<1> DEFINE entry == [Spawned(w.conf) EXCEPT !.respawn = TRUE, !.just = FALSE]
<1>1. PICK h \in Reach(w, WorkerProcesses) : v = Spawn(w, h, WorkerProcesses, entry)
  BY DEF StartWorkers
<1>2. w.conf \in 0 .. MaxEdits
  BY MasterFields DEF Typed
<1>3. entry \in Entry /\ Sane(entry) /\ ~entry.just /\ entry.conf = w.conf
  BY <1>2 DEF Spawned, Free, Entry, Sane, Alive, Children
<1> HIDE DEF entry
<1>4. QED
  BY <1>1, <1>3, SpawnKeeps, NginxAssumption

\* A step that leaves the table, the configuration and the life of the master
\* alone.
LEMMA FlagsKeep ==
  ASSUME NEW w, NEW v \in Master, Typed(w), Entered(w), ~w.gone,
         v.table = w.table, v.last = w.last, v.conf = w.conf, v.gone = w.gone
  PROVE  Typed(v) /\ Entered(v) /\ ~v.gone /\ Shown(v) = Shown(w)
BY DEF Typed, Entered, Shown

LEMMA RestartKeeps ==
  ASSUME NEW w, NEW mark, Steady(w, mark), Full(w, mark), NEW v \in Restart(w)
  PROVE  /\ Steady(v, mark) /\ Full(v, mark) /\ v.conf = w.conf
         /\ Shown(v) \subseteq Shown(w) \cup {w.conf}
<1>1. CASE "restart" \notin w.flags
  BY <1>1 DEF Restart
<1>2. CASE "restart" \in w.flags
  <2>1. "upgrade" \in mark
    BY <1>2 DEF Steady, Left, Plain
  <2> DEFINE c == [w EXCEPT !.flags = @ \ {"restart"}]
  <2>2. PICK a \in StartWorkers(c, FALSE) : v = [a EXCEPT !.live = TRUE]
    BY <1>2 DEF Restart
  <2>3. /\ c \in Master /\ c.table = w.table /\ c.last = w.last /\ c.conf = w.conf
        /\ c.gone = w.gone
    BY DEF Steady, Typed, Master
  <2> HIDE DEF c
  <2>4. Typed(c) /\ Entered(c) /\ ~c.gone /\ Shown(c) = Shown(w)
    BY <2>3, FlagsKeep DEF Steady
  <2>5. /\ Typed(a) /\ Entered(a) /\ ~a.gone /\ a.conf = w.conf
        /\ Shown(a) \subseteq Shown(w) \cup {w.conf}
    BY <2>3, <2>4, StartKeeps
  <2>6. /\ v \in Master /\ v.table = a.table /\ v.last = a.last /\ v.conf = a.conf
        /\ v.gone = a.gone
    BY <2>2, <2>5 DEF Typed, Master
  <2>7. Typed(v) /\ Entered(v) /\ ~v.gone /\ Shown(v) = Shown(a)
    BY <2>5, <2>6, FlagsKeep
  <2>8. QED
    BY <2>1, <2>5, <2>6, <2>7, UpgradeExcepts DEF Steady, Left
<1>3. QED
  BY <1>1, <1>2

LEMMA ReturnKeeps ==
  ASSUME NEW w, NEW mark, Steady(w, mark), "upgrade" \in mark, NEW v \in Return(w)
  PROVE  /\ Steady(v, mark) /\ Full(v, mark) /\ v.conf = w.conf
         /\ Shown(v) \subseteq Shown(w) \cup {w.conf}
<1> DEFINE c == [w EXCEPT !.flags = @ \ {"reconfigure"}]
<1>2. PICK a \in StartWorkers(c, FALSE) : v = [a EXCEPT !.noaccepting = FALSE]
  BY DEF Return
<1>3. /\ c \in Master /\ c.table = w.table /\ c.last = w.last /\ c.conf = w.conf
      /\ c.gone = w.gone
  BY DEF Steady, Typed, Master
<1> HIDE DEF c
<1>4. Typed(c) /\ Entered(c) /\ ~c.gone /\ Shown(c) = Shown(w)
  BY <1>3, FlagsKeep DEF Steady
<1>5. /\ Typed(a) /\ Entered(a) /\ ~a.gone /\ a.conf = w.conf
      /\ Shown(a) \subseteq Shown(w) \cup {w.conf}
  BY <1>3, <1>4, StartKeeps
<1>6. /\ v \in Master /\ v.table = a.table /\ v.last = a.last /\ v.conf = a.conf
      /\ v.gone = a.gone
  BY <1>2, <1>5 DEF Typed, Master
<1>7. Typed(v) /\ Entered(v) /\ ~v.gone /\ Shown(v) = Shown(a)
  BY <1>5, <1>6, FlagsKeep
<1>8. QED
  BY <1>5, <1>6, <1>7, UpgradeExcepts DEF Steady, Left

LEMMA ReopenKeeps ==
  ASSUME NEW w, NEW mark, Steady(w, mark), Full(w, mark), NEW v, v = Reopen(w)
  PROVE  /\ Steady(v, mark) /\ Full(v, mark) /\ v.conf = w.conf
         /\ Shown(v) \subseteq Shown(w)
<1>1. CASE "reopen" \notin w.flags
  BY <1>1 DEF Reopen
<1>2. CASE "reopen" \in w.flags
  <2> DEFINE c == [w EXCEPT !.flags = @ \ {"reopen"}]
  <2>1. v = SignalWorkers(c, "reopen")
    BY <1>2 DEF Reopen
  <2>2. /\ c \in Master /\ c.table = w.table /\ c.last = w.last /\ c.conf = w.conf
        /\ c.gone = w.gone /\ c.live = w.live /\ c.newBinary = w.newBinary
        /\ c.noaccepting = w.noaccepting /\ c.short = w.short
        /\ c.flags = w.flags \ {"reopen"}
    BY DEF Steady, Typed, Master
  <2> HIDE DEF c
  <2>3. Steady(c, mark)
    BY <2>2, FlagsKeep DEF Steady, Left, Plain, Nobody
  <2>4. (Ending(c) <=> Ending(w)) /\ (Unmarred(c, mark) <=> Unmarred(w, mark))
    BY <2>2 DEF Ending, Unmarred
  <2>5. Counted(c) = Counted(w)
    BY <2>2 DEF Counted
  <2>6. Full(c, mark)
    BY <2>2, <2>4, <2>5 DEF Full, Strong, Ready, Due
  <2>7. QED
    BY <2>1, <2>2, <2>3, <2>6, SignalKeeps, ReopenFull, FlagsKeep DEF Steady
<1>3. QED
  BY <1>1, <1>2

LEMMA ChangeBinaryKeeps ==
  ASSUME NEW w, NEW mark, Steady(w, mark), Full(w, mark), NEW v \in ChangeBinary(w)
  PROVE  /\ Steady(v, mark) /\ Full(v, mark) /\ v.conf = w.conf
         /\ Shown(v) \subseteq Shown(w) \cup {w.conf}
<1>1. CASE "change_binary" \notin w.flags
  BY <1>1 DEF ChangeBinary
<1>2. CASE "change_binary" \in w.flags
  <2>1. "upgrade" \in mark
    BY <1>2 DEF Steady, Left, Plain
  <2> DEFINE entry == [Spawned(w.conf) EXCEPT !.detached = TRUE]
             c(h) == [w EXCEPT !.flags = @ \ {"change_binary"},
                               !.newBinary = IF h = 0 THEN FailedBinary ELSE h]
  <2>2. PICK h \in Reach(w, 1) : v = Spawn(c(h), h, 1, entry)
    BY <1>2 DEF ChangeBinary
  <2>3. h \in 0 .. MaxProcesses /\ (IF h = 0 THEN FailedBinary ELSE h) \in 0 .. FailedBinary
    <3>1. h \in 0 .. MaxProcesses
      BY ReachBounds
    <3>2. QED
      BY <3>1, NginxAssumption DEF FailedBinary
  <2>4. /\ c(h) \in Master /\ c(h).table = w.table /\ c(h).last = w.last
        /\ c(h).conf = w.conf /\ c(h).gone = w.gone
    BY <2>3 DEF Steady, Typed, Master
  <2>5. Vacant(c(h)) = Vacant(w)
    BY <2>4 DEF Vacant
  <2>6. h \in Reach(c(h), 1)
    BY <2>5 DEF Reach, Taken
  <2>7. entry \in Entry /\ Sane(entry) /\ ~entry.just /\ entry.conf = w.conf
    BY BinaryEntry, MasterFields DEF Steady, Typed
  <2> HIDE DEF c, entry
  <2>8. Typed(c(h)) /\ Entered(c(h)) /\ ~c(h).gone /\ Shown(c(h)) = Shown(w)
    BY <2>4, FlagsKeep DEF Steady
  <2>9. /\ Typed(v) /\ Entered(v) /\ ~v.gone /\ v.conf = w.conf
        /\ Shown(v) \subseteq Shown(w) \cup {w.conf}
    BY <2>2, <2>4, <2>6, <2>7, <2>8, SpawnKeeps
  <2>10. QED
    BY <2>1, <2>9, UpgradeExcepts DEF Steady, Left
<1>3. QED
  BY <1>1, <1>2

LEMMA NoAcceptKeeps ==
  ASSUME NEW w, NEW mark, Steady(w, mark), Full(w, mark), NEW v, v = NoAccept(w)
  PROVE  /\ Steady(v, mark) /\ Full(v, mark) /\ v.conf = w.conf
         /\ Shown(v) \subseteq Shown(w)
<1>1. CASE "noaccept" \notin w.flags
  BY <1>1 DEF NoAccept
<1>2. CASE "noaccept" \in w.flags
  <2>1. "upgrade" \in mark
    BY <1>2 DEF Steady, Left, Plain
  <2> DEFINE c == [w EXCEPT !.flags = @ \ {"noaccept"}, !.noaccepting = TRUE]
  <2>2. v = SignalWorkers(c, "quit")
    BY <1>2 DEF NoAccept
  <2>3. /\ c \in Master /\ c.table = w.table /\ c.last = w.last /\ c.conf = w.conf
        /\ c.gone = w.gone
    BY DEF Steady, Typed, Master
  <2> HIDE DEF c
  <2>4. Steady(c, mark) /\ Shown(c) = Shown(w)
    BY <2>1, <2>3, FlagsKeep DEF Steady, Left
  <2>5. QED
    BY <2>1, <2>2, <2>3, <2>4, SignalKeeps, UpgradeExcepts
<1>3. QED
  BY <1>1, <1>2

LEMMA ServeKeeps ==
  ASSUME NEW w, NEW mark, Steady(w, mark), Full(w, mark), file.edit \in 0 .. MaxEdits,
         NEW v \in Serve(w)
  PROVE  /\ Steady(v, mark) /\ Full(v, mark) /\ v.conf \in {w.conf, file.edit}
         /\ Shown(v) \subseteq Shown(w) \cup {v.conf}
<1>1. PICK t \in Reconfigure(w) : \E u \in Restart(t) :
          \E x \in ChangeBinary(Reopen(u)) : v = NoAccept(x)
  BY DEF Serve
<1>2. PICK u \in Restart(t) : \E x \in ChangeBinary(Reopen(u)) : v = NoAccept(x)
  BY <1>1
<1>3. PICK x \in ChangeBinary(Reopen(u)) : v = NoAccept(x)
  BY <1>2
<1>4. /\ Steady(t, mark) /\ Full(t, mark) /\ t.conf \in {w.conf, file.edit}
      /\ Shown(t) \subseteq Shown(w) \cup {t.conf}
  BY ReconfigureKeeps
<1>5. /\ Steady(u, mark) /\ Full(u, mark) /\ u.conf = t.conf
      /\ Shown(u) \subseteq Shown(t) \cup {t.conf}
  BY <1>4, RestartKeeps
<1>6. PICK r : r = Reopen(u)
  OBVIOUS
<1>7. /\ Steady(r, mark) /\ Full(r, mark) /\ r.conf = u.conf /\ Shown(r) \subseteq Shown(u)
  BY <1>5, <1>6, ReopenKeeps
<1>8. /\ Steady(x, mark) /\ Full(x, mark) /\ x.conf = r.conf
      /\ Shown(x) \subseteq Shown(r) \cup {r.conf}
  BY <1>3, <1>6, <1>7, ChangeBinaryKeeps
<1>9. /\ Steady(v, mark) /\ Full(v, mark) /\ v.conf = x.conf /\ Shown(v) \subseteq Shown(x)
  BY <1>3, <1>8, NoAcceptKeeps
<1>10. QED
  BY <1>4, <1>5, <1>7, <1>8, <1>9

LEMMA TerminateKeeps ==
  ASSUME NEW w, NEW mark, Steady(w, mark), Ending(w), w.live, NEW v, v = Terminate(w)
  PROVE  /\ Steady(v, mark) /\ Full(v, mark) /\ v.conf = w.conf
         /\ Shown(v) \subseteq Shown(w)
<1> DEFINE c == [w EXCEPT !.delay = IF @ = 0 THEN FirstDelay ELSE @]
           d == [c EXCEPT !.sigio = WorkerProcesses + 2]
<1>1. \/ c.sigio > 0 /\ v = [c EXCEPT !.sigio = @ - 1]
      \/ v \in {SignalWorkers(d, "kill"), SignalWorkers(d, "terminate")}
  BY DEF Terminate
<1>2. c.sigio > 0 => c.sigio - 1 \in 0 .. WorkerProcesses + 2
  BY NginxAssumption, MasterFields DEF Steady, Typed, Master
<1>3. /\ c \in Master /\ c.table = w.table /\ c.last = w.last /\ c.conf = w.conf
      /\ c.gone = w.gone /\ c.live = w.live /\ c.newBinary = w.newBinary
      /\ c.noaccepting = w.noaccepting /\ c.flags = w.flags /\ c.sigio = w.sigio
  <2>1. (IF w.delay = 0 THEN FirstDelay ELSE w.delay) \in 0 .. 2 * LongDelay
    BY MasterFields DEF Steady, Typed, FirstDelay, LongDelay
  <2>2. QED
    BY <2>1 DEF Steady, Typed, Master
<1> HIDE DEF c
<1>4. Steady(c, mark) /\ Shown(c) = Shown(w)
  BY <1>3, FlagsKeep DEF Steady, Left, Plain, Nobody
<1>5. ASSUME NEW n \in 0 .. WorkerProcesses + 2, NEW x, x = [c EXCEPT !.sigio = n]
      PROVE  Steady(x, mark) /\ Shown(x) = Shown(w) /\ x.conf = w.conf /\ x.flags = w.flags
  <2>1. /\ x \in Master /\ x.table = c.table /\ x.last = c.last /\ x.conf = c.conf
        /\ x.gone = c.gone /\ x.live = c.live /\ x.newBinary = c.newBinary
        /\ x.noaccepting = c.noaccepting /\ x.flags = c.flags
    BY <1>3, <1>5 DEF Master
  <2>2. QED
    BY <1>3, <1>4, <2>1, FlagsKeep DEF Steady, Left, Plain, Nobody
<1>6. CASE v = [c EXCEPT !.sigio = @ - 1] /\ c.sigio > 0
  BY <1>2, <1>5, <1>6, EndingExcepts DEF Ending
<1>7. CASE v \in {SignalWorkers(d, "kill"), SignalWorkers(d, "terminate")}
  <2>0. d = [c EXCEPT !.sigio = WorkerProcesses + 2]
        /\ WorkerProcesses + 2 \in 0 .. WorkerProcesses + 2
    BY NginxAssumption
  <2> HIDE DEF d
  <2>1. Steady(d, mark) /\ Shown(d) = Shown(w) /\ d.conf = w.conf /\ d.flags = w.flags
    BY <1>5, <2>0
  <2>2. Ending(d)
    BY <2>1 DEF Ending
  <2>3. QED
    BY <1>7, <2>1, <2>2, SignalKeeps, EndingExcepts
<1>8. QED
  BY <1>1, <1>6, <1>7

LEMMA BodyKeeps ==
  ASSUME NEW w, NEW mark, Steady(w, mark), Full(w, mark), file.edit \in 0 .. MaxEdits,
         NEW v \in Body(w)
  PROVE  /\ Typed(v) /\ Entered(v) /\ Left(v, mark) /\ Full(v, mark)
         /\ v.conf \in {w.conf, file.edit} /\ Shown(v) \subseteq Shown(w) \cup {v.conf}
         /\ v.gone => v.conf = w.conf /\ Ending(w) /\ Shown(v) = Shown(w)
<1>1. CASE ~w.live /\ Ending(w)
  <2>1. v = [w EXCEPT !.gone = TRUE]
    BY <1>1 DEF Body
  <2>2. /\ v \in Master /\ v.table = w.table /\ v.last = w.last /\ v.conf = w.conf
        /\ v.live = w.live /\ v.newBinary = w.newBinary /\ v.flags = w.flags
        /\ v.noaccepting = w.noaccepting
    BY <2>1 DEF Steady, Typed, Master
  <2>3. Typed(v) /\ Entered(v) /\ Shown(v) = Shown(w) /\ Left(v, mark)
    BY <1>1, <2>2 DEF Steady, Typed, Entered, Shown, Left, Plain, Nobody
  <2>4. Full(v, mark)
    BY <1>1, <2>2, EndingExcepts DEF Ending
  <2>5. QED
    BY <1>1, <2>2, <2>3, <2>4
<1>2. CASE w.live /\ "terminate" \in w.flags
  <2>1. v = Terminate(w) /\ Ending(w)
    BY <1>2 DEF Body, Ending
  <2>2. QED
    BY <1>2, <2>1, TerminateKeeps DEF Steady
<1>3. CASE w.live /\ "terminate" \notin w.flags /\ "quit" \in w.flags
  <2>1. v = SignalWorkers(w, "quit") /\ Ending(w)
    BY <1>3 DEF Body, Ending
  <2>2. QED
    BY <2>1, SignalKeeps, EndingExcepts DEF Steady
<1>4. CASE ~Ending(w) /\ "reconfigure" \in w.flags /\ w.newBinary # NoBinary
  <2>1. v \in Return(w)
    BY <1>4 DEF Body, Ending
  <2>2. "upgrade" \in mark
    BY <1>4 DEF Steady, Left, Plain
  <2>3. QED
    BY <2>1, <2>2, ReturnKeeps DEF Steady
<1>5. CASE /\ ~Ending(w) /\ "reconfigure" \in w.flags /\ w.newBinary = NoBinary
           /\ ~file.ok
  <2>1. v = [w EXCEPT !.flags = @ \ {"reconfigure"}]
    BY <1>5 DEF Body, Ending
  <2>2. /\ v \in Master /\ v.table = w.table /\ v.last = w.last /\ v.conf = w.conf
        /\ v.live = w.live /\ v.newBinary = w.newBinary /\ v.gone = w.gone
        /\ v.noaccepting = w.noaccepting /\ v.short = w.short
        /\ v.flags = w.flags \ {"reconfigure"}
    BY <2>1 DEF Steady, Typed, Master
  <2>3. Steady(v, mark) /\ Shown(v) = Shown(w)
    BY <2>2, FlagsKeep DEF Steady, Left, Plain, Nobody
  <2>4. (Ending(v) <=> Ending(w)) /\ (Unmarred(v, mark) <=> Unmarred(w, mark))
    BY <2>2 DEF Ending, Unmarred
  <2>5. Counted(v) = Counted(w)
    BY <2>2 DEF Counted
  <2>6. Full(v, mark)
    BY <2>2, <2>4, <2>5 DEF Full, Strong, Ready, Due
  <2>7. QED
    BY <2>2, <2>3, <2>6 DEF Steady
<1>6. CASE /\ ~(~w.live /\ Ending(w))
           /\ ~(w.live /\ "terminate" \in w.flags)
           /\ ~(w.live /\ "terminate" \notin w.flags /\ "quit" \in w.flags)
           /\ ~(~Ending(w) /\ "reconfigure" \in w.flags /\ w.newBinary # NoBinary)
           /\ ~(/\ ~Ending(w) /\ "reconfigure" \in w.flags /\ w.newBinary = NoBinary
                /\ ~file.ok)
  <2>1. v \in Serve(w)
    BY <1>6 DEF Body
  <2>2. QED
    BY <2>1, ServeKeeps DEF Steady
<1>7. QED
  BY <1>1, <1>2, <1>3, <1>4, <1>5, <1>6

LEMMA Doubled ==
  ASSUME NEW d \in 0 .. 2 * LongDelay
  PROVE  (IF d > LongDelay THEN d ELSE 2 * d) \in 0 .. 2 * LongDelay
BY DEF LongDelay

LEMMA TopKeeps ==
  ASSUME NEW w, NEW mark, Typed(w), Entered(w), Left(w, mark), Full(w, mark),
         NEW v, v = Top(w)
  PROVE  /\ Typed(v) /\ Entered(v) /\ Left(v, mark) /\ Full(v, mark)
         /\ v.conf = w.conf /\ Shown(v) = Shown(w) /\ v.gone = w.gone
<1>1. CASE w.delay = 0 \/ "sigalrm" \notin w.flags
  BY <1>1 DEF Top
<1>2. CASE ~(w.delay = 0 \/ "sigalrm" \notin w.flags)
  <2>1. v = [w EXCEPT !.sigio = 0, !.flags = @ \ {"sigalrm"},
                      !.delay = IF @ > LongDelay THEN @ ELSE 2 * @]
    BY <1>2 DEF Top
  <2>2. (IF w.delay > LongDelay THEN w.delay ELSE 2 * w.delay) \in 0 .. 2 * LongDelay
    BY Doubled, MasterFields DEF Typed
  <2>3. 0 \in 0 .. WorkerProcesses + 2
    BY NginxAssumption
  <2>4. /\ v \in Master /\ v.table = w.table /\ v.last = w.last /\ v.conf = w.conf
        /\ v.live = w.live /\ v.newBinary = w.newBinary /\ v.gone = w.gone
        /\ v.noaccepting = w.noaccepting /\ v.short = w.short
        /\ v.flags = w.flags \ {"sigalrm"}
    BY <2>1, <2>2, <2>3 DEF Typed, Master
  <2>5. Typed(v) /\ Entered(v) /\ Left(v, mark) /\ Shown(v) = Shown(w)
    BY <2>4 DEF Typed, Entered, Left, Plain, Nobody, Shown
  <2>6. (Ending(v) <=> Ending(w)) /\ (Unmarred(v, mark) <=> Unmarred(w, mark))
    BY <2>4 DEF Ending, Unmarred
  <2>7. Counted(v) = Counted(w)
    BY <2>4 DEF Counted
  <2>8. Full(v, mark)
    BY <2>4, <2>6, <2>7 DEF Full, Strong, Ready, Due
  <2>9. QED
    BY <2>4, <2>5, <2>8
<1>3. QED
  BY <1>1, <1>2

\* The signals that arrive, and the kinds of accident with them.
Arrivals == Signals \cup {"ALRM", "CHLD", "IO"}
Mark(arrived) == marred \cup (IF arrived \cap {"USR2", "WINCH"} # {}
                              THEN {"upgrade"} ELSE {})

LEMMA FlagOfType ==
  ASSUME NEW w, NEW g \in Arrivals
  PROVE  /\ FlagOf(w, g) \subseteq Flags
         /\ g \notin {"USR2", "WINCH"} =>
               FlagOf(w, g) \cap {"restart", "change_binary", "noaccept"} = {}
         /\ g = "CHLD" => "reap" \in FlagOf(w, g)
<1>1. g \in {"HUP", "QUIT", "TERM", "USR1", "USR2", "WINCH", "ALRM", "CHLD", "IO"}
  BY NginxAssumption DEF Arrivals
<1>2. CASE g = "USR2"
  BY <1>2 DEF FlagOf, Flags
<1>3. CASE g \in {"HUP", "QUIT", "TERM", "USR1", "WINCH", "ALRM", "CHLD", "IO"}
  BY <1>3 DEF FlagOf, Flags
<1>4. QED
  BY <1>1, <1>2, <1>3

LEMMA WokenKeeps ==
  ASSUME NEW w, Steady(w, marred), Full(w, marred),
         NEW arrived \in SUBSET Arrivals, NEW mark, mark = Mark(arrived),
         NEW v, v = Woken(w, arrived)
  PROVE  /\ Steady(v, mark) /\ Strong(v, mark) /\ ("reap" \in v.flags \/ Ready(v, mark))
         /\ v.conf = w.conf /\ Shown(v) \subseteq Shown(w)
<1> DEFINE fl == w.flags \cup UNION {FlagOf(w, g) : g \in arrived}
           tab == IF "CHLD" \in arrived
                  THEN [s \in SlotNumber |-> Collected(w.table[s])] ELSE w.table
<1>1. v = [w EXCEPT !.flags = fl, !.table = tab]
  BY DEF Woken
<1>2. w \in Master /\ \A s \in SlotNumber : w.table[s] \in Entry /\ Sane(w.table[s])
  BY MasterFields DEF Steady, Typed, Entered
<1>3. fl \in SUBSET Flags /\ w.flags \subseteq fl
  BY <1>2, FlagOfType, MasterFields
<1>4. tab \in [SlotNumber -> Entry]
  <2>1. \A s \in SlotNumber : Collected(w.table[s]) \in Entry
    BY <1>2, CollectedEntry
  <2>2. QED
    BY <1>2, <2>1, MasterFields
<1>5. "upgrade" \notin mark => fl \cap {"restart", "change_binary", "noaccept"}
                               = w.flags \cap {"restart", "change_binary", "noaccept"}
  <2>1. SUFFICES ASSUME "upgrade" \notin mark
                 PROVE  \A g \in arrived : g \notin {"USR2", "WINCH"}
    BY FlagOfType
  <2>2. QED
    BY <2>1 DEF Mark
<1>6. "CHLD" \in arrived => "reap" \in fl
  BY FlagOfType
<1>7. ASSUME NEW s \in SlotNumber
      PROVE  /\ tab[s] \in Entry /\ Sane(tab[s]) /\ tab[s].conf = w.table[s].conf
             /\ tab[s].detached = w.table[s].detached
             /\ tab[s].just = w.table[s].just
             /\ tab[s].exiting = w.table[s].exiting
             /\ tab[s].respawn => w.table[s].respawn
             /\ Alive(tab[s]) <=> Alive(w.table[s])
             /\ Alive(tab[s]) => tab[s] = w.table[s]
             /\ w.table[s].child # "fatal" => /\ tab[s].respawn = w.table[s].respawn
                                              /\ tab[s].child # "fatal"
             /\ w.table[s] = Free => tab[s] = Free
  <2>1. CASE "CHLD" \in arrived
    <3>1. tab[s] = Collected(w.table[s])
      BY <2>1
    <3>2. w.table[s].child # "fatal" => Collected(w.table[s]).child # "fatal"
      BY <1>2 DEF Collected, Entry
    <3>3. QED
      BY <1>2, <3>1, <3>2, CollectedEntry
  <2>2. CASE "CHLD" \notin arrived
    BY <1>2, <2>2
  <2>3. QED
    BY <2>1, <2>2
<1>8. "CHLD" \notin arrived => tab = w.table
  OBVIOUS
<1> HIDE DEF fl, tab
<1>9. /\ v \in Master /\ v.flags = fl /\ v.table = tab /\ v.last = w.last
      /\ v.conf = w.conf /\ v.live = w.live /\ v.newBinary = w.newBinary
      /\ v.noaccepting = w.noaccepting /\ v.gone = w.gone /\ v.short = w.short
  BY <1>1, <1>2, <1>3, <1>4 DEF Master
<1>10. Typed(v)
  BY <1>7, <1>9 DEF Steady, Typed
<1>11. Entered(v)
  BY <1>7, <1>9 DEF Steady, Entered, Old
<1>12. "upgrade" \notin mark => "upgrade" \notin marred
  BY DEF Mark
<1>13. Left(v, mark)
  BY <1>5, <1>7, <1>9, <1>12 DEF Steady, Left, Plain, Nobody
<1>14. Shown(v) \subseteq Shown(w)
  BY <1>7, <1>9 DEF Shown, Alive
<1>15. ~Ending(v) /\ Unmarred(v, mark) => ~Ending(w) /\ Unmarred(w, marred)
  BY <1>3, <1>9 DEF Ending, Unmarred, Mark
<1>16. Strong(v, mark)
  <2>1. SUFFICES ASSUME ~Ending(v), Unmarred(v, mark)
                 PROVE  /\ Due(v) /\ \A s \in SlotNumber : v.table[s].child # "fatal"
                        /\ Counted(v) = Counted(w)
    BY <1>15 DEF Strong, Full
  <2>2. Due(w) /\ \A s \in SlotNumber : w.table[s].child # "fatal"
    BY <1>15, <2>1 DEF Strong, Full
  <2>3. Due(v) /\ \A s \in SlotNumber : v.table[s].child # "fatal"
    BY <1>7, <1>9, <2>2 DEF Due
  <2>4. \A s \in SlotNumber : Stays(tab[s]) <=> Stays(w.table[s])
    <3>1. ASSUME NEW s \in SlotNumber, Alive(w.table[s])
          PROVE  Stays(tab[s]) <=> Stays(w.table[s])
      BY <1>7, <3>1
    <3>2. ASSUME NEW s \in SlotNumber, ~Alive(w.table[s])
          PROVE  Stays(tab[s]) <=> Stays(w.table[s])
      BY <1>7, <2>2, <3>2 DEF Stays
    <3>3. QED
      BY <3>1, <3>2
  <2>5. Counted(v) = Counted(w)
    BY <1>7, <1>9, <2>4 DEF Counted
  <2>6. QED
    BY <2>3, <2>5
<1>17. "reap" \in v.flags \/ Ready(v, mark)
  BY <1>6, <1>8, <1>9, <1>15 DEF Full, Ready
<1>18. QED
  BY <1>9, <1>10, <1>11, <1>13, <1>14, <1>16, <1>17 DEF Steady

LEMMA ReapKeeps ==
  ASSUME NEW w, NEW mark, Steady(w, mark), Strong(w, mark),
         "reap" \in w.flags \/ Ready(w, mark), NEW v \in Reap(w)
  PROVE  /\ Steady(v, mark) /\ Full(v, mark) /\ v.conf = w.conf
         /\ Shown(v) \subseteq Shown(w) \cup {w.conf}
         /\ Ending(v) <=> Ending(w)
         /\ Ending(w) => Shown(v) \subseteq Shown(w)
<1>1. CASE "reap" \notin w.flags
  BY <1>1 DEF Reap, Full
<1>2. CASE "reap" \in w.flags
  <2>1. PICK lost \in SUBSET Again(w) : v = Reaped(w, lost)
    BY <1>2 DEF Reap
  <2>2. /\ w \in Master /\ w.last \in 0 .. MaxProcesses /\ w.conf \in 0 .. MaxEdits
        /\ \A s \in SlotNumber : w.table[s] \in Entry /\ Sane(w.table[s])
    BY MasterFields DEF Steady, Typed, Entered
  <2>3. /\ v \in Master
        /\ v.table = [s \in SlotNumber |->
                         IF s \in Dropped(w) THEN Free
                         ELSE IF s \in Again(w) \ lost THEN Respawn(w, w.table[s])
                         ELSE w.table[s]]
        /\ v.last = LastAfter(w) /\ v.conf = w.conf
        /\ v.live = (Again(w) \ lost # {} \/ \E s \in SlotNumber : Lives(w.table[s]))
        /\ v.newBinary \in {w.newBinary, NoBinary}
        /\ v.noaccepting => w.noaccepting
        /\ w.flags \ {"reap"} \subseteq v.flags
        /\ v.flags \subseteq (w.flags \ {"reap"}) \cup
                             (IF w.noaccepting THEN {"restart"} ELSE {})
        /\ v.gone = w.gone /\ v.short = (w.short \/ lost # {})
    BY <2>1, <2>2, ReapedFields
  <2>4. /\ \A s \in Dropped(w) : s \in SlotNumber /\ v.table[s] = Free
        /\ \A s \in Again(w) \ lost :
              s \in SlotNumber /\ v.table[s] = Respawn(w, w.table[s])
        /\ \A s \in SlotNumber : s \notin Dropped(w) /\ s \notin Again(w) \ lost =>
              v.table[s] = w.table[s]
    BY <2>3 DEF Dropped, Again
  <2>5. ASSUME NEW s \in Again(w) \ lost
        PROVE  /\ Sane(v.table[s]) /\ Alive(v.table[s]) /\ ~v.table[s].exited
               /\ ~v.table[s].exiting /\ v.table[s].told = {}
               /\ v.table[s].child = "starting" /\ v.table[s].conf = w.conf
               /\ v.table[s].respawn /\ ~v.table[s].just
    <3>1. Respawns(w, w.table[s]) /\ ~w.table[s].just
      BY DEF Again, Steady, Entered
    <3>2. QED
      BY <2>2, <2>4, <3>1, RespawnedEntry
  <2>6. Typed(v)
    <3>1. ASSUME NEW s \in SlotNumber, s > v.last PROVE v.table[s] = Free
      <4>1. s \in Nat /\ (s > w.last \/ (s = w.last /\ w.last \in Dropped(w)))
        BY <2>2, <2>3, <3>1, NginxAssumption DEF LastAfter, SlotNumber
      <4>2. CASE s > w.last
        <5>1. w.table[s] = Free
          BY <4>2 DEF Steady, Typed
        <5>2. s \notin Again(w)
          BY <5>1, FreeEntry DEF Again
        <5>3. QED
          BY <2>4, <5>1, <5>2
      <4>3. CASE s \in Dropped(w)
        BY <2>4, <4>3
      <4>4. QED
        BY <4>1, <4>2, <4>3
    <3>2. QED
      BY <2>3, <3>1 DEF Steady, Typed
  <2>7. Entered(v)
    <3>1. ASSUME NEW s \in SlotNumber
          PROVE  Sane(v.table[s]) /\ ~v.table[s].just /\ Old(v.table[s], v.conf)
      <4>1. CASE s \in Dropped(w)
        BY <2>4, <4>1, FreeEntry DEF Old
      <4>2. CASE s \in Again(w) \ lost
        BY <2>3, <2>5, <4>2 DEF Old
      <4>3. CASE s \notin Dropped(w) /\ s \notin Again(w) \ lost
        BY <2>3, <2>4, <4>3 DEF Steady, Entered
      <4>4. QED
        BY <4>1, <4>2, <4>3
    <3>2. QED
      BY <3>1 DEF Entered
  <2>8. "upgrade" \notin mark => Plain(v)
    BY <2>3 DEF Steady, Left, Plain
  <2>9. ~v.live => Nobody(v)
    <3>1. SUFFICES ASSUME ~v.live, NEW s \in SlotNumber, Alive(v.table[s])
                   PROVE  v.table[s].detached
      BY DEF Nobody
    <3>2. Again(w) \ lost = {} /\ ~Lives(w.table[s])
      BY <2>3, <3>1
    <3>3. s \notin Dropped(w) /\ v.table[s] = w.table[s]
      BY <2>4, <3>1, <3>2, FreeEntry
    <3>4. w.table[s] # Free /\ ~w.table[s].exited
      BY <2>2, <3>1, <3>3, FreeEntry DEF Sane, Alive
    <3>5. QED
      BY <3>2, <3>3, <3>4 DEF Lives
  <2>10. Steady(v, mark)
    BY <2>3, <2>6, <2>7, <2>8, <2>9 DEF Steady, Left
  <2>11. Shown(v) \subseteq Shown(w) \cup {w.conf}
    <3>1. ASSUME NEW s \in SlotNumber, v.table[s].child \in {"starting", "serving"},
                 ~v.table[s].detached
          PROVE  v.table[s].conf \in Shown(w) \cup {w.conf}
      <4>1. CASE s \in Dropped(w)
        BY <2>4, <3>1, <4>1, FreeEntry
      <4>2. CASE s \in Again(w) \ lost
        BY <2>5, <4>2
      <4>3. CASE s \notin Dropped(w) /\ s \notin Again(w) \ lost
        BY <2>4, <3>1, <4>3 DEF Shown
      <4>4. QED
        BY <4>1, <4>2, <4>3
    <3>2. QED
      BY <3>1 DEF Shown
  <2>12. Ending(v) <=> Ending(w)
    BY <2>3 DEF Ending
  <2>13. Ending(w) => Shown(v) \subseteq Shown(w)
    <3>1. SUFFICES ASSUME Ending(w), NEW s \in SlotNumber,
                          v.table[s].child \in {"starting", "serving"},
                          ~v.table[s].detached
                   PROVE  v.table[s].conf \in Shown(w)
      BY DEF Shown
    <3>2. Again(w) = {}
      BY <3>1 DEF Again, Respawns
    <3>3. s \notin Dropped(w)
      BY <2>4, <3>1, FreeEntry
    <3>4. QED
      BY <2>4, <3>1, <3>2, <3>3 DEF Shown
  <2>14. Full(v, mark)
    <3>1. SUFFICES ASSUME ~Ending(v), Unmarred(v, mark)
                   PROVE  Strong(v, mark) /\ Ready(v, mark)
      BY DEF Full, Strong, Ready
    <3>2. lost = {} /\ ~Ending(w) /\ Unmarred(w, mark)
      BY <2>3, <2>12, <3>1 DEF Unmarred
    <3>3. /\ Due(w) /\ \A s \in SlotNumber : w.table[s].child # "fatal"
          /\ Cardinality(Counted(w)) = WorkerProcesses
      BY <3>2 DEF Strong
    <3>4. \A s \in SlotNumber : w.table[s].exited => s \in Dropped(w) \/ s \in Again(w)
      BY DEF Dropped, Again
    <3>5. Ready(v, mark)
      BY <2>4, <2>5, <3>2, <3>4, FreeEntry DEF Ready
    <3>6. \A s \in SlotNumber : v.table[s].child # "fatal"
      BY <2>4, <2>5, <3>3, FreeEntry
    <3>7. Due(v)
      <4>1. SUFFICES ASSUME NEW s \in SlotNumber, v.table[s].respawn,
                            ~v.table[s].exiting, ~Alive(v.table[s])
                     PROVE  v.table[s].conf = v.conf
        BY DEF Due
      <4>2. s \notin Dropped(w) /\ s \notin Again(w) \ lost
        BY <2>4, <2>5, <4>1, FreeEntry
      <4>3. QED
        BY <2>3, <2>4, <3>3, <4>1, <4>2 DEF Due
    <3>8. ASSUME NEW s \in SlotNumber
          PROVE  Stays(v.table[s]) /\ v.table[s].conf = v.conf
                 <=> Stays(w.table[s]) /\ w.table[s].conf = w.conf
      <4>1. CASE s \in Dropped(w)
        <5>1. ~Stays(v.table[s])
          BY <2>4, <4>1, FreeEntry DEF Stays
        <5>2. ~Alive(w.table[s]) /\ (w.table[s].exiting \/ ~w.table[s].respawn)
          BY <2>2, <3>2, <4>1 DEF Dropped, Respawns, Sane, Alive
        <5>3. QED
          BY <5>1, <5>2 DEF Stays
      <4>2. CASE s \in Again(w)
        <5>1. Stays(v.table[s]) /\ v.table[s].conf = v.conf
          BY <2>3, <2>5, <3>2, <4>2 DEF Stays
        <5>2. ~Alive(w.table[s]) /\ w.table[s].respawn /\ ~w.table[s].exiting
          BY <2>2, <4>2 DEF Again, Respawns, Sane, Alive
        <5>3. QED
          BY <3>3, <5>1, <5>2 DEF Stays, Due
      <4>3. CASE s \notin Dropped(w) /\ s \notin Again(w)
        BY <2>3, <2>4, <4>3
      <4>4. QED
        BY <4>1, <4>2, <4>3
    <3>9. Counted(v) = Counted(w)
      BY <3>8 DEF Counted
    <3>10. QED
      BY <3>3, <3>5, <3>6, <3>7, <3>9 DEF Strong
  <2>15. QED
    BY <2>3, <2>10, <2>11, <2>12, <2>13, <2>14
<1>3. QED
  BY <1>1, <1>2

-----------------------------------------------------------------------------
(* The master's pass.                                                        *)

LEMMA OutcomeKeeps ==
  ASSUME IInv, ~master.gone, NEW arrived \in SUBSET pending, NEW w \in Outcomes(arrived)
  PROVE  /\ Typed(w) /\ Entered(w) /\ Left(w, Mark(arrived)) /\ Full(w, Mark(arrived))
         /\ w.conf \in {master.conf, file.edit}
         /\ Shown(w) \subseteq Shown(master) \cup {master.conf, w.conf}
         /\ w.gone => w.conf = master.conf /\ Shown(w) \subseteq Shown(master)
<1>1. PICK u \in Reap(Woken(master, arrived)) : \E v \in Body(u) : w = Top(v)
  BY DEF Outcomes
<1>2. PICK v \in Body(u) : w = Top(v)
  BY <1>1
<1>3. PICK x : x = Woken(master, arrived)
  OBVIOUS
<1>4. /\ Steady(master, marred) /\ Full(master, marred)
      /\ arrived \in SUBSET Arrivals /\ file.edit \in 0 .. MaxEdits
  BY DEF IInv, TypeOK, Good, Steady, Full, Arrivals
<1>5. /\ Steady(x, Mark(arrived)) /\ Strong(x, Mark(arrived))
      /\ "reap" \in x.flags \/ Ready(x, Mark(arrived))
      /\ x.conf = master.conf /\ Shown(x) \subseteq Shown(master)
  BY <1>3, <1>4, WokenKeeps
<1>6. /\ Steady(u, Mark(arrived)) /\ Full(u, Mark(arrived)) /\ u.conf = x.conf
      /\ Shown(u) \subseteq Shown(x) \cup {x.conf}
      /\ Ending(u) <=> Ending(x)
      /\ Ending(x) => Shown(u) \subseteq Shown(x)
  BY <1>3, <1>5, ReapKeeps
<1>7. /\ Typed(v) /\ Entered(v) /\ Left(v, Mark(arrived)) /\ Full(v, Mark(arrived))
      /\ v.conf \in {u.conf, file.edit} /\ Shown(v) \subseteq Shown(u) \cup {v.conf}
      /\ v.gone => v.conf = u.conf /\ Ending(u) /\ Shown(v) = Shown(u)
  BY <1>4, <1>6, BodyKeeps
<1>8. /\ Typed(w) /\ Entered(w) /\ Left(w, Mark(arrived)) /\ Full(w, Mark(arrived))
      /\ w.conf = v.conf /\ Shown(w) = Shown(v) /\ w.gone = v.gone
  BY <1>2, <1>7, TopKeeps
<1>9. QED
  BY <1>5, <1>6, <1>7, <1>8

LEMMA RestedFields ==
  ASSUME NEW w \in Master, NEW v, v = Rested(w)
  PROVE  /\ v \in Master /\ ~v.short /\ ~v.failed /\ v.raised = {}
         /\ v.table = w.table /\ v.last = w.last /\ v.conf = w.conf /\ v.flags = w.flags
         /\ v.live = w.live /\ v.newBinary = w.newBinary
         /\ v.noaccepting = w.noaccepting /\ v.gone = w.gone
BY DEF Rested, Master

LEMMA PassInv ==
  ASSUME IInv, Passes
  PROVE  IInv'
<1>1. ~master.gone
  BY DEF Passes
<1>2. PICK arrived \in SUBSET pending : \E w \in Outcomes(arrived) : Pass(arrived, w)
  BY DEF Passes
<1>3. PICK w \in Outcomes(arrived) : Pass(arrived, w)
  BY <1>2
<1>4. /\ Typed(w) /\ Entered(w) /\ Left(w, Mark(arrived)) /\ Full(w, Mark(arrived))
      /\ w.conf \in {master.conf, file.edit}
  BY <1>1, OutcomeKeeps
<1>5. /\ master' = Rested(w) /\ file' = file /\ sent' = sent
      /\ marred' = Mark(arrived) \cup (IF w.short THEN {"fork"} ELSE {})
      /\ pending' = (pending \ arrived) \cup w.raised
  BY <1>3 DEF Pass, Mark
<1>6. /\ master' \in Master /\ ~master'.short /\ ~master'.failed /\ master'.raised = {}
      /\ master'.table = w.table /\ master'.last = w.last /\ master'.conf = w.conf
      /\ master'.flags = w.flags /\ master'.live = w.live
      /\ master'.newBinary = w.newBinary /\ master'.noaccepting = w.noaccepting
      /\ master'.gone = w.gone
  BY <1>4, <1>5, RestedFields DEF Typed
<1>7. accidents' \in 0 .. MaxAccidents
  <2>1. accidents \in 0 .. MaxAccidents
    BY DEF IInv, TypeOK
  <2>2. CASE w.failed
    BY <1>3, <2>1, <2>2, NginxAssumption DEF Pass
  <2>3. CASE ~w.failed
    BY <1>3, <2>1, <2>3 DEF Pass
  <2>4. QED
    BY <2>2, <2>3
<1>8. Typed(master)'
  BY <1>4, <1>5, <1>6 DEF Typed
<1>9. TypeOK'
  <2>1. w.raised \subseteq {"CHLD"}
    BY <1>4, MasterFields DEF Typed
  <2>2. QED
    BY <1>5, <1>7, <1>8, <2>1 DEF IInv, TypeOK, Typed, Mark
<1>10. Entered(master)' /\ Quiet(master)'
  BY <1>4, <1>6 DEF Entered, Quiet
<1>11. Left(master, marred)'
  BY <1>4, <1>5, <1>6 DEF Left, Plain, Nobody
<1>12. Strong(master, marred)' /\ Ready(master, marred)'
  <2>1. SUFFICES ASSUME ~Ending(master)', Unmarred(master, marred)'
                 PROVE  Strong(master, marred)' /\ Ready(master, marred)'
    BY DEF Strong, Ready
  <2>2. ~Ending(w) /\ Unmarred(w, Mark(arrived))
    BY <1>5, <1>6, <2>1 DEF Ending, Unmarred
  <2>3. Counted(master)' = Counted(w)
    BY <1>6 DEF Counted
  <2>4. QED
    BY <1>4, <1>6, <2>2, <2>3 DEF Full, Strong, Ready, Due
<1>13. QED
  BY <1>8, <1>9, <1>10, <1>11, <1>12 DEF IInv, Good

-----------------------------------------------------------------------------
(* The steps of the workers, each of which changes one entry.                *)

\* The same entry with its process gone on.
Onward(e, f) ==
    /\ f.conf = e.conf /\ f.respawn = e.respawn /\ f.exiting = e.exiting
    /\ f.exited = e.exited /\ f.just = e.just /\ f.detached = e.detached
    /\ f.child \in {"starting", "serving"} => e.child \in {"starting", "serving"}

LEMMA ChildEntry ==
  ASSUME NEW e \in Entry, Sane(e),
         NEW state, \/ e.child = "starting" /\ state = "serving"
                    \/ e.child = "serving" /\ state = "hung",
         NEW f, f = [e EXCEPT !.child = state]
  PROVE  f \in Entry /\ Sane(f) /\ Onward(e, f) /\ Alive(e) /\ f.child # "fatal"
<1>1. /\ f.child = state /\ f.told = e.told /\ f.conf = e.conf
      /\ f.respawn = e.respawn /\ f.exiting = e.exiting /\ f.exited = e.exited
      /\ f.just = e.just /\ f.detached = e.detached
  BY DEF Entry
<1>2. f \in Entry
  BY DEF Entry, Children
<1>3. QED
  BY <1>1, <1>2 DEF Sane, Onward, Alive

LEMMA EndsEntry ==
  ASSUME NEW e \in Entry, Sane(e), Alive(e),
         NEW state, \/ state \in {"dead", "fatal"}
                    \/ state = "leaving" /\ e.told # {},
         NEW f, f = [e EXCEPT !.child = state, !.told = {}]
  PROVE  f \in Entry /\ Sane(f) /\ Onward(e, f) /\ f.child = state
<1>1. /\ f.child = state /\ f.told = {} /\ f.conf = e.conf
      /\ f.respawn = e.respawn /\ f.exiting = e.exiting /\ f.exited = e.exited
      /\ f.just = e.just /\ f.detached = e.detached
  BY DEF Entry
<1>2. f \in Entry
  BY DEF Entry, Children
<1>3. QED
  BY <1>1, <1>2 DEF Sane, Onward, Alive

LEMMA EntryStep ==
  ASSUME IInv, NEW s \in SlotNumber, NEW f \in Entry,
         Alive(master.table[s]), Sane(f), Onward(master.table[s], f),
         master' = [master EXCEPT !.table[s] = f],
         file' = file, sent' = sent, accidents' \in 0 .. MaxAccidents,
         pending' \subseteq pending \cup {"CHLD", "IO"},
         marred \subseteq marred', marred' \subseteq marred \cup {"fatal", "hung"},
         f.child = "fatal" => "fatal" \in marred'
  PROVE  IInv' /\ Shown(master)' \subseteq Shown(master)
         /\ master'.conf = master.conf /\ master'.gone = master.gone
<1>1. /\ TypeOK /\ master \in Master /\ Typed(master) /\ Entered(master)
      /\ Left(master, marred) /\ Strong(master, marred) /\ Ready(master, marred)
      /\ Quiet(master)
  BY DEF IInv, Good, TypeOK
<1>2. PICK e \in Entry : e = master.table[s]
  BY <1>1, MasterFields
<1>3. /\ Sane(e) /\ ~e.just /\ Old(e, master.conf) /\ Alive(e) /\ ~e.exited /\ e # Free
      /\ Onward(e, f)
  BY <1>1, <1>2, FreeEntry DEF Entered, Sane, Alive
<1>4. /\ master' \in Master /\ master'.table = [master.table EXCEPT ![s] = f]
      /\ master'.last = master.last /\ master'.conf = master.conf
      /\ master'.flags = master.flags /\ master'.live = master.live
      /\ master'.newBinary = master.newBinary
      /\ master'.noaccepting = master.noaccepting /\ master'.gone = master.gone
      /\ master'.short = master.short /\ master'.failed = master.failed
      /\ master'.raised = master.raised
  BY <1>1 DEF Master
<1>5. /\ master'.table[s] = f
      /\ \A t \in SlotNumber \ {s} : master'.table[t] = master.table[t]
  BY <1>1, <1>4, MasterFields
<1>6. Typed(master)'
  <2>1. ~(s > master.last)
    BY <1>1, <1>2, <1>3 DEF Typed
  <2>2. QED
    BY <1>1, <1>4, <1>5, <2>1 DEF Typed
<1>7. TypeOK'
  BY <1>1, <1>6 DEF TypeOK, Typed
<1>8. Entered(master)'
  <2>1. Alive(f) => Alive(e)
    BY <1>3
  <2>2. Sane(f) /\ ~f.just /\ Old(f, master.conf)
    BY <1>3, <2>1 DEF Onward, Old
  <2>3. QED
    BY <1>1, <1>4, <1>5, <2>2 DEF Entered
<1>9. Left(master, marred)'
  BY <1>1, <1>2, <1>3, <1>4, <1>5 DEF Left, Plain, Nobody, Onward
<1>10. Quiet(master)'
  BY <1>1, <1>4 DEF Quiet
<1>11. Shown(master)' \subseteq Shown(master)
  BY <1>2, <1>3, <1>4, <1>5 DEF Shown, Onward
<1>12. ~Ending(master)' /\ Unmarred(master, marred)'
       => ~Ending(master) /\ Unmarred(master, marred) /\ f.child # "fatal"
  BY <1>4 DEF Ending, Unmarred
<1>13. Ready(master, marred)'
  BY <1>1, <1>2, <1>3, <1>5, <1>12 DEF Ready, Onward
<1>14. Strong(master, marred)'
  <2>1. SUFFICES ASSUME ~Ending(master)', Unmarred(master, marred)'
                 PROVE  /\ Due(master)'
                        /\ \A t \in SlotNumber : master'.table[t].child # "fatal"
                        /\ Counted(master)' = Counted(master)
    BY <1>1, <1>12 DEF Strong
  <2>2. Due(master) /\ \A t \in SlotNumber : master.table[t].child # "fatal"
    BY <1>1, <1>12, <2>1 DEF Strong
  <2>3. \A t \in SlotNumber : master'.table[t].child # "fatal"
    BY <1>5, <1>12, <2>1, <2>2
  <2>4. f.respawn /\ ~f.exiting => f.conf = master.conf
    BY <1>3 DEF Onward, Old, Sane
  <2>5. Due(master)'
    BY <1>4, <1>5, <2>2, <2>4 DEF Due
  <2>6. Stays(f) <=> Stays(e)
    <3>1. Stays(e) <=> e.respawn /\ ~e.exiting
      BY <1>3 DEF Stays, Sane
    <3>2. Stays(f) <=> f.respawn /\ ~f.exiting
      BY DEF Stays, Sane
    <3>3. QED
      BY <1>3, <3>1, <3>2 DEF Onward
  <2>7. \A t \in SlotNumber : /\ Stays(master'.table[t]) <=> Stays(master.table[t])
                              /\ master'.table[t].conf = master.table[t].conf
    BY <1>2, <1>3, <1>5, <2>6 DEF Onward
  <2>8. Counted(master)' = Counted(master)
    BY <1>4, <2>7 DEF Counted
  <2>9. QED
    BY <2>3, <2>5, <2>8
<1>15. QED
  BY <1>4, <1>6, <1>7, <1>8, <1>9, <1>10, <1>11, <1>13, <1>14 DEF IInv, Good

\* What every step but the master's pass does to the master: a worker goes on,
\* and nobody new serves.
Onwards == /\ IInv' /\ Shown(master)' \subseteq Shown(master)
           /\ master'.conf = master.conf /\ master'.gone = master.gone

LEMMA WorkerStep ==
  ASSUME IInv, NEW s \in SlotNumber,
         \/ WorkerStarts(s) \/ WorkerFails(s) \/ WorkerReads(s)
         \/ WorkerFinishes(s) \/ WorkerDies(s) \/ WorkerHangs(s)
  PROVE  Onwards
<1>1. /\ master \in Master /\ master.table \in [SlotNumber -> Entry]
      /\ Entered(master) /\ accidents \in 0 .. MaxAccidents
  BY MasterFields DEF IInv, Good, TypeOK
<1>2. PICK e \in Entry : e = master.table[s]
  BY <1>1
<1>3. Sane(e)
  BY <1>1, <1>2 DEF Entered
<1>4. accidents < MaxAccidents => accidents + 1 \in 0 .. MaxAccidents
  BY <1>1, NginxAssumption
<1>5. ASSUME NEW state, Child(s, state),
             \/ e.child = "starting" /\ state = "serving"
             \/ e.child = "serving" /\ state = "hung",
             file' = file, sent' = sent, accidents' \in 0 .. MaxAccidents,
             pending' = pending, marred \subseteq marred',
             marred' \subseteq marred \cup {"fatal", "hung"}
      PROVE  Onwards
  <2>1. PICK f : f = [e EXCEPT !.child = state]
    OBVIOUS
  <2>2. f \in Entry /\ Sane(f) /\ Onward(e, f) /\ Alive(e) /\ f.child # "fatal"
    BY <1>3, <1>5, <2>1, ChildEntry
  <2>3. master' = [master EXCEPT !.table[s] = f]
    BY <1>1, <1>2, <1>5, <2>1 DEF Child, Master
  <2>4. QED
    BY <1>2, <1>5, <2>2, <2>3, EntryStep DEF Onwards
<1>6. ASSUME NEW state, Alive(e),
             state \in {"dead", "fatal"} \/ (state = "leaving" /\ e.told # {}),
             master' = [master EXCEPT !.table[s].child = state,
                                      !.table[s].told = {}],
             file' = file, sent' = sent, accidents' \in 0 .. MaxAccidents,
             pending' \subseteq pending \cup {"CHLD", "IO"},
             marred \subseteq marred',
             marred' \subseteq marred \cup {"fatal", "hung"},
             state = "fatal" => "fatal" \in marred'
      PROVE  Onwards
  <2>1. PICK f : f = [e EXCEPT !.child = state, !.told = {}]
    OBVIOUS
  <2>2. f \in Entry /\ Sane(f) /\ Onward(e, f) /\ f.child = state
    BY <1>3, <1>6, <2>1, EndsEntry
  <2>3. master' = [master EXCEPT !.table[s] = f]
    BY <1>1, <1>2, <1>6, <2>1 DEF Master
  <2>4. QED
    BY <1>2, <1>6, <2>2, <2>3, EntryStep DEF Onwards
<1>7. ASSUME Alive(e), Ends(s, "dead"), file' = file, sent' = sent,
             accidents' \in 0 .. MaxAccidents, marred' = marred
      PROVE  Onwards
  <2>1. PICK state : state = "dead"
    OBVIOUS
  <2>2. /\ state \in {"dead", "fatal"} /\ state # "fatal"
        /\ master' = [master EXCEPT !.table[s].child = state, !.table[s].told = {}]
        /\ pending' \subseteq pending \cup {"CHLD", "IO"}
    BY <1>7, <2>1 DEF Ends
  <2>3. QED
    BY <1>6, <1>7, <2>2
<1>8. CASE WorkerStarts(s)
  BY <1>1, <1>2, <1>5, <1>8 DEF WorkerStarts
<1>9. CASE WorkerFails(s)
  <2>1. Alive(e)
    BY <1>2, <1>9 DEF WorkerFails, Alive
  <2>2. QED
    BY <1>2, <1>4, <1>6, <1>9, <2>1 DEF WorkerFails, Ends
<1>10. CASE WorkerReads(s)
  <2>1. Alive(e) /\ e.told # {}
    BY <1>2, <1>10 DEF WorkerReads, Alive
  <2>2. CASE "terminate" \in e.told
    BY <1>1, <1>2, <1>10, <1>7, <2>1, <2>2 DEF WorkerReads
  <2>3. CASE "terminate" \notin e.told
    BY <1>1, <1>2, <1>6, <1>10, <2>1, <2>3 DEF WorkerReads
  <2>4. QED
    BY <2>2, <2>3
<1>11. CASE WorkerFinishes(s)
  <2>1. Alive(e)
    BY <1>2, <1>11 DEF WorkerFinishes, Alive
  <2>2. QED
    BY <1>1, <1>2, <1>11, <1>7, <2>1 DEF WorkerFinishes
<1>12. CASE WorkerDies(s)
  <2>1. Alive(e)
    BY <1>2, <1>12 DEF WorkerDies
  <2>2. QED
    BY <1>2, <1>4, <1>12, <1>7, <2>1 DEF WorkerDies
<1>13. CASE WorkerHangs(s)
  BY <1>2, <1>4, <1>5, <1>13 DEF WorkerHangs
<1>14. QED
  BY <1>8, <1>9, <1>10, <1>11, <1>12, <1>13

LEMMA AroundStep ==
  ASSUME IInv, \/ Alarm \/ (\E ok \in BOOLEAN : Edit(ok))
               \/ (\E signal \in Signals : Send(signal))
  PROVE  Onwards
<1>1. IInv' /\ master' = master
  <2>1. file.edit \in 0 .. MaxEdits /\ sent \in 0 .. MaxSent
        /\ master.conf \in 0 .. MaxEdits
    BY MasterFields DEF IInv, TypeOK
  <2>2. CASE Alarm
    BY <2>2 DEF Alarm, IInv, TypeOK, Good, Typed, Entered, Left, Plain, Nobody, Strong,
                Unmarred, Due, Counted, Ending, Ready, Quiet
  <2>3. ASSUME NEW ok \in BOOLEAN, Edit(ok)
        PROVE  IInv' /\ master' = master
    <3>1. /\ master' = master /\ file'.edit = file.edit + 1 /\ pending' = pending
          /\ sent' = sent /\ accidents' = accidents /\ marred' = marred
          /\ file' \in [edit : 0 .. MaxEdits, ok : BOOLEAN]
      BY <2>1, <2>3, NginxAssumption DEF Edit
    <3>2. master.conf <= file'.edit
      BY <2>1, <3>1 DEF IInv, TypeOK
    <3>3. QED
      BY <3>1, <3>2 DEF IInv, TypeOK, Good, Typed, Entered, Left, Plain, Nobody, Strong,
                        Unmarred, Due, Counted, Ending, Ready, Quiet
  <2>4. ASSUME NEW signal \in Signals, Send(signal)
        PROVE  IInv' /\ master' = master
    <3>1. /\ master' = master /\ file' = file /\ pending' = pending \cup {signal}
          /\ sent' \in 0 .. MaxSent /\ accidents' = accidents /\ marred' = marred
      BY <2>1, <2>4, NginxAssumption DEF Send
    <3>2. QED
      BY <3>1 DEF IInv, TypeOK, Good, Typed, Entered, Left, Plain, Nobody, Strong,
                  Unmarred, Due, Counted, Ending, Ready, Quiet
  <2>5. QED
    BY <2>2, <2>3, <2>4
<1>2. QED
  BY <1>1 DEF Onwards, Shown

LEMMA InitInv ==
  ASSUME Init
  PROVE  IInv
<1>1. PICK e : e = [Spawned(0) EXCEPT !.respawn = TRUE]
  OBVIOUS
<1>2. 0 \in 0 .. MaxEdits
  BY NginxAssumption
<1>3. /\ e \in Entry /\ Sane(e) /\ ~e.just /\ ~e.exited /\ ~e.detached /\ e.respawn
      /\ ~e.exiting /\ e.told = {} /\ e.child = "starting" /\ e.conf = 0 /\ Alive(e)
  BY <1>1, <1>2 DEF Spawned, Free, Entry, Sane, Alive, Children
<1>4. /\ master.table = [s \in SlotNumber |-> IF s > WorkerProcesses THEN Free ELSE e]
      /\ master.last = WorkerProcesses /\ master.conf = 0 /\ master.flags = {}
      /\ master.live /\ master.newBinary = NoBinary /\ ~master.noaccepting
      /\ ~master.gone /\ ~master.short /\ ~master.failed /\ master.raised = {}
  BY <1>1 DEF Init
<1>5. master.table \in [SlotNumber -> Entry]
  BY <1>3, <1>4, FreeEntry
<1>6. master \in Master
  <2>1. /\ WorkerProcesses \in 0 .. MaxProcesses /\ NoBinary \in 0 .. FailedBinary
        /\ 0 \in 0 .. 2 * LongDelay /\ 0 \in 0 .. WorkerProcesses + 2
    BY NginxAssumption DEF NoBinary, FailedBinary, LongDelay
  <2>2. PICK tab : tab = master.table
    OBVIOUS
  <2>3. master = [table |-> tab, last |-> WorkerProcesses, conf |-> 0, flags |-> {},
                  live |-> TRUE, newBinary |-> NoBinary, noaccepting |-> FALSE,
                  delay |-> 0, sigio |-> 0, gone |-> FALSE, short |-> FALSE,
                  failed |-> FALSE, raised |-> {}]
    BY <2>2 DEF Init
  <2>4. QED
    BY <1>2, <1>5, <2>1, <2>2, <2>3 DEF Master
<1>7. \A s \in SlotNumber : s > WorkerProcesses => master.table[s] = Free
  BY <1>4
<1>8. Typed(master) /\ TypeOK
  BY <1>2, <1>4, <1>6, <1>7, NginxAssumption DEF Init, Typed, TypeOK
<1>9. \A s \in SlotNumber : master.table[s] \in {Free, e}
  BY <1>4
<1>10. Entered(master)
  BY <1>3, <1>4, <1>9, FreeEntry DEF Entered, Old
<1>11. Left(master, marred) /\ Quiet(master)
  BY <1>4 DEF Left, Plain, Quiet
<1>12. Ready(master, marred)
  BY <1>3, <1>9, FreeEntry DEF Ready
<1>13. Strong(master, marred)
  <2>1. Due(master) /\ \A s \in SlotNumber : master.table[s].child # "fatal"
    BY <1>3, <1>4, <1>9, FreeEntry DEF Due
  <2>2. Stays(e) /\ ~Stays(Free)
    BY <1>3, FreeEntry DEF Stays
  <2>3. Counted(master) = 1 .. WorkerProcesses
    BY <1>3, <1>4, <2>2, NginxAssumption DEF Counted, SlotNumber
  <2>4. Cardinality(1 .. WorkerProcesses) = WorkerProcesses
    BY FS_Interval, NginxAssumption
  <2>5. QED
    BY <2>1, <2>3, <2>4 DEF Strong
<1>14. QED
  BY <1>8, <1>10, <1>11, <1>12, <1>13 DEF IInv, Good

LEMMA NextInv ==
  ASSUME IInv, [Next]_vars
  PROVE  IInv'
<1>1. CASE Passes
  BY <1>1, PassInv
<1>2. ASSUME NEW s \in SlotNumber,
             \/ WorkerStarts(s) \/ WorkerFails(s) \/ WorkerReads(s)
             \/ WorkerFinishes(s) \/ WorkerDies(s) \/ WorkerHangs(s)
      PROVE  IInv'
  BY <1>2, WorkerStep DEF Onwards
<1>3. CASE \/ Alarm \/ (\E ok \in BOOLEAN : Edit(ok))
           \/ (\E signal \in Signals : Send(signal))
  BY <1>3, AroundStep DEF Onwards
<1>4. CASE UNCHANGED vars
  BY <1>4 DEF vars, IInv, TypeOK, Good, Typed, Entered, Left, Plain, Nobody, Strong,
              Unmarred, Due, Counted, Ending, Ready, Quiet
<1>5. QED
  BY <1>1, <1>2, <1>3, <1>4 DEF Next

THEOREM Invariant == Spec => []IInv
<1>1. Init => IInv
  BY InitInv
<1>2. IInv /\ [Next]_vars => IInv'
  BY NextInv
<1>3. QED
  BY <1>1, <1>2, PTL DEF Spec

-----------------------------------------------------------------------------
(* What the runs check.                                                      *)

\* In every state of nginx the master's variables and the table of processes
\* have their types, and nothing is in the table beyond ngx_last_process: the
\* loops over ngx_processes up to it miss no child.
THEOREM TypeCorrect == Spec => []TypeOK
<1>1. IInv => TypeOK
  BY DEF IInv
<1>2. QED
  BY <1>1, Invariant, PTL

\* ngx_reconfigure and ngx_reap_children: a worker of a configuration that is
\* no longer in force has been told to quit, for any number of workers,
\* whatever fails, crashes, is respawned, reloaded or upgraded in between.
THEOREM OldTold == Spec => []OldAreTold
<1>1. IInv => OldAreTold
  BY DEF IInv, Good, Entered, Old, OldAreTold, Entries
<1>2. QED
  BY <1>1, Invariant, PTL

\* ngx_start_worker_processes, ngx_signal_worker_processes and
\* ngx_reap_children together: unless a fork or a start has failed or the
\* binary is being upgraded, exactly worker_processes workers of the
\* configuration in force serve or are about to be started again.
THEOREM FullStrengthKept == Spec => []FullStrength
<1>1. IInv => FullStrength
  BY DEF IInv, Good, Quiet, Strong, Unmarred, Counted, FullStrength
<1>2. QED
  BY <1>1, Invariant, PTL

\* ngx_master_process_exit is reached only when ngx_reap_children has found
\* nobody: no worker outlives the master, unless the binary was upgraded.
THEOREM NobodyLeft == Spec => []LeavesNobody
<1>1. IInv => LeavesNobody
  BY DEF IInv, Good, Left, Nobody, LeavesNobody, Entries
<1>2. QED
  BY <1>1, Invariant, PTL

-----------------------------------------------------------------------------
(* The refinement: the master, its table, the signals and the accidents are  *)
(* hidden, the configurations that are served remain.                        *)

LEMMA ServesFirst ==
  ASSUME Init
  PROVE  Service!Init
<1>1. master.conf = 0 /\ ~master.gone
  BY DEF Init
<1>2. \A s \in SlotNumber : master.table[s] =
         IF s > WorkerProcesses THEN Free ELSE [Spawned(0) EXCEPT !.respawn = TRUE]
  BY DEF Init
<1>3. 1 \in SlotNumber /\ ~(1 > WorkerProcesses)
  BY NginxAssumption DEF SlotNumber
<1>4. PICK e : e = [Spawned(0) EXCEPT !.respawn = TRUE]
  OBVIOUS
<1>5. e.child = "starting" /\ ~e.detached /\ e.conf = 0
  BY <1>4 DEF Spawned, Free
<1>6. 0 \in Serving
  BY <1>2, <1>3, <1>4, <1>5 DEF Serving
<1>7. Serving \subseteq {0}
  BY <1>2, <1>4, <1>5, FreeEntry DEF Serving
<1>8. QED
  BY <1>1, <1>6, <1>7 DEF Service!Init

LEMMA ServesOn ==
  ASSUME IInv, [Next]_vars
  PROVE  [Service!Next]_(Service!vars)
<1>1. Serving = Shown(master) /\ Serving' = Shown(master)'
  BY DEF Serving, Shown
<1>2. /\ file.edit \in 0 .. MaxEdits /\ master.conf \in 0 .. MaxEdits
      /\ master.conf <= file.edit /\ master.gone \in BOOLEAN
  BY MasterFields DEF IInv, TypeOK
<1>3. CASE Passes
  <2>1. ~master.gone
    BY <1>3 DEF Passes
  <2>2. PICK arrived \in SUBSET pending : \E w \in Outcomes(arrived) : Pass(arrived, w)
    BY <1>3 DEF Passes
  <2>3. PICK w \in Outcomes(arrived) : Pass(arrived, w)
    BY <2>2
  <2>4. /\ Typed(w) /\ w.conf \in {master.conf, file.edit}
        /\ Shown(w) \subseteq Shown(master) \cup {master.conf, w.conf}
        /\ w.gone => w.conf = master.conf /\ Shown(w) \subseteq Shown(master)
    BY <2>1, OutcomeKeeps
  <2>5. master' = Rested(w)
    BY <2>3 DEF Pass
  <2>6. /\ master'.conf = w.conf /\ master'.gone = w.gone /\ w.gone \in BOOLEAN
        /\ master'.table = w.table
    BY <2>4, <2>5, RestedFields, MasterFields DEF Typed
  <2>7. Shown(master)' = Shown(w)
    BY <2>6 DEF Shown
  <2>8. CASE w.gone
    BY <1>1, <2>1, <2>4, <2>6, <2>7, <2>8 DEF Service!Next, Service!Stop
  <2>9. CASE ~w.gone /\ w.conf # master.conf
    <3>1. master'.conf \in 0 .. MaxEdits /\ master'.conf > master.conf
      BY <1>2, <2>4, <2>6, <2>9
    <3>2. QED
      BY <1>1, <2>1, <2>4, <2>6, <2>7, <2>9, <3>1 DEF Service!Next, Service!Replace
  <2>10. CASE ~w.gone /\ w.conf = master.conf
    BY <1>1, <2>1, <2>4, <2>6, <2>7, <2>10 DEF Service!Next, Service!Work
  <2>11. QED
    BY <2>8, <2>9, <2>10
<1>4. ASSUME Onwards
      PROVE  [Service!Next]_(Service!vars)
  <2>1. CASE master.gone
    BY <1>1, <1>4, <2>1 DEF Onwards, Service!Next, Service!Outlive
  <2>2. CASE ~master.gone
    BY <1>1, <1>4, <2>2 DEF Onwards, Service!Next, Service!Work
  <2>3. QED
    BY <2>1, <2>2
<1>5. ASSUME NEW s \in SlotNumber,
             \/ WorkerStarts(s) \/ WorkerFails(s) \/ WorkerReads(s)
             \/ WorkerFinishes(s) \/ WorkerDies(s) \/ WorkerHangs(s)
      PROVE  Onwards
  BY <1>5, WorkerStep
<1>6. CASE \/ Alarm \/ (\E ok \in BOOLEAN : Edit(ok))
           \/ (\E signal \in Signals : Send(signal))
  BY <1>4, <1>6, AroundStep
<1>7. CASE UNCHANGED vars
  BY <1>7 DEF vars, Service!vars, Serving
<1>8. QED
  BY <1>3, <1>4, <1>5, <1>6, <1>7 DEF Next

\* The nginx of ngx_process_cycle.c is the service the panel's reload and stop
\* rely on: a reload goes from one configuration to a newer one, a process
\* serves only what is or was in force, nothing that has faded comes back, and
\* without a master nobody new serves.
THEOREM Refines == Spec => ImplementsService
<1>1. Init => Service!Init
  BY ServesFirst
<1>2. IInv /\ [Next]_vars => [Service!Next]_(Service!vars)
  BY ServesOn
<1>3. QED
  BY <1>1, <1>2, Invariant, PTL DEF Spec, ImplementsService, Service!Spec
=============================================================================
