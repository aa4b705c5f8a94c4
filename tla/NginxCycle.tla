---- MODULE NginxCycle ----
(***************************************************************************)
(* The nginx the panel ships, starts, reloads and stops: the master        *)
(* process, its table of children and the workers (ngx_process_cycle.c,    *)
(* ngx_process.c).  The master handles signals only inside sigsuspend();   *)
(* between two of them it runs one pass of its loop, which is one action   *)
(* here: whatever a worker does meanwhile is not seen before the next.     *)
(* A stage of the pass takes the master's variables w and gives what they  *)
(* are after it, or the set of what they can be where forks may fail.      *)
(* Logs, titles, CPU affinity, the cache processes (no cache path is       *)
(* configured) and the channel messages workers exchange are left out.     *)
(***************************************************************************)
EXTENDS Naturals, FiniteSets

CONSTANTS WorkerProcesses,  \* worker_processes, the same in every edit
          MaxProcesses,     \* NGX_MAX_PROCESSES
          Signals,          \* the signals somebody sends to the master
          MaxEdits,         \* bound: edits of nginx.conf
          MaxSent,          \* bound: signals sent
          MaxAccidents      \* bound: passes with failed forks, workers that die or hang

ASSUME NginxAssumption ==
    /\ WorkerProcesses \in Nat \ {0} /\ MaxProcesses \in Nat
    /\ WorkerProcesses <= MaxProcesses
    /\ Signals \subseteq {"HUP", "QUIT", "TERM", "USR1", "USR2", "WINCH"}
    /\ MaxEdits \in Nat /\ MaxSent \in Nat /\ MaxAccidents \in Nat

VARIABLES master,     \* the master's variables and its table of processes
          file,       \* nginx.conf: the number of the edit, and whether
                      \* ngx_init_cycle can put it in force
          pending,    \* signals sent to the master and not yet delivered
          sent,       \* how many signals have been sent
          accidents,  \* how many accidents have happened
          marred      \* the kinds of accident that have happened

vars == <<master, file, pending, sent, accidents, marred>>

SlotNumber == 1 .. MaxProcesses
NoBinary == 0                       \* ngx_new_binary = 0
FailedBinary == MaxProcesses + 1    \* ngx_new_binary = NGX_INVALID_PID

(* An entry of ngx_processes and the process behind it: "none" once it has *)
(* been waited for, "dead" or "fatal" (exit code 2) before.                *)
Children == {"none", "starting", "serving", "leaving", "hung", "dead", "fatal"}
Free == [child |-> "none", told |-> {}, exited |-> FALSE, exiting |-> FALSE,
         respawn |-> FALSE, just |-> FALSE, detached |-> FALSE, conf |-> 0]
Spawned(c) == [Free EXCEPT !.child = "starting", !.conf = c]
Alive(e) == e.child \in {"starting", "serving", "leaving", "hung"}

Ending(w) == w.flags \cap {"terminate", "quit"} # {}

(***************************************************************************)
(* n calls of ngx_spawn_process for new entries: each takes the first free *)
(* entry and fails when the table is full or the fork fails.  The outcomes *)
(* differ in the highest entry h taken, 0 when no fork succeeds.           *)
(***************************************************************************)
Vacant(w) == {s \in SlotNumber : s > w.last \/ w.table[s] = Free}
Taken(w, h) == {s \in Vacant(w) : s <= h}
Reach(w, n) == {0} \cup {h \in Vacant(w) : Cardinality(Taken(w, h)) <= n}

Spawn(w, h, n, entry) ==
    LET short == Cardinality(Taken(w, h)) < n IN
    [w EXCEPT !.table = [s \in SlotNumber |->
                            IF s \in Taken(w, h) THEN entry ELSE w.table[s]],
              !.last = IF h > @ THEN h ELSE @,
              !.short = @ \/ short,
              !.failed = @ \/ (short /\ Taken(w, h) # Vacant(w))]

(* ngx_start_worker_processes: failures are not looked at. *)
StartWorkers(w, just) ==
    {Spawn(w, h, WorkerProcesses, [Spawned(w.conf) EXCEPT !.respawn = TRUE,
                                                          !.just = just]) :
        h \in Reach(w, WorkerProcesses)}

(***************************************************************************)
(* ngx_signal_worker_processes: a child just started is passed over once;  *)
(* one that has been told to quit is not told again; an entry whose        *)
(* process does not exist (ESRCH) is marked for reaping.                   *)
(***************************************************************************)
PassedOver(e, what) == \/ e = Free \/ e.detached \/ e.just
                       \/ e.exiting /\ what = "quit"

Heard(e, what) ==
    CASE e.exited                       -> [e EXCEPT !.exiting = FALSE]
      [] ~e.exited /\ what = "reopen"   -> e
      [] ~e.exited /\ what = "kill"     ->
            [e EXCEPT !.exiting = TRUE, !.child = IF Alive(e) THEN "dead" ELSE @]
      [] ~e.exited /\ what \in {"quit", "terminate"} ->
            [e EXCEPT !.exiting = TRUE, !.told = @ \cup {what}]

SignalledKeepsJust(e, what) == IF PassedOver(e, what) THEN e ELSE Heard(e, what)
Signalled(e, what) == IF PassedOver(e, what) THEN [e EXCEPT !.just = FALSE]
                      ELSE Heard(e, what)

SignalWorkers(w, what) ==
    LET reached == {s \in SlotNumber : ~PassedOver(w.table[s], what)} IN
    [w EXCEPT !.table = [s \in SlotNumber |-> Signalled(w.table[s], what)],
              !.flags = IF \E s \in reached : w.table[s].exited
                        THEN @ \cup {"reap"} ELSE @,
              !.raised = IF what = "kill" /\ \E s \in reached : Alive(w.table[s])
                         THEN @ \cup {"CHLD"} ELSE @]

(***************************************************************************)
(* ngx_reap_children: a child that ended is started again in its entry     *)
(* with the configuration now in force, unless it was told to go or the    *)
(* master is going; live says whether anyone is left.  The forks for the   *)
(* entries in lost fail; those stay as they are.                           *)
(***************************************************************************)
RespawnsTold(w, e) == e.respawn /\ ~Ending(w)
Respawns(w, e) == e.respawn /\ ~e.exiting /\ ~Ending(w)

Again(w) == {s \in SlotNumber : w.table[s].exited /\ Respawns(w, w.table[s])}
Dropped(w) == {s \in SlotNumber : w.table[s].exited /\ ~Respawns(w, w.table[s])}

RespawnAsBefore(w, e) == [e EXCEPT !.child = "starting", !.told = {}, !.exited = FALSE]
Respawn(w, e) == [e EXCEPT !.child = "starting", !.told = {}, !.exited = FALSE,
                           !.conf = w.conf]

LastShrinks(w) == IF Dropped(w) # {} THEN w.last - 1 ELSE w.last
LastAfter(w) == IF w.last \in Dropped(w) THEN w.last - 1 ELSE w.last

LivesExiting(e) == e # Free /\ ~e.exited /\ e.exiting
Lives(e) == e # Free /\ ~e.exited /\ (e.exiting \/ ~e.detached)

Reaped(w, lost) ==
    LET isNew == w.newBinary \in Dropped(w) IN
    [w EXCEPT !.table = [s \in SlotNumber |->
                            IF s \in Dropped(w) THEN Free
                            ELSE IF s \in Again(w) \ lost THEN Respawn(w, w.table[s])
                            ELSE w.table[s]],
              !.last = LastAfter(w),
              !.live = Again(w) \ lost # {} \/ \E s \in SlotNumber : Lives(w.table[s]),
              !.newBinary = IF isNew THEN NoBinary ELSE @,
              !.flags = (@ \ {"reap"}) \cup
                        (IF isNew /\ w.noaccepting THEN {"restart"} ELSE {}),
              !.noaccepting = @ /\ ~isNew,
              !.short = @ \/ lost # {}, !.failed = @ \/ lost # {}]

Reap(w) == IF "reap" \notin w.flags THEN {w}
           ELSE {Reaped(w, lost) : lost \in SUBSET Again(w)}

(***************************************************************************)
(* One wake-up from sigsuspend: the handlers of the signals that arrived   *)
(* set their flags (ngx_signal_handler), SIGCHLD collects every child that *)
(* has ended (ngx_process_get_status).                                     *)
(***************************************************************************)
FlagOf(w, signal) ==
    CASE signal = "HUP"   -> {"reconfigure"}
      [] signal = "QUIT"  -> {"quit"}
      [] signal = "TERM"  -> {"terminate"}
      [] signal = "USR1"  -> {"reopen"}
      [] signal = "USR2"  -> IF w.newBinary \in SlotNumber THEN {} ELSE {"change_binary"}
      [] signal = "WINCH" -> {"noaccept"}
      [] signal = "ALRM"  -> {"sigalrm"}
      [] signal = "CHLD"  -> {"reap"}
      [] signal = "IO"    -> {}

Collected(e) ==
    IF e.child \notin {"dead", "fatal"} THEN e
    ELSE [e EXCEPT !.child = "none", !.exited = TRUE, !.told = {},
                   !.respawn = @ /\ e.child # "fatal"]

Woken(w, arrived) ==
    [w EXCEPT !.flags = @ \cup UNION {FlagOf(w, g) : g \in arrived},
              !.table = IF "CHLD" \in arrived
                        THEN [s \in SlotNumber |-> Collected(w.table[s])] ELSE @]

(* ngx_terminate: TERM at first, KILL once the delay has passed a second; *)
(* SIGIO wake-ups in between are counted off.                              *)
FirstDelay == 50
LongDelay == 1000
Terminate(w) ==
    LET v == [w EXCEPT !.delay = IF @ = 0 THEN FirstDelay ELSE @] IN
    IF v.sigio > 0 THEN [v EXCEPT !.sigio = @ - 1]
    ELSE SignalWorkers([v EXCEPT !.sigio = WorkerProcesses + 2],
                       IF v.delay > LongDelay THEN "kill" ELSE "terminate")

(* ngx_reconfigure without a new binary: the workers of the new cycle are  *)
(* started, then the ones before them are told to quit.                    *)
ReconfigureStartsOnly(w) ==
    IF "reconfigure" \notin w.flags THEN {w}
    ELSE {[v EXCEPT !.live = TRUE] :
            v \in StartWorkers([w EXCEPT !.conf = file.edit,
                                         !.flags = @ \ {"reconfigure"}], FALSE)}

ReconfigureSameCycle(w) ==
    IF "reconfigure" \notin w.flags THEN {w}
    ELSE {SignalWorkers([v EXCEPT !.live = TRUE], "quit") :
            v \in StartWorkers([w EXCEPT !.flags = @ \ {"reconfigure"}], TRUE)}

Reconfigure(w) ==
    IF "reconfigure" \notin w.flags THEN {w}
    ELSE {SignalWorkers([v EXCEPT !.live = TRUE], "quit") :
            v \in StartWorkers([w EXCEPT !.conf = file.edit,
                                         !.flags = @ \ {"reconfigure"}], TRUE)}

(* ngx_reconfigure while a new binary runs: the workers come back. *)
Return(w) == {[v EXCEPT !.noaccepting = FALSE] :
                v \in StartWorkers([w EXCEPT !.flags = @ \ {"reconfigure"}], FALSE)}

Restart(w) ==
    IF "restart" \notin w.flags THEN {w}
    ELSE {[v EXCEPT !.live = TRUE] :
            v \in StartWorkers([w EXCEPT !.flags = @ \ {"restart"}], FALSE)}

Reopen(w) ==
    IF "reopen" \notin w.flags THEN w
    ELSE SignalWorkers([w EXCEPT !.flags = @ \ {"reopen"}], "reopen")

(* ngx_exec_new_binary: a detached child; -1 is kept when the fork fails. *)
ChangeBinary(w) ==
    IF "change_binary" \notin w.flags THEN {w}
    ELSE {Spawn([w EXCEPT !.flags = @ \ {"change_binary"},
                          !.newBinary = IF h = 0 THEN FailedBinary ELSE h],
                h, 1, [Spawned(w.conf) EXCEPT !.detached = TRUE]) : h \in Reach(w, 1)}

NoAccept(w) ==
    IF "noaccept" \notin w.flags THEN w
    ELSE SignalWorkers([w EXCEPT !.flags = @ \ {"noaccept"}, !.noaccepting = TRUE],
                       "quit")

(* The body of the loop; the branches that continue leave the flags after  *)
(* them for the next wake-up.                                              *)
Serve(w) == {NoAccept(v) : v \in UNION {ChangeBinary(Reopen(u)) :
                u \in UNION {Restart(t) : t \in Reconfigure(w)}}}

Body(w) ==
    CASE ~w.live /\ Ending(w)       -> {[w EXCEPT !.gone = TRUE]}
      [] w.live /\ "terminate" \in w.flags -> {Terminate(w)}
      [] w.live /\ "terminate" \notin w.flags /\ "quit" \in w.flags
                                    -> {SignalWorkers(w, "quit")}
      [] ~Ending(w) /\ "reconfigure" \in w.flags /\ w.newBinary # NoBinary -> Return(w)
      [] ~Ending(w) /\ "reconfigure" \in w.flags /\ w.newBinary = NoBinary
         /\ ~file.ok               -> {[w EXCEPT !.flags = @ \ {"reconfigure"}]}
      [] OTHER -> Serve(w)

(* The top of the loop: an alarm doubles the delay and sets the timer. *)
TopPatient(w) ==
    IF w.delay = 0 \/ "sigalrm" \notin w.flags THEN w
    ELSE [w EXCEPT !.sigio = 0, !.flags = @ \ {"sigalrm"}]

Top(w) ==
    IF w.delay = 0 \/ "sigalrm" \notin w.flags THEN w
    ELSE [w EXCEPT !.sigio = 0, !.flags = @ \ {"sigalrm"},
                   !.delay = IF @ > LongDelay THEN @ ELSE 2 * @]

(***************************************************************************)
(* The master's pass.  What it notes on the way, children it could not     *)
(* start (short), forks that failed and signals it has caused (raised), is *)
(* empty between two passes.                                               *)
(***************************************************************************)
Outcomes(arrived) ==
    {Top(v) : v \in UNION {Body(u) : u \in Reap(Woken(master, arrived))}}

Rested(w) == [w EXCEPT !.short = FALSE, !.failed = FALSE, !.raised = {}]

Pass(arrived, w) ==
    /\ w.failed => accidents < MaxAccidents
    /\ master' = Rested(w)
    /\ pending' = (pending \ arrived) \cup w.raised
    /\ accidents' = IF w.failed THEN accidents + 1 ELSE accidents
    /\ marred' = marred \cup (IF w.short THEN {"fork"} ELSE {})
                         \cup (IF arrived \cap {"USR2", "WINCH"} # {}
                               THEN {"upgrade"} ELSE {})
    /\ UNCHANGED <<file, sent>>

Passes == /\ ~master.gone
          /\ \E arrived \in (SUBSET pending) \ {{}} :
                \E w \in Outcomes(arrived) : Pass(arrived, w)

(* setitimer: the alarm of the termination cycle goes off. *)
Alarm == /\ ~master.gone /\ master.delay > 0 /\ "ALRM" \notin pending
         /\ pending' = pending \cup {"ALRM"}
         /\ UNCHANGED <<master, file, sent, accidents, marred>>

(***************************************************************************)
(* The workers.                                                            *)
(***************************************************************************)
Child(s, state) == master' = [master EXCEPT !.table[s].child = state]
Ends(s, state) ==
    /\ master' = [master EXCEPT !.table[s].child = state, !.table[s].told = {}]
    /\ pending' = pending \cup {"CHLD"}

(* ngx_worker_process_init succeeds. *)
WorkerStarts(s) == /\ master.table[s].child = "starting"
                   /\ Child(s, "serving")
                   /\ UNCHANGED <<file, pending, sent, accidents, marred>>

(* It fails: exit(2). *)
WorkerFails(s) == /\ master.table[s].child = "starting" /\ accidents < MaxAccidents
                  /\ ~master.table[s].detached
                  /\ Ends(s, "fatal")
                  /\ accidents' = accidents + 1 /\ marred' = marred \cup {"fatal"}
                  /\ UNCHANGED <<file, sent>>

(* The worker reads its channel (ngx_channel_handler): terminate ends it,  *)
(* quit closes its listening sockets.  The master hears SIGIO, which is    *)
(* only a wake-up: without a flag left or a delay running its pass changes *)
(* nothing.                                                                *)
WorkerReads(s) ==
    LET e == master.table[s] IN
    /\ e.child \in {"serving", "leaving"} /\ e.told # {}
    /\ IF "terminate" \in e.told THEN Ends(s, "dead")
       ELSE /\ master' = [master EXCEPT !.table[s].child = "leaving",
                                        !.table[s].told = {}]
            /\ pending' = IF master.flags = {} /\ master.delay = 0 THEN pending
                          ELSE pending \cup {"IO"}
    /\ UNCHANGED <<file, sent, accidents, marred>>

(* Its last client has gone. *)
WorkerFinishes(s) == /\ master.table[s].child = "leaving"
                     /\ Ends(s, "dead")
                     /\ UNCHANGED <<file, sent, accidents, marred>>

(* A worker dies of a signal, or hangs in a call that does not return;     *)
(* the new binary ends by itself.                                          *)
WorkerDies(s) == /\ Alive(master.table[s]) /\ accidents < MaxAccidents
                 /\ Ends(s, "dead")
                 /\ accidents' = accidents + 1
                 /\ UNCHANGED <<file, sent, marred>>
WorkerHangs(s) == /\ master.table[s].child = "serving" /\ accidents < MaxAccidents
                  /\ ~master.table[s].detached
                  /\ Child(s, "hung")
                  /\ accidents' = accidents + 1 /\ marred' = marred \cup {"hung"}
                  /\ UNCHANGED <<file, pending, sent>>

(***************************************************************************)
(* The panel and the administrator.                                        *)
(***************************************************************************)
Edit(ok) == /\ file.edit < MaxEdits
            /\ file' = [edit |-> file.edit + 1, ok |-> ok]
            /\ UNCHANGED <<master, pending, sent, accidents, marred>>

Send(signal) == /\ sent < MaxSent /\ ~master.gone
                /\ pending' = pending \cup {signal}
                /\ sent' = sent + 1
                /\ UNCHANGED <<master, file, accidents, marred>>

Init ==
    /\ master = [table |-> [s \in SlotNumber |->
                               IF s > WorkerProcesses THEN Free
                               ELSE [Spawned(0) EXCEPT !.respawn = TRUE]],
                 last |-> WorkerProcesses, conf |-> 0, flags |-> {}, live |-> TRUE,
                 newBinary |-> NoBinary, noaccepting |-> FALSE, delay |-> 0,
                 sigio |-> 0, gone |-> FALSE,
                 short |-> FALSE, failed |-> FALSE, raised |-> {}]
    /\ file = [edit |-> 0, ok |-> TRUE]
    /\ pending = {} /\ sent = 0 /\ accidents = 0 /\ marred = {}

WorkerGoesOn(s) == WorkerStarts(s) \/ WorkerReads(s) \/ WorkerFinishes(s)

Next == \/ Passes
        \/ Alarm
        \/ \E s \in SlotNumber : WorkerStarts(s)
        \/ \E s \in SlotNumber : WorkerFails(s)
        \/ \E s \in SlotNumber : WorkerReads(s)
        \/ \E s \in SlotNumber : WorkerFinishes(s)
        \/ \E s \in SlotNumber : WorkerDies(s)
        \/ \E s \in SlotNumber : WorkerHangs(s)
        \/ \E ok \in BOOLEAN : Edit(ok)
        \/ \E signal \in Signals : Send(signal)

(* The master comes back to sigsuspend and the signals sent are delivered; *)
(* weak fairness of Pass says the same of a bounded number of signals.     *)
SignalsArrive == []<>(pending = {} \/ master.gone)

(* The timer fires, a worker that is not hung runs and its clients go in   *)
(* the end.                                                                *)
Fairness == /\ SignalsArrive /\ WF_vars(Alarm)
            /\ \A s \in SlotNumber : WF_vars(WorkerGoesOn(s))

Spec == Init /\ [][Next]_vars /\ Fairness

----------------------------------------------------------------------------
Entries == {master.table[s] : s \in SlotNumber}

Flags == {"reap", "sigalrm", "terminate", "quit", "reconfigure", "restart",
          "reopen", "change_binary", "noaccept"}

Entry == [child : Children, told : SUBSET {"quit", "terminate"}, exited : BOOLEAN,
          exiting : BOOLEAN, respawn : BOOLEAN, just : BOOLEAN, detached : BOOLEAN,
          conf : 0 .. MaxEdits]

Master == [table : [SlotNumber -> Entry], last : 0 .. MaxProcesses,
           conf : 0 .. MaxEdits, flags : SUBSET Flags, live : BOOLEAN,
           newBinary : 0 .. FailedBinary, noaccepting : BOOLEAN,
           delay : 0 .. 2 * LongDelay, sigio : 0 .. WorkerProcesses + 2,
           gone : BOOLEAN, short : BOOLEAN, failed : BOOLEAN, raised : SUBSET {"CHLD"}]

(* Everything has its type, and nothing is in the table beyond ngx_last_process. *)
TypeOK ==
    /\ master \in Master
    /\ \A s \in SlotNumber : s > master.last => master.table[s] = Free
    /\ file \in [edit : 0 .. MaxEdits, ok : BOOLEAN] /\ master.conf <= file.edit
    /\ pending \subseteq Signals \cup {"ALRM", "CHLD", "IO"}
    /\ sent \in 0 .. MaxSent /\ accidents \in 0 .. MaxAccidents
    /\ marred \subseteq {"fork", "fatal", "hung", "upgrade"}

(* Whatever fails, dies, is respawned or upgraded in between: a process    *)
(* that runs a configuration no longer in force has been told to go.       *)
OldAreTold == ~master.gone => \A e \in Entries :
    Alive(e) /\ ~e.detached /\ e.conf # master.conf => e.exiting

(* As long as no fork or start has failed and nobody upgrades the binary,  *)
(* exactly worker_processes workers of the configuration in force serve    *)
(* without having been told to go, or are about to be started again,       *)
(* whatever crashes and reloads overlap.  A worker that hangs counts as    *)
(* one that serves: the master cannot tell.                                *)
Stays(e) == e.respawn /\ IF Alive(e) THEN e.child # "leaving" /\ e.told = {}
                         ELSE ~e.exiting
FullStrength ==
    ~master.gone /\ ~Ending(master) /\ marred \subseteq {"hung"} =>
    Cardinality({s \in SlotNumber : /\ Stays(master.table[s])
                                    /\ master.table[s].conf = master.conf}) = WorkerProcesses

(* The master that stops leaves no worker behind. *)
LeavesNobody == master.gone /\ "upgrade" \notin marred =>
                \A e \in Entries : Alive(e) => e.detached

(* A reload of a file that can be put in force puts it, or a later one, in *)
(* force, unless the master is stopped, the binary is being upgraded or    *)
(* the file is edited into one that cannot.                                *)
ReloadTakes == \A n \in 1 .. MaxEdits :
    ("HUP" \in pending /\ file = [edit |-> n, ok |-> TRUE] /\ ~master.gone)
    ~> \/ master.conf >= n \/ master.gone \/ Ending(master) \/ ~file.ok
       \/ "upgrade" \in marred

(* Told to terminate the master ends even when workers hang; told to quit  *)
(* it ends when none does.                                                 *)
StopEnds ==
    /\ ("TERM" \in pending) ~> (master.gone \/ "fork" \in marred)
    /\ ("QUIT" \in pending) ~> (master.gone \/ marred \cap {"fork", "hung"} # {})

(* The detailed nginx is the service the panel relies on. *)
Serving == {master.table[s].conf : s \in {t \in SlotNumber :
               /\ master.table[t].child \in {"starting", "serving"}
               /\ ~master.table[t].detached}}

Service == INSTANCE NginxService WITH
    up <- ~master.gone, conf <- master.conf, serving <- Serving,
    Configs <- 0 .. MaxEdits

ImplementsService == Service!Spec

(* Whoever serves a replaced configuration stops serving it in the end. *)
OldFade == Service!OldFade
====
