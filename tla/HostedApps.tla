------------------------------ MODULE HostedApps ------------------------------
(***************************************************************************)
(* Starting, stopping and serving the hosted applications: the second half *)
(* of src/app/hosting_tools.js with its callers and the reload of nginx.   *)
(*                                                                         *)
(* Every operation asks the JXcore monitor over HTTP what is running, then *)
(* runs commands, then asks again.  A call in progress is a record; one    *)
(* action is one callback of it.  Between two callbacks the other calls,   *)
(* the monitor and the administrator's shell go on.  A question that fails *)
(* although the monitor is up is as possible as an answer.                 *)
(*                                                                         *)
(* Two threads of the one panel process make calls: the panel itself and   *)
(* the scheduler, whose quota job suspends users.  So does a command in    *)
(* the shell, a process of its own.  Each has its own copy of the module   *)
(* nginx.js, so its own flag needsReload.                                  *)
(***************************************************************************)
EXTENDS FiniteSets

CONSTANTS
    DomainNames,  \* names a domain may get
    PlanNames,    \* the plans the owners of the domains are in
    PlanOf,       \* the plan a domain belongs to through its owner
    Callers,      \* bound on the calls in progress at one time
    Uses          \* bound on what each of them is made for, of Callees

ASSUME PlansAssumption == PlanOf \in [DomainNames -> PlanNames]

\* "shell" is the process of jx index nginx fix config.
Threads == {"panel", "scheduler", "shell"}

VARIABLES
    domains,    \* the domains in the database
    enabled,    \* those with jx_enabled set
    suspended,  \* the plans that are suspended
    monitor,    \* the JXcore monitor is up
    running,    \* the domains whose spawner the monitor lists
    starting,   \* launched or crashed, and not listed yet or any more
    nginx,      \* nginx is up
    files,      \* nginx's configuration: the domains' files, whether nginx
                \* has loaded them as they are, the flags, and history: a
                \* flag was lost with its process, or a change made none
    panel,      \* the panel's process is up
    calls       \* the calls in progress

db    == <<domains, enabled, suspended>>
apps  == <<monitor, running, starting>>
vars  == <<db, apps, nginx, files, panel, calls>>

Ops     == {"start", "stop", "stopMany", "restartMany", "monitorStart", "monitorStop"}
Stages  == {"done", "asked", "exec", "check", "launch", "status"}
\* Who made the call, so what its callback does.
Callees == {"button", "edit", "remove", "suspend", "plan", "config", "fix", "nobody"}

\* todo: the domains whose command has not ended; seen: online_before;
\* err: the call's error.  History: heard, the last question was answered;
\* solo, no other call has taken a step since this one began; older, what
\* ran when a start of the monitor took it to be down.
Call == [op : Ops, for : Callees, ds : SUBSET DomainNames, thread : Threads,
         stage : Stages, todo : SUBSET DomainNames, seen : BOOLEAN, err : BOOLEAN,
         heard : BOOLEAN, solo : BOOLEAN, older : SUBSET DomainNames]

NewCall(op, for, ds, t) ==
    [op |-> op, for |-> for, ds |-> ds, thread |-> t, stage |-> "asked",
     todo |-> {}, seen |-> FALSE, err |-> FALSE,
     heard |-> FALSE, solo |-> TRUE, older |-> {}]

NoCall == [NewCall("stop", "nobody", {}, "panel") EXCEPT !.stage = "done", !.solo = FALSE]

Ended(err) == [NoCall EXCEPT !.err = err]

\* Everything has its type.
TypeOK ==
    /\ domains \subseteq DomainNames /\ enabled \subseteq domains
    /\ suspended \subseteq PlanNames
    /\ monitor \in BOOLEAN /\ nginx \in BOOLEAN /\ panel \in BOOLEAN
    /\ running \subseteq DomainNames /\ starting \subseteq DomainNames
    /\ monitor \/ running \cup starting = {}
    /\ files \in [conf : SUBSET DomainNames, loaded : BOOLEAN,
                  needsReload : [Threads -> BOOLEAN], forgot : BOOLEAN]
    /\ calls \in [Callers -> Call]

Init ==
    /\ domains = {} /\ enabled = {} /\ suspended = {}
    /\ monitor = TRUE /\ running = {} /\ starting = {}
    /\ nginx = TRUE
    /\ files = [conf |-> {}, loaded |-> TRUE,
                needsReload |-> [t \in Threads |-> FALSE], forgot |-> FALSE]
    /\ panel = TRUE
    /\ calls = [c \in Callers |-> NoCall]

Free(c, for) == calls[c].stage = "done" /\ for \in Uses[c]
At(c, stg)   == (panel \/ calls[c].thread = "shell") /\ calls[c].stage = stg

\* Call c goes on as call: from now on the others are not alone.
Set(c, call) ==
    calls' = [x \in Callers |-> IF x = c THEN call ELSE [calls[x] EXCEPT !.solo = FALSE]]

\* getMonitorJSON: whether a question is answered.
Replies == IF monitor THEN BOOLEAN ELSE {FALSE}

-----------------------------------------------------------------------------
(* The configuration files, as thread t leaves them.                       *)

\* The files became conf; if any was written or removed, the flag is set.
Changed(f, t, conf, any) ==
    [f EXCEPT !.conf = conf,
              !.loaded = @ /\ ~any,
              !.needsReload[t] = @ \/ any]

\* appSaveNginxConfigPath.  A file that exists is written again if the plan,
\* the addresses or the domain's fields have changed (other) what is in it.
Save(f, t, ds, other) ==
    Changed(f, t, f.conf \cup ds, ~(ds \subseteq f.conf) \/ (other /\ ds # {}))

\* Mutant: the flag is set when there is nothing to remove.
RemoveInverted(f, t, ds) ==
    [Changed(f, t, f.conf \ ds, ds \cap f.conf # {})
       EXCEPT !.needsReload[t] = f.needsReload[t] \/ ds \cap f.conf = {}]

\* appRemoveNginxConfigPath, removeAllConfigs
Remove(f, t, ds) == Changed(f, t, f.conf \ ds, ds \cap f.conf # {})

\* nginx.reload(true): nothing is done without need or without nginx, and a
\* configuration nginx refuses leaves the flag.
Reload(f, t, ok) ==
    IF f.needsReload[t] /\ nginx /\ ok
    THEN [f EXCEPT !.loaded = TRUE, !.needsReload[t] = FALSE, !.forgot = FALSE]
    ELSE f

ReloadFails(f, t, ok) == f.needsReload[t] /\ nginx /\ ~ok

\* The end of a process takes the flags of its threads ts along.
Forgotten(f, ts) ==
    [f EXCEPT !.forgot = @ \/ \E t \in ts : f.needsReload[t],
              !.needsReload = [t \in Threads |-> f.needsReload[t] /\ t \notin ts]]

\* An exception nobody catches ends the process, index.js:20-23.
PanelExits(f) ==
    /\ panel' = FALSE
    /\ files' = Forgotten(f, {"panel", "scheduler"})
    /\ calls' = [c \in Callers |-> IF calls[c].thread = "shell" THEN calls[c] ELSE NoCall]
    /\ UNCHANGED <<domains, enabled, suspended>>

-----------------------------------------------------------------------------
(* The callbacks.                                                          *)

\* What appGetStartCommand asks of the database.
MayStart(d) == d \in domains /\ PlanOf[d] \notin suspended

\* Mutant: the domain is not looked for again.
ButtonCallbackUnchecked(c, call, err, f) ==
    /\ enabled' = IF call.op = "start" THEN enabled \cup call.ds ELSE enabled \ call.ds
    /\ files' = f
    /\ Set(c, [call EXCEPT !.stage = "status", !.err = err])
    /\ UNCHANGED <<domains, suspended, panel>>

\* methods.appStartStop: the operation asked for is stored, then the monitor
\* is asked once more.  A domain that is gone by now raises a TypeError, which
\* getMonitorJSON answers by calling its callback a second time: nobody
\* catches the second one.
ButtonCallback(c, call, err, f) ==
    LET d == CHOOSE x \in call.ds : TRUE IN
    IF d \in domains
    THEN /\ enabled' = IF call.op = "start" THEN enabled \cup {d} ELSE enabled \ {d}
         /\ files' = f
         /\ Set(c, [call EXCEPT !.stage = "status", !.err = err])
         /\ UNCHANGED <<domains, suspended, panel>>
    ELSE PanelExits(f)

\* The domain form: appRestart, then the file once more if the log or the
\* certificate changed.
EditCallback(c, call, err, f) ==
    LET d == CHOOSE x \in call.ds : TRUE IN
    /\ UNCHANGED <<db, panel>>
    /\ \/ /\ call.op = "stop" /\ call.seen /\ ~err
          /\ IF MayStart(d)
             THEN /\ \E other \in BOOLEAN : files' = Save(f, "panel", {d}, other)
                  /\ Set(c, NewCall("start", "edit", {d}, "panel"))
             ELSE /\ files' = f
                  /\ Set(c, Ended(TRUE))
       \/ /\ call.op = "start" \/ ~call.seen \/ err
          /\ \E save, ok, other \in BOOLEAN :
                files' = IF save /\ ~err /\ d \in domains
                         THEN Reload(Save(f, "panel", {d}, other), "panel", ok) ELSE f
          /\ Set(c, Ended(err))

SingleCallback(c, call, err, f) ==
    \/ call.for = "button" /\ ButtonCallback(c, call, err, f)
    \/ call.for = "edit" /\ EditCallback(c, call, err, f)

\* appStopMultiple's: a removal may go on to remove directories, which the
\* model leaves out.  The command updates nginx's default files without a
\* reload, and ends.
ManyCallback(c, call, f) ==
    /\ IF call.for = "fix"
       THEN \E changed \in BOOLEAN :
               files' = Forgotten([f EXCEPT !.loaded = @ /\ ~changed,
                                            !.forgot = @ \/ changed], {"shell"})
       ELSE files' = f
    /\ Set(c, Ended(FALSE))
    /\ UNCHANGED <<db, panel>>

\* monitorStartStop's: the form jxconfig starts what it stopped.
MonitorCallback(c, call, err) ==
    /\ Set(c, IF call.for = "config" /\ call.op = "monitorStop" /\ ~err
              THEN NewCall("monitorStart", "config", {}, "panel")
              ELSE Ended(err))
    /\ UNCHANGED <<db, panel>>

-----------------------------------------------------------------------------
(* Requests.                                                               *)

\* A button is refused for reasons the model does not follow (no JXcore, no
\* address, application not installed): the operation asked for is stored all the same.
ButtonRefused(c, op, d) ==
    /\ enabled' = IF op = "start" THEN enabled \cup {d} ELSE enabled \ {d}
    /\ Set(c, [NewCall(op, "button", {d}, "panel") EXCEPT !.stage = "status", !.err = TRUE])
    /\ UNCHANGED files

\* The button Start, refused for a suspended plan too.
ButtonStart(c, d) ==
    /\ panel /\ Free(c, "button") /\ d \in domains
    /\ \/ /\ MayStart(d)
          /\ \E other \in BOOLEAN : files' = Save(files, "panel", {d}, other)
          /\ Set(c, NewCall("start", "button", {d}, "panel"))
          /\ UNCHANGED enabled
       \/ ButtonRefused(c, "start", d)
    /\ UNCHANGED <<domains, suspended, apps, nginx, panel>>

ButtonStop(c, d) ==
    /\ panel /\ Free(c, "button") /\ d \in domains
    /\ \/ /\ Set(c, NewCall("stop", "button", {d}, "panel"))
          /\ UNCHANGED <<enabled, files>>
       \/ ButtonRefused(c, "stop", d)
    /\ UNCHANGED <<domains, suspended, apps, nginx, panel>>

\* The domain form, when it changes what needs a restart.
EditDomain(c, d) ==
    /\ panel /\ Free(c, "edit") /\ d \in domains
    /\ Set(c, NewCall("stop", "edit", {d}, "panel"))
    /\ UNCHANGED <<db, apps, nginx, files, panel>>

\* A new domain, from the form.
AddDomain(d) ==
    /\ panel /\ d \notin domains
    /\ domains' = domains \cup {d}
    /\ UNCHANGED <<enabled, suspended, apps, nginx, files, panel, calls>>

\* datatables.remove for domains, or for a plan with its users' domains.
RemoveDomains(c, ds) ==
    /\ panel /\ Free(c, "remove") /\ ds # {} /\ ds \subseteq domains
    /\ domains' = domains \ ds
    /\ enabled' = enabled \ ds
    /\ Set(c, NewCall("stopMany", "remove", ds, "panel"))
    /\ UNCHANGED <<suspended, apps, nginx, files, panel>>

\* datatables.remove for a user without sub-plans: deleteUser's result names
\* no domains, so nothing is stopped.
RemoveUser(ds) ==
    /\ panel /\ ds # {} /\ ds \subseteq domains
    /\ domains' = domains \ ds
    /\ enabled' = enabled \ ds
    /\ UNCHANGED <<suspended, apps, nginx, files, panel, calls>>

\* SuspendPlan, through database.OnSuspend.
SuspendPlan(c, p, t) ==
    LET ds == {d \in domains : PlanOf[d] = p} IN
    /\ panel /\ Free(c, "suspend")
    /\ suspended' = suspended \cup {p}
    /\ IF ds = {} THEN UNCHANGED calls
       ELSE Set(c, NewCall("stopMany", "suspend", ds, t))
    /\ UNCHANGED <<domains, enabled, apps, nginx, files, panel>>

UnSuspendPlan(p) ==
    /\ panel /\ p \in suspended
    /\ suspended' = suspended \ {p}
    /\ UNCHANGED <<domains, enabled, apps, nginx, files, panel, calls>>

\* The plan form restarts the plan's applications.
EditPlan(c, p) ==
    LET ds == {d \in domains : PlanOf[d] = p} IN
    /\ panel /\ Free(c, "plan") /\ ds # {}
    /\ Set(c, NewCall("restartMany", "plan", ds, "panel"))
    /\ UNCHANGED <<db, apps, nginx, files, panel>>

\* The buttons of the monitor, and the form jxconfig.
MonitorRequest(c, op, for) ==
    /\ panel /\ Free(c, for)
    /\ Set(c, NewCall(op, for, {}, "panel"))
    /\ UNCHANGED <<db, apps, nginx, files, panel>>

\* jx index nginx fix config, one at a time: stops the applications of the
\* domains whose addresses the host no longer has.
FixConfig(c, ds) ==
    /\ Free(c, "fix") /\ ds # {} /\ ds \subseteq domains
    /\ \A x \in Callers : calls[x].thread # "shell"
    /\ Set(c, NewCall("stopMany", "fix", ds, "shell"))
    /\ UNCHANGED <<db, apps, nginx, files, panel>>

-----------------------------------------------------------------------------
(* The monitor answers, the commands run, the monitor answers again.       *)

\* appStartStop, its first question.  Without an answer nothing is done, and
\* that is no error.
AskedSingle(c) ==
    /\ At(c, "asked") /\ calls[c].op \in {"start", "stop"}
    /\ UNCHANGED <<apps, nginx>>
    /\ \E heard \in Replies :
          LET seen == heard /\ calls[c].ds \subseteq running
              call == [calls[c] EXCEPT !.seen = seen, !.heard = heard]
          IN  IF ~heard \/ seen = (call.op = "start")
              THEN SingleCallback(c, call, FALSE, files)
              ELSE /\ Set(c, [call EXCEPT !.stage = "exec"])
                   /\ UNCHANGED <<db, files, panel>>

\* Its command.  A launched application is listed some time later, or never.
ExecSingle(c) ==
    LET ds == calls[c].ds IN
    /\ At(c, "exec") /\ calls[c].op \in {"start", "stop"}
    /\ Set(c, [calls[c] EXCEPT !.stage = "check"])
    /\ \/ UNCHANGED <<running, starting>>
       \/ /\ calls[c].op = "start" /\ monitor
          /\ starting' = starting \cup (ds \ running)
          /\ UNCHANGED running
       \/ /\ calls[c].op = "stop"
          /\ running' = running \ ds
          /\ UNCHANGED starting
    /\ UNCHANGED <<db, monitor, nginx, files, panel>>

\* Mutant: a stop leaves the configuration.
CheckSingleKeepsFile(c) ==
    /\ At(c, "check") /\ calls[c].op \in {"start", "stop"}
    /\ UNCHANGED <<apps, nginx>>
    /\ \E heard \in Replies, ok \in BOOLEAN :
          LET call == [calls[c] EXCEPT !.heard = heard]
              err  == (heard /\ call.ds \subseteq running) = call.seen
          IN  SingleCallback(c, call, err \/ ReloadFails(files, "panel", ok),
                             Reload(files, "panel", ok))

\* Its second question, after 4 seconds or 10 milliseconds.  An application as
\* it was before is an error; without an answer it counts as stopped.
CheckSingle(c) ==
    /\ At(c, "check") /\ calls[c].op \in {"start", "stop"}
    /\ UNCHANGED <<apps, nginx>>
    /\ \E heard \in Replies :
          LET call == [calls[c] EXCEPT !.heard = heard]
              err  == (heard /\ call.ds \subseteq running) = call.seen
              kept == IF err \/ call.op = "stop"
                      THEN Remove(files, "panel", call.ds) ELSE files
          IN  IF err
              THEN SingleCallback(c, call, TRUE, kept)
              ELSE \E ok \in BOOLEAN :
                      SingleCallback(c, call, ReloadFails(kept, "panel", ok),
                                     Reload(kept, "panel", ok))

\* The button's last question is for the status it shows: it fails with the
\* question.  A domain that is gone raises the TypeError again.
AnswerButton(c) ==
    /\ At(c, "status")
    /\ IF calls[c].ds \subseteq domains
       THEN /\ \E heard \in Replies : Set(c, Ended(calls[c].err \/ ~heard))
            /\ UNCHANGED <<db, files, panel>>
       ELSE PanelExits(files)
    /\ UNCHANGED <<apps, nginx>>

\* appStopMultiple.  One application that is not running makes it call a
\* function that does not exist; getMonitorJSON catches that and calls the
\* callback again as if the question had failed.
AskedMany(c) ==
    LET call == calls[c] IN
    /\ At(c, "asked") /\ call.op = "stopMany"
    /\ UNCHANGED <<apps, nginx>>
    /\ \E heard \in Replies :
          IF heard /\ call.ds \subseteq running
          THEN /\ Set(c, [call EXCEPT !.stage = "exec", !.todo = call.ds])
               /\ UNCHANGED <<db, files, panel>>
          ELSE ManyCallback(c, call, Remove(files, call.thread, call.ds))

\* Mutant: a command that fails is not counted as done.
KillOneOrWait(c, d) ==
    LET todo == calls[c].todo \ {d} IN
    /\ At(c, "exec") /\ d \in calls[c].todo /\ calls[c].op = "stopMany"
    /\ ~calls[c].err
    /\ \/ /\ running' = running \ {d}
          /\ Set(c, [calls[c] EXCEPT !.todo = todo,
                                     !.stage = IF todo = {} THEN "check" ELSE @])
       \/ Set(c, [calls[c] EXCEPT !.err = TRUE]) /\ UNCHANGED running
    /\ UNCHANGED <<db, monitor, starting, nginx, files, panel>>

\* runMultipleComands waits for all.
KillOne(c, d) ==
    LET todo == calls[c].todo \ {d} IN
    /\ At(c, "exec") /\ d \in calls[c].todo /\ calls[c].op = "stopMany"
    /\ Set(c, [calls[c] EXCEPT !.todo = todo,
                               !.stage = IF todo = {} THEN "check" ELSE @])
    /\ running' = running \ {d} \/ UNCHANGED running
    /\ UNCHANGED <<db, monitor, starting, nginx, files, panel>>

\* What is still running is looked up under a wrong key and never found; a
\* question that fails raises a TypeError.
CheckMany(c) ==
    LET call == calls[c] IN
    /\ At(c, "check") /\ call.op = "stopMany"
    /\ UNCHANGED <<apps, nginx>>
    /\ \E heard \in Replies :
          IF heard THEN ManyCallback(c, call, Remove(files, call.thread, call.ds))
          ELSE IF call.thread = "panel" THEN PanelExits(files)
          ELSE /\ Set(c, Ended(TRUE))
               /\ files' = IF call.for = "fix" THEN Forgotten(files, {"shell"}) ELSE files
               /\ UNCHANGED <<db, panel>>

\* appRestartMultiple: kills the processes, the monitor starts them again.
\* The files of all the plan's domains are written, also of those that do
\* not run.
AskedRestart(c) ==
    LET call == calls[c] IN
    /\ At(c, "asked") /\ call.op = "restartMany"
    /\ Set(c, Ended(FALSE))
    /\ \E heard \in Replies, refused \in SUBSET call.ds, ok, other \in BOOLEAN :
          LET ds == {d \in call.ds \ refused : MayStart(d)} IN
          IF ~heard \/ running = {} \/ ds = {}
          THEN UNCHANGED <<running, starting, files>>
          ELSE /\ files' = Reload(Save(files, "panel", ds, other), "panel", ok)
               /\ running' = running \ ds
               /\ starting' = starting \cup (ds \cap running)
    /\ UNCHANGED <<db, monitor, nginx, panel>>

\* monitorStartStop, its first question.  Without an answer the monitor is
\* taken to be down, although applications may run.
AskedMonitor(c) ==
    LET call == calls[c] IN
    /\ At(c, "asked") /\ call.op \in {"monitorStart", "monitorStop"}
    /\ UNCHANGED <<apps, nginx, files>>
    /\ \E heard \in Replies :
          IF heard = (call.op = "monitorStart")
          THEN MonitorCallback(c, call, FALSE)
          ELSE /\ Set(c, [call EXCEPT !.stage = "exec",
                                     !.older = IF heard THEN {} ELSE running \cup starting])
               /\ UNCHANGED <<db, panel>>

\* Its command; a stopped monitor ends its applications.
ExecMonitor(c) ==
    LET call == calls[c] IN
    /\ At(c, "exec") /\ call.op \in {"monitorStart", "monitorStop"}
    /\ Set(c, [call EXCEPT !.stage = "check"])
    /\ \/ UNCHANGED apps
       \/ /\ call.op = "monitorStart"
          /\ monitor' = TRUE
          /\ UNCHANGED <<running, starting>>
       \/ /\ call.op = "monitorStop"
          /\ monitor' = FALSE
          /\ running' = {} /\ starting' = {}
    /\ UNCHANGED <<db, nginx, files, panel>>

\* The end of appStartEnabledApplications.
Launched(c, call, f) ==
    /\ \E ok \in BOOLEAN : files' = Reload(f, "panel", ok)
    /\ MonitorCallback(c, call, call.err)

\* Mutant: the old files are removed after the new ones were written.
CheckMonitorRemovesLate(c) ==
    /\ At(c, "check") /\ calls[c].op \in {"monitorStart", "monitorStop"}
    /\ UNCHANGED <<apps, nginx>>
    /\ \E heard \in Replies :
          LET ds   == {d \in enabled : PlanOf[d] \notin suspended}
              f    == Remove(files, "panel", files.conf)
              next == [calls[c] EXCEPT !.stage = "launch", !.todo = ds, !.err = ~heard]
          IN  IF next.op = "monitorStop"
              THEN MonitorCallback(c, next, FALSE) /\ UNCHANGED files
              ELSE IF ds = {} THEN Launched(c, next, f)
              ELSE Set(c, next) /\ files' = f /\ UNCHANGED <<db, panel>>

\* Its second question.  A stop that failed is noticed only if the monitor
\* gives the very same answer.  After a start, failed or not, all files are
\* removed and the enabled applications are launched; some are refused.
CheckMonitor(c) ==
    LET call == calls[c] IN
    /\ At(c, "check") /\ call.op \in {"monitorStart", "monitorStop"}
    /\ UNCHANGED <<apps, nginx>>
    /\ \E heard \in Replies :
       IF call.op = "monitorStop"
       THEN /\ \E same \in BOOLEAN : MonitorCallback(c, call, heard /\ same)
            /\ UNCHANGED files
       ELSE \E refused \in SUBSET DomainNames :
            LET ds   == {d \in enabled \ refused : PlanOf[d] \notin suspended}
                f    == Save(Remove(files, "panel", files.conf), "panel", ds, TRUE)
                next == [call EXCEPT !.stage = "launch", !.todo = ds, !.err = ~heard]
            IN  IF ds = {} THEN Launched(c, next, f)
                ELSE /\ Set(c, next)
                     /\ files' = f
                     /\ UNCHANGED <<db, panel>>

LaunchOne(c, d) ==
    /\ At(c, "launch") /\ d \in calls[c].todo
    /\ Set(c, [calls[c] EXCEPT !.todo = @ \ {d}])
    /\ IF monitor
       THEN starting' = starting \cup ({d} \ running) \/ UNCHANGED starting
       ELSE UNCHANGED starting
    /\ UNCHANGED <<db, monitor, running, nginx, files, panel>>

LaunchAll(c) ==
    /\ At(c, "launch") /\ calls[c].todo = {}
    /\ Launched(c, calls[c], files)
    /\ UNCHANGED <<apps, nginx>>

-----------------------------------------------------------------------------
(* Surroundings: applications, the administrator's shell, a new start.     *)

AppListed(d) ==
    /\ d \in starting
    /\ starting' = starting \ {d} /\ running' = running \cup {d}
    /\ UNCHANGED <<db, monitor, nginx, files, panel, calls>>

AppGivesUp(d) ==
    /\ d \in starting
    /\ starting' = starting \ {d}
    /\ UNCHANGED <<db, monitor, running, nginx, files, panel, calls>>

\* The monitor restarts an application that crashes.
AppCrashes(d) ==
    /\ d \in running
    /\ running' = running \ {d} /\ starting' = starting \cup {d}
    /\ UNCHANGED <<db, monitor, nginx, files, panel, calls>>

MonitorByHand ==
    /\ monitor' = ~monitor
    /\ running' = {} /\ starting' = {}
    /\ UNCHANGED <<db, nginx, files, panel, calls>>

\* jx index nginx stop
NginxStop ==
    /\ nginx /\ nginx' = FALSE
    /\ UNCHANGED <<db, apps, files, panel, calls>>

\* jx index nginx start, reload: the shell's process has a flag of its own.
NginxByHand ==
    /\ nginx' = TRUE
    /\ files' = [files EXCEPT !.loaded = TRUE, !.forgot = FALSE]
    /\ UNCHANGED <<db, apps, panel, calls>>

\* index.js:262-292.  If the monitor answers, nginx is left as it is.
PanelStarts ==
    /\ ~panel /\ panel' = TRUE
    /\ \E heard \in Replies :
          IF heard THEN UNCHANGED <<files, nginx>>
          ELSE /\ nginx' = TRUE
               /\ files' = [Remove(files, "panel", files.conf)
                              EXCEPT !.loaded = TRUE, !.forgot = FALSE]
    /\ UNCHANGED <<db, apps, calls>>

-----------------------------------------------------------------------------

CallStep(c) ==
    \/ AskedSingle(c) \/ ExecSingle(c) \/ CheckSingle(c) \/ AnswerButton(c)
    \/ AskedMany(c) \/ (\E d \in DomainNames : KillOne(c, d)) \/ CheckMany(c)
    \/ AskedRestart(c)
    \/ AskedMonitor(c) \/ ExecMonitor(c) \/ CheckMonitor(c)
    \/ (\E d \in DomainNames : LaunchOne(c, d)) \/ LaunchAll(c)

Request ==
    \/ \E c \in Callers, d \in DomainNames :
          ButtonStart(c, d) \/ ButtonStop(c, d) \/ EditDomain(c, d)
    \/ \E d \in DomainNames : AddDomain(d)
    \/ \E c \in Callers, ds \in SUBSET DomainNames :
          RemoveDomains(c, ds) \/ FixConfig(c, ds)
    \/ \E ds \in SUBSET DomainNames : RemoveUser(ds)
    \/ \E c \in Callers, p \in PlanNames, t \in {"panel", "scheduler"} :
          SuspendPlan(c, p, t)
    \/ \E p \in PlanNames : UnSuspendPlan(p)
    \/ \E c \in Callers, p \in PlanNames : EditPlan(c, p)
    \/ \E c \in Callers :
          \/ MonitorRequest(c, "monitorStart", "nobody")
          \/ MonitorRequest(c, "monitorStop", "nobody")
          \/ MonitorRequest(c, "monitorStop", "config")

Surroundings ==
    \/ \E d \in DomainNames : AppListed(d) \/ AppGivesUp(d) \/ AppCrashes(d)
    \/ MonitorByHand \/ NginxStop \/ NginxByHand \/ PanelStarts

Next == (\E c \in Callers : CallStep(c)) \/ Request \/ Surroundings

Spec == Init /\ [][Next]_vars

\* The monitor's port on the local host answers or refuses, and the commands
\* end: every call in progress goes on.
FairSpec == Spec /\ \A c \in Callers : WF_vars(CallStep(c))

-----------------------------------------------------------------------------
(* Properties.                                                             *)

\* A change of nginx's files that nginx has not loaded is remembered: by the
\* flag of a thread, or it was lost when a process ended.  The flag is set
\* and cleared at a dozen places of hosting_tools.js and nginx.js.
ReloadPending ==
    nginx /\ ~files.loaded =>
        files.forgot \/ \E t \in Threads : files.needsReload[t]

\* Call c ends in this step without an error.
Succeeds(c) == calls[c].stage # "done" /\ calls'[c].stage = "done"
                  /\ panel' /\ ~calls'[c].err

\* appStartStop tells the button in this step that there was no error.
Reports(c) == calls[c].stage \notin {"done", "status"}
                 /\ calls'[c].stage = "status" /\ ~calls'[c].err

\* What appStartStop says without an error, at whichever of its ends
\* (hosting_tools.js:425-476) and beside whatever other calls.  If its last
\* question was answered, a started application is listed and a stopped one is
\* not.  After the second question a stopped one has no configuration, and
\* nginx has loaded what the panel changed.  A started one has its
\* configuration, unless another call came between.
AnswerTrue ==
    [][\A c \in Callers : Reports(c) =>
        LET call == calls[c] IN
        /\ calls'[c].heard => (call.op = "start" <=> call.ds \subseteq running')
        /\ call.stage = "check" /\ call.op = "stop" => call.ds \cap files'.conf = {}
        /\ call.stage = "check" /\ nginx => ~files'.needsReload["panel"]
        /\ call.op = "start" /\ calls'[c].solo => call.ds \subseteq files'.conf]_vars

\* "starts all not-suspended and not-disabled user apps" (hosting_tools.js
\* 798): the start of the monitor first removes every configuration; when it
\* is through, and no other call came between, an application without one
\* can only have run since before: the first question had failed with the
\* monitor up (hosting_tools.js:836-837).
MonitorStartTakesOver ==
    [][\A c \in Callers :
        Succeeds(c) /\ calls[c].op = "monitorStart" /\ calls[c].stage # "asked"
          /\ calls[c].solo =>
            (running' \cup starting') \ calls[c].older \subseteq files'.conf]_vars

\* Every call ends: no path of hosting_tools.js forgets its callback.
Answered ==
    \A c \in Callers : calls[c].stage # "done" ~> calls[c].stage = "done"

\* "suspending user or plan should perform stopping an app only for this
\* user/plan" (notes.markdown:45): when the call a suspension makes ends
\* without an error, none of the plan's applications runs.
SuspendedStopped ==
    [][\A c \in Callers : Succeeds(c) /\ calls[c].for = "suspend" =>
        calls[c].ds \cap running' = {}]_vars
=============================================================================
