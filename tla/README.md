# JXPanel: a verification project

JXPanel is a hosting control panel that runs on JXcore, a multithreaded Node.js.
Administrators create *hosting plans*, *users* and *domains*; behind every domain
runs one application, started by the JXcore monitor through a spawner process and
reached through nginx. This directory holds TLA+ models of the panel's own code
(`src/app`) and of the part of the nginx in `src/tools` that the panel starts, reloads
and stops, the TLC configurations that check them on small instances, and theorems
about them that TLAPS checks for every value of the constants.

`PROJECT.json` is the index: it maps every definition to the lines it models, lists
the runs with their properties, a plausible bug for every property (the operators
marked "Mutant" in the modules), the hazards of the code and the findings.

- [1 Inventory](#1-inventory)
- [2 Modules](#2-modules)
- [3 Runs](#3-runs)
- [4 Findings](#4-findings)
- [5 Proofs](#5-proofs)
- [6 What is not modelled](#6-what-is-not-modelled)
- [7 Plan](#7-plan)

## 1 Inventory

### How the parts run

One process holds the panel: its main thread serves pages and forms, a second
thread (`definitions/scheduler`) does periodic jobs. JXcore gives each thread its
own copy of every JavaScript module, so module variables (the database, nginx's
flag, the lists of `ftp.js`) exist once **per thread**. The threads exchange
messages (`reloadDB`, `clearUser`) and a shared store (`jxcore.store.shared`) with
the sessions' time stamps. A command of the administrator's shell (`jx index ...`)
is another process with copies of its own. Outside there are the JXcore monitor,
one spawner process per hosted application, nginx, the FTP server and SQLite.

Within a thread a handler runs undisturbed between two callbacks. What is hard is
between them: calls to the monitor that take seconds, commands that run in parallel
and are counted, three copies of one database, flags that stand for a difference
between a file and what another process has loaded, a process that ends at any
uncaught exception (`index.js:20`).

### The parts

| Part (source under `src/app` unless named) | State | Operations | What makes it correct |
|---|---|---|---|
| **Hosting database** `install/database.js` | `Plans`, `Users`, `Domains`: a forest in which users own sub-plans and plans list users; maxima and suspension reasons of each plan | add, remove, edit, move, suspend, unsuspend; limits asked upwards, counts taken downwards | the lists are one tree; nothing names a deleted record; walks end; no limit above is exceeded; a suspension lasts as long as its cause |
| **Port allocation** `hosting_tools.js`, `definitions/validations.js`, `definitions/forms/jxconfig.js` | each domain's http and https port, its list of ports; range and number per domain | new domain, removal, new range or number with renumbering | no port twice; every port in the range; what the validations admit finds its ports |
| **Hosted applications** `hosting_tools.js` and its callers in `rendering/` | `jx_enabled`, what the monitor lists, nginx's files, the directories | start, stop, restart, of one or many; the monitor; suspend, edit, remove | true answers; files and what runs agree; a change of the files is not forgotten; every call is answered |
| **Nginx control** `install/nginx.js` | a flag `needsReload` per thread | reload, start, stop | the flag is set as long as nginx has not loaded a change |
| **Nginx master and workers** `src/tools/nginx/src/os/unix/ngx_process_cycle.c`, `ngx_process.c`, `core/nginx.c` | the master's flags, its table of children, the number of the configuration in force; what each worker was told | signals handled in one pass of a loop: reload, stop, upgrade of the binary; reaping and respawn; a worker's start, retreat and death | one configuration in force, at full strength; old workers are told and go; a stop ends and leaves nobody |
| **Nginx shared mutex** `src/tools/nginx/src/core/ngx_shmtx.c` | a lock word with the owner's process id, a count of waiters, a semaphore | lock, unlock, wake-up; the master unlocks for a dead worker | one owner; no wake-up lost; a dead owner's lock comes free |
| **Database file** `install/sqlite2.js`, ends of `database.js`, `index.js`, the quota job | the file, a copy of all of it per party, a marker file, a message | read everything, write everything, both queued | a change is not lost; everyone comes to know it |
| **FTP access** `install/ftp.js` | the list of allowed users, the text of the configuration in memory, the file, the database's field | allow, deny, on forms and on the command line | the file admits those with the field set |
| **Sessions** `definitions/active_user.js`, `definitions/scheduler/user_sessions.js` | users by session id, the table of ids given to the other thread, time stamps in the shared store, messages | login, touch, logout, time-out, removal and take-over of accounts | who has a record is watched and has an account; a time-out does not meet a session that is gone; an idle session ends |
| **Form sessions** `rendering/form_*.js`, `rendering/datatable_templates.js` | the record under edit, the control names, per session and page | open, apply, cancel, from several browser tabs | a form changes the record it shows |
| **Spawner** `spawner/` | the child's process, its watch on the directory, its log | start, restart on a change, end | one child; a change restarts it |
| **Terminal** `definitions/terminal.js` | a shell process per session, with a handler for its exit | open, reconnect, kill, exit | no shell outlives its session unattended; input goes to no shell of the past |
| **Add-ons** `addons_tools.js` | loaded add-ons and their hooks | load, install, remove, emit | a removed add-on is called no more |
| **Third-party applications** `rendering/apps_tools.js` | one installation per domain | install, cancel | one at a time per domain |
| **Installation** `install/install.js`, `system_tools.js` | directories, system users | install, uninstall | the order of steps |
| **User directories** `definitions/user_folders.js` | a home directory per user, under its plan's | create, move, remove | a directory is where the database says |
| **Validations, addresses** `definitions/validations.js`, `ip_tools.js` | none | pure checks | agree with their documents |

The rest produces texts and HTML from the state above (menus, tables, help,
languages, charts), transfers files (downloads), or is not the panel's own code
(the Plesk service, the MongoDB add-on, vendored servers and browser libraries).

### How they interact

- A form of `rendering/form_methods.js` changes the *hosting database* and calls
  *hosted applications*, *FTP access*, *port allocation* and *user directories*.
- Every change of the database queues a write of all of it to the *database file*.
- *Hosted applications* writes nginx's files, sets the flag of the *nginx process*,
  and starts *spawners* through the monitor.
- The *scheduler* reads the database file, suspends users over their disk quota,
  which stops their *hosted applications*, and sends `reloadDB`; it also times out
  *sessions* and sends `clearUser`.
- Removing an account signs its *sessions* out and ends their *terminals*, after the
  applications have been stopped.
- The *nginx control* runs `nginx -s reload` and `nginx -s stop`, which send HUP and TERM
  to the *nginx master*, which starts and tells
  its workers; these share memory under the *mutex*.
- The shell changes FTP access and addresses in the database file and leaves the
  marker that makes the panel read it.

### Hazards

The list "hazards" of `PROJECT.json` names the lines where each of these bites:
orders of callbacks nobody tested, the copy that is stale when used, one step of
several that fails, the process that ends in between, limits asked at the wrong
level or the wrong time, checks that use a value just being replaced. The properties
below were chosen from that list. Section 4 has the hazards of lesser weight.

## 2 Modules

| Module | Models | Used by |
|---|---|---|
| `HostingTree` | the hosting database in memory | `MCHostingTree`, `HostingTree_proofs` |
| `PortAllocation` | the ports of the domains | `MCPortAllocation`, `PortAllocation_proofs` |
| `HostedApps` | calls that start and stop applications, the configuration of nginx, the monitor | `MCHostedApps`, `HostedApps_proofs` |
| `SharedDatabase` | the database file and its three copies | `MCSharedDatabase`, `SharedDatabase_proofs` |
| `FtpAccess` | the list of users the FTP server admits | `MCFtpAccess`, `FtpAccess_proofs` |
| `Sessions` | who is signed in, the scheduler's thread, the terminals | `MCSessions`, `Sessions_proofs` |
| `NginxService` | what the panel relies on when it tells nginx to reload or stop (abstract) | `NginxCycle` |
| `NginxCycle` | the master of nginx and its workers, an implementation of `NginxService` | `MCNginxCycle`, `NginxCycle_proofs` |
| `SharedMutex` | the mutex the workers share | `SharedMutex_proofs` and a configuration of its own |

The modules `MC*` give the constants values and symmetry sets, the `.cfg` files choose
the specification and the properties.

### HostingTree

*State.* `Plans`, `Users`, `Domains` are the three maps of the object `DB`, functions
from the existing names to records that keep the fields the operations read: `owner`,
`users`, the two counts, `planMaximums` and the suspension reasons of a plan; `plan`,
`subPlans`, `domains` of a user; `owner` of a domain. Names are model values.

*Actions.* `FirstLogin` is the creation of Unlimited and the first user
(`active_user.js`); `AddPlan`, `AddUser`, `AddDomain`, `DeletePlan`, `DeleteUser`,
`DeleteDomain`, `UpdatePlan`, `UpdatePlanRefused` and `UpdateUser` are the functions of
`database.js` as the forms call them, with the checks of the form; `QuotaSuspend` and
`QuotaUnSuspend` the decisions of the quota job. Each is one step: a handler runs in
one thread and touches the database between two callbacks. `MoveSomeUser` is kept
apart because `notes.markdown` lists "switching plan for the user!" as unfinished:
`SpecNoMoves` is the program without it, `Spec` with it.

*Walks.* The code walks the tree by recursion. On a finite tree such a walk visits the
least closed set, so `UsersBelow`, `ActiveUsers` and `Ancestors` are defined as such
sets and no operator is recursive, which keeps the module open to proof. Whether the
walk towards the top *ends* is a question of its own: `WalkEnds`.

### PortAllocation

*State.* `Domains`: the two ports and the list of ports of each domain; `Config`: the
range, the number per domain, and whether that number has come from the form, because
then it is a **string** and `+` joins digits (`validations.js:254`).

*Actions.* `AddDomain` with the validation and the handler's own search, `RemoveDomain`,
`ApplyConfig` with the two validations of the range and the renumbering
`setPortRange`. The order in which domains are renumbered is that of a JavaScript
object's keys: any bijection `Ranks`. The unit is the port number itself; the digits of
the string sum are computed by what they are worth (`needed`).

### HostedApps

*State.* `domains`, `enabled`, `suspended` (the part of the database concerned), what
the monitor lists (`running`) and what is launched but not listed (`starting`),
`files`: nginx's configuration, whether nginx has loaded it as it is, and the flag of
each thread, the process of a command in the shell counting as one; `panel` and `nginx`:
the processes; `calls`: the calls in progress. What the code does not keep and the
properties need is history: `files.forgot`, a flag was lost with its process or a change
made without one; in a call, `heard`: its last question was answered, `solo`: no other call
has taken a step since it began, `older`: what ran when a start of the monitor took it to
be down.

*Actions.* A call is a record with a `stage`; each action is one callback of
`appStartStop`, `appStopMultiple`, `appRestartMultiple` or `monitorStartStop`: the
answer of the monitor before (`Asked...`), the end of a command (`Exec...`, `KillOne`,
`LaunchOne`), the answer after (`Check...`, `LaunchAll`), with the callback of the
caller (`ButtonCallback`, `EditCallback`, `ManyCallback` ...) as part of the same step,
as it is in the code. Any question to the monitor may fail although the monitor is up
(`Replies`): each of these actions has the code's branch for it. The button has a third
question, for the status it shows (`AnswerButton`). `Request` starts a call, `FixConfig`
that of the command `jx index nginx fix config`, which stops applications from the shell;
`Surroundings` is what others do: an application is listed, gives up, crashes; the
monitor and nginx are stopped or started by hand; the panel's process starts again
after an exception ended it (`PanelExits`).

### SharedDatabase

*State.* `file`, the `copy` of each party, the `writes` and `reads` under way, the
`marker` file with the two half-done steps around it (`marking`: written after the
write's callback; `unlinking`: removed after the read was queued), the `message`
from the scheduler. A database is the set of changes made so far, the suspension of a
user over the quota being one that comes and goes: enough to tell whether a change is
there, was lost or has come back.

*Actions.* A read takes all of the file, a write puts all of the copy. They are queued
(`Queue`, `AskFor`) and run later in any order, because `sqlite2.js` opens the file
without `serialize`; any of them may fail (`WriteFails`, `ReadFails`, value `Undefined`). A
panel whose read fails keeps its copy and nobody reads again (a panel that starts ends), a
job goes on with the copy it has, a command throws. `JobStarts` and `JobReads` are the
quota job, `CommandStarts`, `CommandReads`, `CommandMarks` and `CommandDies` a command,
`PageSeesMarker` and `PageRemovesMarker` the two halves of `reloadIfNeeded`. The history
`missed` says that the last note for the panel came to nothing.

### FtpAccess

*State.* `access`, the field in the database; `list` and `known`, the list of users and
the text in the panel's memory; `file`; `loaded` and `server`, what the FTP server has
read and whether it is up. The text is abstracted to the set of users it allows.

*Actions.* `ApplyUser` and `ApplyOwn` are the user form, for another user and for the
own profile (whose read-only fields are not submitted), `RemoveUser`, `Shell` the
command line's `ftp allow` and `ftp deny`, which run in a process with an empty
memory, `PanelRestarts`.

### Sessions

*State.* A session is known in three places: its record (`users`, `terminal`), the table
`sessionIDs` that is handed to the scheduler's thread, and its time `stamp` in the store
both threads share. `isBusy`, `job` and `channel` are the thread's run, the ids it has still
to look at, and the messages on their way back. `logins`, `forms`, `removals` and `asked`
are what waits for another's answer: PAM, a password checked in a form's validation,
applications to stop, the monitor. `shells` are the shells that run, each with the session
whose present record its exit handler holds; `db` and `plans` what is in the database,
`system` the accounts of the operating system. Which plan an account is attached to and
whose sub-plan a plan is are constants; both come and go. `byHand` is history: a session
signed out other than by the thread. Time is what the thread makes of it: a stamp is fresh
or more than ten minutes old.

*Actions.* `Request`, `LoginBegins`/`LoginEnds`, `Logout`, `Ask`/`Answer` are the panel's
handlers, split where they wait; `Timer`, `Check`, `JobEnds`, `Receive` the scheduler;
`AddPlan`, `AddUser`, `FormResumes`, `UpdateUser`, `RemoveUser`, `RemovePlan`, `AppsStopped`
what forms do to accounts; `Connect`, `KillTerminal`, `Exit` the terminal; `Uninstalled`
what `isPanelUninstalled` does to the records. `Listed` is the list `deleteUser` returns,
from the sub-plans and users there are. Each handler touches the stamp where the code calls
`getUser`. `Connect` asks only the record, which remembers the plan of a user who is gone,
and ends the process if that plan is gone. `clearUser` does not ask whether there is a
record: where it is called without one the model ends the process (`Ends`), and `Starts`
begins again with the accounts there are.

### NginxService and NginxCycle

*NginxService* is what the panel relies on: a number for the configuration in force
(`conf`) that only grows, the set of configurations for which some process takes
connections (`serving`), and whether the master runs (`up`). A process comes only for
what is in force; what has faded never comes back.

*NginxCycle, state.* `master` is one record: the table of children with each entry's
`exited`, `exiting`, `respawn`, `just` and `detached` bits, the flags the signal handlers
set, `live`, the new binary, the delay of the termination. The entry also says what its
process does (`child`, `told`, `conf`). `file` is nginx.conf: the number of the edit and
whether `ngx_init_cycle` can put it in force. `pending` are signals not delivered yet;
`marred` tells which kinds of accident have happened.

*Actions.* The master handles signals only inside `sigsuspend()`. So one wake-up, any set
of signals that have arrived, and the pass of the loop that follows are one action,
`Pass`, composed of the functions of `ngx_process_cycle.c`: `Woken`, `Reap`, `Body`
(`Terminate`, `Reconfigure`, `Return`, `Restart`, `Reopen`, `ChangeBinary`, `NoAccept`),
`Top`. Each of them maps the master's record to the next, or to the set of records it may
become where forks can fail. A walk over the table treats every entry alike, except that
forks take free entries in the table's order: their outcomes differ in the highest entry
taken (`Reach`, `Taken`). So no walk needs recursion, which keeps the module open to
proof. The workers start, read their channel, finish, die and hang between the passes.

*Refinement.* `ImplementsService` is `NginxService!Spec` with `up <- ~master.gone`,
`conf <- master.conf` and `serving <-` the configurations of the children that start
or serve. `OldFade` is the service's liveness under the same mapping.

### SharedMutex

*State.* `lock`, `wait` and `sem` are the words in the zone; `at` says where each process
is in `ngx_shmtx_lock`, `ngx_shmtx_unlock` and `ngx_shmtx_wakeup`, `seen` the count it has
read for the compare-and-set. `lost` is history: a worker died that others relied on to
pass a wake-up along.

*Actions.* One per atomic operation. A worker may die anywhere (`Die`); the master
collects it, unlocks in its name (`Collect`, `ngx_unlock_mutexes`) and starts another
(`Respawn`). Spinning before the wait is another try and no step of its own.

## 3 Runs

"Violated" marks a run that TLC ends with a counterexample: the property is what a
document or comment of the repository says, and the code does otherwise (section 4).
The longest run, `sessions`, takes two to three minutes and reaches 305,000 states;
`file` reaches 890,000 in two minutes, `alone` 2,070,000 in one to two;
`mutex` reaches 170,000, `nginx` 120,000.

| Run | Bounds | Shows |
|---|---|---|
| `forest` | Unlimited and 3 plans, 3 users, 1 domain, one roomy form | `TypeOK`, `OwnershipForest` under every operation, moves between plans included |
| `limits` | Unlimited and 2 plans, 4 users, 1 domain, tight and roomy forms, without moves | `HomeIsPlan`, `WalkReachesTop`, `MaximumInForce`, `AddedWithinLimits`: the limits of every plan above are found and kept |
| `ports` | 4 domains, ports 1..34, six ranges, 1 to 3 ports per domain | `TypeOK`, `OnePortApart`, `OnePortInRange`, `AdmittedFindsPorts`, `RenumberedApart` |
| `alone` | 1 domain, a call of any kind beside one of a button | `TypeOK`, `ReloadPending`, `AnswerTrue`, `MonitorStartTakesOver` |
| `answered` | 2 domains, one call at a time of the buttons, the forms, a removal or the monitor, fairness | `Answered`: no path forgets its callback, two commands at once included |
| `file` | one change of a form, two commands, one write under way per party, statements that fail, fairness; a day is one of the shell or one of forms and quotas | `TypeOK`, `PanelKnowsFile`, `QuotaKept` |
| `overlap` | two forms, one command, two writes, no quota job | violated: `PanelKeepsItsChanges` |
| `fresh` | 3 users | `FirstChangePutsRight` |
| `sessions` | 2 browsers, one of them the administrator's only; a plan and its user, who may have a shell, 1 shell, 2 answers waited for, fairness | `TypeOK`, `RecordIsWatched`, `SignedInHasAccount`, `AskedSessionIsThere`, `TerminalIsLive`, `NoShellLeftBehind`, `IdleEnds` |
| `removed` | 2 browsers, an administrator, their plan and its user, that user's sub-plan and its user, no shell | violated: `RemovedIsSignedOut` |
| `nginx` | 1 worker process, table of 3, 2 edits, 2 signals, 2 accidents, fairness | `TypeOK`, `OldAreTold`, `FullStrength`, `LeavesNobody`, `ImplementsService`, `OldFade`, `ReloadTakes`, `StopEnds` |
| `mutex` | 3 workers and the master, counts up to 4, fairness | `TypeOK`, `Owned`, `Counted`, `NoLostWakeup`, `SomebodyEnters` |

### Why the bounds are enough

- *Tree.* Three plans and three users below Unlimited make a chain plan–user–plan–user,
  two branches, a removal in the middle with something above and below. `limits` needs
  a plan two levels above the one that grows, and names left over when the tightest
  count is reached: four users, of whom Unlimited admits `TopCount` = 3, so its own limit
  bites, too. In `forest`, `TopCount` = 4 stands for the code's 100000 and never bites. The
  counts {0, 1, 2} and the forms of `MCHostingTree` make every check decide both ways.
  One domain suffices, domains have no structure of their own.
- *Ports.* Six ranges leave room for none, one, some and all of four domains with one to
  three ports each, overlap each other partly, and `<<1, 34>>` is wide enough that the
  string sum (two domains, one port: "21") admits a third domain.
- *Applications.* `alone` asks what one domain's calls do to each other: two calls of the
  buttons, or one and a form, a removal, a suspension, the monitor or the shell's command,
  with the applications, the monitor, nginx and the panel's process changing between any
  two callbacks. `answered` asks about several commands of one call: two domains let one
  command end, fail or not be needed while the other is under way; the calls follow one
  another. The theorems have any number of both.
- *Database file.* In `overlap` two slots per party let two writes of one party be under
  way, in either order. `file` asks two questions of one instance: what a command changes
  is asked about on a day without forms (`PanelKnowsFile` says nothing of others), whether
  suspensions last on a day with forms. Two commands let the note of the second meet the
  reload of the first, and make up for a note that was lost. Reads for one reason that
  wait are taken to run together, and their callbacks to come in the order of the
  statements. One slot is enough there: the panel's,
  the job's and the shell's writes still overlap each other.
- *FTP.* Three users: one in the list, one in the stale file, one being changed.
- *Sessions.* The administrator may sign in at both browsers, the user at the second
  (`AdminsBrowser`), after, beside or in place of the administrator, with one shell; with the
  user at both the run has 740,000 states and finds nothing else; two things
  wait at a time, so that a login or form is answered while a removal, a page or another
  login waits. One plan with one user; `removed` has a sub-plan, with or without its user.
- *Nginx.* One worker process per configuration, the old generation and one entry more, for
  a new binary or a third generation: a third spawn meets a full table. Two signals and two
  edits let reloads overlap each other, a stop and an upgrade; two accidents let a crash
  meet a failed fork or a worker that hangs. The number of edits, signals and accidents only
  bounds how often something happens.
- *Mutex.* The owner, a process in the wake-up and one that counts itself: three workers;
  the master in addition. `MaxCount` bounds waiters and posts taken together; deaths can
  leave a surplus count behind, which 4 admits.

### What holds only under a restriction

- The properties of `limits` hold as long as nobody is moved between plans.
- `OnePortApart` and `OnePortInRange` speak of states in which a domain gets one port, the
  number the panel is delivered with; the number may have been another before. They
  speak of http ports: with the number back at one, `setPortRange` leaves the https port of
  before in the record (`hosting_tools.js:38`).
- `AnswerTrue` holds for any number of calls and at every end of `appStartStop`, but says of
  the application only what an answered question can tell (`heard`): a stop whose second
  question fails reports success while the application may run. It says of the
  configuration and the reload what the panel does after its command (stage `check`): a
  start that finds its application listed at once has saved the file and reloads nothing,
  a stop that finds it not listed leaves the file. That a started one still has its
  configuration is said of calls no other came between (`solo`).
- `MonitorStartTakesOver` excepts `older`: a start whose first question failed with the
  monitor up removes all configurations, and what ran and is not enabled stays without
  one (`hosting_tools.js:836`). It, too, speaks of calls no other came between.
- `PanelKnowsFile` excepts `missed`: a note is lost when its read fails, when its marker is
  written between the read of an earlier one and the `unlink` (`database.js:959-960`), and
  when its command ends before it writes the marker. The next marker or start makes up for
  it. Commands come one after the other. No document promises more.
- `AskedSessionIsThere` excepts sessions in `byHand`. The exception that follows when one of
  them is timed out is real, and in the model (`Receive`, `Ends`).
- `NoShellLeftBehind` names the three steps that do leave a shell unattended: a login in a
  browser that is signed in, the exit of a session's earlier shell, and an uninstallation.
- `FullStrength` counts a worker that hangs as one that serves, and excepts failed forks,
  starts that fail with exit code 2 and upgrades of the binary; `LeavesNobody` and
  `ReloadTakes` except upgrades. The panel never upgrades. `StopEnds` excepts failed forks,
  and QUIT workers that hang. What the excepted traces do is in section 4.
- `Counted`, `NoLostWakeup` and `SomebodyEnters` except `lost`.
- `nginx` does not check deadlock: the master really ends, and its workers after it.
- `ReloadPending` excepts `files.forgot`: the flag is in memory and a process that ends
  forgets it. With the monitor up the next start leaves nginx as it is. The shell's command
  removes files in a process that ends, and updates nginx's default files without a flag.

### Fairness

- `answered`: weak fairness of each call's next callback. The monitor's port is on the
  local host, so it answers or refuses, and the commands end; nothing is assumed of
  which answer comes, of the applications or of the shell.
- `file`: weak fairness of SQLite's statements for the scheduler and for the first read,
  of their callbacks, and of the interval timer. Nothing is assumed of forms, of the
  message's arrival or of the panel's other reads. `QuotaKept`'s premise is that the panel
  stays up, that statements fail no more from some time on, and that the directory stays
  over (or below) the quota.
- `sessions`: the interval timer, the thread's work and the arrival of its messages. Nobody
  has to sign in or out and nobody has to start the panel again; a process that ends takes
  the sessions with it.
- `nginx`: the signals sent are delivered in the end (`SignalsArrive`), the alarm of the
  termination goes off, a worker that does not hang goes on and its clients leave. The
  abstract service states no fairness, so the refinement is of safety; `OldFade` is checked
  beside it.
- `mutex`: each process takes its next step if it can, the dead are collected. Nothing is
  assumed of who wins the compare-and-set, nor that anyone wants the lock or lets it go
  by dying.

## 4 Findings

Two runs show a disagreement between the code and a line of the repository, which
`PROJECT.json` quotes.

| Run | The code |
|---|---|
| `overlap` | a reload under way takes a form's change out of the panel's memory (`database.js:959`) |
| `removed` | `deleteUser` overwrites the list that names the removed user with the users of a sub-plan, so a removed user who has added a plan stays signed in (`database.js:629`). In the run the sub-plan has no user yet: the list is empty |

The modules define further statements of the repository that the code does not keep. No
run is kept for them; to see the trace, name the definition in the configuration given.

| Definition | Where | What TLC finds |
|---|---|---|
| `HostingTree!AssignedPlanExists` | `forest` | `docs/hostingp.markdown:50`: removing a plan removes "all Users who had the hosting plan assigned". A user moved to a plan is in none of its lists (`database.js:709`), survives its removal and keeps its name. |
| `HostingTree!WalkTerminates` | `forest` | "goes up until top parent" (`database.js:296`). A user moved to a plan it owns makes the walk endless, in the only thread. `notes.markdown` lists moves as unfinished. |
| `HostingTree!CountsWithinMaximum` | `limits` | `docs/addplan.markdown:21`: "Maximum amount of users". Suspended sub-plans are not counted and unsuspending brings their users back over the maximum. |
| `HostingTree!EditedWithinParent` | `limits`, as a PROPERTY | A refused edit of a plan has already written the counts into the record (`form_methods.js:504`). |
| `HostingTree!OverMaximumStaysSuspended` | `limits`, as a PROPERTY | The quota job takes away the suspension that the parent's maximum gave: one reason, two sources (`database.js:393`). |
| `PortAllocation!NoSharedPort` | `ports` | With two ports per domain a new domain gets another one's https port as its http port. |
| `PortAllocation!RangeHoldsDomains` | `ports` | `docs/jxcore.markdown:57`: the range is checked with the stored number of ports, not the submitted one. |
| `PortAllocation!RoomAdmits` | `ports` | `docs/jxcore.markdown:55`: the number of ports is a string, `validations.js:254` joins digits; two domains with one port each need 21 ports. |
| `HostedApps!SuspendedStopped` | `alone`, as a PROPERTY | `notes.markdown:45`: "suspending user or plan should perform stopping an app". A question to the monitor that fails keeps the applications of a suspended plan running, and no error is reported. So does one application of several that does not run: `appStopMultiple` calls a function that does not exist, and `getMonitorJSON` answers the exception as if the question had failed. |
| `FtpAccess!GrantedInFile` | `fresh`, as a PROPERTY | Only the first grant of FTP access since the panel's start has an effect. |
| `FtpAccess!OwnFieldKept` | `fresh`, as a PROPERTY | `docs/adduser.markdown:35`: "This field is readonly when user is editing his/her own profile." Editing the own profile takes FTP access away. |

Four traces of nginx are behind the exceptions of section 3. No document of the repository
speaks of them, so no run is kept; to see one, take the exception out of the property.

| Property | What TLC finds |
|---|---|
| `LeavesNobody` | With `MaxSent` = 4: WINCH, USR2, HUP, then TERM. A reload with a new binary (the branch of `ngx_reconfigure`) brings the workers back and leaves `live` as it is, so a master told to stop sees nobody and ends without telling them (`ngx_process_cycle.c:229`). |
| `ReloadTakes` | A fork that fails leaves -1 in `ngx_new_binary` (`nginx.c:649`), and each reload after it brings back workers of the old configuration. |
| `StopEnds` | After forks that failed `live` is set with no children left, and a master told to stop waits for a child's signal that never comes. |
| `NoLostWakeup` | A worker that dies between giving the lock back and `sem_post`, or between `sem_wait` and its next try, takes the wake-up along (`ngx_shmtx.c:142`); the sleepers wait until the next unlock. |

The list in `PROJECT.json` leaves out hazards of lesser weight that are real all the same:
start and stop of one application from two tabs, of which the one that ends last decides
what `jx_enabled` says (`form_methods.js:722`), a form that lacks a field
(`form_methods.js:390`), what a refused edit has already written (`database.js:776`), the
removal of a user whose result names none of its domains, so that the directories go while
the applications run (`database.js:640`), users of suspended sub-plans that come back over a
maximum (`database.js:136`), the two sources of one suspension reason (`database.js:393`), a
range validated with the number of ports stored before (`validations.js:174`), and a surplus
count left by a worker that got the lock on its second try (`ngx_shmtx.c:103`), which only
costs one wake-up of nobody.

## 5 Proofs

| Theorem | States | From |
|---|---|---|
| `HostingTree_proofs!TypeCorrect` | `Spec => []TypeOK` | `NamesAssumption`, `ValuesAssumption` |
| `HostingTree_proofs!Forest` | `Spec => []OwnershipForest` | the same |
| `HostingTree_proofs!Home` | `SpecNoMoves => []HomeIsPlan` | the same |
| `HostingTree_proofs!TopReached` | `SpecNoMoves => []WalkReachesTop`, trees of any depth | the same |
| `HostingTree_proofs!LimitsKept` | `SpecNoMoves => AddedWithinLimits` | the same |
| `HostingTree_proofs!MaximumKept` | `SpecNoMoves => []MaximumInForce`, trees of any depth | the same |
| `PortAllocation_proofs!TypeCorrect` | `Spec => []TypeOK` | `PortsAssumption` |
| `PortAllocation_proofs!OnePortEach` | `Spec => [](OnePortApart /\ OnePortInRange)`, whatever numbers were set before | `PortsAssumption` |
| `PortAllocation_proofs!InRange` | `Spec => []OnePortInRange`, the second half by itself | `PortsAssumption` |
| `PortAllocation_proofs!DealtApart` | `Spec => RenumberedApart`, any number of ports | `PortsAssumption` |
| `PortAllocation_proofs!AdmittedServed` | `Spec => []AdmittedFindsPorts`, any number of ports, whatever numbers were set before | `PortsAssumption` |
| `HostedApps_proofs!TypeCorrect` | `Spec => []TypeOK`, any number of calls at a time | - |
| `HostedApps_proofs!Pending` | `Spec => []ReloadPending`, any number of calls at a time | - |
| `HostedApps_proofs!Answers`, `TakesOver` | `Spec => AnswerTrue`, `MonitorStartTakesOver`, any number of calls at a time | - |
| `SharedDatabase_proofs!TypeCorrect` | `Spec => []TypeOK` | - |
| `SharedDatabase_proofs!CommandIsSeen` | `Spec => []PanelKnowsFile`, any number of commands, one after the other | `ChangesAssumption` |
| `FtpAccess_proofs!TypeCorrect` | `Spec => []TypeOK` | - |
| `FtpAccess_proofs!FirstChange` | `Spec => FirstChangePutsRight` | - |
| `Sessions_proofs!TypeCorrect` | `Spec => []TypeOK` | `OwnerAssumption` |
| `Sessions_proofs!Watched`, `HasAccount`, `AskedIsThere`, `TerminalLives` | `Spec => []RecordIsWatched`, `[]SignedInHasAccount`, `[]AskedSessionIsThere`, `[]TerminalIsLive` | `OwnerAssumption` |
| `Sessions_proofs!ShellsAttended` | `Spec => NoShellLeftBehind` | `OwnerAssumption` |
| `NginxCycle_proofs!TypeCorrect`, `OldTold`, `FullStrengthKept`, `NobodyLeft` | `Spec => []TypeOK`, `[]OldAreTold`, `[]FullStrength`, `[]LeavesNobody`, any number of workers, any table, any numbers of signals, edits and accidents | `NginxAssumption` |
| `NginxCycle_proofs!Refines` | `Spec => ImplementsService` | `NginxAssumption` |
| `SharedMutex_proofs!TypeCorrect`, `OneOwner`, `WaitersCounted`, `WakeupKept` | `Spec => []TypeOK`, `[]Owned`, `[]Counted`, `[]NoLostWakeup`, any number of workers | `MutexAssumption` |
| `SharedMutex_proofs!MutualExclusion` | two workers are never in the section | `MutexAssumption` |

`NamesAssumption`: Unlimited is a plan's name and the owner of Unlimited is no user.
`ValuesAssumption`: the two maxima the code names are among the fields, counts are
naturals, maxima naturals or -1. `PortsAssumption`: the domains are finitely many, the
limits of the form are naturals, one to ten ports per domain. `NginxAssumption`: at least
one worker per configuration, a table that holds one configuration's workers, natural
bounds; the theorems hold whatever the bounds are. The sets of names of the hosting
database need not be finite.

*Forest.* `OwnershipForest` is inductive together with `TypeOK`. Its conjuncts: the
plans a user lists are the ones that name it as owner, each listed name exists, each
user is in one plan's list, each domain in its owner's, and everything is reached from
Unlimited. Additions need that the new leaf is reached (`GrownRooted`). Removal is the
substance: `BelowIsLeast`, `BelowIsClosed` and `BelowHasHome` say what the downward walk
returns, `Branch` that it does not reach Unlimited, `Prune` that taking away a set of
users and plans closed downwards leaves a tree, and `DeletePlanForest`,
`DeleteUserForest` apply it. Edits, suspensions and moves leave the lists alone
(`ListsKept`): a move writes the `plan` of a user's record, which no list knows about.
That is why the theorem holds of `Spec`, and why what moves leave behind (section 4,
`AssignedPlanExists`) goes unnoticed.

*OnePortEach.* `OnePortApart` is not inductive: `getTakenPorts` believes a domain's list of
ports if there is one, so a list that is not the port itself would hide a port from the
search. `SingleInv` adds that, while a domain gets one port, a list is that one port and
nothing else. A change to one port per domain renumbers from a state of which nothing
but `TypeOK` is known; `RangeHoldsOneEach` shows that the check of the range, made with the
number stored before, leaves room for one port each, and the ranks are an injection.

*AdmittedServed.* The validation counts domains and compares with the size of the range;
the handler looks for as many free ports as a domain needs. `Blocks` is the invariant:
what a domain takes lies in a block of as many ports as are configured now, because a new
domain takes one port and a new number deals every domain anew. A port is told from the
others by its domain and its place in the block, an injection that bounds the number of
ports taken (`TakenBound`); what the validation asks for, the string sum included, is
never less than the room for one more domain (`NeededBound`).

*DealtApart.* Blocks of `ppd` ports that start at `min + rank * ppd` do not meet:
`BlocksApart` is the arithmetic, for the one to ten ports the form offers.

*Home* and *TopReached.* Without moves each operation on users writes the record's `plan`
and the plan's list together, so `HomeIsPlan` is inductive together with the forest; the
lemmas `PrunedHome`, `GrownHome` and their like say so for each. The walk to the top
is the least set of plans closed upwards. Were Unlimited not in it, the users that own its
plans would belong to no plan outside it, and nothing in it would be reached from
Unlimited, against `OwnershipForest`.

*LimitsKept.* The code asks the plan and every plan on the way up; the property is about
every plan whose count, taken on a walk *down*, contains the newcomer. `BelowIsUp` joins
the two: with `HomeIsPlan` whoever is below a plan has that plan on the way up.
`ActiveIsClosed` says what the walk down returns, which stops at suspended plans, and
`Grows` that a step stores one user or one domain at most. Then it is a matter of
cardinalities: a count that was below the maximum is at most the maximum after one more
(`OneMore`), and a step that adds nobody puts no newcomer in any count (`NoneMore`). The
database is finite at all times (`Finite`), however many names there are.

*MaximumKept.* `GetMaximum` is a recursion towards the top. That there is a function that
satisfies its equations is proved by giving one: the tightest entry among the plan and
those above it (`Least`, `MaximumExists`, with `AboveSplit` for the step from a plan to
its parent). That its value is bounded by an entry anywhere above is not proved by
induction over the depth: plans below that entry for which the bound failed would be a
set closed upwards that misses Unlimited, and the lemma behind `TopReached`
(`UpwardSet`) leaves no such set (`MaximumBelow`). `Maximums`, the invariant it needs,
says that Unlimited has no entry and every other plan one for each field.

*Pending.* Whether nginx runs is not part of the strengthening `Remembered`: a change made
while nginx is stopped is remembered as well, which is what lets a start by hand be any
step. Every action leaves the files through `Save`, `Remove`, `Reload` or the end of the
process, and each of these keeps `Remembered` (`SaveGood`, `RemoveGood`, `ReloadGood`,
`ExitsGood`). The run has two calls, the theorem any number.

*Answers* and *TakesOver.* `CallsInv` says what a call has learned, whatever others do: a
command was given because the first answer was not yet the wanted one, so when the second
answer differs from the first, it is the wanted one; a button's call is about one domain,
so "not all of them run" means that it does not run. What a call relies on in nginx's files
is `HeldInv`: a start finds the file it wrote at its beginning, a start of the monitor
nothing but what was there before (`older`) and what it has launched, with their files. A
step of another call ends that, and the invariant says so: it speaks of calls still
`solo`, which every step of another call takes from them (`Beside`). Applications, the
monitor and nginx's own processes go on beside it and never touch the files.

*CommandIsSeen.* `PanelKnowsFile` speaks of a panel at rest. On the way there the invariant
`Quiet` follows what the commands write: one write at a time, each of all the file had and
one change more (`OnlyCommand`); no suspension is in anything read (`Clean`), so the quota
job writes nothing; what the panel has read is never older than its copy and never newer
than the file (`Seen`). `Noted` is the heart: while no note is left or lost the panel's
copy is the file or a read is under way that brings it, and a read that has failed counts
as one that will, because its callback makes the note a lost one. A read that waits brings
whatever the file holds when it runs; one that has run before the file changed brings it
no more, and then there is a marker still to come, or its note is lost: this is the
second command's marker that the first one's `unlink` takes along.

*FirstChange.* An action property: the first change a process makes reads the configuration
first, and what it writes then is the list of the database, whatever `TypeOK` allows the
file to be.

*Sessions.* `IInv` is `TypeOK`, the four invariants and two parts more. `Orderly`: the panel
takes the thread for idle only when it has nothing to do and nothing is on its way; what
it has sent and what it has still to look at do not overlap; the message that it is free
comes last. `Explained`: a stamp without a record is one of a session signed out by
hand, here by a login that failed. An uninstallation drops all records and leaves the shells
alone (`UninstalledKept`). Twenty-three actions change records in eight ways only, which
the lemma `SignedSteps` lists, so each invariant is proved for eight cases.

*NginxCycle.* A pass of the master's loop is one step made of stages, and inside it the
invariants do not hold of the variables but of the record the stages hand on. So `Good`
is stated of such a record, and each stage has a lemma that it keeps it (`WokenKeeps`,
`ReapKeeps`, `ReconfigureKeeps`, `TerminateKeeps` ...). Its parts: every entry's bits
agree with what its process does (`Sane`); whoever runs another configuration has been
told (`Old`); without an upgrade nothing of one is about and `live` means what it says
(`Left`); while no fork has failed, the workers that stay and have the configuration in
force are as many as configured (`Strong`, a cardinality over the table: a reload starts
that many new ones and tells all the others; a respawn gives an entry back to the same
configuration, `Due`). `Ready`, which also holds between passes, says that no collected
child is left unseen, and `Quiet` that a pass leaves no notes behind. `LeavesNobody` is not
inductive by itself: a master ends when `live` is not set, and that nobody is there then is
`Left`; nor is `FullStrength`, which needs that who waits to be started again has the
configuration in force (`Due`).

*Refines.* The mapping is that of section 2. A pass maps to the service's `Replace` when the
configuration in force changes, to `Stop` when the master ends and to `Work` otherwise; a
step of a worker maps to `Work`, or to `Outlive` when the master is gone. The lemmas about
the stages also say what is served after them: only what was before and what is in force
(`Shown`, `OutcomeKeeps`).

*SharedMutex.* `IInv` = `TypeOK`, `Bounded`, `Roles`, `Owned`, `Counted`, `NoLostWakeup`.
`Roles` says that the master only ever wakes sleepers and that who is about to decrement the
count of waiters has read one that is not zero; `Bounded` that the guard of `Count` keeps
the counts within `MaxCount`. `Counted` is arithmetic over the cardinalities of those who wait and
those who post, for any finite number of workers.

*Only model-checked.* Liveness (`Answered`, `QuotaKept`, `IdleEnds`, `SomebodyEnters`, `OldFade`,
`ReloadTakes`, `StopEnds`), which the prover does not reach. Every other property of a
passing run is stated by a theorem. Some theorems have a hypothesis that the code does
not guarantee (section 3, "What holds only under a restriction"): `LimitsKept`, `MaximumKept`,
`Home` and `TopReached` that nobody is moved. Others say in the property itself what is
excepted: `solo`, `older` and `heard`, `missed`, `byHand`, `forgot`.

## 6 What is not modelled

- Form sessions, spawner, add-ons, third-party applications, installation, user
  directories, validations and addresses: planned, section 7.
- In the database: a change of a domain's owner (no form submits one) and `fixDatabase`
  (nothing calls it).
- In hosted applications: SSL certificates, the log view, the message texts. `SuspendUser`
  stops the user's applications by the same call as `SuspendPlan` those of a plan's users,
  and a start asks only for the plan's suspension; only the latter is an action.
- The text of nginx's and the FTP server's configuration: layout. A file is there or not,
  as it was loaded or not.
- In FTP access: a configuration file that is missing (`ftp.js:114`). Installation puts it
  there; without it the change is refused and the list stays unread.
- Menus, tables, help, languages and charts: they change no state. Downloads: one
  handler each, I/O.
- In nginx: the cache manager and loader (the panel configures no cache path), the mode
  with one process, the messages workers exchange, connections and requests. The mutex on
  lock files is for systems without atomic operations.
- The Plesk service, the MongoDB add-on, proftpd, the rest of nginx and the browser libraries:
  other programs. They make up some 350,000 of the repository's 370,000 lines, so the
  share of the whole that the map covers is small, about one per cent. Of the panel's
  15,000 lines, most of which produce pages, it covers a fifth.

## 7 Plan

In this order, the most important behaviour first:

1. `FormSessions`: the record under edit shared by the tabs of one session.
2. `Spawner`: the child process, its restarts on a change of the directory, its end.
3. `Addons`, third-party applications and user directories, the last two composed with
   `HostedApps`.
4. `validations.js` and `ip_tools.js` as operators, checked against reference definitions.
5. `Installation`: the order of steps, what a failed one leaves.
6. A module that composes `HostingTree` with `HostedApps`: a removal and the calls it
   makes; an abstract specification "what runs belongs to an existing domain of a plan
   that is not suspended".
7. proftpd's master and its sessions, as far as the panel's restarts meet them.

Theorems to add: that `SharedMutex` implements an abstract lock, that `fixDatabase` changes
nothing in a forest, and what two commands at the same time can rely on.
