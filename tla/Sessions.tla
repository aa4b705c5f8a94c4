------------------------------ MODULE Sessions ------------------------------
(***************************************************************************)
(* Who is signed in to the panel, and in which shell                       *)
(* (src/app/definitions/active_user.js, terminal.js and scheduler/, with   *)
(* the handlers of src/app/rendering that sign users in and out).          *)
(*                                                                         *)
(* A session is known in three places that no operation changes together   *)
(* but by care: the record users[sid], the table sessionIDs that the       *)
(* scheduler's thread is given, and the time stamp in the store both       *)
(* threads share.  The thread decides from the stamp and asks by message;  *)
(* logins, removals of accounts and forms wait for others in the meantime. *)
(*                                                                         *)
(* Time is what the thread makes of it: a stamp is fresh until it is more  *)
(* than ten minutes old.  Which plan an account is attached to and whose a *)
(* plan is are given; plans and accounts come and go.                      *)
(***************************************************************************)
EXTENDS FiniteSets, Sequences, SequencesExt

CONSTANTS
    Session,   \* the browsers' session ids
    User,      \* names of accounts
    Admin,     \* the account that is never removed
    Plan,      \* names of plans
    PlanOwner, \* the user whose sub-plan a plan is
    PlanOf,    \* the plan an account is attached to
    SshUser,   \* the users whose plan gives them a shell
    Shell,     \* the shells that may run at a time: a bound
    Waiting,   \* bound on what waits for somebody's answer at a time
    None

\* owner: whose record the shell's exit handler holds, as long as the session
\* has that record; told: the panel has sent the shell its signal.
ShellState == [owner : Session \cup {None}, told : BOOLEAN]

ASSUME OwnerAssumption ==
    /\ Admin \in User /\ SshUser \subseteq User
    /\ None \notin Session \cup User \cup Shell \cup ShellState
    /\ \A S \in SUBSET Session : None # S
    /\ PlanOwner \in [Plan -> User] /\ PlanOf \in [User \ {Admin} -> Plan]

VARIABLES
    up,         \* the panel's process runs
    db,         \* the accounts in the database
    plans,      \* the plans in the database
    system,     \* the accounts of the operating system
    users,      \* the user of a session's record
    terminal,   \* the shell in a session's record
    sessionIDs, \* the table that is handed to the thread
    stamp,      \* the shared store
    isBusy,     \* the thread is at work, as far as the panel knows
    job,        \* the session ids the thread has still to look at, or None
    channel,    \* what the thread has sent and the panel has not received
    logins,     \* logins that wait for the authentication
    forms,      \* forms that wait for an authentication in their validation
    removals,   \* lists of users that wait for their applications to stop
    asked,      \* sessions with a page that waits for the monitor's answer
    shells,     \* the shells that run
    byHand      \* history: signed out by other means than the thread's

signed   == <<users, terminal, sessionIDs, stamp, shells, byHand>>
accounts == <<db, plans, system>>
thread   == <<isBusy, job, channel>>
waiting  == <<logins, forms, removals, asked>>
vars     == <<up, signed, accounts, thread, waiting>>

\* free: the callback of runOnThread, or the message of a restarted thread.
Message == {<<"clearUser", s>> : s \in Session} \cup {<<"free">>}

\* Everything has its type, and no message is sent twice.
TypeOK ==
    /\ up \in BOOLEAN /\ db \subseteq User /\ plans \subseteq Plan /\ system \subseteq User
    /\ users \in [Session -> User \cup {None}]
    /\ terminal \in [Session -> Shell \cup {None}]
    /\ sessionIDs \subseteq Session
    /\ stamp \in [Session -> {"none", "fresh", "old"}]
    /\ isBusy \in BOOLEAN /\ job \in (SUBSET Session) \cup {None}
    /\ channel \in Seq(Message) /\ IsInjective(channel)
    /\ logins \subseteq Session \X User /\ forms \subseteq Session \X User
    /\ removals \subseteq SUBSET User /\ asked \subseteq Session
    /\ shells \in [Shell -> ShellState \cup {None}]
    /\ byHand \subseteq Session

\* A process that has just started.
Empty ==
    /\ users = [s \in Session |-> None] /\ terminal = [s \in Session |-> None]
    /\ sessionIDs = {} /\ stamp = [s \in Session |-> "none"]
    /\ isBusy = FALSE /\ job = None /\ channel = <<>>
    /\ logins = {} /\ forms = {} /\ removals = {} /\ asked = {}
    /\ shells = [c \in Shell |-> None] /\ byHand = {}

Init == up = TRUE /\ db = {Admin} /\ plans = {} /\ system = {Admin} /\ Empty

-----------------------------------------------------------------------------
(* Records, shells and accounts.                                           *)

SessionsOf(u) == {s \in Session : users[s] = u}

\* The shells whose exit handler holds the present record of a session in S.
ShellsOf(S) == {c \in Shell : shells[c] # None /\ shells[c].owner \in S}

\* The records of S are dropped; the shells in told get their signal.
DropRecords(S, told) ==
    /\ terminal' = [s \in Session |-> IF s \in S THEN None ELSE terminal[s]]
    /\ shells' = [c \in Shell |->
          IF c \in ShellsOf(S)
          THEN [shells[c] EXCEPT !.owner = None, !.told = @ \/ c \in told]
          ELSE shells[c]]

\* Mutant: the shell of a session that ends is not killed.
ClearUsersOnly(S, st) ==
    /\ DropRecords(S, {})
    /\ users' = [s \in Session |-> IF s \in S THEN None ELSE users[s]]
    /\ sessionIDs' = sessionIDs \ S
    /\ stamp' = [s \in Session |-> IF s \in S THEN "none" ELSE st[s]]

\* clearUser of every session in S, all of which have a record; the stamps are
\* those of st otherwise.
ClearUsers(S, st) ==
    /\ DropRecords(S, {terminal[s] : s \in S} \ {None})
    /\ users' = [s \in Session |-> IF s \in S THEN None ELSE users[s]]
    /\ sessionIDs' = sessionIDs \ S
    /\ stamp' = [s \in Session |-> IF s \in S THEN "none" ELSE st[s]]

\* What is left of a process that has ended: the accounts.
Ends ==
    /\ up' = FALSE
    /\ users' = [s \in Session |-> None] /\ terminal' = [s \in Session |-> None]
    /\ sessionIDs' = {} /\ stamp' = [s \in Session |-> "none"]
    /\ isBusy' = FALSE /\ job' = None /\ channel' = <<>>
    /\ logins' = {} /\ forms' = {} /\ removals' = {} /\ asked' = {}
    /\ shells' = [c \in Shell |-> None] /\ byHand' = {}

SubPlans(U) == {p \in plans : PlanOwner[p] \in U}

\* getUsersByPlanName: those attached to p, to their sub-plans, and so on.
UsersOf(p) ==
    LET closed(S) == \A v \in db \ {Admin} :
            PlanOf[v] = p \/ PlanOwner[PlanOf[v]] \in S => v \in S
    IN  {v \in db \ {Admin} : \A S \in SUBSET db : closed(S) => v \in S}

\* Users U leave the database, with the plans P and those of U.
Drop(U, P) == db' = db \ U /\ plans' = plans \ (P \cup SubPlans(U))

\* deleteUser: the user goes with all below.
WithAllBelow(u) == {u} \cup UNION {UsersOf(p) : p \in SubPlans({u})}

\* getUser, with every page and call of a session that has a record.
Touched(s) == [stamp EXCEPT ![s] = "fresh"]
SignedIn(s) == up /\ users[s] # None
Keep(st) == stamp' = st /\ UNCHANGED <<users, terminal, sessionIDs, shells, byHand>>

\* What waits for somebody else's answer is bounded.
RoomToWait ==
    Cardinality(logins) + Cardinality(forms) + Cardinality(removals) + Cardinality(asked)
      < Waiting

-----------------------------------------------------------------------------
(* Signing in and out.                                                     *)

Request(s) ==
    /\ SignedIn(s)
    /\ Keep(Touched(s))
    /\ UNCHANGED <<up, accounts, thread, waiting>>

\* isPanelUninstalled, with every page and call: the panel's folder is gone, and
\* all records and the table are emptied.  No shell is told.
Uninstalled ==
    LET S == {s \in Session : users[s] # None} IN
    /\ up
    /\ DropRecords(S, {})
    /\ users' = [s \in Session |-> None]
    /\ sessionIDs' = {}
    /\ stamp' = [s \in Session |-> IF s \in S THEN "none" ELSE stamp[s]]
    /\ byHand' = byHand \cup S
    /\ UNCHANGED <<up, accounts, thread, waiting>>

\* tryLogin: PAM knows the account; its answer comes later.
LoginBegins(s, u) ==
    /\ up /\ u \in system /\ RoomToWait
    /\ logins' = logins \cup {<<s, u>>}
    /\ UNCHANGED <<up, signed, accounts, thread, forms, removals, asked>>

\* Mutant: a failed login leaves the old record and takes it off the table.
LoginUserUndone(s, u) ==
    /\ IF u \in system
       THEN DropRecords({s}, {}) /\ users' = [users EXCEPT ![s] = u]
            /\ sessionIDs' = sessionIDs \cup {s} /\ stamp' = Touched(s)
       ELSE sessionIDs' = sessionIDs \ {s} /\ UNCHANGED <<users, terminal, shells, stamp>>
    /\ byHand' = byHand \ {s}

\* The new record takes the place of the session's old one, shell and all.
\* getUserIDS finds no account of the system: neither record remains, the
\* table and the stamp of the old one do.
LoginUser(s, u) ==
    /\ DropRecords({s}, {})
    /\ users' = [users EXCEPT ![s] = IF u \in system THEN u ELSE None]
    /\ IF u \in system
       THEN sessionIDs' = sessionIDs \cup {s} /\ stamp' = Touched(s) /\ byHand' = byHand \ {s}
       ELSE UNCHANGED <<sessionIDs, stamp>> /\ byHand' = byHand \cup {s}

\* An account the panel does not know, or that has no access to it, is refused.
LoginEnds(s, u) ==
    /\ up /\ <<s, u>> \in logins
    /\ logins' = logins \ {<<s, u>>}
    /\ IF u \in db THEN LoginUser(s, u) \/ UNCHANGED signed ELSE UNCHANGED signed
    /\ UNCHANGED <<up, accounts, thread, forms, removals, asked>>

\* clearUser does not ask whether there is a record.  Where the server's
\* library catches the exception nothing changes, otherwise the process ends.
Logout(s) ==
    /\ up
    /\ IF users[s] # None
       THEN ClearUsers({s}, stamp) /\ byHand' = byHand \cup {s}
            /\ UNCHANGED <<up, accounts, thread, waiting>>
       ELSE Ends /\ UNCHANGED accounts

\* getForm and getTableData ask the monitor before they render.
Ask(s) ==
    /\ SignedIn(s) /\ (s \in asked \/ RoomToWait)
    /\ Keep(Touched(s)) /\ asked' = asked \cup {s}
    /\ UNCHANGED <<up, accounts, thread, logins, forms, removals>>

\* renderForm and render fetch the user again and use what they get.
Answer(s) ==
    /\ up /\ s \in asked
    /\ IF users[s] # None
       THEN Keep(Touched(s)) /\ asked' = asked \ {s}
            /\ UNCHANGED <<up, accounts, thread, logins, forms, removals>>
       ELSE Ends /\ UNCHANGED accounts

-----------------------------------------------------------------------------
(* The scheduler.                                                          *)

Ages(s) ==
    /\ up /\ stamp[s] = "fresh"
    /\ Keep([stamp EXCEPT ![s] = "old"])
    /\ UNCHANGED <<up, accounts, thread, waiting>>

\* Mutant: the timer does not wait for the thread.
TimerImpatient ==
    /\ up /\ job = None
    /\ isBusy' = TRUE /\ job' = sessionIDs
    /\ UNCHANGED <<up, signed, accounts, channel, waiting>>

\* Every five seconds.
Timer ==
    /\ up /\ ~isBusy
    /\ isBusy' = TRUE /\ job' = sessionIDs
    /\ UNCHANGED <<up, signed, accounts, channel, waiting>>

\* check_users, one session id after the other.
Check(s) ==
    /\ up /\ job # None /\ s \in job
    /\ job' = job \ {s}
    /\ channel' = IF stamp[s] = "old" THEN Append(channel, <<"clearUser", s>>) ELSE channel
    /\ UNCHANGED <<up, signed, accounts, isBusy, waiting>>

\* Mutant: a thread that has thrown is started again and does not say so.
JobEndsSilently ==
    /\ up /\ job = {}
    /\ job' = None
    /\ channel' \in {channel, Append(channel, <<"free">>)}
    /\ UNCHANGED <<up, signed, accounts, isBusy, waiting>>

\* check_quotas has returned, and with it the task; or it has thrown, and
\* the thread is started again.
JobEnds ==
    /\ up /\ job = {}
    /\ job' = None
    /\ channel' = Append(channel, <<"free">>)
    /\ UNCHANGED <<up, signed, accounts, isBusy, waiting>>

\* The panel's thread takes the next message; nobody catches what clearUser
\* throws.
Receive ==
    /\ up /\ channel # <<>>
    /\ LET m == Head(channel) IN
       IF m = <<"free">>
       THEN isBusy' = FALSE /\ channel' = Tail(channel)
            /\ UNCHANGED <<up, signed, accounts, job, waiting>>
       ELSE IF users[m[2]] # None
       THEN ClearUsers({m[2]}, stamp) /\ channel' = Tail(channel)
            /\ UNCHANGED <<up, byHand, accounts, isBusy, job, waiting>>
       ELSE Ends /\ UNCHANGED accounts

-----------------------------------------------------------------------------
(* Accounts.                                                               *)

\* clearUserByName of every user in U.
SignOut(U, st) ==
    LET S == UNION {SessionsOf(u) : u \in U} IN
    ClearUsers(S, st) /\ byHand' = byHand \cup S

\* The list deleteUser returns: "users: [name]" is overwritten with the users
\* of each sub-plan in turn, and any may be the last.
Listed(u) ==
    IF SubPlans({u}) = {} THEN {{u}} ELSE {UsersOf(p) : p \in SubPlans({u})}

\* A user who is in the database adds a plan.
AddPlan(s, p) ==
    /\ SignedIn(s) /\ PlanOwner[p] = users[s]
    /\ plans' = IF users[s] \in db THEN plans \cup {p} ELSE plans
    /\ Keep(Touched(s))
    /\ UNCHANGED <<up, db, system, thread, waiting>>

\* addUser after its validation: the system account is created, or one that
\* exists is taken over and its home moved.  An exception removes the account
\* of that name from the database, whoever has added it.
AddAccount(u, reuse, st) ==
    IF u \in db
    THEN Drop(WithAllBelow(u), {}) /\ UNCHANGED system /\ Keep(st)
    ELSE IF PlanOf[u] \notin plans
    THEN UNCHANGED accounts /\ Keep(st)
    ELSE /\ db' = db \cup {u} /\ UNCHANGED plans
         /\ system' = IF reuse THEN system ELSE system \cup {u}
         /\ IF reuse /\ u \in system THEN SignOut({u}, st) ELSE Keep(st)

\* A form that adds user u to a plan of the session's user.  To take over an
\* account the validation waits for its password to be checked, and the panel
\* goes on meanwhile.
AddUser(s, u, reuse) ==
    /\ SignedIn(s) /\ u \in User \ {Admin} /\ u \notin db
    /\ PlanOf[u] \in plans /\ PlanOwner[PlanOf[u]] = users[s]
    /\ IF u \in system
       THEN /\ reuse /\ RoomToWait
            /\ forms' = forms \cup {<<s, u>>}
            /\ UNCHANGED accounts /\ Keep(Touched(s))
       ELSE AddAccount(u, reuse, Touched(s)) /\ UNCHANGED forms
    /\ UNCHANGED <<up, thread, logins, removals, asked>>

\* The password was the right one, or the form is refused.
FormResumes(s, u) ==
    /\ up /\ <<s, u>> \in forms
    /\ forms' = forms \ {<<s, u>>}
    /\ AddAccount(u, TRUE, stamp) \/ UNCHANGED <<accounts, signed>>
    /\ UNCHANGED <<up, thread, logins, removals, asked>>

\* The user's owner moves the home to another plan, or takes the access away.
UpdateUser(s, u) ==
    /\ SignedIn(s) /\ u \in db \ {Admin} /\ PlanOwner[PlanOf[u]] = users[s]
    /\ SignOut({u}, Touched(s))
    /\ UNCHANGED <<up, accounts, thread, waiting>>

\* Mutant: the system account goes and the sessions stay.
DeleteSystemUserOnly(L, st) ==
    /\ Keep(st)
    /\ \E gone \in SUBSET (L \cap system) : system' = system \ gone

\* removeUsers; deluser may refuse.
RemoveUsers(L, st) ==
    /\ SignOut(L, st)
    /\ \E gone \in SUBSET (L \cap system) : system' = system \ gone

\* remove, once database.js has dropped what it drops: the users of list L wait
\* until their applications have stopped, if there are any.
Removes(s, L, apps) ==
    /\ apps => L # {}
    /\ IF apps
       THEN /\ RoomToWait
            /\ removals' = removals \cup {L}
            /\ UNCHANGED system /\ Keep(Touched(s))
       ELSE RemoveUsers(L, Touched(s)) /\ UNCHANGED removals
    /\ UNCHANGED <<up, thread, logins, forms, asked>>

RemoveUser(s, u, apps) ==
    /\ SignedIn(s) /\ u \in db \ {Admin} /\ PlanOwner[PlanOf[u]] = users[s]
    /\ Drop(WithAllBelow(u), {})
    /\ \E L \in Listed(u) : Removes(s, L, apps)

\* deletePlan lists all users of the plan.
RemovePlan(s, p, apps) ==
    /\ SignedIn(s) /\ p \in plans /\ PlanOwner[p] = users[s]
    /\ Drop(UsersOf(p), {p})
    /\ Removes(s, UsersOf(p), apps)

AppsStopped(L) ==
    /\ up /\ L \in removals
    /\ removals' = removals \ {L}
    /\ RemoveUsers(L, stamp)
    /\ UNCHANGED <<up, db, plans, thread, logins, forms, asked>>

-----------------------------------------------------------------------------
(* Shells.                                                                 *)

\* The record remembers the plan of a user who is in the database no longer.
MaySsh(s) == SignedIn(s) /\ users[s] \in SshUser

\* createTerminal: a shell there is is killed and the page told to reload.
OpenTerminal(s) ==
    /\ stamp' = Touched(s)
    /\ IF terminal[s] # None
       THEN /\ shells' = [shells EXCEPT ![terminal[s]].told = TRUE]
            /\ terminal' = [terminal EXCEPT ![s] = None]
       ELSE \E c \in Shell :
            /\ shells[c] = None
            /\ shells' = [shells EXCEPT ![c] = [owner |-> s, told |-> FALSE]]
            /\ terminal' = [terminal EXCEPT ![s] = c]
    /\ UNCHANGED <<up, users, sessionIDs, byHand, accounts, thread, waiting>>

\* A plan that is gone has no plan_ssh to look at, which throws.
Connect(s) ==
    /\ MaySsh(s)
    /\ IF users[s] # Admin /\ PlanOf[users[s]] \notin plans
       THEN Ends /\ UNCHANGED accounts
       ELSE OpenTerminal(s)

\* killTerminal.
KillTerminal(s) ==
    /\ SignedIn(s) /\ terminal[s] # None
    /\ stamp' = Touched(s)
    /\ shells' = [shells EXCEPT ![terminal[s]].told = TRUE]
    /\ terminal' = [terminal EXCEPT ![s] = None]
    /\ UNCHANGED <<up, users, sessionIDs, byHand, accounts, thread, waiting>>

\* Mutant: the exit of a shell leaves the record as it is.
ExitForgotten(c) ==
    /\ up /\ shells[c] # None
    /\ shells' = [shells EXCEPT ![c] = None]
    /\ UNCHANGED <<up, users, terminal, sessionIDs, stamp, byHand, accounts, thread, waiting>>

\* A shell has ended, told to or not; its record forgets whichever it has.
Exit(c) ==
    /\ up /\ shells[c] # None
    /\ shells' = [shells EXCEPT ![c] = None]
    /\ terminal' = [s \in Session |->
          IF c \in ShellsOf({s}) THEN None ELSE terminal[s]]
    /\ UNCHANGED <<up, users, sessionIDs, stamp, byHand, accounts, thread, waiting>>

-----------------------------------------------------------------------------

\* index.js: the process is started again, with the accounts there are.
Starts ==
    /\ ~up /\ up' = TRUE
    /\ UNCHANGED <<signed, accounts, thread, waiting>>

Next ==
    \/ \E s \in Session : \/ Request(s) \/ Logout(s) \/ Ask(s) \/ Answer(s)
                          \/ Ages(s) \/ Check(s) \/ Connect(s) \/ KillTerminal(s)
    \/ \E s \in Session, u \in User :
          \/ LoginBegins(s, u) \/ LoginEnds(s, u)
          \/ FormResumes(s, u) \/ UpdateUser(s, u)
          \/ \E yes \in BOOLEAN : AddUser(s, u, yes) \/ RemoveUser(s, u, yes)
    \/ \E s \in Session, p \in Plan :
          AddPlan(s, p) \/ \E apps \in BOOLEAN : RemovePlan(s, p, apps)
    \/ \E L \in removals : AppsStopped(L)
    \/ \E c \in Shell : Exit(c)
    \/ Timer \/ JobEnds \/ Receive \/ Starts \/ Uninstalled

\* The timer fires, the thread works and messages arrive; nobody has to sign
\* in or out, and nobody has to start the panel again.
Fairness ==
    /\ WF_vars(Timer) /\ WF_vars(JobEnds) /\ WF_vars(Receive)
    /\ \A s \in Session : WF_vars(Check(s))

Spec == Init /\ [][Next]_vars
FairSpec == Spec /\ Fairness

-----------------------------------------------------------------------------
(* Properties.                                                             *)

\* No session escapes the scheduler: whoever has a record is in the table the
\* thread gets and has a stamp, whatever logins of the same browser have
\* failed or been replaced (loginUser, clearUser).
RecordIsWatched ==
    \A s \in Session : users[s] # None => s \in sessionIDs /\ stamp[s] # "none"

\* Nobody is signed in with an account the system has no longer: a login that
\* was under way when the account went finds no user or no ids (tryLogin,
\* loginUser, removeUsers).
SignedInHasAccount == \A s \in Session : users[s] # None => users[s] \in system

\* The scheduler by itself never asks for a session that is gone, which would
\* end the panel: isBusy and the order of the messages keep it from asking
\* twice.  It takes a logout, a removal or a failed login in between.
AskedSessionIsThere ==
    \A s \in Session : <<"clearUser", s>> \in ToSet(channel) => users[s] # None \/ s \in byHand

\* The shell of a record runs, has not been told to end and has that record:
\* input never goes to a shell of the past (sendToTerminal).
TerminalIsLive ==
    \A s \in Session : terminal[s] # None =>
        /\ terminal[s] \in ShellsOf({s})
        /\ ~shells[terminal[s]].told

\* A shell that runs unattended was left behind by a login of the same browser,
\* by the exit of the session's earlier shell or by an uninstallation: time-out,
\* logout, removal of the account and reconnecting never leave one (clearUser,
\* createTerminal, isPanelUninstalled).
Attended(c) == shells[c] # None /\ (shells[c].told \/ \E s \in Session : terminal[s] = c)
NoShellLeftBehind ==
    [][\A c \in Shell : Attended(c) /\ shells'[c] # None /\ ~Attended(c)' =>
          \/ \E s \in Session, u \in User : LoginEnds(s, u)
          \/ \E d \in Shell \ {c} : Exit(d)
          \/ Uninstalled]_vars

\* "called when deleting a user from panel" (active_user.js:199): once the
\* removal is through nobody is signed in as the removed user.
RemovedIsSignedOut ==
    \A s \in Session : users[s] # None /\ removals = {} => users[s] \in db

\* A session nobody uses any more ends.
IdleEnds ==
    \A s \in Session : users[s] # None /\ stamp[s] = "old" ~>
        users[s] = None \/ stamp[s] # "old"
=============================================================================
