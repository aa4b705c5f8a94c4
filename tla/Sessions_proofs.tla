---------------------------- MODULE Sessions_proofs ---------------------------
(* Proofs about Sessions: for any number of browsers, accounts and shells.   *)
(*                                                                           *)
(* Twenty-three actions change the records in eight ways only.  SignedSteps  *)
(* says which, and each invariant about the records is shown for the eight.  *)
EXTENDS Sessions, TLAPS

\* The ways of a step with the stamps: the page or the form of a session that
\* has a record makes its stamp fresh, one stamp grows old, or all stay.
Refreshed(st) == st = stamp \/ \E s \in Session : users[s] # None /\ st = Touched(s)
Aged(st) == \E s \in Session : stamp[s] = "fresh" /\ st = [stamp EXCEPT ![s] = "old"]

Stays == \E st : (Refreshed(st) \/ Aged(st)) /\ Keep(st)

\* Records go, by hand or because the thread has asked for it.
Clears == \E st : \E S \in SUBSET Session :
    /\ Refreshed(st) /\ ClearUsers(S, st)
    /\ \A s \in S : users[s] # None
    /\ \/ byHand' = byHand \cup S
       \/ byHand' = byHand /\ \E s \in Session :
             S = {s} /\ channel # <<>> /\ Head(channel) = <<"clearUser", s>>
                     /\ channel' = Tail(channel) /\ job' = job /\ isBusy' = isBusy

\* The types of the records alone.
Records ==
    /\ users \in [Session -> User \cup {None}]
    /\ terminal \in [Session -> Shell \cup {None}]
    /\ stamp \in [Session -> {"none", "fresh", "old"}]
    /\ shells \in [Shell -> ShellState \cup {None}]
    /\ sessionIDs \subseteq Session /\ byHand \subseteq Session
    /\ None \notin User \cup Shell

\* A list of users that is signed out.
LEMMA SignOutClears ==
  ASSUME None \notin User, NEW L \in SUBSET User, NEW st, Refreshed(st), SignOut(L, st)
  PROVE  Clears
<1> DEFINE S == UNION {SessionsOf(u) : u \in L}
<1>1. S \in SUBSET Session /\ \A s \in S : users[s] # None
  BY DEF SessionsOf
<1>2. ClearUsers(S, st) /\ byHand' = byHand \cup S
  BY DEF SignOut
<1>3. QED
  BY <1>1, <1>2 DEF Clears

LEMMA ListedType ==
  ASSUME NEW u \in User, db \subseteq User
  PROVE  /\ \A p : UsersOf(p) \in SUBSET User
         /\ \A L \in Listed(u) : L \in SUBSET User
<1>1. \A p : UsersOf(p) \subseteq db
  BY DEF UsersOf
<1>2. QED
  BY <1>1 DEF Listed

LEMMA Signs ==
  ASSUME TypeOK, None \notin User, NEW s \in Session, SignedIn(s)
  PROVE  Refreshed(Touched(s)) /\ Refreshed(stamp)
  BY DEF Refreshed, SignedIn

\* What a new or repeated account does to the records.
LEMMA AddAccountSigned ==
  ASSUME None \notin User, NEW u \in User, NEW reuse \in BOOLEAN, NEW st, Refreshed(st),
         AddAccount(u, reuse, st)
  PROVE  Stays \/ Clears
<1>1. CASE Keep(st)
  BY <1>1 DEF Stays
<1>2. CASE SignOut({u}, st)
  BY <1>2, SignOutClears
<1>3. QED
  BY <1>1, <1>2 DEF AddAccount

LEMMA SignedSteps ==
  ASSUME TypeOK, Next
  PROVE  \/ Stays
         \/ Clears
         \/ \E s \in Session, u \in User : LoginEnds(s, u) /\ LoginUser(s, u)
         \/ Ends
         \/ Uninstalled
         \/ \E s \in Session : (MaySsh(s) /\ OpenTerminal(s)) \/ KillTerminal(s)
         \/ \E c \in Shell : Exit(c)
<1> USE OwnerAssumption
<1>1. ASSUME UNCHANGED signed
      PROVE  Stays
  BY <1>1 DEF signed, Stays, Refreshed, Keep
<1>2. ASSUME NEW s \in Session, Request(s) \/ Ask(s)
      PROVE  Stays
  BY <1>2, Signs DEF Request, Ask, Stays
<1>3. ASSUME NEW s \in Session, Logout(s)
      PROVE  Clears \/ Ends
  <2>1. CASE users[s] # None
    <3>1. ClearUsers({s}, stamp) /\ byHand' = byHand \cup {s}
      BY <1>3, <2>1 DEF Logout
    <3>2. Refreshed(stamp)
      BY DEF Refreshed
    <3>3. QED
      BY <2>1, <3>1, <3>2 DEF Clears
  <2>2. QED
    BY <1>3, <2>1 DEF Logout
<1>4. ASSUME NEW s \in Session, Answer(s)
      PROVE  Stays \/ Ends
  <2>1. CASE users[s] # None
    BY <1>4, <2>1, Signs DEF Answer, Stays, SignedIn
  <2>2. QED
    BY <1>4, <2>1 DEF Answer
<1>5. ASSUME NEW s \in Session, Ages(s)
      PROVE  Stays
  BY <1>5 DEF Ages, Stays, Aged
<1>6. ASSUME NEW s \in Session, Check(s)
      PROVE  Stays
  BY <1>1, <1>6 DEF Check
<1>7. ASSUME NEW s \in Session, NEW u \in User, LoginBegins(s, u)
      PROVE  Stays
  BY <1>1, <1>7 DEF LoginBegins
<1>8. ASSUME NEW s \in Session, NEW u \in User, LoginEnds(s, u)
      PROVE  Stays \/ LoginUser(s, u)
  BY <1>1, <1>8 DEF LoginEnds
<1>9. ASSUME NEW s \in Session, NEW u \in User, FormResumes(s, u)
      PROVE  Stays \/ Clears
  <2>1. Refreshed(stamp)
    BY DEF Refreshed
  <2>2. CASE AddAccount(u, TRUE, stamp)
    BY <2>1, <2>2, AddAccountSigned
  <2>3. QED
    BY <1>1, <1>9, <2>2 DEF FormResumes
<1>10. ASSUME NEW s \in Session, NEW u \in User, UpdateUser(s, u)
       PROVE  Clears
  <2>1. SignOut({u}, Touched(s)) /\ Refreshed(Touched(s))
    BY <1>10, Signs DEF UpdateUser
  <2>2. QED
    BY <2>1, SignOutClears
<1>11. ASSUME NEW s \in Session, NEW u \in User, NEW yes \in BOOLEAN, AddUser(s, u, yes)
       PROVE  Stays \/ Clears
  <2>1. Refreshed(Touched(s))
    BY <1>11, Signs DEF AddUser
  <2>2. CASE u \in system
    BY <1>11, <2>1, <2>2 DEF AddUser, Stays
  <2>3. CASE u \notin system
    BY <1>11, <2>1, <2>3, AddAccountSigned DEF AddUser
  <2>4. QED
    BY <2>2, <2>3
<1>12. ASSUME NEW s \in Session, NEW L \in SUBSET User, NEW apps \in BOOLEAN,
              SignedIn(s), Removes(s, L, apps)
       PROVE  Stays \/ Clears
  <2>1. Refreshed(Touched(s))
    BY <1>12, Signs
  <2>2. CASE apps
    BY <1>12, <2>1, <2>2 DEF Removes, Stays
  <2>3. CASE ~apps
    BY <1>12, <2>1, <2>3, SignOutClears DEF Removes, RemoveUsers
  <2>4. QED
    BY <2>2, <2>3
<1>13. ASSUME NEW s \in Session, NEW u \in User, NEW apps \in BOOLEAN, RemoveUser(s, u, apps)
       PROVE  Stays \/ Clears
  <2>1. \A L \in Listed(u) : L \in SUBSET User
    BY ListedType DEF TypeOK
  <2>2. QED
    BY <1>12, <1>13, <2>1 DEF RemoveUser
<1>14. ASSUME NEW s \in Session, NEW p \in Plan, NEW apps \in BOOLEAN, RemovePlan(s, p, apps)
       PROVE  Stays \/ Clears
  <2>1. UsersOf(p) \in SUBSET User
    BY ListedType, OwnerAssumption DEF TypeOK
  <2>2. QED
    BY <1>12, <1>14, <2>1 DEF RemovePlan
<1>15. ASSUME NEW s \in Session, NEW p \in Plan, AddPlan(s, p)
       PROVE  Stays
  BY <1>15, Signs DEF AddPlan, Stays
<1>16. ASSUME NEW s \in Session, Connect(s)
       PROVE  Ends \/ (MaySsh(s) /\ OpenTerminal(s))
  BY <1>16 DEF Connect
<1>17. ASSUME NEW L \in removals, AppsStopped(L)
       PROVE  Clears
  <2>1. L \in SUBSET User /\ Refreshed(stamp)
    BY DEF TypeOK, Refreshed
  <2>2. SignOut(L, stamp)
    BY <1>17 DEF AppsStopped, RemoveUsers
  <2>3. QED
    BY <2>1, <2>2, SignOutClears
<1>18. CASE Timer \/ JobEnds \/ Starts
  BY <1>1, <1>18 DEF Timer, JobEnds, Starts
<1>19. CASE Receive
  <2> DEFINE m == Head(channel)
  <2>1. CASE m = <<"free">>
    BY <1>1, <1>19, <2>1 DEF Receive
  <2>2. CASE m # <<"free">> /\ users[m[2]] # None
    <3>1. PICK s \in Session : m = <<"clearUser", s>>
      <4>1. 1 \in DOMAIN channel /\ m = channel[1]
        BY <1>19 DEF Receive, TypeOK, ToSet
      <4>2. m \in Message
        BY <4>1 DEF TypeOK, ToSet
      <4>3. QED
        BY <2>2, <4>2 DEF Message
    <3>2. m[2] = s
      BY <3>1
    <3>3. /\ ClearUsers({s}, stamp) /\ byHand' = byHand /\ users[s] # None
          /\ channel # <<>> /\ channel' = Tail(channel) /\ job' = job /\ isBusy' = isBusy
      BY <1>19, <2>2, <3>2 DEF Receive
    <3>4. Refreshed(stamp)
      BY DEF Refreshed
    <3>5. QED
      BY <3>1, <3>3, <3>4 DEF Clears
  <2>3. CASE m # <<"free">> /\ users[m[2]] = None
    BY <1>19, <2>3 DEF Receive
  <2>4. QED
    BY <2>1, <2>2, <2>3
<1>20. QED
  BY <1>2, <1>3, <1>4, <1>5, <1>6, <1>7, <1>8, <1>9, <1>10, <1>11, <1>13, <1>14, <1>15,
     <1>16, <1>17, <1>18, <1>19 DEF Next

\* What a step does to the thread and its messages.
LEMMA ThreadSteps ==
  ASSUME Next
  PROVE  UNCHANGED thread \/ Timer \/ (\E s \in Session : Check(s)) \/ JobEnds \/ Receive \/ Ends
<1>1. ASSUME NEW s \in Session,
             Request(s) \/ Logout(s) \/ Ask(s) \/ Answer(s) \/ Ages(s) \/ Connect(s) \/ KillTerminal(s)
      PROVE  UNCHANGED thread \/ Ends
  BY <1>1 DEF Request, Logout, Ask, Answer, Ages, Connect, OpenTerminal, KillTerminal
<1>2. ASSUME NEW s \in Session, NEW u \in User,
             LoginBegins(s, u) \/ LoginEnds(s, u) \/ FormResumes(s, u) \/ UpdateUser(s, u)
      PROVE  UNCHANGED thread
  BY <1>2 DEF LoginBegins, LoginEnds, FormResumes, UpdateUser
<1>3. ASSUME NEW s \in Session, NEW u \in User, NEW yes \in BOOLEAN,
             AddUser(s, u, yes) \/ RemoveUser(s, u, yes)
      PROVE  UNCHANGED thread
  BY <1>3 DEF AddUser, RemoveUser, Removes
<1>4. ASSUME NEW s \in Session, NEW p \in Plan, NEW apps \in BOOLEAN,
             AddPlan(s, p) \/ RemovePlan(s, p, apps)
      PROVE  UNCHANGED thread
  BY <1>4 DEF AddPlan, RemovePlan, Removes
<1>5. ASSUME NEW L \in removals, AppsStopped(L)
      PROVE  UNCHANGED thread
  BY <1>5 DEF AppsStopped
<1>6. ASSUME NEW c \in Shell, Exit(c)
      PROVE  UNCHANGED thread
  BY <1>6 DEF Exit
<1>7. CASE Starts \/ Uninstalled
  BY <1>7 DEF Starts, Uninstalled
<1>8. QED
  BY <1>1, <1>2, <1>3, <1>4, <1>5, <1>6, <1>7 DEF Next

-----------------------------------------------------------------------------
(* The inductive invariant.                                                *)

\* The thread is given a job when it has none and no message of it is left;
\* "free" is the last message of a job, and no session is asked for twice.
Orderly ==
    /\ ~isBusy => job = None /\ channel = <<>>
    /\ job # None => /\ isBusy
                     /\ \A i \in 1..Len(channel) : channel[i] # <<"free">>
                     /\ \A s \in job, i \in 1..Len(channel) : channel[i] # <<"clearUser", s>>
    /\ \A i \in 1..Len(channel) : channel[i] = <<"free">> => i = Len(channel)

\* A stamp or an entry of the table without a record is left by a failed login.
Explained ==
    \A s \in Session : stamp[s] # "none" => users[s] # None \/ s \in byHand

IInv == /\ TypeOK /\ Orderly /\ Explained
        /\ RecordIsWatched /\ SignedInHasAccount /\ AskedSessionIsThere /\ TerminalIsLive

\* A process that has just started, or ended, knows nothing.
Accounts == up \in BOOLEAN /\ db \subseteq User /\ plans \subseteq Plan /\ system \subseteq User

LEMMA EmptyInv == Empty /\ Accounts => IInv
<1> SUFFICES ASSUME Empty, Accounts PROVE IInv
  OBVIOUS
<1> USE OwnerAssumption DEF Empty, Accounts
<1>1. channel \in Seq(Message) /\ IsInjective(channel) /\ ToSet(channel) = {}
  BY DEF IsInjective, ToSet
<1>2. /\ users \in [Session -> User \cup {None}]
      /\ terminal \in [Session -> Shell \cup {None}]
      /\ stamp \in [Session -> {"none", "fresh", "old"}]
      /\ shells \in [Shell -> ShellState \cup {None}]
  OBVIOUS
<1>3. TypeOK
  BY <1>1, <1>2 DEF TypeOK
<1>4. Orderly /\ Explained /\ RecordIsWatched /\ SignedInHasAccount /\ TerminalIsLive
  BY DEF Orderly, Explained, RecordIsWatched, SignedInHasAccount, TerminalIsLive
<1>5. AskedSessionIsThere
  BY <1>1 DEF AskedSessionIsThere
<1>6. QED
  BY <1>3, <1>4, <1>5 DEF IInv

LEMMA InitInv == Init => IInv
  BY EmptyInv, OwnerAssumption DEF Init, Accounts

\* The parts of the type invariant.
ThreadType == /\ isBusy \in BOOLEAN /\ job \in (SUBSET Session) \cup {None}
              /\ channel \in Seq(Message) /\ IsInjective(channel)
OtherTypes == /\ up \in BOOLEAN /\ db \subseteq User /\ plans \subseteq Plan /\ system \subseteq User
              /\ logins \subseteq Session \X User /\ forms \subseteq Session \X User
              /\ removals \subseteq SUBSET User /\ asked \subseteq Session

LEMMA Parts == TypeOK <=> ThreadType /\ OtherTypes /\ Records
  BY OwnerAssumption DEF TypeOK, ThreadType, OtherTypes, Records

\* No step takes a name into the accounts that is none.
LEMMA AccountsType ==
  ASSUME TypeOK, Next
  PROVE  db' \subseteq User /\ plans' \subseteq Plan /\ system' \subseteq User
<1> USE DEF accounts, TypeOK
<1>1. ASSUME NEW s \in Session,
             Request(s) \/ Logout(s) \/ Ask(s) \/ Answer(s) \/ Ages(s) \/ Check(s)
               \/ Connect(s) \/ KillTerminal(s)
      PROVE  db' \subseteq User /\ plans' \subseteq Plan /\ system' \subseteq User
  BY <1>1 DEF Request, Logout, Ask, Answer, Ages, Check, Connect, OpenTerminal, KillTerminal
<1>2. ASSUME NEW s \in Session, NEW u \in User,
             LoginBegins(s, u) \/ LoginEnds(s, u) \/ UpdateUser(s, u)
      PROVE  db' \subseteq User /\ plans' \subseteq Plan /\ system' \subseteq User
  BY <1>2 DEF LoginBegins, LoginEnds, UpdateUser
<1>3. ASSUME NEW u \in User, NEW reuse \in BOOLEAN, NEW st, AddAccount(u, reuse, st)
      PROVE  db' \subseteq User /\ plans' \subseteq Plan /\ system' \subseteq User
  BY <1>3 DEF AddAccount, Drop
<1>4. ASSUME NEW s \in Session, NEW u \in User, FormResumes(s, u)
      PROVE  db' \subseteq User /\ plans' \subseteq Plan /\ system' \subseteq User
  BY <1>3, <1>4 DEF FormResumes
<1>5. ASSUME NEW s \in Session, NEW u \in User, NEW yes \in BOOLEAN,
             AddUser(s, u, yes) \/ RemoveUser(s, u, yes)
      PROVE  db' \subseteq User /\ plans' \subseteq Plan /\ system' \subseteq User
  BY <1>3, <1>5 DEF AddUser, RemoveUser, Removes, RemoveUsers, Drop
<1>6. ASSUME NEW s \in Session, NEW p \in Plan, NEW apps \in BOOLEAN,
              AddPlan(s, p) \/ RemovePlan(s, p, apps)
       PROVE  db' \subseteq User /\ plans' \subseteq Plan /\ system' \subseteq User
  BY <1>6 DEF AddPlan, RemovePlan, Removes, RemoveUsers, Drop
<1>7. ASSUME NEW L \in removals, AppsStopped(L)
      PROVE  db' \subseteq User /\ plans' \subseteq Plan /\ system' \subseteq User
  BY <1>7 DEF AppsStopped, RemoveUsers
<1>8. ASSUME NEW c \in Shell, Exit(c)
      PROVE  db' \subseteq User /\ plans' \subseteq Plan /\ system' \subseteq User
  BY <1>8 DEF Exit
<1>9. CASE Timer \/ JobEnds \/ Receive \/ Starts \/ Uninstalled
  BY <1>9 DEF Timer, JobEnds, Receive, Starts, Uninstalled
<1>10. QED
  BY <1>1, <1>2, <1>4, <1>5, <1>6, <1>7, <1>8, <1>9 DEF Next

\* What waits.
LEMMA OtherTypesKept ==
  ASSUME TypeOK, Next, ~Ends
  PROVE  OtherTypes'
<1> DEFINE Wait == /\ logins \subseteq Session \X User /\ forms \subseteq Session \X User
                   /\ removals \subseteq SUBSET User /\ asked \subseteq Session
                   /\ up \in BOOLEAN
<1> USE DEF waiting, TypeOK
<1>1. ASSUME NEW s \in Session,
             Request(s) \/ Logout(s) \/ Ask(s) \/ Answer(s) \/ Ages(s) \/ Check(s)
               \/ Connect(s) \/ KillTerminal(s)
      PROVE  Wait'
  BY <1>1 DEF Request, Logout, Ask, Answer, Ages, Check, Connect, OpenTerminal, KillTerminal
<1>2. ASSUME NEW s \in Session, NEW u \in User,
             LoginBegins(s, u) \/ LoginEnds(s, u) \/ UpdateUser(s, u) \/ FormResumes(s, u)
      PROVE  Wait'
  <2>1. CASE LoginBegins(s, u) \/ FormResumes(s, u)
    <3>1. logins' \subseteq Session \X User /\ forms' \subseteq Session \X User
      <4>1. <<s, u>> \in Session \X User
        OBVIOUS
      <4>2. logins' \in {logins, logins \cup {<<s, u>>}} /\ forms' \in {forms, forms \ {<<s, u>>}}
        BY <2>1 DEF LoginBegins, FormResumes
      <4>3. QED
        BY <4>1, <4>2
    <3>2. QED
      BY <2>1, <3>1 DEF LoginBegins, FormResumes
  <2>2. CASE LoginEnds(s, u) \/ UpdateUser(s, u)
    BY <2>2 DEF LoginEnds, UpdateUser
  <2>3. QED
    BY <1>2, <2>1, <2>2
<1>3. ASSUME NEW s \in Session, NEW u \in User, NEW yes \in BOOLEAN, AddUser(s, u, yes)
      PROVE  Wait'
  BY <1>3 DEF AddUser
<1>4. ASSUME NEW s \in Session, NEW L \in SUBSET User, NEW apps \in BOOLEAN, Removes(s, L, apps)
       PROVE  Wait'
  BY <1>4 DEF Removes
<1>5. ASSUME NEW s \in Session, NEW u \in User, NEW apps \in BOOLEAN, RemoveUser(s, u, apps)
      PROVE  Wait'
  BY <1>5, <1>4, ListedType DEF RemoveUser
<1>6. ASSUME NEW s \in Session, NEW p \in Plan, NEW apps \in BOOLEAN,
              AddPlan(s, p) \/ RemovePlan(s, p, apps)
       PROVE  Wait'
  <2>1. UsersOf(p) \in SUBSET User
    BY ListedType, OwnerAssumption
  <2>2. CASE AddPlan(s, p)
    BY <2>2 DEF AddPlan
  <2>3. QED
    BY <1>4, <1>6, <2>1, <2>2 DEF RemovePlan
<1>7. ASSUME NEW L \in removals, AppsStopped(L)
      PROVE  Wait'
  BY <1>7 DEF AppsStopped
<1>8. ASSUME NEW c \in Shell, Exit(c)
      PROVE  Wait'
  BY <1>8 DEF Exit
<1>9. ASSUME Timer \/ JobEnds \/ Receive \/ Starts \/ Uninstalled
      PROVE  Wait'
  BY <1>9 DEF Timer, JobEnds, Receive, Starts, Uninstalled
<1>10. Wait'
  BY <1>1, <1>2, <1>3, <1>5, <1>6, <1>7, <1>8, <1>9 DEF Next
<1>11. QED
  BY <1>10, AccountsType DEF OtherTypes

LEMMA EndsInv ==
  ASSUME TypeOK, Next, Ends
  PROVE  IInv'
<1>1. Accounts'
  BY AccountsType DEF Ends, Accounts
<1>2. Empty'
  BY DEF Ends, Empty
<1>3. (Empty /\ Accounts => IInv)'
  BY EmptyInv, PTL
<1>4. QED
  BY <1>1, <1>2, <1>3

LEMMA ThreadInv ==
  ASSUME TypeOK, Orderly, Next, ~Ends
  PROVE  ThreadType' /\ Orderly'
<1> USE OwnerAssumption
<1>0. ThreadType
  BY Parts
<1>1. CASE UNCHANGED thread
  BY <1>0, <1>1 DEF thread, ThreadType, Orderly
<1>2. CASE Timer
  <2>1. channel = <<>> /\ channel' = <<>> /\ job' = sessionIDs /\ isBusy'
    BY <1>2 DEF Timer, Orderly
  <2>2. QED
    BY <1>0, <2>1 DEF ThreadType, Orderly, TypeOK
<1>3. ASSUME NEW s \in Session, Check(s)
      PROVE  ThreadType' /\ Orderly'
  <2>1. CASE channel' = channel
    BY <1>0, <1>3, <2>1 DEF Check, ThreadType, Orderly
  <2> DEFINE m == <<"clearUser", s>>
  <2>2. CASE channel' = Append(channel, m)
    <3>1. m \in Message /\ m # <<"free">>
      BY DEF Message
    <3>2. channel' \in Seq(Message) /\ Len(channel') = Len(channel) + 1
      BY <1>0, <2>2, <3>1 DEF ThreadType
    <3>3. \A i \in 1..Len(channel') :
            channel'[i] = IF i = Len(channel') THEN m ELSE channel[i]
      BY <1>0, <2>2, <3>1 DEF ThreadType
    <3>4. job # None /\ s \in job /\ job' = job \ {s} /\ isBusy' = isBusy
      BY <1>3 DEF Check
    <3>5. \A i \in 1..Len(channel) : channel[i] # m /\ channel[i] # <<"free">>
      BY <3>4 DEF Orderly
    <3> HIDE DEF m
    <3>6. \A i, j \in 1..Len(channel') : channel'[i] = channel'[j] => i = j
      BY <1>0, <3>2, <3>3, <3>5 DEF ThreadType, IsInjective
    <3>7. ThreadType'
      BY <1>0, <3>2, <3>4, <3>6 DEF ThreadType, IsInjective
    <3>8. \A i \in 1..Len(channel') : channel'[i] # <<"free">>
      <4> SUFFICES ASSUME NEW i \in 1..Len(channel')
                   PROVE  channel'[i] # <<"free">>
        OBVIOUS
      <4>1. CASE i = Len(channel')
        BY <3>1, <3>3, <4>1
      <4>2. CASE i # Len(channel')
        <5>1. i \in 1..Len(channel) /\ channel'[i] = channel[i]
          BY <1>0, <3>2, <3>3, <4>2 DEF ThreadType
        <5>2. QED
          BY <3>5, <5>1
      <4>3. QED
        BY <4>1, <4>2
    <3>9. \A t \in job', i \in 1..Len(channel') : channel'[i] # <<"clearUser", t>>
      <4> SUFFICES ASSUME NEW t \in job', NEW i \in 1..Len(channel')
                   PROVE  channel'[i] # <<"clearUser", t>>
        OBVIOUS
      <4>1. t \in job /\ t # s
        BY <3>4
      <4>2. CASE i = Len(channel')
        BY <3>3, <4>1, <4>2 DEF m
      <4>3. CASE i # Len(channel')
        <5>1. i \in 1..Len(channel) /\ channel'[i] = channel[i]
          BY <1>0, <3>2, <3>3, <4>3 DEF ThreadType
        <5>2. QED
          BY <3>4, <4>1, <5>1 DEF Orderly
      <4>4. QED
        BY <4>2, <4>3
    <3>10. QED
      BY <3>4, <3>7, <3>8, <3>9 DEF Orderly
  <2>3. QED
    BY <1>3, <2>1, <2>2 DEF Check
<1>4. CASE JobEnds
  <2> DEFINE m == <<"free">>
  <2>1. m \in Message /\ channel' = Append(channel, m) /\ job' = None /\ job = {} /\ isBusy' = isBusy
    BY <1>4 DEF JobEnds, Message
  <2>2. channel' \in Seq(Message) /\ Len(channel') = Len(channel) + 1
    BY <1>0, <2>1 DEF ThreadType
  <2>3. \A i \in 1..Len(channel') :
          channel'[i] = IF i = Len(channel') THEN m ELSE channel[i]
    BY <1>0, <2>1 DEF ThreadType
  <2>4. job # None /\ isBusy /\ \A i \in 1..Len(channel) : channel[i] # m
    BY <2>1 DEF Orderly
  <2> HIDE DEF m
  <2>5. \A i, j \in 1..Len(channel') : channel'[i] = channel'[j] => i = j
    BY <1>0, <2>2, <2>3, <2>4 DEF ThreadType, IsInjective
  <2>6. ThreadType'
    BY <1>0, <2>1, <2>2, <2>5 DEF ThreadType, IsInjective
  <2>7. \A i \in 1..Len(channel') : channel'[i] = m => i = Len(channel')
    BY <1>0, <2>2, <2>3, <2>4 DEF ThreadType
  <2>8. QED
    BY <2>1, <2>4, <2>6, <2>7 DEF Orderly, m
<1>5. CASE Receive
  <2>1. channel # <<>> /\ channel' = Tail(channel) /\ job' = job
    BY <1>5 DEF Receive
  <2>2. /\ channel' \in Seq(Message) /\ Len(channel') = Len(channel) - 1
        /\ \A i \in 1..Len(channel') : i + 1 \in 1..Len(channel) /\ channel'[i] = channel[i + 1]
        /\ Len(channel) \in Nat /\ Len(channel) > 0 /\ Head(channel) = channel[1]
    BY <1>0, <2>1 DEF ThreadType
  <2>3. \A i, j \in 1..Len(channel') : channel'[i] = channel'[j] => i = j
    <3> SUFFICES ASSUME NEW i \in 1..Len(channel'), NEW j \in 1..Len(channel'),
                        channel'[i] = channel'[j]
                 PROVE  i = j
      OBVIOUS
    <3>1. i + 1 \in DOMAIN channel /\ j + 1 \in DOMAIN channel /\ channel[i + 1] = channel[j + 1]
      BY <1>0, <2>2 DEF ThreadType
    <3>2. i + 1 = j + 1
      BY <1>0, <3>1 DEF ThreadType, IsInjective
    <3>3. QED
      BY <3>2
  <2>4. CASE Head(channel) = <<"free">>
    <3>1. Len(channel) = 1
      BY <2>2, <2>4 DEF Orderly
    <3>2. channel' = <<>>
      BY <2>2, <3>1
    <3>3. job = None
      BY <2>2, <2>4 DEF Orderly
    <3>4. isBusy' = FALSE
      BY <1>5, <2>4 DEF Receive
    <3>5. QED
      <4>1. channel' \in Seq(Message) /\ IsInjective(channel')
        BY <2>2, <3>2 DEF IsInjective
      <4>2. ThreadType'
        BY <1>0, <2>1, <3>4, <4>1 DEF ThreadType
      <4>3. Len(channel') = 0
        BY <3>2
      <4>4. Orderly'
        BY <2>1, <3>2, <3>3, <3>4, <4>3 DEF Orderly
      <4>5. QED
        BY <4>2, <4>4
  <2>5. CASE Head(channel) # <<"free">>
    <3>1. isBusy' = isBusy /\ isBusy
      BY <1>5, <2>1, <2>5 DEF Receive, Orderly
    <3>2. ThreadType'
      BY <1>0, <2>1, <2>2, <2>3, <3>1 DEF ThreadType, IsInjective
    <3>3. \A i \in 1..Len(channel') : channel'[i] = <<"free">> => i = Len(channel')
      BY <2>2 DEF Orderly
    <3>4. job # None => \A i \in 1..Len(channel') : channel'[i] # <<"free">>
      BY <2>2 DEF Orderly
    <3>5. job # None => \A s \in job, i \in 1..Len(channel') : channel'[i] # <<"clearUser", s>>
      BY <2>2 DEF Orderly
    <3>6. QED
      BY <2>1, <3>1, <3>2, <3>3, <3>4, <3>5 DEF Orderly
  <2>6. QED
    BY <2>4, <2>5
<1>6. QED
  BY <1>1, <1>2, <1>3, <1>4, <1>5, ThreadSteps

-----------------------------------------------------------------------------
(* Invariants of the records.                                              *)

\* The invariants that relate the records to table, stamps and shells.
Kept == Records /\ Explained /\ RecordIsWatched /\ TerminalIsLive

\* What dropping the records of S leaves.
LEMMA Dropped ==
  ASSUME Records, TerminalIsLive, NEW S \in SUBSET Session, NEW told, DropRecords(S, told)
  PROVE  /\ terminal' \in [Session -> Shell \cup {None}]
         /\ shells' \in [Shell -> ShellState \cup {None}]
         /\ TerminalIsLive'
<1>1. ASSUME NEW c \in Shell
      PROVE  /\ shells'[c] \in ShellState \cup {None}
             /\ c \notin ShellsOf(S) => shells'[c] = shells[c]
  BY DEF DropRecords, Records, ShellsOf, ShellState
<1>2. shells' \in [Shell -> ShellState \cup {None}]
  BY <1>1 DEF DropRecords
<1>3. terminal' \in [Session -> Shell \cup {None}]
  BY DEF DropRecords, Records
<1>4. ASSUME NEW s \in Session, terminal'[s] # None
      PROVE  terminal'[s] \in ShellsOf({s})' /\ ~shells'[terminal'[s]].told
  <2>1. s \notin S /\ terminal'[s] = terminal[s]
    BY <1>4 DEF DropRecords
  <2>2. terminal[s] \in ShellsOf({s}) /\ ~shells[terminal[s]].told
    BY <1>4, <2>1 DEF TerminalIsLive
  <2>3. terminal[s] \in Shell /\ terminal[s] \notin ShellsOf(S)
    BY <2>1, <2>2 DEF ShellsOf
  <2>4. shells'[terminal[s]] = shells[terminal[s]]
    BY <1>1, <2>3
  <2>5. QED
    BY <2>1, <2>2, <2>4 DEF ShellsOf
<1>5. QED
  BY <1>2, <1>3, <1>4 DEF TerminalIsLive

LEMMA StampType ==
  ASSUME Records, NEW st, Refreshed(st) \/ Aged(st)
  PROVE  /\ st \in [Session -> {"none", "fresh", "old"}]
         /\ \A s \in Session : stamp[s] # "none" => st[s] # "none"
         /\ \A s \in Session : st[s] # "none" => stamp[s] # "none" \/ users[s] # None
  BY DEF Records, Refreshed, Aged, Touched

LEMMA StaysKept ==
  ASSUME Kept, Stays
  PROVE  Kept'
<1>1. PICK st : (Refreshed(st) \/ Aged(st)) /\ Keep(st)
  BY DEF Stays
<1> USE <1>1, StampType DEF Keep, Kept
<1>2. Records'
  BY DEF Records
<1>3. Explained' /\ RecordIsWatched'
  BY DEF Explained, RecordIsWatched
<1>4. TerminalIsLive'
  BY DEF TerminalIsLive, ShellsOf
<1>5. QED
  BY <1>2, <1>3, <1>4

LEMMA ClearsKept ==
  ASSUME Kept, Clears
  PROVE  Kept'
<1>0. PICK st : \E S \in SUBSET Session :
        /\ Refreshed(st) /\ ClearUsers(S, st) /\ \A s \in S : users[s] # None
        /\ byHand' \in {byHand, byHand \cup S}
  BY DEF Clears
<1>1. PICK S \in SUBSET Session :
        /\ Refreshed(st) /\ ClearUsers(S, st) /\ \A s \in S : users[s] # None
        /\ byHand' \in {byHand, byHand \cup S}
  BY <1>0
<1>2. DropRecords(S, {terminal[s] : s \in S} \ {None})
  BY <1>1 DEF ClearUsers
<1>3. /\ st \in [Session -> {"none", "fresh", "old"}]
      /\ \A s \in Session : stamp[s] # "none" => st[s] # "none"
      /\ \A s \in Session : st[s] # "none" => stamp[s] # "none" \/ users[s] # None
  BY <1>1, StampType DEF Kept
<1>4. /\ users' \in [Session -> User \cup {None}]
      /\ stamp' \in [Session -> {"none", "fresh", "old"}]
      /\ sessionIDs' \subseteq Session /\ byHand' \subseteq Session
  BY <1>1, <1>3 DEF ClearUsers, Kept, Records
<1>5. Records' /\ TerminalIsLive'
  BY <1>2, <1>4, Dropped DEF Kept, Records
<1>6. Explained' /\ RecordIsWatched'
  BY <1>1, <1>3 DEF ClearUsers, Kept, Explained, RecordIsWatched
<1>7. QED
  BY <1>5, <1>6 DEF Kept

LEMMA LoginKept ==
  ASSUME Kept, NEW s \in Session, NEW u \in User, LoginUser(s, u)
  PROVE  Kept'
<1>1. DropRecords({s}, {})
  BY DEF LoginUser
<1>2. /\ users' \in [Session -> User \cup {None}]
      /\ stamp' \in [Session -> {"none", "fresh", "old"}]
      /\ sessionIDs' \subseteq Session /\ byHand' \subseteq Session
  BY DEF LoginUser, Kept, Records, Touched
<1>3. Records' /\ TerminalIsLive'
  BY <1>1, <1>2, Dropped DEF Kept, Records
<1>4. Explained' /\ RecordIsWatched'
  BY DEF LoginUser, Kept, Records, Explained, RecordIsWatched, Touched
<1>5. QED
  BY <1>3, <1>4 DEF Kept

LEMMA ShellsKept ==
  ASSUME Kept, \/ \E s \in Session : (MaySsh(s) /\ OpenTerminal(s)) \/ KillTerminal(s)
               \/ \E c \in Shell : Exit(c)
  PROVE  Kept'
<1>1. ASSUME NEW s \in Session, MaySsh(s), OpenTerminal(s), terminal[s] = None
      PROVE  Kept'
  <2>1. PICK c \in Shell :
          /\ shells[c] = None
          /\ shells' = [shells EXCEPT ![c] = [owner |-> s, told |-> FALSE]]
          /\ terminal' = [terminal EXCEPT ![s] = c]
    BY <1>1 DEF OpenTerminal
  <2>2. Records'
    BY <1>1, <2>1 DEF OpenTerminal, MaySsh, Touched, Kept, Records, ShellState
  <2>3. Explained' /\ RecordIsWatched'
    BY <1>1 DEF OpenTerminal, MaySsh, SignedIn, Touched, Kept, Records, Explained, RecordIsWatched
  <2>4. ASSUME NEW t \in Session, terminal'[t] # None
        PROVE  terminal'[t] \in ShellsOf({t})' /\ ~shells'[terminal'[t]].told
    <3>1. CASE t = s
      <4>1. terminal'[t] = c
        BY <2>1, <3>1 DEF Kept, Records
      <4>2. shells'[c] = [owner |-> s, told |-> FALSE]
        BY <2>1 DEF Kept, Records
      <4>3. shells'[c] # None
        <5>1. shells'[c] \in ShellState
          BY <4>2 DEF ShellState
        <5>2. QED
          BY <5>1, OwnerAssumption
      <4>4. QED
        BY <3>1, <4>1, <4>2, <4>3 DEF ShellsOf
    <3>2. CASE t # s
      <4>1. terminal'[t] = terminal[t] /\ terminal[t] \in ShellsOf({t}) /\ ~shells[terminal[t]].told
        BY <2>1, <2>4, <3>2 DEF Kept, TerminalIsLive, Records
      <4>2. terminal[t] \in Shell /\ terminal[t] # c
        BY <2>1, <4>1 DEF ShellsOf
      <4>3. shells'[terminal[t]] = shells[terminal[t]]
        BY <2>1, <4>2 DEF Kept, Records
      <4>4. QED
        BY <4>1, <4>3 DEF ShellsOf
    <3>3. QED
      BY <3>1, <3>2
  <2>5. QED
    BY <2>2, <2>3, <2>4 DEF Kept, TerminalIsLive
<1>2. ASSUME NEW s \in Session, terminal[s] # None, SignedIn(s), stamp' = Touched(s),
             shells' = [shells EXCEPT ![terminal[s]].told = TRUE],
             terminal' = [terminal EXCEPT ![s] = None],
             UNCHANGED <<users, sessionIDs, byHand>>
      PROVE  Kept'
  <2>1. terminal[s] \in Shell /\ shells[terminal[s]] \in ShellState /\ shells[terminal[s]].owner = s
    BY <1>2 DEF Kept, TerminalIsLive, Records, ShellsOf
  <2>2. Records'
    <3>1. [shells[terminal[s]] EXCEPT !.told = TRUE] \in ShellState
      BY <2>1 DEF ShellState
    <3>2. shells' = [shells EXCEPT ![terminal[s]] = [shells[terminal[s]] EXCEPT !.told = TRUE]]
      BY <1>2
    <3>3. shells' \in [Shell -> ShellState \cup {None}]
      BY <2>1, <3>1, <3>2 DEF Kept, Records
    <3>4. QED
      BY <1>2, <3>3 DEF Touched, Kept, Records
  <2>3. Explained' /\ RecordIsWatched'
    BY <1>2 DEF SignedIn, Touched, Kept, Records, Explained, RecordIsWatched
  <2>4. ASSUME NEW t \in Session, terminal'[t] # None
        PROVE  terminal'[t] \in ShellsOf({t})' /\ ~shells'[terminal'[t]].told
    <3>1. t # s /\ terminal'[t] = terminal[t]
      BY <1>2, <2>4 DEF Kept, Records
    <3>2. terminal[t] \in ShellsOf({t}) /\ ~shells[terminal[t]].told
      BY <2>4, <3>1 DEF Kept, TerminalIsLive
    <3>3. terminal[t] \in Shell /\ terminal[t] # terminal[s]
      BY <2>1, <3>1, <3>2 DEF ShellsOf
    <3>4. shells'[terminal[t]] = shells[terminal[t]]
      BY <1>2, <2>1, <3>3 DEF Kept, Records
    <3>5. QED
      BY <3>1, <3>2, <3>4 DEF ShellsOf
  <2>5. QED
    BY <2>2, <2>3, <2>4 DEF Kept, TerminalIsLive
<1>3. ASSUME NEW s \in Session, MaySsh(s), OpenTerminal(s), terminal[s] # None
      PROVE  Kept'
  BY <1>2, <1>3 DEF OpenTerminal, MaySsh
<1>4. ASSUME NEW s \in Session, KillTerminal(s)
      PROVE  Kept'
  BY <1>2, <1>4 DEF KillTerminal
<1>5. ASSUME NEW c \in Shell, Exit(c)
      PROVE  Kept'
  <2>1. Records'
    BY <1>5 DEF Exit, Kept, Records
  <2>2. Explained' /\ RecordIsWatched'
    BY <1>5 DEF Exit, Kept, Explained, RecordIsWatched
  <2>3. ASSUME NEW t \in Session, terminal'[t] # None
        PROVE  terminal'[t] \in ShellsOf({t})' /\ ~shells'[terminal'[t]].told
    <3>1. terminal'[t] = terminal[t] /\ c \notin ShellsOf({t})
      BY <1>5, <2>3 DEF Exit
    <3>2. terminal[t] \in ShellsOf({t}) /\ ~shells[terminal[t]].told
      BY <2>3, <3>1 DEF Kept, TerminalIsLive
    <3>3. terminal[t] \in Shell /\ terminal[t] # c
      BY <3>1, <3>2 DEF ShellsOf
    <3>4. shells'[terminal[t]] = shells[terminal[t]]
      BY <1>5, <3>3 DEF Exit, Kept, Records
    <3>5. QED
      BY <3>1, <3>2, <3>4 DEF ShellsOf
  <2>4. QED
    BY <2>1, <2>2, <2>3 DEF Kept, TerminalIsLive
<1>6. QED
  BY <1>1, <1>3, <1>4, <1>5

LEMMA UninstalledKept ==
  ASSUME Kept, Uninstalled
  PROVE  Kept'
<1> DEFINE S == {s \in Session : users[s] # None}
<1>1. DropRecords(S, {}) /\ S \in SUBSET Session
  BY DEF Uninstalled
<1>2. /\ users' \in [Session -> User \cup {None}]
      /\ stamp' \in [Session -> {"none", "fresh", "old"}]
      /\ sessionIDs' \subseteq Session /\ byHand' \subseteq Session
  BY DEF Uninstalled, Kept, Records
<1>3. Records' /\ TerminalIsLive'
  BY <1>1, <1>2, Dropped DEF Kept, Records
<1>4. Explained' /\ RecordIsWatched'
  BY DEF Uninstalled, Kept, Explained, RecordIsWatched
<1>5. QED
  BY <1>3, <1>4 DEF Kept

LEMMA NextKept ==
  ASSUME TypeOK, Kept, Next, ~Ends
  PROVE  Kept'
  BY SignedSteps, StaysKept, ClearsKept, LoginKept, ShellsKept, UninstalledKept

\* A session with a record keeps its account: only removeUsers and a login
\* change what is compared, and the one clears the sessions, the other asks.
LEMMA AccountKept ==
  ASSUME TypeOK, SignedInHasAccount, Next, ~Ends
  PROVE  SignedInHasAccount'
<1> USE DEF SignedInHasAccount
<1>1. ASSUME NEW st, Keep(st), system \subseteq system'
      PROVE  SignedInHasAccount'
  BY <1>1 DEF Keep
<1>2. ASSUME NEW L \in SUBSET User, NEW st, SignOut(L, st), system \ L \subseteq system'
      PROVE  SignedInHasAccount'
  BY <1>2 DEF SignOut, SessionsOf, ClearUsers
<1>3. ASSUME UNCHANGED users, system \subseteq system'
      PROVE  SignedInHasAccount'
  BY <1>3
<1>4. ASSUME NEW s \in Session,
             Request(s) \/ Ask(s) \/ Ages(s) \/ Check(s) \/ Connect(s) \/ KillTerminal(s)
      PROVE  SignedInHasAccount'
  BY <1>3, <1>4 DEF Request, Ask, Ages, Check, Connect, OpenTerminal, KillTerminal, Keep, accounts,
     signed
<1>5. ASSUME NEW s \in Session, Logout(s) \/ Answer(s)
      PROVE  SignedInHasAccount'
  BY <1>5 DEF Logout, Answer, ClearUsers, Keep, accounts
<1>6. ASSUME NEW u \in User, NEW reuse \in BOOLEAN, NEW st, AddAccount(u, reuse, st)
      PROVE  SignedInHasAccount'
  <2>1. system \subseteq system'
    BY <1>6 DEF AddAccount, accounts
  <2>2. Keep(st) \/ SignOut({u}, st)
    BY <1>6 DEF AddAccount
  <2>3. QED
    BY <1>1, <1>2, <2>1, <2>2
<1>7. ASSUME NEW s \in Session, NEW u \in User,
             LoginBegins(s, u) \/ LoginEnds(s, u) \/ FormResumes(s, u) \/ UpdateUser(s, u)
      PROVE  SignedInHasAccount'
  <2>1. CASE LoginBegins(s, u)
    BY <1>3, <2>1 DEF LoginBegins, accounts, signed
  <2>2. CASE LoginEnds(s, u)
    BY <2>2 DEF LoginEnds, LoginUser, accounts, signed, TypeOK
  <2>3. CASE FormResumes(s, u)
    BY <1>3, <1>6, <2>3 DEF FormResumes, accounts, signed
  <2>4. CASE UpdateUser(s, u)
    BY <1>2, <2>4 DEF UpdateUser, accounts
  <2>5. QED
    BY <1>7, <2>1, <2>2, <2>3, <2>4
<1>8. ASSUME NEW s \in Session, NEW u \in User, NEW yes \in BOOLEAN, AddUser(s, u, yes)
      PROVE  SignedInHasAccount'
  BY <1>1, <1>6, <1>8 DEF AddUser, accounts
<1>9. ASSUME NEW L \in SUBSET User, NEW st, RemoveUsers(L, st)
      PROVE  SignedInHasAccount'
  BY <1>2, <1>9 DEF RemoveUsers
<1>10. ASSUME NEW s \in Session, NEW L \in SUBSET User, NEW apps \in BOOLEAN, Removes(s, L, apps)
       PROVE  SignedInHasAccount'
  BY <1>1, <1>9, <1>10 DEF Removes
<1>11. ASSUME NEW s \in Session, NEW u \in User, NEW apps \in BOOLEAN, RemoveUser(s, u, apps)
       PROVE  SignedInHasAccount'
  <2>1. \A L \in Listed(u) : L \in SUBSET User
    BY ListedType DEF TypeOK
  <2>2. QED
    BY <1>10, <1>11, <2>1 DEF RemoveUser
<1>12. ASSUME NEW s \in Session, NEW p \in Plan, NEW apps \in BOOLEAN,
              AddPlan(s, p) \/ RemovePlan(s, p, apps)
       PROVE  SignedInHasAccount'
  <2>1. UsersOf(p) \in SUBSET User
    BY ListedType, OwnerAssumption DEF TypeOK
  <2>2. CASE AddPlan(s, p)
    BY <1>1, <2>2 DEF AddPlan
  <2>3. QED
    BY <1>10, <1>12, <2>1, <2>2 DEF RemovePlan
<1>13. CASE Uninstalled
  BY <1>13 DEF Uninstalled
<1>14. ASSUME NEW L \in removals, AppsStopped(L)
       PROVE  SignedInHasAccount'
  BY <1>9, <1>14 DEF AppsStopped, TypeOK
<1>15. ASSUME NEW c \in Shell, Exit(c)
       PROVE  SignedInHasAccount'
  BY <1>3, <1>15 DEF Exit, accounts
<1>16. CASE Timer \/ JobEnds \/ Starts
  BY <1>3, <1>16 DEF Timer, JobEnds, Starts, accounts, signed
<1>17. CASE Receive
  BY <1>17 DEF Receive, ClearUsers, accounts, signed
<1>18. QED
  BY <1>4, <1>5, <1>7, <1>8, <1>11, <1>12, <1>13, <1>14, <1>15, <1>16, <1>17 DEF Next

\* The thread asks only for sessions that have a record; from then on a record
\* goes by hand, or with the message itself.
LEMMA AskedKept ==
  ASSUME IInv, Next, ~Ends
  PROVE  AskedSessionIsThere'
<1> USE OwnerAssumption
<1> DEFINE There(s) == users[s] # None \/ s \in byHand
           Asks(s)  == \E i \in 1..Len(channel) : channel[i] = <<"clearUser", s>>
<1>1. TypeOK /\ Orderly /\ Records /\ ThreadType /\ channel \in Seq(Message)
  BY Parts DEF IInv, ThreadType
<1>2. ThreadType' /\ channel' \in Seq(Message)
  BY <1>1, ThreadInv DEF ThreadType
<1>3. \A s \in Session : <<"clearUser", s>> \in ToSet(channel) <=> Asks(s)
  <2>1. DOMAIN channel = 1..Len(channel)
    BY <1>1
  <2>2. QED
    BY <2>1 DEF ToSet
<1>4. \A s \in Session : (<<"clearUser", s>> \in ToSet(channel))' <=> Asks(s)'
  <2>1. DOMAIN channel' = 1..Len(channel')
    BY <1>2
  <2>2. QED
    BY <2>1 DEF ToSet
<1>5. \A s \in Session : Asks(s) => There(s)
  BY <1>3 DEF IInv, AskedSessionIsThere
<1>6. SUFFICES ASSUME NEW s \in Session, Asks(s)'
               PROVE  There(s)'
  BY <1>4 DEF AskedSessionIsThere
<1>7. CASE There(s)
  <2>1. CASE Stays
    BY <1>7, <2>1 DEF Stays, Keep
  <2>2. CASE Clears
    <3>0. PICK st : \E S \in SUBSET Session :
            /\ ClearUsers(S, st)
            /\ \/ byHand' = byHand \cup S
               \/ byHand' = byHand /\ \E t \in Session :
                     S = {t} /\ channel # <<>> /\ Head(channel) = <<"clearUser", t>>
                             /\ channel' = Tail(channel)
      BY <2>2 DEF Clears
    <3>1. PICK S \in SUBSET Session :
            /\ ClearUsers(S, st)
            /\ \/ byHand' = byHand \cup S
               \/ byHand' = byHand /\ \E t \in Session :
                     S = {t} /\ channel # <<>> /\ Head(channel) = <<"clearUser", t>>
                             /\ channel' = Tail(channel)
      BY <3>0
    <3>2. CASE s \notin S \/ byHand' = byHand \cup S
      BY <1>7, <3>1, <3>2 DEF ClearUsers
    <3>3. CASE s \in S /\ byHand' = byHand
      <4>1. CASE byHand' = byHand \cup S
        BY <3>2, <4>1
      <4>2. CASE S = {s} /\ channel # <<>> /\ Head(channel) = <<"clearUser", s>>
                   /\ channel' = Tail(channel)
        <5>1. /\ Len(channel) \in Nat /\ Len(channel) > 0 /\ channel[1] = <<"clearUser", s>>
              /\ \A i \in 1..Len(channel') : i + 1 \in 1..Len(channel) /\ channel'[i] = channel[i + 1]
          BY <1>1, <4>2
        <5>2. PICK i \in 1..Len(channel') : channel'[i] = <<"clearUser", s>>
          BY <1>6
        <5>3. i + 1 \in DOMAIN channel /\ 1 \in DOMAIN channel /\ channel[i + 1] = channel[1]
          BY <1>1, <5>1, <5>2
        <5>4. i + 1 = 1
          BY <1>1, <5>3 DEF ThreadType, IsInjective
        <5>5. Len(channel') \in Nat
          BY <1>2
        <5>6. QED
          BY <5>2, <5>4, <5>5
      <4>3. QED
        BY <3>1, <3>3, <4>1, <4>2
    <3>4. QED
      BY <3>1, <3>2, <3>3
  <2>3. ASSUME NEW t \in Session, NEW u \in User, LoginUser(t, u)
        PROVE  There(s)'
    BY <1>1, <1>7, <2>3 DEF LoginUser, Records
  <2>4. ASSUME \/ \E t \in Session : OpenTerminal(t) \/ KillTerminal(t)
               \/ \E c \in Shell : Exit(c)
        PROVE  There(s)'
    BY <1>7, <2>4 DEF OpenTerminal, KillTerminal, Exit
  <2>5. CASE Uninstalled
    BY <1>7, <2>5 DEF Uninstalled
  <2>6. QED
    BY <1>1, <2>1, <2>2, <2>3, <2>4, <2>5, SignedSteps
<1>8. CASE ~There(s)
  <2>1. ~Asks(s)
    BY <1>5, <1>8
  <2>2. CASE UNCHANGED thread
    BY <1>6, <2>1, <2>2 DEF thread
  <2>3. CASE Timer
    BY <1>6, <2>1, <2>3 DEF Timer
  <2>4. ASSUME NEW t \in Session, Check(t)
        PROVE  FALSE
    <3>1. CASE channel' = channel
      BY <1>6, <2>1, <3>1
    <3>2. CASE stamp[t] = "old" /\ channel' = Append(channel, <<"clearUser", t>>)
      <4>1. t # s
        BY <1>8, <3>2 DEF IInv, Explained
      <4>2. PICK i \in 1..Len(channel') : channel'[i] = <<"clearUser", s>>
        BY <1>6
      <4>3. i \in 1..Len(channel) /\ channel'[i] = channel[i]
        <5>1. Len(channel') = Len(channel) + 1 /\ Len(channel) \in Nat
          BY <1>1, <3>2
        <5>2. i = Len(channel') => channel'[i] = <<"clearUser", t>>
          BY <1>1, <3>2, <5>1
        <5>3. i # Len(channel')
          BY <4>1, <4>2, <5>2
        <5>4. QED
          BY <1>1, <3>2, <5>1, <5>3
      <4>4. QED
        BY <2>1, <4>2, <4>3
    <3>3. QED
      BY <2>4, <3>1, <3>2 DEF Check
  <2>5. CASE JobEnds
    <3>1. channel' = Append(channel, <<"free">>) /\ Len(channel) \in Nat
      BY <1>1, <2>5 DEF JobEnds
    <3>2. PICK i \in 1..Len(channel') : channel'[i] = <<"clearUser", s>>
      BY <1>6
    <3>3. i = Len(channel) + 1 => channel'[i] = <<"free">>
      BY <1>1, <3>1
    <3>4. i \in 1..Len(channel) /\ channel'[i] = channel[i]
      BY <1>1, <3>1, <3>2, <3>3
    <3>5. QED
      BY <2>1, <3>2, <3>4
  <2>6. CASE Receive
    <3>1. channel # <<>> /\ channel' = Tail(channel)
      BY <2>6 DEF Receive
    <3>2. \A i \in 1..Len(channel') : i + 1 \in 1..Len(channel) /\ channel'[i] = channel[i + 1]
      BY <1>1, <3>1
    <3>3. QED
      BY <1>6, <2>1, <3>2
  <2>7. QED
    BY <2>2, <2>3, <2>4, <2>5, <2>6, ThreadSteps
<1>9. QED
  BY <1>7, <1>8

-----------------------------------------------------------------------------
(* The theorems.                                                           *)

LEMMA NextInv == IInv /\ [Next]_vars => IInv'
<1> SUFFICES ASSUME IInv, [Next]_vars PROVE IInv'
  OBVIOUS
<1> USE DEF IInv
<1>1. CASE Next /\ ~Ends
  <2>1. Kept
    BY Parts DEF Kept
  <2>2. Kept'
    BY <1>1, <2>1, NextKept
  <2>3. ThreadType' /\ Orderly'
    BY <1>1, ThreadInv
  <2>4. (TypeOK <=> ThreadType /\ OtherTypes /\ Records)'
    BY Parts, PTL
  <2>5. TypeOK'
    BY <1>1, <2>2, <2>3, <2>4, OtherTypesKept DEF Kept
  <2>6. SignedInHasAccount' /\ AskedSessionIsThere'
    BY <1>1, AccountKept, AskedKept
  <2>7. QED
    BY <2>2, <2>3, <2>5, <2>6 DEF Kept
<1>2. CASE Next /\ Ends
  BY <1>2, EndsInv
<1>3. CASE UNCHANGED vars
  <2>1. UNCHANGED <<up, users, terminal, sessionIDs, stamp, shells, byHand, db, plans, system,
                    isBusy, job, channel, logins, forms, removals, asked>>
    BY <1>3 DEF vars, signed, accounts, thread, waiting
  <2>2. QED
    BY <2>1 DEF TypeOK, Orderly, Explained, RecordIsWatched, SignedInHasAccount,
       AskedSessionIsThere, TerminalIsLive, ShellsOf
<1>4. QED
  BY <1>1, <1>2, <1>3

LEMMA Invariance == Spec => []IInv
  BY InitInv, NextInv, PTL DEF Spec

\* Records, table, stamps, jobs, messages and shells have their types, and no
\* message is sent twice.
THEOREM TypeCorrect == Spec => []TypeOK
<1>1. IInv => TypeOK
  BY DEF IInv
<1>2. QED
  BY <1>1, Invariance, PTL

\* No session escapes the scheduler.
THEOREM Watched == Spec => []RecordIsWatched
<1>1. IInv => RecordIsWatched
  BY DEF IInv
<1>2. QED
  BY <1>1, Invariance, PTL

\* Nobody is signed in with an account the system has no longer.
THEOREM HasAccount == Spec => []SignedInHasAccount
<1>1. IInv => SignedInHasAccount
  BY DEF IInv
<1>2. QED
  BY <1>1, Invariance, PTL

\* The scheduler by itself never asks for a session that is gone.
THEOREM AskedIsThere == Spec => []AskedSessionIsThere
<1>1. IInv => AskedSessionIsThere
  BY DEF IInv
<1>2. QED
  BY <1>1, Invariance, PTL

\* Input never goes to a shell of the past.
THEOREM TerminalLives == Spec => []TerminalIsLive
<1>1. IInv => TerminalIsLive
  BY DEF IInv
<1>2. QED
  BY <1>1, Invariance, PTL

\* No step but a login, the exit of another shell and an uninstallation leaves a
\* shell behind.
LEMMA StepLeavesNone ==
  ASSUME IInv, Next, NEW c \in Shell, Attended(c), shells'[c] # None,
         ~ \E s \in Session, u \in User : LoginEnds(s, u),
         ~ \E d \in Shell \ {c} : Exit(d), ~Uninstalled
  PROVE  Attended(c)'
<1> USE DEF Attended
<1>1. Records /\ TerminalIsLive /\ TypeOK /\ shells[c] # None /\ shells[c] \in ShellState
  BY Parts DEF IInv, Records
<1>2. CASE Stays
  BY <1>2 DEF Stays, Keep
<1>3. CASE Clears
  <2>1. PICK S \in SUBSET Session : DropRecords(S, {terminal[s] : s \in S} \ {None})
    BY <1>3 DEF Clears, ClearUsers
  <2> DEFINE told == {terminal[s] : s \in S} \ {None}
  <2>2. shells[c].told \/ (c \in ShellsOf(S) /\ c \in told) => shells'[c].told
    <3>1. CASE c \in ShellsOf(S)
      <4>1. shells'[c] = [shells[c] EXCEPT !.owner = None, !.told = @ \/ c \in told]
        BY <2>1, <3>1 DEF DropRecords
      <4>2. shells'[c].told = (shells[c].told \/ c \in told)
        BY <1>1, <4>1 DEF ShellState
      <4>3. QED
        BY <4>2
    <3>2. CASE c \notin ShellsOf(S)
      <4>1. shells'[c] = shells[c]
        BY <2>1, <3>2 DEF DropRecords
      <4>2. QED
        BY <3>2, <4>1
    <3>3. QED
      BY <3>1, <3>2
  <2>3. CASE shells[c].told
    BY <2>2, <2>3
  <2>4. ASSUME NEW s \in Session, terminal[s] = c
        PROVE  Attended(c)'
    <3>1. CASE s \in S
      <4>1. c # None /\ c \in ShellsOf({s})
        BY <1>1, <2>4 DEF Records, TerminalIsLive
      <4>2. c \in ShellsOf(S) /\ c \in told
        BY <2>4, <3>1, <4>1 DEF ShellsOf
      <4>3. QED
        BY <2>2, <4>2
    <3>2. CASE s \notin S
      BY <2>1, <2>4, <3>2 DEF DropRecords
    <3>3. QED
      BY <3>1, <3>2
  <2>5. QED
    BY <2>3, <2>4
<1>4. CASE Ends
  BY <1>4 DEF Ends
<1>5. ASSUME NEW s \in Session, OpenTerminal(s), terminal[s] = None
      PROVE  Attended(c)'
  <2>1. PICK d \in Shell :
          /\ shells[d] = None
          /\ shells' = [shells EXCEPT ![d] = [owner |-> s, told |-> FALSE]]
          /\ terminal' = [terminal EXCEPT ![s] = d]
    BY <1>5 DEF OpenTerminal
  <2>2. shells'[c] = shells[c]
    BY <1>1, <2>1 DEF Records
  <2>3. \A t \in Session : terminal[t] = c => terminal'[t] = c
    BY <1>1, <1>5, <2>1 DEF Records
  <2>4. QED
    BY <2>2, <2>3
<1>6. ASSUME NEW s \in Session, terminal[s] # None,
             shells' = [shells EXCEPT ![terminal[s]].told = TRUE],
             terminal' = [terminal EXCEPT ![s] = None]
      PROVE  Attended(c)'
  <2>1. CASE c = terminal[s]
    BY <1>1, <1>6, <2>1 DEF Records, ShellState
  <2>2. CASE c # terminal[s]
    BY <1>1, <1>6, <2>2 DEF Records
  <2>3. QED
    BY <2>1, <2>2
<1>7. ASSUME NEW s \in Session, OpenTerminal(s) \/ KillTerminal(s)
      PROVE  Attended(c)'
  BY <1>5, <1>6, <1>7 DEF OpenTerminal, KillTerminal
<1>8. CASE Exit(c)
  BY <1>1, <1>8 DEF Exit, Records
<1>9. QED
  BY <1>1, <1>2, <1>3, <1>4, <1>7, <1>8, SignedSteps

\* Time-out, logout, removal of the account and reconnecting never leave a
\* shell that runs unattended.
THEOREM ShellsAttended == Spec => NoShellLeftBehind
<1> DEFINE Left == \A c \in Shell : Attended(c) /\ shells'[c] # None /\ ~Attended(c)' =>
          \/ \E s \in Session, u \in User : LoginEnds(s, u)
          \/ \E d \in Shell \ {c} : Exit(d)
          \/ Uninstalled
<1>1. IInv /\ Next => Left
  BY StepLeavesNone
<1>2. IInv /\ [Next]_vars => [Left]_vars
  BY <1>1
<1>3. QED
  BY <1>2, Invariance, PTL DEF Spec, NoShellLeftBehind
=============================================================================
