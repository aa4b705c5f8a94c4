------------------------- MODULE HostingTree_proofs --------------------------
(* Proofs about HostingTree, for all names and values.                     *)
EXTENDS HostingTree, FiniteSetTheorems, WellFoundedInduction, TLAPS

-----------------------------------------------------------------------------
(* Maps stay maps when a record is stored, deleted or replaced.            *)

\* Put stores a record of the right shape under a name.
LEMMA PutMap ==
  ASSUME NEW f, NEW S, NEW R, NEW k \in S, NEW v \in R, IsMap(f, S, R)
  PROVE  IsMap(Put(f, k, v), S, R)
  BY DEF IsMap, Put

\* Without deletes names and keeps the other records.
LEMMA WithoutMap ==
  ASSUME NEW f, NEW S, NEW R, NEW T, IsMap(f, S, R)
  PROVE  IsMap(Without(f, T), S, R)
  BY DEF IsMap, Without

-----------------------------------------------------------------------------
(* Type correctness, one lemma for each group of actions.                  *)

\* The empty database has the type.
LEMMA InitType == Init => TypeOK
  BY DEF Init, TypeOK, Empty, IsMap

\* The plan form's handler builds a plan record.
LEMMA NewPlanType ==
  ASSUME NEW owner \in UserNames, NEW opts \in Submissions
  PROVE  NewPlan(owner, opts) \in PlanRecord
  BY ValuesAssumption DEF NewPlan, PlanRecord

\* tryLogin builds a plan record.
LEMMA UnlimitedPlanType ==
  ASSUME NEW u \in UserNames
  PROVE  UnlimitedPlan(u) \in PlanRecord
<1>1. [o \in {} |-> 0] \in [{} -> Maxima]
  OBVIOUS
<1>2. QED
  BY <1>1 DEF UnlimitedPlan, PlanRecord

\* The user form's handler builds a user record.
LEMMA NewUserType ==
  ASSUME NEW plan \in PlanNames
  PROVE  NewUser(plan) \in UserRecord
  BY DEF NewUser, UserRecord

\* Adding keeps the type.
LEMMA AddType ==
  ASSUME TypeOK, AddSomething
  PROVE  TypeOK'
<1> USE DEF TypeOK
<1>1. ASSUME NEW u \in UserNames, FirstLogin(u)
      PROVE  TypeOK'
  <2>1. IsMap(Plans', PlanNames, PlanRecord)
    BY <1>1, PutMap, UnlimitedPlanType, NamesAssumption DEF FirstLogin
  <2>2. IsMap(Users', UserNames, UserRecord)
    BY <1>1, PutMap, NewUserType, NamesAssumption DEF FirstLogin
  <2>3. QED
    BY <1>1, <2>1, <2>2 DEF FirstLogin
<1>2. ASSUME NEW me \in DOMAIN Users, NEW name \in PlanNames,
             NEW opts \in Submissions, AddPlan(me, name, opts)
      PROVE  TypeOK'
  <2>1. me \in UserNames
    BY DEF IsMap
  <2>2. IsMap(Plans', PlanNames, PlanRecord)
    BY <1>2, <2>1, PutMap, NewPlanType DEF AddPlan
  <2>3. IsMap(Users', UserNames, UserRecord)
    BY <1>2 DEF AddPlan, IsMap, UserRecord
  <2>4. QED
    BY <1>2, <2>2, <2>3 DEF AddPlan
<1>3. ASSUME NEW me \in DOMAIN Users, NEW plan \in PlanNames,
             NEW name \in UserNames, AddUser(me, plan, name)
      PROVE  TypeOK'
  <2>1. IsMap(Plans', PlanNames, PlanRecord)
    BY <1>3 DEF AddUser, IsMap, PlanRecord
  <2>2. IsMap(Users', UserNames, UserRecord)
    BY <1>3, PutMap, NewUserType DEF AddUser
  <2>3. QED
    BY <1>3, <2>1, <2>2 DEF AddUser
<1>4. ASSUME NEW me \in DOMAIN Users, NEW name \in DomainNames, AddDomain(me, name)
      PROVE  TypeOK'
  <2>1. IsMap(Users', UserNames, UserRecord)
    BY <1>4 DEF AddDomain, IsMap, UserRecord
  <2>2. [owner |-> me] \in DomainRecord
    BY DEF IsMap, DomainRecord
  <2>3. IsMap(Domains', DomainNames, DomainRecord)
    BY <1>4, <2>2, PutMap DEF AddDomain
  <2>4. QED
    BY <1>4, <2>1, <2>3 DEF AddDomain
<1>5. QED
  BY <1>1, <1>2, <1>3, <1>4 DEF AddSomething

\* Removing keeps the type.
LEMMA RemoveType ==
  ASSUME TypeOK, RemoveSomething
  PROVE  TypeOK'
<1> USE DEF TypeOK
<1>1. ASSUME NEW me \in DOMAIN Users, NEW name \in DomainNames, DeleteDomain(me, name)
      PROVE  TypeOK'
  <2>1. IsMap(Users', UserNames, UserRecord)
    BY <1>1 DEF DeleteDomain, IsMap, UserRecord
  <2>2. IsMap(Domains', DomainNames, DomainRecord)
    BY <1>1, WithoutMap DEF DeleteDomain
  <2>3. QED
    BY <1>1, <2>1, <2>2 DEF DeleteDomain
<1>2. ASSUME NEW me \in DOMAIN Users, NEW name \in PlanNames, DeletePlan(me, name)
      PROVE  TypeOK'
  <2>1. IsMap([Users EXCEPT ![me].subPlans = @ \ {name}], UserNames, UserRecord)
    BY DEF IsMap, UserRecord
  <2>2. IsMap(Users', UserNames, UserRecord)
    BY <1>2, <2>1, WithoutMap DEF DeletePlan
  <2>3. QED
    BY <1>2, <2>2, WithoutMap DEF DeletePlan
<1>3. ASSUME NEW me \in DOMAIN Users, NEW name \in UserNames, DeleteUser(me, name)
      PROVE  TypeOK'
  <2>1. \A p \in DOMAIN Plans : [Plans[p] EXCEPT !.users = @ \ {name}] \in PlanRecord
    BY DEF IsMap, PlanRecord
  <2>2. IsMap(Plans', PlanNames, PlanRecord)
    BY <1>3, <2>1 DEF DeleteUser, IsMap
  <2>3. QED
    BY <1>3, <2>2, WithoutMap DEF DeleteUser
<1>4. QED
  BY <1>1, <1>2, <1>3 DEF RemoveSomething

\* Writing the form into a plan keeps every plan a plan record.
LEMMA EditedType ==
  ASSUME TypeOK, NEW name, NEW opts \in Submissions
  PROVE  /\ IsMap(Edited(name, opts), PlanNames, PlanRecord)
         /\ DOMAIN Edited(name, opts) = DOMAIN Plans
<1> DEFINE edited(q) == [Plans[q] EXCEPT !.maxUserCount   = opts.maxUserCount,
                                         !.maxDomainCount = opts.maxDomainCount,
                                         !.planMaximums   = opts.planMaximums]
<1>1. /\ opts.maxUserCount \in Counts
      /\ opts.maxDomainCount \in Counts
      /\ opts.planMaximums \in [Fields -> Maxima]
  BY ValuesAssumption
<1>2. \A q \in DOMAIN Plans : edited(q) \in PlanRecord
  BY <1>1 DEF TypeOK, IsMap, PlanRecord
<1>3. DOMAIN Edited(name, opts) = DOMAIN Plans
  BY DEF Edited
<1>4. \A q \in DOMAIN Plans :
         Edited(name, opts)[q] = IF q = name THEN edited(q) ELSE Plans[q]
  BY DEF Edited
<1>5. QED
  BY <1>2, <1>3, <1>4 DEF TypeOK, IsMap

\* A set of reasons added to a plan or a user is one the code may give.
LEMMA SuspendedType ==
  ASSUME TypeOK, NEW S \in SUBSET Reasons
  PROVE  /\ \A q \in DOMAIN Plans :
              /\ [Plans[q] EXCEPT !.suspended = @ \cup S] \in PlanRecord
              /\ [Plans[q] EXCEPT !.suspended = @ \ S] \in PlanRecord
         /\ \A u \in DOMAIN Users :
              /\ [Users[u] EXCEPT !.suspended = @ \cup S] \in UserRecord
              /\ [Users[u] EXCEPT !.suspended = @ \ S] \in UserRecord
  BY DEF TypeOK, IsMap, PlanRecord, UserRecord

\* Only fields of planMaximums are reasons a plan is over its maxima for.
LEMMA OverMaximaType ==
  ASSUME TypeOK, NEW q \in DOMAIN Plans, NEW opts
  PROVE  OverMaxima(q, opts) \in SUBSET Reasons
<1>1. Plans[q].planMaximums \in [Fields -> Maxima] \cup [{} -> Maxima]
  BY DEF TypeOK, IsMap, PlanRecord
<1>2. DOMAIN Plans[q].planMaximums \subseteq Fields
  BY <1>1
<1>3. QED
  BY <1>2 DEF OverMaxima, Reasons

\* Updating a plan, refused or not, keeps the type.
LEMMA UpdatePlanType ==
  ASSUME TypeOK, UpdateSomePlan
  PROVE  TypeOK'
<1> PICK me \in DOMAIN Users, name \in PlanNames, opts \in Submissions :
       UpdatePlanRefused(me, name, opts) \/ UpdatePlan(me, name, opts)
  BY DEF UpdateSomePlan
<1> SUFFICES IsMap(Plans', PlanNames, PlanRecord)
  BY DEF UpdatePlanRefused, UpdatePlan, TypeOK
<1>1. CASE UpdatePlanRefused(me, name, opts)
  BY <1>1, EditedType DEF UpdatePlanRefused
<1>2. CASE UpdatePlan(me, name, opts)
  <2> DEFINE edited == Edited(name, opts)
             plans  == [q \in DOMAIN Plans |->
                          IF q \in PlansBelow(name)
                          THEN [Plans[q] EXCEPT !.suspended = @ \cup OverMaxima(q, opts)]
                          ELSE edited[q]]
             over   == (IF opts.maxUserCount < totalActiveUsers(plans, name)
                        THEN {"maxUserCount"} ELSE {})
                       \cup
                       (IF opts.maxDomainCount < totalActiveDomains(plans, name)
                        THEN {"maxDomainCount"} ELSE {})
  <2>1. Plans' = [plans EXCEPT ![name].suspended =
                      IF over = {} THEN {} ELSE @ \cup over]
    BY <1>2 DEF UpdatePlan
  <2>2. /\ DOMAIN edited = DOMAIN Plans
        /\ \A q \in DOMAIN Plans : edited[q] \in PlanRecord
    BY EditedType DEF IsMap
  <2>3. \A q \in DOMAIN Plans :
          [Plans[q] EXCEPT !.suspended = @ \cup OverMaxima(q, opts)] \in PlanRecord
    BY SuspendedType, OverMaximaType
  <2> HIDE DEF edited
  <2>4. /\ DOMAIN plans = DOMAIN Plans
        /\ \A q \in DOMAIN Plans : plans[q] \in PlanRecord
    BY <2>2, <2>3
  <2>5. over \subseteq Reasons
    BY DEF Reasons
  <2> HIDE DEF plans, over
  <2>6. \A q \in DOMAIN Plans : Plans'[q] \in PlanRecord
    <3>1. \A q \in DOMAIN Plans : q # name => Plans'[q] = plans[q]
      BY <2>1, <2>4
    <3>2. ASSUME name \in DOMAIN Plans
          PROVE  Plans'[name] = [plans[name] EXCEPT !.suspended =
                                   IF over = {} THEN {} ELSE @ \cup over]
      BY <2>1, <2>4, <3>2
    <3>3. ASSUME name \in DOMAIN Plans
          PROVE  Plans'[name] \in PlanRecord
      BY <3>2, <3>3, <2>4, <2>5 DEF PlanRecord
    <3>4. QED
      BY <3>1, <3>3, <2>4
  <2>7. DOMAIN Plans' = DOMAIN Plans
    BY <2>1, <2>4
  <2>8. QED
    BY <2>6, <2>7 DEF TypeOK, IsMap
<1>3. QED
  BY <1>1, <1>2

\* Moving a user and the quota job keep the type.
LEMMA MoveType ==
  ASSUME TypeOK, MoveSomeUser
  PROVE  TypeOK'
<1>1. PICK me \in DOMAIN Users, name \in UserNames, plan \in PlanNames :
         UpdateUser(me, name, plan)
  BY DEF MoveSomeUser
<1>2. \A u \in DOMAIN Users : [Users[u] EXCEPT !.plan = plan] \in UserRecord
  BY DEF TypeOK, IsMap, UserRecord
<1>3. IsMap(Users', UserNames, UserRecord)
  BY <1>1, <1>2 DEF UpdateUser, TypeOK, IsMap
<1>4. QED
  BY <1>1, <1>3 DEF UpdateUser, TypeOK

LEMMA QuotaType ==
  ASSUME TypeOK, CheckQuotas
  PROVE  TypeOK'
<1>1. PICK p, u : QuotaSuspend(p, u) \/ QuotaUnSuspend(p, u)
  BY DEF CheckQuotas
<1>2. {DiskSpace} \in SUBSET Reasons
  BY ValuesAssumption DEF Reasons
<1>3. CASE QuotaSuspend(p, u)
  <2>1. IsMap(Plans', PlanNames, PlanRecord)
    <3>1. \A q \in DOMAIN Plans :
             [Plans[q] EXCEPT !.suspended = @ \cup {DiskSpace}] \in PlanRecord
      BY <1>2, SuspendedType
    <3>2. QED
      BY <1>3, <3>1 DEF QuotaSuspend, TypeOK, IsMap
  <2>2. IsMap(Users', UserNames, UserRecord)
    <3>1. \A v \in DOMAIN Users :
             [Users[v] EXCEPT !.suspended = @ \cup {DiskSpace}] \in UserRecord
      BY <1>2, SuspendedType
    <3>2. QED
      BY <1>3, <3>1 DEF QuotaSuspend, TypeOK, IsMap
  <2>3. QED
    BY <1>3, <2>1, <2>2 DEF QuotaSuspend, TypeOK
<1>4. CASE QuotaUnSuspend(p, u)
  <2>1. IsMap(Plans', PlanNames, PlanRecord)
    <3>1. \A q \in DOMAIN Plans :
             [Plans[q] EXCEPT !.suspended = @ \ {DiskSpace}] \in PlanRecord
      BY <1>2, SuspendedType
    <3>2. QED
      BY <1>4, <3>1 DEF QuotaUnSuspend, TypeOK, IsMap
  <2>2. IsMap(Users', UserNames, UserRecord)
    <3>1. \A v \in DOMAIN Users :
             [Users[v] EXCEPT !.suspended = @ \ {DiskSpace}] \in UserRecord
      BY <1>2, SuspendedType
    <3>2. QED
      BY <1>4, <3>1 DEF QuotaUnSuspend, TypeOK, IsMap
  <2>3. QED
    BY <1>4, <2>1, <2>2 DEF QuotaUnSuspend, TypeOK
<1>5. QED
  BY <1>1, <1>3, <1>4

\* Every reachable database is made of records of the right shape.
THEOREM TypeCorrect == Spec => []TypeOK
<1>1. TypeOK /\ [Next]_vars => TypeOK'
  <2>1. CASE vars' = vars
    BY <2>1 DEF vars, TypeOK
  <2>2. QED
    BY <2>1, AddType, RemoveType, UpdatePlanType, MoveType, QuotaType
       DEF Next, NextNoMoves
<1>2. QED
  BY InitType, <1>1, PTL DEF Spec

-----------------------------------------------------------------------------
(* The walk down: UsersBelow(name) is the least set that holds the plan's   *)
(* users and is closed.                                                     *)

\* The part of OwnershipForest about plans and users.
Tree == PlansOwned /\ SubPlansExist /\ MembersExist /\ OneHome /\ Rooted

\* Whatever is closed and holds the plan's users holds everybody below.
LEMMA BelowIsLeast ==
  ASSUME NEW name, NEW S \in SUBSET DOMAIN Users,
         Plans[name].users \subseteq S, DownClosed(S)
  PROVE  UsersBelow(name) \subseteq S
  BY DEF UsersBelow

\* The walk starts at the plan's users and leaves out nobody it comes to.
LEMMA BelowIsClosed ==
  ASSUME SubPlansExist, MembersExist, NEW name \in DOMAIN Plans
  PROVE  /\ UsersBelow(name) \subseteq DOMAIN Users
         /\ Plans[name].users \subseteq UsersBelow(name)
         /\ DownClosed(UsersBelow(name))
<1>1. UsersBelow(name) \subseteq DOMAIN Users
  BY DEF UsersBelow
<1>2. Plans[name].users \subseteq UsersBelow(name)
  BY DEF UsersBelow, MembersExist
<1>3. ASSUME NEW u \in UsersBelow(name), NEW p \in Users[u].subPlans,
             NEW v \in Plans[p].users
      PROVE  v \in UsersBelow(name)
  <2>1. u \in DOMAIN Users /\ v \in DOMAIN Users
    BY <1>1 DEF SubPlansExist, MembersExist
  <2>2. ASSUME NEW S \in SUBSET DOMAIN Users,
               Plans[name].users \subseteq S, DownClosed(S)
        PROVE  v \in S
    <3>1. u \in S
      BY <2>2, BelowIsLeast
    <3>2. QED
      BY <2>2, <3>1 DEF DownClosed
  <2>3. QED
    BY <2>1, <2>2 DEF UsersBelow
<1>4. QED
  BY <1>1, <1>2, <1>3 DEF DownClosed

\* Who is below a plan is listed by it or by a plan below it.
LEMMA BelowHasHome ==
  ASSUME SubPlansExist, MembersExist, NEW name \in DOMAIN Plans,
         NEW v \in UsersBelow(name)
  PROVE  \E q \in {name} \cup PlansBelow(name) : v \in Plans[q].users
<1> DEFINE T == {u \in UsersBelow(name) :
                    \E q \in {name} \cup PlansBelow(name) : u \in Plans[q].users}
<1>1. T \subseteq DOMAIN Users /\ Plans[name].users \subseteq T
  BY BelowIsClosed
<1>2. ASSUME NEW u \in T, NEW p \in Users[u].subPlans
      PROVE  Plans[p].users \subseteq T
  <2>1. p \in PlansBelow(name)
    BY DEF PlansBelow
  <2>2. Plans[p].users \subseteq UsersBelow(name)
    BY BelowIsClosed DEF DownClosed
  <2>3. QED
    BY <2>1, <2>2
<1>3. DownClosed(T)
  BY <1>2 DEF DownClosed
<1>4. UsersBelow(name) \subseteq T
  BY <1>1, <1>3, BelowIsLeast
<1>5. QED
  BY <1>4

\* A plan below another is some user's, and never Unlimited.
LEMMA OwnedPlan ==
  ASSUME TypeOK, Tree, NEW u \in DOMAIN Users, NEW p \in Users[u].subPlans
  PROVE  p \in DOMAIN Plans /\ Plans[p].owner = u /\ p # Unlimited
<1>1. u # SuperUser
  BY NamesAssumption DEF TypeOK, IsMap
<1>2. QED
  BY <1>1 DEF Tree, SubPlansExist, PlansOwned

\* Removing whole branches keeps the tree: the users R and the plans Q go
\* such that nothing that stays hangs below something that goes.  With R and
\* Q empty this says that the tree rests on the lists and owners alone.
LEMMA Prune ==
  ASSUME Tree, NEW R \in SUBSET DOMAIN Users, NEW Q \in SUBSET DOMAIN Plans,
         Unlimited \notin Q,
         \A u \in R : Users[u].subPlans \subseteq Q,
         \A q \in Q : Plans[q].users \subseteq R,
         DOMAIN Plans' = DOMAIN Plans \ Q,
         DOMAIN Users' = DOMAIN Users \ R,
         \A p \in DOMAIN Plans' : /\ Plans'[p].owner = Plans[p].owner
                                  /\ Plans'[p].users = Plans[p].users \ R,
         \A u \in DOMAIN Users' : Users'[u].subPlans = Users[u].subPlans \ Q
  PROVE  Tree'
<1>1. PlansOwned'
  BY DEF Tree, PlansOwned
<1>2. SubPlansExist'
  BY DEF Tree, SubPlansExist
<1>3. MembersExist'
  BY DEF Tree, MembersExist
<1>4. OneHome'
  BY DEF Tree, OneHome
<1>5. Rooted'
  <2>1. SUFFICES ASSUME NEW v \in DOMAIN Users'
                 PROVE  /\ Unlimited \in DOMAIN Plans'
                        /\ v \in UsersBelow(Unlimited)'
    BY <2>1 DEF Rooted
  <2>2. /\ Unlimited \in DOMAIN Plans
        /\ DOMAIN Users \subseteq UsersBelow(Unlimited)
    BY DEF Tree, Rooted
  <2>3. ASSUME NEW S \in SUBSET DOMAIN Users',
               Plans'[Unlimited].users \subseteq S, DownClosed(S)'
        PROVE  v \in S
    <3>1. S \cup R \in SUBSET DOMAIN Users
      OBVIOUS
    <3>2. Plans[Unlimited].users \subseteq S \cup R
      BY <2>2, <2>3
    <3>3. ASSUME NEW u \in S \cup R, NEW p \in Users[u].subPlans
          PROVE  Plans[p].users \subseteq S \cup R
      <4>1. CASE p \in Q
        BY <4>1
      <4>2. CASE p \notin Q
        <5>1. u \in S
          BY <4>2
        <5>2. p \in DOMAIN Plans' /\ p \in Users'[u].subPlans
          BY <4>2, <5>1 DEF Tree, SubPlansExist
        <5>3. Plans'[p].users \subseteq S
          BY <2>3, <5>1, <5>2 DEF DownClosed
        <5>4. QED
          BY <5>2, <5>3
      <4>3. QED
        BY <4>1, <4>2
    <3>4. DownClosed(S \cup R)
      BY <3>3 DEF DownClosed
    <3>5. UsersBelow(Unlimited) \subseteq S \cup R
      BY <3>1, <3>2, <3>4, BelowIsLeast
    <3>6. QED
      BY <2>2, <3>5
  <2>4. QED
    BY <2>2, <2>3 DEF UsersBelow
<1>6. QED
  BY <1>1, <1>2, <1>3, <1>4, <1>5 DEF Tree

-----------------------------------------------------------------------------
(* One lemma per action: the tree, and the domains' owners, stay.           *)

\* A step that touches neither owners nor lists keeps the whole invariant.
LEMMA ListsKept ==
  ASSUME OwnershipForest,
         DOMAIN Plans' = DOMAIN Plans, DOMAIN Users' = DOMAIN Users,
         \A p \in DOMAIN Plans : /\ Plans'[p].owner = Plans[p].owner
                                 /\ Plans'[p].users = Plans[p].users,
         \A u \in DOMAIN Users : /\ Users'[u].subPlans = Users[u].subPlans
                                 /\ Users'[u].domains = Users[u].domains,
         Domains' = Domains
  PROVE  OwnershipForest'
<1>1. Tree
  BY DEF Tree, OwnershipForest
<1> DEFINE none == {}
<1>2. /\ none \in SUBSET DOMAIN Plans /\ none \in SUBSET DOMAIN Users
      /\ Unlimited \notin none
      /\ \A u \in none : Users[u].subPlans \subseteq none
      /\ \A q \in none : Plans[q].users \subseteq none
      /\ DOMAIN Plans' = DOMAIN Plans \ none
      /\ DOMAIN Users' = DOMAIN Users \ none
      /\ \A p \in DOMAIN Plans' : /\ Plans'[p].owner = Plans[p].owner
                                  /\ Plans'[p].users = Plans[p].users \ none
      /\ \A u \in DOMAIN Users' : Users'[u].subPlans = Users[u].subPlans \ none
  OBVIOUS
<1> HIDE DEF none
<1>3. Tree'
  BY <1>1, <1>2, Prune
<1>4. DomainsOwned'
  BY DEF DomainsOwned, OwnershipForest
<1>5. QED
  BY <1>3, <1>4 DEF Tree, OwnershipForest

\* tryLogin: before the first login there is nothing.
LEMMA FirstLoginForest ==
  ASSUME TypeOK, OwnershipForest, NEW u \in UserNames, FirstLogin(u)
  PROVE  OwnershipForest'
<1>1. DOMAIN Users = {} /\ DOMAIN Plans = {} /\ DOMAIN Domains = {}
  BY DEF OwnershipForest, Rooted, PlansOwned, DomainsOwned, FirstLogin
<1>2. /\ DOMAIN Plans' = {Unlimited} /\ Plans'[Unlimited] = UnlimitedPlan(u)
      /\ DOMAIN Users' = {u} /\ Users'[u] = NewUser(Unlimited)
      /\ Domains' = Domains
  BY <1>1 DEF FirstLogin, Put
<1>3. /\ Plans'[Unlimited].users = {u} /\ Plans'[Unlimited].owner = SuperUser
      /\ Users'[u].subPlans = {} /\ Users'[u].domains = {}
  BY <1>2 DEF UnlimitedPlan, NewUser
<1>4. PlansOwned' /\ SubPlansExist' /\ MembersExist' /\ OneHome'
  BY <1>2, <1>3 DEF PlansOwned, SubPlansExist, MembersExist, OneHome
<1>5. DomainsOwned'
  BY <1>1, <1>2, <1>3 DEF DomainsOwned
<1>6. Rooted'
  BY <1>2, <1>3 DEF Rooted, UsersBelow
<1>7. QED
  BY <1>4, <1>5, <1>6 DEF OwnershipForest

\* Stated once for the two actions that make the tree grow: a larger tree is
\* rooted when every new user is listed by a plan of the tree.
LEMMA GrownRooted ==
  ASSUME Tree, NEW v, NEW home \in DOMAIN Plans,
         DOMAIN Plans \subseteq DOMAIN Plans',
         DOMAIN Users \subseteq DOMAIN Users',
         DOMAIN Users' \subseteq DOMAIN Users \cup {v},
         DOMAIN Users # {},
         \A p \in DOMAIN Plans : Plans[p].users \subseteq Plans'[p].users,
         \A u \in DOMAIN Users : Users[u].subPlans \subseteq Users'[u].subPlans,
         v \in DOMAIN Users \cup Plans'[home].users
  PROVE  Rooted'
<1>1. /\ Unlimited \in DOMAIN Plans
      /\ DOMAIN Users \subseteq UsersBelow(Unlimited)
  BY DEF Tree, Rooted
<1>2. ASSUME NEW S \in SUBSET DOMAIN Users',
             Plans'[Unlimited].users \subseteq S, DownClosed(S)'
      PROVE  DOMAIN Users' \subseteq S
  <2> DEFINE T == S \cap DOMAIN Users
  <2>1. Plans[Unlimited].users \subseteq T
    BY <1>1, <1>2 DEF Tree, MembersExist
  <2>2. DownClosed(T)
    BY <1>2 DEF DownClosed, Tree, MembersExist, SubPlansExist
  <2>3. DOMAIN Users \subseteq S
    BY <1>1, <2>1, <2>2, BelowIsLeast
  <2>4. Plans'[home].users \subseteq S
    <3>1. CASE home = Unlimited
      BY <1>2, <3>1
    <3>2. CASE home # Unlimited
      <4>1. /\ Plans[home].owner \in DOMAIN Users
            /\ home \in Users[Plans[home].owner].subPlans
        BY <3>2 DEF Tree, PlansOwned
      <4>2. Plans[home].owner \in S /\ home \in Users'[Plans[home].owner].subPlans
        BY <4>1, <2>3
      <4>3. QED
        BY <1>2, <4>2 DEF DownClosed
    <3>3. QED
      BY <3>1, <3>2
  <2>5. QED
    BY <2>3, <2>4
<1>3. DOMAIN Users' \subseteq UsersBelow(Unlimited)'
  BY <1>2 DEF UsersBelow
<1>4. QED
  BY <1>1, <1>3 DEF Rooted

\* addPlan: the new plan is empty and listed by its owner.
LEMMA AddPlanForest ==
  ASSUME TypeOK, OwnershipForest, NEW me \in DOMAIN Users, NEW name, NEW opts,
         AddPlan(me, name, opts)
  PROVE  OwnershipForest'
<1>1. /\ name \notin DOMAIN Plans
      /\ DOMAIN Plans' = DOMAIN Plans \cup {name}
      /\ Plans'[name].owner = me /\ Plans'[name].users = {}
      /\ \A p \in DOMAIN Plans : Plans'[p] = Plans[p]
  BY DEF AddPlan, Put, NewPlan
<1>2. /\ DOMAIN Users' = DOMAIN Users
      /\ \A u \in DOMAIN Users :
            /\ Users'[u].domains = Users[u].domains
            /\ Users'[u].subPlans = IF u = me THEN Users[u].subPlans \cup {name}
                                              ELSE Users[u].subPlans
  BY DEF AddPlan, TypeOK, IsMap, UserRecord
<1>3. Unlimited \in DOMAIN Plans /\ Tree
  BY DEF OwnershipForest, Rooted, Tree
<1>4. PlansOwned' /\ SubPlansExist' /\ MembersExist' /\ OneHome'
  <2>1. PlansOwned'
    <3>1. name # Unlimited /\ me \in DOMAIN Users' /\ name \in Users'[me].subPlans
      BY <1>1, <1>2, <1>3
    <3>2. ASSUME NEW p \in DOMAIN Plans, p # Unlimited
          PROVE  Plans[p].owner \in DOMAIN Users' /\ p \in Users'[Plans[p].owner].subPlans
      BY <1>2, <1>3, <3>2 DEF Tree, PlansOwned
    <3>3. Plans[Unlimited].owner = SuperUser
      BY <1>3 DEF Tree, PlansOwned
    <3>4. QED
      BY <1>1, <3>1, <3>2, <3>3 DEF PlansOwned
  <2>2. SubPlansExist'
    <3>1. ASSUME NEW u \in DOMAIN Users, NEW p \in Users'[u].subPlans
          PROVE  p \in DOMAIN Plans' /\ Plans'[p].owner = u
      <4>1. CASE p = name /\ u = me
        BY <1>1, <4>1
      <4>2. CASE p \in Users[u].subPlans
        BY <1>1, <1>3, <4>2 DEF Tree, SubPlansExist
      <4>3. QED
        BY <1>2, <4>1, <4>2
    <3>2. QED
      BY <1>2, <3>1 DEF SubPlansExist
  <2>3. MembersExist'
    BY <1>1, <1>2, <1>3 DEF Tree, MembersExist
  <2>4. OneHome'
    BY <1>1, <1>2, <1>3 DEF Tree, OneHome, MembersExist
  <2>5. QED
    BY <2>1, <2>2, <2>3, <2>4
<1>5. Rooted'
  BY <1>1, <1>2, <1>3, GrownRooted
<1>6. DomainsOwned'
  BY <1>2 DEF AddPlan, OwnershipForest, DomainsOwned
<1>7. QED
  BY <1>4, <1>5, <1>6 DEF OwnershipForest

\* addUser: the new user is listed by the plan and lists nothing.
LEMMA AddUserForest ==
  ASSUME TypeOK, OwnershipForest, NEW me \in DOMAIN Users, NEW plan, NEW name,
         AddUser(me, plan, name)
  PROVE  OwnershipForest'
<1>1. /\ plan \in DOMAIN Plans /\ DOMAIN Plans' = DOMAIN Plans
      /\ \A p \in DOMAIN Plans :
            /\ Plans'[p].owner = Plans[p].owner
            /\ Plans'[p].users = IF p = plan THEN Plans[p].users \cup {name}
                                             ELSE Plans[p].users
  BY DEF AddUser, TypeOK, IsMap, PlanRecord
<1>2. /\ name \notin DOMAIN Users
      /\ DOMAIN Users' = DOMAIN Users \cup {name}
      /\ Users'[name].subPlans = {} /\ Users'[name].domains = {}
      /\ \A u \in DOMAIN Users : Users'[u] = Users[u]
  BY DEF AddUser, Put, NewUser
<1>3. Tree
  BY DEF OwnershipForest, Tree
<1>4. PlansOwned' /\ SubPlansExist' /\ MembersExist' /\ OneHome'
  <2>1. PlansOwned'
    <3>1. ASSUME NEW p \in DOMAIN Plans, p # Unlimited
          PROVE  Plans[p].owner \in DOMAIN Users' /\ p \in Users'[Plans[p].owner].subPlans
      BY <1>2, <1>3, <3>1 DEF Tree, PlansOwned
    <3>2. Plans[Unlimited].owner = SuperUser
      BY <1>3 DEF Tree, PlansOwned, Rooted
    <3>3. QED
      BY <1>1, <3>1, <3>2 DEF PlansOwned
  <2>2. SubPlansExist'
    BY <1>1, <1>2, <1>3 DEF Tree, SubPlansExist
  <2>3. MembersExist'
    BY <1>1, <1>2, <1>3 DEF Tree, MembersExist
  <2>4. OneHome'
    <3>1. ASSUME NEW p \in DOMAIN Plans, NEW q \in DOMAIN Plans,
                 NEW u \in Plans'[p].users \cap Plans'[q].users
          PROVE  p = q
      <4>1. CASE u = name
        BY <1>1, <1>2, <1>3, <4>1 DEF Tree, MembersExist
      <4>2. CASE u # name
        <5>1. u \in Plans[p].users \cap Plans[q].users
          BY <1>1, <4>2
        <5>2. QED
          BY <1>3, <5>1 DEF Tree, OneHome
      <4>3. QED
        BY <4>1, <4>2
    <3>2. QED
      BY <1>1, <3>1 DEF OneHome
  <2>5. QED
    BY <2>1, <2>2, <2>3, <2>4
<1>5. Rooted'
  BY <1>1, <1>2, <1>3, GrownRooted
<1>6. DomainsOwned'
  BY <1>2 DEF AddUser, OwnershipForest, DomainsOwned
<1>7. QED
  BY <1>4, <1>5, <1>6 DEF OwnershipForest

\* addDomain and deleteDomain: one list and one record change together.
LEMMA DomainForest ==
  ASSUME TypeOK, OwnershipForest, NEW me \in DOMAIN Users, NEW name,
         AddDomain(me, name) \/ DeleteDomain(me, name)
  PROVE  OwnershipForest'
<1>1. /\ Plans' = Plans /\ DOMAIN Users' = DOMAIN Users
      /\ \A u \in DOMAIN Users : Users'[u].subPlans = Users[u].subPlans
  BY DEF AddDomain, DeleteDomain, TypeOK, IsMap, UserRecord
<1>2. PlansOwned' /\ SubPlansExist' /\ MembersExist' /\ OneHome' /\ Rooted'
  <2> DEFINE none == {}
  <2>1. Tree
    BY DEF OwnershipForest, Tree
  <2>2. /\ none \in SUBSET DOMAIN Plans /\ none \in SUBSET DOMAIN Users
        /\ Unlimited \notin none
        /\ \A u \in none : Users[u].subPlans \subseteq none
        /\ \A q \in none : Plans[q].users \subseteq none
        /\ DOMAIN Plans' = DOMAIN Plans \ none
        /\ DOMAIN Users' = DOMAIN Users \ none
        /\ \A p \in DOMAIN Plans' : /\ Plans'[p].owner = Plans[p].owner
                                    /\ Plans'[p].users = Plans[p].users \ none
        /\ \A u \in DOMAIN Users' : Users'[u].subPlans = Users[u].subPlans \ none
    BY <1>1
  <2> HIDE DEF none
  <2>3. Tree'
    BY <2>1, <2>2, Prune
  <2>4. QED
    BY <2>3 DEF Tree
<1>3. DomainsOwned'
  <2>1. CASE AddDomain(me, name)
    <3>1. /\ name \notin DOMAIN Domains
          /\ DOMAIN Domains' = DOMAIN Domains \cup {name}
          /\ Domains'[name].owner = me
          /\ \A d \in DOMAIN Domains : Domains'[d] = Domains[d]
      BY <2>1 DEF AddDomain, Put
    <3>2. \A u \in DOMAIN Users :
             Users'[u].domains = IF u = me THEN Users[u].domains \cup {name}
                                           ELSE Users[u].domains
      BY <2>1 DEF AddDomain, TypeOK, IsMap, UserRecord
    <3>3. \A d \in DOMAIN Domains' :
             /\ Domains'[d].owner \in DOMAIN Users'
             /\ d \in Users'[Domains'[d].owner].domains
      <4>1. \A d \in DOMAIN Domains :
               /\ Domains[d].owner \in DOMAIN Users
               /\ d \in Users[Domains[d].owner].domains
        BY DEF OwnershipForest, DomainsOwned
      <4>2. \A u \in DOMAIN Users : Users[u].domains \subseteq Users'[u].domains
        BY <3>2
      <4>3. name \in Users'[me].domains
        BY <3>2
      <4>4. QED
        BY <1>1, <3>1, <4>1, <4>2, <4>3
    <3>4. ASSUME NEW u \in DOMAIN Users', NEW d \in Users'[u].domains
          PROVE  d \in DOMAIN Domains' /\ Domains'[d].owner = u
      <4>1. CASE u = me /\ d = name
        BY <3>1, <4>1
      <4>2. CASE d \in Users[u].domains
        BY <1>1, <3>1, <4>2 DEF OwnershipForest, DomainsOwned
      <4>3. QED
        BY <1>1, <3>2, <4>1, <4>2
    <3>5. QED
      BY <3>3, <3>4 DEF DomainsOwned
  <2>2. CASE DeleteDomain(me, name)
    <3>1. /\ DOMAIN Domains' = DOMAIN Domains \ {name}
          /\ \A d \in DOMAIN Domains' : Domains'[d] = Domains[d]
      BY <2>2 DEF DeleteDomain, Without
    <3>2. \A u \in DOMAIN Users :
             Users'[u].domains = IF u = me THEN Users[u].domains \ {name}
                                           ELSE Users[u].domains
      BY <2>2 DEF DeleteDomain, TypeOK, IsMap, UserRecord
    <3>3. name \in Users[me].domains
      BY <2>2 DEF DeleteDomain
    <3>4. ASSUME NEW d \in DOMAIN Domains'
          PROVE  /\ Domains'[d].owner \in DOMAIN Users'
                 /\ d \in Users'[Domains'[d].owner].domains
      <4>1. /\ d \in DOMAIN Domains /\ d # name
            /\ Domains[d].owner \in DOMAIN Users
            /\ d \in Users[Domains[d].owner].domains
        BY <3>1 DEF OwnershipForest, DomainsOwned
      <4>2. QED
        BY <1>1, <3>1, <3>2, <4>1
    <3>5. ASSUME NEW u \in DOMAIN Users', NEW d \in Users'[u].domains
          PROVE  d \in DOMAIN Domains' /\ Domains'[d].owner = u
      <4>1. d \in Users[u].domains /\ d \in DOMAIN Domains /\ Domains[d].owner = u
        BY <1>1, <3>2 DEF OwnershipForest, DomainsOwned
      <4>2. d # name
        BY <1>1, <3>2, <3>3, <4>1 DEF OwnershipForest, DomainsOwned
      <4>3. QED
        BY <3>1, <4>1, <4>2
    <3>6. QED
      BY <3>4, <3>5 DEF DomainsOwned
  <2>3. QED
    BY <2>1, <2>2
<1>4. QED
  BY <1>2, <1>3 DEF OwnershipForest

\* The domains of removed users go with them, and only those.
LEMMA DomainsPruned ==
  ASSUME DomainsOwned, NEW R \in SUBSET DOMAIN Users,
         DOMAIN Users' = DOMAIN Users \ R,
         \A u \in DOMAIN Users' : Users'[u].domains = Users[u].domains,
         Domains' = Without(Domains, DomainsOf(R))
  PROVE  DomainsOwned'
<1>1. /\ DOMAIN Domains' = DOMAIN Domains \ DomainsOf(R)
      /\ \A d \in DOMAIN Domains' : Domains'[d] = Domains[d]
  BY DEF Without
<1>2. \A d \in DOMAIN Domains : d \in DomainsOf(R) <=> Domains[d].owner \in R
  BY DEF DomainsOwned, DomainsOf
<1>3. QED
  BY <1>1, <1>2 DEF DomainsOwned

\* A branch: the users below a plan list only plans of the branch, and no
\* plan outside the branch lists any of them.
LEMMA Branch ==
  ASSUME TypeOK, OwnershipForest, NEW name \in DOMAIN Plans, name # Unlimited
  PROVE  /\ UsersBelow(name) \subseteq DOMAIN Users
         /\ {name} \cup PlansBelow(name) \subseteq DOMAIN Plans \ {Unlimited}
         /\ \A u \in UsersBelow(name) : Users[u].subPlans \subseteq PlansBelow(name)
         /\ \A q \in {name} \cup PlansBelow(name) :
               Plans[q].users \subseteq UsersBelow(name)
         /\ \A p \in DOMAIN Plans \ ({name} \cup PlansBelow(name)) :
               Plans[p].users \cap UsersBelow(name) = {}
         /\ \A q \in PlansBelow(name) : Plans[q].owner \in UsersBelow(name)
<1>1. Tree /\ SubPlansExist /\ MembersExist
  BY DEF OwnershipForest, Tree
<1>2. /\ UsersBelow(name) \subseteq DOMAIN Users
      /\ Plans[name].users \subseteq UsersBelow(name)
      /\ DownClosed(UsersBelow(name))
  BY <1>1, BelowIsClosed
<1>3. {name} \cup PlansBelow(name) \subseteq DOMAIN Plans \ {Unlimited}
  BY <1>1, <1>2, OwnedPlan DEF PlansBelow
<1>4. \A u \in UsersBelow(name) : Users[u].subPlans \subseteq PlansBelow(name)
  BY DEF PlansBelow
<1>5. \A q \in {name} \cup PlansBelow(name) :
         Plans[q].users \subseteq UsersBelow(name)
  BY <1>2 DEF PlansBelow, DownClosed
<1>6. \A p \in DOMAIN Plans \ ({name} \cup PlansBelow(name)) :
         Plans[p].users \cap UsersBelow(name) = {}
  BY <1>1, <1>3, BelowHasHome DEF OwnershipForest, OneHome
<1>7. \A q \in PlansBelow(name) : Plans[q].owner \in UsersBelow(name)
  BY <1>1, <1>2, OwnedPlan DEF PlansBelow
<1>8. QED
  BY <1>2, <1>3, <1>4, <1>5, <1>6, <1>7

\* deletePlan removes the branch that starts at the plan.
LEMMA DeletePlanForest ==
  ASSUME TypeOK, OwnershipForest, NEW me \in DOMAIN Users, NEW name,
         DeletePlan(me, name)
  PROVE  OwnershipForest'
<1> DEFINE R == UsersBelow(name)
           Q == {name} \cup PlansBelow(name)
<1>1. Tree /\ DomainsOwned
  BY DEF OwnershipForest, Tree
<1>2. /\ name \in Users[me].subPlans
      /\ name \in DOMAIN Plans /\ Plans[name].owner = me /\ name # Unlimited
  BY <1>1, OwnedPlan DEF DeletePlan
<1>3. /\ R \in SUBSET DOMAIN Users
      /\ Q \in SUBSET DOMAIN Plans /\ Unlimited \notin Q
      /\ \A u \in R : Users[u].subPlans \subseteq Q
      /\ \A q \in Q : Plans[q].users \subseteq R
      /\ \A p \in DOMAIN Plans \ Q : Plans[p].users \cap R = {}
      /\ \A q \in Q : q = name \/ Plans[q].owner \in R
  BY <1>2, Branch
<1>4. /\ DOMAIN Plans' = DOMAIN Plans \ Q
      /\ \A p \in DOMAIN Plans' : Plans'[p] = Plans[p]
  BY DEF DeletePlan, Without
<1>5. /\ DOMAIN Users' = DOMAIN Users \ R
      /\ \A u \in DOMAIN Users' :
            /\ Users'[u].domains = Users[u].domains
            /\ Users'[u].subPlans = IF u = me THEN Users[u].subPlans \ {name}
                                              ELSE Users[u].subPlans
  BY DEF DeletePlan, Without, TypeOK, IsMap, UserRecord
<1>6. Domains' = Without(Domains, DomainsOf(R))
  BY DEF DeletePlan
<1> HIDE DEF R, Q
<1>7. \A u \in DOMAIN Users' : Users'[u].subPlans = Users[u].subPlans \ Q
  <2>1. ASSUME NEW u \in DOMAIN Users', NEW q \in Users[u].subPlans, q \in Q
        PROVE  u = me /\ q = name
    BY <1>1, <1>2, <1>3, <1>5, <2>1, OwnedPlan
  <2>2. name \in Q
    BY DEF Q
  <2>3. QED
    BY <1>5, <2>1, <2>2
<1>8. \A p \in DOMAIN Plans' : Plans'[p].users = Plans[p].users \ R
  BY <1>3, <1>4
<1>9. Tree'
  BY <1>1, <1>3, <1>4, <1>5, <1>7, <1>8, Prune
<1>10. DomainsOwned'
  BY <1>1, <1>3, <1>5, <1>6, DomainsPruned
<1>11. QED
  BY <1>9, <1>10 DEF OwnershipForest, Tree

\* deleteUser removes the branches of the user's sub-plans, and the user.
LEMMA DeleteUserForest ==
  ASSUME TypeOK, OwnershipForest, NEW me \in DOMAIN Users, NEW name,
         DeleteUser(me, name)
  PROVE  OwnershipForest'
<1> DEFINE subPlans == Users[name].subPlans
           below    == UNION {UsersBelow(p) : p \in subPlans}
           R == below \cup {name}
           Q == subPlans \cup UNION {PlansBelow(p) : p \in subPlans}
<1>1. Tree /\ DomainsOwned /\ name \in DOMAIN Users
  BY DEF OwnershipForest, Tree, DeleteUser
<1>2. \A p \in subPlans : p \in DOMAIN Plans /\ p # Unlimited /\ Plans[p].owner = name
  BY <1>1, OwnedPlan
<1>3. /\ R \in SUBSET DOMAIN Users
      /\ Q \in SUBSET DOMAIN Plans /\ Unlimited \notin Q
      /\ \A u \in R : Users[u].subPlans \subseteq Q
      /\ \A q \in Q : Plans[q].users \subseteq R
      /\ \A p \in DOMAIN Plans \ Q : Plans[p].users \cap below = {}
      /\ \A q \in Q : Plans[q].owner \in R
  <2>1. R \in SUBSET DOMAIN Users
    BY <1>1, <1>2, Branch
  <2>2. Q \in SUBSET DOMAIN Plans /\ Unlimited \notin Q
    BY <1>2, Branch
  <2>3. \A u \in R : Users[u].subPlans \subseteq Q
    BY <1>2, Branch
  <2>4. \A q \in Q : Plans[q].users \subseteq R
    BY <1>2, Branch
  <2>5. \A p \in DOMAIN Plans \ Q : Plans[p].users \cap below = {}
    BY <1>2, Branch
  <2>6. \A q \in Q : Plans[q].owner \in R
    BY <1>2, Branch
  <2>7. QED
    BY <2>1, <2>2, <2>3, <2>4, <2>5, <2>6
<1>4. /\ DOMAIN Plans' = DOMAIN Plans \ Q
      /\ \A p \in DOMAIN Plans' :
            /\ Plans'[p].owner = Plans[p].owner
            /\ Plans'[p].users = Plans[p].users \ {name}
  <2>1. Plans' = [p \in DOMAIN Plans \ Q |-> [Plans[p] EXCEPT !.users = @ \ {name}]]
    BY DEF DeleteUser
  <2> HIDE DEF Q
  <2>2. QED
    BY <2>1 DEF TypeOK, IsMap, PlanRecord
<1>5. /\ DOMAIN Users' = DOMAIN Users \ R
      /\ \A u \in DOMAIN Users' : Users'[u] = Users[u]
  BY DEF DeleteUser, Without
<1>6. Domains' = Without(Domains, DomainsOf(R))
  <2>1. {d \in DOMAIN Domains : Domains[d].owner = name} = Users[name].domains
    BY <1>1 DEF DomainsOwned
  <2>2. DomainsOf(R) = Users[name].domains \cup DomainsOf(below)
    BY DEF DomainsOf
  <2>3. QED
    BY <2>1, <2>2 DEF DeleteUser
<1>7. R = below \cup {name}
  OBVIOUS
<1> HIDE DEF R, Q, below
<1>8. \A u \in DOMAIN Users' : Users'[u].subPlans = Users[u].subPlans \ Q
  <2>1. ASSUME NEW u \in DOMAIN Users', NEW q \in Users[u].subPlans
        PROVE  q \notin Q
    BY <1>1, <1>3, <1>5, OwnedPlan
  <2>2. QED
    BY <1>5, <2>1
<1>9. \A p \in DOMAIN Plans' : Plans'[p].users = Plans[p].users \ R
  BY <1>3, <1>4, <1>7
<1>10. Tree'
  BY <1>1, <1>3, <1>4, <1>5, <1>8, <1>9, Prune
<1>11. DomainsOwned'
  BY <1>1, <1>3, <1>5, <1>6, DomainsPruned
<1>12. QED
  BY <1>10, <1>11 DEF OwnershipForest, Tree

\* updatePlan, refused or not, changes counts, maxima and suspensions only.
LEMMA UpdatePlanForest ==
  ASSUME TypeOK, OwnershipForest, UpdateSomePlan
  PROVE  OwnershipForest'
<1> PICK me \in DOMAIN Users, name \in PlanNames, opts \in Submissions :
       UpdatePlanRefused(me, name, opts) \/ UpdatePlan(me, name, opts)
  BY DEF UpdateSomePlan
<1>1. Users' = Users /\ Domains' = Domains
  BY DEF UpdatePlanRefused, UpdatePlan
<1>2. /\ DOMAIN Edited(name, opts) = DOMAIN Plans
      /\ \A p \in DOMAIN Plans :
            /\ Edited(name, opts)[p].owner = Plans[p].owner
            /\ Edited(name, opts)[p].users = Plans[p].users
  BY DEF Edited, TypeOK, IsMap, PlanRecord
<1>3. /\ DOMAIN Plans' = DOMAIN Plans
      /\ \A p \in DOMAIN Plans : /\ Plans'[p].owner = Plans[p].owner
                                 /\ Plans'[p].users = Plans[p].users
  <2>1. CASE UpdatePlanRefused(me, name, opts)
    BY <1>2, <2>1 DEF UpdatePlanRefused
  <2>2. CASE UpdatePlan(me, name, opts)
    <3> DEFINE edited == Edited(name, opts)
               plans  == [q \in DOMAIN Plans |->
                            IF q \in PlansBelow(name)
                            THEN [Plans[q] EXCEPT !.suspended =
                                                     @ \cup OverMaxima(q, opts)]
                            ELSE edited[q]]
               over   == (IF opts.maxUserCount < totalActiveUsers(plans, name)
                          THEN {"maxUserCount"} ELSE {})
                         \cup
                         (IF opts.maxDomainCount < totalActiveDomains(plans, name)
                          THEN {"maxDomainCount"} ELSE {})
    <3>1. Plans' = [plans EXCEPT ![name].suspended =
                       IF over = {} THEN {} ELSE @ \cup over]
      BY <2>2, Zenon DEF UpdatePlan
    <3> HIDE DEF over
    <3>2. \A p \in DOMAIN Plans :
             /\ edited[p] \in PlanRecord
             /\ [Plans[p] EXCEPT !.suspended = @ \cup OverMaxima(p, opts)] \in PlanRecord
      BY EditedType, SuspendedType, OverMaximaType DEF IsMap
    <3> HIDE DEF edited
    <3>3. /\ DOMAIN plans = DOMAIN Plans
          /\ \A p \in DOMAIN Plans :
                /\ plans[p] \in PlanRecord
                /\ plans[p].owner = Plans[p].owner
                /\ plans[p].users = Plans[p].users
      <4>1. \A p \in DOMAIN Plans : /\ edited[p].owner = Plans[p].owner
                                    /\ edited[p].users = Plans[p].users
        BY <1>2 DEF edited
      <4>2. ASSUME NEW p \in DOMAIN Plans
            PROVE  LET r == [Plans[p] EXCEPT !.suspended = @ \cup OverMaxima(p, opts)]
                   IN  r.owner = Plans[p].owner /\ r.users = Plans[p].users
        BY DEF TypeOK, IsMap, PlanRecord
      <4>3. ASSUME NEW p \in DOMAIN Plans
            PROVE  plans[p] \in PlanRecord
        BY <3>2
      <4>4. QED
        BY <4>1, <4>2, <4>3
    <3> HIDE DEF plans
    <3>4. DOMAIN Plans' = DOMAIN Plans
      BY <3>1, <3>3
    <3>5. ASSUME NEW p \in DOMAIN Plans
          PROVE  Plans'[p].owner = plans[p].owner /\ Plans'[p].users = plans[p].users
      <4>1. CASE p = name
        BY <3>1, <3>3, <4>1 DEF PlanRecord
      <4>2. CASE p # name
        BY <3>1, <3>3, <4>2
      <4>3. QED
        BY <4>1, <4>2
    <3>6. QED
      BY <3>3, <3>4, <3>5
  <2>3. QED
    BY <2>1, <2>2
<1>4. QED
  BY <1>1, <1>3, ListsKept

\* updateUser moves the plan a record names and no list; the quota job changes
\* suspensions only.
LEMMA MoveForest ==
  ASSUME TypeOK, OwnershipForest, MoveSomeUser
  PROVE  OwnershipForest'
<1>1. PICK me, name, plan : UpdateUser(me, name, plan)
  BY DEF MoveSomeUser
<1>2. /\ Plans' = Plans /\ Domains' = Domains /\ DOMAIN Users' = DOMAIN Users
      /\ \A u \in DOMAIN Users : /\ Users'[u].subPlans = Users[u].subPlans
                                 /\ Users'[u].domains = Users[u].domains
  BY <1>1 DEF UpdateUser, TypeOK, IsMap, UserRecord
<1>3. QED
  BY <1>2, ListsKept

LEMMA QuotaForest ==
  ASSUME TypeOK, OwnershipForest, CheckQuotas
  PROVE  OwnershipForest'
<1>1. PICK p, u : QuotaSuspend(p, u) \/ QuotaUnSuspend(p, u)
  BY DEF CheckQuotas
<1>2. /\ Domains' = Domains /\ DOMAIN Users' = DOMAIN Users
      /\ \A v \in DOMAIN Users : /\ Users'[v].subPlans = Users[v].subPlans
                                 /\ Users'[v].domains = Users[v].domains
  BY <1>1 DEF QuotaSuspend, QuotaUnSuspend, TypeOK, IsMap, UserRecord
<1>3. /\ DOMAIN Plans' = DOMAIN Plans
      /\ \A q \in DOMAIN Plans : /\ Plans'[q].owner = Plans[q].owner
                                 /\ Plans'[q].users = Plans[q].users
  BY <1>1 DEF QuotaSuspend, QuotaUnSuspend, TypeOK, IsMap, PlanRecord
<1>4. QED
  BY <1>2, <1>3, ListsKept

\* Whatever is called in whatever order, plans, users and domains form one
\* tree below Unlimited.  TypeOK is the only strengthening needed.
THEOREM Forest == Spec => []OwnershipForest
<1>1. Init => OwnershipForest
  BY DEF Init, Empty, OwnershipForest, PlansOwned, SubPlansExist, MembersExist,
         OneHome, DomainsOwned, Rooted
<1>2. TypeOK /\ OwnershipForest /\ [Next]_vars => OwnershipForest'
  <2> SUFFICES ASSUME TypeOK, OwnershipForest, [Next]_vars
               PROVE  OwnershipForest'
    OBVIOUS
  <2>1. CASE AddSomething
    BY <2>1, FirstLoginForest, AddPlanForest, AddUserForest, DomainForest
       DEF AddSomething
  <2>2. CASE RemoveSomething
    BY <2>2, DomainForest, DeletePlanForest, DeleteUserForest DEF RemoveSomething
  <2>3. CASE vars' = vars
    BY <2>3, ListsKept DEF vars
  <2>4. QED
    BY <2>1, <2>2, <2>3, UpdatePlanForest, MoveForest, QuotaForest
       DEF Next, NextNoMoves
<1>3. QED
  BY TypeCorrect, <1>1, <1>2, PTL DEF Spec

-----------------------------------------------------------------------------
(* Without moves between plans the two ways a plan and its users know each  *)
(* other agree, and the walk up comes to Unlimited.                         *)

\* Removing whole branches takes nobody's plan and leaves everybody listed.
LEMMA PrunedHome ==
  ASSUME HomeIsPlan, NEW R \in SUBSET DOMAIN Users, NEW Q \in SUBSET DOMAIN Plans,
         \A q \in Q : Plans[q].users \subseteq R,
         DOMAIN Plans' = DOMAIN Plans \ Q,
         DOMAIN Users' = DOMAIN Users \ R,
         \A p \in DOMAIN Plans' : Plans[p].users \ R \subseteq Plans'[p].users,
         \A u \in DOMAIN Users' : Users'[u].plan = Users[u].plan
  PROVE  HomeIsPlan'
  BY DEF HomeIsPlan

\* A step that adds to lists and maps keeps everybody's home.
LEMMA GrownHome ==
  ASSUME HomeIsPlan, DOMAIN Plans \subseteq DOMAIN Plans',
         \A p \in DOMAIN Plans : Plans[p].users \subseteq Plans'[p].users,
         \A u \in DOMAIN Users' :
            \/ u \in DOMAIN Users /\ Users'[u].plan = Users[u].plan
            \/ Users'[u].plan \in DOMAIN Plans' /\ u \in Plans'[Users'[u].plan].users
  PROVE  HomeIsPlan'
  BY DEF HomeIsPlan

LEMMA AddHome ==
  ASSUME TypeOK, HomeIsPlan, AddSomething
  PROVE  HomeIsPlan'
<1>1. ASSUME NEW u \in UserNames, FirstLogin(u)
      PROVE  HomeIsPlan'
  <2>1. /\ DOMAIN Plans' = DOMAIN Plans \cup {Unlimited} /\ DOMAIN Users' = DOMAIN Users \cup {u}
        /\ \A p \in DOMAIN Plans : Plans'[p] = Plans[p]
        /\ \A v \in DOMAIN Users : Users'[v] = Users[v]
        /\ Users'[u].plan = Unlimited /\ u \in Plans'[Unlimited].users
    BY <1>1 DEF FirstLogin, Put, NewUser, UnlimitedPlan
  <2>2. QED
    BY <2>1, GrownHome
<1>2. ASSUME NEW me \in DOMAIN Users, NEW name \in PlanNames, NEW opts \in Submissions,
             AddPlan(me, name, opts)
      PROVE  HomeIsPlan'
  <2>1. /\ DOMAIN Plans' = DOMAIN Plans \cup {name} /\ DOMAIN Users' = DOMAIN Users
        /\ \A p \in DOMAIN Plans : Plans'[p] = Plans[p]
        /\ \A v \in DOMAIN Users : Users'[v].plan = Users[v].plan
    BY <1>2 DEF AddPlan, Put, TypeOK, IsMap, UserRecord
  <2>2. QED
    BY <2>1, GrownHome
<1>3. ASSUME NEW me \in DOMAIN Users, NEW plan \in PlanNames, NEW name \in UserNames,
             AddUser(me, plan, name)
      PROVE  HomeIsPlan'
  <2>1. /\ DOMAIN Plans' = DOMAIN Plans /\ DOMAIN Users' = DOMAIN Users \cup {name}
        /\ plan \in DOMAIN Plans
        /\ \A p \in DOMAIN Plans : p # plan => Plans'[p] = Plans[p]
        /\ Plans'[plan].users = Plans[plan].users \cup {name}
        /\ \A v \in DOMAIN Users : Users'[v] = Users[v]
        /\ Users'[name].plan = plan
    BY <1>3 DEF AddUser, Put, NewUser, TypeOK, IsMap, PlanRecord
  <2>2. QED
    BY <2>1, GrownHome
<1>4. ASSUME NEW me \in DOMAIN Users, NEW name \in DomainNames, AddDomain(me, name)
      PROVE  HomeIsPlan'
  <2>1. /\ Plans' = Plans /\ DOMAIN Users' = DOMAIN Users
        /\ \A v \in DOMAIN Users : Users'[v].plan = Users[v].plan
    BY <1>4 DEF AddDomain, TypeOK, IsMap, UserRecord
  <2>2. QED
    BY <2>1, GrownHome
<1>5. QED
  BY <1>1, <1>2, <1>3, <1>4 DEF AddSomething

LEMMA RemoveHome ==
  ASSUME TypeOK, OwnershipForest, HomeIsPlan, RemoveSomething
  PROVE  HomeIsPlan'
<1>1. Tree
  BY DEF OwnershipForest, Tree
<1>2. ASSUME NEW me \in DOMAIN Users, NEW name \in DomainNames, DeleteDomain(me, name)
      PROVE  HomeIsPlan'
  <2>1. /\ Plans' = Plans /\ DOMAIN Users' = DOMAIN Users
        /\ \A v \in DOMAIN Users : Users'[v].plan = Users[v].plan
    BY <1>2 DEF DeleteDomain, TypeOK, IsMap, UserRecord
  <2>2. QED
    BY <2>1, GrownHome
<1>3. ASSUME NEW me \in DOMAIN Users, NEW name \in PlanNames, DeletePlan(me, name)
      PROVE  HomeIsPlan'
  <2> DEFINE R == UsersBelow(name)
             Q == {name} \cup PlansBelow(name)
  <2>1. name \in DOMAIN Plans /\ name # Unlimited
    BY <1>1, <1>3, OwnedPlan DEF DeletePlan
  <2>2. /\ R \in SUBSET DOMAIN Users /\ Q \in SUBSET DOMAIN Plans
        /\ \A q \in Q : Plans[q].users \subseteq R
    BY <2>1, Branch
  <2>3. /\ DOMAIN Plans' = DOMAIN Plans \ Q
        /\ \A p \in DOMAIN Plans' : Plans'[p] = Plans[p]
    BY <1>3 DEF DeletePlan, Without
  <2>4. /\ DOMAIN Users' = DOMAIN Users \ R
        /\ \A u \in DOMAIN Users' : Users'[u].plan = Users[u].plan
    <3>1. Users' = Without([Users EXCEPT ![me].subPlans = @ \ {name}], R)
      BY <1>3 DEF DeletePlan
    <3> HIDE DEF R
    <3>2. QED
      BY <3>1 DEF Without, TypeOK, IsMap, UserRecord
  <2> HIDE DEF R, Q
  <2>5. QED
    BY <2>2, <2>3, <2>4, PrunedHome
<1>4. ASSUME NEW me \in DOMAIN Users, NEW name \in UserNames, DeleteUser(me, name)
      PROVE  HomeIsPlan'
  <2> DEFINE subPlans == Users[name].subPlans
             below == UNION {UsersBelow(p) : p \in subPlans}
             R == below \cup {name}
             Q == subPlans \cup UNION {PlansBelow(p) : p \in subPlans}
  <2>1. name \in DOMAIN Users
    BY <1>4 DEF DeleteUser
  <2>2. \A p \in subPlans : p \in DOMAIN Plans /\ p # Unlimited
    BY <1>1, <2>1, OwnedPlan
  <2>3. R \in SUBSET DOMAIN Users
    BY <2>1, <2>2, Branch
  <2>4. Q \in SUBSET DOMAIN Plans
    BY <2>2, Branch
  <2>5. \A q \in Q : Plans[q].users \subseteq R
    BY <2>2, Branch
  <2>6. /\ DOMAIN Plans' = DOMAIN Plans \ Q
        /\ \A p \in DOMAIN Plans' : Plans'[p].users = Plans[p].users \ {name}
    <3>1. Plans' = [p \in DOMAIN Plans \ Q |-> [Plans[p] EXCEPT !.users = @ \ {name}]]
      BY <1>4 DEF DeleteUser
    <3> HIDE DEF Q
    <3>2. QED
      BY <3>1 DEF TypeOK, IsMap, PlanRecord
  <2>7. /\ DOMAIN Users' = DOMAIN Users \ R
        /\ \A u \in DOMAIN Users' : Users'[u] = Users[u]
    BY <1>4 DEF DeleteUser, Without
  <2>8. name \in R
    OBVIOUS
  <2> HIDE DEF R, Q
  <2>9. \A p \in DOMAIN Plans' : Plans[p].users \ R \subseteq Plans'[p].users
    BY <2>6, <2>8
  <2>10. QED
    BY <2>3, <2>4, <2>5, <2>6, <2>7, <2>9, PrunedHome
<1>5. QED
  BY <1>2, <1>3, <1>4 DEF RemoveSomething

\* updatePlan and the quota job change no list and no user's plan.
LEMMA UpdateHome ==
  ASSUME TypeOK, HomeIsPlan, UpdateSomePlan \/ CheckQuotas
  PROVE  HomeIsPlan'
<1>1. ASSUME NEW me \in DOMAIN Users, NEW name \in PlanNames, NEW opts \in Submissions,
             UpdatePlanRefused(me, name, opts)
      PROVE  HomeIsPlan'
  <2>1. /\ Users' = Users /\ DOMAIN Plans' = DOMAIN Plans
        /\ \A p \in DOMAIN Plans : Plans'[p].users = Plans[p].users
    BY <1>1 DEF UpdatePlanRefused, Edited, TypeOK, IsMap, PlanRecord
  <2>2. QED
    BY <2>1, GrownHome
<1>2. ASSUME NEW me \in DOMAIN Users, NEW name \in PlanNames, NEW opts \in Submissions,
             UpdatePlan(me, name, opts)
      PROVE  HomeIsPlan'
  <2>1. /\ Users' = Users /\ DOMAIN Plans' = DOMAIN Plans
        /\ \A p \in DOMAIN Plans : Plans'[p].users = Plans[p].users
    <3> DEFINE plans == [q \in DOMAIN Plans |->
                   IF q \in PlansBelow(name)
                   THEN [Plans[q] EXCEPT !.suspended = @ \cup OverMaxima(q, opts)]
                   ELSE Edited(name, opts)[q]]
    <3>1. /\ DOMAIN plans = DOMAIN Plans
          /\ \A p \in DOMAIN Plans : plans[p].users = Plans[p].users
      BY DEF Edited, TypeOK, IsMap, PlanRecord
    <3>2. PICK over : Plans' = [plans EXCEPT ![name].suspended =
                                   IF over = {} THEN {} ELSE @ \cup over]
      BY <1>2 DEF UpdatePlan
    <3> HIDE DEF plans
    <3>3. Users' = Users
      BY <1>2 DEF UpdatePlan
    <3>4. QED
      BY <3>1, <3>2, <3>3
  <2>2. QED
    BY <2>1, GrownHome
<1>3. ASSUME NEW p \in DOMAIN Plans, NEW u \in Plans[p].users,
             QuotaSuspend(p, u) \/ QuotaUnSuspend(p, u)
      PROVE  HomeIsPlan'
  <2>1. /\ DOMAIN Users' = DOMAIN Users /\ DOMAIN Plans' = DOMAIN Plans
        /\ \A v \in DOMAIN Users : Users'[v].plan = Users[v].plan
        /\ \A q \in DOMAIN Plans : Plans'[q].users = Plans[q].users
    BY <1>3 DEF QuotaSuspend, QuotaUnSuspend, TypeOK, IsMap, UserRecord, PlanRecord
  <2>2. QED
    BY <2>1, GrownHome
<1>4. QED
  BY <1>1, <1>2, <1>3 DEF UpdateSomePlan, CheckQuotas

\* Without moves every behaviour is one of Spec.
LEMMA NoMoves == SpecNoMoves => Spec
<1>1. [NextNoMoves]_vars => [Next]_vars
  BY DEF Next
<1>2. QED
  BY <1>1, PTL DEF Spec, SpecNoMoves

\* As long as nobody is moved, the plan a user's record names is there and is
\* the plan that lists the user.
THEOREM Home == SpecNoMoves => []HomeIsPlan
<1>1. Init => HomeIsPlan
  BY DEF Init, Empty, HomeIsPlan
<1>2. TypeOK /\ OwnershipForest /\ HomeIsPlan /\ [NextNoMoves]_vars => HomeIsPlan'
  <2> SUFFICES ASSUME TypeOK, OwnershipForest, HomeIsPlan, [NextNoMoves]_vars
               PROVE  HomeIsPlan'
    OBVIOUS
  <2>1. CASE vars' = vars
    BY <2>1 DEF vars, HomeIsPlan
  <2>2. QED
    BY <2>1, AddHome, RemoveHome, UpdateHome DEF NextNoMoves
<1>3. QED
  BY <1>1, <1>2, NoMoves, TypeCorrect, Forest, PTL DEF SpecNoMoves

\* A set of plans that is closed upwards and has not Unlimited in it: nobody
\* below Unlimited can be at home there.
LEMMA UpwardSet ==
  ASSUME TypeOK, OwnershipForest, HomeIsPlan, NEW S \in SUBSET PlanNames,
         \A q \in S : ParentPlans(q) \subseteq S, Unlimited \notin S, NEW u \in DOMAIN Users
  PROVE  Users[u].plan \notin S
<1> DEFINE T == {v \in DOMAIN Users : Users[v].plan \notin S}
<1> USE DEF OwnershipForest
<1>1. ASSUME NEW q \in DOMAIN Plans, NEW v \in Plans[q].users
      PROVE  v \in DOMAIN Users /\ Users[v].plan = q
  BY DEF MembersExist, HomeIsPlan, OneHome
<1>2. Unlimited \in DOMAIN Plans /\ DOMAIN Users \subseteq UsersBelow(Unlimited)
  BY DEF Rooted
<1>3. Plans[Unlimited].users \subseteq T
  BY <1>1, <1>2
<1>4. ASSUME NEW w \in T, NEW q \in Users[w].subPlans, NEW v \in Plans[q].users
      PROVE  v \in T
  <2>1. q \in DOMAIN Plans /\ Plans[q].owner = w
    BY DEF SubPlansExist
  <2>2. ParentPlans(q) = {Users[w].plan}
    BY <2>1 DEF ParentPlans
  <2>3. q \notin S
    BY <2>2
  <2>4. QED
    BY <1>1, <2>1, <2>3
<1>5. DownClosed(T)
  BY <1>4 DEF DownClosed
<1>6. T \in SUBSET DOMAIN Users
  OBVIOUS
<1>7. UsersBelow(Unlimited) \subseteq T
  BY <1>3, <1>5, <1>6, BelowIsLeast
<1>8. QED
  BY <1>2, <1>7

LEMMA UpwardWalk ==
  ASSUME TypeOK, OwnershipForest, HomeIsPlan
  PROVE  WalkReachesTop
<1> USE DEF OwnershipForest
<1>1. DOMAIN Plans \subseteq PlanNames /\ DOMAIN Users \subseteq UserNames
  BY DEF TypeOK, IsMap
<1>2. \A q \in PlanNames : ParentPlans(q) \subseteq DOMAIN Plans
  BY DEF ParentPlans, HomeIsPlan
<1>3. ParentPlans(Unlimited) = {}
  BY <1>1, NamesAssumption DEF ParentPlans, PlansOwned
<1> SUFFICES ASSUME NEW p \in DOMAIN Plans
             PROVE  /\ WalkEnds(p)
                    /\ Ancestors(p) \subseteq DOMAIN Plans
                    /\ p = Unlimited \/ Unlimited \in Ancestors(p)
  BY DEF WalkReachesTop
<1>4. Ancestors(p) \subseteq DOMAIN Plans
  BY <1>1, <1>2 DEF Ancestors
<1>5. CASE p # Unlimited
  <2>1. Plans[p].owner \in DOMAIN Users /\ ParentPlans(p) = {Users[Plans[p].owner].plan}
    BY <1>5 DEF PlansOwned, ParentPlans
  <2>2. ASSUME NEW S \in SUBSET PlanNames, ParentPlans(p) \subseteq S,
               \A q \in S : ParentPlans(q) \subseteq S
        PROVE  Unlimited \in S
    BY <2>1, <2>2, UpwardSet
  <2>3. Unlimited \in Ancestors(p)
    BY <2>2, NamesAssumption DEF Ancestors
  <2>4. QED
    BY <1>3, <1>4, <2>3 DEF WalkEnds
<1>6. CASE p = Unlimited
  BY <1>3, <1>4, <1>6 DEF WalkEnds
<1>7. QED
  BY <1>5, <1>6

\* As long as nobody is moved, the loop over the parents' plans and the
\* recursion of GetMaximum end at Unlimited, whatever the depth of the tree.
THEOREM TopReached == SpecNoMoves => []WalkReachesTop
<1>1. TypeOK /\ OwnershipForest /\ HomeIsPlan => WalkReachesTop
  BY UpwardWalk
<1>2. QED
  BY <1>1, Home, NoMoves, TypeCorrect, Forest, PTL

-----------------------------------------------------------------------------
(* The walk up meets every plan that the walk down starts from.              *)

\* The parent of a plan is above it, with everything above the parent.
LEMMA ParentAbove ==
  ASSUME NEW r, NEW q \in PlanNames, q \in ParentPlans(r)
  PROVE  q \in Ancestors(r) /\ Ancestors(q) \subseteq Ancestors(r)
BY DEF Ancestors

\* Who is listed by a plan names it as the own.
LEMMA ListedAtHome ==
  ASSUME OwnershipForest, HomeIsPlan, NEW q \in DOMAIN Plans, NEW v \in Plans[q].users
  PROVE  v \in DOMAIN Users /\ Users[v].plan = q
BY DEF OwnershipForest, MembersExist, HomeIsPlan, OneHome

\* The one parent of a sub-plan is the plan of the user who lists it.
LEMMA OneParent ==
  ASSUME TypeOK, OwnershipForest, HomeIsPlan,
         NEW u \in DOMAIN Users, NEW p \in Users[u].subPlans
  PROVE  /\ p \in DOMAIN Plans /\ p # Unlimited /\ Plans[p].owner = u
         /\ ParentPlans(p) = {Users[u].plan}
         /\ Users[u].plan \in DOMAIN Plans /\ Users[u].plan \in PlanNames
<1>1. p \in DOMAIN Plans /\ p # Unlimited /\ Plans[p].owner = u
  BY OwnedPlan DEF OwnershipForest, Tree
<1>2. QED
  BY <1>1 DEF ParentPlans, HomeIsPlan, TypeOK, IsMap

\* Every plan but Unlimited is such a sub-plan.
LEMMA Owner ==
  ASSUME OwnershipForest, NEW p \in DOMAIN Plans, p # Unlimited
  PROVE  \E u \in DOMAIN Users : p \in Users[u].subPlans
BY DEF OwnershipForest, PlansOwned

\* Whoever is below a plan has it above the own plan, or as the own plan.
LEMMA BelowIsUp ==
  ASSUME TypeOK, OwnershipForest, HomeIsPlan, NEW p \in DOMAIN Plans,
         NEW u \in UsersBelow(p)
  PROVE  u \in DOMAIN Users /\ p \in {Users[u].plan} \cup Ancestors(Users[u].plan)
<1> DEFINE T == {v \in DOMAIN Users : p \in {Users[v].plan} \cup Ancestors(Users[v].plan)}
<1>1. T \in SUBSET DOMAIN Users
  OBVIOUS
<1>2. Plans[p].users \subseteq T
  BY ListedAtHome
<1>3. ASSUME NEW w \in T, NEW r \in Users[w].subPlans, NEW v \in Plans[r].users
      PROVE  v \in T
  <2>1. r \in DOMAIN Plans /\ Users[w].plan \in ParentPlans(r) /\ Users[w].plan \in PlanNames
    BY OneParent
  <2>2. v \in DOMAIN Users /\ Users[v].plan = r
    BY <2>1, ListedAtHome
  <2>3. p \in Ancestors(r)
    BY <2>1, ParentAbove
  <2>4. QED
    BY <2>2, <2>3
<1>4. DownClosed(T)
  BY <1>3 DEF DownClosed
<1>5. UsersBelow(p) \subseteq T
  BY <1>1, <1>2, <1>4, BelowIsLeast
<1>6. QED
  BY <1>5

-----------------------------------------------------------------------------
(* Adding within the limits.                                                 *)

\* _totalUsers counts users below the plan only, and all it comes to.
LEMMA ActiveIsClosed ==
  ASSUME OwnershipForest, NEW p \in DOMAIN Plans
  PROVE  /\ ActiveUsers(Plans, p) \subseteq UsersBelow(p)
         /\ ActiveUsers(Plans, p) \subseteq DOMAIN Users
         /\ Plans[p].users \subseteq ActiveUsers(Plans, p)
         /\ ActiveClosed(Plans, ActiveUsers(Plans, p))
<1> DEFINE A == ActiveUsers(Plans, p)
<1>1. SubPlansExist /\ MembersExist
  BY DEF OwnershipForest
<1>2. A \subseteq DOMAIN Users
  BY DEF ActiveUsers
<1>3. ASSUME NEW S \in SUBSET DOMAIN Users, Plans[p].users \subseteq S,
             ActiveClosed(Plans, S)
      PROVE  A \subseteq S
  BY <1>3 DEF ActiveUsers
<1>4. A \subseteq UsersBelow(p)
  <2>1. /\ UsersBelow(p) \subseteq DOMAIN Users /\ Plans[p].users \subseteq UsersBelow(p)
        /\ DownClosed(UsersBelow(p))
    BY <1>1, BelowIsClosed
  <2>2. ActiveClosed(Plans, UsersBelow(p))
    BY <2>1 DEF DownClosed, ActiveClosed
  <2>3. QED
    BY <1>3, <2>1, <2>2
<1>5. Plans[p].users \subseteq A
  BY <1>1 DEF ActiveUsers, MembersExist
<1>6. ASSUME NEW u \in A, NEW r \in Users[u].subPlans, Plans[r].suspended = {},
             NEW v \in Plans[r].users
      PROVE  v \in A
  <2>1. v \in DOMAIN Users
    BY <1>1, <1>2 DEF SubPlansExist, MembersExist
  <2>2. ASSUME NEW S \in SUBSET DOMAIN Users, Plans[p].users \subseteq S,
               ActiveClosed(Plans, S)
        PROVE  v \in S
    BY <1>3, <1>6, <2>2 DEF ActiveClosed
  <2>3. QED
    BY <2>1, <2>2 DEF ActiveUsers
<1>7. ActiveClosed(Plans, A)
  BY <1>6 DEF ActiveClosed
<1>8. QED
  BY <1>2, <1>4, <1>5, <1>7

\* The database is finite: a step stores one record at most.
Finite == IsFiniteSet(DOMAIN Users) /\ IsFiniteSet(DOMAIN Domains)

LEMMA OneMore ==
  ASSUME NEW S, NEW T, NEW x, IsFiniteSet(S), T \subseteq S \cup {x}
  PROVE  IsFiniteSet(T) /\ Cardinality(T) <= Cardinality(S) + 1
<1>1. IsFiniteSet(S \cup {x}) /\ Cardinality(S \cup {x}) \in {Cardinality(S), Cardinality(S) + 1}
  BY FS_AddElement, FS_CardinalityType
<1>2. IsFiniteSet(T) /\ Cardinality(T) <= Cardinality(S \cup {x})
  BY <1>1, FS_Subset
<1>3. Cardinality(S) \in Nat /\ Cardinality(T) \in Nat
  BY <1>2, FS_CardinalityType
<1>4. QED
  BY <1>1, <1>2, <1>3

LEMMA NoneMore ==
  ASSUME NEW S, NEW T, IsFiniteSet(S), T \subseteq S
  PROVE  IsFiniteSet(T) /\ Cardinality(T) <= Cardinality(S)
BY FS_Subset

\* One step adds one user or one domain, or none.
LEMMA Grows ==
  ASSUME TypeOK, [Next]_vars
  PROVE  /\ \E x : DOMAIN Users' \subseteq DOMAIN Users \cup {x}
         /\ \E x : DOMAIN Domains' \subseteq DOMAIN Domains \cup {x}
<1>1. CASE AddSomething
  BY <1>1 DEF AddSomething, FirstLogin, AddPlan, AddUser, AddDomain, Put
<1>2. CASE RemoveSomething
  BY <1>2 DEF RemoveSomething, DeleteDomain, DeletePlan, DeleteUser, Without
<1>3. CASE UpdateSomePlan \/ MoveSomeUser \/ CheckQuotas
  BY <1>3 DEF UpdateSomePlan, MoveSomeUser, CheckQuotas, UpdatePlan, UpdatePlanRefused,
              UpdateUser, QuotaSuspend, QuotaUnSuspend
<1>4. CASE vars' = vars
  BY <1>4 DEF vars
<1>5. QED
  BY <1>1, <1>2, <1>3, <1>4 DEF Next, NextNoMoves

\* It never holds infinitely many records.
LEMMA StaysFinite == Spec => []Finite
<1>1. Init => Finite
  BY FS_EmptySet DEF Init, Empty, Finite
<1>2. TypeOK /\ Finite /\ [Next]_vars => Finite'
  BY Grows, OneMore DEF Finite
<1>3. QED
  BY <1>1, <1>2, TypeCorrect, PTL DEF Spec

\* Adding a user: only the plan and those above it count the newcomer, and all
\* of them were found below their maximum before.
LEMMA AddUserLimits ==
  ASSUME TypeOK, OwnershipForest, HomeIsPlan, Finite, NEW me \in DOMAIN Users,
         NEW plan \in PlanNames, NEW name \in UserNames, AddUser(me, plan, name),
         NEW p \in DOMAIN Plans
  PROVE  \/ ActiveUsers(Plans, p)' \subseteq DOMAIN Users
         \/ (totalActiveUsers(Plans, p) <= Plans[p].maxUserCount)'
<1> PICK A : A = ActiveUsers(Plans, p)
  OBVIOUS
<1>1. /\ plan \in DOMAIN Plans /\ name \notin DOMAIN Users /\ CheckAddUser(plan)
      /\ Plans' = [Plans EXCEPT ![plan].users = @ \cup {name}]
      /\ Users' = Put(Users, name, NewUser(plan))
  BY DEF AddUser
<1>2. /\ DOMAIN Users' = DOMAIN Users \cup {name}
      /\ Users'[name].subPlans = {}
      /\ \A u \in DOMAIN Users : Users'[u] = Users[u]
  BY <1>1 DEF Put, NewUser
<1>3. /\ DOMAIN Plans' = DOMAIN Plans
      /\ \A r \in DOMAIN Plans :
            /\ Plans'[r].users = IF r = plan THEN Plans[r].users \cup {name}
                                 ELSE Plans[r].users
            /\ Plans'[r].suspended = Plans[r].suspended
            /\ Plans'[r].maxUserCount = Plans[r].maxUserCount
  BY <1>1 DEF TypeOK, IsMap, PlanRecord
<1>4. /\ A \subseteq UsersBelow(p) /\ A \subseteq DOMAIN Users
      /\ Plans[p].users \subseteq A /\ ActiveClosed(Plans, A)
  BY ActiveIsClosed
<1>5. \A u \in DOMAIN Users : Users[u].subPlans \subseteq DOMAIN Plans
  BY DEF OwnershipForest, SubPlansExist
<1>6. ASSUME NEW S \in SUBSET DOMAIN Users', Plans'[p].users \subseteq S,
             ActiveClosed(Plans, S)'
      PROVE  ActiveUsers(Plans, p)' \subseteq S
  BY <1>6 DEF ActiveUsers
<1>7. ActiveUsers(Plans, p)' \subseteq A \cup {name}
  <2>1. Plans'[p].users \subseteq A \cup {name}
    BY <1>3, <1>4
  <2>2. ActiveClosed(Plans, A \cup {name})'
    <3>1. SUFFICES ASSUME NEW u \in A \cup {name}, NEW r \in Users'[u].subPlans,
                          Plans'[r].suspended = {}
                   PROVE  Plans'[r].users \subseteq A \cup {name}
      BY DEF ActiveClosed
    <3>2. u \in A /\ r \in Users[u].subPlans /\ r \in DOMAIN Plans
      BY <1>2, <1>4, <1>5
    <3>3. Plans[r].users \subseteq A
      BY <1>3, <1>4, <3>1, <3>2 DEF ActiveClosed
    <3>4. QED
      BY <1>3, <3>2, <3>3
  <2>3. A \cup {name} \subseteq DOMAIN Users'
    BY <1>2, <1>4
  <2>4. QED
    BY <1>6, <2>1, <2>2, <2>3
<1>8. CASE p \in {plan} \cup Ancestors(plan)
  <2>1. Cardinality(A) < Plans[p].maxUserCount
    BY <1>1, <1>8 DEF CheckAddUser, totalActiveUsers
  <2>2. IsFiniteSet(A)
    BY <1>4, NoneMore DEF Finite
  <2>3. Cardinality(ActiveUsers(Plans, p)') <= Cardinality(A) + 1
        /\ IsFiniteSet(ActiveUsers(Plans, p)')
    BY <1>7, <2>2, OneMore
  <2>4. Plans[p].maxUserCount \in Nat
    BY ValuesAssumption DEF TypeOK, IsMap, PlanRecord
  <2>5. Cardinality(A) \in Nat /\ Cardinality(ActiveUsers(Plans, p)') \in Nat
    BY <2>2, <2>3, FS_CardinalityType
  <2>6. Cardinality(ActiveUsers(Plans, p)') <= Plans'[p].maxUserCount
    <3>1. Plans'[p].maxUserCount = Plans[p].maxUserCount
      BY <1>3
    <3>2. QED
      BY <2>1, <2>3, <2>4, <2>5, <3>1
  <2>7. QED
    BY <2>6 DEF totalActiveUsers
<1>9. CASE p \notin {plan} \cup Ancestors(plan)
  <2>1. ASSUME NEW u \in A
        PROVE  plan \notin Users[u].subPlans
    <3>1. u \in DOMAIN Users /\ p \in {Users[u].plan} \cup Ancestors(Users[u].plan)
      BY <1>4, BelowIsUp
    <3>2. SUFFICES ASSUME plan \in Users[u].subPlans PROVE FALSE
      OBVIOUS
    <3>3. Users[u].plan \in ParentPlans(plan) /\ Users[u].plan \in PlanNames
      BY <3>1, <3>2, OneParent
    <3>4. QED
      BY <1>9, <3>1, <3>3, ParentAbove
  <2>2. Plans'[p].users \subseteq A
    BY <1>3, <1>4, <1>9
  <2>3. ActiveClosed(Plans, A)'
    <3>1. SUFFICES ASSUME NEW u \in A, NEW r \in Users'[u].subPlans,
                          Plans'[r].suspended = {}
                   PROVE  Plans'[r].users \subseteq A
      BY DEF ActiveClosed
    <3>2. r \in Users[u].subPlans /\ r \in DOMAIN Plans /\ r # plan
      BY <1>2, <1>4, <1>5, <2>1
    <3>3. QED
      BY <1>3, <1>4, <3>1, <3>2 DEF ActiveClosed
  <2>4. A \subseteq DOMAIN Users'
    BY <1>2, <1>4
  <2>5. QED
    BY <1>4, <1>6, <2>2, <2>3, <2>4
<1>10. QED
  BY <1>8, <1>9

\* Adding a domain: the counted users stay the same, and only a plan that counts
\* its owner counts the domain.
LEMMA AddDomainLimits ==
  ASSUME TypeOK, OwnershipForest, HomeIsPlan, Finite, NEW me \in DOMAIN Users,
         NEW name \in DomainNames, AddDomain(me, name), NEW p \in DOMAIN Plans
  PROVE  \/ DomainsOf(ActiveUsers(Plans, p))' \subseteq DOMAIN Domains
         \/ (totalActiveDomains(Plans, p) <= Plans[p].maxDomainCount)'
<1> PICK A : A = ActiveUsers(Plans, p)
  OBVIOUS
<1> PICK D : D = DomainsOf(ActiveUsers(Plans, p))
  OBVIOUS
<1>1. /\ Plans' = Plans /\ CheckAddDomain(Users[me].plan)
      /\ Users' = [Users EXCEPT ![me].domains = @ \cup {name}]
  BY DEF AddDomain
<1>2. /\ DOMAIN Users' = DOMAIN Users
      /\ \A u \in DOMAIN Users :
            /\ Users'[u].subPlans = Users[u].subPlans
            /\ Users'[u].domains = IF u = me THEN Users[u].domains \cup {name}
                                   ELSE Users[u].domains
  BY <1>1 DEF TypeOK, IsMap, UserRecord
<1>3. \A S \in SUBSET DOMAIN Users : ActiveClosed(Plans, S)' <=> ActiveClosed(Plans, S)
  BY <1>1, <1>2 DEF ActiveClosed
<1>4. ActiveUsers(Plans, p)' = A
  BY <1>1, <1>2, <1>3 DEF ActiveUsers
<1>5. A \subseteq UsersBelow(p) /\ A \subseteq DOMAIN Users
  BY ActiveIsClosed
<1>6. D \subseteq DOMAIN Domains
  BY <1>5 DEF DomainsOf, OwnershipForest, DomainsOwned
<1>7. DomainsOf(ActiveUsers(Plans, p))' \subseteq
         IF me \in A THEN D \cup {name} ELSE D
  <2>1. DomainsOf(ActiveUsers(Plans, p))' = UNION {Users'[u].domains : u \in A}
    BY <1>4 DEF DomainsOf
  <2>2. SUFFICES ASSUME NEW u \in A, NEW d \in Users'[u].domains
                 PROVE  d \in IF me \in A THEN D \cup {name} ELSE D
    BY <2>1
  <2>3. u \in DOMAIN Users
    BY <1>5
  <2>4. Users[u].domains \subseteq D
    BY DEF DomainsOf
  <2>5. QED
    BY <1>2, <2>3, <2>4
<1>8. CASE me \in A
  <2>1. p \in {Users[me].plan} \cup Ancestors(Users[me].plan)
    BY <1>5, <1>8, BelowIsUp
  <2>2. Cardinality(D) < Plans[p].maxDomainCount
    BY <1>1, <2>1 DEF CheckAddDomain, totalActiveDomains
  <2>3. IsFiniteSet(D)
    BY <1>6, NoneMore DEF Finite
  <2>4. Cardinality(DomainsOf(ActiveUsers(Plans, p))') <= Cardinality(D) + 1
        /\ IsFiniteSet(DomainsOf(ActiveUsers(Plans, p))')
    BY <1>7, <1>8, <2>3, OneMore
  <2>5. Plans[p].maxDomainCount \in Nat
    BY ValuesAssumption DEF TypeOK, IsMap, PlanRecord
  <2>6. /\ Cardinality(D) \in Nat
        /\ Cardinality(DomainsOf(ActiveUsers(Plans, p))') \in Nat
    BY <2>3, <2>4, FS_CardinalityType
  <2>7. Cardinality(DomainsOf(ActiveUsers(Plans, p))') <= Plans'[p].maxDomainCount
    BY <1>1, <2>2, <2>4, <2>5, <2>6
  <2>8. QED
    BY <2>7 DEF totalActiveDomains
<1>9. CASE me \notin A
  BY <1>6, <1>7, <1>9
<1>10. QED
  BY <1>8, <1>9

\* What AddedWithinLimits says of one step.
WithinLimits ==
    \A p \in DOMAIN Plans \cap DOMAIN Plans' :
        /\ \/ ActiveUsers(Plans, p)' \subseteq DOMAIN Users
           \/ (totalActiveUsers(Plans, p) <= Plans[p].maxUserCount)'
        /\ \/ DomainsOf(ActiveUsers(Plans, p))' \subseteq DOMAIN Domains
           \/ (totalActiveDomains(Plans, p) <= Plans[p].maxDomainCount)'

LEMMA StepLimits ==
  ASSUME TypeOK, OwnershipForest, OwnershipForest', HomeIsPlan, Finite,
         [NextNoMoves]_vars
  PROVE  WithinLimits
<1>1. \A p : /\ ActiveUsers(Plans, p)' \subseteq DOMAIN Users'
             /\ DomainsOf(ActiveUsers(Plans, p))' \subseteq DOMAIN Domains'
  <2>1. ASSUME NEW p
        PROVE  ActiveUsers(Plans, p)' \subseteq DOMAIN Users'
    BY DEF ActiveUsers
  <2>2. ASSUME NEW p
        PROVE  DomainsOf(ActiveUsers(Plans, p))' \subseteq DOMAIN Domains'
    BY <2>1 DEF DomainsOf, OwnershipForest, DomainsOwned
  <2>3. QED
    BY <2>1, <2>2
<1>2. ASSUME DOMAIN Users' \subseteq DOMAIN Users
      PROVE  \A p : ActiveUsers(Plans, p)' \subseteq DOMAIN Users
  BY <1>1, <1>2
<1>3. ASSUME DOMAIN Domains' \subseteq DOMAIN Domains
      PROVE  \A p : DomainsOf(ActiveUsers(Plans, p))' \subseteq DOMAIN Domains
  BY <1>1, <1>3
<1>4. ASSUME NEW u \in UserNames, FirstLogin(u)
      PROVE  WithinLimits
  <2>1. DOMAIN Plans = {}
    BY <1>4, Owner DEF FirstLogin, OwnershipForest, Rooted
  <2>2. QED
    BY <2>1 DEF WithinLimits
<1>5. ASSUME NEW me \in DOMAIN Users, NEW plan \in PlanNames, NEW name \in UserNames,
             AddUser(me, plan, name)
      PROVE  WithinLimits
  <2>1. DOMAIN Domains' \subseteq DOMAIN Domains
    BY <1>5 DEF AddUser
  <2>2. QED
    BY <1>3, <1>5, <2>1, AddUserLimits DEF WithinLimits
<1>6. ASSUME NEW me \in DOMAIN Users, NEW name \in DomainNames, AddDomain(me, name)
      PROVE  WithinLimits
  <2>1. DOMAIN Users' \subseteq DOMAIN Users
    BY <1>6 DEF AddDomain
  <2>2. QED
    BY <1>2, <1>6, <2>1, AddDomainLimits DEF WithinLimits
<1>7. ASSUME DOMAIN Users' \subseteq DOMAIN Users, DOMAIN Domains' \subseteq DOMAIN Domains
      PROVE  WithinLimits
  BY <1>2, <1>3, <1>7 DEF WithinLimits
<1>8. ASSUME NEW me \in DOMAIN Users, NEW name \in PlanNames, NEW opts \in Submissions,
             AddPlan(me, name, opts)
      PROVE  WithinLimits
  BY <1>7, <1>8 DEF AddPlan
<1>9. CASE RemoveSomething
  BY <1>7, <1>9 DEF RemoveSomething, DeleteDomain, DeletePlan, DeleteUser, Without
<1>10. CASE UpdateSomePlan \/ CheckQuotas
  BY <1>7, <1>10 DEF UpdateSomePlan, CheckQuotas, UpdatePlan, UpdatePlanRefused,
                     QuotaSuspend, QuotaUnSuspend
<1>11. CASE vars' = vars
  BY <1>7, <1>11 DEF vars
<1>12. QED
  BY <1>4, <1>5, <1>6, <1>8, <1>9, <1>10, <1>11 DEF NextNoMoves, AddSomething

\* CheckOperation (database.js:241-288) asks the plan and every plan above it:
\* as long as nobody is moved, no plan that counts a user or a domain just
\* added counts more than its maximum, whatever the depth of the tree, what
\* was edited, refused, suspended or deleted before.
THEOREM LimitsKept == SpecNoMoves => AddedWithinLimits
<1>1. /\ TypeOK /\ OwnershipForest /\ OwnershipForest' /\ HomeIsPlan /\ Finite
      /\ [NextNoMoves]_vars
      => [\A p \in DOMAIN Plans \cap DOMAIN Plans' :
            /\ (ActiveUsers(Plans, p))' \subseteq DOMAIN Users
                  \/ (totalActiveUsers(Plans, p) <= Plans[p].maxUserCount)'
            /\ (DomainsOf(ActiveUsers(Plans, p)))' \subseteq DOMAIN Domains
                  \/ (totalActiveDomains(Plans, p) <= Plans[p].maxDomainCount)']_vars
  BY StepLimits DEF WithinLimits
<1>2. QED
  BY <1>1, Home, NoMoves, TypeCorrect, Forest, StaysFinite, PTL
     DEF SpecNoMoves, AddedWithinLimits

-----------------------------------------------------------------------------
(* The maximum in force.  GetMaximum calls itself for the parent; the plans  *)
(* form a tree, so there is exactly one function that does what it says, and *)
(* what holds for it can be carried down from Unlimited with UpwardSet.      *)

\* The plan Unlimited has no maxima, every other plan has one for every field.
Maximums ==
    \A p \in DOMAIN Plans :
        DOMAIN Plans[p].planMaximums = IF p = Unlimited THEN {} ELSE Fields

LEMMA MaximumsKept ==
  ASSUME TypeOK, OwnershipForest, Maximums, [Next]_vars
  PROVE  Maximums'
<1>1. ASSUME \A p \in DOMAIN Plans' :
                \/ p \in DOMAIN Plans
                   /\ DOMAIN Plans'[p].planMaximums = DOMAIN Plans[p].planMaximums
                \/ p # Unlimited /\ DOMAIN Plans'[p].planMaximums = Fields
      PROVE  Maximums'
  BY <1>1 DEF Maximums
<1>2. DOMAIN Users # {} => Unlimited \in DOMAIN Plans
  BY DEF OwnershipForest, Rooted
<1>3. \A opts \in Submissions : DOMAIN opts.planMaximums = Fields
  BY ValuesAssumption
<1>4. ASSUME NEW u \in UserNames, FirstLogin(u)
      PROVE  Maximums'
  <2>1. DOMAIN Plans = {}
    BY <1>4, Owner DEF FirstLogin, OwnershipForest, Rooted
  <2>2. DOMAIN Plans' = {Unlimited} /\ Plans'[Unlimited] = UnlimitedPlan(u)
    BY <1>4, <2>1 DEF FirstLogin, Put
  <2>3. DOMAIN UnlimitedPlan(u).planMaximums = {}
    BY DEF UnlimitedPlan
  <2>4. QED
    BY <2>2, <2>3 DEF Maximums
<1>5. ASSUME NEW me \in DOMAIN Users, NEW name \in PlanNames, NEW opts \in Submissions,
             AddPlan(me, name, opts)
      PROVE  Maximums'
  <2>1. name # Unlimited
    BY <1>2, <1>5 DEF AddPlan
  <2>2. NewPlan(me, opts).planMaximums = opts.planMaximums
    BY DEF NewPlan
  <2>3. /\ DOMAIN Plans' = DOMAIN Plans \cup {name}
        /\ Plans'[name].planMaximums = opts.planMaximums
        /\ \A p \in DOMAIN Plans \ {name} : Plans'[p] = Plans[p]
    BY <1>5, <2>2 DEF AddPlan, Put
  <2>4. QED
    BY <1>1, <1>3, <2>1, <2>3
<1>6. ASSUME NEW me \in DOMAIN Users, NEW plan \in PlanNames, NEW name \in UserNames,
             AddUser(me, plan, name)
      PROVE  Maximums'
  BY <1>1, <1>6 DEF AddUser, TypeOK, IsMap, PlanRecord
<1>7. CASE RemoveSomething
  <2>1. ASSUME NEW me \in DOMAIN Users, NEW name \in UserNames, DeleteUser(me, name)
        PROVE  Maximums'
    <3>1. \A p \in DOMAIN Plans' :
             p \in DOMAIN Plans /\ Plans'[p] = [Plans[p] EXCEPT !.users = @ \ {name}]
      BY <2>1 DEF DeleteUser
    <3>2. \A p \in DOMAIN Plans' : Plans'[p].planMaximums = Plans[p].planMaximums
      BY <3>1 DEF TypeOK, IsMap, PlanRecord
    <3>3. QED
      BY <1>1, <3>1, <3>2
  <2>2. ASSUME NEW me \in DOMAIN Users,
               \/ \E name \in DomainNames : DeleteDomain(me, name)
               \/ \E name \in PlanNames : DeletePlan(me, name)
        PROVE  Maximums'
    BY <1>1, <2>2 DEF DeleteDomain, DeletePlan, Without
  <2>3. QED
    BY <1>7, <2>1, <2>2 DEF RemoveSomething
<1>8. ASSUME NEW me \in DOMAIN Users, NEW name \in PlanNames, NEW opts \in Submissions,
             UpdatePlanRefused(me, name, opts) \/ UpdatePlan(me, name, opts)
      PROVE  Maximums'
  <2>1. name # Unlimited
    BY <1>8, OwnedPlan DEF UpdatePlanRefused, UpdatePlan, OwnershipForest, Tree
  <2>2. /\ DOMAIN Edited(name, opts) = DOMAIN Plans
        /\ \A p \in DOMAIN Plans :
              Edited(name, opts)[p].planMaximums =
                 IF p = name THEN opts.planMaximums ELSE Plans[p].planMaximums
    BY DEF Edited, TypeOK, IsMap, PlanRecord
  <2>3. /\ DOMAIN Plans' = DOMAIN Plans
        /\ \A p \in DOMAIN Plans :
              Plans'[p].planMaximums \in {Edited(name, opts)[p].planMaximums,
                                          Plans[p].planMaximums}
    <3>1. CASE UpdatePlanRefused(me, name, opts)
      BY <2>2, <3>1 DEF UpdatePlanRefused
    <3>2. CASE UpdatePlan(me, name, opts)
      <4> DEFINE plans == [q \in DOMAIN Plans |->
                   IF q \in PlansBelow(name)
                   THEN [Plans[q] EXCEPT !.suspended = @ \cup OverMaxima(q, opts)]
                   ELSE Edited(name, opts)[q]]
      <4>1. /\ DOMAIN plans = DOMAIN Plans
            /\ \A p \in DOMAIN Plans :
                  plans[p].planMaximums \in {Edited(name, opts)[p].planMaximums,
                                             Plans[p].planMaximums}
        BY DEF TypeOK, IsMap, PlanRecord
      <4>2. PICK over : Plans' = [plans EXCEPT ![name].suspended =
                                     IF over = {} THEN {} ELSE @ \cup over]
        BY <3>2 DEF UpdatePlan
      <4> HIDE DEF plans
      <4>3. /\ DOMAIN Plans' = DOMAIN Plans
            /\ \A p \in DOMAIN Plans : Plans'[p].planMaximums = plans[p].planMaximums
        BY <4>1, <4>2
      <4>4. QED
        BY <4>1, <4>3
    <3>3. QED
      BY <1>8, <3>1, <3>2
  <2>4. QED
    BY <1>1, <1>3, <2>1, <2>2, <2>3
<1>9. ASSUME NEW p \in DOMAIN Plans, NEW u \in Plans[p].users,
             QuotaSuspend(p, u) \/ QuotaUnSuspend(p, u)
      PROVE  Maximums'
  <2>1. /\ DOMAIN Plans' = DOMAIN Plans
        /\ \A q \in DOMAIN Plans : Plans'[q].planMaximums = Plans[q].planMaximums
    BY <1>9 DEF QuotaSuspend, QuotaUnSuspend, TypeOK, IsMap, PlanRecord
  <2>2. QED
    BY <1>1, <2>1
<1>10. CASE Plans' = Plans
  BY <1>1, <1>10
<1>11. QED
  BY <1>4, <1>5, <1>6, <1>7, <1>8, <1>9, <1>10
     DEF Next, NextNoMoves, AddSomething, AddDomain, UpdateSomePlan, MoveSomeUser,
         UpdateUser, CheckQuotas, vars

\* Nobody edits Unlimited: it is no user's sub-plan.
LEMMA StayMaximums == Spec => []Maximums
<1>1. Init => Maximums
  BY DEF Init, Empty, Maximums
<1>2. TypeOK /\ OwnershipForest /\ Maximums /\ [Next]_vars => Maximums'
  BY MaximumsKept
<1>3. QED
  BY <1>1, <1>2, TypeCorrect, Forest, PTL DEF Spec

\* What the loop of GetMaximum makes of the plan's own entry and the parent's
\* maximum.
Tighter(parentVal, val) ==
    IF parentVal = defaultMaximum THEN val
    ELSE IF val = defaultMaximum \/ parentVal < val THEN parentVal ELSE val

\* f is what GetMaximum computes, plan by plan.
IsMaximum(f, field) ==
    f = [p \in DOMAIN Plans |->
          LET val     == Plans[p].planMaximums[field]
              parents == (ParentPlans(p) \ {p}) \cap DOMAIN Plans
          IN  IF p = Unlimited THEN defaultMaximum
              ELSE IF parents = {} THEN val
              ELSE LET parentVal == f[CHOOSE q \in parents : TRUE]
                   IN  IF parentVal = defaultMaximum THEN val
                       ELSE IF val = defaultMaximum \/ parentVal < val
                       THEN parentVal ELSE val]

LEMMA GetMaximumIs ==
  ASSUME NEW field, NEW g, IsMaximum(g, field)
  PROVE  \E f : IsMaximum(f, field) /\ \A name : GetMaximum(name, field) = f[name]
<1> DEFINE f == CHOOSE h : IsMaximum(h, field)
<1>1. IsMaximum(f, field)
  OBVIOUS
<1>2. \A name : GetMaximum(name, field) = f[name]
  BY DEF GetMaximum, IsMaximum
<1>3. QED
  BY <1>1, <1>2

\* The states the maxima are looked up in.
Settled == TypeOK /\ OwnershipForest /\ HomeIsPlan /\ Maximums

Values == Nat \cup {defaultMaximum}

\* Every plan but Unlimited has one parent, another plan, and a number or
\* nothing in each field.
LEMMA Parent ==
  ASSUME Settled, NEW p \in DOMAIN Plans, p # Unlimited, NEW field \in Fields
  PROVE  \E r \in DOMAIN Plans :
            /\ r # p /\ r \in PlanNames /\ ParentPlans(p) = {r}
            /\ \E u \in DOMAIN Users : p \in Users[u].subPlans /\ Users[u].plan = r
            /\ Plans[p].planMaximums[field] \in Values
<1>1. TypeOK /\ OwnershipForest /\ HomeIsPlan /\ Maximums
  BY DEF Settled
<1>2. PICK u \in DOMAIN Users : p \in Users[u].subPlans
  BY <1>1, Owner
<1>3. /\ ParentPlans(p) = {Users[u].plan} /\ Users[u].plan \in DOMAIN Plans
      /\ Users[u].plan \in PlanNames
  BY <1>1, <1>2, OneParent
<1>4. Users[u].plan # p
  <2>1. p \in PlanNames
    BY <1>1 DEF TypeOK, IsMap
  <2>2. CASE ParentPlans(p) \subseteq {p}
    BY <1>1, <2>1, <2>2, UpwardSet
  <2>3. CASE ~(ParentPlans(p) \subseteq {p})
    BY <1>3, <2>3
  <2>4. QED
    BY <2>2, <2>3
<1>5. Plans[p].planMaximums[field] \in Values
  <2>1. /\ Plans[p].planMaximums \in [Fields -> Maxima] \cup [{} -> Maxima]
        /\ DOMAIN Plans[p].planMaximums = Fields
    BY <1>1 DEF TypeOK, IsMap, PlanRecord, Maximums
  <2>2. Plans[p].planMaximums[field] \in Maxima
    BY <2>1
  <2>3. QED
    BY <2>2, ValuesAssumption DEF Values
<1>6. QED
  BY <1>2, <1>3, <1>4, <1>5

\* So the recursion goes from a plan to its parent.
LEMMA OneUp ==
  ASSUME Settled, NEW field, NEW f, IsMaximum(f, field),
         NEW p \in DOMAIN Plans, p # Unlimited,
         NEW r \in DOMAIN Plans, r # p, ParentPlans(p) = {r}
  PROVE  f[p] = Tighter(f[r], Plans[p].planMaximums[field])
<1>1. (ParentPlans(p) \ {p}) \cap DOMAIN Plans = {r}
  OBVIOUS
<1>2. (CHOOSE q \in {r} : TRUE) = r
  OBVIOUS
<1>3. f[p] = LET val == Plans[p].planMaximums[field]
                 parentVal == f[CHOOSE q \in {r} : TRUE]
             IN  IF parentVal = defaultMaximum THEN val
                 ELSE IF val = defaultMaximum \/ parentVal < val
                 THEN parentVal ELSE val
  BY <1>1 DEF IsMaximum
<1>4. QED
  BY <1>2, <1>3 DEF Tighter

\* A maximum is a number or nothing.
LEMMA MaximumType ==
  ASSUME Settled, NEW field \in Fields, NEW f, IsMaximum(f, field)
  PROVE  \A p \in DOMAIN Plans : f[p] \in Values
<1> DEFINE B == {p \in DOMAIN Plans : f[p] \notin Values}
<1>1. f[Unlimited] = defaultMaximum \/ Unlimited \notin DOMAIN Plans
  BY DEF IsMaximum
<1>2. Unlimited \notin B
  BY <1>1 DEF Values
<1>3. ASSUME NEW p \in B
      PROVE  \E r \in B : /\ ParentPlans(p) = {r}
                          /\ \E u \in DOMAIN Users : Users[u].plan = r
  <2>1. PICK r \in DOMAIN Plans :
            /\ r # p /\ r \in PlanNames /\ ParentPlans(p) = {r}
            /\ \E u \in DOMAIN Users : p \in Users[u].subPlans /\ Users[u].plan = r
            /\ Plans[p].planMaximums[field] \in Values
    BY <1>2, Parent
  <2>2. f[p] = Tighter(f[r], Plans[p].planMaximums[field])
    BY <1>2, <2>1, OneUp
  <2>3. f[r] \notin Values
    BY <2>1, <2>2 DEF Tighter, Values
  <2>4. QED
    BY <2>1, <2>3
<1>4. \A p \in B : ParentPlans(p) \subseteq B
  BY <1>3
<1>5. B \in SUBSET PlanNames
  BY DEF Settled, TypeOK, IsMap
<1>6. \A u \in DOMAIN Users : Users[u].plan \notin B
  BY <1>2, <1>4, <1>5, UpwardSet DEF Settled
<1>7. B = {}
  BY <1>3, <1>6
<1>8. QED
  BY <1>7

\* The parent of a plan below q is q or below q too.
LEMMA ParentBelow ==
  ASSUME Settled, NEW q \in DOMAIN Plans, NEW p \in PlansBelow(q)
  PROVE  /\ p \in DOMAIN Plans /\ p # Unlimited
         /\ ParentPlans(p) \subseteq {q} \cup PlansBelow(q)
<1>1. TypeOK /\ OwnershipForest /\ HomeIsPlan
  BY DEF Settled
<1>2. SubPlansExist /\ MembersExist
  BY <1>1 DEF OwnershipForest
<1>3. PICK u \in UsersBelow(q) : p \in Users[u].subPlans
  BY DEF PlansBelow
<1>4. u \in DOMAIN Users
  BY DEF UsersBelow
<1>5. /\ p \in DOMAIN Plans /\ p # Unlimited
      /\ ParentPlans(p) = {Users[u].plan}
  BY <1>1, <1>3, <1>4, OneParent
<1>6. PICK h \in {q} \cup PlansBelow(q) : u \in Plans[h].users
  BY <1>2, BelowHasHome
<1>7. h \in DOMAIN Plans
  BY <1>2 DEF PlansBelow, UsersBelow, SubPlansExist
<1>8. Users[u].plan = h
  BY <1>1, <1>6, <1>7, ListedAtHome
<1>9. QED
  BY <1>5, <1>6, <1>8

\* An entry of a plan bounds the maximum of the plan and of every plan below.
LEMMA MaximumBelow ==
  ASSUME Settled, NEW field \in Fields, NEW f, IsMaximum(f, field),
         NEW q \in DOMAIN Plans, q # Unlimited,
         NEW v \in Nat, v = Plans[q].planMaximums[field]
  PROVE  \A p \in PlansBelow(q) : f[p] \in Nat /\ f[p] <= v
<1> DEFINE Bounded(p) == f[p] \in Nat /\ f[p] <= v
           B == {p \in PlansBelow(q) : ~Bounded(p)}
<1>1. \A p \in DOMAIN Plans : f[p] \in Values
  BY MaximumType
<1>2. \A a \in Values : Tighter(a, v) \in Nat /\ Tighter(a, v) <= v
  BY DEF Tighter, Values, defaultMaximum
<1>3. \A a \in Nat, b \in Values :
         a <= v => Tighter(a, b) \in Nat /\ Tighter(a, b) <= v
  BY DEF Tighter, Values, defaultMaximum
<1>4. Bounded(q)
  <2>1. PICK r \in DOMAIN Plans : r # q /\ ParentPlans(q) = {r}
    BY Parent
  <2>2. f[q] = Tighter(f[r], v)
    BY <2>1, OneUp
  <2>3. QED
    BY <1>1, <1>2, <2>1, <2>2
<1>5. ASSUME NEW p \in B
      PROVE  \E r \in B : /\ ParentPlans(p) = {r}
                          /\ \E u \in DOMAIN Users : Users[u].plan = r
  <2>1. /\ p \in DOMAIN Plans /\ p # Unlimited
        /\ ParentPlans(p) \subseteq {q} \cup PlansBelow(q)
    BY ParentBelow
  <2>2. PICK r \in DOMAIN Plans :
            /\ r # p /\ r \in PlanNames /\ ParentPlans(p) = {r}
            /\ \E u \in DOMAIN Users : p \in Users[u].subPlans /\ Users[u].plan = r
            /\ Plans[p].planMaximums[field] \in Values
    BY <2>1, Parent
  <2>3. f[p] = Tighter(f[r], Plans[p].planMaximums[field])
    BY <2>1, <2>2, OneUp
  <2>4. ~Bounded(r)
    <3>1. SUFFICES ASSUME Bounded(r) PROVE FALSE
      OBVIOUS
    <3>2. Bounded(p)
      BY <1>3, <2>2, <2>3, <3>1
    <3>3. QED
      BY <3>2
  <2>5. r \in B
    BY <1>4, <2>1, <2>2, <2>4
  <2>6. QED
    BY <2>2, <2>5
<1>6. B \in SUBSET PlanNames /\ Unlimited \notin B
  <2>1. \A p \in B : p \in DOMAIN Plans /\ p # Unlimited
    BY ParentBelow
  <2>2. QED
    BY <2>1 DEF Settled, TypeOK, IsMap
<1>7. \A p \in B : ParentPlans(p) \subseteq B
  BY <1>5
<1> HIDE DEF B
<1>8. \A u \in DOMAIN Users : Users[u].plan \notin B
  BY <1>6, <1>7, UpwardSet DEF Settled
<1>9. B = {}
  BY <1>5, <1>8
<1>10. QED
  BY <1>9 DEF B

\* A set of numbers has a least one.
LEMMA LeastNumber ==
  ASSUME NEW S \in SUBSET Nat, S # {}
  PROVE  \E m \in S : \A n \in S : m <= n
<1> DEFINE R == OpToRel(<, Nat)
<1>1. IsWellFoundedOn(R, Nat)
  BY NatLessThanWellFounded
<1>2. \A m \in Nat, n \in Nat : <<m, n>> \in R <=> m < n
  BY DEF OpToRel
<1> HIDE DEF R
<1>3. PICK m \in S : \A n \in S : ~(<<n, m>> \in R)
  BY <1>1, WFMin
<1>4. ASSUME NEW n \in S
      PROVE  m <= n
  <2>1. m \in Nat /\ n \in Nat
    OBVIOUS
  <2>2. ~(n < m)
    BY <1>2, <1>3, <2>1, Zenon
  <2>3. QED
    BY <2>1, <2>2
<1>5. QED
  BY <1>4

\* The tightest of some maxima.
Least(S) == IF S = {} THEN defaultMaximum ELSE CHOOSE m \in S : \A n \in S : m <= n

LEMMA LeastIs ==
  ASSUME NEW S \in SUBSET Nat
  PROVE  /\ S = {} => Least(S) = defaultMaximum
         /\ S # {} => Least(S) \in S /\ \A n \in S : Least(S) <= n
  BY LeastNumber DEF Least

LEMMA LeastAdd ==
  ASSUME NEW S \in SUBSET Nat, NEW val \in Values, NEW T,
         T = (S \cup {val}) \ {defaultMaximum}
  PROVE  Least(T) = Tighter(Least(S), val)
<1>1. T \in SUBSET Nat
  BY DEF Values
<1>2. /\ S = {} => Least(S) = defaultMaximum
      /\ S # {} => Least(S) \in S /\ \A n \in S : Least(S) <= n
  BY LeastIs
<1>3. /\ T = {} => Least(T) = defaultMaximum
      /\ T # {} => Least(T) \in T /\ \A n \in T : Least(T) <= n
  BY <1>1, LeastIs
<1>4. CASE val = defaultMaximum
  <2>1. T = S
    BY <1>4 DEF defaultMaximum
  <2>2. QED
    BY <1>4, <2>1 DEF Tighter
<1>5. CASE val \in Nat
  <2>1. T = S \cup {val}
    BY <1>5 DEF defaultMaximum
  <2>2. CASE S = {}
    <3>1. T = {val} /\ T # {}
      BY <2>1, <2>2
    <3>2. Least(T) = val
      BY <1>3, <3>1
    <3>3. QED
      BY <1>2, <2>2, <3>2 DEF Tighter
  <2>3. CASE S # {}
    <3>1. PICK a : a = Least(S)
      OBVIOUS
    <3>2. PICK b : b = Least(T)
      OBVIOUS
    <3>3. a \in Nat /\ a \in S /\ \A n \in S : a <= n
      BY <1>2, <2>3, <3>1
    <3>4. b \in Nat /\ b \in S \cup {val} /\ \A n \in S \cup {val} : b <= n
      BY <1>1, <1>3, <2>1, <3>2
    <3>5. b = IF a < val THEN a ELSE val
      <4>1. CASE a < val
        <5>1. b <= a /\ b # val
          BY <1>5, <3>3, <3>4, <4>1
        <5>2. a <= b
          BY <3>3, <3>4, <5>1
        <5>3. QED
          BY <3>3, <3>4, <4>1, <5>1, <5>2
      <4>2. CASE ~(a < val)
        <5>1. b <= val
          BY <3>4
        <5>2. b = val \/ a <= b
          BY <3>3, <3>4
        <5>3. QED
          BY <1>5, <3>3, <3>4, <4>2, <5>1, <5>2
      <4>3. QED
        BY <4>1, <4>2
    <3>6. a # defaultMaximum /\ val # defaultMaximum
      BY <1>5, <3>3 DEF defaultMaximum
    <3>7. QED
      BY <3>1, <3>2, <3>5, <3>6 DEF Tighter
  <2>4. QED
    BY <2>2, <2>3
<1>6. QED
  BY <1>4, <1>5 DEF Values

\* The entries on the way up from a plan, Unlimited's left out.
Entries(p, field) ==
    {Plans[q].planMaximums[field] :
        q \in ({p} \cup Ancestors(p)) \ {Unlimited}} \ {defaultMaximum}

\* What is above a plan is its parent and what is above the parent.
LEMMA AboveSplit ==
  ASSUME TypeOK, NEW p, NEW r \in PlanNames, ParentPlans(p) = {r}
  PROVE  Ancestors(p) = {r} \cup Ancestors(r)
<1>1. {r} \cup Ancestors(r) \subseteq Ancestors(p)
  BY ParentAbove
<1>2. \A q : ParentPlans(q) \subseteq PlanNames
  BY DEF ParentPlans, TypeOK, IsMap, UserRecord
<1>3. ParentPlans(r) \subseteq Ancestors(r)
  BY <1>2 DEF Ancestors
<1>4. \A q \in Ancestors(r) : ParentPlans(q) \subseteq Ancestors(r)
  BY <1>2 DEF Ancestors
<1>5. Ancestors(r) \subseteq PlanNames
  BY DEF Ancestors
<1>6. ASSUME NEW S \in SUBSET PlanNames, ParentPlans(p) \subseteq S,
             \A q \in S : ParentPlans(q) \subseteq S
      PROVE  Ancestors(p) \subseteq S
  BY <1>6 DEF Ancestors
<1>7. Ancestors(p) \subseteq {r} \cup Ancestors(r)
  <2>1. PICK S : S = {r} \cup Ancestors(r)
    OBVIOUS
  <2>2. S \in SUBSET PlanNames /\ ParentPlans(p) \subseteq S
    BY <1>5, <2>1
  <2>3. \A q \in S : ParentPlans(q) \subseteq S
    BY <1>3, <1>4, <2>1
  <2>4. Ancestors(p) \subseteq S
    BY <1>6, <2>2, <2>3
  <2>5. QED
    BY <2>1, <2>4
<1>8. QED
  BY <1>1, <1>7

\* The tightest entry on the way up is such a function: the recursion is well
\* defined on every reachable database.
LEMMA MaximumExists ==
  ASSUME Settled, NEW field \in Fields
  PROVE  \E f : IsMaximum(f, field)
<1> DEFINE g == [p \in DOMAIN Plans |-> Least(Entries(p, field))]
<1>1. TypeOK /\ OwnershipForest /\ HomeIsPlan
  BY DEF Settled
<1>2. DOMAIN Plans \subseteq PlanNames
  BY <1>1 DEF TypeOK, IsMap
<1>3. \A p \in DOMAIN Plans : Ancestors(p) \subseteq DOMAIN Plans
  BY <1>1, UpwardWalk DEF WalkReachesTop
<1>4. \A p \in DOMAIN Plans : Entries(p, field) \in SUBSET Nat
  <2>1. \A q \in DOMAIN Plans \ {Unlimited} : Plans[q].planMaximums[field] \in Values
    BY Parent
  <2>2. QED
    BY <1>3, <2>1 DEF Entries, Values
<1>5. ASSUME Unlimited \in DOMAIN Plans
      PROVE  g[Unlimited] = defaultMaximum
  <2>1. ParentPlans(Unlimited) = {}
    BY <1>1, <1>5, NamesAssumption
       DEF ParentPlans, OwnershipForest, PlansOwned, TypeOK, IsMap
  <2>2. Ancestors(Unlimited) = {}
    BY <2>1 DEF Ancestors
  <2>3. Entries(Unlimited, field) = {}
    BY <2>2 DEF Entries
  <2>4. QED
    BY <1>5, <2>3 DEF Least
<1>6. ASSUME NEW p \in DOMAIN Plans, p # Unlimited
      PROVE  \E r \in DOMAIN Plans :
                /\ r # p /\ ParentPlans(p) = {r}
                /\ g[p] = Tighter(g[r], Plans[p].planMaximums[field])
  <2>1. PICK r \in DOMAIN Plans :
            /\ r # p /\ r \in PlanNames /\ ParentPlans(p) = {r}
            /\ Plans[p].planMaximums[field] \in Values
    BY <1>6, Parent
  <2>2. Ancestors(p) = {r} \cup Ancestors(r)
    BY <1>1, <2>1, AboveSplit
  <2>3. Entries(p, field) = (Entries(r, field) \cup {Plans[p].planMaximums[field]})
                            \ {defaultMaximum}
    BY <1>6, <2>2 DEF Entries
  <2>4. Least(Entries(p, field))
          = Tighter(Least(Entries(r, field)), Plans[p].planMaximums[field])
    BY <1>4, <2>1, <2>3, LeastAdd
  <2>5. QED
    BY <2>1, <2>4
<1> HIDE DEF g
<1>7. ASSUME NEW p \in DOMAIN Plans
      PROVE  g[p] = LET val     == Plans[p].planMaximums[field]
                        parents == (ParentPlans(p) \ {p}) \cap DOMAIN Plans
                    IN  IF p = Unlimited THEN defaultMaximum
                        ELSE IF parents = {} THEN val
                        ELSE LET parentVal == g[CHOOSE q \in parents : TRUE]
                             IN  IF parentVal = defaultMaximum THEN val
                                 ELSE IF val = defaultMaximum \/ parentVal < val
                                 THEN parentVal ELSE val
  <2>1. CASE p = Unlimited
    BY <1>5, <2>1
  <2>2. CASE p # Unlimited
    <3>1. PICK r \in DOMAIN Plans :
              /\ r # p /\ ParentPlans(p) = {r}
              /\ g[p] = Tighter(g[r], Plans[p].planMaximums[field])
      BY <1>6, <2>2
    <3>2. (ParentPlans(p) \ {p}) \cap DOMAIN Plans = {r}
      BY <3>1
    <3>3. (CHOOSE q \in {r} : TRUE) = r
      OBVIOUS
    <3>4. QED
      BY <2>2, <3>1, <3>2, <3>3 DEF Tighter
  <2>3. QED
    BY <2>1, <2>2
<1>8. IsMaximum(g, field)
  BY <1>7 DEF IsMaximum, g
<1>9. QED
  BY <1>8

LEMMA MaximumHolds ==
  ASSUME Settled
  PROVE  MaximumInForce
<1>1. SUFFICES ASSUME NEW q \in DOMAIN Plans, NEW p \in PlansBelow(q),
                      NEW field \in DOMAIN Plans[q].planMaximums,
                      Plans[q].planMaximums[field] # defaultMaximum
               PROVE  /\ GetMaximum(p, field) # defaultMaximum
                      /\ GetMaximum(p, field) <= Plans[q].planMaximums[field]
  BY DEF MaximumInForce
<1>2. q # Unlimited /\ field \in Fields
  BY DEF Settled, Maximums
<1>3. Plans[q].planMaximums[field] \in Nat
  BY <1>1, <1>2, Parent DEF Values
<1>4. PICK f : IsMaximum(f, field) /\ \A name : GetMaximum(name, field) = f[name]
  BY <1>2, MaximumExists, GetMaximumIs
<1>5. f[p] \in Nat /\ f[p] <= Plans[q].planMaximums[field]
  BY <1>2, <1>3, <1>4, MaximumBelow
<1>6. QED
  BY <1>4, <1>5 DEF defaultMaximum

\* GetMaximum (database.js:297-331) on every database the panel can reach
\* without moving a user: the maximum in force for a plan never exceeds an
\* entry of any plan above it, at any depth, whatever was edited or refused.
THEOREM MaximumKept == SpecNoMoves => []MaximumInForce
<1>1. TypeOK /\ OwnershipForest /\ HomeIsPlan /\ Maximums => MaximumInForce
  BY MaximumHolds DEF Settled
<1>2. QED
  BY <1>1, Home, NoMoves, TypeCorrect, Forest, StayMaximums, PTL
====
