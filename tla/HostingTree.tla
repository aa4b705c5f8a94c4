----------------------------- MODULE HostingTree -----------------------------
(***************************************************************************)
(* The panel's database (src/app/install/database.js): a forest of hosting *)
(* plans, users and domains kept in memory as one object.  A user owns     *)
(* sub-plans and domains; a plan lists the users who were added to it; so  *)
(* plans and users alternate downwards from the plan "Unlimited".          *)
(*                                                                         *)
(* One action is one call of a panel form or of the quota job.  A handler  *)
(* of the panel runs in one thread and touches the database between two    *)
(* callbacks, so a call is one step.                                       *)
(*                                                                         *)
(* The recursive walks of the code are written as least closed sets, which *)
(* is what they visit on a finite tree.                                    *)
(***************************************************************************)
EXTENDS Integers, FiniteSets

CONSTANTS
    PlanNames,    \* names a hosting plan may get
    UserNames,    \* names a user may get
    DomainNames,  \* names a domain may get
    Unlimited,    \* the plan of the first user, database.js:24
    SuperUser,    \* the owner of Unlimited, no user of the panel, database.js:403
    Fields,       \* the names in planMaximums the run tells apart
    Counts,       \* the values tried for maxUserCount and maxDomainCount
    Maxima,       \* the values tried for an entry of planMaximums
    Submissions,  \* the contents of the plan form the run tries
    TopCount      \* the counts of Unlimited: 1e5 in the code

DiskSpace == "plan_disk_space"
MaxPlans  == "plan_max_plans"

\* database.js:23, the stored form of an empty maximum: no limit.
defaultMaximum == -1

ASSUME NamesAssumption ==
    /\ Unlimited \in PlanNames
    /\ SuperUser \notin UserNames
ASSUME ValuesAssumption ==
    /\ {DiskSpace, MaxPlans} \subseteq Fields
    /\ Counts \subseteq Nat
    /\ Maxima \subseteq Nat \cup {defaultMaximum}
    /\ Submissions \subseteq [maxUserCount   : Counts,
                             maxDomainCount : Counts,
                             planMaximums   : [Fields -> Maxima]]
    /\ TopCount \in Nat \ {0}

VARIABLES
    Plans,    \* existing plan   -> its record
    Users,    \* existing user   -> its record
    Domains   \* existing domain -> its record

vars == <<Plans, Users, Domains>>

\* What can be given to SuspendPlan and SuspendUser by the code.
Reasons == Fields \cup {"maxUserCount", "maxDomainCount"}

PlanRecord ==
    [owner          : UserNames \cup {SuperUser},
     users          : SUBSET UserNames,
     maxUserCount   : Counts \cup {TopCount},
     maxDomainCount : Counts \cup {TopCount},
     canCreatePlan  : BOOLEAN,
     canCreateUser  : BOOLEAN,
     planMaximums   : [Fields -> Maxima] \cup [{} -> Maxima],
     suspended      : SUBSET Reasons]

UserRecord ==
    [plan      : PlanNames,
     subPlans  : SUBSET PlanNames,
     domains   : SUBSET DomainNames,
     suspended : SUBSET Reasons]

DomainRecord == [owner : UserNames]

\* f maps some of the names in S to records in R.
IsMap(f, S, R) == DOMAIN f \subseteq S /\ \A x \in DOMAIN f : f[x] \in R

\* The database holds records of the shapes its constructors build, and only
\* the reasons the code passes to SuspendPlan and SuspendUser.
TypeOK ==
    /\ IsMap(Plans, PlanNames, PlanRecord)
    /\ IsMap(Users, UserNames, UserRecord)
    /\ IsMap(Domains, DomainNames, DomainRecord)

-----------------------------------------------------------------------------
(* Objects used as maps: storing under a key, deleting keys.               *)

Put(f, k, v)   == [x \in DOMAIN f \cup {k} |-> IF x = k THEN v ELSE f[x]]
Without(f, S)  == [x \in DOMAIN f \ S |-> f[x]]

-----------------------------------------------------------------------------
(* Walks down the tree.                                                    *)

\* A set of users that holds, with a user, everybody in the user's sub-plans.
DownClosed(S) ==
    \A u \in S : \A p \in Users[u].subPlans : Plans[p].users \subseteq S

\* getUsersByPlanName(name, 1e5): the users of a plan and everybody below.
UsersBelow(name) ==
    LET closed == {S \in SUBSET DOMAIN Users :
                      Plans[name].users \subseteq S /\ DownClosed(S)}
    IN  {u \in DOMAIN Users : \A S \in closed : u \in S}

\* getPlansByPlanName(name, 1e5): the plans owned by those users.
PlansBelow(name) == UNION {Users[u].subPlans : u \in UsersBelow(name)}

\* getDomainsByUserName over a set of users.
DomainsOf(us) == UNION {Users[u].domains : u \in us}

\* _totalUsers walks down like UsersBelow but does not enter a suspended
\* sub-plan.  The plans are a parameter: updatePlan counts on its own copy.
ActiveClosed(plans, S) ==
    \A u \in S : \A p \in Users[u].subPlans :
        plans[p].suspended = {} => plans[p].users \subseteq S

ActiveUsers(plans, name) ==
    LET closed == {S \in SUBSET DOMAIN Users :
                      plans[name].users \subseteq S /\ ActiveClosed(plans, S)}
    IN  {u \in DOMAIN Users : \A S \in closed : u \in S}

totalActiveUsers(plans, name)   == Cardinality(ActiveUsers(plans, name))
totalActiveDomains(plans, name) ==
    Cardinality(DomainsOf(ActiveUsers(plans, name)))

-----------------------------------------------------------------------------
(* Walks up the tree, by the plan the owner's record names.                *)

\* getParentPlanName: the plan of the owner, if the owner is a user.
ParentPlans(name) ==
    IF name \in DOMAIN Plans /\ Plans[name].owner \in DOMAIN Users
    THEN {Users[Plans[name].owner].plan} ELSE {}

\* The plans the loop over _owner visits from plan name upwards.
Ancestors(name) ==
    LET closed == {S \in SUBSET PlanNames :
                      /\ ParentPlans(name) \subseteq S
                      /\ \A q \in S : ParentPlans(q) \subseteq S}
    IN  {q \in PlanNames : \A S \in closed : q \in S}

\* The loop comes to a plan without a parent.
WalkEnds(name) == \E q \in {name} \cup Ancestors(name) : ParentPlans(q) = {}

-----------------------------------------------------------------------------
(* CheckOperation.  TRUE stands for its result null, the permission; FALSE *)
(* for an error result, and for the exception a missing plan on the way up *)
(* raises: the callers change nothing in either case.  A walk that does    *)
(* not end never returns, so it permits nothing.                           *)

\* AddPlan: may the plan record data live under plan parent?
CheckAddPlan(plans, parent, data) ==
    LET this == plans[parent] IN
    /\ this.canCreatePlan
    /\ data.canCreateUser => this.canCreateUser
    /\ data.maxUserCount <= this.maxUserCount
    /\ data.maxDomainCount <= this.maxDomainCount
    /\ \A o \in DOMAIN data.planMaximums \cap DOMAIN this.planMaximums :
          \/ this.planMaximums[o] = 0
          \/ data.planMaximums[o] <= this.planMaximums[o]
          \/ defaultMaximum \in {data.planMaximums[o], this.planMaximums[o]}

\* Mutant: only the plan itself is checked, not the parents' plans.
CheckAddUserHere(name) ==
    /\ Plans[name].suspended = {}
    /\ Plans[name].canCreateUser
    /\ totalActiveUsers(Plans, name) < Plans[name].maxUserCount

CheckAddUser(name) ==
    /\ Plans[name].suspended = {}
    /\ Plans[name].canCreateUser
    /\ WalkEnds(name)
    /\ \A q \in {name} \cup Ancestors(name) :
          /\ q \in DOMAIN Plans
          /\ totalActiveUsers(Plans, q) < Plans[q].maxUserCount

CheckAddDomain(name) ==
    /\ Plans[name].suspended = {}
    /\ WalkEnds(name)
    /\ \A q \in {name} \cup Ancestors(name) :
          /\ q \in DOMAIN Plans
          /\ totalActiveDomains(Plans, q) < Plans[q].maxDomainCount

-----------------------------------------------------------------------------
(* Records as the constructors build them.                                 *)

NewUser(plan) ==
    [plan |-> plan, subPlans |-> {}, domains |-> {}, suspended |-> {}]

\* canCreateUser and canCreatePlan are derived by the form's handler.
NewPlan(owner, opts) ==
    [owner          |-> owner,
     users          |-> {},
     maxUserCount   |-> opts.maxUserCount,
     maxDomainCount |-> opts.maxDomainCount,
     canCreatePlan  |-> opts.planMaximums[MaxPlans] # 0,
     canCreateUser  |-> opts.maxUserCount # 0,
     planMaximums   |-> opts.planMaximums,
     suspended      |-> {}]

\* The plan and its first user, as tryLogin creates them.
UnlimitedPlan(first) ==
    [owner          |-> SuperUser,
     users          |-> {first},
     maxUserCount   |-> TopCount,
     maxDomainCount |-> TopCount,
     canCreatePlan  |-> TRUE,
     canCreateUser  |-> TRUE,
     planMaximums   |-> [o \in {} |-> 0],
     suspended      |-> {}]

Empty == [x \in {} |-> x]

Init == Plans = Empty /\ Users = Empty /\ Domains = Empty

-----------------------------------------------------------------------------
(* Adding.                                                                 *)

\* The first login of all creates Unlimited and the user in it, tryLogin.
FirstLogin(u) ==
    /\ Unlimited \notin DOMAIN Plans
    /\ u \notin DOMAIN Users
    /\ Plans' = Put(Plans, Unlimited, UnlimitedPlan(u))
    /\ Users' = Put(Users, u, NewUser(Unlimited))
    /\ UNCHANGED Domains

\* me submits the plan form for a new plan.  checkSet refuses a count of 0.
AddPlan(me, name, opts) ==
    LET plan == NewPlan(me, opts) IN
    /\ name \notin DOMAIN Plans
    /\ Users[me].plan \in DOMAIN Plans
    /\ CheckAddPlan(Plans, Users[me].plan, plan)
    /\ opts.maxUserCount # 0 /\ opts.maxDomainCount # 0
    /\ Plans' = Put(Plans, name, plan)
    /\ Users' = [Users EXCEPT ![me].subPlans = @ \cup {name}]
    /\ UNCHANGED Domains

\* Mutant: the plan does not list the new user.
AddUserUnlisted(me, plan, name) ==
    /\ plan \in DOMAIN Plans \cap ({Users[me].plan} \cup Users[me].subPlans)
    /\ name \notin DOMAIN Users
    /\ CheckAddUser(plan)
    /\ Users' = Put(Users, name, NewUser(plan))
    /\ UNCHANGED <<Plans, Domains>>

\* me adds a user to the own plan or to a plan me owns.
AddUser(me, plan, name) ==
    /\ plan \in DOMAIN Plans \cap ({Users[me].plan} \cup Users[me].subPlans)
    /\ name \notin DOMAIN Users
    /\ CheckAddUser(plan)
    /\ Plans' = [Plans EXCEPT ![plan].users = @ \cup {name}]
    /\ Users' = Put(Users, name, NewUser(plan))
    /\ UNCHANGED Domains

\* me adds a domain of its own.
AddDomain(me, name) ==
    /\ name \notin DOMAIN Domains
    /\ Users[me].plan \in DOMAIN Plans
    /\ CheckAddDomain(Users[me].plan)
    /\ Domains' = Put(Domains, name, [owner |-> me])
    /\ Users' = [Users EXCEPT ![me].domains = @ \cup {name}]
    /\ UNCHANGED Plans

-----------------------------------------------------------------------------
(* Removing, by the owner of the record.                                   *)

\* isOwnerOfUser(me, name): name is listed in a plan me owns.
OwnsUser(me, name) == \E p \in Users[me].subPlans : name \in Plans[p].users

DeleteDomain(me, name) ==
    /\ name \in Users[me].domains
    /\ Domains' = Without(Domains, {name})
    /\ Users' = [Users EXCEPT ![me].domains = @ \ {name}]
    /\ UNCHANGED Plans

\* Mutant: one level only, the users the plan lists and their plans.
DeletePlanShallow(me, name) ==
    LET arr_users == Plans[name].users IN
    /\ name \in Users[me].subPlans
    /\ Plans' = Without(Plans, {name} \cup UNION {Users[u].subPlans : u \in arr_users})
    /\ Users' = Without([Users EXCEPT ![me].subPlans = @ \ {name}], arr_users)
    /\ Domains' = Without(Domains, DomainsOf(arr_users))

\* The users below the plan go with their plans and domains, then the plan.
DeletePlan(me, name) ==
    LET arr_users == UsersBelow(name) IN
    /\ name \in Users[me].subPlans
    /\ Plans' = Without(Plans, {name} \cup PlansBelow(name))
    /\ Users' = Without([Users EXCEPT ![me].subPlans = @ \ {name}], arr_users)
    /\ Domains' = Without(Domains, DomainsOf(arr_users))

\* Mutant: the user goes, the sub-plans stay.
DeleteUserAlone(me, name) ==
    /\ name \in DOMAIN Users
    /\ OwnsUser(me, name)
    /\ Plans' = [p \in DOMAIN Plans |-> [Plans[p] EXCEPT !.users = @ \ {name}]]
    /\ Users' = Without(Users, {name})
    /\ Domains' = Without(Domains, Users[name].domains)

\* Every sub-plan is deleted as above, then the user: out of every plan's
\* list, with the domains that name it as their owner.
DeleteUser(me, name) ==
    LET subPlans  == Users[name].subPlans
        arr_users == UNION {UsersBelow(p) : p \in subPlans}
        arr_plans == subPlans \cup UNION {PlansBelow(p) : p \in subPlans}
        mine      == {d \in DOMAIN Domains : Domains[d].owner = name}
    IN
    /\ name \in DOMAIN Users
    /\ OwnsUser(me, name)
    /\ Plans' = [p \in DOMAIN Plans \ arr_plans |->
                    [Plans[p] EXCEPT !.users = @ \ {name}]]
    /\ Users' = Without(Users, arr_users \cup {name})
    /\ Domains' = Without(Domains, mine \cup DomainsOf(arr_users))

-----------------------------------------------------------------------------
(* Updating.  The handler writes the form's values into the record the     *)
(* database holds and only then asks the database for permission.          *)

Edited(name, opts) ==
    [Plans EXCEPT ![name].maxUserCount   = opts.maxUserCount,
                  ![name].maxDomainCount = opts.maxDomainCount,
                  ![name].planMaximums   = opts.planMaximums]

MayUpdate(me, name, opts) ==
    LET parent == Users[me].plan IN
    /\ parent \in DOMAIN Plans
    /\ CheckAddPlan(Edited(name, opts), parent, Edited(name, opts)[name])

\* Refused or failed: the edited record stays.
UpdatePlanRefused(me, name, opts) ==
    /\ name \in Users[me].subPlans
    /\ ~MayUpdate(me, name, opts)
    /\ Plans' = Edited(name, opts)
    /\ UNCHANGED <<Users, Domains>>

\* The maxima of plan q that are above those just given to the plan.
OverMaxima(q, opts) ==
    {o \in DOMAIN Plans[q].planMaximums :
        /\ Plans[q].planMaximums[o] > opts.planMaximums[o]
        /\ opts.planMaximums[o] # defaultMaximum}

\* Sub-plans above a new maximum are suspended for it.  The plan itself is
\* suspended when it holds more than its new counts, otherwise it loses every
\* reason it was suspended for.
UpdatePlan(me, name, opts) ==
    LET plans == [q \in DOMAIN Plans |->
                    IF q \in PlansBelow(name)
                    THEN [Plans[q] EXCEPT !.suspended = @ \cup OverMaxima(q, opts)]
                    ELSE Edited(name, opts)[q]]
        over  == (IF opts.maxUserCount < totalActiveUsers(plans, name)
                  THEN {"maxUserCount"} ELSE {})
                 \cup
                 (IF opts.maxDomainCount < totalActiveDomains(plans, name)
                  THEN {"maxDomainCount"} ELSE {})
    IN
    /\ name \in Users[me].subPlans
    /\ MayUpdate(me, name, opts)
    /\ Plans' = [plans EXCEPT ![name].suspended =
                    IF over = {} THEN {} ELSE @ \cup over]
    /\ UNCHANGED <<Users, Domains>>

\* me gives one of its users another plan.  updateUser is handed the record
\* it compares with, so none of its checks can fail, and no list changes.
UpdateUser(me, name, plan) ==
    /\ name \in DOMAIN Users
    /\ OwnsUser(me, name)
    /\ plan \in {Users[me].plan} \cup Users[me].subPlans
    /\ Users' = [Users EXCEPT ![name].plan = plan]
    /\ UNCHANGED <<Plans, Domains>>

-----------------------------------------------------------------------------
(* The disk quota job, user_disk_quota.js, for one user of one plan.  The  *)
(* size of the user's files is the environment's choice.                   *)

\* The plan and user the job looks at, and the maximum it compares with.
Inspected(p, u) ==
    /\ p \in PlansBelow(Unlimited)
    /\ u \in Plans[p].users
    /\ DiskSpace \notin Plans[p].suspended
    /\ Plans[p].planMaximums[DiskSpace] # 0

\* Mutant: the plans are suspended for a reason no unsuspension names.
QuotaSuspendMisspelt(p, u) ==
    /\ Inspected(p, u)
    /\ DiskSpace \notin Users[u].suspended
    /\ Plans[p].planMaximums[DiskSpace] # defaultMaximum
    /\ Users' = [Users EXCEPT ![u].suspended = @ \cup {"disk_space"}]
    /\ UNCHANGED <<Plans, Domains>>

QuotaSuspend(p, u) ==
    /\ Inspected(p, u)
    /\ DiskSpace \notin Users[u].suspended
    /\ Plans[p].planMaximums[DiskSpace] # defaultMaximum
    /\ Users' = [Users EXCEPT ![u].suspended = @ \cup {DiskSpace}]
    /\ Plans' = [q \in DOMAIN Plans |->
                    IF q \in Users[u].subPlans
                    THEN [Plans[q] EXCEPT !.suspended = @ \cup {DiskSpace}]
                    ELSE Plans[q]]
    /\ UNCHANGED Domains

QuotaUnSuspend(p, u) ==
    /\ Inspected(p, u)
    /\ DiskSpace \in Users[u].suspended
    /\ Users' = [Users EXCEPT ![u].suspended = @ \ {DiskSpace}]
    /\ Plans' = [q \in DOMAIN Plans |->
                    IF q \in Users[u].subPlans
                    THEN [Plans[q] EXCEPT !.suspended = @ \ {DiskSpace}]
                    ELSE Plans[q]]
    /\ UNCHANGED Domains

-----------------------------------------------------------------------------

AddSomething ==
    \/ \E u \in UserNames : FirstLogin(u)
    \/ \E me \in DOMAIN Users, name \in PlanNames, opts \in Submissions :
          AddPlan(me, name, opts)
    \/ \E me \in DOMAIN Users, plan \in PlanNames, name \in UserNames :
          AddUser(me, plan, name)
    \/ \E me \in DOMAIN Users, name \in DomainNames : AddDomain(me, name)

RemoveSomething ==
    \E me \in DOMAIN Users :
        \/ \E name \in DomainNames : DeleteDomain(me, name)
        \/ \E name \in PlanNames : DeletePlan(me, name)
        \/ \E name \in UserNames : DeleteUser(me, name)

UpdateSomePlan ==
    \E me \in DOMAIN Users, name \in PlanNames, opts \in Submissions :
        UpdatePlanRefused(me, name, opts) \/ UpdatePlan(me, name, opts)

MoveSomeUser ==
    \E me \in DOMAIN Users, name \in UserNames, plan \in PlanNames :
        UpdateUser(me, name, plan)

CheckQuotas ==
    \E p \in DOMAIN Plans : \E u \in Plans[p].users :
        QuotaSuspend(p, u) \/ QuotaUnSuspend(p, u)

\* Everything but moving users between plans, which notes.markdown lists as
\* unfinished work ("switching plan for the user!").
NextNoMoves == AddSomething \/ RemoveSomething \/ UpdateSomePlan \/ CheckQuotas

Next == NextNoMoves \/ MoveSomeUser

Spec        == Init /\ [][Next]_vars
SpecNoMoves == Init /\ [][NextNoMoves]_vars

-----------------------------------------------------------------------------
(* The parts of OwnershipForest.                                           *)

\* Unlimited alone has no owner among the users; every other plan is listed
\* by the user its record names as owner.
PlansOwned ==
    \A p \in DOMAIN Plans :
        IF p = Unlimited
        THEN Plans[p].owner = SuperUser
        ELSE /\ Plans[p].owner \in DOMAIN Users
             /\ p \in Users[Plans[p].owner].subPlans

\* A user lists no plan that is gone or somebody else's.
SubPlansExist ==
    \A u \in DOMAIN Users : \A p \in Users[u].subPlans :
        p \in DOMAIN Plans /\ Plans[p].owner = u

\* A plan lists no user that is gone.
MembersExist == \A p \in DOMAIN Plans : Plans[p].users \subseteq DOMAIN Users

\* No user is listed by two plans: the counts count everybody once.
OneHome ==
    \A p, q \in DOMAIN Plans :
        Plans[p].users \cap Plans[q].users # {} => p = q

\* Domains and their owners list each other.
DomainsOwned ==
    /\ \A d \in DOMAIN Domains :
          /\ Domains[d].owner \in DOMAIN Users
          /\ d \in Users[Domains[d].owner].domains
    /\ \A u \in DOMAIN Users : \A d \in Users[u].domains :
          d \in DOMAIN Domains /\ Domains[d].owner = u

\* Everybody hangs below Unlimited: no deletion leaves an island behind that
\* no administrator sees in a list any more.
Rooted ==
    DOMAIN Users # {} =>
        Unlimited \in DOMAIN Plans /\ DOMAIN Users \subseteq UsersBelow(Unlimited)

\* The lists and owner fields that the walks follow downwards always form one
\* tree: deletePlan and deleteUser (database.js:620-689) take whole branches
\* and leave no record that names a deleted one.
OwnershipForest ==
    /\ PlansOwned /\ SubPlansExist /\ MembersExist /\ OneHome
    /\ DomainsOwned /\ Rooted

\* The plan a user's record names is the plan that lists the user.  addUser
\* (database.js:428) writes both; the walks upwards use the one, the walks
\* downwards the other.
HomeIsPlan ==
    \A u \in DOMAIN Users :
        Users[u].plan \in DOMAIN Plans /\ u \in Plans[Users[u].plan].users

\* "all Users who had the hosting plan assigned" go with a removed plan,
\* docs/hostingp.markdown:50: nobody is left with a plan that is gone.
AssignedPlanExists == \A u \in DOMAIN Users : Users[u].plan \in DOMAIN Plans

\* The loop over the parents' plans in CheckOperation (database.js:253-263)
\* and the recursion of GetMaximum, which "goes up until top parent"
\* (database.js:296), end for every plan.
WalkTerminates == \A p \in DOMAIN Plans : WalkEnds(p)

\* And they end at Unlimited, having met existing plans only.
WalkReachesTop ==
    \A p \in DOMAIN Plans :
        /\ WalkEnds(p)
        /\ Ancestors(p) \subseteq DOMAIN Plans
        /\ p = Unlimited \/ Unlimited \in Ancestors(p)

\* Whoever is added, no plan that counts the newcomer goes over its maximum:
\* the check of the plan and of the parents' plans (database.js:241-288)
\* covers every plan whose count grows.
AddedWithinLimits ==
    [][\A p \in DOMAIN Plans \cap DOMAIN Plans' :
        /\ (ActiveUsers(Plans, p))' \subseteq DOMAIN Users
              \/ (totalActiveUsers(Plans, p) <= Plans[p].maxUserCount)'
        /\ (DomainsOf(ActiveUsers(Plans, p)))' \subseteq DOMAIN Domains
              \/ (totalActiveDomains(Plans, p) <= Plans[p].maxDomainCount)'
      ]_vars

\* Mutant: an empty maximum is compared as the number it is stored as.
GetMaximumEmptyIsNumber(name, field) ==
    LET maximum[p \in DOMAIN Plans] ==
          LET val     == Plans[p].planMaximums[field]
              parents == (ParentPlans(p) \ {p}) \cap DOMAIN Plans
          IN  IF p = Unlimited THEN defaultMaximum
              ELSE IF parents = {} THEN val
              ELSE LET parentVal == maximum[CHOOSE q \in parents : TRUE]
                   IN  IF parentVal = defaultMaximum THEN val
                       ELSE IF parentVal < val THEN parentVal ELSE val
    IN  maximum[name]

\* GetMaximum (database.js:297): the maximum in force for a plan, from its
\* own entry and the parents'.  A parent that is the plan itself is no parent.
GetMaximum(name, field) ==
    LET maximum[p \in DOMAIN Plans] ==
          LET val     == Plans[p].planMaximums[field]
              parents == (ParentPlans(p) \ {p}) \cap DOMAIN Plans
          IN  IF p = Unlimited THEN defaultMaximum
              ELSE IF parents = {} THEN val
              ELSE LET parentVal == maximum[CHOOSE q \in parents : TRUE]
                   IN  IF parentVal = defaultMaximum THEN val
                       ELSE IF val = defaultMaximum \/ parentVal < val
                       THEN parentVal ELSE val
    IN  maximum[name]

\* Whatever was edited, refused or suspended: the maximum in force for a plan
\* never exceeds an entry of any plan above it.
MaximumInForce ==
    \A q \in DOMAIN Plans : \A p \in PlansBelow(q) :
        \A field \in DOMAIN Plans[q].planMaximums :
            Plans[q].planMaximums[field] # defaultMaximum =>
                /\ GetMaximum(p, field) # defaultMaximum
                /\ GetMaximum(p, field) <= Plans[q].planMaximums[field]

\* "Max users - Maximum amount of users", docs/addplan.markdown:21: a plan in
\* use never counts more users than its maximum.
CountsWithinMaximum ==
    \A p \in DOMAIN Plans :
        Plans[p].suspended = {} =>
            totalActiveUsers(Plans, p) <= Plans[p].maxUserCount

\* "This hosting plan does not allow to add more than %s users"
\* (definitions/langs/EN.js:392), the answer to a refused edit: the counts an
\* edit leaves in a plan are within those of the owner's plan.
EditedWithinParent ==
    [][\A p \in DOMAIN Plans \cap DOMAIN Plans' :
        Plans'[p].maxUserCount # Plans[p].maxUserCount =>
            \A q \in ParentPlans(p) \cap DOMAIN Plans :
                Plans'[p].maxUserCount <= Plans[q].maxUserCount]_vars

\* updatePlan "check maximums, and suspends subplans"
\* (from_kris_to_oguz.markdown:6): a plan above its parent's disk space
\* maximum is not taken out of that suspension.
AboveParent(p) ==
    \E q \in ParentPlans(p) \cap DOMAIN Plans :
        /\ DiskSpace \in DOMAIN Plans[q].planMaximums
        /\ Plans[q].planMaximums[DiskSpace] \notin {0, defaultMaximum}
        /\ Plans[p].planMaximums[DiskSpace] > Plans[q].planMaximums[DiskSpace]

OverMaximumStaysSuspended ==
    [][\A p \in DOMAIN Plans \cap DOMAIN Plans' :
        DiskSpace \in Plans[p].suspended \ Plans'[p].suspended
            => ~AboveParent(p)']_vars
=============================================================================
