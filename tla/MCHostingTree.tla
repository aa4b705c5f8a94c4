---------------------------- MODULE MCHostingTree ----------------------------
(* Small instances of HostingTree.  The plan form is submitted with a few   *)
(* contents that make each check of the code decide both ways.              *)
EXTENDS HostingTree, TLC

MCMaxima == {-1, 0, 1, 2}

Options(users, domains, disk, plans) ==
    [maxUserCount   |-> users,
     maxDomainCount |-> domains,
     planMaximums   |-> (DiskSpace :> disk @@ MaxPlans :> plans)]

\* One roomy plan: the structure is what varies.
Roomy == {Options(2, 1, 1, -1)}

\* Tight and roomy counts, with and without a disk space maximum.
Limits == {Options(1, 1, -1, -1), Options(2, 1, 1, -1), Options(2, 1, 2, -1)}

NameSymmetry ==
    Permutations(PlanNames \ {Unlimited})
      \cup Permutations(UserNames) \cup Permutations(DomainNames)
=============================================================================
