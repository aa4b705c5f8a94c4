---------------------------- MODULE MCHostedApps ----------------------------
(* Small instances of HostedApps: all domains in one plan.                  *)
EXTENDS HostedApps, TLC

CONSTANTS c1, c2

OnePlan == [d \in DomainNames |-> CHOOSE p \in PlanNames : TRUE]

\* Whatever the panel can be asked for, beside a second call.
BesideButtons  == (c1 :> Callees @@ c2 :> {"button"})
\* What runs several commands at once.
SeveralCommands == (c1 :> {"button", "edit", "remove", "config"})

NameSymmetry   == Permutations(DomainNames)
=============================================================================
