----------------------------- MODULE MCSessions -----------------------------
(* Small instances of Sessions: one plan and one account below the          *)
(* administrator, or another of each below that account.                    *)
EXTENDS Sessions, TLC

CONSTANTS s1, s2, root, alice, bob, gold, silver

FlatOwner == gold :> root
FlatPlan  == alice :> gold

ChainOwner == gold :> root @@ silver :> alice
ChainPlan  == alice :> gold @@ bob :> silver

\* The first browser is the administrators': alice signs in at the other.
AdminsBrowser == <<s1, alice>> \notin logins'
BrowserSpec == Init /\ [][Next /\ AdminsBrowser]_vars /\ Fairness
=============================================================================
