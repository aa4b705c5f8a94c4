---- MODULE NginxService ----
(***************************************************************************)
(* What the panel relies on when it tells nginx to reload or to stop: one  *)
(* configuration is in force, a process serves only what is or was in      *)
(* force, and nothing that has faded comes back.                           *)
(***************************************************************************)
EXTENDS Naturals

CONSTANT Configs   \* the numbers of the configurations

VARIABLES up,       \* the master runs
          conf,     \* the number of the configuration in force
          serving   \* the configurations some process takes connections for

vars == <<up, conf, serving>>

Init == up = TRUE /\ conf = 0 /\ serving = {0}

(* A reload puts a newer configuration in force. *)
Replace == /\ up
           /\ conf' \in Configs /\ conf' > conf
           /\ serving' \subseteq serving \cup {conf, conf'}
           /\ UNCHANGED up

(* Processes come for what is in force, and go. *)
Work == /\ up
        /\ serving' \subseteq serving \cup {conf}
        /\ UNCHANGED <<up, conf>>

(* The master ends. *)
Stop == up /\ ~up' /\ serving' \subseteq serving /\ UNCHANGED conf

(* Whoever is left without a master can only go. *)
Outlive == ~up /\ serving' \subseteq serving /\ UNCHANGED <<up, conf>>

Next == Replace \/ Work \/ Stop \/ Outlive

(* Everyone who serves a replaced configuration goes. *)
OldFade == \A c \in Configs : (c \in serving /\ c # conf) ~> (c \notin serving)

Spec == Init /\ [][Next]_vars
====
