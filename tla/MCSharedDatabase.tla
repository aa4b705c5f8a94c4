-------------------------- MODULE MCSharedDatabase --------------------------
(* Small instances of SharedDatabase: changes are interchangeable.          *)
EXTENDS SharedDatabase, TLC

ChangeSymmetry == Permutations(PanelChanges) \cup Permutations(ShellChanges)

\* One day at the server: either the administrator works in the shell, or
\* forms are applied and directories grow.
VARIABLE day

DayInit == Init /\ day \in {"shell", "forms"}
DayNext ==
    /\ UNCHANGED day
    /\ \/ Storage \/ Scheduler \/ Pages
       \/ day = "shell" /\ Shell
       \/ day = "forms" /\ (Forms \/ DirectoryChanges)
DaySpec == DayInit /\ [][DayNext]_<<vars, day>> /\ Fairness
=============================================================================
