---- MODULE MCNginxCycle ----
(* One worker that every edit of the configuration replaces, room for a    *)
(* second generation and a new binary.                                     *)
EXTENDS NginxCycle

AllSignals == {"HUP", "QUIT", "TERM", "USR2", "WINCH"}
====
