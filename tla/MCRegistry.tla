------------------------------ MODULE MCRegistry ------------------------------
(* Instances of RegistryServer for TLC.                                     *)
EXTENDS RegistryServer, TLC

\* One line of every kind that changes something; nobody gives a name up, as
\* whoever has typed none yet is anonymous too.
SomeLines == {l \in Line : l.cmd \notin {"list", "other"} /\ l.arg # MAINLOBBY}
               \ {[cmd |-> cmd, arg |-> Nil] : cmd \in {"enter", "user"}}
==============================================================================
