-------------------------- MODULE MCClientUpdates --------------------------
(***************************************************************************)
(* Small instances of ClientUpdates for TLC.                               *)
(***************************************************************************)
EXTENDS ClientUpdates

\* Every call comes from a process of its own: the server and scripts.
OwnConnection == [c \in Callers |-> c]

\* All calls come from one server process.
server == CHOOSE k \in Connections : TRUE
SharedConnection == [c \in Callers |-> server]
=============================================================================
