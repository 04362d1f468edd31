-------------------------- MODULE MCRemoteSession --------------------------
(* Small instances of RemoteSession for TLC. *)
EXTENDS RemoteSession

CONSTANTS d, o  \* the default client and the client of an IM conversation

AllDefault == [a \in Callers |-> d]
AllOther == [a \in Callers |-> o]
============================================================================
