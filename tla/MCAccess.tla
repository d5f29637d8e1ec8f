------------------------------- MODULE MCAccess -------------------------------
(* The three parts that decide who may call what share no state here: a       *)
(* behaviour is one of the virtual keys, of the sessions or of the provider   *)
(* credentials, while the others stay as they were at the start.              *)
EXTENDS VirtualKeys, MCSessions, ProviderCredentials

AccessInit == KeysInit /\ SessionsInit /\ CredInit

AccessNext ==
    \/ SessionsInit /\ CredInit /\ KeysNext     /\ UNCHANGED <<sessionVars, credVars>>
    \/ KeysInit /\ CredInit     /\ SessionsNext /\ UNCHANGED <<keyVars, credVars>>
    \/ KeysInit /\ SessionsInit /\ CredNext     /\ UNCHANGED <<keyVars, sessionVars>>

AccessSpec == AccessInit /\ [][AccessNext]_<<keyVars, sessionVars, credVars>>

\* Handlers, requests and calls are given the same two values, so that one
\* exchange of them serves all: no definition tells one from another.
Alike == Permutations(Handlers \cup Requests \cup Calls)
===============================================================================
