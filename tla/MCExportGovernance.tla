-------------------------- MODULE MCExportGovernance --------------------------
EXTENDS ExportGovernance, TLC

CONSTANTS ada, bob   \* persons, who are also their addresses

Plain(person) == [person |-> person, token |-> FALSE, manages |-> TRUE, session |-> Null,
                  email |-> Null, type |-> Null, id |-> Null, service |-> Null]

\* Somebody signed in, whose calls name her address too, and a script with the
\* administrator's token and an actor of its own.
SignedIn(person) == [Plain(person) EXCEPT !.session = person, !.email = person]
ByToken(person)  == [Plain(person) EXCEPT !.token = TRUE, !.manages = FALSE,
                                          !.type = "service", !.id = "exporter"]

MixedCallers    == {SignedIn(ada), ByToken(bob)}
SignedInCallers == {SignedIn(ada), SignedIn(bob)}

Addresses == {ada, bob}

PatchesAlike == Permutations(Patches)
===============================================================================
