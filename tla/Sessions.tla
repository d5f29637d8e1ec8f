------------------------------ MODULE Sessions ------------------------------
(***************************************************************************)
(* The control API's sessions of one person, who is known by his email and  *)
(* may be a member of workspaces of several organizations.  In each of      *)
(* these he has an operator account, and signs in to one of them; a session *)
(* then acts as one of his memberships, of whichever organization, and may  *)
(* be switched to another.                                                  *)
(*                                                                         *)
(* Every request resolves its session by several statements that are not a  *)
(* transaction: read the row, list the memberships, write back the identity *)
(* and the time of the visit.  Requests of one session run side by side.    *)
(***************************************************************************)
EXTENDS Naturals

CONSTANTS
    Requests,       \* requests in progress at once
    SessionIds,     \* rows of control_plane_sessions
    Memberships,    \* the person's memberships
    Organizations,
    OrgOf,          \* [Memberships -> Organizations]
    NoMembership,   \* null in active_membership_id
    Life,           \* sessionAbsoluteLifetimeMs
    Idle,           \* sessionIdleLifetimeMs
    Window,         \* sessionTouchWindowMs
    MaxClock,       \* bound: clock
    MaxEdits        \* bound: edits of the memberships

ASSUME SessionsConstantsOK ==
    /\ SessionIds # {} /\ Organizations # {}
    /\ OrgOf \in [Memberships -> Organizations]
    /\ NoMembership \notin Memberships
    /\ Life \in Nat \ {0} /\ Idle \in Nat \ {0} /\ Window \in Nat
    /\ MaxClock \in Nat /\ MaxEdits \in Nat

VARIABLES
    session,      \* control_plane_sessions
    revocations,  \* session_revocations: rows per session
    eligible,     \* memberships that are active and have a role
    clock,
    step,         \* where each request stands
    held,         \* what each request holds in memory
    visited,      \* when each session was last accepted; not stored
    chosen,       \* the identity the person last asked for; not stored
    doubtful,     \* sessions whose choice may be replaced; not stored
    edits         \* edits of the memberships so far

sessionVars == <<session, revocations, eligible, clock, step, held, visited,
                 chosen, doubtful, edits>>
memory      == <<visited, chosen, doubtful>>

Identities == Memberships \cup {NoMembership}
Times      == 0 .. MaxClock
Session    == [state : {"none", "live", "revoked"}, org : Organizations,
               identity : Identities, seen : Times, idle : 0 .. MaxClock + Idle,
               expires : 0 .. MaxClock + Life]
StepNames  == {"idle", "insert", "expire", "list", "fix", "touch", "resolved",
               "logout", "loggedOut", "set"}
Holding       == [id : SessionIds, row : Session, identity : Identities, time : Times]

Blank == [id |-> CHOOSE s \in SessionIds : TRUE,
          row |-> [state |-> "none", org |-> CHOOSE o \in Organizations : TRUE,
                   identity |-> NoMembership, seen |-> 0, idle |-> 0, expires |-> 0],
          identity |-> NoMembership, time |-> 0]

SessionsInit ==
    /\ session = [s \in SessionIds |-> Blank.row]
    /\ revocations = [s \in SessionIds |-> 0]
    /\ eligible = Memberships
    /\ clock = 0
    /\ step = [r \in Requests |-> "idle"]
    /\ held = [r \in Requests |-> Blank]
    /\ visited = [s \in SessionIds |-> 0]
    /\ chosen = [s \in SessionIds |-> NoMembership]
    /\ doubtful = {}
    /\ edits = 0

-----------------------------------------------------------------------------
(* Helpers *)

MoveTo(r, at, h) == step' = [step EXCEPT ![r] = at] /\ held' = [held EXCEPT ![r] = h]
Done(r) == MoveTo(r, "idle", Blank)
Live(s) == session[s].state = "live"

\* The identity a session defaults to: of its own organization if there is one.
Defaults(org) ==
    LET own == {m \in eligible : OrgOf[m] = org}
    IN  IF own # {} THEN own ELSE IF eligible # {} THEN eligible ELSE {NoMembership}

\* The organization a request acts in is that of the identity it resolved.
PrincipalOrg(r) == IF held[r].identity = NoMembership
                   THEN held[r].row.org ELSE OrgOf[held[r].identity]

\* Revoking marks a row once, and records it with the mark.
RevokeSessions(S) ==
    LET live == {s \in S : Live(s)} IN
    /\ session' = [s \in SessionIds |->
          IF s \in live THEN [session[s] EXCEPT !.state = "revoked"] ELSE session[s]]
    /\ revocations' = [s \in SessionIds |->
          IF s \in live THEN revocations[s] + 1 ELSE revocations[s]]

\* A request of the session that has replaced the identity it read by a
\* default, or is bound to, the identity being of no active membership.
Replacing(q, s) ==
    /\ held[q].id = s
    /\ \/ step[q] = "fix"
       \/ step[q] = "list" /\ held[q].row.identity \notin eligible

\* A choice is in doubt if its membership has ended since it was looked up,
\* or while a request that read the row before is replacing what it read.
Choose(s, m) ==
    /\ chosen' = [chosen EXCEPT ![s] = m]
    /\ doubtful' = IF m \notin eligible \/ \E q \in Requests : Replacing(q, s)
                   THEN doubtful \cup {s} ELSE doubtful \ {s}

\* So is one whose membership is edited afterwards, or the membership that a
\* request of the session has read and not looked up yet.
Unsettle(m) ==
    doubtful' = doubtful \cup
       {s \in SessionIds :
          \/ chosen[s] = m
          \/ \E q \in Requests : /\ held[q].id = s /\ step[q] = "list"
                                 /\ held[q].row.identity = m}

\* What is left once the identity has been settled.
Settle(r, h) ==
    IF h.time - h.row.seen >= Window THEN MoveTo(r, "touch", h)
                                     ELSE MoveTo(r, "resolved", h)

-----------------------------------------------------------------------------
(* Signing in *)

\* An active membership of the organization is what admits the person.
login(r, o) ==
    /\ step[r] = "idle"
    /\ \E m \in {m \in eligible : OrgOf[m] = o} :
          MoveTo(r, "insert", [Blank EXCEPT !.row.org = o, !.identity = m])
    /\ UNCHANGED <<session, revocations, eligible, clock, memory, edits>>

\* Seeded fault: the life is counted from the idle time.
createLongLived(r) ==
    /\ step[r] = "insert"
    /\ \E s \in SessionIds :
          /\ session[s].state = "none"
          /\ session' = [session EXCEPT ![s] =
                [state |-> "live", org |-> held[r].row.org,
                 identity |-> held[r].identity, seen |-> clock,
                 idle |-> clock + Idle, expires |-> clock + Idle + Life]]
          /\ visited' = [visited EXCEPT ![s] = clock]
          /\ Choose(s, held[r].identity)
    /\ Done(r)
    /\ UNCHANGED <<revocations, eligible, clock, edits>>

createControlPlaneSession(r) ==
    /\ step[r] = "insert"
    /\ \E s \in SessionIds :
          /\ session[s].state = "none"
          /\ session' = [session EXCEPT ![s] =
                [state |-> "live", org |-> held[r].row.org,
                 identity |-> held[r].identity, seen |-> clock,
                 idle |-> clock + Idle, expires |-> clock + Life]]
          /\ visited' = [visited EXCEPT ![s] = clock]
          /\ Choose(s, held[r].identity)
    /\ Done(r)
    /\ UNCHANGED <<revocations, eligible, clock, edits>>

-----------------------------------------------------------------------------
(* Resolving a session *)

\* A revoked session is refused at once.
findControlPlaneSessionByHandleHash(r, s) ==
    /\ step[r] = "idle"
    /\ Live(s)
    /\ LET row == session[s]
           h   == [id |-> s, row |-> row, identity |-> NoMembership, time |-> clock]
       IN  IF row.expires <= clock \/ row.idle <= clock
           THEN MoveTo(r, "expire", h) /\ UNCHANGED visited
           ELSE MoveTo(r, "list", h) /\ visited' = [visited EXCEPT ![s] = clock]
    /\ UNCHANGED <<session, revocations, eligible, clock, chosen, doubtful, edits>>

\* Seeded fault: the row is marked again whatever it says.
revokeAgain(r) ==
    /\ step[r] = "expire"
    /\ session' = [session EXCEPT ![held[r].id].state = "revoked"]
    /\ revocations' = [revocations EXCEPT ![held[r].id] = @ + 1]
    /\ Done(r)
    /\ UNCHANGED <<eligible, clock, memory, edits>>

revokeExpiredSession(r) ==
    /\ step[r] = "expire"
    /\ RevokeSessions({held[r].id})
    /\ Done(r)
    /\ UNCHANGED <<eligible, clock, memory, edits>>

\* Seeded fault: the identity resolved is always written back.
listAndStore(r) ==
    /\ step[r] = "list"
    /\ LET row == held[r].row IN
       \E m \in IF row.identity \in eligible THEN {row.identity} ELSE Defaults(row.org) :
          MoveTo(r, "fix", [held[r] EXCEPT !.identity = m])
    /\ UNCHANGED <<session, revocations, eligible, clock, memory, edits>>

\* The identity read stands while its membership is active; another one is
\* to be stored.
listActiveMemberIdentitiesByEmail(r) ==
    /\ step[r] = "list"
    /\ LET row == held[r].row IN
       \E m \in IF row.identity \in eligible THEN {row.identity} ELSE Defaults(row.org) :
          LET h == [held[r] EXCEPT !.identity = m] IN
          IF m # row.identity THEN MoveTo(r, "fix", h) ELSE Settle(r, h)
    /\ UNCHANGED <<session, revocations, eligible, clock, memory, edits>>

\* Whatever identity the row has meanwhile; not on a revoked row.
updateControlPlaneSessionActiveIdentity(r) ==
    /\ step[r] = "fix"
    /\ LET s == held[r].id IN
       session' = IF Live(s) THEN [session EXCEPT ![s].identity = held[r].identity]
                             ELSE session
    /\ Settle(r, held[r])
    /\ UNCHANGED <<revocations, eligible, clock, memory, edits>>

\* Seeded fault: a revoked row is touched as any other.
touchAny(r) ==
    /\ step[r] = "touch"
    /\ session' = [session EXCEPT ![held[r].id].seen = held[r].time,
                                  ![held[r].id].idle = held[r].time + Idle]
    /\ MoveTo(r, "resolved", held[r])
    /\ UNCHANGED <<revocations, eligible, clock, memory, edits>>

\* Seeded fault: the visit is dated when it is written.
touchLate(r) ==
    /\ step[r] = "touch"
    /\ LET s == held[r].id IN
       session' = IF Live(s) THEN [session EXCEPT ![s].seen = clock,
                                                  ![s].idle = clock + Idle]
                             ELSE session
    /\ MoveTo(r, "resolved", held[r])
    /\ UNCHANGED <<revocations, eligible, clock, memory, edits>>

\* The time is that of the start of the request, even if a later one has
\* been stored; not on a revoked row.
touchControlPlaneSession(r) ==
    /\ step[r] = "touch"
    /\ LET s == held[r].id IN
       session' = IF Live(s) THEN [session EXCEPT ![s].seen = held[r].time,
                                                  ![s].idle = held[r].time + Idle]
                             ELSE session
    /\ MoveTo(r, "resolved", held[r])
    /\ UNCHANGED <<revocations, eligible, clock, memory, edits>>

-----------------------------------------------------------------------------
(* What the request was made for *)

\* After a logout, or on any route that leaves the sessions alone.
respond(r) ==
    /\ step[r] \in {"resolved", "loggedOut"}
    /\ Done(r)
    /\ UNCHANGED <<session, revocations, eligible, clock, memory, edits>>

\* POST /v1/auth/logout
postLogout(r) ==
    /\ step[r] = "resolved"
    /\ MoveTo(r, "logout", held[r])
    /\ UNCHANGED <<session, revocations, eligible, clock, memory, edits>>

\* All sessions of the operator, whose organization is that of his session,
\* in the organization the request acts in.
revokeControlPlaneSessionsForOperator(r) ==
    /\ step[r] = "logout"
    /\ RevokeSessions({s \in SessionIds : /\ session[s].org = PrincipalOrg(r)
                                          /\ session[s].org = held[r].row.org})
    /\ MoveTo(r, "loggedOut", held[r])
    /\ UNCHANGED <<eligible, clock, memory, edits>>

\* POST /v1/auth/session/active-identity: the memberships are listed again.
chooseIdentity(r) ==
    /\ step[r] = "resolved"
    /\ \E m \in eligible : MoveTo(r, "set", [held[r] EXCEPT !.identity = m])
    /\ UNCHANGED <<session, revocations, eligible, clock, memory, edits>>

setIdentity(r) ==
    /\ step[r] = "set"
    /\ LET s == held[r].id IN
       IF Live(s)
       THEN /\ session' = [session EXCEPT ![s].identity = held[r].identity]
            /\ Choose(s, held[r].identity)
       ELSE UNCHANGED <<session, chosen, doubtful>>
    /\ Done(r)
    /\ UNCHANGED <<revocations, eligible, clock, visited, edits>>

\* A statement fails, or the process ends.
failRequest(r) ==
    /\ step[r] # "idle"
    /\ Done(r)
    /\ UNCHANGED <<session, revocations, eligible, clock, memory, edits>>

-----------------------------------------------------------------------------
(* Memberships and time *)

Edit == edits < MaxEdits /\ edits' = edits + 1

\* PATCH /v1/members/:id, of the status or the roles; sessions are left alone.
patchMember(m) ==
    /\ eligible' = IF m \in eligible THEN eligible \ {m} ELSE eligible \cup {m}
    /\ Edit /\ Unsettle(m)
    /\ UNCHANGED <<session, revocations, clock, step, held, visited, chosen>>

\* DELETE /v1/members/:id clears the reference in every session.
removeMember(m) ==
    /\ m \in eligible
    /\ eligible' = eligible \ {m}
    /\ session' = [s \in SessionIds |->
          IF session[s].identity = m
          THEN [session[s] EXCEPT !.identity = NoMembership] ELSE session[s]]
    /\ Edit /\ Unsettle(m)
    /\ UNCHANGED <<revocations, clock, step, held, visited, chosen>>

SessionsTick ==
    /\ clock < MaxClock
    /\ clock' = clock + 1
    /\ UNCHANGED <<session, revocations, eligible, step, held, memory, edits>>

resolveRequestAuth(r) ==
    \/ \E s \in SessionIds : findControlPlaneSessionByHandleHash(r, s)
    \/ revokeExpiredSession(r) \/ listActiveMemberIdentitiesByEmail(r)
    \/ updateControlPlaneSessionActiveIdentity(r) \/ touchControlPlaneSession(r)

SessionsNext ==
    \/ \E r \in Requests :
          \/ \E o \in Organizations : login(r, o)
          \/ createControlPlaneSession(r) \/ resolveRequestAuth(r)
          \/ respond(r) \/ postLogout(r) \/ revokeControlPlaneSessionsForOperator(r)
          \/ chooseIdentity(r) \/ setIdentity(r)
          \/ failRequest(r)
    \/ \E m \in Memberships : patchMember(m) \/ removeMember(m)
    \/ SessionsTick

SessionsSpec == SessionsInit /\ [][SessionsNext]_sessionVars

-----------------------------------------------------------------------------
(* Properties *)

\* Every variable has the type the code gives it.
SessionsTypeOK ==
    /\ session \in [SessionIds -> Session]
    /\ revocations \in [SessionIds -> Nat]
    /\ eligible \subseteq Memberships
    /\ clock \in Times
    /\ step \in [Requests -> StepNames]
    /\ held \in [Requests -> Holding]
    /\ visited \in [SessionIds -> Times]
    /\ chosen \in [SessionIds -> Identities]
    /\ doubtful \subseteq SessionIds
    /\ edits \in 0 .. MaxEdits

\* Two requests that find a session expired, and a logout at the same time,
\* leave one row in session_revocations, and no session is revoked without.
RevokedOnce ==
    \A s \in SessionIds :
       revocations[s] = IF session[s].state = "revoked" THEN 1 ELSE 0

\* A request that read a session before it was revoked, and writes its
\* identity or its visit back afterwards, neither revives nor prolongs it.
FrozenOnceRevoked ==
    [][ \A s \in SessionIds :
           session[s].state = "revoked" =>
              /\ session'[s].state = "revoked"
              /\ session'[s].seen = session[s].seen
              /\ session'[s].idle = session[s].idle ]_sessionVars

\* Whatever identity the requests of a session write back, they leave the one
\* its person chose, though memberships be edited between their statements.
\* It can only give way if its own membership was edited, or to a request that
\* read the row before the choice and found what it read to be no membership
\* of his any longer.
SwitchKept ==
    \A s \in SessionIds \ doubtful :
       Live(s) => session[s].identity = chosen[s]

\* A session stays open past its idle time only by a request accepted within
\* it: however late a visit is written, it counts from when it was accepted.
IdleHonoured ==
    \A s \in SessionIds : Live(s) => session[s].idle <= visited[s] + Idle

\* "Logout revokes it": once a logout has been carried out, the session it
\* was made with is revoked.
LogoutRevokes ==
    \A r \in Requests :
       step[r] = "loggedOut" => session[held[r].id].state = "revoked"

=============================================================================
