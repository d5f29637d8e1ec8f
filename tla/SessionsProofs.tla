--------------------------- MODULE SessionsProofs ---------------------------
(***************************************************************************)
(* Theorems about Sessions, for any number of requests, sessions,           *)
(* memberships and organizations, and any lives and bounds.                 *)
(***************************************************************************)
EXTENDS Sessions, TLAPS

-----------------------------------------------------------------------------
(* Types *)

LEMMA BlankTyped == Blank \in Holding /\ Blank.row.state = "none"
  <1>1. (CHOOSE s \in SessionIds : TRUE) \in SessionIds
    BY SessionsConstantsOK
  <1>2. (CHOOSE o \in Organizations : TRUE) \in Organizations
    BY SessionsConstantsOK
  <1>3. 0 \in 0 .. MaxClock /\ 0 \in 0 .. MaxClock + Idle /\ 0 \in 0 .. MaxClock + Life
    BY SessionsConstantsOK
  <1> QED
    BY <1>1, <1>2, <1>3 DEF Blank, Holding, Session, Identities, Times

LEMMA MoveTyped ==
    ASSUME SessionsTypeOK, NEW r \in Requests, NEW at \in StepNames, NEW h \in Holding,
           MoveTo(r, at, h)
    PROVE  step' \in [Requests -> StepNames] /\ held' \in [Requests -> Holding]
  BY DEF SessionsTypeOK, MoveTo

LEMMA DoneTyped ==
    ASSUME SessionsTypeOK, NEW r \in Requests, Done(r)
    PROVE  step' \in [Requests -> StepNames] /\ held' \in [Requests -> Holding]
  BY MoveTyped, BlankTyped DEF Done, StepNames

LEMMA SettleTyped ==
    ASSUME SessionsTypeOK, NEW r \in Requests, NEW h \in Holding, Settle(r, h)
    PROVE  step' \in [Requests -> StepNames] /\ held' \in [Requests -> Holding]
  BY MoveTyped DEF Settle, StepNames

\* What a request holds has its type, and so has what it makes of it.
LEMMA HeldTyped ==
    ASSUME SessionsTypeOK, NEW r \in Requests
    PROVE  /\ held[r] \in Holding /\ held[r].id \in SessionIds /\ held[r].row \in Session
           /\ held[r].identity \in Identities /\ held[r].time \in Times
           /\ held[r].row.org \in Organizations /\ held[r].row.identity \in Identities
           /\ \A m \in Identities : [held[r] EXCEPT !.identity = m] \in Holding
  <1>1. held[r] \in Holding
    BY DEF SessionsTypeOK
  <1>2. held[r].row \in Session
    BY <1>1 DEF Holding
  <1>3. held[r].row.org \in Organizations /\ held[r].row.identity \in Identities
    BY <1>2 DEF Session
  <1> QED
    BY <1>1, <1>2, <1>3 DEF Holding

\* A row whose identity, visit or state changes remains a row.
LEMMA RowTyped ==
    ASSUME SessionsTypeOK, NEW s \in SessionIds
    PROVE  /\ session[s] \in Session
           /\ \A m \in Identities : [session[s] EXCEPT !.identity = m] \in Session
           /\ \A t \in Times : [session[s] EXCEPT !.seen = t, !.idle = t + Idle] \in Session
           /\ [session[s] EXCEPT !.state = "revoked"] \in Session
  <1>1. session[s] \in Session
    BY DEF SessionsTypeOK
  <1>2. \A t \in Times : t + Idle \in 0 .. MaxClock + Idle
    BY SessionsConstantsOK DEF Times
  <1> QED
    BY <1>1, <1>2 DEF Session

LEMMA DefaultsTyped ==
    ASSUME SessionsTypeOK, NEW o \in Organizations
    PROVE  Defaults(o) \subseteq Identities
  BY DEF SessionsTypeOK, Defaults, Identities

LEMMA RevokeTyped ==
    ASSUME SessionsTypeOK, NEW S \in SUBSET SessionIds, RevokeSessions(S)
    PROVE  session' \in [SessionIds -> Session] /\ revocations' \in [SessionIds -> Nat]
  <1>1. /\ \A s \in SessionIds : /\ session[s] \in Session
                                 /\ [session[s] EXCEPT !.state = "revoked"] \in Session
        /\ \A s \in SessionIds : revocations[s] \in Nat /\ revocations[s] + 1 \in Nat
    <2>1. \A s \in SessionIds : revocations[s] \in Nat /\ revocations[s] + 1 \in Nat
      BY DEF SessionsTypeOK
    <2> QED
      BY <2>1, RowTyped
  <1> DEFINE live == {s \in S : Live(s)}
  <1>2. /\ session' = [s \in SessionIds |->
               IF s \in live THEN [session[s] EXCEPT !.state = "revoked"] ELSE session[s]]
        /\ revocations' = [s \in SessionIds |->
               IF s \in live THEN revocations[s] + 1 ELSE revocations[s]]
    BY DEF RevokeSessions
  <1> HIDE DEF live
  <1> QED
    BY <1>1, <1>2

LEMMA ChooseTyped ==
    ASSUME SessionsTypeOK, NEW s \in SessionIds, NEW m \in Identities, Choose(s, m)
    PROVE  chosen' \in [SessionIds -> Identities] /\ doubtful' \subseteq SessionIds
  BY DEF Choose, SessionsTypeOK

LEMMA SessionsTypeInit == SessionsInit => SessionsTypeOK
  <1>1. Blank \in Holding /\ Blank.row \in Session
    BY BlankTyped DEF Holding
  <1> QED
    BY <1>1, SessionsConstantsOK
    DEF SessionsInit, SessionsTypeOK, StepNames, Times, Identities

LEMMA SignInTyped ==
    ASSUME SessionsTypeOK, NEW r \in Requests,
           \/ \E o \in Organizations : login(r, o)
           \/ createControlPlaneSession(r)
    PROVE  SessionsTypeOK'
  <1>1. ASSUME NEW o \in Organizations, login(r, o)
        PROVE  SessionsTypeOK'
    <2>1. PICK m \in {m \in eligible : OrgOf[m] = o} :
             MoveTo(r, "insert", [Blank EXCEPT !.row.org = o, !.identity = m])
      BY <1>1 DEF login
    <2>2. m \in Identities
      BY DEF SessionsTypeOK, Identities
    <2>3. [Blank EXCEPT !.row.org = o, !.identity = m] \in Holding
      BY <2>2, BlankTyped DEF Holding, Session
    <2>4. "insert" \in StepNames
      BY DEF StepNames
    <2> QED
      BY <1>1, <2>1, <2>3, <2>4, MoveTyped DEF login, memory, SessionsTypeOK
  <1>2. ASSUME createControlPlaneSession(r)
        PROVE  SessionsTypeOK'
    <2>1. [state |-> "live", org |-> held[r].row.org, identity |-> held[r].identity,
           seen |-> clock, idle |-> clock + Idle, expires |-> clock + Life] \in Session
      <3>1. clock + Idle \in 0 .. MaxClock + Idle /\ clock + Life \in 0 .. MaxClock + Life
        BY SessionsConstantsOK DEF SessionsTypeOK, Times
      <3> QED
        BY <3>1, HeldTyped DEF SessionsTypeOK, Session
    <2>2. session' \in [SessionIds -> Session]
      BY <1>2, <2>1 DEF createControlPlaneSession, SessionsTypeOK
    <2>3. /\ visited' \in [SessionIds -> Times]
          /\ chosen' \in [SessionIds -> Identities] /\ doubtful' \subseteq SessionIds
      <3>1. PICK q \in SessionIds : /\ visited' = [visited EXCEPT ![q] = clock]
                                   /\ Choose(q, held[r].identity)
        BY <1>2 DEF createControlPlaneSession
      <3> QED
        BY <3>1, HeldTyped, ChooseTyped DEF SessionsTypeOK
    <2>4. step' \in [Requests -> StepNames] /\ held' \in [Requests -> Holding]
      BY <1>2, DoneTyped DEF createControlPlaneSession
    <2> QED
      BY <1>2, <2>2, <2>3, <2>4 DEF createControlPlaneSession, SessionsTypeOK
  <1> QED
    BY <1>1, <1>2

LEMMA ResolveTyped ==
    ASSUME SessionsTypeOK, NEW r \in Requests, resolveRequestAuth(r)
    PROVE  SessionsTypeOK'
  <1>1. ASSUME NEW s \in SessionIds, findControlPlaneSessionByHandleHash(r, s)
        PROVE  SessionsTypeOK'
    <2> DEFINE h == [id |-> s, row |-> session[s], identity |-> NoMembership, time |-> clock]
    <2>1. h \in Holding
      BY DEF Holding, SessionsTypeOK, Identities
    <2>2. step' \in [Requests -> StepNames] /\ held' \in [Requests -> Holding]
      <3>1. MoveTo(r, "expire", h) \/ MoveTo(r, "list", h)
        BY <1>1 DEF findControlPlaneSessionByHandleHash
      <3>2. "expire" \in StepNames /\ "list" \in StepNames
        BY DEF StepNames
      <3> HIDE DEF h
      <3> QED
        BY <3>1, <3>2, <2>1, MoveTyped
    <2>3. visited' \in [SessionIds -> Times]
      BY <1>1 DEF findControlPlaneSessionByHandleHash, SessionsTypeOK
    <2> QED
      BY <1>1, <2>2, <2>3 DEF findControlPlaneSessionByHandleHash, SessionsTypeOK
  <1>2. ASSUME revokeExpiredSession(r)
        PROVE  SessionsTypeOK'
    <2>1. RevokeSessions({held[r].id}) /\ {held[r].id} \in SUBSET SessionIds /\ Done(r)
      BY <1>2, HeldTyped DEF revokeExpiredSession
    <2>2. session' \in [SessionIds -> Session] /\ revocations' \in [SessionIds -> Nat]
      BY <2>1, RevokeTyped
    <2> QED
      BY <1>2, <2>1, <2>2, DoneTyped DEF revokeExpiredSession, memory, SessionsTypeOK
  <1>3. ASSUME listActiveMemberIdentitiesByEmail(r)
        PROVE  SessionsTypeOK'
    <2>1. PICK m \in IF held[r].row.identity \in eligible THEN {held[r].row.identity}
                     ELSE Defaults(held[r].row.org) :
             \/ MoveTo(r, "fix", [held[r] EXCEPT !.identity = m])
             \/ Settle(r, [held[r] EXCEPT !.identity = m])
      BY <1>3 DEF listActiveMemberIdentitiesByEmail
    <2>2. [held[r] EXCEPT !.identity = m] \in Holding
      BY HeldTyped, DefaultsTyped
    <2>3. "fix" \in StepNames
      BY DEF StepNames
    <2>4. step' \in [Requests -> StepNames] /\ held' \in [Requests -> Holding]
      BY <2>1, <2>2, <2>3, MoveTyped, SettleTyped
    <2> QED
      BY <1>3, <2>4 DEF listActiveMemberIdentitiesByEmail, memory, SessionsTypeOK
  <1>4. ASSUME updateControlPlaneSessionActiveIdentity(r)
        PROVE  SessionsTypeOK'
    <2>1. session' \in [SessionIds -> Session]
      BY <1>4, HeldTyped, RowTyped
      DEF updateControlPlaneSessionActiveIdentity, SessionsTypeOK
    <2>2. step' \in [Requests -> StepNames] /\ held' \in [Requests -> Holding]
      BY <1>4, HeldTyped, SettleTyped DEF updateControlPlaneSessionActiveIdentity
    <2> QED
      BY <1>4, <2>1, <2>2
      DEF updateControlPlaneSessionActiveIdentity, memory, SessionsTypeOK
  <1>5. ASSUME touchControlPlaneSession(r)
        PROVE  SessionsTypeOK'
    <2>1. session' \in [SessionIds -> Session]
      BY <1>5, HeldTyped, RowTyped DEF touchControlPlaneSession, SessionsTypeOK
    <2>2. step' \in [Requests -> StepNames] /\ held' \in [Requests -> Holding]
      BY <1>5, HeldTyped, MoveTyped DEF touchControlPlaneSession, StepNames
    <2> QED
      BY <1>5, <2>1, <2>2 DEF touchControlPlaneSession, memory, SessionsTypeOK
  <1> QED
    BY <1>1, <1>2, <1>3, <1>4, <1>5 DEF resolveRequestAuth

LEMMA AnswerTyped ==
    ASSUME SessionsTypeOK, NEW r \in Requests,
           \/ respond(r) \/ postLogout(r) \/ revokeControlPlaneSessionsForOperator(r)
           \/ chooseIdentity(r) \/ setIdentity(r) \/ failRequest(r)
    PROVE  SessionsTypeOK'
  <1>1. ASSUME respond(r) \/ failRequest(r)
        PROVE  SessionsTypeOK'
    BY <1>1, DoneTyped DEF respond, failRequest, memory, SessionsTypeOK
  <1>2. ASSUME postLogout(r)
        PROVE  SessionsTypeOK'
    <2>1. step' \in [Requests -> StepNames] /\ held' \in [Requests -> Holding]
      BY <1>2, HeldTyped, MoveTyped DEF postLogout, StepNames
    <2> QED
      BY <1>2, <2>1 DEF postLogout, memory, SessionsTypeOK
  <1>3. ASSUME revokeControlPlaneSessionsForOperator(r)
        PROVE  SessionsTypeOK'
    <2>1. step' \in [Requests -> StepNames] /\ held' \in [Requests -> Holding]
      BY <1>3, HeldTyped, MoveTyped DEF revokeControlPlaneSessionsForOperator, StepNames
    <2> DEFINE S == {s \in SessionIds : /\ session[s].org = PrincipalOrg(r)
                                        /\ session[s].org = held[r].row.org}
    <2>2. session' \in [SessionIds -> Session] /\ revocations' \in [SessionIds -> Nat]
      <3>1. RevokeSessions(S) /\ S \in SUBSET SessionIds
        BY <1>3 DEF revokeControlPlaneSessionsForOperator
      <3> HIDE DEF S
      <3> QED
        BY <3>1, RevokeTyped
    <2> QED
      BY <1>3, <2>1, <2>2 DEF revokeControlPlaneSessionsForOperator, memory, SessionsTypeOK
  <1>4. ASSUME chooseIdentity(r)
        PROVE  SessionsTypeOK'
    <2>1. PICK m \in eligible : MoveTo(r, "set", [held[r] EXCEPT !.identity = m])
      BY <1>4 DEF chooseIdentity
    <2>2. m \in Identities /\ "set" \in StepNames
      BY DEF SessionsTypeOK, Identities, StepNames
    <2> QED
      BY <1>4, <2>1, <2>2, HeldTyped, MoveTyped DEF chooseIdentity, memory, SessionsTypeOK
  <1>5. ASSUME setIdentity(r)
        PROVE  SessionsTypeOK'
    <2>1. /\ session' \in [SessionIds -> Session]
          /\ chosen' \in [SessionIds -> Identities] /\ doubtful' \subseteq SessionIds
      <3>1. CASE Live(held[r].id)
        <4>1. [session[held[r].id] EXCEPT !.identity = held[r].identity] \in Session
          BY HeldTyped, RowTyped
        <4> QED
          BY <1>5, <3>1, <4>1, HeldTyped, ChooseTyped DEF setIdentity, SessionsTypeOK
      <3>2. CASE ~Live(held[r].id)
        BY <1>5, <3>2 DEF setIdentity, SessionsTypeOK
      <3> QED
        BY <3>1, <3>2
    <2>2. step' \in [Requests -> StepNames] /\ held' \in [Requests -> Holding]
      BY <1>5, DoneTyped DEF setIdentity
    <2>3. UNCHANGED <<revocations, eligible, clock, visited, edits>>
      BY <1>5 DEF setIdentity
    <2> QED
      BY <2>1, <2>2, <2>3 DEF SessionsTypeOK
  <1> QED
    BY <1>1, <1>2, <1>3, <1>4, <1>5

LEMMA SessionsTypeNext == SessionsTypeOK /\ [SessionsNext]_sessionVars => SessionsTypeOK'
  <1> SUFFICES ASSUME SessionsTypeOK, [SessionsNext]_sessionVars
               PROVE  SessionsTypeOK'
    OBVIOUS
  <1>1. ASSUME NEW m \in Memberships, patchMember(m)
        PROVE  SessionsTypeOK'
    BY <1>1, SessionsConstantsOK DEF patchMember, Edit, Unsettle, SessionsTypeOK
  <1>2. ASSUME NEW m \in Memberships, removeMember(m)
        PROVE  SessionsTypeOK'
    <2>1. NoMembership \in Identities
      BY DEF Identities
    <2>2. session' \in [SessionIds -> Session]
      BY <1>2, <2>1, RowTyped DEF removeMember
    <2> QED
      BY <1>2, <2>2, SessionsConstantsOK DEF removeMember, Edit, Unsettle, SessionsTypeOK
  <1>3. ASSUME SessionsTick
        PROVE  SessionsTypeOK'
    BY <1>3, SessionsConstantsOK DEF SessionsTick, memory, SessionsTypeOK, Times
  <1>4. CASE UNCHANGED sessionVars
    BY <1>4 DEF sessionVars, memory, SessionsTypeOK
  <1> QED
    BY <1>1, <1>2, <1>3, <1>4, SignInTyped, ResolveTyped, AnswerTyped DEF SessionsNext

\* Types are kept by every interleaving of requests, edits and time.
THEOREM SessionsTypeCorrect == SessionsSpec => []SessionsTypeOK
  BY SessionsTypeInit, SessionsTypeNext, PTL DEF SessionsSpec

-----------------------------------------------------------------------------
(* What a step does to a session *)

Recorded(s) == revocations'[s] = revocations[s]
Unchanged(s) == session'[s] = session[s] /\ Recorded(s)
Created(s) == /\ session[s].state = "none" /\ session'[s].state = "live" /\ Recorded(s)
              /\ session'[s].idle = clock + Idle
              /\ visited'[s] = clock /\ chosen'[s] = session'[s].identity
Revoked(s) == /\ Live(s) /\ session'[s] = [session[s] EXCEPT !.state = "revoked"]
              /\ revocations'[s] = revocations[s] + 1
Renamed(s) == /\ Recorded(s)
              /\ \E m \in Identities : session'[s] = [session[s] EXCEPT !.identity = m]
Touched(s) == /\ Live(s) /\ Recorded(s)
              /\ \E r \in Requests :
                    /\ step[r] = "touch" /\ held[r].id = s
                    /\ session'[s] = [session[s] EXCEPT !.seen = held[r].time,
                                                        !.idle = held[r].time + Idle]

LEMMA RevokeSteps ==
    ASSUME SessionsTypeOK, NEW S \in SUBSET SessionIds, RevokeSessions(S),
           NEW s \in SessionIds
    PROVE  Unchanged(s) \/ Revoked(s)
  BY DEF RevokeSessions, Unchanged, Revoked, Recorded, SessionsTypeOK

\* Of all steps only the login of a new session, a revocation, a change of
\* identity and a touch write a row, the last only a live one.
LEMMA RowSteps ==
    ASSUME SessionsTypeOK, [SessionsNext]_sessionVars, NEW s \in SessionIds
    PROVE  Unchanged(s) \/ Created(s) \/ Revoked(s) \/ Renamed(s) \/ Touched(s)
  <1>1. ASSUME UNCHANGED <<session, revocations>>
        PROVE  Unchanged(s)
    BY <1>1 DEF Unchanged, Recorded
  <1>2. ASSUME NEW r \in Requests, createControlPlaneSession(r)
        PROVE  Unchanged(s) \/ Created(s)
    <2>1. PICK q \in SessionIds :
             /\ session[q].state = "none"
             /\ session' = [session EXCEPT ![q] =
                   [state |-> "live", org |-> held[r].row.org,
                    identity |-> held[r].identity, seen |-> clock,
                    idle |-> clock + Idle, expires |-> clock + Life]]
             /\ visited' = [visited EXCEPT ![q] = clock]
             /\ chosen' = [chosen EXCEPT ![q] = held[r].identity]
      BY <1>2 DEF createControlPlaneSession, Choose
    <2>2. UNCHANGED revocations
      BY <1>2 DEF createControlPlaneSession
    <2> QED
      BY <2>1, <2>2 DEF Unchanged, Created, Recorded, SessionsTypeOK
  <1>3. ASSUME NEW r \in Requests, revokeExpiredSession(r)
        PROVE  Unchanged(s) \/ Revoked(s)
    BY <1>3, HeldTyped, RevokeSteps DEF revokeExpiredSession
  <1>4. ASSUME NEW r \in Requests, updateControlPlaneSessionActiveIdentity(r)
        PROVE  Unchanged(s) \/ Renamed(s)
    <2>1. held[r].identity \in Identities /\ UNCHANGED revocations
      BY <1>4, HeldTyped DEF updateControlPlaneSessionActiveIdentity
    <2>2. session' = session
          \/ session' = [session EXCEPT ![held[r].id].identity = held[r].identity]
      BY <1>4 DEF updateControlPlaneSessionActiveIdentity
    <2> QED
      BY <2>1, <2>2 DEF Unchanged, Renamed, Recorded, SessionsTypeOK
  <1>5. ASSUME NEW r \in Requests, touchControlPlaneSession(r)
        PROVE  Unchanged(s) \/ Touched(s)
    <2>1. step[r] = "touch" /\ UNCHANGED revocations
      BY <1>5 DEF touchControlPlaneSession
    <2>2. \/ session' = session
          \/ /\ Live(held[r].id)
             /\ session' = [session EXCEPT ![held[r].id].seen = held[r].time,
                                           ![held[r].id].idle = held[r].time + Idle]
      BY <1>5 DEF touchControlPlaneSession
    <2> QED
      BY <2>1, <2>2 DEF Unchanged, Touched, Recorded, SessionsTypeOK
  <1>6. ASSUME NEW r \in Requests, revokeControlPlaneSessionsForOperator(r)
        PROVE  Unchanged(s) \/ Revoked(s)
    <2> DEFINE S == {q \in SessionIds : /\ session[q].org = PrincipalOrg(r)
                                        /\ session[q].org = held[r].row.org}
    <2>1. RevokeSessions(S) /\ S \in SUBSET SessionIds
      BY <1>6 DEF revokeControlPlaneSessionsForOperator
    <2> HIDE DEF S
    <2> QED
      BY <2>1, RevokeSteps
  <1>7. ASSUME NEW r \in Requests, setIdentity(r)
        PROVE  Unchanged(s) \/ Renamed(s)
    <2>1. held[r].identity \in Identities /\ UNCHANGED revocations
      BY <1>7, HeldTyped DEF setIdentity
    <2>2. session' = session
          \/ session' = [session EXCEPT ![held[r].id].identity = held[r].identity]
      BY <1>7 DEF setIdentity
    <2> QED
      BY <2>1, <2>2 DEF Unchanged, Renamed, Recorded, SessionsTypeOK
  <1>8. ASSUME NEW m \in Memberships, removeMember(m)
        PROVE  Unchanged(s) \/ Renamed(s)
    <2>1. NoMembership \in Identities /\ UNCHANGED revocations
      BY <1>8 DEF removeMember, Identities
    <2>2. session'[s] = IF session[s].identity = m
                        THEN [session[s] EXCEPT !.identity = NoMembership] ELSE session[s]
      BY <1>8 DEF removeMember
    <2> QED
      BY <2>1, <2>2 DEF Unchanged, Renamed, Recorded
  <1>9. ASSUME NEW r \in Requests,
               \/ \E o \in Organizations : login(r, o)
               \/ \E q \in SessionIds : findControlPlaneSessionByHandleHash(r, q)
               \/ listActiveMemberIdentitiesByEmail(r)
               \/ respond(r) \/ postLogout(r) \/ chooseIdentity(r) \/ failRequest(r)
        PROVE  Unchanged(s)
    BY <1>1, <1>9 DEF login, findControlPlaneSessionByHandleHash,
       listActiveMemberIdentitiesByEmail, respond, postLogout, chooseIdentity, failRequest
  <1>10. ASSUME (\E m \in Memberships : patchMember(m)) \/ SessionsTick
                \/ UNCHANGED sessionVars
         PROVE  Unchanged(s)
    BY <1>1, <1>10 DEF patchMember, SessionsTick, sessionVars
  <1> QED
    BY <1>2, <1>3, <1>4, <1>5, <1>6, <1>7, <1>8, <1>9, <1>10
    DEF SessionsNext, resolveRequestAuth

-----------------------------------------------------------------------------
(* Revocation *)

LEMMA RevokedOnceStep ==
    ASSUME SessionsTypeOK, RevokedOnce, [SessionsNext]_sessionVars
    PROVE  RevokedOnce'
  <1> SUFFICES ASSUME NEW s \in SessionIds
               PROVE  revocations'[s] = IF session'[s].state = "revoked" THEN 1 ELSE 0
    BY DEF RevokedOnce
  <1>1. revocations[s] = IF session[s].state = "revoked" THEN 1 ELSE 0
    BY DEF RevokedOnce
  <1>2. session[s] \in Session
    BY RowTyped
  <1>3. CASE Unchanged(s)
    BY <1>1, <1>3 DEF Unchanged, Recorded
  <1>4. CASE Created(s)
    BY <1>1, <1>4 DEF Created, Recorded
  <1>5. CASE Revoked(s)
    BY <1>1, <1>2, <1>5 DEF Revoked, Live, Session
  <1>6. CASE Renamed(s)
    BY <1>1, <1>2, <1>6 DEF Renamed, Recorded, Session
  <1>7. CASE Touched(s)
    BY <1>1, <1>2, <1>7 DEF Touched, Recorded, Session
  <1> QED
    BY <1>3, <1>4, <1>5, <1>6, <1>7, RowSteps

\* However many requests find a session expired while a logout revokes it,
\* one of them marks it, and leaves one record.
THEOREM RevokedOnceHolds == SessionsSpec => []RevokedOnce
  <1>1. SessionsInit => RevokedOnce
    BY BlankTyped DEF SessionsInit, RevokedOnce
  <1> QED
    BY <1>1, RevokedOnceStep, SessionsTypeCorrect, PTL DEF SessionsSpec

\* No write of a request that read the session before its revocation reaches
\* the row afterwards.
THEOREM FrozenOnceRevokedHolds == SessionsSpec => FrozenOnceRevoked
  <1> DEFINE Frozen(s) == session[s].state = "revoked" =>
                             /\ session'[s].state = "revoked"
                             /\ session'[s].seen = session[s].seen
                             /\ session'[s].idle = session[s].idle
  <1>1. ASSUME SessionsTypeOK, [SessionsNext]_sessionVars, NEW s \in SessionIds
        PROVE  Frozen(s)
    <2>1. session[s] \in Session
      BY <1>1, RowTyped
    <2>2. ASSUME Unchanged(s)
          PROVE  Frozen(s)
      BY <2>2 DEF Unchanged
    <2>3. ASSUME Renamed(s)
          PROVE  Frozen(s)
      BY <2>1, <2>3 DEF Renamed, Session
    <2>4. ASSUME Created(s) \/ Revoked(s) \/ Touched(s)
          PROVE  session[s].state # "revoked"
      BY <2>4 DEF Created, Revoked, Touched, Live
    <2> QED
      BY <1>1, <2>2, <2>3, <2>4, RowSteps
  <1>2. SessionsTypeOK /\ [SessionsNext]_sessionVars => [\A s \in SessionIds : Frozen(s)]_sessionVars
    BY <1>1
  <1> QED
    BY <1>2, SessionsTypeCorrect, PTL DEF SessionsSpec, FrozenOnceRevoked

-----------------------------------------------------------------------------
(* Idle time *)

\* A request that has still to date its visit was accepted no later than the
\* last one of its session.
IdleInv ==
    /\ \A s \in SessionIds : visited[s] <= clock
    /\ \A r \in Requests :
          step[r] \in {"list", "fix", "touch"} => held[r].time <= visited[held[r].id]
    /\ IdleHonoured

LEMMA VisitedGrows ==
    ASSUME SessionsTypeOK, IdleInv, [SessionsNext]_sessionVars, NEW s \in SessionIds
    PROVE  visited[s] <= visited'[s] /\ visited'[s] <= clock'
  <1>1. visited[s] <= clock /\ visited[s] \in Nat /\ clock \in Nat
    BY SessionsConstantsOK DEF IdleInv, SessionsTypeOK, Times
  <1>2. ASSUME NEW r \in Requests, createControlPlaneSession(r)
        PROVE  visited'[s] \in {visited[s], clock} /\ clock' = clock
    BY <1>2 DEF createControlPlaneSession, SessionsTypeOK
  <1>3. ASSUME NEW r \in Requests, NEW q \in SessionIds,
               findControlPlaneSessionByHandleHash(r, q)
        PROVE  visited'[s] \in {visited[s], clock} /\ clock' = clock
    BY <1>3 DEF findControlPlaneSessionByHandleHash, SessionsTypeOK
  <1>4. ASSUME SessionsTick
        PROVE  visited' = visited /\ clock' = clock + 1
    BY <1>4 DEF SessionsTick, memory
  <1>5. ASSUME NEW r \in Requests,
               \/ \E o \in Organizations : login(r, o)
               \/ revokeExpiredSession(r) \/ listActiveMemberIdentitiesByEmail(r)
               \/ updateControlPlaneSessionActiveIdentity(r) \/ touchControlPlaneSession(r)
               \/ respond(r) \/ postLogout(r) \/ revokeControlPlaneSessionsForOperator(r)
               \/ chooseIdentity(r) \/ setIdentity(r) \/ failRequest(r)
        PROVE  visited' = visited /\ clock' = clock
    BY <1>5 DEF login, revokeExpiredSession, listActiveMemberIdentitiesByEmail,
       updateControlPlaneSessionActiveIdentity, touchControlPlaneSession, respond,
       postLogout, revokeControlPlaneSessionsForOperator, chooseIdentity, setIdentity,
       failRequest, memory
  <1>6. ASSUME \/ \E m \in Memberships : patchMember(m) \/ removeMember(m)
               \/ UNCHANGED sessionVars
        PROVE  visited' = visited /\ clock' = clock
    BY <1>6 DEF patchMember, removeMember, sessionVars, memory
  <1>7. \/ visited' = visited /\ clock' \in {clock, clock + 1}
        \/ visited'[s] \in {visited[s], clock} /\ clock' = clock
    BY <1>2, <1>3, <1>4, <1>5, <1>6 DEF SessionsNext, resolveRequestAuth
  <1> QED
    BY <1>1, <1>7

\* What a request does to its own place in the handler.
LEMMA TimeHeld ==
    ASSUME SessionsTypeOK, IdleInv, [SessionsNext]_sessionVars, NEW r \in Requests,
           step'[r] \in {"list", "fix", "touch"}
    PROVE  /\ held'[r].id \in SessionIds
           /\ held'[r].time <= visited'[held'[r].id]
  <1> DEFINE Dated == \/ /\ step[r] \in {"list", "fix", "touch"}
                         /\ held'[r].id = held[r].id /\ held'[r].time = held[r].time
                      \/ /\ held'[r].id \in SessionIds
                         /\ held'[r].time = clock /\ visited'[held'[r].id] = clock
  <1>1. ASSUME NEW q \in Requests,
               \/ \E o \in Organizations : login(q, o)
               \/ createControlPlaneSession(q) \/ revokeExpiredSession(q)
               \/ touchControlPlaneSession(q)
               \/ respond(q) \/ postLogout(q) \/ revokeControlPlaneSessionsForOperator(q)
               \/ chooseIdentity(q) \/ setIdentity(q) \/ failRequest(q)
        PROVE  Dated
    <2>1. PICK at, h :
             /\ at \in {"idle", "insert", "logout", "loggedOut", "set", "resolved"}
             /\ MoveTo(q, at, h)
      <3>1. \E at \in {"idle", "insert", "logout", "loggedOut", "set", "resolved"} :
               \E h : MoveTo(q, at, h)
        BY <1>1 DEF login, createControlPlaneSession, revokeExpiredSession,
           touchControlPlaneSession, respond, postLogout,
           revokeControlPlaneSessionsForOperator, chooseIdentity, setIdentity,
           failRequest, Done
      <3> QED
        BY <3>1
    <2> QED
      BY <2>1 DEF MoveTo, SessionsTypeOK
  <1>2. ASSUME NEW q \in Requests, NEW s \in SessionIds,
               findControlPlaneSessionByHandleHash(q, s)
        PROVE  Dated
    <2> DEFINE h == [id |-> s, row |-> session[s], identity |-> NoMembership, time |-> clock]
    <2>1. \/ MoveTo(q, "expire", h)
          \/ MoveTo(q, "list", h) /\ visited' = [visited EXCEPT ![s] = clock]
      BY <1>2 DEF findControlPlaneSessionByHandleHash
    <2>2. h.id = s /\ h.time = clock
      OBVIOUS
    <2> HIDE DEF h
    <2> QED
      BY <2>1, <2>2 DEF MoveTo, SessionsTypeOK
  <1>3. ASSUME NEW q \in Requests,
               \/ listActiveMemberIdentitiesByEmail(q)
               \/ updateControlPlaneSessionActiveIdentity(q)
        PROVE  Dated
    <2>1. PICK at \in StepNames, m \in Identities :
             /\ step[q] \in {"list", "fix"}
             /\ MoveTo(q, at, [held[q] EXCEPT !.identity = m])
      <3>1. CASE listActiveMemberIdentitiesByEmail(q)
        <4>1. PICK m \in IF held[q].row.identity \in eligible THEN {held[q].row.identity}
                         ELSE Defaults(held[q].row.org) :
                 \/ MoveTo(q, "fix", [held[q] EXCEPT !.identity = m])
                 \/ Settle(q, [held[q] EXCEPT !.identity = m])
          BY <3>1 DEF listActiveMemberIdentitiesByEmail
        <4>2. m \in Identities
          BY HeldTyped, DefaultsTyped
        <4> QED
          BY <3>1, <4>1, <4>2 DEF listActiveMemberIdentitiesByEmail, Settle, StepNames
      <3>2. CASE updateControlPlaneSessionActiveIdentity(q)
        <4>1. held[q] = [held[q] EXCEPT !.identity = held[q].identity]
          BY HeldTyped DEF Holding
        <4>2. held[q].identity \in Identities
          BY HeldTyped
        <4> QED
          BY <3>2, <4>1, <4>2 DEF updateControlPlaneSessionActiveIdentity, Settle, StepNames
      <3> QED
        BY <1>3, <3>1, <3>2
    <2>2. held[q] \in Holding
      BY HeldTyped
    <2> QED
      BY <2>1, <2>2 DEF MoveTo, SessionsTypeOK, Holding
  <1>4. ASSUME \/ \E m \in Memberships : patchMember(m) \/ removeMember(m)
               \/ SessionsTick \/ UNCHANGED sessionVars
        PROVE  Dated
    BY <1>4 DEF patchMember, removeMember, SessionsTick, sessionVars
  <1>5. Dated
    BY <1>1, <1>2, <1>3, <1>4 DEF SessionsNext, resolveRequestAuth
  <1>6. CASE /\ step[r] \in {"list", "fix", "touch"}
             /\ held'[r].id = held[r].id /\ held'[r].time = held[r].time
    <2>1. held[r].time <= visited[held[r].id] /\ held[r].id \in SessionIds
      BY <1>6, HeldTyped DEF IdleInv
    <2>2. visited[held[r].id] <= visited'[held[r].id]
      BY <2>1, VisitedGrows
    <2>3. held[r].time \in Nat /\ visited[held[r].id] \in Nat /\ visited'[held[r].id] \in Nat
      BY <2>1, HeldTyped, SessionsTypeNext DEF SessionsTypeOK, Times
    <2> QED
      BY <1>6, <2>1, <2>2, <2>3
  <1>7. CASE /\ held'[r].id \in SessionIds
             /\ held'[r].time = clock /\ visited'[held'[r].id] = clock
    BY <1>7, SessionsConstantsOK DEF SessionsTypeOK, Times
  <1> QED
    BY <1>5, <1>6, <1>7

LEMMA IdleStep ==
    ASSUME SessionsTypeOK, IdleInv, [SessionsNext]_sessionVars
    PROVE  IdleInv'
  <1>1. \A s \in SessionIds : visited'[s] <= clock'
    BY VisitedGrows
  <1>2. \A r \in Requests :
           step'[r] \in {"list", "fix", "touch"} => held'[r].time <= visited'[held'[r].id]
    BY TimeHeld
  <1>3. ASSUME NEW s \in SessionIds, session'[s].state = "live"
        PROVE  session'[s].idle <= visited'[s] + Idle
    <2>1. /\ visited[s] \in Nat /\ visited'[s] \in Nat /\ Idle \in Nat /\ clock \in Nat
          /\ visited[s] <= visited'[s]
      BY SessionsTypeNext, VisitedGrows, SessionsConstantsOK DEF SessionsTypeOK, Times
    <2>2. session[s] \in Session /\ session[s].idle \in Nat
      <3>1. session[s] \in Session
        BY RowTyped
      <3> QED
        BY <3>1, SessionsConstantsOK DEF Session
    <2>3. Live(s) => session[s].idle <= visited[s] + Idle
      BY DEF IdleInv, IdleHonoured
    <2>4. CASE Unchanged(s) \/ Renamed(s)
      <3>1. session'[s].idle = session[s].idle /\ session'[s].state = session[s].state
        BY <2>2, <2>4 DEF Unchanged, Renamed, Session
      <3>2. session[s].idle <= visited[s] + Idle
        BY <1>3, <2>3, <3>1 DEF Live
      <3> QED
        BY <2>1, <2>2, <3>1, <3>2
    <2>5. CASE Created(s)
      BY <2>1, <2>5 DEF Created
    <2>6. CASE Revoked(s)
      BY <1>3, <2>2, <2>6 DEF Revoked, Session
    <2>7. CASE Touched(s)
      <3>1. PICK r \in Requests :
               /\ step[r] = "touch" /\ held[r].id = s
               /\ session'[s] = [session[s] EXCEPT !.seen = held[r].time,
                                                   !.idle = held[r].time + Idle]
        BY <2>7 DEF Touched
      <3>2. held[r].time \in Nat /\ held[r].time <= visited[s]
        BY <3>1, HeldTyped DEF IdleInv, Times
      <3> QED
        BY <2>1, <2>2, <3>1, <3>2 DEF Session
    <2> QED
      BY <2>4, <2>5, <2>6, <2>7, RowSteps
  <1> QED
    BY <1>1, <1>2, <1>3 DEF IdleInv, IdleHonoured, Live

\* However late the visits of concurrent requests are written, and in which
\* order, none moves the idle time past what the last visit accepted allows.
THEOREM IdleHonouredHolds == SessionsSpec => []IdleHonoured
  <1>1. SessionsInit => IdleInv
    BY BlankTyped, SessionsConstantsOK DEF SessionsInit, IdleInv, IdleHonoured, Live
  <1>2. IdleInv => IdleHonoured
    BY DEF IdleInv
  <1> QED
    BY <1>1, <1>2, IdleStep, SessionsTypeCorrect, PTL DEF SessionsSpec

-----------------------------------------------------------------------------
(* Logging out *)

\* A step of one request leaves the others where they are.
LEMMA MoveElsewhere ==
    ASSUME SessionsTypeOK, NEW q \in Requests, NEW at, NEW h, MoveTo(q, at, h),
           NEW r \in Requests
    PROVE  /\ r = q => step'[r] = at /\ held'[r] = h
           /\ r # q => step'[r] = step[r] /\ held'[r] = held[r]
  BY DEF MoveTo, SessionsTypeOK

Resolving == StepNames \ {"idle", "insert"}

\* A request that has read its session holds the organization the session is
\* of, and one that has logged out acting in it has revoked it.
LogoutInv ==
    \A r \in Requests : step[r] \in Resolving =>
       /\ session[held[r].id].state # "none"
       /\ session[held[r].id].org = held[r].row.org
       /\ step[r] = "loggedOut" /\ PrincipalOrg(r) = held[r].row.org =>
             session[held[r].id].state = "revoked"

\* A logout made as a membership of the organization the session was signed in
\* to revokes the session it was made with.
LogoutAtHomeRevokes ==
    \A r \in Requests :
       step[r] = "loggedOut" /\ PrincipalOrg(r) = held[r].row.org =>
          session[held[r].id].state = "revoked"

\* A row keeps its organization for good, and its state unless it is revoked.
LEMMA RowStays ==
    ASSUME SessionsTypeOK, [SessionsNext]_sessionVars, NEW s \in SessionIds,
           session[s].state # "none"
    PROVE  /\ session'[s].state \in {session[s].state, "revoked"}
           /\ session'[s].org = session[s].org
  <1>1. session[s] \in Session
    BY RowTyped
  <1>2. ASSUME Unchanged(s) PROVE session'[s] = session[s]
    BY <1>2 DEF Unchanged
  <1>3. ASSUME Revoked(s)
        PROVE  session'[s].state = "revoked" /\ session'[s].org = session[s].org
    BY <1>1, <1>3 DEF Revoked, Session
  <1>4. ASSUME Renamed(s)
        PROVE  session'[s].state = session[s].state /\ session'[s].org = session[s].org
    BY <1>1, <1>4 DEF Renamed, Session
  <1>5. ASSUME Touched(s)
        PROVE  session'[s].state = session[s].state /\ session'[s].org = session[s].org
    BY <1>1, <1>5 DEF Touched, Session
  <1> QED
    BY <1>2, <1>3, <1>4, <1>5, RowSteps DEF Created

\* A request goes on with the session it has read, and gets to "loggedOut" by
\* a revocation; its identity is settled before.
LEMMA RequestStays ==
    ASSUME SessionsTypeOK, [SessionsNext]_sessionVars, NEW r \in Requests,
           step'[r] \in Resolving
    PROVE  \/ /\ step[r] \in Resolving
              /\ held'[r].id = held[r].id /\ held'[r].row = held[r].row
              /\ step'[r] # "loggedOut"
           \/ /\ step[r] \in {"logout", "loggedOut"} /\ held'[r] = held[r]
              /\ step[r] = "logout" => revokeControlPlaneSessionsForOperator(r)
           \/ \E s \in SessionIds :
                 /\ Live(s) /\ session'[s] = session[s]
                 /\ held'[r].id = s /\ held'[r].row = session[s]
                 /\ step'[r] # "loggedOut"
  <1> DEFINE Same == /\ step[r] \in Resolving
                     /\ held'[r].id = held[r].id /\ held'[r].row = held[r].row
                     /\ step'[r] # "loggedOut"
             Out  == /\ step[r] \in {"logout", "loggedOut"} /\ held'[r] = held[r]
                     /\ step[r] = "logout" => revokeControlPlaneSessionsForOperator(r)
             Read == \E s \in SessionIds :
                        /\ Live(s) /\ session'[s] = session[s]
                        /\ held'[r].id = s /\ held'[r].row = session[s]
                        /\ step'[r] # "loggedOut"
             Stays == Same \/ Out \/ Read
  <1>1. ASSUME step'[r] = step[r], held'[r] = held[r] PROVE Same \/ Out
    BY <1>1 DEF Resolving
  <1>2. ASSUME NEW q \in Requests, NEW at, NEW h, MoveTo(q, at, h), q # r
        PROVE  Same \/ Out
    BY <1>1, <1>2, MoveElsewhere
  <1>3. ASSUME NEW q \in Requests, NEW at \in {"idle", "insert"}, NEW h, MoveTo(q, at, h)
        PROVE  Same \/ Out
    <2>1. q # r
      BY <1>3, MoveElsewhere DEF Resolving
    <2> QED BY <1>2, <1>3, <2>1
  <1>4. ASSUME NEW q \in Requests, step[q] \in Resolving,
               NEW at \in {"fix", "touch", "resolved", "logout", "set"},
               NEW m \in Identities, MoveTo(q, at, [held[q] EXCEPT !.identity = m])
        PROVE  Same \/ Out
    <2>1. CASE q # r
      BY <1>2, <1>4, <2>1
    <2>2. CASE q = r
      <3>1. held'[r] = [held[r] EXCEPT !.identity = m] /\ step'[r] = at
        BY <1>4, <2>2, MoveElsewhere
      <3>2. held[r] \in Holding
        BY HeldTyped
      <3> QED BY <1>4, <2>2, <3>1, <3>2 DEF Holding
    <2> QED BY <2>1, <2>2
  <1>5. ASSUME NEW q \in Requests
        PROVE  held[q] = [held[q] EXCEPT !.identity = held[q].identity]
               /\ held[q].identity \in Identities
    BY HeldTyped DEF Holding
  <1>6. ASSUME NEW q \in Requests,
               \/ \E o \in Organizations : login(q, o)
               \/ createControlPlaneSession(q) \/ revokeExpiredSession(q)
               \/ respond(q) \/ setIdentity(q) \/ failRequest(q)
        PROVE  Same \/ Out
    <2>1. \E at \in {"idle", "insert"} : \E h : MoveTo(q, at, h)
      BY <1>6 DEF login, createControlPlaneSession, revokeExpiredSession, respond,
         setIdentity, failRequest, Done
    <2> QED BY <1>3, <2>1
  <1>7. ASSUME NEW q \in Requests, NEW s \in SessionIds,
               findControlPlaneSessionByHandleHash(q, s)
        PROVE  Same \/ Out \/ Read
    <2> DEFINE h == [id |-> s, row |-> session[s], identity |-> NoMembership, time |-> clock]
    <2>1. /\ Live(s) /\ UNCHANGED session
          /\ MoveTo(q, "expire", h) \/ MoveTo(q, "list", h)
      BY <1>7 DEF findControlPlaneSessionByHandleHash
    <2>2. h.id = s /\ h.row = session[s]
      OBVIOUS
    <2> HIDE DEF h
    <2>3. CASE q # r
      BY <1>2, <2>1, <2>3
    <2>4. CASE q = r
      BY <2>1, <2>2, <2>4, MoveElsewhere
    <2> QED BY <2>3, <2>4
  <1>8. ASSUME NEW q \in Requests,
               \/ listActiveMemberIdentitiesByEmail(q)
               \/ updateControlPlaneSessionActiveIdentity(q)
               \/ touchControlPlaneSession(q) \/ postLogout(q) \/ chooseIdentity(q)
        PROVE  Same \/ Out
    <2>1. PICK at \in {"fix", "touch", "resolved", "logout", "set"}, m \in Identities :
             MoveTo(q, at, [held[q] EXCEPT !.identity = m])
      <3>1. CASE listActiveMemberIdentitiesByEmail(q)
        <4>1. PICK m \in IF held[q].row.identity \in eligible THEN {held[q].row.identity}
                         ELSE Defaults(held[q].row.org) :
                 \/ MoveTo(q, "fix", [held[q] EXCEPT !.identity = m])
                 \/ Settle(q, [held[q] EXCEPT !.identity = m])
          BY <3>1 DEF listActiveMemberIdentitiesByEmail
        <4>2. m \in Identities
          BY HeldTyped, DefaultsTyped
        <4> QED
          BY <4>1, <4>2 DEF Settle
      <3>2. CASE chooseIdentity(q)
        <4>1. PICK m \in eligible : MoveTo(q, "set", [held[q] EXCEPT !.identity = m])
          BY <3>2 DEF chooseIdentity
        <4>2. m \in Identities
          BY DEF SessionsTypeOK, Identities
        <4> QED
          BY <4>1, <4>2
      <3>3. CASE \/ updateControlPlaneSessionActiveIdentity(q)
                 \/ touchControlPlaneSession(q) \/ postLogout(q)
        <4>1. \E at \in {"touch", "resolved", "logout"} : MoveTo(q, at, held[q])
          BY <3>3 DEF updateControlPlaneSessionActiveIdentity, touchControlPlaneSession,
             postLogout, Settle
        <4> QED
          BY <4>1, <1>5
      <3> QED
        BY <1>8, <3>1, <3>2, <3>3
    <2>2. step[q] \in Resolving
      BY <1>8 DEF listActiveMemberIdentitiesByEmail, updateControlPlaneSessionActiveIdentity,
         touchControlPlaneSession, postLogout, chooseIdentity, Resolving, StepNames
    <2> QED
      BY <1>4, <2>1, <2>2
  <1>9. ASSUME NEW q \in Requests, revokeControlPlaneSessionsForOperator(q)
        PROVE  Same \/ Out
    <2>1. step[q] = "logout" /\ MoveTo(q, "loggedOut", held[q])
      BY <1>9 DEF revokeControlPlaneSessionsForOperator
    <2>2. CASE q # r
      BY <1>2, <2>1, <2>2
    <2>3. CASE q = r
      BY <1>9, <2>1, <2>3, MoveElsewhere
    <2> QED BY <2>2, <2>3
  <1>10. ASSUME \/ \E m \in Memberships : patchMember(m) \/ removeMember(m)
                \/ SessionsTick \/ UNCHANGED sessionVars
         PROVE  Same \/ Out
    BY <1>1, <1>10 DEF patchMember, removeMember, SessionsTick, sessionVars
  <1> HIDE DEF Same, Out, Read
  <1>11. Stays
    BY <1>6, <1>7, <1>8, <1>9, <1>10 DEF SessionsNext, resolveRequestAuth
  <1> QED
    BY <1>11 DEF Same, Out, Read

LEMMA LogoutStep ==
    ASSUME SessionsTypeOK, LogoutInv, [SessionsNext]_sessionVars
    PROVE  LogoutInv'
  <1> SUFFICES ASSUME NEW r \in Requests, step'[r] \in Resolving
               PROVE  /\ session'[held'[r].id].state # "none"
                      /\ session'[held'[r].id].org = held'[r].row.org
                      /\ step'[r] = "loggedOut" /\ PrincipalOrg(r)' = held'[r].row.org =>
                            session'[held'[r].id].state = "revoked"
    BY DEF LogoutInv
  <1>1. held[r].id \in SessionIds /\ step[r] \in StepNames
    BY HeldTyped DEF SessionsTypeOK
  <1>2. ASSUME step[r] \in Resolving
        PROVE  /\ session'[held[r].id].state \in {session[held[r].id].state, "revoked"}
               /\ session'[held[r].id].state # "none"
               /\ session'[held[r].id].org = held[r].row.org
    BY <1>1, <1>2, RowStays DEF LogoutInv
  <1>3. CASE /\ step[r] \in Resolving
             /\ held'[r].id = held[r].id /\ held'[r].row = held[r].row
             /\ step'[r] # "loggedOut"
    BY <1>2, <1>3
  <1>4. CASE /\ step[r] \in {"logout", "loggedOut"} /\ held'[r] = held[r]
             /\ step[r] = "logout" => revokeControlPlaneSessionsForOperator(r)
    <2>1. step[r] \in Resolving /\ PrincipalOrg(r)' = PrincipalOrg(r)
      BY <1>4 DEF Resolving, StepNames, PrincipalOrg
    <2>2. ASSUME PrincipalOrg(r) = held[r].row.org
          PROVE  session'[held[r].id].state = "revoked"
      <3>1. CASE step[r] = "loggedOut"
        BY <1>2, <2>1, <2>2, <3>1 DEF LogoutInv
      <3>2. CASE step[r] = "logout"
        <4>1. /\ held[r].id \in SessionIds
              /\ session[held[r].id].org = held[r].row.org
              /\ session[held[r].id].state # "none"
          BY <1>1, <2>1 DEF LogoutInv
        <4>2. RevokeSessions({s \in SessionIds : /\ session[s].org = PrincipalOrg(r)
                                                 /\ session[s].org = held[r].row.org})
          BY <1>4, <3>2 DEF revokeControlPlaneSessionsForOperator
        <4>3. session[held[r].id] \in Session
          BY <1>1, RowTyped
        <4>4. CASE Live(held[r].id)
          <5>1. session'[held[r].id] = [session[held[r].id] EXCEPT !.state = "revoked"]
            BY <2>2, <4>1, <4>2, <4>4 DEF RevokeSessions
          <5> QED
            BY <4>3, <5>1 DEF Session
        <4>5. CASE ~Live(held[r].id)
          BY <1>2, <2>1, <4>1, <4>3, <4>5 DEF Live, Session
        <4> QED
          BY <4>4, <4>5
      <3> QED
        BY <1>4, <3>1, <3>2
    <2> QED
      BY <1>2, <1>4, <2>1, <2>2
  <1>5. CASE \E s \in SessionIds :
                /\ Live(s) /\ session'[s] = session[s]
                /\ held'[r].id = s /\ held'[r].row = session[s]
                /\ step'[r] # "loggedOut"
    BY <1>5 DEF Live
  <1> QED
    BY <1>3, <1>4, <1>5, RequestStays

\* Whatever a request was made for, it acts on the row it has read, which keeps
\* its organization.
THEOREM LogoutInvariant == SessionsSpec => []LogoutInv
  <1>1. SessionsInit => LogoutInv
    BY DEF SessionsInit, LogoutInv, Resolving
  <1> QED
    BY <1>1, LogoutStep, SessionsTypeCorrect, PTL DEF SessionsSpec

\* A logout revokes the session it was made with, unless it is made after a
\* switch to a membership of another organization.
THEOREM LogoutAtHomeHolds == SessionsSpec => []LogoutAtHomeRevokes
  <1>1. LogoutInv => LogoutAtHomeRevokes
    BY DEF LogoutInv, LogoutAtHomeRevokes, Resolving, StepNames
  <1> QED
    BY <1>1, LogoutInvariant, PTL

\* For a person with memberships of one organization, a logout revokes the
\* session it was made with, whatever his other requests do meanwhile.
THEOREM LogoutRevokesInOneOrganization ==
    ASSUME \A o, p \in Organizations : o = p
    PROVE  SessionsSpec => []LogoutRevokes
  <1>1. SessionsTypeOK /\ LogoutAtHomeRevokes => LogoutRevokes
    <2> SUFFICES ASSUME SessionsTypeOK, LogoutAtHomeRevokes, NEW r \in Requests,
                        step[r] = "loggedOut"
                 PROVE  session[held[r].id].state = "revoked"
      BY DEF LogoutRevokes
    <2>1. PrincipalOrg(r) \in Organizations /\ held[r].row.org \in Organizations
      BY HeldTyped, SessionsConstantsOK DEF PrincipalOrg, Identities
    <2> QED
      BY <2>1 DEF LogoutAtHomeRevokes
  <1> QED
    BY <1>1, LogoutAtHomeHolds, SessionsTypeCorrect, PTL

-----------------------------------------------------------------------------
(* Switching *)

\* A session not in doubt has the identity chosen, which is of an active
\* membership, and no request of it is replacing what it read.
Undisturbed(s) ==
    /\ session[s].identity = chosen[s] /\ chosen[s] \in eligible
    /\ \A r \in Requests : ~Replacing(r, s)

SwitchInv == \A s \in SessionIds \ doubtful : Live(s) => Undisturbed(s)

\* What is live after a revocation was live before, with the same identity.
LEMMA RevokeLeaves ==
    ASSUME SessionsTypeOK, NEW s \in SessionIds, Unchanged(s) \/ Revoked(s),
           session'[s].state = "live"
    PROVE  Live(s) /\ session'[s].identity = session[s].identity
  <1>1. session[s] \in Session
    BY RowTyped
  <1>2. CASE Unchanged(s)
    BY <1>2 DEF Unchanged, Live
  <1>3. CASE Revoked(s)
    BY <1>1, <1>3 DEF Revoked, Session
  <1> QED
    BY <1>2, <1>3

\* A request of a live session, settled on what the session has, may go on.
LEMMA MoveUndisturbed ==
    ASSUME SessionsTypeOK, NEW s \in SessionIds, \A r \in Requests : ~Replacing(r, s),
           eligible' = eligible, NEW q \in Requests, NEW at, NEW h, MoveTo(q, at, h),
           h.id = s => at # "fix" /\ (at = "list" => h.row.identity \in eligible)
    PROVE  \A r \in Requests : ~Replacing(r, s)'
  <1> SUFFICES ASSUME NEW r \in Requests
               PROVE  ~Replacing(r, s)'
    OBVIOUS
  <1>1. CASE r = q
    BY <1>1, MoveElsewhere DEF Replacing
  <1>2. CASE r # q
    BY <1>2, MoveElsewhere DEF Replacing
  <1> QED
    BY <1>1, <1>2

\* A choice that is not in doubt is one that nobody is about to replace.
LEMMA ChoiceUndisturbed ==
    ASSUME SessionsTypeOK, NEW s \in SessionIds, NEW q \in Requests,
           eligible' = eligible, Choose(s, held[q].identity), Done(q),
           session'[s].identity = held[q].identity, s \notin doubtful'
    PROVE  Undisturbed(s)'
  <1>1. chosen'[s] = held[q].identity
    BY DEF Choose, SessionsTypeOK
  <1>2. held[q].identity \in eligible /\ \A r \in Requests : ~Replacing(r, s)
    BY DEF Choose
  <1>3. \A r \in Requests : ~Replacing(r, s)'
    BY <1>2, MoveUndisturbed DEF Done
  <1> QED
    BY <1>1, <1>2, <1>3 DEF Undisturbed

LEMMA SwitchStep ==
    ASSUME SessionsTypeOK, SwitchInv, [SessionsNext]_sessionVars
    PROVE  SwitchInv'
  <1> SUFFICES ASSUME NEW s \in SessionIds, s \notin doubtful',
                      session'[s].state = "live"
               PROVE  Undisturbed(s)'
    BY DEF SwitchInv, Live
  <1> DEFINE Calm == Live(s) => Undisturbed(s)
  <1>1. ASSUME s \notin doubtful
        PROVE  Calm
    BY <1>1 DEF SwitchInv
  <1>2. ASSUME Live(s), session'[s].identity = session[s].identity,
               UNCHANGED <<eligible, chosen, doubtful>>,
               NEW q \in Requests, NEW at, NEW h, MoveTo(q, at, h),
               h.id = s => at # "fix" /\ (at = "list" => h.row.identity \in eligible)
        PROVE  Undisturbed(s)'
    BY <1>1, <1>2, MoveUndisturbed DEF Undisturbed
  <1>3. ASSUME NEW q \in Requests, NEW o \in Organizations, login(q, o)
        PROVE  Undisturbed(s)'
    <2>1. \E h : MoveTo(q, "insert", h)
      BY <1>3 DEF login
    <2> QED
      BY <1>2, <1>3, <2>1 DEF login, memory, Live
  <1>4. ASSUME NEW q \in Requests, createControlPlaneSession(q)
        PROVE  Undisturbed(s)'
    <2>1. PICK t \in SessionIds :
             /\ session[t].state = "none"
             /\ session' = [session EXCEPT ![t] =
                   [state |-> "live", org |-> held[q].row.org,
                    identity |-> held[q].identity, seen |-> clock,
                    idle |-> clock + Idle, expires |-> clock + Life]]
             /\ Choose(t, held[q].identity)
      BY <1>4 DEF createControlPlaneSession
    <2>2. Done(q) /\ eligible' = eligible
      BY <1>4 DEF createControlPlaneSession
    <2>3. CASE s = t
      <3>1. session'[s].identity = held[q].identity
        BY <2>1, <2>3 DEF SessionsTypeOK
      <3> QED
        BY <2>1, <2>2, <2>3, <3>1, ChoiceUndisturbed
    <2>4. CASE s # t
      <3>1. /\ session'[s] = session[s] /\ chosen'[s] = chosen[s]
            /\ s \notin doubtful
        BY <2>1, <2>4 DEF Choose, SessionsTypeOK
      <3>2. Undisturbed(s)
        BY <1>1, <3>1 DEF Live
      <3>3. \A r \in Requests : ~Replacing(r, s)'
        BY <2>2, <3>2, MoveUndisturbed DEF Done, Undisturbed
      <3> QED
        BY <2>2, <3>1, <3>2, <3>3 DEF Undisturbed
    <2> QED
      BY <2>3, <2>4
  <1>5. ASSUME NEW q \in Requests, NEW t \in SessionIds,
               findControlPlaneSessionByHandleHash(q, t)
        PROVE  Undisturbed(s)'
    <2> DEFINE h == [id |-> t, row |-> session[t], identity |-> NoMembership, time |-> clock]
    <2>1. /\ UNCHANGED <<session, eligible, chosen, doubtful>>
          /\ MoveTo(q, "expire", h) \/ MoveTo(q, "list", h)
      BY <1>5 DEF findControlPlaneSessionByHandleHash
    <2>2. Live(s)
      BY <2>1 DEF Live
    <2>3. h.id = s => h.row.identity \in eligible
      BY <1>1, <2>1, <2>2 DEF Undisturbed
    <2> HIDE DEF h
    <2> QED
      BY <1>2, <2>1, <2>2, <2>3
  <1>6. ASSUME NEW q \in Requests, NEW S \in SUBSET SessionIds, RevokeSessions(S),
               UNCHANGED <<eligible, chosen, doubtful>>,
               MoveTo(q, "idle", Blank) \/ MoveTo(q, "loggedOut", held[q])
        PROVE  Undisturbed(s)'
    <2>1. Live(s) /\ session'[s].identity = session[s].identity
      BY <1>6, RevokeSteps, RevokeLeaves
    <2> QED
      BY <1>2, <1>6, <2>1
  <1>7. ASSUME NEW q \in Requests, revokeExpiredSession(q)
        PROVE  Undisturbed(s)'
    <2>1. RevokeSessions({held[q].id}) /\ {held[q].id} \in SUBSET SessionIds
      BY <1>7, HeldTyped DEF revokeExpiredSession
    <2>2. UNCHANGED <<eligible, chosen, doubtful>> /\ MoveTo(q, "idle", Blank)
      BY <1>7 DEF revokeExpiredSession, Done, memory
    <2> QED
      BY <1>6, <2>1, <2>2
  <1>8. ASSUME NEW q \in Requests, revokeControlPlaneSessionsForOperator(q)
        PROVE  Undisturbed(s)'
    <2> DEFINE S == {t \in SessionIds : /\ session[t].org = PrincipalOrg(q)
                                        /\ session[t].org = held[q].row.org}
    <2>1. RevokeSessions(S) /\ S \in SUBSET SessionIds
      BY <1>8 DEF revokeControlPlaneSessionsForOperator
    <2>2. UNCHANGED <<eligible, chosen, doubtful>> /\ MoveTo(q, "loggedOut", held[q])
      BY <1>8 DEF revokeControlPlaneSessionsForOperator, memory
    <2> HIDE DEF S
    <2> QED
      BY <1>6, <2>1, <2>2
  <1>9. ASSUME NEW q \in Requests, listActiveMemberIdentitiesByEmail(q)
        PROVE  Undisturbed(s)'
    <2>1. UNCHANGED <<session, eligible, chosen, doubtful>> /\ step[q] = "list"
      BY <1>9 DEF listActiveMemberIdentitiesByEmail, memory
    <2>2. Live(s) /\ held[q] \in Holding
      BY <2>1, HeldTyped DEF Live
    <2>3. CASE held[q].id = s
      <3>1. held[q].row.identity \in eligible
        BY <1>1, <2>1, <2>2, <2>3 DEF Undisturbed, Replacing
      <3>2. Settle(q, [held[q] EXCEPT !.identity = held[q].row.identity])
        BY <1>9, <3>1 DEF listActiveMemberIdentitiesByEmail
      <3>3. \E h : MoveTo(q, "touch", h) \/ MoveTo(q, "resolved", h)
        BY <3>2 DEF Settle
      <3> QED
        BY <1>2, <2>1, <2>2, <3>3
    <2>4. CASE held[q].id # s
      <3>1. PICK m : \/ MoveTo(q, "fix", [held[q] EXCEPT !.identity = m])
                     \/ Settle(q, [held[q] EXCEPT !.identity = m])
        BY <1>9 DEF listActiveMemberIdentitiesByEmail
      <3> DEFINE h == [held[q] EXCEPT !.identity = m]
      <3>2. h.id # s
        BY <2>2, <2>4 DEF Holding
      <3>3. \E at : MoveTo(q, at, h)
        BY <3>1 DEF Settle
      <3> HIDE DEF h
      <3> QED
        BY <1>2, <2>1, <2>2, <3>2, <3>3
    <2> QED
      BY <2>3, <2>4
  <1>10. ASSUME NEW q \in Requests, updateControlPlaneSessionActiveIdentity(q)
         PROVE  Undisturbed(s)'
    <2>1. /\ UNCHANGED <<eligible, chosen, doubtful>> /\ step[q] = "fix"
          /\ \E at \in {"touch", "resolved"} : MoveTo(q, at, held[q])
      BY <1>10 DEF updateControlPlaneSessionActiveIdentity, memory, Settle
    <2>2. session[s] \in Session /\ held[q].id \in SessionIds
      BY RowTyped, HeldTyped
    <2>3. session'[s].state = session[s].state
      BY <1>10, <2>2 DEF updateControlPlaneSessionActiveIdentity, SessionsTypeOK, Session
    <2>4. held[q].id # s
      BY <1>1, <2>1, <2>3 DEF Live, Undisturbed, Replacing
    <2>5. session'[s] = session[s]
      BY <1>10, <2>2, <2>4 DEF updateControlPlaneSessionActiveIdentity, SessionsTypeOK
    <2> QED
      BY <1>2, <2>1, <2>5 DEF Live
  <1>11. ASSUME NEW q \in Requests, touchControlPlaneSession(q)
         PROVE  Undisturbed(s)'
    <2>1. MoveTo(q, "resolved", held[q]) /\ UNCHANGED <<eligible, chosen, doubtful>>
      BY <1>11 DEF touchControlPlaneSession, memory
    <2>2. session'[s].state = session[s].state /\ session'[s].identity = session[s].identity
      BY <1>11, RowTyped, HeldTyped DEF touchControlPlaneSession, SessionsTypeOK, Session
    <2> QED
      BY <1>2, <2>1, <2>2 DEF Live
  <1>12. ASSUME NEW q \in Requests,
                respond(q) \/ postLogout(q) \/ chooseIdentity(q) \/ failRequest(q)
         PROVE  Undisturbed(s)'
    <2>1. \E at \in {"idle", "logout", "set"} : \E h : MoveTo(q, at, h)
      BY <1>12 DEF respond, postLogout, chooseIdentity, failRequest, Done
    <2>2. UNCHANGED <<session, eligible, chosen, doubtful>>
      BY <1>12 DEF respond, postLogout, chooseIdentity, failRequest, memory
    <2> QED
      BY <1>2, <2>1, <2>2 DEF Live
  <1>13. ASSUME NEW q \in Requests, setIdentity(q)
         PROVE  Undisturbed(s)'
    <2>1. Done(q) /\ eligible' = eligible /\ held[q].id \in SessionIds
      BY <1>13, HeldTyped DEF setIdentity
    <2>2. CASE UNCHANGED <<session, chosen, doubtful>>
      BY <1>2, <2>1, <2>2 DEF Live, Done
    <2>3. CASE /\ session' = [session EXCEPT ![held[q].id].identity = held[q].identity]
               /\ Choose(held[q].id, held[q].identity)
      <3>1. CASE s = held[q].id
        <4>1. session[s] \in Session
          BY RowTyped
        <4>2. session'[s].identity = held[q].identity
          BY <2>3, <3>1, <4>1 DEF SessionsTypeOK, Session
        <4> QED
          BY <2>1, <2>3, <3>1, <4>2, ChoiceUndisturbed
      <3>2. CASE s # held[q].id
        <4>1. session'[s] = session[s] /\ chosen'[s] = chosen[s] /\ s \notin doubtful
          BY <2>1, <2>3, <3>2 DEF Choose, SessionsTypeOK
        <4>2. Undisturbed(s)
          BY <1>1, <4>1 DEF Live
        <4>3. \A r \in Requests : ~Replacing(r, s)'
          BY <2>1, <4>2, MoveUndisturbed DEF Done, Undisturbed
        <4> QED
          BY <2>1, <4>1, <4>2, <4>3 DEF Undisturbed
      <3> QED
        BY <3>1, <3>2
    <2> QED
      BY <1>13, <2>2, <2>3 DEF setIdentity
  <1>14. ASSUME NEW m \in Memberships, patchMember(m) \/ removeMember(m)
         PROVE  Undisturbed(s)'
    <2>1. Unsettle(m) /\ UNCHANGED <<step, held, chosen>>
      BY <1>14 DEF patchMember, removeMember
    <2>2. /\ s \notin doubtful /\ chosen[s] # m
          /\ \A r \in Requests : held[r].id = s /\ step[r] = "list" => held[r].row.identity # m
      BY <2>1 DEF Unsettle
    <2>3. session'[s] = session[s] \/ session[s].identity = m
      BY <1>14 DEF patchMember, removeMember
    <2>4. session'[s].state = session[s].state
      <3>1. session[s] \in Session
        BY RowTyped
      <3> QED
        BY <1>14, <3>1 DEF patchMember, removeMember, Session
    <2>5. Undisturbed(s)
      BY <1>1, <2>2, <2>4 DEF Live
    <2>6. session'[s] = session[s]
      BY <2>2, <2>3, <2>5 DEF Undisturbed
    <2>7. \A n \in eligible : n # m => n \in eligible'
      BY <1>14 DEF patchMember, removeMember
    <2>8. \A r \in Requests : ~Replacing(r, s)'
      BY <2>1, <2>2, <2>5, <2>7 DEF Undisturbed, Replacing
    <2> QED
      BY <2>1, <2>2, <2>5, <2>6, <2>7, <2>8 DEF Undisturbed
  <1>15. CASE SessionsTick \/ UNCHANGED sessionVars
    <2>1. UNCHANGED <<session, eligible, step, held, chosen, doubtful>>
      BY <1>15 DEF SessionsTick, sessionVars, memory
    <2> QED
      BY <1>1, <2>1 DEF Live, Undisturbed, Replacing
  <1> HIDE DEF Calm
  <1> QED
    BY <1>3, <1>4, <1>5, <1>7, <1>8, <1>9, <1>10, <1>11, <1>12, <1>13, <1>14, <1>15
    DEF SessionsNext, resolveRequestAuth

\* The identity chosen stays, whatever the requests of the session write back
\* and whatever memberships are edited between their statements, unless its own
\* membership was, or a request that read the row before the choice had found
\* what it read to be inactive.
THEOREM SwitchKeptHolds == SessionsSpec => []SwitchKept
  <1>1. SessionsInit => SwitchInv
    BY BlankTyped DEF SessionsInit, SwitchInv, Live
  <1>2. SwitchInv => SwitchKept
    BY DEF SwitchInv, SwitchKept, Undisturbed
  <1> QED
    BY <1>1, <1>2, SwitchStep, SessionsTypeCorrect, PTL DEF SessionsSpec

=============================================================================
