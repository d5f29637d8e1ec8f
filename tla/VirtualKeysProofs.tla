-------------------------- MODULE VirtualKeysProofs --------------------------
(***************************************************************************)
(* Theorems about VirtualKeys, for any number of handlers, members, keys    *)
(* and any life of a key.                                                   *)
(***************************************************************************)
EXTENDS VirtualKeys, TLAPS

People == Members \cup {Nobody}
Kinds  == {"admin", "self_serve"}
Dates  == 0 .. Never

-----------------------------------------------------------------------------
(* What a step does to the keys *)

\* What a call is to act on was there when it was read.
CallsOnKeys ==
    \A h \in Handlers : call[h].op \in {"rotate", "revoke"} => call[h].key \in 1 .. issued

Still == UNCHANGED <<member, now>>

Issues ==
    \E mode \in Kinds, who \in People, t \in Dates :
       /\ Insert(New(mode, who, t)) /\ Still
       /\ mode = "admin" => who = Nobody
AdminRotates ==
    \E k \in 1 .. issued :
       Active(k) /\ Replace(k, "admin", Nobody, vkey[k].expires) /\ Still
MemberRotates ==
    \E h \in Handlers, t \in Dates :
       /\ OnBehalfOf(h, "rotate") /\ OwnActive(h) /\ call[h].key \in 1 .. issued
       /\ Replace(call[h].key, "self_serve", vkey[call[h].key].issuer, t) /\ Still
Revokes == \E k \in 1 .. issued : Revoke(k) /\ issued' = issued /\ Still
KeysAlone == UNCHANGED <<vkey, issued>>

LEMMA CallTyped ==
    ASSUME KeysTypeOK, NEW h \in Handlers
    PROVE  /\ call[h].op \in Ops /\ call[h].caller \in People
           /\ call[h].key \in Ids \cup {0} /\ call[h].time \in Dates
  <1>1. call[h] \in Call
    BY DEF KeysTypeOK
  <1> QED
    BY <1>1 DEF Call, People, Dates

LEMMA KeyTyped ==
    ASSUME KeysTypeOK, NEW k \in Ids
    PROVE  /\ vkey[k] \in VirtualKey
           /\ vkey[k].mode \in Kinds /\ vkey[k].issuer \in People
           /\ vkey[k].expires \in Dates /\ vkey[k].from \in Ids \cup {0}
           /\ vkey[k].root \in Ids \cup {0} /\ vkey[k].grantee \in People
  <1>1. vkey[k] \in VirtualKey
    BY DEF KeysTypeOK
  <1> QED
    BY <1>1 DEF VirtualKey, Kinds, People, Dates

LEMMA IssuedAreIds ==
    ASSUME KeysTypeOK
    PROVE  issued \in Nat /\ 1 .. issued \subseteq Ids /\ Never \in Nat /\ now \in Dates
  BY KeysConstantsOK DEF KeysTypeOK, Ids, Never, Dates

LEMMA ExpiryTyped ==
    ASSUME KeysTypeOK, NEW h \in Handlers, NEW t \in ExpiryDates(h)
    PROVE  t \in Dates
  <1>1. PICK u \in call[h].time .. now : t = u + Ttl
    BY DEF ExpiryDates
  <1>2. call[h].time \in Nat /\ now \in 0 .. MaxTime
    BY CallTyped, IssuedAreIds DEF KeysTypeOK, Dates
  <1> QED
    BY <1>1, <1>2, KeysConstantsOK DEF Dates, Never

\* A step issues a key, rotates one as an administrator or as its member,
\* revokes one, deletes a member, or leaves the keys alone.
LEMMA KeySteps ==
    ASSUME KeysTypeOK, CallsOnKeys, [KeysNext]_keyVars
    PROVE  \/ Issues \/ AdminRotates \/ MemberRotates \/ Revokes
           \/ \E m \in Members : deleteMember(m)
           \/ KeysAlone
  <1>1. ASSUME NEW h \in Handlers, createVirtualKey(h)
        PROVE  Issues
    <2>1. Insert(New("admin", Nobody, call[h].time)) /\ Still
      BY <1>1 DEF createVirtualKey, Reply, Still
    <2> QED
      BY <2>1, CallTyped DEF Issues, Kinds, People
  <1>2. ASSUME NEW h \in Handlers, issueSelfServeVirtualKey(h)
        PROVE  Issues \/ KeysAlone
    <2>1. CASE member[call[h].caller] = "deleted"
      BY <1>2, <2>1 DEF issueSelfServeVirtualKey, KeysAlone
    <2>2. CASE member[call[h].caller] # "deleted"
      <3>1. PICK t \in ExpiryDates(h) : Insert(New("self_serve", call[h].caller, t))
        BY <1>2, <2>2 DEF issueSelfServeVirtualKey
      <3>2. Still
        BY <1>2 DEF issueSelfServeVirtualKey, Reply, Still
      <3>3. t \in Dates /\ call[h].caller \in People
        BY ExpiryTyped, CallTyped
      <3> QED
        BY <3>1, <3>2, <3>3 DEF Issues, Kinds
    <2> QED
      BY <2>1, <2>2
  <1>3. ASSUME NEW h \in Handlers, rotateVirtualKey(h)
        PROVE  AdminRotates \/ KeysAlone
    <2>1. call[h].key \in 1 .. issued
      BY <1>3 DEF rotateVirtualKey, ByAdmin, CallsOnKeys
    <2>2. Still
      BY <1>3 DEF rotateVirtualKey, Reply, Still
    <2> QED
      BY <1>3, <2>1, <2>2 DEF rotateVirtualKey, AdminRotates, KeysAlone
  <1>4. ASSUME NEW h \in Handlers, rotateSelfServeVirtualKey(h)
        PROVE  MemberRotates \/ KeysAlone
    <2>1. OnBehalfOf(h, "rotate") /\ call[h].key \in 1 .. issued
      BY <1>4 DEF rotateSelfServeVirtualKey, OnBehalfOf, CallsOnKeys
    <2>2. Still
      BY <1>4 DEF rotateSelfServeVirtualKey, Reply, Still
    <2>3. CASE OwnActive(h)
      <3>1. PICK t \in ExpiryDates(h) :
               Replace(call[h].key, "self_serve", vkey[call[h].key].issuer, t)
        BY <1>4, <2>3 DEF rotateSelfServeVirtualKey
      <3>2. t \in Dates
        BY ExpiryTyped
      <3> QED
        BY <2>1, <2>2, <2>3, <3>1, <3>2 DEF MemberRotates
    <2>4. CASE ~OwnActive(h)
      BY <1>4, <2>4 DEF rotateSelfServeVirtualKey, KeysAlone
    <2> QED
      BY <2>3, <2>4
  <1>5. ASSUME NEW h \in Handlers, revokeVirtualKey(h) \/ revokeSelfServeVirtualKey(h)
        PROVE  Revokes \/ KeysAlone
    <2>1. call[h].key \in 1 .. issued
      BY <1>5 DEF revokeVirtualKey, revokeSelfServeVirtualKey, ByAdmin, OnBehalfOf, CallsOnKeys
    <2>2. Still /\ issued' = issued
      BY <1>5 DEF revokeVirtualKey, revokeSelfServeVirtualKey, Reply, Still
    <2>3. Revoke(call[h].key) \/ UNCHANGED vkey
      BY <1>5 DEF revokeVirtualKey, revokeSelfServeVirtualKey
    <2> QED
      BY <2>1, <2>2, <2>3 DEF Revokes, KeysAlone
  <1>6. ASSUME NEW h \in Handlers,
               \/ postVirtualKey(h) \/ failCall(h)
               \/ \E k \in 1 .. issued : postRevoke(h, k) \/ postRotate(h, k)
               \/ \E m \in Members : requireSelfServeMember(h, m)
        PROVE  KeysAlone
    BY <1>6 DEF postVirtualKey, failCall, postRevoke, postRotate, requireSelfServeMember,
       Start, KeysAlone
  <1>7. ASSUME (\E m \in Members : updateMember(m)) \/ KeysTick \/ UNCHANGED keyVars
        PROVE  KeysAlone
    BY <1>7 DEF updateMember, KeysTick, keyVars, KeysAlone
  <1> QED
    BY <1>1, <1>2, <1>3, <1>4, <1>5, <1>6, <1>7 DEF KeysNext

\* An insertion adds the next row.
LEMMA InsertRows ==
    ASSUME KeysTypeOK, NEW new \in VirtualKey, Insert(new)
    PROVE  /\ vkey' \in [Ids -> VirtualKey]
           /\ issued + 1 \in Ids /\ issued' = issued + 1
           /\ vkey'[issued + 1] = new
           /\ \A i \in Ids : i # issued + 1 => vkey'[i] = vkey[i]
  BY KeysConstantsOK DEF KeysTypeOK, Insert, Ids

LEMMA NewTyped ==
    ASSUME KeysTypeOK, NEW mode \in Kinds, NEW who \in People, NEW t \in Dates,
           issued < MaxKeys
    PROVE  /\ New(mode, who, t) \in VirtualKey
           /\ New(mode, who, t).status = "active" /\ New(mode, who, t).mode = mode
           /\ New(mode, who, t).issuer = who /\ New(mode, who, t).from = 0
           /\ New(mode, who, t).root = issued + 1 /\ New(mode, who, t).grantee = who
           /\ New(mode, who, t).ended = "no"
  <1>1. issued + 1 \in Ids
    BY KeysConstantsOK DEF KeysTypeOK, Ids
  <1> QED
    BY <1>1 DEF New, NoKey, VirtualKey, Kinds, People, Dates

Successor(k, mode, who, t) ==
    [status |-> "active", mode |-> mode, issuer |-> who, expires |-> t, from |-> k,
     root |-> vkey[k].root, grantee |-> vkey[k].grantee, ended |-> "no"]
Superseded(k) == [vkey[k] EXCEPT !.status = "revoked", !.ended = "rotated"]

\* A rotation adds the next row, in the line of the key, and ends the key.
LEMMA ReplaceRows ==
    ASSUME KeysTypeOK, NEW k \in 1 .. issued, NEW mode \in Kinds, NEW who \in People,
           NEW t \in Dates, Replace(k, mode, who, t)
    PROVE  /\ vkey' \in [Ids -> VirtualKey]
           /\ issued + 1 \in Ids /\ issued' = issued + 1
           /\ vkey'[issued + 1] = Successor(k, mode, who, t)
           /\ vkey'[k] = Superseded(k)
           /\ \A i \in Ids : i \notin {k, issued + 1} => vkey'[i] = vkey[i]
  <1>1. k \in Ids /\ issued + 1 \in Ids /\ k # issued + 1 /\ issued' = issued + 1
    BY IssuedAreIds, KeysConstantsOK DEF KeysTypeOK, Replace, Ids
  <1>2. Successor(k, mode, who, t) \in VirtualKey
    BY <1>1, KeyTyped DEF Successor, VirtualKey, Kinds, People, Dates
  <1>3. Superseded(k) \in VirtualKey
    BY <1>1, KeyTyped DEF Superseded, VirtualKey
  <1>4. vkey' = [vkey EXCEPT ![k] = Superseded(k), ![issued + 1] = Successor(k, mode, who, t)]
    BY <1>1 DEF Replace, KeysTypeOK, Superseded, Successor
  <1> QED
    BY <1>1, <1>2, <1>3, <1>4 DEF KeysTypeOK

LEMMA RevokeRows ==
    ASSUME KeysTypeOK, NEW k \in 1 .. issued, Revoke(k)
    PROVE  /\ vkey' \in [Ids -> VirtualKey]
           /\ vkey'[k] = [vkey[k] EXCEPT !.status = "revoked",
                                         !.ended = IF Active(k) THEN "revoked" ELSE @]
           /\ \A i \in Ids : i # k => vkey'[i] = vkey[i]
  <1> DEFINE old == [vkey[k] EXCEPT !.status = "revoked",
                                    !.ended = IF Active(k) THEN "revoked" ELSE @]
  <1>1. k \in Ids
    BY IssuedAreIds
  <1>2. old \in VirtualKey
    BY <1>1, KeyTyped DEF VirtualKey
  <1>3. vkey' = [vkey EXCEPT ![k] = old]
    BY <1>1 DEF Revoke, KeysTypeOK
  <1> HIDE DEF old
  <1>4. vkey' \in [Ids -> VirtualKey] /\ vkey'[k] = old
        /\ \A i \in Ids : i # k => vkey'[i] = vkey[i]
    BY <1>1, <1>2, <1>3 DEF KeysTypeOK
  <1> QED
    BY <1>4 DEF old

LEMMA DeleteRows ==
    ASSUME KeysTypeOK, NEW m \in Members, deleteMember(m)
    PROVE  /\ vkey' \in [Ids -> VirtualKey]
           /\ \A i \in Ids : vkey'[i] = IF vkey[i].issuer = m
                                        THEN [vkey[i] EXCEPT !.issuer = Nobody] ELSE vkey[i]
  <1>1. \A i \in Ids : [vkey[i] EXCEPT !.issuer = Nobody] \in VirtualKey
    BY KeyTyped DEF VirtualKey
  <1> QED
    BY <1>1, KeyTyped DEF deleteMember

-----------------------------------------------------------------------------
(* Types *)

KeysInv == KeysTypeOK /\ CallsOnKeys

LEMMA KeysTypeInit == KeysInit => KeysInv
  BY KeysConstantsOK DEF KeysInit, KeysInv, KeysTypeOK, CallsOnKeys, NoKey, NoCall,
     VirtualKey, Call, Ops, Never

LEMMA RowsTyped ==
    ASSUME KeysInv, [KeysNext]_keyVars
    PROVE  vkey' \in [Ids -> VirtualKey] /\ issued' \in 0 .. MaxKeys /\ issued <= issued'
  <1> USE DEF KeysInv
  <1>1. issued \in 0 .. MaxKeys /\ MaxKeys \in Nat
    BY KeysConstantsOK DEF KeysTypeOK
  <1>2. CASE Issues
    <2>1. PICK mode \in Kinds, who \in People, t \in Dates : Insert(New(mode, who, t))
      BY <1>2 DEF Issues
    <2>2. New(mode, who, t) \in VirtualKey /\ issued < MaxKeys
      BY <2>1, NewTyped DEF Insert
    <2> QED
      BY <1>1, <2>1, <2>2, InsertRows
  <1>3. CASE AdminRotates
    <2>1. PICK k \in 1 .. issued : Replace(k, "admin", Nobody, vkey[k].expires)
      BY <1>3 DEF AdminRotates
    <2>2. vkey[k].expires \in Dates /\ Nobody \in People /\ "admin" \in Kinds
      BY KeyTyped, IssuedAreIds DEF People, Kinds
    <2>3. vkey' \in [Ids -> VirtualKey]
      BY <2>1, <2>2, ReplaceRows
    <2> QED
      BY <1>1, <2>1, <2>3 DEF Replace
  <1>4. CASE MemberRotates
    <2>1. PICK h \in Handlers, t \in Dates :
             /\ call[h].key \in 1 .. issued
             /\ Replace(call[h].key, "self_serve", vkey[call[h].key].issuer, t)
      BY <1>4 DEF MemberRotates
    <2>2. vkey[call[h].key].issuer \in People /\ "self_serve" \in Kinds
      BY <2>1, KeyTyped, IssuedAreIds DEF Kinds
    <2>3. vkey' \in [Ids -> VirtualKey]
      BY <2>1, <2>2, ReplaceRows
    <2> QED
      BY <1>1, <2>1, <2>3 DEF Replace
  <1>5. CASE Revokes
    <2>1. PICK k \in 1 .. issued : Revoke(k) /\ issued' = issued
      BY <1>5 DEF Revokes
    <2>2. vkey' \in [Ids -> VirtualKey]
      BY <2>1, RevokeRows
    <2> QED
      BY <1>1, <2>1, <2>2
  <1>6. ASSUME NEW m \in Members, deleteMember(m)
        PROVE  vkey' \in [Ids -> VirtualKey] /\ issued' = issued
    BY <1>6, DeleteRows DEF deleteMember
  <1>7. CASE KeysAlone
    BY <1>1, <1>7 DEF KeysAlone, KeysTypeOK
  <1> QED
    BY <1>1, <1>2, <1>3, <1>4, <1>5, <1>6, <1>7, KeySteps

\* A call begins with a key that is there, and a handler's others remain.
LEMMA CallsTyped ==
    ASSUME KeysInv, [KeysNext]_keyVars
    PROVE  call' \in [Handlers -> Call] /\ CallsOnKeys'
  <1> USE DEF KeysInv
  <1> DEFINE Fits(c) == c \in Call /\ (c.op \in {"rotate", "revoke"} => c.key \in 1 .. issued)
  <1>1. issued \in Nat /\ issued' \in Nat /\ issued <= issued' /\ 1 .. issued \subseteq Ids
    BY RowsTyped, IssuedAreIds, KeysConstantsOK
  <1>2. ASSUME NEW h \in Handlers, NEW c, Fits(c), call' = [call EXCEPT ![h] = c]
        PROVE  call' \in [Handlers -> Call] /\ CallsOnKeys'
    <2>1. call' \in [Handlers -> Call]
      BY <1>2 DEF KeysTypeOK
    <2>2. ASSUME NEW g \in Handlers, call'[g].op \in {"rotate", "revoke"}
          PROVE  call'[g].key \in 1 .. issued
      <3>1. call'[g] = c \/ call'[g] = call[g]
        BY <1>2 DEF KeysTypeOK
      <3> QED
        BY <1>2, <2>2, <3>1 DEF CallsOnKeys
    <2> QED
      BY <1>1, <2>1, <2>2 DEF CallsOnKeys
  <1>3. Fits(NoCall)
    BY KeysConstantsOK DEF NoCall, Call, Ops, Never
  <1>4. now \in Dates /\ now + 1 \in Dates /\ Never \in Dates
    BY KeysConstantsOK DEF KeysTypeOK, Dates, Never
  <1>5. ASSUME NEW h \in Handlers, postVirtualKey(h)
        PROVE  call' \in [Handlers -> Call] /\ CallsOnKeys'
    <2>1. PICK t \in {now + 1, Never} :
             call' = [call EXCEPT ![h] = [NoCall EXCEPT !.op = "create", !.time = t]]
      BY <1>5 DEF postVirtualKey, Start
    <2>2. Fits([NoCall EXCEPT !.op = "create", !.time = t])
      BY <1>4 DEF NoCall, Call, Ops, Dates
    <2> HIDE DEF Fits
    <2> QED
      BY <1>2, <2>1, <2>2
  <1>6. ASSUME NEW h \in Handlers, NEW k \in 1 .. issued, postRevoke(h, k) \/ postRotate(h, k)
        PROVE  call' \in [Handlers -> Call] /\ CallsOnKeys'
    <2>1. PICK op \in {"rotate", "revoke"} :
             call' = [call EXCEPT ![h] = [NoCall EXCEPT !.op = op, !.key = k]]
      BY <1>6 DEF postRevoke, postRotate, Start
    <2>2. Fits([NoCall EXCEPT !.op = op, !.key = k])
      BY <1>1, <1>3 DEF NoCall, Call, Ops
    <2> HIDE DEF Fits
    <2> QED
      BY <1>2, <2>1, <2>2
  <1>7. ASSUME NEW h \in Handlers, NEW m \in Members, requireSelfServeMember(h, m)
        PROVE  call' \in [Handlers -> Call] /\ CallsOnKeys'
    <2>1. PICK c : call' = [call EXCEPT ![h] = c] /\ Fits(c)
      <3>1. CASE Start(h, [NoCall EXCEPT !.op = "issue", !.caller = m, !.time = now])
        <4>1. Fits([NoCall EXCEPT !.op = "issue", !.caller = m, !.time = now])
          BY <1>4 DEF NoCall, Call, Ops, Dates
        <4> HIDE DEF Fits
        <4> QED
          BY <3>1, <4>1 DEF Start
      <3>2. ASSUME NEW op \in {"rotate", "revoke"}, NEW k \in 1 .. issued,
                   Start(h, [op |-> op, caller |-> m, key |-> k, time |-> now])
            PROVE  \E c : call' = [call EXCEPT ![h] = c] /\ Fits(c)
        <4>1. Fits([op |-> op, caller |-> m, key |-> k, time |-> now])
          BY <1>1, <1>4 DEF Call, Ops, Dates
        <4> HIDE DEF Fits
        <4> QED
          BY <3>2, <4>1 DEF Start
      <3> QED
        BY <1>7, <3>1, <3>2 DEF requireSelfServeMember
    <2> HIDE DEF Fits
    <2> QED
      BY <1>2, <2>1
  <1>8. ASSUME NEW h \in Handlers, Reply(h) \/ failCall(h)
        PROVE  call' \in [Handlers -> Call] /\ CallsOnKeys'
    BY <1>2, <1>3, <1>8 DEF Reply, failCall
  <1>9. ASSUME call' = call
        PROVE  call' \in [Handlers -> Call] /\ CallsOnKeys'
    BY <1>1, <1>9 DEF KeysTypeOK, CallsOnKeys
  <1> HIDE DEF KeysInv
  <1> QED
    BY <1>5, <1>6, <1>7, <1>8, <1>9
    DEF KeysNext, createVirtualKey, revokeVirtualKey, rotateVirtualKey,
        issueSelfServeVirtualKey, rotateSelfServeVirtualKey, revokeSelfServeVirtualKey,
        updateMember, deleteMember, KeysTick, keyVars

LEMMA KeysTypeNext == KeysInv /\ [KeysNext]_keyVars => KeysInv'
  <1> SUFFICES ASSUME KeysInv, [KeysNext]_keyVars
               PROVE  KeysInv'
    OBVIOUS
  <1>1. /\ member \in [Members -> {"active", "inactive", "deleted"}]
        /\ now \in 0 .. MaxTime /\ MaxTime \in Nat
    BY KeysConstantsOK DEF KeysInv, KeysTypeOK
  <1>2. ASSUME NEW m \in Members, updateMember(m) \/ deleteMember(m)
        PROVE  /\ member' \in [Members -> {"active", "inactive", "deleted"}]
               /\ now' = now
    BY <1>1, <1>2 DEF updateMember, deleteMember
  <1>3. ASSUME KeysTick
        PROVE  member' = member /\ now' \in 0 .. MaxTime
    BY <1>1, <1>3 DEF KeysTick
  <1>4. ASSUME NEW h \in Handlers,
               \/ postVirtualKey(h) \/ createVirtualKey(h)
               \/ \E k \in 1 .. issued : postRevoke(h, k) \/ postRotate(h, k)
               \/ revokeVirtualKey(h) \/ rotateVirtualKey(h)
               \/ \E m \in Members : requireSelfServeMember(h, m)
               \/ issueSelfServeVirtualKey(h)
               \/ rotateSelfServeVirtualKey(h) \/ revokeSelfServeVirtualKey(h)
               \/ failCall(h)
        PROVE  Still
    BY <1>4 DEF postVirtualKey, createVirtualKey, postRevoke, postRotate, revokeVirtualKey,
       rotateVirtualKey, requireSelfServeMember, issueSelfServeVirtualKey,
       rotateSelfServeVirtualKey, revokeSelfServeVirtualKey, failCall, Start, Reply, Still
  <1>5. ASSUME UNCHANGED keyVars
        PROVE  Still
    BY <1>5 DEF keyVars, Still
  <1>6. /\ member' \in [Members -> {"active", "inactive", "deleted"}]
        /\ now' \in 0 .. MaxTime
    BY <1>1, <1>2, <1>3, <1>4, <1>5 DEF KeysNext, Still
  <1> QED
    BY <1>6, RowsTyped, CallsTyped DEF KeysInv, KeysTypeOK

\* Rows have their types, and a call under way is of a key that was issued.
THEOREM KeysInvariant == KeysSpec => []KeysInv
  BY KeysTypeInit, KeysTypeNext, PTL DEF KeysSpec

\* Types are kept, whatever interleaves.
THEOREM KeysTypeCorrect == KeysSpec => []KeysTypeOK
  <1>1. KeysInv => KeysTypeOK
    BY DEF KeysInv
  <1> QED
    BY <1>1, KeysInvariant, PTL

-----------------------------------------------------------------------------
(* Lines of keys *)

\* The rows beyond issued are empty; those issued have a root and a
\* predecessor, if any, among them; a key is active until something ends it.
KeyRows ==
    /\ \A k \in Ids : k > issued => vkey[k] = NoKey
    /\ \A k \in 1 .. issued :
          /\ vkey[k].from <= issued /\ vkey[k].root \in 1 .. issued
          /\ Active(k) <=> vkey[k].ended = "no"

LineInv == KeyRows /\ OneActivePerLine /\ RotatedOnce

\* What the invariant says of a row, issued or not.
LEMMA RowFacts ==
    ASSUME KeysTypeOK, KeyRows, NEW k \in Ids
    PROVE  /\ issued \in Nat /\ k \in Nat /\ vkey[k].from \in Nat /\ vkey[k].root \in Nat
           /\ vkey[k].from <= issued /\ vkey[k].root <= issued
           /\ Active(k) => k \in 1 .. issued /\ vkey[k].ended = "no" /\ vkey[k].root # 0
           /\ k > issued => vkey[k].from = 0 /\ vkey[k].root = 0 /\ ~Active(k)
  <1>1. issued \in Nat /\ k \in Nat /\ vkey[k].from \in Nat /\ vkey[k].root \in Nat
    BY KeyTyped, IssuedAreIds DEF Ids
  <1>2. CASE k > issued
    <2>1. vkey[k] = NoKey
      BY <1>2 DEF KeyRows
    <2> QED
      BY <1>1, <1>2, <2>1 DEF NoKey, Active
  <1>3. CASE k \in 1 .. issued
    BY <1>1, <1>3 DEF KeyRows
  <1> QED
    BY <1>1, <1>2, <1>3 DEF Ids

\* The new row starts a line of its own, or takes the place of an active key.
LEMMA InsertLines ==
    ASSUME KeysTypeOK, LineInv, Issues
    PROVE  LineInv'
  <1>1. PICK mode \in Kinds, who \in People, t \in Dates : Insert(New(mode, who, t))
    BY DEF Issues
  <1> DEFINE new == New(mode, who, t)
             n   == issued + 1
  <1>2. /\ new \in VirtualKey /\ new.status = "active" /\ new.from = 0
        /\ new.root = n /\ new.ended = "no"
    BY <1>1, NewTyped DEF Insert
  <1>3. /\ n \in Ids /\ issued' = n /\ vkey'[n] = new
        /\ \A i \in Ids : i # n => vkey'[i] = vkey[i]
    <2> HIDE DEF new
    <2> QED
      BY <1>1, <1>2, InsertRows DEF new
  <1>4. issued \in Nat /\ \A i \in Ids : i \in Nat
    BY IssuedAreIds DEF Ids
  <1> HIDE DEF new
  <1>5. KeyRows'
    <2>1. \A i \in Ids : i > n => vkey'[i] = NoKey
      BY <1>3, <1>4 DEF LineInv, KeyRows
    <2>2. ASSUME NEW i \in 1 .. n
          PROVE  /\ vkey'[i].from <= n /\ vkey'[i].root \in 1 .. n
                 /\ vkey'[i].status = "active" <=> vkey'[i].ended = "no"
      <3>1. CASE i = n
        BY <1>2, <1>3, <1>4, <3>1
      <3>2. CASE i # n
        <4>1. i \in 1 .. issued /\ i \in Ids
          BY <1>3, <1>4, <3>2, IssuedAreIds
        <4>2. vkey'[i] = vkey[i]
          BY <1>3, <3>2, <4>1
        <4>3. vkey[i].from \in Nat /\ vkey[i].root \in Nat
          BY <4>1, RowFacts DEF LineInv
        <4> QED
          BY <1>4, <4>1, <4>2, <4>3 DEF LineInv, KeyRows, Active
      <3> QED
        BY <3>1, <3>2
    <2> QED
      BY <1>3, <2>1, <2>2 DEF KeyRows, Active
  <1>6. OneActivePerLine'
    <2>1. SUFFICES ASSUME NEW i \in Ids, NEW j \in Ids, Active(i)', Active(j)',
                          vkey'[i].root = vkey'[j].root
                   PROVE  i = j
      BY DEF OneActivePerLine
    <2>2. \A k \in Ids : k # n => vkey'[k].root <= issued /\ vkey'[k].root \in Nat
      BY <1>3, RowFacts DEF LineInv
    <2>3. CASE i # n /\ j # n
      BY <1>3, <2>1, <2>3 DEF LineInv, OneActivePerLine, Active
    <2>4. i = n <=> j = n
      BY <1>2, <1>3, <1>4, <2>1, <2>2
    <2> QED
      BY <2>3, <2>4
  <1>7. RotatedOnce'
    <2>1. \A i \in Ids : vkey'[i].from = IF i = n THEN 0 ELSE vkey[i].from
      BY <1>2, <1>3
    <2>2. \A i \in Ids : vkey'[i].from # n
      BY <1>4, <2>1, RowFacts DEF LineInv
    <2>3. vkey'[n].ended = "no"
      BY <1>2, <1>3
    <2>4. \A k \in 1 .. issued : k \in Ids /\ k # n /\ vkey'[k].ended = vkey[k].ended
      BY <1>3, <1>4, IssuedAreIds
    <2>5. \A i \in Ids, k \in 1 .. issued : vkey'[i].from = k <=> vkey[i].from = k
      <3>1. vkey[n].from = 0
        BY <1>3, <1>4, RowFacts DEF LineInv
      <3> QED
        BY <1>4, <2>1, <3>1
    <2>6. \A k \in 1 .. n : k = n \/ k \in 1 .. issued
      BY <1>4
    <2> QED
      BY <1>3, <2>2, <2>3, <2>4, <2>5, <2>6 DEF LineInv, RotatedOnce
  <1> QED
    BY <1>5, <1>6, <1>7 DEF LineInv

LEMMA ReplaceLines ==
    ASSUME KeysTypeOK, LineInv, NEW k \in 1 .. issued, Active(k),
           NEW mode \in Kinds, NEW who \in People, NEW t \in Dates,
           Replace(k, mode, who, t)
    PROVE  LineInv'
  <1> DEFINE n == issued + 1
  <1>1. /\ n \in Ids /\ issued' = n
        /\ vkey'[n] = Successor(k, mode, who, t) /\ vkey'[k] = Superseded(k)
        /\ \A i \in Ids : i \notin {k, n} => vkey'[i] = vkey[i]
    BY ReplaceRows
  <1>2. issued \in Nat /\ (\A i \in Ids : i \in Nat) /\ k \in Ids /\ k # n /\ k \in Nat
    BY IssuedAreIds DEF Ids
  <1>3. vkey[k] \in VirtualKey
    BY <1>2, KeyTyped
  <1>4. /\ vkey'[n].status = "active" /\ vkey'[n].from = k /\ vkey'[n].root = vkey[k].root
        /\ vkey'[n].ended = "no"
        /\ vkey'[k].status = "revoked" /\ vkey'[k].from = vkey[k].from
        /\ vkey'[k].root = vkey[k].root /\ vkey'[k].ended = "rotated"
    BY <1>1, <1>3 DEF VirtualKey, Successor, Superseded
  <1>5. vkey[k].root \in 1 .. issued /\ vkey[k].from \in Nat /\ vkey[k].from <= issued
        /\ vkey[k].ended = "no"
    BY <1>2, RowFacts DEF LineInv, KeyRows
  <1>6. KeyRows'
    <2>1. \A i \in Ids : i > n => vkey'[i] = NoKey
      <3>1. ASSUME NEW i \in Ids, i > n
            PROVE  vkey'[i] = NoKey
        <4>1. i \in Nat /\ i > issued /\ i \notin {k, n}
          BY <1>2, <3>1, IssuedAreIds
        <4>2. vkey[i] = NoKey
          BY <4>1 DEF LineInv, KeyRows
        <4> QED
          BY <1>1, <4>1, <4>2
      <3> QED
        BY <3>1
    <2>2. ASSUME NEW i \in 1 .. n
          PROVE  /\ vkey'[i].from <= n /\ vkey'[i].root \in 1 .. n
                 /\ vkey'[i].status = "active" <=> vkey'[i].ended = "no"
      <3>1. CASE i = n \/ i = k
        BY <1>2, <1>4, <1>5, <3>1
      <3>2. CASE i \notin {n, k}
        <4>1. i \in 1 .. issued /\ i \in Ids
          BY <1>2, <3>2, IssuedAreIds
        <4>3. vkey'[i] = vkey[i]
          BY <1>1, <3>2, <4>1
        <4>2. vkey[i].from \in Nat /\ vkey[i].root \in Nat
          BY <4>1, RowFacts DEF LineInv
        <4> QED
          BY <1>2, <4>1, <4>2, <4>3 DEF LineInv, KeyRows, Active
      <3> QED
        BY <3>1, <3>2
    <2> QED
      BY <1>1, <2>1, <2>2 DEF KeyRows, Active
  <1>7. OneActivePerLine'
    <2>1. SUFFICES ASSUME NEW i \in Ids, NEW j \in Ids, Active(i)', Active(j)',
                          vkey'[i].root = vkey'[j].root
                   PROVE  i = j
      BY DEF OneActivePerLine
    <2>2. \A x \in Ids : Active(x)' => x = n \/ (x # k /\ Active(x) /\ vkey'[x] = vkey[x])
      BY <1>1, <1>4 DEF Active
    <2>3. \A x \in Ids : x # k /\ Active(x) => vkey[x].root # vkey[k].root
      BY <1>2 DEF LineInv, OneActivePerLine
    <2>4. CASE i # n /\ j # n
      BY <2>1, <2>2, <2>4 DEF LineInv, OneActivePerLine
    <2> QED
      BY <1>4, <2>1, <2>2, <2>3, <2>4
  <1>8. RotatedOnce'
    <2>1. \A i \in Ids : vkey'[i].from = IF i = n THEN k ELSE vkey[i].from
      BY <1>1, <1>4
    <2>2. \A i \in Ids : vkey[i].from # k
      BY <1>5 DEF LineInv, RotatedOnce
    <2>3. \A i \in Ids : vkey'[i].from # n
      BY <1>2, <2>1, RowFacts DEF LineInv
    <2>4. vkey[n].from = 0
      BY <1>1, <1>2, RowFacts DEF LineInv
    <2>5. SUFFICES ASSUME NEW q \in 1 .. n
                   PROVE  /\ vkey'[q].ended = "rotated" <=> \E i \in Ids : vkey'[i].from = q
                          /\ \A i, j \in Ids : vkey'[i].from = q /\ vkey'[j].from = q => i = j
      BY <1>1 DEF RotatedOnce
    <2>6. CASE q = n
      BY <1>4, <2>3, <2>6
    <2>7. CASE q = k
      <3>1. \A i \in Ids : vkey'[i].from = k <=> i = n
        BY <2>1, <2>2
      <3> QED
        BY <1>1, <1>4, <2>7, <3>1
    <2>8. CASE q \notin {k, n}
      <3>1. q \in 1 .. issued /\ q \in Ids /\ q # 0
        BY <1>2, <2>8, IssuedAreIds
      <3>2. vkey'[q] = vkey[q]
        BY <1>1, <2>8, <3>1
      <3>3. \A i \in Ids : vkey'[i].from = q <=> vkey[i].from = q
        BY <2>1, <2>4, <2>8, <3>1
      <3>4. /\ vkey[q].ended = "rotated" <=> \E i \in Ids : vkey[i].from = q
            /\ \A i, j \in Ids : vkey[i].from = q /\ vkey[j].from = q => i = j
        BY <3>1 DEF LineInv, RotatedOnce
      <3> QED
        BY <3>2, <3>3, <3>4
    <2> QED
      BY <2>6, <2>7, <2>8
  <1> QED
    BY <1>6, <1>7, <1>8 DEF LineInv

\* Steps that keep the fields lines are made of, or only end a key by
\* revocation.
LEMMA EndingLines ==
    ASSUME KeysTypeOK, LineInv, issued' = issued,
           \A i \in Ids :
              /\ vkey'[i].from = vkey[i].from /\ vkey'[i].root = vkey[i].root
              /\ \/ (Active(i)' <=> Active(i)) /\ vkey'[i].ended = vkey[i].ended
                 \/ Active(i) /\ vkey'[i].status = "revoked" /\ vkey'[i].ended = "revoked"
              /\ i > issued => vkey'[i] = vkey[i]
    PROVE  LineInv'
  <1>1. \A i \in Ids : Active(i)' => Active(i)
    BY DEF Active
  <1>2. 1 .. issued \subseteq Ids
    BY IssuedAreIds
  <1>3. KeyRows'
    BY <1>2 DEF LineInv, KeyRows, Active
  <1>4. OneActivePerLine'
    BY <1>1 DEF LineInv, OneActivePerLine
  <1>5. \A k \in 1 .. issued : vkey'[k].ended = "rotated" <=> vkey[k].ended = "rotated"
    BY <1>2 DEF LineInv, KeyRows
  <1>6. RotatedOnce'
    BY <1>2, <1>5 DEF LineInv, RotatedOnce
  <1> QED
    BY <1>3, <1>4, <1>6 DEF LineInv

LEMMA LineStep ==
    ASSUME KeysInv, LineInv, [KeysNext]_keyVars
    PROVE  LineInv'
  <1> USE DEF KeysInv
  <1>1. CASE AdminRotates
    <2>1. PICK k \in 1 .. issued : Active(k) /\ Replace(k, "admin", Nobody, vkey[k].expires)
      BY <1>1 DEF AdminRotates
    <2>2. vkey[k].expires \in Dates /\ Nobody \in People /\ "admin" \in Kinds
      BY KeyTyped, IssuedAreIds DEF People, Kinds
    <2> QED
      BY <2>1, <2>2, ReplaceLines
  <1>2. CASE MemberRotates
    <2>1. PICK h \in Handlers, t \in Dates :
             /\ OwnActive(h) /\ call[h].key \in 1 .. issued
             /\ Replace(call[h].key, "self_serve", vkey[call[h].key].issuer, t)
      BY <1>2 DEF MemberRotates
    <2>2. vkey[call[h].key].issuer \in People /\ "self_serve" \in Kinds
      BY <2>1, KeyTyped, IssuedAreIds DEF Kinds
    <2>3. Active(call[h].key)
      BY <2>1 DEF OwnActive
    <2> QED
      BY <2>1, <2>2, <2>3, ReplaceLines
  <1>3. CASE Revokes
    <2>1. PICK k \in 1 .. issued : Revoke(k) /\ issued' = issued
      BY <1>3 DEF Revokes
    <2>2. k \in Ids /\ vkey[k] \in VirtualKey /\ issued \in Nat
      BY IssuedAreIds, KeyTyped
    <2>3. /\ vkey'[k] = [vkey[k] EXCEPT !.status = "revoked",
                                       !.ended = IF Active(k) THEN "revoked" ELSE @]
          /\ \A i \in Ids : i # k => vkey'[i] = vkey[i]
      BY <2>1, RevokeRows
    <2>4. /\ vkey'[k].from = vkey[k].from /\ vkey'[k].root = vkey[k].root
          /\ vkey'[k].status = "revoked"
          /\ vkey'[k].ended = IF Active(k) THEN "revoked" ELSE vkey[k].ended
      BY <2>2, <2>3 DEF VirtualKey
    <2>5. \A i \in Ids :
             /\ vkey'[i].from = vkey[i].from /\ vkey'[i].root = vkey[i].root
             /\ \/ (Active(i)' <=> Active(i)) /\ vkey'[i].ended = vkey[i].ended
                \/ Active(i) /\ vkey'[i].status = "revoked" /\ vkey'[i].ended = "revoked"
             /\ i > issued => vkey'[i] = vkey[i]
      <3>1. \A i \in Ids : i # k => vkey'[i] = vkey[i]
        BY <2>3
      <3>2. ~(k > issued) /\ Active(k)' = FALSE
        BY <2>2, <2>4 DEF Active
      <3>3. CASE Active(k)
        BY <2>4, <3>1, <3>2, <3>3 DEF Active
      <3>4. CASE ~Active(k)
        BY <2>4, <3>1, <3>2, <3>4 DEF Active
      <3> QED
        BY <3>3, <3>4
    <2> QED
      BY <2>1, <2>5, EndingLines
  <1>4. ASSUME NEW m \in Members, deleteMember(m)
        PROVE  LineInv'
    <2>1. issued' = issued
      BY <1>4 DEF deleteMember
    <2>2. ASSUME NEW i \in Ids
          PROVE  /\ vkey'[i].from = vkey[i].from /\ vkey'[i].root = vkey[i].root
                 /\ vkey'[i].status = vkey[i].status /\ vkey'[i].ended = vkey[i].ended
                 /\ i > issued => vkey'[i] = vkey[i]
      <3>1. vkey[i] \in VirtualKey
        BY KeyTyped
      <3>2. i > issued => vkey[i].issuer = Nobody
        BY DEF LineInv, KeyRows, NoKey
      <3>3. m # Nobody
        BY KeysConstantsOK
      <3>4. vkey'[i] = IF vkey[i].issuer = m THEN [vkey[i] EXCEPT !.issuer = Nobody]
                                             ELSE vkey[i]
        BY <1>4, DeleteRows
      <3> QED
        BY <3>1, <3>2, <3>3, <3>4 DEF VirtualKey
    <2> QED
      BY <2>1, <2>2, EndingLines DEF Active
  <1>5. CASE KeysAlone
    BY <1>5, EndingLines DEF KeysAlone, Active
  <1> QED
    BY <1>1, <1>2, <1>3, <1>4, <1>5, InsertLines, KeySteps

LEMMA LineInit == KeysInit => LineInv
  BY KeysConstantsOK
  DEF KeysInit, LineInv, KeyRows, OneActivePerLine, RotatedOnce, Active, NoKey

\* A key is active exactly while nothing has ended it, and its predecessor and
\* the first key of its line were issued before it.
THEOREM LineInvariant == KeysSpec => []LineInv
  BY LineInit, LineStep, KeysInvariant, PTL DEF KeysSpec

\* Rotations by administrators and members, revocations and failures leave at
\* most one key of a line that can be used, in any order.
THEOREM OneActivePerLineHolds == KeysSpec => []OneActivePerLine
  <1>1. LineInv => OneActivePerLine
    BY DEF LineInv
  <1> QED
    BY <1>1, LineInvariant, PTL

\* A key is rotated at most once, as a whole, and not after its revocation.
THEOREM RotatedOnceHolds == KeysSpec => []RotatedOnce
  <1>1. LineInv => RotatedOnce
    BY DEF LineInv
  <1> QED
    BY <1>1, LineInvariant, PTL

-----------------------------------------------------------------------------
(* Whose a key is *)

Granted(key, of) == \/ key.grantee = Nobody
                    \/ key.mode = "self_serve" /\ key.issuer = key.grantee
                    \/ key.mode = "admin" /\ key.from # 0
                    \/ of[key.grantee] = "deleted"

LEMMA GrantReplaced ==
    ASSUME KeysTypeOK, GrantKept, NEW k \in 1 .. issued, NEW mode \in Kinds,
           NEW who \in People, NEW t \in Dates, Replace(k, mode, who, t), Still,
           mode = "admin" \/ (vkey[k].mode = "self_serve" /\ who = vkey[k].issuer)
    PROVE  GrantKept'
  <1> DEFINE n == issued + 1
  <1>1. /\ n \in Ids /\ issued' = n
        /\ vkey'[n] = Successor(k, mode, who, t) /\ vkey'[k] = Superseded(k)
        /\ \A i \in Ids : i \notin {k, n} => vkey'[i] = vkey[i]
    BY ReplaceRows
  <1>2. k \in Ids /\ issued \in Nat /\ k # 0 /\ vkey[k] \in VirtualKey
    BY IssuedAreIds, KeyTyped
  <1>3. Granted(vkey[k], member) /\ member' = member
    BY DEF GrantKept, Granted, Still
  <1>4. Granted(vkey'[n], member')
    <2>1. /\ vkey'[n].mode = mode /\ vkey'[n].issuer = who /\ vkey'[n].from = k
          /\ vkey'[n].grantee = vkey[k].grantee
      BY <1>1 DEF Successor
    <2>2. CASE mode = "admin"
      BY <1>2, <2>1, <2>2 DEF Granted
    <2>3. CASE vkey[k].mode = "self_serve" /\ who = vkey[k].issuer /\ mode # "admin"
      <3>1. mode = "self_serve"
        BY <2>3 DEF Kinds
      <3> QED
        BY <1>3, <2>1, <2>3, <3>1 DEF Granted
    <2> QED
      BY <2>2, <2>3
  <1>5. Granted(vkey'[k], member')
    BY <1>1, <1>2, <1>3 DEF Superseded, Granted, VirtualKey
  <1>6. ASSUME NEW i \in 1 .. n, i \notin {k, n}
        PROVE  Granted(vkey'[i], member')
    <2>1. i \in 1 .. issued /\ i \in Ids
      BY <1>2, <1>6, IssuedAreIds
    <2> QED
      BY <1>1, <1>3, <1>6, <2>1 DEF GrantKept, Granted
  <1> QED
    BY <1>1, <1>4, <1>5, <1>6 DEF GrantKept, Granted

LEMMA GrantStep ==
    ASSUME KeysInv, GrantKept, [KeysNext]_keyVars
    PROVE  GrantKept'
  <1> USE DEF KeysInv
  <1>1. issued \in Nat /\ 1 .. issued \subseteq Ids
    BY IssuedAreIds
  <1>2. CASE Issues
    <2>1. PICK mode \in Kinds, who \in People, t \in Dates :
             Insert(New(mode, who, t)) /\ Still /\ (mode = "admin" => who = Nobody)
      BY <1>2 DEF Issues
    <2>2. /\ New(mode, who, t) \in VirtualKey /\ New(mode, who, t).mode = mode
          /\ New(mode, who, t).issuer = who /\ New(mode, who, t).grantee = who
      BY <2>1, NewTyped DEF Insert
    <2>3. /\ issued' = issued + 1 /\ vkey'[issued + 1] = New(mode, who, t)
          /\ \A i \in Ids : i # issued + 1 => vkey'[i] = vkey[i]
      BY <2>1, <2>2, InsertRows
    <2>4. Granted(vkey'[issued + 1], member')
      BY <2>1, <2>2, <2>3 DEF Granted, Kinds
    <2>5. ASSUME NEW i \in 1 .. issued + 1, i # issued + 1
          PROVE  Granted(vkey'[i], member')
      <3>1. i \in 1 .. issued
        BY <1>1, <2>5
      <3> QED
        BY <1>1, <2>1, <2>3, <2>5, <3>1 DEF GrantKept, Granted, Still
    <2> QED
      BY <2>3, <2>4, <2>5 DEF GrantKept, Granted
  <1>3. CASE AdminRotates
    <2>1. PICK k \in 1 .. issued : Replace(k, "admin", Nobody, vkey[k].expires) /\ Still
      BY <1>3 DEF AdminRotates
    <2>2. vkey[k].expires \in Dates /\ Nobody \in People /\ "admin" \in Kinds
      BY KeyTyped, IssuedAreIds DEF People, Kinds
    <2> QED
      BY <2>1, <2>2, GrantReplaced
  <1>4. CASE MemberRotates
    <2>1. PICK h \in Handlers, t \in Dates :
             /\ OwnActive(h) /\ call[h].key \in 1 .. issued /\ Still
             /\ Replace(call[h].key, "self_serve", vkey[call[h].key].issuer, t)
      BY <1>4 DEF MemberRotates
    <2>2. vkey[call[h].key].issuer \in People /\ "self_serve" \in Kinds
      BY <2>1, KeyTyped, IssuedAreIds DEF Kinds
    <2>3. vkey[call[h].key].mode = "self_serve"
      BY <2>1 DEF OwnActive
    <2> QED
      BY <2>1, <2>2, <2>3, GrantReplaced
  <1>5. CASE Revokes
    <2>1. PICK k \in 1 .. issued : Revoke(k) /\ issued' = issued /\ Still
      BY <1>5 DEF Revokes
    <2>2. vkey'[k] = [vkey[k] EXCEPT !.status = "revoked",
                                     !.ended = IF Active(k) THEN "revoked" ELSE @]
          /\ \A i \in Ids : i # k => vkey'[i] = vkey[i]
      BY <2>1, RevokeRows
    <2>3. vkey[k] \in VirtualKey /\ k \in Ids
      BY <1>1, KeyTyped
    <2>4. /\ vkey'[k].grantee = vkey[k].grantee /\ vkey'[k].mode = vkey[k].mode
          /\ vkey'[k].issuer = vkey[k].issuer /\ vkey'[k].from = vkey[k].from
      BY <2>2, <2>3 DEF VirtualKey
    <2>5. ASSUME NEW i \in 1 .. issued
          PROVE  Granted(vkey'[i], member')
      <3>1. i \in Ids /\ Granted(vkey[i], member) /\ member' = member
        BY <1>1, <2>1 DEF GrantKept, Granted, Still
      <3> QED
        BY <2>2, <2>4, <3>1 DEF Granted
    <2> QED
      BY <2>1, <2>5 DEF GrantKept, Granted
  <1>6. ASSUME NEW m \in Members, deleteMember(m)
        PROVE  GrantKept'
    <2>1. issued' = issued /\ member' = [member EXCEPT ![m] = "deleted"]
      BY <1>6 DEF deleteMember
    <2>2. ASSUME NEW k \in 1 .. issued
          PROVE  Granted(vkey'[k], member')
      <3>1. k \in Ids /\ vkey[k] \in VirtualKey /\ Granted(vkey[k], member)
        BY <1>1, KeyTyped DEF GrantKept, Granted
      <3>2. vkey'[k] = IF vkey[k].issuer = m THEN [vkey[k] EXCEPT !.issuer = Nobody]
                                             ELSE vkey[k]
        BY <1>6, <3>1, DeleteRows
      <3>3. /\ vkey'[k].grantee = vkey[k].grantee /\ vkey'[k].mode = vkey[k].mode
            /\ vkey'[k].from = vkey[k].from
            /\ vkey'[k].issuer = vkey[k].issuer \/ vkey[k].issuer = m
        BY <3>1, <3>2 DEF VirtualKey
      <3>4. /\ vkey[k].grantee \in Members
            /\ member[vkey[k].grantee] = "deleted" \/ vkey[k].grantee = m
            => member'[vkey[k].grantee] = "deleted"
        BY <2>1 DEF KeysTypeOK
      <3>5. vkey[k].grantee \in Members \cup {Nobody}
        BY <3>1 DEF VirtualKey
      <3> QED
        BY <3>1, <3>3, <3>4, <3>5 DEF Granted
    <2> QED
      BY <2>1, <2>2 DEF GrantKept, Granted
  <1>7. CASE KeysAlone
    <2>1. ASSUME NEW m \in Members, member[m] = "deleted"
          PROVE  member'[m] = "deleted"
      <3>1. ASSUME NEW q \in Members, updateMember(q) \/ deleteMember(q)
            PROVE  member'[m] = "deleted"
        BY <2>1, <3>1 DEF updateMember, deleteMember, KeysTypeOK
      <3>2. (\A q \in Members : ~updateMember(q) /\ ~deleteMember(q)) => member' = member
        BY DEF KeysNext, postVirtualKey, createVirtualKey, postRevoke, postRotate,
           revokeVirtualKey, rotateVirtualKey, requireSelfServeMember,
           issueSelfServeVirtualKey, rotateSelfServeVirtualKey,
           revokeSelfServeVirtualKey, failCall, Start, Reply, KeysTick, keyVars
      <3> QED
        BY <2>1, <3>1, <3>2
    <2>2. \A k \in 1 .. issued : vkey[k].grantee \in Members \cup {Nobody}
      BY <1>1, KeyTyped DEF People
    <2> QED
      BY <1>7, <2>1, <2>2 DEF KeysAlone, GrantKept
  <1> QED
    BY <1>2, <1>3, <1>4, <1>5, <1>6, <1>7, KeySteps

\* A member keeps what his key becomes by his own rotations, until he is
\* deleted; only an administrator's rotation takes it from him.
THEOREM GrantKeptHolds == KeysSpec => []GrantKept
  <1>1. KeysInit => GrantKept
    BY DEF KeysInit, GrantKept, NoKey
  <1> QED
    BY <1>1, GrantStep, KeysInvariant, PTL DEF KeysSpec

-----------------------------------------------------------------------------
(* Lapsed lines *)

LEMMA NowGrows ==
    ASSUME KeysTypeOK, [KeysNext]_keyVars
    PROVE  now \in Nat /\ now' \in {now, now + 1}
  <1>1. CASE KeysTick
    BY <1>1, IssuedAreIds DEF KeysTick, Dates
  <1>2. CASE ~KeysTick
    <2>1. now' = now
      BY <1>2 DEF KeysNext, postVirtualKey, createVirtualKey, postRevoke, postRotate,
         revokeVirtualKey, rotateVirtualKey, requireSelfServeMember,
         issueSelfServeVirtualKey, rotateSelfServeVirtualKey, revokeSelfServeVirtualKey,
         failCall, Start, Reply, updateMember, deleteMember, keyVars
    <2> QED
      BY <2>1, IssuedAreIds DEF Dates
  <1> QED
    BY <1>1, <1>2

\* A key that can be used after a step and could not before, of a line that
\* is older, is the successor by a member's rotation of a key that had expired.
LEMMA RevivalStep ==
    ASSUME KeysInv, KeyRows, [KeysNext]_keyVars, NEW k \in Ids, NEW r \in 1 .. issued,
           vkey'[k].root = r, Usable(k)',
           \A i \in 1 .. issued : vkey[i].root = r => ~Usable(i)
    PROVE  \E h \in Handlers : /\ OnBehalfOf(h, "rotate")
                               /\ call[h].key \in 1 .. issued /\ vkey[call[h].key].root = r
                               /\ OwnActive(h) /\ Expired(call[h].key)
  <1> USE DEF KeysInv
  <1>1. issued \in Nat /\ 1 .. issued \subseteq Ids /\ r # 0 /\ r # issued + 1 /\ k \in Nat
    BY IssuedAreIds DEF Ids
  <1>2. now \in Nat /\ now' \in {now, now + 1} /\ vkey[k].expires \in Nat
    BY NowGrows, KeyTyped DEF Dates
  \* A key that was there already could be used before.
  <1>3. ASSUME vkey'[k].root = vkey[k].root, vkey'[k].expires = vkey[k].expires,
               vkey'[k].status = "active" => vkey[k].status = "active"
        PROVE  FALSE
    <2>1. Usable(k)
      BY <1>2, <1>3 DEF Usable, Active, Expired
    <2>2. k \in 1 .. issued
      BY <2>1, RowFacts DEF Usable
    <2> QED
      BY <1>3, <2>1, <2>2
  <1>4. CASE Issues
    <2>1. PICK mode \in Kinds, who \in People, t \in Dates : Insert(New(mode, who, t))
      BY <1>4 DEF Issues
    <2>2. New(mode, who, t) \in VirtualKey /\ New(mode, who, t).root = issued + 1
      BY <2>1, NewTyped DEF Insert
    <2>3. /\ vkey'[issued + 1] = New(mode, who, t)
          /\ \A i \in Ids : i # issued + 1 => vkey'[i] = vkey[i]
      BY <2>1, <2>2, InsertRows
    <2> QED
      BY <1>1, <1>3, <2>2, <2>3
  <1>5. ASSUME NEW q \in 1 .. issued, NEW mode \in Kinds, NEW who \in People,
               NEW t \in Dates, Replace(q, mode, who, t), Active(q)
        PROVE  k = issued + 1 /\ vkey[q].root = r /\ Expired(q) /\ ~(t <= now')
    <2>1. /\ vkey'[issued + 1] = Successor(q, mode, who, t)
          /\ vkey'[q] = Superseded(q)
          /\ \A i \in Ids : i \notin {q, issued + 1} => vkey'[i] = vkey[i]
      BY <1>5, ReplaceRows
    <2>2. vkey[q] \in VirtualKey
      BY <1>1, KeyTyped
    <2>3. k # q
      BY <2>1, <2>2 DEF Superseded, Usable, Active, VirtualKey
    <2>4. k = issued + 1
      BY <1>3, <2>1, <2>3
    <2>5. vkey[q].root = r /\ ~(t <= now')
      BY <2>1, <2>4 DEF Successor, Usable, Expired
    <2> QED
      BY <1>5, <2>4, <2>5 DEF Usable
  <1>6. CASE AdminRotates
    <2>1. PICK q \in 1 .. issued :
             Active(q) /\ Replace(q, "admin", Nobody, vkey[q].expires) /\ Still
      BY <1>6 DEF AdminRotates
    <2>2. vkey[q].expires \in Dates /\ Nobody \in People /\ "admin" \in Kinds
      BY <1>1, KeyTyped DEF People, Kinds
    <2>3. Expired(q) /\ ~(vkey[q].expires <= now')
      BY <1>5, <2>1, <2>2
    <2> QED
      BY <2>1, <2>3 DEF Expired, Still
  <1>7. CASE MemberRotates
    <2>1. PICK h \in Handlers, t \in Dates :
             /\ OnBehalfOf(h, "rotate") /\ OwnActive(h) /\ call[h].key \in 1 .. issued
             /\ Replace(call[h].key, "self_serve", vkey[call[h].key].issuer, t)
      BY <1>7 DEF MemberRotates
    <2>2. vkey[call[h].key].issuer \in People /\ "self_serve" \in Kinds
      BY <1>1, <2>1, KeyTyped DEF Kinds
    <2>3. vkey[call[h].key].root = r /\ Expired(call[h].key)
      BY <1>5, <2>1, <2>2 DEF OwnActive
    <2> QED
      BY <2>1, <2>3
  <1>8. CASE Revokes
    <2>1. PICK q \in 1 .. issued : Revoke(q)
      BY <1>8 DEF Revokes
    <2>2. vkey'[q] = [vkey[q] EXCEPT !.status = "revoked",
                                     !.ended = IF Active(q) THEN "revoked" ELSE @]
          /\ \A i \in Ids : i # q => vkey'[i] = vkey[i]
      BY <2>1, RevokeRows
    <2>3. vkey[q] \in VirtualKey
      BY <1>1, KeyTyped
    <2>4. vkey'[q].status = "revoked"
      BY <2>2, <2>3 DEF VirtualKey
    <2>5. k # q
      BY <2>4 DEF Usable, Active
    <2> QED
      BY <1>3, <2>2, <2>5
  <1>9. ASSUME NEW m \in Members, deleteMember(m)
        PROVE  FALSE
    <2>1. vkey'[k] = IF vkey[k].issuer = m THEN [vkey[k] EXCEPT !.issuer = Nobody]
                                           ELSE vkey[k]
      BY <1>9, DeleteRows
    <2>2. vkey[k] \in VirtualKey
      BY KeyTyped
    <2> QED
      BY <1>3, <2>1, <2>2 DEF VirtualKey
  <1>10. CASE KeysAlone
    BY <1>3, <1>10 DEF KeysAlone
  <1> QED
    BY <1>4, <1>6, <1>7, <1>8, <1>9, <1>10, KeySteps

\* Nothing an administrator's rotation does, not even one let through before
\* the key expired, makes a line usable again; only its own member does.
THEOREM LapsedRevivedByMemberHolds == KeysSpec => LapsedRevivedByMember
  <1> DEFINE Lapsed(r) ==
         LET line == {k \in 1 .. issued : vkey[k].root = r} IN
         /\ line # {}
         /\ \A k \in line : ~Usable(k)
         /\ \E k \in Ids : vkey'[k].root = r /\ Usable(k)'
         => \E h \in Handlers : /\ OnBehalfOf(h, "rotate")
                                /\ call[h].key \in line /\ OwnActive(h)
                                /\ Expired(call[h].key)
  <1>1. ASSUME KeysInv, KeyRows, [KeysNext]_keyVars, NEW r \in 1 .. issued
        PROVE  Lapsed(r)
    <2>1. SUFFICES ASSUME \A k \in 1 .. issued : vkey[k].root = r => ~Usable(k),
                          NEW k \in Ids, vkey'[k].root = r, Usable(k)'
                   PROVE  \E h \in Handlers :
                             /\ OnBehalfOf(h, "rotate")
                             /\ call[h].key \in {i \in 1 .. issued : vkey[i].root = r}
                             /\ OwnActive(h) /\ Expired(call[h].key)
      OBVIOUS
    <2> QED
      BY <1>1, <2>1, RevivalStep
  <1>2. KeysInv /\ LineInv /\ [KeysNext]_keyVars
        => [\A r \in 1 .. issued : Lapsed(r)]_keyVars
    BY <1>1 DEF LineInv
  <1> QED
    BY <1>2, KeysInvariant, LineInvariant, PTL DEF KeysSpec, LapsedRevivedByMember

=============================================================================
