---------------------------- MODULE VirtualKeys ----------------------------
(***************************************************************************)
(* The virtual keys of a workspace: issued by an administrator or, with a   *)
(* limited life, by a member for himself; rotated and revoked by either.    *)
(*                                                                         *)
(* A handler of the control API first reads what entitles its caller to act *)
(* (a key, or the caller's membership) and acts in a later statement or     *)
(* transaction, when others may have acted on the same key.  Each step is   *)
(* one of the two.  Times count in the unit of the shortest life of a key.  *)
(***************************************************************************)
EXTENDS Naturals

CONSTANTS
    Handlers,   \* calls of the control API in progress at once
    Members,    \* members of the workspace
    Nobody,     \* null in issued_by_member_id
    Ttl,        \* life of a key a member issues for himself
    MaxKeys,    \* bound: keys
    MaxTime     \* bound: clock

ASSUME KeysConstantsOK ==
    /\ Nobody \notin Members
    /\ Ttl \in Nat \ {0} /\ MaxKeys \in Nat \ {0}
    /\ MaxTime \in Nat

VARIABLES
    vkey,      \* virtual_keys
    issued,    \* rows inserted so far
    member,    \* status of each row of members
    call,      \* what each handler has read and is about to do
    now        \* the clock

keyVars == <<vkey, issued, member, call, now>>

Ids   == 1 .. MaxKeys
Never == MaxTime + Ttl + 1     \* expires_at is null

\* from, root, grantee and ended are not columns: the key a key was rotated
\* from, the first key of its line, whom that one was issued to, and what
\* ended the key.
VirtualKey == [status : {"none", "active", "revoked"},
               mode : {"admin", "self_serve"}, issuer : Members \cup {Nobody},
               expires : 0 .. Never, from : Ids \cup {0}, root : Ids \cup {0},
               grantee : Members \cup {Nobody}, ended : {"no", "revoked", "rotated"}]
NoKey == [status |-> "none", mode |-> "admin", issuer |-> Nobody, expires |-> 0,
          from |-> 0, root |-> 0, grantee |-> Nobody, ended |-> "no"]

Ops  == {"idle", "create", "issue", "rotate", "revoke"}
Call == [op : Ops, caller : Members \cup {Nobody}, key : Ids \cup {0},
         time : 0 .. Never]
NoCall == [op |-> "idle", caller |-> Nobody, key |-> 0, time |-> 0]

KeysInit ==
    /\ vkey = [k \in Ids |-> NoKey]
    /\ issued = 0
    /\ member = [m \in Members |-> "active"]
    /\ call = [h \in Handlers |-> NoCall]
    /\ now = 0

-----------------------------------------------------------------------------
(* Helpers *)

Active(k)  == vkey[k].status = "active"
Expired(k) == vkey[k].expires <= now

New(mode, issuer, expires) ==
    [NoKey EXCEPT !.status = "active", !.mode = mode, !.issuer = issuer,
                  !.expires = expires, !.root = issued + 1, !.grantee = issuer]

\* insert into virtual_keys
Insert(new) ==
    /\ issued < MaxKeys
    /\ issued' = issued + 1
    /\ vkey' = [vkey EXCEPT ![issued + 1] = new]

\* The successor takes the key's place in one transaction.
Replace(k, mode, issuer, expires) ==
    /\ issued < MaxKeys
    /\ issued' = issued + 1
    /\ vkey' = [vkey EXCEPT
         ![k].status = "revoked", ![k].ended = "rotated",
         ![issued + 1] = [status |-> "active", mode |-> mode, issuer |-> issuer,
                          expires |-> expires, from |-> k, root |-> vkey[k].root,
                          grantee |-> vkey[k].grantee, ended |-> "no"]]

Revoke(k) ==
    vkey' = [vkey EXCEPT ![k].status = "revoked",
                         ![k].ended = IF Active(k) THEN "revoked" ELSE @]

Start(h, c) == /\ call[h].op = "idle"
               /\ call' = [call EXCEPT ![h] = c]
               /\ UNCHANGED <<vkey, issued, member, now>>

Reply(h) == /\ call' = [call EXCEPT ![h] = NoCall]
            /\ UNCHANGED <<member, now>>

OnBehalfOf(h, op) == call[h].op = op /\ call[h].caller \in Members
ByAdmin(h, op)    == call[h].op = op /\ call[h].caller = Nobody

-----------------------------------------------------------------------------
(* Administrators *)

\* POST /v1/virtual-keys: a date in the past is refused.
postVirtualKey(h) ==
    \E expires \in {now + 1, Never} :
       Start(h, [NoCall EXCEPT !.op = "create", !.time = expires])

createVirtualKey(h) ==
    /\ call[h].op = "create"
    /\ Insert(New("admin", Nobody, call[h].time))
    /\ Reply(h)

\* POST /v1/virtual-keys/:id/revoke: nothing to do for a revoked key.
postRevoke(h, k) ==
    /\ Active(k)
    /\ Start(h, [NoCall EXCEPT !.op = "revoke", !.key = k])

\* POST /v1/virtual-keys/:id/rotate: a key that is revoked or expired when it
\* is read is refused.
postRotate(h, k) ==
    /\ Active(k) /\ ~Expired(k)
    /\ Start(h, [NoCall EXCEPT !.op = "rotate", !.key = k])

\* Seeded fault: the row is marked with a status of another table.
disableVirtualKey(h) ==
    /\ ByAdmin(h, "revoke")
    /\ vkey' = [vkey EXCEPT ![call[h].key].status = "disabled"]
    /\ Reply(h)
    /\ UNCHANGED issued

\* By id, whatever became of the key since it was read.
revokeVirtualKey(h) ==
    /\ ByAdmin(h, "revoke")
    /\ Revoke(call[h].key)
    /\ Reply(h)
    /\ UNCHANGED issued

\* Seeded fault: the status read before the transaction is relied on.
rotateAsRead(h) ==
    /\ ByAdmin(h, "rotate")
    /\ LET k == call[h].key IN Replace(k, "admin", Nobody, vkey[k].expires)
    /\ Reply(h)

\* Seeded fault: the successor is inserted without the date.
rotateForever(h) ==
    /\ ByAdmin(h, "rotate")
    /\ LET k == call[h].key IN
       IF Active(k)
       THEN Replace(k, "admin", Nobody, Never)
       ELSE UNCHANGED <<vkey, issued>>
    /\ Reply(h)

\* The row is locked and must still be active; the successor keeps its date,
\* but neither its issuance mode nor its issuer.
rotateVirtualKey(h) ==
    /\ ByAdmin(h, "rotate")
    /\ LET k == call[h].key IN
       IF Active(k)
       THEN Replace(k, "admin", Nobody, vkey[k].expires)
       ELSE UNCHANGED <<vkey, issued>>
    /\ Reply(h)

-----------------------------------------------------------------------------
(* Members, for themselves *)

\* The membership is read; any key may be named.
requireSelfServeMember(h, m) ==
    /\ member[m] = "active"
    /\ \/ Start(h, [NoCall EXCEPT !.op = "issue", !.caller = m, !.time = now])
       \/ \E op \in {"rotate", "revoke"}, k \in 1 .. issued :
             Start(h, [op |-> op, caller |-> m, key |-> k, time |-> now])

\* getSelfServeExpiryIso is evaluated at some moment before the statement.
ExpiryDates(h) == {t + Ttl : t \in call[h].time .. now}

\* issued_by_member_id refers to a row of members.
issueSelfServeVirtualKey(h) ==
    /\ call[h].op = "issue"
    /\ LET m == call[h].caller IN
       IF member[m] = "deleted"
       THEN UNCHANGED <<vkey, issued>>
       ELSE \E expires \in ExpiryDates(h) : Insert(New("self_serve", m, expires))
    /\ Reply(h)

\* The key must be the caller's own, and active.
OwnActive(h) == LET k == call[h].key IN
    Active(k) /\ vkey[k].mode = "self_serve" /\ vkey[k].issuer = call[h].caller

\* Seeded fault: the successor belongs to no one.
rotateDisowned(h) ==
    /\ OnBehalfOf(h, "rotate")
    /\ IF OwnActive(h)
       THEN \E expires \in ExpiryDates(h) :
               Replace(call[h].key, "self_serve", Nobody, expires)
       ELSE UNCHANGED <<vkey, issued>>
    /\ Reply(h)

\* Seeded fault: a key already replaced is replaced again.
rotateOwnAgain(h) ==
    /\ OnBehalfOf(h, "rotate")
    /\ LET k == call[h].key IN
       IF vkey[k].mode = "self_serve" /\ vkey[k].issuer = call[h].caller
       THEN \E expires \in ExpiryDates(h) :
               Replace(k, "self_serve", vkey[k].issuer, expires)
       ELSE UNCHANGED <<vkey, issued>>
    /\ Reply(h)

\* The date is set anew, also when the key has expired.
rotateSelfServeVirtualKey(h) ==
    /\ OnBehalfOf(h, "rotate")
    /\ IF OwnActive(h)
       THEN \E expires \in ExpiryDates(h) :
               Replace(call[h].key, "self_serve", vkey[call[h].key].issuer, expires)
       ELSE UNCHANGED <<vkey, issued>>
    /\ Reply(h)

revokeSelfServeVirtualKey(h) ==
    /\ OnBehalfOf(h, "revoke")
    /\ IF OwnActive(h) THEN Revoke(call[h].key) ELSE UNCHANGED vkey
    /\ Reply(h)
    /\ UNCHANGED issued

-----------------------------------------------------------------------------
(* Membership, failures, time *)

\* PATCH /v1/members/:id
updateMember(m) ==
    /\ member[m] # "deleted"
    /\ member' = [member EXCEPT ![m] = IF @ = "active" THEN "inactive" ELSE "active"]
    /\ UNCHANGED <<vkey, issued, call, now>>

\* DELETE /v1/members/:id; the keys he issued stay, without an issuer.
deleteMember(m) ==
    /\ member[m] # "deleted"
    /\ member' = [member EXCEPT ![m] = "deleted"]
    /\ vkey' = [k \in Ids |-> IF vkey[k].issuer = m
                              THEN [vkey[k] EXCEPT !.issuer = Nobody] ELSE vkey[k]]
    /\ UNCHANGED <<issued, call, now>>

\* The call is refused on a later check, fails, or the process ends; a
\* transaction not committed is rolled back.
failCall(h) ==
    /\ call[h].op # "idle"
    /\ call' = [call EXCEPT ![h] = NoCall]
    /\ UNCHANGED <<vkey, issued, member, now>>

KeysTick ==
    /\ now < MaxTime
    /\ now' = now + 1
    /\ UNCHANGED <<vkey, issued, member, call>>

KeysNext ==
    \/ \E h \in Handlers :
          \/ postVirtualKey(h) \/ createVirtualKey(h)
          \/ \E k \in 1 .. issued : postRevoke(h, k) \/ postRotate(h, k)
          \/ revokeVirtualKey(h) \/ rotateVirtualKey(h)
          \/ \E m \in Members : requireSelfServeMember(h, m)
          \/ issueSelfServeVirtualKey(h)
          \/ rotateSelfServeVirtualKey(h) \/ revokeSelfServeVirtualKey(h)
          \/ failCall(h)
    \/ \E m \in Members : updateMember(m) \/ deleteMember(m)
    \/ KeysTick

KeysSpec == KeysInit /\ [][KeysNext]_keyVars

-----------------------------------------------------------------------------
(* Properties *)

\* Every variable has the type the code gives it.
KeysTypeOK ==
    /\ vkey \in [Ids -> VirtualKey]
    /\ issued \in 0 .. MaxKeys
    /\ member \in [Members -> {"active", "inactive", "deleted"}]
    /\ call \in [Handlers -> Call]
    /\ now \in 0 .. MaxTime

\* However rotations by the administrator and by the member, revocations and
\* failures interleave, at most one key of a line can be used.
OneActivePerLine ==
    \A i, j \in Ids :
       /\ Active(i) /\ Active(j)
       /\ vkey[i].root = vkey[j].root
       => i = j

\* A rotation is all or nothing and happens once: a key has a successor just
\* if a rotation ended it, and never two.  A key whose revocation came first
\* has none, although its rotation had been let through before.
RotatedOnce ==
    \A k \in 1 .. issued :
       /\ vkey[k].ended = "rotated" <=> \E i \in Ids : vkey[i].from = k
       /\ \A i, j \in Ids : vkey[i].from = k /\ vkey[j].from = k => i = j

\* A key issued to a member remains his through all his rotations, so that he
\* can see and revoke what it became, unless an administrator rotated it or
\* the member was deleted.
GrantKept ==
    \A k \in 1 .. issued :
       \/ vkey[k].grantee = Nobody
       \/ vkey[k].mode = "self_serve" /\ vkey[k].issuer = vkey[k].grantee
       \/ vkey[k].mode = "admin" /\ vkey[k].from # 0
       \/ member[vkey[k].grantee] = "deleted"

Usable(k) == Active(k) /\ ~Expired(k)

\* A line none of whose keys can be used any more, revoked or expired, comes
\* back only by its own member's rotation of a key that had expired: an
\* administrator's rotation, even one let through before the key expired,
\* gives nothing that can be used.
LapsedRevivedByMember ==
    [][ \A r \in 1 .. issued :
           LET line == {k \in 1 .. issued : vkey[k].root = r} IN
           /\ line # {}
           /\ \A k \in line : ~Usable(k)
           /\ \E k \in Ids : vkey'[k].root = r /\ Usable(k)'
           => \E h \in Handlers : /\ OnBehalfOf(h, "rotate")
                                  /\ call[h].key \in line /\ OwnActive(h)
                                  /\ Expired(call[h].key)
      ]_keyVars

=============================================================================
