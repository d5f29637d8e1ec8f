---------------------- MODULE ProviderCredentialsProofs ----------------------
(***************************************************************************)
(* Proofs about ProviderCredentials for any calls and connections, any     *)
(* time to live and any limit on the entries.                              *)
(*                                                                         *)
(* Eviction keeps a subsequence of the cache, so it keeps the order of the *)
(* entries and what is said of each.  An entry is added only when none of  *)
(* those kept has its key, and expires no sooner than any of them.         *)
(***************************************************************************)
EXTENDS ProviderCredentials, FiniteSetTheorems, NaturalsInduction,
        WellFoundedInduction, TLAPS

-----------------------------------------------------------------------------
(* Subsequences *)

\* A set of naturals that is not empty has a least element.
LEMMA LeastNatural ==
  ASSUME NEW T \in SUBSET Nat, T # {}
  PROVE  \E m \in T : \A k \in T : m <= k
<1> DEFINE R == OpToRel(<, Nat)
<1>1. IsWellFoundedOn(R, Nat)
  BY NatLessThanWellFounded
<1>2. PICK m \in T : \A k \in T : ~ (<<k, m>> \in R)
  BY <1>1, WFMin
<1>3. ASSUME NEW k \in T PROVE m <= k
  <2>1. ~ (<<k, m>> \in R)
    BY <1>2
  <2>2. k \in Nat /\ m \in Nat
    OBVIOUS
  <2>3. ~ (k < m)
    BY <2>1, <2>2 DEF OpToRel
  <2> QED BY <2>2, <2>3
<1> QED BY <1>3

\* The positions up to m that are to be kept can be listed in order.
Listable(K, m) ==
    LET upto == K \cap (1 .. m)
    IN  \E p \in [1 .. Cardinality(upto) -> upto] : Increasing(p)

\* One position more: it is dropped, or it comes last.
LEMMA ListOneMore ==
  ASSUME NEW K \in SUBSET (Nat \ {0}), NEW m \in Nat, Listable(K, m)
  PROVE  Listable(K, m + 1)
<1> DEFINE old == K \cap (1 .. m)
           new == K \cap (1 .. (m + 1))
           c   == Cardinality(old)
<1>1. PICK p \in [1 .. c -> old] : Increasing(p)
  BY DEF Listable
<1>2. IsFiniteSet(old) /\ c \in Nat
  <2>1. IsFiniteSet(1 .. m)
    BY FS_Interval
  <2>2. IsFiniteSet(old)
    BY <2>1, FS_Subset
  <2> QED BY <2>2, FS_CardinalityType
<1>3. CASE m + 1 \notin K
  <2>1. new = old
    BY <1>3
  <2> HIDE DEF old, new, c
  <2> QED BY <1>1, <2>1 DEF Listable, c, old, new
<1>4. CASE m + 1 \in K
  <2>1. new = old \cup {m + 1} /\ m + 1 \notin old
    BY <1>4
  <2>2. Cardinality(new) = c + 1
    BY <1>2, <2>1, FS_AddElement
  <2>3. ASSUME NEW i \in 1 .. c
        PROVE  p[i] \in old /\ p[i] \in Nat /\ p[i] < m + 1
    <3> HIDE DEF c
    <3>1. p[i] \in old
      BY <1>1
    <3> QED BY <3>1
  <2> DEFINE q == [i \in 1 .. (c + 1) |-> IF i = c + 1 THEN m + 1 ELSE p[i]]
  <2>4. q \in [1 .. Cardinality(new) -> new]
    <3>1. ASSUME NEW i \in 1 .. (c + 1) PROVE q[i] \in new
      <4>1. CASE i = c + 1
        BY <2>1, <4>1
      <4>2. CASE i # c + 1
        <5>1. i \in 1 .. c
          BY <1>2, <4>2
        <5>2. q[i] = p[i]
          BY <4>2
        <5> HIDE DEF q
        <5> QED BY <2>1, <2>3, <5>1, <5>2
      <4> QED BY <4>1, <4>2
    <3> HIDE DEF new, old, c
    <3> QED BY <2>2, <3>1
  <2>5. Increasing(q)
    <3> SUFFICES ASSUME NEW i \in 1 .. (c + 1), NEW j \in 1 .. (c + 1), i < j
                 PROVE  q[i] < q[j]
      BY DEF Increasing
    <3>1. i \in 1 .. c /\ q[i] = p[i]
      BY <1>2
    <3>2. CASE j = c + 1
      BY <2>3, <3>1, <3>2
    <3>3. CASE j # c + 1
      <4>1. j \in 1 .. c /\ q[j] = p[j]
        BY <1>2, <3>3
      <4> HIDE DEF q
      <4> QED BY <1>1, <3>1, <4>1 DEF Increasing
    <3> QED BY <3>2, <3>3
  <2> HIDE DEF q, c, old
  <2> QED BY <2>4, <2>5 DEF Listable
<1> QED BY <1>3, <1>4

\* Any positions of a sequence can be listed in order.
LEMMA Listed ==
  ASSUME NEW n \in Nat, NEW K \in SUBSET (1 .. n)
  PROVE  \E p \in [1 .. Cardinality(K) -> K] : Increasing(p)
<1> DEFINE Bad == {m \in Nat : ~Listable(K, m)}
<1>1. Listable(K, 0)
  <2>1. K \cap (1 .. 0) = {}
    OBVIOUS
  <2>2. Cardinality({}) = 0
    BY FS_EmptySet
  <2>3. [i \in 1 .. 0 |-> 0] \in [1 .. 0 -> {}]
    OBVIOUS
  <2>4. Increasing([i \in 1 .. 0 |-> 0])
    BY DEF Increasing
  <2> QED BY <2>1, <2>2, <2>3, <2>4 DEF Listable
<1>2. Bad = {}
  <2> SUFFICES ASSUME Bad # {} PROVE FALSE
    OBVIOUS
  <2>1. PICK m \in Bad : \A k \in Bad : m <= k
    BY LeastNatural
  <2>2. m \in Nat /\ m # 0 /\ ~Listable(K, m)
    BY <1>1
  <2>3. m - 1 \in Nat /\ m - 1 \notin Bad
    BY <2>1, <2>2
  <2>4. Listable(K, m - 1)
    BY <2>3
  <2>5. Listable(K, (m - 1) + 1)
    BY <2>3, <2>4, ListOneMore
  <2> QED BY <2>2, <2>5
<1>3. Listable(K, n)
  BY <1>2
<1>4. K \cap (1 .. n) = K
  OBVIOUS
<1> QED BY <1>3, <1>4 DEF Listable

-----------------------------------------------------------------------------
(* The cache *)

CachedEntry == [value : Candidate, expiresAt : 0 .. MaxInstant + CacheTtl]

\* In order of expiry, one per key.
Ordered(entries) ==
    \A i, j \in DOMAIN entries : i < j =>
       /\ entries[i].expiresAt <= entries[j].expiresAt
       /\ buildCacheKey(entries[i].value) # buildCacheKey(entries[j].value)

\* Eviction leaves a subsequence of the cache, of entries not yet expired.
LEMMA Evicted ==
  ASSUME NEW E, cache \in Seq(E)
  PROVE  LET kept == evictExpiredEntries
         IN  /\ kept \in Seq(E) /\ Len(kept) <= Len(cache)
             /\ \E p \in [DOMAIN kept -> DOMAIN cache] :
                   /\ Increasing(p)
                   /\ \A n \in DOMAIN kept : kept[n] = cache[p[n]]
             /\ \A n \in DOMAIN kept : kept[n].expiresAt > instant
<1> DEFINE left   == {i \in DOMAIN cache : cache[i].expiresAt > instant}
           c      == Cardinality(left)
           places == CHOOSE p \in [1 .. c -> left] : Increasing(p)
           kept   == [n \in 1 .. c |-> cache[places[n]]]
<1>1. Len(cache) \in Nat /\ DOMAIN cache = 1 .. Len(cache)
  OBVIOUS
<1>2. left \in SUBSET (1 .. Len(cache))
  BY <1>1
<1>3. c \in Nat /\ c <= Len(cache)
  <2>1. IsFiniteSet(1 .. Len(cache)) /\ Cardinality(1 .. Len(cache)) = Len(cache)
    BY <1>1, FS_Interval
  <2>2. IsFiniteSet(left) /\ c <= Len(cache)
    BY <1>2, <2>1, FS_Subset
  <2> QED BY <2>2, FS_CardinalityType
<1>4. places \in [1 .. c -> left] /\ Increasing(places)
  <2>1. \E p \in [1 .. c -> left] : Increasing(p)
    BY <1>1, <1>2, Listed
  <2> HIDE DEF left, c
  <2> QED BY <2>1
<1>5. evictExpiredEntries = kept
  BY DEF evictExpiredEntries
<1> HIDE DEF places
<1>6. \A n \in 1 .. c : places[n] \in left
  BY <1>4
<1>7. \A n \in 1 .. c : kept[n] \in E /\ kept[n].expiresAt > instant
  BY <1>6
<1>8. kept \in Seq(E) /\ Len(kept) = c /\ DOMAIN kept = 1 .. c
  <2> HIDE DEF c
  <2> QED BY <1>3, <1>7
<1>9. places \in [1 .. c -> DOMAIN cache]
  BY <1>4
<1> HIDE DEF c, left
<1>10. \A n \in 1 .. c : kept[n] = cache[places[n]]
  OBVIOUS
<1> HIDE DEF kept
<1> QED BY <1>3, <1>4, <1>5, <1>7, <1>8, <1>9, <1>10

LEMMA EntryType ==
  ASSUME NEW entries \in Seq(CachedEntry), NEW i \in DOMAIN entries
  PROVE  entries[i].value \in Candidate /\ entries[i].expiresAt \in Nat
<1>1. entries[i] \in CachedEntry
  OBVIOUS
<1>2. \A e \in CachedEntry : e.value \in Candidate /\ e.expiresAt \in Nat
  BY CredConstantsOK DEF CachedEntry
<1> QED BY <1>1, <1>2

\* Being in order of expiry, one per key, is kept by eviction.
LEMMA EvictedOrdered ==
  ASSUME NEW E, cache \in Seq(E),
         \A i \in DOMAIN cache : cache[i].expiresAt \in Nat, Ordered(cache)
  PROVE  Ordered(evictExpiredEntries)
<1> DEFINE kept == evictExpiredEntries
<1>1. PICK p \in [DOMAIN kept -> DOMAIN cache] :
               Increasing(p) /\ \A n \in DOMAIN kept : kept[n] = cache[p[n]]
  BY Evicted
<1> HIDE DEF kept
<1>2. ASSUME NEW i \in DOMAIN kept, NEW j \in DOMAIN kept, i < j
      PROVE  /\ kept[i].expiresAt <= kept[j].expiresAt
             /\ buildCacheKey(kept[i].value) # buildCacheKey(kept[j].value)
  <2>1. p[i] \in DOMAIN cache /\ p[j] \in DOMAIN cache /\ p[i] < p[j]
    BY <1>1, <1>2 DEF Increasing
  <2> QED BY <1>1, <1>2, <2>1 DEF Ordered
<1> QED BY <1>2 DEF Ordered, kept

\* An entry whose key nobody has, and which expires last, keeps the order.
LEMMA SetEntryOrdered ==
  ASSUME NEW entries \in Seq(CachedEntry), NEW e \in CachedEntry, Ordered(entries),
         \A i \in DOMAIN entries :
            /\ entries[i].expiresAt <= e.expiresAt
            /\ buildCacheKey(entries[i].value) # buildCacheKey(e.value)
  PROVE  /\ SetEntry(entries, e) = Append(entries, e)
         /\ Ordered(Append(entries, e))
<1>1. SetEntry(entries, e) = Append(entries, e)
  <2>1. {i \in DOMAIN entries :
            buildCacheKey(entries[i].value) = buildCacheKey(e.value)} = {}
    OBVIOUS
  <2> QED BY <2>1 DEF SetEntry
<1>2. Ordered(Append(entries, e))
  <2> DEFINE more == Append(entries, e)
  <2>1. /\ Len(entries) \in Nat /\ DOMAIN entries = 1 .. Len(entries)
        /\ DOMAIN more = 1 .. (Len(entries) + 1)
        /\ \A i \in DOMAIN entries : more[i] = entries[i]
        /\ more[Len(entries) + 1] = e
    OBVIOUS
  <2> HIDE DEF more
  <2>2. ASSUME NEW i \in DOMAIN more, NEW j \in DOMAIN more, i < j
        PROVE  /\ more[i].expiresAt <= more[j].expiresAt
               /\ buildCacheKey(more[i].value) # buildCacheKey(more[j].value)
    <3>1. i \in DOMAIN entries
      BY <2>1, <2>2
    <3>2. CASE j \in DOMAIN entries
      BY <2>1, <2>2, <3>1, <3>2 DEF Ordered
    <3>3. CASE j \notin DOMAIN entries
      BY <2>1, <2>2, <3>1, <3>3
    <3> QED BY <3>2, <3>3
  <2> QED BY <2>2 DEF Ordered, more
<1> QED BY <1>1, <1>2

\* Cutting the first entry keeps the order, and brings the cache to its limit.
LEMMA LimitEnforced ==
  ASSUME NEW entries \in Seq(CachedEntry), Ordered(entries),
         Len(entries) <= MaxEntries + 1
  PROVE  LET cut == enforceCacheLimit(entries)
         IN  /\ cut \in Seq(CachedEntry) /\ Ordered(cut) /\ Len(cut) <= MaxEntries
             /\ \A i \in DOMAIN cut : \E j \in DOMAIN entries : cut[i] = entries[j]
<1>0. MaxEntries \in Nat \ {0} /\ Len(entries) \in Nat
  BY CredConstantsOK
<1>1. CASE Len(entries) <= MaxEntries
  <2>1. enforceCacheLimit(entries) = entries
    BY <1>0, <1>1 DEF enforceCacheLimit
  <2> QED BY <1>1, <2>1
<1>2. CASE ~(Len(entries) <= MaxEntries)
  <2> DEFINE cut == Tail(entries)
  <2>1. enforceCacheLimit(entries) = cut
    BY <1>0, <1>2 DEF enforceCacheLimit
  <2>2. entries # <<>>
    BY <1>0, <1>2
  <2>3. /\ cut \in Seq(CachedEntry) /\ Len(cut) = Len(entries) - 1
        /\ DOMAIN cut = 1 .. (Len(entries) - 1)
        /\ \A i \in DOMAIN cut : cut[i] = entries[i + 1] /\ i + 1 \in DOMAIN entries
    BY <1>0, <2>2
  <2> HIDE DEF cut
  <2>4. Ordered(cut)
    <3> SUFFICES ASSUME NEW i \in DOMAIN cut, NEW j \in DOMAIN cut, i < j
                 PROVE  /\ cut[i].expiresAt <= cut[j].expiresAt
                        /\ buildCacheKey(cut[i].value) # buildCacheKey(cut[j].value)
      BY DEF Ordered
    <3>1. i + 1 \in DOMAIN entries /\ j + 1 \in DOMAIN entries /\ i + 1 < j + 1
      BY <1>0, <2>3
    <3> QED BY <2>3, <3>1 DEF Ordered
  <2>5. Len(cut) <= MaxEntries
    BY <1>0, <2>3
  <2> QED BY <2>1, <2>3, <2>4, <2>5
<1> QED BY <1>1, <1>2

-----------------------------------------------------------------------------
(* The invariant *)

CredSteps == {"idle", "selected", "resolved", "failed"}

\* Every variable has the type the code gives it; what a call holds is a row
\* it read, unless it holds nothing.
CredTypeOK ==
    /\ connection \in [Connections -> Connection]
    /\ cache \in Seq(CachedEntry)
    /\ callStep \in [Calls -> CredSteps]
    /\ candidate \in [Calls -> Candidate \cup {NoCandidate}]
    /\ credential \in [Calls -> Candidate \cup {NoCandidate}]
    /\ \A r \in Calls : callStep[r] # "idle" => candidate[r] \in Candidate
    /\ instant \in Instants
    /\ rowEdits \in Edits

\* Entries were read with their key intact, lie in the order they expire, and
\* none will live longer than one just added.
CredInv == CredTypeOK /\ CredentialAsSelected /\ OldestDropped

LEMMA OldestDroppedOrdered ==
  OldestDropped <=> /\ cache \in Seq(CachedEntry)
                    /\ Len(cache) <= MaxEntries
                    /\ Ordered(cache)
                    /\ \A i \in DOMAIN cache : cache[i].expiresAt <= instant + CacheTtl
  BY DEF OldestDropped, CachedEntry, Ordered

LEMMA InitCred == CredInit => CredInv
<1> SUFFICES ASSUME CredInit PROVE CredInv
  OBVIOUS
<1>1. cache = <<>> /\ instant = 0 /\ rowEdits = 0
  BY DEF CredInit
<1>2. CredTypeOK
  <2>1. 0 \in Instants /\ 0 \in Edits
    BY CredConstantsOK DEF Instants, Edits
  <2>2. NoRow \in Connection
    BY <2>1 DEF NoRow, Connection
  <2>3. cache \in Seq(CachedEntry)
    BY <1>1
  <2> QED BY <2>1, <2>2, <2>3 DEF CredInit, CredTypeOK, CredSteps
<1>3. CredentialAsSelected
  BY DEF CredInit, CredentialAsSelected
<1>4. OldestDropped
  <2>1. cache \in Seq(CachedEntry) /\ Len(cache) = 0 /\ DOMAIN cache = {}
    BY <1>1
  <2> QED BY <2>1, OldestDroppedOrdered, CredConstantsOK DEF Ordered
<1> QED BY <1>2, <1>3, <1>4 DEF CredInv

\* A statement of the control API changes rows alone.
LEMMA ControlSteps ==
  ASSUME CredTypeOK, NEW c \in Connections,
         \/ createProviderConnection(c) \/ updateProviderConnection(c)
         \/ revokeProviderConnection(c) \/ recordProviderConnectionTestResult(c)
  PROVE  /\ connection' \in [Connections -> Connection]
         /\ rowEdits' \in Edits
         /\ UNCHANGED <<cache, callStep, candidate, credential, instant>>
<1>1. /\ connection[c] \in Connection
      /\ instant \in Instants /\ 0 \in Instants /\ 0 \in Edits
      /\ rowEdits < MaxRowEdits => rowEdits + 1 \in Edits
  BY CredConstantsOK DEF CredTypeOK, Instants, Edits
<1>2. NoRow \in Connection
  BY <1>1 DEF NoRow, Connection
<1>3. ASSUME NEW row \in Connection, Write(c, row)
      PROVE  /\ connection' \in [Connections -> Connection]
             /\ rowEdits' \in Edits
             /\ UNCHANGED <<cache, callStep, candidate, credential, instant>>
  <2>1. [row EXCEPT !.updatedAt = instant] \in Connection
    BY <1>1 DEF Connection
  <2>2. rowEdits' \in Edits
    BY <1>1, <1>3 DEF Write
  <2> QED BY <1>3, <2>1, <2>2 DEF Write, CredTypeOK
<1>4. CASE createProviderConnection(c)
  <2>1. PICK readable \in BOOLEAN :
           Write(c, [NoRow EXCEPT !.status = "active", !.secret = rowEdits + 1,
                                  !.meta = rowEdits + 1, !.readable = readable])
    BY <1>4 DEF createProviderConnection
  <2>2. [NoRow EXCEPT !.status = "active", !.secret = rowEdits + 1,
                      !.meta = rowEdits + 1, !.readable = readable] \in Connection
    BY <1>1, <1>2, <2>1 DEF Connection, Write
  <2> QED BY <1>3, <2>1, <2>2
<1>5. CASE updateProviderConnection(c)
  <2>1. CASE \E readable \in BOOLEAN, meta \in {connection[c].meta, rowEdits + 1} :
                Write(c, [connection[c] EXCEPT !.secret = rowEdits + 1,
                                               !.meta = meta, !.readable = readable])
    <3>1. PICK readable \in BOOLEAN, meta \in {connection[c].meta, rowEdits + 1} :
             Write(c, [connection[c] EXCEPT !.secret = rowEdits + 1,
                                            !.meta = meta, !.readable = readable])
      BY <2>1
    <3>2. [connection[c] EXCEPT !.secret = rowEdits + 1,
                                !.meta = meta, !.readable = readable] \in Connection
      BY <1>1, <3>1 DEF Connection, Write
    <3> QED BY <1>3, <3>1, <3>2
  <2>2. CASE Write(c, [connection[c] EXCEPT !.meta = rowEdits + 1])
    <3>1. [connection[c] EXCEPT !.meta = rowEdits + 1] \in Connection
      BY <1>1, <2>2 DEF Connection, Write
    <3> QED BY <1>3, <2>2, <3>1
  <2> QED BY <1>5, <2>1, <2>2 DEF updateProviderConnection
<1>6. CASE revokeProviderConnection(c)
  <2>1. [connection[c] EXCEPT !.status = "revoked"] \in Connection
    BY <1>1 DEF Connection
  <2> QED BY <1>3, <1>6, <2>1 DEF revokeProviderConnection
<1>7. CASE recordProviderConnectionTestResult(c)
  BY <1>1, <1>3, <1>7 DEF recordProviderConnectionTestResult
<1> QED BY <1>4, <1>5, <1>6, <1>7

\* Answering a call: from an entry of the same key, with an entry of its own
\* that is added last, or not at all.
LEMMA AnswerStep ==
  ASSUME CredInv, NEW r \in Calls, getDecryptedProviderCredential(r)
  PROVE  CredInv'
<1> DEFINE kept == evictExpiredEntries
           cand == candidate[r]
           hits == {i \in DOMAIN kept : /\ kept[i].expiresAt > instant
                                        /\ buildCacheKey(kept[i].value) = buildCacheKey(cand)}
           e    == [value |-> cand, expiresAt |-> instant + CacheTtl]
<1>1. /\ cand \in Candidate /\ callStep[r] = "selected"
      /\ instant \in Instants /\ instant' = instant /\ candidate' = candidate
      /\ connection' = connection /\ rowEdits' = rowEdits
  BY DEF CredInv, CredTypeOK, getDecryptedProviderCredential
<1>2. /\ instant \in Nat /\ CacheTtl \in Nat \ {0} /\ MaxInstant \in Nat
      /\ MaxEntries \in Nat \ {0} /\ instant <= MaxInstant
  BY <1>1, CredConstantsOK DEF Instants
<1>3. /\ cache \in Seq(CachedEntry) /\ Ordered(cache) /\ Len(cache) <= MaxEntries
      /\ \A i \in DOMAIN cache : cache[i].expiresAt <= instant + CacheTtl
  BY OldestDroppedOrdered DEF CredInv
<1>4. /\ kept \in Seq(CachedEntry) /\ Ordered(kept) /\ Len(kept) <= MaxEntries
      /\ \A i \in DOMAIN kept : /\ kept[i].expiresAt <= instant + CacheTtl
                                /\ kept[i].expiresAt > instant
  <2>1. \A i \in DOMAIN cache : cache[i].expiresAt \in Nat
    BY <1>3, EntryType
  <2>2. /\ kept \in Seq(CachedEntry) /\ Len(kept) <= Len(cache)
        /\ \E p \in [DOMAIN kept -> DOMAIN cache] :
              \A n \in DOMAIN kept : kept[n] = cache[p[n]]
        /\ \A i \in DOMAIN kept : kept[i].expiresAt > instant
    BY <1>3, Evicted
  <2>3. Ordered(kept)
    BY <1>3, <2>1, EvictedOrdered
  <2> HIDE DEF kept
  <2>4. \A i \in DOMAIN kept : kept[i].expiresAt <= instant + CacheTtl
    BY <1>3, <2>2
  <2>5. Len(kept) <= MaxEntries
    BY <1>2, <1>3, <2>2
  <2> QED BY <2>2, <2>3, <2>4, <2>5
<1>5. \/ /\ cache' = kept
         /\ \E i \in hits : credential' = [credential EXCEPT ![r] = kept[i].value]
         /\ callStep' = [callStep EXCEPT ![r] = "resolved"]
      \/ /\ hits = {}
         /\ cache' = enforceCacheLimit(SetEntry(kept, e))
         /\ credential' = [credential EXCEPT ![r] = cand]
         /\ callStep' = [callStep EXCEPT ![r] = "resolved"]
      \/ /\ cache' = kept
         /\ credential' = credential
         /\ callStep' = [callStep EXCEPT ![r] = "failed"]
  BY DEF getDecryptedProviderCredential
<1> HIDE DEF kept
<1>6. /\ cache' \in Seq(CachedEntry) /\ Ordered(cache') /\ Len(cache') <= MaxEntries
      /\ \A i \in DOMAIN cache' : cache'[i].expiresAt <= instant + CacheTtl
  <2>1. CASE cache' = kept
    BY <1>4, <2>1
  <2>2. CASE hits = {} /\ cache' = enforceCacheLimit(SetEntry(kept, e))
    <3>1. e \in CachedEntry
      BY <1>1, <1>2 DEF CachedEntry
    <3>2. \A i \in DOMAIN kept : buildCacheKey(kept[i].value) # buildCacheKey(cand)
      BY <1>4, <2>2
    <3>3. SetEntry(kept, e) = Append(kept, e) /\ Ordered(Append(kept, e))
      BY <1>4, <3>1, <3>2, SetEntryOrdered
    <3> DEFINE more == Append(kept, e)
    <3>4. /\ more \in Seq(CachedEntry) /\ Len(more) = Len(kept) + 1
          /\ \A i \in DOMAIN more : more[i].expiresAt <= instant + CacheTtl
      <4>1. more \in Seq(CachedEntry) /\ Len(more) = Len(kept) + 1
        BY <1>4, <3>1
      <4>2. ASSUME NEW i \in DOMAIN more PROVE more[i].expiresAt <= instant + CacheTtl
        <5>1. CASE i \in DOMAIN kept
          BY <1>4, <5>1
        <5>2. CASE i \notin DOMAIN kept
          <6>1. more[i] = e
            BY <1>4, <5>2
          <6> QED BY <1>2, <6>1
        <5> QED BY <5>1, <5>2
      <4> QED BY <4>1, <4>2
    <3> HIDE DEF more, e
    <3>5. Len(more) <= MaxEntries + 1
      BY <1>2, <1>4, <3>4
    <3>6. cache' = enforceCacheLimit(more) /\ Ordered(more)
      BY <2>2, <3>3 DEF more
    <3> QED BY <3>4, <3>5, <3>6, LimitEnforced
  <2> QED BY <1>5, <2>1, <2>2
<1>7. OldestDropped'
  BY <1>1, <1>6 DEF OldestDropped, CachedEntry, Ordered, buildCacheKey
<1>8. CredTypeOK'
  <2>1. /\ credential' \in [Calls -> Candidate \cup {NoCandidate}]
        /\ callStep' \in [Calls -> CredSteps]
        /\ \A q \in Calls : callStep'[q] # "idle" => candidate[q] \in Candidate
    <3>1. \A i \in DOMAIN kept : kept[i].value \in Candidate
      BY <1>4, EntryType
    <3> QED BY <1>1, <1>5, <3>1 DEF CredInv, CredTypeOK, CredSteps
  <2> QED BY <1>1, <1>6, <2>1 DEF CredInv, CredTypeOK, NoCandidate
<1>9. CredentialAsSelected'
  <2> SUFFICES ASSUME NEW q \in Calls, callStep'[q] = "resolved"
               PROVE  /\ credential'[q].id = candidate[q].id
                      /\ credential'[q].secret = candidate[q].secret
                      /\ \/ credential'[q].meta = candidate[q].meta
                         \/ credential'[q].updatedAt = candidate[q].updatedAt
    BY <1>1 DEF CredentialAsSelected
  <2>1. CASE q # r
    BY <1>5, <2>1 DEF CredInv, CredTypeOK, CredentialAsSelected
  <2>2. CASE q = r
    <3>1. CASE \E i \in hits : credential' = [credential EXCEPT ![r] = kept[i].value]
      <4>1. PICK i \in hits : credential' = [credential EXCEPT ![r] = kept[i].value]
        BY <3>1
      <4>2. credential'[r] = kept[i].value
        BY <4>1 DEF CredInv, CredTypeOK
      <4>3. buildCacheKey(kept[i].value) = buildCacheKey(cand)
        OBVIOUS
      <4> HIDE DEF hits
      <4> QED BY <2>2, <4>2, <4>3 DEF buildCacheKey
    <3>2. CASE credential' = [credential EXCEPT ![r] = cand]
      BY <2>2, <3>2 DEF CredInv, CredTypeOK
    <3>3. CASE callStep' = [callStep EXCEPT ![r] = "failed"]
      BY <2>2, <3>3 DEF CredInv, CredTypeOK
    <3> QED BY <1>5, <3>1, <3>2, <3>3
  <2> QED BY <2>1, <2>2
<1> QED BY <1>7, <1>8, <1>9 DEF CredInv

LEMMA CredStep ==
  ASSUME CredInv, [CredNext]_credVars
  PROVE  CredInv'
<1>1. ASSUME NEW c \in Connections,
             \/ createProviderConnection(c) \/ updateProviderConnection(c)
             \/ revokeProviderConnection(c) \/ recordProviderConnectionTestResult(c)
      PROVE  CredInv'
  <2>1. /\ connection' \in [Connections -> Connection] /\ rowEdits' \in Edits
        /\ UNCHANGED <<cache, callStep, candidate, credential, instant>>
    BY <1>1, ControlSteps DEF CredInv
  <2>2. CredTypeOK'
    BY <2>1 DEF CredInv, CredTypeOK, NoCandidate
  <2>3. CredentialAsSelected' /\ OldestDropped'
    BY <2>1 DEF CredInv, CredentialAsSelected, OldestDropped, buildCacheKey
  <2> QED BY <2>2, <2>3 DEF CredInv
<1>2. ASSUME NEW r \in Calls, selectProvider(r)
      PROVE  CredInv'
  <2>1. PICK c \in Connections :
           candidate' = [candidate EXCEPT ![r] = CandidateOf(c)]
    BY <1>2 DEF selectProvider
  <2>2. CandidateOf(c) \in Candidate
    BY DEF CandidateOf, Candidate, Connection, CredInv, CredTypeOK
  <2>3. /\ callStep' = [callStep EXCEPT ![r] = "selected"]
        /\ UNCHANGED <<connection, cache, credential, instant, rowEdits>>
    BY <1>2 DEF selectProvider
  <2>4. CredTypeOK'
    BY <2>1, <2>2, <2>3 DEF CredInv, CredTypeOK, CredSteps, NoCandidate
  <2>5. CredentialAsSelected'
    BY <2>1, <2>3 DEF CredInv, CredTypeOK, CredentialAsSelected
  <2>6. OldestDropped'
    BY <2>3 DEF CredInv, OldestDropped, buildCacheKey
  <2> QED BY <2>4, <2>5, <2>6 DEF CredInv
<1>3. ASSUME NEW r \in Calls, getDecryptedProviderCredential(r)
      PROVE  CredInv'
  BY <1>3, AnswerStep
<1>4. ASSUME NEW r \in Calls, endCall(r)
      PROVE  CredInv'
  <2>1. CredTypeOK'
    BY <1>4 DEF endCall, CredInv, CredTypeOK, CredSteps, NoCandidate
  <2>2. CredentialAsSelected'
    BY <1>4 DEF endCall, CredInv, CredTypeOK, CredentialAsSelected
  <2>3. OldestDropped'
    BY <1>4 DEF endCall, CredInv, OldestDropped, buildCacheKey
  <2> QED BY <2>1, <2>2, <2>3 DEF CredInv
<1>5. CASE CredTick
  <2>1. CredTypeOK'
    BY <1>5, CredConstantsOK DEF CredTick, CredInv, CredTypeOK, Instants, NoCandidate
  <2>2. CredentialAsSelected'
    BY <1>5 DEF CredTick, CredInv, CredentialAsSelected
  <2>3. OldestDropped'
    <3>1. /\ cache \in Seq(CachedEntry) /\ Ordered(cache) /\ Len(cache) <= MaxEntries
          /\ \A i \in DOMAIN cache : cache[i].expiresAt <= instant + CacheTtl
      BY OldestDroppedOrdered DEF CredInv
    <3>2. instant \in Nat /\ CacheTtl \in Nat /\ instant' = instant + 1 /\ cache' = cache
      BY <1>5, CredConstantsOK DEF CredTick, CredInv, CredTypeOK, Instants
    <3>3. \A i \in DOMAIN cache : cache[i].expiresAt \in Nat
      BY <3>1, EntryType
    <3>4. \A i \in DOMAIN cache : cache[i].expiresAt <= instant' + CacheTtl
      BY <3>1, <3>2, <3>3
    <3> QED BY <3>1, <3>2, <3>4 DEF OldestDropped, CachedEntry, Ordered, buildCacheKey
  <2> QED BY <2>1, <2>2, <2>3 DEF CredInv
<1>6. CASE UNCHANGED credVars
  BY <1>6 DEF credVars, CredInv, CredTypeOK, CredentialAsSelected, OldestDropped,
              buildCacheKey, NoCandidate
<1> QED BY <1>1, <1>2, <1>3, <1>4, <1>5, <1>6 DEF CredNext

\* Every variable keeps the type the code gives it.
THEOREM CredTypeCorrect == CredSpec => []CredTypeOK
<1>1. CredInv => CredTypeOK
  BY DEF CredInv
<1> QED BY <1>1, InitCred, CredStep, PTL DEF CredSpec

\* A call is made with the key of the connection as the call selected it,
\* whatever is edited meanwhile and whatever other calls put in the cache.
THEOREM CredentialAsSelectedHolds == CredSpec => []CredentialAsSelected
<1>1. CredInv => CredentialAsSelected
  BY DEF CredInv
<1> QED BY <1>1, InitCred, CredStep, PTL DEF CredSpec

\* The cache never holds more than its limit, no key twice, and no entry longer
\* than the time to live; what the limit cuts would have expired first.
THEOREM OldestDroppedHolds == CredSpec => []OldestDropped
<1>1. CredInv => OldestDropped
  BY DEF CredInv
<1> QED BY <1>1, InitCred, CredStep, PTL DEF CredSpec

=============================================================================
