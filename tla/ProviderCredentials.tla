-------------------------- MODULE ProviderCredentials --------------------------
(***************************************************************************)
(* The gateway's cache of decrypted provider credentials.  A call reads the *)
(* candidate connections when it selects a provider, goes through the       *)
(* budget checks, and only then asks for the credential; meanwhile the      *)
(* connection may be edited, tested or revoked in the control API.  The     *)
(* cache belongs to the process and is not told: what keeps it from         *)
(* answering with an old credential is its key, what bounds how long a      *)
(* secret stays in memory is its time to live, and its size is cut in order *)
(* of insertion.  Times are milliseconds, the precision of updatedAt.       *)
(***************************************************************************)
EXTENDS Naturals, Sequences, FiniteSets

CONSTANTS
    Calls,          \* requests of the gateway in progress at once
    Connections,    \* rows of provider_connections
    CacheTtl,       \* PROVIDER_CREDENTIAL_CACHE_TTL_MS
    MaxEntries,     \* PROVIDER_CREDENTIAL_CACHE_MAX_ENTRIES
    MaxInstant,     \* bound: clock
    MaxRowEdits     \* bound: statements on provider_connections

ASSUME CredConstantsOK ==
    /\ CacheTtl \in Nat \ {0} /\ MaxEntries \in Nat \ {0}
    /\ MaxInstant \in Nat /\ MaxRowEdits \in Nat

VARIABLES
    connection,   \* provider_connections
    cache,        \* providerCredentialCache, in order of insertion
    callStep,     \* where each call stands
    candidate,    \* selectedProvider
    credential,   \* resolvedProvider
    instant,      \* the clock
    rowEdits      \* statements so far; numbers secrets and metadata

credVars == <<connection, cache, callStep, candidate, credential, instant, rowEdits>>

Instants == 0 .. MaxInstant
Edits    == 0 .. MaxRowEdits

\* secret: encrypted_api_key, never the same twice; readable: encrypted with
\* the key of this gateway
Connection == [status : {"none", "active", "revoked"}, secret : Edits, meta : Edits,
               readable : BOOLEAN, updatedAt : Instants]
Candidate  == [id : Connections, secret : Edits, meta : Edits,
               readable : BOOLEAN, updatedAt : Instants]
NoRow      == [status |-> "none", secret |-> 0, meta |-> 0, readable |-> TRUE,
               updatedAt |-> 0]

NoCandidate == [id |-> CHOOSE c \in Connections : TRUE, secret |-> 0, meta |-> 0,
                readable |-> TRUE, updatedAt |-> 0]

CandidateOf(c) == [id |-> c, secret |-> connection[c].secret,
                   meta |-> connection[c].meta, readable |-> connection[c].readable,
                   updatedAt |-> connection[c].updatedAt]

CredInit ==
    /\ connection = [c \in Connections |-> NoRow]
    /\ cache = <<>>
    /\ callStep = [r \in Calls |-> "idle"]
    /\ candidate = [r \in Calls |-> NoCandidate]
    /\ credential = candidate
    /\ instant = 0
    /\ rowEdits = 0

-----------------------------------------------------------------------------
(* The control API *)

Write(c, row) ==
    /\ rowEdits < MaxRowEdits /\ rowEdits' = rowEdits + 1
    /\ connection' = [connection EXCEPT ![c] = [row EXCEPT !.updatedAt = instant]]
    /\ UNCHANGED <<cache, callStep, candidate, credential, instant>>

createProviderConnection(c) ==
    /\ connection[c].status = "none"
    /\ \E readable \in BOOLEAN :
          Write(c, [NoRow EXCEPT !.status = "active", !.secret = rowEdits + 1,
                                 !.meta = rowEdits + 1, !.readable = readable])

\* Of the key, of the metadata, or of both; of a revoked connection too.
updateProviderConnection(c) ==
    /\ connection[c].status # "none"
    /\ \/ \E readable \in BOOLEAN, meta \in {connection[c].meta, rowEdits + 1} :
             Write(c, [connection[c] EXCEPT !.secret = rowEdits + 1,
                                            !.meta = meta, !.readable = readable])
       \/ Write(c, [connection[c] EXCEPT !.meta = rowEdits + 1])

revokeProviderConnection(c) ==
    /\ connection[c].status # "none"
    /\ Write(c, [connection[c] EXCEPT !.status = "revoked"])

\* The result of a test touches updated_at.
recordProviderConnectionTestResult(c) ==
    /\ connection[c].status # "none"
    /\ Write(c, connection[c])

-----------------------------------------------------------------------------
(* The gateway *)

\* Only active connections are candidates.
selectProvider(r) ==
    /\ callStep[r] = "idle"
    /\ \E c \in Connections :
          /\ connection[c].status = "active"
          /\ candidate' = [candidate EXCEPT ![r] = CandidateOf(c)]
    /\ callStep' = [callStep EXCEPT ![r] = "selected"]
    /\ UNCHANGED <<connection, cache, credential, instant, rowEdits>>

\* Seeded fault: one entry per connection and secret.
KeyOfSecret(cand) == <<cand.id, cand.secret>>

buildCacheKey(cand) == <<cand.id, cand.updatedAt, cand.secret>>

Increasing(p) == \A i, j \in DOMAIN p : i < j => p[i] < p[j]

\* Seeded fault: expired entries are left to the limit.
keepExpiredEntries == cache

\* What is left keeps its order.
evictExpiredEntries ==
    LET left   == {i \in DOMAIN cache : cache[i].expiresAt > instant}
        places == CHOOSE p \in [1 .. Cardinality(left) -> left] : Increasing(p)
    IN  [n \in 1 .. Cardinality(left) |-> cache[places[n]]]

\* Map.set: an entry of the same key keeps its place.
SetEntry(entries, e) ==
    LET same == {i \in DOMAIN entries :
                    buildCacheKey(entries[i].value) = buildCacheKey(e.value)}
    IN  IF same = {} THEN Append(entries, e)
                     ELSE [i \in DOMAIN entries |-> IF i \in same THEN e ELSE entries[i]]

enforceCacheLimit(entries) ==
    IF Len(entries) > MaxEntries THEN Tail(entries) ELSE entries

\* Synchronous: nothing of the process runs in between.
getDecryptedProviderCredential(r) ==
    /\ callStep[r] = "selected"
    /\ LET kept == evictExpiredEntries
           cand == candidate[r]
           hits == {i \in DOMAIN kept : /\ kept[i].expiresAt > instant
                                        /\ buildCacheKey(kept[i].value) = buildCacheKey(cand)}
       IN  \/ /\ hits # {}
              /\ cache' = kept
              /\ \E i \in hits : credential' = [credential EXCEPT ![r] = kept[i].value]
              /\ callStep' = [callStep EXCEPT ![r] = "resolved"]
           \/ /\ hits = {} /\ cand.readable
              /\ cache' = enforceCacheLimit(
                    SetEntry(kept, [value |-> cand, expiresAt |-> instant + CacheTtl]))
              /\ credential' = [credential EXCEPT ![r] = cand]
              /\ callStep' = [callStep EXCEPT ![r] = "resolved"]
           \/ /\ hits = {} /\ ~cand.readable
              /\ cache' = kept
              /\ credential' = credential
              /\ callStep' = [callStep EXCEPT ![r] = "failed"]
    /\ UNCHANGED <<connection, candidate, instant, rowEdits>>

\* The call is refused before it needs the credential, or ends after it.
endCall(r) ==
    /\ callStep[r] # "idle"
    /\ callStep' = [callStep EXCEPT ![r] = "idle"]
    /\ candidate' = [candidate EXCEPT ![r] = NoCandidate]
    /\ credential' = [credential EXCEPT ![r] = NoCandidate]
    /\ UNCHANGED <<connection, cache, instant, rowEdits>>

CredTick ==
    /\ instant < MaxInstant
    /\ instant' = instant + 1
    /\ UNCHANGED <<connection, cache, callStep, candidate, credential, rowEdits>>

CredNext ==
    \/ \E c \in Connections :
          \/ createProviderConnection(c) \/ updateProviderConnection(c)
          \/ revokeProviderConnection(c) \/ recordProviderConnectionTestResult(c)
    \/ \E r \in Calls : selectProvider(r) \/ getDecryptedProviderCredential(r) \/ endCall(r)
    \/ CredTick

CredSpec == CredInit /\ [][CredNext]_credVars

-----------------------------------------------------------------------------
(* Properties *)

\* A call is made with the key of the connection as the call selected it, and
\* so never with one that had been replaced by then; the metadata may be older
\* only if it was edited again within the same millisecond.
CredentialAsSelected ==
    \A r \in Calls : callStep[r] = "resolved" =>
       /\ credential[r].id = candidate[r].id
       /\ credential[r].secret = candidate[r].secret
       /\ \/ credential[r].meta = candidate[r].meta
          \/ credential[r].updatedAt = candidate[r].updatedAt

\* The limit drops the credential that would expire first: entries lie in the
\* order they expire, one per key, no more than the limit, none longer than
\* the time to live from now.
OldestDropped ==
    /\ cache \in Seq([value : Candidate, expiresAt : 0 .. MaxInstant + CacheTtl])
    /\ Len(cache) <= MaxEntries
    /\ \A i, j \in DOMAIN cache : i < j =>
          /\ cache[i].expiresAt <= cache[j].expiresAt
          /\ buildCacheKey(cache[i].value) # buildCacheKey(cache[j].value)
    /\ \A i \in DOMAIN cache : cache[i].expiresAt <= instant + CacheTtl

=============================================================================
