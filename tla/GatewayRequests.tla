--------------------------- MODULE GatewayRequests ---------------------------
(***************************************************************************)
(* One request at the gateway, from its arrival to the usage event written  *)
(* for it: the handler, the call of the provider, the stream piped to the    *)
(* client while a copy of it is inspected, the timer and the connection that *)
(* may abort the call, and the catch around all of it.                       *)
(*                                                                         *)
(* A step is a task of the event loop: the promise jobs it leaves behind run *)
(* before the next one, so a chunk that arrives is inspected at once, while  *)
(* the client takes it when its socket has room.  What the provider bills is *)
(* the usage it reports; each chunk reports one number, or zero.             *)
(***************************************************************************)
EXTENDS Naturals, Sequences

CONSTANTS
    Requests,    \* requests
    MaxChunks,   \* bound: chunks of a streamed answer
    MaxUsage     \* bound: usage a provider reports

ASSUME RequestConstantsOK == MaxChunks \in Nat /\ MaxUsage \in Nat

VARIABLE call    \* of each request: its handler, its client, its provider

requestVars == <<call>>

Stages  == {"idle", "checks", "prepare", "fetch", "body", "pipe", "drain",
            "record", "fail", "reply", "done"}
Armed   == {"fetch", "body", "pipe", "drain"}
Reasons == {"none", "refused", "failed", "client_disconnected", "terminated"}
Unrecorded == {"no", "turned_away", "lookup", "insertion", "process"}

UsageEvent == [status : {"success", "blocked", "error"}, reason : Reasons,
               usage : Nat]

Call == [pc       : Stages,
         client   : {"there", "gone"},
         signal   : {"none", "client", "timeout"},   \* why the call was aborted
         source   : {"none", "open", "closed", "failed"},
         streamed : BOOLEAN,
         ok       : BOOLEAN,
         reported : Seq(Nat),      \* what each chunk said had been used
         usage    : Nat,           \* what the handler has added it up to
         sent     : Nat,           \* chunks the client has taken
         ended    : BOOLEAN,       \* the reply's end has been written
         reason   : Reasons,
         events   : Seq(UsageEvent),
         unrecorded : Unrecorded]  \* what has kept its event from being inserted

NoCall == [pc |-> "idle", client |-> "there", signal |-> "none",
           source |-> "none", streamed |-> FALSE, ok |-> FALSE,
           reported |-> <<>>, usage |-> 0, sent |-> 0, ended |-> FALSE,
           reason |-> "none", events |-> <<>>, unrecorded |-> "no"]

RequestsInit == call = [r \in Requests |-> NoCall]

-----------------------------------------------------------------------------
(* Helpers *)

At(r, stage) == call[r].pc = stage

Become(r, c) == call' = [call EXCEPT ![r] = c]

Larger(m, n) == IF m < n THEN n ELSE m

\* An event that cannot be inserted is logged and dropped.
appendUsageEventSafely(c, e) ==
    {[c EXCEPT !.pc = "reply", !.events = Append(@, e)],
     [c EXCEPT !.pc = "reply", !.unrecorded = "insertion"]}

\* The first of the two signals decides; the answer under way breaks off.
Aborted(c, why) ==
    IF c.pc \in Armed /\ c.signal = "none"
    THEN [c EXCEPT !.signal = why,
                   !.source = IF @ = "open" THEN "failed" ELSE @]
    ELSE c

StatusOf(c) == IF c.reason = "none" /\ c.ok THEN "success" ELSE "error"

\* Seeded fault: the status is the reason.
reasonAsStatus(c) == c.reason

FailureOf(c) == IF c.reason = "refused" THEN "blocked" ELSE "error"

-----------------------------------------------------------------------------
(* Before the provider is called *)

arrive(r) ==
    /\ call[r].pc \in {"idle", "done"}
    /\ Become(r, [NoCall EXCEPT !.pc = "checks"])

\* A browser of another origin is refused by a hook, and a body that cannot be
\* read, by the server: the handler never sees the request.
turnAway(r) ==
    /\ call[r].pc \in {"idle", "done"}
    /\ Become(r, [NoCall EXCEPT !.pc = "done", !.unrecorded = "turned_away"])

\* No key, a key that is unknown, revoked or expired, a scope it does not
\* have, or a body that makes no sense.
refuse(r) ==
    /\ At(r, "checks")
    /\ \E c \in appendUsageEventSafely(
                  call[r], [status |-> "blocked", reason |-> "refused", usage |-> 0]) :
          Become(r, c)

\* The key is looked up outside of the handler's try: when that fails, nobody
\* attempts to insert an event.
resolveError(r) ==
    /\ At(r, "checks")
    /\ Become(r, [call[r] EXCEPT !.pc = "done", !.unrecorded = "lookup"])

admit(r) ==
    /\ At(r, "checks")
    /\ Become(r, [call[r] EXCEPT !.pc = "prepare"])

\* Lists and descriptions of models are answered from the catalog.
answerFromCatalog(r) ==
    /\ At(r, "prepare")
    /\ \E c \in appendUsageEventSafely(
                  call[r], [status |-> "success", reason |-> "none", usage |-> 0]) :
          Become(r, c)

\* No provider, no price, no budget left, or an error of the database.
prepareFails(r) ==
    /\ At(r, "prepare")
    /\ \E why \in {"refused", "failed"} :
          Become(r, [call[r] EXCEPT !.pc = "fail", !.reason = why])

\* Seeded fault: only what happens to the connection from now on is noticed.
listenOnly(r) ==
    /\ At(r, "prepare")
    /\ Become(r, [call[r] EXCEPT !.pc = "fetch"])

\* The call starts under a signal that is aborted already if the client has
\* left before anybody listened.
createUpstreamAbortSignal(r) ==
    /\ At(r, "prepare")
    /\ LET c == [call[r] EXCEPT !.pc = "fetch"]
       IN  Become(r, IF c.client = "gone" THEN Aborted(c, "client") ELSE c)

-----------------------------------------------------------------------------
(* The call *)

performProviderPassthrough(r) ==
    /\ At(r, "fetch") /\ call[r].signal = "none"
    /\ \E streamed, ok \in BOOLEAN :
          Become(r, [call[r] EXCEPT !.pc = IF streamed THEN "pipe" ELSE "body",
                                    !.source = "open", !.streamed = streamed,
                                    !.ok = ok])

\* The connection is not configured, or the provider cannot be reached.
fetchError(r) ==
    /\ At(r, "fetch") /\ call[r].signal = "none"
    /\ \E why \in {"refused", "failed"} :
          Become(r, [call[r] EXCEPT !.pc = "fail", !.reason = why])

fetchAborted(r) ==
    /\ At(r, "fetch") /\ call[r].signal # "none"
    /\ Become(r, [call[r] EXCEPT
                    !.pc = "fail",
                    !.reason = IF call[r].signal = "client"
                               THEN "client_disconnected" ELSE "failed"])

\* A plain answer reports its usage in the whole body.
textResolved(r) ==
    /\ At(r, "body") /\ call[r].source = "closed"
    /\ \E n \in 0 .. MaxUsage :
          Become(r, [call[r] EXCEPT !.pc = "record", !.usage = n])

\* The body is read outside of the try that tells aborts apart.
textRejected(r) ==
    /\ At(r, "body") /\ call[r].source = "failed"
    /\ Become(r, [call[r] EXCEPT !.pc = "fail", !.reason = "failed"])

\* Seeded fault: the last report replaces the ones before.
lastReported(c, n) == n

mergeUsageCounts(c, n) == Larger(c.usage, n)

buildUsageEventFromStream(r) ==
    /\ call[r].source = "open" /\ call[r].streamed
    /\ Len(call[r].reported) < MaxChunks
    /\ \E n \in 0 .. MaxUsage :
          Become(r, [call[r] EXCEPT !.reported = Append(@, n),
                                    !.usage = mergeUsageCounts(call[r], n)])

sourceEnds(r) ==
    /\ call[r].source = "open"
    /\ \E how \in {"closed", "failed"} : Become(r, [call[r] EXCEPT !.source = how])

-----------------------------------------------------------------------------
(* The stream to the client; an error of its source drops what it still holds *)

deliver(r) ==
    /\ At(r, "pipe") /\ call[r].client = "there" /\ call[r].source # "failed"
    /\ call[r].sent < Len(call[r].reported)
    /\ Become(r, [call[r] EXCEPT !.sent = @ + 1])

endReply(r) ==
    /\ At(r, "pipe") /\ call[r].client = "there" /\ call[r].source = "closed"
    /\ call[r].sent = Len(call[r].reported) /\ ~call[r].ended
    /\ Become(r, [call[r] EXCEPT !.ended = TRUE])

pipelineResolves(r) ==
    /\ At(r, "pipe") /\ call[r].client = "there" /\ call[r].ended
    /\ Become(r, [call[r] EXCEPT !.pc = "drain"])

pipelineRejects(r) ==
    /\ At(r, "pipe")
    /\ call[r].client = "gone" \/ call[r].source = "failed"
    /\ Become(r, [call[r] EXCEPT
                    !.pc = "drain",
                    !.reason = IF call[r].signal = "client"
                               THEN "client_disconnected" ELSE "terminated"])

\* The inspected copy has come to its end, one way or the other.
finalizeStreamUsageEvent(r) ==
    /\ At(r, "drain") /\ call[r].source \in {"closed", "failed"}
    /\ Become(r, [call[r] EXCEPT !.pc = "record"])

-----------------------------------------------------------------------------
(* The usage event *)

recordUsage(r) ==
    /\ At(r, "record")
    /\ \E c \in appendUsageEventSafely(
                  call[r], [status |-> StatusOf(call[r]), reason |-> call[r].reason,
                            usage |-> call[r].usage]) :
          Become(r, c)

handleFailure(r) ==
    /\ At(r, "fail")
    /\ \E c \in appendUsageEventSafely(
                  call[r], [status |-> FailureOf(call[r]), reason |-> call[r].reason,
                            usage |-> 0]) :
          Become(r, c)

\* Seeded fault: to answer a client that has left is an error of the handler.
replyOrFail(r) ==
    /\ At(r, "reply")
    /\ Become(r, IF call[r].client = "gone" /\ Len(call[r].events) < 2
                 THEN [call[r] EXCEPT !.pc = "fail", !.reason = "failed"]
                 ELSE [call[r] EXCEPT !.pc = "done"])

\* Alerts are brought up to date; an answer not streamed is sent, if there is
\* still somebody to send it to.
reply(r) ==
    /\ At(r, "reply")
    /\ Become(r, [call[r] EXCEPT !.pc = "done"])

-----------------------------------------------------------------------------
(* The timer, the connection and the process *)

\* Seeded fault: the timer is cleared once the headers have arrived.
timesOutEarly(r) ==
    /\ At(r, "fetch") /\ call[r].signal = "none"
    /\ Become(r, Aborted(call[r], "timeout"))

timesOut(r) ==
    /\ call[r].pc \in Armed /\ call[r].signal = "none"
    /\ Become(r, Aborted(call[r], "timeout"))

\* Once the end of the reply is written, its close is not taken for an abort.
clientLeaves(r) ==
    /\ call[r].pc \notin {"idle", "done"} /\ call[r].client = "there"
    /\ LET c == [call[r] EXCEPT !.client = "gone"]
       IN  Become(r, IF c.ended THEN c ELSE Aborted(c, "client"))

Broken(c) == IF c.pc \in {"idle", "done"} THEN c
             ELSE [c EXCEPT !.pc = "done",
                            !.unrecorded = IF c.events = <<>> /\ @ = "no" THEN "process" ELSE @,
                            !.source = IF @ = "open" THEN "failed" ELSE @]

\* Nothing resumes what the process was doing when it ended.
processEnds ==
    /\ \E r \in Requests : call[r].pc \notin {"idle", "done"}
    /\ call' = [r \in Requests |-> Broken(call[r])]

-----------------------------------------------------------------------------

handleRequest(r) ==
    \/ refuse(r) \/ resolveError(r) \/ admit(r)
    \/ answerFromCatalog(r) \/ prepareFails(r) \/ createUpstreamAbortSignal(r)
    \/ fetchAborted(r) \/ textResolved(r) \/ textRejected(r)
    \/ endReply(r) \/ pipelineResolves(r) \/ pipelineRejects(r)
    \/ finalizeStreamUsageEvent(r) \/ recordUsage(r)
    \/ handleFailure(r) \/ reply(r)

provider(r) ==
    \/ performProviderPassthrough(r) \/ fetchError(r)
    \/ buildUsageEventFromStream(r) \/ sourceEnds(r)

RequestsNext ==
    \/ \E r \in Requests :
          \/ arrive(r) \/ turnAway(r) \/ handleRequest(r) \/ provider(r)
          \/ deliver(r) \/ timesOut(r) \/ clientLeaves(r)
    \/ processEnds

RequestsSpec == RequestsInit /\ [][RequestsNext]_requestVars

-----------------------------------------------------------------------------
(* Properties *)

\* Every variable has the type the code gives it.
RequestsTypeOK == call \in [Requests -> Call]

\* Whatever broke off first, the provider, the timer, the client or the
\* database, a request that is over has written one usage event and never two;
\* it has written none in these cases only: it was refused before the handler
\* saw it, the look-up of its key failed, the insertion of its event failed, or
\* the process ended before.
RecordedOnce ==
    \A r \in Requests :
       /\ Len(call[r].events) <= 1
       /\ call[r].unrecorded # "no" => call[r].events = <<>>
       /\ At(r, "done") /\ call[r].unrecorded = "no" => Len(call[r].events) = 1

\* The event of a streamed answer charges no less than any chunk the client
\* was given said, however the stream ended; it is a success only if the
\* client was given all of it; and a disconnect is only recorded of a client
\* that has left.
RecordedAsDelivered ==
    \A r \in Requests : \A i \in DOMAIN call[r].events :
       LET c == call[r]
           e == c.events[i]
       IN  /\ c.streamed => \A k \in 1 .. c.sent : c.reported[k] <= e.usage
           /\ c.streamed /\ e.status = "success" => c.sent = Len(c.reported)
           /\ e.reason = "client_disconnected" => c.client = "gone"

\* No provider is kept working on an answer nobody waits for, whether the
\* client left before the call, during it or in the middle of the answer.
AbandonedCallAborted ==
    \A r \in Requests :
       call[r].client = "gone" /\ call[r].pc \in Armed =>
          call[r].signal # "none" \/ call[r].source = "closed"

\* A request always comes to an end: a provider that never answers, or stops
\* in the middle of an answer, does not hold it for ever.
RequestsSettle ==
    \A r \in Requests : call[r].pc # "idle" ~> call[r].pc = "done"

==============================================================================
