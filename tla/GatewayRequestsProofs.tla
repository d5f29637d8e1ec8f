------------------------ MODULE GatewayRequestsProofs ------------------------
(* Theorems about GatewayRequests, for any number of requests, chunks and     *)
(* reports: one usage event for each request, an event that agrees with what  *)
(* the client was given, and no call that goes on for nobody.                 *)
EXTENDS GatewayRequests, TLAPS

Before  == Stages \ {"reply", "done"}
Reading == {"body", "pipe", "drain"}

\* A request has written nothing before it comes to its reply, and by then
\* one event, or none for a reason.
EventInv(c) ==
    /\ c.pc \in Before => c.events = <<>> /\ c.unrecorded = "no"
    /\ Len(c.events) <= 1
    /\ c.unrecorded # "no" => c.events = <<>>
    /\ c.pc \notin Before /\ c.unrecorded = "no" => Len(c.events) = 1

\* What is known of the answer at each stage.
SourceInv(c) ==
    /\ c.source = "open" => c.pc \in Reading
    /\ c.pc \in {"idle", "checks", "prepare", "fetch"} => c.source = "none"
    /\ c.pc \in {"idle", "checks", "prepare", "fetch", "body", "fail"} => ~c.streamed
    /\ ~c.streamed => c.reported = <<>>
    /\ c.ended => c.source = "closed" /\ c.sent = Len(c.reported)

\* A client is only given what has been added up, and a signal or a reason
\* that blames it is right to.
DeliveryInv(c) ==
    /\ c.sent <= Len(c.reported)
    /\ c.streamed => \A k \in 1 .. Len(c.reported) : c.reported[k] <= c.usage
    /\ c.signal = "client" => c.client = "gone"
    /\ c.reason = "client_disconnected" => c.client = "gone"
    /\ c.pc \in {"drain", "record"} /\ c.streamed /\ c.reason = "none" => c.ended

AgreesWith(c, e) ==
    /\ c.streamed => \A k \in 1 .. c.sent : c.reported[k] <= e.usage
    /\ c.streamed /\ e.status = "success" => c.sent = Len(c.reported)
    /\ e.reason = "client_disconnected" => c.client = "gone"

Abandoned(c) == c.client = "gone" /\ c.pc \in Armed
                => c.signal # "none" \/ c.source = "closed"

CallInv(c) ==
    /\ EventInv(c) /\ SourceInv(c) /\ DeliveryInv(c) /\ Abandoned(c)
    /\ \A i \in DOMAIN c.events : AgreesWith(c, c.events[i])

RequestsInv == RequestsTypeOK /\ \A r \in Requests : CallInv(call[r])

LEMMA NoCallInv == NoCall \in Call /\ CallInv(NoCall)
<1>1. NoCall \in Call
  BY DEF NoCall, Call, Stages, Reasons, Unrecorded
<1>2. CallInv(NoCall)
  BY DEF NoCall, CallInv, EventInv, SourceInv, DeliveryInv, Abandoned, Before,
     Stages, Armed, Reading
<1>. QED BY <1>1, <1>2

\* A request that becomes a call that keeps the invariant disturbs no other.
LEMMA BecomeKeeps ==
    ASSUME RequestsInv, NEW r \in Requests, NEW c \in Call, CallInv(c),
           Become(r, c)
    PROVE  RequestsInv'
BY DEF RequestsInv, RequestsTypeOK, Become

\* Writing an event, or losing it, ends what came before the reply.
LEMMA AppendKeeps ==
    ASSUME NEW c \in Call, CallInv(c), c.pc \in Before, c.source # "open",
           NEW e \in UsageEvent, AgreesWith(c, e),
           NEW d \in appendUsageEventSafely(c, e)
    PROVE  d \in Call /\ CallInv(d)
<1>1. CASE d = [c EXCEPT !.pc = "reply", !.unrecorded = "insertion"]
  BY <1>1 DEF Call, Unrecorded, CallInv, EventInv, SourceInv, DeliveryInv, Abandoned, Before,
     Stages, Armed, Reading, AgreesWith
<1>2. CASE d = [c EXCEPT !.pc = "reply", !.events = Append(@, e)]
  <2>1. c.events = <<>>
    BY DEF CallInv, EventInv
  <2>2. Append(c.events, e) = <<e>> /\ <<e>> \in Seq(UsageEvent)
        /\ Len(<<e>>) = 1 /\ DOMAIN <<e>> = {1} /\ <<e>>[1] = e
    BY <2>1
  <2>3. d.events = <<e>>
    BY <1>2, <2>2 DEF Call
  <2>4. d \in Call
    BY <1>2, <2>2 DEF Call, Stages
  <2>5. AgreesWith(d, e)
    BY <1>2 DEF AgreesWith, Call
  <2>6. EventInv(d) /\ SourceInv(d) /\ DeliveryInv(d) /\ Abandoned(d)
    BY <1>2, <2>2, <2>3 DEF Call, CallInv, EventInv, SourceInv, DeliveryInv,
       Abandoned, Before, Stages, Armed, Reading
  <2>. QED BY <2>2, <2>3, <2>4, <2>5, <2>6 DEF CallInv
<1>. QED BY <1>1, <1>2 DEF appendUsageEventSafely

\* The timer changes nothing of a call that is aborted already.
LEMMA TimeoutKeeps ==
    ASSUME NEW c \in Call, CallInv(c)
    PROVE  Aborted(c, "timeout") \in Call /\ CallInv(Aborted(c, "timeout"))
<1>1. Aborted(c, "timeout") \in Call
  BY DEF Aborted, Call
<1>2. CallInv(Aborted(c, "timeout"))
  BY DEF Aborted, Call, CallInv, EventInv, SourceInv, DeliveryInv, Abandoned,
     AgreesWith, Before, Stages, Armed, Reading
<1>. QED BY <1>1, <1>2

\* A client that leaves aborts the call, unless its reply is complete.
LEMMA LeaveKeeps ==
    ASSUME NEW c \in Call, CallInv(c), NEW d,
           d = [c EXCEPT !.client = "gone"]
    PROVE  /\ c.ended => d \in Call /\ CallInv(d)
           /\ ~c.ended => /\ Aborted(d, "client") \in Call
                          /\ CallInv(Aborted(d, "client"))
<1>1. d \in Call
  BY DEF Call
<1>2. ASSUME c.ended PROVE CallInv(d)
  BY <1>2 DEF Call, CallInv, EventInv, SourceInv, DeliveryInv, Abandoned,
     AgreesWith, Before, Stages, Armed, Reading
<1>3. Aborted(d, "client") \in Call
  BY <1>1 DEF Aborted, Call
<1>4. ASSUME ~c.ended PROVE CallInv(Aborted(d, "client"))
  BY <1>4 DEF Aborted, Call, CallInv, EventInv, SourceInv, DeliveryInv, Abandoned,
     AgreesWith, Before, Stages, Armed, Reading
<1>. QED BY <1>1, <1>2, <1>3, <1>4

LEMMA MergeCovers ==
    ASSUME NEW c \in Call, NEW n \in Nat
    PROVE  /\ mergeUsageCounts(c, n) \in Nat
           /\ c.usage <= mergeUsageCounts(c, n) /\ n <= mergeUsageCounts(c, n)
BY DEF mergeUsageCounts, Larger, Call

\* A chunk is counted before the client can be given it.
LEMMA ChunkKeeps ==
    ASSUME NEW c \in Call, CallInv(c), c.source = "open", c.streamed, NEW n \in Nat,
           NEW d, d = [c EXCEPT !.reported = Append(@, n),
                                !.usage = mergeUsageCounts(c, n)]
    PROVE  d \in Call /\ CallInv(d)
<1>1. /\ Append(c.reported, n) \in Seq(Nat)
      /\ Len(Append(c.reported, n)) = Len(c.reported) + 1
      /\ \A k \in 1 .. Len(c.reported) : Append(c.reported, n)[k] = c.reported[k]
      /\ Append(c.reported, n)[Len(c.reported) + 1] = n
  BY DEF Call
<1>2. mergeUsageCounts(c, n) \in Nat
      /\ c.usage <= mergeUsageCounts(c, n) /\ n <= mergeUsageCounts(c, n)
  BY MergeCovers
<1>3. d \in Call
  BY <1>1, <1>2 DEF Call
<1>4. /\ d.reported = Append(c.reported, n) /\ d.usage = mergeUsageCounts(c, n)
      /\ d.pc = c.pc /\ d.client = c.client /\ d.signal = c.signal
      /\ d.source = "open" /\ d.streamed /\ d.sent = c.sent /\ d.ended = c.ended
      /\ d.reason = c.reason /\ d.events = c.events /\ d.unrecorded = c.unrecorded
  BY DEF Call
<1>5. c.pc \in Reading /\ ~c.ended /\ c.events = <<>> /\ c.pc \in Before
  BY DEF CallInv, SourceInv, EventInv, Before, Stages, Reading
<1>6. \A k \in 1 .. Len(d.reported) : d.reported[k] <= d.usage
  <2>. TAKE k \in 1 .. Len(d.reported)
  <2>1. CASE k = Len(c.reported) + 1
    BY <2>1, <1>1, <1>2, <1>4
  <2>2. CASE k # Len(c.reported) + 1
    <3>1. k \in 1 .. Len(c.reported)
      BY <2>2, <1>1, <1>4 DEF Call
    <3>2. c.reported[k] <= c.usage
      BY <3>1 DEF CallInv, DeliveryInv
    <3>3. c.reported[k] \in Nat /\ c.usage \in Nat
      BY <3>1 DEF Call
    <3>. QED BY <3>1, <3>2, <3>3, <1>1, <1>2, <1>4
  <2>. QED BY <2>1, <2>2
<1>7. EventInv(d) /\ SourceInv(d) /\ Abandoned(d)
  BY <1>4, <1>5 DEF CallInv, EventInv, SourceInv, Abandoned
<1>8. DeliveryInv(d)
  <2>1. d.sent <= Len(d.reported)
    BY <1>1, <1>4 DEF CallInv, DeliveryInv, Call
  <2>2. d.pc \in {"drain", "record"} /\ d.streamed /\ d.reason = "none" => d.ended
    BY <1>4 DEF CallInv, DeliveryInv
  <2>3. /\ d.signal = "client" => d.client = "gone"
        /\ d.reason = "client_disconnected" => d.client = "gone"
    BY <1>4 DEF CallInv, DeliveryInv
  <2>. QED BY <1>6, <2>1, <2>2, <2>3 DEF DeliveryInv
<1>9. \A i \in DOMAIN d.events : AgreesWith(d, d.events[i])
  BY <1>4, <1>5
<1>. QED BY <1>3, <1>7, <1>8, <1>9 DEF CallInv

-----------------------------------------------------------------------------
(* The steps before the answer, of the answer, and of its delivery *)

LEMMA PrepareKeeps ==
    ASSUME RequestsInv, NEW r \in Requests,
           \/ resolveError(r) \/ admit(r) \/ prepareFails(r) \/ fetchError(r)
           \/ fetchAborted(r) \/ textRejected(r)
    PROVE  RequestsInv'
<1>. DEFINE c == call[r]
<1>1. c \in Call /\ CallInv(c)
  BY DEF RequestsInv, RequestsTypeOK
<1>2. CASE resolveError(r)
  <2>1. PICK d : Become(r, d) /\ d = [c EXCEPT !.pc = "done", !.unrecorded = "lookup"]
    BY <1>2 DEF resolveError
  <2>2. d \in Call
    BY <1>1, <2>1 DEF Call, Stages, Unrecorded
  <2>3. CallInv(d)
    BY <1>1, <1>2, <2>1 DEF resolveError, At, Call, CallInv, EventInv, SourceInv,
       DeliveryInv, Abandoned, Before, Stages, Armed, Reading
  <2>. QED BY <2>1, <2>2, <2>3, BecomeKeeps
<1>3. CASE admit(r)
  <2>1. PICK d : Become(r, d) /\ d = [c EXCEPT !.pc = "prepare"]
    BY <1>3 DEF admit
  <2>2. d \in Call
    BY <1>1, <2>1 DEF Call, Stages
  <2>3. CallInv(d)
    BY <1>1, <1>3, <2>1 DEF admit, At, Call, CallInv, EventInv, SourceInv,
       DeliveryInv, Abandoned, Before, Stages, Armed, Reading
  <2>. QED BY <2>1, <2>2, <2>3, BecomeKeeps
<1>4. CASE prepareFails(r) \/ fetchError(r) \/ fetchAborted(r) \/ textRejected(r)
  <2>1. PICK why \in {"refused", "failed", "client_disconnected"} :
          /\ Become(r, [c EXCEPT !.pc = "fail", !.reason = why])
          /\ why = "client_disconnected" => c.signal = "client"
    BY <1>4 DEF prepareFails, fetchError, fetchAborted, textRejected
  <2>2. c.pc \in {"prepare", "fetch", "body"} /\ c.source # "open"
    BY <1>1, <1>4 DEF prepareFails, fetchError, fetchAborted, textRejected, At,
       CallInv, SourceInv
  <2>3. PICK d : Become(r, d) /\ d = [c EXCEPT !.pc = "fail", !.reason = why]
    BY <2>1
  <2>4. d \in Call
    BY <1>1, <2>3 DEF Call, Stages, Reasons
  <2>5. CallInv(d)
    BY <1>1, <2>1, <2>2, <2>3 DEF Call, CallInv, EventInv, SourceInv, DeliveryInv,
       Abandoned, Before, Stages, Armed, Reading
  <2>. QED BY <2>3, <2>4, <2>5, BecomeKeeps
<1>. QED BY <1>2, <1>3, <1>4

LEMMA AnswerKeeps ==
    ASSUME RequestsInv, NEW r \in Requests,
           \/ performProviderPassthrough(r) \/ textResolved(r) \/ sourceEnds(r)
           \/ finalizeStreamUsageEvent(r) \/ reply(r)
    PROVE  RequestsInv'
<1>. DEFINE c == call[r]
<1>1. c \in Call /\ CallInv(c)
  BY DEF RequestsInv, RequestsTypeOK
<1>2. CASE performProviderPassthrough(r)
  <2>1. PICK streamed, ok, d :
          /\ streamed \in BOOLEAN /\ ok \in BOOLEAN /\ Become(r, d)
          /\ d = [c EXCEPT !.pc = IF streamed THEN "pipe" ELSE "body",
                           !.source = "open", !.streamed = streamed, !.ok = ok]
    BY <1>2 DEF performProviderPassthrough
  <2>2. d \in Call
    BY <1>1, <2>1 DEF Call, Stages
  <2>3. c.pc = "fetch" /\ c.signal = "none" /\ c.client # "gone" /\ c.sent <= Len(c.reported)
        /\ ~c.ended /\ c.events = <<>> /\ c.reason # "client_disconnected"
    BY <1>1, <1>2 DEF performProviderPassthrough, At, CallInv, SourceInv, EventInv,
       Abandoned, DeliveryInv, Armed, Before, Stages
  <2>4. CallInv(d)
    BY <1>1, <2>1, <2>3 DEF Call, CallInv, EventInv, SourceInv, DeliveryInv,
       Abandoned, Before, Stages, Armed, Reading
  <2>. QED BY <2>1, <2>2, <2>4, BecomeKeeps
<1>3. CASE textResolved(r)
  <2>1. PICK n, d :
          n \in 0 .. MaxUsage /\ Become(r, d) /\ d = [c EXCEPT !.pc = "record", !.usage = n]
    BY <1>3 DEF textResolved
  <2>. n \in Nat
    BY <2>1, RequestConstantsOK
  <2>2. d \in Call
    BY <1>1, <2>1 DEF Call, Stages
  <2>3. c.pc = "body" /\ c.source = "closed" /\ ~c.streamed /\ c.events = <<>>
    BY <1>1, <1>3 DEF textResolved, At, CallInv, SourceInv, EventInv, Before, Stages
  <2>4. CallInv(d)
    BY <1>1, <2>1, <2>3 DEF Call, CallInv, EventInv, SourceInv, DeliveryInv,
       Abandoned, Before, Stages, Armed, Reading
  <2>. QED BY <2>1, <2>2, <2>4, BecomeKeeps
<1>4. CASE sourceEnds(r)
  <2>1. PICK how, d : /\ how \in {"closed", "failed"} /\ Become(r, d)
                      /\ d = [c EXCEPT !.source = how]
    BY <1>4 DEF sourceEnds
  <2>2. d \in Call
    BY <1>1, <2>1 DEF Call
  <2>3. CallInv(d)
    BY <1>1, <1>4, <2>1 DEF sourceEnds, Call, CallInv, EventInv, SourceInv,
       DeliveryInv, Abandoned, Before, Stages, Armed, Reading
  <2>. QED BY <2>1, <2>2, <2>3, BecomeKeeps
<1>5. CASE finalizeStreamUsageEvent(r)
  <2>1. PICK d : Become(r, d) /\ d = [c EXCEPT !.pc = "record"]
    BY <1>5 DEF finalizeStreamUsageEvent
  <2>2. d \in Call /\ CallInv(d)
    BY <1>1, <1>5, <2>1 DEF finalizeStreamUsageEvent, At, Call, CallInv, EventInv,
       SourceInv, DeliveryInv, Abandoned, Before, Stages, Armed, Reading
  <2>. QED BY <2>1, <2>2, BecomeKeeps
<1>6. CASE reply(r)
  <2>1. PICK d : Become(r, d) /\ d = [c EXCEPT !.pc = "done"]
    BY <1>6 DEF reply
  <2>2. d \in Call
    BY <1>1, <2>1 DEF Call, Stages
  <2>3. /\ EventInv(d) /\ SourceInv(d) /\ DeliveryInv(d) /\ Abandoned(d)
        /\ d.events = c.events
    BY <1>1, <1>6, <2>1 DEF reply, At, Call, CallInv, EventInv, SourceInv,
       DeliveryInv, Abandoned, Before, Stages, Armed, Reading
  <2>4. \A i \in DOMAIN c.events : AgreesWith(d, c.events[i])
    BY <1>1, <2>1 DEF CallInv, AgreesWith, Call
  <2>. QED BY <2>1, <2>2, <2>3, <2>4, BecomeKeeps DEF CallInv
<1>. QED BY <1>2, <1>3, <1>4, <1>5, <1>6

LEMMA PipeKeeps ==
    ASSUME RequestsInv, NEW r \in Requests,
           deliver(r) \/ endReply(r) \/ pipelineResolves(r) \/ pipelineRejects(r)
    PROVE  RequestsInv'
<1>. DEFINE c == call[r]
<1>1. c \in Call /\ CallInv(c) /\ c.pc = "pipe" /\ c.events = <<>>
  BY DEF RequestsInv, RequestsTypeOK, deliver, endReply, pipelineResolves,
     pipelineRejects, At, CallInv, EventInv, Before, Stages
<1>2. CASE deliver(r)
  <2>1. PICK d : Become(r, d) /\ d = [c EXCEPT !.sent = @ + 1]
    BY <1>2 DEF deliver
  <2>2. d \in Call
    <3>1. c.sent + 1 \in Nat
      BY <1>1 DEF Call
    <3>. QED BY <1>1, <2>1, <3>1 DEF Call
  <2>3. c.sent < Len(c.reported) /\ ~c.ended /\ Len(c.reported) \in Nat
    BY <1>1, <1>2 DEF deliver, CallInv, SourceInv, Call
  <2>4. d.sent <= Len(d.reported) /\ ~d.ended
    BY <1>1, <2>1, <2>3 DEF Call
  <2>5. CallInv(d)
    BY <1>1, <2>1, <2>4 DEF Call, CallInv, EventInv, SourceInv, DeliveryInv,
       Abandoned, Before, Stages, Armed, Reading
  <2>. QED BY <2>1, <2>2, <2>5, BecomeKeeps
<1>3. CASE endReply(r)
  <2>1. PICK d : Become(r, d) /\ d = [c EXCEPT !.ended = TRUE]
    BY <1>3 DEF endReply
  <2>2. d \in Call
    BY <1>1, <2>1 DEF Call, Stages
  <2>3. CallInv(d)
    BY <1>1, <1>3, <2>1 DEF endReply, At, Call, CallInv, EventInv, SourceInv,
       DeliveryInv, Abandoned, Before, Stages, Armed, Reading
  <2>. QED BY <2>1, <2>2, <2>3, BecomeKeeps
<1>4. CASE pipelineResolves(r)
  <2>1. PICK d : Become(r, d) /\ d = [c EXCEPT !.pc = "drain"]
    BY <1>4 DEF pipelineResolves
  <2>2. d \in Call /\ CallInv(d)
    BY <1>1, <1>4, <2>1 DEF pipelineResolves, Call, CallInv, EventInv, SourceInv,
       DeliveryInv, Abandoned, Before, Stages, Armed, Reading
  <2>. QED BY <2>1, <2>2, BecomeKeeps
<1>5. CASE pipelineRejects(r)
  <2>1. PICK why, d :
          /\ why \in {"client_disconnected", "terminated"} /\ Become(r, d)
          /\ d = [c EXCEPT !.pc = "drain", !.reason = why]
          /\ why = "client_disconnected" => c.signal = "client"
    <3>. DEFINE cause == IF c.signal = "client" THEN "client_disconnected" ELSE "terminated"
    <3>1. Become(r, [c EXCEPT !.pc = "drain", !.reason = cause])
      BY <1>5 DEF pipelineRejects
    <3>2. cause \in {"client_disconnected", "terminated"}
          /\ (cause = "client_disconnected" => c.signal = "client")
      OBVIOUS
    <3>. HIDE DEF cause
    <3>. QED BY <3>1, <3>2
  <2>2. d \in Call
    BY <1>1, <2>1 DEF Call, Stages, Reasons
  <2>3. CallInv(d)
    BY <1>1, <1>5, <2>1 DEF Call, CallInv, EventInv, SourceInv,
       DeliveryInv, Abandoned, Before, Stages, Armed, Reading
  <2>. QED BY <2>1, <2>2, <2>3, BecomeKeeps
<1>. QED BY <1>2, <1>3, <1>4, <1>5

-----------------------------------------------------------------------------
(* The steps that write the event, and those of timer, client and process *)

LEMMA WriteKeeps ==
    ASSUME RequestsInv, NEW r \in Requests,
           refuse(r) \/ answerFromCatalog(r) \/ recordUsage(r) \/ handleFailure(r)
    PROVE  RequestsInv'
<1>. DEFINE c == call[r]
<1>1. c \in Call /\ CallInv(c)
  BY DEF RequestsInv, RequestsTypeOK
<1>2. c.pc \in Before /\ c.source # "open" /\ c.pc \in Stages \ {"body", "pipe", "drain"}
  BY <1>1 DEF refuse, answerFromCatalog, recordUsage, handleFailure, At, CallInv,
     SourceInv, Before, Stages, Reading
<1>. SUFFICES \E e \in UsageEvent :
                 AgreesWith(c, e) /\ \E d \in appendUsageEventSafely(c, e) : Become(r, d)
  BY <1>1, <1>2, AppendKeeps, BecomeKeeps
<1>3. CASE refuse(r)
  <2>. DEFINE e == [status |-> "blocked", reason |-> "refused", usage |-> 0]
  <2>1. e \in UsageEvent
    BY DEF UsageEvent, Reasons
  <2>2. AgreesWith(c, e)
    BY <1>1, <1>3 DEF refuse, At, CallInv, SourceInv, AgreesWith
  <2>. QED BY <1>3, <2>1, <2>2 DEF refuse
<1>4. CASE answerFromCatalog(r)
  <2>. DEFINE e == [status |-> "success", reason |-> "none", usage |-> 0]
  <2>1. e \in UsageEvent
    BY DEF UsageEvent, Reasons
  <2>2. AgreesWith(c, e)
    BY <1>1, <1>4 DEF answerFromCatalog, At, CallInv, SourceInv, AgreesWith
  <2>. QED BY <1>4, <2>1, <2>2 DEF answerFromCatalog
<1>5. CASE recordUsage(r)
  <2>. DEFINE e == [status |-> StatusOf(c), reason |-> c.reason, usage |-> c.usage]
  <2>1. e \in UsageEvent
    BY <1>1 DEF UsageEvent, StatusOf, Call
  <2>2. c.streamed => \A k \in 1 .. c.sent : c.reported[k] <= e.usage
    BY <1>1 DEF CallInv, DeliveryInv, Call
  <2>3. c.streamed /\ e.status = "success" => c.sent = Len(c.reported)
    BY <1>1, <1>5 DEF recordUsage, At, StatusOf, CallInv, DeliveryInv, SourceInv
  <2>4. e.reason = "client_disconnected" => c.client = "gone"
    BY <1>1 DEF CallInv, DeliveryInv
  <2>. QED BY <1>5, <2>1, <2>2, <2>3, <2>4 DEF recordUsage, AgreesWith
<1>6. CASE handleFailure(r)
  <2>. DEFINE e == [status |-> FailureOf(c), reason |-> c.reason, usage |-> 0]
  <2>1. e \in UsageEvent
    BY <1>1 DEF UsageEvent, FailureOf, Call
  <2>2. AgreesWith(c, e)
    BY <1>1, <1>6 DEF handleFailure, At, CallInv, SourceInv, DeliveryInv, AgreesWith
  <2>. QED BY <1>6, <2>1, <2>2 DEF handleFailure
<1>. QED BY <1>3, <1>4, <1>5, <1>6

LEMMA OutsideKeeps ==
    ASSUME RequestsInv, NEW r \in Requests,
           \/ arrive(r) \/ turnAway(r) \/ createUpstreamAbortSignal(r)
           \/ buildUsageEventFromStream(r) \/ timesOut(r) \/ clientLeaves(r)
    PROVE  RequestsInv'
<1>. DEFINE c == call[r]
<1>1. c \in Call /\ CallInv(c)
  BY DEF RequestsInv, RequestsTypeOK
<1>2. CASE arrive(r)
  <2>1. PICK d : Become(r, d) /\ d = [NoCall EXCEPT !.pc = "checks"]
    BY <1>2 DEF arrive
  <2>2. d \in Call
    BY <2>1, NoCallInv DEF Call, Stages
  <2>3. CallInv(d)
    BY <2>1 DEF NoCall, CallInv, EventInv, SourceInv, DeliveryInv, Abandoned,
       Before, Stages, Armed, Reading
  <2>. QED BY <2>1, <2>2, <2>3, BecomeKeeps
<1>3. CASE createUpstreamAbortSignal(r)
  <2>1. PICK d : /\ Become(r, d)
                 /\ d = [c EXCEPT !.pc = "fetch",
                                  !.signal = IF c.client = "gone" /\ @ = "none"
                                             THEN "client" ELSE @]
    <3>1. c.source # "open" /\ c.pc = "prepare"
      BY <1>1, <1>3 DEF createUpstreamAbortSignal, At, CallInv, SourceInv, Reading
    <3>. QED BY <1>1, <1>3, <3>1 DEF createUpstreamAbortSignal, Aborted, Armed, Call
  <2>2. d \in Call
    BY <1>1, <2>1 DEF Call, Stages
  <2>3. c.pc = "prepare" /\ c.events = <<>> /\ c.unrecorded = "no"
    BY <1>1, <1>3 DEF createUpstreamAbortSignal, At, CallInv, EventInv, Before, Stages
  <2>4. CallInv(d)
    BY <1>1, <2>1, <2>3 DEF Call, CallInv, EventInv, SourceInv, DeliveryInv,
       Abandoned, Before, Stages, Armed, Reading
  <2>. QED BY <2>1, <2>2, <2>4, BecomeKeeps
<1>4. CASE buildUsageEventFromStream(r)
  <2>1. PICK n, d :
          /\ n \in 0 .. MaxUsage /\ Become(r, d)
          /\ d = [c EXCEPT !.reported = Append(@, n), !.usage = mergeUsageCounts(c, n)]
    BY <1>4 DEF buildUsageEventFromStream
  <2>2. n \in Nat
    BY <2>1, RequestConstantsOK
  <2>3. c.source = "open" /\ c.streamed
    BY <1>4 DEF buildUsageEventFromStream
  <2>4. d \in Call /\ CallInv(d)
    BY <1>1, <2>1, <2>2, <2>3, ChunkKeeps
  <2>. QED BY <2>1, <2>4, BecomeKeeps
<1>5. CASE timesOut(r)
  BY <1>1, <1>5, TimeoutKeeps, BecomeKeeps DEF timesOut
<1>6. CASE clientLeaves(r)
  <2>1. PICK d : /\ d = [c EXCEPT !.client = "gone"]
                 /\ Become(r, IF d.ended THEN d ELSE Aborted(d, "client"))
    BY <1>6 DEF clientLeaves
  <2>2. d.ended = c.ended
    BY <1>1, <2>1 DEF Call
  <2>3. CASE c.ended
    BY <1>1, <2>1, <2>2, <2>3, LeaveKeeps, BecomeKeeps
  <2>4. CASE ~c.ended
    BY <1>1, <2>1, <2>2, <2>4, LeaveKeeps, BecomeKeeps
  <2>. QED BY <2>3, <2>4
<1>7. CASE turnAway(r)
  <2>1. PICK d : Become(r, d) /\ d = [NoCall EXCEPT !.pc = "done", !.unrecorded = "turned_away"]
    BY <1>7 DEF turnAway
  <2>2. d \in Call
    BY <2>1, NoCallInv DEF Call, Stages, Unrecorded
  <2>3. CallInv(d)
    BY <2>1 DEF NoCall, CallInv, EventInv, SourceInv, DeliveryInv, Abandoned,
       Before, Stages, Armed, Reading
  <2>. QED BY <2>1, <2>2, <2>3, BecomeKeeps
<1>. QED BY <1>2, <1>3, <1>4, <1>5, <1>6, <1>7

\* A call the end of the process cuts off has its event inserted, or has a
\* reason not to.
LEMMA BrokenKeeps ==
    ASSUME NEW c \in Call, CallInv(c)
    PROVE  Broken(c) \in Call /\ CallInv(Broken(c))
<1>. DEFINE d == Broken(c)
<1>1. CASE c.pc \in {"idle", "done"}
  BY <1>1 DEF Broken
<1>2. CASE c.pc \notin {"idle", "done"}
  <2>1. d = [c EXCEPT !.pc = "done",
                      !.unrecorded = IF c.events = <<>> /\ @ = "no" THEN "process" ELSE @,
                      !.source = IF @ = "open" THEN "failed" ELSE @]
    BY <1>2 DEF Broken
  <2>. HIDE DEF d
  <2>2. d \in Call
    BY <2>1 DEF Call, Stages, Unrecorded
  <2>3. /\ EventInv(d) /\ SourceInv(d) /\ DeliveryInv(d) /\ Abandoned(d)
        /\ d.events = c.events
    BY <2>1 DEF Call, CallInv, EventInv, SourceInv, DeliveryInv, Abandoned, Before,
       Stages, Armed, Reading
  <2>4. \A i \in DOMAIN c.events : AgreesWith(d, c.events[i])
    BY <2>1 DEF CallInv, AgreesWith, Call
  <2>5. CallInv(d)
    BY <2>3, <2>4 DEF CallInv
  <2>. QED BY <2>2, <2>5 DEF d
<1>. QED BY <1>1, <1>2

LEMMA EndKeeps ==
    ASSUME RequestsInv, processEnds
    PROVE  RequestsInv'
BY BrokenKeeps DEF processEnds, RequestsInv, RequestsTypeOK

-----------------------------------------------------------------------------
(* The theorems *)

\* Every call keeps to its stage: types, events, source, delivery and aborts.
THEOREM RequestsInvariant == RequestsSpec => []RequestsInv
<1>1. RequestsInit => RequestsInv
  BY NoCallInv DEF RequestsInit, RequestsInv, RequestsTypeOK
<1>2. RequestsInv /\ [RequestsNext]_requestVars => RequestsInv'
  <2>. SUFFICES ASSUME RequestsInv, [RequestsNext]_requestVars PROVE RequestsInv'
    OBVIOUS
  <2>1. CASE UNCHANGED requestVars
    BY <2>1 DEF requestVars, RequestsInv, RequestsTypeOK
  <2>2. CASE processEnds
    BY <2>2, EndKeeps
  <2>3. ASSUME NEW r \in Requests, handleRequest(r) PROVE RequestsInv'
    BY <2>3, PrepareKeeps, AnswerKeeps, PipeKeeps, WriteKeeps, OutsideKeeps
       DEF handleRequest
  <2>4. ASSUME NEW r \in Requests, provider(r) PROVE RequestsInv'
    BY <2>4, PrepareKeeps, AnswerKeeps, OutsideKeeps DEF provider
  <2>5. ASSUME NEW r \in Requests,
               arrive(r) \/ turnAway(r) \/ deliver(r) \/ timesOut(r) \/ clientLeaves(r)
        PROVE RequestsInv'
    BY <2>5, PipeKeeps, OutsideKeeps
  <2>. QED BY <2>1, <2>2, <2>3, <2>4, <2>5 DEF RequestsNext
<1>. QED BY <1>1, <1>2, PTL DEF RequestsSpec

\* Every variable of a request keeps the type the code gives it.
THEOREM RequestsTypeCorrect == RequestsSpec => []RequestsTypeOK
<1>1. RequestsInv => RequestsTypeOK
  BY DEF RequestsInv
<1>. QED BY <1>1, RequestsInvariant, PTL

\* A request that is over has written exactly one usage event, and none writes
\* two, whatever broke off first; one that has written none was refused before
\* the handler, or the look-up of its key or the insertion failed, or the
\* process ended before.
THEOREM RecordedOnceHolds == RequestsSpec => []RecordedOnce
<1>1. RequestsInv => RecordedOnce
  BY DEF RequestsInv, CallInv, EventInv, RecordedOnce, At, Before
<1>. QED BY <1>1, RequestsInvariant, PTL

\* A streamed answer is charged for all that was delivered of it, is a success
\* only if all of it was, and blames only a client that has left.
THEOREM RecordedAsDeliveredHolds == RequestsSpec => []RecordedAsDelivered
<1>1. RequestsInv => RecordedAsDelivered
  BY DEF RequestsInv, CallInv, AgreesWith, RecordedAsDelivered
<1>. QED BY <1>1, RequestsInvariant, PTL

\* A client that has left has its call aborted, or the answer is complete.
THEOREM AbandonedCallAbortedHolds == RequestsSpec => []AbandonedCallAborted
<1>1. RequestsInv => AbandonedCallAborted
  BY DEF RequestsInv, CallInv, Abandoned, AbandonedCallAborted
<1>. QED BY <1>1, RequestsInvariant, PTL
=============================================================================
