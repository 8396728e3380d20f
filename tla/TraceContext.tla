---------------------------- MODULE TraceContext ----------------------------
(***************************************************************************)
(* Propagation of the W3C trace context (tracing/trace-context.ts) along   *)
(* every hop of the platform: HTTP request, RPC metadata                   *)
(* (grpc/trace-propagation.ts), outbox row and CloudEvent                  *)
(* (outbox/outbox-publisher.ts), consumer (messaging/resilient-consumer.ts).*)
(* A receiver calls startTraceContext and runs its work in the context it  *)
(* returns; a sender attaches getCurrentTraceparent().  Messages are       *)
(* delivered any number of times, rows published later by a job that has   *)
(* no context of its own.                                                  *)
(***************************************************************************)
EXTENDS Naturals

CONSTANTS
    MaxSpans   (* bound: contexts started *)

ASSUME TraceAssumption == MaxSpans \in Nat

(* Span ids are numbered as they are minted; randomBytes makes them fresh. *)
(* A minted trace id is named by the span it was minted for.  NoSpan is    *)
(* the work of a background job, Outside a caller beyond the platform.     *)
NoSpan == 0
Spans == 1..MaxSpans
Outside == MaxSpans + 1
SpanIds == 0..(MaxSpans + 1)

VARIABLES
    started,  (* how many contexts have been started *)
    context,  (* the TraceContext of each started span *)
    rows,     (* outbox rows, with the traceparent column *)
    sent,     (* requests with their traceparent: RPC metadata, CloudEvents *)
    cause     (* history: the span that really caused this one *)

vars == <<started, context, rows, sent, cause>>

(* A parsed header.  Absent, and malformed, headers carry no ids. *)
Traceparents == [trace : SpanIds, parent : SpanIds]
Absent == [trace |-> NoSpan, parent |-> NoSpan]
FromOutside == [trace |-> Outside, parent |-> Outside]

(* A row or request in transit; "by" is a history: who sent it. *)
Transits == [header : Traceparents, by : SpanIds]

Active == 1..started

(* The variables hold values of their types, and every started context has *)
(* a trace id.                                                             *)
TypeOK ==
    /\ started \in 0..MaxSpans
    /\ context \in [Spans -> Traceparents]
    /\ \A s \in Active : context[s].trace # NoSpan
    /\ rows \subseteq Transits
    /\ sent \subseteq Transits
    /\ cause \in [Spans -> SpanIds]

Init ==
    /\ started = 0
    /\ context = [s \in Spans |-> Absent]
    /\ rows = {}
    /\ sent = {}
    /\ cause = [s \in Spans |-> NoSpan]

-----------------------------------------------------------------------------
(* The receiving side *)

(* Mutated form: no header, no context. *)
ContextFromHeader(header, span) == header

(* startTraceContext: it always returns a context, of a new trace if the   *)
(* header is of no use.                                                    *)
ContextFrom(header, span) ==
    IF header = Absent THEN [trace |-> span, parent |-> NoSpan] ELSE header

StartTraceContext(header, by) ==
    /\ started < MaxSpans
    /\ started' = started + 1
    /\ context' = [context EXCEPT ![started'] = ContextFrom(header, started')]
    /\ cause' = [cause EXCEPT ![started'] = by]
    /\ UNCHANGED <<rows, sent>>

(* A request from beyond the platform, with or without a header. *)
ReceiveOutside ==
    \/ StartTraceContext(Absent, NoSpan)
    \/ StartTraceContext(FromOutside, Outside)

(* An RPC handler or a consumer; the message may come again. *)
Receive == \E m \in sent : StartTraceContext(m.header, m.by)

-----------------------------------------------------------------------------
(* The sending side, in the context of span s, or in none *)

(* Mutated form: the header that came in is forwarded. *)
InboundTraceparent(s) == IF s = NoSpan THEN Absent ELSE context[s]

(* getCurrentTraceparent *)
CurrentTraceparent(s) ==
    IF s = NoSpan THEN Absent ELSE [trace |-> context[s].trace, parent |-> s]

Attached(s) == [header |-> CurrentTraceparent(s), by |-> s]

AppendRow(s) ==
    /\ rows' = rows \cup {Attached(s)}
    /\ UNCHANGED <<started, context, sent, cause>>

CallRpc(s) ==
    /\ sent' = sent \cup {Attached(s)}
    /\ UNCHANGED <<started, context, rows, cause>>

(* Mutated form: the envelope takes the context of the job that publishes. *)
EnvelopeOfTheJob(row) == [row EXCEPT !.header = CurrentTraceparent(NoSpan)]

(* toCloudEvent takes the column of the row. *)
Envelope(row) == row

Publish(row) ==
    /\ sent' = sent \cup {Envelope(row)}
    /\ UNCHANGED <<started, context, rows, cause>>

Next ==
    \/ ReceiveOutside
    \/ Receive
    \/ \E s \in {NoSpan} \cup Active : AppendRow(s) \/ CallRpc(s)
    \/ \E row \in rows : Publish(row)

Spec == Init /\ [][Next]_vars

-----------------------------------------------------------------------------
(* The span at the head of the chain of causes of each span *)
RootOf[s \in Spans] == IF cause[s] \in Spans THEN RootOf[cause[s]] ELSE s

FromNowhere(s) == cause[RootOf[s]] = NoSpan

(* The log lines of one trace id are those of one piece of work: all that  *)
(* descends from one span that nothing caused, through RPCs, rows that are *)
(* published later and redeliveries, shares its trace id, and nothing else *)
(* does.                                                                   *)
OneTracePerOrigin ==
    \A s, t \in Active :
        FromNowhere(s) =>
            (context[s].trace = context[t].trace <=> RootOf[s] = RootOf[t])

(* Every recorded parent is the span that really sent the work. *)
ParentIsTheCause == \A s \in Active : context[s].parent = cause[s]
=============================================================================
