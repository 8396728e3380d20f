------------------------ MODULE TraceContext_proofs ------------------------
(***************************************************************************)
(* Trace propagation, for every number of spans: every started context has *)
(* a trace id, names its real sender as parent and shares its sender's     *)
(* trace; hence a trace is exactly the work of one origin.  The last needs *)
(* to know what the recursive RootOf computes.  The chains of causes grow  *)
(* at their end only, so that the induction along a chain is one along the *)
(* behaviour: RootsAreUnique is an invariant like any other.               *)
(***************************************************************************)
EXTENDS TraceContext, TLAPS

(* What is in transit names its sender, and carries its sender's trace. *)
HeaderIsTheSenders(m) ==
    /\ m.header.parent = m.by
    /\ m.by = NoSpan => m.header = Absent
    /\ m.by # NoSpan =>
          /\ m.by \in Active
          /\ m.header.trace = context[m.by].trace

(* A started context shares its sender's trace, if a sender is known. *)
TraceIsInherited ==
    \A s \in Active :
        cause[s] \in Spans =>
            cause[s] \in Active /\ context[s].trace = context[cause[s]].trace

TraceInv ==
    /\ TypeOK
    /\ \A m \in rows \cup sent : HeaderIsTheSenders(m)
    /\ ParentIsTheCause
    /\ TraceIsInherited

(* The equation that defines RootOf. *)
IsRoots(f) == f = [s \in Spans |-> IF cause[s] \in Spans THEN f[cause[s]] ELSE s]

(* It has one solution, as no chain of causes is a cycle; spans that have  *)
(* not started have no cause.                                              *)
RootsAreUnique ==
    /\ IsRoots(RootOf)
    /\ \A f : IsRoots(f) => f = RootOf
    /\ \A s \in Spans \ Active : cause[s] = NoSpan

(* A span whose chain begins with work of the platform's own has the trace *)
(* minted for the head of the chain; the others have one from outside.     *)
TraceIsTheRoots ==
    \A s \in Active :
        /\ RootOf[s] \in Active
        /\ RootOf[RootOf[s]] = RootOf[s]
        /\ cause[RootOf[s]] \in {NoSpan, Outside}
        /\ context[s].trace = IF FromNowhere(s) THEN RootOf[s] ELSE Outside

OriginInv == TraceInv /\ RootsAreUnique /\ TraceIsTheRoots

-----------------------------------------------------------------------------
(* Nothing is started, and nothing is in transit. *)
LEMMA InitEstablishesInv == Init => TraceInv
BY TraceAssumption
DEF Init, TraceInv, TypeOK, ParentIsTheCause, TraceIsInherited, Active, Spans,
    SpanIds, NoSpan, Absent, Traceparents

(* Starting a context, given a header that says who sent it. *)
LEMMA StartPreservesInv ==
    ASSUME TraceInv,
           NEW header \in Traceparents, NEW by \in SpanIds,
           StartTraceContext(header, by),
           header.parent = by,
           header = Absent \/ header.trace # NoSpan,
           by \in Spans => by \in Active /\ header.trace = context[by].trace
    PROVE  TraceInv'
<1> DEFINE new == started + 1
<1>0. /\ started \in Nat /\ MaxSpans \in Nat /\ new \in Spans
      /\ started' = new
      /\ Active \subseteq Spans
      /\ Active' = Active \cup {new} /\ new \notin Active
  BY TraceAssumption DEF TraceInv, TypeOK, StartTraceContext, Active, Spans
<1>1. /\ ContextFrom(header, new) \in Traceparents
      /\ ContextFrom(header, new).trace # NoSpan
      /\ ContextFrom(header, new).parent = by
  BY <1>0, TraceAssumption
  DEF ContextFrom, Traceparents, Absent, NoSpan, Spans, SpanIds
<1>2. /\ context' = [context EXCEPT ![new] = ContextFrom(header, new)]
      /\ cause' = [cause EXCEPT ![new] = by]
      /\ rows' = rows /\ sent' = sent
      /\ context \in [Spans -> Traceparents] /\ cause \in [Spans -> SpanIds]
  BY <1>0 DEF StartTraceContext, TraceInv, TypeOK
<1>3. /\ context'[new] = ContextFrom(header, new)
      /\ cause'[new] = by
      /\ \A s \in Active : context'[s] = context[s] /\ cause'[s] = cause[s]
  BY <1>0, <1>2
<1>4. TypeOK'
  BY <1>0, <1>1, <1>2, <1>3 DEF TraceInv, TypeOK, Spans, Transits
<1>5. \A m \in rows' \cup sent' : HeaderIsTheSenders(m)'
  BY <1>0, <1>2, <1>3 DEF TraceInv, HeaderIsTheSenders
<1>6. ParentIsTheCause'
  BY <1>0, <1>1, <1>3 DEF TraceInv, ParentIsTheCause
<1>7. TraceIsInherited'
  <2>1. by \in Spans =>
           by \in Active /\ ContextFrom(header, new).trace = context[by].trace
    BY TraceAssumption DEF ContextFrom, Absent, NoSpan, Spans
  <2> QED
    BY <1>0, <1>3, <2>1 DEF TraceInv, TraceIsInherited
<1> QED
  BY <1>4, <1>5, <1>6, <1>7 DEF TraceInv

(* What a span, or no span, attaches says who sent it. *)
LEMMA AttachedIsTheSenders ==
    ASSUME TraceInv, NEW s \in {NoSpan} \cup Active
    PROVE  Attached(s) \in Transits /\ HeaderIsTheSenders(Attached(s))
<1>1. CASE s = NoSpan
  BY <1>1, TraceAssumption
  DEF Attached, CurrentTraceparent, HeaderIsTheSenders, Transits,
      Traceparents, Absent, NoSpan, SpanIds
<1>2. CASE s # NoSpan
  <2>1. s \in Active /\ s \in SpanIds /\ context[s].trace \in SpanIds
    BY <1>2, TraceAssumption
    DEF TraceInv, TypeOK, Active, Spans, SpanIds, Traceparents
  <2> QED
    BY <1>2, <2>1
    DEF Attached, CurrentTraceparent, HeaderIsTheSenders, Transits,
        Traceparents
<1> QED
  BY <1>1, <1>2

(* The invariant is inductive. *)
LEMMA StepPreservesInv == TraceInv /\ [Next]_vars => TraceInv'
<1> SUFFICES ASSUME TraceInv, [Next]_vars
             PROVE  TraceInv'
  OBVIOUS
<1>1. CASE ReceiveOutside
  <2>1. Absent \in Traceparents /\ FromOutside \in Traceparents
        /\ NoSpan \in SpanIds /\ Outside \in SpanIds
        /\ Absent.parent = NoSpan /\ FromOutside.parent = Outside
        /\ FromOutside.trace # NoSpan
        /\ NoSpan \notin Spans /\ Outside \notin Spans
    BY TraceAssumption
    DEF Absent, FromOutside, NoSpan, Outside, Spans, SpanIds, Traceparents
  <2> QED
    BY <1>1, <2>1, StartPreservesInv DEF ReceiveOutside
<1>2. CASE Receive
  <2>1. PICK m \in sent : StartTraceContext(m.header, m.by)
    BY <1>2 DEF Receive
  <2>2. m.header \in Traceparents /\ m.by \in SpanIds /\ HeaderIsTheSenders(m)
    BY DEF TraceInv, TypeOK, Transits
  <2>3. m.by \in Spans => m.by \in Active /\ m.header.trace = context[m.by].trace
    BY <2>2 DEF HeaderIsTheSenders, Spans, NoSpan
  <2>4. m.header = Absent \/ m.header.trace # NoSpan
    BY <2>2 DEF HeaderIsTheSenders, TraceInv, TypeOK
  <2>5. m.header.parent = m.by
    BY <2>2 DEF HeaderIsTheSenders
  <2> QED
    BY <2>1, <2>2, <2>3, <2>4, <2>5, StartPreservesInv
<1>3. ASSUME NEW s \in {NoSpan} \cup Active, AppendRow(s) \/ CallRpc(s)
      PROVE  TraceInv'
  BY <1>3, AttachedIsTheSenders
  DEF AppendRow, CallRpc, TraceInv, TypeOK, HeaderIsTheSenders,
      ParentIsTheCause, TraceIsInherited, Active
<1>4. ASSUME NEW row \in rows, Publish(row)
      PROVE  TraceInv'
  BY <1>4
  DEF Publish, Envelope, TraceInv, TypeOK, HeaderIsTheSenders,
      ParentIsTheCause, TraceIsInherited, Active
<1>5. CASE UNCHANGED vars
  BY <1>5
  DEF vars, TraceInv, TypeOK, HeaderIsTheSenders, ParentIsTheCause,
      TraceIsInherited, Active
<1> QED
  BY <1>1, <1>2, <1>3, <1>4, <1>5 DEF Next

-----------------------------------------------------------------------------
(* A step that starts no span leaves the chains as they are. *)
LEMMA SameRoots ==
    ASSUME cause' = cause, started' = started, context' = context,
           RootsAreUnique, TraceIsTheRoots
    PROVE  RootsAreUnique' /\ TraceIsTheRoots'
<1>1. RootOf' = RootOf
  BY DEF RootOf
<1>2. \A f : IsRoots(f)' <=> IsRoots(f)
  BY DEF IsRoots
<1>3. RootsAreUnique'
  BY <1>1, <1>2 DEF RootsAreUnique, Active, IsRoots
<1>4. TraceIsTheRoots'
  BY <1>1 DEF TraceIsTheRoots, Active, FromNowhere
<1> QED
  BY <1>3, <1>4

(* A new span is at the end of its chain: it takes the root of its sender, *)
(* and no other root changes.                                              *)
LEMMA RootOfNewSpan ==
    ASSUME TraceInv, RootsAreUnique,
           NEW new \in Spans \ Active, NEW by \in SpanIds,
           cause' = [cause EXCEPT ![new] = by],
           by \in Spans => by \in Active
    PROVE  /\ IsRoots(RootOf)'
           /\ \A f : IsRoots(f)' => f = RootOf'
           /\ \A s \in Spans \ {new} : RootOf'[s] = RootOf[s]
           /\ RootOf'[new] = IF by \in Spans THEN RootOf[by] ELSE new
<1>0. /\ cause \in [Spans -> SpanIds]
      /\ cause'[new] = by /\ by # new
      /\ \A s \in Spans \ {new} : cause'[s] = cause[s] /\ cause[s] # new
      /\ cause[new] \notin Spans
  <2>1. cause \in [Spans -> SpanIds]
    BY DEF TraceInv, TypeOK
  <2>2. ASSUME NEW s \in Spans, cause[s] = new
        PROVE  FALSE
    <3>1. CASE s \in Active
      BY <2>2, <3>1 DEF TraceInv, TraceIsInherited
    <3>2. CASE s \notin Active
      BY <2>2, <3>2 DEF RootsAreUnique, Spans, NoSpan
    <3> QED
      BY <3>1, <3>2
  <2>3. cause[new] \notin Spans
    BY DEF RootsAreUnique, Spans, NoSpan
  <2> QED
    BY <2>1, <2>2, <2>3
<1> DEFINE root(f, s) == IF cause'[s] \in Spans THEN f[cause'[s]] ELSE s
           late == [RootOf EXCEPT ![new] = IF by \in Spans THEN RootOf[by] ELSE new]
<1>1. RootOf = [s \in Spans |-> IF cause[s] \in Spans THEN RootOf[cause[s]] ELSE s]
  BY DEF RootsAreUnique, IsRoots
<1>2. late = [s \in Spans |-> root(late, s)]
  <2> DEFINE last == IF by \in Spans THEN RootOf[by] ELSE new
  <2>1. late = [s \in Spans |-> IF s = new THEN last ELSE RootOf[s]]
    BY <1>1, Zenon
  <2> HIDE DEF late, last
  <2>2. ASSUME NEW s \in Spans
        PROVE  late[s] = root(late, s)
    <3>1. CASE s = new
      BY <1>0, <2>1, <3>1 DEF last
    <3>2. CASE s # new
      <4>1. late[s] = RootOf[s] /\ cause'[s] = cause[s] /\ cause[s] # new
        BY <1>0, <2>1, <3>2
      <4>2. cause[s] \in Spans => late[cause[s]] = RootOf[cause[s]]
        BY <2>1, <4>1
      <4> QED
        BY <1>1, <4>1, <4>2
    <3> QED
      BY <3>1, <3>2
  <2> QED
    BY <2>1, <2>2
<1>3. ASSUME NEW f, f = [s \in Spans |-> root(f, s)]
      PROVE  f = late
  <2> DEFINE early == [s \in Spans |-> IF s = new THEN new ELSE f[s]]
  <2>1. ASSUME NEW s \in Spans
        PROVE  early[s] = IF cause[s] \in Spans THEN early[cause[s]] ELSE s
    <3>1. CASE s = new
      BY <1>0, <3>1
    <3>2. CASE s # new
      BY <1>0, <1>3, <3>2
    <3> QED
      BY <3>1, <3>2
  <2>2. IsRoots(early)
    BY <2>1 DEF IsRoots
  <2>3. early = RootOf
    BY <2>2 DEF RootsAreUnique
  <2>4. \A s \in Spans \ {new} : f[s] = RootOf[s]
    BY <2>3
  <2>5. f[new] = IF by \in Spans THEN RootOf[by] ELSE new
    BY <1>0, <1>3, <2>4
  <2> QED
    BY <1>1, <1>3, <2>4, <2>5
<1> HIDE DEF late
<1>4. \A f : IsRoots(f)' <=> f = [s \in Spans |-> root(f, s)]
  BY DEF IsRoots
<1>5. RootOf' = CHOOSE f : f = [s \in Spans |-> root(f, s)]
  BY DEF RootOf
<1>6. RootOf' = [s \in Spans |-> root(RootOf', s)]
  BY <1>2, <1>5
<1>7. RootOf' = late
  BY <1>3, <1>6
<1>8. /\ IsRoots(RootOf)'
      /\ \A f : IsRoots(f)' => f = RootOf'
  BY <1>3, <1>4, <1>6, <1>7 DEF IsRoots
<1> QED
  BY <1>1, <1>7, <1>8 DEF late

(* Starting a context keeps every trace the work of one root. *)
LEMMA StartKeepsOrigins ==
    ASSUME OriginInv,
           NEW header \in Traceparents, NEW by \in SpanIds,
           StartTraceContext(header, by),
           by \in Spans => by \in Active /\ header.trace = context[by].trace
                            /\ header # Absent,
           by = NoSpan => header = Absent,
           by = Outside => header = FromOutside
    PROVE  RootsAreUnique' /\ TraceIsTheRoots'
<1> DEFINE new == started + 1
<1>0. /\ started \in Nat /\ MaxSpans \in Nat /\ new \in Spans \ Active
      /\ started' = new
      /\ Active \subseteq Spans /\ Active' = Active \cup {new}
      /\ context \in [Spans -> Traceparents] /\ cause \in [Spans -> SpanIds]
      /\ TraceInv /\ RootsAreUnique /\ TraceIsTheRoots
  BY TraceAssumption
  DEF OriginInv, TraceInv, TypeOK, StartTraceContext, Active, Spans
<1>1. /\ context' = [context EXCEPT ![new] = ContextFrom(header, new)]
      /\ cause' = [cause EXCEPT ![new] = by]
  BY <1>0 DEF StartTraceContext
<1> HIDE DEF new
<1>2. /\ IsRoots(RootOf)'
      /\ \A f : IsRoots(f)' => f = RootOf'
      /\ \A s \in Spans \ {new} : RootOf'[s] = RootOf[s]
      /\ RootOf'[new] = IF by \in Spans THEN RootOf[by] ELSE new
  BY <1>0, <1>1, RootOfNewSpan
<1>3. /\ context'[new] = ContextFrom(header, new) /\ cause'[new] = by
      /\ \A s \in Spans \ {new} : context'[s] = context[s] /\ cause'[s] = cause[s]
  BY <1>0, <1>1
<1>4. RootsAreUnique'
  BY <1>0, <1>2, <1>3 DEF RootsAreUnique
<1>5. ASSUME NEW s \in Active
      PROVE  /\ RootOf'[s] = RootOf[s] /\ RootOf[s] \in Active'
             /\ RootOf'[RootOf[s]] = RootOf[s]
             /\ cause'[RootOf[s]] = cause[RootOf[s]]
             /\ cause[RootOf[s]] \in {NoSpan, Outside}
             /\ context'[s] = context[s]
             /\ context[s].trace = IF FromNowhere(s) THEN RootOf[s] ELSE Outside
  <2>1. /\ RootOf[s] \in Active /\ RootOf[RootOf[s]] = RootOf[s]
        /\ cause[RootOf[s]] \in {NoSpan, Outside}
        /\ context[s].trace = IF FromNowhere(s) THEN RootOf[s] ELSE Outside
    BY <1>0 DEF TraceIsTheRoots
  <2> QED
    BY <1>0, <1>2, <1>3, <2>1
<1>6. /\ NoSpan \notin Spans /\ Outside \notin Spans /\ NoSpan # Outside
      /\ SpanIds = Spans \cup {NoSpan, Outside}
  BY <1>0 DEF NoSpan, Outside, Spans, SpanIds
<1>7. /\ RootOf'[new] \in Active'
      /\ RootOf'[RootOf'[new]] = RootOf'[new]
      /\ cause'[RootOf'[new]] \in {NoSpan, Outside}
      /\ context'[new].trace =
            IF cause'[RootOf'[new]] = NoSpan THEN RootOf'[new] ELSE Outside
  <2>1. CASE by \in Spans
    <3>1. by \in Active /\ RootOf'[new] = RootOf[by]
      BY <1>2, <2>1
    <3>2. ContextFrom(header, new).trace = context[by].trace
      BY <2>1 DEF ContextFrom
    <3> QED
      BY <1>3, <1>5, <3>1, <3>2 DEF FromNowhere
  <2>2. CASE by = NoSpan
    <3>1. RootOf'[new] = new /\ cause'[new] = NoSpan
      BY <1>2, <1>3, <1>6, <2>2
    <3>2. ContextFrom(header, new).trace = new
      BY <2>2 DEF ContextFrom
    <3> QED
      BY <1>0, <1>3, <3>1, <3>2
  <2>3. CASE by = Outside
    <3>1. RootOf'[new] = new /\ cause'[new] = Outside
      BY <1>2, <1>3, <1>6, <2>3
    <3>2. ContextFrom(header, new).trace = Outside
      BY <1>6, <2>3 DEF ContextFrom, FromOutside, Absent
    <3> QED
      BY <1>0, <1>3, <1>6, <3>1, <3>2
  <2> QED
    BY <1>6, <2>1, <2>2, <2>3
<1>8. TraceIsTheRoots'
  <2> SUFFICES ASSUME NEW s \in Active'
               PROVE  /\ RootOf'[s] \in Active'
                      /\ RootOf'[RootOf'[s]] = RootOf'[s]
                      /\ cause'[RootOf'[s]] \in {NoSpan, Outside}
                      /\ context'[s].trace =
                            IF cause'[RootOf'[s]] = NoSpan
                            THEN RootOf'[s] ELSE Outside
    BY DEF TraceIsTheRoots, FromNowhere
  <2>1. CASE s = new
    BY <1>7, <2>1
  <2>2. CASE s \in Active
    BY <1>5, <2>2 DEF FromNowhere
  <2> QED
    BY <1>0, <2>1, <2>2
<1> QED
  BY <1>4, <1>8

(* At first every span is its own root. *)
LEMMA InitEstablishesOrigins == Init => OriginInv
<1> SUFFICES ASSUME Init
             PROVE  OriginInv
  OBVIOUS
<1>1. NoSpan \notin Spans /\ Active = {} /\ \A s \in Spans : cause[s] = NoSpan
  BY DEF Init, NoSpan, Spans, Active
<1>2. \A f : IsRoots(f) <=> f = [s \in Spans |-> s]
  BY <1>1 DEF IsRoots
<1>3. IsRoots(RootOf)
  <2>1. RootOf = CHOOSE f : IsRoots(f)
    BY DEF RootOf, IsRoots
  <2> QED
    BY <1>2, <2>1
<1> QED
  BY <1>1, <1>2, <1>3, InitEstablishesInv
  DEF OriginInv, RootsAreUnique, TraceIsTheRoots

(* The chains of causes grow at their end, and carry their root's trace. *)
LEMMA StepPreservesOrigins == OriginInv /\ [Next]_vars => OriginInv'
<1> SUFFICES ASSUME OriginInv, [Next]_vars
             PROVE  OriginInv'
  OBVIOUS
<1>0. TraceInv /\ TraceInv' /\ RootsAreUnique /\ TraceIsTheRoots
  BY StepPreservesInv DEF OriginInv
<1>1. CASE ReceiveOutside
  <2>1. /\ Absent \in Traceparents /\ FromOutside \in Traceparents
        /\ NoSpan \in SpanIds /\ Outside \in SpanIds
        /\ NoSpan \notin Spans /\ Outside \notin Spans /\ NoSpan # Outside
    BY TraceAssumption
    DEF Absent, FromOutside, NoSpan, Outside, Spans, SpanIds, Traceparents
  <2> QED
    BY <1>0, <1>1, <2>1, StartKeepsOrigins DEF ReceiveOutside, OriginInv
<1>2. CASE Receive
  <2>1. PICK m \in sent : StartTraceContext(m.header, m.by)
    BY <1>2 DEF Receive
  <2>2. m.header \in Traceparents /\ m.by \in SpanIds /\ HeaderIsTheSenders(m)
    BY <1>0 DEF TraceInv, TypeOK, Transits
  <2>3. /\ m.by \in Spans => m.by \in Active /\ m.header.trace = context[m.by].trace
        /\ m.by = NoSpan => m.header = Absent
        /\ m.by # Outside
    BY <1>0, <2>2, TraceAssumption
    DEF HeaderIsTheSenders, Spans, NoSpan, Outside, Active, TraceInv, TypeOK
  <2>4. m.by \in Spans => m.header # Absent
    BY <1>0, <2>2, <2>3
    DEF HeaderIsTheSenders, Absent, NoSpan, Spans
  <2> QED
    BY <1>0, <2>1, <2>2, <2>3, <2>4, StartKeepsOrigins DEF OriginInv
<1>3. CASE UNCHANGED <<cause, started, context>>
  BY <1>0, <1>3, SameRoots DEF OriginInv
<1> QED
  BY <1>1, <1>2, <1>3 DEF Next, AppendRow, CallRpc, Publish, vars

-----------------------------------------------------------------------------
(* The inductive invariants hold in every behaviour. *)
THEOREM InvHolds == Spec => []TraceInv
<1>1. Init => TraceInv
  BY InitEstablishesInv
<1>2. TraceInv /\ [Next]_vars => TraceInv'
  BY StepPreservesInv
<1> QED
  BY <1>1, <1>2, PTL DEF Spec

(* The one on origins does too. *)
LEMMA OriginsHold == Spec => []OriginInv
BY InitEstablishesOrigins, StepPreservesOrigins, PTL DEF Spec

(* Every started context has a trace id, whatever header came in. *)
THEOREM TypeCorrect == Spec => []TypeOK
<1>1. TraceInv => TypeOK
  BY DEF TraceInv
<1> QED
  BY <1>1, InvHolds, PTL

(* The recorded parent is the real sender, through rows and redeliveries. *)
THEOREM ParentIsTheRealSender == Spec => []ParentIsTheCause
<1>1. TraceInv => ParentIsTheCause
  BY DEF TraceInv
<1> QED
  BY <1>1, InvHolds, PTL

(* Work shares the trace of the span that sent it. *)
THEOREM TraceFollowsTheCause == Spec => []TraceIsInherited
<1>1. TraceInv => TraceIsInherited
  BY DEF TraceInv
<1> QED
  BY <1>1, InvHolds, PTL

(* All that descends from one span that nothing caused shares its trace id,*)
(* through RPCs, rows and redeliveries, and nothing else has it.           *)
THEOREM TraceIsOneOrigin == Spec => []OneTracePerOrigin
<1>1. OriginInv => OneTracePerOrigin
  <2> SUFFICES ASSUME OriginInv, NEW s \in Active, NEW t \in Active, FromNowhere(s)
               PROVE  context[s].trace = context[t].trace <=> RootOf[s] = RootOf[t]
    BY DEF OneTracePerOrigin
  <2>1. context[s].trace = RootOf[s] /\ RootOf[s] # Outside
    BY TraceAssumption
    DEF OriginInv, TraceIsTheRoots, TraceInv, TypeOK, Active, Outside
  <2>2. context[t].trace = IF FromNowhere(t) THEN RootOf[t] ELSE Outside
    BY DEF OriginInv, TraceIsTheRoots
  <2>3. RootOf[s] = RootOf[t] => FromNowhere(t)
    BY DEF FromNowhere
  <2> QED
    BY <2>1, <2>2, <2>3
<1> QED
  BY <1>1, OriginsHold, PTL
=============================================================================
