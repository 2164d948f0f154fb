----------------------- MODULE StdlibBoundary_proofs -----------------------
(***************************************************************************)
(* Proofs about the stdlib-boundary counter, for any connections, statuses *)
(* and number of keepalive requests.                                       *)
(***************************************************************************)
EXTENDS StdlibBoundary, TLAPS

\* The map entry says where the connection's latest request is, and the reader
\* has refused none while the connection is in use.
EntryFits(c) ==
    /\ conn[c].state \in {"none", "new"} => entry[c] = "none" /\ conn[c].refused = {}
    /\ conn[c].state = "active" => entry[c] = "notRun" /\ conn[c].refused = {}
    /\ conn[c].state \in {"answered", "idle"} => entry[c] = "ran" /\ conn[c].refused = {}
    /\ conn[c].state = "closing" => (entry[c] = "notRun" <=> conn[c].refused # {})
    /\ conn[c].state = "closed" => entry[c] = "none"

\* Only closed connections are counted, and of them those that were refused.
CountFits(c) ==
    (\E k \in counted : k.conn = c) <=> conn[c].state = "closed" /\ conn[c].refused # {}

\* What is sniffed is the first of the responses sent, and a refusal that was
\* not silent is the last of them.
SniffFits(c) ==
    /\ sniffed[c].status = IF sent[c] = <<>> THEN Silent ELSE sent[c][1]
    /\ sniffed[c].once <=> sent[c] # <<>>
    /\ \/ conn[c].refused \in {{}, {Silent}}
       \/ sent[c] # <<>> /\ conn[c].refused = {sent[c][Len(sent[c])]}

\* Once it is counted, a connection does not change.
LabelFits == \A k \in counted : k.label = sniffed[k.conn].status

IInv ==
    /\ TypeOK
    /\ \A c \in Conns : EntryFits(c) /\ CountFits(c) /\ SniffFits(c)
    /\ LabelFits

-----------------------------------------------------------------------------
\* The initial state satisfies the invariant.
LEMMA InitIInv == Init => IInv
<1> SUFFICES ASSUME Init PROVE IInv
  OBVIOUS
<1>1. TypeOK
  BY BoundaryAssumption DEF Init, TypeOK, Dialed, Statuses, Silent
<1>2. \A c \in Conns : EntryFits(c) /\ CountFits(c) /\ SniffFits(c)
  BY DEF Init, Dialed, Silent, EntryFits, CountFits, SniffFits
<1>3. LabelFits
  BY DEF Init, LabelFits
<1> QED BY <1>1, <1>2, <1>3 DEF IInv

\* A step of one connection that leaves the counter alone keeps the invariant
\* if it keeps that connection's part of it.
LEMMA OneConnection ==
    ASSUME IInv, NEW c \in Conns, TypeOK', counted' = counted,
           \A d \in Conns \ {c} :
               conn'[d] = conn[d] /\ sniffed'[d] = sniffed[d] /\ entry'[d] = entry[d]
               /\ sent'[d] = sent[d],
           conn[c].state # "closed", conn'[c].state # "closed",
           EntryFits(c)', SniffFits(c)'
    PROVE  IInv'
<1>1. ~ \E k \in counted : k.conn = c
  BY DEF IInv, CountFits
<1>2. CountFits(c)'
  BY <1>1 DEF CountFits
<1>3. ASSUME NEW d \in Conns \ {c}
      PROVE  EntryFits(d)' /\ CountFits(d)' /\ SniffFits(d)'
  BY <1>3 DEF IInv, EntryFits, CountFits, SniffFits
<1>4. LabelFits'
  BY <1>1 DEF IInv, LabelFits, TypeOK
<1> QED BY <1>2, <1>3, <1>4 DEF IInv

\* What was sniffed fits as long as nothing is sent and nothing refused.
LEMMA NothingSent ==
    ASSUME NEW c \in Conns, SniffFits(c), sniffed'[c] = sniffed[c], sent'[c] = sent[c],
           conn'[c].refused = conn[c].refused
    PROVE  SniffFits(c)'
BY Zenon DEF SniffFits

\* The state of a connection before and after a step of net/http that only moves it.
LEMMA QuietStep ==
    ASSUME IInv, NEW c \in Conns, Accept(c) \/ Idle(c) \/ Hangup(c)
    PROVE  IInv'
<1>1. PICK to \in {"new", "idle", "closing"} :
         /\ conn' = [conn EXCEPT ![c].state = to]
         /\ UNCHANGED <<sniffed, entry, counted, sent>>
         /\ \/ to = "new" /\ conn[c].state = "none"
            \/ to = "idle" /\ conn[c].state = "answered"
            \/ to = "closing" /\ conn[c].state \in {"new", "answered", "idle"}
  BY Zenon DEF Accept, Idle, Hangup, Move
<1>2. TypeOK'
  BY <1>1 DEF IInv, TypeOK
<1>3. conn'[c] = [conn[c] EXCEPT !.state = to]
      /\ \A d \in Conns \ {c} : conn'[d] = conn[d]
  BY <1>1 DEF IInv, TypeOK
<1>4. EntryFits(c)'
  BY <1>1, <1>3 DEF IInv, TypeOK, EntryFits
<1>5. SniffFits(c)'
  BY <1>1, <1>3, NothingSent DEF IInv, TypeOK
<1>6. conn[c].state # "closed" /\ conn'[c].state # "closed"
  BY <1>1, <1>3 DEF IInv, TypeOK
<1> QED BY <1>1, <1>2, <1>3, <1>4, <1>5, <1>6, OneConnection

\* StateActive resets the entry.
LEMMA ActiveStep ==
    ASSUME IInv, NEW c \in Conns, Active(c)
    PROVE  IInv'
<1>1. /\ conn' = [conn EXCEPT ![c].state = "active", ![c].requests = @ + 1]
      /\ entry' = [entry EXCEPT ![c] = "notRun"]
      /\ UNCHANGED <<sniffed, counted, sent>>
      /\ conn[c].state \in {"new", "idle"} /\ conn[c].requests < MaxRequests
  BY DEF Active
<1>2. conn[c].requests \in Nat /\ conn[c].requests + 1 \in 0..MaxRequests
  BY <1>1, BoundaryAssumption DEF IInv, TypeOK
<1>3. conn'[c] = [conn[c] EXCEPT !.state = "active", !.requests = conn[c].requests + 1]
      /\ \A d \in Conns \ {c} : conn'[d] = conn[d] /\ entry'[d] = entry[d]
  BY <1>1 DEF IInv, TypeOK
<1>4. TypeOK'
  BY <1>1, <1>2 DEF IInv, TypeOK
<1>5. EntryFits(c)'
  BY <1>1, <1>3 DEF IInv, TypeOK, EntryFits
<1>6. SniffFits(c)'
  BY <1>1, <1>3, NothingSent DEF IInv, TypeOK
<1>7. conn[c].state # "closed" /\ conn'[c].state # "closed"
  BY <1>1, <1>3 DEF IInv, TypeOK
<1> QED BY <1>1, <1>3, <1>4, <1>5, <1>6, <1>7, OneConnection

ConnStates == [state : {"none", "new", "active", "answered", "idle", "closing", "closed"},
               requests : 0..MaxRequests, refused : SUBSET Statuses]

Sniffs == [once : BOOLEAN, status : Statuses]

\* A write leaves a status of the connection's or the first it saw.
LEMMA WriteTyped ==
    ASSUME TypeOK, NEW c \in Conns, NEW s \in Statuses,
           \/ sniffed' = sniffed
           \/ sniffed' = [sniffed EXCEPT ![c] =
                              IF @.once THEN @ ELSE [once |-> TRUE, status |-> s]]
    PROVE  sniffed' \in [Conns -> Sniffs]
<1> DEFINE w == IF sniffed[c].once THEN sniffed[c] ELSE [once |-> TRUE, status |-> s]
<1>1. sniffed \in [Conns -> Sniffs]
  BY DEF TypeOK, Sniffs
<1>2. [once |-> TRUE, status |-> s] \in Sniffs
  BY DEF Sniffs
<1>3. w \in Sniffs
  BY <1>1, <1>2
<1>4. sniffed' = sniffed \/ sniffed' = [sniffed EXCEPT ![c] = w]
  OBVIOUS
<1> HIDE DEF w
<1> QED BY <1>1, <1>3, <1>4

\* A response that goes out is the last, and the sniffed one if it is the first.
LEMMA ResponseFits ==
    ASSUME NEW c \in Conns, SniffFits(c), NEW s, sent[c] \in Seq(Statuses),
           \/ s = Silent /\ sniffed'[c] = sniffed[c] /\ sent'[c] = sent[c]
           \/ /\ sniffed'[c] = IF sniffed[c].once THEN sniffed[c]
                                ELSE [once |-> TRUE, status |-> s]
              /\ sent'[c] = Append(sent[c], s),
           conn'[c].refused \in {{}, {s}}
    PROVE  SniffFits(c)'
<1>1. CASE sent'[c] = sent[c] /\ s = Silent /\ sniffed'[c] = sniffed[c]
  BY <1>1 DEF SniffFits
<1>2. CASE /\ sniffed'[c] = IF sniffed[c].once THEN sniffed[c]
                            ELSE [once |-> TRUE, status |-> s]
           /\ sent'[c] = Append(sent[c], s)
  <2>1. /\ sent'[c] # <<>> /\ sent'[c][Len(sent'[c])] = s
        /\ sent'[c][1] = IF sent[c] = <<>> THEN s ELSE sent[c][1]
    BY <1>2
  <2> QED BY <1>2, <2>1 DEF SniffFits
<1> QED BY <1>1, <1>2

\* The responses sent are statuses.
LEMMA SentTyped ==
    ASSUME TypeOK, NEW c \in Conns, NEW s \in Statuses,
           sent' = sent \/ sent' = [sent EXCEPT ![c] = Append(@, s)]
    PROVE  sent' \in [Conns -> Seq(Statuses)]
<1>1. sent \in [Conns -> Seq(Statuses)]
  BY DEF TypeOK
<1>2. Append(sent[c], s) \in Seq(Statuses)
  BY <1>1
<1> QED BY <1>1, <1>2

\* The reader answers by itself, or gives up.
LEMMA RefuseStep ==
    ASSUME IInv, NEW c \in Conns,
           GiveUp(c) \/ \E status \in ReaderStatuses : Refuse(c, status)
    PROVE  IInv'
<1>1. PICK s \in ReaderStatuses \cup {Silent} :
         /\ conn[c].state = "active"
         /\ conn' = [conn EXCEPT ![c].state = "closing", ![c].refused = {s}]
         /\ UNCHANGED <<entry, counted>>
         /\ \/ s = Silent /\ sniffed' = sniffed /\ sent' = sent
            \/ /\ sniffed' = [sniffed EXCEPT ![c] =
                                 IF @.once THEN @ ELSE [once |-> TRUE, status |-> s]]
               /\ sent' = [sent EXCEPT ![c] = Append(@, s)]
  BY DEF GiveUp, Refuse, Respond, Write
<1>2. conn'[c] = [conn[c] EXCEPT !.state = "closing", !.refused = {s}]
      /\ \A d \in Conns \ {c} : conn'[d] = conn[d] /\ sniffed'[d] = sniffed[d]
                               /\ sent'[d] = sent[d]
  BY <1>1 DEF IInv, TypeOK
<1>3. \/ s = Silent /\ sniffed'[c] = sniffed[c] /\ sent'[c] = sent[c]
      \/ /\ sniffed'[c] = IF sniffed[c].once THEN sniffed[c]
                           ELSE [once |-> TRUE, status |-> s]
         /\ sent'[c] = Append(sent[c], s)
  BY <1>1 DEF IInv, TypeOK
<1>4. TypeOK'
  <2>1. s \in Statuses
    BY DEF Statuses
  <2>2. sniffed' \in [Conns -> Sniffs]
    BY <1>1, <2>1, WriteTyped DEF IInv
  <2>3. conn' = [conn EXCEPT ![c].state = "closing", ![c].refused = {s}]
        /\ UNCHANGED <<entry, counted>>
    BY <1>1
  <2>4. {s} \in SUBSET Statuses
    BY <2>1
  <2>5. conn' \in [Conns -> ConnStates]
    BY <2>3, <2>4, ZenonT(90) DEF IInv, TypeOK, ConnStates
  <2>6. sent' \in [Conns -> Seq(Statuses)]
    BY <1>1, <2>1, SentTyped DEF IInv
  <2> QED BY <2>2, <2>3, <2>5, <2>6 DEF IInv, TypeOK, Sniffs, ConnStates
<1>5. EntryFits(c)'
  BY <1>1, <1>2 DEF IInv, TypeOK, EntryFits
<1>6. SniffFits(c)'
  <2>1. conn'[c].refused = {s} /\ sent[c] \in Seq(Statuses)
    BY <1>2 DEF IInv, TypeOK
  <2> QED BY <1>3, <2>1, ResponseFits DEF IInv
<1>7. conn[c].state # "closed" /\ conn'[c].state # "closed"
      /\ \A d \in Conns \ {c} : entry'[d] = entry[d]
  BY <1>1, <1>2 DEF IInv, TypeOK
<1> QED BY <1>1, <1>2, <1>4, <1>5, <1>6, <1>7, OneConnection

\* The handler marks the entry, then answers or aborts.
LEMMA HandlerStep ==
    ASSUME IInv, NEW c \in Conns, Handler(c)
    PROVE  IInv'
<1>1. PICK to \in {"answered", "closing"}, s \in HandlerStatuses \cup {Silent} :
         /\ conn[c].state = "active"
         /\ conn' = [conn EXCEPT ![c].state = to]
         /\ entry' = [entry EXCEPT ![c] = IF @ = "none" THEN @ ELSE "ran"]
         /\ UNCHANGED counted
         /\ \/ s = Silent /\ sniffed' = sniffed /\ sent' = sent
            \/ /\ sniffed' = [sniffed EXCEPT ![c] =
                                 IF @.once THEN @ ELSE [once |-> TRUE, status |-> s]]
               /\ sent' = [sent EXCEPT ![c] = Append(@, s)]
  BY DEF Handler, Respond, Write, Move
<1>2. conn'[c] = [conn[c] EXCEPT !.state = to] /\ entry'[c] = "ran"
      /\ \A d \in Conns \ {c} :
            conn'[d] = conn[d] /\ sniffed'[d] = sniffed[d] /\ entry'[d] = entry[d]
            /\ sent'[d] = sent[d]
  BY <1>1 DEF IInv, TypeOK, EntryFits
<1>3. \/ s = Silent /\ sniffed'[c] = sniffed[c] /\ sent'[c] = sent[c]
      \/ /\ sniffed'[c] = IF sniffed[c].once THEN sniffed[c]
                           ELSE [once |-> TRUE, status |-> s]
         /\ sent'[c] = Append(sent[c], s)
  BY <1>1 DEF IInv, TypeOK
<1>4. TypeOK'
  <2>1. s \in Statuses
    BY DEF Statuses
  <2>2. sniffed' \in [Conns -> Sniffs]
    BY <1>1, <2>1, WriteTyped DEF IInv
  <2>3. conn' = [conn EXCEPT ![c].state = to] /\ UNCHANGED counted
    BY <1>1
  <2>4. conn' \in [Conns -> ConnStates]
    BY <2>3, ZenonT(90) DEF IInv, TypeOK, ConnStates
  <2>5. entry' \in [Conns -> {"none", "notRun", "ran"}]
    BY <1>1 DEF IInv, TypeOK
  <2>6. sent' \in [Conns -> Seq(Statuses)]
    BY <1>1, <2>1, SentTyped DEF IInv
  <2> QED BY <2>2, <2>3, <2>4, <2>5, <2>6 DEF IInv, TypeOK, Sniffs, ConnStates
<1>5. EntryFits(c)'
  BY <1>1, <1>2 DEF IInv, TypeOK, EntryFits
<1>6. SniffFits(c)'
  <2>1. conn'[c].refused = {} /\ sent[c] \in Seq(Statuses)
    BY <1>1, <1>2 DEF IInv, TypeOK, EntryFits
  <2> QED BY <1>3, <2>1, ResponseFits DEF IInv
<1>7. conn[c].state # "closed" /\ conn'[c].state # "closed"
  BY <1>1, <1>2 DEF IInv, TypeOK
<1> QED BY <1>1, <1>2, <1>4, <1>5, <1>6, <1>7, OneConnection

\* StateClosed counts the connection if its latest request was refused.
LEMMA ClosedStep ==
    ASSUME IInv, NEW c \in Conns, Closed(c)
    PROVE  IInv'
<1> DEFINE k == [conn |-> c, label |-> sniffed[c].status]
<1>1. /\ conn[c].state = "closing"
      /\ conn' = [conn EXCEPT ![c].state = "closed"]
      /\ entry' = [entry EXCEPT ![c] = "none"]
      /\ counted' = IF entry[c] # "notRun" THEN counted ELSE counted \cup {k}
      /\ UNCHANGED <<sniffed, sent>>
  BY DEF Closed, Move
<1>2. conn'[c] = [conn[c] EXCEPT !.state = "closed"]
      /\ entry'[c] = "none"
      /\ \A d \in Conns \ {c} : conn'[d] = conn[d] /\ entry'[d] = entry[d]
  BY <1>1 DEF IInv, TypeOK
<1>3. TypeOK'
  <2>1. k \in [conn : Conns, label : Statuses]
    BY DEF IInv, TypeOK
  <2>2. counted' \subseteq [conn : Conns, label : Statuses]
    BY <1>1, <2>1 DEF IInv, TypeOK
  <2> QED BY <1>1, <2>2 DEF IInv, TypeOK
<1>4. ~ \E x \in counted : x.conn = c
  BY <1>1 DEF IInv, CountFits
<1>5. EntryFits(c)' /\ SniffFits(c)'
  <2>1. EntryFits(c)'
    BY <1>1, <1>2 DEF IInv, TypeOK, EntryFits
  <2> QED BY <1>1, <1>2, <2>1, NothingSent DEF IInv, TypeOK
<1>6. CountFits(c)'
  <2>1. entry[c] = "notRun" <=> conn[c].refused # {}
    BY <1>1 DEF IInv, EntryFits
  <2>2. conn'[c].state = "closed" /\ conn'[c].refused = conn[c].refused
    BY <1>2 DEF IInv, TypeOK
  <2>3. (\E x \in counted' : x.conn = c) <=> entry[c] = "notRun"
    <3>1. k.conn = c
      OBVIOUS
    <3> HIDE DEF k
    <3> QED BY <1>1, <1>4, <3>1
  <2> QED BY <2>1, <2>2, <2>3 DEF CountFits
<1>7. ASSUME NEW d \in Conns \ {c}
      PROVE  EntryFits(d)' /\ CountFits(d)' /\ SniffFits(d)'
  BY <1>1, <1>2 DEF IInv, EntryFits, CountFits, SniffFits
<1>8. LabelFits'
  BY <1>1, <1>2, <1>4 DEF IInv, TypeOK, LabelFits, EntryFits, SniffFits
<1> QED BY <1>3, <1>5, <1>6, <1>7, <1>8 DEF IInv

\* Every step keeps the invariant.
LEMMA NextIInv == IInv /\ [Next]_vars => IInv'
<1> SUFFICES ASSUME IInv, [Next]_vars PROVE IInv'
  OBVIOUS
<1>1. ASSUME NEW c \in Conns,
             \/ Accept(c) \/ Active(c) \/ GiveUp(c) \/ Handler(c) \/ Idle(c) \/ Hangup(c)
             \/ Closed(c)
             \/ \E status \in ReaderStatuses : Refuse(c, status)
      PROVE  IInv'
  BY <1>1, QuietStep, ActiveStep, RefuseStep, HandlerStep, ClosedStep
<1>2. CASE UNCHANGED vars
  BY <1>2 DEF vars, IInv, TypeOK, EntryFits, CountFits, SniffFits, LabelFits
<1> QED BY <1>1, <1>2 DEF Next

\* The invariant holds of every reachable state.
LEMMA Invariance == Spec => []IInv
BY InitIInv, NextIInv, PTL DEF Spec

-----------------------------------------------------------------------------
\* The maps of the tracker and the counter hold what their types say, whatever
\* the connections do (stdlib_boundary.go:45-66).
THEOREM TypeOKHolds == Spec => []TypeOK
<1>1. IInv => TypeOK
  BY DEF IInv
<1> QED BY <1>1, Invariance, PTL

\* Of the connections that have closed, the counter has exactly those whose
\* last request net/http refused (stdlib_boundary.go:81-124, 153-164).
THEOREM RefusalsCountedHolds == Spec => []RefusalsCounted
<1>1. IInv => RefusalsCounted
  BY DEF IInv, CountFits, RefusalsCounted
<1> QED BY <1>1, Invariance, PTL

\* The map never holds an entry for a connection that is gone or has sent
\* nothing yet (stdlib_boundary.go:83-109).
THEOREM NoLeakHolds == Spec => []NoLeak
<1>1. IInv => NoLeak
  BY DEF IInv, EntryFits, NoLeak
<1> QED BY <1>1, Invariance, PTL

\* For any connections and any mix of keepalive requests, a refusal is counted
\* under the status of the connection's first response, its own unless another
\* request was answered before (stdlib_boundary.go:118-150, 220-238).
THEOREM LabelIsFirstResponseHolds == Spec => []LabelIsFirstResponse
<1>1. IInv => LabelIsFirstResponse
  <2> SUFFICES ASSUME IInv, NEW k \in counted
               PROVE  /\ k.label = IF sent[k.conn] = <<>> THEN Silent ELSE sent[k.conn][1]
                      /\ \/ conn[k.conn].refused = {k.label}
                         \/ sent[k.conn] # <<>> /\ conn[k.conn].refused = {Silent}
                         \/ Len(sent[k.conn]) > 1
    BY DEF LabelIsFirstResponse
  <2>1. PICK c \in Conns : c = k.conn
    BY DEF IInv, TypeOK
  <2>2. /\ CountFits(c) /\ SniffFits(c) /\ k.label = sniffed[c].status
        /\ sent[c] \in Seq(Statuses)
    BY <2>1 DEF IInv, LabelFits, TypeOK
  <2>3. conn[c].refused # {}
    BY <2>1, <2>2 DEF CountFits
  <2> QED BY <2>1, <2>2, <2>3 DEF SniffFits
<1> QED BY <1>1, Invariance, PTL
=============================================================================
