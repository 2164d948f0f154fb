--------------------------- MODULE StdlibBoundary ---------------------------
(***************************************************************************)
(* The stdlib-boundary counter of internal/server/stdlib_boundary.go: the  *)
(* ConnState callback, the markHandlerSeen middleware and the sniffing     *)
(* connection, driven by keepalive connections.                            *)
(*                                                                         *)
(* net/http is external and is what the file's header says of it: a        *)
(* request is announced by StateActive, then refused by the reader with a  *)
(* status or in silence, or handed to the handler; a connection is Idle    *)
(* between requests and Closed at the end.                                 *)
(***************************************************************************)
EXTENDS Naturals, Sequences, FiniteSets

CONSTANTS
    Conns,             \* connections of the data listener
    ReaderStatuses,    \* statuses net/http's request reader answers with
    HandlerStatuses,   \* statuses the wavefront handler answers with
    MaxRequests        \* bound on the requests of a connection

ASSUME BoundaryAssumption ==
    /\ ReaderStatuses \subseteq 400..599 /\ HandlerStatuses \subseteq 100..999
    /\ MaxRequests \in Nat

VARIABLES
    conn,      \* net/http's side of each connection
    sniffed,   \* sniffingConn: whether a write was seen, and its status
    entry,     \* connStateMap: "none", or whether the handler ran
    counted,   \* increments of wavefront_stdlib_boundary_total
    sent       \* history: the statuses of each connection's responses

vars == <<conn, sniffed, entry, counted, sent>>

Silent == 0    \* the connection was closed without a response line

\* state: where net/http is; requests: how many have begun; refused: history,
\* the status of the request the reader refused, if it did.
Dialed == [state |-> "none", requests |-> 0, refused |-> {}]

Move(c, to) == conn' = [conn EXCEPT ![c].state = to]

\* Mutant: the listener is not wrapped.
WriteUnsniffed(c, status) == UNCHANGED sniffed

\* Mutant: the byte after the code is read as a fourth digit.
WriteFourDigits(c, status) ==
    sniffed' = [sniffed EXCEPT ![c] =
                    IF @.once THEN @ ELSE [once |-> TRUE, status |-> 10 * status]]

\* sniffingConn.Write: the first write only is parsed for a status line.
Write(c, status) ==
    sniffed' = [sniffed EXCEPT ![c] = IF @.once THEN @ ELSE [once |-> TRUE, status |-> status]]

\* A response goes out.
Respond(c, status) ==
    /\ Write(c, status)
    /\ sent' = [sent EXCEPT ![c] = Append(@, status)]

-----------------------------------------------------------------------------
(* net/http, with the hooks the server registers *)

\* sniffingListener.Accept; StateNew has no effect.
Accept(c) ==
    /\ conn[c].state = "none"
    /\ Move(c, "new")
    /\ UNCHANGED <<sniffed, entry, counted, sent>>

\* Mutant: an entry that exists is kept.
ActiveOnce(c) ==
    /\ conn[c].state \in {"new", "idle"} /\ conn[c].requests < MaxRequests
    /\ conn' = [conn EXCEPT ![c].state = "active", ![c].requests = @ + 1]
    /\ entry' = [entry EXCEPT ![c] = IF @ = "none" THEN "notRun" ELSE @]
    /\ UNCHANGED <<sniffed, counted, sent>>

\* connState(StateActive): bytes of a request were read; a fresh entry.
Active(c) ==
    /\ conn[c].state \in {"new", "idle"} /\ conn[c].requests < MaxRequests
    /\ conn' = [conn EXCEPT ![c].state = "active", ![c].requests = @ + 1]
    /\ entry' = [entry EXCEPT ![c] = "notRun"]
    /\ UNCHANGED <<sniffed, counted, sent>>

\* The reader answers the request itself: 431, 417, 400 or 501.
Refuse(c, status) ==
    /\ conn[c].state = "active"
    /\ conn' = [conn EXCEPT ![c].state = "closing", ![c].refused = {status}]
    /\ Respond(c, status)
    /\ UNCHANGED <<entry, counted>>

\* The reader gives up without a word: slow headers or a broken connection.
GiveUp(c) ==
    /\ conn[c].state = "active"
    /\ conn' = [conn EXCEPT ![c].state = "closing", ![c].refused = {Silent}]
    /\ UNCHANGED <<sniffed, entry, counted, sent>>

\* markHandlerSeen, then Recover and proxy: an answer, or an aborted handler.
Handler(c) ==
    /\ conn[c].state = "active"
    /\ entry' = [entry EXCEPT ![c] = IF @ = "none" THEN @ ELSE "ran"]
    /\ \/ Move(c, "answered") /\ \E status \in HandlerStatuses : Respond(c, status)
       \/ Move(c, "closing") /\ UNCHANGED <<sniffed, sent>>
    /\ UNCHANGED counted

\* connState(StateIdle): the connection is kept, and so is its entry.
Idle(c) ==
    /\ conn[c].state = "answered"
    /\ Move(c, "idle")
    /\ UNCHANGED <<sniffed, entry, counted, sent>>

\* The connection ends between requests.
Hangup(c) ==
    /\ conn[c].state \in {"new", "answered", "idle"}
    /\ Move(c, "closing")
    /\ UNCHANGED <<sniffed, entry, counted, sent>>

\* Mutant: the entry stays in the map.
ClosedLeaks(c) ==
    /\ conn[c].state = "closing"
    /\ Move(c, "closed")
    /\ counted' = IF entry[c] # "notRun" THEN counted
                  ELSE counted \cup {[conn |-> c, label |-> sniffed[c].status]}
    /\ UNCHANGED <<sniffed, entry, sent>>

\* connState(StateClosed): LoadAndDelete; a request the handler never saw is
\* counted under boundaryStatusLabel, "unknown" when nothing was captured.
Closed(c) ==
    /\ conn[c].state = "closing"
    /\ Move(c, "closed")
    /\ entry' = [entry EXCEPT ![c] = "none"]
    /\ counted' = IF entry[c] # "notRun" THEN counted
                  ELSE counted \cup {[conn |-> c, label |-> sniffed[c].status]}
    /\ UNCHANGED <<sniffed, sent>>

-----------------------------------------------------------------------------
Init ==
    /\ conn = [c \in Conns |-> Dialed]
    /\ sniffed = [c \in Conns |-> [once |-> FALSE, status |-> Silent]]
    /\ entry = [c \in Conns |-> "none"]
    /\ counted = {}
    /\ sent = [c \in Conns |-> <<>>]

Next ==
    \E c \in Conns :
        \/ Accept(c) \/ Active(c) \/ GiveUp(c) \/ Handler(c) \/ Idle(c) \/ Hangup(c)
        \/ Closed(c)
        \/ \E status \in ReaderStatuses : Refuse(c, status)

Spec == Init /\ [][Next]_vars

-----------------------------------------------------------------------------
(* Properties *)

Statuses == ReaderStatuses \cup HandlerStatuses \cup {Silent}

\* The types of the map, the sniffing connections and the counter.
TypeOK ==
    /\ conn \in [Conns -> [state : {"none", "new", "active", "answered", "idle",
                                    "closing", "closed"},
                           requests : 0..MaxRequests, refused : SUBSET Statuses]]
    /\ sniffed \in [Conns -> [once : BOOLEAN, status : Statuses]]
    /\ entry \in [Conns -> {"none", "notRun", "ran"}]
    /\ counted \subseteq [conn : Conns, label : Statuses]
    /\ sent \in [Conns -> Seq(Statuses)]

\* stdlib_boundary.go:81-124, 153-164: of the connections that have closed, the
\* counter has exactly those whose last request the reader refused, whatever
\* requests the handler served on them before.
RefusalsCounted ==
    \A c \in Conns : conn[c].state = "closed" =>
        (conn[c].refused # {} <=> \E k \in counted : k.conn = c)

\* stdlib_boundary.go:83-109: the map holds live connections only.
NoLeak == \A c \in Conns : conn[c].state \in {"none", "new", "closed"} => entry[c] = "none"

\* stdlib_boundary.go:118-150, 220-238: a refusal is counted under the status of
\* the connection's first response, and as "unknown" only if there was none.  So
\* the label is the refusal's own status unless the handler has answered another
\* request on the connection before; then it is that answer's.
LabelIsFirstResponse ==
    \A k \in counted :
        LET answers == sent[k.conn]
            own == conn[k.conn].refused = {k.label}
        IN  /\ k.label = IF answers = <<>> THEN Silent ELSE answers[1]
            /\ \/ own
               \/ answers # <<>> /\ conn[k.conn].refused = {Silent}
               \/ Len(answers) > 1
=============================================================================
