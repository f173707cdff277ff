--------------------------- MODULE ConnectionCache ---------------------------
(***************************************************************************)
(* Outgoing connections of one plane (arachne-node/src/connections.rs):    *)
(* the cache of single-flight cells, eviction of an idle entry when the    *)
(* cache is full, dials and the peers they found unreachable, and the      *)
(* control requests that use connections and discard a stalled one         *)
(* (arachne-node/src/control.rs).  A request holds its cell, and later its *)
(* connection, outside the cache lock; the entry may be replaced meanwhile.*)
(* Connections are numbered as their dials succeed.                        *)
(***************************************************************************)
EXTENDS Integers, SequencesExt

CONSTANTS
  Peers,
  Requests,    \* exchanges that run at the same time
  Budget,      \* MAX_CONTROL_CONNECTIONS
  MaxCells     \* bound: cache entries ever created

CacheAssumption == Budget \in Nat \ {0} /\ MaxCells \in Nat

VARIABLES
  cells,       \* every cell created: its peer and its connection, 0 if none
  outgoing,    \* indices of the cached cells, the longest unused first
  request,     \* for each request its phase, peer, cell and connection
  open,        \* connections that are not closed
  dialed,      \* number of connections made
  unreachable  \* peers inside their redial wait

vars == <<cells, outgoing, request, open, dialed, unreachable>>

Idle == [phase |-> "idle", cell |-> 0, connection |-> 0]
Init ==
  /\ cells = <<>> /\ outgoing = <<>> /\ request = [r \in Requests |-> Idle]
  /\ open = {} /\ dialed = 0 /\ unreachable = {}

Users(cell) == {r \in Requests : request[r].phase \in {"awaiting", "dialing"} /\ request[r].cell = cell}
Using(c) == {r \in Requests : request[r].phase = "using" /\ request[r].connection = c}
Without(s, i) == SelectSeq(s, LAMBDA x : x # i)

\* The entries that connect keeps: those not known to be closed.
Retained == SelectSeq(outgoing, LAMBDA i : cells[i].connection \in open \cup {0})
Cached(p, entries) == {i \in ToSet(entries) : cells[i].peer = p}

\* Only an entry that no exchange and no dial uses may be evicted.
Evictable(entries) ==
  SelectSeq(entries, LAMBDA i : Users(i) = {} /\ Using(cells[i].connection) = {})

-----------------------------------------------------------------------------
\* connect, up to the wait on the cell.  Three outcomes change the cache: the
\* peer's entry is used again, a new one is added, or a new one takes the place
\* of the longest unused idle entry, whose connection closes with its last
\* owner.  With neither room nor an idle entry the request fails.
Reuse(r, i) ==
  /\ outgoing' = Append(Without(Retained, i), i)
  /\ request' = [request EXCEPT ![r] = [phase |-> "awaiting", cell |-> i, connection |-> 0]]
  /\ UNCHANGED <<cells, open>>

Enter(r, p, entries) ==
  /\ Len(cells) < MaxCells
  /\ cells' = Append(cells, [peer |-> p, connection |-> 0])
  /\ outgoing' = Append(entries, Len(cells) + 1)
  /\ request' = [request EXCEPT ![r] = [phase |-> "awaiting", cell |-> Len(cells) + 1, connection |-> 0]]

connect(r, p) ==
  /\ request[r] = Idle /\ p \notin unreachable
  /\ IF Cached(p, Retained) # {}
     THEN Reuse(r, CHOOSE i \in Cached(p, Retained) : TRUE)
     ELSE IF Len(Retained) < Budget
     THEN Enter(r, p, Retained) /\ UNCHANGED open
     ELSE IF Evictable(Retained) # <<>>
     THEN LET idle == Head(Evictable(Retained))
          IN Enter(r, p, Without(Retained, idle)) /\ open' = open \ {cells[idle].connection}
     ELSE outgoing' = Retained /\ UNCHANGED <<cells, request, open>>
  /\ UNCHANGED <<dialed, unreachable>>

\* get_or_try_init: one request at a time dials for a cell; the others take the
\* connection it leaves, or dial in their turn when it failed.
StartDial(r) ==
  /\ request[r].phase = "awaiting" /\ cells[request[r].cell].connection = 0
  /\ \A q \in Requests : request[q].phase = "dialing" => request[q].cell # request[r].cell
  /\ request' = [request EXCEPT ![r].phase = "dialing"]
  /\ UNCHANGED <<cells, outgoing, open, dialed, unreachable>>

TakeConnectionOpen(r) ==
  LET c == cells[request[r].cell].connection IN
  /\ request[r].phase = "awaiting" /\ c \in open
  /\ request' = [request EXCEPT ![r].phase = "using", ![r].connection = c]
  /\ UNCHANGED <<cells, outgoing, open, dialed, unreachable>>
TakeConnection(r) ==
  LET c == cells[request[r].cell].connection IN
  /\ request[r].phase = "awaiting" /\ c # 0
  /\ request' = [request EXCEPT ![r].phase = "using", ![r].connection = c]
  /\ UNCHANGED <<cells, outgoing, open, dialed, unreachable>>

PeerOf(r) == cells[request[r].cell].peer

\* dial succeeds.
DialOk(r) ==
  /\ request[r].phase = "dialing" /\ dialed' = dialed + 1 /\ open' = open \cup {dialed + 1}
  /\ cells' = [cells EXCEPT ![request[r].cell].connection = dialed + 1]
  /\ request' = [request EXCEPT ![r].phase = "using", ![r].connection = dialed + 1]
  /\ unreachable' = unreachable \ {PeerOf(r)} /\ UNCHANGED outgoing

\* dial fails.  Silence marks the peer; a refusal, no free dial slot and a
\* caller that gave up do not.  The cell stays for a later attempt.
DialFails(r, silent) ==
  /\ request[r].phase = "dialing" /\ request' = [request EXCEPT ![r] = Idle]
  /\ unreachable' = IF silent THEN unreachable \cup {PeerOf(r)} ELSE unreachable
  /\ UNCHANGED <<cells, outgoing, open, dialed>>

\* The wait ends, the network changes, a new address is given, or the peer
\* connects by itself.
Reachable(p) ==
  /\ p \in unreachable /\ unreachable' = unreachable \ {p}
  /\ UNCHANGED <<cells, outgoing, request, open, dialed>>

\* The exchange ends with its reply, or fails before a byte was written.
ExchangeEnds(r) ==
  /\ request[r].phase = "using" /\ request' = [request EXCEPT ![r] = Idle]
  /\ UNCHANGED <<cells, outgoing, open, dialed, unreachable>>

\* A request was written and no reply came: whatever is cached for the peer is
\* forgotten, and closed if it has a connection.
discard(r) ==
  LET entries == Cached(PeerOf(r), outgoing) IN
  /\ request[r].phase = "using" /\ request' = [request EXCEPT ![r] = Idle]
  /\ outgoing' = SelectSeq(outgoing, LAMBDA i : i \notin entries)
  /\ open' = open \ {cells[i].connection : i \in entries}
  /\ UNCHANGED <<cells, dialed, unreachable>>

\* The other side closes a connection.
Lost(c) ==
  /\ c \in open /\ open' = open \ {c}
  /\ UNCHANGED <<cells, outgoing, request, dialed, unreachable>>

Next ==
  \/ \E r \in Requests :
       \/ \E p \in Peers : connect(r, p)
       \/ StartDial(r) \/ TakeConnection(r) \/ DialOk(r)
       \/ \E silent \in BOOLEAN : DialFails(r, silent)
       \/ ExchangeEnds(r) \/ discard(r)
  \/ \E p \in Peers : Reachable(p)
  \/ \E c \in open : Lost(c)

Spec == Init /\ [][Next]_vars

\* A dial is bounded by a timeout and tasks run; requests waiting on a cell get
\* it in turn.
Fairness ==
  \A r \in Requests :
    /\ SF_vars(StartDial(r)) /\ WF_vars(TakeConnection(r)) /\ WF_vars(ExchangeEnds(r) \/ discard(r))
    /\ WF_vars(DialOk(r) \/ \E silent \in BOOLEAN : DialFails(r, silent))

-----------------------------------------------------------------------------
\* Stated by discard ("A request was sent on it and no reply came") and by its
\* caller ("do not reuse this connection for the retry"): what a stalled
\* request closes is the connection it stalled on.
StalledConnectionIsDiscarded ==
  [][\A r \in Requests : discard(r) => open \ open' \subseteq {request[r].connection}]_vars

\* Every request comes to an end: no cell is waited on for ever when the dial
\* of another request fails or is cancelled (get_or_try_init).
RequestsEnd ==
  \A r \in Requests : request[r].phase # "idle" ~> request[r].phase = "idle"
====
