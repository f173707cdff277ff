-------------------------- MODULE ConnectionBudget --------------------------
(***************************************************************************)
(* Connection slots shared by the endpoints of a device                    *)
(* (arachne-node/src/budget.rs) and the listener that runs exchanges on    *)
(* accepted connections (arachne-node/src/lib.rs).  A handshake takes a    *)
(* slot of its plane, or closes the longest-idle link and waits for its    *)
(* slot.  The victim is chosen under the lock and closed after it is       *)
(* released, so other steps fall between the two.                          *)
(***************************************************************************)
EXTENDS Integers, SequencesExt

CONSTANTS
  Conns,        \* connections
  Control,      \* those of the control plane; the rest carry data
  Slots,        \* connection slots of each plane
  Exchanges,    \* exchange slots of each plane
  MaxStreams,   \* bound: exchanges at once on one connection
  Cases         \* sets of connections a behaviour may be about

Planes == {"data", "control"}

BudgetAssumption ==
  /\ Control \subseteq Conns /\ Cases \subseteq SUBSET Conns /\ MaxStreams \in Nat
  /\ Slots \in [Planes -> Nat] /\ Exchanges \in [Planes -> Nat]

VARIABLES
  link,     \* for each connection its phase, victim, exchanges and marks
  recent,   \* tracked connections, the longest inactive first
  waiters,  \* newcomers waiting for a slot of each plane, in order
  free,     \* free connection slots
  spare     \* free exchange slots

vars == <<link, recent, waiters, free, spare>>

Present == DOMAIN link
plane(c) == IF c \in Control THEN "control" ELSE "data"
New == [phase |-> "handshake", victim |-> {}, busy |-> 0, evictable |-> FALSE, idle |-> FALSE]

Init ==
  /\ \E conns \in Cases : link = [c \in conns |-> New] /\ recent = <<>>
  /\ waiters = [p \in Planes |-> <<>>] /\ free = Slots /\ spare = Exchanges

Without(s, c) == SelectSeq(s, LAMBDA x : x # c)
Touch(c) == Append(Without(recent, c), c)

\* Connections evict_idle may choose, and the one it does.
IdleLinks(p) ==
  {c \in ToSet(recent) : /\ plane(c) = p /\ link[c].evictable
                         /\ link[c].busy = 0 /\ link[c].idle}
LongestIdle(p) ==
  {c \in IdleLinks(p) : \A d \in IdleLinks(p) :
     \E i, j \in DOMAIN recent : i <= j /\ recent[i] = c /\ recent[j] = d}

-----------------------------------------------------------------------------
\* after_handshake: a free slot, a victim to close, or a refusal.
after_handshake(c) ==
  /\ link[c].phase = "handshake"
  /\ IF free[plane(c)] > 0
     THEN /\ link' = [link EXCEPT ![c].phase = "open"] /\ recent' = Append(recent, c)
          /\ free' = [free EXCEPT ![plane(c)] = @ - 1]
     ELSE /\ link' = [link EXCEPT ![c].phase =
                        IF LongestIdle(plane(c)) = {} THEN "refused" ELSE "evicting",
                      ![c].victim = LongestIdle(plane(c))]
          /\ UNCHANGED <<recent, free>>
  /\ UNCHANGED <<waiters, spare>>

\* evict_idle closes the victim it chose; the newcomer queues for a slot.  The
\* semaphore gives a slot that came free in between to it at once.
CloseVictim(c) ==
  LET p == plane(c) IN
  /\ link[c].phase = "evicting"
  /\ IF free[p] > 0
     THEN /\ free' = [free EXCEPT ![p] = @ - 1] /\ recent' = Append(recent, c)
          /\ UNCHANGED waiters
     ELSE /\ waiters' = [waiters EXCEPT ![p] = Append(@, c)] /\ UNCHANGED <<free, recent>>
  /\ link' = [d \in Present |->
       IF d = c THEN [link[c] EXCEPT !.phase = IF free[p] > 0 THEN "open" ELSE "waiting"]
       ELSE IF d \in link[c].victim /\ link[d].phase = "open"
       THEN [link[d] EXCEPT !.phase = "closed"] ELSE link[d]]
  /\ UNCHANGED spare

\* The wait of EVICTION_WAIT ends without a slot.
WaitEnds(c) ==
  /\ link[c].phase = "waiting" /\ link' = [link EXCEPT ![c].phase = "refused"]
  /\ waiters' = [waiters EXCEPT ![plane(c)] = Without(@, c)]
  /\ UNCHANGED <<recent, free, spare>>

\* The task that waits for the close forgets the connection and gives its slot
\* back: to the first newcomer that waits, or to the pool.
ReleaseKeeps(c) ==
  /\ link[c].phase = "closed" /\ link' = [link EXCEPT ![c].phase = "gone"]
  /\ recent' = Without(recent, c) /\ UNCHANGED <<waiters, free, spare>>
Release(c) ==
  LET p == plane(c) IN
  /\ link[c].phase = "closed"
  /\ IF waiters[p] = <<>>
     THEN /\ link' = [link EXCEPT ![c].phase = "gone"]
          /\ free' = [free EXCEPT ![p] = @ + 1] /\ recent' = Without(recent, c)
          /\ UNCHANGED waiters
     ELSE /\ link' = [link EXCEPT ![c].phase = "gone", ![Head(waiters[p])].phase = "open"]
          /\ recent' = Append(Without(recent, c), Head(waiters[p]))
          /\ waiters' = [waiters EXCEPT ![p] = Tail(@)] /\ UNCHANGED free
  /\ UNCHANGED spare

\* The listener serves the connection as an exchange link, not as gossip.
mark_evictable(c) ==
  /\ link[c].phase = "open" /\ ~ link[c].evictable
  /\ link' = [link EXCEPT ![c].evictable = TRUE]
  /\ UNCHANGED <<recent, waiters, free, spare>>

\* A stream arrives and takes an exchange slot; without one it is reset, which
\* changes nothing here.
StartExchange(c) ==
  /\ link[c].phase = "open" /\ link[c].evictable
  /\ spare[plane(c)] > 0 /\ link[c].busy < MaxStreams
  /\ link' = [link EXCEPT ![c].busy = @ + 1, ![c].idle = FALSE]
  /\ recent' = Touch(c) /\ spare' = [spare EXCEPT ![plane(c)] = @ - 1]
  /\ UNCHANGED <<waiters, free>>

\* An exchange ends, with its reply, its failure or its connection; its guard
\* marks the connection active while it is tracked.
EndExchange(c) ==
  /\ link[c].busy > 0
  /\ link' = [link EXCEPT ![c].busy = @ - 1, ![c].idle = FALSE]
  /\ recent' = IF c \in ToSet(recent) THEN Touch(c) ELSE recent
  /\ spare' = [spare EXCEPT ![plane(c)] = @ + 1]
  /\ UNCHANGED <<waiters, free>>

\* EVICTABLE_AFTER passes since a connection was last active; those inactive
\* for longer are idle already.
TimePasses(c) ==
  /\ c \in ToSet(recent) /\ ~ link[c].idle
  /\ \A i, j \in DOMAIN recent : recent[j] = c /\ i < j => link[recent[i]].idle
  /\ link' = [link EXCEPT ![c].idle = TRUE]
  /\ UNCHANGED <<recent, waiters, free, spare>>

\* The peer closes the connection, or the listener does after CONNECTION_IDLE.
Close(c) ==
  /\ link[c].phase = "open" /\ link' = [link EXCEPT ![c].phase = "closed"]
  /\ UNCHANGED <<recent, waiters, free, spare>>

Next ==
  \E c \in Present :
    \/ after_handshake(c) \/ CloseVictim(c) \/ WaitEnds(c) \/ Release(c)
    \/ mark_evictable(c) \/ StartExchange(c) \/ EndExchange(c) \/ TimePasses(c) \/ Close(c)

Spec == Init /\ [][Next]_vars

-----------------------------------------------------------------------------
Holds(c) == link[c].phase \in {"open", "closed"}

\* Phases, marks and counts are in range; tracked connections and waiting ones
\* are listed once.
TypeOK ==
  /\ link \in [Present -> [phase : {"handshake", "evicting", "waiting", "open", "closed", "gone", "refused"},
                         victim : SUBSET Present, busy : 0 .. MaxStreams,
                         evictable : BOOLEAN, idle : BOOLEAN]]
  /\ IsInjective(recent) /\ ToSet(recent) = {c \in Present : Holds(c)}
  /\ \A p \in Planes : IsInjective(waiters[p])
                       /\ ToSet(waiters[p]) = {c \in Present : plane(c) = p /\ link[c].phase = "waiting"}

\* A slot is free or belongs to one connection of its plane, through evictions,
\* handovers to waiting newcomers and closes: "Data cannot consume the control
\* reserve", and cancellation and close return every slot.
\* Exchange slots come back too, however the exchange ended, also after its
\* connection is forgotten.
SlotsAreConserved ==
  /\ TypeOK
  /\ \A p \in Planes :
       LET Of(q) == {c \in Present : plane(c) = q} IN
       /\ free[p] + Cardinality({c \in Of(p) : Holds(c)}) = Slots[p]
       /\ spare[p] + FoldSet(LAMBDA c, n : n + link[c].busy, 0, Of(p)) = Exchanges[p]

====
