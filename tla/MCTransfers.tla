---------------------------- MODULE MCTransfers ----------------------------
(***************************************************************************)
(* Instances of ConnectionCache and ResourceTransfers for TLC.  A          *)
(* behaviour is about one of them and the other rests.                     *)
(*                                                                         *)
(* Cache: three peers, two requests at a time, room for two connections.   *)
(* Transfers: files 1 and 2 are the node's own, 3 and 4 those of others.   *)
(* One job more than fits, one grant and one stream at a time.             *)
(***************************************************************************)
EXTENDS ResourceTransfers

op(kind, hash) == [kind |-> kind, hash |-> hash, sized |-> TRUE]
Resting == [ops |-> <<>>, streams |-> {}, changes |-> 0, revisions |-> 1,
            expire |-> FALSE, cancel |-> FALSE, stops |-> FALSE]
\* A file is served while grants are withdrawn, a policy comes or the node stops.
Serves == [Resting EXCEPT !.ops = <<op("prepare", 1)>>, !.streams = {1}, !.changes = 2, !.revisions = 2,
                          !.stops = TRUE]
TwoStreams == [Resting EXCEPT !.ops = <<op("prepare", 1)>>, !.streams = {1, 2}, !.changes = 1]
\* The grant of a running stream expires while another file is prepared.
Expires == [Resting EXCEPT !.ops = <<op("prepare", 1), op("prepare", 2)>>, !.streams = {1},
                           !.expire = TRUE, !.cancel = TRUE]
\* Downloads race each other, a policy, the end of the node and a clearing.
Fetches == [Resting EXCEPT !.ops = <<op("fetch", 3), op("fetch", 4)>>, !.changes = 1, !.revisions = 2,
                           !.stops = TRUE]
Clears == [Resting EXCEPT !.ops = <<op("fetch", 3), op("fetch", 4), op("clear", 3)>>, !.cancel = TRUE]
\* A file that is already here is asked for with another size.
Resized == [Resting EXCEPT !.ops = <<op("fetch", 3), [op("fetch", 3) EXCEPT !.sized = FALSE], op("fetch", 4)>>,
                           !.cancel = TRUE]

MCCases == {Resting, Serves, TwoStreams, Expires, Fetches, Clears, Resized}

CONSTANTS Peers, Requests   \* of the cache

VARIABLES cells, outgoing, request, open, dialed, unreachable
cacheVars == <<cells, outgoing, request, open, dialed, unreachable>>

Cache == INSTANCE ConnectionCache WITH Budget <- 2, MaxCells <- 3

ASSUME Cache!CacheAssumption

\* Transfers that rest have nothing to do, and are those of the cache's behaviours.
MCInit == Init /\ Cache!Init

MCNext ==
  \/ setup = Resting /\ Cache!Next /\ UNCHANGED vars
  \/ Next /\ UNCHANGED cacheVars

MCSpec == MCInit /\ [][MCNext]_<<vars, cacheVars>> /\ Fairness /\ Cache!Fairness

-----------------------------------------------------------------------------
\* Every control request comes to an end (ConnectionCache, get_or_try_init).
RequestsEnd == Cache!RequestsEnd

\* What a stalled request closes is the connection it stalled on
\* (ConnectionCache, discard: "A request was sent on it and no reply came").
StalledConnectionIsDiscarded == Cache!StalledConnectionIsDiscarded
=============================================================================
