--------------------------- MODULE MembershipSync ---------------------------
(***************************************************************************)
(* How members of a workspace learn the commits that administrators make:  *)
(* head announcements by gossip, presence, range pulls, membership queries *)
(* and the handoff of a staged commit (arachne-runtime/src/membership.rs,  *)
(* presence.rs, and the adoption code of lib.rs).                          *)
(*                                                                         *)
(* A commit is an administrator's change on top of a history, so a history *)
(* is the sequence of changes committed and its length is the epoch.  A    *)
(* step for epoch n is the history of length n + 1 it leads to: it         *)
(* verifies for a member exactly when it extends the member's own history  *)
(* by one.  Saving and adopting a candidate is one step; a process that    *)
(* stops may have saved the candidate or not.                              *)
(***************************************************************************)
EXTENDS Integers, SequencesExt

CONSTANTS
  Nodes,        \* members, each with its endpoint
  Admins,       \* the members that commit
  RangeSteps,   \* MAX_RANGE_STEPS of one range reply
  AheadLimit,   \* MAX_GOSSIP_STEPS_AHEAD
  MaxCommits,   \* bound on commits staged
  Cases         \* the members and the bounds a behaviour may start with

SyncAssumption ==
  /\ Admins \subseteq Nodes /\ MaxCommits \in Nat
  /\ RangeSteps \in Nat \ {0} /\ AheadLimit \in Nat \ {0}
  /\ \A c \in Cases :
       /\ c.members \subseteq Nodes /\ c.bounds.commits <= MaxCommits
       /\ c.bounds \in [{"commits", "queries", "offers", "handoffs", "losses", "blocks",
                         "discards", "crashes"} -> Nat]

VARIABLES
  node,     \* the membership fields of each member's session
  heads,    \* head announcements under way
  offers,   \* the offer each member has under way
  handed,   \* history: steps offered while their administrator had them staged
  left      \* what remains of the chosen bounds

vars == <<node, heads, offers, handed, left>>

\* The members of this workspace.
Members == DOMAIN node
Histories == UNION {[1 .. n -> 1 .. MaxCommits] : n \in 0 .. MaxCommits}
NoCandidate == [kind |-> "none", history |-> <<>>]
NoHead == [epoch |-> 0, authors |-> {}]
NoPull == [state |-> "none", after |-> 0, until |-> 0, peer |-> CHOOSE n \in Nodes : TRUE,
           steps |-> {}]
NoQuery == [state |-> "none", basis |-> <<>>, peer |-> CHOOSE n \in Nodes : TRUE,
            history |-> <<>>]
NoOffer == [state |-> "none", to |-> CHOOSE n \in Nodes : TRUE, history |-> <<>>]

Fresh(history) ==
  [history |-> history, staged |-> NoCandidate, head |-> NoHead, ahead |-> {},
   pull |-> NoPull, query |-> NoQuery, blocked |-> FALSE]

Init ==
  \E c \in Cases :
    /\ node = [m \in c.members |-> Fresh(<<>>)] /\ offers = [m \in c.members |-> NoOffer]
    /\ heads = {} /\ handed = {} /\ left = c.bounds

-----------------------------------------------------------------------------
Epoch(m) == Len(node[m].history)
Busy(m) == node[m].staged.kind # "none"
Spend(budget) == left[budget] > 0 /\ left' = [left EXCEPT ![budget] = @ - 1]

\* Only the newest head is kept, with everyone known to have it.
note_head(s, m, notes) ==
  LET news == {n \in notes : n.epoch > Len(s.history) /\ n.author # m}
      best == Max({n.epoch : n \in news} \cup {s.head.epoch})
      authors == {n.author : n \in {k \in news : k.epoch = best}}
  IN IF news = {} THEN s
     ELSE [s EXCEPT !.head = [epoch |-> best, authors |->
             IF best = s.head.epoch THEN s.head.authors \cup authors ELSE authors]]

\* stage_update: a received step is verified against the accepted history.
Verifies(s, step) == step # <<>> /\ Front(step) = s.history
CanStage(s) == s.staged.kind = "none" /\ ~ s.blocked
Received(step) == [kind |-> "received", history |-> step]

\* finish_range_pull: hold pulled steps in order, as many as fit; a pull that
\* brings none drops its peer from the head's authors.
finish_range_pull(s) ==
  LET news   == {h \in s.pull.steps : \A k \in s.ahead : Len(k) # Len(h)}
      fits   == {h \in news : Cardinality(s.ahead) + Cardinality({k \in news : Len(k) <= Len(h)})
                                 <= AheadLimit}
      pulled == {h \in s.pull.steps : \A k \in news \ fits : Len(h) < Len(k)}
      others == s.head.authors \ {s.pull.peer}
  IN IF s.pull.state # "done" THEN s
     ELSE [s EXCEPT !.pull = NoPull, !.ahead = @ \cup fits,
             !.head = IF pulled # {} THEN @
                      ELSE IF others = {} THEN NoHead ELSE [@ EXCEPT !.authors = others]]

\* What is behind this member's epoch is forgotten.
trim(s) ==
  [s EXCEPT !.ahead = {h \in @ : Len(h) > Len(s.history)},
            !.head = IF @.epoch <= Len(s.history) THEN NoHead ELSE @]

NextSteps(s) == {h \in s.ahead : Len(h) = Len(s.history) + 1}
\* An author that is a member is preferred over an administrator.
Preferred(authors) == IF authors \subseteq Admins THEN authors ELSE authors \ Admins
start_range_pull(s) ==
  IF s.pull.state # "none" \/ NextSteps(s) # {} \/ s.head.authors = {} THEN {s}
  ELSE {[s EXCEPT !.pull = [state |-> "sent", after |-> Len(s.history), until |-> s.head.epoch,
                            peer |-> p, steps |-> {}]] : p \in Preferred(s.head.authors)}

\* The next held step leaves the waiting set; it is staged or dropped.
stage_next(s) ==
  LET rest == [s EXCEPT !.ahead = @ \ NextSteps(s)]
      good == {h \in NextSteps(s) : CanStage(s) /\ Verifies(s, h)}
  IN IF good = {} THEN rest
     ELSE [rest EXCEPT !.staged = Received(CHOOSE h \in good : TRUE)]

\* The part of PollAdmission that reads gossip and moves to the next epoch.
stage_gossiped_step(m) ==
  /\ ~ Busy(m)
  /\ LET mine  == {h \in heads : h.to = m}
         noted == note_head(node[m], m, mine)
     IN /\ heads' = heads \ mine
        /\ \E s \in start_range_pull(trim(finish_range_pull(noted))) :
             node' = [node EXCEPT ![m] = stage_next(s)]
  /\ UNCHANGED <<offers, handed, left>>

\* announce_head: one announcement for every other member.
announce_head(m, history) ==
  heads \cup {[to |-> p, epoch |-> Len(history), author |-> m] : p \in Members \ {m}}

\* stage_management: an administrator prepares a commit on its own history.
\* No two commits are the same, so a commit is named by its number.
StageManagement(m) ==
  /\ m \in Admins /\ CanStage(node[m])
  /\ node' = [node EXCEPT ![m].staged =
                [kind |-> "own", history |-> Append(node[m].history, left.commits)]]
  /\ Spend("commits") /\ UNCHANGED <<heads, offers, handed>>

\* A member that adopted the newest head it heard announces it as well.
ReachedHead(s) ==
  /\ s.staged.kind # "own"
  /\ s.head.epoch <= Len(s.staged.history)
  /\ \A h \in s.ahead : Len(h) # Len(s.staged.history) + 1

\* The reply an inbound offer waits for.
Answered(m, answer) ==
  [o \in Members |-> IF offers[o].state = "held" /\ offers[o].to = m
                     /\ offers[o].history = node[m].staged.history
                   THEN [offers[o] EXCEPT !.state = answer] ELSE offers[o]]

\* Save, then AdoptAdmission: the history moves, the offer that brought the
\* step is acknowledged, and the new head is announced.
AdoptAdmission(m) ==
  LET s == node[m] IN
  /\ Busy(m)
  /\ node' = [node EXCEPT ![m] = [s EXCEPT !.history = s.staged.history, !.staged = NoCandidate]]
  /\ offers' = Answered(m, "adopted")
  /\ heads' = IF s.staged.kind = "own" \/ ReachedHead(s)
              THEN announce_head(m, s.staged.history) ELSE heads
  /\ UNCHANGED <<handed, left>>

\* The host gives its candidate up; not while an offer waits for it.
DiscardWorkspaceCandidate(m) ==
  /\ Busy(m) /\ node[m].staged.kind # "offered"
  /\ node' = [node EXCEPT ![m].staged = NoCandidate]
  /\ offers' = [offers EXCEPT ![m] = NoOffer]
  /\ Spend("discards") /\ UNCHANGED <<heads, handed>>

\* The process stops before or after its candidate was saved, and restarts.
Crash(m) ==
  /\ \E h \in {node[m].history} \cup (IF Busy(m) THEN {node[m].staged.history} ELSE {}) :
       node' = [node EXCEPT ![m] = Fresh(h)]
  /\ offers' = [Answered(m, "lost") EXCEPT ![m] = NoOffer]
  /\ Spend("crashes") /\ UNCHANGED <<heads, handed>>

-----------------------------------------------------------------------------
\* Mutant: the candidate is served before it is saved.
range_replyStaged(p, after, until) ==
  LET h == IF Busy(p) THEN node[p].staged.history ELSE node[p].history
  IN {SubSeq(h, 1, n) : n \in after + 1 .. Min({Len(h), after + RangeSteps})}

\* Range pulls are answered from the committed view whatever the peer does.
range_reply(p, after, until) ==
  {SubSeq(node[p].history, 1, n) :
     n \in after + 1 .. Min({until, Epoch(p), after + RangeSteps})}

ServeRange(m) ==
  /\ node[m].pull.state = "sent"
  /\ LET q == node[m].pull IN
     node' = [node EXCEPT ![m].pull.state = "done",
                          ![m].pull.steps = range_reply(q.peer, q.after, q.until)]
  /\ UNCHANGED <<heads, offers, handed, left>>

RangeFails(m) ==
  /\ node[m].pull.state = "sent"
  /\ node' = [node EXCEPT ![m].pull.state = "done"]
  /\ Spend("losses") /\ UNCHANGED <<heads, offers, handed>>

\* presence.rs: a member hears another one.  A peer that is ahead is noted as
\* a head; one that differs at the same epoch, or announces itself, is asked.
HearPresence(m, p, announces) ==
  LET noted  == note_head(node[m], m, {[epoch |-> Epoch(p), author |-> p]})
      differ == Epoch(p) = Epoch(m) /\ node[p].history # node[m].history
      asks   == (announces \/ differ) /\ noted.query.state = "none" /\ left.queries > 0
  IN /\ p # m /\ ~ Busy(m)
     /\ node' = [node EXCEPT ![m] = IF ~ asks THEN noted ELSE
          [noted EXCEPT !.query = [state |-> "sent", basis |-> noted.history, peer |-> p,
                                   history |-> <<>>]]]
     /\ left' = IF asks THEN [left EXCEPT !.queries = @ - 1] ELSE left
     /\ UNCHANGED <<heads, offers, handed>>

ServeQuery(m) ==
  /\ node[m].query.state = "sent"
  /\ node' = [node EXCEPT ![m].query.state = "done",
                          ![m].query.history = node[node[m].query.peer].history]
  /\ UNCHANGED <<heads, offers, handed, left>>

QueryFails(m) ==
  /\ node[m].query.state = "sent"
  /\ node' = [node EXCEPT ![m].query.state = "failed"]
  /\ Spend("losses") /\ UNCHANGED <<heads, offers, handed>>

\* PollMembershipUpdate: an answer about another basis is dropped; the peer's
\* epoch is noted.  The host may stage the step the answer carries.
PollMembershipUpdate(m, stages) ==
  LET s     == node[m]
      fresh == s.query.state = "done" /\ s.query.basis = s.history
      noted == note_head([s EXCEPT !.query = NoQuery], m,
                 IF fresh THEN {[epoch |-> Len(s.query.history), author |-> s.query.peer]}
                 ELSE {})
      step  == SubSeq(s.query.history, 1, Len(s.history) + 1)
  IN /\ s.query.state \in {"done", "failed"} /\ ~ Busy(m)
     /\ stages => fresh /\ CanStage(s) /\ Len(s.query.history) > Len(s.history)
                  /\ Verifies(s, step)
     /\ node' = [node EXCEPT ![m] =
                   IF stages THEN [noted EXCEPT !.staged = Received(step)] ELSE noted]
     /\ UNCHANGED <<heads, offers, handed, left>>

-----------------------------------------------------------------------------
Offer(m, p, step) ==
  /\ p # m /\ offers[m].state = "none"
  /\ offers' = [offers EXCEPT ![m] = [state |-> "sent", to |-> p, history |-> step]]
  /\ UNCHANGED <<node, heads>>

\* A member offers a step of its history.
OfferMembershipUpdate(m, p, step) ==
  ~ Busy(m) /\ step # <<>> /\ Offer(m, p, step) /\ Spend("offers") /\ UNCHANGED handed

\* An administrator offers the promotion it has staged and not yet adopted.
OfferStagedMembershipUpdate(m, p) ==
  /\ node[m].staged.kind = "own" /\ Offer(m, p, node[m].staged.history)
  /\ handed' = handed \cup {node[m].staged.history} /\ Spend("handoffs")

\* Mutant: the offer is acknowledged when its step is staged.
receive_offerEarly(m, p) ==
  LET takes == CanStage(node[p]) /\ Verifies(node[p], offers[m].history) IN
  /\ offers[m].state = "sent" /\ offers[m].to = p /\ ~ Busy(p)
  /\ offers' = [offers EXCEPT ![m].state = IF takes THEN "adopted" ELSE "refused"]
  /\ node' = IF takes THEN [node EXCEPT ![p].staged = Received(offers[m].history)] ELSE node
  /\ UNCHANGED <<heads, handed, left>>

\* receive_offer: the step is staged if it extends the current epoch.
receive_offer(m, p) ==
  LET s == node[p] takes == CanStage(s) /\ Verifies(s, offers[m].history) IN
  /\ offers[m].state = "sent" /\ offers[m].to = p /\ ~ Busy(p)
  /\ offers' = [offers EXCEPT ![m].state = IF takes THEN "held" ELSE "refused"]
  /\ node' = IF takes THEN [node EXCEPT ![p].staged =
                             [kind |-> "offered", history |-> offers[m].history]] ELSE node
  /\ UNCHANGED <<heads, handed, left>>

\* The exchange fails on the way there or on the way back.
OfferLost(m) ==
  /\ offers[m].state \in {"sent", "held", "adopted"}
  /\ offers' = [offers EXCEPT ![m].state = "lost"]
  /\ Spend("losses") /\ UNCHANGED <<node, heads, handed>>

PollMembershipOffer(m) ==
  /\ offers[m].state \in {"adopted", "refused", "lost"}
  /\ offers' = [offers EXCEPT ![m] = NoOffer]
  /\ UNCHANGED <<node, heads, handed, left>>

\* Applications that have messages of this epoch to take hold the next back.
ApplicationBlocks(m) ==
  /\ ~ node[m].blocked /\ ~ Busy(m) /\ node' = [node EXCEPT ![m].blocked = TRUE]
  /\ Spend("blocks") /\ UNCHANGED <<heads, offers, handed>>

ApplicationDrains(m) ==
  /\ node[m].blocked /\ node' = [node EXCEPT ![m].blocked = FALSE]
  /\ UNCHANGED <<heads, offers, handed, left>>

Next ==
  \E m \in Members :
    \/ stage_gossiped_step(m) \/ AdoptAdmission(m)
    \/ StageManagement(m) \/ DiscardWorkspaceCandidate(m) \/ Crash(m)
    \/ ServeRange(m) \/ RangeFails(m) \/ ServeQuery(m) \/ QueryFails(m)
    \/ \E stages \in BOOLEAN : PollMembershipUpdate(m, stages)
    \/ \E p \in Members, announces \in BOOLEAN : HearPresence(m, p, announces)
    \/ OfferLost(m) \/ PollMembershipOffer(m)
    \/ \E p \in Members :
         \/ receive_offer(m, p) \/ OfferStagedMembershipUpdate(m, p)
         \/ \E step \in Prefixes(node[m].history) : OfferMembershipUpdate(m, p, step)
    \/ ApplicationBlocks(m) \/ ApplicationDrains(m)

Spec == Init /\ [][Next]_vars

\* Drivers poll and save; drained applications let epochs pass; an exchange
\* that does not fail is answered; members keep hearing each other.
Fairness ==
  \A m \in Nodes :
       /\ WF_vars(m \in Members /\ stage_gossiped_step(m))
       /\ WF_vars(m \in Members /\ AdoptAdmission(m))
       /\ WF_vars(m \in Members /\ ApplicationDrains(m))
       /\ WF_vars(m \in Members /\ (ServeRange(m) \/ RangeFails(m)))
       /\ \A p \in Nodes \ {m} : WF_vars({m, p} \subseteq Members /\ HearPresence(m, p, FALSE))

-----------------------------------------------------------------------------
\* Every field has its type (the membership fields of Session).  Steps that
\* wait their turn are bounded, one for each epoch (MAX_GOSSIP_STEPS_AHEAD).
TypeOK ==
  /\ heads \subseteq [to : Nodes, epoch : 1 .. MaxCommits, author : Nodes]
  /\ handed \subseteq Histories /\ \A b \in DOMAIN left : left[b] \in Nat
  /\ \A m \in Members :
       LET s == node[m] IN
       /\ s.history \in Histories /\ s.ahead \subseteq Histories
       /\ Cardinality(s.ahead) <= AheadLimit /\ \A h, k \in s.ahead : Len(h) = Len(k) => h = k
       /\ s.staged.kind \in {"none", "own", "received", "offered"}
       /\ s.staged.history \in Histories /\ s.head.authors \subseteq Nodes \ {m}
       /\ s.head.epoch \in 0 .. MaxCommits /\ (s.head.epoch = 0 <=> s.head.authors = {})
       /\ s.pull.state \in {"none", "sent", "done"}
       /\ s.query.state \in {"none", "sent", "done", "failed"}
       /\ offers[m].state \in {"none", "sent", "held", "adopted", "refused", "lost"}

\* With one committing administrator two members hold different commits for
\* an epoch only after one of them was handed off: everything else that
\* reaches a member was saved by the administrator first, and no restart takes
\* back what a member was served (range_reply serves the committed view,
\* announce_head follows adoption).  A handed-off commit that its administrator
\* discards, or loses in a restart, is outside: its successor may hold it.
HistoriesAgree ==
  /\ TypeOK
  /\ \A m, p \in Members : \A n \in 1 .. Min({Epoch(m), Epoch(p)}) :
       \/ node[m].history[n] = node[p].history[n]
       \/ \E h \in handed : Len(h) <= n /\ \E q \in {m, p} : IsPrefix(h, node[q].history)

\* A peer's acknowledgment of an offer means it holds the step durably: the
\* exchange is answered by adoption, not by staging.
AcknowledgedStepsAreAdopted ==
  \A m \in Members : offers[m].state = "adopted" =>
    IsPrefix(offers[m].history, node[offers[m].to].history)

====
