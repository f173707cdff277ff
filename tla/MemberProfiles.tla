--------------------------- MODULE MemberProfiles ---------------------------
(***************************************************************************)
(* How members learn each other's names (arachne-runtime/src/membership.rs *)
(* and committed_view.rs): signed profiles travel with membership queries  *)
(* and their answers, a page at a time when digests differ, and by gossip. *)
(*                                                                         *)
(* Names are stable and all of one size, so a profile is the number of its *)
(* member, a retained set a set of numbers, and a digest the epoch and the *)
(* set it is taken of.  Committed epochs are given by a list of rosters;   *)
(* how a node comes to its next epoch is MembershipSync's.                 *)
(*                                                                         *)
(* A query is answered by the responder, from the view it read when the    *)
(* query came; the host may commit an epoch before it has answered.        *)
(***************************************************************************)
EXTENDS Integers, FiniteSets, SequencesExt

CONSTANTS
  Nodes,              \* members, as numbers in the order of their ids
  Links,              \* the pairs of Nodes of which the first asks the second
  Cases,              \* [rosters, start, links, overlay, losses, restarts]
  MAX_PAGE_PROFILES,  \* 32
  Budget,             \* MAX_PROFILE_SET_BYTES, in profiles
  MaxHeld             \* MAX_HELD_PROFILE_BYTES, in profiles

VARIABLES
  setup,    \* the scenario
  node,     \* of each member the session's profile fields
  gossip,   \* profiles under way on the overlay
  left      \* exchanges that may still be lost, and members that may restart

vars == <<setup, node, gossip, left>>

Roster(epoch) == setup.rosters[epoch]
NoDigest == [epoch |-> 0, names |-> {}]
NoQuery == [at |-> "none", peer |-> 0, epoch |-> 0, view |-> 0, digest |-> NoDigest, names |-> {}]
NoPull == [at |-> "none", peer |-> 0, after |-> 0, digest |-> NoDigest, page |-> {}]

Fresh(epoch) ==
  [epoch |-> epoch, retained |-> {}, checked |-> 0, cursor |-> 0, to_gossip |-> <<>>, held |-> <<>>,
   summaries |-> [p \in Nodes |-> NoDigest], walked |-> [p \in Nodes |-> NoDigest],
   query |-> NoQuery, pull |-> NoPull]

Init ==
  /\ setup \in Cases
  /\ node = [m \in DOMAIN setup.start |-> Fresh(setup.start[m])]
  /\ gossip = {} /\ left = [losses |-> setup.losses, restarts |-> setup.restarts]

Members == DOMAIN node
InOrder(names) == SetToSortSeq(names, <)
Among(seq, n) == {seq[i] : i \in 1 .. Min({n, Len(seq)})}

-----------------------------------------------------------------------------
\* merge_into: the set is verified again when the state moved on, the own
\* profile is put in, and others as the budget allows, in the order of ids.
\* Mutant of Verified: an answer from an older view takes names away.
VerifiedAgain(s, epoch) == IF s.checked # epoch THEN s.retained \cap Roster(epoch) ELSE s.retained
Verified(s, epoch) ==
  IF epoch > s.checked THEN s.retained \cap Roster(epoch) ELSE s.retained


merge_into(m, s, epoch, names) ==
  LET kept == Verified(s, epoch) \cup {m}
      more == InOrder((names \cap Roster(epoch)) \ kept)
  IN  [s EXCEPT !.retained = kept \cup Among(more, Budget - Cardinality(kept)),
                !.checked = Max({@, epoch})]

profiles_digest(s, epoch) == [epoch |-> epoch, names |-> s.retained]

\* profile_page: the own name, and the next retained one after the cursor.
Candidates(m, s, requester) == s.retained \ {m, requester}
NextName(m, s, requester) ==
  LET all == Candidates(m, s, requester)
      later == {x \in all : x > s.cursor}
  IN  IF all = {} THEN {} ELSE {IF later = {} THEN Min(all) ELSE Min(later)}
Page(m, s, requester) == {m} \cup NextName(m, s, requester)
Turned(m, s, requester) ==
  LET next == NextName(m, s, requester)
  IN  IF next = {} THEN s ELSE [s EXCEPT !.cursor = CHOOSE x \in next : TRUE]

\* hold_profile and queue_gossip: the oldest goes when the bound is passed.
hold_profile(held, x) == Append(IF Len(held) >= MaxHeld THEN Tail(held) ELSE held, x)

Put(m, s) == node' = [node EXCEPT ![m] = s]

-----------------------------------------------------------------------------
start_query(m, p) ==
  LET s == merge_into(m, node[m], node[m].epoch, {})
      digest == profiles_digest(s, s.epoch)
      agreed == s.summaries[p] = digest
      asked == [NoQuery EXCEPT !.at = "sent", !.peer = p, !.epoch = s.epoch, !.digest = digest,
                               !.names = IF agreed THEN {} ELSE Page(m, s, p)]
  IN  /\ node[m].query.at = "none" /\ <<m, p>> \in setup.links /\ p \in Roster(node[m].epoch)
      /\ UNCHANGED <<setup, gossip, left>>
      /\ Put(m, [(IF agreed THEN s ELSE Turned(m, s, p)) EXCEPT !.query = asked])

\* The responder reads the published view; then it answers.
ReadView(m) ==
  /\ node[m].query.at = "sent"
  /\ Put(m, [node[m] EXCEPT !.query.at = "read", !.query.view = node[node[m].query.peer].epoch])
  /\ UNCHANGED <<setup, gossip, left>>

\* answer_query: the names the query carries are retained, the new ones queued
\* for gossip.  A step that fills the answer leaves no room for a page.
answer_query(m, crowded) ==
  LET q == node[m].query
      p == q.peer
      s == merge_into(p, node[p], q.view, q.names)
      new == InOrder((q.names \cap s.retained \cap Roster(q.view)) \ node[p].retained)
      queued == [s EXCEPT !.to_gossip = FoldLeft(hold_profile, @, new)]
      digest == profiles_digest(queued, q.view)
      differ == digest # q.digest
      reply(names) == [q EXCEPT !.at = "replied", !.digest = digest, !.names = names]
  IN  /\ q.at = "read" /\ (crowded => q.view > q.epoch)
      /\ UNCHANGED <<setup, gossip, left>>
      /\ IF m \notin Roster(q.view)
         THEN Put(m, [node[m] EXCEPT !.query.at = "denied"])
         ELSE node' = [node EXCEPT
                ![m].query = reply(IF differ /\ ~ crowded THEN Page(p, queued, m) ELSE {}),
                ![p] = IF differ THEN Turned(p, queued, m) ELSE queued]

Lose(m) ==
  /\ left.losses > 0 /\ left' = [left EXCEPT !.losses = @ - 1]
  /\ \/ node[m].query.at \in {"sent", "replied"} /\ Put(m, [node[m] EXCEPT !.query.at = "failed"])
     \/ node[m].pull.at \in {"sent", "served"} /\ Put(m, [node[m] EXCEPT !.pull.at = "failed"])
  /\ UNCHANGED <<setup, gossip>>

\* start_profile_pull: one at a time.
start_profile_pull(s, peer, after, digest) ==
  IF s.pull.at # "none" THEN s
  ELSE [s EXCEPT !.pull = [NoPull EXCEPT !.at = "sent", !.peer = peer, !.after = after, !.digest = digest]]

\* PollMembershipUpdate: an answer to an older state, a refusal or a failure is
\* dropped; else the names are merged, and a set that differs is walked once.
PollReply(m) ==
  LET q == node[m].query
      ended == [node[m] EXCEPT !.query = NoQuery]
      merged == IF q.names = {} THEN ended ELSE merge_into(m, ended, ended.epoch, q.names)
      noted == [merged EXCEPT !.summaries[q.peer] = q.digest]
      walk == profiles_digest(noted, noted.epoch) # q.digest /\ noted.walked[q.peer] # q.digest
      stale == ended.epoch # q.epoch \/ q.peer \notin Roster(ended.epoch)
  IN  /\ q.at \in {"replied", "denied", "failed"}
      /\ UNCHANGED <<setup, gossip, left>>
      /\ Put(m, IF q.at # "replied" \/ stale THEN ended
                ELSE IF walk THEN start_profile_pull(noted, q.peer, 0, q.digest)
                ELSE noted)

\* profile_page_reply: a page in the order of ids, or nothing to strangers.
profile_page_reply(m) ==
  LET pull == node[m].pull
      s == node[pull.peer]
      page == Among(InOrder({x \in s.retained : x > pull.after}), MAX_PAGE_PROFILES)
  IN  /\ pull.at = "sent"
      /\ UNCHANGED <<setup, gossip, left>>
      /\ Put(m, [node[m] EXCEPT !.pull.at = IF m \in Roster(s.epoch) THEN "served" ELSE "failed",
                                !.pull.page = page])

\* finish_profile_pull: the next page while they are full and carry a name of
\* this roster; a page that is lost ends the walk of this set.
finish_profile_pull(m) ==
  LET pull == node[m].pull
      ended == [node[m] EXCEPT !.pull = NoPull]
      served == pull.at = "served"
      merged == IF served THEN merge_into(m, ended, ended.epoch, pull.page) ELSE ended
      more == /\ served /\ Cardinality(pull.page) = MAX_PAGE_PROFILES
              /\ pull.page \cap Roster(ended.epoch) # {}
  IN  /\ pull.at \in {"served", "failed"}
      /\ UNCHANGED <<setup, gossip, left>>
      /\ Put(m, IF more THEN start_profile_pull(merged, pull.peer, Max(pull.page), pull.digest)
                ELSE [merged EXCEPT !.walked[pull.peer] = pull.digest])

\* send_queued_profiles, on the host's next poll.  A node without neighbours on
\* the overlay reaches no one.
send_queued_profiles(m) ==
  /\ node[m].to_gossip # <<>>
  /\ gossip' = gossip \cup [to : setup.overlay \ {m}, name : ToSet(node[m].to_gossip)]
  /\ Put(m, [node[m] EXCEPT !.to_gossip = <<>>])
  /\ UNCHANGED <<setup, left>>

\* take_gossiped_profile: a name whose member is not in the roster yet is held.
take_gossiped_profile(m, x) ==
  /\ [to |-> m, name |-> x] \in gossip /\ gossip' = gossip \ {[to |-> m, name |-> x]}
  /\ Put(m, IF x \in Roster(node[m].epoch) THEN merge_into(m, node[m], node[m].epoch, {x})
            ELSE [node[m] EXCEPT !.held = hold_profile(@, x)])
  /\ UNCHANGED <<setup, left>>

LoseGossip == \E g \in gossip : gossip' = gossip \ {g} /\ UNCHANGED <<setup, node, left>>

\* commit_workspace, with retain_held_profiles.
commit_workspace(m) ==
  LET next == [node[m] EXCEPT !.epoch = @ + 1]
      ready == ToSet(next.held) \cap Roster(next.epoch)
      waiting == [next EXCEPT !.held = SelectSeq(@, LAMBDA x : x \notin ready)]
  IN  /\ node[m].epoch < Len(setup.rosters) /\ m \in Roster(node[m].epoch + 1)
      /\ UNCHANGED <<setup, gossip, left>>
      /\ Put(m, IF ready = {} THEN waiting ELSE merge_into(m, waiting, next.epoch, ready))

\* Profiles are not saved: a session that is opened again has none.
Restart(m) ==
  /\ m \in left.restarts /\ left' = [left EXCEPT !.restarts = @ \ {m}]
  /\ Put(m, Fresh(node[m].epoch))
  /\ UNCHANGED <<setup, gossip>>

\* roster: a host reads the names, and hands in those it stored in an earlier
\* session.
roster(m, stored) ==
  /\ stored # {} => m \in setup.restarts \ left.restarts
  /\ UNCHANGED <<setup, gossip, left>>
  /\ Put(m, merge_into(m, node[m], node[m].epoch, stored))

-----------------------------------------------------------------------------
Exchange(m) ==
  ReadView(m) \/ answer_query(m, FALSE) \/ PollReply(m) \/ profile_page_reply(m) \/ finish_profile_pull(m)

Next ==
  \/ \E m \in Members :
       \/ \E p \in Members : start_query(m, p)
       \/ Exchange(m) \/ answer_query(m, TRUE) \/ Lose(m)
       \/ send_queued_profiles(m) \/ commit_workspace(m) \/ Restart(m)
       \/ \E stored \in {{}} \cup {{x} : x \in Nodes} : roster(m, stored)
       \/ \E x \in Nodes : take_gossiped_profile(m, x)
  \/ LoseGossip

\* Hosts poll and adopt, responders answer, and members go on asking those
\* they have a link to: presence announcements and the host's refresh start
\* queries.  Gossip may be lost every time.
Fairness ==
  /\ \A m \in Nodes : WF_vars(m \in Members /\ Exchange(m)) /\ WF_vars(m \in Members /\ commit_workspace(m))
  /\ \A l \in Links : SF_vars({l[1], l[2]} \subseteq Members /\ start_query(l[1], l[2]))

Spec == Init /\ [][Next]_vars /\ Fairness

-----------------------------------------------------------------------------
\* The values the variables range over, and the bounds of what is kept.
TypeOK ==
  /\ setup \in Cases /\ gossip \subseteq [to : Nodes, name : Nodes]
  /\ \A m \in Members :
       LET s == node[m]
       IN  /\ s.epoch \in 1 .. Len(setup.rosters) /\ s.checked \in 0 .. Len(setup.rosters)
           /\ s.retained \subseteq Nodes /\ Cardinality(s.retained) <= Budget /\ s.cursor \in Nodes \cup {0}
           /\ Len(s.held) <= MaxHeld /\ Len(s.to_gossip) <= MaxHeld

\* A member's name that is known stays known as long as the member stays and
\* the session runs: neither an answer from an older view nor a full budget
\* takes it away ("It must not remove names that the newer state verified",
\* merge_into), and a name that came before its member's step is not left
\* behind by that step (retain_held_profiles).  All within the bounds of TypeOK.
NamesStay ==
  [][/\ TypeOK'
     /\ left'.restarts = left.restarts =>
        \A m \in Members : LET current == Roster(node[m].epoch)' IN
          /\ node[m].retained \cap current \subseteq node'[m].retained
          /\ ToSet(node'[m].held) \cap current = {}]_vars

=============================================================================
