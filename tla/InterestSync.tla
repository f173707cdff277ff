---------------------------- MODULE InterestSync ----------------------------
(***************************************************************************)
(* Interests and publications between nodes: the routing table of every    *)
(* node, the interest updates of its session (arachne-runtime/src/         *)
(* interest.rs) and the frames that announce them or carry publications    *)
(* (arachne-node/src/lib.rs).  Announcements of a session are serialized;  *)
(* one announcement is an exchange with every publisher at once.  An       *)
(* exchange may fail before or after the peer applied its frame, and a     *)
(* frame may arrive after its exchange was given up.                       *)
(***************************************************************************)
EXTENDS RoutingTable, Sequences, FiniteSetsExt

CONSTANTS
  MaxRevision,
  Subscribers,   \* nodes whose application sets interests
  Senders,       \* nodes whose application publishes
  MaxInterests,  \* MAX_INTERESTS
  Cases          \* the policies of a behaviour and how often each event happens

Revisions == 1 .. MaxRevision
ASSUME InterestAssumption ==
  /\ Subscribers \cup Senders \subseteq Peers /\ Topics \subseteq Nat /\ {MaxRevision, MaxInterests, MaxTopicsPerPeer} \subseteq Nat \ {0}
  /\ \A c \in Cases : \A r \in Revisions :
       /\ c.policy[r].endpoints \subseteq Peers
       /\ c.policy[r].publish \cup c.policy[r].subscribe \subseteq c.policy[r].endpoints \X Topics

VARIABLES
  Policy,     \* the verified policy of every revision, 1 .. MaxRevision
  table,      \* the routing table of every node
  updates,    \* for every session its announcement in progress and its queues
  frames,     \* publications under way and announcements that outlived their exchange
  delivered,  \* publications given to the receiver, with the revision they arrived under
  chosen,     \* history: the last choice each application made for a topic
  left        \* what remains of each bound

vars == <<Policy, table, updates, frames, delivered, chosen, left>>

None == [revision |-> 0]
NoUpdates == [pending |-> None, waiting |-> {}, failed |-> FALSE,
              queued |-> <<>>, desired |-> {}, repair |-> {}, retry |-> FALSE,
              notice |-> FALSE]

Init ==
  /\ \E c \in Cases : Policy = c.policy /\ left = c.bounds
  /\ table = [n \in Peers |-> NoTable] /\ updates = [n \in Peers |-> NoUpdates]
  /\ frames = {} /\ delivered = {} /\ chosen = [n \in Peers |-> [t \in Topics |-> "none"]]

Spend(what) == left[what] > 0 /\ left' = [left EXCEPT ![what] = @ - 1]

Update(n, topic, subscribed) ==
  [revision |-> table[n].revision, topic |-> topic, subscribed |-> subscribed]
Without(us, topic) == {u \in us : u.topic # topic}
is_idle(u) == u.pending = None /\ u.queued = <<>> /\ u.repair = {}

-----------------------------------------------------------------------------
\* prepare_interest: the local table changes at once; the publishers are told.
prepare_interestAllowed(n, u) ==
  /\ publishersAllowed(table[n], u.revision, n, u.topic)
  /\ u.subscribed => subscribeAllowed(table[n], u.revision, n, u.topic)
Applied(t, n, u) == IF u.subscribed THEN subscribe(t, n, u.topic) ELSE unsubscribe(t, n, u.topic)
Announce(s, n, u) ==
  [s EXCEPT !.pending = u, !.waiting = publishers(table[n], u.topic) \ {n}, !.failed = FALSE]

\* set_interest: announce now, replace what is queued for the topic, or queue.
setQueues(n, topic, subscribed) ==
  LET u == Update(n, topic, subscribed)
      s == [updates[n] EXCEPT !.desired = Without(@, topic) \cup {u}]
  IN /\ n \in Subscribers /\ Spend("set") /\ prepare_interestAllowed(n, u)
     /\ table' = [table EXCEPT ![n] = Applied(@, n, u)]
     /\ chosen' = [chosen EXCEPT ![n][topic] = IF subscribed THEN "subscribed" ELSE "none"]
     /\ updates' = [updates EXCEPT ![n] = IF is_idle(s) THEN Announce(s, n, u)
                                          ELSE [s EXCEPT !.queued = Append(@, u)]]
     /\ UNCHANGED <<Policy, frames, delivered>>
set(n, topic, subscribed) ==
  LET u  == Update(n, topic, subscribed)
      s  == [updates[n] EXCEPT !.desired = Without(@, topic) \cup {u},
                               !.repair = Without(@, topic)]
      at == {i \in DOMAIN s.queued : s.queued[i].topic = topic}
  IN /\ n \in Subscribers /\ Spend("set") /\ prepare_interestAllowed(n, u)
     /\ at # {} \/ Len(s.queued) < MaxInterests
     /\ Cardinality(s.desired) <= MaxInterests
     /\ table' = [table EXCEPT ![n] = Applied(@, n, u)]
     /\ chosen' = [chosen EXCEPT ![n][topic] = IF subscribed THEN "subscribed" ELSE "none"]
     /\ updates' = [updates EXCEPT ![n] =
          IF is_idle(s) THEN Announce(s, n, u)
          ELSE IF at # {} THEN [s EXCEPT !.queued = [i \in DOMAIN @ |-> IF i \in at THEN u ELSE @[i]]]
          ELSE [s EXCEPT !.queued = Append(@, u)]]
     /\ UNCHANGED <<Policy, frames, delivered>>

\* apply at the peer, for an announcement of node n.
applyAllowed(p, n, u) ==
  IF u.subscribed THEN subscribeAllowed(table[p], u.revision, n, u.topic)
  ELSE unsubscribeAllowed(table[p], u.revision, n)

\* The blocking subscribe and unsubscribe are refused while updates wait.  They
\* announce like set_interest and leave no trace in the session.
Legacy(n, topic, subscribed) ==
  LET u == Update(n, topic, subscribed) IN
  /\ n \in Subscribers /\ Spend("legacy") /\ is_idle(updates[n]) /\ prepare_interestAllowed(n, u)
  /\ chosen' = [chosen EXCEPT ![n][topic] = IF subscribed THEN "subscribed" ELSE "withdrawn"]
  /\ table' = [p \in Peers |->
       IF p = n \/ (p \in publishers(table[n], topic) /\ applyAllowed(p, n, u))
       THEN Applied(table[p], n, u) ELSE table[p]]
  /\ UNCHANGED <<Policy, updates, frames, delivered>>

\* Everything desired that is not queued is announced again, in the order of the
\* topics (desired is an ordered map).
repair(s) ==
  [s EXCEPT !.repair = {d \in s.desired : \A i \in DOMAIN s.queued : s.queued[i].topic # d.topic}]
First(us) == CHOOSE u \in us : \A v \in us : u.topic <= v.topic

-----------------------------------------------------------------------------
\* poll: a due retry, the result of a finished announcement, then the next one.
\* A withdrawal that every publisher applied is no longer desired.
Finished(s) == s.pending # None /\ s.waiting = {}
AfterFinishNoRetry(s) == [s EXCEPT !.pending = None]
AfterFinish(s) ==
  LET withdrawn == {d \in s.desired : /\ d.topic = s.pending.topic /\ ~ d.subscribed
                                      /\ ~ s.pending.subscribed /\ d.revision = s.pending.revision}
  IN [s EXCEPT !.pending = None, !.retry = @ \/ s.failed,
               !.desired = IF s.failed THEN @ ELSE @ \ withdrawn]
PollInterest(n, due) ==
  LET s1 == IF is_idle(updates[n]) /\ updates[n].retry /\ due
            THEN repair([updates[n] EXCEPT !.retry = FALSE]) ELSE updates[n]
      s2 == IF Finished(s1) THEN AfterFinish(s1) ELSE s1
      u  == IF s2.queued # <<>> THEN Head(s2.queued) ELSE First(s2.repair)
      s3 == IF s2.queued # <<>> THEN [s2 EXCEPT !.queued = Tail(@)] ELSE [s2 EXCEPT !.repair = @ \ {u}]
  IN /\ n \in Subscribers
     /\ IF s2.pending # None \/ is_idle(s2)
        THEN updates' = [updates EXCEPT ![n] = s2] /\ UNCHANGED table
        ELSE IF prepare_interestAllowed(n, u)
        THEN /\ updates' = [updates EXCEPT ![n] = Announce(s3, n, u)]
             /\ table' = [table EXCEPT ![n] = Applied(@, n, u)]
        ELSE updates' = [updates EXCEPT ![n] = s3] /\ UNCHANGED table
     /\ UNCHANGED <<Policy, frames, delivered, chosen, left>>

\* send_frame: authorization is checked again before the bytes leave; the peer
\* applies the frame or rejects it; the acknowledgment arrives or not.
Resolve(n, p, ok) ==
  updates' = [updates EXCEPT ![n].waiting = @ \ {p}, ![n].failed = @ \/ ~ ok]
MaySend(n, p) ==
  /\ publishersAllowed(table[n], updates[n].pending.revision, n, updates[n].pending.topic)
  /\ p \in publishers(table[n], updates[n].pending.topic)

Exchange(n, p) ==
  LET u == updates[n].pending
      ok == MaySend(n, p) /\ applyAllowed(p, n, u)
  IN /\ p \in updates[n].waiting
     /\ table' = IF ok THEN [table EXCEPT ![p] = Applied(@, n, u)] ELSE table
     /\ Resolve(n, p, ok) /\ UNCHANGED <<Policy, frames, delivered, chosen, left>>

\* The exchange fails: nothing arrived, or only the acknowledgment is lost, or
\* the frame is still under way.
ExchangeFails(n, p, how) ==
  LET u == updates[n].pending IN
  /\ p \in updates[n].waiting /\ Spend(how) /\ Resolve(n, p, FALSE)
  /\ table' = IF how = "ack" /\ MaySend(n, p) /\ applyAllowed(p, n, u)
              THEN [table EXCEPT ![p] = Applied(@, n, u)] ELSE table
  /\ frames' = IF how = "late" /\ MaySend(n, p)
               THEN frames \cup {[kind |-> "interest", from |-> n, to |-> p, update |-> u]} ELSE frames
  /\ UNCHANGED <<Policy, delivered, chosen>>

LateFrame(f) ==
  /\ f \in frames /\ f.kind = "interest" /\ frames' = frames \ {f}
  /\ table' = IF applyAllowed(f.to, f.from, f.update)
              THEN [table EXCEPT ![f.to] = Applied(@, f.from, f.update)] ELSE table
  /\ UNCHANGED <<Policy, updates, delivered, chosen, left>>

-----------------------------------------------------------------------------
\* publish to the current subscribers, or publish_to an explicit audience.
Send(n, topic, to) ==
  frames' = frames \cup {[kind |-> "publish", from |-> n, to |-> p,
                          update |-> [revision |-> table[n].revision, topic |-> topic]] : p \in to}
publish(n, topic) ==
  /\ n \in Senders /\ Spend("publish") /\ recipientsAllowed(table[n], table[n].revision, n, topic)
  /\ Send(n, topic, recipients(table[n], topic)) /\ UNCHANGED <<Policy, table, updates, delivered, chosen>>
publish_to(n, topic, audience) ==
  /\ n \in Senders /\ Spend("publish")
  /\ direct_recipientsAllowed(table[n], table[n].revision, n, topic, audience)
  /\ Send(n, topic, direct_recipients(table[n], topic, audience))
  /\ UNCHANGED <<Policy, table, updates, delivered, chosen>>

\* The frame is checked against the sender's table before it leaves and against
\* the receiver's when it arrives, or it is lost.
DeliverAnyRevision(f) ==
  /\ f \in frames /\ f.kind = "publish" /\ frames' = frames \ {f}
  /\ delivered' = IF f.to \in recipients(table[f.to], f.update.topic)
                  THEN delivered \cup {[from |-> f.from, to |-> f.to, topic |-> f.update.topic,
                                        revision |-> table[f.to].revision]}
                  ELSE delivered
  /\ UNCHANGED <<Policy, table, updates, chosen, left>>
Deliver(f) ==
  /\ f \in frames /\ f.kind = "publish" /\ frames' = frames \ {f}
  /\ delivered' =
       IF /\ recipientsAllowed(table[f.to], f.update.revision, f.from, f.update.topic)
          /\ f.to \in recipients(table[f.to], f.update.topic)
       THEN delivered \cup {[from |-> f.from, to |-> f.to, topic |-> f.update.topic,
                             revision |-> table[f.to].revision]}
       ELSE delivered
  /\ UNCHANGED <<Policy, table, updates, chosen, left>>
\* The sender's own table no longer allows the frame when it is to be written.
Recheck(f) ==
  /\ f \in frames /\ f.kind = "publish"
  /\ ~ (recipientsAllowed(table[f.from], f.update.revision, f.from, f.update.topic)
        /\ f.to \in recipients(table[f.from], f.update.topic))
  /\ frames' = frames \ {f} /\ UNCHANGED <<Policy, table, updates, delivered, chosen, left>>

-----------------------------------------------------------------------------
\* Updates of an older revision are dropped with the announcement in progress.
Retained(s, revision) ==
  LET at == {i \in DOMAIN s : s[i].revision = revision}
  IN [k \in 1 .. Cardinality(at) |-> s[CHOOSE i \in at : Cardinality({j \in at : j <= i}) = k]]
replace_revision(s, revision) ==
  LET keep(u) == u.revision = revision IN
  [s EXCEPT !.desired = {d \in @ : keep(d)}, !.queued = Retained(@, revision), !.repair = {d \in @ : keep(d)},
            !.pending = IF @ # None /\ ~ keep(@) THEN None ELSE @,
            !.waiting = IF s.pending # None /\ ~ keep(s.pending) THEN {} ELSE @]

\* A verified policy is installed.  Its gossip overlay may fail to start after
\* the table has changed; the session's updates then stay.
InstallPolicy(n, revision, overlay) ==
  /\ revision \in Revisions /\ installAllowed(table[n], revision)
  /\ table' = [table EXCEPT ![n] = install_verified_policy(@, revision, Policy[revision])]
  /\ IF overlay THEN UNCHANGED left ELSE Spend("overlay")
  /\ updates' = IF overlay THEN [updates EXCEPT ![n] = replace_revision(@, revision)] ELSE updates
  /\ UNCHANGED <<Policy, frames, delivered, chosen>>

\* A node restarts without its interests and with the policy its host installs
\* again.  The others will notice by its presence.
Restart(n) ==
  /\ Spend("restart") /\ table[n].revision # 0
  /\ table' = [table EXCEPT ![n].subscriptions = {}]
  /\ updates' = [p \in Peers |-> IF p = n THEN NoUpdates ELSE [updates[p] EXCEPT !.notice = TRUE]]
  /\ chosen' = [chosen EXCEPT ![n] = [t \in Topics |-> "none"]]
  /\ UNCHANGED <<Policy, frames, delivered>>

\* Presence of a restarted peer, or a new address hint, makes a session announce
\* everything again.
Notice(n) ==
  /\ n \in Subscribers /\ updates[n].notice
  /\ updates' = [updates EXCEPT ![n] = repair([@ EXCEPT !.notice = FALSE])]
  /\ UNCHANGED <<Policy, table, frames, delivered, chosen, left>>
AddAddressHint(n) ==
  /\ n \in Subscribers /\ Spend("hint") /\ updates' = [updates EXCEPT ![n] = repair(@)]
  /\ UNCHANGED <<Policy, table, frames, delivered, chosen>>

Next ==
  \/ \E n \in Peers, topic \in Topics, subscribed \in BOOLEAN :
       set(n, topic, subscribed) \/ Legacy(n, topic, subscribed)
  \/ \E n \in Peers, topic \in Topics :
       publish(n, topic) \/ \E p \in Peers : publish_to(n, topic, {p})
  \/ \E n \in Peers, due \in BOOLEAN : PollInterest(n, due)
  \/ \E n, p \in Peers : Exchange(n, p) \/ \E how \in {"lost", "ack", "late"} : ExchangeFails(n, p, how)
  \/ \E f \in frames : LateFrame(f) \/ Deliver(f) \/ Recheck(f)
  \/ \E n \in Peers, revision \in Revisions, overlay \in BOOLEAN : InstallPolicy(n, revision, overlay)
  \/ \E n \in Peers : Restart(n) \/ Notice(n) \/ AddAddressHint(n)

Spec == Init /\ [][Next]_vars

\* The host polls its session, exchanges end, and every node comes to the last
\* policy.
FairSpec ==
  /\ Spec
  /\ \A n \in Subscribers : WF_vars(PollInterest(n, TRUE)) /\ WF_vars(Notice(n)) /\ \A p \in Peers : WF_vars(Exchange(n, p))
  /\ \A n \in Peers : WF_vars(InstallPolicy(n, MaxRevision, TRUE))

-----------------------------------------------------------------------------
\* Tables hold a known revision; a session announces one update at a time and
\* queues at most one for a topic.
TypeOK ==
  \A n \in Peers :
    LET s == updates[n] IN
    /\ table[n].revision \in 0 .. MaxRevision /\ table[n].endpoints \subseteq Peers
    /\ table[n].subscriptions \subseteq Peers \X Topics
    /\ Len(s.queued) <= MaxInterests /\ Cardinality(s.desired) <= MaxInterests
    /\ \A i, j \in DOMAIN s.queued : s.queued[i].topic = s.queued[j].topic => i = j
    /\ s.waiting # {} => s.pending # None

\* A publication reaches an application only if the policy in force there lets
\* its sender publish and the receiver subscribe, whatever policy the sender
\* held when it sent the frame.
\* No table lists an interest its policy does not allow ("Revocation also
\* removes now-unauthorized interests", install_verified_policy).
DeliveriesFollowPolicy ==
  /\ TypeOK
  /\ \A n \in Peers : table[n].subscriptions \subseteq table[n].subscribe
  /\ \A d \in delivered :
       /\ <<d.from, d.topic>> \in Policy[d.revision].publish
       /\ <<d.to, d.topic>> \in Policy[d.revision].subscribe

\* What a session replays never brings back an interest its application gave up
\* since ("must never overwrite a more recent local unsubscribe",
\* prepare_interest).  Outside is what was given up by the blocking
\* unsubscribe: it leaves the desired set of the session alone.
LatestChoiceWins ==
  \A n \in Peers, topic \in Topics :
    <<n, topic>> \in table[n].subscriptions => chosen[n][topic] # "none"

\* Once the application rests, every publisher's table agrees with what the
\* session desires, through failed exchanges, lost acknowledgments, restarts
\* and policy changes (poll, repair).  Three things are outside and leave the
\* tables apart until the next repair: an announcement that arrives after its
\* exchange was given up, the blocking calls, which the session does not
\* record, and a policy whose overlay fails to start.
InterestsConverge ==
  left.late = 0 /\ left.legacy = 0 /\ left.overlay = 0 =>
    <>[](\A n \in Subscribers : \A d \in updates[n].desired :
           \A p \in publishers(table[n], d.topic) :
             (<<n, d.topic>> \in table[p].subscriptions) = d.subscribed)
====
