---------------------------- MODULE RoutingTable ----------------------------
(***************************************************************************)
(* One workspace's entry in a node's routing table                         *)
(* (arachne-routing/src/lib.rs): the policy revision, the permissions of   *)
(* the endpoints and the announced interests.  Operators on a table t.     *)
(* Revision 0 stands for a workspace without a policy.  A permission is    *)
(* given as the topics an endpoint may publish and subscribe to; an        *)
(* endpoint outside the policy may do neither.                             *)
(***************************************************************************)
EXTENDS Integers, FiniteSets

CONSTANTS
  Peers, Topics,
  MaxTopicsPerPeer   \* MAX_TOPICS_PER_PEER

NoTable == [revision |-> 0, endpoints |-> {}, publish |-> {}, subscribe |-> {}, subscriptions |-> {}]

\* The wrong revision refuses every operation.
Current(t, revision) == t.revision = revision /\ revision # 0

authorizes_endpoint(t, revision, peer) == Current(t, revision) /\ peer \in t.endpoints

can_subscribe(t, peer, topic) == <<peer, topic>> \in t.subscribe
can_publish(t, peer, topic) == <<peer, topic>> \in t.publish

TopicsOf(t, peer) == {topic \in Topics : <<peer, topic>> \in t.subscriptions}

\* The endpoints an operation names, with its guard: an operation that the
\* table refuses is not enabled.
publishersAllowed(t, revision, subscriber, topic) ==
  Current(t, revision) /\ can_subscribe(t, subscriber, topic)
publishers(t, topic) == {peer \in t.endpoints : can_publish(t, peer, topic)}

recipientsAllowed(t, revision, sender, topic) ==
  Current(t, revision) /\ can_publish(t, sender, topic)
recipients(t, topic) == {peer \in Peers : <<peer, topic>> \in t.subscriptions}

\* An explicit audience must be allowed to subscribe as a whole, and is then
\* narrowed to those that announced interest.
direct_recipientsAllowed(t, revision, sender, topic, audience) ==
  /\ recipientsAllowed(t, revision, sender, topic) /\ audience # {}
  /\ \A peer \in audience : can_subscribe(t, peer, topic)
direct_recipients(t, topic, audience) == audience \cap recipients(t, topic)

subscribeAllowed(t, revision, peer, topic) ==
  /\ Current(t, revision) /\ can_subscribe(t, peer, topic)
  /\ topic \in TopicsOf(t, peer) \/ Cardinality(TopicsOf(t, peer)) < MaxTopicsPerPeer
subscribe(t, peer, topic) == [t EXCEPT !.subscriptions = @ \cup {<<peer, topic>>}]

unsubscribeAllowed(t, revision, peer) == authorizes_endpoint(t, revision, peer)
unsubscribe(t, peer, topic) == [t EXCEPT !.subscriptions = @ \ {<<peer, topic>>}]

\* A policy replaces one of a smaller revision; interests it does not allow go.
installAllowed(t, revision) == revision > t.revision
install_verified_policy(t, revision, policy) ==
  [revision |-> revision, endpoints |-> policy.endpoints, publish |-> policy.publish,
   subscribe |-> policy.subscribe, subscriptions |-> t.subscriptions \cap policy.subscribe]
====
