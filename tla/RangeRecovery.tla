--------------------------- MODULE RangeRecovery ---------------------------
(***************************************************************************)
(* Recovery of missed group publications by ranges of the publisher's      *)
(* sequence (arachne-delivery wire.rs, inbox.rs and receive.rs,            *)
(* arachne-security recovery.rs, and the recovery requests of the runtime).*)
(*                                                                         *)
(* The author keeps a bounded log.  A reader asks the author, or a member  *)
(* that retained a range, for the publications after its cursor; what it   *)
(* gets is signed by the author.  It stages the packets and the new cursor *)
(* together, saves them and adopts them.  Publications also arrive live,   *)
(* or never do.  Nodes move to a new policy or a new epoch one by one.     *)
(*                                                                         *)
(* A reader delivers objects (an inbox with a window of receipts) or, in   *)
(* the older form, keeps a receive journal beside the MLS ratchet.         *)
(* Receiving a live publication and acknowledging one are single steps     *)
(* here: no other request of the node is taken between their parts, which  *)
(* ObjectInbox takes one by one.  Signatures stand for what they sign.     *)
(***************************************************************************)
EXTENDS InboxWindow, Sequences, SequencesExt

CONSTANTS
  Author, Readers,
  Cases,                    \* the scenarios a behaviour may be about
  Epochs, Weights,          \* of the publications, by epoch and sequence
  MaxSequence,              \* u64::MAX
  MAX_TOPICS, MAX_PACKETS_PER_TOPIC, MAX_RETAINED_BYTES,
  MAX_RECOVERY_PACKETS,     \* packets of one range
  MAX_REPLY_BYTES,          \* weight of one reply
  MAX_RECOVERY_SELECTIONS,  \* cursors of one reader
  MAX_RETAINED_RANGES,
  MAX_RECEIVE_RECORDS

VARIABLES
  setup,      \* the scenario
  scope,      \* of every node, the place in setup.scopes: epoch, policy
  log,        \* the author's log
  disclosed,  \* publications released so far
  reader,     \* the state of every reader
  faults      \* failed requests, cancellations and crashes so far

vars == <<setup, scope, log, disclosed, reader, faults>>

Log == INSTANCE PublisherLog WITH
  Topics <- 1 .. MAX_TOPICS, Ids <- Epochs \X (1 .. MaxSequence), Weight <- Weights,
  live <- log, staged <- log, saved <- FALSE, durable <- log, disclosed <- disclosed, offer <- log

Nodes == Readers \cup {Author}
epoch(n) == setup.scopes[scope[n]].epoch
revision(n) == setup.scopes[scope[n]].revision
readersOf(n) == setup.scopes[scope[n]].readers

EpochOf(p) == p.id[1]
Object(p) == [stream |-> p.topic, counter |-> p.sequence, id |-> p.id]

\* What a reader saves as one record: ObjectInbox, or ReceiveJournal with the
\* keys its ratchet has used.  A cursor belongs to a selection of topics.
\* accepted has what the reader took over, for the properties.
NewState ==
  [window |-> [s \in {} |-> NoStream], progress |-> [s \in {} |-> 0], retained |-> {},
   journal |-> FALSE, records |-> {}, ratchet |-> {}, accepted |-> {}]

Idle(state) ==
  [kept |-> state, durable |-> state, cutoff |-> <<>>, range |-> <<>>, ready |-> <<>>,
   staged |-> <<>>, saved |-> FALSE, recovered |-> <<>>]

Objects(r) == setup.mode[r] = "objects"

recovery_progress(state, topics) ==
  IF topics \in DOMAIN state.progress THEN state.progress[topics] ELSE 0

-----------------------------------------------------------------------------
\* Queries and signed replies.  The workspace and the author are fixed.
RangeQuery(n, after, through, topics) ==
  [epoch |-> epoch(n), revision |-> revision(n), after |-> after, through |-> through, topics |-> topics]

\* RecoveryRequest: what an offer is signed for, which is not the policy.
recovery_request(query) ==
  [epoch |-> query.epoch, selection |-> query.topics, after |-> query.after, through |-> query.through]
ValidQuery(query) ==
  query.after < query.through /\ query.topics # {} /\ Cardinality(query.topics) <= MAX_TOPICS

\* AvailableRangeQuery::matches: everything but the end of the range.
matches(request, query) == [request EXCEPT !.through = query.through] = query

Rejected(status) == [status |-> status, offer |-> <<>>, packets |-> {}]

sign_recovery_offer(query, packets) == <<recovery_request(query), packets>>
verify_recovery_offer(n, query, offer) ==
  /\ query.epoch = epoch(n) /\ offer[1] = recovery_request(query)
  /\ Cardinality(offer[2]) <= MAX_RECOVERY_PACKETS

\* Every packet lies in the range asked for and the signed set is the whole reply.
verify_reply(n, query, reply) ==
  /\ ValidQuery(query) /\ reply.status = "offered"
  /\ \A p \in reply.packets : Log!InRange(p, query.after, query.through, query.topics)
  /\ Cardinality({p.id : p \in reply.packets}) = Cardinality(reply.packets)
  /\ verify_recovery_offer(n, query, reply.offer) /\ reply.offer[2] = reply.packets

\* The requester is a current reader under the server's own policy.
authorize_history(server, requester, query) ==
  /\ query.topics # {} /\ Cardinality(query.topics) <= MAX_TOPICS
  /\ query.revision = revision(server) /\ requester \in readersOf(server)

\* The author answers from its log: the whole range or nothing of it.
serve_range(requester, query) ==
  LET range == Log!select(log, query.after, query.through, query.topics)
  IN  IF query.epoch # epoch(Author) \/ ~ authorize_history(Author, requester, query)
      THEN Rejected("Denied")
      ELSE IF range.error # "None" THEN Rejected(range.error)
      ELSE IF Log!BytesOf(range.records) > MAX_REPLY_BYTES THEN Rejected("TooLarge")
      ELSE [status |-> "offered", offer |-> sign_recovery_offer(query, range.records),
            packets |-> range.records]

\* An answer to "what is available after my cursor": a range and its proof.
available_offer(query, reply) == <<query, reply>>
Unavailable == <<>>

serve_available_range(requester, request) ==
  LET query == [request EXCEPT !.through = Min({log.head, request.after + MAX_RECOVERY_PACKETS})]
  IN  IF \/ request.epoch # epoch(Author) \/ ~ authorize_history(Author, requester, request)
         \/ request.after >= log.head
      THEN Unavailable
      ELSE available_offer(query, serve_range(requester, query))

\* A holder replays what it retained, for exactly the query it asked itself.
serve_retained(holder, requester, query) ==
  LET held == {r \in reader[holder].kept.retained : r.query = query}
  IN  IF \/ ~ Objects(holder) \/ query.epoch # epoch(holder)
         \/ ~ authorize_history(holder, requester, query)
      THEN Rejected("Denied")
      ELSE IF held = {} THEN Rejected("Unavailable") ELSE (CHOOSE r \in held : TRUE).reply

\* The furthest retained range that starts at the requester's cursor.
serve_retained_available(holder, requester, request) ==
  LET held == {r \in reader[holder].kept.retained : matches(request, r.query)}
      through == Max({r.query.through : r \in held})
  IN  IF \/ ~ Objects(holder) \/ request.epoch # epoch(holder)
         \/ ~ authorize_history(holder, requester, request) \/ held = {}
      THEN Unavailable
      ELSE LET best == CHOOSE r \in held : r.query.through = through
           IN  available_offer(best.query, best.reply)

-----------------------------------------------------------------------------
\* A session takes one recovery operation at a time, and no request but the
\* adoption while it has a candidate, or the hand-over of what it recovered.
Free(r) == reader[r].staged = <<>> /\ reader[r].recovered = <<>>
NothingPending(r) == reader[r].cutoff = <<>> /\ reader[r].range = <<>> /\ reader[r].ready = <<>>

Put(r, next) == reader' = [reader EXCEPT ![r] = next]

\* The scope is the node's own, and it and the holder may read the author's topics.
check_recovery_policy(r, peer, query) ==
  /\ query.epoch = epoch(r) /\ query.revision = revision(r)
  /\ r \in readersOf(r) /\ peer \in readersOf(r) \cup {Author}

Init ==
  /\ setup \in Cases
  /\ scope = [n \in Nodes |-> 1]
  /\ log = Log!new /\ disclosed = {}
  /\ reader = [r \in Readers |-> Idle(NewState)]
  /\ faults = [fail |-> 0, cancel |-> 0, crash |-> 0]

\* A publication is appended, saved and released.
Publish ==
  /\ Cardinality(disclosed) < Len(setup.script)
  /\ LET topic == setup.script[Cardinality(disclosed) + 1]
         id == <<epoch(Author), log.head + 1>>
     IN  /\ Log!CanAppend(log, topic, id, log.head + 1)
         /\ log' \in Log!append(log, topic, id)
         /\ disclosed' = disclosed \cup {[sequence |-> log.head + 1, topic |-> topic, id |-> id]}
  /\ UNCHANGED <<setup, scope, reader, faults>>

Fault(kind) == faults[kind] < setup.faults[kind] /\ faults' = [faults EXCEPT ![kind] = @ + 1]

\* The author restarts from a record whose oldest history did not fit.
RestartAuthor ==
  /\ Fault("crash")
  /\ \E cut \in 0 .. log.head : log' = Log!evict_oldest(log, cut)
  /\ UNCHANGED <<setup, scope, disclosed, reader>>

\* accept of a packet that the window admits.
AcceptPacket(state, p) ==
  [state EXCEPT !.window = Accept(@, Object(p)), !.accepted = @ \cup {p}]

Commit(r, state) == Put(r, [reader[r] EXCEPT !.kept = state, !.durable = state])

\* record_verified and the ratchet key of a packet, which opens it once.
CanRecord(state, p) ==
  /\ p \notin state.ratchet
  /\ state.journal => Cardinality(state.records) < MAX_RECEIVE_RECORDS

\* Gossip brings a publication, once or again, or never.
Receive(r, p) ==
  LET state == reader[r].kept
  IN  /\ <<r, p.sequence>> \in setup.live /\ EpochOf(p) = epoch(r) /\ Free(r)
      /\ \/ /\ Objects(r) /\ StageResult(state.window, Object(p)) = "Prepared"
            /\ Commit(r, AcceptPacket(state, p))
         \/ /\ ~ Objects(r) /\ CanRecord(state, p)
            /\ Commit(r, [state EXCEPT !.records = IF state.journal THEN @ \cup {p} ELSE @,
                                       !.ratchet = @ \cup {p}, !.accepted = @ \cup {p}])
      /\ UNCHANGED <<setup, scope, log, disclosed, faults>>

\* The application takes an object over, or PollRecoveredPublication hands one on.
Deliver(r) ==
  /\ reader[r].staged = <<>>
  /\ \/ /\ reader[r].recovered = <<>>
        /\ \E o \in PendingOf(reader[r].kept.window) :
              Commit(r, [reader[r].kept EXCEPT !.window = Resolve(@, o, "acknowledged")])
     \/ /\ reader[r].recovered # <<>>
        /\ Put(r, [reader[r] EXCEPT !.recovered = Tail(@)])
  /\ UNCHANGED <<setup, scope, log, disclosed, faults>>

\* kind: an exact range from one peer, an exact range from any source, or
\* whatever is available after the cursor from any source.
FetchRecoveryRange(r, kind) ==
  /\ Free(r) /\ NothingPending(r) /\ kind \in setup.kinds
  /\ \E topics \in setup.selections, from \in setup.sources[r] :
       \E after \in IF kind = "available" THEN {recovery_progress(reader[r].kept, topics)}
                                          ELSE 0 .. log.head :
       \E through \in IF kind = "available" THEN {Min({after + 1, MaxSequence})}
                                            ELSE after + 1 .. log.head :
         LET query == RangeQuery(r, after, through, topics)
             sources == {p \in from : check_recovery_policy(r, p, query)}
         IN  /\ kind = "available" => Objects(r)
             /\ after # through /\ sources # {}
             /\ kind = "exact" => Cardinality(from) = 1
             /\ Put(r, [reader[r] EXCEPT !.range =
                    <<[query |-> query, available |-> kind = "available", automatic |-> kind # "exact",
                       waiting |-> sources, replies |-> {}]>>])
  /\ UNCHANGED <<setup, scope, log, disclosed, faults>>

\* What a peer makes of a pending request, in its own state.
ReplyOf(r, peer, pending) ==
  IF pending.available
  THEN IF peer = Author THEN serve_available_range(r, pending.query)
                        ELSE serve_retained_available(peer, r, pending.query)
  ELSE IF peer = Author THEN serve_range(r, pending.query)
                        ELSE serve_retained(peer, r, pending.query)

Answered(r, peer, reply) ==
  Put(r, [reader[r] EXCEPT !.range[1].waiting = @ \ {peer},
                           !.range[1].replies = @ \cup {<<peer, reply>>}])

Answer(r, peer) ==
  /\ reader[r].range # <<>> /\ peer \in reader[r].range[1].waiting
  /\ peer # Author => Free(peer)
  /\ Answered(r, peer, ReplyOf(r, peer, reader[r].range[1]))
  /\ UNCHANGED <<setup, scope, log, disclosed, faults>>

\* The request or its reply is lost.
Fail(r, peer) ==
  /\ reader[r].range # <<>> /\ peer \in reader[r].range[1].waiting /\ Fault("fail")
  /\ Answered(r, peer, IF reader[r].range[1].available THEN Unavailable ELSE Rejected("Failed"))
  /\ UNCHANGED <<setup, scope, log, disclosed>>

\* parse_available_reply, verify_reply and the policy of the moment.
Usable(r, peer, reply) ==
  LET pending == reader[r].range[1]
      offered == IF pending.available THEN reply ELSE <<pending.query, reply>>
  IN  IF /\ check_recovery_policy(r, peer, pending.query) /\ offered # <<>>
         /\ matches(pending.query, offered[1]) /\ verify_reply(r, offered[1], offered[2])
      THEN <<[query |-> offered[1], reply |-> offered[2], peer |-> peer, automatic |-> pending.automatic]>>
      ELSE <<>>

\* Mutant of PollRecoveryRange: the first reply ends a range, usable or not.
PollRecoveryRangeOnce(r) ==
  /\ Free(r) /\ reader[r].range # <<>>
  /\ \E a \in reader[r].range[1].replies :
       Put(r, [reader[r] EXCEPT !.range = <<>>, !.ready = Usable(r, a[1], a[2])])
  /\ UNCHANGED <<setup, scope, log, disclosed, faults>>

\* One reply is taken; a range from any source ends with the first usable one.
PollRecoveryRange(r) ==
  /\ Free(r) /\ reader[r].range # <<>>
  /\ LET pending == reader[r].range[1]
     IN  \/ \E a \in pending.replies :
              LET ready == Usable(r, a[1], a[2])
              IN  Put(r, IF ready # <<>> \/ ~ pending.automatic
                         THEN [reader[r] EXCEPT !.range = <<>>, !.ready = ready]
                         ELSE [reader[r] EXCEPT !.range[1].replies = @ \ {a}])
         \/ /\ pending.replies = {} /\ pending.waiting = {}
            /\ Put(r, [reader[r] EXCEPT !.range = <<>>])
  /\ UNCHANGED <<setup, scope, log, disclosed, faults>>

-----------------------------------------------------------------------------
\* Staging.  Packets are taken in order; one that cannot be taken fails the
\* range.  The states that may result: one, or none.
Taken(state, p) ==
  LET result == StageResult(state.window, Object(p))
  IN  IF result = "Prepared" THEN {AcceptPacket(state, p)} ELSE IF result = "Duplicate" THEN {state} ELSE {}
StagePackets(state, packets) ==
  FoldLeft(LAMBDA states, p : UNION {Taken(x, p) : x \in states}, {state},
           SetToSortSeq(packets, LAMBDA x, y : x.sequence < y.sequence))

\* A range again replaces its copy; a full store drops the one that expires first.
retain_range(retained, query, reply) ==
  LET added == [query |-> query, reply |-> reply]
      others == {x \in retained : x.query # query}
  IN  IF others # retained \/ Cardinality(retained) < MAX_RETAINED_RANGES
      THEN {others \cup {added}}
      ELSE {(retained \ {oldest}) \cup {added} : oldest \in retained}

\* Mutant of Continues: a range that starts after the cursor moves it too.
ContinuesPastGap(state, query) ==
  /\ query.after >= recovery_progress(state, query.topics)
  /\ query.topics \in DOMAIN state.progress \/ Cardinality(DOMAIN state.progress) # MAX_RECOVERY_SELECTIONS

\* The cursor moves to the end of the range, if the range continues it.
Continues(state, query) ==
  /\ query.after = recovery_progress(state, query.topics)
  /\ query.topics \in DOMAIN state.progress \/ Cardinality(DOMAIN state.progress) # MAX_RECOVERY_SELECTIONS
accept_recovery_coverage(progress, query) ==
  [s \in DOMAIN progress \cup {query.topics} |-> IF s = query.topics THEN query.through ELSE progress[s]]

\* The inbox with the range's packets, and the cursor of an automatic range.
InboxCandidates(r, ready) ==
  LET state == reader[r].kept
      retained == IF r \in setup.retainers THEN retain_range(state.retained, ready.query, ready.reply)
                                           ELSE {state.retained}
  IN  IF ready.automatic => Continues(state, ready.query)
      THEN {[publications |-> <<>>,
             state |-> [next EXCEPT
               !.retained = kept,
               !.progress = IF ready.automatic THEN accept_recovery_coverage(@, ready.query) ELSE @]] :
             next \in StagePackets(state, ready.reply.packets), kept \in retained}
      ELSE {}

\* ReceiveJournal::prepare_recovery: what has no receipt is opened and recorded.
prepare_recovery(r, ready) ==
  LET state == reader[r].kept
      unseen == ready.reply.packets \ state.records
      records == state.records \cup unseen
  IN  IF /\ Continues(state, ready.query) /\ Cardinality({k.id : k \in records}) = Cardinality(records)
         /\ unseen \cap state.ratchet = {} /\ Cardinality(records) <= MAX_RECEIVE_RECORDS
      THEN {[publications |-> SetToSortSeq(unseen, LAMBDA x, y : x.sequence < y.sequence),
             state |-> [state EXCEPT
               !.journal = TRUE, !.records = records, !.ratchet = @ \cup unseen,
               !.accepted = @ \cup unseen, !.progress = accept_recovery_coverage(@, ready.query)]]}
      ELSE {}

\* What StageRecoveryRange may leave; nothing when it fails and the range stays.
Stagings(r) ==
  LET ready == reader[r].ready[1]
      done == [reader[r] EXCEPT !.ready = <<>>]
      covered == ready.query.through <= recovery_progress(reader[r].kept, ready.query.topics)
  IN  IF ~ check_recovery_policy(r, ready.peer, ready.query) THEN {}
      ELSE IF covered /\ (ready.automatic \/ ~ Objects(r)) THEN {done}
      ELSE IF ~ verify_reply(r, ready.query, ready.reply) THEN {}
      ELSE {IF Objects(r) /\ ~ ready.automatic /\ c.state.window = reader[r].kept.window
               /\ r \notin setup.retainers
            THEN done ELSE [done EXCEPT !.staged = <<c>>] :
            c \in IF Objects(r) THEN InboxCandidates(r, ready) ELSE prepare_recovery(r, ready)}

StageRecoveryRange(r) ==
  /\ Free(r) /\ reader[r].ready # <<>>
  /\ \E next \in Stagings(r) : Put(r, next)
  /\ UNCHANGED <<setup, scope, log, disclosed, faults>>

\* The host gives up on a range that cannot be staged, or for its own reasons.
CancelRecoveryRange(r) ==
  /\ Free(r) /\ (reader[r].range # <<>> \/ reader[r].ready # <<>>)
  /\ \/ reader[r].ready # <<>> /\ Stagings(r) = {} /\ UNCHANGED faults
     \/ Fault("cancel")
  /\ Put(r, [reader[r] EXCEPT !.range = <<>>, !.ready = <<>>])
  /\ UNCHANGED <<setup, scope, log, disclosed>>

Save(r) ==
  /\ reader[r].staged # <<>> /\ ~ reader[r].saved
  /\ Put(r, [reader[r] EXCEPT !.durable = reader[r].staged[1].state, !.saved = TRUE])
  /\ UNCHANGED <<setup, scope, log, disclosed, faults>>

\* Recovered publications of a journal are handed over from memory.
AdoptRecovery(r) ==
  /\ reader[r].staged # <<>> /\ reader[r].saved
  /\ Put(r, [reader[r] EXCEPT !.kept = reader[r].staged[1].state, !.staged = <<>>, !.saved = FALSE,
                              !.recovered = reader[r].staged[1].publications])
  /\ UNCHANGED <<setup, scope, log, disclosed, faults>>

DiscardWorkspaceCandidate(r) ==
  /\ reader[r].staged # <<>> /\ Fault("cancel")
  /\ Put(r, [reader[r] EXCEPT !.staged = <<>>, !.saved = FALSE])
  /\ UNCHANGED <<setup, scope, log, disclosed>>

Crash(r) ==
  /\ Fault("crash")
  /\ Put(r, Idle(reader[r].durable))
  /\ UNCHANGED <<setup, scope, log, disclosed>>

\* Every reader of the retained ranges passes over an expired one.
Expire(r, held) ==
  /\ LET drop(state) == [state EXCEPT !.retained = @ \ {held}]
     IN  Put(r, [reader[r] EXCEPT !.kept = drop(@), !.durable = drop(@),
                   !.staged = IF @ = <<>> THEN @ ELSE <<[@[1] EXCEPT !.state = drop(@)]>>])
  /\ UNCHANGED <<setup, scope, log, disclosed, faults>>

-----------------------------------------------------------------------------
\* The author's signed head.  Observing it accepts nothing.
DiscoverRecoveryCutoff(r) ==
  /\ Free(r) /\ NothingPending(r) /\ "cutoff" \in setup.kinds
  /\ \E topics \in setup.selections :
       LET query == RangeQuery(r, 0, 1, topics)
       IN  /\ check_recovery_policy(r, Author, query)
           /\ Put(r, [reader[r] EXCEPT !.cutoff = <<[query |-> query, reply |-> <<>>]>>])
  /\ UNCHANGED <<setup, scope, log, disclosed, faults>>

\* The head, and up to where the author's history of the topics has holes.
serve_cutoff(requester, query) ==
  IF query.epoch # epoch(Author) \/ ~ authorize_history(Author, requester, query)
  THEN [status |-> "Denied", after |-> 0, head |-> 0]
  ELSE [status |-> "signed", head |-> log.head,
        after |-> Max({0} \cup {log.evicted[t] : t \in query.topics \cap DOMAIN log.evicted})]

AnswerCutoff(r) ==
  /\ reader[r].cutoff # <<>> /\ reader[r].cutoff[1].reply = <<>>
  /\ Put(r, [reader[r] EXCEPT !.cutoff[1].reply = <<serve_cutoff(r, reader[r].cutoff[1].query)>>])
  /\ UNCHANGED <<setup, scope, log, disclosed, faults>>

PollRecoveryCutoff(r) ==
  /\ Free(r) /\ reader[r].cutoff # <<>> /\ reader[r].cutoff[1].reply # <<>>
  /\ Put(r, [reader[r] EXCEPT !.cutoff = <<>>])
  /\ UNCHANGED <<setup, scope, log, disclosed, faults>>

-----------------------------------------------------------------------------
\* The next policy is installed: nothing pending is cancelled.
InstallPolicy(n) ==
  /\ scope[n] < Len(setup.scopes) /\ setup.scopes[scope[n] + 1].epoch = epoch(n)
  /\ n # Author => Free(n)
  /\ scope' = [scope EXCEPT ![n] = @ + 1]
  /\ UNCHANGED <<setup, log, disclosed, reader, faults>>

\* A new epoch starts with empty delivery state.  It waits until everything
\* accepted is delivered, and cancels what is only being fetched.
check_epoch_transition(r) == Free(r) /\ PendingOf(reader[r].kept.window) = {}
EnterEpoch(n) ==
  /\ scope[n] < Len(setup.scopes) /\ setup.scopes[scope[n] + 1].epoch # epoch(n)
  /\ scope' = [scope EXCEPT ![n] = @ + 1]
  /\ IF n = Author THEN log' = Log!new /\ UNCHANGED reader
     ELSE check_epoch_transition(n) /\ Put(n, Idle(NewState)) /\ UNCHANGED log
  /\ UNCHANGED <<setup, disclosed, faults>>

Next ==
  \/ Publish \/ RestartAuthor
  \/ \E n \in Nodes : InstallPolicy(n) \/ EnterEpoch(n)
  \/ \E r \in Readers :
       \/ \E p \in disclosed : Receive(r, p)
       \/ \E kind \in {"exact", "any", "available"} : FetchRecoveryRange(r, kind)
       \/ \E peer \in Nodes : Answer(r, peer) \/ Fail(r, peer)
       \/ \E held \in reader[r].kept.retained : Expire(r, held)
       \/ Deliver(r) \/ PollRecoveryRange(r) \/ CancelRecoveryRange(r) \/ StageRecoveryRange(r)
       \/ Save(r) \/ AdoptRecovery(r) \/ DiscardWorkspaceCandidate(r) \/ Crash(r)
       \/ DiscoverRecoveryCutoff(r) \/ AnswerCutoff(r) \/ PollRecoveryCutoff(r)

(***************************************************************************)
(* The host polls its node, asks for history periodically, completes what  *)
(* it staged and drains its inbox; a connected peer answers.               *)
(***************************************************************************)
HostStep(r) ==
  /\ UNCHANGED <<setup, scope, log, disclosed, faults>>
  /\ \/ FetchRecoveryRange(r, "available") \/ PollRecoveryRange(r) \/ StageRecoveryRange(r)
     \/ CancelRecoveryRange(r) \/ Save(r) \/ AdoptRecovery(r)

PeerStep(r) == \E peer \in Nodes : UNCHANGED <<setup, scope, log, disclosed, faults>> /\ Answer(r, peer)

Fairness ==
  \A r \in Readers : WF_vars(HostStep(r)) /\ WF_vars(Deliver(r)) /\ WF_vars(PeerStep(r))

Spec == Init /\ [][Next]_vars /\ Fairness

-----------------------------------------------------------------------------
TypeOK ==
  /\ setup \in Cases /\ scope \in [Nodes -> 1 .. Len(setup.scopes)]
  /\ \A r \in Readers :
       /\ reader[r].saved => reader[r].staged # <<>>
       /\ Len(reader[r].cutoff) + Len(reader[r].range) + Len(reader[r].ready) <= 1
       /\ Cardinality(reader[r].kept.retained) <= MAX_RETAINED_RANGES
       /\ Cardinality(reader[r].kept.records) <= MAX_RECEIVE_RECORDS

\* A publication of the reader's epoch that a cursor of the state says is covered.
CoveredBy(r, state) ==
  {p \in disclosed : EpochOf(p) = epoch(r)
     /\ \E topics \in DOMAIN state.progress : p.topic \in topics /\ p.sequence <= state.progress[topics]}

\* Recovery progress is real: whatever mixture of live publications, ranges
\* from the author or a holder, lost replies, evictions, policy and epoch
\* changes, discarded candidates and restarts came before, every publication
\* that a saved or adopted cursor covers was accepted in the same record
\* (accept_recovery_coverage, prepare_recovery); and a signed head that the
\* reader still waits to observe is not behind its cursor.
CoveredIsAccepted ==
  /\ TypeOK
  /\ \A r \in Readers :
       /\ \A state \in {reader[r].kept, reader[r].durable} : CoveredBy(r, state) \subseteq state.accepted
       /\ reader[r].cutoff # <<>> /\ reader[r].cutoff[1].reply # <<>>
          /\ reader[r].cutoff[1].reply[1].status = "signed"
          => LET topics == reader[r].cutoff[1].query.topics
             IN  recovery_progress(reader[r].kept, topics) <= reader[r].cutoff[1].reply[1].head

\* Why a reader's cursor cannot move: the author no longer has or may serve
\* the next range, or one of its packets fell out of the reader's window.
NextRange(r, topics) ==
  LET after == recovery_progress(reader[r].kept, topics)
  IN  RangeQuery(r, after, Min({log.head, after + MAX_RECOVERY_PACKETS}), topics)
OutOfWindow(r, topics) ==
  \E p \in Log!select(log, NextRange(r, topics).after, NextRange(r, topics).through, topics).records :
     StageResult(reader[r].kept.window, Object(p)) = "OutsideWindow"
Stuck(r, topics) ==
  \/ ~ check_recovery_policy(r, Author, NextRange(r, topics))
  \/ serve_range(r, NextRange(r, topics)).status # "offered"
  \/ OutOfWindow(r, topics)

\* A reader of objects that keeps asking its author for what is available
\* after its cursor, and for nothing else, reaches the author's head, unless
\* the author cannot serve the next range or a packet of it fell out of the
\* window (FetchRecoveryRange to AdoptRecovery).
ReadersCatchUp ==
  <>[](\A r \in Readers, topics \in setup.selections :
         \/ ~ Objects(r) \/ setup.kinds # {"available"} \/ Author \notin UNION setup.sources[r]
         \/ recovery_progress(reader[r].kept, topics) = log.head
         \/ Stuck(r, topics))

\* "Return the next bounded publisher-signed range after a receiver's durable
\* cursor" (serve_available_range): whenever the author may serve the reader
\* and still has the publication after its cursor, it offers it a range.
NextRangeIsOffered ==
  \A r \in Readers, topics \in setup.selections :
    LET query == NextRange(r, topics)
    IN  /\ query.epoch = epoch(Author) /\ authorize_history(Author, r, query)
        /\ Log!select(log, query.after, query.after + 1, topics).error = "None"
        => serve_available_range(r, query)[2].status = "offered"
=============================================================================
