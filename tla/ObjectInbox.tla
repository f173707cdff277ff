---------------------------- MODULE ObjectInbox ----------------------------
(***************************************************************************)
(* The object inbox of one member through the runtime: an object taken     *)
(* from the receive queue, or an application's acknowledgement or          *)
(* rejection, yields a candidate inbox that is saved and then adopted.     *)
(* The network duplicates and reorders; the node may crash at any point    *)
(* and restarts from the saved inbox.                                      *)
(***************************************************************************)
EXTENDS InboxWindow

CONSTANTS
  Objects,       \* authenticated objects [stream, counter, id] peers may send
  MaxQueue,      \* bound on the objects waiting in the receive queue
  MaxCrashes     \* bound on restarts

ASSUME ObjectsAssumption ==
  /\ \A o \in Objects :
        o.counter \in Nat \ {0} /\ o = [stream |-> o.stream, counter |-> o.counter, id |-> o.id]
  /\ MaxQueue \in Nat /\ MaxCrashes \in Nat

VARIABLES
  queue,      \* objects in the session's receive queue
  adopted,    \* the live inbox
  candidate,  \* <<>> or <<candidate inbox, the object it is about>>
  written,    \* whether the candidate has been written durably
  disk,       \* the inbox a restart restores
  accepted,   \* objects adopted as received
  asked,      \* objects the application asked to acknowledge or reject
  settled,    \* objects whose resolution was adopted, hence confirmed
  restarts

inboxVars == <<queue, adopted, candidate, written, disk, accepted, asked, settled, restarts>>

Empty == [s \in {} |-> NoStream]

InboxInit ==
  /\ queue = {} /\ adopted = Empty /\ disk = Empty
  /\ candidate = <<>> /\ written = FALSE
  /\ accepted = {} /\ asked = {} /\ settled = {}
  /\ restarts = 0

\* The node hands an authorized packet to the session (again and again).
Deliver(o) ==
  /\ Cardinality(queue) < MaxQueue
  /\ queue' = queue \cup {o}
  /\ UNCHANGED <<adopted, candidate, written, disk, accepted, asked, settled, restarts>>

\* PollProtected: the packet leaves the queue whatever stage_scoped says.
PollProtected(o) ==
  /\ candidate = <<>>
  /\ o \in queue
  /\ queue' = queue \ {o}
  /\ IF StageResult(adopted, o) = "Prepared"
     THEN candidate' = <<Accept(adopted, o), o>> /\ written' = FALSE
     ELSE UNCHANGED <<candidate, written>>
  /\ UNCHANGED <<adopted, disk, accepted, asked, settled, restarts>>

\* StageObjectAcknowledgement.
Acknowledge(o) ==
  /\ candidate = <<>>
  /\ HasReceipt(adopted, o)
  /\ candidate' = <<Resolve(adopted, o, "acknowledged"), o>>
  /\ written' = FALSE
  /\ asked' = asked \cup {o}
  /\ UNCHANGED <<queue, adopted, disk, accepted, settled, restarts>>

\* StageObjectRejection.
Reject(o) ==
  /\ candidate = <<>>
  /\ IsPending(adopted, o)
  /\ candidate' = <<Resolve(adopted, o, "rejected"), o>>
  /\ written' = FALSE
  /\ asked' = asked \cup {o}
  /\ UNCHANGED <<queue, adopted, disk, accepted, settled, restarts>>

\* commit_candidate.
SaveInbox ==
  /\ candidate # <<>>
  /\ disk' = candidate[1]
  /\ written' = TRUE
  /\ UNCHANGED <<queue, adopted, candidate, accepted, asked, settled, restarts>>

\* Mutant of AdoptReception: the candidate becomes live without having been saved.
AdoptReceptionUnsaved ==
  /\ candidate # <<>>
  /\ adopted' = candidate[1]
  /\ accepted' = accepted \cup (IF IsPending(candidate[1], candidate[2]) THEN {candidate[2]} ELSE {})
  /\ settled' = settled \cup (IF IsPending(candidate[1], candidate[2]) THEN {} ELSE {candidate[2]})
  /\ candidate' = <<>>
  /\ written' = FALSE
  /\ UNCHANGED <<queue, disk, asked, restarts>>

\* AdoptReception.
AdoptReception ==
  /\ candidate # <<>>
  /\ written
  /\ adopted' = candidate[1]
  /\ accepted' = accepted \cup (IF IsPending(candidate[1], candidate[2]) THEN {candidate[2]} ELSE {})
  /\ settled' = settled \cup (IF IsPending(candidate[1], candidate[2]) THEN {} ELSE {candidate[2]})
  /\ candidate' = <<>>
  /\ written' = FALSE
  /\ UNCHANGED <<queue, disk, asked, restarts>>

\* DiscardWorkspaceCandidate.
DiscardReception ==
  /\ candidate # <<>>
  /\ candidate' = <<>>
  /\ written' = FALSE
  /\ UNCHANGED <<queue, adopted, disk, accepted, asked, settled, restarts>>

\* A crash empties the queue; the saved inbox must pass restore_snapshot.
RestartInbox ==
  /\ restarts < MaxCrashes
  /\ StreamsRestore(disk)
  /\ queue' = {}
  /\ adopted' = disk
  /\ candidate' = <<>>
  /\ written' = FALSE
  /\ restarts' = restarts + 1
  /\ UNCHANGED <<disk, accepted, asked, settled>>

InboxNext ==
  \/ \E o \in Objects : Deliver(o) \/ PollProtected(o) \/ Acknowledge(o) \/ Reject(o)
  \/ SaveInbox
  \/ AdoptReception
  \/ DiscardReception
  \/ RestartInbox

InboxSpec == InboxInit /\ [][InboxNext]_inboxVars

-----------------------------------------------------------------------------
IsInbox(inbox) ==
  /\ DOMAIN inbox \subseteq {o.stream : o \in Objects}
  /\ \A s \in DOMAIN inbox :
        /\ inbox[s].floor \in Nat
        /\ \A r \in inbox[s].receipts :
              /\ \E o \in Objects : o.stream = s /\ o.counter = r.counter /\ o.id = r.id
              /\ r.state \in {"pending", "acknowledged", "rejected"}

\* The values the variables of the inbox range over.
InboxTypeOK ==
  /\ queue \subseteq Objects
  /\ IsInbox(adopted) /\ IsInbox(disk)
  /\ candidate = <<>> \/ (IsInbox(candidate[1]) /\ candidate[2] \in Objects)
  /\ written \in BOOLEAN
  /\ accepted \cup asked \cup settled \subseteq Objects
  /\ restarts \in 0 .. MaxCrashes

\* "Never discard an undelivered object to make room" (stage_scoped): what was
\* adopted stays pending, live and saved, until the application resolves it,
\* whatever arrives or crashes in between.
AcceptedStaysPending ==
  \A o \in accepted \ asked : IsPending(adopted, o) /\ IsPending(disk, o)

\* Once a resolution is confirmed no copy of the object, however late or often
\* it arrives, is ever pending again: receipts and floors are replay evidence.
ResolvedStaysResolved ==
  \A o \in settled :
     /\ ~ IsPending(adopted, o) /\ ~ IsPending(disk, o)
     /\ candidate # <<>> => ~ IsPending(candidate[1], o)

\* The inbox keeps its type, and whatever was saved passes the checks of restore_snapshot.
SavedStreamsRestore == InboxTypeOK /\ StreamsRestore(disk)
=============================================================================
