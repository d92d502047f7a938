------------------------------ MODULE RetryQueue ------------------------------
(***************************************************************************)
(* What the durable retry queue promises (spec.md, sections 4.1 and 4.2),  *)
(* without goroutines, channels, timers or locks.                          *)
(*                                                                         *)
(* A request is first persisted (`stored'), then enqueued at the tail of   *)
(* the pending list.  Dispatch takes the head of the list; the handler's   *)
(* call either succeeds, which deletes the stored record and ends the      *)
(* request, or fails, after which the request waits for its retry and      *)
(* rejoins the tail.  A crash forgets everything but the stored records,   *)
(* which are replayed into the list.  The order of the replay is left      *)
(* free here.  Remove marks the ID cancel-requested, takes the first       *)
(* pending request of the ID out of the list and deletes the ID's records; *)
(* the mark is consulted when a call fails and when a retry is due.        *)
(***************************************************************************)
EXTENDS Sequences, SequencesExt

CONSTANT Requests

VARIABLES
    stored,     \* requests whose record is in the store
    pushing,    \* persisted by a Push that has not enqueued them yet
    pending,    \* the pending list, in dispatch order
    inflight,   \* requests handed to the handler (InFlight)
    retrying,   \* requests waiting for their retry (AwaitingRetry)
    cancelled   \* IDs marked cancel-requested by Remove

rqVars == <<stored, pushing, pending, inflight, retrying, cancelled>>

\* Requests held in memory.
InMemory == pushing \cup ToSet(pending) \cup inflight \cup retrying

RQTypeOK ==
    /\ stored \subseteq Requests
    /\ pushing \subseteq Requests
    /\ pending \in Seq(Requests)
    /\ inflight \subseteq Requests
    /\ retrying \subseteq Requests
    /\ cancelled \subseteq {r.id : r \in Requests}

RQInit ==
    /\ stored = {}
    /\ pushing = {}
    /\ pending = <<>>
    /\ inflight = {}
    /\ retrying = {}
    /\ cancelled = {}

\* Push, first half: the record is inserted before anything is in memory.
Insert(r) ==
    /\ r \notin stored \cup InMemory
    /\ stored' = stored \cup {r}
    /\ pushing' = pushing \cup {r}
    /\ UNCHANGED <<pending, inflight, retrying, cancelled>>

\* Push, second half: Enqueue of a request whose record exists.
Enqueue(r) ==
    /\ r \in pushing
    /\ pushing' = pushing \ {r}
    /\ pending' = Append(pending, r)
    /\ UNCHANGED <<stored, inflight, retrying, cancelled>>

\* The head of the list becomes in flight.
Dispatch ==
    /\ pending # <<>>
    /\ pending' = Tail(pending)
    /\ inflight' = inflight \cup {Head(pending)}
    /\ UNCHANGED <<stored, pushing, retrying, cancelled>>

\* The handler returned true and the record was deleted: Done.  A mark
\* on its ID has nothing left to cancel.
Succeed(r) ==
    /\ r \in inflight
    /\ inflight' = inflight \ {r}
    /\ stored' = stored \ {r}
    /\ cancelled' = cancelled \ {r.id}
    /\ UNCHANGED <<pushing, pending, retrying>>

\* The handler (or the deletion of the record) failed: check and clear the
\* mark; a cancelled request is discarded, any other awaits its retry.
Fail(r) ==
    /\ r \in inflight
    /\ inflight' = inflight \ {r}
    /\ cancelled' = cancelled \ {r.id}
    /\ retrying' = IF r.id \in cancelled THEN retrying ELSE retrying \cup {r}
    /\ UNCHANGED <<stored, pushing, pending>>

\* The retry delay elapsed: back to the tail of the list, unless the ID was
\* cancelled in the interim.
Retry(r) ==
    /\ r \in retrying
    /\ retrying' = retrying \ {r}
    /\ pending' = IF r.id \in cancelled THEN pending ELSE Append(pending, r)
    /\ UNCHANGED <<stored, pushing, inflight, cancelled>>

\* Remove (a): mark the ID cancel-requested.
MarkCancelled(id) ==
    /\ cancelled' = cancelled \cup {id}
    /\ UNCHANGED <<stored, pushing, pending, inflight, retrying>>

\* Remove (b): take the first pending request of the ID out of the list.
Discard(id) ==
    /\ LET i == SelectInSeq(pending, LAMBDA r : r.id = id)
       IN  pending' = IF i = 0 THEN pending ELSE RemoveAt(pending, i)
    /\ UNCHANGED <<stored, pushing, inflight, retrying, cancelled>>

\* Remove, last: delete the ID's records.
DeleteRecords(id) ==
    /\ stored' = {r \in stored : r.id # id}
    /\ UNCHANGED <<pushing, pending, inflight, retrying, cancelled>>

\* A crash and the replay of every stored record, in some order.
Crash ==
    /\ pending' \in SetToSeqs(stored)
    /\ pushing' = {}
    /\ inflight' = {}
    /\ retrying' = {}
    /\ cancelled' = {}
    /\ UNCHANGED stored

RQNext ==
    \/ Dispatch \/ Crash
    \/ \E r \in Requests : Insert(r) \/ Enqueue(r) \/ Succeed(r) \/ Fail(r) \/ Retry(r)
    \/ \E id \in {r.id : r \in Requests} :
          MarkCancelled(id) \/ Discard(id) \/ DeleteRecords(id)

\* A persisted request is enqueued, the list is dispatched, each handler
\* call returns and each retry delay elapses.  Whether a call succeeds, new
\* pushes and crashes are left free.
RQFairness ==
    /\ WF_rqVars(Dispatch)
    /\ \A r \in Requests :
          WF_rqVars(Enqueue(r)) /\ WF_rqVars(Succeed(r) \/ Fail(r)) /\ WF_rqVars(Retry(r))

RQSpec == RQInit /\ [][RQNext]_rqVars /\ RQFairness

=============================================================================
