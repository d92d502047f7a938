------------------------------ MODULE QueueCore ------------------------------
(***************************************************************************)
(* The in-memory retry queue of src/queue/core/core.go.                    *)
(*                                                                         *)
(* One dispatcher goroutine (Queue.Run) and a pool of worker goroutines    *)
(* (Queue.process) share the list q.elements, the unsynchronised map       *)
(* q.removedIDs, the capacity-1 channel q.wait and the unbuffered channel  *)
(* q.requests.  A failed call of the handler schedules a time.AfterFunc    *)
(* callback that appends the request again.                                *)
(*                                                                         *)
(* This module holds the state and the steps of the core.  The caller of  *)
(* PushBack/WakeUp/Remove and the handler passed to Run are supplied by    *)
(* the module that composes it (DurableQueue); a step of the caller or of  *)
(* the handler is built there from the operators below.                    *)
(***************************************************************************)
EXTENDS Naturals, Sequences, SequencesExt

CONSTANTS
    IDs,        \* external IDs (Req.ID) a caller may use
    Values,     \* payloads (Req.Value)
    Workers,    \* the goroutines started by Run: qtyWorkers of them
    NoReq       \* "no request held" (a nil *Req)

Req == [id : IDs, val : Values]

ASSUME Workers # {} /\ NoReq \notin Req

VARIABLES
    pending,    \* q.elements, the list of *Req
    removedIDs, \* the keys of q.removedIDs
    wakeToken,  \* TRUE iff the capacity-1 channel q.wait holds a value
    dpc,        \* where the dispatcher loop of Run is
    dreq,       \* e.Value.(*Req): the element the dispatcher peeked
    wpc,        \* where each worker loop of process is
    wreq,       \* the request a worker received
    wmust,      \* the worker's local mustRemove
    timers      \* AfterFunc callbacks not yet run: [req, must]

coreVars == <<pending, removedIDs, wakeToken, dpc, dreq, wpc, wreq, wmust, timers>>

Timer == [req : Req, must : BOOLEAN]

CoreTypeOK ==
    /\ pending \in Seq(Req)
    /\ removedIDs \subseteq IDs
    /\ wakeToken \in BOOLEAN
    /\ dpc \in {"peek", "wait", "remove", "send"}
    /\ dreq \in Req \cup {NoReq}
    /\ wpc \in [Workers -> {"idle", "check", "call"}]
    /\ wreq \in [Workers -> Req \cup {NoReq}]
    /\ wmust \in [Workers -> BOOLEAN]
    /\ timers \subseteq Timer
    \* a goroutine holds a request exactly while it is between receive and return
    /\ \A w \in Workers : (wpc[w] = "idle") = (wreq[w] = NoReq)
    /\ (dpc \in {"remove", "send"}) = (dreq # NoReq)

\* New + Run: empty map, empty channels, the dispatcher at the top of its
\* loop, every worker blocked receiving; `replayed' is what the caller put
\* into the list before Run (DurableQueue's loadEntriesFromOwner).
CoreInit(replayed) ==
    /\ pending = replayed
    /\ removedIDs = {}
    /\ wakeToken = FALSE
    /\ dpc = "peek"
    /\ dreq = NoReq
    /\ wpc = [w \in Workers |-> "idle"]
    /\ wreq = [w \in Workers |-> NoReq]
    /\ wmust = [w \in Workers |-> FALSE]
    /\ timers = {}

\* The same fresh state entered by a step (a restart of the process).
CoreRestart(replayed) ==
    /\ pending' = replayed
    /\ removedIDs' = {}
    /\ wakeToken' = FALSE
    /\ dpc' = "peek"
    /\ dreq' = NoReq
    /\ wpc' = [w \in Workers |-> "idle"]
    /\ wreq' = [w \in Workers |-> NoReq]
    /\ wmust' = [w \in Workers |-> FALSE]
    /\ timers' = {}

(***************************************************************************)
(* removeByID: drop the first element whose ID matches, if any.            *)
(***************************************************************************)
removeByID(s, id) ==
    LET i == SelectInSeq(s, LAMBDA r : r.id = id)
    IN  IF i = 0 THEN s ELSE RemoveAt(s, i)

(***************************************************************************)
(* Operations called by the user of the core.  Each is the part of an      *)
(* action that touches the core's variables.                               *)
(***************************************************************************)

\* PushBack: append under q.mutex; it does not signal q.wait.
PushBack(id, v) ==
    /\ pending' = Append(pending, [id |-> id, val |-> v])
    /\ UNCHANGED <<removedIDs, wakeToken, dpc, dreq, wpc, wreq, wmust, timers>>

\* WakeUp: a blocking send on q.wait.  It completes at once when the buffer
\* is empty; otherwise the sender parks until the dispatcher receives (see
\* RecvWake, where a parked sender's value replaces the one taken).
WakeUp ==
    /\ ~wakeToken
    /\ wakeToken' = TRUE
    /\ UNCHANGED <<pending, removedIDs, dpc, dreq, wpc, wreq, wmust, timers>>

\* Remove, first statement: q.removedIDs[ID] = struct{}{}, without the lock.
MarkRemoved(id) ==
    /\ removedIDs' = removedIDs \cup {id}
    /\ UNCHANGED <<pending, wakeToken, dpc, dreq, wpc, wreq, wmust, timers>>

\* Remove, second statement: removeByID under q.mutex.
ScanRemove(id) ==
    /\ pending' = removeByID(pending, id)
    /\ UNCHANGED <<removedIDs, wakeToken, dpc, dreq, wpc, wreq, wmust, timers>>

(***************************************************************************)
(* The dispatcher loop of Run.                                             *)
(***************************************************************************)

\* Front() read under the lock; the lock is released before it is used.
PeekEmpty ==
    /\ dpc = "peek"
    /\ pending = <<>>
    /\ dpc' = "wait"
    /\ UNCHANGED <<pending, removedIDs, wakeToken, dreq, wpc, wreq, wmust, timers>>

PeekFront ==
    /\ dpc = "peek"
    /\ pending # <<>>
    /\ dpc' = "remove"
    /\ dreq' = Head(pending)
    /\ UNCHANGED <<pending, removedIDs, wakeToken, wpc, wreq, wmust, timers>>

\* <-q.wait: the receive of the dispatcher parked on an empty list.  Only
\* dpc changes here; the composing module says what becomes of wakeToken
\* (a sender parked on the full channel refills it in the same step).
RecvWake ==
    /\ dpc = "wait"
    /\ wakeToken
    /\ dpc' = "peek"

\* q.removeByID(e.Value.(*Req).ID): looks the ID up again under the lock.
DispatchRemove ==
    /\ dpc = "remove"
    /\ pending' = removeByID(pending, dreq.id)
    /\ dpc' = "send"
    /\ UNCHANGED <<removedIDs, wakeToken, dreq, wpc, wreq, wmust, timers>>

\* q.requests <- e.Value.(*Req): rendezvous with an idle worker.  What is
\* sent is the element peeked, whatever removeByID found.
DispatchSend(w) ==
    /\ dpc = "send"
    /\ wpc[w] = "idle"
    /\ dpc' = "peek"
    /\ dreq' = NoReq
    /\ wpc' = [wpc EXCEPT ![w] = "check"]
    /\ wreq' = [wreq EXCEPT ![w] = dreq]
    /\ UNCHANGED <<pending, removedIDs, wakeToken, wmust, timers>>

(***************************************************************************)
(* The worker loop of process.                                             *)
(***************************************************************************)

\* _, mustRemove := q.removedIDs[req.ID]; if mustRemove, delete it.  Read
\* before the handler is called, so a later Remove is not seen.
WorkerCheck(w) ==
    /\ wpc[w] = "check"
    /\ wmust' = [wmust EXCEPT ![w] = wreq[w].id \in removedIDs]
    /\ removedIDs' = removedIDs \ {wreq[w].id}
    /\ wpc' = [wpc EXCEPT ![w] = "call"]
    /\ UNCHANGED <<pending, wakeToken, dpc, dreq, wreq, timers>>

\* f(req) returned ok.  On false, time.AfterFunc schedules a callback that
\* captured req and mustRemove; the worker goes back to receiving.
WorkerReturn(w, ok) ==
    /\ wpc[w] = "call"
    /\ wpc' = [wpc EXCEPT ![w] = "idle"]
    /\ wreq' = [wreq EXCEPT ![w] = NoReq]
    /\ wmust' = [wmust EXCEPT ![w] = FALSE]
    /\ timers' = IF ok THEN timers
                 ELSE timers \cup {[req |-> wreq[w], must |-> wmust[w]]}
    /\ UNCHANGED <<pending, removedIDs, wakeToken, dpc, dreq>>

\* Mutant: the callback appends the request but sends no wake-up.
TimerFireNoWake(t) ==
    /\ t \in timers
    /\ timers' = timers \ {t}
    /\ IF t.must
         THEN UNCHANGED pending
         ELSE pending' = Append(pending, t.req)
    /\ UNCHANGED <<removedIDs, wakeToken, dpc, dreq, wpc, wreq, wmust>>

\* The AfterFunc callback: return if mustRemove; otherwise, under the lock,
\* PushBack(req) and a non-blocking send on q.wait (dropped when full).
TimerFire(t) ==
    /\ t \in timers
    /\ timers' = timers \ {t}
    /\ IF t.must
         THEN UNCHANGED <<pending, wakeToken>>
         ELSE /\ pending' = Append(pending, t.req)
              /\ wakeToken' = TRUE
    /\ UNCHANGED <<removedIDs, dpc, dreq, wpc, wreq, wmust>>

=============================================================================
