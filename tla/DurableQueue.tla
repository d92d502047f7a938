----------------------------- MODULE DurableQueue -----------------------------
(***************************************************************************)
(* The MariaDB-backed queue of src/queue/queue_mariadb.go composed with    *)
(* the core of src/queue/core/core.go (module QueueCore).                  *)
(*                                                                         *)
(* Callers (Clients) run queueMariaDB.PushBack and queueMariaDB.Remove     *)
(* concurrently with the dispatcher and the workers.  The table queue_queue *)
(* of one owner is `store'; a row is the request it mirrors, its           *)
(* auto-increment id being the payload number `val'.  The process may      *)
(* crash at any point; NewMariaDB then replays the rows and Run restarts   *)
(* the goroutines.                                                         *)
(***************************************************************************)
EXTENDS QueueCore, FiniteSets

CONSTANTS
    Clients,        \* goroutines of the application calling PushBack/Remove
    MaxPush,        \* bound on PushBack calls (each gets a fresh payload)
    MaxRemove,      \* bound on Remove calls
    MaxCrash,       \* bound on crashes
    UniqueIDs       \* TRUE: callers never reuse an ID and only Remove
                    \* IDs they pushed

ASSUME Values = 1..MaxPush /\ MaxRemove \in Nat /\ MaxCrash \in Nat
ASSUME UniqueIDs \in BOOLEAN

VARIABLES
    store,          \* rows of queue_queue for h.owner
    cpc,            \* where each client is inside PushBack / Remove
    creq,           \* the request a client pushes, or [id, cut] it removes
    cleaning,       \* workers whose wrapped handler got true from f and
                    \* now runs removeEntryByExternalID
    nPushed, nRemoves, nCrashes,
    usedIDs,        \* history: IDs passed to PushBack
    cuts,           \* history: [id, val |-> nPushed] when each Remove began
    waitingAtRemove \* history: requests waiting in the list or for a retry
                    \* when a Remove of their ID ran removeByID

faVars == <<store, cpc, creq, cleaning, nPushed, nRemoves, nCrashes,
            usedIDs, cuts, waitingAtRemove>>
vars == <<coreVars, faVars>>

TypeOK ==
    /\ CoreTypeOK
    /\ store \subseteq Req
    /\ cpc \in [Clients -> {"idle", "enqueue", "wake", "scan", "delete"}]
    /\ creq \in [Clients -> [id : IDs, val : 0..MaxPush]]
    /\ cleaning \subseteq Workers
    /\ nPushed \in 0..MaxPush /\ nRemoves \in 0..MaxRemove
    /\ nCrashes \in 0..MaxCrash
    /\ usedIDs \subseteq IDs
    /\ cuts \subseteq [id : IDs, val : 0..MaxPush]
    /\ waitingAtRemove \subseteq Req

\* A row is cancelled when a Remove of its ID began after it was inserted.
Cancelled(r) == \E c \in cuts : c.id = r.id /\ r.val <= c.val

NoArg == [id |-> CHOOSE i \in IDs : TRUE, val |-> 0]

\* The caller contract of the spec (section 5): PushBack and Remove of the
\* same ID are not run concurrently; callers serialise them.
Busy(id) == \E c \in Clients : cpc[c] # "idle" /\ creq[c].id = id

Init ==
    /\ CoreInit(<<>>)
    /\ store = {}
    /\ cpc = [c \in Clients |-> "idle"]
    /\ creq = [c \in Clients |-> NoArg]
    /\ cleaning = {}
    /\ nPushed = 0 /\ nRemoves = 0 /\ nCrashes = 0
    /\ usedIDs = {} /\ cuts = {} /\ waitingAtRemove = {}

(***************************************************************************)
(* queueMariaDB.PushBack: insertEntry, then coreq.PushBack, coreq.WakeUp.  *)
(***************************************************************************)

\* Mutant: PushBack goes on to the core although the insert failed.
insertEntryIgnoreError(c, id) ==
    LET r == [id |-> id, val |-> nPushed + 1]
    IN  /\ cpc[c] = "idle"
        /\ nPushed < MaxPush
        /\ UniqueIDs => id \notin usedIDs
        /\ ~Busy(id)
        /\ nPushed' = nPushed + 1
        /\ usedIDs' = usedIDs \cup {id}
        /\ store' \in {store \cup {r}, store}
        /\ cpc' = [cpc EXCEPT ![c] = "enqueue"]
        /\ creq' = [creq EXCEPT ![c] = r]
        /\ UNCHANGED <<coreVars, cleaning, nRemoves, nCrashes, cuts, waitingAtRemove>>

\* insertEntry commits one row or returns an error, and PushBack returns
\* the error before touching the core.
insertEntry(c, id) ==
    LET r == [id |-> id, val |-> nPushed + 1]
    IN  /\ cpc[c] = "idle"
        /\ nPushed < MaxPush
        /\ UniqueIDs => id \notin usedIDs
        /\ ~Busy(id)
        /\ nPushed' = nPushed + 1
        /\ usedIDs' = usedIDs \cup {id}
        /\ \/ /\ store' = store \cup {r}
              /\ cpc' = [cpc EXCEPT ![c] = "enqueue"]
              /\ creq' = [creq EXCEPT ![c] = r]
           \/ /\ UNCHANGED <<store, cpc, creq>>
        /\ UNCHANGED <<coreVars, cleaning, nRemoves, nCrashes, cuts, waitingAtRemove>>

PushEnqueue(c) ==
    /\ cpc[c] = "enqueue"
    /\ PushBack(creq[c].id, creq[c].val)
    /\ cpc' = [cpc EXCEPT ![c] = "wake"]
    /\ UNCHANGED <<store, creq, cleaning, nPushed, nRemoves, nCrashes,
                   usedIDs, cuts, waitingAtRemove>>

PushWake(c) ==
    /\ cpc[c] = "wake"
    /\ WakeUp
    /\ cpc' = [cpc EXCEPT ![c] = "idle"]
    /\ UNCHANGED <<store, creq, cleaning, nPushed, nRemoves, nCrashes,
                   usedIDs, cuts, waitingAtRemove>>

(***************************************************************************)
(* queueMariaDB.Remove: coreq.Remove (mark, then removeByID), then         *)
(* removeEntryByExternalID, which deletes every row of the ID.             *)
(***************************************************************************)

RemoveMark(c, id) ==
    /\ cpc[c] = "idle"
    /\ nRemoves < MaxRemove
    /\ UniqueIDs => id \in usedIDs
    /\ ~Busy(id)
    /\ MarkRemoved(id)
    /\ nRemoves' = nRemoves + 1
    /\ cuts' = cuts \cup {[id |-> id, val |-> nPushed]}
    /\ cpc' = [cpc EXCEPT ![c] = "scan"]
    /\ creq' = [creq EXCEPT ![c] = [id |-> id, val |-> nPushed]]
    /\ UNCHANGED <<store, cleaning, nPushed, nCrashes, usedIDs, waitingAtRemove>>

RemoveScan(c) ==
    /\ cpc[c] = "scan"
    /\ ScanRemove(creq[c].id)
    /\ waitingAtRemove' = waitingAtRemove \cup
          {r \in ToSet(pending) \cup {t.req : t \in timers} : r.id = creq[c].id}
    /\ cpc' = [cpc EXCEPT ![c] = "delete"]
    /\ UNCHANGED <<store, creq, cleaning, nPushed, nRemoves, nCrashes, usedIDs, cuts>>

\* delete ... where external_id = ? and owner = ?: all rows of the ID.
removeEntryByExternalID(id) == {r \in store : r.id # id}

\* The statement commits, or the transaction fails and Remove returns the
\* error (the core has been changed already).
RemoveDelete(c) ==
    /\ cpc[c] = "delete"
    /\ \/ store' = removeEntryByExternalID(creq[c].id)
       \/ UNCHANGED store
    /\ cpc' = [cpc EXCEPT ![c] = "idle"]
    /\ UNCHANGED <<coreVars, creq, cleaning, nPushed, nRemoves, nCrashes,
                   usedIDs, cuts, waitingAtRemove>>

(***************************************************************************)
(* The handler queueMariaDB.Run gives the core: f(req.Value); on true,     *)
(* removeEntryByExternalID; a failed delete is reported as false.          *)
(***************************************************************************)

\* The user's f returns false (the wrapper returns false) or true.
UserHandler(w) ==
    /\ wpc[w] = "call"
    /\ w \notin cleaning
    /\ \/ /\ WorkerReturn(w, FALSE)
          /\ UNCHANGED cleaning
       \/ /\ cleaning' = cleaning \cup {w}
          /\ UNCHANGED coreVars
    /\ UNCHANGED <<store, cpc, creq, nPushed, nRemoves, nCrashes,
                   usedIDs, cuts, waitingAtRemove>>

\* Mutant: the wrapper reports true although the delete failed.
CleanupIgnoreDeleteError(w) ==
    /\ w \in cleaning
    /\ cleaning' = cleaning \ {w}
    /\ store' \in {removeEntryByExternalID(wreq[w].id), store}
    /\ WorkerReturn(w, TRUE)
    /\ UNCHANGED <<cpc, creq, nPushed, nRemoves, nCrashes,
                   usedIDs, cuts, waitingAtRemove>>

Cleanup(w) ==
    /\ w \in cleaning
    /\ cleaning' = cleaning \ {w}
    /\ \/ /\ store' = removeEntryByExternalID(wreq[w].id)
          /\ WorkerReturn(w, TRUE)
       \/ /\ UNCHANGED store
          /\ WorkerReturn(w, FALSE)
    /\ UNCHANGED <<cpc, creq, nPushed, nRemoves, nCrashes,
                   usedIDs, cuts, waitingAtRemove>>

(***************************************************************************)
(* The dispatcher receiving on q.wait.  A client parked in WakeUp on the   *)
(* full channel completes its send in the same step, so the buffer stays  *)
(* full; otherwise the buffer empties.                                     *)
(***************************************************************************)
DispatcherWake ==
    /\ RecvWake
    /\ \/ \E c \in Clients :
             /\ cpc[c] = "wake"
             /\ cpc' = [cpc EXCEPT ![c] = "idle"]
             /\ UNCHANGED wakeToken
       \/ /\ \A c \in Clients : cpc[c] # "wake"
          /\ wakeToken' = FALSE
          /\ UNCHANGED cpc
    /\ UNCHANGED <<pending, removedIDs, dreq, wpc, wreq, wmust, timers>>
    /\ UNCHANGED <<store, creq, cleaning, nPushed, nRemoves, nCrashes,
                   usedIDs, cuts, waitingAtRemove>>

\* The steps of the core's own goroutines, which leave the facade alone.
Dispatcher ==
    /\ \/ PeekEmpty \/ PeekFront \/ DispatchRemove
       \/ \E w \in Workers : DispatchSend(w)
    /\ UNCHANGED faVars

Worker(w) == WorkerCheck(w) /\ UNCHANGED faVars

Callback(t) == TimerFire(t) /\ UNCHANGED faVars

(***************************************************************************)
(* Crash and restart: every goroutine, timer and the in-memory state are   *)
(* lost; NewMariaDB's loadEntriesFromOwner pushes the rows back.  The      *)
(* select of getEntriesByOwner has no ORDER BY, so any order may come back.*)
(***************************************************************************)
\* getEntriesByOwner: select ... where owner = ?, with no ORDER BY, so the
\* rows may come back in any order.
getEntriesByOwner == SetToSeqs(store)

\* Mutant: the restarted process does not load the owner's rows.
RestartNoReplay ==
    /\ nCrashes < MaxCrash
    /\ nCrashes' = nCrashes + 1
    /\ CoreRestart(<<>>)
    /\ cpc' = [c \in Clients |-> "idle"]
    /\ creq' = [c \in Clients |-> NoArg]
    /\ cleaning' = {}
    /\ UNCHANGED <<store, nPushed, nRemoves, usedIDs, cuts, waitingAtRemove>>

Restart ==
    /\ nCrashes < MaxCrash
    /\ nCrashes' = nCrashes + 1
    /\ \E replay \in getEntriesByOwner : CoreRestart(replay)
    /\ cpc' = [c \in Clients |-> "idle"]
    /\ creq' = [c \in Clients |-> NoArg]
    /\ cleaning' = {}
    /\ UNCHANGED <<store, nPushed, nRemoves, usedIDs, cuts, waitingAtRemove>>

\* Nothing left to do: every call returned and the queue is drained.
Quiescent ==
    /\ dpc = "wait" /\ ~wakeToken /\ pending = <<>> /\ timers = {}
    /\ \A w \in Workers : wpc[w] = "idle"
    /\ \A c \in Clients : cpc[c] = "idle"
    /\ UNCHANGED vars

Next ==
    \/ \E c \in Clients, id \in IDs : insertEntry(c, id) \/ RemoveMark(c, id)
    \/ \E c \in Clients : PushEnqueue(c) \/ PushWake(c) \/ RemoveScan(c) \/ RemoveDelete(c)
    \/ \E w \in Workers : UserHandler(w) \/ Cleanup(w)
    \/ DispatcherWake
    \/ Dispatcher
    \/ \E w \in Workers : Worker(w)
    \/ \E t \in timers : Callback(t)
    \/ Restart
    \/ Quiescent

\* Every goroutine that can run eventually runs; the callers start new
\* calls and the process crashes only if they (it) will.
Fairness ==
    /\ WF_vars(Dispatcher) /\ WF_vars(DispatcherWake)
    /\ \A w \in Workers : WF_vars(Worker(w)) /\ WF_vars(UserHandler(w)) /\ WF_vars(Cleanup(w))
    /\ \A t \in Timer : WF_vars(Callback(t))
    /\ \A c \in Clients : WF_vars(PushEnqueue(c) \/ PushWake(c) \/ RemoveScan(c) \/ RemoveDelete(c))

Spec == Init /\ [][Next]_vars /\ Fairness

-----------------------------------------------------------------------------
(***************************************************************************)
(* Properties.                                                             *)
(***************************************************************************)

\* The in-memory places a request can be in, and will go on from.
Tracked(r) ==
    \/ r \in ToSet(pending)
    \/ dpc \in {"remove", "send"} /\ dreq = r
    \/ \E w \in Workers : wreq[w] = r /\ (wpc[w] = "check" \/ ~wmust[w])
    \/ [req |-> r, must |-> FALSE] \in timers
    \/ \E c \in Clients : cpc[c] = "enqueue" /\ creq[c] = r

InMemory ==
    ToSet(pending) \cup {t.req : t \in {t \in timers : ~t.must}}
      \cup {wreq[w] : w \in {w \in Workers : wpc[w] # "idle"}}
      \cup (IF dpc \in {"remove", "send"} THEN {dreq} ELSE {})

\* Persistence before enqueue, and no silent loss: every row of the table
\* that no Remove has targeted is held somewhere in memory from which the
\* core will hand it to the handler again (PushBack, the worker's
\* mustRemove check, the AfterFunc retry, the replay of NewMariaDB).
PersistedIsTracked ==
    \A r \in store : Cancelled(r) \/ Tracked(r)

\* The durable record never lags the in-memory one (spec, section 3):
\* every request in memory that no Remove targeted has its row, except in
\* the window after f returned true and before the row is deleted.
TrackedIsPersisted ==
    \A r \in InMemory :
        \/ r \in store
        \/ Cancelled(r)
        \/ \E w \in cleaning : wreq[w] = r

\* Coalesced wake-ups lose nothing: the dispatcher never sleeps on q.wait
\* with work in the list unless a wake-up is buffered or a PushBack is
\* about to send one (its WakeUp follows the core PushBack).
NoLostWakeup ==
    (dpc = "wait" /\ pending # <<>>) =>
        \/ wakeToken
        \/ \E c \in Clients : cpc[c] = "wake"

\* Every row no Remove targets reaches the handler again, or is deleted:
\* retries, wake-ups and replay never leave one stranded.
Calling(r) == \E w \in Workers : wpc[w] = "call" /\ wreq[w] = r

PersistedReachesHandler ==
    \A r \in Req :
        (r \in store /\ ~Cancelled(r)) ~> (Calling(r) \/ r \notin store \/ Cancelled(r))

\* Spec, section 8: once Remove has run on the core while a request waits
\* in the list or for its retry (not yet handed to a worker), the handler
\* is never called for it again, even when its AfterFunc retry is already
\* pending or the dispatcher had already peeked it.
NoCallAfterRemove ==
    [][\A w \in Workers :
         (wpc[w] = "check" /\ wpc'[w] = "call") => wreq[w] \notin waitingAtRemove]_vars

\* Spec, section 4.1: the retry callback appends the request back only "if
\* the ID was not cancelled in the interim": a request that was waiting for
\* its retry when Remove ran is never put back into the list.
RetryHonoursRemove ==
    [][\A t \in timers :
         (t \notin timers' /\ t.req \in waitingAtRemove) => t.req \notin ToSet(pending')]_vars


\* The refinement mapping to RetryQueue: the list is the pending list; a
\* request is in flight from the dispatcher's removeByID until the worker
\* returns (with the facade's deletion of the record); a request with a
\* pending AfterFunc is awaiting its retry.
InFlightReqs ==
    (IF dpc = "send" THEN {dreq} ELSE {})
      \cup {wreq[w] : w \in {w \in Workers : wpc[w] # "idle"}}

\* A mark a worker has read and cleared before the call is still to be
\* consulted, in RetryQueue's terms, when the call fails.
CancelMarks ==
    removedIDs \cup {wreq[w].id : w \in {w \in Workers : wpc[w] = "call" /\ wmust[w]}}

RQ == INSTANCE RetryQueue WITH
        Requests <- Req, stored <- store, pending <- pending,
        pushing <- {creq[c] : c \in {c \in Clients : cpc[c] = "enqueue"}},
        inflight <- InFlightReqs, retrying <- {t.req : t \in {t \in timers : ~t.must}},
        cancelled <- CancelMarks

\* The queue implements its specification (spec sections 4.1, 4.2): every
\* step of the dispatcher, a worker, a retry
\* callback, PushBack, the handler wrapper or a crash and replay is a step
\* of RetryQueue or leaves its state alone; in particular a request is
\* handed to the handler only while its record exists and it is not
\* already in flight, and the fairness of the goroutines delivers what
\* RetryQueue's fairness promises.
ImplementsRetryQueue == RQ!RQSpec


\* NewMariaDB replays the owner's rows oldest first (their auto-increment
\* id, which grows with creation time), as the spec's construction and its
\* replay scenario require: a restart leaves the pending list in row order.
ReplayOldestFirst ==
    [][nCrashes' > nCrashes =>
         \A i, j \in DOMAIN pending' : i < j => pending'[i].val < pending'[j].val]_vars

=============================================================================
