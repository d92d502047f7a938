-------------------------------- MODULE Locker --------------------------------
(***************************************************************************)
(* The per-id lock of src/locker/lock.go.                                  *)
(*                                                                         *)
(* Lock(id) finds or creates the *sync.Mutex of id under globalMutex,      *)
(* releases globalMutex, then blocks on that mutex.  Unlock(id) looks the  *)
(* mutex up under globalMutex and unlocks it; an id without a mutex is     *)
(* ignored.  Mutexes are never removed from the map.                       *)
(*                                                                         *)
(* Each globalMutex section is one step.  A mutex is identified by the     *)
(* order of its creation; a caller keeps the one it found (bM) across the  *)
(* release of globalMutex.  Callers follow sync.Mutex's contract (an      *)
(* Unlock of an unlocked mutex is a fatal error): they Unlock only an id   *)
(* they hold, or one never locked, which Unlock ignores.                   *)
(***************************************************************************)
EXTENDS Naturals, FiniteSets, TLC

CONSTANTS
    IDs,        \* ids passed to Lock and Unlock
    Clients,    \* goroutines using the Locker
    MaxMutex    \* bound on the number of mutexes created

VARIABLES
    mutexes,    \* h.mutexes: id -> mutex
    nMutex,     \* mutexes created so far
    locked,     \* the mutexes currently locked
    pc,         \* "idle", "waiting" (in bM.Lock()), "held"
    cid,        \* the id of the client's current call
    bm          \* the client's local bM

vars == <<mutexes, nMutex, locked, pc, cid, bm>>

Mutex == 1..MaxMutex

TypeOK ==
    /\ DOMAIN mutexes \subseteq IDs
    /\ \A id \in DOMAIN mutexes : mutexes[id] \in Mutex
    /\ nMutex \in 0..MaxMutex
    /\ locked \subseteq Mutex
    /\ pc \in [Clients -> {"idle", "waiting", "held"}]
    /\ cid \in [Clients -> IDs]
    /\ bm \in [Clients -> 0..MaxMutex]
    \* a locked mutex is still the mutex of some id: none is replaced
    /\ locked \subseteq {mutexes[id] : id \in DOMAIN mutexes}

\* NewLocker: no mutex yet.
Init ==
    /\ mutexes = [id \in {} |-> 0]
    /\ nMutex = 0
    /\ locked = {}
    /\ pc = [c \in Clients |-> "idle"]
    /\ cid \in [Clients -> IDs]
    /\ bm = [c \in Clients |-> 0]

\* Mutant: the `if !ok' dropped, a fresh mutex stored on every Lock.
LockAlwaysNew(c, id) ==
    /\ pc[c] = "idle"
    /\ nMutex < MaxMutex
    /\ mutexes' = (id :> nMutex + 1) @@ mutexes
    /\ nMutex' = nMutex + 1
    /\ bm' = [bm EXCEPT ![c] = nMutex + 1]
    /\ pc' = [pc EXCEPT ![c] = "waiting"]
    /\ cid' = [cid EXCEPT ![c] = id]
    /\ UNCHANGED locked

\* Lock(id), the globalMutex section: look up or create id's mutex.
Lock(c, id) ==
    /\ pc[c] = "idle"
    /\ IF id \in DOMAIN mutexes
         THEN /\ bm' = [bm EXCEPT ![c] = mutexes[id]]
              /\ UNCHANGED <<mutexes, nMutex>>
         ELSE /\ nMutex < MaxMutex
              /\ mutexes' = (id :> nMutex + 1) @@ mutexes
              /\ nMutex' = nMutex + 1
              /\ bm' = [bm EXCEPT ![c] = nMutex + 1]
    /\ pc' = [pc EXCEPT ![c] = "waiting"]
    /\ cid' = [cid EXCEPT ![c] = id]
    /\ UNCHANGED locked

\* Lock(id), last statement: bM.Lock() returns once bM is free.
Acquire(c) ==
    /\ pc[c] = "waiting"
    /\ bm[c] \notin locked
    /\ locked' = locked \cup {bm[c]}
    /\ pc' = [pc EXCEPT ![c] = "held"]
    /\ UNCHANGED <<mutexes, nMutex, cid, bm>>

\* Mutant: the test inverted, `if ok { return }'.
UnlockInverted(c) ==
    /\ pc[c] = "held"
    /\ pc' = [pc EXCEPT ![c] = "idle"]
    /\ UNCHANGED <<mutexes, nMutex, locked, cid, bm>>

\* Unlock(id) by the holder: under globalMutex, look up id's mutex and
\* unlock it.
Unlock(c) ==
    /\ pc[c] = "held"
    /\ cid[c] \in DOMAIN mutexes
    /\ locked' = locked \ {mutexes[cid[c]]}
    /\ pc' = [pc EXCEPT ![c] = "idle"]
    /\ UNCHANGED <<mutexes, nMutex, cid, bm>>

\* Unlock(id) of an id never locked: not found, do nothing.
UnlockUnknown(c, id) ==
    /\ pc[c] = "idle"
    /\ id \notin DOMAIN mutexes
    /\ UNCHANGED vars

Next ==
    \/ \E c \in Clients, id \in IDs : Lock(c, id) \/ UnlockUnknown(c, id)
    \/ \E c \in Clients : Acquire(c) \/ Unlock(c)

\* A holder eventually calls Unlock (the caller's contract).  A goroutine
\* blocked in Lock gets the mutex if it is free infinitely often: sync.Mutex
\* hands it to a waiter that has waited over 1ms (starvation mode).
Fairness ==
    \A c \in Clients : WF_vars(Unlock(c)) /\ SF_vars(Acquire(c))

Spec == Init /\ [][Next]_vars /\ Fairness

-----------------------------------------------------------------------------

\* At most one goroutine holds the lock of an id, even though the mutex is
\* looked up in one critical section and locked outside it.
MutualExclusion ==
    \A c, d \in Clients :
        c # d /\ pc[c] = "held" /\ pc[d] = "held" => cid[c] # cid[d]

\* The refinement mapping to IdLock: a goroutine's call state and id are
\* the abstract ones; the map of mutexes, the counter and each caller's bM
\* are hidden.
IL == INSTANCE IdLock WITH state <- pc, want <- cid

\* Locker implements IdLock: finding the mutex under globalMutex and
\* locking it outside is a Request then an Acquire that only happens when
\* no other goroutine holds the id, and every blocked Lock returns.
ImplementsIdLock == IL!Spec

=============================================================================
