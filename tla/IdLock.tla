-------------------------------- MODULE IdLock --------------------------------
(***************************************************************************)
(* What the Locker of src/locker/lock.go promises ("locks (in memory) by   *)
(* id"): each goroutine asks for the lock of one id, waits, holds it and   *)
(* releases it; no two goroutines hold the lock of one id at once, and a   *)
(* waiting goroutine gets the lock whenever it is free often enough.       *)
(* Nothing here says how the lock is found or stored.                      *)
(***************************************************************************)
CONSTANTS
    IDs,        \* lock ids
    Clients     \* goroutines

VARIABLES
    state,      \* "idle", "waiting" or "held", per goroutine
    want        \* the id a goroutine asks for or holds

Free(id) == \A d \in Clients : state[d] = "held" => want[d] # id

Init ==
    /\ state = [c \in Clients |-> "idle"]
    /\ want \in [Clients -> IDs]

Request(c, id) ==
    /\ state[c] = "idle"
    /\ state' = [state EXCEPT ![c] = "waiting"]
    /\ want' = [want EXCEPT ![c] = id]

Acquire(c) ==
    /\ state[c] = "waiting"
    /\ Free(want[c])
    /\ state' = [state EXCEPT ![c] = "held"]
    /\ UNCHANGED want

Release(c) ==
    /\ state[c] = "held"
    /\ state' = [state EXCEPT ![c] = "idle"]
    /\ UNCHANGED want

Next ==
    \/ \E c \in Clients, id \in IDs : Request(c, id)
    \/ \E c \in Clients : Acquire(c) \/ Release(c)

\* A holder releases; a waiter whose id is free infinitely often gets it.
Spec ==
    /\ Init /\ [][Next]_<<state, want>>
    /\ \A c \in Clients : WF_<<state, want>>(Release(c)) /\ SF_<<state, want>>(Acquire(c))

=============================================================================
