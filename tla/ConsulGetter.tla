----------------------------- MODULE ConsulGetter -----------------------------
(***************************************************************************)
(* The caching service-address getter of src/svcregistry/getter_consul.go. *)
(*                                                                         *)
(* h.cachedAddresses maps a service to a cacheControl value {creationDT,   *)
(* cursor, addresses}.  GetServiceAddress reads the map without cacheLock, *)
(* refreshes it from Consul under the lock when the entry is missing,      *)
(* empty or older than cacheDuration, re-reads it without the lock, and    *)
(* calls nextAddress, which reads the map without the lock, advances the   *)
(* round-robin cursor in its local copy and writes the whole copy back     *)
(* under the lock.  Reset removes the address before the cursor under the  *)
(* lock.                                                                   *)
(*                                                                         *)
(* Each map access is one step; a caller goroutine's locals between them   *)
(* are per-client variables.  creationDT is abstracted to `fresh': the     *)
(* cacheDuration elapsing is the environment step Age.  A Consul query is  *)
(* done in the refresh step, which either fails or answers one of          *)
(* ConsulViews.                                                            *)
(***************************************************************************)
EXTENDS Naturals, Sequences, SequencesExt, FiniteSets, TLC

CONSTANTS
    Services,     \* service names
    Addrs,        \* instance addresses "ip:port" Consul may report
    ConsulViews,  \* healthy-instance lists Consul may answer (no duplicates)
    Clients       \* goroutines calling GetServiceAddress and Reset

ASSUME ConsulViews \subseteq Seq(Addrs)

\* cacheControl; cursor is 0-based as in the code.
CacheCtrl == [fresh : BOOLEAN, cursor : Nat, addresses : Seq(Addrs)]
NoCtrl == [fresh |-> FALSE, cursor |-> 0, addresses |-> <<>>]

\* What a call returned: an address, "" with a nil error, an error, or the
\* runtime panic of an index out of range.
Results == Addrs \cup {"", "errConsul", "errNotFound", "panic", "none"}

VARIABLES
    cache,       \* h.cachedAddresses
    gpc,         \* where each client's call is
    svc,         \* the service argument of the call
    snap,        \* the call's local cacheControl copy
    out,         \* nextAddress's local `out'
    ret,         \* what the client's last call returned
    lastStored,  \* history: the list the last refresh stored, per service
    banned       \* history: addresses Reset removed since that refresh

vars == <<cache, gpc, svc, snap, out, ret, lastStored, banned>>

MaxAddrs == Cardinality(Addrs)

TypeOK ==
    /\ DOMAIN cache \subseteq Services
    /\ \A s \in DOMAIN cache :
          /\ cache[s] \in CacheCtrl
          /\ cache[s].cursor \in 0..MaxAddrs - 1
    /\ gpc \in [Clients -> {"idle", "refresh", "reread", "next", "write"}]
    /\ svc \in [Clients -> Services]
    /\ \A c \in Clients : snap[c] \in CacheCtrl
    /\ out \in [Clients -> Addrs \cup {""}]
    /\ ret \in [Clients -> Results]
    /\ lastStored \in [Services -> Seq(Addrs)]
    /\ banned \in [Services -> SUBSET Addrs]

\* NewConsulGetter: an empty map.
Init ==
    /\ cache = [s \in {} |-> NoCtrl]
    /\ gpc = [c \in Clients |-> "idle"]
    /\ svc \in [Clients -> Services]
    /\ snap = [c \in Clients |-> NoCtrl]
    /\ out = [c \in Clients |-> ""]
    /\ ret = [c \in Clients |-> "none"]
    /\ lastStored = [s \in Services |-> <<>>]
    /\ banned = [s \in Services |-> {}]

\* The map read of an absent key gives the zero cacheControl.
Lookup(s) == IF s \in DOMAIN cache THEN cache[s] ELSE NoCtrl

\* GetServiceAddress, first statement: the unlocked map read and the test
\* for a missing, empty or expired entry.
GetServiceAddress(c, s) ==
    LET cc == Lookup(s) IN
    /\ gpc[c] = "idle"
    /\ svc' = [svc EXCEPT ![c] = s]
    /\ snap' = [snap EXCEPT ![c] = cc]
    /\ gpc' = [gpc EXCEPT ![c] = IF Len(cc.addresses) = 0 \/ ~cc.fresh
                                   THEN "refresh" ELSE "next"]
    /\ UNCHANGED <<cache, out, ret, lastStored, banned>>

\* getServiceInstancesFromConsul: the healthy instances of the service as
\* "address:port" strings, in Consul's order; formatting is abstracted to
\* the address itself.
getServiceInstancesFromConsul == ConsulViews

\* getServiceInstancesFromConsul, then the write of a fresh entry with
\* cursor 0 under cacheLock.  A Consul error ends the call.
Refresh(c) ==
    LET s == svc[c] IN
    /\ gpc[c] = "refresh"
    /\ \/ /\ gpc' = [gpc EXCEPT ![c] = "idle"]
          /\ ret' = [ret EXCEPT ![c] = "errConsul"]
          /\ UNCHANGED <<cache, lastStored, banned>>
       \/ \E v \in getServiceInstancesFromConsul :
          /\ cache' = (s :> [fresh |-> TRUE, cursor |-> 0, addresses |-> v]) @@ cache
          /\ lastStored' = [lastStored EXCEPT ![s] = v]
          /\ banned' = [banned EXCEPT ![s] = {}]
          /\ gpc' = [gpc EXCEPT ![c] = "reread"]
          /\ UNCHANGED ret
    /\ UNCHANGED <<svc, snap, out>>

\* cacheCtrl = h.cachedAddresses[service] after Unlock, and the test
\* len(cacheCtrl.addresses) == 0 that returns ErrServiceNotFound.
Reread(c) ==
    LET cc == Lookup(svc[c]) IN
    /\ gpc[c] = "reread"
    /\ snap' = [snap EXCEPT ![c] = cc]
    /\ IF Len(cc.addresses) = 0
         THEN /\ gpc' = [gpc EXCEPT ![c] = "idle"]
              /\ ret' = [ret EXCEPT ![c] = "errNotFound"]
         ELSE /\ gpc' = [gpc EXCEPT ![c] = "next"]
              /\ UNCHANGED ret
    /\ UNCHANGED <<cache, svc, out, lastStored, banned>>

\* The round-robin step of nextAddress on a local copy.
Advance(cc) ==
    [cc EXCEPT !.cursor = IF cc.cursor + 1 >= Len(cc.addresses)
                            THEN 0 ELSE cc.cursor + 1]

\* Mutant: the wrap of the cursor dropped.
NextReadNoWrap(c) ==
    LET s == svc[c]
        cc == Lookup(s) IN
    /\ gpc[c] = "next"
    /\ IF s \notin DOMAIN cache \/ Len(cc.addresses) = 0
         THEN /\ gpc' = [gpc EXCEPT ![c] = "idle"]
              /\ ret' = [ret EXCEPT ![c] = ""]
              /\ UNCHANGED <<snap, out>>
         ELSE IF cc.cursor >= Len(cc.addresses)
         THEN /\ gpc' = [gpc EXCEPT ![c] = "idle"]
              /\ ret' = [ret EXCEPT ![c] = "panic"]
              /\ UNCHANGED <<snap, out>>
         ELSE /\ out' = [out EXCEPT ![c] = cc.addresses[cc.cursor + 1]]
              /\ snap' = [snap EXCEPT ![c] = [cc EXCEPT !.cursor = cc.cursor + 1]]
              /\ gpc' = [gpc EXCEPT ![c] = "write"]
              /\ UNCHANGED ret
    /\ UNCHANGED <<cache, svc, lastStored, banned>>

\* nextAddress, up to the lock: the unlocked map read; a missing or empty
\* entry returns "" (and GetServiceAddress returns it with a nil error);
\* otherwise out = addresses[cursor] (a cursor past the end panics) and the
\* cursor advances locally.
NextRead(c) ==
    LET s == svc[c]
        cc == Lookup(s) IN
    /\ gpc[c] = "next"
    /\ IF s \notin DOMAIN cache \/ Len(cc.addresses) = 0
         THEN /\ gpc' = [gpc EXCEPT ![c] = "idle"]
              /\ ret' = [ret EXCEPT ![c] = ""]
              /\ UNCHANGED <<snap, out>>
         ELSE IF cc.cursor >= Len(cc.addresses)
         THEN /\ gpc' = [gpc EXCEPT ![c] = "idle"]
              /\ ret' = [ret EXCEPT ![c] = "panic"]
              /\ UNCHANGED <<snap, out>>
         ELSE /\ out' = [out EXCEPT ![c] = cc.addresses[cc.cursor + 1]]
              /\ snap' = [snap EXCEPT ![c] = Advance(cc)]
              /\ gpc' = [gpc EXCEPT ![c] = "write"]
              /\ UNCHANGED ret
    /\ UNCHANGED <<cache, svc, lastStored, banned>>

\* nextAddress, under the lock: the whole local copy is written back, and
\* GetServiceAddress returns out.
NextWrite(c) ==
    /\ gpc[c] = "write"
    /\ cache' = (svc[c] :> snap[c]) @@ cache
    /\ gpc' = [gpc EXCEPT ![c] = "idle"]
    /\ ret' = [ret EXCEPT ![c] = out[c]]
    /\ UNCHANGED <<svc, snap, out, lastStored, banned>>

\* The position Reset removes: the one before the cursor, cyclically.
LastPos(cc) == IF cc.cursor - 1 < 0 THEN Len(cc.addresses) - 1 ELSE cc.cursor - 1

\* Mutant: Reset removes the address but leaves the cursor where it was.
ResetKeepCursor(c, s) ==
    LET cc == Lookup(s)
        i == LastPos(cc) IN
    /\ gpc[c] = "idle"
    /\ s \in DOMAIN cache
    /\ IF Len(cc.addresses) <= 1
         THEN /\ cache' = [x \in DOMAIN cache \ {s} |-> cache[x]]
              /\ banned' = [banned EXCEPT ![s] = @ \cup ToSet(cc.addresses)]
         ELSE /\ cache' = [cache EXCEPT ![s] = [cc EXCEPT !.addresses = RemoveAt(cc.addresses, i + 1)]]
              /\ banned' = [banned EXCEPT ![s] = @ \cup {cc.addresses[i + 1]}]
    /\ UNCHANGED <<gpc, svc, snap, out, ret, lastStored>>

\* Reset, under the lock: an entry of 0 or 1 address is deleted; otherwise
\* the address at LastPos is dropped and the cursor set to 0, creationDT
\* kept.  A missing entry is left alone (the step then changes nothing).
Reset(c, s) ==
    LET cc == Lookup(s)
        i == LastPos(cc) IN
    /\ gpc[c] = "idle"
    /\ s \in DOMAIN cache
    /\ IF Len(cc.addresses) <= 1
         THEN /\ cache' = [x \in DOMAIN cache \ {s} |-> cache[x]]
              /\ banned' = [banned EXCEPT ![s] = @ \cup ToSet(cc.addresses)]
         ELSE /\ cache' = [cache EXCEPT ![s] = [fresh |-> cc.fresh, cursor |-> 0,
                                               addresses |-> RemoveAt(cc.addresses, i + 1)]]
              /\ banned' = [banned EXCEPT ![s] = @ \cup {cc.addresses[i + 1]}]
    /\ UNCHANGED <<gpc, svc, snap, out, ret, lastStored>>

\* cacheDuration elapses since an entry's creationDT.
Age(s) ==
    /\ s \in DOMAIN cache
    /\ cache[s].fresh
    /\ cache' = [cache EXCEPT ![s].fresh = FALSE]
    /\ UNCHANGED <<gpc, svc, snap, out, ret, lastStored, banned>>

Next ==
    \/ \E c \in Clients, s \in Services : GetServiceAddress(c, s) \/ Reset(c, s)
    \/ \E c \in Clients : Refresh(c) \/ Reread(c) \/ NextRead(c) \/ NextWrite(c)
    \/ \E s \in Services : Age(s)

Spec == Init /\ [][Next]_vars

-----------------------------------------------------------------------------

\* nextAddress indexes addresses[cursor] of whatever entry it reads, so the
\* cursor of every cached entry must lie inside its list, through Reset
\* shrinking the list and concurrent write-backs of older copies.
CursorInRange ==
    \A s \in DOMAIN cache :
        cache[s].cursor < Len(cache[s].addresses) \/ cache[s].cursor = 0

\* GetServiceAddress never returns "" with a nil error: it either returns
\* an instance address or an error (getter.go: "returns the address of an
\* instance of service").
NoEmptyAddress == \A c \in Clients : ret[c] # ""

\* The cache holds only addresses of the last Consul answer that Reset has
\* not removed since: a removed address is used again only after the next
\* refresh (getter.go: Reset "forces another address to be used").
CacheHoldsOnlyCurrent ==
    \A s \in DOMAIN cache :
        ToSet(cache[s].addresses) \subseteq ToSet(lastStored[s]) \ banned[s]

=============================================================================
