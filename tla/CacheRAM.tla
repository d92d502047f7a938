------------------------------- MODULE CacheRAM -------------------------------
(***************************************************************************)
(* The in-memory cache of src/cache/cache_ram.go with the helper           *)
(* SaveFromModel of src/cache/util.go.                                     *)
(*                                                                         *)
(* h.data maps a key to the *Entry last saved under it; every operation    *)
(* holds h.lock, so each is one step.  A save with a non-zero expiration   *)
(* starts an AfterFunc whose callback deletes h.data[entry.Key] when it    *)
(* runs, whatever entry the key holds by then.                             *)
(*                                                                         *)
(* Time is a discrete clock `now' in 1..MaxTime; the zero time.Time is     *)
(* NoExp = 0, which lies before every clock value.  A callback runs at any *)
(* step once its due time is reached: Go never runs a timer early, and the *)
(* callback's goroutine competes for h.lock with every other caller.       *)
(* An entry's Data is abstracted to the number of the save that made it.   *)
(***************************************************************************)
EXTENDS Naturals, FiniteSets, Functions, TLC

CONSTANTS
    Keys,         \* cache keys used by the callers
    Patterns,     \* matchKey arguments of RemoveMatchingCaches
    ContainsRel,  \* <<k, p>> \in ContainsRel iff strings.Contains(k, p)
    MaxAges,      \* maxAge arguments of GetCache, in clock ticks (0: none)
    MaxTime,      \* last clock value
    MaxSave       \* number of SaveCache calls

ASSUME ContainsRel \subseteq Keys \X Patterns /\ MaxTime \in Nat \ {0}

Time == 1..MaxTime
NoExp == 0

\* Entry of cache.go: Data is the save number; Key is the map key.
Entry == [ver : 1..MaxSave, created : Time, exp : {NoExp} \cup Time]

VARIABLES
    data,     \* h.data
    timers,   \* AfterFunc callbacks not yet run: [key, ver, due]
    now,      \* time.Now()
    nSaved,   \* number of SaveCache calls so far
    lastGet   \* the last GetCache call: key, result, entry and time

vars == <<data, timers, now, nSaved, lastGet>>

NoEntry == [ver |-> 0, created |-> 0, exp |-> NoExp]
GetResult == [key : Keys, res : {"hit", "notFound", "tooOld"},
              entry : Entry \cup {NoEntry}, at : Time]

Expired(e) == e.exp # NoExp /\ e.exp < now

TypeOK ==
    /\ DOMAIN data \subseteq Keys
    /\ \A k \in DOMAIN data : data[k] \in Entry
    /\ timers \subseteq [key : Keys, ver : 1..MaxSave, due : Time]
    /\ now \in Time
    /\ nSaved \in 0..MaxSave
    /\ lastGet \in GetResult \cup {NoEntry}
    \* no entry was stored already expired when it was created
    /\ \A k \in DOMAIN data : data[k].exp = NoExp \/ data[k].created <= data[k].exp

\* NewCacheRAM.
Init ==
    /\ data = [k \in {} |-> NoEntry]
    /\ timers = {}
    /\ now = 1
    /\ nSaved = 0
    /\ lastGet = NoEntry

\* The clock advances.
Tick ==
    /\ now < MaxTime
    /\ now' = now + 1
    /\ UNCHANGED <<data, timers, nSaved, lastGet>>

\* Mutant: the AfterFunc of an expiring entry is never started.
SaveCacheNoTimer(e, k) ==
    /\ ~Expired(e)
    /\ data' = (k :> e) @@ data
    /\ UNCHANGED timers

\* Mutant: the early return for an already expired entry dropped.
SaveCacheNoExpiryCheck(e, k) ==
    /\ data' = (k :> e) @@ data
    /\ timers' = IF e.exp = NoExp THEN timers
                 ELSE timers \cup {[key |-> k, ver |-> e.ver, due |-> e.exp]}

\* SaveCache(entry): an entry already expired is dropped with a nil error
\* (and the old entry of the key is kept); otherwise it replaces the key's
\* entry and, if it expires, an AfterFunc is started that is due at its
\* expiration (time.Until).
SaveCache(e, k) ==
    /\ ~Expired(e)
    /\ data' = (k :> e) @@ data
    /\ timers' = IF e.exp = NoExp THEN timers
                 ELSE timers \cup {[key |-> k, ver |-> e.ver, due |-> e.exp]}

\* SaveFromModel(key, expDT, data): encodes, stamps CreationDateTime with
\* time.Now() and calls SaveCache.  An expired entry ends the call too.
SaveFromModel(k, exp) ==
    LET e == [ver |-> nSaved + 1, created |-> now, exp |-> exp]
    IN  /\ nSaved < MaxSave
        /\ nSaved' = nSaved + 1
        /\ \/ SaveCache(e, k)
           \/ Expired(e) /\ UNCHANGED <<data, timers>>
        /\ UNCHANGED <<now, lastGet>>

\* GetCache(key, maxAge): not found; older than maxAge (maxAge > 0 and
\* time.Since(CreationDateTime) > maxAge); or the entry, whatever its
\* expiration.
GetCache(k, maxAge) ==
    /\ lastGet' =
         IF k \notin DOMAIN data
           THEN [key |-> k, res |-> "notFound", entry |-> NoEntry, at |-> now]
         ELSE IF maxAge > 0 /\ now - data[k].created > maxAge
           THEN [key |-> k, res |-> "tooOld", entry |-> NoEntry, at |-> now]
         ELSE [key |-> k, res |-> "hit", entry |-> data[k], at |-> now]
    /\ UNCHANGED <<data, timers, now, nSaved>>

\* RemoveCache(key): delete if present.
RemoveCache(k) ==
    /\ data' = Restrict(data, DOMAIN data \ {k})
    /\ UNCHANGED <<timers, now, nSaved, lastGet>>

\* RemoveMatchingCaches(matchKey): delete every key containing matchKey.
RemoveMatchingCaches(p) ==
    /\ data' = Restrict(data, {k \in DOMAIN data : <<k, p>> \notin ContainsRel})
    /\ UNCHANGED <<timers, now, nSaved, lastGet>>

\* The AfterFunc callback of a save: delete(h.data, entry.Key).
Expire(t) ==
    /\ t \in timers
    /\ t.due <= now
    /\ timers' = timers \ {t}
    /\ data' = Restrict(data, DOMAIN data \ {t.key})
    /\ UNCHANGED <<now, nSaved, lastGet>>

\* Every call made and the clock at its end: nothing is left to happen.
Quiescent ==
    /\ nSaved = MaxSave /\ now = MaxTime /\ timers = {}
    /\ UNCHANGED vars

Next ==
    \/ Tick
    \/ \E k \in Keys, exp \in {NoExp} \cup Time : SaveFromModel(k, exp)
    \/ \E k \in Keys, m \in MaxAges : GetCache(k, m)
    \/ \E k \in Keys : RemoveCache(k)
    \/ \E p \in Patterns : RemoveMatchingCaches(p)
    \/ \E t \in timers : Expire(t)
    \/ Quiescent

\* The clock keeps running and a due callback eventually gets h.lock.
Fairness ==
    /\ WF_vars(Tick)
    /\ \A t \in [key : Keys, ver : 1..MaxSave, due : Time] : WF_vars(Expire(t))

Spec == Init /\ [][Next]_vars /\ Fairness

-----------------------------------------------------------------------------

\* An entry saved with an expiration always has a pending callback due no
\* later than it: SaveCache's AfterFunc is what removes expiring entries.
ExpiringEntryHasTimer ==
    \A k \in DOMAIN data :
        data[k].exp # NoExp =>
            \E t \in timers : t.key = k /\ t.due <= data[k].exp

\* Every entry saved with an expiration is eventually gone from h.data, or
\* replaced by a later save of its key.
ExpiredEventuallyEvicted ==
    \A k \in Keys, v \in 1..MaxSave :
        (k \in DOMAIN data /\ data[k].ver = v /\ data[k].exp # NoExp)
            ~> (k \notin DOMAIN data \/ data[k].ver # v)

\* The expiry callback of a save never deletes an entry that has not reached
\* its own expiration (cache.go: "if zero, no expiration"); the callback of
\* SaveCache deletes h.data[entry.Key] whichever entry it holds.
NoEarlyEviction ==
    [][\A t \in timers :
          (t \notin timers' /\ t.key \in DOMAIN data)
             => (data[t.key].exp # NoExp /\ data[t.key].exp <= now)]_vars

\* GetCache never hands out an entry past its expiration: it relies on the
\* callback alone and does not look at ExpirationDateTime.
GetNeverReturnsExpired ==
    lastGet # NoEntry /\ lastGet.res = "hit" =>
        ~(lastGet.entry.exp # NoExp /\ lastGet.entry.exp < lastGet.at)

=============================================================================
