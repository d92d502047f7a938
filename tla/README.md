# TLA+ models of `utils`

This directory holds TLA+ models of the Go library in `src/`. TLC checks
them. The first target is the durable retry queue, `src/queue`. The spec
(`spec.md`) calls it the core of the system, and it is the only part that
combines goroutines, timers, a shared map and a database.

## 1. Inventory

| Component | Source | State | Operations | Hard behaviour |
|---|---|---|---|---|
| Queue core | `queue/core/core.go` | list `elements`, map `removedIDs` (no lock), channel `wait` (capacity 1), channel `requests` (unbuffered), one `AfterFunc` timer per failed attempt | `New`, `PushBack`, `WakeUp`, `Run` (dispatcher loop + `qtyWorkers` workers), `process`, `Remove`, `removeByID` | dispatcher, N workers, timers and callers interleave; check-then-act across two critical sections; unsynchronised map; coalesced wake-ups |
| Durable facade | `queue/queue_mariadb.go`, `queue/queue.go` | table `queue_queue` (rows of one owner) | `NewMariaDB` (replay), `PushBack` (insert, enqueue, wake), `Remove` (core remove, delete), `Run` (handler wrapper: delete on success) | no transaction spans the DB and memory; crash at any point; store failures; delete by external ID hits duplicates; replay without `ORDER BY` |
| In-memory cache | `cache/cache_ram.go` | `map[key]*Entry` under a mutex | `SaveCache` (+ expiry `AfterFunc`), `GetCache`, `RemoveCache`, `RemoveMatchingCaches` | the expiry callback of an old save deletes a newer entry with the same key |
| Consul getter | `svcregistry/getter_consul.go` | `cachedAddresses[service] = {creationDT, cursor, addresses}` | `GetServiceAddress`, `nextAddress` (round robin), `Reset` | map read outside `cacheLock`; read-modify-write of the cursor split across lock sections; cursor/Reset arithmetic |
| Per-ID locker | `locker/lock.go` | global mutex + `map[id]*Mutex` | `Lock`, `Unlock` | mutual exclusion per id; `Unlock` of an id nobody locked |
| Worker pool, listener | `workerpool/worker_pool.go`, `listener/listener.go` | unbuffered `in` channel | `Start`, `Feed`, `AsyncFeed`, `Listen` | `AsyncFeed` drops work when every worker is busy; `Listen` calls `GiveBack` on a nil message after a non-timeout error |
| Rule processor | `ruleprocessor/*` | list of chains of conditions | `AddRule`, `Process`, `IsValid`, `IsOK` | AND/OR short-circuit via `stopOnFail` |
| Utilities | `utils/stringutils`, `utils/sliceutils` | none (pure functions) | `ParseValue`, `FormatValue`, `intPow`, `GetStringInBetween`, `ContainsStringSlice`, `ProcessSliceOperation`, `IntersectionString` | sign and zero edges, int overflow, round trip |
| Consul handler | `svcregistry/handler_consul.go`, `svcregistry/handler.go` | none (requests to the Consul agent) | `RegisterInstance`, `DeregisterInstance`, `SendHeartbeat` | check ID built as `service_instance`; interface parameter order |
| HTTP binding, JWT | `utils/httputils/http.go`, `utils/jwtutils/jwt.go` | none (pure functions of a request) | `BindHTTPRequest`, `GetJWTFromHeader`, `GetClaimFromRequest` | precedence of path variables, query and form body; exact Content-Type match; the claim argument |
| Logger | `logging/logging.go`, `logging/console_writer.go` | a zerolog context per `Logger`; `consoleBufPool` | `New`, `(*Logger).New`, `SetString`/`SetInt`/`SetFrom`/`SetThread`/`SetApp`, `Info`..`Fatal`, `ConsoleWriter.Write` | duplicate keys in the event; a short write leaving bytes in a pooled buffer |
| Crypto | `utils/cryptoutils/crypt.go` | none (pure functions) | `EncryptAES`, `DecryptAES` | key sizes; a fixed GCM nonce |
| I/O wrappers | `messenger`, `httputils` (CORS, errors, controller chain), `jwtutils`, `nextcloud`, `trackingutils`, `contextutils` | none of their own | thin calls to external clients | not model-checking material |

How the queue's parts interact: `queueMariaDB.PushBack` inserts a row, then
calls `core.PushBack` and `core.WakeUp`. The dispatcher parks on `wait`
when the list is empty. Otherwise it peeks the front, removes it by ID and
hands it to a worker over `requests`. The worker reads and clears the
`removedIDs` mark and then calls the wrapped handler. On `true` the wrapper
deletes the row. On `false`, or when that delete fails, the worker starts an
`AfterFunc`. The timer appends the request again and sends a non-blocking
wake-up, unless the captured mark said "removed". `queueMariaDB.Remove`
sets the mark, removes the first match from the list, then deletes all rows
of the ID. `NewMariaDB` replays the rows into the list before `Run`.

What makes the queue correct:
- nothing persisted is lost from memory;
- nothing in memory lacks its row, except just after a success;
- no wake-up is lost;
- every live row reaches the handler again;
- `Remove` stops further calls.

These are the properties below.

## 2. Modules and how they map to the code

- `QueueCore.tla`: the state of `core.Queue` and every core step.
  - Variables: `pending` is `elements`, `removedIDs` is the map,
    `wakeToken` is the buffer of `wait`, and `timers` holds the pending
    `AfterFunc`s with the request and `mustRemove` they captured.
  - Per goroutine: `dpc`/`dreq` for the dispatcher, and
    `wpc`/`wreq`/`wmust` for each worker.
  - Dispatcher steps: `PeekEmpty`, `PeekFront`, `RecvWake`,
    `DispatchRemove` and `DispatchSend`. They are the statements of
    `Run`'s loop.
  - Worker steps: `WorkerCheck` (the map read and delete) and
    `WorkerReturn` (f's result, with `AfterFunc`).
  - `TimerFire` is the callback.
  - `PushBack`, `WakeUp`, `MarkRemoved` and `ScanRemove` are the caller's
    operations. The composing module conjoins them into its actions.
- `DurableQueue.tla` EXTENDS `QueueCore` and adds the following:
  - the table (`store`: a row is `[id, val]`, with `val` the
    auto-increment id / payload);
  - client goroutines (`cpc`, `creq`) running `PushBack` (`insertEntry`,
    `PushEnqueue`, `PushWake`) and `Remove` (`RemoveMark`, `RemoveScan`,
    `RemoveDelete`);
  - the handler wrapper (`UserHandler`, `Cleanup`);
  - the receive on `wait` (`DispatcherWake`). A sender parked on the full
    channel completes in the same step, as Go's runtime does;
  - a crash followed by `NewMariaDB` + `Run` (`Restart`, with the rows in
    any order because `getEntriesByOwner` has no `ORDER BY`).

  Store failures are nondeterministic branches of each DB action.
  History variables (`cuts`, `waitingAtRemove`, `usedIDs`) record what
  properties need.
- `RetryQueue.tla`: what the queue promises (spec §4.1, §4.2), without
  goroutines, channels, timers or locks. A request is `stored`, then
  `pushing`, `pending` (a sequence), `inflight` or `retrying`; `cancelled`
  holds the IDs `Remove` marked. Actions: `Insert`, `Enqueue`, `Dispatch`,
  `Succeed`, `Fail`, `Retry`, `MarkCancelled`, `Discard`, `DeleteRecords`
  and `Crash` (the replay of the stored records in any order).
  `DurableQueue.tla` defines the refinement mapping `RQ == INSTANCE
  RetryQueue WITH ...`: `pushing` is the clients between insert and
  enqueue; `inflight` (`InFlightReqs`) the request the dispatcher is
  sending plus those the workers hold; `retrying` the timers not captured
  as removed; `cancelled` (`CancelMarks`) the `removedIDs` plus the marks a
  worker has read and not yet acted on. `ImplementsRetryQueue == RQ!RQSpec`.
- `MCDurableQueue.tla`: the model-checking instance. It adds `Values` and
  the symmetry of workers and clients.

Caller contract: `Busy` encodes spec §5, where `PushBack` and `Remove` of
the same ID are serialised by the caller. `UniqueIDs` additionally forbids
reusing an ID and removing an ID never pushed. The spec allows both, and
they are what the `reused_id_*` runs explore.

- `CacheRAM.tla` + `MCCacheRAM.tla`: `cacheRAM` of `cache/cache_ram.go`.
  - Variables: `data` is the map (an entry is its save number `ver`,
    `created` and `exp`, 0 meaning no expiry), `timers` the pending
    `AfterFunc`s (key, the save that started it, due time), `now` a
    discrete clock, `nSaved` the saves so far, `lastGet` the last
    `GetCache` answer.
  - Actions: `SaveCache` (the whole critical section: the expired check,
    the store and the timer), `SaveFromModel` (`cache/util.go`: an expiry
    from a model), `GetCache`, `RemoveCache`, `RemoveMatchingCaches`
    (a pattern matches the keys of `ContainsRel`), `Expire` (the callback:
    `delete(data, key)` whatever the key holds now) and `Tick`.
- `ConsulGetter.tla` + `MCConsulGetter.tla`: `consulGetter` of
  `svcregistry/getter_consul.go`, for one service and several goroutines.
  - Variables: `cache` is `cachedAddresses` (`fresh` stands for the
    creation time being within the cache duration, `cursor`, `addresses`),
    and per goroutine `gpc` (where it is), `snap` (the copy of the cache
    entry it read), `out`/`ret` (what it returns).
  - Each access to the map is its own step, because `GetServiceAddress`
    reads it without `cacheLock` and `nextAddress` splits read and
    write-back into two lock sections: `Refresh` (the Consul query and
    store, an error branch included), `Reread`, `NextRead`, `NextWrite`,
    `Reset`, and `Age` (the cache duration passing).
  - Consul answers are the address lists of `ConsulViews`.
- `IdLock.tla`: what the Locker promises, with no mutexes: a goroutine
  requests an id, acquires it only while no other goroutine holds it, and
  releases it; weak fairness on release, strong on acquire.
- `Locker.tla` + `MCLocker.tla`: `locker/lock.go`. Mutexes are numbered by
  creation; `Lock` (the `globalMutex` section that finds or creates the
  mutex), `Acquire` (`bM.Lock()` outside it), `Unlock`, `UnlockUnknown`.
- `BrokerListener.tla` + `MCBrokerListener.tla`: `listener/listener.go`
  over `workerpool` and the Pulsar reader. `avail` is the subscription's
  backlog in delivery order, `lpc` where `Listen` is, `wmsg` each worker's
  message. `Feed` is the rendezvous on the unbuffered `in` channel;
  `Received`/`GiveBack` are the worker's ack and nack (a nack puts the
  message back at the end of the backlog); `PeekError` is the branch that
  calls `GiveBack` on the nil message. Publishers run beside it:
  `PublishMessage` (`messenger/message.go` over `pulsarClient.Send`)
  appends to the backlog when the inbox's subscription exists (`sub`), and
  otherwise the message is `skipped`; `PublishFail` is any error it
  returns. `NewReaderOK` subscribes at the latest position, creating the
  subscription with nothing in it. `Init` is a new inbox, or an existing
  subscription holding some earlier messages.
- `RuleProcessor.tla` + `MCRuleProcessor.tla`: `ruleprocessor`, as pure
  operators. Go `interface{}` values are records `[t, v]`; strings are
  sequences of letters so that `ToLower` and `Contains` are computed.
  `decodeConditionsString`, `testOperatorsList`, `IsOK`, `IsValid` and
  `Process` follow the code; a rule arrives as its words (`mapKeyWords` is
  modelled apart, in `RuleWords.tla`). `Bits` scales int64 down, since TLC integers are 32 bits;
  the wrap of `int64(uint64)` is the same at every width. The state is the
  input (`rules`, `fields`, `flc`), chosen in `Init` from the MC sets. A
  reference meaning (`RefLeaf`, `WellFormed`, `RightNested`,
  `AndBeforeOr`, `RefProcess`) is written from what the operators and logic
  words say, not from the loop.
- `StringUtils.tla`, `SliceUtils.tla` + `MCUtils.tla`: `ParseValue`,
  `FormatValue` and `intPow` of `stringutils/decimal_places.go`,
  `GetStringInBetween` and `NormalizeString` of `string.go`, and
  `ContainsStringSlice`, `ProcessSliceOperation`, `IntersectionString` and
  `Unique` of `sliceutils/slice.go`,
  as operators. Strings are sequences of one-letter strings, so
  `strconv.Atoi` (sign, digits, range), `strings.Split` on ".",
  `strings.Index`, `%d` and `%0*d` are computed. Go's `int` is `Bits` bits
  wide: products and sums wrap, `/` and `%` truncate toward zero. A result
  is `[kind, v]` with kind `ok`, `err` or `panic` (negative places make
  `centsStr[0:placesToRight]` panic). `MCUtils`'s one variable `call` is
  a call chosen in `Init` among every input of bounded shape; references
  (`IsDecimal`, `Exact`, `RefBetween`, `IsSubsequence`) say what the
  result should be without following the code's loops.
  `NormalizeString` works over a small alphabet with code points: `é`
  (U+00E9) and `acute` (the combining U+0301, a `unicode.Mn` mark); `NFD`
  splits `é`, `NFC` composes it back, and `KeptByRegexp` is the complement
  of the class `[^0-9A-za-z \\/ \\s]` as RE2 reads the raw string.
- `RuleWords.tla`: `mapKeyWords` of `ruleprocessor/decoder.go`.
  `strings.FieldsFunc` is a fold over the characters whose state is the
  closure's `quoted` flag, the fields so far and the field being read; the
  flag toggles on a quote mark before the space test, and empty fields are
  dropped. `MCUtils` joins 0-3 words (letters, quote marks, quoted spaces)
  with runs of 1-2 spaces and an optional leading space.
- `ConsulHandler.tla`: `consulHandler` of `svcregistry/handler_consul.go`
  by the requests it sends: `RegisterInstance` gives the registration with
  its TTL check (`CheckID` is `serviceName + "_" + instanceID`, deregister
  after 100 TTLs) or none for a zero interval, `DeregisterInstance` the
  service ID and `SendHeartbeat` the check ID. `HandlerRegisterInstance`
  and `HandlerSendHeartbeat` are calls through the `Handler` interface of
  `handler.go`, bound by position. Names are one or two of `a` and `_`.
  Both of its questions are violations: check IDs collide
  (`CheckIDsDistinct`), and the interface's parameter order differs from
  the implementation's (`HandlerRegistersInstanceID`).
- `HttpUtils.tla`: `BindHTTPRequest` of `utils/httputils/http.go`. A DTO
  is a function from some of its fields to values; decoding into it
  (`schema` for the query, `json.Unmarshal` in `ToObject`) overwrites the
  fields it carries, which is `@@` with the decoded object on the left. The
  bytes given to `ToObject` are a JSON object, none, or not JSON. `Content`
  follows the method and `Content-Type` switch; `FormContent` is the loop
  over `r.Form`, whose values list the body's before the query's.
  `GetJWTFromHeader` and `GetClaimFromRequest` (`jwtutils/jwt.go`) split
  the header with a computed `strings.Split`; `ParseUnverified` is a
  parameter `Claims` mapping a token to its claims. `MCUtils` enumerates
  requests of every method with 0-2 of two fields in path variables, query,
  JSON body or a form of up to two pairs, and headers of up to 3 characters.
  `ToObject` is `dto.JSON.ToObject` (`dto/json.go`).
- `Logging.tla`: the logger of `logging/logging.go` and its
  `ConsoleWriter`. A zerolog context is the sequence of fields appended by
  `With().Str/Int`; a field set again (a child's `logger_name`, a second
  `SetFrom`) is appended again, not replaced. `LogEvent` is the event
  zerolog writes: the level, the context, the timestamp, the message.
  `Unmarshal` is `json.Unmarshal` into a map, where a later duplicate key
  wins; `Line` is the six printed fields and the newline (colours are
  layout and left out). `ConsoleWrite` is `Write` on one goroutine: `Get`
  returns the pooled buffer, or a new one when a GC emptied the pool;
  `Fprintf` appends the line; `WriteTo` sends the prefix `Out` accepts and
  drops it from the buffer; `Put` returns the buffer with what is left.
  Whether a GC happened and how many bytes `Out` takes are inputs of each
  call. `WriteAll` folds a sequence of calls, stopping after a `Fatal`
  (`os.Exit`). `MCUtils` builds chains of a root `New` and up to three of
  child `New`, `SetFrom`, `SetThread` and `SetInt`, for every level and
  with or without a package prefix in the caller's name. It also writes
  sequences of up to three events (info, fatal, not JSON) with `Out`
  taking 0, 3 or all 7 bytes of a line.
- `CryptoUtils.tla`: `EncryptAES` and `DecryptAES` of
  `utils/cryptoutils/crypt.go`. AES-GCM is abstracted to its contract:
  `Seal`'s output opens only with the same key and nonce, and it carries
  its nonce. Base64 is a wrapping that `DecodeString` undoes and other
  text fails. A key is its identity and length (16, 32, or 5 bytes in
  `MCUtils`). The one question it asks is whether nonces repeat under
  one key (`NoncesNotReused`, a further violation). With GCM abstracted,
  a round trip would hold by definition, so none is checked.

## 3. Runs

| Run | cfg | Expect | Shows |
|---|---|---|---|
| durable_safety | `MCDurableQueue.cfg` | pass | `PersistedIsTracked`, `TrackedIsPersisted`, `NoLostWakeup` with 2 workers, 2 clients, 3 pushes, 2 removes, 1 crash, store failures (~0.9M states) |
| durable_refinement | `MCDurableQueueRefine.cfg` | pass | with no `Remove`, the queue implements `RetryQueue` (`ImplementsRetryQueue`, fairness included), and every live row reaches the handler again (`PersistedReachesHandler`); 2 ids, 2 workers, 2 clients, 2 pushes, 2 crashes, store failures, no symmetry |
| remove_refinement | `MCDurableQueueRefineRemove.cfg` | violation | with one `Remove`, `ImplementsRetryQueue` fails at the peek/removeByID race (`core.go:102`): the dispatcher sends a request `Remove` already took out of the list, a step the abstract queue has no counterpart for |
| reused_id_lost | `MCDurableQueueReusePersistedIsTracked.cfg` | violation | a stale `removedIDs` mark drops the next request of that ID |
| cache_expiry | `MCCacheRAM.cfg` | pass | an expiring entry always has its timer, and is evicted once expired (2 keys, 3 time units, 3 saves) |
| cache_early_eviction | `MCCacheRAMNoEarlyEviction.cfg` | violation | the timer of an older save deletes a newer, unexpired entry of the same key |
| getter_cursor | `MCConsulGetter.cfg` | pass | the cursor stays within the address list across concurrent `nextAddress`, `Reset` and refreshes (2 goroutines, 3 addresses) |
| getter_stale_writeback | `MCConsulGetterCacheHoldsOnlyCurrent.cfg` | violation | `nextAddress` writes back a stale copy, bringing a reset address back |
| locker | `MCLocker.cfg` | pass | mutual exclusion per id, and `Locker` implements the abstract per-id lock `IdLock` under the mapping `state <- pc, want <- cid`, its fairness included, so every blocked `Lock` eventually holds it (3 goroutines, 2 ids) |
| listener_delivery | `MCBrokerListener.cfg` | pass | with publishers interleaved, no message is lost or duplicated on its way (each in exactly one place); every backlog message reaches a worker (3 messages, 2 workers, new or existing inbox) |
| utils | `MCUtils.cfg` | pass | over an 8-bit int: `FormatValue` then `ParseValue` gives the value back for places 0..2; `ParseValue` of every decimal of up to 3+2 digits with any sign is its truncated value whenever that fits; `IntersectionString` of 1-3 slices is the common strings in first-slice order; removing appended values undoes the append; `mapKeyWords` gives back the words it was joined from (`KeyWordsRoundTrip`); `BindHTTPRequest` binds what a request carries whenever it accepts it, path variables over the query for GET and DELETE (`BindIsRequestContent`); `NormalizeString` turns every accented e into an e (`NormalizeFoldsAccents`); `Unique` keeps each string once, ordered by its first occurrence, so that a last-occurrence `Unique` fails (`UniqueIsFirstOccurrences`); the console line of a logger chain shows the from, thread and logger name set last (`LineShowsLastSetFields`); whatever `Out` accepts and the pool loses, the console output is the lines in order with bytes left out, never repeated (`ConsoleOutIsSubsequence`) (32,987 inputs) |
| rules | `MCRuleProcessor.cfg` | pass | every rule of 1-2 conditions over all operators, value kinds and 6 contents, and every chain of up to 3 and/or conditions (1-2 chains, missing fields), means the right-nested reading of its logic words; exactly the malformed rules are fatal (186,032 inputs) |

Further violations. These cfgs check one property each, which TLC finds
violated; they are kept beside the runs above as reproductions:

| cfg | Property | What the counterexample shows |
|---|---|---|
| `MCDurableQueueRemove.cfg` | `NoCallAfterRemove` | the peek/removeByID race in the detailed model: a removed request is still handled (`core.go:102`) |
| `MCDurableQueueRetry.cfg` | `RetryHonoursRemove` | a retry already waiting captured `mustRemove` before a `Remove` and re-queues the request anyway (`core.go:135`) |
| `MCDurableQueueReuseTrackedIsPersisted.cfg` | `TrackedIsPersisted` | `removeEntryByExternalID` deletes the row of a queued duplicate when another request of the same ID succeeds (`queue_mariadb.go:160`) |
| `MCCacheRAMGetNeverReturnsExpired.cfg` | `GetNeverReturnsExpired` | `GetCache` returns an entry past its expiry before its timer has run (`cache_ram.go:98`) |
| `MCConsulGetterNoEmptyAddress.cfg` | `NoEmptyAddress` | `GetServiceAddress` returns `("", nil)` when another goroutine's `Reset` emptied the entry between its check and `nextAddress` (`getter_consul.go:140`) |
| `MCBrokerListenerSkipped.cfg` | `NoMessageSkipped` | on a new inbox, a message published while `Listen` is still in `NewReader` is never delivered: `Listen` subscribes at the latest position (`listener.go:44`) |
| `MCBrokerListenerPanic.cfg` | `ListenerSurvivesErrors` | a non-timeout `Peek` error makes `Listen` call `GiveBack` on the nil message and panic (`listener.go:70`) |
| `MCRuleProcessorPrecedence.cfg` | `ProcessMatchesPrecedence` | `k1 == true and k1 == true or k2 == true` with only `k2` true is false: a logic word joins its condition to the whole rest of the rule, not AND before OR (`decoder.go:65`) |
| `MCUtilsContainsIsSubset.cfg` | `ContainsIsSubset` | `ContainsStringSlice([x], [x, x])` is false: the length shortcut ignores duplicates (`slice.go:38`) |
| `MCUtilsBetweenIsNextOccurrence.cfg` | `BetweenIsNextOccurrence` | `GetStringInBetween("axax", "ax", "x")` is "" instead of "a": b is searched from the start, not after a (`string.go:31`) |
| `MCUtilsParseValueNoSilentOverflow.cfg` | `ParseValueNoSilentOverflow` | `ParseValue("19", 1)` returns -66 with no error in an 8-bit int: the product wraps (`decimal_places.go:65`) |
| `MCUtilsParseValueRejectsMalformed.cfg` | `ParseValueRejectsMalformed` | `ParseValue("1.-5", 0)` returns 1 with no error; with 2 places it is 95: `Atoi` accepts a sign in the cents (`decimal_places.go:55`) |
| `MCUtilsCheckIDsDistinct.cfg` | `CheckIDsDistinct` | service `a`, instance `_a` and service `a_`, instance `a` both get check ID `a__a`: one heartbeat keeps both alive (`handler_consul.go:76`) |
| `MCUtilsHandlerRegistersInstanceID.cfg` | `HandlerRegistersInstanceID` | a caller following the `Handler` interface's `(instanceID, serviceName)` order registers the instance ID as the service name: `consulHandler` takes `(serviceName, instanceID)` (`handler.go:13`) |
| `MCUtilsFormBodyOverQuery.cfg` | `FormBodyOverQuery` | a urlencoded `PUT` with body `a=1` to a URL with `?a=2` binds `a = 2`: the loop keeps the last of `r.Form["a"]`, the query's (`http.go:73`) |
| `MCUtilsBindAcceptsJSONCharset.cfg` | `BindAcceptsJSONCharset` | `Content-Type: application/json; charset=utf-8` leaves the content empty and the bind fails: the switch compares the whole header (`http.go:67`) |
| `MCUtilsClaimIsRequested.cfg` | `ClaimIsRequested` | `GetClaimFromRequest(r, "sub")` returns the `user_id` claim: the `claim` argument is never used; a numeric `user_id` panics at `userID.(string)` (`jwt.go:68`) |
| `MCUtilsNormalizeKeepsOnlyLettersDigits.cfg` | `NormalizeKeepsOnlyLettersDigits` | `NormalizeString("_")` is `"_"`: the range `A-z` also keeps `[ \ ] ^ _` and the backtick; and in the raw string `\\s` is a backslash and an `s`, so tabs are removed, not kept (`string.go:80`) |
| `MCUtilsConsoleWriteSendsOwnLine.cfg` | `ConsoleWriteSendsOwnLine` | a `Write` whose `Out` takes 0 bytes puts its buffer back full and reports success; the next `Write` sends the earlier line before its own (`console_writer.go:76`) |
| `MCUtilsNoncesNotReused.cfg` | `NoncesNotReused` | two `EncryptAES` calls under one key seal with the same all-`x` nonce, which GCM forbids (`crypt.go:33`) |
| `MCDurableQueueReplayOrder.cfg` | `ReplayOldestFirst` | after a crash with rows 1 and 2 stored, the replay may queue row 2 before row 1: `getEntriesByOwner` has no `ORDER BY`, while the spec promises oldest first (`queue_mariadb.go:249`) |
| `MCRuleProcessorNumeric.cfg` | `NumericComparisonsAreNumeric` | a uint64 field of 2^63 compares below 0, since `asInt64` wraps it (`types.go:44`); a float64 field never compares equal to an integer |

Why these bounds are enough:
- Two workers make parallel handler calls and a retry racing a dispatch
  possible.
- Two clients make a `Remove` concurrent with dispatch and retries
  possible.
- Three pushes allow a request to be in each of the list, a worker and a
  timer at once.
- One crash reaches every "crash between two steps" window, because a crash
  is enabled in every state.
- Every violation above is found within 15 steps.

Fairness: weak fairness for the following:
- the dispatcher;
- each worker's steps and each handler call;
- each pending timer callback;
- the continuation of a started client call.

Goroutines are preemptively scheduled by the Go runtime, and `AfterFunc`
callbacks run when due, which justifies this. Starting new calls, crashes
and handler results carry no fairness: they are the environment.

Bounds and fairness of the other components:
- Cache: 3 time units and 3 saves let a key be saved, re-saved with
  another expiry and its old timer fire; expiry durations 0 and 1 give
  both "never" and "soon". Fairness: the clock advances and a due timer
  fires (`AfterFunc` runs its callback). `GetCache`, saves and removes are
  the environment.
- Getter: two goroutines suffice for every race between a read outside the
  lock and a write inside it; three addresses make `Reset` of a middle
  address and the cursor wrap possible. No fairness: only safety is
  checked.
- Locker: 3 goroutines on 2 ids give two waiters on one mutex. Fairness:
  strong on `Acquire`, because `sync.Mutex` switches to starvation mode
  and hands the mutex to a waiter after 1ms; weak on `Unlock`, the
  caller's contract.
- Listener: 3 messages and 2 workers fill the pool while a message is
  pending. Fairness: weak on `Listen`'s peek and feed and on each worker
  finishing its message; the broker's errors, publishing and the worker's
  verdict are free.
- Refinement: 2 ids and 2 pushes keep the liveness check under a minute;
  2 crashes reach a crash during a replay. The abstract fairness (enqueue,
  dispatch, a call returning, a retry firing) follows from the weak
  fairness of the goroutines and timers above.
- Utilities: `Bits` = 8 makes 10^3 overflow, as 10^19 does on 64 bits, and
  puts in-range and wrapping results side by side; decimals of up to three
  integer and two decimal digits with places 0..3 cover cutting, padding,
  a zero integer part with a sign, and `Atoi`'s range error. Every input is
  an initial state, so the check is exhaustive over them. Logger chains
  of three steps set a field twice and nest two children; three console
  writes let a leftover from a short write reach a later call, with and
  without a GC in between.
- Rule processor: every input of the stated shapes is an initial state,
  so the check is exhaustive over them. Two conditions already mix and/or;
  three are needed for precedence to matter.

## 4. Not modelled (yet)

- Real time: a timer may fire at any later point. Equal periods would
  roughly order callbacks, but goroutine scheduling gives no guarantee.
- Payload content: the payload is the push number. The queue's log calls are left out.
- The configuration errors of `NewMariaDB`/`Run`, and the `List` stub.
- A handler that re-enters `PushBack` (see hazards).
- `AsyncFeed` and the pool's `Stop`; the messenger's `Get` (no caller;
  a message it cannot decode is neither acked nor nacked) and `Close`.
- `ruleprocessor/config.go` (reading rules from a map); a condition
  string ending in a logic word (accepted, its last test taking the
  trailing `stopOnFail`, `decoder.go:50`); the decoder fed by `mapKeyWords` rather
  than by words (the two are checked apart).
- In the utilities: `Hash`
  (SHA-256), the `Random*` functions (math/rand; `RandomNumbersString`
  slices a 190-character string and panics beyond), `IsEmptyString`,
  `ImplodeInt`/`ImplodeString`, and `ToStringSlice` (formatting
  and plain copies). Slices are values: `append` writing into the backing
  array of its argument is not represented. `FormatValue` with negative
  places (a negative `%0*d` width) is not among the inputs.
- `NewConsulHandler` (address checks and `api.NewClient`), the TTL as a
  `Duration.String()`, and what the Consul agent does with a request.
- In `httputils` and `jwtutils`: `AuthenticateJWT` (the jwt library's
  signature check), `SetupCorsResponse` and `WriteHTTPError` (fixed
  headers, a JSON write), `SetTrackingIDFromHeader` and the
  `BaseController` chain. Query values of the wrong type for the DTO
  (which the discarded `schema` error would hide) are not among the inputs.
- In the logger: concurrent `Write` calls sharing `consoleBufPool` (one
  goroutine is enough for a leftover to leak; more only add
  interleavings), colours, `needsQuote` (never called), and the two
  timestamp hooks (`log.Logger`'s and `New`'s) folded into one field.
  `HMAC` is one call to `crypto/hmac` with nothing to check.
- The tracking number and the context helpers: `TrackingNumber.Next` is one
  atomic add, formatted with the clock, so its numbers are distinct by the
  atomic add alone. `GetContextValue` and `SetContextValue` wrap
  `context.Value`/`WithValue`. The Nextcloud OCS
  client (`nextcloud/handler_ocs.go`) keeps no state: what a lost response
  or a retried `RegisterUser` does is the server's. Two observations
  from reading it are not checked. `RemoveUser` concatenates `userID`
  into the URL unescaped, so an id holding `?` or `/` addresses another
  resource. A `RegisterUser` whose response is lost returns `ErrInternal`
  though the user was created.

## 5. Plan

1. Done: `QueueCore`, `DurableQueue`, `CacheRAM`, `ConsulGetter`,
   `Locker` with its `IdLock` refinement, `BrokerListener`, `RuleProcessor`, the `RetryQueue`
   refinement, the string and slice utilities, `mapKeyWords`, the
   Consul handler's requests, the HTTP binding, the logger with its
   console writer, the AES helpers, and the replay-order check.
2. Concurrent `ConsoleWriter.Write` calls over a shared pool.
3. The worker pool on its own: `AsyncFeed` drops work only when no worker
   is idle; `Stop` against a blocked `Feed`.
4. An abstract cache (a key maps to its last unexpired save) refined by
   `CacheRAM` where the early-eviction race is excluded.
5. The decoder fed by `mapKeyWords`, reaching the lone-quote slice panic
   (`decoder.go:79`).
