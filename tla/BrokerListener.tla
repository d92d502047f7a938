---------------------------- MODULE BrokerListener ----------------------------
(***************************************************************************)
(* BrokerListener.Listen (src/listener/listener.go) on top of the worker   *)
(* pool (src/workerpool/worker_pool.go) and the Pulsar reader of           *)
(* src/messenger/client.go.                                                *)
(*                                                                         *)
(* Listen retries NewReader until it succeeds, starts the pool, then loops *)
(* on reader.Peek: a message is fed to the pool by a blocking send on the  *)
(* unbuffered channel wp.in (a rendezvous with an idle worker); a timeout  *)
(* loops; any other error calls GiveBack on the message Peek returned,     *)
(* which is nil.  A worker (the WorkerFunc, user code) acknowledges its    *)
(* message with Received or hands it back with GiveBack, after which the   *)
(* broker redelivers it.  Messages are model values; the subscription's    *)
(* backlog is `avail', delivered in order; a nacked message is delivered   *)
(* again after the ones already waiting.                                  *)
(*                                                                         *)
(* Messages reach the topic through PublishMessage (messenger/message.go)  *)
(* and pulsarClient.Send, interleaved with Listen.  Listen subscribes with *)
(* ignorePreviousMessages = true, SubscriptionPositionLatest: a            *)
(* subscription Listen creates starts at the end of the topic, while one   *)
(* that already exists (a restarted service) keeps its backlog.  A message *)
(* published while the inbox has no subscription is not in its backlog.   *)
(***************************************************************************)
EXTENDS Naturals, FiniteSets, Sequences, SequencesExt

CONSTANTS
    Msgs,      \* messages published on the topic
    Workers,   \* the numOfWorkers goroutines of the pool
    NoMsg      \* a nil Message

ASSUME NoMsg \notin Msgs

VARIABLES
    avail,     \* the subscription's backlog, in delivery order
    unsent,    \* messages not yet published
    failed,    \* messages whose PublishMessage returned an error
    skipped,   \* messages published while the inbox had no subscription
    sub,       \* whether the inbox's subscription exists at the broker
    acked,     \* messages acknowledged with Received
    lpc,       \* where Listen is: "connect", "peek", "feed", "panicked"
    lmsg,      \* brokerMsg held by Listen
    wmsg       \* the message each worker is processing (NoMsg: receiving)

vars == <<unsent, failed, skipped, sub, avail, acked, lpc, lmsg, wmsg>>
pubVars == <<unsent, failed, skipped, sub>>

\* Where a message may be: with the broker, with Listen, with a worker, or
\* acknowledged; every message is in exactly one place.
Places(m) ==
    LET at == [unsent |-> m \in unsent, failed |-> m \in failed, skipped |-> m \in skipped,
               broker |-> m \in ToSet(avail), listener |-> lmsg = m, acked |-> m \in acked,
               worker |-> \E w \in Workers : wmsg[w] = m]
    IN  {p \in DOMAIN at : at[p]}

TypeOK ==
    /\ avail \in Seq(Msgs)
    /\ unsent \cup failed \cup skipped \cup acked \subseteq Msgs
    /\ sub \in BOOLEAN
    /\ lpc \in {"connect", "peek", "feed", "panicked"}
    /\ lmsg \in Msgs \cup {NoMsg}
    /\ wmsg \in [Workers -> Msgs \cup {NoMsg}]
    /\ (lpc = "feed") = (lmsg # NoMsg)
    \* a message is never lost nor duplicated on its way
    /\ \A m \in Msgs :
          /\ Cardinality({i \in DOMAIN avail : avail[i] = m}) <= 1
          /\ Cardinality({w \in Workers : wmsg[w] = m}) <= 1
          /\ Cardinality(Places(m)) = 1

\* Listen is about to call NewReader.  Either the inbox is new, or its
\* subscription exists and holds a backlog of earlier messages.
Init ==
    /\ sub \in BOOLEAN
    /\ \E backlog \in IF sub THEN SUBSET Msgs ELSE {{}} :
          /\ avail \in SetToSeqs(backlog)
          /\ unsent = Msgs \ backlog
    /\ failed = {}
    /\ skipped = {}
    /\ acked = {}
    /\ lpc = "connect"
    /\ lmsg = NoMsg
    /\ wmsg = [w \in Workers |-> NoMsg]

\* PublishMessage(log, ctx, client, origin, topic, m) succeeds: Send
\* creates a producer, encodes and sends; the broker appends the message
\* to the backlog of every subscription of the topic.
PublishMessage(m) ==
    /\ m \in unsent
    /\ unsent' = unsent \ {m}
    /\ IF sub THEN /\ avail' = Append(avail, m)
                  /\ UNCHANGED skipped
             ELSE /\ skipped' = skipped \cup {m}
                  /\ UNCHANGED avail
    /\ UNCHANGED <<failed, sub, acked, lpc, lmsg, wmsg>>

\* PublishMessage returns an error: nil data or an empty topic, or Send
\* failing to create the producer, to encode or to publish.
PublishFail(m) ==
    /\ m \in unsent
    /\ unsent' = unsent \ {m}
    /\ failed' = failed \cup {m}
    /\ UNCHANGED <<skipped, sub, avail, acked, lpc, lmsg, wmsg>>

\* NewReader fails: log, sleep 5s, try again.
NewReaderFail ==
    /\ lpc = "connect"
    /\ UNCHANGED vars

\* NewReader succeeds, subscribing at the latest position (creating the
\* subscription with an empty backlog if there was none); workerpool.New
\* + Start: every worker receiving.
NewReaderOK ==
    /\ lpc = "connect"
    /\ lpc' = "peek"
    /\ sub' = TRUE
    /\ UNCHANGED <<unsent, failed, skipped, avail, acked, lmsg, wmsg>>

\* Peek returns a message (consumer.Receive); it stays unacknowledged.
PeekMessage ==
    /\ lpc = "peek"
    /\ avail # <<>>
    /\ avail' = Tail(avail)
    /\ lmsg' = Head(avail)
    /\ lpc' = "feed"
    /\ UNCHANGED <<pubVars, acked, wmsg>>

\* Peek times out (ctx.Err() != nil): nothing was available; continue.
PeekTimeout ==
    /\ lpc = "peek"
    /\ avail = <<>>
    /\ UNCHANGED vars

\* Peek fails otherwise and returns (nil, err); Listen calls GiveBack on
\* the nil Message: a nil-pointer panic ends the listening goroutine.
PeekError ==
    /\ lpc = "peek"
    /\ lpc' = "panicked"
    /\ UNCHANGED <<pubVars, avail, acked, lmsg, wmsg>>

\* Mutant: the message is offered with AsyncFeed and its result ignored.
FeedAsync(w) ==
    /\ lpc = "feed"
    /\ \/ /\ wmsg[w] = NoMsg
          /\ wmsg' = [wmsg EXCEPT ![w] = lmsg]
       \/ /\ \A v \in Workers : wmsg[v] # NoMsg
          /\ UNCHANGED wmsg
    /\ lpc' = "peek"
    /\ lmsg' = NoMsg
    /\ UNCHANGED <<pubVars, avail, acked>>

\* wp.Feed(brokerMsg): blocking send on wp.in, received by an idle worker.
Feed(w) ==
    /\ lpc = "feed"
    /\ wmsg[w] = NoMsg
    /\ wmsg' = [wmsg EXCEPT ![w] = lmsg]
    /\ lpc' = "peek"
    /\ lmsg' = NoMsg
    /\ UNCHANGED <<pubVars, avail, acked>>

\* The worker calls Received: consumer.Ack.
Received(w) ==
    /\ wmsg[w] # NoMsg
    /\ acked' = acked \cup {wmsg[w]}
    /\ wmsg' = [wmsg EXCEPT ![w] = NoMsg]
    /\ UNCHANGED <<pubVars, avail, lpc, lmsg>>

\* The worker calls GiveBack: consumer.Nack; the broker redelivers after
\* NackRedeliveryDelay.
GiveBack(w) ==
    /\ wmsg[w] # NoMsg
    /\ avail' = Append(avail, wmsg[w])
    /\ wmsg' = [wmsg EXCEPT ![w] = NoMsg]
    /\ UNCHANGED <<pubVars, acked, lpc, lmsg>>

\* The panic is not recovered: the process has exited.
Crashed ==
    /\ lpc = "panicked"
    /\ UNCHANGED vars

Next ==
    \/ \E m \in Msgs : PublishMessage(m) \/ PublishFail(m)
    \/ NewReaderFail \/ NewReaderOK
    \/ PeekMessage \/ PeekTimeout \/ PeekError
    \/ \E w \in Workers : Feed(w) \/ Received(w) \/ GiveBack(w)
    \/ Crashed

\* Listen's goroutine runs (Receive returns a message that is available,
\* Feed completes with a free worker) and each worker finishes the message
\* it holds.  Reaching the broker, broker errors and the WorkerFunc's
\* verdict (ack or nack) are not constrained.
Fairness ==
    /\ WF_vars(PeekMessage)
    /\ WF_vars(\E w \in Workers : Feed(w))
    /\ \A w \in Workers : WF_vars(Received(w) \/ GiveBack(w))

Spec == Init /\ [][Next]_vars /\ Fairness

-----------------------------------------------------------------------------

\* Once Listen is subscribed, every message waiting in the subscription is
\* eventually handed to a worker, unless Listen has died: Peek does not
\* time out while a message is available and Feed waits for a free worker.
BacklogReachesWorker ==
    \A m \in Msgs :
        (lpc # "connect" /\ m \in ToSet(avail))
            ~> (\E w \in Workers : wmsg[w] = m) \/ lpc = "panicked"

\* Every message PublishMessage reports as published is in the inbox's
\* backlog, with Listen, with a worker or acknowledged: none is missed
\* because Listen subscribed at the latest position after it was sent.
NoMessageSkipped == skipped = {}

\* Listen never stops listening: a broker error other than a timeout is
\* logged and the loop continues (listener.go:68-73).
ListenerSurvivesErrors == lpc # "panicked"

=============================================================================
