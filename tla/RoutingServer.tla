---------------------------- MODULE RoutingServer ---------------------------
(***************************************************************************)
(* server/src/main.rs: HTTP handlers, one thread that owns the routing     *)
(* engine, and a thread per customization.  Handlers pass requests through *)
(* a channel whose sender is behind a mutex, and the handler of a query    *)
(* keeps the mutex until its answer arrives.  Customizations install their *)
(* metric when they are ready, in whatever order that happens.             *)
(* A panic unwinds one thread: what it holds is dropped, a mutex it has    *)
(* locked is poisoned, and threads that wait for it notice.                *)
(***************************************************************************)
EXTENDS Integers, Sequences, FiniteSets

CONSTANTS
    Links,      \* links of the map
    Queries,    \* requests for a path between points or links of the map
    BadQueries, \* requests /here_query that name a link that does not exist
    Customizes, \* requests /customize
    Updates,    \* the new weights in each request to customize, by link
    Original,   \* the weights of the map that was loaded, by link
    NoRequest   \* no request: the mutex is free

Requests == Queries \cup BadQueries \cup Customizes

ASSUME RequestsAssumption ==
    /\ Queries \cap BadQueries = {} /\ Queries \cap Customizes = {} /\ BadQueries \cap Customizes = {}
    /\ NoRequest \notin Requests
    /\ Requests \cap {"preprocessing", "waiting", "dead"} = {}

ASSUME UpdatesAssumption ==
    /\ Original = [l \in Links |-> Original[l]]
    /\ DOMAIN Updates = Customizes
    /\ \A c \in Customizes : DOMAIN Updates[c] \subseteq Links

VARIABLES
    handler,   \* progress of the handler of each request
    lock,      \* the request whose handler holds the mutex of the sender
    poisoned,  \* a handler panicked while it held the mutex
    channel,   \* requests sent to the engine
    engine,    \* "preprocessing", "waiting", "dead", or the query it works on
    accepted,  \* customizations that the engine has received, in this order
    running,   \* customizations whose thread is running
    metric,    \* the weights that queries are answered with
    reply      \* the answer to each query, as its handler will receive it

handlerVars == <<handler, lock, poisoned>>
vars == <<handlerVars, channel, engine, accepted, running, metric, reply>>

(* What the handler of a query can receive: nothing yet; an answer, with   *)
(* the weights used for the path and for the links at its ends; or nothing *)
(* any more, the engine has dropped the sender.                            *)
Metric == {[l \in Links |-> IF l \in DOMAIN u THEN u[l] ELSE Original[l]] : u \in {Updates[c] : c \in Customizes} \cup {<<>>}}
Answers == [path : Metric, ends : Metric]
Pending == [status |-> "pending"]
HungUp == [status |-> "hung up"]

TypeOK ==
    /\ handler \in [Requests -> {"none", "locking", "sending", "receiving", "done", "failed"}]
    /\ lock \in Requests \cup {NoRequest} /\ poisoned \in BOOLEAN
    /\ channel \in Seq(Requests)
    /\ engine \in {"preprocessing", "waiting", "dead"} \cup Queries
    /\ accepted \in Seq(Customizes) /\ running \subseteq Customizes
    /\ metric \in Metric
    /\ reply \in [Queries \cup BadQueries -> Answers \cup {Pending, HungUp}]

Init ==
    /\ handler = [r \in Requests |-> "none"]
    /\ lock = NoRequest /\ poisoned = FALSE
    /\ channel = <<>>
    /\ engine = "preprocessing"
    /\ accepted = <<>> /\ running = {}
    /\ metric = Original
    /\ reply = [r \in Queries \cup BadQueries |-> Pending]

-----------------------------------------------------------------------------
(* The handlers query, here_query and customize                            *)

Arrive(r) ==
    /\ handler[r] = "none"
    /\ handler' = [handler EXCEPT ![r] = "locking"]
    /\ UNCHANGED <<lock, poisoned, channel, engine, accepted, running, metric, reply>>

(* state.lock().unwrap(): panics if the mutex is poisoned.                 *)
Lock(r) ==
    /\ handler[r] = "locking" /\ lock = NoRequest
    /\ \/ /\ ~poisoned
          /\ handler' = [handler EXCEPT ![r] = "sending"]
          /\ lock' = r
       \/ /\ poisoned
          /\ handler' = [handler EXCEPT ![r] = "failed"]
          /\ UNCHANGED lock
    /\ UNCHANGED <<poisoned, channel, engine, accepted, running, metric, reply>>

(* The handler panics with the mutex locked.                               *)
Panic(r) ==
    /\ handler' = [handler EXCEPT ![r] = "failed"]
    /\ lock' = NoRequest
    /\ poisoned' = TRUE

(* Mutation of Send: the mutex is released before the answer is received.  *)
SendReleasing(r) ==
    /\ handler[r] = "sending"
    /\ \/ /\ engine # "dead"
          /\ channel' = Append(channel, r)
          /\ handler' = [handler EXCEPT ![r] = IF r \in Customizes THEN "done" ELSE "receiving"]
          /\ lock' = NoRequest
          /\ UNCHANGED poisoned
       \/ /\ engine = "dead"
          /\ Panic(r)
          /\ UNCHANGED channel
    /\ UNCHANGED <<engine, accepted, running, metric, reply>>

(* The request is sent; this fails if the engine has dropped the receiver. *)
(* customize returns, the others keep the mutex and wait for the answer.   *)
Send(r) ==
    /\ handler[r] = "sending"
    /\ \/ /\ engine # "dead"
          /\ channel' = Append(channel, r)
          /\ handler' = [handler EXCEPT ![r] = IF r \in Customizes THEN "done" ELSE "receiving"]
          /\ lock' = IF r \in Customizes THEN NoRequest ELSE r
          /\ UNCHANGED poisoned
       \/ /\ engine = "dead"
          /\ Panic(r)
          /\ UNCHANGED channel
    /\ UNCHANGED <<engine, accepted, running, metric, reply>>

(* rx_result.recv().expect(...)                                            *)
Receive(r) ==
    /\ handler[r] = "receiving" /\ reply[r] # Pending
    /\ \/ /\ reply[r] # HungUp
          /\ handler' = [handler EXCEPT ![r] = "done"]
          /\ lock' = NoRequest
          /\ UNCHANGED poisoned
       \/ /\ reply[r] = HungUp
          /\ Panic(r)
    /\ UNCHANGED <<channel, engine, accepted, running, metric, reply>>

-----------------------------------------------------------------------------
(* The engine thread                                                       *)

(* CCH::fix_order_and_build and the first customization.                   *)
Preprocess ==
    /\ engine = "preprocessing"
    /\ engine' = "waiting"
    /\ UNCHANGED <<handlerVars, channel, accepted, running, metric, reply>>

(* The next request of the channel is a query; its nodes or links exist.   *)
TakeQuery ==
    /\ engine = "waiting" /\ channel # <<>> /\ Head(channel) \in Queries
    /\ engine' = Head(channel)
    /\ channel' = Tail(channel)
    /\ UNCHANGED <<handlerVars, accepted, running, metric, reply>>

(* With the engine locked, against customizations that are ready, a query  *)
(* is answered.  The links at its ends count with their weights in graph,  *)
(* the map that was loaded.                                                *)
Answer ==
    /\ engine \in Queries
    /\ reply' = [reply EXCEPT ![engine] = [path |-> metric, ends |-> Original]]
    /\ engine' = "waiting"
    /\ UNCHANGED <<handlerVars, channel, accepted, running, metric>>

(* Mutation of Crash: requests that were not yet received are kept, and so *)
(* are the senders for their answers.                                      *)
CrashKeepingChannel ==
    /\ engine = "waiting" /\ channel # <<>> /\ Head(channel) \in BadQueries
    /\ engine' = "dead"
    /\ channel' = Tail(channel)
    /\ UNCHANGED <<handlerVars, accepted, running, metric, reply>>

(* expect("non existing link") panics: the engine ends, the receiver is    *)
(* dropped with all requests in it, and so are the senders for answers.    *)
Crash ==
    /\ engine = "waiting" /\ channel # <<>> /\ Head(channel) \in BadQueries
    /\ engine' = "dead"
    /\ channel' = <<>>
    /\ reply' = [r \in DOMAIN reply |-> IF \E i \in DOMAIN channel : channel[i] = r THEN HungUp ELSE reply[r]]
    /\ UNCHANGED <<handlerVars, accepted, running, metric>>

(* A thread is spawned for a customization; the engine goes on.            *)
SpawnCustomization ==
    /\ engine = "waiting" /\ channel # <<>> /\ Head(channel) \in Customizes
    /\ accepted' = Append(accepted, Head(channel))
    /\ running' = running \cup {Head(channel)}
    /\ channel' = Tail(channel)
    /\ UNCHANGED <<handlerVars, engine, metric, reply>>

(* The thread of a customization: the weights of the map that was loaded,  *)
(* overwritten with those of the request, become the metric.               *)
Install(c) ==
    /\ c \in running
    /\ metric' = [l \in Links |-> IF l \in DOMAIN Updates[c] THEN Updates[c][l] ELSE Original[l]]
    /\ running' = running \ {c}
    /\ UNCHANGED <<handlerVars, channel, engine, accepted, reply>>

-----------------------------------------------------------------------------
Handler(r) == Lock(r) \/ Send(r) \/ Receive(r)

Engine == Preprocess \/ TakeQuery \/ Answer \/ Crash \/ SpawnCustomization

Next ==
    \/ \E r \in Requests : Arrive(r) \/ Handler(r)
    \/ Engine
    \/ \E c \in Customizes : Install(c)

Fairness ==
    /\ \A r \in Requests : WF_vars(Handler(r))
    /\ WF_vars(Engine)
    /\ \A c \in Customizes : WF_vars(Install(c))

Spec == Init /\ [][Next]_vars /\ Fairness

-----------------------------------------------------------------------------
(* What holds                                                              *)

(* Queries that are sent and not yet received by their handler.            *)
Open == {r \in Queries \cup BadQueries : handler[r] = "receiving"}

(* A query that was sent and not answered is where the engine will find it:*)
(* alone, behind customizations at most, with its handler as the only one  *)
(* that can wake up.                                                       *)
OneQueryAtATime ==
    /\ Open \subseteq {lock}
    /\ \A r \in Open : reply[r] = Pending =>
           engine = r \/ (channel # <<>> /\ channel[Len(channel)] = r)
    /\ \A i \in 1 .. Len(channel) - 1 : channel[i] \in Customizes

(* A request can only fail when the engine is dead, and for this a query   *)
(* with an unknown link must have arrived.                                 *)
FailuresHaveCause ==
    /\ poisoned => engine = "dead"
    /\ \A r \in Requests : handler[r] = "failed" => poisoned
    /\ engine = "dead" => \E r \in BadQueries : handler[r] \in {"receiving", "failed"}

(* Failures have that one cause, and once the engine is dead nobody        *)
(* succeeds any more: no handler has an answer that it has not yet         *)
(* received, and no customization is sent, though the mutex and the channel*)
(* may seem fine to a handler that is under way.                           *)
FailuresAreFinal ==
    /\ []FailuresHaveCause
    /\ [][engine = "dead" => \A r \in Requests : handler'[r] = "done" => handler[r] = "done"]_vars

(* No request hangs: every handler ends with an answer or with a failure,  *)
(* and every customization that was accepted is installed.                 *)
RequestsEnd ==
    /\ \A r \in Requests : handler[r] = "locking" ~> handler[r] \in {"done", "failed"}
    /\ \A c \in Customizes : c \in running ~> c \notin running

-----------------------------------------------------------------------------
(* What the documentation says: server/README.md                           *)

(* A query with an unknown link "will return a HTTP 500" (line 47): the    *)
(* query itself fails, not the requests that come later.                   *)
OnlyBadQueriesFail == \A r \in Requests \ BadQueries : handler[r] # "failed"
=============================================================================
