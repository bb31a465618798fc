------------------------- MODULE RoutingServerProofs ------------------------
(***************************************************************************)
(* Queries are processed one at a time, and requests fail only after a     *)
(* query with an unknown link, from which on none succeeds, for any number *)
(* of requests of each kind and any weights.                               *)
(***************************************************************************)
EXTENDS RoutingServer, SequenceTheorems, TLAPS

Asks == Queries \cup BadQueries

(* The mutex is held exactly while a request is sent or waited for, and    *)
(* nobody waits for the answer to a customization.                         *)
LockIsHeld ==
    /\ \A r \in Requests : handler[r] \in {"sending", "receiving"} <=> lock = r
    /\ \A c \in Customizes : handler[c] # "receiving"

(* A query that the engine or the channel has is waited for, unanswered;   *)
(* it is not in both.                                                      *)
OthersWait ==
    /\ \A r \in Asks : engine = r => handler[r] = "receiving" /\ reply[r] = Pending
    /\ \A i \in 1 .. Len(channel) : channel[i] \in Asks =>
           handler[channel[i]] = "receiving" /\ reply[channel[i]] = Pending
    /\ engine \in Queries => \A i \in 1 .. Len(channel) : channel[i] \in Customizes
    /\ \A r \in Asks : handler[r] \in {"none", "locking", "sending"} => reply[r] = Pending

(* Only the death of the engine hangs up, and it clears the channel: who   *)
(* still waits will not be answered.  A query with an unknown link never is*)
(* answered.                                                               *)
HangsUpWhenDead ==
    /\ engine = "dead" => channel = <<>> /\ \A r \in Open : reply[r] = HungUp
    /\ \A r \in Asks : reply[r] = HungUp => engine = "dead"
    /\ \A r \in BadQueries : reply[r] \in {Pending, HungUp}

IInv == TypeOK /\ LockIsHeld /\ OthersWait /\ HangsUpWhenDead /\ OneQueryAtATime /\ FailuresHaveCause

LEMMA AnswerIsReply ==
    ASSUME NEW m, NEW n PROVE [path |-> m, ends |-> n] # Pending /\ [path |-> m, ends |-> n] # HungUp
<1>1. DOMAIN [path |-> m, ends |-> n] # DOMAIN Pending /\ DOMAIN [path |-> m, ends |-> n] # DOMAIN HungUp
  BY DEF Pending, HungUp
<1> QED BY <1>1

LEMMA PendingIsNotHungUp == Pending # HungUp
<1>1. Pending.status # HungUp.status
  BY DEF Pending, HungUp
<1> QED BY <1>1

LEMMA StringsAreNoRequests == \A q \in Asks : q \notin {"preprocessing", "waiting", "dead"}
BY RequestsAssumption DEF Asks, Requests

LEMMA OriginalIsMetric == Original \in Metric
<1>1. Original = [l \in Links |-> IF l \in DOMAIN <<>> THEN <<>>[l] ELSE Original[l]]
  BY UpdatesAssumption
<1> QED BY <1>1 DEF Metric

LEMMA InstalledIsMetric ==
    ASSUME NEW c \in Customizes
    PROVE  [l \in Links |-> IF l \in DOMAIN Updates[c] THEN Updates[c][l] ELSE Original[l]] \in Metric
BY DEF Metric

(* With an ask at its head, the channel has no other request.              *)
LEMMA AskIsAlone ==
    ASSUME TypeOK, OneQueryAtATime, channel # <<>>, Head(channel) \in Asks
    PROVE  Len(channel) = 1 /\ channel[1] = Head(channel) /\ Tail(channel) = <<>>
<1>1. channel \in Seq(Requests) /\ Len(channel) \in Nat /\ Len(channel) > 0 /\ channel[1] = Head(channel)
  BY DEF TypeOK
<1>2. channel[1] \notin Customizes
  BY <1>1, RequestsAssumption DEF Asks
<1>3. \A i \in 1 .. Len(channel) - 1 : channel[i] \in Customizes
  BY DEF OneQueryAtATime
<1>4. Len(channel) = 1
  <2>1. 1 \notin 1 .. Len(channel) - 1
    BY <1>2, <1>3
  <2>2. Len(channel) \in Nat /\ Len(channel) > 0
    BY <1>1
  <2> QED BY <2>1, <2>2
<1>5. Tail(channel) \in Seq(Requests) /\ Len(Tail(channel)) = 0
  BY <1>1, <1>4
<1>6. Tail(channel) = <<>>
  BY <1>5, EmptySeq
<1> QED BY <1>1, <1>4, <1>6

LEMMA InitIInv == Init => IInv
<1> SUFFICES ASSUME Init PROVE IInv
  OBVIOUS
<1>1. TypeOK
  <2>1. handler \in [Requests -> {"none", "locking", "sending", "receiving", "done", "failed"}]
    BY DEF Init
  <2>2. channel \in Seq(Requests) /\ accepted \in Seq(Customizes)
    BY DEF Init
  <2>3. reply \in [Asks -> Answers \cup {Pending, HungUp}]
    BY DEF Init, Asks
  <2> QED BY <2>1, <2>2, <2>3, OriginalIsMetric DEF Init, TypeOK, Asks
<1>2. LockIsHeld
  BY RequestsAssumption DEF Init, LockIsHeld, Requests
<1>3. OthersWait
  BY RequestsAssumption DEF Init, OthersWait, Asks, Requests
<1>4. HangsUpWhenDead
  BY PendingIsNotHungUp DEF Init, HangsUpWhenDead, Asks, Open
<1>5. OneQueryAtATime
  BY DEF Init, OneQueryAtATime, Open, Requests
<1>6. FailuresHaveCause
  BY DEF Init, FailuresHaveCause
<1> QED BY <1>1, <1>2, <1>3, <1>4, <1>5, <1>6 DEF IInv

LEMMA ArriveIInv == ASSUME IInv, NEW r \in Requests, Arrive(r) PROVE IInv'
<1>1. TypeOK' /\ channel' = channel /\ reply' = reply /\ lock' = lock /\ engine' = engine /\ poisoned' = poisoned
  BY DEF IInv, TypeOK, Arrive
<1>2. /\ handler[r] = "none" /\ handler'[r] = "locking"
      /\ \A q \in Requests \ {r} : handler'[q] = handler[q]
  BY DEF IInv, TypeOK, Arrive
<1>3. LockIsHeld'
  BY <1>1, <1>2 DEF IInv, LockIsHeld, Requests
<1>4. OthersWait'
  BY <1>1, <1>2 DEF IInv, OthersWait, Asks, Requests
<1>5. HangsUpWhenDead'
  BY <1>1, <1>2 DEF IInv, HangsUpWhenDead, Open, Requests
<1>6. OneQueryAtATime'
  BY <1>1, <1>2 DEF IInv, OneQueryAtATime, Open, Requests
<1>7. FailuresHaveCause'
  BY <1>1, <1>2 DEF IInv, FailuresHaveCause, Requests
<1> QED BY <1>1, <1>3, <1>4, <1>5, <1>6, <1>7 DEF IInv

LEMMA LockIInv == ASSUME IInv, NEW r \in Requests, Lock(r) PROVE IInv'
<1>1. TypeOK' /\ channel' = channel /\ reply' = reply /\ engine' = engine /\ poisoned' = poisoned
  BY DEF IInv, TypeOK, Lock
<1>2. /\ handler[r] = "locking" /\ lock = NoRequest
      /\ \A q \in Requests \ {r} : handler'[q] = handler[q]
  BY DEF IInv, TypeOK, Lock
<1>3. \/ ~poisoned /\ handler'[r] = "sending" /\ lock' = r
      \/ poisoned /\ handler'[r] = "failed" /\ lock' = NoRequest
  BY DEF IInv, TypeOK, Lock
<1>4. LockIsHeld'
  BY <1>2, <1>3, RequestsAssumption DEF IInv, LockIsHeld, Requests
<1>5. OthersWait'
  BY <1>1, <1>2, <1>3 DEF IInv, OthersWait, Asks, Requests
<1>6. HangsUpWhenDead'
  BY <1>1, <1>2, <1>3 DEF IInv, HangsUpWhenDead, Open, Requests
<1>7. OneQueryAtATime'
  <2>1. Open = {}
    BY <1>2, RequestsAssumption DEF IInv, OneQueryAtATime, Open, Requests
  <2>2. Open' = {}
    BY <2>1, <1>2, <1>3 DEF Open, Requests
  <2> QED BY <1>1, <2>2 DEF IInv, OneQueryAtATime
<1>8. FailuresHaveCause'
  BY <1>1, <1>2, <1>3 DEF IInv, FailuresHaveCause, Requests
<1> QED BY <1>1, <1>4, <1>5, <1>6, <1>7, <1>8 DEF IInv

(* A handler that panics was the only one to hold the mutex.               *)
LEMMA PanicIInv ==
    ASSUME IInv, NEW r \in Requests, handler[r] \in {"sending", "receiving"}, engine = "dead", Panic(r),
           UNCHANGED <<channel, engine, accepted, running, metric, reply>>
    PROVE  IInv'
<1>1. TypeOK'
  BY DEF IInv, TypeOK, Panic
<1>2. /\ handler'[r] = "failed" /\ lock = r /\ lock' = NoRequest /\ poisoned'
      /\ \A q \in Requests \ {r} : handler'[q] = handler[q]
  BY DEF IInv, TypeOK, Panic, LockIsHeld
<1>3. \A q \in Requests : handler'[q] \notin {"sending", "receiving"}
  BY <1>2 DEF IInv, LockIsHeld
<1>4. LockIsHeld'
  BY <1>2, <1>3, RequestsAssumption DEF LockIsHeld, Requests
<1>5. channel' = <<>> /\ engine' = "dead"
  BY DEF IInv, HangsUpWhenDead
<1>6. OthersWait'
  <2>1. \A q \in Asks : engine' # q
    BY <1>5, RequestsAssumption DEF Asks, Requests
  <2>2. \A q \in Asks : handler'[q] \in {"none", "locking", "sending"} => reply'[q] = Pending
    BY <1>2 DEF IInv, OthersWait, Asks, Requests
  <2>3. engine' \notin Queries
    BY <2>1 DEF Asks
  <2> QED BY <2>1, <2>2, <2>3, <1>5 DEF OthersWait
<1>7. Open' = {}
  BY <1>3 DEF Open, Requests
<1>8. HangsUpWhenDead' /\ OneQueryAtATime'
  BY <1>5, <1>7 DEF IInv, HangsUpWhenDead, OneQueryAtATime
<1>9. FailuresHaveCause'
  BY <1>2, <1>5 DEF IInv, FailuresHaveCause, Requests
<1> QED BY <1>1, <1>4, <1>6, <1>8, <1>9 DEF IInv

LEMMA ReceiveIInv == ASSUME IInv, NEW r \in Requests, Receive(r) PROVE IInv'
<1>1. r \in Asks
  BY DEF IInv, LockIsHeld, Receive, Requests, Asks
<1>2. CASE reply[r] = HungUp
  <2>1. engine = "dead" /\ handler[r] \in {"sending", "receiving"}
    BY <1>1, <1>2 DEF IInv, HangsUpWhenDead, Receive
  <2>2. Panic(r) /\ UNCHANGED <<channel, engine, accepted, running, metric, reply>>
    BY <1>2 DEF Receive
  <2> QED BY <2>1, <2>2, PanicIInv
<1>3. CASE reply[r] # HungUp
  <2>1. TypeOK' /\ channel' = channel /\ reply' = reply /\ engine' = engine /\ poisoned' = poisoned
    BY <1>3 DEF IInv, TypeOK, Receive
  <2>2. /\ handler[r] = "receiving" /\ handler'[r] = "done" /\ lock' = NoRequest
        /\ \A q \in Requests \ {r} : handler'[q] = handler[q]
    BY <1>3 DEF IInv, TypeOK, Receive
  <2>3. lock = r /\ reply[r] # Pending
    BY <2>2 DEF IInv, LockIsHeld, Receive
  <2>4. \A q \in Requests : handler'[q] \notin {"sending", "receiving"}
    BY <2>2, <2>3 DEF IInv, LockIsHeld
  <2>5. LockIsHeld'
    BY <2>2, <2>4, RequestsAssumption DEF LockIsHeld, Requests
  <2>6. OthersWait'
    BY <2>1, <2>2, <2>3 DEF IInv, TypeOK, OthersWait, Asks, Requests
  <2>7. Open' = {}
    BY <2>4 DEF Open, Requests
  <2>8. HangsUpWhenDead' /\ OneQueryAtATime'
    BY <2>1, <2>7 DEF IInv, HangsUpWhenDead, OneQueryAtATime
  <2>9. r \notin BadQueries
    BY <1>3, <2>3 DEF IInv, HangsUpWhenDead
  <2>10. FailuresHaveCause'
    BY <2>1, <2>2, <2>9 DEF IInv, FailuresHaveCause, Requests
  <2> QED BY <2>1, <2>5, <2>6, <2>8, <2>10 DEF IInv
<1> QED BY <1>2, <1>3

(* The request of the only handler with the mutex is sent behind           *)
(* customizations: a query in the channel would have the mutex.            *)
LEMMA SendIInv == ASSUME IInv, NEW r \in Requests, Send(r) PROVE IInv'
<1>1. handler[r] = "sending" /\ lock = r /\ TypeOK
  BY DEF IInv, LockIsHeld, Send
<1>2. CASE engine = "dead"
  <2>1. Panic(r) /\ UNCHANGED <<channel, engine, accepted, running, metric, reply>>
    BY <1>2 DEF Send
  <2> QED BY <1>1, <1>2, <2>1, PanicIInv
<1>3. CASE engine # "dead"
  <2>1. /\ channel' = Append(channel, r)
        /\ handler' = [handler EXCEPT ![r] = IF r \in Customizes THEN "done" ELSE "receiving"]
        /\ lock' = IF r \in Customizes THEN NoRequest ELSE r
        /\ UNCHANGED <<poisoned, engine, accepted, running, metric, reply>>
    BY <1>3 DEF Send
  <2>2. /\ Len(channel) \in Nat /\ channel \in Seq(Requests)
        /\ channel' \in Seq(Requests) /\ channel' # <<>>
        /\ Len(channel') = Len(channel) + 1 /\ channel'[Len(channel')] = r
        /\ \A i \in 1 .. Len(channel) : channel'[i] = channel[i]
    BY <1>1, <2>1, AppendProperties DEF TypeOK
  <2>3. TypeOK'
    BY <1>1, <2>1, <2>2 DEF TypeOK
  <2>4. \A q \in Requests \ {r} : handler'[q] = handler[q] /\ handler[q] \notin {"sending", "receiving"}
    BY <1>1, <2>1 DEF IInv, TypeOK, LockIsHeld
  <2>5. \/ r \in Customizes /\ handler'[r] = "done" /\ lock' = NoRequest
        \/ r \in Asks \ Customizes /\ handler'[r] = "receiving" /\ lock' = r
    BY <1>1, <2>1, RequestsAssumption DEF TypeOK, Requests, Asks
  <2>6. \A i \in 1 .. Len(channel) : channel[i] \in Customizes
    <3>1. SUFFICES ASSUME NEW i \in 1 .. Len(channel), channel[i] \in Asks PROVE FALSE
      BY <2>2, ElementOfSeq DEF Requests, Asks
    <3>2. handler[channel[i]] = "receiving" /\ channel[i] \in Requests
      BY <3>1 DEF IInv, OthersWait, Requests, Asks
    <3> QED BY <1>1, <2>4, <3>2
  <2>7. LockIsHeld'
    BY <2>4, <2>5, RequestsAssumption DEF IInv, LockIsHeld, Requests, Asks
  <2>8. OthersWait'
    <3>1. ASSUME NEW q \in Asks, engine' = q PROVE handler'[q] = "receiving" /\ reply'[q] = Pending
      BY <1>1, <2>1, <2>4, <3>1 DEF IInv, OthersWait, Requests, Asks
    <3>2. ASSUME NEW i \in 1 .. Len(channel'), channel'[i] \in Asks
          PROVE  handler'[channel'[i]] = "receiving" /\ reply'[channel'[i]] = Pending
      <4>1. i = Len(channel')
        <5>1. channel'[i] \notin Customizes
          BY <3>2, RequestsAssumption DEF Asks
        <5>2. i \notin 1 .. Len(channel)
          BY <2>2, <2>6, <5>1
        <5> QED BY <2>2, <5>2
      <4>2. channel'[i] = r
        BY <2>2, <4>1
      <4> QED BY <1>1, <2>1, <2>5, <3>2, <4>2, RequestsAssumption DEF IInv, OthersWait, Asks
    <3>3. ASSUME NEW q \in Asks, handler'[q] \in {"none", "locking", "sending"} PROVE reply'[q] = Pending
      BY <1>1, <2>1, <2>4, <3>3 DEF IInv, OthersWait, Requests, Asks
    <3>4. ASSUME engine' \in Queries PROVE \A i \in 1 .. Len(channel') : channel'[i] \in Customizes
      <4>1. handler[engine] = "receiving" /\ engine \in Asks
        BY <2>1, <3>4 DEF IInv, OthersWait, Asks
      <4> QED BY <1>1, <4>1 DEF IInv, LockIsHeld, Requests, Asks
    <3> QED BY <3>1, <3>2, <3>3, <3>4 DEF OthersWait
  <2>9. HangsUpWhenDead'
    BY <1>3, <2>1 DEF IInv, HangsUpWhenDead
  <2>10. OneQueryAtATime'
    <3>1. Open' \subseteq {lock'} /\ Open' \subseteq {r}
      BY <2>4, <2>5, RequestsAssumption DEF Open, Requests, Asks
    <3>2. Len(channel') - 1 = Len(channel)
      BY <2>2
    <3>3. \A i \in 1 .. Len(channel') - 1 : channel'[i] \in Customizes
      BY <2>2, <2>6, <3>2
    <3> QED BY <2>2, <3>1, <3>3 DEF OneQueryAtATime
  <2>11. FailuresHaveCause'
    BY <1>1, <1>3, <2>1, <2>4, <2>5 DEF IInv, FailuresHaveCause, Requests
  <2> QED BY <2>3, <2>7, <2>8, <2>9, <2>10, <2>11 DEF IInv
<1> QED BY <1>2, <1>3

LEMMA PreprocessIInv == ASSUME IInv, Preprocess PROVE IInv'
<1>1. engine = "preprocessing" /\ engine' = "waiting"
  BY DEF Preprocess
<1>2. UNCHANGED <<handler, lock, poisoned, channel, accepted, running, metric, reply>>
  BY DEF Preprocess, handlerVars
<1>3. \A q \in Asks : engine # q /\ engine' # q
  BY <1>1, StringsAreNoRequests
<1>4. TypeOK' /\ LockIsHeld'
  BY <1>1, <1>2 DEF IInv, TypeOK, LockIsHeld
<1>5. OthersWait' /\ HangsUpWhenDead' /\ FailuresHaveCause'
  BY <1>1, <1>2, <1>3, StringsAreNoRequests DEF IInv, OthersWait, HangsUpWhenDead, FailuresHaveCause, Asks
<1>6. OneQueryAtATime'
  BY <1>2, <1>3 DEF IInv, OneQueryAtATime, Open, Asks
<1> QED BY <1>4, <1>5, <1>6 DEF IInv

LEMMA TakeQueryIInv == ASSUME IInv, TakeQuery PROVE IInv'
<1> DEFINE q == Head(channel)
<1>1. engine = "waiting" /\ engine' = q /\ q \in Queries /\ channel # <<>> /\ channel' = Tail(channel)
  BY DEF TakeQuery
<1>2. UNCHANGED <<handler, lock, poisoned, accepted, running, metric, reply>>
  BY DEF TakeQuery, handlerVars
<1>3. Len(channel) = 1 /\ channel[1] = q /\ channel' = <<>>
  BY <1>1, AskIsAlone DEF IInv, Asks
<1>4. handler[q] = "receiving" /\ reply[q] = Pending
  BY <1>1, <1>3 DEF IInv, OthersWait, Asks
<1>5. q \notin {"preprocessing", "waiting", "dead"}
  BY <1>1, StringsAreNoRequests DEF Asks
<1>6. TypeOK' /\ LockIsHeld'
  BY <1>1, <1>2, <1>3 DEF IInv, TypeOK, LockIsHeld
<1>7. OthersWait'
  BY <1>1, <1>2, <1>3, <1>4 DEF IInv, OthersWait
<1>8. HangsUpWhenDead' /\ FailuresHaveCause'
  BY <1>1, <1>2, <1>3, <1>5 DEF IInv, HangsUpWhenDead, FailuresHaveCause
<1>9. OneQueryAtATime'
  <2>1. Open \subseteq {lock} /\ q \in Open
    BY <1>1, <1>4 DEF IInv, OneQueryAtATime, Open
  <2>2. Open' = Open /\ Open \subseteq {q}
    BY <1>2, <2>1 DEF Open
  <2>3. Open' \subseteq {lock'} /\ \A r \in Open' : engine' = r
    BY <1>1, <1>2, <2>1, <2>2
  <2>4. \A i \in 1 .. Len(channel') - 1 : channel'[i] \in Customizes
    BY <1>3
  <2> QED BY <2>3, <2>4 DEF OneQueryAtATime
<1> QED BY <1>6, <1>7, <1>8, <1>9 DEF IInv

LEMMA AnswerIInv == ASSUME IInv, Answer PROVE IInv'
<1> DEFINE answer == [path |-> metric, ends |-> Original]
<1>1. engine \in Queries /\ engine' = "waiting" /\ reply' = [reply EXCEPT ![engine] = answer]
  BY DEF Answer
<1>2. UNCHANGED <<handler, lock, poisoned, channel, accepted, running, metric>>
  BY DEF Answer, handlerVars
<1>3. handler[engine] = "receiving" /\ engine \in Asks
  BY <1>1 DEF IInv, OthersWait, Asks
<1>4. engine \notin BadQueries /\ \A q \in Asks : engine' # q
  BY <1>1, RequestsAssumption, StringsAreNoRequests
<1>5. TypeOK'
  <2>1. answer \in Answers
    BY OriginalIsMetric DEF IInv, TypeOK, Answers
  <2> QED BY <1>1, <1>2, <2>1 DEF IInv, TypeOK
<1>6. /\ reply'[engine] # Pending /\ reply'[engine] # HungUp
      /\ \A q \in Asks \ {engine} : reply'[q] = reply[q]
  BY <1>1, <1>3, AnswerIsReply DEF IInv, TypeOK, Asks
<1>7. Open = {engine} /\ engine = lock
  BY <1>1, <1>3 DEF IInv, OneQueryAtATime, Open, Asks
<1>8. \A i \in 1 .. Len(channel) : channel[i] \notin Asks
  BY <1>1, RequestsAssumption DEF IInv, OthersWait, Asks
<1>9. LockIsHeld'
  BY <1>2 DEF IInv, LockIsHeld
<1>10. OthersWait'
  <2>1. \A q \in Asks : handler[q] \in {"none", "locking", "sending"} => reply'[q] = Pending
    BY <1>3, <1>6 DEF IInv, OthersWait
  <2>2. engine' \notin Queries
    BY <1>4 DEF Asks
  <2> QED BY <1>2, <1>4, <1>8, <2>1, <2>2 DEF OthersWait
<1>11. HangsUpWhenDead'
  BY <1>1, <1>2, <1>4, <1>6, StringsAreNoRequests DEF IInv, HangsUpWhenDead, Asks
<1>12. OneQueryAtATime'
  BY <1>2, <1>6, <1>7 DEF IInv, OneQueryAtATime, Open
<1>13. FailuresHaveCause'
  BY <1>1, <1>2, <1>3, StringsAreNoRequests DEF IInv, FailuresHaveCause
<1> QED BY <1>5, <1>9, <1>10, <1>11, <1>12, <1>13 DEF IInv

(* The channel has nothing but the bad query: its handler will panic.      *)
LEMMA CrashIInv == ASSUME IInv, Crash PROVE IInv'
<1> DEFINE q == Head(channel)
<1>1. engine = "waiting" /\ engine' = "dead" /\ q \in BadQueries /\ channel # <<>> /\ channel' = <<>>
  BY DEF Crash
<1>2. UNCHANGED <<handler, lock, poisoned, accepted, running, metric>>
  BY DEF Crash, handlerVars
<1>3. Len(channel) = 1 /\ channel[1] = q
  BY <1>1, AskIsAlone DEF IInv, Asks
<1>4. handler[q] = "receiving" /\ reply[q] = Pending
  BY <1>1, <1>3 DEF IInv, OthersWait, Asks
<1>5. reply' = [r \in Asks |-> IF r = q THEN HungUp ELSE reply[r]]
  <2>1. DOMAIN reply = Asks
    BY DEF IInv, TypeOK, Asks
  <2>2. \A r : (\E i \in DOMAIN channel : channel[i] = r) <=> r = q
    <3>1. DOMAIN channel = {1}
      BY <1>3 DEF IInv, TypeOK
    <3> QED BY <1>3, <3>1
  <2> QED BY <2>1, <2>2 DEF Crash
<1>6. TypeOK'
  <2>1. reply' \in [Asks -> Answers \cup {Pending, HungUp}]
    BY <1>5 DEF IInv, TypeOK, Asks
  <2>2. channel' \in Seq(Requests)
    BY <1>1
  <2> QED BY <1>1, <1>2, <2>1, <2>2 DEF IInv, TypeOK, Asks
<1>7. LockIsHeld'
  BY <1>2 DEF IInv, LockIsHeld
<1>8. OthersWait'
  BY <1>1, <1>2, <1>4, <1>5, StringsAreNoRequests DEF IInv, OthersWait, Asks
<1>9. Open' = Open /\ Open \subseteq {lock'} /\ q \in Open
  BY <1>1, <1>2, <1>4 DEF IInv, OneQueryAtATime, Open
<1>10. \A r \in Open' : reply'[r] = HungUp
  BY <1>1, <1>5, <1>9 DEF Asks
<1>11. HangsUpWhenDead'
  BY <1>1, <1>5, <1>10 DEF IInv, HangsUpWhenDead, Asks
<1>12. OneQueryAtATime'
  <2>1. \A i \in 1 .. Len(channel') - 1 : channel'[i] \in Customizes
    BY <1>1
  <2> QED BY <1>9, <1>10, <2>1, PendingIsNotHungUp DEF OneQueryAtATime
<1>13. FailuresHaveCause'
  BY <1>1, <1>2, <1>4 DEF IInv, FailuresHaveCause
<1> QED BY <1>6, <1>7, <1>8, <1>11, <1>12, <1>13 DEF IInv

LEMMA SpawnIInv == ASSUME IInv, SpawnCustomization PROVE IInv'
<1> DEFINE c == Head(channel)
<1>1. engine = "waiting" /\ c \in Customizes /\ channel # <<>> /\ channel' = Tail(channel)
  BY DEF SpawnCustomization
<1>2. UNCHANGED <<handler, lock, poisoned, engine, metric, reply>>
  BY DEF SpawnCustomization, handlerVars
<1>3. channel \in Seq(Requests) /\ Len(channel) \in Nat \ {0} /\ channel[1] = c
  BY <1>1, EmptySeq DEF IInv, TypeOK
<1>4. /\ channel' \in Seq(Requests) /\ Len(channel') = Len(channel) - 1
      /\ \A i \in 1 .. Len(channel') : channel'[i] = channel[i + 1]
  BY <1>1, <1>3, HeadTailProperties
<1>5. accepted' \in Seq(Customizes) /\ running' \subseteq Customizes
  BY <1>1, AppendProperties DEF IInv, TypeOK, SpawnCustomization
<1>6. TypeOK' /\ LockIsHeld'
  BY <1>2, <1>4, <1>5 DEF IInv, TypeOK, LockIsHeld
<1>7. \A r \in Asks : engine # r
  BY <1>1, StringsAreNoRequests
<1>8. OthersWait'
  <2>1. \A i \in 1 .. Len(channel') : channel'[i] \in Asks =>
            handler'[channel'[i]] = "receiving" /\ reply'[channel'[i]] = Pending
    <3>1. SUFFICES ASSUME NEW i \in 1 .. Len(channel'), channel'[i] \in Asks
                   PROVE  handler'[channel'[i]] = "receiving" /\ reply'[channel'[i]] = Pending
      OBVIOUS
    <3>2. i + 1 \in 1 .. Len(channel) /\ channel'[i] = channel[i + 1]
      BY <1>3, <1>4
    <3> QED BY <1>2, <3>1, <3>2 DEF IInv, OthersWait
  <2> QED BY <1>2, <1>7, <2>1 DEF IInv, OthersWait, Asks
<1>9. HangsUpWhenDead' /\ FailuresHaveCause'
  BY <1>1, <1>2 DEF IInv, HangsUpWhenDead, FailuresHaveCause
<1>10. OneQueryAtATime'
  <2>1. \A r \in Open' : r \in Asks /\ r = lock' /\ (reply'[r] = Pending => channel[Len(channel)] = r)
    BY <1>2, <1>7 DEF IInv, OneQueryAtATime, Open, Asks
  <2>2. ASSUME channel[Len(channel)] \in Asks
        PROVE  channel' # <<>> /\ channel'[Len(channel')] = channel[Len(channel)]
    <3>1. Len(channel) # 1
      BY <1>1, <1>3, <2>2, RequestsAssumption DEF Asks
    <3>2. Len(channel') \in Nat \ {0} /\ Len(channel') + 1 = Len(channel)
      BY <1>3, <1>4, <3>1
    <3>3. Len(channel') \in 1 .. Len(channel')
      BY <3>2
    <3> QED BY <1>4, <3>2, <3>3, EmptySeq
  <2>3. ASSUME NEW i \in 1 .. Len(channel') - 1 PROVE channel'[i] \in Customizes
    <3>1. i \in 1 .. Len(channel') /\ i + 1 \in 1 .. Len(channel) - 1
      BY <1>3, <1>4, <2>3
    <3> QED BY <1>4, <3>1 DEF IInv, OneQueryAtATime
  <2> QED BY <2>1, <2>2, <2>3 DEF OneQueryAtATime
<1> QED BY <1>6, <1>8, <1>9, <1>10 DEF IInv

LEMMA InstallIInv == ASSUME IInv, NEW c \in Customizes, Install(c) PROVE IInv'
<1>1. UNCHANGED <<handler, lock, poisoned, channel, engine, accepted, reply>>
  BY DEF Install, handlerVars
<1>2. metric' \in Metric /\ running' \subseteq Customizes
  BY InstalledIsMetric DEF IInv, TypeOK, Install
<1>3. TypeOK'
  BY <1>1, <1>2 DEF IInv, TypeOK
<1>4. LockIsHeld' /\ OthersWait' /\ HangsUpWhenDead'
  BY <1>1 DEF IInv, LockIsHeld, OthersWait, HangsUpWhenDead, Open
<1>5. OneQueryAtATime' /\ FailuresHaveCause'
  BY <1>1 DEF IInv, OneQueryAtATime, Open, FailuresHaveCause
<1> QED BY <1>3, <1>4, <1>5 DEF IInv

LEMMA StutterIInv == ASSUME IInv, UNCHANGED vars PROVE IInv'
<1>1. UNCHANGED <<handler, lock, poisoned, channel, engine, accepted, running, metric, reply>>
  BY DEF vars, handlerVars
<1>2. TypeOK' /\ LockIsHeld' /\ OthersWait' /\ HangsUpWhenDead'
  BY <1>1 DEF IInv, TypeOK, LockIsHeld, OthersWait, HangsUpWhenDead, Open
<1>3. OneQueryAtATime' /\ FailuresHaveCause'
  BY <1>1 DEF IInv, OneQueryAtATime, Open, FailuresHaveCause
<1> QED BY <1>2, <1>3 DEF IInv

LEMMA NextIInv == IInv /\ [Next]_vars => IInv'
<1> SUFFICES ASSUME IInv, [Next]_vars PROVE IInv'
  OBVIOUS
<1>1. ASSUME NEW r \in Requests, Arrive(r) \/ Handler(r) PROVE IInv'
  BY <1>1, ArriveIInv, LockIInv, SendIInv, ReceiveIInv DEF Handler
<1>2. ASSUME Engine PROVE IInv'
  BY <1>2, PreprocessIInv, TakeQueryIInv, AnswerIInv, CrashIInv, SpawnIInv DEF Engine
<1>3. ASSUME NEW c \in Customizes, Install(c) PROVE IInv'
  BY <1>3, InstallIInv
<1>4. CASE UNCHANGED vars
  BY <1>4, StutterIInv
<1> QED BY <1>1, <1>2, <1>3, <1>4 DEF Next

LEMMA Invariance == Spec => []IInv
BY InitIInv, NextIInv, PTL DEF Spec

(* Handlers, engine and customizations keep the types of what they share:  *)
(* requests in the channel, answers, and a metric with all links.          *)
THEOREM TypeCorrect == Spec => []TypeOK
<1>1. IInv => TypeOK
  BY DEF IInv
<1> QED BY <1>1, Invariance, PTL

(* A handler keeps the mutex of the sender until its answer arrives, so    *)
(* that it is the only one with a query on its way, for any number of      *)
(* requests.                                                               *)
THEOREM QueriesOneByOne == Spec => []OneQueryAtATime
<1>1. IInv => OneQueryAtATime
  BY DEF IInv
<1> QED BY <1>1, Invariance, PTL

(* A step after the death of the engine leaves handlers that have not      *)
(* succeeded where they are, or lets them go on or fail: nothing can be    *)
(* sent, and nothing but a hung up channel can be received.                *)
LEMMA StepsOfTheDead ==
    ASSUME IInv, [Next]_vars, engine = "dead", NEW q \in Requests, handler'[q] = "done"
    PROVE  handler[q] = "done"
<1>1. CASE handler' = handler
  BY <1>1
<1>2. ASSUME NEW r \in Requests, Arrive(r) \/ Lock(r)
      PROVE  handler[q] = "done"
  <2>1. handler'[r] # "done" /\ (q # r => handler'[q] = handler[q])
    BY <1>2 DEF IInv, TypeOK, Arrive, Lock
  <2> QED BY <2>1
<1>3. ASSUME NEW r \in Requests, Panic(r) PROVE handler[q] = "done"
  <2>1. handler'[r] = "failed" /\ (q # r => handler'[q] = handler[q])
    BY <1>3 DEF IInv, TypeOK, Panic
  <2> QED BY <2>1
<1>4. ASSUME NEW r \in Requests, Send(r) PROVE Panic(r)
  BY <1>4 DEF Send
<1>5. ASSUME NEW r \in Requests, Receive(r) PROVE Panic(r)
  <2>1. r \in Open
    BY <1>5 DEF IInv, LockIsHeld, Open, Receive, Requests
  <2>2. reply[r] = HungUp
    BY <2>1 DEF IInv, HangsUpWhenDead
  <2> QED BY <1>5, <2>2 DEF Receive
<1>6. CASE Engine \/ (\E c \in Customizes : Install(c)) \/ UNCHANGED vars
  <2>1. handler' = handler
    BY <1>6 DEF Engine, Preprocess, TakeQuery, Answer, Crash, SpawnCustomization, Install, vars, handlerVars
  <2> QED BY <1>1, <2>1
<1> QED BY <1>2, <1>3, <1>4, <1>5, <1>6 DEF Next, Handler

(* A request fails only if the engine is dead, which a query with an       *)
(* unknown link has caused, and whoever has not succeeded by then never    *)
(* will, for any number of requests.                                       *)
THEOREM FailuresHaveOneCause == Spec => FailuresAreFinal
<1>1. IInv => FailuresHaveCause
  BY DEF IInv
<1>2. IInv /\ [Next]_vars =>
          [engine = "dead" => \A r \in Requests : handler'[r] = "done" => handler[r] = "done"]_vars
  BY StepsOfTheDead
<1> QED BY <1>1, <1>2, Invariance, PTL DEF Spec, FailuresAreFinal
=============================================================================
