---------------------------- MODULE Broker ----------------------------
(***************************************************************************)
(* One broker connection (broker.go): goroutines that open it, send        *)
(* requests on it and close it under Broker.lock, the response receiver    *)
(* that hands answers to promises in the order they were queued, SASL      *)
(* authentication and re-authentication, and the throttle timer.           *)
(*                                                                         *)
(* A process is a goroutine that calls a method of the Broker, or one that *)
(* Open starts (1, 2, ... in the order of the Open calls). Only the holder *)
(* of Broker.lock moves past "lock", except for the receiver goroutine,    *)
(* the timer and the server, which run without it.                         *)
(***************************************************************************)
EXTENDS Integers, Sequences, FiniteSets

CONSTANTS
  Callers,          \* goroutines of the application
  Ops,              \* what they call, a subset of AllOps
  MaxOps,           \* bound on the calls of each caller
  MaxOpens,         \* bound on the Open calls that start a goroutine
  MaxOpenRequests,  \* conf.Net.MaxOpenRequests
  MaxRequests,      \* bound on the correlation ids used
  MaxTimers,        \* bound on the throttle timers made
  Throttles,        \* the requests whose answer may ask for throttling
  Sasls,            \* how it authenticates: "off", "v0" (before there is a receiver) or "v1"
  Mechanisms,       \* conf.Net.SASL.Mechanism: "PLAIN", "SCRAM", "OAUTHBEARER" or "GSSAPI"
  Lifetimes,        \* the mechanisms for which the server limits the lifetime of a session
  ApiVersions,      \* Open ends with an ApiVersions request
  Faults            \* failures that happen: subset of {"dial", "break", "stray", "slow", "sasl", "encode"}

AllOps == {"open", "openBad", "async", "noacks", "call", "close"}

ASSUME BrokerAssumption ==
  /\ Ops \subseteq AllOps
  /\ MaxOps \in Nat /\ MaxOpens \in Nat /\ MaxRequests \in Nat /\ MaxTimers \in Nat
  /\ MaxOpenRequests \in Nat \ {0}
  /\ Throttles \subseteq {"async", "call"}
  /\ Sasls \subseteq {"off", "v0", "v1"}
  /\ Mechanisms \subseteq {"PLAIN", "SCRAM", "OAUTHBEARER", "GSSAPI"} /\ Lifetimes \subseteq Mechanisms
  /\ ApiVersions \in BOOLEAN
  /\ Faults \subseteq {"dial", "break", "stray", "slow", "sasl", "encode"}

VARIABLES
  conf,       \* the part of Config.Net.SASL that matters, fixed
  opened,     \* Broker.opened
  lock,       \* Broker.lock: its holder, or 0
  conn,       \* Broker.conn: "nil", "up", or "broken" (the peer is gone, not noticed yet)
  connErr,    \* Broker.connErr is set
  responses,  \* Broker.responses: "nil", "open" or "closed"
  queue,      \* the promises buffered in it
  rcv,        \* the responseReceiver goroutine: where it is, its promise, its timer
  dead,       \* its local variable dead is set
  replies,    \* the answers on the connection, oldest first
  nextId,     \* Broker.correlationID
  inFlight,   \* the requests-in-flight metric
  timer,      \* Broker.throttleTimer: the number of a timer, or 0 (nil)
  timers,     \* the timers made: "armed", "ready" (fired, not received) or "spent"
  session,    \* clientSessionReauthenticationTimeMs: "none", "fresh" or "expired"
  proc,       \* the goroutines: where they are and what they do
  opens,      \* Open calls that started a goroutine
  ops,        \* calls made by each caller
  fate,       \* history: what became of each correlation id
  history     \* history: whether the last SASL exchange succeeded, whether Open was refused
              \* without reason, whether a nil timer was used, throttlings asked for

vars == <<conf, opened, lock, conn, connErr, responses, queue, rcv, dead, replies, nextId,
          inFlight, timer, timers, session, proc, opens, ops, fate, history>>

Openers == 1..MaxOpens
Procs == Callers \union Openers
Ids == 0..(MaxRequests - 1)
NoProc == 0

\* A request that expects an answer, as the receiver knows it: its correlation
\* id, what it is and the goroutine that waits for it.
Promise == [id : Ids, what : {"async", "call", "hs", "auth", "abort"}, by : Procs]
NoPromise == [id |-> -1, what |-> "none", by |-> NoProc]

Idle == [pc |-> "idle", op |-> "none", what |-> "none", wait |-> 0, id |-> -1, ok |-> FALSE]

Init ==
  /\ conf \in [sasl : Sasls, mechanism : Mechanisms, handshake : BOOLEAN]
  \* Open replaces v0 by v1 for OAUTHBEARER and v1 by v0 for GSSAPI; SCRAM v0 always
  \* makes the handshake, GSSAPI never.
  /\ conf.mechanism = "OAUTHBEARER" => conf.sasl # "v0"
  /\ conf.mechanism = "GSSAPI" => conf.sasl # "v1" /\ ~conf.handshake
  /\ (conf.sasl = "off" /\ conf.mechanism # "GSSAPI") \/ (conf.sasl = "v0" /\ conf.mechanism = "SCRAM") => conf.handshake
  /\ opened = 0 /\ lock = NoProc /\ conn = "nil" /\ connErr = FALSE
  /\ responses = "nil" /\ queue = <<>> /\ dead = FALSE
  /\ rcv = [pc |-> "off", promise |-> NoPromise]
  /\ replies = <<>> /\ nextId = 0 /\ inFlight = 0
  /\ timer = 0 /\ timers = <<>> /\ session = "none"
  /\ proc = [p \in Procs |-> Idle]
  /\ opens = 0 /\ ops = [c \in Callers |-> 0]
  /\ fate = [i \in Ids |-> "unused"]
  /\ history = [authed |-> FALSE, refusedIdle |-> FALSE, panicked |-> FALSE, throttles |-> 0]

connVars == <<opened, conn, connErr, responses>>
rcvVars == <<queue, rcv, dead, replies>>
sendVars == <<nextId, inFlight, fate>>
timerVars == <<timer, timers>>
others == <<conf, opens, ops>>

At(p, pc) == proc[p].pc = pc
Goto(p, pc) == proc' = [proc EXCEPT ![p].pc = pc]

----------------------------------------------------------------------------
(* Open and Close.                                                          *)

Connecting == \E k \in Openers : proc[k].pc \notin {"idle"} /\ proc[k].op = "open"
Busy == conn # "nil" \/ Connecting \/ \E c \in Callers : At(c, "openLock")

\* A caller starts a call; Open tests the flag before anything else.
Call(c) ==
  /\ At(c, "idle") /\ ops[c] < MaxOps
  /\ ops' = [ops EXCEPT ![c] = @ + 1]
  /\ \E op \in Ops :
       \/ /\ op \in {"open", "openBad"} /\ opened = 1
          /\ history' = [history EXCEPT !.refusedIdle = @ \/ ~Busy]
          /\ UNCHANGED <<opened, proc>>
       \/ /\ op \in {"open", "openBad"} /\ opened = 0 /\ (op = "open" => opens < MaxOpens)
          /\ opened' = 1
          /\ proc' = IF op = "open" THEN [proc EXCEPT ![c].pc = "openLock", ![c].op = "open"] ELSE proc
          /\ UNCHANGED history
       \/ /\ op \notin {"open", "openBad"}
          /\ proc' = [proc EXCEPT ![c] = [Idle EXCEPT !.pc = "lock", !.op = op, !.what = op]]
          /\ UNCHANGED <<opened, history>>
  /\ UNCHANGED <<lock, conn, connErr, responses, rcvVars, sendVars, timerVars, session, conf, opens>>

\* Open takes the lock, starts the goroutine that connects, which keeps it, and returns.
OpenLock(c) ==
  /\ At(c, "openLock") /\ lock = NoProc
  /\ opens < MaxOpens
  /\ opens' = opens + 1 /\ lock' = opens + 1
  /\ proc' = [proc EXCEPT ![c] = Idle, ![opens + 1] = [Idle EXCEPT !.pc = "dial", !.op = "open"]]
  /\ UNCHANGED <<connVars, rcvVars, sendVars, timerVars, session, conf, ops, history>>

\* After the goroutine of Open has released the lock it may identify the client.
AfterOpen ==
  IF ApiVersions THEN [Idle EXCEPT !.pc = "lock", !.op = "call", !.what = "call"] ELSE Idle

\* The end of Open when the connection failed: it can be opened again.
OpenFails(k) ==
  /\ conn' = "nil" /\ connErr' = TRUE /\ opened' = 0 /\ lock' = NoProc
  /\ proc' = [proc EXCEPT ![k] = AfterOpen]

StartReceiver ==
  /\ responses' = "open" /\ queue' = <<>> /\ dead' = FALSE
  /\ rcv' = [pc |-> "recv", promise |-> NoPromise]

FirstSasl == IF conf.handshake THEN "hs" ELSE "auth"

Dial(k) ==
  /\ At(k, "dial")
  /\ \/ /\ "dial" \in Faults /\ OpenFails(k)
        /\ UNCHANGED <<responses, rcvVars, history>>
     \/ /\ conn' = "up" /\ connErr' = FALSE /\ replies' = <<>>
        /\ history' = [history EXCEPT !.authed = conf.sasl = "off"]
        /\ IF conf.sasl = "v0"
           THEN /\ proc' = [proc EXCEPT ![k].pc = "sasl0", ![k].what = FirstSasl]
                /\ UNCHANGED <<responses, queue, rcv, dead, lock>>
           ELSE /\ StartReceiver
                /\ IF conf.sasl = "v1"
                   THEN /\ proc' = [proc EXCEPT ![k].pc = "throttle", ![k].what = FirstSasl]
                        /\ UNCHANGED lock
                   ELSE /\ proc' = [proc EXCEPT ![k] = AfterOpen]
                        /\ lock' = NoProc
        /\ UNCHANGED opened
  /\ UNCHANGED <<sendVars, timerVars, session, others>>

\* What follows an accepted step of the exchange, or "done". The number of SCRAM
\* steps is the SCRAM client's business, bounded here by the ids that are left.
ScramGoesOn == conf.mechanism = "SCRAM" /\ nextId + 4 < MaxRequests
SaslNext(what, done, challenged) ==
  CASE what = "hs" -> "auth"
    [] what = "auth" /\ conf.mechanism = "SCRAM" /\ ~done -> "auth"
    [] what = "auth" /\ conf.mechanism = "OAUTHBEARER" /\ challenged -> "abort"
    [] OTHER -> "done"

\* One round trip of the exchange that SASL v0 makes on the bare connection,
\* before there is a receiver. The handshake and every SCRAM step take a
\* correlation id, the PLAIN credentials do not.
SaslV0(k) ==
  /\ At(k, "sasl0") /\ conf.mechanism # "GSSAPI"
  /\ \/ /\ "sasl" \in Faults \/ conn = "broken"
        /\ OpenFails(k)
        /\ UNCHANGED <<responses, rcvVars, nextId, fate, history>>
     \/ \E done \in BOOLEAN :
          LET what == proc[k].what
              next == SaslNext(what, done, FALSE)
              numbered == what = "hs" \/ conf.mechanism = "SCRAM"
          IN /\ numbered => nextId < MaxRequests
             /\ ~done => ScramGoesOn
             /\ nextId' = IF numbered THEN nextId + 1 ELSE nextId
             /\ fate' = IF numbered THEN [fate EXCEPT ![nextId] = "ok"] ELSE fate
             /\ IF next = "done"
                THEN /\ StartReceiver
                     /\ proc' = [proc EXCEPT ![k] = AfterOpen]
                     /\ lock' = NoProc
                     /\ history' = [history EXCEPT !.authed = TRUE]
                ELSE /\ proc' = [proc EXCEPT ![k].what = next]
                     /\ UNCHANGED <<responses, queue, rcv, dead, lock, history>>
             /\ UNCHANGED <<opened, conn, connErr, replies>>
  /\ UNCHANGED <<inFlight, timerVars, session, others>>

\* GSSAPI: two packets are written and the answer to the first is read. Reading it
\* counts a request as answered that was not counted as sent.
Kerberos(k) ==
  /\ At(k, "sasl0") /\ conf.mechanism = "GSSAPI"
  /\ \/ /\ "sasl" \in Faults \/ conn = "broken"
        /\ OpenFails(k)
        /\ inFlight' \in {inFlight, inFlight - 1}
        /\ UNCHANGED <<responses, rcvVars, history>>
     \/ /\ StartReceiver
        /\ inFlight' = inFlight - 1
        /\ proc' = [proc EXCEPT ![k] = AfterOpen]
        /\ lock' = NoProc
        /\ history' = [history EXCEPT !.authed = TRUE]
        /\ UNCHANGED <<opened, conn, connErr, replies>>
  /\ UNCHANGED <<nextId, fate, timerVars, session, others>>

Lock(p) ==
  /\ At(p, "lock") /\ lock = NoProc
  /\ lock' = p
  /\ Goto(p, IF proc[p].op = "close" THEN "close" ELSE "start")
  /\ UNCHANGED <<connVars, rcvVars, sendVars, timerVars, session, others, history>>

\* The goroutine returns from its call and releases the lock.
Return(p) == /\ proc' = [proc EXCEPT ![p] = Idle]
             /\ lock' = NoProc


\* Close: closes the channel of promises, waits for the receiver to end and
\* closes the connection. The throttle timer and the session time stay as they are.
Close(p) ==
  /\ \/ /\ At(p, "close") /\ conn = "nil"
        /\ Return(p)
        /\ UNCHANGED connVars
     \/ /\ At(p, "close") /\ conn # "nil"
        /\ responses' = "closed"
        /\ Goto(p, "done")
        /\ UNCHANGED <<opened, conn, connErr, lock>>
     \/ /\ At(p, "done") /\ rcv.pc = "off"
        /\ conn' = "nil" /\ connErr' = FALSE /\ responses' = "nil" /\ opened' = 0
        /\ Return(p)
  /\ UNCHANGED <<rcvVars, sendVars, timerVars, session, others, history>>

----------------------------------------------------------------------------
(* Sending: sendWithPromise and sendInternal, under the lock.               *)

\* Faulty variant: a session that must be renewed is not.
StartNoReauth(p) ==
  /\ At(p, "start")
  /\ IF conn = "nil" THEN Return(p) ELSE Goto(p, "throttle") /\ UNCHANGED lock
  /\ history' = [history EXCEPT !.authed = @ /\ session # "expired"]
  /\ UNCHANGED <<connVars, rcvVars, sendVars, timerVars, session, others>>

\* sendWithPromise: not connected; or the session must be renewed first.
Start(p) ==
  /\ At(p, "start")
  /\ IF conn = "nil" THEN Return(p)
     ELSE /\ proc' = [proc EXCEPT ![p].pc = "throttle",
                                  ![p].what = IF session = "expired" THEN FirstSasl ELSE @]
          /\ UNCHANGED lock
  /\ history' = [history EXCEPT !.authed = @ /\ ~(conn # "nil" /\ session = "expired")]
  /\ UNCHANGED <<connVars, rcvVars, sendVars, timerVars, session, others>>

\* SASL failed: Open takes the connection down again and gives up, the renewal
\* of a session makes the call fail and leaves the connection.
SaslFailed(p) ==
  IF proc[p].op = "open"
  THEN /\ responses' = "closed"
       /\ Goto(p, "openFailed")
       /\ UNCHANGED lock
  ELSE /\ Return(p)
       /\ UNCHANGED responses

InSasl(p) == proc[p].what \in {"hs", "auth", "abort"}

\* The request does not get on the wire: its version is not supported, it
\* cannot be encoded, or the write fails.
SendFails(p) ==
  /\ \/ At(p, "throttle") /\ "encode" \in Faults
     \/ At(p, "write") /\ conn = "broken"
  /\ IF InSasl(p) THEN SaslFailed(p) ELSE Return(p) /\ UNCHANGED responses
  /\ UNCHANGED <<opened, conn, connErr, rcvVars, sendVars, timerVars, session, others, history>>

\* waitIfThrottled: blocks on the timer it finds, then forgets the timer.
WaitIfThrottled(p) ==
  /\ \/ /\ At(p, "throttle")
        /\ proc' = [proc EXCEPT ![p].pc = IF timer = 0 THEN "write" ELSE "timer", ![p].wait = timer]
        /\ UNCHANGED timerVars
     \/ /\ At(p, "timer") /\ timers[proc[p].wait] = "ready"
        /\ timers' = [timers EXCEPT ![proc[p].wait] = "spent"]
        /\ Goto(p, "forget")
        /\ UNCHANGED timer
     \/ /\ At(p, "forget")
        /\ timer' = 0
        /\ Goto(p, "write")
        /\ UNCHANGED timers
  /\ UNCHANGED <<lock, connVars, rcvVars, sendVars, session, others, history>>

\* The write succeeds, also when the peer has gone but the client cannot know yet.
\* The correlation id is used up; a request without acknowledgement is finished.
Write(p) ==
  /\ At(p, "write") /\ nextId < MaxRequests
  /\ nextId' = nextId + 1
  /\ IF proc[p].what = "noacks"
     THEN /\ fate' = [fate EXCEPT ![nextId] = "noanswer"]
          /\ Return(p)
          /\ UNCHANGED inFlight
     ELSE /\ fate' = [fate EXCEPT ![nextId] = "sent"]
          /\ inFlight' = inFlight + 1
          /\ proc' = [proc EXCEPT ![p].pc = "enqueue", ![p].id = nextId]
          /\ UNCHANGED lock
  /\ UNCHANGED <<connVars, rcvVars, timerVars, session, others, history>>

\* The promise goes to the channel, which holds MaxOpenRequests - 1 of them;
\* the goroutine of an asynchronous request is then done.
Enqueue(p) ==
  /\ At(p, "enqueue")
  /\ LET promise == [id |-> proc[p].id, what |-> proc[p].what, by |-> p]
     IN \/ /\ Len(queue) < MaxOpenRequests - 1
           /\ queue' = Append(queue, promise)
           /\ UNCHANGED rcv
        \/ /\ MaxOpenRequests = 1 /\ rcv.pc = "recv"
           /\ rcv' = [pc |-> "read", promise |-> promise]
           /\ UNCHANGED queue
  /\ IF proc[p].what = "async" THEN Return(p) ELSE Goto(p, "await") /\ UNCHANGED lock
  /\ UNCHANGED <<connVars, dead, replies, sendVars, timerVars, session, others, history>>

----------------------------------------------------------------------------
(* The response receiver.                                                   *)

\* It takes the next promise; when the channel is closed and empty it ends.
Receive ==
  /\ rcv.pc = "recv"
  /\ \/ /\ queue # <<>>
        /\ rcv' = [pc |-> "read", promise |-> Head(queue)]
        /\ queue' = Tail(queue)
     \/ /\ queue = <<>> /\ responses = "closed"
        /\ rcv' = [rcv EXCEPT !.pc = "off"]
        /\ UNCHANGED queue
  /\ UNCHANGED <<lock, connVars, dead, replies, sendVars, timerVars, session, proc, others, history>>

\* handle: an asynchronous request gets its callback, a goroutine that waits its
\* answer. The promise is dropped.
Answer(result) ==
  LET pr == rcv.promise
  IN /\ fate' = [fate EXCEPT ![pr.id] = result]
     /\ rcv' = [pc |-> "recv", promise |-> NoPromise]
     /\ IF pr.what = "async" THEN UNCHANGED proc
        ELSE /\ At(pr.by, "await")
             /\ proc' = [proc EXCEPT ![pr.by].pc = "answered", ![pr.by].ok = result # "error"]

\* Faulty variant: the receiver ends at the first failure without answering the rest.
ReadStops ==
  /\ rcv.pc = "read" /\ dead
  /\ rcv' = [pc |-> "off", promise |-> NoPromise]
  /\ UNCHANGED <<lock, connVars, queue, dead, replies, sendVars, timerVars, session, proc, others, history>>

\* Once an answer could not be read every later promise fails at once.
ReadDead ==
  /\ rcv.pc = "read" /\ dead
  /\ inFlight' = inFlight - 1
  /\ Answer("error")
  /\ UNCHANGED <<lock, connVars, queue, dead, replies, nextId, timerVars, session, others, history>>

\* The connection breaks or the read deadline passes.
ReadFails ==
  /\ rcv.pc = "read" /\ ~dead
  /\ (conn = "broken" /\ replies = <<>>) \/ "slow" \in Faults
  /\ dead' = TRUE
  /\ inFlight' = inFlight - 1
  /\ Answer("error")
  /\ UNCHANGED <<lock, connVars, queue, replies, nextId, timerVars, session, others, history>>

\* An answer with another correlation id ends the use of the connection; the
\* right one is given to the promise, after the throttling it asks for when the
\* promise is a callback (a waiting goroutine does that itself).
ReadReply ==
  /\ rcv.pc = "read" /\ ~dead /\ replies # <<>>
  /\ replies' = Tail(replies)
  /\ inFlight' = inFlight - 1
  /\ IF Head(replies).id # rcv.promise.id
     THEN /\ dead' = TRUE
          /\ Answer("error")
     ELSE /\ UNCHANGED dead
          /\ IF rcv.promise.what = "async" /\ Head(replies).throttle
             THEN /\ rcv' = [rcv EXCEPT !.pc = "set"]
                  /\ UNCHANGED <<fate, proc>>
             ELSE Answer(IF Head(replies).throttle THEN "throttled" ELSE "ok")
  /\ UNCHANGED <<lock, connVars, queue, nextId, timerVars, session, others, history>>

----------------------------------------------------------------------------
(* setThrottle, by the receiver without the lock or by a caller under it.   *)

\* Tests the timer, stops it, and waits for it if it has fired: the field is read
\* each time, and a nil timer cannot be stopped. A new timer ends the operation.
SetThrottle(here, go(_), end) ==
  LET New == /\ timer' = Len(timers) + 1
             /\ end
  IN \/ /\ here = "set" /\ timer = 0
        /\ New /\ timers' = Append(timers, "armed")
        /\ UNCHANGED history
     \/ /\ here = "set" /\ timer # 0
        /\ go("stop")
        /\ UNCHANGED <<timerVars, history>>
     \/ /\ here = "stop" /\ timer # 0 /\ timers[timer] = "armed"
        /\ New /\ timers' = Append([timers EXCEPT ![timer] = "spent"], "armed")
        /\ UNCHANGED history
     \/ /\ here = "stop" /\ timer # 0 /\ timers[timer] # "armed"
        /\ go("drain")
        /\ UNCHANGED <<timerVars, history>>
     \/ /\ here = "drain" /\ timer # 0 /\ timers[timer] = "ready"
        /\ New /\ timers' = Append([timers EXCEPT ![timer] = "spent"], "armed")
        /\ UNCHANGED history
     \/ /\ here \in {"stop", "drain"} /\ timer = 0
        /\ go("panic")
        /\ history' = [history EXCEPT !.panicked = TRUE]
        /\ UNCHANGED timerVars

CallbackThrottle ==
  /\ rcv.pc \in {"set", "stop", "drain"}
  /\ SetThrottle(rcv.pc,
                 LAMBDA pc : rcv' = [rcv EXCEPT !.pc = pc] /\ UNCHANGED <<fate, proc>>,
                 Answer("ok"))
  /\ UNCHANGED <<lock, connVars, queue, dead, replies, nextId, inFlight, session, others>>

\* Faulty variant: the lock is released before the throttling.
AnsweredUnlocks(p) ==
  /\ At(p, "answered") /\ ~InSasl(p)
  /\ lock' = NoProc
  /\ proc' = [proc EXCEPT ![p] = IF proc[p].ok /\ fate[proc[p].id] = "throttled"
                                  THEN [@ EXCEPT !.pc = "set"] ELSE Idle]
  /\ UNCHANGED <<connVars, rcvVars, sendVars, timerVars, session, others, history>>

\* sendAndReceive after the answer: a failure is returned; a success is, after the
\* throttling it asks for.
Answered(p) ==
  /\ At(p, "answered") /\ ~InSasl(p)
  /\ IF proc[p].ok /\ fate[proc[p].id] = "throttled"
     THEN Goto(p, "set") /\ UNCHANGED lock
     ELSE Return(p)
  /\ UNCHANGED <<connVars, rcvVars, sendVars, timerVars, session, others, history>>

CallThrottle(p) ==
  /\ proc[p].pc \in {"set", "stop", "drain"}
  /\ SetThrottle(proc[p].pc, LAMBDA pc : Goto(p, pc) /\ UNCHANGED lock, Return(p))
  /\ UNCHANGED <<connVars, rcvVars, sendVars, session, others>>

TimerFires(t) ==
  /\ t \in DOMAIN timers /\ timers[t] = "armed"
  /\ timers' = [timers EXCEPT ![t] = "ready"]
  /\ UNCHANGED <<lock, connVars, rcvVars, sendVars, timer, session, proc, others, history>>

----------------------------------------------------------------------------
(* SASL through the receiver: authenticateViaSASLv1.                        *)

\* An answer of the exchange: a refusal, or a success, which sets the time of the
\* next authentication (only the last answer of an exchange tells a lifetime). A
\* challenge to an OAUTHBEARER token is a refusal that is aborted first. At the end
\* the goroutine of Open releases the lock and a caller goes on with its request.
SaslAnswered(p) ==
  /\ At(p, "answered") /\ InSasl(p)
  /\ \/ /\ ~proc[p].ok \/ "sasl" \in Faults \/ proc[p].what = "abort"
        /\ SaslFailed(p)
        /\ UNCHANGED <<session, history>>
     \/ \E done, challenged \in BOOLEAN :
          LET next == SaslNext(proc[p].what, done, challenged)
          IN /\ proc[p].ok /\ proc[p].what # "abort"
             /\ ~done => ScramGoesOn
             /\ challenged => "sasl" \in Faults
             /\ session' \in CASE proc[p].what = "hs" -> {session}
                                [] next = "done" /\ conf.mechanism \in Lifetimes -> {"none", "fresh"}
                                [] OTHER -> {"none"}
             /\ IF next # "done"
                THEN /\ proc' = [proc EXCEPT ![p].pc = "throttle", ![p].what = next]
                     /\ UNCHANGED <<lock, history>>
                ELSE /\ history' = [history EXCEPT !.authed = TRUE]
                     /\ IF proc[p].op = "open"
                        THEN proc' = [proc EXCEPT ![p] = AfterOpen] /\ lock' = NoProc
                        ELSE /\ proc' = [proc EXCEPT ![p].pc = "throttle", ![p].what = proc[p].op]
                             /\ UNCHANGED lock
             /\ UNCHANGED responses
  /\ UNCHANGED <<opened, conn, connErr, rcvVars, sendVars, timerVars, others>>

\* The goroutine of Open waits for the receiver before it closes the connection.
OpenGivesUp(k) ==
  /\ At(k, "openFailed") /\ rcv.pc = "off"
  /\ OpenFails(k)
  /\ UNCHANGED <<responses, rcvVars, sendVars, timerVars, session, others, history>>

SessionExpires ==
  /\ session = "fresh"
  /\ session' = "expired"
  /\ UNCHANGED <<lock, connVars, rcvVars, sendVars, timerVars, proc, others, history>>

----------------------------------------------------------------------------
(* The server and the network, as broker.go sees them.                      *)

WhatOf(i) == LET mine == {p \in Procs : proc[p].id = i}
             IN IF mine = {} THEN "async" ELSE proc[CHOOSE p \in mine : TRUE].what

\* The written requests that have not been answered, and those whose answer has
\* not been read off the connection.
Outstanding == {i \in Ids : fate[i] = "sent"}
Unread == Outstanding \ IF rcv.pc \in {"set", "stop", "drain", "panic"} THEN {rcv.promise.id} ELSE {}

\* The oldest request on the connection is answered, by its own id or, when the
\* stream is damaged, by another.
ServerAnswers ==
  /\ conn = "up"
  /\ \E i \in Unread :
       /\ \A j \in Unread : j < i => \E n \in DOMAIN replies : replies[n].for = j
       /\ ~ \E n \in DOMAIN replies : replies[n].for = i
       /\ \E throttle \in BOOLEAN, id \in Ids :
            /\ throttle => WhatOf(i) \in Throttles /\ history.throttles < MaxTimers
            /\ id # i => "stray" \in Faults /\ id = (i + 1) % MaxRequests
            /\ replies' = Append(replies, [for |-> i, id |-> id, throttle |-> throttle])
            /\ history' = [history EXCEPT !.throttles = @ + IF throttle THEN 1 ELSE 0]
  /\ UNCHANGED <<lock, connVars, queue, rcv, dead, sendVars, timerVars, session, proc, others>>

ConnectionBreaks ==
  /\ "break" \in Faults /\ conn = "up"
  /\ conn' = "broken"
  /\ UNCHANGED <<opened, lock, connErr, responses, rcvVars, sendVars, timerVars, session, proc, others, history>>

Step(p) == \/ Lock(p) \/ Close(p) \/ Start(p) \/ SendFails(p) \/ WaitIfThrottled(p) \/ Write(p)
           \/ Enqueue(p) \/ Answered(p) \/ CallThrottle(p) \/ SaslAnswered(p)

Opener(k) == Dial(k) \/ SaslV0(k) \/ Kerberos(k) \/ OpenGivesUp(k)

Receiver == Receive \/ ReadDead \/ ReadFails \/ ReadReply \/ CallbackThrottle

Next ==
  \/ \E c \in Callers : Call(c) \/ OpenLock(c)
  \/ \E k \in Openers : Opener(k)
  \/ \E p \in Procs : Step(p)
  \/ Receiver
  \/ \E t \in 1..MaxTimers : TimerFires(t)
  \/ SessionExpires \/ ServerAnswers \/ ConnectionBreaks

Spec == Init /\ [][Next]_vars

\* A goroutine that holds the lock or the processor goes on; Go's mutex is handed to
\* a goroutine that has waited long; a timer fires; and a read ends at the latest at
\* its deadline, so the receiver always gets on. The server owes nothing.
Fairness ==
  /\ \A c \in Callers : SF_vars(OpenLock(c))
  /\ \A k \in Openers : WF_vars(Opener(k))
  /\ \A p \in Procs : SF_vars(Lock(p)) /\ WF_vars(Step(p))
  /\ WF_vars(Receiver)
  /\ \A t \in 1..MaxTimers : WF_vars(TimerFires(t))

LiveSpec == Spec /\ Fairness

----------------------------------------------------------------------------
(* Properties.                                                              *)

\* The variables have the types of the fields and channels they stand for.
TypeOK ==
  /\ opened \in {0, 1} /\ lock \in Procs \union {NoProc}
  /\ conn \in {"nil", "up", "broken"} /\ connErr \in BOOLEAN
  /\ responses \in {"nil", "open", "closed"}
  /\ queue \in Seq(Promise) /\ Len(queue) < MaxOpenRequests
  /\ rcv.promise \in Promise \union {NoPromise}
  /\ timer \in 0..Len(timers) /\ Len(timers) <= MaxTimers
  /\ session \in {"none", "fresh", "expired"}
  /\ nextId \in 0..MaxRequests
  /\ fate \in [Ids -> {"unused", "sent", "noanswer", "ok", "throttled", "error", "foreign"}]

\* No promise is completed with the answer to another request: responseReceiver
\* compares correlation ids, also after the stream has been damaged or the
\* connection has been closed and opened again.
AnswersAreOwn == \A i \in Ids : fate[i] # "foreign"

\* When the connection is gone every request that was written on it has had its
\* callback or its answer: Close waits for the receiver, which fails what is left.
NothingLeftBehind == conn = "nil" => Outstanding = {}

\* Open only refuses when the broker "is already connected or connecting".
RefusedOnlyWhenBusy == ~history.refusedIdle

\* The requests-in-flight metric, "the current number of in-flight requests awaiting a
\* response", is the number of written requests whose answer has not been read,
\* whatever way they end.
InFlightExact == inFlight = Cardinality(Unread)

\* No more than MaxOpenRequests + 1 requests are on the wire: one that the receiver
\* reads, MaxOpenRequests - 1 in the channel, and one written by a goroutine that
\* waits for room in the channel.
WireBounded == Cardinality(Unread) <= MaxOpenRequests + 1

\* With SASL no request other than those of the exchange is written on a connection
\* whose last exchange has not succeeded: not before Open has authenticated, and not
\* after a renewal of the session has failed.
AuthFirst == [][\A p \in Procs : Write(p) /\ ~InSasl(p) => history.authed]_vars

\* A throttle timer that another goroutine has cleared is never used.
NoNilTimer == ~history.panicked

\* The books of a connection: the metric is exact, the channel and the wire hold no more
\* than MaxOpenRequests allows, and the throttle timer is there when it is used.
Bookkeeping == TypeOK /\ InFlightExact /\ WireBounded /\ NoNilTimer

\* Every call of the broker returns, Close and the goroutine of Open included. Calls are
\* bounded: that they all return is that in the end none is running.
CallsReturn == <>[](\A p \in Procs : At(p, "idle"))

\* AsyncProduce "sends a produce request and eventually call the provided callback
\* with a produce response or an error"; every waiting caller gets its answer too.
AnswersCome == <>[](\A i \in Ids : fate[i] # "sent")

\* Nothing waits for ever: every call returns and every request is answered.
AllDone == CallsReturn /\ AnswersCome
============================================================================
