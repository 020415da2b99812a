------------------------------- MODULE Server -------------------------------
(***************************************************************************)
(* How a request gets to the round and back: the accept loop of the onion    *)
(* service and its connection permits (network/tor.rs), the request timeout  *)
(* (api/middleware.rs, api/mod.rs), and the two tokio locks that handlers,   *)
(* monitor, timers, finalize task and heartbeat take (api/handlers.rs,       *)
(* run.rs, round/signing.rs).                                                *)
(*                                                                         *)
(* What is done under a lock is the business of Coordinator; here a call is  *)
(* the sequence of its awaits.  Whatever it checks may make it return early. *)
(***************************************************************************)
EXTENDS Naturals, FiniteSets, Sequences

CONSTANTS
    Streams,          \* bound: streams of clients, reused after they close
    Tasks,            \* bound: tasks of the coordinator that run at a time
    Finalizer,        \* the detached finalize task
    MaxConnections    \* coordinator.max_concurrent_connections

\* validate() and serve_onion_service refuse 0.
ASSUME ServerAssumption ==
    /\ IsFiniteSet(Streams)
    /\ Streams \cap Tasks = {}
    /\ Finalizer \notin Streams \cup Tasks
    /\ MaxConnections \in Nat \ {0}

Actors == Streams \cup Tasks \cup {Finalizer}

Locks == {"round", "bans"}

VARIABLES
    arrivals,   \* stream_requests: streams in the order they came
    stream,     \* where each stream is
    permits,    \* conn_sem
    todo,       \* actor -> the awaits of its call that are left
    queue,      \* lock -> actors waiting, in order
    held        \* lock -> guards: <<actor, "read" or "write">>

acceptVars == <<arrivals, stream, permits>>
callVars == <<todo, queue, held>>
vars == <<acceptVars, callVars>>

-----------------------------------------------------------------------------
(* The calls.                                                              *)

Read(lock) == [op |-> "read", on |-> lock]
Write(lock) == [op |-> "write", on |-> lock]

\* The guards that the call has go out of scope.
Drop == [op |-> "drop", on |-> "all"]

\* An RPC, which has a timeout of its own, or the key generation.
Call == [op |-> "call", on |-> "other"]

\* tokio::spawn(finalize_broadcast) and rx.await.
Spawn == [op |-> "spawn", on |-> "finalizer"]
Reply == [op |-> "reply", on |-> "finalizer"]

Requests == {"info", "tx", "input", "output", "sign"}

\* A signing timer that finds another round or phase is a phase timer.
Jobs == {"monitor", "heartbeat", "phase timer", "signing timer"}

FinalizeWithBlame_BansFirst == <<Call, Write("bans"), Write("round"), Drop>>

\* finalize_broadcast after a failure; the signing timer takes the same order.
FinalizeWithBlame == <<Call, Write("round"), Write("bans"), Drop>>

\* Every handler looks at the phase under a read guard and drops it before it asks
\* for the write guard; the ban list is only asked for alone or after the round.
Program(kind) ==
    CASE kind \in {"info", "tx", "heartbeat"} -> <<Read("round"), Drop>>
      [] kind = "phase timer" -> <<Write("round"), Drop>>
      [] kind = "output" -> <<Read("round"), Drop, Write("round"), Drop>>
      [] kind = "monitor" -> <<Read("round"), Drop, Call, Write("round"), Drop>>
      [] kind = "input" -> <<Read("round"), Drop, Read("bans"), Drop, Read("round"),
                             Drop, Call, Write("round"), Drop>>
      [] kind = "sign" -> <<Read("round"), Drop, Write("round"), Drop, Spawn, Reply>>
      [] kind = "signing timer" -> <<Write("round"), Write("bans"), Drop>>
      [] kind = "finalize" -> <<Call, Write("round"), Drop>>
      [] kind = "finalize with blame" -> FinalizeWithBlame

Runs(a) == todo[a] # <<>>

At(a, step) == Runs(a) /\ Head(todo[a]) = step

GuardsWithout(a) == [l \in Locks |-> {g \in held[l] : g[1] # a}]

\* An actor waits in a queue at most once.
Without(q, a) ==
    IF \E i \in DOMAIN q : q[i] = a
    THEN LET i == CHOOSE i \in DOMAIN q : q[i] = a
         IN SubSeq(q, 1, i - 1) \o SubSeq(q, i + 1, Len(q))
    ELSE q

QueuesWithout(a) == [l \in Locks |-> Without(queue[l], a)]

\* The queues when call a goes on with steps: lock.read() and lock.write() join one.
QueuesWith(a, steps) ==
    [l \in Locks |-> IF Head(steps) \in {Read(l), Write(l)} THEN Append(queue[l], a)
                                                            ELSE queue[l]]

\* The call is over, or its future is dropped: its guards and its place in a queue
\* go with it, and the end of the finalize task is what its caller waits for.
Ends(a) ==
    /\ held' = GuardsWithout(a)
    /\ queue' = QueuesWithout(a)
    /\ todo' = [b \in Actors |->
                   IF b = a \/ (a = Finalizer /\ At(b, Reply)) THEN <<>> ELSE todo[b]]

\* tokio's RwLock is fair: only the first in the queue is let in, readers together.
CanBeLetIn(l) ==
    /\ queue[l] # <<>>
    /\ \A g \in held[l] : Head(todo[Head(queue[l])]).op = "read" /\ g[2] = "read"

Granted(l) ==
    /\ CanBeLetIn(l)
    /\ LET a == Head(queue[l])
       IN /\ held' = [held EXCEPT ![l] = @ \cup {<<a, Head(todo[a]).op>>}]
          /\ todo' = [todo EXCEPT ![a] = Tail(@)]
          /\ queue' = [QueuesWith(a, Tail(todo[a])) EXCEPT ![l] = Tail(@)]
    /\ UNCHANGED acceptVars

\* A block ends, or an RPC does.
Continues(a) ==
    /\ At(a, Drop) \/ At(a, Call)
    /\ Len(todo[a]) > 1
    /\ held' = IF At(a, Drop) THEN GuardsWithout(a) ELSE held
    /\ todo' = [todo EXCEPT ![a] = Tail(@)]
    /\ queue' = QueuesWith(a, Tail(todo[a]))
    /\ UNCHANGED acceptVars

\* The call has the processor, or waits for nothing but an RPC.
GoesOn(a) == At(a, Drop) \/ At(a, Call) \/ At(a, Spawn)

\* The call returns, at its end or because of something it found.
Returns(a) ==
    /\ GoesOn(a)
    /\ Ends(a)
    /\ UNCHANGED acceptVars

Starts(a, kind) ==
    /\ ~Runs(a)
    /\ todo' = [todo EXCEPT ![a] = Program(kind)]
    /\ queue' = QueuesWith(a, Program(kind))
    /\ UNCHANGED <<acceptVars, held>>

\* The signature was the last one.  One finalize task at a time is a bound.
SpawnsFinalizer(s) ==
    /\ At(s, Spawn)
    /\ ~Runs(Finalizer)
    /\ \E kind \in {"finalize", "finalize with blame"} :
          todo' = [todo EXCEPT ![s] = Tail(@), ![Finalizer] = Program(kind)]
    /\ UNCHANGED <<acceptVars, queue, held>>

Requested(s) ==
    /\ stream[s] = "open"
    /\ \E kind \in Requests : Starts(s, kind)

Scheduled(t) == \E kind \in Jobs : Starts(t, kind)

\* TimeoutLayer answers 408 and drops the handler's future, at any of its awaits; a
\* finalize task that it waits for goes on.
TimesOut(s) ==
    /\ Runs(s)
    /\ Ends(s)
    /\ UNCHANGED acceptVars

-----------------------------------------------------------------------------
(* serve_onion_service.                                                    *)

Arrives(s) ==
    /\ stream[s] = "none"
    /\ stream' = [stream EXCEPT ![s] = "asking"]
    /\ arrivals' = Append(arrivals, s)
    /\ UNCHANGED <<permits, callVars>>

\* The loop has done with the stream before: next().await, then acquire_owned().await,
\* before the stream is accepted.  One that waits for its permit is still in arrivals.
AcquirePermit ==
    /\ arrivals # <<>>
    /\ \A s \in Streams : stream[s] # "accepting"
    /\ permits > 0
    /\ permits' = permits - 1
    /\ stream' = [stream EXCEPT ![Head(arrivals)] = "accepting"]
    /\ arrivals' = Tail(arrivals)
    /\ UNCHANGED callVars

Accepted_GuardNotMoved(s) ==
    /\ stream[s] = "accepting"
    /\ stream' = [stream EXCEPT ![s] = "open"]
    /\ permits' = permits + 1
    /\ UNCHANGED <<arrivals, callVars>>

\* accept(): the ConnectionGuard moves into the task that serves the connection.
Accepted(s) ==
    /\ stream[s] = "accepting"
    /\ stream' = [stream EXCEPT ![s] = "open"]
    /\ UNCHANGED <<permits, arrivals, callVars>>

AcceptFails_LeaksPermit(s) ==
    /\ stream[s] = "accepting"
    /\ stream' = [stream EXCEPT ![s] = "none"]
    /\ UNCHANGED <<permits, arrivals, callVars>>

AcceptFails(s) ==
    /\ stream[s] = "accepting"
    /\ stream' = [stream EXCEPT ![s] = "none"]
    /\ permits' = permits + 1
    /\ UNCHANGED <<arrivals, callVars>>

\* serve_connection returns, with or without a request under way.
Closes(s) ==
    /\ stream[s] = "open"
    /\ stream' = [stream EXCEPT ![s] = "none"]
    /\ permits' = permits + 1
    /\ Ends(s)
    /\ UNCHANGED arrivals

-----------------------------------------------------------------------------
(* The specification.                                                      *)

Init ==
    /\ arrivals = <<>>
    /\ stream = [s \in Streams |-> "none"]
    /\ permits = MaxConnections
    /\ todo = [a \in Actors |-> <<>>]
    /\ queue = [l \in Locks |-> <<>>]
    /\ held = [l \in Locks |-> {}]

\* What the runtime does for a call that nobody disturbs.
Progress(a) == Continues(a) \/ Returns(a)

Next ==
    \/ \E a \in Actors : Progress(a)
    \/ \E l \in Locks : Granted(l)
    \/ \E t \in Tasks : Scheduled(t)
    \/ AcquirePermit
    \/ \E s \in Streams :
          \/ SpawnsFinalizer(s)
          \/ Requested(s)
          \/ TimesOut(s)
          \/ Arrives(s)
          \/ Accepted(s)
          \/ AcceptFails(s)
          \/ Closes(s)

Spec == Init /\ [][Next]_vars

\* Calls are polled, the lock lets the first in, and the accept loop runs.  A client
\* does not keep a connection for ever on which nothing is asked; nothing else is
\* expected of it, and no request relies on TimesOut.
FairSpec ==
    /\ Spec
    /\ \A a \in Actors : WF_vars(Progress(a))
    /\ \A l \in Locks : WF_vars(Granted(l))
    /\ WF_vars(AcquirePermit)
    /\ \A s \in Streams :
          /\ WF_vars(Accepted(s) \/ AcceptFails(s))
          /\ SF_vars(~Runs(s) /\ Closes(s))

-----------------------------------------------------------------------------
(* Properties.                                                             *)

\* Nobody waits in a circle: every handler, timer and task that asks for the round
\* and the ban list gets them and comes to its end, although the signing timer and
\* the finalize task hold the round while they wait for the bans, and one request
\* waits for the finalize task (run.rs, handlers.rs, finalize_broadcast).  No
\* request timeout and no closing connection is needed for it.
EveryCallEnds == \A a \in Actors : Runs(a) ~> ~Runs(a)

\* The order that makes it so: a call that holds the ban list waits for nothing, and
\* one that holds the round waits for nothing but the ban list (signing.rs:507, the
\* signing timer in run.rs; every handler drops its guards before it awaits).
LockOrder ==
    /\ \A g \in held["bans"] : At(g[1], Drop)
    /\ \A g \in held["round"] : At(g[1], Drop) \/ At(g[1], Write("bans"))

\* As long as a call is under way the runtime can go on: one of them waits for no
\* other call, or the first in the queue of a lock can be let in.
NobodyIsStuck ==
    (\E a \in Actors : Runs(a)) =>
        \/ \E a \in Actors : GoesOn(a)
        \/ \E l \in Locks : CanBeLetIn(l)

\* A permit lost on any path would stop the accept loop for good: every stream that
\* arrives is taken and accepted, or its accept fails (serve_onion_service).
StreamsAreAccepted ==
    \A s \in Streams : stream[s] = "asking" ~> stream[s] \in {"open", "none"}

\* There are never more connections than the cap, since each holds its permit until
\* it closes (ConnectionGuard).
ConnectionsAreCapped ==
    Cardinality({s \in Streams : stream[s] = "open"}) <= MaxConnections

=============================================================================
