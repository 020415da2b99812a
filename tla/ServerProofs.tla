---------------------------- MODULE ServerProofs ----------------------------
(***************************************************************************)
(* For any number of streams and tasks and any cap: no permit of the accept  *)
(* loop is lost or invented, so the cap holds; and the two locks are taken   *)
(* in one order, so that nobody waits in a circle.                           *)
(***************************************************************************)
EXTENDS Server, FiniteSetTheorems, SequenceTheorems, TLAPS

\* Where a stream has a permit: taken by the loop for it, or in its connection.
Holding == {s \in Streams : stream[s] \in {"accepting", "open"}}

StreamTypeOK ==
    /\ arrivals \in Seq(Streams)
    /\ stream \in [Streams -> {"none", "asking", "accepting", "open"}]
    /\ permits \in Nat

\* A stream waits in arrivals once, and only before it is accepted.
ArrivalsAsk ==
    /\ \A i \in DOMAIN arrivals : stream[arrivals[i]] = "asking"
    /\ \A i, j \in DOMAIN arrivals : i # j => arrivals[i] # arrivals[j]

\* Every permit is free or held by one stream.
PermitsAreConserved == permits + Cardinality(Holding) = MaxConnections

PermitInv == StreamTypeOK /\ ArrivalsAsk /\ PermitsAreConserved

-----------------------------------------------------------------------------

LEMMA HoldingFinite == IsFiniteSet(Holding) /\ Cardinality(Holding) \in Nat
BY ServerAssumption, FS_Subset, FS_CardinalityType DEF Holding

\* A permit moves between the semaphore and one stream.
LEMMA PermitTaken ==
    ASSUME NEW s \in Streams, s \notin Holding, Holding' = Holding \cup {s}
    PROVE  Cardinality(Holding)' = Cardinality(Holding) + 1
BY HoldingFinite, FS_AddElement

LEMMA PermitReleased ==
    ASSUME NEW s \in Holding, Holding' = Holding \ {s}
    PROVE  Cardinality(Holding)' = Cardinality(Holding) - 1
BY HoldingFinite, FS_RemoveElement

LEMMA PermitInit == Init => PermitInv
<1> SUFFICES ASSUME Init PROVE PermitInv
  OBVIOUS
<1>1. StreamTypeOK /\ ArrivalsAsk
  BY ServerAssumption DEF Init, StreamTypeOK, ArrivalsAsk
<1>2. Holding = {}
  BY DEF Init, Holding
<1>3. PermitsAreConserved
  BY <1>2, FS_EmptySet, ServerAssumption DEF Init, PermitsAreConserved
<1> QED
  BY <1>1, <1>3 DEF PermitInv

\* Whatever changes neither the streams nor the permits keeps the invariant.
LEMMA PermitsUntouched ==
    ASSUME PermitInv, UNCHANGED acceptVars
    PROVE  PermitInv'
BY DEF PermitInv, StreamTypeOK, ArrivalsAsk, PermitsAreConserved, Holding, acceptVars

\* A stream that is not in arrivals may change its place.
LEMMA ArrivalsKept ==
    ASSUME PermitInv, NEW s \in Streams, stream[s] # "asking", UNCHANGED arrivals,
           NEW where \in {"none", "open"}, stream' = [stream EXCEPT ![s] = where]
    PROVE  ArrivalsAsk'
BY DEF PermitInv, StreamTypeOK, ArrivalsAsk

LEMMA ArrivesKeeps ==
    ASSUME PermitInv, NEW s \in Streams, Arrives(s)
    PROVE  PermitInv'
<1> USE DEF PermitInv, StreamTypeOK, Arrives
<1>1. StreamTypeOK'
  OBVIOUS
<1>2. /\ DOMAIN arrivals' = 1..(Len(arrivals) + 1)
      /\ \A i \in 1..Len(arrivals) : arrivals'[i] = arrivals[i]
      /\ arrivals'[Len(arrivals) + 1] = s
  OBVIOUS
<1>3. \A i \in 1..Len(arrivals) : arrivals[i] # s
  BY DEF ArrivalsAsk
<1>4. \A i \in DOMAIN arrivals' : stream'[arrivals'[i]] = "asking"
  BY <1>2, <1>3 DEF ArrivalsAsk
<1>5. \A i, j \in DOMAIN arrivals' : i # j => arrivals'[i] # arrivals'[j]
  BY <1>2, <1>3 DEF ArrivalsAsk
<1>6. Holding' = Holding
  BY DEF Holding
<1> QED
  BY <1>1, <1>4, <1>5, <1>6 DEF ArrivalsAsk, PermitsAreConserved

LEMMA AcquirePermitKeeps ==
    ASSUME PermitInv, AcquirePermit
    PROVE  PermitInv'
<1> DEFINE s == Head(arrivals)
<1> USE DEF PermitInv, StreamTypeOK, AcquirePermit
<1>1. /\ s \in Streams /\ s = arrivals[1] /\ 1 \in DOMAIN arrivals
      /\ arrivals' \in Seq(Streams)
  OBVIOUS
<1>2. stream[s] = "asking"
  BY <1>1 DEF ArrivalsAsk
<1>3. StreamTypeOK'
  BY <1>1
<1>4. \A i \in DOMAIN arrivals' :
          /\ i + 1 \in DOMAIN arrivals
          /\ arrivals'[i] = arrivals[i + 1]
          /\ i \in Nat
          /\ i + 1 # 1
  BY <1>1
<1>5. \A i \in DOMAIN arrivals' : arrivals'[i] # s
  BY <1>1, <1>4 DEF ArrivalsAsk
<1>6. \A i \in DOMAIN arrivals' : stream'[arrivals'[i]] = "asking"
  BY <1>4, <1>5 DEF ArrivalsAsk
<1>7. \A i, j \in DOMAIN arrivals' : i # j => arrivals'[i] # arrivals'[j]
  BY <1>4 DEF ArrivalsAsk
<1>8. s \notin Holding /\ Holding' = Holding \cup {s}
  BY <1>1, <1>2 DEF Holding
<1>9. Cardinality(Holding)' = Cardinality(Holding) + 1
  BY <1>1, <1>8, PermitTaken
<1> QED
  BY <1>3, <1>6, <1>7, <1>9, HoldingFinite, ServerAssumption
  DEF ArrivalsAsk, PermitsAreConserved

LEMMA AcceptedKeeps ==
    ASSUME PermitInv, NEW s \in Streams, Accepted(s)
    PROVE  PermitInv'
<1>1. StreamTypeOK' /\ ArrivalsAsk'
  BY ArrivalsKept DEF PermitInv, StreamTypeOK, Accepted
<1>2. Holding' = Holding
  BY DEF PermitInv, StreamTypeOK, Accepted, Holding
<1> QED
  BY <1>1, <1>2 DEF PermitInv, PermitsAreConserved, Accepted

\* AcceptFails and Closes: the stream is gone and its permit is back.
LEMMA ReleaseKeeps ==
    ASSUME PermitInv, NEW s \in Holding, UNCHANGED arrivals,
           stream' = [stream EXCEPT ![s] = "none"], permits' = permits + 1
    PROVE  PermitInv'
<1>1. s \in Streams /\ stream[s] # "asking"
  BY DEF Holding
<1>2. StreamTypeOK'
  BY <1>1 DEF PermitInv, StreamTypeOK
<1>3. ArrivalsAsk'
  BY <1>1, ArrivalsKept
<1>4. Holding' = Holding \ {s}
  BY <1>1 DEF PermitInv, StreamTypeOK, Holding
<1>5. Cardinality(Holding)' = Cardinality(Holding) - 1
  BY <1>4, PermitReleased
<1> QED
  BY <1>2, <1>3, <1>5, HoldingFinite, ServerAssumption
  DEF PermitInv, StreamTypeOK, PermitsAreConserved

LEMMA PermitStep == PermitInv /\ [Next]_vars => PermitInv'
<1> SUFFICES ASSUME PermitInv, [Next]_vars PROVE PermitInv'
  OBVIOUS
<1>1. CASE UNCHANGED vars
  BY <1>1, PermitsUntouched DEF vars
<1>2. CASE \E a \in Actors : Progress(a)
  BY <1>2, PermitsUntouched DEF Progress, Continues, Returns
<1>3. CASE \E l \in Locks : Granted(l)
  BY <1>3, PermitsUntouched DEF Granted
<1>4. CASE \E t \in Tasks : Scheduled(t)
  BY <1>4, PermitsUntouched DEF Scheduled, Starts
<1>5. CASE AcquirePermit
  BY <1>5, AcquirePermitKeeps
<1>6. ASSUME NEW s \in Streams, SpawnsFinalizer(s) \/ Requested(s) \/ TimesOut(s)
      PROVE  PermitInv'
  BY <1>6, PermitsUntouched DEF SpawnsFinalizer, Requested, Starts, TimesOut
<1>7. ASSUME NEW s \in Streams, Arrives(s) PROVE PermitInv'
  BY <1>7, ArrivesKeeps
<1>8. ASSUME NEW s \in Streams, Accepted(s) PROVE PermitInv'
  BY <1>8, AcceptedKeeps
<1>9. ASSUME NEW s \in Streams, AcceptFails(s) \/ Closes(s) PROVE PermitInv'
  BY <1>9, ReleaseKeeps DEF AcceptFails, Closes, Holding
<1> QED
  BY <1>1, <1>2, <1>3, <1>4, <1>5, <1>6, <1>7, <1>8, <1>9 DEF Next

\* At any time each permit is free, or it is held by one stream that is being
\* accepted or served (the drop on a failed accept, ConnectionGuard).
THEOREM PermitsConserved == Spec => []PermitInv
BY PermitInit, PermitStep, PTL DEF Spec

LEMMA CapHolds == PermitInv => ConnectionsAreCapped
<1> SUFFICES ASSUME PermitInv PROVE ConnectionsAreCapped
  OBVIOUS
<1> DEFINE open == {s \in Streams : stream[s] = "open"}
<1>1. open \subseteq Holding
  BY DEF Holding
<1>2. /\ IsFiniteSet(open)
      /\ Cardinality(open) <= Cardinality(Holding)
  BY <1>1, HoldingFinite, FS_Subset
<1>3. Cardinality(open) \in Nat
  BY <1>2, FS_CardinalityType
<1>4. Cardinality(Holding) <= MaxConnections
  BY HoldingFinite, ServerAssumption
  DEF PermitInv, StreamTypeOK, PermitsAreConserved
<1> QED
  BY <1>2, <1>3, <1>4, HoldingFinite, ServerAssumption DEF ConnectionsAreCapped

\* The connection cap holds for every cap and any number of streams, whatever the
\* requests on them do (serve_onion_service).
THEOREM CapNeverExceeded == Spec => []ConnectionsAreCapped
BY PermitsConserved, CapHolds, PTL

-----------------------------------------------------------------------------
(* The locks.  What a call may still do is given by what it does next, so the  *)
(* invariant is about the steps that follow each other in a call.            *)

Steps == {Read("round"), Read("bans"), Write("round"), Write("bans"),
          Drop, Call, Spawn, Reply}

\* Right after it was let in a call drops its guards, or asks for the bans under the
\* write guard of the round; and only who spawned the finalize task waits for it.
MayFollow(x, y) ==
    /\ x \in {Read("round"), Read("bans"), Write("bans")} => y = Drop
    /\ x = Write("round") => y \in {Drop, Write("bans")}
    /\ x = Spawn <=> y = Reply

IsCall(p) ==
    /\ p \in Seq(Steps)
    /\ \A i \in 1..(Len(p) - 1) : MayFollow(p[i], p[i + 1])
    /\ p # <<>> => p[Len(p)] \in {Drop, Reply}

WaitsForNoReply(p) == \A i \in 1..Len(p) : p[i] \notin {Spawn, Reply}

IsIn(a, q) == \E i \in 1..Len(q) : q[i] = a

Once(q) == \A i, j \in 1..Len(q) : q[i] = q[j] => i = j

Waits(a, l) == At(a, Read(l)) \/ At(a, Write(l))

LockTypeOK ==
    /\ todo \in [Actors -> Seq(Steps)]
    /\ queue \in [Locks -> Seq(Actors)]
    /\ held \in [Locks -> SUBSET (Actors \X {"read", "write"})]

CallsAreCalls ==
    /\ \A a \in Actors : IsCall(todo[a])
    /\ WaitsForNoReply(todo[Finalizer])

\* Who waits for a lock is in its queue, once, and nobody else is.
QueuesAreWaiters ==
    \A l \in Locks : /\ Once(queue[l])
                     /\ \A a \in Actors : IsIn(a, queue[l]) <=> Waits(a, l)

ReplyIsComing == \A a \in Actors : At(a, Reply) => Runs(Finalizer)

LockInv ==
    /\ LockTypeOK
    /\ CallsAreCalls
    /\ QueuesAreWaiters
    /\ LockOrder
    /\ ReplyIsComing

LEMMA ActorFacts ==
    /\ Finalizer \in Actors /\ Streams \subseteq Actors /\ Tasks \subseteq Actors
    /\ Finalizer \notin Streams /\ Finalizer \notin Tasks
BY ServerAssumption DEF Actors

\* The steps are eight different ones; what they are made of matters no further.
LEMMA StepFacts ==
    /\ Steps = {Read("round"), Read("bans"), Write("round"), Write("bans"),
                Drop, Call, Spawn, Reply}
    /\ Read("round") # Read("bans") /\ Write("round") # Write("bans")
    /\ \A l, m \in Locks : Read(l) # Write(m)
    /\ \A l \in Locks : /\ Read(l) \in Steps /\ Read(l).op = "read"
                        /\ Write(l) \in Steps /\ Write(l).op = "write"
                        /\ Read(l) \notin {Drop, Call, Spawn, Reply}
                        /\ Write(l) \notin {Drop, Call, Spawn, Reply}
    /\ Drop \in Steps /\ Call \in Steps /\ Spawn \in Steps /\ Reply \in Steps
    /\ Drop # Call /\ Drop # Spawn /\ Drop # Reply
    /\ Call # Spawn /\ Call # Reply /\ Spawn # Reply
    /\ Locks = {"round", "bans"} /\ "round" # "bans"
<1>1. /\ Read("round").on = "round" /\ Read("bans").on = "bans"
      /\ Write("round").on = "round" /\ Write("bans").on = "bans"
  BY DEF Read, Write
<1>2. \A l \in Locks : Read(l).op = "read" /\ Write(l).op = "write"
  BY DEF Read, Write
<1>3. Drop.op = "drop" /\ Call.op = "call" /\ Spawn.op = "spawn" /\ Reply.op = "reply"
  BY DEF Drop, Call, Spawn, Reply
<1>4. Locks = {"round", "bans"} /\ "round" # "bans"
  BY DEF Locks
<1>5. /\ Steps = {Read("round"), Read("bans"), Write("round"), Write("bans"),
                  Drop, Call, Spawn, Reply}
      /\ Drop \in Steps /\ Call \in Steps /\ Spawn \in Steps /\ Reply \in Steps
  BY DEF Steps
<1>6. \A l \in Locks : Read(l) \in Steps /\ Write(l) \in Steps
  BY <1>4, <1>5
<1> QED
  BY <1>1, <1>2, <1>3, <1>4, <1>5, <1>6

LEMMA MembersOfSteps ==
    /\ Read("round") \in Steps /\ Read("bans") \in Steps
    /\ Write("round") \in Steps /\ Write("bans") \in Steps
    /\ Drop \in Steps /\ Call \in Steps /\ Spawn \in Steps /\ Reply \in Steps
BY DEF Steps

LEMMA PairsMayFollow ==
    /\ MayFollow(Read("round"), Drop) /\ MayFollow(Read("bans"), Drop)
    /\ MayFollow(Write("round"), Drop) /\ MayFollow(Write("bans"), Drop)
    /\ MayFollow(Write("round"), Write("bans"))
    /\ MayFollow(Drop, Read("round")) /\ MayFollow(Drop, Read("bans"))
    /\ MayFollow(Drop, Write("round")) /\ MayFollow(Drop, Call) /\ MayFollow(Drop, Spawn)
    /\ MayFollow(Call, Write("round"))
    /\ MayFollow(Spawn, Reply)
BY StepFacts DEF MayFollow

\* How a call may start: not with an answer that nobody was asked for.
IsWholeCall(p) ==
    /\ IsCall(p)
    /\ p # <<>>
    /\ Head(p) \in {Read("round"), Write("round"), Call}

LEMMA WholeCalls ==
    /\ IsWholeCall(<<Read("round"), Drop>>)
    /\ IsWholeCall(<<Write("round"), Drop>>)
    /\ IsWholeCall(<<Read("round"), Drop, Write("round"), Drop>>)
    /\ IsWholeCall(<<Read("round"), Drop, Call, Write("round"), Drop>>)
    /\ IsWholeCall(<<Read("round"), Drop, Read("bans"), Drop, Read("round"),
                      Drop, Call, Write("round"), Drop>>)
    /\ IsWholeCall(<<Read("round"), Drop, Write("round"), Drop, Spawn, Reply>>)
    /\ IsWholeCall(<<Write("round"), Write("bans"), Drop>>)
    /\ IsWholeCall(<<Call, Write("round"), Drop>>)
    /\ IsWholeCall(FinalizeWithBlame)
<1>1. IsWholeCall(<<Read("round"), Drop>>)
  <2> SUFFICES ASSUME NEW p, p = <<Read("round"), Drop>> PROVE IsWholeCall(p)
    OBVIOUS
  <2>1. /\ p \in Seq(Steps) /\ Len(p) = 2 /\ Head(p) = p[1]
        /\ p[1] = Read("round") /\ p[2] = Drop
    BY MembersOfSteps
  <2>2. 1..(Len(p) - 1) = {1} /\ p # <<>>
    BY <2>1
  <2> QED
    BY <2>1, <2>2, PairsMayFollow DEF IsCall, IsWholeCall
<1>2. IsWholeCall(<<Write("round"), Drop>>)
  <2> SUFFICES ASSUME NEW p, p = <<Write("round"), Drop>> PROVE IsWholeCall(p)
    OBVIOUS
  <2>1. /\ p \in Seq(Steps) /\ Len(p) = 2 /\ Head(p) = p[1]
        /\ p[1] = Write("round") /\ p[2] = Drop
    BY MembersOfSteps
  <2>2. 1..(Len(p) - 1) = {1} /\ p # <<>>
    BY <2>1
  <2> QED
    BY <2>1, <2>2, PairsMayFollow DEF IsCall, IsWholeCall
<1>3. IsWholeCall(<<Read("round"), Drop, Write("round"), Drop>>)
  <2> SUFFICES ASSUME NEW p, p = <<Read("round"), Drop, Write("round"), Drop>> PROVE IsWholeCall(p)
    OBVIOUS
  <2>1. /\ p \in Seq(Steps) /\ Len(p) = 4 /\ Head(p) = p[1]
        /\ p[1] = Read("round") /\ p[2] = Drop /\ p[3] = Write("round")
        /\ p[4] = Drop
    BY MembersOfSteps
  <2>2. 1..(Len(p) - 1) = {1, 2, 3} /\ p # <<>>
    BY <2>1
  <2> QED
    BY <2>1, <2>2, PairsMayFollow DEF IsCall, IsWholeCall
<1>4. IsWholeCall(<<Read("round"), Drop, Call, Write("round"), Drop>>)
  <2> SUFFICES ASSUME NEW p, p = <<Read("round"), Drop, Call, Write("round"), Drop>> PROVE IsWholeCall(p)
    OBVIOUS
  <2>1. /\ p \in Seq(Steps) /\ Len(p) = 5 /\ Head(p) = p[1]
        /\ p[1] = Read("round") /\ p[2] = Drop /\ p[3] = Call
        /\ p[4] = Write("round") /\ p[5] = Drop
    BY MembersOfSteps
  <2>2. 1..(Len(p) - 1) = {1, 2, 3, 4} /\ p # <<>>
    BY <2>1
  <2> QED
    BY <2>1, <2>2, PairsMayFollow DEF IsCall, IsWholeCall
<1>5. IsWholeCall(<<Read("round"), Drop, Read("bans"), Drop, Read("round"),
                    Drop, Call, Write("round"), Drop>>)
  <2> SUFFICES ASSUME NEW p,
                      p = <<Read("round"), Drop, Read("bans"), Drop, Read("round"),
                              Drop, Call, Write("round"), Drop>>
               PROVE  IsWholeCall(p)
    OBVIOUS
  <2>1. /\ p \in Seq(Steps) /\ Len(p) = 9 /\ Head(p) = p[1]
        /\ p[1] = Read("round") /\ p[2] = Drop /\ p[3] = Read("bans")
        /\ p[4] = Drop /\ p[5] = Read("round") /\ p[6] = Drop
        /\ p[7] = Call /\ p[8] = Write("round") /\ p[9] = Drop
    BY MembersOfSteps
  <2>2. 1..(Len(p) - 1) = {1, 2, 3, 4, 5, 6, 7, 8} /\ p # <<>>
    BY <2>1
  <2> QED
    BY <2>1, <2>2, PairsMayFollow DEF IsCall, IsWholeCall
<1>6. IsWholeCall(<<Read("round"), Drop, Write("round"), Drop, Spawn, Reply>>)
  <2> SUFFICES ASSUME NEW p, p = <<Read("round"), Drop, Write("round"), Drop, Spawn, Reply>> PROVE IsWholeCall(p)
    OBVIOUS
  <2>1. /\ p \in Seq(Steps) /\ Len(p) = 6 /\ Head(p) = p[1]
        /\ p[1] = Read("round") /\ p[2] = Drop /\ p[3] = Write("round")
        /\ p[4] = Drop /\ p[5] = Spawn /\ p[6] = Reply
    BY MembersOfSteps
  <2>2. 1..(Len(p) - 1) = {1, 2, 3, 4, 5} /\ p # <<>>
    BY <2>1
  <2> QED
    BY <2>1, <2>2, PairsMayFollow DEF IsCall, IsWholeCall
<1>7. IsWholeCall(<<Write("round"), Write("bans"), Drop>>)
  <2> SUFFICES ASSUME NEW p, p = <<Write("round"), Write("bans"), Drop>> PROVE IsWholeCall(p)
    OBVIOUS
  <2>1. /\ p \in Seq(Steps) /\ Len(p) = 3 /\ Head(p) = p[1]
        /\ p[1] = Write("round") /\ p[2] = Write("bans") /\ p[3] = Drop
    BY MembersOfSteps
  <2>2. 1..(Len(p) - 1) = {1, 2} /\ p # <<>>
    BY <2>1
  <2> QED
    BY <2>1, <2>2, PairsMayFollow DEF IsCall, IsWholeCall
<1>8. IsWholeCall(<<Call, Write("round"), Drop>>)
  <2> SUFFICES ASSUME NEW p, p = <<Call, Write("round"), Drop>> PROVE IsWholeCall(p)
    OBVIOUS
  <2>1. /\ p \in Seq(Steps) /\ Len(p) = 3 /\ Head(p) = p[1]
        /\ p[1] = Call /\ p[2] = Write("round") /\ p[3] = Drop
    BY MembersOfSteps
  <2>2. 1..(Len(p) - 1) = {1, 2} /\ p # <<>>
    BY <2>1
  <2> QED
    BY <2>1, <2>2, PairsMayFollow DEF IsCall, IsWholeCall
<1>9. IsWholeCall(FinalizeWithBlame)
  <2> SUFFICES ASSUME NEW p, p = FinalizeWithBlame PROVE IsWholeCall(p)
    OBVIOUS
  <2>1. /\ p \in Seq(Steps) /\ Len(p) = 4 /\ Head(p) = p[1]
        /\ p[1] = Call /\ p[2] = Write("round") /\ p[3] = Write("bans")
        /\ p[4] = Drop
    BY MembersOfSteps DEF FinalizeWithBlame
  <2>2. 1..(Len(p) - 1) = {1, 2, 3} /\ p # <<>>
    BY <2>1
  <2> QED
    BY <2>1, <2>2, PairsMayFollow DEF IsCall, IsWholeCall
<1> QED
  BY <1>1, <1>2, <1>3, <1>4, <1>5, <1>6, <1>7, <1>8, <1>9

LEMMA FinalizerWaitsForNoReply ==
    /\ WaitsForNoReply(<<Call, Write("round"), Drop>>)
    /\ Head(<<Call, Write("round"), Drop>>) = Call
    /\ WaitsForNoReply(FinalizeWithBlame)
    /\ Head(FinalizeWithBlame) = Call
BY StepFacts DEF WaitsForNoReply, FinalizeWithBlame

LEMMA ProgramIsCall ==
    /\ \A kind \in Requests \cup Jobs : IsWholeCall(Program(kind))
    /\ \A kind \in {"finalize", "finalize with blame"} :
          /\ IsWholeCall(Program(kind))
          /\ WaitsForNoReply(Program(kind))
          /\ Head(Program(kind)) = Call
BY WholeCalls, FinalizerWaitsForNoReply DEF Program, Requests, Jobs

\* What is left of a call after its first step is a call.
LEMMA RestIsCall ==
    ASSUME NEW p, IsCall(p), p # <<>>
    PROVE  /\ IsCall(Tail(p))
           /\ WaitsForNoReply(p) => WaitsForNoReply(Tail(p))
           /\ Tail(p) = <<>> => Head(p) \in {Drop, Reply}
           /\ Tail(p) # <<>> => MayFollow(Head(p), Head(Tail(p)))
           /\ Head(p) \in Steps
           /\ WaitsForNoReply(p) => Head(p) \notin {Spawn, Reply}
<1>1. /\ p \in Seq(Steps) /\ Len(p) \in Nat /\ Len(p) > 0
      /\ Head(p) = p[1] /\ Head(p) \in Steps
  BY DEF IsCall
<1>2. /\ Tail(p) \in Seq(Steps)
      /\ Len(Tail(p)) = Len(p) - 1
      /\ \A i \in 1..Len(Tail(p)) : Tail(p)[i] = p[i + 1]
  BY <1>1
<1>3. \A i \in 1..(Len(Tail(p)) - 1) : MayFollow(Tail(p)[i], Tail(p)[i + 1])
  <2> SUFFICES ASSUME NEW i \in 1..(Len(Tail(p)) - 1)
               PROVE  MayFollow(Tail(p)[i], Tail(p)[i + 1])
    OBVIOUS
  <2>1. i + 1 \in 1..(Len(p) - 1) /\ i \in 1..Len(Tail(p)) /\ i + 1 \in 1..Len(Tail(p))
    BY <1>1, <1>2
  <2> QED
    BY <1>2, <2>1 DEF IsCall
<1>4. Tail(p) # <<>> => Tail(p)[Len(Tail(p))] \in {Drop, Reply}
  <2> SUFFICES ASSUME Tail(p) # <<>> PROVE Tail(p)[Len(Tail(p))] \in {Drop, Reply}
    OBVIOUS
  <2>1. Len(Tail(p)) \in 1..Len(Tail(p)) /\ Len(Tail(p)) + 1 = Len(p)
    BY <1>1, <1>2
  <2>2. Tail(p)[Len(Tail(p))] = p[Len(p)]
    BY <1>2, <2>1
  <2> QED
    BY <2>2, <1>1 DEF IsCall
<1>5. IsCall(Tail(p))
  BY <1>2, <1>3, <1>4 DEF IsCall
<1>6. WaitsForNoReply(p) =>
          /\ WaitsForNoReply(Tail(p))
          /\ Head(p) \notin {Spawn, Reply}
  <2> SUFFICES ASSUME WaitsForNoReply(p)
               PROVE  WaitsForNoReply(Tail(p)) /\ Head(p) \notin {Spawn, Reply}
    OBVIOUS
  <2>1. \A i \in 1..Len(Tail(p)) : i + 1 \in 1..Len(p)
    BY <1>1, <1>2
  <2>2. 1 \in 1..Len(p)
    BY <1>1
  <2> QED
    BY <1>1, <1>2, <2>1, <2>2 DEF WaitsForNoReply
<1>7. Tail(p) = <<>> => Head(p) \in {Drop, Reply}
  <2>0. Len(<<>>) = 0
    OBVIOUS
  <2>1. Tail(p) = <<>> => Len(Tail(p)) = 0
    BY <2>0, Zenon
  <2>2. Len(Tail(p)) = 0 => Len(p) = 1
    <3>1. Len(p) \in Nat /\ Len(Tail(p)) = Len(p) - 1
      BY <1>1, <1>2
    <3> DEFINE n == Len(p)
    <3> HIDE DEF n
    <3>2. n \in Nat /\ n - 1 = 0 => n = 1
      OBVIOUS
    <3> QED
      BY <3>1, <3>2 DEF n
  <2>3. Len(p) = 1 => Head(p) \in {Drop, Reply}
    BY <1>1 DEF IsCall
  <2> QED
    BY <2>1, <2>2, <2>3
<1>8. Tail(p) # <<>> => MayFollow(Head(p), Head(Tail(p)))
  <2> SUFFICES ASSUME Tail(p) # <<>> PROVE MayFollow(Head(p), Head(Tail(p)))
    OBVIOUS
  <2>1. /\ 1 \in 1..(Len(p) - 1) /\ 1 \in 1..Len(Tail(p))
        /\ Head(Tail(p)) = Tail(p)[1]
    BY <1>1, <1>2
  <2>2. Head(Tail(p)) = p[1 + 1]
    BY <1>2, <2>1
  <2> QED
    BY <1>1, <2>1, <2>2 DEF IsCall
<1> QED
  BY <1>1, <1>5, <1>6, <1>7, <1>8

-----------------------------------------------------------------------------
(* Queues.                                                                 *)

LEMMA JoinsQueue ==
    ASSUME NEW S, NEW q \in Seq(S), NEW a \in S, Once(q), ~IsIn(a, q)
    PROVE  /\ Append(q, a) \in Seq(S)
           /\ Once(Append(q, a))
           /\ \A b : IsIn(b, Append(q, a)) <=> b = a \/ IsIn(b, q)
<1>1. /\ Append(q, a) \in Seq(S)
      /\ Len(Append(q, a)) = Len(q) + 1 /\ Len(q) \in Nat
      /\ \A i \in 1..Len(q) : Append(q, a)[i] = q[i]
      /\ Append(q, a)[Len(q) + 1] = a
  OBVIOUS
<1>2. \A i \in 1..(Len(q) + 1) : i \in 1..Len(q) \/ i = Len(q) + 1
  BY <1>1
<1>3. Len(q) + 1 \in 1..(Len(q) + 1) /\ 1..Len(q) \subseteq 1..(Len(q) + 1)
  BY <1>1
<1> QED
  BY <1>1, <1>2, <1>3 DEF Once, IsIn

LEMMA LeavesFront ==
    ASSUME NEW S, NEW q \in Seq(S), q # <<>>, Once(q)
    PROVE  /\ Tail(q) \in Seq(S)
           /\ Once(Tail(q))
           /\ Head(q) \in S /\ IsIn(Head(q), q)
           /\ \A b : IsIn(b, Tail(q)) <=> b # Head(q) /\ IsIn(b, q)
<1>1. /\ Tail(q) \in Seq(S) /\ Head(q) \in S
      /\ Len(Tail(q)) = Len(q) - 1 /\ Len(q) \in Nat /\ 1 \in 1..Len(q)
      /\ \A i \in 1..Len(Tail(q)) : Tail(q)[i] = q[i + 1]
      /\ Head(q) = q[1]
  OBVIOUS
<1>2. \A i \in 1..Len(Tail(q)) : i + 1 \in 1..Len(q) /\ i + 1 # 1
  BY <1>1
<1>3. \A i \in 1..Len(q) : i # 1 => i - 1 \in 1..Len(Tail(q)) /\ (i - 1) + 1 = i
  BY <1>1
<1>4. \A i, j \in 1..Len(Tail(q)) : i + 1 = j + 1 => i = j
  BY <1>1
<1>5. Once(Tail(q))
  BY <1>1, <1>2, <1>4 DEF Once
<1>6. ASSUME NEW b, IsIn(b, Tail(q)) PROVE b # Head(q) /\ IsIn(b, q)
  BY <1>1, <1>2, <1>6 DEF Once, IsIn
<1>7. ASSUME NEW b, b # Head(q), IsIn(b, q) PROVE IsIn(b, Tail(q))
  <2>1. PICK i \in 1..Len(q) : q[i] = b
    BY <1>7 DEF IsIn
  <2>2. i # 1 /\ i - 1 \in 1..Len(Tail(q)) /\ (i - 1) + 1 = i
    BY <1>1, <1>3, <1>7, <2>1
  <2> QED
    BY <1>1, <2>1, <2>2 DEF IsIn
<1> QED
  BY <1>1, <1>5, <1>6, <1>7 DEF IsIn

LEMMA LeavesQueue ==
    ASSUME NEW S, NEW q \in Seq(S), NEW a, Once(q)
    PROVE  /\ Without(q, a) \in Seq(S)
           /\ Once(Without(q, a))
           /\ \A b : IsIn(b, Without(q, a)) <=> b # a /\ IsIn(b, q)
<1>0. DOMAIN q = 1..Len(q) /\ Len(q) \in Nat
  OBVIOUS
<1>1. CASE ~IsIn(a, q)
  BY <1>0, <1>1 DEF Without, IsIn
<1>2. CASE IsIn(a, q)
  <2>1. PICK k : /\ k \in 1..Len(q) /\ q[k] = a
                 /\ Without(q, a) = SubSeq(q, 1, k - 1) \o SubSeq(q, k + 1, Len(q))
    BY <1>0, <1>2 DEF Without, IsIn
  <2>2. PICK w : w = Without(q, a)
    OBVIOUS
  <2>3. k \in Int /\ k >= 1 /\ k <= Len(q)
    BY <2>1, <1>0
  <2> DEFINE u == SubSeq(q, 1, k - 1)
             v == SubSeq(q, k + 1, Len(q))
  <2>3a. /\ 1 \in Int /\ k - 1 \in Int /\ k + 1 \in Int /\ Len(q) \in Int
         /\ \A i \in 1..(k - 1) : i \in 1..Len(q)
         /\ \A i \in (k + 1)..Len(q) : i \in 1..Len(q)
    BY <1>0, <2>3
  <2>3b. /\ \A i \in 1..(k - 1) : q[i] \in S
         /\ \A i \in (k + 1)..Len(q) : q[i] \in S
    BY <1>0, <2>3a
  <2>3c. /\ u \in Seq(S)
         /\ Len(u) = IF 1 <= k - 1 THEN (k - 1) - 1 + 1 ELSE 0
         /\ \A i \in 1..((k - 1) - 1 + 1) : u[i] = q[1 + i - 1]
    BY <2>3a, <2>3b, SubSeqProperties
  <2>3d. /\ v \in Seq(S)
         /\ Len(v) = IF k + 1 <= Len(q) THEN Len(q) - (k + 1) + 1 ELSE 0
         /\ \A i \in 1..(Len(q) - (k + 1) + 1) : v[i] = q[(k + 1) + i - 1]
    BY <2>3a, <2>3b, SubSeqProperties
  <2>3e. /\ u \o v \in Seq(S)
         /\ Len(u \o v) = Len(u) + Len(v)
         /\ \A i \in 1..(Len(u) + Len(v)) :
               (u \o v)[i] = IF i <= Len(u) THEN u[i] ELSE v[i - Len(u)]
    BY <2>3c, <2>3d, ConcatProperties
  <2>3f. w = u \o v
    BY <2>1, <2>2
  <2> HIDE DEF u, v
  <2>4. /\ Len(u) = k - 1 /\ Len(v) = Len(q) - k
        /\ Len(u) \in Nat /\ Len(v) \in Nat
    <3> DEFINE n == Len(q)
    <3>0. n \in Int /\ k \in Int /\ k >= 1 /\ k <= n
      BY <2>3, <1>0
    <3> HIDE DEF n
    <3>1. (IF 1 <= k - 1 THEN (k - 1) - 1 + 1 ELSE 0) = k - 1
      BY <3>0
    <3>2. (IF k + 1 <= n THEN n - (k + 1) + 1 ELSE 0) = n - k
      BY <3>0
    <3>3. k - 1 \in Nat /\ Len(q) - k \in Nat
      BY <2>3, <1>0
    <3> QED
      BY <2>3c, <2>3d, <3>1, <3>2, <3>3 DEF n
  <2>5. /\ w \in Seq(S) /\ Len(w) = Len(q) - 1
        /\ \A i \in 1..(Len(q) - 1) : w[i] = IF i < k THEN q[i] ELSE q[i + 1]
    <3>0. (k - 1) + (Len(q) - k) = Len(q) - 1
      BY <2>3, <1>0
    <3>1. w \in Seq(S) /\ Len(w) = Len(q) - 1
      BY <2>3e, <2>3f, <2>4, <3>0
    <3>2. ASSUME NEW i \in 1..(Len(q) - 1), i < k PROVE w[i] = q[i]
      <4>1. /\ i \in 1..(Len(u) + Len(v)) /\ i <= Len(u)
            /\ i \in 1..((k - 1) - 1 + 1) /\ 1 + i - 1 = i
        BY <3>2, <2>4, <2>3, <1>0
      <4> QED
        BY <4>1, <2>3c, <2>3e, <2>3f
    <3>3. ASSUME NEW i \in 1..(Len(q) - 1), ~(i < k) PROVE w[i] = q[i + 1]
      <4>1. /\ i \in 1..(Len(u) + Len(v)) /\ ~(i <= Len(u))
            /\ i - Len(u) \in 1..(Len(q) - (k + 1) + 1)
            /\ (k + 1) + (i - Len(u)) - 1 = i + 1
        BY <3>3, <2>4, <2>3, <1>0
      <4> QED
        BY <4>1, <2>3d, <2>3e, <2>3f
    <3> QED
      BY <3>1, <3>2, <3>3
  <2>6. \A i \in 1..(Len(q) - 1) : /\ i \in 1..Len(q) /\ i + 1 \in 1..Len(q)
                                   /\ i < k => i # k
                                   /\ ~(i < k) => i + 1 # k
    BY <1>0, <2>3
  <2>7. Once(w)
    <3> SUFFICES ASSUME NEW i \in 1..(Len(q) - 1), NEW j \in 1..(Len(q) - 1), w[i] = w[j]
                 PROVE  i = j
      BY <2>5 DEF Once
    <3> DEFINE at(n) == IF n < k THEN n ELSE n + 1
    <3>1. at(i) \in 1..Len(q) /\ at(j) \in 1..Len(q) /\ q[at(i)] = q[at(j)]
      BY <2>5, <2>6
    <3>2. at(i) = at(j)
      BY <3>1 DEF Once
    <3> QED
      BY <3>2, <2>3, <1>0
  <2>8. ASSUME NEW b, IsIn(b, w) PROVE b # a /\ IsIn(b, q)
    BY <2>1, <2>5, <2>6, <2>8 DEF Once, IsIn
  <2>9. ASSUME NEW b, b # a, IsIn(b, q) PROVE IsIn(b, w)
    <3>1. PICK i \in 1..Len(q) : q[i] = b
      BY <2>9 DEF IsIn
    <3>2. i # k
      BY <2>1, <2>9, <3>1
    <3>3. CASE i < k
      <4>1. i \in 1..(Len(q) - 1)
        BY <1>0, <2>3, <3>3
      <4> QED
        BY <2>5, <3>1, <3>3, <4>1 DEF IsIn
    <3>4. CASE i > k
      <4>1. i - 1 \in 1..(Len(q) - 1) /\ ~(i - 1 < k) /\ (i - 1) + 1 = i
        BY <1>0, <2>3, <3>4
      <4> QED
        BY <2>5, <3>1, <4>1 DEF IsIn
    <3> QED
      BY <1>0, <2>3, <3>2, <3>3, <3>4
  <2> QED
    BY <2>2, <2>5, <2>7, <2>8, <2>9
<1> QED
  BY <1>1, <1>2

-----------------------------------------------------------------------------
(* What one step changes.                                                  *)

LEMMA OneStepAtATime ==
    ASSUME NEW a, NEW x, NEW y, At(a, x), At(a, y)
    PROVE  x = y
BY DEF At

\* The call of a is replaced by p, and nobody else's.
LEMMA Moved ==
    ASSUME LockTypeOK, NEW a \in Actors, NEW p \in Seq(Steps),
           todo' = [todo EXCEPT ![a] = p]
    PROVE  /\ todo' \in [Actors -> Seq(Steps)]
           /\ todo'[a] = p
           /\ \A b \in Actors \ {a} : todo'[b] = todo[b]
           /\ \A b \in Actors \ {a} : Runs(b)' <=> Runs(b)
           /\ \A b \in Actors \ {a} : \A x : At(b, x)' <=> At(b, x)
           /\ \A b \in Actors \ {a} : \A l : Waits(b, l)' <=> Waits(b, l)
           /\ Runs(a)' <=> p # <<>>
           /\ \A x : At(a, x)' <=> p # <<>> /\ Head(p) = x
<1>1. /\ todo' \in [Actors -> Seq(Steps)]
      /\ todo'[a] = p
      /\ \A b \in Actors \ {a} : todo'[b] = todo[b]
  BY DEF LockTypeOK
<1> QED
  BY <1>1 DEF Runs, At, Waits

LEMMA CallsKept ==
    ASSUME LockInv, NEW a \in Actors, NEW p, IsCall(p),
           a = Finalizer => WaitsForNoReply(p),
           todo' = [todo EXCEPT ![a] = p]
    PROVE  CallsAreCalls'
<1>1. /\ todo'[a] = p
      /\ \A b \in Actors \ {a} : todo'[b] = todo[b]
  BY Moved DEF LockInv, IsCall
<1> QED
  BY <1>1, ActorFacts DEF LockInv, CallsAreCalls

\* A call that waits for no lock goes on with p, and joins a queue if p says so.
LEMMA QueuesKept ==
    ASSUME LockInv, NEW a \in Actors, NEW p \in Seq(Steps), p # <<>>,
           \A l \in Locks : ~Waits(a, l),
           todo' = [todo EXCEPT ![a] = p],
           queue' = QueuesWith(a, p)
    PROVE  queue' \in [Locks -> Seq(Actors)] /\ QueuesAreWaiters'
<1> SUFFICES ASSUME NEW l \in Locks
             PROVE  /\ queue'[l] \in Seq(Actors)
                    /\ Once(queue'[l])
                    /\ \A b \in Actors : IsIn(b, queue'[l]) <=> Waits(b, l)'
  BY DEF QueuesAreWaiters, QueuesWith
<1>1. /\ queue[l] \in Seq(Actors) /\ Once(queue[l])
      /\ \A b \in Actors : IsIn(b, queue[l]) <=> Waits(b, l)
      /\ ~IsIn(a, queue[l])
  BY DEF LockInv, LockTypeOK, QueuesAreWaiters
<1>2. /\ \A b \in Actors \ {a} : Waits(b, l)' <=> Waits(b, l)
      /\ Waits(a, l)' <=> Head(p) \in {Read(l), Write(l)}
  BY Moved DEF LockInv, Waits
<1>3. CASE Head(p) \in {Read(l), Write(l)}
  <2>1. queue'[l] = Append(queue[l], a)
    BY <1>3 DEF QueuesWith
  <2> QED
    BY <1>1, <1>2, <1>3, <2>1, JoinsQueue
<1>4. CASE Head(p) \notin {Read(l), Write(l)}
  <2>1. queue'[l] = queue[l]
    BY <1>4 DEF QueuesWith
  <2> QED
    BY <1>1, <1>2, <1>4, <2>1
<1> QED
  BY <1>3, <1>4

\* Guards are only given up, all those of a among them.
LEMMA OrderKept ==
    ASSUME LockInv, NEW a \in Actors, NEW p \in Seq(Steps),
           todo' = [todo EXCEPT ![a] = p],
           held' \in [Locks -> SUBSET (Actors \X {"read", "write"})],
           \A l \in Locks : held'[l] \subseteq held[l],
           \A l \in Locks : \A g \in held'[l] : g[1] # a
    PROVE  LockOrder'
<1>1. \A l \in Locks : \A g \in held'[l] : g[1] \in Actors \ {a} /\ g \in held[l]
  OBVIOUS
<1>2. \A b \in Actors \ {a} : \A x : At(b, x)' <=> At(b, x)
  BY Moved DEF LockInv
<1> QED
  BY <1>1, <1>2, StepFacts DEF LockInv, LockOrder

\* Only who is about to drop its guards or asks for the bans has one.
LEMMA NoGuard ==
    ASSUME LockInv, NEW a, ~At(a, Drop), ~At(a, Write("bans")), NEW l \in Locks,
           NEW g \in held[l]
    PROVE  g[1] # a
BY StepFacts DEF LockInv, LockOrder

LEMMA GuardsAreOfActors ==
    ASSUME LockInv, NEW l \in Locks, NEW g \in held[l]
    PROVE  g[1] \in Actors
BY DEF LockInv, LockTypeOK

LEMMA GuardsDropped ==
    ASSUME LockInv, NEW a
    PROVE  /\ GuardsWithout(a) \in [Locks -> SUBSET (Actors \X {"read", "write"})]
           /\ \A l \in Locks : /\ GuardsWithout(a)[l] \subseteq held[l]
                               /\ \A g \in GuardsWithout(a)[l] : g[1] # a
BY DEF LockInv, LockTypeOK, GuardsWithout

\* A call that goes on, but has not spawned a finalize task, comes to no Reply.
LEMMA GoesOnAsCall ==
    ASSUME LockInv, NEW a \in Actors, Runs(a), ~At(a, Spawn), Tail(todo[a]) # <<>>,
           todo' = [todo EXCEPT ![a] = Tail(@)]
    PROVE  /\ Tail(todo[a]) \in Seq(Steps)
           /\ MayFollow(Head(todo[a]), Head(Tail(todo[a])))
           /\ todo' = [todo EXCEPT ![a] = Tail(todo[a])]
           /\ todo' \in [Actors -> Seq(Steps)]
           /\ CallsAreCalls'
           /\ ReplyIsComing'
<1> PICK p : p = Tail(todo[a])
  OBVIOUS
<1>1. /\ IsCall(todo[a]) /\ todo[a] # <<>>
      /\ a = Finalizer => WaitsForNoReply(todo[a])
  BY DEF LockInv, CallsAreCalls, Runs
<1>2. /\ IsCall(p)
      /\ a = Finalizer => WaitsForNoReply(p)
      /\ MayFollow(Head(todo[a]), Head(p))
  BY <1>1, RestIsCall
<1>3. p \in Seq(Steps) /\ p # <<>>
  BY <1>2 DEF IsCall
<1>4. todo' = [todo EXCEPT ![a] = p]
  BY DEF LockInv, LockTypeOK
<1>5. CallsAreCalls'
  BY <1>2, <1>4, CallsKept
<1>6. Head(p) # Reply
  BY <1>2 DEF MayFollow, At
<1>7. /\ todo' \in [Actors -> Seq(Steps)]
      /\ \A b \in Actors \ {a} : Runs(b)' <=> Runs(b)
      /\ \A b \in Actors \ {a} : At(b, Reply)' <=> At(b, Reply)
      /\ Runs(a)' /\ ~At(a, Reply)'
  BY <1>3, <1>4, <1>6, Moved DEF LockInv
<1>8. ReplyIsComing'
  BY <1>7, ActorFacts DEF LockInv, ReplyIsComing
<1> QED
  BY <1>2, <1>3, <1>4, <1>5, <1>7, <1>8

-----------------------------------------------------------------------------
(* The invariant of the locks.                                             *)

LEMMA LockInit == Init => LockInv
<1> SUFFICES ASSUME Init PROVE LockInv
  OBVIOUS
<1>1. \A a \in Actors : todo[a] = <<>> /\ ~Runs(a)
  BY DEF Init, Runs
<1>2. \A l \in Locks : queue[l] = <<>> /\ held[l] = {}
  BY DEF Init
<1>3. LockTypeOK
  BY DEF Init, LockTypeOK
<1>4. IsCall(<<>>) /\ WaitsForNoReply(<<>>)
  BY DEF IsCall, WaitsForNoReply
<1>5. Once(<<>>) /\ \A a : ~IsIn(a, <<>>)
  BY DEF Once, IsIn
<1> QED
  BY <1>1, <1>2, <1>3, <1>4, <1>5, ActorFacts, StepFacts
  DEF LockInv, CallsAreCalls, QueuesAreWaiters, LockOrder, ReplyIsComing, Waits, At

LEMMA ContinuesKeepsLocks ==
    ASSUME LockInv, NEW a \in Actors, Continues(a)
    PROVE  LockInv'
<1> PICK p : p = Tail(todo[a])
  OBVIOUS
<1>1. At(a, Drop) \/ At(a, Call)
  BY DEF Continues
<1>2. /\ Runs(a) /\ ~At(a, Spawn) /\ \A l \in Locks : ~Waits(a, l)
      /\ ~At(a, Write("bans"))
  BY <1>1, StepFacts, OneStepAtATime DEF At, Waits
<1>3. todo[a] \in Seq(Steps) /\ Len(todo[a]) > 1
  BY DEF Continues, LockInv, LockTypeOK
<1>4. p # <<>>
  <2>1. todo[a] # <<>> /\ Len(Tail(todo[a])) = Len(todo[a]) - 1
    BY <1>3, HeadTailProperties
  <2>2. Len(p) # 0
    BY <1>3, <2>1
  <2>3. Len(<<>>) = 0
    OBVIOUS
  <2> QED
    BY <2>2, <2>3
<1>5. /\ p \in Seq(Steps) /\ todo' = [todo EXCEPT ![a] = p]
      /\ todo' \in [Actors -> Seq(Steps)]
      /\ CallsAreCalls' /\ ReplyIsComing'
  BY <1>2, <1>4, GoesOnAsCall DEF Continues
<1>6. queue' \in [Locks -> Seq(Actors)] /\ QueuesAreWaiters'
  BY <1>2, <1>4, <1>5, QueuesKept DEF Continues
<1>7. /\ held' \in [Locks -> SUBSET (Actors \X {"read", "write"})]
      /\ \A l \in Locks : /\ held'[l] \subseteq held[l]
                          /\ \A g \in held'[l] : g[1] # a
  <2>1. CASE At(a, Drop)
    BY <2>1, GuardsDropped DEF Continues
  <2>2. CASE ~At(a, Drop)
    BY <1>2, <2>2, NoGuard DEF Continues, LockInv, LockTypeOK
  <2> QED
    BY <2>1, <2>2
<1>8. LockOrder'
  BY <1>5, <1>7, OrderKept
<1> QED
  BY <1>5, <1>6, <1>7, <1>8 DEF LockInv, LockTypeOK

LEMMA EndsKeepsLocks ==
    ASSUME LockInv, NEW a \in Actors, Ends(a)
    PROVE  LockInv'
<1> DEFINE over == {b \in Actors : b = a \/ (a = Finalizer /\ At(b, Reply))}
<1>1. /\ \A b \in over : todo'[b] = <<>>
      /\ \A b \in Actors \ over : todo'[b] = todo[b]
      /\ todo' \in [Actors -> Seq(Steps)]
  BY DEF Ends, LockInv, LockTypeOK
<1>2. /\ \A b \in over : ~Runs(b)'
      /\ \A b \in over : \A x : ~At(b, x)'
      /\ \A b \in Actors \ over : Runs(b)' <=> Runs(b)
      /\ \A b \in Actors \ over : \A x : At(b, x)' <=> At(b, x)
      /\ a \in over /\ over \subseteq Actors
  BY <1>1 DEF Runs, At
<1>3. \A b \in over : b # a => At(b, Reply) /\ a = Finalizer
  OBVIOUS
<1>4. \A b \in over : b # a =>
         /\ ~At(b, Drop) /\ ~At(b, Write("bans"))
         /\ \A l \in Locks : ~Waits(b, l)
  BY <1>3, StepFacts, OneStepAtATime DEF Waits
<1>5. a # Finalizer => Finalizer \notin over
  BY ActorFacts
<1> HIDE DEF over
<1>6. IsCall(<<>>) /\ WaitsForNoReply(<<>>)
  BY DEF IsCall, WaitsForNoReply
<1>7. CallsAreCalls'
  BY <1>1, <1>6, ActorFacts DEF LockInv, CallsAreCalls
<1>8. ReplyIsComing'
  <2>1. CASE a = Finalizer
    <3>1. \A b \in Actors : At(b, Reply) => b \in over
      BY <2>1 DEF over
    <3> QED
      BY <1>2, <3>1 DEF ReplyIsComing
  <2>2. CASE a # Finalizer
    BY <1>2, <1>5, <2>2, ActorFacts DEF LockInv, ReplyIsComing
  <2> QED
    BY <2>1, <2>2
<1>9. ASSUME NEW l \in Locks
      PROVE  /\ queue'[l] \in Seq(Actors)
             /\ Once(queue'[l])
             /\ \A b \in Actors : IsIn(b, queue'[l]) <=> Waits(b, l)'
  <2>1. /\ queue[l] \in Seq(Actors) /\ Once(queue[l])
        /\ \A b \in Actors : IsIn(b, queue[l]) <=> Waits(b, l)
    BY DEF LockInv, LockTypeOK, QueuesAreWaiters
  <2>2. queue'[l] = Without(queue[l], a)
    BY DEF Ends, QueuesWithout
  <2>3. /\ queue'[l] \in Seq(Actors) /\ Once(queue'[l])
        /\ \A b : IsIn(b, queue'[l]) <=> b # a /\ IsIn(b, queue[l])
    BY <2>1, <2>2, LeavesQueue
  <2>4. \A b \in Actors : Waits(b, l)' <=> b \notin over /\ Waits(b, l)
    BY <1>2 DEF Waits
  <2>5. \A b \in Actors : b \notin over /\ Waits(b, l) <=> b # a /\ Waits(b, l)
    BY <1>2, <1>4
  <2> QED
    BY <2>1, <2>3, <2>4, <2>5
<1>10. queue' \in [Locks -> Seq(Actors)] /\ QueuesAreWaiters'
  <2>1. queue' = [l \in Locks |-> queue'[l]]
    BY DEF Ends, QueuesWithout
  <2> QED
    BY <1>9, <2>1 DEF QueuesAreWaiters
<1>11. /\ held' \in [Locks -> SUBSET (Actors \X {"read", "write"})]
       /\ \A l \in Locks : /\ held'[l] \subseteq held[l]
                           /\ \A g \in held'[l] : g[1] # a
  BY GuardsDropped DEF Ends
<1>12. \A l \in Locks : \A g \in held'[l] : g[1] \in Actors \ over
  BY <1>4, <1>11, NoGuard
<1>13. LockOrder'
  BY <1>2, <1>11, <1>12, StepFacts DEF LockInv, LockOrder
<1> QED
  BY <1>1, <1>7, <1>8, <1>10, <1>11, <1>13 DEF LockInv, LockTypeOK

LEMMA StartsKeepsLocks ==
    ASSUME LockInv, NEW a \in Streams \cup Tasks, NEW kind \in Requests \cup Jobs,
           Starts(a, kind)
    PROVE  LockInv'
<1> PICK p : p = Program(kind)
  OBVIOUS
<1>1. a \in Actors /\ a # Finalizer
  BY ActorFacts
<1>2. /\ IsCall(p) /\ p \in Seq(Steps) /\ p # <<>>
      /\ Head(p) # Reply
  BY ProgramIsCall, StepFacts DEF IsWholeCall, IsCall
<1>3. /\ todo' = [todo EXCEPT ![a] = p] /\ queue' = QueuesWith(a, p)
      /\ held' = held /\ ~Runs(a)
  BY DEF Starts
<1>4. \A x : ~At(a, x)
  BY <1>3 DEF At
<1>5. CallsAreCalls'
  BY <1>1, <1>2, <1>3, CallsKept
<1>6. queue' \in [Locks -> Seq(Actors)] /\ QueuesAreWaiters'
  BY <1>1, <1>2, <1>3, <1>4, QueuesKept DEF Waits
<1>7. LockOrder'
  BY <1>1, <1>2, <1>3, <1>4, NoGuard, OrderKept DEF LockInv, LockTypeOK
<1>8. todo' \in [Actors -> Seq(Steps)] /\ ReplyIsComing'
  BY <1>1, <1>2, <1>3, Moved, ActorFacts DEF LockInv, ReplyIsComing
<1> QED
  BY <1>3, <1>5, <1>6, <1>7, <1>8 DEF LockInv, LockTypeOK

\* The last signer waits for the finalize task, which is there.
LEMMA SpawnKeepsLocks ==
    ASSUME LockInv, NEW s \in Streams, SpawnsFinalizer(s)
    PROVE  LockInv'
<1> PICK kind \in {"finalize", "finalize with blame"} :
          todo' = [todo EXCEPT ![s] = Tail(@), ![Finalizer] = Program(kind)]
  BY DEF SpawnsFinalizer
<1> PICK p : p = Tail(todo[s])
  OBVIOUS
<1> PICK f : f = Program(kind)
  OBVIOUS
<1>1. s \in Actors /\ Finalizer \in Actors /\ s # Finalizer
  BY ActorFacts
<1>2. /\ At(s, Spawn) /\ ~Runs(Finalizer) /\ UNCHANGED <<queue, held>>
      /\ \A x : ~At(Finalizer, x)
  BY DEF SpawnsFinalizer, At
<1>3. IsCall(todo[s]) /\ todo[s] # <<>> /\ Head(todo[s]) = Spawn
  BY <1>1, <1>2 DEF LockInv, CallsAreCalls, At, Runs
<1>4. IsCall(p) /\ p # <<>> /\ Head(p) = Reply
  BY <1>3, RestIsCall, StepFacts DEF MayFollow
<1>5. /\ IsCall(f) /\ f # <<>> /\ WaitsForNoReply(f) /\ Head(f) = Call
  BY ProgramIsCall DEF IsWholeCall
<1>6. /\ todo'[s] = p /\ todo'[Finalizer] = f
      /\ \A b \in Actors \ {s, Finalizer} : todo'[b] = todo[b]
      /\ todo' \in [Actors -> Seq(Steps)]
  <2>1. p \in Seq(Steps) /\ f \in Seq(Steps)
    BY <1>4, <1>5 DEF IsCall
  <2>2. todo \in [Actors -> Seq(Steps)]
    BY DEF LockInv, LockTypeOK
  <2> QED
    BY <1>1, <2>1, <2>2
<1>7. /\ \A b \in Actors \ {s, Finalizer} : \A x : At(b, x)' <=> At(b, x)
      /\ \A x : At(s, x)' <=> x = Reply
      /\ \A x : At(Finalizer, x)' <=> x = Call
      /\ Runs(Finalizer)'
  BY <1>4, <1>5, <1>6 DEF At, Runs
<1>8. CallsAreCalls'
  BY <1>1, <1>4, <1>5, <1>6 DEF LockInv, CallsAreCalls
<1>9. \A b \in Actors, l \in Locks : Waits(b, l)' <=> Waits(b, l)
  <2> SUFFICES ASSUME NEW b \in Actors, NEW l \in Locks
               PROVE  Waits(b, l)' <=> Waits(b, l)
    OBVIOUS
  <2>1. CASE b \in {s, Finalizer}
    <3>1. ~Waits(b, l)
      BY <1>2, <2>1, StepFacts, OneStepAtATime DEF Waits
    <3>2. ~Waits(b, l)'
      BY <1>7, <2>1, StepFacts DEF Waits
    <3> QED
      BY <3>1, <3>2
  <2>2. CASE b \notin {s, Finalizer}
    BY <1>7, <2>2 DEF Waits
  <2> QED
    BY <2>1, <2>2
<1>10. QueuesAreWaiters'
  BY <1>2, <1>9 DEF LockInv, QueuesAreWaiters
<1>11. \A l \in Locks : \A g \in held[l] : g[1] \in Actors \ {s, Finalizer}
  <2>1. /\ ~At(s, Drop) /\ ~At(s, Write("bans"))
        /\ ~At(Finalizer, Drop) /\ ~At(Finalizer, Write("bans"))
    BY <1>2, StepFacts, OneStepAtATime
  <2>2. \A l \in Locks : \A g \in held[l] : g[1] # s /\ g[1] # Finalizer
    BY <2>1, NoGuard
  <2>3. \A l \in Locks : \A g \in held[l] : g[1] \in Actors
    BY GuardsAreOfActors
  <2> QED
    BY <2>2, <2>3
<1>12. LockOrder'
  BY <1>2, <1>7, <1>11, StepFacts DEF LockInv, LockOrder
<1>13. ReplyIsComing'
  BY <1>7 DEF ReplyIsComing
<1> QED
  BY <1>2, <1>6, <1>8, <1>10, <1>12, <1>13 DEF LockInv, LockTypeOK

\* The first in the queue is let in, and drops its guards or joins the other queue.
LEMMA GrantedKeepsLocks ==
    ASSUME LockInv, NEW l \in Locks, Granted(l)
    PROVE  LockInv'
<1> PICK a : a = Head(queue[l])
  OBVIOUS
<1> PICK p : p = Tail(todo[a])
  OBVIOUS
<1>1. /\ queue[l] \in Seq(Actors) /\ queue[l] # <<>> /\ Once(queue[l])
      /\ \A b \in Actors : IsIn(b, queue[l]) <=> Waits(b, l)
  BY DEF Granted, CanBeLetIn, LockInv, LockTypeOK, QueuesAreWaiters
<1>2. /\ a \in Actors /\ IsIn(a, queue[l])
      /\ Tail(queue[l]) \in Seq(Actors) /\ Once(Tail(queue[l]))
      /\ \A b : IsIn(b, Tail(queue[l])) <=> b # a /\ IsIn(b, queue[l])
  BY <1>1, LeavesFront
<1>3. At(a, Read(l)) \/ At(a, Write(l))
  BY <1>1, <1>2 DEF Waits
<1>4. /\ Runs(a) /\ Head(todo[a]) \in {Read(l), Write(l)}
      /\ Head(todo[a]).op \in {"read", "write"}
      /\ ~At(a, Spawn) /\ ~At(a, Drop) /\ ~At(a, Reply)
  BY <1>3, StepFacts DEF At
<1>5. /\ IsCall(todo[a]) /\ todo[a] # <<>>
  BY <1>2, <1>4 DEF LockInv, CallsAreCalls, Runs
<1>6. p # <<>>
  BY <1>4, <1>5, RestIsCall, StepFacts
<1>7. /\ p \in Seq(Steps) /\ todo' = [todo EXCEPT ![a] = p]
      /\ MayFollow(Head(todo[a]), Head(p))
      /\ todo' \in [Actors -> Seq(Steps)]
      /\ CallsAreCalls' /\ ReplyIsComing'
  BY <1>2, <1>4, <1>6, GoesOnAsCall DEF Granted
<1>8. /\ l = "bans" => Head(p) = Drop
      /\ l = "round" => Head(p) \in {Drop, Write("bans")}
  BY <1>4, <1>7, StepFacts DEF MayFollow
<1>9. /\ \A b \in Actors \ {a} : \A x : At(b, x)' <=> At(b, x)
      /\ \A b \in Actors \ {a} : \A m : Waits(b, m)' <=> Waits(b, m)
      /\ \A x : At(a, x)' <=> Head(p) = x
  <2>1. LockTypeOK
    BY DEF LockInv
  <2>2. \A x : At(a, x)' <=> p # <<>> /\ Head(p) = x
    BY <1>2, <1>7, <2>1, Moved
  <2> QED
    BY <1>2, <1>6, <1>7, <2>1, <2>2, Moved
<1>10. \A m \in Locks : Waits(a, m)' <=> Head(p) \in {Read(m), Write(m)}
  BY <1>9 DEF Waits
<1>11. queue' = [QueuesWith(a, p) EXCEPT ![l] = Tail(queue[l])]
  <2>1. queue' = [QueuesWith(a, p) EXCEPT ![l] = Tail(@)]
    BY DEF Granted
  <2>2. QueuesWith(a, p)[l] = queue[l]
    BY <1>8, StepFacts DEF QueuesWith
  <2> QED
    BY <2>1, <2>2 DEF QueuesWith
<1>12. ASSUME NEW m \in Locks
       PROVE  /\ queue'[m] \in Seq(Actors)
              /\ Once(queue'[m])
              /\ \A b \in Actors : IsIn(b, queue'[m]) <=> Waits(b, m)'
  <2>1. CASE m = l
    <3>1. queue'[m] = Tail(queue[l])
      BY <1>11, <2>1 DEF QueuesWith
    <3>2. ~Waits(a, m)'
      BY <1>8, <1>10, <2>1, StepFacts
    <3> QED
      BY <1>1, <1>2, <1>9, <2>1, <3>1, <3>2
  <2>2. CASE m # l
    <3>1. /\ queue[m] \in Seq(Actors) /\ Once(queue[m])
          /\ \A b \in Actors : IsIn(b, queue[m]) <=> Waits(b, m)
      BY DEF LockInv, LockTypeOK, QueuesAreWaiters
    <3>2. ~Waits(a, m)
      BY <1>3, <2>2, StepFacts, OneStepAtATime DEF Waits
    <3>3. CASE Head(p) \in {Read(m), Write(m)}
      <4>1. queue'[m] = Append(queue[m], a)
        BY <1>11, <2>2, <3>3 DEF QueuesWith
      <4>2. ~IsIn(a, queue[m])
        BY <1>2, <3>1, <3>2
      <4>3. /\ queue'[m] \in Seq(Actors) /\ Once(queue'[m])
            /\ \A b : IsIn(b, queue'[m]) <=> b = a \/ IsIn(b, queue[m])
        BY <1>2, <3>1, <4>1, <4>2, JoinsQueue
      <4> QED
        BY <1>9, <1>10, <3>1, <3>3, <4>3
    <3>4. CASE Head(p) \notin {Read(m), Write(m)}
      <4>1. queue'[m] = queue[m]
        BY <1>11, <2>2, <3>4 DEF QueuesWith
      <4> QED
        BY <1>9, <1>10, <3>1, <3>2, <3>4, <4>1
    <3> QED
      BY <3>3, <3>4
  <2> QED
    BY <2>1, <2>2
<1>13. queue' \in [Locks -> Seq(Actors)] /\ QueuesAreWaiters'
  <2>1. queue' = [m \in Locks |-> queue'[m]]
    BY <1>11 DEF QueuesWith
  <2> QED
    BY <1>12, <2>1 DEF QueuesAreWaiters
<1>14. held' = [held EXCEPT ![l] = held[l] \cup {<<a, Head(todo[a]).op>>}]
  BY DEF Granted, LockInv, LockTypeOK
<1>15. PICK mode \in {"read", "write"} : mode = Head(todo[a]).op
  BY <1>4
<1>16. /\ held' \in [Locks -> SUBSET (Actors \X {"read", "write"})]
       /\ held'[l] = held[l] \cup {<<a, mode>>}
       /\ \A m \in Locks \ {l} : held'[m] = held[m]
  BY <1>2, <1>14, <1>15 DEF LockInv, LockTypeOK
<1>17. \A m \in Locks : \A g \in held[m] : g[1] \in Actors
  BY GuardsAreOfActors
<1>18. ASSUME NEW g \in held["bans"]' PROVE At(g[1], Drop)'
  <2>1. CASE g \in held["bans"]
    <3>1. At(g[1], Drop) /\ g[1] \in Actors /\ g[1] # a
      BY <1>4, <1>17, <2>1, StepFacts DEF LockInv, LockOrder
    <3> QED
      BY <1>9, <3>1
  <2>2. CASE g \notin held["bans"]
    <3>1. l = "bans" /\ g = <<a, mode>>
      BY <1>16, <1>18, <2>2, StepFacts
    <3> QED
      BY <1>8, <1>9, <3>1
  <2> QED
    BY <2>1, <2>2
<1>19. ASSUME NEW g \in held["round"]'
       PROVE  At(g[1], Drop)' \/ At(g[1], Write("bans"))'
  <2>1. CASE g \in held["round"] /\ g[1] # a
    BY <1>9, <1>17, <2>1, StepFacts DEF LockInv, LockOrder
  <2>2. CASE g \in held["round"] /\ g[1] = a
    <3>1. At(a, Write("bans"))
      BY <1>4, <2>2 DEF LockInv, LockOrder
    <3>2. l = "bans"
      BY <1>3, <3>1, StepFacts, OneStepAtATime
    <3> QED
      BY <1>8, <1>9, <2>2, <3>2
  <2>3. CASE g \notin held["round"]
    <3>1. l = "round" /\ g = <<a, mode>>
      BY <1>16, <1>19, <2>3, StepFacts
    <3> QED
      BY <1>8, <1>9, <3>1
  <2> QED
    BY <2>1, <2>2, <2>3
<1>20. LockOrder'
  BY <1>18, <1>19 DEF LockOrder
<1> QED
  BY <1>7, <1>13, <1>16, <1>20 DEF LockInv, LockTypeOK

LEMMA LocksUntouched ==
    ASSUME LockInv, UNCHANGED callVars
    PROVE  LockInv'
BY DEF LockInv, LockTypeOK, CallsAreCalls, QueuesAreWaiters, LockOrder, ReplyIsComing,
       Waits, At, Runs, callVars

LEMMA LockStep == LockInv /\ [Next]_vars => LockInv'
<1> SUFFICES ASSUME LockInv, [Next]_vars PROVE LockInv'
  OBVIOUS
<1>1. CASE UNCHANGED vars
  BY <1>1, LocksUntouched DEF vars
<1>2. ASSUME NEW a \in Actors, Continues(a) PROVE LockInv'
  BY <1>2, ContinuesKeepsLocks
<1>3. ASSUME NEW a \in Actors, Returns(a) PROVE LockInv'
  BY <1>3, EndsKeepsLocks DEF Returns
<1>4. ASSUME NEW l \in Locks, Granted(l) PROVE LockInv'
  BY <1>4, GrantedKeepsLocks
<1>5. ASSUME NEW t \in Tasks, Scheduled(t) PROVE LockInv'
  <2>1. PICK kind \in Jobs : Starts(t, kind)
    BY <1>5 DEF Scheduled
  <2> QED
    BY <2>1, StartsKeepsLocks
<1>6. ASSUME NEW s \in Streams, Requested(s) PROVE LockInv'
  <2>1. PICK kind \in Requests : Starts(s, kind)
    BY <1>6 DEF Requested
  <2> QED
    BY <2>1, StartsKeepsLocks
<1>7. ASSUME NEW s \in Streams, SpawnsFinalizer(s) PROVE LockInv'
  BY <1>7, SpawnKeepsLocks
<1>8. ASSUME NEW s \in Streams, TimesOut(s) \/ Closes(s) PROVE LockInv'
  BY <1>8, EndsKeepsLocks, ActorFacts DEF TimesOut, Closes
<1>9. CASE AcquirePermit
  BY <1>9, LocksUntouched DEF AcquirePermit
<1>10. ASSUME NEW s \in Streams, Arrives(s) \/ Accepted(s) \/ AcceptFails(s)
       PROVE  LockInv'
  BY <1>10, LocksUntouched DEF Arrives, Accepted, AcceptFails
<1> QED
  BY <1>1, <1>2, <1>3, <1>4, <1>5, <1>6, <1>7, <1>8, <1>9, <1>10 DEF Next, Progress

\* The round's lock is asked for before the bans', by everybody and at any time, and
\* nothing else is awaited with a guard (signing.rs:507, run.rs:301, handlers.rs).
THEOREM LocksAreOrdered == Spec => []LockOrder
<1>1. LockInv => LockOrder
  BY DEF LockInv
<1> QED
  BY <1>1, LockInit, LockStep, PTL DEF Spec

LEMMA SomeoneGoesOn == LockInv => NobodyIsStuck
<1> SUFFICES ASSUME LockInv, NEW a \in Actors, Runs(a),
                    \A b \in Actors : ~GoesOn(b)
             PROVE  \E l \in Locks : CanBeLetIn(l)
  BY DEF NobodyIsStuck
<1>1. \A b \in Actors : ~At(b, Drop) /\ ~At(b, Call) /\ ~At(b, Spawn)
  BY DEF GoesOn
<1>2. \A l \in Locks : \A g \in held[l] : g[1] \in Actors
  BY GuardsAreOfActors
<1>3. held["bans"] = {}
  BY <1>1, <1>2, StepFacts DEF LockInv, LockOrder
<1>4. \A b \in Actors : \A l \in Locks : Waits(b, l) => queue[l] # <<>>
  <2> SUFFICES ASSUME NEW b \in Actors, NEW l \in Locks, Waits(b, l)
               PROVE  queue[l] # <<>>
    OBVIOUS
  <2>1. IsIn(b, queue[l])
    BY DEF LockInv, QueuesAreWaiters
  <2>2. ~IsIn(b, <<>>)
    BY DEF IsIn
  <2> QED
    BY <2>1, <2>2
<1>5. CASE \E b \in Actors : Waits(b, "bans")
  BY <1>3, <1>4, <1>5, StepFacts DEF CanBeLetIn
<1>6. CASE ~\E b \in Actors : Waits(b, "bans")
  <2>1. held["round"] = {}
    BY <1>1, <1>2, <1>6, StepFacts DEF LockInv, LockOrder, Waits
  <2>2. \A b \in Actors : Runs(b) => Waits(b, "round") \/ At(b, Reply)
    <3> SUFFICES ASSUME NEW b \in Actors, Runs(b), ~At(b, Reply)
                 PROVE  Waits(b, "round")
      OBVIOUS
    <3>1. IsCall(todo[b]) /\ todo[b] # <<>>
      BY DEF LockInv, CallsAreCalls, Runs
    <3>2. Head(todo[b]) \in Steps
      BY <3>1, RestIsCall
    <3>3. At(b, Head(todo[b]))
      BY DEF At
    <3> QED
      BY <1>1, <1>6, <3>2, <3>3, StepFacts DEF Waits
  <2>3. ~At(Finalizer, Reply)
    <3>1. Runs(Finalizer) => Head(todo[Finalizer]) # Reply
      BY RestIsCall, ActorFacts DEF LockInv, CallsAreCalls, Runs
    <3> QED
      BY <3>1 DEF At
  <2>4. \E b \in Actors : Waits(b, "round")
    BY <2>2, <2>3, ActorFacts DEF LockInv, ReplyIsComing
  <2> QED
    BY <1>4, <2>1, <2>4, StepFacts DEF CanBeLetIn
<1> QED
  BY <1>5, <1>6

\* Nobody waits in a circle, for any number of requests, timers and connections:
\* whenever a call is under way, one of the calls can be continued or let in.
THEOREM NobodyEverStuck == Spec => []NobodyIsStuck
BY LockInit, LockStep, SomeoneGoesOn, PTL DEF Spec

=============================================================================
