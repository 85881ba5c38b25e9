-------------------------- MODULE ServeGateProofs --------------------------
(***************************************************************************)
(* Proofs about ServeGate for any set of requests, any busy timeout and    *)
(* any queue bound.                                                        *)
(***************************************************************************)
EXTENDS ServeGate, SequenceTheorems, TLAPS

USE DEF gate, pipe

(* What the cancellation of a future, an emptied queue and a dropped       *)
(* generator do to the types.                                              *)
LEMMA CloseInnerType ==
  ASSUME TypeOK, NEW r \in Requests, CloseInner(r)
  PROVE  /\ inner' \in [Requests -> {"none", "open", "dropped", "closed"}]
         /\ fut' \in [Requests -> {"none", "pending", "done", "cancelled"}]
         /\ queue' \in [Requests -> Seq(Chunks \cup Sentinels)]
         /\ \A q \in Requests : Len(queue'[q]) <= QueueCap
         /\ UNCHANGED <<job, out>>
<1> USE ServeAssumption DEF TypeOK, CloseInner
<1>1. inner' \in [Requests -> {"none", "open", "dropped", "closed"}]
  OBVIOUS
<1>2. fut' \in [Requests -> {"none", "pending", "done", "cancelled"}]
  BY DEF Cancelled
<1>3. queue' = [queue EXCEPT ![r] = <<>>] /\ UNCHANGED <<job, out>>
  OBVIOUS
<1>4. <<>> \in Seq(Chunks \cup Sentinels) /\ Len(<<>>) = 0
  OBVIOUS
<1>5. queue' \in [Requests -> Seq(Chunks \cup Sentinels)]
  BY <1>3, <1>4
<1>6. \A q \in Requests : Len(queue'[q]) <= QueueCap
  BY <1>3, <1>4
<1> QED BY <1>1, <1>2, <1>3, <1>5, <1>6

LEMMA DropInnerType ==
  ASSUME TypeOK, NEW r \in Requests, DropInner(r)
  PROVE  inner' \in [Requests -> {"none", "open", "dropped", "closed"}]
BY DEF TypeOK, DropInner

(* Taking the head off a queue. *)
LEMMA PopType ==
  ASSUME TypeOK, NEW r \in Requests, queue[r] # <<>>, Pop(r)
  PROVE  /\ queue' \in [Requests -> Seq(Chunks \cup Sentinels)]
         /\ \A q \in Requests : Len(queue'[q]) <= QueueCap
<1> USE DEF TypeOK
<1>1. queue[r] \in Seq(Chunks \cup Sentinels)
  OBVIOUS
<1>2. Tail(queue[r]) \in Seq(Chunks \cup Sentinels) /\ Len(Tail(queue[r])) = Len(queue[r]) - 1
  BY <1>1
<1>3. queue' = [queue EXCEPT ![r] = Tail(queue[r])]
  BY DEF Pop
<1>4. queue' \in [Requests -> Seq(Chunks \cup Sentinels)]
  BY <1>2, <1>3
<1>5. \A q \in Requests : Len(queue'[q]) <= QueueCap
  BY <1>1, <1>2, <1>3, ServeAssumption
<1> QED BY <1>4, <1>5

-----------------------------------------------------------------------------
(* The slot's account, with the types it needs: a request that releases is  *)
(* in a holding phase, hence is the holder, hence nobody else has the value *)
(* and the semaphore is zero.                                               *)
SlotInv == TypeOK /\ SlotIsAccounted

LEMMA SlotInit == Init => SlotInv
BY ServeAssumption DEF Init, SlotInv, TypeOK, SlotIsAccounted, Holds, Promised, Holding, Phases, Jobs, Chunks, Sentinels

(* Whom the value goes to, and who moves with it. *)
LEMMA PassOnMoves ==
  ASSUME TypeOK, NEW r \in Requests, req[r] # "waiting", NEW phase \in {"refused", "ended"},
         PassOn(r, phase)
  PROVE  /\ req'[r] = phase
         /\ req' \in [Requests -> Phases]
         /\ \A q \in Requests \ {r} : req'[q] = req[q] \/ (req[q] = "waiting" /\ req'[q] = "woken")
<1>1. CASE \E w \in Requests :
             /\ req[w] = "waiting"
             /\ req' = [req EXCEPT ![r] = phase, ![w] = "woken"]
  BY <1>1 DEF TypeOK, Phases
<1>2. CASE Goto(r, phase)
  BY <1>2 DEF TypeOK, Goto, Phases
<1> QED BY <1>1, <1>2 DEF PassOn

(* The request that has the value, or was promised it, leaves and passes    *)
(* the value on: to the semaphore, or to one other request.                 *)
LEMMA PassesOn ==
  ASSUME SlotInv, NEW r \in Requests, Holds(r) \/ Promised(r),
         NEW phase \in {"refused", "ended"}, PassOn(r, phase), holder' = NoOne
  PROVE  /\ sem' \in 0..1 /\ holder' \in Requests \cup {NoOne} /\ req' \in [Requests -> Phases]
         /\ SlotIsAccounted'
<1>1. /\ TypeOK /\ SlotIsAccounted /\ sem = 0 /\ req[r] # "waiting"
      /\ \A q \in Requests \ {r} : ~Holds(q) /\ ~Promised(q)
  BY DEF SlotInv, SlotIsAccounted, Holds, Holding, Promised
<1>2. /\ req'[r] = phase
      /\ req' \in [Requests -> Phases]
      /\ \A q \in Requests \ {r} : req'[q] = req[q] \/ (req[q] = "waiting" /\ req'[q] = "woken")
  BY <1>1, PassOnMoves
<1>3. \A q \in Requests : ~Holds(q)'
  BY <1>1, <1>2 DEF Holds, Holding
<1>4. CASE \A w \in Requests : req[w] # "waiting"
  <2>1. Goto(r, phase) /\ sem' = 1
    BY <1>1, <1>4 DEF PassOn
  <2>2. \A q \in Requests : ~Promised(q)' /\ req'[q] # "waiting"
    BY <1>1, <1>2, <1>4 DEF Promised
  <2> QED BY <1>2, <1>3, <2>1, <2>2, ServeAssumption DEF SlotIsAccounted
<1>5. CASE \E w \in Requests : req[w] = "waiting"
  <2>1. PICK w \in Requests : /\ req[w] = "waiting"
                             /\ req' = [req EXCEPT ![r] = phase, ![w] = "woken"]
                             /\ sem' = sem
    BY <1>5 DEF PassOn
  <2>2. w # r /\ req'[w] = "woken" /\ \A q \in Requests \ {r, w} : req'[q] = req[q]
    BY <1>1, <2>1 DEF TypeOK
  <2>3. Promised(w)' /\ \A q \in Requests \ {w} : ~Promised(q)'
    BY <1>1, <1>2, <2>2 DEF Promised
  <2> QED BY <1>1, <1>2, <1>3, <2>1, <2>3, ServeAssumption DEF SlotIsAccounted
<1> QED BY <1>4, <1>5

(* Release is the holder's. *)
LEMMA GivesBack ==
  ASSUME SlotInv, NEW r \in Requests, Holds(r), Release(r)
  PROVE  /\ sem' \in 0..1 /\ holder' \in Requests \cup {NoOne} /\ req' \in [Requests -> Phases]
         /\ SlotIsAccounted'
BY PassesOn DEF Release

(* A request that moves between phases with the slot, or between phases     *)
(* without it, leaves the account as it is.                                 *)
LEMMA KeepsAccount ==
  ASSUME SlotInv, NEW r \in Requests, UNCHANGED gate,
         NEW phase \in Phases \ {"waiting", "granted", "woken"}, Goto(r, phase),
         Holds(r) <=> phase \in Holding, ~Promised(r)
  PROVE  /\ sem' \in 0..1 /\ holder' \in Requests \cup {NoOne} /\ req' \in [Requests -> Phases]
         /\ SlotIsAccounted'
<1>1. /\ req' \in [Requests -> Phases]
      /\ req'[r] = phase /\ \A q \in Requests \ {r} : req'[q] = req[q]
  BY DEF SlotInv, TypeOK, Goto
<1>2. \A q \in Requests : Holds(q)' = Holds(q) /\ Promised(q)' = Promised(q)
  BY <1>1 DEF Holds, Promised
<1> QED BY <1>1, <1>2, ServeAssumption DEF SlotInv, TypeOK, SlotIsAccounted

LEMMA SameAccount ==
  ASSUME SlotInv, UNCHANGED <<gate, req>>
  PROVE  /\ sem' \in 0..1 /\ holder' \in Requests \cup {NoOne} /\ req' \in [Requests -> Phases]
         /\ SlotIsAccounted'
BY DEF SlotInv, TypeOK, SlotIsAccounted, Holds, Promised

(* Steps that move one request and nothing else. *)
LEMMA MoveStep ==
  ASSUME SlotInv, NEW r \in Requests, UNCHANGED <<gate, pipe>>,
         NEW phase \in Phases \ {"waiting", "granted", "woken"}, Goto(r, phase),
         Holds(r) <=> phase \in Holding, ~Promised(r)
  PROVE  SlotInv'
<1>1. /\ sem' \in 0..1 /\ holder' \in Requests \cup {NoOne} /\ req' \in [Requests -> Phases]
      /\ SlotIsAccounted'
  BY KeepsAccount
<1> QED BY <1>1 DEF SlotInv, TypeOK

(* A request that asks takes the value, if it is there, or waits for it. *)
LEMMA ArriveAccount ==
  ASSUME SlotInv, NEW r \in Requests, Arrive(r)
  PROVE  SlotInv'
<1>0. TypeOK /\ SlotIsAccounted /\ req[r] = "new" /\ UNCHANGED <<holder, pipe>>
  BY DEF SlotInv, Arrive
<1>1. \A q \in Requests \ {r} : req'[q] = req[q]
  BY <1>0 DEF Arrive, Goto, TypeOK
<1>2. \A q \in Requests \ {r} : Holds(q)' = Holds(q) /\ Promised(q)' = Promised(q)
  BY <1>1 DEF Holds, Promised
<1>3. ~Holds(r) /\ ~Promised(r) /\ holder # r
  BY <1>0 DEF Holds, Promised, Holding, SlotIsAccounted
<1>4. CASE SlotFree
  <2>1. sem = 1 /\ sem' = 0 /\ req' = [req EXCEPT ![r] = "granted"]
    BY <1>0, <1>4 DEF Arrive, SlotFree, Goto, TypeOK
  <2>2. req' \in [Requests -> Phases] /\ req'[r] = "granted"
    BY <1>0, <2>1 DEF TypeOK, Phases
  <2>3. ~Holds(r)' /\ Promised(r)'
    BY <2>2 DEF Holds, Promised, Holding
  <2>4. \A q \in Requests : ~Holds(q) /\ ~Promised(q) /\ req[q] # "waiting"
    BY <1>0, <2>1 DEF SlotIsAccounted
  <2>5. SlotIsAccounted'
    BY <1>0, <1>1, <1>2, <1>3, <2>1, <2>3, <2>4 DEF SlotIsAccounted
  <2> QED BY <1>0, <2>1, <2>2, <2>5 DEF SlotInv, TypeOK
<1>5. CASE ~SlotFree
  <2>1. sem = 0 /\ sem' = 0 /\ req' = [req EXCEPT ![r] = "waiting"]
    BY <1>0, <1>5 DEF Arrive, SlotFree, Goto, TypeOK
  <2>2. req' \in [Requests -> Phases] /\ req'[r] = "waiting"
    BY <1>0, <2>1 DEF TypeOK, Phases
  <2>3. ~Holds(r)' /\ ~Promised(r)'
    BY <2>2 DEF Holds, Promised, Holding
  <2>5. SlotIsAccounted'
    BY <1>0, <1>1, <1>2, <1>3, <2>1, <2>3 DEF SlotIsAccounted
  <2> QED BY <1>0, <2>1, <2>2, <2>5 DEF SlotInv, TypeOK
<1> QED BY <1>4, <1>5

(* Whoever was given the value becomes the holder. *)
LEMMA AcquireAccount ==
  ASSUME SlotInv, NEW r \in Requests, Acquire(r)
  PROVE  SlotInv'
<1>0. TypeOK /\ SlotIsAccounted /\ Promised(r) /\ sem' = sem /\ holder' = r
  BY DEF SlotInv, Acquire
<1>1. PICK phase \in {"unstarted", "awaiting"} : Goto(r, phase)
  BY DEF Acquire
<1>2. /\ req' \in [Requests -> Phases] /\ req'[r] = phase
      /\ \A q \in Requests \ {r} : req'[q] = req[q]
  BY <1>0, <1>1 DEF Goto, TypeOK, Phases
<1>3. Holds(r)' /\ ~Promised(r)'
  BY <1>2 DEF Holds, Promised, Holding
<1>4. \A q \in Requests \ {r} : ~Holds(q) /\ ~Promised(q)
  BY <1>0 DEF SlotIsAccounted
<1>5. \A q \in Requests \ {r} : ~Holds(q)' /\ ~Promised(q)'
  BY <1>2, <1>4 DEF Holds, Promised
<1>6. sem = 0
  BY <1>0 DEF SlotIsAccounted
<1>7. SlotIsAccounted'
  BY <1>0, <1>3, <1>5, <1>6 DEF SlotIsAccounted
<1>8. /\ job' \in [Requests -> Jobs] /\ fut' \in [Requests -> {"none", "pending", "done", "cancelled"}]
      /\ UNCHANGED <<inner, out, queue>>
  BY <1>0 DEF Acquire, TypeOK, Submit, Jobs
<1> QED BY <1>0, <1>2, <1>6, <1>7, <1>8 DEF SlotInv, TypeOK

(* Every step of the program keeps the account. *)
LEMMA SlotStep == SlotInv /\ [Next]_vars => SlotInv'
<1> SUFFICES ASSUME SlotInv, [Next]_vars PROVE SlotInv'
  OBVIOUS
<1> USE DEF Phases, Holding
<1>1. ASSUME UNCHANGED vars PROVE SlotInv'
  BY <1>1 DEF vars, SlotInv, TypeOK, SlotIsAccounted, Holds, Promised
<1>2. ASSUME NEW r \in Requests, Arrive(r) PROVE SlotInv'
  BY <1>2, ArriveAccount
<1>3. ASSUME NEW r \in Requests, Invalid(r) PROVE SlotInv'
  BY <1>3, MoveStep DEF Invalid, Holds, Promised
<1>4. ASSUME NEW r \in Requests, Refuse(r) PROVE SlotInv'
  BY <1>4, MoveStep DEF Refuse, Holds, Promised
<1>5. ASSUME NEW r \in Requests, Start(r) PROVE SlotInv'
  BY <1>5, MoveStep DEF Start, Holds, Promised
<1>6. ASSUME NEW r \in Requests, NeverStarted(r) PROVE SlotInv'
  BY <1>6, MoveStep DEF NeverStarted, Holds, Promised
<1>7. ASSUME NEW r \in Requests, DisconnectSending(r) PROVE SlotInv'
  BY <1>7, MoveStep DEF DisconnectSending, Holds, Promised
<1>8. ASSUME NEW r \in Requests, Acquire(r) PROVE SlotInv'
  BY <1>8, AcquireAccount
<1>9. ASSUME NEW r \in Requests, Answer(r) PROVE SlotInv'
  BY <1>9, GivesBack DEF Answer, Holds, SlotInv, TypeOK
<1>10. ASSUME NEW r \in Requests, Sent(r) PROVE SlotInv'
  <2> USE <1>10 DEF Sent
  <2>1. /\ sem' \in 0..1 /\ holder' \in Requests \cup {NoOne} /\ req' \in [Requests -> Phases]
        /\ SlotIsAccounted'
    BY KeepsAccount DEF Holds, Promised
  <2>2. /\ inner' \in [Requests -> {"none", "open", "dropped", "closed"}]
        /\ job' \in [Requests -> Jobs] /\ fut' \in [Requests -> {"none", "pending", "done", "cancelled"}]
        /\ UNCHANGED <<out, queue>>
    BY DEF SlotInv, TypeOK, Submit, Jobs
  <2> QED BY <2>1, <2>2 DEF SlotInv, TypeOK
<1>11. ASSUME NEW r \in Requests, SentLast(r) PROVE SlotInv'
  <2>1. /\ sem' \in 0..1 /\ holder' \in Requests \cup {NoOne} /\ req' \in [Requests -> Phases]
        /\ SlotIsAccounted'
    BY <1>11, GivesBack DEF SentLast, Holds
  <2> QED BY <1>11, <2>1, DropInnerType DEF SentLast, DropInner, SlotInv, TypeOK
<1>12. ASSUME NEW r \in Requests, GetChunk(r) PROVE SlotInv'
  <2> USE <1>12 DEF GetChunk
  <2>1. \E phase \in {"sending", "getting", "last"} : Goto(r, phase)
    OBVIOUS
  <2>2. /\ sem' \in 0..1 /\ holder' \in Requests \cup {NoOne} /\ req' \in [Requests -> Phases]
        /\ SlotIsAccounted'
    BY <2>1, KeepsAccount DEF Holds, Promised
  <2> QED BY <2>2, PopType DEF SlotInv, TypeOK
<1>13. ASSUME NEW r \in Requests, GetDone(r) PROVE SlotInv'
  <2>1. /\ sem' \in 0..1 /\ holder' \in Requests \cup {NoOne} /\ req' \in [Requests -> Phases]
        /\ SlotIsAccounted'
    BY <1>13, GivesBack DEF GetDone, Holds
  <2> QED BY <1>13, <2>1, CloseInnerType DEF GetDone, SlotInv, TypeOK
<1>14. ASSUME NEW r \in Requests, GetError(r) PROVE SlotInv'
  <2>1. /\ sem' \in 0..1 /\ holder' \in Requests \cup {NoOne} /\ req' \in [Requests -> Phases]
        /\ SlotIsAccounted'
    BY <1>14, KeepsAccount DEF GetError, Holds, Promised
  <2> QED BY <1>14, <2>1, CloseInnerType DEF GetError, SlotInv, TypeOK
<1>15. ASSUME NEW r \in Requests, DisconnectGetting(r) PROVE SlotInv'
  <2>1. /\ sem' \in 0..1 /\ holder' \in Requests \cup {NoOne} /\ req' \in [Requests -> Phases]
        /\ SlotIsAccounted'
    BY <1>15, GivesBack DEF DisconnectGetting, Holds, CleanUp
  <2> QED BY <1>15, <2>1, CloseInnerType DEF DisconnectGetting, SlotInv, TypeOK
<1>16. ASSUME NEW r \in Requests, Finalize(r) PROVE SlotInv'
  <2>1. /\ sem' \in 0..1 /\ holder' \in Requests \cup {NoOne} /\ req' \in [Requests -> Phases]
        /\ SlotIsAccounted'
    BY <1>16, GivesBack DEF Finalize, Holds, CleanUp
  <2> QED BY <1>16, <2>1, DropInnerType DEF Finalize, DropInner, SlotInv, TypeOK
<1>17. ASSUME NEW r \in Requests, FinalizeInner(r) PROVE SlotInv'
  BY <1>17, SameAccount, CloseInnerType DEF FinalizeInner, SlotInv, TypeOK
<1>18. ASSUME NEW r \in Requests,
              JobStart(r) \/ PlainEnd(r) \/ CancelDelivered(r) \/ CloseEngine(r) \/ PutReturns(r)
       PROVE  SlotInv'
  <2>1. /\ job' \in [Requests -> Jobs] /\ fut' \in [Requests -> {"none", "pending", "done", "cancelled"}]
        /\ UNCHANGED <<gate, req, inner, out, queue>>
    BY <1>18 DEF JobStart, PlainEnd, CancelDelivered, CloseEngine, PutReturns, JobStep, SlotInv, TypeOK, Jobs
  <2> QED BY <2>1, SameAccount DEF SlotInv, TypeOK
<1>19. ASSUME NEW r \in Requests, EngineChunk(r) \/ EngineEnd(r) PROVE SlotInv'
  <2>1. PICK what \in Chunks \cup Sentinels : Produce(r, what)
    BY <1>19 DEF EngineChunk, EngineEnd
  <2>2. /\ job' \in [Requests -> Jobs] /\ out' \in [Requests -> Chunks \cup Sentinels]
        /\ UNCHANGED <<gate, req, inner, fut, queue>>
    BY <2>1 DEF Produce, JobStep, SlotInv, TypeOK, Jobs
  <2> QED BY <2>2, SameAccount DEF SlotInv, TypeOK
<1>20. ASSUME NEW r \in Requests, Put(r) PROVE SlotInv'
  <2> USE <1>20 DEF Put
  <2>1. job' \in [Requests -> Jobs] /\ UNCHANGED <<gate, req, inner, out, fut>>
    BY DEF JobStep, SlotInv, TypeOK, Jobs
  <2>2. queue[r] \in Seq(Chunks \cup Sentinels) /\ out[r] \in Chunks \cup Sentinels
    BY DEF SlotInv, TypeOK
  <2>3. PICK q : /\ q = queue[r] \/ q = Append(queue[r], out[r])
                 /\ queue' = [queue EXCEPT ![r] = q]
    BY DEF PutInto
  <2>4. q \in Seq(Chunks \cup Sentinels) /\ Len(q) <= QueueCap
    BY <2>2, <2>3, ServeAssumption
  <2>5. /\ queue' \in [Requests -> Seq(Chunks \cup Sentinels)]
        /\ \A s \in Requests : Len(queue'[s]) <= QueueCap
    BY <2>3, <2>4 DEF SlotInv, TypeOK
  <2> QED BY <2>1, <2>5, SameAccount DEF SlotInv, TypeOK
<1>21. ASSUME NEW r \in Requests, RefuseWoken(r) PROVE SlotInv'
  <2>1. Promised(r) /\ PassOn(r, "refused") /\ UNCHANGED <<holder, pipe>>
    BY <1>21 DEF RefuseWoken, Promised
  <2>2. holder = NoOne
    BY <2>1 DEF SlotInv, SlotIsAccounted, Holds, Promised, TypeOK
  <2>3. /\ sem' \in 0..1 /\ holder' \in Requests \cup {NoOne} /\ req' \in [Requests -> Phases]
        /\ SlotIsAccounted'
    BY <2>1, <2>2, PassesOn
  <2> QED BY <2>1, <2>3 DEF SlotInv, TypeOK
<1> QED
  BY <1>1, <1>2, <1>3, <1>4, <1>5, <1>6, <1>7, <1>8, <1>9, <1>10, <1>11, <1>12, <1>13, <1>14,
     <1>15, <1>16, <1>17, <1>18, <1>19, <1>20, <1>21 DEF Next, Handle, Client, Run

LEMMA SlotAlways == Spec => []SlotInv
BY SlotInit, SlotStep, PTL DEF Spec

(* The types are as declared and the semaphore never exceeds one. *)
THEOREM TypeCorrect == Spec => []TypeOK
BY SlotAlways, PTL DEF SlotInv

(* The slot is released once per acquire on every path and through every    *)
(* hand-over, no wake-up is lost, and the holder that /health reports is    *)
(* the request that has it.                                                 *)
THEOREM SlotAccounted == Spec => []SlotIsAccounted
BY SlotAlways, PTL DEF SlotInv

-----------------------------------------------------------------------------
(* How a request, its two generators and its task hang together.  A plain   *)
(* request's task lives while its handler awaits it.                        *)
PlainPipe(r) ==
  /\ req[r] \in {"new", "waiting", "granted", "woken", "refused", "awaiting", "ended"}
  /\ inner[r] = "none"
  /\ job[r] \in {"none", "scheduled", "engine", "ended"}
  /\ Alive(r) => req[r] = "awaiting" /\ fut[r] = "pending"

HasSentinel(r) == \E i \in 1..Len(queue[r]) : queue[r][i] \in Sentinels

(* The producer has not put its sentinel yet. *)
StillProduces(r) ==
  \/ job[r] \in {"scheduled", "engine", "putting"}
  \/ job[r] = "put" /\ out[r] \in Chunks

(* A stream's future is cancelled only by closing its inner generator, and  *)
(* an open inner generator has a producer or the sentinel it left.          *)
StreamPipe(r) ==
  /\ req[r] # "awaiting"
  /\ inner[r] = "none" => job[r] = "none" /\ fut[r] = "none"
  /\ inner[r] = "open" => req[r] \in {"getting", "sending", "last", "dropped"}
  /\ req[r] \in {"new", "waiting", "granted", "woken", "unstarted"} => inner[r] = "none"
  /\ req[r] = "sending" => inner[r] \in {"none", "open"}
  /\ req[r] = "getting" => inner[r] = "open"
  /\ fut[r] = "pending" => inner[r] \in {"open", "dropped"}
  /\ fut[r] = "cancelled" => inner[r] = "closed"
  /\ Alive(r) => fut[r] \in {"pending", "cancelled"}
  /\ job[r] = "closing" => fut[r] = "cancelled"
  /\ inner[r] = "open" /\ req[r] \in {"getting", "sending"} => HasSentinel(r) \/ StillProduces(r)

Pipe(r) == IF r \in Streams THEN StreamPipe(r) ELSE PlainPipe(r)

PipeInv == SlotInv /\ \A r \in Requests : Pipe(r)

(* A request none of whose parts move, except that it may be woken, keeps   *)
(* its Pipe.                                                                *)
LEMMA PipeFrame ==
  ASSUME NEW q \in Requests, Pipe(q),
         req'[q] = req[q] \/ (req[q] = "waiting" /\ req'[q] = "woken"),
         inner'[q] = inner[q], job'[q] = job[q],
         out'[q] = out[q], fut'[q] = fut[q], queue'[q] = queue[q]
  PROVE  Pipe(q)'
<1>1. CASE req'[q] = req[q]
  BY <1>1 DEF Pipe, PlainPipe, StreamPipe, HasSentinel, StillProduces, Alive
<1>2. CASE req[q] = "waiting" /\ req'[q] = "woken"
  BY <1>2 DEF Pipe, PlainPipe, StreamPipe, Alive
<1> QED BY <1>1, <1>2

(* Popping a chunk leaves the sentinel behind it. *)
LEMMA PopKeepsSentinel ==
  ASSUME TypeOK, NEW r \in Requests, queue[r] # <<>>, Head(queue[r]) \in Chunks, Pop(r), HasSentinel(r)
  PROVE  HasSentinel(r)'
<1>1. queue[r] \in Seq(Chunks \cup Sentinels) /\ queue'[r] = Tail(queue[r])
  BY DEF TypeOK, Pop
<1>2. PICK i \in 1..Len(queue[r]) : queue[r][i] \in Sentinels
  BY DEF HasSentinel
<1>3. queue[r][1] \in Chunks
  BY <1>1
<1>4. i # 1
  BY <1>2, <1>3 DEF Chunks, Sentinels
<1>5. i - 1 \in 1..Len(queue'[r]) /\ queue'[r][i - 1] = queue[r][i]
  BY <1>1, <1>4
<1> QED BY <1>2, <1>5 DEF HasSentinel

LEMMA PutAddsSentinel ==
  ASSUME TypeOK, NEW r \in Requests, queue' = [queue EXCEPT ![r] = PutInto(@, out[r])]
  PROVE  /\ HasSentinel(r) => HasSentinel(r)'
         /\ out[r] \in Sentinels => HasSentinel(r)'
<1>1. queue[r] \in Seq(Chunks \cup Sentinels) /\ queue'[r] = Append(queue[r], out[r])
  BY DEF TypeOK, PutInto
<1>2. /\ Len(queue'[r]) = Len(queue[r]) + 1
      /\ \A i \in 1..Len(queue[r]) : queue'[r][i] = queue[r][i]
      /\ queue'[r][Len(queue[r]) + 1] = out[r]
  BY <1>1
<1>3. HasSentinel(r) => HasSentinel(r)'
  BY <1>1, <1>2 DEF HasSentinel
<1>4. out[r] \in Sentinels => HasSentinel(r)'
  BY <1>1, <1>2 DEF HasSentinel
<1> QED BY <1>3, <1>4

LEMMA PipeInit == Init => PipeInv
BY SlotInit DEF Init, PipeInv, Pipe, PlainPipe, StreamPipe, Alive

(* Each step keeps the Pipe of the request it moves; PipeFrame does the     *)
(* others.                                                                  *)
LEMMA PipeStep == PipeInv /\ [Next]_vars => PipeInv'
<1> SUFFICES ASSUME PipeInv, [Next]_vars PROVE PipeInv'
  OBVIOUS
<1>0. SlotInv' /\ TypeOK
  BY SlotStep DEF PipeInv, SlotInv
<1> USE DEF Pipe, PlainPipe, StreamPipe, Alive
<1>1. ASSUME UNCHANGED vars PROVE \A q \in Requests : Pipe(q)'
  BY <1>1, PipeFrame DEF vars, PipeInv
<1>2. ASSUME NEW r \in Requests, Arrive(r) \/ Invalid(r) \/ Refuse(r) \/ Start(r) \/ NeverStarted(r) \/ DisconnectSending(r)
      PROVE  \A q \in Requests : Pipe(q)'
  <2>1. \A q \in Requests \ {r} : Pipe(q)'
    BY <1>0, <1>2, PipeFrame DEF Arrive, Invalid, Refuse, Start, NeverStarted, DisconnectSending, Goto, PipeInv, TypeOK
  <2>2. Pipe(r)'
    BY <1>0, <1>2 DEF Arrive, Invalid, Refuse, Start, NeverStarted, DisconnectSending, Goto, PipeInv, TypeOK, HasSentinel, StillProduces
  <2> QED BY <2>1, <2>2
<1>3. ASSUME NEW r \in Requests, Acquire(r) PROVE \A q \in Requests : Pipe(q)'
  <2>1. \A q \in Requests \ {r} : Pipe(q)'
    BY <1>0, <1>3, PipeFrame DEF Acquire, Submit, Goto, PipeInv, TypeOK
  <2>2. Pipe(r)'
    <3>1. Pipe(r) /\ UNCHANGED <<inner, out, queue>> /\ req[r] \in {"granted", "woken"}
      BY <1>3 DEF Acquire, PipeInv, Promised
    <3>2. CASE r \in Streams
      <4>1. req'[r] = "unstarted" /\ UNCHANGED <<job, fut>>
        BY <1>0, <1>3, <3>2 DEF Acquire, Goto, TypeOK
      <4> QED BY <3>1, <3>2, <4>1
    <3>3. CASE r \notin Streams
      <4>1. req'[r] = "awaiting" /\ job'[r] = "scheduled" /\ fut'[r] = "pending"
        BY <1>0, <1>3, <3>3 DEF Acquire, Submit, Goto, TypeOK
      <4> QED BY <3>1, <3>3, <4>1
    <3> QED BY <3>2, <3>3
  <2> QED BY <2>1, <2>2
<1>4. ASSUME NEW r \in Requests, Answer(r) \/ RefuseWoken(r) PROVE \A q \in Requests : Pipe(q)'
  <2>0. PICK phase \in {"refused", "ended"} :
           /\ PassOn(r, phase) /\ UNCHANGED pipe
           /\ (req[r] = "awaiting" /\ fut[r] = "done") \/ req[r] = "woken"
    BY <1>4 DEF Answer, Finished, Release, RefuseWoken
  <2>1. req'[r] = phase /\ \A q \in Requests \ {r} : req'[q] = req[q] \/ (req[q] = "waiting" /\ req'[q] = "woken")
    BY <1>0, <2>0, PassOnMoves
  <2>2. \A q \in Requests \ {r} : Pipe(q)'
    BY <2>0, <2>1, PipeFrame DEF PipeInv
  <2>3. Pipe(r)'
    <3>1. Pipe(r) /\ UNCHANGED <<inner, job, out, fut, queue>>
      BY <2>0 DEF PipeInv
    <3>2. CASE r \in Streams
      BY <2>0, <2>1, <3>1, <3>2
    <3>3. CASE r \notin Streams
      BY <2>0, <2>1, <3>1, <3>3
    <3> QED BY <3>2, <3>3
  <2> QED BY <2>2, <2>3
<1>5. ASSUME NEW r \in Requests, Sent(r) PROVE \A q \in Requests : Pipe(q)'
  <2>1. \A q \in Requests \ {r} : Pipe(q)'
    BY <1>0, <1>5, PipeFrame DEF Sent, Submit, Goto, PipeInv, TypeOK
  <2>2. Pipe(r)'
    <3>1. req[r] = "sending" /\ req'[r] = "getting" /\ UNCHANGED <<out, queue>>
      BY <1>0, <1>5 DEF Sent, Goto, TypeOK
    <3>2. Pipe(r) /\ r \in Streams
      BY <3>1 DEF PipeInv
    <3>3. CASE inner[r] = "none"
      <4>1. inner'[r] = "open" /\ job'[r] = "scheduled" /\ fut'[r] = "pending"
        BY <1>0, <1>5, <3>3 DEF Sent, Submit, TypeOK
      <4> QED BY <3>1, <3>2, <4>1 DEF StillProduces
    <3>4. CASE inner[r] # "none"
      <4>1. UNCHANGED <<inner, job, fut>>
        BY <1>5, <3>4 DEF Sent
      <4>2. HasSentinel(r)' = HasSentinel(r) /\ StillProduces(r)' = StillProduces(r)
        BY <3>1, <4>1 DEF HasSentinel, StillProduces
      <4> QED BY <3>1, <3>2, <4>1, <4>2, <3>4
    <3> QED BY <3>3, <3>4
  <2> QED BY <2>1, <2>2
<1>6. ASSUME NEW r \in Requests, SentLast(r) \/ Finalize(r) PROVE \A q \in Requests : Pipe(q)'
  <2>0. PassOn(r, "ended") /\ DropInner(r) /\ req[r] \in {"last", "dropped"}
    BY <1>6 DEF SentLast, Finalize, CleanUp, Release
  <2>1. req'[r] = "ended" /\ \A q \in Requests \ {r} : req'[q] = req[q] \/ (req[q] = "waiting" /\ req'[q] = "woken")
    BY <1>0, <2>0, PassOnMoves
  <2>2. \A q \in Requests \ {r} : Pipe(q)'
    BY <1>0, <2>0, <2>1, PipeFrame DEF DropInner, PipeInv, TypeOK
  <2>3. Pipe(r)'
    <3>1. /\ inner'[r] = (IF inner[r] = "open" THEN "dropped" ELSE inner[r])
          /\ UNCHANGED <<job, out, fut, queue>>
      BY <1>0, <2>0 DEF DropInner, TypeOK
    <3>2. Pipe(r)
      BY DEF PipeInv
    <3> QED BY <2>0, <2>1, <3>1, <3>2
  <2> QED BY <2>2, <2>3
<1>7. ASSUME NEW r \in Requests, GetChunk(r) PROVE \A q \in Requests : Pipe(q)'
  <2>1. \A q \in Requests \ {r} : Pipe(q)'
    BY <1>0, <1>7, PipeFrame DEF GetChunk, Pop, Goto, PipeInv, TypeOK
  <2>2. HasSentinel(r) => HasSentinel(r)'
    BY <1>0, <1>7, PopKeepsSentinel DEF GetChunk
  <2>3. Pipe(r)'
    BY <1>0, <1>7, <2>2 DEF GetChunk, Goto, PipeInv, TypeOK, StillProduces
  <2> QED BY <2>1, <2>3
<1>8. ASSUME NEW r \in Requests, GetDone(r) \/ GetError(r) \/ DisconnectGetting(r)
      PROVE  \A q \in Requests : Pipe(q)'
  <2>0. CloseInner(r) /\ req[r] = "getting" /\ (PassOn(r, "ended") \/ Goto(r, "last"))
    BY <1>8 DEF GetDone, GetError, DisconnectGetting, CleanUp, Release
  <2>1. /\ req'[r] \in {"ended", "last"}
        /\ \A q \in Requests \ {r} : req'[q] = req[q] \/ (req[q] = "waiting" /\ req'[q] = "woken")
    BY <1>0, <2>0, PassOnMoves DEF Goto, TypeOK
  <2>2. \A q \in Requests \ {r} : Pipe(q)'
    BY <1>0, <2>0, <2>1, PipeFrame DEF CloseInner, PipeInv, TypeOK
  <2>3. Pipe(r)'
    BY <1>0, <2>0, <2>1 DEF CloseInner, Cancelled, PipeInv, TypeOK
  <2> QED BY <2>2, <2>3
<1>9. ASSUME NEW r \in Requests, FinalizeInner(r) PROVE \A q \in Requests : Pipe(q)'
  <2>1. \A q \in Requests \ {r} : Pipe(q)'
    BY <1>0, <1>9, PipeFrame DEF FinalizeInner, CloseInner, PipeInv, TypeOK
  <2>2. Pipe(r)'
    BY <1>0, <1>9 DEF FinalizeInner, CloseInner, Cancelled, PipeInv, TypeOK
  <2> QED BY <2>1, <2>2
<1>10. ASSUME NEW r \in Requests, JobStart(r) \/ PlainEnd(r) \/ CancelDelivered(r) \/ CloseEngine(r) \/ PutReturns(r)
       PROVE  \A q \in Requests : Pipe(q)'
  <2>1. \A q \in Requests \ {r} : Pipe(q)'
    BY <1>0, <1>10, PipeFrame DEF JobStart, PlainEnd, CancelDelivered, CloseEngine, PutReturns, JobStep, PipeInv, TypeOK
  <2>2. Pipe(r)'
    BY <1>0, <1>10 DEF JobStart, PlainEnd, CancelDelivered, CloseEngine, PutReturns, JobStep, PipeInv, TypeOK,
       HasSentinel, StillProduces, Chunks, Sentinels
  <2> QED BY <2>1, <2>2
<1>11. ASSUME NEW r \in Requests, EngineChunk(r) \/ EngineEnd(r) PROVE \A q \in Requests : Pipe(q)'
  <2>1. PICK what \in Chunks \cup Sentinels : Produce(r, what)
    BY <1>11 DEF EngineChunk, EngineEnd
  <2>2. \A q \in Requests \ {r} : Pipe(q)'
    BY <1>0, <2>1, PipeFrame DEF Produce, JobStep, PipeInv, TypeOK
  <2>3. Pipe(r)'
    BY <1>0, <2>1 DEF Produce, JobStep, PipeInv, TypeOK, HasSentinel, StillProduces
  <2> QED BY <2>2, <2>3
<1>12. ASSUME NEW r \in Requests, Put(r) PROVE \A q \in Requests : Pipe(q)'
  <2>1. \A q \in Requests \ {r} : Pipe(q)'
    BY <1>0, <1>12, PipeFrame DEF Put, JobStep, PipeInv, TypeOK
  <2>2. ASSUME inner[r] = "open" PROVE (HasSentinel(r) => HasSentinel(r)') /\ (out[r] \in Sentinels => HasSentinel(r)')
    <3>1. queue' = [queue EXCEPT ![r] = PutInto(@, out[r])]
      BY <1>12, <2>2 DEF Put
    <3> QED BY <1>0, <3>1, PutAddsSentinel
  <2>3. Pipe(r)'
    BY <1>0, <1>12, <2>2 DEF Put, JobStep, PipeInv, TypeOK, StillProduces
  <2> QED BY <2>1, <2>3
<1>13. \A q \in Requests : Pipe(q)'
  BY <1>1, <1>2, <1>3, <1>4, <1>5, <1>6, <1>7, <1>8, <1>9, <1>10, <1>11, <1>12 DEF Next, Handle, Client, Run
<1> QED BY <1>0, <1>13 DEF PipeInv

LEMMA PipeAlways == Spec => []PipeInv
BY PipeInit, PipeStep, PTL DEF Spec

(* No plain request loses the slot while its engine call runs. *)
THEOREM PlainKeepsSlot == Spec => []PlainHoldsUntilDone
<1>1. PipeInv => PlainHoldsUntilDone
  BY ServeAssumption DEF PipeInv, Pipe, PlainPipe, PlainHoldsUntilDone, SlotInv, SlotIsAccounted, Holds, Holding
<1> QED BY <1>1, PipeAlways, PTL

(* A response that waits on an empty queue has a live producer. *)
THEOREM NoStarvation == Spec => []NoOneStarves
<1>1. ASSUME PipeInv PROVE NoOneStarves
  <2> SUFFICES ASSUME NEW r \in Requests, req[r] = "getting", queue[r] = <<>> PROVE Alive(r)
    BY DEF NoOneStarves
  <2>1. ~HasSentinel(r)
    BY DEF HasSentinel
  <2>2. r \in Streams /\ StreamPipe(r)
    BY <1>1 DEF PipeInv, Pipe, PlainPipe
  <2> QED BY <2>1, <2>2 DEF StreamPipe, StillProduces, Alive
<1> QED BY <1>1, PipeAlways, PTL

(* A producer that outlives its request's hold on the slot is cancelled or  *)
(* about to be.                                                             *)
THEOREM OrphansCancelled == Spec => []OrphansAreCancelled
<1>1. PipeInv => OrphansAreCancelled
  BY ServeAssumption DEF PipeInv, Pipe, StreamPipe, OrphansAreCancelled, SlotInv, TypeOK, Holds, Holding, Alive
<1> QED BY <1>1, PipeAlways, PTL

-----------------------------------------------------------------------------
(* ServeGate implements InferenceSlot. *)

(* What the phases of the requests say of the abstract stages. *)
LEMMA StageIs ==
  ASSUME NEW r \in Requests
  PROVE  /\ Stage(r) = "idle" <=> req[r] = "new"
         /\ Stage(r) = "waiting" <=> req[r] = "waiting"
         /\ Stage(r) = "given" <=> Promised(r)
         /\ Stage(r) = "holding" <=> Holds(r)
         /\ Stage(r) = "over" <=> req[r] \notin {"new", "waiting"} /\ ~Promised(r) /\ ~Holds(r)
BY DEF Stage, Promised, Holds, Holding

(* The owner has the value; where there is none the semaphore has it. *)
LEMMA OwnerIs ==
  ASSUME TypeOK, SlotIsAccounted
  PROVE  /\ \A r \in Requests : Holds(r) \/ Promised(r) <=> Owner = r
         /\ Owner \in Requests \cup {NoOne}
         /\ sem = IF Owner = NoOne THEN 1 ELSE 0
<1>1. CASE \E r \in Requests : Promised(r)
  <2>1. Owner \in Requests /\ Promised(Owner)
    BY <1>1 DEF Owner
  <2> QED BY <2>1, ServeAssumption DEF SlotIsAccounted
<1>2. CASE ~\E r \in Requests : Promised(r)
  <2>1. Owner = holder
    BY <1>2 DEF Owner
  <2> QED BY <1>2, <2>1, ServeAssumption DEF SlotIsAccounted, TypeOK
<1> QED BY <1>1, <1>2

(* After a step the same holds. *)
LEMMA OwnerIsNext ==
  ASSUME TypeOK', SlotIsAccounted'
  PROVE  /\ \A r \in Requests : (Holds(r) \/ Promised(r))' <=> Owner' = r
         /\ Owner' \in Requests \cup {NoOne}
         /\ sem' = IF Owner' = NoOne THEN 1 ELSE 0
<1>1. CASE \E r \in Requests : Promised(r)'
  <2>1. Owner' \in Requests /\ req'[Owner'] \in {"granted", "woken"}
    BY <1>1 DEF Owner, Promised
  <2>2. \A r \in Requests : (Holds(r) \/ Promised(r))' <=> Owner' = r
    BY <2>1, ServeAssumption DEF SlotIsAccounted, Promised
  <2> QED BY <2>1, <2>2, ServeAssumption DEF SlotIsAccounted
<1>2. CASE ~\E r \in Requests : Promised(r)'
  <2>1. Owner' = holder'
    BY <1>2 DEF Owner
  <2> QED BY <1>2, <2>1, ServeAssumption DEF SlotIsAccounted, TypeOK
<1> QED BY <1>1, <1>2

(* A step that moves r from one stage to another moves the abstract stage.  *)
LEMMA StageMoves ==
  ASSUME TypeOK, NEW r \in Requests, NEW phase \in Phases, Goto(r, phase)
  PROVE  [q \in Requests |-> Stage(q)]' = [[q \in Requests |-> Stage(q)] EXCEPT ![r] = Stage(r)']
<1>1. \A q \in Requests \ {r} : req'[q] = req[q]
  BY DEF TypeOK, Goto
<1>2. \A q \in Requests \ {r} : Stage(q)' = Stage(q)
  BY <1>1 DEF Stage, Holds, Promised, Holding
<1> QED BY <1>2

(* The same of a step that also wakes w. *)
LEMMA StagesMove ==
  ASSUME TypeOK, NEW r \in Requests, NEW w \in Requests, req[r] # "waiting", req[w] = "waiting",
         NEW phase \in {"refused", "ended"}, req' = [req EXCEPT ![r] = phase, ![w] = "woken"]
  PROVE  [q \in Requests |-> Stage(q)]'
           = [[q \in Requests |-> Stage(q)] EXCEPT ![r] = "over", ![w] = "given"]
<1>1. w # r /\ req'[r] = phase /\ req'[w] = "woken" /\ \A q \in Requests \ {r, w} : req'[q] = req[q]
  BY DEF TypeOK
<1>2. \A q \in Requests \ {r, w} : Stage(q)' = Stage(q)
  BY <1>1 DEF Stage, Holds, Promised, Holding
<1>3. Stage(r)' = "over" /\ Stage(w)' = "given"
  BY <1>1 DEF Stage, Holds, Promised, Holding
<1> QED BY <1>1, <1>2, <1>3

(* An owner that passes the value on is the abstract owner that leaves. *)
LEMMA PassOnLeaves ==
  ASSUME SlotInv, SlotInv', NEW r \in Requests, NEW from \in {"given", "holding"}, Stage(r) = from,
         NEW phase \in {"refused", "ended"}, PassOn(r, phase)
  PROVE  Slot!Leave(r, from)
<1> DEFINE stage == [q \in Requests |-> Stage(q)]
<1>0. TypeOK /\ SlotIsAccounted /\ TypeOK' /\ SlotIsAccounted'
  BY DEF SlotInv
<1>1. Owner = r /\ sem = 0 /\ req[r] # "waiting" /\ stage[r] = from
  BY <1>0, StageIs, OwnerIs, ServeAssumption
<1>2. CASE \A w \in Requests : req[w] # "waiting"
  <2>1. Goto(r, phase) /\ sem' = 1
    BY <1>1, <1>2 DEF PassOn
  <2>2. Owner' = NoOne
    BY <1>0, <2>1, OwnerIsNext
  <2>3. Stage(r)' = "over"
    BY <1>0, <2>1 DEF Goto, TypeOK, Stage, Holds, Promised, Holding
  <2>4. stage' = [stage EXCEPT ![r] = "over"]
    BY <1>0, <2>1, <2>3, StageMoves DEF Phases
  <2>5. \A w \in Requests : stage[w] # "waiting"
    BY <1>2, StageIs
  <2> QED BY <1>1, <2>2, <2>4, <2>5 DEF Slot!Leave
<1>3. CASE \E w \in Requests : req[w] = "waiting"
  <2>1. PICK w \in Requests : /\ req[w] = "waiting"
                             /\ req' = [req EXCEPT ![r] = phase, ![w] = "woken"]
    BY <1>3 DEF PassOn
  <2>2. stage' = [stage EXCEPT ![r] = "over", ![w] = "given"]
    BY <1>0, <1>1, <2>1, StagesMove
  <2>3. Promised(w)'
    BY <1>0, <2>1 DEF TypeOK, Promised
  <2>4. Owner' = w
    BY <1>0, <2>3, OwnerIsNext
  <2>5. stage[w] = "waiting"
    BY <2>1, StageIs
  <2> QED BY <1>1, <2>2, <2>4, <2>5 DEF Slot!Leave
<1> QED BY <1>2, <1>3

(* The gate is the abstract slot. *)
THEOREM GateImplementsSlot == Spec => ImplementsSlot
<1> USE DEF Slot!Move
<1>1. Init => Slot!Init
  <2>1. ASSUME Init PROVE \A r \in Requests : Stage(r) = "idle" /\ ~Promised(r)
    <3>1. \A r \in Requests : req[r] = "new"
      BY <2>1 DEF Init
    <3> QED BY <3>1 DEF Stage, Promised, Holds, Holding
  <2>2. ASSUME Init PROVE Owner = NoOne
    BY <2>1, <2>2 DEF Owner, Init
  <2> QED BY <2>1, <2>2 DEF Slot!Init
<1>2. ASSUME SlotInv, [Next]_vars PROVE [Slot!Next]_(Slot!vars)
  <2> DEFINE stage == [q \in Requests |-> Stage(q)]
  <2>0. TypeOK /\ SlotIsAccounted /\ SlotInv' /\ TypeOK' /\ SlotIsAccounted'
    BY <1>2, SlotStep DEF SlotInv
  <2>1. ASSUME UNCHANGED <<holder, req>> PROVE UNCHANGED Slot!vars
    <3>1. \A q \in Requests : Stage(q)' = Stage(q) /\ Promised(q)' = Promised(q)
      BY <2>1 DEF Stage, Holds, Promised
    <3>2. stage' = stage
      BY <3>1
    <3>3. Owner' = Owner
      BY <2>1 DEF Owner, Promised
    <3> QED BY <3>2, <3>3 DEF Slot!vars
  <2>2. ASSUME NEW r \in Requests, NEW phase \in Holding, Holds(r), Goto(r, phase), UNCHANGED holder
        PROVE  UNCHANGED Slot!vars
    <3>1. Holds(r)'
      BY <2>0, <2>2 DEF Holds, Goto, TypeOK
    <3>2. Stage(r) = "holding" /\ Stage(r)' = "holding"
      BY <2>2, <3>1, StageIs DEF Stage, Holds, Promised, Holding
    <3>3. stage' = stage
      BY <2>0, <2>2, <3>2, StageMoves DEF Phases, Holding
    <3>4. Owner = r /\ Owner' = r
      BY <2>0, <2>2, <3>1, OwnerIs, OwnerIsNext
    <3> QED BY <3>3, <3>4 DEF Slot!vars
  <2>4. ASSUME NEW r \in Requests, Arrive(r) PROVE Slot!Ask(r) \/ Slot!Take(r)
    <3>0. stage[r] = "idle"
      BY <2>4, StageIs DEF Arrive
    <3>1. CASE SlotFree
      <4>1. Goto(r, "granted") /\ sem = 1
        BY <2>0, <2>4, <3>1 DEF Arrive, SlotFree, TypeOK
      <4>2. Promised(r)'
        BY <2>0, <4>1 DEF Goto, TypeOK, Promised
      <4>3. Stage(r)' = "given"
        BY <2>0, <4>1 DEF Goto, TypeOK, Stage, Promised, Holds, Holding
      <4>4. Owner = NoOne /\ Owner' = r
        BY <2>0, <4>1, <4>2, OwnerIs, OwnerIsNext
      <4>5. stage' = [stage EXCEPT ![r] = "given"]
        BY <2>0, <4>1, <4>3, StageMoves DEF Phases
      <4> QED BY <3>0, <4>4, <4>5 DEF Slot!Take
    <3>2. CASE ~SlotFree
      <4>1. Goto(r, "waiting") /\ sem = 0 /\ sem' = sem /\ UNCHANGED holder
        BY <2>0, <2>4, <3>2 DEF Arrive, SlotFree, TypeOK
      <4>2. Stage(r)' = "waiting"
        <5>1. req'[r] = "waiting"
          BY <2>0, <4>1 DEF Goto, TypeOK
        <5> QED BY <5>1 DEF Stage, Promised, Holds, Holding
      <4>3. stage' = [stage EXCEPT ![r] = "waiting"]
        BY <2>0, <4>1, <4>2, StageMoves DEF Phases
      <4>4. \A q \in Requests : Promised(q)' = Promised(q)
        BY <2>0, <2>4, <4>1 DEF Goto, TypeOK, Promised, Arrive
      <4>5. Owner' = Owner /\ Owner # NoOne
        BY <2>0, <4>1, <4>4, OwnerIs DEF Owner, SlotIsAccounted
      <4> QED BY <3>0, <4>3, <4>5 DEF Slot!Ask
    <3> QED BY <3>1, <3>2
  <2>5. ASSUME NEW r \in Requests, NEW phase \in {"ended", "refused"}, ~Promised(r), ~Holds(r),
               Goto(r, phase), UNCHANGED gate
        PROVE  Owner' = Owner /\ stage' = [stage EXCEPT ![r] = "over"]
    <3>1. Stage(r)' = "over"
      BY <2>0, <2>5 DEF Goto, TypeOK, Stage, Holds, Promised, Holding
    <3>2. \A q \in Requests : Promised(q)' = Promised(q)
      BY <2>0, <2>5 DEF Goto, TypeOK, Promised
    <3>3. Owner' = Owner
      BY <2>0, <2>5, <3>2, OwnerIs DEF SlotIsAccounted, Owner
    <3> QED BY <2>0, <2>5, <3>1, <3>3, StageMoves DEF Phases
  <2>6. ASSUME NEW r \in Requests, Invalid(r) PROVE Slot!Invalid(r)
    <3>1. stage[r] = "idle" /\ ~Promised(r) /\ ~Holds(r)
      BY <2>6, StageIs DEF Invalid, Promised, Holds, Holding
    <3> QED BY <2>5, <2>6, <3>1 DEF Invalid, Slot!Invalid
  <2>7. ASSUME NEW r \in Requests, Refuse(r) PROVE Slot!TurnAway(r)
    <3>1. stage[r] = "waiting" /\ ~Promised(r) /\ ~Holds(r) /\ sem = 0
      BY <2>0, <2>7, StageIs DEF Refuse, Promised, Holds, Holding, SlotIsAccounted
    <3>2. Owner \notin {r, NoOne}
      BY <2>0, <3>1, OwnerIs
    <3> QED BY <2>5, <2>7, <3>1, <3>2 DEF Refuse, Slot!TurnAway
  <2>8. ASSUME NEW r \in Requests,
               Answer(r) \/ SentLast(r) \/ GetDone(r) \/ DisconnectGetting(r) \/ Finalize(r)
        PROVE  Slot!GiveBack(r)
    <3>1. PassOn(r, "ended") /\ Stage(r) = "holding"
      BY <2>8, StageIs DEF Answer, SentLast, GetDone, DisconnectGetting, Finalize, CleanUp, Release, Holds, Holding
    <3> QED BY <1>2, <2>0, <3>1, PassOnLeaves DEF Slot!GiveBack
  <2>9. ASSUME NEW r \in Requests, RefuseWoken(r) PROVE Slot!GiveUp(r)
    <3>1. PassOn(r, "refused") /\ Stage(r) = "given"
      BY <2>9, StageIs DEF RefuseWoken, Promised
    <3> QED BY <1>2, <2>0, <3>1, PassOnLeaves DEF Slot!GiveUp
  <2>10. ASSUME NEW r \in Requests, Acquire(r) PROVE Slot!Enter(r)
    <3>1. PICK phase \in {"unstarted", "awaiting"} : Goto(r, phase)
      BY <2>10 DEF Acquire
    <3>2. Promised(r) /\ Holds(r)' /\ stage[r] = "given"
      BY <2>0, <2>10, <3>1, StageIs DEF Acquire, Goto, TypeOK, Holds, Holding
    <3>3. Stage(r)' = "holding"
      BY <2>0, <3>1 DEF Goto, TypeOK, Stage, Holds, Promised, Holding
    <3>4. Owner = r /\ Owner' = r
      BY <2>0, <3>2, OwnerIs, OwnerIsNext
    <3> QED BY <2>0, <3>1, <3>2, <3>3, <3>4, StageMoves DEF Slot!Enter, Phases
  <2>11. ASSUME NEW r \in Requests,
               Start(r) \/ NeverStarted(r) \/ Sent(r) \/ GetChunk(r) \/ GetError(r) \/ DisconnectSending(r)
        PROVE  UNCHANGED Slot!vars
    BY <2>2, <2>11 DEF Start, NeverStarted, Sent, GetChunk, GetError, DisconnectSending, Holds, Holding
  <2>12. ASSUME NEW r \in Requests,
                Run(r) \/ FinalizeInner(r) \/ CancelDelivered(r)
         PROVE  UNCHANGED Slot!vars
    BY <2>1, <2>12 DEF Run, JobStart, PlainEnd, EngineChunk, EngineEnd, Produce, Put, PutReturns,
       CloseEngine, CancelDelivered, JobStep, FinalizeInner
  <2>13. CASE UNCHANGED vars
    BY <2>1, <2>13 DEF vars
  <2>14. CASE Next
    <3>1. PICK r \in Requests :
             \/ Arrive(r) \/ Invalid(r) \/ DisconnectGetting(r) \/ Handle(r) \/ Client(r) \/ Run(r)
             \/ Finalize(r) \/ FinalizeInner(r) \/ CancelDelivered(r)
      BY <2>14 DEF Next
    <3> QED
      BY <3>1, <2>4, <2>6, <2>7, <2>8, <2>9, <2>10, <2>11, <2>12 DEF Handle, Client, Slot!Next
  <2> QED BY <1>2, <2>13, <2>14
<1> QED BY <1>1, <1>2, SlotAlways, PTL DEF Spec, ImplementsSlot, Slot!Spec
=============================================================================
