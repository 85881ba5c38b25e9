----------------------------- MODULE ServeGate -----------------------------
(***************************************************************************)
(* Chat completions of `serve`: the InferenceGate (a semaphore of one) and *)
(* iter_on_inference_loop (infer/serve/inference.py), and their use by     *)
(* chat_completions (infer/serve/app.py).                                  *)
(*                                                                         *)
(* Two event loops take part.  Handlers and response generators run on the *)
(* HTTP loop; the engine's jobs run on the inference loop.  A streaming    *)
(* response is two nested generators: stream_chunks (its state is req[r])  *)
(* and, inside it, iter_on_inference_loop (inner[r]), which reads a queue  *)
(* that a producer task (job[r]) on the inference loop fills.  fut[r] is   *)
(* the concurrent future run_coroutine_threadsafe returns for that task.   *)
(*                                                                         *)
(* The semaphore is asyncio's, as of Python 3.10.8: a release hands its    *)
(* value to a waiter at once, and the waiter learns in a later turn of the *)
(* loop.  Any waiter may be the next; asyncio takes the first.             *)
(***************************************************************************)
EXTENDS Naturals, Sequences, FiniteSets

CONSTANTS
  Requests,     \* chat completions, each with its request id
  Streams,      \* those with "stream": true
  NoOne,        \* gate.busy_holder is None
  BusyTimeout,  \* FLASHCLI_SERVE_BUSY_TIMEOUT_SEC
  QueueCap      \* bound of this model: chunks queued and not yet read

ASSUME ServeAssumption ==
  /\ Streams \subseteq Requests
  /\ NoOne \notin Requests
  /\ BusyTimeout \in Nat
  /\ QueueCap \in Nat \ {0}

VARIABLES
  sem,     \* gate._sem._value
  holder,  \* gate._holder and gate._acquired, which change together
  req,     \* where the request's handler or stream_chunks stands
  inner,   \* its iter_on_inference_loop generator
  job,     \* its task on the inference loop
  out,     \* what the producer is putting
  fut,     \* produce_fut, or the future of a plain request's coroutine
  queue    \* the queue of iter_on_inference_loop

vars == <<sem, holder, req, inner, job, out, fut, queue>>
gate == <<sem, holder>>
pipe == <<inner, job, out, fut, queue>>

Chunks    == {"item", "finish"}   \* a chunk; one that carries finish_reason
Sentinels == {"done", "error"}    \* the iterator is exhausted; it raised

(* new: not sent yet; waiting: in sem.acquire; granted: sem.acquire took the *)
(* value, acquire has not come back; woken: a release handed the value to   *)
(* the waiter, who has not run since; awaiting: a plain request             *)
(* in gate.run; unstarted: StreamingResponse built, stream_chunks not       *)
(* entered; sending/last: suspended at a yield (last: the ones before the   *)
(* generator ends); getting: in queue.get; dropped: the generator is        *)
(* garbage and its finalizer is pending; lost: garbage and never entered.   *)
Phases == {"new", "waiting", "granted", "woken", "refused", "awaiting", "unstarted",
           "sending", "getting", "last", "dropped", "lost", "ended"}
Holding == {"awaiting", "unstarted", "sending", "getting", "last", "dropped", "lost"}
Holds(r) == req[r] \in Holding

(* The value is r's, but acquire has not set _holder yet. *)
Promised(r) == req[r] \in {"granted", "woken"}

Jobs == {"none", "scheduled", "engine", "putting", "put", "closing", "ended"}
Alive(r) == job[r] \notin {"none", "ended"}

Init ==
  /\ sem = 1
  /\ holder = NoOne
  /\ req = [r \in Requests |-> "new"]
  /\ inner = [r \in Requests |-> "none"]
  /\ job = [r \in Requests |-> "none"]
  /\ out = [r \in Requests |-> "item"]
  /\ fut = [r \in Requests |-> "none"]
  /\ queue = [r \in Requests |-> <<>>]

Goto(r, phase) == req' = [req EXCEPT ![r] = phase]

(* Semaphore.release: r goes on to phase, and the value goes to a waiter if *)
(* there is one.  What a woken waiter does that gives up is the same.       *)
PassOn(r, phase) ==
  \/ \E w \in Requests :
        /\ req[w] = "waiting"
        /\ req' = [req EXCEPT ![r] = phase, ![w] = "woken"]
        /\ UNCHANGED sem
  \/ /\ \A w \in Requests : req[w] # "waiting"
     /\ Goto(r, phase)
     /\ sem' = sem + 1

(* (mutant: release forgets _holder and _acquired) *)
ReleaseSilently(r) == PassOn(r, "ended") /\ UNCHANGED holder

(* Every way out of a request that had the slot. *)
Release(r) == PassOn(r, "ended") /\ holder' = NoOne

(* run_coroutine_threadsafe: a task on the inference loop and its future. *)
Submit(r) ==
  /\ job' = [job EXCEPT ![r] = "scheduled"]
  /\ fut' = [fut EXCEPT ![r] = "pending"]

(* (mutant: the finally clause waits for the producer and forgets to cancel it) *)
CancelFinished(f) == IF f = "done" THEN "cancelled" ELSE f

(* produce_fut.cancel() marks a pending concurrent future CANCELLED at once; *)
(* the task behind it learns later.                                          *)
Cancelled(f) == IF f = "pending" THEN "cancelled" ELSE f

(* The finally clause of iter_on_inference_loop.  Whether it has just been    *)
(* cancelled or was done before, produce_fut is done when wrap_future awaits  *)
(* it: the clause never waits for the task.                                   *)
CloseInner(r) ==
  /\ inner' = [inner EXCEPT ![r] = "closed"]
  /\ fut' = [fut EXCEPT ![r] = Cancelled(@)]
  /\ queue' = [queue EXCEPT ![r] = <<>>]
  /\ UNCHANGED <<job, out>>

(* stream_chunks lets go of the inner generator: a suspended one is left to *)
(* the event loop's finalizer hook.                                          *)
DropInner(r) ==
  /\ inner' = [inner EXCEPT ![r] = IF @ = "open" THEN "dropped" ELSE @]
  /\ UNCHANGED <<job, out, fut, queue>>

-----------------------------------------------------------------------------
(* The handler *)

(* (mutant: acquire goes on without waiting for the semaphore) *)
NoWait == TRUE

SlotFree == sem > 0

(* The body is read, and acquire calls sem.acquire. *)
Arrive(r) ==
  /\ req[r] = "new"
  /\ IF SlotFree
     THEN sem' = sem - 1 /\ Goto(r, "granted")
     ELSE Goto(r, "waiting") /\ UNCHANGED sem
  /\ UNCHANGED <<holder, pipe>>

(* status 400: the body does not parse. *)
Invalid(r) ==
  /\ req[r] = "new"
  /\ Goto(r, "ended")
  /\ UNCHANGED <<gate, pipe>>

(* sem.acquire has come back: acquire sets _holder. *)
Acquire(r) ==
  /\ Promised(r)
  /\ holder' = r
  /\ UNCHANGED sem
  /\ IF r \in Streams
     THEN Goto(r, "unstarted") /\ UNCHANGED pipe
     ELSE Goto(r, "awaiting") /\ Submit(r) /\ UNCHANGED <<inner, out, queue>>

NoLimit == 0   \* asyncio.wait_for's timeout=None

(* (mutant: a busy timeout of zero is no timeout) *)
ZeroIsNoLimit == IF BusyTimeout = 0 THEN NoLimit ELSE 1000 * BusyTimeout

(* How long acquire waits, in milliseconds: zero seconds is one millisecond. *)
WaitMs == IF BusyTimeout = 0 THEN 1 ELSE 1000 * BusyTimeout

(* GpuBusyError, status 503: wait_for gives up. *)
Refuse(r) ==
  /\ req[r] = "waiting"
  /\ WaitMs # NoLimit
  /\ Goto(r, "refused")
  /\ UNCHANGED <<gate, pipe>>

(* The same, where the time-out falls in the turn of the hand-over: the     *)
(* cancelled sem.acquire passes the value on.  No other request is running. *)
RefuseWoken(r) ==
  /\ req[r] = "woken"
  /\ WaitMs # NoLimit
  /\ PassOn(r, "refused")
  /\ UNCHANGED <<holder, pipe>>

Finished(r) == fut[r] = "done"

(* A plain request's coroutine has returned or raised; gate.run releases. *)
Answer(r) ==
  /\ req[r] = "awaiting"
  /\ Finished(r)
  /\ Release(r)
  /\ UNCHANGED pipe

(* The framework asks stream_chunks for its first chunk ... *)
Start(r) ==
  /\ req[r] = "unstarted"
  /\ Goto(r, "sending")
  /\ UNCHANGED <<gate, pipe>>

(* ... or the client is gone before it does.  A generator that was never   *)
(* entered has no finally clause to run.                                   *)
NeverStarted(r) ==
  /\ req[r] = "unstarted"
  /\ Goto(r, "lost")
  /\ UNCHANGED <<gate, pipe>>

-----------------------------------------------------------------------------
(* stream_chunks and the client *)

(* The client has taken the chunk.  The first time, iter_on_inference_loop *)
(* is entered and submits produce().                                       *)
Sent(r) ==
  /\ req[r] = "sending"
  /\ Goto(r, "getting")
  /\ IF inner[r] = "none"
     THEN inner' = [inner EXCEPT ![r] = "open"] /\ Submit(r)
     ELSE UNCHANGED <<inner, job, fut>>
  /\ UNCHANGED <<gate, out, queue>>

(* The final chunks are out: stream_chunks returns, and its finally clause *)
(* releases the slot before anything closes a suspended inner generator.   *)
SentLast(r) ==
  /\ req[r] = "last"
  /\ Release(r)
  /\ DropInner(r)

Pop(r) == queue' = [queue EXCEPT ![r] = Tail(@)]

(* queue.get returns a chunk; one without any delta yields nothing. *)
GetChunk(r) ==
  /\ req[r] = "getting"
  /\ queue[r] # <<>>
  /\ Head(queue[r]) \in Chunks
  /\ Pop(r)
  /\ \/ Head(queue[r]) = "finish" /\ Goto(r, "last")
     \/ Head(queue[r]) = "item" /\ (Goto(r, "sending") \/ Goto(r, "getting"))
  /\ UNCHANGED <<gate, inner, job, out, fut>>

(* The iterator ended without a finish chunk: nothing more is sent. *)
GetDone(r) ==
  /\ req[r] = "getting"
  /\ queue[r] # <<>>
  /\ Head(queue[r]) = "done"
  /\ CloseInner(r)
  /\ Release(r)

(* The engine raised: the error and [DONE] are still to be sent. *)
GetError(r) ==
  /\ req[r] = "getting"
  /\ queue[r] # <<>>
  /\ Head(queue[r]) = "error"
  /\ CloseInner(r)
  /\ Goto(r, "last")
  /\ UNCHANGED gate

(* (mutant: stream_chunks releases after its loop, not in a finally clause) *)
KeepSlot(r) == Goto(r, "ended") /\ UNCHANGED gate

CleanUp(r) == Release(r)

(* The client goes away while stream_chunks is in queue.get: CancelledError *)
(* runs the inner finally clause, then the outer one.                       *)
DisconnectGetting(r) ==
  /\ req[r] = "getting"
  /\ CloseInner(r)
  /\ CleanUp(r)

(* The client goes away while a chunk is being sent: the suspended          *)
(* stream_chunks is dropped, and closed later by its finalizer.             *)
DisconnectSending(r) ==
  /\ req[r] \in {"sending", "last"}
  /\ Goto(r, "dropped")
  /\ UNCHANGED <<gate, pipe>>

Finalize(r) ==
  /\ req[r] = "dropped"
  /\ CleanUp(r)
  /\ DropInner(r)

FinalizeInner(r) ==
  /\ inner[r] = "dropped"
  /\ CloseInner(r)
  /\ UNCHANGED <<gate, req>>

-----------------------------------------------------------------------------
(* The inference loop *)

JobStep(r, from, to) ==
  /\ job[r] = from
  /\ job' = [job EXCEPT ![r] = to]
  /\ UNCHANGED <<gate, req, inner>>

(* A task takes its first step even if its future is cancelled by then. *)
JobStart(r) ==
  /\ JobStep(r, "scheduled", "engine")
  /\ UNCHANGED <<out, fut, queue>>

(* A plain request's engine call ends, normally or with an exception. *)
PlainEnd(r) ==
  /\ r \notin Streams
  /\ JobStep(r, "engine", "ended")
  /\ fut' = [fut EXCEPT ![r] = "done"]
  /\ UNCHANGED <<out, queue>>

Produce(r, what) ==
  /\ r \in Streams
  /\ JobStep(r, "engine", "putting")
  /\ out' = [out EXCEPT ![r] = what]
  /\ UNCHANGED <<fut, queue>>

EngineChunk(r) == \E c \in Chunks : Produce(r, c)

EngineEnd(r) == \E s \in Sentinels : Produce(r, s)

(* (mutant: produce() has no handler for the engine's exceptions) *)
NoErrorPut(q, what) == IF what = "error" THEN q ELSE Append(q, what)

PutInto(q, what) == Append(q, what)

(* The HTTP loop runs queue.put; the queue of a closed inner generator is *)
(* read by no one.                                                        *)
Put(r) ==
  /\ Len(queue[r]) < QueueCap
  /\ JobStep(r, "putting", "put")
  /\ queue' = [queue EXCEPT ![r] = IF inner[r] = "closed" THEN @ ELSE PutInto(@, out[r])]
  /\ UNCHANGED <<out, fut>>

(* The producer learns that its item is in. *)
PutReturns(r) ==
  /\ JobStep(r, "put", IF out[r] \in Chunks THEN "engine" ELSE "ended")
  /\ fut' = [fut EXCEPT ![r] = IF out[r] \in Sentinels /\ @ = "pending" THEN "done" ELSE @]
  /\ UNCHANGED <<out, queue>>

(* CancelledError at an await of the task: one in the engine, or the put.  *)
(* At a put the engine's own generator is suspended, dropped with the task *)
(* and closed later by its finalizer.                                      *)
CancelDelivered(r) ==
  /\ fut[r] = "cancelled"
  /\ \/ JobStep(r, "engine", "ended")
     \/ JobStep(r, "putting", "closing")
     \/ JobStep(r, "put", "closing")
  /\ UNCHANGED <<out, fut, queue>>

CloseEngine(r) ==
  /\ JobStep(r, "closing", "ended")
  /\ UNCHANGED <<out, fut, queue>>

-----------------------------------------------------------------------------
Handle(r) == Acquire(r) \/ Refuse(r) \/ RefuseWoken(r)
             \/ Answer(r) \/ GetChunk(r) \/ GetDone(r) \/ GetError(r)
Client(r) == Start(r) \/ NeverStarted(r) \/ Sent(r) \/ SentLast(r) \/ DisconnectSending(r)
Run(r)    == JobStart(r) \/ PlainEnd(r) \/ EngineChunk(r) \/ EngineEnd(r) \/ Put(r)
             \/ PutReturns(r) \/ CloseEngine(r)

Next ==
  \E r \in Requests :
     \/ Arrive(r) \/ Invalid(r) \/ DisconnectGetting(r)
     \/ Handle(r) \/ Client(r) \/ Run(r)
     \/ Finalize(r) \/ FinalizeInner(r) \/ CancelDelivered(r)

Spec == Init /\ [][Next]_vars

(* The loops run what is ready, finalizer hooks included; a client takes   *)
(* the next chunk or goes away; a wait for the slot ends; a cancelled task *)
(* reaches an await; a generation is finite (max_tokens), but nothing is   *)
(* assumed of one whose request has given the slot back.                   *)
Fairness ==
  \A r \in Requests :
     /\ WF_vars(Handle(r)) /\ WF_vars(Client(r)) /\ WF_vars(Run(r))
     /\ WF_vars(Finalize(r)) /\ WF_vars(FinalizeInner(r)) /\ SF_vars(CancelDelivered(r))
     /\ SF_vars(Holds(r) /\ EngineEnd(r))

FairSpec == Spec /\ Fairness

-----------------------------------------------------------------------------
TypeOK ==
  /\ sem \in 0..1
  /\ holder \in Requests \cup {NoOne}
  /\ req \in [Requests -> Phases]
  /\ inner \in [Requests -> {"none", "open", "dropped", "closed"}]
  /\ job \in [Requests -> Jobs]
  /\ out \in [Requests -> Chunks \cup Sentinels]
  /\ fut \in [Requests -> {"none", "pending", "done", "cancelled"}]
  /\ queue \in [Requests -> Seq(Chunks \cup Sentinels)]
  /\ \A r \in Requests : Len(queue[r]) <= QueueCap

(* The slot is released exactly once for every time it is acquired, on     *)
(* every path of both generators and through every hand-over: its value is *)
(* the semaphore's, a woken waiter's or the holder's, never two of these,  *)
(* /health names the request that has it for as long as it does, and no    *)
(* request waits for a slot that is free (a lost wake-up).                 *)
SlotIsAccounted ==
  /\ \A r \in Requests : Holds(r) <=> holder = r
  /\ sem = IF \E r \in Requests : Holds(r) \/ Promised(r) THEN 0 ELSE 1
  /\ \A r, q \in Requests : (Holds(r) \/ Promised(r)) /\ (Holds(q) \/ Promised(q)) => r = q
  /\ \A r \in Requests : req[r] = "waiting" => sem = 0

(* A plain request keeps the slot until its engine call has ended. *)
PlainHoldsUntilDone == \A r \in Requests \ Streams : Alive(r) => holder = r

(* A response that waits for a chunk has a producer that will bring one: no *)
(* way through produce() ends without a sentinel.                           *)
NoOneStarves ==
  \A r \in Requests : req[r] = "getting" /\ queue[r] = <<>> => Alive(r)

(* A producer whose request no longer has the slot has been told to stop,  *)
(* or its generator is on its way to the finalizer.                        *)
OrphansAreCancelled ==
  \A r \in Streams : Alive(r) /\ ~Holds(r) => fut[r] = "cancelled" \/ inner[r] = "dropped"

(* Every request that has the slot gives it back, unless its response was  *)
(* never started.                                                          *)
SlotComesBack == \A r \in Requests : holder = r ~> (holder # r \/ req[r] = "lost")

(* No request waits for ever, not even for a slot that never comes back:   *)
(* with the default busy timeout of zero, too.                             *)
EveryoneIsAnswered ==
  \A r \in Requests :
     (req[r] = "waiting" \/ Promised(r)) ~> ~(req[r] = "waiting" \/ Promised(r))

(* A producer whose request has given the slot back ends, even if its      *)
(* engine would generate for ever.                                         *)
OrphansEnd == \A r \in Requests : (Alive(r) /\ ~Holds(r)) ~> ~Alive(r)

Stage(r) ==
  CASE req[r] = "new"      -> "idle"
    [] req[r] = "waiting"  -> "waiting"
    [] Promised(r)         -> "given"
    [] Holds(r)            -> "holding"
    [] OTHER               -> "over"

(* Whose the slot is, from the moment a release hands it over. *)
Owner == IF \E r \in Requests : Promised(r) THEN CHOOSE r \in Requests : Promised(r) ELSE holder

(* The gate is the abstract slot: it is given to one request at a time, goes *)
(* to a waiter whenever it is given back, and a request is refused only      *)
(* while another has it or in the moment in which it was to have it itself.  *)
Slot == INSTANCE InferenceSlot WITH owner <- Owner, stage <- [r \in Requests |-> Stage(r)]
ImplementsSlot == Slot!Spec
=============================================================================
