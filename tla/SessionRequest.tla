--------------------------- MODULE SessionRequest ---------------------------
(***************************************************************************)
(* inferencing/session/{request.h,session.cc,callback_handler.h}: the life *)
(* of one invocation, Session::ProcessRequest, from its admission to the   *)
(* publication of its completion, with everything that may cancel it: the  *)
(* caller, its streaming callback, a closed connection and the shutdown of *)
(* its session.                                                            *)
(*                                                                         *)
(* A thread processes one request on one session at a time.  The streaming *)
(* callback runs on a worker thread of its own, fed by a queue; a worker   *)
(* and a queue are named by the thread whose call they belong to.          *)
(***************************************************************************)
EXTENDS Naturals

CONSTANTS Threads,
          Requests,
          OneShot,    \* requests of a connection: processed once, closed with it
          Sessions,
          Chat,       \* sessions that keep a transcript
          Concurrent, \* sessions with allow_concurrent_requests_; they do not stream
          MaxItems,   \* how long the queue may get (a bound)
          Window,     \* kMaxCancellationDrainItems
          None        \* no session, no request

ASSUME RequestAssumption == OneShot \subseteq Requests
ASSUME SessionAssumption ==
  Chat \subseteq Sessions /\ Concurrent \subseteq Sessions /\ Chat \cap Concurrent = {}
ASSUME QueueAssumption == MaxItems \in Nat /\ Window \in Nat
ASSUME SessionNoneAssumption == None \notin Requests \cup Sessions

VARIABLES
  state,            \* Request::state_; the four reasons of a cancellation are one
  cancel_on_start,  \* Request::cancel_on_start_
  closing,          \* the step CancelCurrentOrNext is at, for each request
  active,           \* Session::active_requests_
  session_canceled, \* Session::session_canceled_
  pc, session, request, \* of each thread: its step and its arguments
  result,           \* what the call has come to
  committed,        \* the call has added its turn to the transcript
  worker,           \* the step of each call's callback worker, "none" if there is none
  queue,            \* the number of items waiting for the worker
  in_progress,      \* CallbackHandler::callback_in_progress_
  acked             \* history: a cancel was accepted by the request's invocation

requestVars == <<state, cancel_on_start, closing, acked>>
sessionVars == <<active, session_canceled>>
callVars == <<pc, session, request, result, committed>>
streamVars == <<worker, queue, in_progress>>
vars == <<requestVars, sessionVars, callVars, streamVars>>

States == {"Ready", "Running", "Canceled", "Completing", "Completed"}
Steps == {"idle", "entered", "begun", "admitted",
          "impl", "drained", "claimed", "leaving",  \* inside ProcessRequestImpl
          "returned", "finishing", "unregistered"}
WorkerSteps == {"none", "waiting", "loop", "firing", "popped", "answered",
                "broken", "empty", "exited"}

TypeOK ==
  /\ state \in [Requests -> States]
  /\ cancel_on_start \in [Requests -> BOOLEAN]
  /\ closing \in [Requests -> {"open", "ready", "flagged", "closed"}]
  /\ active \in [Sessions -> SUBSET Requests]
  /\ session_canceled \in [Sessions -> BOOLEAN]
  /\ pc \in [Threads -> Steps]
  /\ session \in [Threads -> Sessions \cup {None}]
  /\ request \in [Threads -> Requests \cup {None}]
  /\ result \in [Threads -> {"none", "thrown", "success"}]
  /\ committed \in [Threads -> BOOLEAN]
  /\ worker \in [Threads -> WorkerSteps]
  /\ queue \in [Threads -> 0 .. MaxItems]
  /\ in_progress \in [Threads -> BOOLEAN]
  /\ acked \in [Requests -> BOOLEAN]

Init ==
  /\ state = [r \in Requests |-> "Ready"]
  /\ cancel_on_start = [r \in Requests |-> FALSE]
  /\ closing = [r \in Requests |-> "open"]
  /\ active = [s \in Sessions |-> {}]
  /\ session_canceled = [s \in Sessions |-> FALSE]
  /\ pc = [t \in Threads |-> "idle"]
  /\ session = [t \in Threads |-> None]
  /\ request = [t \in Threads |-> None]
  /\ result = [t \in Threads |-> "none"]
  /\ committed = [t \in Threads |-> FALSE]
  /\ worker = [t \in Threads |-> "none"]
  /\ queue = [t \in Threads |-> 0]
  /\ in_progress = [t \in Threads |-> FALSE]
  /\ acked = [r \in Requests |-> FALSE]

-----------------------------------------------------------------------------
\* Request::Cancel on every request of R: a CAS from Running, which reports
\* success too when the invocation is canceled already.
Cancel(R) ==
  /\ state' = [r \in Requests |->
                 IF r \in R /\ state[r] = "Running" THEN "Canceled" ELSE state[r]]
  /\ acked' = [r \in Requests |->
                 acked[r] \/ (r \in R /\ state[r] \in {"Running", "Canceled"})]

Canceled(t) == state[request[t]] = "Canceled"

Moves(t, from, to) == pc[t] = from /\ pc' = [pc EXCEPT ![t] = to]

\* active_requests_mutex_ is held through "begun" and for the length of other steps.
ActiveMutexFree(s) == \A t \in Threads : ~(pc[t] = "begun" /\ session[t] = s)

(* Admission.                                                              *)

\* ProcessRequest takes request_mutex_, which only a concurrent session leaves out.
Enter(t, s, r) ==
  /\ s \in Concurrent \/ \A u \in Threads : session[u] # s
  /\ r \in OneShot => state[r] = "Ready" /\ \A u \in Threads : request[u] # r
  /\ Moves(t, "idle", "entered")
  /\ session' = [session EXCEPT ![t] = s]
  /\ request' = [request EXCEPT ![t] = r]
  /\ UNCHANGED <<requestVars, sessionVars, result, committed, streamVars>>

\* TryBegin's CAS; a request that is being processed already is refused.
TryBegin(t) ==
  LET r == request[t] IN
  /\ pc[t] = "entered" /\ ActiveMutexFree(session[t])
  /\ IF state[r] \in {"Ready", "Completed"}
       THEN /\ Moves(t, "entered", "begun")
            /\ state' = [state EXCEPT ![r] = "Running"]
            /\ acked' = [acked EXCEPT ![r] = FALSE]
            /\ UNCHANGED <<session, request>>
       ELSE /\ Moves(t, "entered", "idle")
            /\ session' = [session EXCEPT ![t] = None]
            /\ request' = [request EXCEPT ![t] = None]
            /\ UNCHANGED <<state, acked>>
  /\ UNCHANGED <<cancel_on_start, closing, sessionVars, result, committed, streamVars>>

\* Mutant: only the flag of a closed connection is looked at.
CanceledBeforeStart(t) == cancel_on_start[request[t]]
\* A connection that closed before, and a session that is shutting down.
CanceledAtStart(t) == cancel_on_start[request[t]] \/ session_canceled[session[t]]

\* The rest of admission, still under active_requests_mutex_; registering may throw.
Admit(t) ==
  LET r == request[t] IN
  /\ \/ /\ Moves(t, "begun", "admitted")
        /\ active' = [active EXCEPT ![session[t]] = @ \cup {r}]
        /\ UNCHANGED result
     \/ /\ Moves(t, "begun", "unregistered")
        /\ result' = [result EXCEPT ![t] = "thrown"]
        /\ UNCHANGED active
  /\ Cancel(IF CanceledAtStart(t) THEN {r} ELSE {})
  /\ cancel_on_start' = [cancel_on_start EXCEPT ![r] = FALSE]
  /\ UNCHANGED <<closing, session_canceled, session, request, committed, streamVars>>

\* A canceled or invalid request goes no further; the others enter
\* ProcessRequestImpl, which starts a worker if there is a callback.
Start(t) ==
  /\ \/ /\ Moves(t, "admitted", "returned")
        /\ result' = [result EXCEPT ![t] = "thrown"]
        /\ UNCHANGED worker
     \/ /\ Moves(t, "admitted", "impl")
        /\ ~Canceled(t)
        /\ \/ UNCHANGED worker
           \/ session[t] \notin Concurrent /\ worker' = [worker EXCEPT ![t] = "waiting"]
        /\ UNCHANGED result
  /\ UNCHANGED <<requestVars, sessionVars, session, request, committed, queue, in_progress>>

-----------------------------------------------------------------------------
(* ProcessRequestImpl.                                                     *)

\* PushItem drops the item of a canceled request, or of a worker that has gone.
Push(t) ==
  /\ queue[t] < MaxItems
  /\ ~Canceled(t) /\ worker[t] \notin {"none", "exited"}
  /\ queue' = [queue EXCEPT ![t] = @ + 1]

Generate(t) ==
  /\ pc[t] = "impl"
  /\ Push(t)
  /\ UNCHANGED <<requestVars, sessionVars, callVars, worker, in_progress>>

\* Mutant: an empty queue is taken for the end of the last callback.
QueueEmpty(t) == queue[t] = 0
\* DrainPending waits until the callback has returned for everything it was given.
Delivered(t) == queue[t] = 0 /\ ~in_progress[t]

\* A chat turn drains, and gives up if it is canceled by then ...
DrainPending(t) ==
  /\ pc[t] = "impl" /\ session[t] \in Chat
  /\ Delivered(t)
  /\ Moves(t, "impl", IF Canceled(t) THEN "leaving" ELSE "drained")
  /\ UNCHANGED <<requestVars, sessionVars, session, request, result, committed, streamVars>>

\* Mutant: the turn goes on if it is not canceled yet.
LooksBeforeCommit(t) ==
  /\ pc[t] = "drained"
  /\ Moves(t, "drained", IF Canceled(t) THEN "leaving" ELSE "claimed")
  /\ UNCHANGED <<requestVars, sessionVars, session, request, result, committed, streamVars>>

\* ... claims its completion, unless a cancel was faster ...
Claim(t) ==
  /\ pc[t] = "drained"
  /\ Moves(t, "drained", IF Canceled(t) THEN "leaving" ELSE "claimed")
  /\ state' = IF Canceled(t) THEN state ELSE [state EXCEPT ![request[t]] = "Completing"]
  /\ UNCHANGED <<cancel_on_start, closing, acked, sessionVars, session, request, result,
                 committed, streamVars>>

\* ... and commits to the transcript, or sends the final chunk of a JSON stream.
\* The handler's destructor marks the queue as finished.
CommitTurn(t) ==
  /\ Moves(t, "claimed", "leaving")
  /\ \/ committed' = [committed EXCEPT ![t] = TRUE] /\ UNCHANGED queue
     \/ Push(t) /\ UNCHANGED committed
  /\ UNCHANGED <<requestVars, sessionVars, session, request, result, worker, in_progress>>

\* Other sessions return when they are done, or see that they are canceled.
Return(t) ==
  /\ session[t] \notin Chat
  /\ Moves(t, "impl", "leaving")
  /\ UNCHANGED <<requestVars, sessionVars, session, request, result, committed, streamVars>>

\* Generation fails; or, after the claim, the formatting of the final chunk.
Throw(t) ==
  /\ Moves(t, "impl", "leaving") \/ Moves(t, "drained", "leaving") \/ Moves(t, "claimed", "leaving")
  /\ result' = [result EXCEPT ![t] = "thrown"]
  /\ UNCHANGED <<requestVars, sessionVars, session, request, committed, streamVars>>

\* The destructor joins the worker, and the handler is gone.
Join(t) ==
  /\ Moves(t, "leaving", "returned")
  /\ worker[t] \in {"none", "exited"}
  /\ worker' = [worker EXCEPT ![t] = "none"]
  /\ queue' = [queue EXCEPT ![t] = 0]
  /\ in_progress' = [in_progress EXCEPT ![t] = FALSE]
  /\ UNCHANGED <<requestVars, sessionVars, session, request, result, committed>>

-----------------------------------------------------------------------------
(* The terminal part of ProcessRequest.                                    *)

\* TryComplete: a claimed completion stays claimed, a cancel stays a cancel.
TryComplete(t) ==
  LET r == request[t] IN
  /\ Moves(t, "returned", "finishing")
  /\ state' = IF state[r] = "Running" THEN [state EXCEPT ![r] = "Completing"] ELSE state
  /\ result' = [result EXCEPT ![t] = IF Canceled(t) THEN "thrown"
                                     ELSE IF @ = "none" THEN "success" ELSE @]
  /\ UNCHANGED <<cancel_on_start, closing, acked, sessionVars, session, request, committed,
                 streamVars>>

\* Mutant: the completion is published before the request is unregistered.
PublishFirst(t) ==
  /\ ActiveMutexFree(session[t])
  /\ Moves(t, "finishing", "unregistered")
  /\ state' = [state EXCEPT ![request[t]] = "Completed"]
  /\ UNCHANGED <<cancel_on_start, closing, acked, active, session_canceled, session, request,
                 result, committed, streamVars>>

\* finish_lifecycle unregisters the request first ...
Unregister(t) ==
  /\ ActiveMutexFree(session[t])
  /\ Moves(t, "finishing", "unregistered")
  /\ active' = [active EXCEPT ![session[t]] = @ \ {request[t]}]
  /\ UNCHANGED <<requestVars, session_canceled, session, request, result, committed, streamVars>>

\* ... and makes it reusable last.
PublishCompletion(t) ==
  /\ Moves(t, "unregistered", "idle")
  /\ state' = [state EXCEPT ![request[t]] = "Completed"]
  /\ session' = [session EXCEPT ![t] = None]
  /\ request' = [request EXCEPT ![t] = None]
  /\ result' = [result EXCEPT ![t] = "none"]
  /\ committed' = [committed EXCEPT ![t] = FALSE]
  /\ UNCHANGED <<cancel_on_start, closing, acked, sessionVars, streamVars>>

-----------------------------------------------------------------------------
(* CallbackHandler::WorkerLoop.                                            *)

Finished(t) == pc[t] = "leaving"
WorkerMoves(t, from, to) == worker[t] = from /\ worker' = [worker EXCEPT ![t] = to]
InProgress(t, b) == in_progress' = [in_progress EXCEPT ![t] = b]

WaitUntilNonEmptyOrFinished(t) ==
  /\ WorkerMoves(t, "waiting", "loop")
  /\ queue[t] > 0 \/ Finished(t)
  /\ UNCHANGED <<requestVars, sessionVars, callVars, queue, in_progress>>

\* The head of the inner loop: nothing left; too much left by a canceled
\* request, which is dropped; or the next callback.
NextItem(t) ==
  LET drop == Canceled(t) /\ queue[t] > Window IN
  /\ \/ /\ queue[t] = 0
        /\ WorkerMoves(t, "loop", "empty")
        /\ UNCHANGED <<queue, in_progress>>
     \/ /\ WorkerMoves(t, "loop", "empty")
        /\ drop
        /\ queue' = [queue EXCEPT ![t] = 0]
        /\ InProgress(t, FALSE)
     \/ /\ WorkerMoves(t, "loop", "firing")
        /\ queue[t] > 0 /\ ~drop
        /\ InProgress(t, TRUE)
        /\ UNCHANGED queue
  /\ UNCHANGED <<requestVars, sessionVars, callVars>>

\* Mutant: the callback is taken to pop two items.
PopTwo(t) ==
  /\ WorkerMoves(t, "firing", "popped")
  /\ queue' = [queue EXCEPT ![t] = @ - 2]
  /\ UNCHANGED <<requestVars, sessionVars, callVars, in_progress>>

\* The user's callback pops what it wants, at least one item.
Pop(t) ==
  /\ WorkerMoves(t, "firing", "popped")
  /\ \E n \in 0 .. queue[t] - 1 : queue' = [queue EXCEPT ![t] = n]
  /\ UNCHANGED <<requestVars, sessionVars, callVars, in_progress>>

\* It returns zero to go on, anything else to cancel; or it throws.
Answer(t) ==
  /\ \/ WorkerMoves(t, "popped", "answered") /\ UNCHANGED <<state, acked>>
     \/ WorkerMoves(t, "popped", "answered") /\ Cancel({request[t]})
     \/ WorkerMoves(t, "popped", "broken") /\ Cancel({request[t]})
  /\ UNCHANGED <<cancel_on_start, closing, sessionVars, callVars, queue, in_progress>>

CallbackReturned(t) ==
  /\ WorkerMoves(t, "answered", "loop")
  /\ InProgress(t, FALSE)
  /\ UNCHANGED <<requestVars, sessionVars, callVars, queue>>

\* Mutant: the pending items are dropped and the flag is left.
DropsItemsOnly(t) ==
  /\ WorkerMoves(t, "broken", "exited")
  /\ queue' = [queue EXCEPT ![t] = 0]
  /\ UNCHANGED <<requestVars, sessionVars, callVars, in_progress>>

\* DisableAfterException drops what is left, and the worker ends.
DisableAfterException(t) ==
  /\ WorkerMoves(t, "broken", "exited")
  /\ queue' = [queue EXCEPT ![t] = 0]
  /\ InProgress(t, FALSE)
  /\ UNCHANGED <<requestVars, sessionVars, callVars>>

\* IsFinished is asked after the size was seen to be zero, in another critical
\* section of the queue.
CheckFinished(t) ==
  /\ WorkerMoves(t, "empty", IF Finished(t) THEN "exited" ELSE "waiting")
  /\ UNCHANGED <<requestVars, sessionVars, callVars, queue, in_progress>>

-----------------------------------------------------------------------------
(* Who cancels from outside.                                               *)

CancelByCaller(r) ==
  /\ Cancel({r})
  /\ UNCHANGED <<cancel_on_start, closing, sessionVars, callVars, streamVars>>

Closes(r, from, to) == closing[r] = from /\ closing' = [closing EXCEPT ![r] = to]

\* CancelCurrentOrNext reads the state ...
CloseLooks(r) ==
  /\ r \in OneShot
  /\ Closes(r, "open", IF state[r] = "Ready" THEN "ready" ELSE "flagged")
  /\ UNCHANGED <<state, cancel_on_start, acked, sessionVars, callVars, streamVars>>

\* Mutant: a request that was Ready needs no Cancel().
FlagsAndLeaves(r) ==
  /\ Closes(r, "ready", "closed")
  /\ cancel_on_start' = [cancel_on_start EXCEPT ![r] = TRUE]
  /\ UNCHANGED <<state, acked, sessionVars, callVars, streamVars>>

\* ... leaves the flag if the request was Ready then ...
CloseFlags(r) ==
  /\ Closes(r, "ready", "flagged")
  /\ cancel_on_start' = [cancel_on_start EXCEPT ![r] = TRUE]
  /\ UNCHANGED <<state, acked, sessionVars, callVars, streamVars>>

\* ... and cancels in any case.
CloseCancels(r) ==
  /\ Closes(r, "flagged", "closed")
  /\ Cancel({r})
  /\ UNCHANGED <<cancel_on_start, sessionVars, callVars, streamVars>>

\* Session::Cancel, under active_requests_mutex_.
CancelSession(s) ==
  /\ ActiveMutexFree(s)
  /\ session_canceled' = [session_canceled EXCEPT ![s] = TRUE]
  /\ Cancel(active[s])
  /\ UNCHANGED <<cancel_on_start, closing, active, callVars, streamVars>>

-----------------------------------------------------------------------------
ProcessRequest(t) ==
  \/ TryBegin(t) \/ Admit(t) \/ Start(t)
  \/ DrainPending(t) \/ Claim(t) \/ CommitTurn(t) \/ Return(t) \/ Join(t)
  \/ TryComplete(t) \/ Unregister(t) \/ PublishCompletion(t)

WorkerLoop(t) ==
  \/ WaitUntilNonEmptyOrFinished(t) \/ NextItem(t) \/ Pop(t) \/ Answer(t)
  \/ CallbackReturned(t) \/ DisableAfterException(t) \/ CheckFinished(t)

Next ==
  \/ \E t \in Threads, s \in Sessions, r \in Requests : Enter(t, s, r)
  \/ \E t \in Threads : ProcessRequest(t) \/ Generate(t) \/ Throw(t) \/ WorkerLoop(t)
  \/ \E r \in Requests :
       CancelByCaller(r) \/ CloseLooks(r) \/ CloseFlags(r) \/ CloseCancels(r)
  \/ \E s \in Sessions : CancelSession(s)

\* A call that is under way goes on, without help of an exception, and so does
\* its worker: generation polls for cancellation and ends, and callbacks return,
\* having popped an item.
Fairness == \A t \in Threads : WF_vars(ProcessRequest(t)) /\ WF_vars(WorkerLoop(t))

Spec == Init /\ [][Next]_vars
FairSpec == Spec /\ Fairness

-----------------------------------------------------------------------------
Registered(t) == pc[t] \in {"admitted", "impl", "drained", "claimed", "leaving",
                            "returned", "finishing"}

(***************************************************************************)
(* A cancel that was accepted wins over the completion: the call it        *)
(* stopped neither succeeds nor adds its turn to the transcript.           *)
(***************************************************************************)
CancelHonoured ==
  \A t \in Threads : Registered(t) /\ acked[request[t]]
    => result[t] # "success" /\ ~committed[t]

(***************************************************************************)
(* A call is in the table of its session for as long as it may run, and    *)
(* nobody else processes its request: reuse of a request that has just     *)
(* completed never takes away the registration of the new invocation.      *)
(***************************************************************************)
ActiveTracked ==
  \A t \in Threads : Registered(t) =>
    /\ request[t] \in active[session[t]]
    /\ \A u \in Threads \ {t} : Registered(u) => request[u] # request[t]

(***************************************************************************)
(* A shutdown reaches every call of its session, those it found and those  *)
(* that are admitted later.                                                *)
(***************************************************************************)
ShutdownReachesAll ==
  \A t \in Threads : Registered(t) /\ session_canceled[session[t]]
    => state[request[t]] # "Running"

(***************************************************************************)
(* Once CancelCurrentOrNext has returned, the request of the connection    *)
(* does not run, wherever its admission was when the connection closed.    *)
(***************************************************************************)
ClosedNeverRuns ==
  \A t \in Threads : Registered(t) /\ closing[request[t]] = "closed"
    => state[request[t]] # "Running"

(***************************************************************************)
(* A chat turn claims its completion when its callback has answered for    *)
(* every item: none is left that could still reject the turn.              *)
(***************************************************************************)
NothingUndecided ==
  \A t \in Threads : pc[t] = "claimed"
    => queue[t] = 0 /\ worker[t] \notin {"firing", "popped", "answered", "broken"}

(***************************************************************************)
(* A canceled call leaves ProcessRequestImpl: neither DrainPending nor the *)
(* join of the worker waits for ever, whatever the callback has answered   *)
(* or thrown.                                                              *)
(***************************************************************************)
Inside(t) == pc[t] \in {"impl", "drained", "claimed", "leaving"}
CanceledReturns == \A t \in Threads : Inside(t) /\ Canceled(t) ~> ~Inside(t)

(***************************************************************************)
(* What callback_handler.h says of WorkerLoop and Drain: the worker of a   *)
(* call that did not fail and was not canceled ends when it has delivered  *)
(* every item.                                                             *)
(***************************************************************************)
DeliveryComplete ==
  \A t \in Threads : worker[t] = "exited" /\ result[t] = "none" /\ ~Canceled(t)
    => queue[t] = 0
=============================================================================
