------------------------ MODULE SessionRequest_proofs ------------------------
(***************************************************************************)
(* Proofs about SessionRequest, for any threads, requests, sessions and    *)
(* queue bound.  Everything rests on ownership: from TryBegin to the       *)
(* publication of its completion a thread is the only one that processes   *)
(* its request, so that nobody but cancellation touches the state.         *)
(***************************************************************************)
EXTENDS SessionRequest, TLAPS

USE RequestAssumption, SessionAssumption, QueueAssumption, SessionNoneAssumption

\* The thread has begun its request and has not published its completion.
Owns(t) == pc[t] \notin {"idle", "entered"}

\* A thread inside ProcessRequest has its arguments, and no other has them.
Arguments ==
  \A t \in Threads :
    IF pc[t] = "idle" THEN session[t] = None /\ request[t] = None
                      ELSE session[t] \in Sessions /\ request[t] \in Requests

\* A request that is processed has one owner, and its state says so.
Ownership ==
  /\ \A t, u \in Threads : Owns(t) /\ Owns(u) /\ request[t] = request[u] => t = u
  /\ \A t \in Threads : Owns(t) => state[request[t]] \in {"Running", "Canceled", "Completing"}
  /\ \A t \in Threads : pc[t] = "claimed" => state[request[t]] = "Completing"

\* A registered request is in its session's table.
Tracked == \A t \in Threads : Registered(t) => request[t] \in active[session[t]]

\* An accepted cancel stays in the state, a success or a commit in the claim.
Decided ==
  \A t \in Threads :
    /\ Owns(t) /\ acked[request[t]] => state[request[t]] = "Canceled"
    /\ Owns(t) /\ (result[t] = "success" \/ committed[t]) => state[request[t]] = "Completing"
    /\ ~Owns(t) => result[t] = "none" /\ ~committed[t]

\* The request of a connection is processed by one thread, which began it fresh.
OneShots ==
  /\ \A r \in Requests : closing[r] # "open" => r \in OneShot
  /\ \A t, u \in Threads : request[t] \in OneShot /\ request[u] = request[t] => t = u
  /\ \A t \in Threads : pc[t] = "entered" /\ request[t] \in OneShot => state[request[t]] = "Ready"

\* A close that found its request not begun has left its flag for the beginner.
Flagged ==
  /\ \A r \in Requests : closing[r] \in {"flagged", "closed"} /\ state[r] = "Ready"
       => cancel_on_start[r]
  /\ \A t \in Threads : pc[t] = "begun" /\ closing[request[t]] = "closed"
       => cancel_on_start[request[t]] \/ state[request[t]] # "Running"

\* The flag is up for the length of a callback; a drained turn has neither.
Callbacks ==
  /\ \A t \in Threads : worker[t] \in {"firing", "popped", "answered", "broken"} => in_progress[t]
  /\ \A t \in Threads : pc[t] \in {"drained", "claimed"} => queue[t] = 0 /\ ~in_progress[t]

OwnInv == TypeOK /\ Arguments /\ Ownership /\ Tracked /\ Decided
IInv == OwnInv /\ ShutdownReachesAll /\ OneShots /\ Flagged /\ ClosedNeverRuns /\ Callbacks
-----------------------------------------------------------------------------
\* Request::Cancel moves states within States.
LEMMA CancelType ==
  ASSUME TypeOK, NEW R, Cancel(R)
  PROVE  state' \in [Requests -> States] /\ acked' \in [Requests -> BOOLEAN]
BY DEF TypeOK, States, Cancel

\* PushItem respects the bound.
LEMMA PushType ==
  ASSUME TypeOK, NEW t \in Threads, Push(t)
  PROVE  queue' \in [Threads -> 0 .. MaxItems]
<1>1. queue[t] + 1 \in 0 .. MaxItems
  BY DEF TypeOK, Push
<1> QED BY <1>1 DEF TypeOK, Push

\* The types are inductive, given that a thread inside ProcessRequest has its arguments.
LEMMA TypeStep ==
  ASSUME TypeOK, Arguments, [Next]_vars
  PROVE  TypeOK'
<1> USE DEF TypeOK, Arguments, States, Steps, WorkerSteps, requestVars, sessionVars,
           callVars, streamVars, Moves, WorkerMoves, Canceled
<1>1. CASE UNCHANGED vars
  BY <1>1 DEF vars
<1>2. ASSUME NEW t \in Threads, NEW s \in Sessions, NEW r \in Requests, Enter(t, s, r)
      PROVE  TypeOK'
  BY <1>2 DEF Enter
<1>3. ASSUME NEW t \in Threads, ProcessRequest(t) \/ Generate(t) \/ Throw(t) \/ WorkerLoop(t)
      PROVE  TypeOK'
  <2>1. CASE TryBegin(t)
    <3>1. state' \in [Requests -> States] /\ acked' \in [Requests -> BOOLEAN]
      BY <2>1 DEF TryBegin
    <3>2. /\ pc' \in [Threads -> Steps]
          /\ session' \in [Threads -> Sessions \cup {None}]
          /\ request' \in [Threads -> Requests \cup {None}]
      BY <2>1 DEF TryBegin
    <3> QED BY <2>1, <3>1, <3>2 DEF TryBegin
  <2>2. CASE Admit(t)
    BY SMTT(30), <2>2 DEF Admit, Cancel
  <2>3. CASE Start(t)
    BY <2>3 DEF Start
  <2>4. CASE DrainPending(t) \/ Return(t)
    BY <2>4 DEF DrainPending, Return
  <2>5. CASE Claim(t)
    BY <2>5 DEF Claim
  <2>6. CASE CommitTurn(t)
    <3>1. queue' \in [Threads -> 0 .. MaxItems]
      BY <2>6, PushType DEF CommitTurn
    <3> QED BY <2>6, <3>1 DEF CommitTurn
  <2>7. CASE Join(t)
    BY <2>7 DEF Join
  <2>8. CASE TryComplete(t)
    BY <2>8 DEF TryComplete
  <2>9. CASE Unregister(t)
    BY <2>9 DEF Unregister
  <2>10. CASE PublishCompletion(t)
    BY <2>10 DEF PublishCompletion
  <2>11. CASE Generate(t)
    BY <2>11, PushType DEF Generate
  <2>12. CASE Throw(t)
    BY <2>12 DEF Throw
  <2>13. CASE WaitUntilNonEmptyOrFinished(t)
    BY <2>13 DEF WaitUntilNonEmptyOrFinished
  <2>14. CASE NextItem(t)
    <3>1. /\ \E w \in {"empty", "firing"} : worker' = [worker EXCEPT ![t] = w]
          /\ queue' = queue \/ queue' = [queue EXCEPT ![t] = 0]
          /\ \/ in_progress' = in_progress
             \/ \E b \in BOOLEAN : in_progress' = [in_progress EXCEPT ![t] = b]
      <4> HIDE DEF TypeOK, Arguments
      <4> QED BY <2>14 DEF NextItem, InProgress
    <3>2. worker' \in [Threads -> WorkerSteps]
      BY <3>1
    <3>3. queue' \in [Threads -> 0 .. MaxItems]
      <4> 0 \in 0 .. MaxItems
        OBVIOUS
      <4> QED BY <3>1
    <3>4. in_progress' \in [Threads -> BOOLEAN]
      BY <3>1
    <3> QED BY <2>14, <3>1, <3>2, <3>3, <3>4 DEF NextItem
  <2>15. CASE Pop(t)
    BY <2>15 DEF Pop
  <2>16. CASE Answer(t)
    <3>1. state' \in [Requests -> States] /\ acked' \in [Requests -> BOOLEAN]
      BY <2>16, CancelType DEF Answer
    <3>2. worker' \in [Threads -> WorkerSteps]
      BY <2>16 DEF Answer
    <3> QED BY <2>16, <3>1, <3>2 DEF Answer
  <2>17. CASE CallbackReturned(t)
    BY <2>17 DEF CallbackReturned, InProgress
  <2>18. CASE DisableAfterException(t)
    BY <2>18 DEF DisableAfterException, InProgress
  <2>19. CASE CheckFinished(t)
    BY <2>19 DEF CheckFinished
  <2> QED BY <1>3, <2>1, <2>2, <2>3, <2>4, <2>5, <2>6, <2>7, <2>8, <2>9, <2>10, <2>11,
       <2>12, <2>13, <2>14, <2>15, <2>16, <2>17, <2>18, <2>19 DEF ProcessRequest, WorkerLoop
<1>4. ASSUME NEW r \in Requests, CancelByCaller(r) \/ CloseLooks(r) \/ CloseFlags(r) \/ CloseCancels(r)
      PROVE  TypeOK'
  <2>1. CASE CancelByCaller(r)
    BY <2>1, CancelType DEF CancelByCaller
  <2>2. CASE CloseLooks(r)
    BY <2>2 DEF CloseLooks, Closes
  <2>3. CASE CloseFlags(r)
    BY <2>3 DEF CloseFlags, Closes
  <2>4. CASE CloseCancels(r)
    BY <2>4, CancelType DEF CloseCancels, Closes
  <2> QED BY <1>4, <2>1, <2>2, <2>3, <2>4
<1>5. ASSUME NEW s \in Sessions, CancelSession(s)
      PROVE  TypeOK'
  BY <1>5, CancelType DEF CancelSession
<1> QED BY <1>1, <1>2, <1>3, <1>4, <1>5 DEF Next

\* Enter gives a thread its arguments; it loses them when it is idle again.
LEMMA ArgumentsStep ==
  ASSUME TypeOK, Arguments, [Next]_vars
  PROVE  Arguments'
<1> USE DEF TypeOK, Arguments, requestVars, sessionVars, callVars, streamVars, Moves,
           WorkerMoves, Canceled
<1>1. CASE UNCHANGED vars
  BY <1>1 DEF vars
<1>2. ASSUME NEW t \in Threads, NEW s \in Sessions, NEW r \in Requests, Enter(t, s, r)
      PROVE  Arguments'
  BY <1>2 DEF Enter
<1>3. ASSUME NEW t \in Threads, ProcessRequest(t) \/ Generate(t) \/ Throw(t) \/ WorkerLoop(t)
      PROVE  Arguments'
  <2>1. CASE TryBegin(t)
    BY <2>1 DEF TryBegin
  <2>2. CASE Admit(t)
    BY <2>2 DEF Admit, Cancel
  <2>3. CASE Start(t)
    BY <2>3 DEF Start
  <2>4. CASE DrainPending(t) \/ CommitTurn(t) \/ Return(t) \/ Throw(t) \/ Join(t)
    BY <2>4 DEF DrainPending, CommitTurn, Return, Throw, Join, Push
  <2>5. CASE Claim(t)
    BY <2>5 DEF Claim
  <2>6. CASE TryComplete(t)
    BY <2>6 DEF TryComplete
  <2>7. CASE Unregister(t)
    BY <2>7 DEF Unregister
  <2>8. CASE PublishCompletion(t)
    BY <2>8 DEF PublishCompletion
  <2>9. CASE Generate(t) \/ WaitUntilNonEmptyOrFinished(t) \/ NextItem(t) \/ Pop(t) \/
           Answer(t) \/ CallbackReturned(t) \/ DisableAfterException(t) \/ CheckFinished(t)
    BY <2>9 DEF Generate, WaitUntilNonEmptyOrFinished, NextItem, Pop, Answer,
          CallbackReturned, DisableAfterException, CheckFinished, Cancel, Push, InProgress
  <2> QED BY <1>3, <2>1, <2>2, <2>3, <2>4, <2>5, <2>6, <2>7, <2>8, <2>9 DEF ProcessRequest,
       WorkerLoop
<1>4. ASSUME NEW r \in Requests, CancelByCaller(r) \/ CloseLooks(r) \/ CloseFlags(r) \/ CloseCancels(r)
      PROVE  Arguments'
  BY <1>4 DEF CancelByCaller, CloseLooks, CloseFlags, CloseCancels, Closes, Cancel
<1>5. ASSUME NEW s \in Sessions, CancelSession(s)
      PROVE  Arguments'
  BY <1>5 DEF CancelSession, Cancel
<1> QED BY <1>1, <1>2, <1>3, <1>4, <1>5 DEF Next

\* TryBegin's CAS admits one thread; what others do to a state is to cancel it.
LEMMA OwnershipStep ==
  ASSUME TypeOK, Arguments, Ownership, [Next]_vars
  PROVE  Ownership'
<1> USE DEF TypeOK, Arguments, Ownership, Owns, requestVars, sessionVars, callVars,
           streamVars, Moves, WorkerMoves, Canceled
<1>1. CASE UNCHANGED vars
  BY <1>1 DEF vars
<1>2. ASSUME NEW t \in Threads, NEW s \in Sessions, NEW r \in Requests, Enter(t, s, r)
      PROVE  Ownership'
  BY <1>2 DEF Enter
<1>3. ASSUME NEW t \in Threads, ProcessRequest(t) \/ Generate(t) \/ Throw(t) \/ WorkerLoop(t)
      PROVE  Ownership'
  <2>1. CASE TryBegin(t)
    <3>1. CASE state[request[t]] \in {"Ready", "Completed"}
      <4>1. /\ pc[t] = "entered" /\ pc' = [pc EXCEPT ![t] = "begun"]
            /\ state' = [state EXCEPT ![request[t]] = "Running"]
            /\ UNCHANGED request
        <5> HIDE DEF TypeOK, Arguments, Ownership
        <5> QED BY <2>1, <3>1 DEF TryBegin
      <4>2. \A u \in Threads : Owns(u) => request[u] # request[t]
        BY <3>1
      <4> QED BY <4>1, <4>2
    <3>2. CASE state[request[t]] \notin {"Ready", "Completed"}
      BY <2>1, <3>2 DEF TryBegin
    <3> QED BY <3>1, <3>2
  <2>2. CASE Admit(t)
    BY SMTT(30), <2>2 DEF Admit, Cancel
  <2>3. CASE Start(t)
    BY <2>3 DEF Start
  <2>4. CASE DrainPending(t)
    BY <2>4 DEF DrainPending
  <2>5. CASE Claim(t)
    BY <2>5 DEF Claim
  <2>6. CASE CommitTurn(t)
    BY <2>6 DEF CommitTurn, Push
  <2>7. CASE Return(t)
    BY <2>7 DEF Return
  <2>8. CASE Join(t)
    BY <2>8 DEF Join
  <2>9. CASE TryComplete(t)
    BY <2>9 DEF TryComplete
  <2>10. CASE Unregister(t)
    BY <2>10 DEF Unregister
  <2>11. CASE PublishCompletion(t)
    BY <2>11 DEF PublishCompletion
  <2>12. CASE Generate(t) \/ WaitUntilNonEmptyOrFinished(t) \/ NextItem(t) \/ Pop(t) \/
           CallbackReturned(t) \/ DisableAfterException(t) \/ CheckFinished(t)
    BY <2>12 DEF Generate, WaitUntilNonEmptyOrFinished, NextItem, Pop, CallbackReturned,
          DisableAfterException, CheckFinished, Push, InProgress
  <2>13. CASE Throw(t)
    BY <2>13 DEF Throw
  <2>14. CASE Answer(t)
    BY <2>14 DEF Answer, Cancel
  <2> QED BY <1>3, <2>1, <2>2, <2>3, <2>4, <2>5, <2>6, <2>7, <2>8, <2>9, <2>10, <2>11,
       <2>12, <2>13, <2>14 DEF ProcessRequest, WorkerLoop
<1>4. ASSUME NEW r \in Requests, CancelByCaller(r) \/ CloseLooks(r) \/ CloseFlags(r) \/ CloseCancels(r)
      PROVE  Ownership'
  BY <1>4 DEF CancelByCaller, CloseLooks, CloseFlags, CloseCancels, Closes, Cancel
<1>5. ASSUME NEW s \in Sessions, CancelSession(s)
      PROVE  Ownership'
  BY <1>5 DEF CancelSession, Cancel
<1> QED BY <1>1, <1>2, <1>3, <1>4, <1>5 DEF Next

\* A request stays in the table until its owner takes it out.
LEMMA TrackedStep ==
  ASSUME TypeOK, Arguments, Ownership, Tracked, [Next]_vars
  PROVE  Tracked'
<1> USE DEF TypeOK, Arguments, Ownership, Owns, Tracked, Registered, requestVars,
           sessionVars, callVars, streamVars, Moves, WorkerMoves, Canceled
<1>1. CASE UNCHANGED vars
  BY <1>1 DEF vars
<1>2. ASSUME NEW t \in Threads, NEW s \in Sessions, NEW r \in Requests, Enter(t, s, r)
      PROVE  Tracked'
  BY <1>2 DEF Enter
<1>3. ASSUME NEW t \in Threads, ProcessRequest(t) \/ Generate(t) \/ Throw(t) \/ WorkerLoop(t)
      PROVE  Tracked'
  <2>1. CASE TryBegin(t)
    BY <2>1 DEF TryBegin
  <2>2. CASE Admit(t)
    <3>1. /\ \/ active' = [active EXCEPT ![session[t]] = @ \cup {request[t]}]
             \/ active' = active /\ pc' = [pc EXCEPT ![t] = "unregistered"]
          /\ pc[t] = "begun" /\ UNCHANGED <<session, request>>
          /\ pc' = [pc EXCEPT ![t] = "admitted"] \/ pc' = [pc EXCEPT ![t] = "unregistered"]
      <4> HIDE DEF TypeOK, Arguments, Ownership, Tracked
      <4> QED BY <2>2 DEF Admit
    <3>2. CASE active' = [active EXCEPT ![session[t]] = @ \cup {request[t]}]
      <4>1. \A s \in Sessions : active[s] \subseteq active'[s]
        BY <3>2
      <4>2. request[t] \in active'[session[t]]
        BY <3>1, <3>2
      <4> QED BY <3>1, <4>1, <4>2
    <3>3. CASE active' = active /\ pc' = [pc EXCEPT ![t] = "unregistered"]
      BY <3>1, <3>3
    <3> QED BY <3>1, <3>2, <3>3
  <2>3. CASE Start(t)
    BY <2>3 DEF Start
  <2>4. CASE DrainPending(t) \/ CommitTurn(t) \/ Return(t) \/ Throw(t) \/ Join(t)
    BY <2>4 DEF DrainPending, CommitTurn, Return, Throw, Join, Push
  <2>5. CASE Claim(t)
    BY <2>5 DEF Claim
  <2>6. CASE TryComplete(t)
    BY <2>6 DEF TryComplete
  <2>7. CASE Unregister(t)
    BY <2>7 DEF Unregister
  <2>8. CASE PublishCompletion(t)
    BY <2>8 DEF PublishCompletion
  <2>9. CASE Generate(t) \/ WaitUntilNonEmptyOrFinished(t) \/ NextItem(t) \/ Pop(t) \/
           Answer(t) \/ CallbackReturned(t) \/ DisableAfterException(t) \/ CheckFinished(t)
    BY <2>9 DEF Generate, WaitUntilNonEmptyOrFinished, NextItem, Pop, Answer,
          CallbackReturned, DisableAfterException, CheckFinished, Cancel, Push, InProgress
  <2> QED BY <1>3, <2>1, <2>2, <2>3, <2>4, <2>5, <2>6, <2>7, <2>8, <2>9 DEF ProcessRequest,
       WorkerLoop
<1>4. ASSUME NEW r \in Requests, CancelByCaller(r) \/ CloseLooks(r) \/ CloseFlags(r) \/ CloseCancels(r)
      PROVE  Tracked'
  BY <1>4 DEF CancelByCaller, CloseLooks, CloseFlags, CloseCancels, Closes, Cancel
<1>5. ASSUME NEW s \in Sessions, CancelSession(s)
      PROVE  Tracked'
  BY <1>5 DEF CancelSession, Cancel
<1> QED BY <1>1, <1>2, <1>3, <1>4, <1>5 DEF Next

\* A cancel and a claim exclude each other from the CAS on.
LEMMA DecidedStep ==
  ASSUME TypeOK, Arguments, Ownership, Decided, [Next]_vars
  PROVE  Decided'
<1> USE DEF TypeOK, Arguments, Ownership, Owns, Decided, requestVars, sessionVars, callVars,
           streamVars, Moves, WorkerMoves, Canceled
<1>1. CASE UNCHANGED vars
  BY <1>1 DEF vars
<1>2. ASSUME NEW t \in Threads, NEW s \in Sessions, NEW r \in Requests, Enter(t, s, r)
      PROVE  Decided'
  BY <1>2 DEF Enter
<1>3. ASSUME NEW t \in Threads, ProcessRequest(t) \/ Generate(t) \/ Throw(t) \/ WorkerLoop(t)
      PROVE  Decided'
  <2>1. CASE TryBegin(t)
    BY <2>1 DEF TryBegin
  <2>2. CASE Admit(t)
    BY <2>2 DEF Admit, Cancel
  <2>3. CASE Start(t)
    BY <2>3 DEF Start
  <2>4. CASE DrainPending(t)
    BY <2>4 DEF DrainPending
  <2>5. CASE Claim(t)
    BY <2>5 DEF Claim
  <2>6. CASE CommitTurn(t)
    BY <2>6 DEF CommitTurn, Push
  <2>7. CASE Return(t)
    BY <2>7 DEF Return
  <2>8. CASE Join(t)
    BY <2>8 DEF Join
  <2>9. CASE TryComplete(t)
    BY <2>9 DEF TryComplete
  <2>10. CASE Unregister(t)
    BY <2>10 DEF Unregister
  <2>11. CASE PublishCompletion(t)
    BY <2>11 DEF PublishCompletion
  <2>12. CASE Generate(t) \/ WaitUntilNonEmptyOrFinished(t) \/ NextItem(t) \/ Pop(t) \/
           CallbackReturned(t) \/ DisableAfterException(t) \/ CheckFinished(t)
    BY <2>12 DEF Generate, WaitUntilNonEmptyOrFinished, NextItem, Pop, CallbackReturned,
          DisableAfterException, CheckFinished, Push, InProgress
  <2>13. CASE Throw(t)
    BY <2>13 DEF Throw
  <2>14. CASE Answer(t)
    BY <2>14 DEF Answer, Cancel
  <2> QED BY <1>3, <2>1, <2>2, <2>3, <2>4, <2>5, <2>6, <2>7, <2>8, <2>9, <2>10, <2>11,
       <2>12, <2>13, <2>14 DEF ProcessRequest, WorkerLoop
<1>4. ASSUME NEW r \in Requests, CancelByCaller(r) \/ CloseLooks(r) \/ CloseFlags(r) \/ CloseCancels(r)
      PROVE  Decided'
  BY <1>4 DEF CancelByCaller, CloseLooks, CloseFlags, CloseCancels, Closes, Cancel
<1>5. ASSUME NEW s \in Sessions, CancelSession(s)
      PROVE  Decided'
  BY <1>5 DEF CancelSession, Cancel
<1> QED BY <1>1, <1>2, <1>3, <1>4, <1>5 DEF Next

\* CancelSession reaches the requests of the table, and admission looks at its flag.
LEMMA ShutdownStep ==
  ASSUME TypeOK, Arguments, Ownership, Tracked, ShutdownReachesAll, [Next]_vars
  PROVE  ShutdownReachesAll'
<1> USE DEF TypeOK, Arguments, Ownership, Owns, Tracked, Registered, ShutdownReachesAll,
           requestVars, sessionVars, callVars, streamVars, Moves, WorkerMoves, Canceled
<1>1. CASE UNCHANGED vars
  BY <1>1 DEF vars
<1>2. ASSUME NEW t \in Threads, NEW s \in Sessions, NEW r \in Requests, Enter(t, s, r)
      PROVE  ShutdownReachesAll'
  BY <1>2 DEF Enter
<1>3. ASSUME NEW t \in Threads, ProcessRequest(t) \/ Generate(t) \/ Throw(t) \/ WorkerLoop(t)
      PROVE  ShutdownReachesAll'
  <2>1. CASE TryBegin(t)
    BY <2>1 DEF TryBegin
  <2>2. CASE Admit(t)
    BY <2>2 DEF Admit, Cancel, CanceledAtStart
  <2>3. CASE Start(t)
    BY <2>3 DEF Start
  <2>4. CASE DrainPending(t) \/ CommitTurn(t) \/ Return(t) \/ Throw(t) \/ Join(t)
    BY <2>4 DEF DrainPending, CommitTurn, Return, Throw, Join, Push
  <2>5. CASE Claim(t)
    BY <2>5 DEF Claim
  <2>6. CASE TryComplete(t)
    BY <2>6 DEF TryComplete
  <2>7. CASE Unregister(t)
    BY <2>7 DEF Unregister
  <2>8. CASE PublishCompletion(t)
    BY <2>8 DEF PublishCompletion
  <2>9. CASE Generate(t) \/ WaitUntilNonEmptyOrFinished(t) \/ NextItem(t) \/ Pop(t) \/
           CallbackReturned(t) \/ DisableAfterException(t) \/ CheckFinished(t)
    BY <2>9 DEF Generate, WaitUntilNonEmptyOrFinished, NextItem, Pop, CallbackReturned,
          DisableAfterException, CheckFinished, Push, InProgress
  <2>10. CASE Answer(t)
    BY <2>10 DEF Answer, Cancel
  <2> QED BY <1>3, <2>1, <2>2, <2>3, <2>4, <2>5, <2>6, <2>7, <2>8, <2>9, <2>10 DEF
       ProcessRequest, WorkerLoop
<1>4. ASSUME NEW r \in Requests, CancelByCaller(r) \/ CloseLooks(r) \/ CloseFlags(r) \/ CloseCancels(r)
      PROVE  ShutdownReachesAll'
  BY <1>4 DEF CancelByCaller, CloseLooks, CloseFlags, CloseCancels, Closes, Cancel
<1>5. ASSUME NEW s \in Sessions, CancelSession(s)
      PROVE  ShutdownReachesAll'
  BY <1>5 DEF CancelSession, Cancel, ActiveMutexFree
<1> QED BY <1>1, <1>2, <1>3, <1>4, <1>5 DEF Next

\* A request of a connection is handed to one call.
LEMMA OneShotsStep ==
  ASSUME TypeOK, Arguments, Ownership, OneShots, [Next]_vars
  PROVE  OneShots'
<1> USE DEF TypeOK, Arguments, Ownership, Owns, OneShots, requestVars, sessionVars,
           callVars, streamVars, Moves, WorkerMoves, Canceled
<1>1. CASE UNCHANGED vars
  BY <1>1 DEF vars
<1>2. ASSUME NEW t \in Threads, NEW s \in Sessions, NEW r \in Requests, Enter(t, s, r)
      PROVE  OneShots'
  BY <1>2 DEF Enter
<1>3. ASSUME NEW t \in Threads, ProcessRequest(t) \/ Generate(t) \/ Throw(t) \/ WorkerLoop(t)
      PROVE  OneShots'
  <2>1. CASE TryBegin(t)
    BY SMTT(30), <2>1 DEF TryBegin
  <2>2. CASE Admit(t)
    BY <2>2 DEF Admit, Cancel
  <2>3. CASE Start(t)
    BY <2>3 DEF Start
  <2>4. CASE DrainPending(t) \/ CommitTurn(t) \/ Return(t) \/ Throw(t) \/ Join(t)
    BY <2>4 DEF DrainPending, CommitTurn, Return, Throw, Join, Push
  <2>5. CASE Claim(t)
    BY <2>5 DEF Claim
  <2>6. CASE TryComplete(t)
    BY <2>6 DEF TryComplete
  <2>7. CASE Unregister(t)
    BY <2>7 DEF Unregister
  <2>8. CASE PublishCompletion(t)
    BY <2>8 DEF PublishCompletion
  <2>9. CASE Generate(t) \/ WaitUntilNonEmptyOrFinished(t) \/ NextItem(t) \/ Pop(t) \/
           CallbackReturned(t) \/ DisableAfterException(t) \/ CheckFinished(t)
    BY <2>9 DEF Generate, WaitUntilNonEmptyOrFinished, NextItem, Pop, CallbackReturned,
          DisableAfterException, CheckFinished, Push, InProgress
  <2>10. CASE Answer(t)
    BY <2>10 DEF Answer, Cancel
  <2> QED BY <1>3, <2>1, <2>2, <2>3, <2>4, <2>5, <2>6, <2>7, <2>8, <2>9, <2>10 DEF
       ProcessRequest, WorkerLoop
<1>4. ASSUME NEW r \in Requests, CancelByCaller(r) \/ CloseLooks(r) \/ CloseFlags(r) \/ CloseCancels(r)
      PROVE  OneShots'
  BY <1>4 DEF CancelByCaller, CloseLooks, CloseFlags, CloseCancels, Closes, Cancel
<1>5. ASSUME NEW s \in Sessions, CancelSession(s)
      PROVE  OneShots'
  BY <1>5 DEF CancelSession, Cancel
<1> QED BY <1>1, <1>2, <1>3, <1>4, <1>5 DEF Next

\* CancelCurrentOrNext either finds the request begun or leaves its flag.
LEMMA FlaggedStep ==
  ASSUME TypeOK, Arguments, Ownership, OneShots, Flagged, [Next]_vars
  PROVE  Flagged'
<1> USE DEF TypeOK, Arguments, Ownership, Owns, OneShots, Flagged, requestVars, sessionVars,
           callVars, streamVars, Moves, WorkerMoves, Canceled
<1>1. CASE UNCHANGED vars
  BY <1>1 DEF vars
<1>2. ASSUME NEW t \in Threads, NEW s \in Sessions, NEW r \in Requests, Enter(t, s, r)
      PROVE  Flagged'
  BY <1>2 DEF Enter
<1>3. ASSUME NEW t \in Threads, ProcessRequest(t) \/ Generate(t) \/ Throw(t) \/ WorkerLoop(t)
      PROVE  Flagged'
  <2>1. CASE TryBegin(t)
    BY <2>1 DEF TryBegin
  <2>2. CASE Admit(t)
    BY <2>2 DEF Admit, Cancel
  <2>3. CASE Start(t)
    BY <2>3 DEF Start
  <2>4. CASE DrainPending(t) \/ CommitTurn(t) \/ Return(t) \/ Throw(t) \/ Join(t)
    BY <2>4 DEF DrainPending, CommitTurn, Return, Throw, Join, Push
  <2>5. CASE Claim(t)
    BY <2>5 DEF Claim
  <2>6. CASE TryComplete(t)
    BY <2>6 DEF TryComplete
  <2>7. CASE Unregister(t)
    BY <2>7 DEF Unregister
  <2>8. CASE PublishCompletion(t)
    BY <2>8 DEF PublishCompletion
  <2>9. CASE Generate(t) \/ WaitUntilNonEmptyOrFinished(t) \/ NextItem(t) \/ Pop(t) \/
           CallbackReturned(t) \/ DisableAfterException(t) \/ CheckFinished(t)
    BY <2>9 DEF Generate, WaitUntilNonEmptyOrFinished, NextItem, Pop, CallbackReturned,
          DisableAfterException, CheckFinished, Push, InProgress
  <2>10. CASE Answer(t)
    BY <2>10 DEF Answer, Cancel
  <2> QED BY <1>3, <2>1, <2>2, <2>3, <2>4, <2>5, <2>6, <2>7, <2>8, <2>9, <2>10 DEF
       ProcessRequest, WorkerLoop
<1>4. ASSUME NEW r \in Requests, CancelByCaller(r) \/ CloseLooks(r) \/ CloseFlags(r) \/ CloseCancels(r)
      PROVE  Flagged'
  BY <1>4 DEF CancelByCaller, CloseLooks, CloseFlags, CloseCancels, Closes, Cancel
<1>5. ASSUME NEW s \in Sessions, CancelSession(s)
      PROVE  Flagged'
  BY <1>5 DEF CancelSession, Cancel
<1> QED BY <1>1, <1>2, <1>3, <1>4, <1>5 DEF Next

\* The beginner of a closed request finds the flag, or the close finds it running.
LEMMA ClosedStep ==
  ASSUME TypeOK, Arguments, Ownership, OneShots, Flagged, ClosedNeverRuns, [Next]_vars
  PROVE  ClosedNeverRuns'
<1> USE DEF TypeOK, Arguments, Ownership, Owns, OneShots, Flagged, Registered,
           ClosedNeverRuns, requestVars, sessionVars, callVars, streamVars, Moves,
           WorkerMoves, Canceled
<1>1. CASE UNCHANGED vars
  BY <1>1 DEF vars
<1>2. ASSUME NEW t \in Threads, NEW s \in Sessions, NEW r \in Requests, Enter(t, s, r)
      PROVE  ClosedNeverRuns'
  BY <1>2 DEF Enter
<1>3. ASSUME NEW t \in Threads, ProcessRequest(t) \/ Generate(t) \/ Throw(t) \/ WorkerLoop(t)
      PROVE  ClosedNeverRuns'
  <2>1. CASE TryBegin(t)
    BY <2>1 DEF TryBegin
  <2>2. CASE Admit(t)
    BY <2>2 DEF Admit, Cancel, CanceledAtStart
  <2>3. CASE Start(t)
    BY <2>3 DEF Start
  <2>4. CASE DrainPending(t) \/ CommitTurn(t) \/ Return(t) \/ Throw(t) \/ Join(t)
    BY <2>4 DEF DrainPending, CommitTurn, Return, Throw, Join, Push
  <2>5. CASE Claim(t)
    BY <2>5 DEF Claim
  <2>6. CASE TryComplete(t)
    BY <2>6 DEF TryComplete
  <2>7. CASE Unregister(t)
    BY <2>7 DEF Unregister
  <2>8. CASE PublishCompletion(t)
    BY <2>8 DEF PublishCompletion
  <2>9. CASE Generate(t) \/ WaitUntilNonEmptyOrFinished(t) \/ NextItem(t) \/ Pop(t) \/
           CallbackReturned(t) \/ DisableAfterException(t) \/ CheckFinished(t)
    BY <2>9 DEF Generate, WaitUntilNonEmptyOrFinished, NextItem, Pop, CallbackReturned,
          DisableAfterException, CheckFinished, Push, InProgress
  <2>10. CASE Answer(t)
    BY <2>10 DEF Answer, Cancel
  <2> QED BY <1>3, <2>1, <2>2, <2>3, <2>4, <2>5, <2>6, <2>7, <2>8, <2>9, <2>10 DEF
       ProcessRequest, WorkerLoop
<1>4. ASSUME NEW r \in Requests, CancelByCaller(r) \/ CloseLooks(r) \/ CloseFlags(r) \/ CloseCancels(r)
      PROVE  ClosedNeverRuns'
  BY <1>4 DEF CancelByCaller, CloseLooks, CloseFlags, CloseCancels, Closes, Cancel
<1>5. ASSUME NEW s \in Sessions, CancelSession(s)
      PROVE  ClosedNeverRuns'
  BY <1>5 DEF CancelSession, Cancel
<1> QED BY <1>1, <1>2, <1>3, <1>4, <1>5 DEF Next

\* Nothing is pushed once the turn is drained, and the flag goes down last.
LEMMA CallbacksStep ==
  ASSUME TypeOK, Arguments, Callbacks, [Next]_vars
  PROVE  Callbacks'
<1> USE DEF TypeOK, Arguments, Callbacks, requestVars, sessionVars, callVars, streamVars,
           Moves, WorkerMoves, Canceled
<1>1. CASE UNCHANGED vars
  BY <1>1 DEF vars
<1>2. ASSUME NEW t \in Threads, NEW s \in Sessions, NEW r \in Requests, Enter(t, s, r)
      PROVE  Callbacks'
  BY <1>2 DEF Enter
<1>3. ASSUME NEW t \in Threads, ProcessRequest(t) \/ Generate(t) \/ Throw(t) \/ WorkerLoop(t)
      PROVE  Callbacks'
  <2>1. CASE TryBegin(t)
    BY <2>1 DEF TryBegin
  <2>2. CASE Admit(t)
    BY <2>2 DEF Admit, Cancel
  <2>3. CASE Start(t)
    BY <2>3 DEF Start
  <2>4. CASE DrainPending(t)
    BY <2>4 DEF DrainPending, Delivered
  <2>5. CASE Claim(t)
    BY <2>5 DEF Claim
  <2>6. CASE CommitTurn(t)
    BY <2>6 DEF CommitTurn, Push
  <2>7. CASE Return(t)
    BY <2>7 DEF Return
  <2>8. CASE Join(t)
    BY <2>8 DEF Join
  <2>9. CASE TryComplete(t) \/ Unregister(t) \/ PublishCompletion(t)
    BY <2>9 DEF TryComplete, Unregister, PublishCompletion
  <2>10. CASE Generate(t)
    BY <2>10 DEF Generate, Push
  <2>11. CASE Throw(t)
    BY <2>11 DEF Throw
  <2>12. CASE WaitUntilNonEmptyOrFinished(t)
    BY <2>12 DEF WaitUntilNonEmptyOrFinished
  <2>13. CASE NextItem(t)
    BY <2>13 DEF NextItem, InProgress
  <2>14. CASE Pop(t)
    BY <2>14 DEF Pop
  <2>15. CASE Answer(t)
    BY <2>15 DEF Answer, Cancel
  <2>16. CASE CallbackReturned(t)
    BY <2>16 DEF CallbackReturned, InProgress
  <2>17. CASE DisableAfterException(t)
    BY <2>17 DEF DisableAfterException, InProgress
  <2>18. CASE CheckFinished(t)
    BY <2>18 DEF CheckFinished
  <2> QED BY <1>3, <2>1, <2>2, <2>3, <2>4, <2>5, <2>6, <2>7, <2>8, <2>9, <2>10, <2>11,
       <2>12, <2>13, <2>14, <2>15, <2>16, <2>17, <2>18 DEF ProcessRequest, WorkerLoop
<1>4. ASSUME NEW r \in Requests, CancelByCaller(r) \/ CloseLooks(r) \/ CloseFlags(r) \/ CloseCancels(r)
      PROVE  Callbacks'
  BY <1>4 DEF CancelByCaller, CloseLooks, CloseFlags, CloseCancels, Closes, Cancel
<1>5. ASSUME NEW s \in Sessions, CancelSession(s)
      PROVE  Callbacks'
  BY <1>5 DEF CancelSession, Cancel
<1> QED BY <1>1, <1>2, <1>3, <1>4, <1>5 DEF Next

-----------------------------------------------------------------------------
\* Nothing is processed yet.
LEMMA InitInv == Init => IInv
  BY DEF Init, IInv, OwnInv, TypeOK, States, Steps, WorkerSteps, Arguments, Ownership, Owns,
         Tracked, Registered, Decided, ShutdownReachesAll, OneShots, Flagged, ClosedNeverRuns,
         Callbacks

\* Every step keeps every part.
LEMMA NextInv == IInv /\ [Next]_vars => IInv'
<1> SUFFICES ASSUME IInv, [Next]_vars
             PROVE  IInv'
  OBVIOUS
<1> USE DEF IInv, OwnInv
<1>1. TypeOK' /\ Arguments'
  BY TypeStep, ArgumentsStep
<1>2. Ownership' /\ Tracked' /\ Decided'
  BY OwnershipStep, TrackedStep, DecidedStep
<1>3. ShutdownReachesAll' /\ OneShots' /\ Flagged' /\ ClosedNeverRuns' /\ Callbacks'
  BY ShutdownStep, OneShotsStep, FlaggedStep, ClosedStep, CallbacksStep
<1> QED BY <1>1, <1>2, <1>3

\* The invariant holds in every reachable state.
LEMMA Invariance == Spec => []IInv
  BY InitInv, NextInv, PTL DEF Spec

\* Every state of ProcessRequest, of its worker and of who cancels it is well formed.
THEOREM TypeCorrect == Spec => []TypeOK
<1>1. IInv => TypeOK
  BY DEF IInv, OwnInv
<1> QED BY <1>1, Invariance, PTL

\* Request::Cancel and Request::TryComplete: a call whose cancel was accepted
\* neither succeeds nor commits its turn, for any threads and requests.
THEOREM Cancellation == Spec => []CancelHonoured
<1>1. IInv => CancelHonoured
  BY DEF IInv, OwnInv, Arguments, Decided, Owns, Registered, CancelHonoured
<1> QED BY <1>1, Invariance, PTL

\* Session::ProcessRequest keeps a call in active_requests_ from admission to
\* finish_lifecycle, and the reuse of a request never removes another's entry.
THEOREM Tracking == Spec => []ActiveTracked
<1>1. IInv => ActiveTracked
  BY DEF IInv, OwnInv, Ownership, Owns, Tracked, Registered, ActiveTracked
<1> QED BY <1>1, Invariance, PTL

\* Session::Cancel stops the calls it finds and, by session_canceled_, the later ones.
THEOREM Shutdown == Spec => []ShutdownReachesAll
<1>1. IInv => ShutdownReachesAll
  BY DEF IInv
<1> QED BY <1>1, Invariance, PTL

\* Request::CancelCurrentOrNext: after it returned the request does not run,
\* whether it was before, in or after its admission.
THEOREM CloseStops == Spec => []ClosedNeverRuns
<1>1. IInv => ClosedNeverRuns
  BY DEF IInv
<1> QED BY <1>1, Invariance, PTL

\* CallbackHandler::DrainPending: a turn that claims its completion has nothing
\* left that a callback could still reject.
THEOREM Decision == Spec => []NothingUndecided
<1>1. IInv => NothingUndecided
  BY DEF IInv, OwnInv, Callbacks, NothingUndecided
<1> QED BY <1>1, Invariance, PTL
=============================================================================
