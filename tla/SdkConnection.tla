---------------------------- MODULE SdkConnection ----------------------------
(***************************************************************************)
(* hosting/sdk_connection.cc: calls of a client process on its native      *)
(* host, multiplexed over one channel, with events going back, input       *)
(* following the request, and cancellation.  Both ends are modelled, each  *)
(* with its Writer, Reader and control worker and with the threads that    *)
(* use it; of host_server.cc the accept loop of a peer, and of             *)
(* session_dispatcher.cc a call's worker and its input thread.             *)
(*                                                                         *)
(* A message other than a request crosses one fragment at a time: its      *)
(* sender offers (Ready), the receiver reserves a delivery slot and        *)
(* permits (Pull), the fragment follows.  Ready, Pull, Cancel and          *)
(* InputClosed are control frames, which overtake the data frames that     *)
(* wait in their sender's queue.  A request is one fragment here, and a    *)
(* call is its invocation's identity.                                      *)
(***************************************************************************)
EXTENDS Naturals, FiniteSets, Sequences

CONSTANTS
  Calls,
  Releases,       \* ReleaseSession and ReleasePreflight
  Streaming,      \* requests with input, events, cancellation and its hook
  Parts,          \* of each kind of message: its fragments
  MaxPendingCalls,
  DeliverySlots,  \* kDeliveryQueueBytes, in frames
  QueuedFrames,   \* kTransportQueueBytes, in frames
  MaxMessages,    \* events of a call, and inputs before its end (a bound)
  MayDisconnect,  \* whether the channel is closed or lost (a fault)
  None

Ends == {"client", "server"}
Messages == {"event", "result", "input", "finish"}
Controls == {"cancel", "pull", "ready", "closed"}

ASSUME CallsAssumption ==
  /\ Releases \subseteq Calls /\ Streaming \subseteq Calls \ Releases
  /\ IsFiniteSet(Calls) /\ None \notin Calls
ASSUME SizesAssumption ==
  /\ Parts \in [Messages -> Nat \ {0}]
  /\ {MaxPendingCalls, DeliverySlots, QueuedFrames} \subseteq Nat \ {0}
  /\ MaxMessages \in Nat /\ MayDisconnect \in BOOLEAN

VARIABLES
  call,      \* of each end and call: its Invocation
  calls,     \* of each end: the outstanding calls
  seen,      \* of each end: the identities that must not come again
  slots,     \* of each end: receive_bytes, in frames
  controls,  \* of each end: the control queue,
  data,      \* and the data queue
  failure,   \* whether the connection has failed, and what for
  written,   \* the calls whose request is known to be written
  marking,   \* the request that the client's Writer has just written
  early,     \* the calls whose cancellation has overtaken their request
  incoming,  \* requests that Accept has not returned yet
  sender,    \* of each end and call: the thread in Send,
  receiver,  \* the thread in Receive and what it has assembled
  canceller, \* of each call: the thread in Cancel,
  worker,    \* the server's thread that executes it,
  hook,      \* and its cancellation hook
  sent       \* of each end and call: the messages sent

queues == <<controls, data>>
threads == <<sender, receiver, canceller, worker, hook, sent>>
vars == <<call, calls, seen, slots, queues, failure, written, marking, early,
          incoming, threads>>

Frame == [kind : Messages \cup Controls \cup {"request"}, id : Calls, part : Nat]
Invocation ==
  [cancelled : BOOLEAN, complete : BOOLEAN, peer_input_closed : BOOLEAN,
   offer_pending : BOOLEAN, peer_permit : BOOLEAN, ready : BOOLEAN,
   receive_requested : BOOLEAN, delivery : Frame \cup {None}]
ASSUME NoneAssumption == None \notin Frame
Sends == {"idle", "permit", "thrown"}
Receives == {"idle", "request", "waiting", "delivery", "ended"}

\* The slots are exactly those of the calls that have reserved one.
TypeOK ==
  /\ call \in [Ends -> [Calls -> Invocation]]
  /\ calls \in [Ends -> SUBSET Calls]
  /\ seen \in [Ends -> SUBSET Calls]
  /\ slots \in [Ends -> 0 .. DeliverySlots]
  /\ controls \in [Ends -> Seq(Frame)] /\ data \in [Ends -> Seq(Frame)]
  /\ \A e \in Ends :
       /\ slots[e] = Cardinality({c \in Calls : call[e][c].receive_requested})
       /\ Len(data[e]) <= QueuedFrames
  /\ failure \in {"none", "closed", "limit", "protocol"}
  /\ written \subseteq Calls /\ early \subseteq Calls
  /\ marking \in Calls \cup {None}
  /\ incoming \in Seq(Calls)
  /\ sender \in [Ends -> [Calls -> [step : Sends, kind : Messages \cup {"none"}, part : Nat]]]
  /\ receiver \in [Ends -> [Calls -> [step : Receives, kind : Messages \cup {"none"}, parts : Nat]]]
  /\ canceller \in [Calls -> {"idle", "queueing", "done"}]
  /\ worker \in [Calls -> {"none", "accepted", "running", "completing", "joining", "ended"}]
  /\ hook \in [Calls -> {"none", "set", "queued", "run"}]
  /\ sent \in [Ends -> [Calls -> 0 .. MaxMessages + 1]]

Fresh == [cancelled |-> FALSE, complete |-> FALSE, peer_input_closed |-> FALSE,
          offer_pending |-> FALSE, peer_permit |-> FALSE, ready |-> FALSE,
          receive_requested |-> FALSE, delivery |-> None]
NotSending == [step |-> "idle", kind |-> "none", part |-> 0]
Nothing == [kind |-> "none", parts |-> 0]
NotReceiving == [step |-> "idle", kind |-> "none", parts |-> 0]

PerEnd(x) == [e \in Ends |-> x]
PerCall(x) == [c \in Calls |-> x]

Init ==
  /\ call = PerEnd(PerCall(Fresh))
  /\ calls = PerEnd({}) /\ seen = PerEnd({}) /\ slots = PerEnd(0)
  /\ controls = PerEnd(<<>>) /\ data = PerEnd(<<>>)
  /\ failure = "none"
  /\ written = {} /\ marking = None /\ early = {} /\ incoming = <<>>
  /\ sender = PerEnd(PerCall(NotSending))
  /\ receiver = PerEnd(PerCall(NotReceiving))
  /\ canceller = PerCall("idle") /\ worker = PerCall("none") /\ hook = PerCall("none")
  /\ sent = PerEnd(PerCall(0))

-----------------------------------------------------------------------------
Other(e) == CHOOSE x \in Ends : x # e
Works == failure = "none"
MessageFrame(k, c, p) == [kind |-> k, id |-> c, part |-> p]
ControlFrame(k, c) == [kind |-> k, id |-> c, part |-> 0]

QueueControl(e, k, c) == controls' = [controls EXCEPT ![e] = Append(@, ControlFrame(k, c))]
QueueData(e, f) ==
  /\ Len(data[e]) < QueuedFrames
  /\ data' = [data EXCEPT ![e] = Append(@, f)]

\* QueueCancelHook: the hook of a cancelled call runs once.
Hooked(c) == IF hook[c] = "set" THEN "queued" ELSE hook[c]

\* Both ends fail: every outstanding call is cancelled, every wait of Send and
\* Receive throws, and nobody looks at anything else any more.  What an end does
\* before it finds that the channel is closed, nobody sees, so it has done it
\* before.
Fail(why) ==
  /\ Works
  /\ failure' = why
  /\ call' = [e \in Ends |-> [c \in Calls |->
                [Fresh EXCEPT !.cancelled = call[e][c].cancelled \/ c \in calls[e]]]]
  /\ hook' = [c \in Calls |-> IF c \in calls["server"] THEN Hooked(c) ELSE hook[c]]
  /\ sender' = [e \in Ends |-> [c \in Calls |->
       IF sender[e][c].step = "permit" THEN [NotSending EXCEPT !.step = "thrown"]
       ELSE sender[e][c]]]
  /\ receiver' = [e \in Ends |-> [c \in Calls |->
       [NotReceiving EXCEPT !.step = IF receiver[e][c].step = "idle" THEN "idle" ELSE "ended"]]]
  /\ slots' = PerEnd(0) /\ controls' = PerEnd(<<>>) /\ data' = PerEnd(<<>>)
  /\ written' = {} /\ marking' = None /\ early' = {} /\ incoming' = <<>>
  /\ sent' = PerEnd(PerCall(0))
  /\ UNCHANGED <<calls, seen, canceller, worker>>

\* An end receives what it must not, or more requests than may be pending.
ProtocolError == Fail("protocol")
LimitExceeded == Fail("limit")

\* A process closes its end or dies, or the channel breaks.
Disconnect == MayDisconnect /\ Fail("closed")

-----------------------------------------------------------------------------
(* A Writer's write and the Reader of the other end.  A frame is read when  *)
(* it is written: on its way it cannot be overtaken any more, and what is   *)
(* read waits at the receiving end for a thread to look at it.              *)

\* Control frames go first.
NextFrames(e) == IF controls[e] # <<>> THEN controls[e] ELSE data[e]
Written(e) ==
  /\ IF controls[e] # <<>>
     THEN controls' = [controls EXCEPT ![e] = Tail(@)] /\ UNCHANGED data
     ELSE data' = [data EXCEPT ![e] = Tail(@)] /\ UNCHANGED controls

\* Mutant: a release waits for no other to be retired.
CallLimitTight(c) == MaxPendingCalls + (IF c \in Releases THEN 1 ELSE 0)

\* A release has a slot of its own, and another while the one before it,
\* whose result the client already has, is retired.
CallLimit(c) == MaxPendingCalls + (IF c \in Releases THEN 2 ELSE 0)
Crowded(c) == Cardinality(calls["server"]) >= CallLimit(c)

ReadRequest(c) ==
  \/ Crowded(c) /\ LimitExceeded
  \/ ~Crowded(c) /\ c \in seen["server"] /\ ProtocolError
  \/ /\ ~Crowded(c) /\ c \notin seen["server"]
     /\ Written("client") /\ marking' = c
     /\ call' = [call EXCEPT !["server"][c].cancelled = c \in early]
     /\ early' = early \ {c}
     /\ calls' = [calls EXCEPT !["server"] = @ \cup {c}]
     /\ seen' = [seen EXCEPT !["server"] = @ \cup {c}]
     /\ incoming' = Append(incoming, c)
     /\ UNCHANGED <<slots, failure, written, threads>>

\* A cancellation whose request has not come yet is kept for it.
ReadEarlyCancel(c) ==
  IF Cardinality(early) >= MaxPendingCalls /\ c \notin early
  THEN ProtocolError
  ELSE /\ Written("client")
       /\ early' = early \cup {c}
       /\ UNCHANGED <<call, calls, seen, slots, failure, written, marking, incoming, threads>>

\* What the frame does to the call it belongs to, and when it must not come.
Applied(e, f) ==
  CASE f.kind = "closed" -> [call[e][f.id] EXCEPT !.peer_input_closed = TRUE]
    [] f.kind = "cancel" -> [call[e][f.id] EXCEPT !.cancelled = TRUE]
    [] f.kind = "ready" -> [call[e][f.id] EXCEPT !.ready = TRUE]
    [] f.kind = "pull" -> [call[e][f.id] EXCEPT !.peer_permit = TRUE]
    [] OTHER -> [call[e][f.id] EXCEPT !.delivery = f]
Offending(e, f) ==
  LET i == call[e][f.id] IN
  CASE f.kind \in {"closed", "cancel"} -> FALSE
    [] f.kind = "ready" -> i.ready
    [] f.kind = "pull" -> ~i.offer_pending \/ i.peer_permit
    [] OTHER -> ~i.receive_requested \/ i.delivery # None

ReadKnown(e, f) ==
  IF Offending(e, f) THEN ProtocolError
  ELSE /\ Written(Other(e))
       /\ call' = [call EXCEPT ![e][f.id] = Applied(e, f)]
       /\ hook' = IF f.kind = "cancel" THEN [hook EXCEPT ![f.id] = Hooked(f.id)] ELSE hook
       /\ UNCHANGED <<calls, seen, slots, failure, written, marking, early, incoming, sender,
                      receiver, canceller, worker, sent>>

\* A late frame for a call that is over is dropped.
ReadLate(e) ==
  /\ Written(Other(e))
  /\ UNCHANGED <<call, calls, seen, slots, failure, written, marking, early, incoming, threads>>

ReadOne(e) ==
  /\ Works /\ NextFrames(Other(e)) # <<>>
  /\ e = "server" => marking = None
  /\ LET f == Head(NextFrames(Other(e))) IN
       \/ f.kind = "request" /\ ReadRequest(f.id)
       \/ f.kind # "request" /\ f.id \in calls[e] /\ ReadKnown(e, f)
       \/ /\ f.kind # "request" /\ f.id \notin calls[e]
          /\ \/ f.id \in seen[e] /\ ReadLate(e)
             \/ f.id \notin seen[e] /\ f.kind = "cancel" /\ ReadEarlyCancel(f.id)
             \/ f.id \notin seen[e] /\ f.kind # "cancel" /\ ProtocolError

\* The client's Writer looks a call up again after its request is written: its
\* result cannot have come yet, because this thread writes the permit for it.
MarkWritten ==
  /\ marking # None /\ Works
  /\ \/ /\ marking \in calls["client"]
        /\ written' = written \cup {marking} /\ marking' = None
        /\ UNCHANGED <<call, calls, seen, slots, queues, failure, early, incoming, threads>>
     \/ marking \notin calls["client"] /\ ProtocolError

-----------------------------------------------------------------------------
(* Send and Receive, which both ends use.  What a thread does in two       *)
(* critical sections is one step where nobody can tell: an offer and its   *)
(* Ready, a permit and the frame it is for, a slot and its Pull.           *)

\* The sender offers a fragment of the message; an offer that a sender has
\* left behind when it threw is used by the next one.
Offers(e, c, kind, part) ==
  sender' = [sender EXCEPT ![e][c] = [step |-> "permit", kind |-> kind, part |-> part]]
Ready(e, c) == IF call[e][c].offer_pending THEN <<>> ELSE <<ControlFrame("ready", c)>>
QueueControls(e, fs) == controls' = [controls EXCEPT ![e] = @ \o fs]
Pending(e, c) == call' = [call EXCEPT ![e][c].offer_pending = TRUE]

\* A result is sent whether or not its call is cancelled.
Dropped(e, c) ==
  \/ call[e][c].peer_input_closed
  \/ (call[e][c].cancelled \/ call[e][c].complete) /\ sender[e][c].kind # "result"
SenderThrows(e, c) ==
  /\ sender[e][c].step = "permit" /\ Works /\ Dropped(e, c)
  /\ sender' = [sender EXCEPT ![e][c].step = "thrown"]
  /\ UNCHANGED <<call, calls, seen, slots, queues, failure, written, marking, early, incoming,
                 receiver, canceller, worker, hook, sent>>

\* The permitted fragment is queued, and the next one offered.
Post(e, c) ==
  /\ sender[e][c].step = "permit" /\ Works /\ ~Dropped(e, c)
  /\ call[e][c].peer_permit
  /\ LET kind == sender[e][c].kind
         part == sender[e][c].part
         more == part < Parts[kind]
     IN /\ QueueData(e, MessageFrame(kind, c, part))
        /\ call' = [call EXCEPT ![e][c].peer_permit = FALSE, ![e][c].offer_pending = more]
        /\ \/ more /\ Offers(e, c, kind, part + 1) /\ QueueControl(e, "ready", c)
           \/ ~more /\ sender' = [sender EXCEPT ![e][c] = NotSending] /\ UNCHANGED controls
  /\ UNCHANGED <<calls, seen, slots, failure, written, marking, early, incoming, receiver,
                 canceller, worker, hook, sent>>

Send(e, c) == SenderThrows(e, c) \/ Post(e, c)

\* The input of a call that is over is not waited for.
Abandoned(e, c) == e = "server" /\ (call[e][c].cancelled \/ call[e][c].complete)

Pull(e, c) ==
  /\ receiver[e][c].step = "waiting" /\ Works /\ ~Abandoned(e, c)
  /\ call[e][c].ready /\ slots[e] < DeliverySlots
  /\ \/ call[e][c].receive_requested /\ ProtocolError
     \/ /\ ~call[e][c].receive_requested
        /\ slots' = [slots EXCEPT ![e] = @ + 1]
        /\ call' = [call EXCEPT ![e][c].ready = FALSE, ![e][c].receive_requested = TRUE]
        /\ QueueControl(e, "pull", c)
        /\ receiver' = [receiver EXCEPT ![e][c].step = "delivery"]
        /\ UNCHANGED <<calls, seen, data, failure, written, marking, early, incoming, sender,
                       canceller, worker, hook, sent>>

\* Mutant: the remainder of the event is kept.
KeptWhole(e, c, f) == [kind |-> receiver[e][c].kind, parts |-> receiver[e][c].parts]

\* A cancelled sender replaces the rest of an event by the result.
Kept(e, c, f) ==
  IF f.kind = "result" /\ f.part = 1 /\ call[e][c].cancelled THEN Nothing
  ELSE [kind |-> receiver[e][c].kind, parts |-> receiver[e][c].parts]

\* Assembly::Add
Follows(a, f) == f.part = a.parts + 1 /\ (a.parts = 0 \/ a.kind = f.kind)

\* The last fragment of a result ends the call at the client, that of the
\* input's end the input thread; after any other message the receiver waits
\* for the next one.  The callback of an event runs without a slot.
Deliver(e, c) ==
  /\ receiver[e][c].step = "delivery" /\ Works /\ ~Abandoned(e, c)
  /\ call[e][c].delivery # None
  /\ LET f == call[e][c].delivery
         whole == f.part = Parts[f.kind]
         over == whole /\ f.kind \in {"result", "finish"}
     IN IF ~Follows(Kept(e, c, f), f) THEN ProtocolError
        ELSE /\ slots' = [slots EXCEPT ![e] = @ - 1]
             /\ call' = [call EXCEPT ![e][c].delivery = None, ![e][c].receive_requested = FALSE,
                                     ![e][c].complete = @ \/ (over /\ e = "client")]
             /\ receiver' = [receiver EXCEPT ![e][c] =
                  [step |-> IF over THEN "ended" ELSE "waiting",
                   kind |-> IF whole THEN "none" ELSE f.kind,
                   parts |-> IF whole THEN 0 ELSE f.part]]
             /\ IF over /\ e = "client"
                THEN /\ seen' = [seen EXCEPT ![e] = @ \cup {c}]
                     /\ calls' = [calls EXCEPT ![e] = @ \ {c}]
                ELSE UNCHANGED <<seen, calls>>
             /\ UNCHANGED <<queues, failure, written, marking, early, incoming, sender,
                            canceller, worker, hook, sent>>

\* The slot of a cancelled input stays reserved until its call is retired.
ReceiverThrows(e, c) ==
  /\ Abandoned(e, c) /\ receiver[e][c].step \in {"waiting", "delivery"} /\ Works
  /\ receiver' = [receiver EXCEPT ![e][c].step = "ended"]
  /\ UNCHANGED <<call, calls, seen, slots, queues, failure, written, marking, early, incoming,
                 sender, canceller, worker, hook, sent>>

Receive(e, c) == Pull(e, c) \/ Deliver(e, c) \/ ReceiverThrows(e, c)

-----------------------------------------------------------------------------
(* The client: Call, Cancel, PushInput and FinishInput.                    *)

\* Releases wait for each other; each has a slot beyond the ordinary calls.
Releasing == \E r \in Releases : receiver["client"][r].step \notin {"idle", "ended"}
Call(c) ==
  /\ receiver["client"][c].step = "idle" /\ Works
  /\ c \in Releases => ~Releasing
  /\ Cardinality(calls["client"]) < MaxPendingCalls + (IF c \in Releases THEN 1 ELSE 0)
  /\ calls' = [calls EXCEPT !["client"] = @ \cup {c}]
  /\ receiver' = [receiver EXCEPT !["client"][c].step = "request"]
  /\ UNCHANGED <<call, seen, slots, queues, failure, written, marking, early, incoming,
                 sender, canceller, worker, hook, sent>>

SendRequest(c) ==
  /\ receiver["client"][c].step = "request" /\ Works
  /\ QueueData("client", MessageFrame("request", c, 1))
  /\ receiver' = [receiver EXCEPT !["client"][c].step = "waiting"]
  /\ UNCHANGED <<call, calls, seen, slots, controls, failure, written, marking, early,
                 incoming, sender, canceller, worker, hook, sent>>

\* The flag first; the frame may overtake the request, or be overtaken by
\* the result.
Cancel(c) ==
  /\ canceller[c] = "idle" /\ c \in Streaming \cap calls["client"] /\ Works
  /\ canceller' = [canceller EXCEPT ![c] = "queueing"]
  /\ call' = [call EXCEPT !["client"][c].cancelled = TRUE]
  /\ UNCHANGED <<calls, seen, slots, queues, failure, written, marking, early, incoming,
                 sender, receiver, worker, hook, sent>>
QueueCancel(c) ==
  /\ canceller[c] = "queueing"
  /\ canceller' = [canceller EXCEPT ![c] = "done"]
  /\ \/ Works /\ QueueControl("client", "cancel", c)
     \/ ~Works /\ UNCHANGED controls
  /\ UNCHANGED <<call, calls, seen, slots, data, failure, written, marking, early,
                 incoming, sender, receiver, worker, hook, sent>>

\* Mutant: input does not wait for its request.
MayInputAtOnce(c) == TRUE

\* InputInvocation: input waits for its request to be written.
MayInput(c) == c \in written

Input(c, k) ==
  /\ c \in Streaming /\ sender["client"][c].step = "idle" /\ Works
  /\ k = "input" => sent["client"][c] < MaxMessages
  /\ sent["client"][c] <= MaxMessages
  /\ c \in calls["client"] /\ MayInput(c)
  /\ LET i == call["client"][c] IN ~(i.cancelled \/ i.complete \/ i.peer_input_closed)
  /\ Offers("client", c, k, 1) /\ Pending("client", c) /\ QueueControls("client", Ready("client", c))
  /\ sent' = [sent EXCEPT !["client"][c] = IF k = "finish" THEN MaxMessages + 1 ELSE @ + 1]
  /\ UNCHANGED <<calls, seen, slots, data, failure, written, marking, early, incoming,
                 receiver, canceller, worker, hook>>

-----------------------------------------------------------------------------
(* The server: Accept in HostServer's Peer::Run, which executes releases   *)
(* itself, a worker per other call, and the control worker.                *)

Moves(c, from, to) == worker[c] = from /\ worker' = [worker EXCEPT ![c] = to]
\* Mutant: the accept loop executes every call itself.
AcceptingAlone == \A c \in Calls : worker[c] \in {"none", "ended"}
Accepting == \A r \in Releases : worker[r] \in {"none", "ended"}

Accept ==
  /\ incoming # <<>> /\ Accepting /\ Works
  /\ Moves(Head(incoming), "none", "accepted")
  /\ incoming' = Tail(incoming)
  /\ UNCHANGED <<call, calls, seen, slots, queues, failure, written, marking, early, sender,
                 receiver, canceller, hook, sent>>

\* Mutant: only a cancellation after the registration finds the hook.
StartDeaf(c) ==
  /\ Moves(c, "accepted", "running")
  /\ \/ c \notin Streaming /\ UNCHANGED <<hook, receiver>>
     \/ /\ c \in Streaming
        /\ hook' = [hook EXCEPT ![c] = "set"]
        /\ receiver' = [receiver EXCEPT !["server"][c].step = IF Works THEN "waiting" ELSE "ended"]
  /\ UNCHANGED <<call, calls, seen, slots, queues, failure, written, marking, early, incoming,
                 sender, canceller, sent>>

\* SetCancelHandler (a cancelled call's hook runs at once), and the input thread; a call without a hook just runs.
Start(c) ==
  /\ Moves(c, "accepted", "running")
  /\ \/ c \notin Streaming /\ UNCHANGED <<hook, receiver>>
     \/ /\ c \in Streaming
        /\ hook' = [hook EXCEPT ![c] = IF call["server"][c].cancelled THEN "queued" ELSE "set"]
        /\ receiver' = [receiver EXCEPT !["server"][c].step = IF Works THEN "waiting" ELSE "ended"]
  /\ UNCHANGED <<call, calls, seen, slots, queues, failure, written, marking, early, incoming,
                 sender, canceller, sent>>

RunHook(c) ==
  /\ hook[c] = "queued"
  /\ hook' = [hook EXCEPT ![c] = "run"]
  /\ UNCHANGED <<call, calls, seen, slots, queues, failure, written, marking, early, incoming,
                 sender, receiver, canceller, worker, sent>>

SendEvent(c) ==
  /\ c \in Streaming /\ worker[c] = "running" /\ Works
  /\ sender["server"][c].step = "idle" /\ sent["server"][c] < MaxMessages
  /\ Offers("server", c, "event", 1) /\ Pending("server", c) /\ QueueControls("server", Ready("server", c))
  /\ sent' = [sent EXCEPT !["server"][c] = @ + 1]
  /\ UNCHANGED <<calls, seen, slots, data, failure, written, marking, early, incoming,
                 receiver, canceller, worker, hook>>

\* Complete, when the operation is over: no more input, the result, and only
\* then the call is over here.
CloseInput(c) ==
  /\ sender["server"][c].step \in {"idle", "thrown"} /\ Works
  /\ Moves(c, "running", "completing")
  /\ QueueControls("server", <<ControlFrame("closed", c)>> \o Ready("server", c))
  /\ Offers("server", c, "result", 1) /\ Pending("server", c)
  /\ UNCHANGED <<calls, seen, slots, data, failure, written, marking, early, incoming,
                 receiver, canceller, hook, sent>>

\* Mutant: a reservation without a delivery is forgotten.
RetiredUnreserved(c) ==
  /\ slots' = [slots EXCEPT !["server"] = IF call["server"][c].delivery # None THEN @ - 1 ELSE @]
  /\ call' = [call EXCEPT !["server"][c].receive_requested = FALSE,
                          !["server"][c].delivery = None, !["server"][c].complete = TRUE]
  /\ calls' = [calls EXCEPT !["server"] = @ \ {c}]
  /\ seen' = [seen EXCEPT !["server"] = @ \cup {c}]

\* Retire: the slot that a late permit still holds is given back.
Retired(c) ==
  /\ slots' = [slots EXCEPT !["server"] = IF call["server"][c].receive_requested THEN @ - 1 ELSE @]
  /\ call' = [call EXCEPT !["server"][c].receive_requested = FALSE,
                          !["server"][c].delivery = None, !["server"][c].complete = TRUE]
  /\ calls' = [calls EXCEPT !["server"] = @ \ {c}]
  /\ seen' = [seen EXCEPT !["server"] = @ \cup {c}]

Complete(c) ==
  /\ sender["server"][c].step = "idle"
  /\ Moves(c, "completing", "joining") /\ Retired(c)
  /\ UNCHANGED <<queues, failure, written, marking, early, incoming, sender, receiver,
                 canceller, hook, sent>>

\* Complete throws on a failed connection.
CompleteThrows(c) ==
  /\ ~Works /\ sender["server"][c].step \in {"idle", "thrown"}
  /\ worker[c] \in {"running", "completing"}
  /\ worker' = [worker EXCEPT ![c] = "joining"]
  /\ UNCHANGED <<call, calls, seen, slots, queues, failure, written, marking, early, incoming,
                 sender, receiver, canceller, hook, sent>>

\* The worker joins the input thread; with them goes the IncomingCall, whose
\* destructor retires a call that could not be completed.
Join(c) ==
  /\ Moves(c, "joining", "ended")
  /\ receiver["server"][c].step \in {"idle", "ended"}
  /\ Retired(c)
  /\ UNCHANGED <<queues, failure, written, marking, early, incoming, sender, receiver,
                 canceller, hook, sent>>

-----------------------------------------------------------------------------
\* What a streaming operation must end for is its hook, or an event that could
\* not be sent; any other operation ends by itself.
MustEnd(c) == c \in Streaming => hook[c] = "run" \/ sender["server"][c].step = "thrown"
End(c) == CloseInput(c) \/ CompleteThrows(c)

\* What the threads do by themselves,
Progress ==
  \/ MarkWritten \/ Accept
  \/ \E e \in Ends : ReadOne(e) \/ \E c \in Calls : Send(e, c) \/ Receive(e, c)
  \/ \E c \in Calls :
       \/ SendRequest(c) \/ QueueCancel(c) \/ RunHook(c) \/ Start(c)
       \/ MustEnd(c) /\ End(c)
       \/ Complete(c) \/ Join(c)

\* and what the application, its operations and the environment may do.
Choice ==
  \/ Disconnect
  \/ \E c \in Calls :
       \/ Call(c) \/ Cancel(c) \/ Input(c, "input") \/ Input(c, "finish") \/ SendEvent(c)
       \/ ~MustEnd(c) /\ End(c)

Next == Progress \/ Choice

Spec == Init /\ [][Next]_vars

\* Threads run, and an operation whose hook has run ends (the contract of
\* SetCancelHandler).  Nobody has to call, cancel, send or finish.  Each thread
\* has few steps between two choices, so that it is enough that some runs.
FairSpec == Spec /\ WF_vars(Progress)

-----------------------------------------------------------------------------
\* No frame is taken for an error of the other end.
Orderly == failure # "protocol"

\* The request of a release finds a slot.
ReleasesFit ==
  Works /\ NextFrames("client") # <<>> =>
    LET f == Head(NextFrames("client"))
    IN  f.kind = "request" /\ f.id \in Releases => ~Crowded(f.id)

\* Two ends that keep to the protocol never fail by it: whatever a
\* cancellation, the end of the input or a result crosses on the way, every
\* permit is expected, every fragment is in sequence, every frame finds its
\* call or a trace of it, and every cancellation that comes before its request
\* finds room (ReadOne).  And a release finds a slot at the server although the
\* ordinary calls may have taken all of theirs and the release before it is not
\* retired (ReadRequest): releases wait for each other at the client
\* (release_mutex), and the accept loop executes them one by one.  The limit of
\* ordinary requests is not among this: one that the client admits may exceed
\* it and fail the connection (ReservedSlot).
NoProtocolError == Orderly /\ ReleasesFit

\* "Serialized resource retirement has a reserved call slot"
\* (sdk_connection.h:126): with it the ordinary calls and the release that
\* AllocateInvocation admits never exceed the limit of the other end.  The code
\* does not keep this: ReadRequest counts a release among the ordinary calls.
ReservedSlot == failure # "limit"

\* A call is over for the client when it is cancelled, has returned or threw,
\* and a release always will be, although requests go on;
Over(c) ==
  \/ call["client"][c].cancelled \/ receiver["client"][c].step = "ended"
  \/ c \in Releases \cap calls["client"]
\* then everybody who waits for something of it has to be done: its caller, who
\* pushes its input, its worker at the server, its input thread and with them
\* the accept loop.
Unwound(c) ==
  /\ receiver["client"][c].step = "ended" /\ sender["client"][c].step # "permit"
  /\ worker[c] \in {"none", "ended"}

\* Whatever is over is unwound in the end, and for good; also when the channel
\* is lost.
CallUnwinds == <>[](\A c \in Calls : Over(c) => Unwound(c))
=============================================================================
