---------------------------- MODULE HostContract ----------------------------
(***************************************************************************)
(* What a native host promises the processes that share it, without saying *)
(* how: clients attach and detach, work is admitted only while somebody is *)
(* attached, and the host closes for good at a moment when it has neither  *)
(* a client nor a piece of work.  Closing is one step: a client attaches   *)
(* before it or is refused, and there is no state in between.              *)
(***************************************************************************)
CONSTANTS Clients,   \* the connection generations that may attach
          Jobs       \* the slots for pieces of admitted work

VARIABLES clients,   \* the attached clients
          jobs,      \* the work in flight
          closed     \* the host has committed to shut down

vars == <<clients, jobs, closed>>

Init == clients = {} /\ jobs = {} /\ closed = FALSE

Attach(c) ==
  /\ ~closed
  /\ clients' = clients \cup {c}
  /\ UNCHANGED <<jobs, closed>>

Detach(c) ==
  /\ clients' = clients \ {c}
  /\ UNCHANGED <<jobs, closed>>

Admit(j) ==
  /\ ~closed
  /\ clients # {}
  /\ j \notin jobs
  /\ jobs' = jobs \cup {j}
  /\ UNCHANGED <<clients, closed>>

Finish(j) ==
  /\ jobs' = jobs \ {j}
  /\ UNCHANGED <<clients, closed>>

Close ==
  /\ clients = {} /\ jobs = {}
  /\ closed' = TRUE
  /\ UNCHANGED <<clients, jobs>>

Next ==
  \/ \E c \in Clients : Attach(c) \/ Detach(c)
  \/ \E j \in Jobs : Admit(j) \/ Finish(j)
  \/ Close

Spec == Init /\ [][Next]_vars
=============================================================================
