---------------------------- MODULE ResponseStore ----------------------------
(***************************************************************************)
(* openresponses/response_store.cc: the responses the web service has      *)
(* given, most recently used first, from which a conversation is continued *)
(* with previous_response_id.  A response that is evicted for capacity is  *)
(* folded into the replay prefix of its children, so that what is retained *)
(* can be replayed in full.                                                *)
(*                                                                         *)
(* A request takes a lease on the chain it continues, so that a deletion   *)
(* reaches what is still being generated.                                  *)
(*                                                                         *)
(* A hop (the items of one request and its answer) goes by the response's  *)
(* id; a chain of ReplayPrefix nodes is the sequence of its hops, oldest   *)
(* first.  Every operation holds the store's mutex and is one step.  Ids   *)
(* are unique, so that replacing a stored response and cyclic links, which *)
(* the code survives, do not arise; an id, drawn at random when a request  *)
(* begins, is given here when its response is published.                   *)
(***************************************************************************)
EXTENDS Naturals, Sequences, SequencesExt

CONSTANTS Ids,       \* of the responses, in the order of their publication
          Capacity,  \* capacity_
          Requests,  \* requests that are handled at one time
          None       \* no previous response, no lease, no session

ASSUME IdAssumption == Ids \subseteq Nat \ {0} /\ None \notin Ids
ASSUME CapacityAssumption == Capacity \in Nat \ {0}
ASSUME ChainAssumption == None \notin Seq(Ids) /\ None \notin [chain : Seq(Ids), invalidated : BOOLEAN]

VARIABLES
  store,     \* entries_, most recent first; the parent and replay_prefix of an id
  previous,  \* of each request: its previous_response_id
  pending,   \* its lease: the chain it continues, and whether that is invalidated
  published, deleted  \* history: ids that were published, deleted after that

storeVars == <<store, previous, pending, published, deleted>>

-----------------------------------------------------------------------------
(* The functions of the store.                                             *)

\* From an entry to the oldest entry it can be walked to, newest first.
Segment(st, id) ==
  LET walk[i \in Ids] ==
        <<i>> \o (IF st.parent[i] \in ToSet(st.entries) THEN walk[st.parent[i]] ELSE <<>>)
  IN  IF id \in ToSet(st.entries) THEN walk[id] ELSE <<>>

EndsWith(prefix, id) == prefix # <<>> /\ Last(prefix) = id

\* WalkChainLocked: what precedes the oldest entry is in its own prefix or in
\* that of the entry the walk began at.  The chain, oldest hop first, or None.
WalkChain(st, id) ==
  LET hops == Segment(st, id)
      oldest == Last(hops)
      prefix == IF st.parent[oldest] = None \/ EndsWith(st.prefix[oldest], st.parent[oldest])
                  THEN st.prefix[oldest]
                ELSE IF EndsWith(st.prefix[id], st.parent[oldest]) THEN st.prefix[id] ELSE None
  IN  IF hops = <<>> \/ prefix = None THEN None ELSE prefix \o Reverse(hops)

\* What is left of a sequence, in its order.
Without(s, S) ==
  LET kept[n \in 0 .. Len(s)] ==
        IF n = 0 THEN <<>>
        ELSE IF s[n] \in S THEN kept[n - 1] ELSE Append(kept[n - 1], s[n])
  IN  kept[Len(s)]

\* Touching a chain oldest first leaves its newest response in front.
Touch(st, ids) == [st EXCEPT !.entries = ids \o Without(@, ToSet(ids))]

\* CompactAndEraseLocked: the children inherit the hop.
CompactAndErase(st, root) ==
  LET whole == st.parent[root] = None \/ st.prefix[root] # <<>>
      folded == st.prefix[root] \o <<root>>
  IN  [st EXCEPT !.entries = Without(@, {root}),
         !.prefix = [i \in Ids |-> IF i = root THEN <<>>
                       ELSE IF whole /\ i \in ToSet(st.entries) /\ st.parent[i] = root THEN folded
                       ELSE @[i]]]

\* Mutant: one more than the capacity is kept.
EvictedLate(st) ==
  IF Len(st.entries) <= Capacity + 1 THEN {} ELSE {Last(Segment(st, Last(st.entries)))}

\* Evict removes the root of the conversation of the least recently used.
Evicted(st) ==
  IF Len(st.entries) <= Capacity THEN {} ELSE {Last(Segment(st, Last(st.entries)))}

Evict(st) ==
  IF Evicted(st) = {} THEN st ELSE CompactAndErase(st, CHOOSE i \in Evicted(st) : TRUE)

\* Mutant: what was evicted during the generation is not restored.
Unrepaired(st, id, snapshot) == st

\* AttachReplaySnapshotIfNeededLocked: what was evicted during the generation
\* comes from the snapshot of the lease.
AttachReplaySnapshot(st, id, snapshot) ==
  LET oldest == Last(Segment(st, id))
      missing == st.parent[oldest]
      upTo == {n \in 1 .. Len(snapshot) : snapshot[n] = missing}
  IN  IF missing = None \/ EndsWith(st.prefix[oldest], missing) \/ upTo = {} THEN st
      ELSE [st EXCEPT !.prefix[id] = SubSeq(snapshot, 1, CHOOSE n \in upTo : TRUE)]

\* StoreLocked of a new response, before the eviction.
Insert(st, id, p) ==
  [st EXCEPT !.entries = <<id>> \o @, !.parent[id] = p, !.prefix[id] = <<>>]

\* DependsOnLocked, and DeleteWithDependents: the deleted ids.
DependsOn(st, e, id) == \E i \in ToSet(Segment(st, e)) : i = id \/ id \in ToSet(st.prefix[i])
DeletedIds(st, id) ==
  LET dependents == {e \in ToSet(st.entries) : DependsOn(st, e, id)}
  IN  IF dependents = {} THEN {} ELSE dependents \cup {id}
Erase(st, ids) ==
  [st EXCEPT !.entries = Without(@, ids),
             !.prefix = [i \in Ids |-> IF i \in ids THEN <<>> ELSE @[i]]]

-----------------------------------------------------------------------------
(* Its operations.  The parent of what is gone is kept for Conversation.   *)

StoreTypeOK ==
  /\ store.entries \in Seq(published) /\ Len(store.entries) <= Capacity
  /\ store.parent \in [Ids -> published \cup {None}]
  /\ store.prefix \in [Ids -> Seq(published)]
  /\ previous \in [Requests -> published \cup {None}]
  /\ \A q \in Requests :
       pending[q] # None => pending[q].chain \in Seq(published) /\ pending[q].invalidated \in BOOLEAN
  /\ deleted \subseteq published /\ published \subseteq Ids

StoreInit ==
  /\ store = [entries |-> <<>>, parent |-> [i \in Ids |-> None], prefix |-> [i \in Ids |-> <<>>]]
  /\ previous = [q \in Requests |-> None] /\ pending = [q \in Requests |-> None]
  /\ published = {} /\ deleted = {}

\* BeginResponse opens the lease and keeps the chain warm.  A chain that is not
\* available, or was produced by another model, is refused before it is touched.
BeginResponse(q, p) ==
  /\ pending[q] = None
  /\ p # None => p \in ToSet(store.entries) /\ WalkChain(store, p) # None
  /\ previous' = [previous EXCEPT ![q] = p]
  /\ pending' = [pending EXCEPT ![q] =
                   [chain |-> IF p = None THEN <<>> ELSE WalkChain(store, p), invalidated |-> FALSE]]
  /\ store' = IF p = None THEN store ELSE Touch(store, Segment(store, p))
  /\ UNCHANGED <<published, deleted>>

\* The chain may have been evicted or deleted since.
ChainAvailable(q) == previous[q] # None /\ WalkChain(store, previous[q]) # None
BuildChainContext(q) ==
  /\ pending[q] # None /\ ChainAvailable(q)
  /\ store' = Touch(store, Segment(store, previous[q]))
  /\ UNCHANGED <<previous, pending, published, deleted>>

\* The request fails, or its response is not to be stored; Commit throws before
\* it changes anything, with its lease used up.  (When the ids run out, so does
\* the model.)
Released(q) == pending' = [pending EXCEPT ![q] = None] /\ previous' = [previous EXCEPT ![q] = None]
ReleaseLease(q) == pending[q] # None /\ Released(q) /\ UNCHANGED <<store, published, deleted>>

\* The ids that are left, in order.
NextId == {i \in Ids \ published : \A j \in Ids \ published : i <= j}

\* Mutant: the lease is not asked.
CommitsAnyway(q) == TRUE
Commits(q) == ~pending[q].invalidated

\* Commit of the response i, or of none when its conversation was deleted.
Commit(q, i) ==
  /\ pending[q] # None /\ Commits(q) /\ i \in NextId
  /\ store' = AttachReplaySnapshot(Evict(Insert(store, i, previous[q])), i, pending[q].chain)
  /\ Released(q)
  /\ published' = published \cup {i}
  /\ UNCHANGED deleted

\* GET of a response and of its input items.
Get(i) ==
  /\ i \in ToSet(store.entries)
  /\ store' = Touch(store, <<i>>)
  /\ UNCHANGED <<previous, pending, published, deleted>>

\* Mutant: the ids that are deleted, without the one that was asked for, which
\* capacity may have evicted while a lease still has it.
InvalidatedByDeleted(i) ==
  {q \in Requests : pending[q] # None /\ ToSet(pending[q].chain) \cap DeletedIds(store, i) # {}}
Invalidated(i) ==
  {q \in Requests : pending[q] # None /\ ToSet(pending[q].chain) \cap (DeletedIds(store, i) \cup {i}) # {}}

DeleteWithDependents(i) ==
  /\ i \in published
  /\ pending' = [q \in Requests |-> IF q \in Invalidated(i) THEN [pending[q] EXCEPT !.invalidated = TRUE]
                                    ELSE pending[q]]
  /\ store' = Erase(store, DeletedIds(store, i))
  /\ deleted' = deleted \cup {i}
  /\ UNCHANGED <<previous, published>>

StoreNext ==
  \/ \E q \in Requests :
       \/ \E p \in Ids \cup {None} : BeginResponse(q, p)
       \/ BuildChainContext(q) \/ ReleaseLease(q) \/ \E i \in Ids : Commit(q, i)
  \/ \E i \in Ids : Get(i) \/ DeleteWithDependents(i)

StoreSpec == StoreInit /\ [][StoreNext]_storeVars

-----------------------------------------------------------------------------
\* The conversation that led to a response, oldest hop first.
Conversation(id) ==
  LET upTo[i \in Ids] ==
        IF store.parent[i] = None THEN <<i>> ELSE Append(upTo[store.parent[i]], i)
  IN  upTo[id]

(***************************************************************************)
(* Whatever is retained can be continued from, with the whole conversation *)
(* that led to it, although capacity has evicted parts of it, some of them *)
(* while their continuation was being generated.                           *)
(***************************************************************************)
Replayable ==
  \A i \in ToSet(store.entries) : WalkChain(store, i) = Conversation(i)

(***************************************************************************)
(* What was deleted does not come back: neither a retained response nor a  *)
(* replay prefix contains it, though continuations of it were under way    *)
(* when it was deleted.                                                    *)
(***************************************************************************)
DeletedStaysGone ==
  \A i \in ToSet(store.entries) : ToSet(Conversation(i) \o store.prefix[i]) \cap deleted = {}
=============================================================================
