----------------------------- MODULE BlobDownload -----------------------------
(***************************************************************************)
(* download/{blob_downloader,blob_download_state,file_writer}.cc: how one  *)
(* blob gets onto the disk.  Workers fetch its chunks, a bitmap of the     *)
(* chunks that are complete is saved beside the file (<file>.dlstate) from *)
(* time to time, and becomes a receipt (<file>.dlverified) at the end.  An *)
(* attempt may fail, be cancelled, or die with its process or with the     *)
(* machine; the next one resumes from what it finds.                       *)
(*                                                                         *)
(* One process works on the blob: the lock of DownloadManager sees to it.  *)
(* What is read from or written to the disk without a write of another     *)
(* file in between is one step.  All versions of the blob have one size.   *)
(***************************************************************************)
EXTENDS Naturals, Integers, FiniteSets, FiniteSetsExt

CONSTANTS N,            \* total_chunks
          WordBits,     \* kBitsPerWord: the bitmap is kept in words ...
          ByteBits,     \* ... and saved in bytes
          SaveInterval, \* chunks between two saves of the bitmap
          Workers,
          Versions,     \* contents the service may hold under the blob's name
          First,        \* ... the one it holds at the start
          None,         \* no version, no file, no state
          MaxFaults,    \* how much may go wrong (a bound)
          MaxLost       \* chunks lost with the machine at once (a bound)

ASSUME SizeAssumption == N \in Nat \ {0} /\ SaveInterval \in Nat \ {0}
ASSUME BitsAssumption ==
  /\ WordBits \in Nat \ {0} /\ ByteBits \in Nat \ {0}
  /\ \E k \in 1 .. WordBits : WordBits = k * ByteBits
ASSUME FaultAssumption == MaxFaults \in Nat /\ MaxLost \in Nat
ASSUME VersionAssumption ==
  First \in Versions /\ None \notin Versions /\ {"hole", "torn"} \cap Versions = {}

VARIABLES
  remote,     \* the version the service holds, with its ETag
  unused,     \* versions it has not held yet: an ETag does not come back
  published,  \* whether the listing has an MD5 of the blob (Content-MD5)
  data,       \* the content of each chunk of the data file, None without a file
  sidecar,    \* <file>.dlstate
  receipt,    \* <file>.dlverified
  pc,         \* the step of the attempt
  listing,    \* the version that the attempt has listed
  state,      \* its BlobDownloadState
  verified,   \* repair state that was checked already (BlobDownloadValidation)
  pending,    \* chunks that no worker has claimed
  worker, chunk, \* of each worker: its step and its chunk
  since_save, \* chunks_since_save
  cancelled,  \* the progress callback has asked to stop
  failed,     \* first_error, and internal_cancel with it
  marked,     \* history: the chunks that were complete when the sidecar was saved
  faults

service == <<remote, unused, published>>
disk == <<data, sidecar, receipt, marked>>
attempt == <<pc, listing, state, verified, pending, since_save, cancelled, failed>>
pool == <<worker, chunk>>
vars == <<service, disk, attempt, pool, faults>>

Chunks == 0 .. N - 1
Contents == {"hole", "torn"} \cup Versions
States ==
  [etag : Versions, start : 0 .. N, highest : -1 .. N - 1, count : 0 .. N, bits : SUBSET Chunks,
   md5 : [Chunks -> Versions \cup {None}]]

ASSUME NoneAssumption == None \notin States /\ None \notin [Chunks -> Contents]

-----------------------------------------------------------------------------
(* BlobDownloadState.  The bitmap is the set of its bits; below `start' all *)
(* chunks are complete and are not saved any more.                          *)

Words == (N + WordBits - 1) \div WordBits
RoundDown(i, k) == (i \div k) * k

IsChunkComplete(s, c) == c < s.start \/ c \in s.bits
Complete(s) == {c \in Chunks : IsChunkComplete(s, c)}
IsComplete(s) == s.count = N
GetPendingChunks(s) == {c \in Chunks : c >= s.start /\ ~IsChunkComplete(s, c)}
Highest(C) == Max(C \cup {-1})

CreateNew(v) ==
  [etag |-> v, start |-> 0, highest |-> -1, count |-> 0, bits |-> {},
   md5 |-> [c \in Chunks |-> None]]

MarkChunkComplete(s, c, v) ==
  IF IsChunkComplete(s, c) THEN s
  ELSE [s EXCEPT !.bits = @ \cup {c}, !.count = @ + 1, !.highest = Max({@, c}),
                 !.md5[c] = v]

\* Mutant: the prefix that is implied to be complete keeps its length.
MarkIncompleteAbovePrefix(s, C) ==
  [s EXCEPT !.bits = @ \ C, !.count = @ - Cardinality(C), !.highest = Highest(Complete(s) \ C)]

\* MarkChunkIncomplete for each chunk of C, which are complete: the prefix shrinks
\* to the byte of the first of them.
MarkChunksIncomplete(s, C) ==
  [s EXCEPT !.bits = @ \ C, !.count = @ - Cardinality(C), !.highest = Highest(Complete(s) \ C),
            !.start = Min({@} \cup {RoundDown(c, ByteBits) : c \in C})]

\* The first bit that is not set, from the first bit of the word `start' is in.
FirstOpen(s) ==
  Min({i \in RoundDown(s.start, WordBits) .. Words * WordBits : i \notin s.bits} \cup {N})

\* Mutant: whole words are counted from a start that is inside a word.
OvershotStart(s) ==
  LET ahead == IF FirstOpen(s) \div WordBits > s.start \div WordBits THEN s.start % WordBits ELSE 0
  IN  RoundDown(Min({N, FirstOpen(s) + ahead}), ByteBits)
NewStart(s) == RoundDown(FirstOpen(s), ByteBits)

\* SaveState moves the start, then writes the bytes from there to the highest chunk.
Advanced(s) == [s EXCEPT !.start = Max({@, NewStart(s)})]
SaveState(s) ==
  LET bytes == (s.highest - s.start + ByteBits) \div ByteBits
      length == IF s.highest >= s.start THEN bytes ELSE 0
  IN  [s EXCEPT !.bits = @ \cap (s.start .. s.start + length * ByteBits - 1)]

\* LoadState wants the counters to agree with the bits, and implies the prefix.
Consistent(f) ==
  /\ f.start \in 0 .. N /\ f.start % ByteBits = 0
  /\ f.count = Cardinality(Complete(f)) /\ f.highest = Highest(Complete(f))
LoadState(f) ==
  IF f = None \/ ~Consistent(f) THEN None ELSE [f EXCEPT !.bits = @ \cup (0 .. f.start - 1)]

\* ValidateCompletedChunks compares what is on the disk with the saved MD5s.
ValidateCompletedChunks(s) ==
  MarkChunksIncomplete(s, {c \in Complete(s) : data[c] # s.md5[c]})

-----------------------------------------------------------------------------
TypeOK ==
  /\ remote \in Versions /\ unused \subseteq Versions /\ published \in BOOLEAN
  /\ data = None \/ data \in [Chunks -> Contents]
  /\ \A s \in {sidecar, receipt, state, verified} \ {None} : s \in States /\ s.start % ByteBits = 0
  /\ \A s \in {state, verified} \ {None} :
       s.count = Cardinality(Complete(s)) /\ s.highest = Highest(Complete(s))
  /\ pc \in {"idle", "listed", "needed", "resumed", "saved", "transfer",
             "committing", "renaming", "written", "finished"}
  /\ listing \in Versions \cup {None}
  /\ pending \subseteq Chunks
  /\ worker \in [Workers -> {"ready", "streaming", "received", "saving", "exited"}]
  /\ chunk \in [Workers -> Chunks \cup {None}]
  /\ since_save \in 0 .. SaveInterval
  /\ cancelled \in BOOLEAN /\ failed \in BOOLEAN
  /\ marked \subseteq Chunks
  /\ faults \in 0 .. MaxFaults

Init ==
  /\ remote = First /\ unused = Versions \ {First} /\ published \in BOOLEAN
  /\ data = None /\ sidecar = None /\ receipt = None /\ marked = {}
  /\ pc = "idle" /\ listing = None /\ state = None /\ verified = None /\ pending = {}
  /\ worker = [w \in Workers |-> "exited"] /\ chunk = [w \in Workers |-> None]
  /\ since_save = 0 /\ cancelled = FALSE /\ failed = FALSE
  /\ faults = 0

Moves(from, to) == pc = from /\ pc' = to
Fault == faults < MaxFaults /\ faults' = faults + 1

\* The attempt is over and its memory gone.
Ends(step) ==
  /\ pc' = step
  /\ listing' = None /\ state' = None /\ verified' = None /\ pending' = {}
  /\ worker' = [w \in Workers |-> "exited"] /\ chunk' = [w \in Workers |-> None]
  /\ since_save' = 0 /\ cancelled' = FALSE /\ failed' = FALSE

\* SaveState replaces the sidecar by a rename.
Saves(s) ==
  /\ sidecar' = SaveState(Advanced(s))
  /\ marked' = Complete(s)

-----------------------------------------------------------------------------
(* DownloadBlobsToDirectory up to DownloadBlob, for one blob.              *)

ListBlobs ==
  /\ Moves("idle", "listed")
  /\ listing' = remote
  /\ UNCHANGED <<service, disk, state, verified, pending, since_save, cancelled, failed, pool, faults>>

Whole(v) == data # None /\ \A c \in Chunks : data[c] = v

\* A receipt counts if it is complete and of the listed version.
Receipt == LoadState(receipt)
ReceiptCounts ==
  /\ data # None /\ sidecar = None
  /\ Receipt # None /\ Receipt.etag = listing /\ IsComplete(Receipt)

\* A blob with a published MD5 is hashed; any other needs a receipt that agrees
\* with the file, and what does not agree is repaired without a second look.
IsDownloadNeeded ==
  /\ pc = "listed"
  /\ \/ /\ published
        /\ pc' = IF sidecar = None /\ Whole(listing) THEN "finished" ELSE "needed"
        /\ UNCHANGED verified
     \/ /\ ~published /\ ReceiptCounts
        /\ \E checked \in {ValidateCompletedChunks(Receipt)} :
             /\ pc' = IF IsComplete(checked) THEN "finished" ELSE "needed"
             /\ verified' = IF IsComplete(checked) THEN None ELSE checked
     \/ /\ ~published /\ ~ReceiptCounts
        /\ pc' = "needed"
        /\ UNCHANGED verified
  /\ UNCHANGED <<service, disk, listing, state, pending, since_save, cancelled, failed, pool, faults>>

-----------------------------------------------------------------------------
(* DownloadBlob.                                                           *)

\* What an earlier attempt has left: of this one, in the sidecar, in the receipt.
Candidate ==
  IF verified # None THEN verified
  ELSE IF LoadState(sidecar) # None THEN LoadState(sidecar) ELSE Receipt
\* Mutant: a state of any version will do.
UsableAnyVersion(s) == s # None /\ data # None
Usable(s) == s # None /\ data # None /\ s.etag = listing

\* Mutant: the bitmap is believed once the ETag agrees.
Unchecked(s) == IF Usable(s) THEN s ELSE CreateNew(listing)
ResumedFrom(s) ==
  IF ~Usable(s) THEN CreateNew(listing)
  ELSE IF verified # None THEN s ELSE ValidateCompletedChunks(s)

\* The properties are asked for with If-Match, so the version is the listed one.
Resume ==
  /\ Moves("needed", "resumed")
  /\ remote = listing
  /\ \E s \in {Candidate} : state' = ResumedFrom(s)
  /\ UNCHANGED <<service, disk, listing, verified, pending, since_save, cancelled, failed, pool, faults>>

Changed ==
  /\ pc = "needed" /\ remote # listing
  /\ Ends("idle")
  /\ UNCHANGED <<service, disk, faults>>

\* Nothing is written before the bitmap that says what is there.
SaveFirst ==
  LET todo == GetPendingChunks(state) IN
  /\ pc = "resumed"
  /\ pending' = todo
  /\ IF todo = {}
       THEN pc' = "committing" /\ UNCHANGED <<sidecar, marked, state>>
       ELSE pc' = "saved" /\ Saves(state) /\ state' = Advanced(state)
  /\ UNCHANGED <<service, data, receipt, listing, verified, since_save, cancelled, failed, pool, faults>>

\* FileWriter::Open makes the file, of holes, unless it is there.
OpenFile ==
  /\ Moves("saved", "transfer")
  /\ data' = IF data = None THEN [c \in Chunks |-> "hole"] ELSE data
  /\ worker' = [w \in Workers |-> "ready"]
  /\ UNCHANGED <<service, sidecar, receipt, marked, listing, state, verified, pending, since_save,
                 cancelled, failed, chunk, faults>>

-----------------------------------------------------------------------------
(* The workers.                                                            *)

WorkerMoves(w, from, to) == worker[w] = from /\ worker' = [worker EXCEPT ![w] = to]
Stopping == cancelled \/ failed

\* The chunk is asked for with If-Match, and its bytes arrive in pieces.
Claim(w) ==
  LET c == Min(pending) IN
  /\ ~Stopping /\ pending # {} /\ remote = listing
  /\ WorkerMoves(w, "ready", "streaming")
  /\ chunk' = [chunk EXCEPT ![w] = c]
  /\ pending' = pending \ {c}
  /\ data' = [data EXCEPT ![c] = "torn"]
  /\ UNCHANGED <<service, sidecar, receipt, marked, pc, listing, state, verified, since_save,
                 cancelled, failed, faults>>

NoMore(w) ==
  /\ WorkerMoves(w, "ready", "exited")
  /\ Stopping \/ pending = {}
  /\ UNCHANGED <<service, disk, attempt, chunk, faults>>

FetchRest(w) ==
  /\ WorkerMoves(w, "streaming", "received")
  /\ data' = [data EXCEPT ![chunk[w]] = listing]
  /\ UNCHANGED <<service, sidecar, receipt, marked, attempt, chunk, faults>>

\* The version has changed since, the context is cancelled, or the transfer fails.
FetchFails(w) ==
  /\ \/ /\ WorkerMoves(w, "ready", "exited")
        /\ ~Stopping /\ pending # {} /\ remote # listing
        /\ UNCHANGED faults
     \/ WorkerMoves(w, "streaming", "exited") /\ ((Stopping /\ UNCHANGED faults) \/ Fault)
  /\ failed' = TRUE
  /\ UNCHANGED <<service, disk, pc, listing, state, verified, pending, since_save, cancelled, chunk>>

\* The progress callback throws once a cancellation was asked for, by this call
\* or by an earlier one: then the chunk is not marked.
Cancels(w) ==
  /\ WorkerMoves(w, "received", "exited")
  /\ \/ cancelled /\ UNCHANGED <<cancelled, faults>>
     \/ ~cancelled /\ cancelled' = TRUE /\ Fault
  /\ failed' = TRUE
  /\ UNCHANGED <<service, disk, pc, listing, state, verified, pending, since_save, chunk>>

Mark(w) ==
  LET s == MarkChunkComplete(state, chunk[w], data[chunk[w]])
      save == since_save + 1 >= SaveInterval /\ ~IsComplete(s)
  IN  /\ WorkerMoves(w, "received", IF save THEN "saving" ELSE "ready")
      /\ ~cancelled
      /\ state' = s
      /\ since_save' = IF save THEN 0 ELSE since_save + 1
      /\ UNCHANGED <<service, disk, pc, listing, verified, pending, cancelled, failed, chunk, faults>>

\* The mutex was given up since; a save that fails is left to the next one.
Checkpoint(w) ==
  /\ WorkerMoves(w, "saving", "ready")
  /\ state' = Advanced(state)
  /\ \/ Saves(state) /\ UNCHANGED faults
     \/ UNCHANGED <<sidecar, marked>> /\ Fault
  /\ UNCHANGED <<service, data, receipt, pc, listing, verified, pending, since_save, cancelled, failed, chunk>>

-----------------------------------------------------------------------------
(* The end of the attempt.                                                 *)

Joined == pc = "transfer" /\ \A w \in Workers : worker[w] = "exited"

GivesUp ==
  /\ Joined /\ (Stopping \/ ~IsComplete(state))
  /\ Saves(state)
  /\ Ends("idle")
  /\ UNCHANGED <<service, data, receipt, faults>>

AllFetched ==
  /\ Joined /\ ~Stopping /\ IsComplete(state)
  /\ pc' = "committing"
  /\ UNCHANGED <<service, disk, listing, state, verified, pending, since_save, cancelled, failed, pool, faults>>

\* CommitVerifiedState saves the bitmap once more ...
CommitSave ==
  /\ Moves("committing", "renaming")
  /\ Saves(state) /\ state' = Advanced(state)
  /\ UNCHANGED <<service, data, receipt, listing, verified, pending, since_save, cancelled, failed, pool, faults>>

\* ... and makes it the receipt.
CommitRename ==
  /\ Moves("renaming", "written")
  /\ receipt' = sidecar /\ sidecar' = None /\ marked' = {}
  /\ UNCHANGED <<service, data, listing, state, verified, pending, since_save, cancelled, failed, pool, faults>>

\* A published MD5 is checked once more.
FinalCheck ==
  /\ pc = "written"
  /\ IF published => Whole(listing)
       THEN pc' = "finished" /\ UNCHANGED <<listing, state, verified, pending, since_save, cancelled, failed, pool>>
       ELSE Ends("idle")
  /\ UNCHANGED <<service, disk, faults>>

-----------------------------------------------------------------------------
(* What may go wrong, MaxFaults times.                                     *)

\* A request, a write, a rename or a close fails, or the callback cancels.
Fails ==
  /\ pc \in {"listed", "needed", "resumed", "saved", "committing", "renaming", "written"} \/ Joined
  /\ Fault /\ Ends("idle")
  /\ UNCHANGED <<service, disk>>

Crash ==
  /\ pc \notin {"idle", "finished"}
  /\ Fault /\ Ends("idle")
  /\ UNCHANGED <<service, disk>>

\* Nothing is flushed: any data and either file may be lost with the machine.
PowerLoss ==
  /\ data # None
  /\ \E lost \in {L \in SUBSET Chunks : Cardinality(L) <= MaxLost} :
       data' = [c \in Chunks |-> IF c \in lost THEN "hole" ELSE data[c]]
  /\ \/ UNCHANGED <<sidecar, marked>>
     \/ sidecar' = None /\ marked' = {}
  /\ receipt' \in {receipt, None}
  /\ Fault /\ Ends("idle")
  /\ UNCHANGED service

\* Somebody else removes the data file and leaves what describes it.
RemoveData ==
  /\ pc = "idle" /\ data # None
  /\ data' = None
  /\ Fault
  /\ UNCHANGED <<service, sidecar, receipt, marked, attempt, pool>>

Replace ==
  /\ remote' \in unused /\ unused' = unused \ {remote'}
  /\ Fault
  /\ UNCHANGED <<published, disk, attempt, pool>>

\* The model is downloaded again, as another of its blobs has failed.
Again ==
  /\ pc = "finished"
  /\ Fault /\ Ends("idle")
  /\ UNCHANGED <<service, disk>>

-----------------------------------------------------------------------------
Attempt ==
  \/ ListBlobs \/ IsDownloadNeeded \/ Resume \/ Changed \/ SaveFirst \/ OpenFile
  \/ GivesUp \/ AllFetched \/ CommitSave \/ CommitRename \/ FinalCheck

Work(w) ==
  \/ Claim(w) \/ NoMore(w) \/ FetchRest(w) \/ FetchFails(w) \/ Cancels(w) \/ Mark(w)
  \/ Checkpoint(w)

Progress == Attempt \/ \E w \in Workers : Work(w)

Next == Progress \/ Fails \/ Crash \/ PowerLoss \/ RemoveData \/ Replace \/ Again

\* The download is tried again until it has succeeded, and some thread of it runs.
Fairness == WF_vars(Progress)

Spec == Init /\ [][Next]_vars
FairSpec == Spec /\ Fairness

-----------------------------------------------------------------------------
(***************************************************************************)
(* An attempt that succeeds leaves the listed version on the disk, whole,  *)
(* whatever earlier attempts, crashes and other versions have left there.  *)
(***************************************************************************)
FinishedIsWhole == pc = "finished" => Whole(listing)

(***************************************************************************)
(* A saved bitmap is read back as it was: rounding its start to a byte and *)
(* leaving out the prefix and the tail neither marks a chunk that was not  *)
(* complete nor forgets one, and no save is refused as inconsistent.       *)
(***************************************************************************)
ReadsBack ==
  /\ sidecar # None => LoadState(sidecar) # None /\ Complete(LoadState(sidecar)) = marked
  /\ receipt # None => LoadState(receipt) # None /\ Complete(LoadState(receipt)) = Chunks

(***************************************************************************)
(* When things stop going wrong the download succeeds: nothing that is     *)
(* found on the disk makes every later attempt fail.                       *)
(***************************************************************************)
Finishes == <>[](pc = "finished")
=============================================================================
