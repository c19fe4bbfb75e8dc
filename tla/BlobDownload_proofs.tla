------------------------- MODULE BlobDownload_proofs -------------------------
EXTENDS BlobDownload, WellFoundedInduction, FiniteSetTheorems, TLAPS

\* The types, except for what Records says of the states.
Types ==
  /\ remote \in Versions /\ unused \subseteq Versions /\ published \in BOOLEAN
  /\ data = None \/ data \in [Chunks -> Contents]
  /\ pc \in {"idle", "listed", "needed", "resumed", "saved", "transfer",
             "committing", "renaming", "written", "finished"}
  /\ listing \in Versions \cup {None}
  /\ pending \subseteq Chunks
  /\ worker \in [Workers -> {"ready", "streaming", "received", "saving", "exited"}]
  /\ chunk \in [Workers -> Chunks \cup {None}]
  /\ since_save \in 0 .. SaveInterval
  /\ cancelled \in BOOLEAN /\ failed \in BOOLEAN
  /\ marked \subseteq Chunks
  /\ faults \in 0 .. MaxFaults

\* A state in memory: the bits below its start are set, and its counters are right.
Sound(s) ==
  /\ s \in States /\ s.start % ByteBits = 0
  /\ 0 .. s.start - 1 \subseteq s.bits
  /\ s.count = Cardinality(Complete(s)) /\ s.highest = Highest(Complete(s))

\* A state on the disk, where those bits may be missing: LoadState takes it.
Readable(f) == f \in States /\ Consistent(f)

\* A complete chunk has the MD5 of the version that the state is of.
Hashed(s) == \A c \in Complete(s) : s.md5[c] = s.etag

Records ==
  /\ \A s \in {state, verified} \ {None} : Sound(s) /\ Hashed(s)
  /\ \A f \in {sidecar, receipt} \ {None} : Readable(f) /\ Hashed(f)

\* What is on the disk says what was complete when it was saved.
Truthful ==
  /\ sidecar # None => marked = Complete(sidecar)
  /\ receipt # None => Complete(receipt) = Chunks

\* A complete chunk of the attempt's state is on the disk.
OnDisk(s) == s.etag = listing /\ \A c \in Complete(s) : data # None /\ data[c] = listing
Fetched ==
  /\ state # None => OnDisk(state)
  /\ pc = "needed" /\ verified # None => OnDisk(verified)

\* What the attempt has at each of its steps.
Steps ==
  /\ state # None => pc \notin {"idle", "listed", "needed"}
  /\ pc \in {"resumed", "saved", "transfer", "committing", "renaming", "written"} => state # None
  /\ pc # "idle" => listing \in Versions
  /\ verified # None => pc \notin {"idle", "listed"}
  /\ pc \in {"committing", "renaming", "written"} => IsComplete(state)
  /\ pc = "renaming" => sidecar # None /\ marked = Chunks
  /\ pc \in {"saved", "transfer"} \/ pending = {}
  /\ pc = "transfer" => data # None
  /\ pc # "transfer" => \A w \in Workers : worker[w] = "exited"

\* A chunk has one worker, from its claim until it is marked.
Busy(w) == worker[w] \in {"streaming", "received"}
Claimed ==
  /\ state # None => pending \cap Complete(state) = {}
  /\ \A w \in Workers : Busy(w) => chunk[w] \in Chunks \ (pending \cup Complete(state))
  /\ \A w, v \in Workers : Busy(w) /\ Busy(v) /\ chunk[w] = chunk[v] => w = v
  /\ \A w \in Workers : worker[w] = "received" => data[chunk[w]] = listing

\* A save is due before SaveInterval chunks were marked since the last one.
Counted == since_save < SaveInterval \/ (state # None /\ IsComplete(state))

IInv ==
  /\ Types /\ Records /\ Truthful /\ Fetched /\ Steps /\ Claimed /\ Counted
  /\ FinishedIsWhole

-----------------------------------------------------------------------------
(* Arithmetic, and the minimum and the maximum of a set.                    *)

\* Rounding down to a multiple loses less than one unit.
LEMMA DivFacts ==
  ASSUME NEW i \in Nat, NEW k \in Nat \ {0}
  PROVE  i \div k \in Nat /\ (i \div k) * k <= i /\ i < (i \div k) * k + k
OBVIOUS

LEMMA ModOfProduct ==
  ASSUME NEW q \in Nat, NEW k \in Nat \ {0}
  PROVE  (q * k) % k = 0
OBVIOUS

LEMMA RoundFacts ==
  ASSUME NEW i \in Nat, NEW k \in Nat \ {0}
  PROVE  /\ RoundDown(i, k) \in Nat /\ RoundDown(i, k) <= i /\ i < RoundDown(i, k) + k
         /\ RoundDown(i, k) % k = 0
BY DivFacts, ModOfProduct DEF RoundDown

\* The number of bytes that are written covers the highest chunk.
LEMMA EnoughBytes ==
  ASSUME NEW x \in Nat, NEW k \in Nat \ {0}
  PROVE  (x + k) \div k \in Nat /\ x < ((x + k) \div k) * k
<1>1. x + k \in Nat
  OBVIOUS
<1>2. x + k < ((x + k) \div k) * k + k
  BY <1>1, DivFacts
<1>3. ((x + k) \div k) * k \in Nat
  BY <1>1, DivFacts
<1> QED BY <1>1, <1>2, <1>3, DivFacts

\* Nat is well-founded: a relation with every pair of a smaller and a larger number
\* has a minimal element in every set of numbers, which is the least one.
LEMMA LeastIn ==
  ASSUME NEW R, IsWellFoundedOn(R, Nat), \A x, y \in Nat : y < x => <<y, x>> \in R,
         NEW S \in SUBSET Nat, S # {}
  PROVE  \E x \in S : \A y \in S : x <= y
<1>1. PICK x \in S : \A y \in S : ~(<<y, x>> \in R)
  BY WFMin
<1>2. \A y \in S : ~(y < x)
  <2> SUFFICES ASSUME NEW y \in S, y < x
               PROVE  FALSE
    OBVIOUS
  <2>1. x \in Nat /\ y \in Nat
    OBVIOUS
  <2>2. <<y, x>> \in R
    BY <2>1, Zenon
  <2> QED BY <1>1, <2>2, Zenon
<1>3. \A y \in S : x \in Nat /\ y \in Nat
  OBVIOUS
<1> QED BY <1>2, <1>3

LEMMA HasLeast ==
  \A S \in SUBSET Nat : S # {} => \E x \in S : \A y \in S : x <= y
<1> DEFINE R == OpToRel(<, Nat)
<1>1. \A x, y \in Nat : y < x => <<y, x>> \in R
  BY Zenon DEF OpToRel
<1>2. IsWellFoundedOn(R, Nat)
  BY NatLessThanWellFounded
<1> HIDE DEF R
<1> QED BY <1>1, <1>2, LeastIn

LEMMA MinFacts ==
  ASSUME NEW S \in SUBSET Nat, S # {}
  PROVE  Min(S) \in S /\ \A y \in S : Min(S) <= y
<1>1. PICK x \in S : \A y \in S : x <= y
  BY HasLeast
<1> QED BY <1>1 DEF Min

-----------------------------------------------------------------------------
(* Sets of chunks.                                                          *)

LEMMA ChunkFacts ==
  /\ N \in Nat /\ N > 0 /\ 0 \in Chunks
  /\ IsFiniteSet(Chunks) /\ Cardinality(Chunks) = N
<1>1. IsFiniteSet(0 .. N - 1) /\ Cardinality(0 .. N - 1) = N
  BY SizeAssumption, FS_Interval
<1> QED BY <1>1, SizeAssumption DEF Chunks

LEMMA CountFacts ==
  ASSUME NEW C \in SUBSET Chunks
  PROVE  /\ IsFiniteSet(C) /\ Cardinality(C) \in 0 .. N
         /\ Cardinality(C) = N => C = Chunks
<1>1. IsFiniteSet(C) /\ Cardinality(C) <= N /\ (Cardinality(C) = N => C = Chunks)
  BY ChunkFacts, FS_Subset
<1> QED BY <1>1, FS_CardinalityType, ChunkFacts

\* The highest chunk is in the set, unless there is none, and none is above it;
\* nothing else has that property.
LEMMA HighestFacts ==
  ASSUME NEW C \in SUBSET Chunks
  PROVE  /\ Highest(C) \in -1 .. N - 1
         /\ Highest(C) \in C \cup {-1} /\ \A c \in C : c <= Highest(C)
         /\ \A h \in C \cup {-1} : (\A c \in C : c <= h) => h = Highest(C)
<1> DEFINE S == C \cup {-1}
           T == {N - x : x \in S}
<1>0. N \in Nat /\ \A x \in S : x \in Int /\ x <= N - 1 /\ x >= -1
  BY SizeAssumption DEF Chunks
<1>1. T \in SUBSET Nat
  BY <1>0
<1>2. N - (-1) \in T
  OBVIOUS
<1>3. PICK t \in T : \A y \in T : t <= y
  BY <1>1, <1>2, HasLeast, Zenon
<1>4. PICK x \in S : t = N - x
  OBVIOUS
<1>5. \A y \in S : N - x <= N - y
  BY <1>3, <1>4
<1>6. \A y \in S : x >= y
  BY <1>5, <1>0
<1>7. Max(S) \in S /\ \A y \in S : Max(S) >= y
  BY <1>6 DEF Max
<1>8. \A c \in C : c \in S
  OBVIOUS
<1>9. Highest(C) \in S /\ \A y \in S : y <= Highest(C)
  BY <1>7, <1>0 DEF Highest
<1> HIDE DEF S, T
<1>10. -1 \in S /\ S = C \cup {-1}
  BY DEF S
<1>11. ASSUME NEW h \in S, \A c \in C : c <= h
       PROVE  h = Highest(C)
  <2>1. \A y \in S : y <= h
    BY <1>11, <1>0, <1>10
  <2> QED BY <2>1, <1>9, <1>0
<1> QED BY <1>0, <1>8, <1>9, <1>10, <1>11

-----------------------------------------------------------------------------
(* What the operations of BlobDownloadState do to a state in memory.        *)

LEMMA Bits ==
  ASSUME NEW s \in States, 0 .. s.start - 1 \subseteq s.bits
  PROVE  Complete(s) = s.bits /\ GetPendingChunks(s) = Chunks \ s.bits
<1>1. s.start \in 0 .. N /\ s.bits \subseteq Chunks /\ \A c \in Chunks : c \in Nat
  BY DEF States, Chunks
<1>2. \A c \in Chunks : c < s.start => c \in s.bits
  BY <1>1 DEF Chunks
<1>3. \A c \in Chunks : c >= s.start \/ c < s.start
  BY <1>1 DEF Chunks
<1>4. Complete(s) = s.bits
  BY <1>1, <1>2 DEF Complete, IsChunkComplete
<1>5. GetPendingChunks(s) = Chunks \ s.bits
  BY <1>1, <1>2, <1>3 DEF GetPendingChunks, IsChunkComplete
<1> QED BY <1>4, <1>5

LEMMA CompleteIsAll ==
  ASSUME NEW s, s.count = Cardinality(Complete(s))
  PROVE  IsComplete(s) <=> Complete(s) = Chunks
<1>1. Complete(s) \in SUBSET Chunks
  BY DEF Complete
<1> QED BY <1>1, CountFacts, ChunkFacts DEF IsComplete

LEMMA NewSound ==
  ASSUME NEW v \in Versions
  PROVE  /\ Sound(CreateNew(v)) /\ CreateNew(v).etag = v
         /\ Complete(CreateNew(v)) = {}
<1> DEFINE s == CreateNew(v)
<1>1. s \in States /\ s.start = 0 /\ s.count = 0 /\ s.highest = -1 /\ s.bits = {} /\ s.etag = v
  BY ChunkFacts DEF CreateNew, States
<1> HIDE DEF s
<1>2. 0 .. s.start - 1 = {}
  BY <1>1
<1>3. Complete(s) = {}
  BY <1>1, <1>2, Bits
<1>4. Highest({}) = -1
  BY HighestFacts
<1>5. s.start % ByteBits = 0
  BY <1>1, BitsAssumption
<1> QED BY <1>1, <1>2, <1>3, <1>4, <1>5, FS_EmptySet DEF Sound, s

LEMMA MarkSound ==
  ASSUME NEW s, Sound(s), NEW c \in Chunks \ Complete(s), NEW v \in Versions
  PROVE  LET t == MarkChunkComplete(s, c, v)
         IN  /\ Sound(t) /\ t.etag = s.etag /\ Complete(t) = Complete(s) \cup {c}
             /\ t.md5 = [s.md5 EXCEPT ![c] = v]
<1> DEFINE t == MarkChunkComplete(s, c, v)
<1>0. s \in States /\ Complete(s) = s.bits /\ s.start \in 0 .. N /\ s.bits \subseteq Chunks
  BY Bits DEF Sound, States
<1>1. t = [s EXCEPT !.bits = s.bits \cup {c}, !.count = s.count + 1, !.highest = Max({s.highest, c}),
                    !.md5[c] = v]
  BY DEF MarkChunkComplete, Complete
<1>2. c \notin s.bits /\ IsFiniteSet(s.bits) /\ Cardinality(s.bits \cup {c}) = s.count + 1
  BY <1>0, CountFacts, FS_AddElement DEF Sound
<1>3. s.bits \cup {c} \in SUBSET Chunks
  BY <1>0
<1>4. s.count + 1 \in 0 .. N
  BY <1>2, <1>3, CountFacts
<1>5. Max({s.highest, c}) = Highest(s.bits \cup {c})
  <2>1. s.highest = Highest(s.bits) /\ s.highest \in -1 .. N - 1 /\ c \in Nat /\ s.highest \in s.bits \cup {-1}
    BY <1>0, HighestFacts DEF Sound, Chunks
  <2>2. Max({s.highest, c}) = IF s.highest >= c THEN s.highest ELSE c
    <3>1. CASE s.highest >= c
      BY <2>1, <3>1 DEF Max
    <3>2. CASE ~(s.highest >= c)
      BY <2>1, <3>2 DEF Max
    <3> QED BY <3>1, <3>2
  <2> DEFINE h == IF s.highest >= c THEN s.highest ELSE c
  <2>3. \A x \in s.bits : x <= s.highest /\ x \in Nat
    BY <2>1, <1>0, HighestFacts DEF Chunks
  <2>4. h \in s.bits \cup {c} \cup {-1} /\ \A x \in s.bits \cup {c} : x <= h
    BY <2>1, <2>3
  <2> QED BY <2>2, <2>4, <1>3, HighestFacts
<1>6. Highest(s.bits \cup {c}) \in -1 .. N - 1
  BY <1>3, HighestFacts
<1>7. t \in States /\ t.bits = s.bits \cup {c} /\ t.count = s.count + 1 /\ t.start = s.start
      /\ t.highest = Highest(s.bits \cup {c}) /\ t.etag = s.etag /\ t.md5 = [s.md5 EXCEPT ![c] = v]
  <2> DEFINE md5 == [s.md5 EXCEPT ![c] = v]
             bits == s.bits \cup {c}
             top == Highest(s.bits \cup {c})
             more == s.count + 1
  <2>1. md5 \in [Chunks -> Versions \cup {None}]
    BY <1>0 DEF States
  <2>2. t = [s EXCEPT !.bits = bits, !.count = more, !.highest = top, !.md5 = md5]
    BY <1>1, <1>5, <1>0 DEF States
  <2> HIDE DEF t
  <2>3. bits \in SUBSET Chunks /\ top \in -1 .. N - 1 /\ more \in 0 .. N
    BY <1>3, <1>4, <1>6
  <2> HIDE DEF md5, bits, top, more
  <2>4. t \in States /\ t.bits = bits /\ t.count = more /\ t.start = s.start
        /\ t.highest = top /\ t.etag = s.etag /\ t.md5 = md5
    BY <1>0, <2>1, <2>2, <2>3 DEF States
  <2> QED BY <2>4 DEF md5, bits, top, more
<1> HIDE DEF t
<1>8. 0 .. t.start - 1 \subseteq t.bits
  BY <1>7 DEF Sound
<1>9. Complete(t) = s.bits \cup {c}
  BY <1>7, <1>8, Bits
<1> QED BY <1>0, <1>2, <1>7, <1>8, <1>9 DEF Sound, t

LEMMA UnmarkSound ==
  ASSUME NEW s, Sound(s), NEW C \in SUBSET Complete(s)
  PROVE  LET t == MarkChunksIncomplete(s, C)
         IN  /\ Sound(t) /\ t.etag = s.etag /\ t.md5 = s.md5
             /\ Complete(t) = Complete(s) \ C
<1> DEFINE t == MarkChunksIncomplete(s, C)
           R == {s.start} \cup {RoundDown(c, ByteBits) : c \in C}
<1>0. s \in States /\ Complete(s) = s.bits /\ s.start \in 0 .. N /\ s.bits \subseteq Chunks
  BY Bits DEF Sound, States
<1>1. ByteBits \in Nat \ {0} /\ N \in Nat
  BY BitsAssumption, SizeAssumption
<1>2. \A c \in C : c \in Nat /\ RoundDown(c, ByteBits) \in Nat /\ RoundDown(c, ByteBits) <= c
                   /\ RoundDown(c, ByteBits) % ByteBits = 0
  <2> SUFFICES ASSUME NEW c \in C
               PROVE  c \in Nat /\ RoundDown(c, ByteBits) \in Nat /\ RoundDown(c, ByteBits) <= c
                      /\ RoundDown(c, ByteBits) % ByteBits = 0
    OBVIOUS
  <2>1. c \in Nat
    BY <1>0, <1>1 DEF Chunks
  <2> QED BY <2>1, <1>1, RoundFacts
<1>3. R \in SUBSET Nat /\ R # {} /\ \A r \in R : r % ByteBits = 0
  BY <1>0, <1>2 DEF Sound
<1>4. Min(R) \in R /\ \A r \in R : Min(R) <= r
  BY <1>3, MinFacts
<1>5. Min(R) \in 0 .. s.start /\ Min(R) % ByteBits = 0 /\ \A c \in C : Min(R) <= c
  <2>1. Min(R) <= s.start /\ Min(R) \in Nat /\ Min(R) % ByteBits = 0
    BY <1>0, <1>3, <1>4
  <2>2. ASSUME NEW c \in C
        PROVE  Min(R) <= c
    <3>1. PICK r \in R : r = RoundDown(c, ByteBits)
      OBVIOUS
    <3>2. r \in Nat /\ c \in Nat /\ r <= c
      BY <1>2, <3>1
    <3>3. Min(R) <= r
      BY <1>4
    <3> HIDE DEF R
    <3> QED BY <3>2, <3>3, <2>1
  <2> QED BY <2>1, <2>2, <1>0
<1>6. /\ Cardinality(s.bits \ C) = s.count - Cardinality(C) /\ s.bits \ C \in SUBSET Chunks
      /\ s.count - Cardinality(C) \in 0 .. N
  <2>1. IsFiniteSet(s.bits) /\ C \cap s.bits = C /\ s.bits \cap C = C
    BY <1>0, CountFacts
  <2>2. Cardinality(s.bits \ C) = Cardinality(s.bits) - Cardinality(s.bits \cap C)
    BY <2>1, FS_Difference
  <2> QED BY <2>1, <2>2, <1>0, CountFacts DEF Sound
<1>7. Highest(s.bits \ C) \in -1 .. N - 1
  BY <1>6, HighestFacts
<1>8. t = [s EXCEPT !.bits = s.bits \ C, !.count = s.count - Cardinality(C), !.highest = Highest(s.bits \ C),
                    !.start = Min(R)]
  BY <1>0 DEF MarkChunksIncomplete
<1> HIDE DEF R
<1>9. Min(R) \in 0 .. N
  BY <1>5, <1>0, <1>1
<1>10. /\ t \in States /\ t.bits = s.bits \ C /\ t.count = s.count - Cardinality(C) /\ t.start = Min(R)
       /\ t.highest = Highest(s.bits \ C) /\ t.etag = s.etag /\ t.md5 = s.md5
  BY <1>0, <1>6, <1>7, <1>8, <1>9 DEF States
<1> HIDE DEF t
<1>11. 0 .. t.start - 1 \subseteq t.bits
  <2> SUFFICES ASSUME NEW i \in 0 .. t.start - 1
               PROVE  i \in s.bits \ C
    BY <1>10
  <2>1. i \in 0 .. s.start - 1
    BY <1>5, <1>10, <1>0
  <2>2. i \notin C
    BY <1>5, <1>10
  <2> QED BY <2>1, <2>2 DEF Sound
<1>12. Complete(t) = s.bits \ C
  BY <1>10, <1>11, Bits
<1> QED BY <1>0, <1>5, <1>6, <1>10, <1>11, <1>12 DEF Sound, t

\* The start that is saved is at a byte, and all chunks below it are complete.
LEMMA StartFacts ==
  ASSUME NEW s, Sound(s)
  PROVE  /\ NewStart(s) \in 0 .. N /\ NewStart(s) % ByteBits = 0
         /\ 0 .. NewStart(s) - 1 \subseteq s.bits
<1> DEFINE from == RoundDown(s.start, WordBits)
           Open == {i \in from .. Words * WordBits : i \notin s.bits} \cup {N}
<1>0. s \in States /\ s.start \in Nat /\ s.bits \subseteq Chunks /\ 0 .. s.start - 1 \subseteq s.bits /\ N \in Nat
  BY SizeAssumption DEF Sound, States
<1>1. from \in Nat /\ from <= s.start
  BY <1>0, RoundFacts, BitsAssumption
<1>2. Words * WordBits \in Nat /\ N <= Words * WordBits
  <2>1. N + WordBits - 1 \in Nat /\ WordBits \in Nat \ {0}
    BY SizeAssumption, BitsAssumption
  <2>2. Words \in Nat /\ N + WordBits - 1 < Words * WordBits + WordBits
    BY <2>1, DivFacts DEF Words
  <2>3. Words * WordBits \in Nat
    BY <2>1, <2>2
  <2> QED BY <2>1, <2>2, <2>3, <1>0
<1> HIDE DEF from
<1>3. Open \in SUBSET Nat /\ N \in Open
  BY <1>0, <1>1, <1>2
<1>4. FirstOpen(s) \in Nat /\ FirstOpen(s) <= N /\ \A i \in Open : FirstOpen(s) <= i
  <2>1. FirstOpen(s) = Min(Open)
    BY DEF FirstOpen, from
  <2> HIDE DEF Open
  <2>2. Min(Open) \in Open /\ \A i \in Open : Min(Open) <= i
    BY <1>3, MinFacts
  <2> QED BY <1>3, <2>1, <2>2
<1>5. ASSUME NEW i \in Nat, i < FirstOpen(s)
      PROVE  i \in s.bits
  <2>1. CASE i < from
    BY <2>1, <1>0, <1>1
  <2>2. CASE ~(i < from)
    <3>1. i \in from .. Words * WordBits
      BY <2>2, <1>0, <1>1, <1>2, <1>4, <1>5
    <3>2. i \notin Open
      BY <1>4, <1>5
    <3> QED BY <3>1, <3>2
  <2> QED BY <2>1, <2>2
<1>6. NewStart(s) \in Nat /\ NewStart(s) <= FirstOpen(s) /\ NewStart(s) % ByteBits = 0
  BY <1>4, RoundFacts, BitsAssumption DEF NewStart
<1>7. \A i \in 0 .. NewStart(s) - 1 : i \in Nat /\ i < FirstOpen(s)
  BY <1>4, <1>6
<1> QED BY <1>0, <1>4, <1>5, <1>6, <1>7

LEMMA AdvancedSound ==
  ASSUME NEW s, Sound(s)
  PROVE  LET t == Advanced(s)
         IN  Sound(t) /\ t.etag = s.etag /\ t.md5 = s.md5 /\ Complete(t) = Complete(s) /\ t.count = s.count
<1> DEFINE t == Advanced(s)
           m == Max({s.start, NewStart(s)})
<1>0. s \in States /\ s.start \in 0 .. N /\ NewStart(s) \in 0 .. N /\ N \in Nat
  BY StartFacts, SizeAssumption DEF Sound, States
<1>1. m = s.start \/ m = NewStart(s)
  <2>1. \E x \in {s.start, NewStart(s)} : \A y \in {s.start, NewStart(s)} : x >= y
    <3>1. CASE s.start >= NewStart(s)
      BY <3>1, <1>0
    <3>2. CASE ~(s.start >= NewStart(s))
      BY <3>2, <1>0
    <3> QED BY <3>1, <3>2
  <2> QED BY <2>1 DEF Max
<1>2. m \in 0 .. N /\ m % ByteBits = 0 /\ 0 .. m - 1 \subseteq s.bits
  BY <1>0, <1>1, StartFacts DEF Sound
<1>3. t = [s EXCEPT !.start = m]
  BY DEF Advanced
<1> HIDE DEF m
<1>4. /\ t \in States /\ t.start = m /\ t.bits = s.bits /\ t.count = s.count /\ t.highest = s.highest
      /\ t.etag = s.etag /\ t.md5 = s.md5
  BY <1>0, <1>2, <1>3 DEF States
<1> HIDE DEF t
<1>5. Complete(t) = s.bits /\ Complete(s) = s.bits
  BY <1>2, <1>4, Bits DEF Sound
<1> QED BY <1>2, <1>4, <1>5 DEF Sound, t

\* The part of the bitmap that is written says the same.
LEMMA SavedReadable ==
  ASSUME NEW s, Sound(s)
  PROVE  LET f == SaveState(s)
         IN  /\ f \in States /\ Consistent(f) /\ f.etag = s.etag /\ f.md5 = s.md5
             /\ f.start % ByteBits = 0 /\ Complete(f) = Complete(s)
<1> DEFINE f == SaveState(s)
           bytes == (s.highest - s.start + ByteBits) \div ByteBits
           length == IF s.highest >= s.start THEN bytes ELSE 0
           kept == s.bits \cap (s.start .. s.start + length * ByteBits - 1)
<1>0. /\ s \in States /\ Complete(s) = s.bits /\ s.start \in 0 .. N /\ s.bits \subseteq Chunks
      /\ s.highest \in -1 .. N - 1 /\ N \in Nat /\ ByteBits \in Nat \ {0}
  BY Bits, BitsAssumption, SizeAssumption DEF Sound, States
<1>1. f = [s EXCEPT !.bits = kept]
  BY DEF SaveState
<1>2. /\ f \in States /\ f.bits = kept /\ f.start = s.start /\ f.count = s.count
      /\ f.highest = s.highest /\ f.etag = s.etag /\ f.md5 = s.md5
  BY <1>0, <1>1 DEF States
<1>3. ASSUME NEW c \in s.bits, ~(c < s.start)
      PROVE  c \in kept
  <2>1. c \in Nat /\ c >= s.start /\ c <= s.highest /\ s.highest >= s.start
    <3>1. c \in Nat /\ c >= s.start
      BY <1>0, <1>3 DEF Chunks
    <3>2. c <= s.highest
      BY <1>0, HighestFacts DEF Sound
    <3> QED BY <1>0, <3>1, <3>2
  <2> DEFINE x == s.highest - s.start
  <2>2. x \in Nat /\ bytes = (x + ByteBits) \div ByteBits /\ length = bytes
    BY <1>0, <2>1
  <2> HIDE DEF x
  <2>3. bytes \in Nat /\ x < bytes * ByteBits
    BY <1>0, <2>2, EnoughBytes
  <2> HIDE DEF bytes
  <2>4. bytes * ByteBits \in Nat
    BY <1>0, <2>3
  <2> DEFINE b == bytes * ByteBits
  <2>5. length * ByteBits = b /\ b \in Nat /\ s.highest - s.start < b
    BY <2>2, <2>3, <2>4 DEF x
  <2> HIDE DEF b, length
  <2>6. c \in s.start .. s.start + b - 1
    BY <1>0, <2>1, <2>5
  <2> QED BY <2>5, <2>6
<1>4. Complete(f) = s.bits
  <2>1. \A c \in Chunks : c < s.start => c \in s.bits
    BY <1>0 DEF Sound, Chunks
  <2> HIDE DEF f
  <2>2. kept \subseteq s.bits
    OBVIOUS
  <2> HIDE DEF kept
  <2> QED BY <1>0, <1>2, <1>3, <2>1, <2>2 DEF Complete, IsChunkComplete
<1> HIDE DEF f
<1> QED BY <1>0, <1>2, <1>4 DEF Sound, Consistent, f

\* What is consistent is read back, with the same chunks complete.
LEMMA LoadSound ==
  ASSUME NEW f \in States, Consistent(f)
  PROVE  LET t == LoadState(f)
         IN  /\ t # None /\ Sound(t) /\ t.etag = f.etag /\ t.md5 = f.md5
             /\ Complete(t) = Complete(f)
<1> DEFINE t == LoadState(f)
<1>0. /\ f.start \in 0 .. N /\ f.bits \subseteq Chunks /\ N \in Nat /\ f.start % ByteBits = 0
      /\ f.count = Cardinality(Complete(f)) /\ f.highest = Highest(Complete(f))
  BY SizeAssumption DEF States, Consistent
<1>1. t = [f EXCEPT !.bits = f.bits \cup (0 .. f.start - 1)]
  BY NoneAssumption DEF LoadState
<1>2. 0 .. f.start - 1 \subseteq Chunks
  BY <1>0 DEF Chunks
<1>3. /\ t \in States /\ t.bits = f.bits \cup (0 .. f.start - 1) /\ t.start = f.start
      /\ t.count = f.count /\ t.highest = f.highest /\ t.etag = f.etag /\ t.md5 = f.md5
  BY <1>0, <1>1, <1>2 DEF States
<1> HIDE DEF t
<1>4. Complete(t) = f.bits \cup (0 .. f.start - 1)
  BY <1>3, Bits
<1>5. \A c \in Chunks : c < f.start <=> c \in 0 .. f.start - 1
  BY <1>0 DEF Chunks
<1>6. Complete(f) = f.bits \cup (0 .. f.start - 1)
  BY <1>0, <1>2, <1>5 DEF Complete, IsChunkComplete
<1>7. t # None
  BY <1>3, NoneAssumption
<1> QED BY <1>0, <1>3, <1>4, <1>6, <1>7 DEF Sound, t

-----------------------------------------------------------------------------
(* What the steps of an attempt do to its states and to the disk.           *)

LEMMA Advancing ==
  ASSUME NEW s, Sound(s), Hashed(s)
  PROVE  LET t == Advanced(s)
         IN  /\ Sound(t) /\ Hashed(t) /\ t # None /\ t.etag = s.etag
             /\ Complete(t) = Complete(s) /\ IsComplete(t) = IsComplete(s)
BY AdvancedSound, NoneAssumption DEF Hashed, IsComplete, Sound

LEMMA Saving ==
  ASSUME NEW s, Sound(s), Hashed(s)
  PROVE  LET f == SaveState(Advanced(s))
         IN  f # None /\ Readable(f) /\ Hashed(f) /\ Complete(f) = Complete(s)
<1>1. Sound(Advanced(s)) /\ Hashed(Advanced(s)) /\ Complete(Advanced(s)) = Complete(s)
  BY Advancing
<1> QED BY <1>1, SavedReadable, NoneAssumption DEF Hashed, Readable

LEMMA Loading ==
  ASSUME NEW f, f = None \/ (Readable(f) /\ Hashed(f)), LoadState(f) # None
  PROVE  Sound(LoadState(f)) /\ Hashed(LoadState(f)) /\ Complete(LoadState(f)) = Complete(f)
<1>1. f # None
  BY DEF LoadState
<1> QED BY <1>1, LoadSound DEF Hashed, Readable

\* The chunks that are left are the ones that are what their MD5 says.
LEMMA Validated ==
  ASSUME NEW s, Sound(s), Hashed(s)
  PROVE  LET t == ValidateCompletedChunks(s)
         IN  /\ Sound(t) /\ Hashed(t) /\ t.etag = s.etag
             /\ Complete(t) = {c \in Complete(s) : data[c] = s.etag}
<1> DEFINE C == {c \in Complete(s) : data[c] # s.md5[c]}
           t == MarkChunksIncomplete(s, C)
<1>1. Sound(t) /\ t.etag = s.etag /\ t.md5 = s.md5 /\ Complete(t) = Complete(s) \ C
  BY UnmarkSound
<1> HIDE DEF t
<1>2. Complete(s) \ C = {c \in Complete(s) : data[c] = s.etag}
  BY DEF Hashed
<1>3. Hashed(t)
  BY <1>1 DEF Hashed
<1> QED BY <1>1, <1>2, <1>3 DEF ValidateCompletedChunks, t

LEMMA ReceiptFacts ==
  ASSUME Records, Receipt # None
  PROVE  Sound(Receipt) /\ Hashed(Receipt)
BY Loading DEF Records, Receipt

\* A resume starts from a state that agrees with the disk.
LEMMA Resumed ==
  ASSUME Types, Records, Fetched, Steps, pc = "needed"
  PROVE  LET t == ResumedFrom(Candidate)
         IN  Sound(t) /\ Hashed(t) /\ t # None /\ OnDisk(t)
<1> DEFINE s == Candidate
           t == ResumedFrom(s)
<1>1. listing \in Versions
  BY DEF Steps
<1>2. CASE ~Usable(s)
  <2>1. t = CreateNew(listing)
    BY <1>2 DEF ResumedFrom
  <2>2. Sound(CreateNew(listing)) /\ CreateNew(listing).etag = listing /\ Complete(CreateNew(listing)) = {}
    BY <1>1, NewSound
  <2> QED BY <2>1, <2>2, NoneAssumption DEF Hashed, OnDisk, Sound
<1>3. CASE Usable(s) /\ verified # None
  <2>1. t = verified /\ s = verified
    BY <1>3 DEF ResumedFrom, Candidate
  <2> QED BY <2>1, <1>3 DEF Records, Fetched
<1>4. CASE Usable(s) /\ verified = None
  <2>1. s # None /\ data # None /\ s.etag = listing
    BY <1>4 DEF Usable
  <2>2. s = LoadState(sidecar) \/ s = Receipt
    BY <1>4 DEF Candidate
  <2>3. Sound(s) /\ Hashed(s)
    BY <2>1, <2>2, ReceiptFacts, Loading DEF Records
  <2>4. t = ValidateCompletedChunks(s)
    BY <1>4 DEF ResumedFrom
  <2> HIDE DEF s, t
  <2>5. /\ Sound(t) /\ Hashed(t) /\ t.etag = listing
        /\ Complete(t) = {c \in Complete(s) : data[c] = listing}
    BY <2>1, <2>3, <2>4, Validated
  <2>6. t # None /\ OnDisk(t)
    BY <2>1, <2>5, NoneAssumption DEF OnDisk, Sound
  <2> QED BY <2>5, <2>6 DEF s, t
<1> QED BY <1>2, <1>3, <1>4

LEMMA EndsTypes ==
  ASSUME NEW step, Ends(step)
  PROVE  /\ pc' = step /\ listing' = None /\ pending' = {}
         /\ worker' \in [Workers -> {"ready", "streaming", "received", "saving", "exited"}]
         /\ chunk' \in [Workers -> Chunks \cup {None}]
         /\ since_save' \in 0 .. SaveInterval
         /\ cancelled' = FALSE /\ failed' = FALSE
BY SizeAssumption DEF Ends

LEMMA FaultType ==
  ASSUME Types, Fault
  PROVE  faults' \in 0 .. MaxFaults
BY FaultAssumption DEF Types, Fault

LEMMA NoMemory ==
  ASSUME NEW step, Ends(step)
  PROVE  pc' = step /\ state' = None /\ verified' = None
BY DEF Ends

\* Where a worker runs, there is a file, a state, and a version that is listed.
LEMMA Running ==
  ASSUME Types, Steps, NEW w \in Workers, worker[w] # "exited"
  PROVE  /\ pc = "transfer" /\ data # None /\ data \in [Chunks -> Contents]
         /\ state # None /\ listing \in Versions
BY DEF Types, Steps

LEMMA FirstPending ==
  ASSUME Types, pending # {}
  PROVE  Min(pending) \in pending
<1>1. pending \in SUBSET Nat
  BY DEF Types, Chunks
<1> QED BY <1>1, MinFacts

\* The chunk that is marked was not complete before.
LEMMA Marking ==
  ASSUME Types, Records, Fetched, Steps, Claimed, NEW w \in Workers, worker[w] = "received"
  PROVE  LET t == MarkChunkComplete(state, chunk[w], data[chunk[w]])
         IN  /\ Sound(t) /\ Hashed(t) /\ t # None /\ t.etag = state.etag
             /\ Complete(t) = Complete(state) \cup {chunk[w]}
             /\ ~IsComplete(state)
<1> DEFINE t == MarkChunkComplete(state, chunk[w], data[chunk[w]])
<1>1. state # None /\ listing \in Versions
  BY Running
<1>2. Sound(state) /\ Hashed(state) /\ state.etag = listing
  BY <1>1 DEF Records, Fetched, OnDisk
<1>3. chunk[w] \in Chunks \ Complete(state) /\ data[chunk[w]] = listing
  BY DEF Claimed, Busy
<1>4. Sound(t) /\ t.etag = state.etag /\ Complete(t) = Complete(state) \cup {chunk[w]}
      /\ t.md5 = [state.md5 EXCEPT ![chunk[w]] = listing]
  BY <1>1, <1>2, <1>3, MarkSound
<1> HIDE DEF t
<1>5. state.md5 \in [Chunks -> Versions \cup {None}]
  BY <1>2 DEF Sound, States
<1>6. Hashed(t)
  BY <1>2, <1>3, <1>4, <1>5 DEF Hashed
<1>7. ~IsComplete(state)
  BY <1>2, <1>3, CompleteIsAll DEF Sound
<1> QED BY <1>4, <1>6, <1>7, NoneAssumption DEF Sound, t

-----------------------------------------------------------------------------
(* The steps.                                                               *)

\* Every state in memory and on the disk is well formed, and says what it knows of the MD5s.
LEMMA RecordsStep ==
  ASSUME Types, Records, Fetched, Steps, Claimed, [Next]_vars
  PROVE  Records'
<1> USE DEF Records, service, disk, attempt, pool, Moves, WorkerMoves, Fault
<1>1. CASE UNCHANGED vars
  BY <1>1 DEF vars
<1>2. ASSUME Attempt
      PROVE  Records'
  <2>1. CASE ListBlobs \/ OpenFile \/ AllFetched
    BY <2>1 DEF ListBlobs, OpenFile, AllFetched, Joined
  <2>2. CASE IsDownloadNeeded
    <3>1. CASE verified' = verified \/ verified' = None
      BY <2>2, <3>1 DEF IsDownloadNeeded
    <3>2. CASE verified' = ValidateCompletedChunks(Receipt) /\ Receipt # None
      BY <2>2, <3>2, ReceiptFacts, Validated DEF IsDownloadNeeded
    <3> QED BY <2>2, <3>1, <3>2 DEF IsDownloadNeeded, ReceiptCounts
  <2>3. CASE Resume
    BY <2>3, Resumed DEF Resume
  <2>4. CASE Changed
    BY <2>4 DEF Changed, Ends
  <2>5. CASE SaveFirst
    <3>1. state # None
      BY <2>5 DEF SaveFirst, Steps
    <3> QED BY <2>5, <3>1, Advancing, Saving DEF SaveFirst, Saves
  <2>6. CASE GivesUp
    <3>1. state # None /\ state' = None /\ verified' = None
      BY <2>6, NoMemory DEF GivesUp, Joined, Steps
    <3> QED BY <2>6, <3>1, Saving DEF GivesUp, Saves
  <2>7. CASE CommitSave
    <3>1. state # None
      BY <2>7 DEF CommitSave, Steps
    <3> QED BY <2>7, <3>1, Advancing, Saving DEF CommitSave, Saves
  <2>8. CASE CommitRename
    BY <2>8 DEF CommitRename
  <2>9. CASE FinalCheck
    BY <2>9 DEF FinalCheck, Ends
  <2> QED BY <1>2, <2>1, <2>2, <2>3, <2>4, <2>5, <2>6, <2>7, <2>8, <2>9 DEF Attempt
<1>3. ASSUME NEW w \in Workers, Work(w)
      PROVE  Records'
  <2>1. CASE NoMore(w) \/ FetchRest(w) \/ FetchFails(w) \/ Cancels(w) \/ Claim(w)
    BY <2>1 DEF NoMore, FetchRest, FetchFails, Cancels, Claim
  <2>2. CASE Mark(w)
    BY <2>2, Marking DEF Mark
  <2>3. CASE Checkpoint(w)
    <3>1. state # None
      BY <2>3, Running DEF Checkpoint
    <3> QED BY <2>3, <3>1, Advancing, Saving DEF Checkpoint, Saves
  <2> QED BY <1>3, <2>1, <2>2, <2>3 DEF Work
<1>4. ASSUME Fails \/ Crash \/ PowerLoss \/ RemoveData \/ Replace \/ Again
      PROVE  Records'
  <2>1. CASE Fails \/ Crash \/ Again
    BY <2>1 DEF Fails, Crash, Again, Ends
  <2>2. CASE PowerLoss
    BY <2>2 DEF PowerLoss, Ends
  <2>3. CASE RemoveData \/ Replace
    BY <2>3 DEF RemoveData, Replace
  <2> QED BY <1>4, <2>1, <2>2, <2>3
<1> QED BY <1>1, <1>2, <1>3, <1>4 DEF Next, Progress

\* The other types.
LEMMA TypeStep ==
  ASSUME Types, Records, Steps, Claimed, Counted, Fetched, [Next]_vars
  PROVE  Types'
<1> USE DEF Types, service, disk, attempt, pool, Moves, WorkerMoves, Fault
<1>1. CASE UNCHANGED vars
  BY <1>1 DEF vars
<1>2. ASSUME Attempt
      PROVE  Types'
  <2>1. CASE ListBlobs
    BY <2>1, FaultAssumption, SizeAssumption DEF ListBlobs
  <2>2. CASE IsDownloadNeeded
    BY <2>2, FaultAssumption, SizeAssumption DEF IsDownloadNeeded
  <2>3. CASE Resume
    BY <2>3, FaultAssumption, SizeAssumption DEF Resume
  <2>4. CASE Changed
    BY <2>4, EndsTypes, FaultAssumption, SizeAssumption DEF Changed
  <2>5. CASE SaveFirst
    BY <2>5, FaultAssumption, SizeAssumption DEF SaveFirst, Saves, Complete,
          GetPendingChunks
  <2>6. CASE OpenFile
    BY <2>6 DEF OpenFile, Contents
  <2>7. CASE GivesUp
    BY <2>7, EndsTypes, FaultAssumption, SizeAssumption DEF GivesUp, Joined, Saves,
          Complete
  <2>8. CASE AllFetched
    BY <2>8, FaultAssumption, SizeAssumption DEF AllFetched, Joined
  <2>9. CASE CommitSave
    BY <2>9, FaultAssumption, SizeAssumption DEF CommitSave, Saves, Complete
  <2>10. CASE CommitRename
    BY <2>10, FaultAssumption, SizeAssumption DEF CommitRename
  <2>11. CASE FinalCheck
    BY <2>11, EndsTypes, FaultAssumption, SizeAssumption DEF FinalCheck
  <2> QED BY <1>2, <2>1, <2>2, <2>3, <2>4, <2>5, <2>6, <2>7, <2>8, <2>9, <2>10, <2>11 DEF
       Attempt
<1>3. ASSUME NEW w \in Workers, Work(w)
      PROVE  Types'
  <2>1. CASE Claim(w)
    <3>1. data \in [Chunks -> Contents] /\ Min(pending) \in pending
      BY <2>1, Running, FirstPending DEF Claim
    <3>2. data' \in [Chunks -> Contents]
      BY <2>1, <3>1 DEF Claim, Contents
    <3>3. chunk' \in [Workers -> Chunks \cup {None}] /\ pending' \subseteq Chunks
      BY <2>1, <3>1 DEF Claim
    <3> QED BY <2>1, <3>2, <3>3 DEF Claim
  <2>2. CASE NoMore(w)
    BY <2>2, FaultAssumption, SizeAssumption DEF NoMore
  <2>3. CASE FetchRest(w)
    <3>1. data \in [Chunks -> Contents] /\ listing \in Versions
      BY <2>3, Running DEF FetchRest
    <3>2. data' \in [Chunks -> Contents]
      BY <2>3, <3>1 DEF FetchRest, Contents
    <3> QED BY <2>3, <3>2 DEF FetchRest
  <2>4. CASE FetchFails(w)
    BY <2>4, FaultAssumption, SizeAssumption DEF FetchFails
  <2>5. CASE Cancels(w)
    <3>1. faults' \in 0 .. MaxFaults
      BY <2>5, FaultType DEF Cancels
    <3>2. cancelled' \in BOOLEAN
      BY <2>5 DEF Cancels
    <3> QED BY <2>5, <3>1, <3>2 DEF Cancels
  <2>6. CASE Mark(w)
    <3>1. ~IsComplete(state)
      BY <2>6, Marking DEF Mark
    <3>2. since_save < SaveInterval
      BY <3>1 DEF Counted
    <3>3. since_save' \in 0 .. SaveInterval
      BY <2>6, <3>2, SizeAssumption DEF Mark
    <3> QED BY <2>6, <3>3 DEF Mark
  <2>7. CASE Checkpoint(w)
    BY <2>7, FaultAssumption, SizeAssumption DEF Checkpoint, Saves, Complete
  <2> QED BY <1>3, <2>1, <2>2, <2>3, <2>4, <2>5, <2>6, <2>7 DEF Work
<1>4. ASSUME Fails \/ Crash \/ PowerLoss \/ RemoveData \/ Replace \/ Again
      PROVE  Types'
  <2>1. CASE Fails
    <3>1. faults' \in 0 .. MaxFaults /\ UNCHANGED <<service, disk>>
      BY <2>1, FaultType DEF Fails
    <3>2. Ends("idle")
      BY <2>1 DEF Fails
    <3> QED BY <3>1, <3>2, EndsTypes
  <2>2. CASE Crash
    <3>1. faults' \in 0 .. MaxFaults /\ UNCHANGED <<service, disk>>
      BY <2>2, FaultType DEF Crash
    <3>2. Ends("idle")
      BY <2>2 DEF Crash
    <3> QED BY <3>1, <3>2, EndsTypes
  <2>3. CASE PowerLoss
    <3>1. data' \in [Chunks -> Contents]
      BY <2>3 DEF PowerLoss, Contents
    <3>2. marked' \subseteq Chunks
      BY <2>3 DEF PowerLoss
    <3>3. faults' \in 0 .. MaxFaults /\ UNCHANGED service /\ Ends("idle")
      BY <2>3, FaultType DEF PowerLoss
    <3> QED BY <3>1, <3>2, <3>3, EndsTypes
  <2>4. CASE RemoveData \/ Replace
    BY <2>4, FaultAssumption, SizeAssumption DEF RemoveData, Replace
  <2>5. CASE Again
    <3>1. faults' \in 0 .. MaxFaults /\ UNCHANGED <<service, disk>>
      BY <2>5, FaultType DEF Again
    <3>2. Ends("idle")
      BY <2>5 DEF Again
    <3> QED BY <3>1, <3>2, EndsTypes
  <2> QED BY <1>4, <2>1, <2>2, <2>3, <2>4, <2>5
<1> QED BY <1>1, <1>2, <1>3, <1>4 DEF Next, Progress

\* A save says what is complete; the receipt is a save with every chunk complete.
LEMMA TruthfulStep ==
  ASSUME Types, Records, Truthful, Fetched, Steps, Claimed, Counted, [Next]_vars
  PROVE  Truthful'
<1> USE DEF Truthful, service, disk, attempt, pool, Moves, WorkerMoves, Fault
<1>1. CASE UNCHANGED vars
  BY <1>1 DEF vars
<1>2. ASSUME Attempt
      PROVE  Truthful'
  <2>1. CASE ListBlobs \/ IsDownloadNeeded \/ Resume \/ OpenFile \/ AllFetched
    BY <2>1 DEF ListBlobs, IsDownloadNeeded, Resume, OpenFile, AllFetched, Joined
  <2>2. CASE Changed
    BY <2>2 DEF Changed, Ends
  <2>3. CASE SaveFirst
    <3>1. state # None /\ Sound(state) /\ Hashed(state)
      BY <2>3 DEF SaveFirst, Steps, Records
    <3> QED BY <2>3, <3>1, Saving DEF SaveFirst, Saves
  <2>4. CASE GivesUp
    <3>1. state # None /\ Sound(state) /\ Hashed(state)
      BY <2>4 DEF GivesUp, Joined, Steps, Records
    <3> QED BY <2>4, <3>1, Saving DEF GivesUp, Saves
  <2>5. CASE CommitSave
    <3>1. state # None /\ Sound(state) /\ Hashed(state)
      BY <2>5 DEF CommitSave, Steps, Records
    <3> QED BY <2>5, <3>1, Saving DEF CommitSave, Saves
  <2>6. CASE CommitRename
    BY <2>6 DEF CommitRename, Steps
  <2>7. CASE FinalCheck
    BY <2>7 DEF FinalCheck, Ends
  <2> QED BY <1>2, <2>1, <2>2, <2>3, <2>4, <2>5, <2>6, <2>7 DEF Attempt
<1>3. ASSUME NEW w \in Workers, Work(w)
      PROVE  Truthful'
  <2>1. CASE Claim(w) \/ NoMore(w) \/ FetchRest(w) \/ FetchFails(w) \/ Cancels(w) \/
           Mark(w)
    BY <2>1 DEF Claim, NoMore, FetchRest, FetchFails, Cancels, Mark
  <2>2. CASE Checkpoint(w)
    <3>1. state # None /\ Sound(state) /\ Hashed(state)
      BY <2>2, Running DEF Checkpoint, Records
    <3> QED BY <2>2, <3>1, Saving DEF Checkpoint, Saves
  <2> QED BY <1>3, <2>1, <2>2 DEF Work
<1>4. ASSUME Fails \/ Crash \/ PowerLoss \/ RemoveData \/ Replace \/ Again
      PROVE  Truthful'
  <2>1. CASE Fails \/ Crash \/ Again
    BY <2>1 DEF Fails, Crash, Again, Ends
  <2>2. CASE PowerLoss
    BY <2>2 DEF PowerLoss, Ends
  <2>3. CASE RemoveData \/ Replace
    BY <2>3 DEF RemoveData, Replace
  <2> QED BY <1>4, <2>1, <2>2, <2>3
<1> QED BY <1>1, <1>2, <1>3, <1>4 DEF Next, Progress

\* A chunk that a state calls complete is not written any more.
LEMMA FetchedStep ==
  ASSUME Types, Records, Truthful, Fetched, Steps, Claimed, Counted, [Next]_vars
  PROVE  Fetched'
<1> USE DEF Fetched, OnDisk, service, disk, attempt, pool, Moves, WorkerMoves, Fault
<1>1. CASE UNCHANGED vars
  BY <1>1 DEF vars
<1>2. ASSUME Attempt
      PROVE  Fetched'
  <2>1. CASE ListBlobs
    <3>1. state' = None /\ verified' = None
      BY <2>1 DEF ListBlobs, Steps
    <3> QED BY <3>1
  <2>2. CASE IsDownloadNeeded
    <3>1. state = None /\ state' = None
      BY <2>2 DEF IsDownloadNeeded, Steps
    <3>2. CASE pc' = "needed" /\ verified' = ValidateCompletedChunks(Receipt) /\ ReceiptCounts
      <4>1. Sound(Receipt) /\ Hashed(Receipt) /\ Receipt.etag = listing /\ data # None
        BY <3>2, ReceiptFacts DEF ReceiptCounts
      <4> HIDE DEF OnDisk
      <4>2. /\ verified'.etag = listing
            /\ Complete(verified') = {c \in Complete(Receipt) : data[c] = listing}
        BY <3>2, <4>1, Validated
      <4>3. UNCHANGED <<data, listing>>
        BY <2>2 DEF IsDownloadNeeded
      <4>4. OnDisk(verified)'
        BY <4>1, <4>2, <4>3 DEF OnDisk
      <4> QED BY <3>1, <4>4
    <3>3. CASE pc' = "finished" \/ verified' = verified
      <4>1. verified = None
        BY <2>2 DEF IsDownloadNeeded, Steps
      <4> QED BY <3>1, <3>3, <4>1
    <3> QED BY <2>2, <3>2, <3>3 DEF IsDownloadNeeded
  <2>3. CASE Resume
    <3>1. state' = ResumedFrom(Candidate) /\ pc = "needed" /\ pc' = "resumed"
      BY <2>3 DEF Resume
    <3>2. OnDisk(ResumedFrom(Candidate)) /\ UNCHANGED <<data, listing>>
      BY <2>3, Resumed DEF Resume
    <3> QED BY <3>1, <3>2
  <2>4. CASE Changed
    BY <2>4 DEF Changed, Ends
  <2>5. CASE SaveFirst
    <3>1. state # None /\ Sound(state) /\ Hashed(state)
      BY <2>5 DEF SaveFirst, Steps, Records
    <3> QED BY <2>5, <3>1, Advancing DEF SaveFirst
  <2>6. CASE OpenFile
    <3>1. data # None => data' = data
      BY <2>6 DEF OpenFile
    <3>2. pc' # "needed" /\ UNCHANGED <<listing, state>>
      BY <2>6 DEF OpenFile
    <3> QED BY <3>1, <3>2
  <2>7. CASE GivesUp
    BY <2>7 DEF GivesUp, Ends, Joined
  <2>8. CASE AllFetched \/ CommitRename
    BY <2>8 DEF AllFetched, CommitRename, Joined
  <2>9. CASE CommitSave
    <3>1. state # None /\ Sound(state) /\ Hashed(state)
      BY <2>9 DEF CommitSave, Steps, Records
    <3> QED BY <2>9, <3>1, Advancing DEF CommitSave
  <2>10. CASE FinalCheck
    BY <2>10 DEF FinalCheck, Ends
  <2> QED BY <1>2, <2>1, <2>2, <2>3, <2>4, <2>5, <2>6, <2>7, <2>8, <2>9, <2>10 DEF Attempt
<1>3. ASSUME NEW w \in Workers, Work(w)
      PROVE  Fetched'
  <2>1. CASE Claim(w)
    <3>1. /\ pc = "transfer" /\ data # None /\ data \in [Chunks -> Contents]
          /\ state # None /\ Min(pending) \in pending
      BY <2>1, Running, FirstPending DEF Claim
    <3>2. data' = [data EXCEPT ![Min(pending)] = "torn"] /\ UNCHANGED <<pc, state, listing>>
      BY <2>1 DEF Claim
    <3>3. Min(pending) \notin Complete(state) /\ Complete(state) \subseteq Chunks
      BY <3>1 DEF Claimed, Complete
    <3>4. data' \in [Chunks -> Contents] /\ \A c \in Complete(state) : data'[c] = data[c]
      BY <3>1, <3>2, <3>3 DEF Contents
    <3> QED BY <3>1, <3>2, <3>4, NoneAssumption
  <2>2. CASE NoMore(w) \/ FetchFails(w) \/ Cancels(w)
    BY <2>2 DEF NoMore, FetchFails, Cancels
  <2>3. CASE FetchRest(w)
    <3>1. /\ pc = "transfer" /\ data # None /\ data \in [Chunks -> Contents]
          /\ state # None /\ listing \in Versions
      BY <2>3, Running DEF FetchRest
    <3>2. data' = [data EXCEPT ![chunk[w]] = listing] /\ UNCHANGED <<pc, state, listing>>
      BY <2>3 DEF FetchRest
    <3>3. chunk[w] \notin Complete(state) /\ Complete(state) \subseteq Chunks
      BY <2>3, <3>1 DEF Claimed, Complete, Busy, FetchRest
    <3>4. data' \in [Chunks -> Contents] /\ \A c \in Complete(state) : data'[c] = data[c]
      BY <3>1, <3>2, <3>3 DEF Contents
    <3> QED BY <3>1, <3>2, <3>4, NoneAssumption
  <2>4. CASE Mark(w)
    <3>1. /\ state'.etag = state.etag /\ Complete(state') = Complete(state) \cup {chunk[w]}
          /\ UNCHANGED <<pc, data, listing>>
      BY <2>4, Marking DEF Mark
    <3>2. pc = "transfer" /\ data # None /\ state # None /\ data[chunk[w]] = listing
      BY <2>4, Running DEF Mark, Claimed
    <3> QED BY <3>1, <3>2
  <2>5. CASE Checkpoint(w)
    <3>1. state # None /\ Sound(state) /\ Hashed(state)
      BY <2>5, Running DEF Checkpoint, Records
    <3> QED BY <2>5, <3>1, Advancing DEF Checkpoint
  <2> QED BY <1>3, <2>1, <2>2, <2>3, <2>4, <2>5 DEF Work
<1>4. ASSUME Fails \/ Crash \/ PowerLoss \/ RemoveData \/ Replace \/ Again
      PROVE  Fetched'
  <2>1. CASE Fails \/ Crash \/ Again
    BY <2>1 DEF Fails, Crash, Again, Ends
  <2>2. CASE PowerLoss
    BY <2>2 DEF PowerLoss, Ends
  <2>3. CASE RemoveData
    BY <2>3 DEF RemoveData, Steps
  <2>4. CASE Replace
    BY <2>4 DEF Replace
  <2> QED BY <1>4, <2>1, <2>2, <2>3, <2>4
<1> QED BY <1>1, <1>2, <1>3, <1>4 DEF Next, Progress

\* What each step of the attempt finds.
LEMMA StepsStep ==
  ASSUME Types, Records, Truthful, Fetched, Steps, Claimed, Counted, [Next]_vars
  PROVE  Steps'
<1> USE DEF Steps, service, disk, attempt, pool, Moves, WorkerMoves, Fault
<1>1. CASE UNCHANGED vars
  BY <1>1 DEF vars
<1>2. ASSUME Attempt
      PROVE  Steps'
  <2>1. CASE ListBlobs
    BY <2>1 DEF ListBlobs, Types
  <2>2. CASE IsDownloadNeeded
    BY <2>2 DEF IsDownloadNeeded
  <2>3. CASE Resume
    BY <2>3, Resumed DEF Resume
  <2>4. CASE Changed
    BY <2>4 DEF Changed, Ends
  <2>5. CASE SaveFirst
    <3>1. state # None /\ Sound(state) /\ Hashed(state)
      BY <2>5 DEF SaveFirst, Records
    <3>2. Advanced(state) # None
      BY <3>1, Advancing
    <3>3. GetPendingChunks(state) = {} => IsComplete(state)
      <4>1. Complete(state) = state.bits /\ GetPendingChunks(state) = Chunks \ state.bits
        BY <3>1, Bits DEF Sound
      <4>2. state.bits \subseteq Chunks
        BY <3>1 DEF Sound, States
      <4>3. Chunks \ state.bits = {} => Complete(state) = Chunks
        BY <4>1, <4>2
      <4> QED BY <3>1, <4>1, <4>3, CompleteIsAll DEF Sound
    <3> QED BY <2>5, <3>1, <3>2, <3>3 DEF SaveFirst
  <2>6. CASE OpenFile
    <3>1. [c \in Chunks |-> "hole"] # None
      BY NoneAssumption DEF Contents
    <3> QED BY <2>6, <3>1 DEF OpenFile
  <2>7. CASE GivesUp
    BY <2>7 DEF GivesUp, Ends, Joined
  <2>8. CASE AllFetched
    <3>1. pc = "transfer" /\ pc' = "committing" /\ IsComplete(state) /\ \A w \in Workers : worker[w] = "exited"
      BY <2>8 DEF AllFetched, Joined
    <3>2. UNCHANGED <<state, listing, verified, pending, worker>>
      BY <2>8 DEF AllFetched
    <3>3. Complete(state) = Chunks
      BY <3>1, CompleteIsAll DEF Records, Sound
    <3>4. pending = {}
      BY <3>1, <3>3 DEF Claimed, Types
    <3> QED BY <3>1, <3>2, <3>4
  <2>9. CASE CommitSave
    <3>1. state # None /\ Sound(state) /\ Hashed(state)
      BY <2>9 DEF CommitSave, Records
    <3>2. SaveState(Advanced(state)) # None /\ Advanced(state) # None /\ IsComplete(Advanced(state))
      BY <2>9, <3>1, Advancing, Saving DEF CommitSave
    <3>3. Complete(state) = Chunks
      BY <2>9, <3>1, CompleteIsAll DEF CommitSave, Sound
    <3> QED BY <2>9, <3>1, <3>2, <3>3 DEF CommitSave, Saves
  <2>10. CASE CommitRename
    BY <2>10 DEF CommitRename
  <2>11. CASE FinalCheck
    BY <2>11 DEF FinalCheck, Ends
  <2> QED BY <1>2, <2>1, <2>2, <2>3, <2>4, <2>5, <2>6, <2>7, <2>8, <2>9, <2>10, <2>11 DEF
       Attempt
<1>3. ASSUME NEW w \in Workers, Work(w)
      PROVE  Steps'
  <2>1. CASE Claim(w)
    <3>1. pc = "transfer" /\ data # None /\ data \in [Chunks -> Contents] /\ state # None
      BY <2>1, Running DEF Claim
    <3>2. data' # None
      BY <2>1, <3>1, NoneAssumption DEF Claim, Contents
    <3> QED BY <2>1, <3>1, <3>2 DEF Claim
  <2>2. CASE NoMore(w) \/ FetchFails(w) \/ Cancels(w)
    BY <2>2 DEF NoMore, FetchFails, Cancels
  <2>3. CASE FetchRest(w)
    <3>1. /\ pc = "transfer" /\ data # None /\ data \in [Chunks -> Contents] /\ state # None
          /\ listing \in Versions
      BY <2>3, Running DEF FetchRest
    <3>2. data' \in [Chunks -> Contents]
      BY <2>3, <3>1 DEF FetchRest, Contents
    <3>3. data' # None
      BY <3>2, NoneAssumption
    <3> QED BY <2>3, <3>1, <3>3 DEF FetchRest
  <2>4. CASE Mark(w)
    <3>1. pc = "transfer" /\ state' # None
      BY <2>4, Running, Marking DEF Mark
    <3> QED BY <2>4, <3>1 DEF Mark
  <2>5. CASE Checkpoint(w)
    <3>1. pc = "transfer" /\ state # None /\ Sound(state) /\ Hashed(state)
      BY <2>5, Running DEF Checkpoint, Records
    <3>2. Advanced(state) # None
      BY <3>1, Advancing
    <3>3. pc' = "transfer" /\ state' = Advanced(state) /\ UNCHANGED <<listing, verified, pending, data>>
      BY <2>5, <3>1 DEF Checkpoint
    <3> QED BY <3>1, <3>2, <3>3
  <2> QED BY <1>3, <2>1, <2>2, <2>3, <2>4, <2>5 DEF Work
<1>4. ASSUME Fails \/ Crash \/ PowerLoss \/ RemoveData \/ Replace \/ Again
      PROVE  Steps'
  <2>1. CASE Fails \/ Crash \/ Again
    BY <2>1 DEF Fails, Crash, Again, Ends
  <2>2. CASE PowerLoss
    BY <2>2 DEF PowerLoss, Ends
  <2>3. CASE RemoveData
    BY <2>3 DEF RemoveData
  <2>4. CASE Replace
    BY <2>4 DEF Replace
  <2> QED BY <1>4, <2>1, <2>2, <2>3, <2>4
<1> QED BY <1>1, <1>2, <1>3, <1>4 DEF Next, Progress

\* A worker that marks a chunk saves when it is due.
LEMMA CountedStep ==
  ASSUME Types, Records, Truthful, Fetched, Steps, Claimed, Counted, [Next]_vars
  PROVE  Counted'
<1> USE DEF Counted, service, disk, attempt, pool, Moves, WorkerMoves, Fault
<1>1. CASE UNCHANGED vars
  BY <1>1 DEF vars
<1>2. ASSUME Attempt
      PROVE  Counted'
  <2>1. CASE ListBlobs \/ IsDownloadNeeded \/ OpenFile \/ AllFetched \/ CommitRename
    BY <2>1 DEF ListBlobs, IsDownloadNeeded, OpenFile, AllFetched, CommitRename, Joined
  <2>2. CASE Resume
    BY <2>2 DEF Resume, Steps
  <2>3. CASE Changed
    BY <2>3, SizeAssumption DEF Changed, Ends
  <2>4. CASE SaveFirst
    <3>1. state # None /\ Sound(state) /\ Hashed(state)
      BY <2>4 DEF SaveFirst, Steps, Records
    <3> QED BY <2>4, <3>1, Advancing DEF SaveFirst
  <2>5. CASE GivesUp
    BY <2>5, SizeAssumption DEF GivesUp, Ends, Joined
  <2>6. CASE CommitSave
    <3>1. state # None /\ Sound(state) /\ Hashed(state)
      BY <2>6 DEF CommitSave, Steps, Records
    <3> QED BY <2>6, <3>1, Advancing DEF CommitSave
  <2>7. CASE FinalCheck
    BY <2>7, SizeAssumption DEF FinalCheck, Ends
  <2> QED BY <1>2, <2>1, <2>2, <2>3, <2>4, <2>5, <2>6, <2>7 DEF Attempt
<1>3. ASSUME NEW w \in Workers, Work(w)
      PROVE  Counted'
  <2>1. CASE Claim(w) \/ NoMore(w) \/ FetchRest(w) \/ FetchFails(w) \/ Cancels(w)
    BY <2>1 DEF Claim, NoMore, FetchRest, FetchFails, Cancels
  <2>2. CASE Mark(w)
    <3>1. state' # None /\ since_save \in Nat
      BY <2>2, Marking DEF Mark, Types
    <3>2. IF since_save + 1 >= SaveInterval /\ ~IsComplete(state')
            THEN since_save' = 0
            ELSE since_save' = since_save + 1
      BY <2>2 DEF Mark
    <3> QED BY <3>1, <3>2, SizeAssumption
  <2>3. CASE Checkpoint(w)
    <3>1. state # None /\ Sound(state) /\ Hashed(state)
      BY <2>3, Running DEF Checkpoint, Records
    <3> QED BY <2>3, <3>1, Advancing DEF Checkpoint
  <2> QED BY <1>3, <2>1, <2>2, <2>3 DEF Work
<1>4. ASSUME Fails \/ Crash \/ PowerLoss \/ RemoveData \/ Replace \/ Again
      PROVE  Counted'
  <2>1. CASE Fails
    BY <2>1, SizeAssumption DEF Fails, Ends
  <2>2. CASE Crash
    BY <2>2, SizeAssumption DEF Crash, Ends
  <2>3. CASE PowerLoss
    BY <2>3, SizeAssumption DEF PowerLoss, Ends
  <2>4. CASE RemoveData \/ Replace
    BY <2>4 DEF RemoveData, Replace
  <2>5. CASE Again
    BY <2>5, SizeAssumption DEF Again, Ends
  <2> QED BY <1>4, <2>1, <2>2, <2>3, <2>4, <2>5
<1> QED BY <1>1, <1>2, <1>3, <1>4 DEF Next, Progress

\* A chunk leaves pending with its worker, and becomes complete with it.
LEMMA ClaimedStep ==
  ASSUME Types, Records, Truthful, Fetched, Steps, Claimed, Counted, [Next]_vars
  PROVE  Claimed'
<1> USE DEF Claimed, Busy, service, disk, attempt, pool, Moves, WorkerMoves, Fault
<1>1. CASE UNCHANGED vars
  BY <1>1 DEF vars
<1>2. ASSUME Attempt
      PROVE  Claimed'
  <2>1. CASE ListBlobs \/ IsDownloadNeeded \/ AllFetched \/ CommitRename
    <3>1. /\ UNCHANGED <<pending, state, worker, chunk>>
          /\ \A v \in Workers : worker[v] = "exited"
      BY <2>1 DEF ListBlobs, IsDownloadNeeded, AllFetched, CommitRename, Joined, Steps
    <3> QED BY <3>1
  <2>2. CASE Resume
    <3>1. pending' = {} /\ worker' = worker /\ \A v \in Workers : worker[v] = "exited"
      BY <2>2 DEF Resume, Steps
    <3> QED BY <3>1
  <2>3. CASE Changed
    BY <2>3 DEF Changed, Ends
  <2>4. CASE SaveFirst
    <3>1. state # None /\ Sound(state) /\ Hashed(state)
      BY <2>4 DEF SaveFirst, Steps, Records
    <3>2. worker' = worker /\ \A v \in Workers : worker[v] = "exited"
      BY <2>4 DEF SaveFirst, Steps
    <3>3. pending' = Chunks \ Complete(state)
      BY <2>4, <3>1, Bits DEF SaveFirst, Sound
    <3>4. Complete(state') = Complete(state)
      BY <2>4, <3>1, Advancing DEF SaveFirst
    <3> QED BY <3>2, <3>3, <3>4
  <2>5. CASE OpenFile
    <3>1. \A v \in Workers : worker'[v] = "ready"
      BY <2>5 DEF OpenFile
    <3> QED BY <2>5, <3>1 DEF OpenFile
  <2>6. CASE GivesUp
    BY <2>6 DEF GivesUp, Ends, Joined
  <2>7. CASE CommitSave
    <3>1. state # None /\ Sound(state) /\ Hashed(state)
      BY <2>7 DEF CommitSave, Steps, Records
    <3> QED BY <2>7, <3>1, Advancing DEF CommitSave, Steps
  <2>8. CASE FinalCheck
    BY <2>8 DEF FinalCheck, Ends
  <2> QED BY <1>2, <2>1, <2>2, <2>3, <2>4, <2>5, <2>6, <2>7, <2>8 DEF Attempt
<1>3. ASSUME NEW w \in Workers, Work(w)
      PROVE  Claimed'
  <2>1. CASE Claim(w)
    <3> DEFINE c == Min(pending)
    <3>1. /\ data \in [Chunks -> Contents] /\ state # None /\ c \in pending
          /\ worker \in [Workers -> {"ready", "streaming", "received", "saving", "exited"}]
          /\ chunk \in [Workers -> Chunks \cup {None}] /\ pending \subseteq Chunks
      BY <2>1, Running, FirstPending DEF Claim, Types
    <3> HIDE DEF c
    <3>2. /\ worker[w] = "ready" /\ worker' = [worker EXCEPT ![w] = "streaming"]
          /\ chunk' = [chunk EXCEPT ![w] = c] /\ pending' = pending \ {c}
          /\ data' = [data EXCEPT ![c] = "torn"] /\ UNCHANGED <<state, listing>>
      BY <2>1 DEF Claim, c
    <3>3. c \in Chunks \ (pending' \cup Complete(state))
      BY <3>1, <3>2
    <3>4. \A v \in Workers : v # w => chunk'[v] = chunk[v] /\ worker'[v] = worker[v]
      BY <3>1, <3>2
    <3>5. chunk'[w] = c /\ worker'[w] = "streaming"
      BY <3>1, <3>2
    <3>6. \A v \in Workers : Busy(v) => chunk[v] \notin pending /\ chunk[v] # c
      BY <3>1
    <3>7. \A v \in Workers : Busy(v)' => chunk'[v] \in Chunks \ (pending' \cup Complete(state'))
      BY <3>2, <3>3, <3>4, <3>5
    <3>8. \A v, u \in Workers : Busy(v)' /\ Busy(u)' /\ chunk'[v] = chunk'[u] => v = u
      BY <3>4, <3>5, <3>6
    <3>9. \A v \in Workers : worker'[v] = "received" => data'[chunk'[v]] = listing'
      BY <3>1, <3>2, <3>4, <3>5, <3>6
    <3>10. state' # None => pending' \cap Complete(state') = {}
      BY <3>1, <3>2
    <3> QED BY <3>7, <3>8, <3>9, <3>10
  <2>2. CASE NoMore(w) \/ FetchFails(w) \/ Cancels(w)
    <3>1. /\ \A v \in Workers : (Busy(v)' => Busy(v)) /\ (worker'[v] = "received" => worker[v] = "received")
          /\ UNCHANGED <<state, data, listing, chunk, pending>>
      BY <2>2 DEF NoMore, FetchFails, Cancels, Types
    <3> HIDE DEF Busy
    <3> QED BY <3>1
  <2>3. CASE FetchRest(w)
    <3>1. /\ data \in [Chunks -> Contents] /\ chunk[w] \in Chunks
          /\ worker \in [Workers -> {"ready", "streaming", "received", "saving", "exited"}]
      BY <2>3, Running DEF FetchRest, Types
    <3>2. /\ worker[w] = "streaming" /\ worker' = [worker EXCEPT ![w] = "received"]
          /\ data' = [data EXCEPT ![chunk[w]] = listing]
          /\ UNCHANGED <<state, listing, chunk, pending>>
      BY <2>3 DEF FetchRest
    <3>3. \A v \in Workers : v # w => worker'[v] = worker[v]
      BY <3>1, <3>2
    <3>4. \A v \in Workers : Busy(v)' = Busy(v)
      BY <3>1, <3>2, <3>3
    <3>5. ASSUME NEW v \in Workers, worker'[v] = "received"
          PROVE  data'[chunk[v]] = listing
      <4>1. CASE v = w
        BY <3>1, <3>2, <4>1
      <4>2. CASE v # w
        <5>1. worker[v] = "received" /\ chunk[v] # chunk[w] /\ chunk[v] \in Chunks
          BY <3>2, <3>3, <3>5, <4>2
        <5> QED BY <3>1, <3>2, <5>1
      <4> QED BY <4>1, <4>2
    <3> HIDE DEF Busy
    <3> QED BY <3>2, <3>4, <3>5
  <2>4. CASE Mark(w)
    <3>1. /\ state # None /\ Complete(state') = Complete(state) \cup {chunk[w]}
          /\ UNCHANGED <<data, listing, chunk, pending>>
      BY <2>4, Running, Marking DEF Mark
    <3>2. /\ worker[w] = "received" /\ worker'[w] \notin {"streaming", "received"}
          /\ \A v \in Workers : v # w => worker'[v] = worker[v]
      BY <2>4 DEF Mark, Types
    <3>3. \A v \in Workers : Busy(v)' => Busy(v) /\ v # w /\ chunk[v] # chunk[w]
      BY <3>2
    <3>4. \A v \in Workers : worker'[v] = "received" => worker[v] = "received"
      BY <3>2
    <3>5. \A v \in Workers : Busy(v)' => chunk'[v] \in Chunks \ (pending' \cup Complete(state'))
      BY <3>1, <3>3
    <3>6. pending' \cap Complete(state') = {}
      BY <3>1, <3>2
    <3> HIDE DEF Busy
    <3> QED BY <3>1, <3>3, <3>4, <3>5, <3>6
  <2>5. CASE Checkpoint(w)
    <3>1. state # None /\ Sound(state) /\ Hashed(state)
      BY <2>5, Running DEF Checkpoint, Records
    <3>2. Complete(state') = Complete(state) /\ UNCHANGED <<data, listing, chunk, pending>>
      BY <2>5, <3>1, Advancing DEF Checkpoint
    <3>3. \A v \in Workers : (Busy(v)' => Busy(v)) /\ (worker'[v] = "received" => worker[v] = "received")
      BY <2>5 DEF Checkpoint, Types
    <3> HIDE DEF Busy
    <3> QED BY <3>1, <3>2, <3>3
  <2> QED BY <1>3, <2>1, <2>2, <2>3, <2>4, <2>5 DEF Work
<1>4. ASSUME Fails \/ Crash \/ PowerLoss \/ RemoveData \/ Replace \/ Again
      PROVE  Claimed'
  <2>1. CASE Fails
    BY <2>1 DEF Fails, Ends
  <2>2. CASE Crash
    BY <2>2 DEF Crash, Ends
  <2>3. CASE PowerLoss
    BY <2>3 DEF PowerLoss, Ends
  <2>4. CASE RemoveData \/ Replace
    BY <2>4 DEF RemoveData, Replace, Steps
  <2>5. CASE Again
    BY <2>5 DEF Again, Ends
  <2> QED BY <1>4, <2>1, <2>2, <2>3, <2>4, <2>5
<1> QED BY <1>1, <1>2, <1>3, <1>4 DEF Next, Progress

\* The attempt succeeds only with every chunk on the disk.
LEMMA FinishedStep ==
  ASSUME Types, Records, Truthful, Fetched, Steps, Claimed, Counted, FinishedIsWhole, [Next]_vars
  PROVE  FinishedIsWhole'
<1> USE DEF FinishedIsWhole, Whole, service, disk, attempt, pool, Moves, WorkerMoves,
           Fault
<1>1. CASE UNCHANGED vars
  BY <1>1 DEF vars
<1>2. ASSUME Attempt
      PROVE  FinishedIsWhole'
  <2>1. CASE ListBlobs \/ Resume \/ OpenFile \/ AllFetched \/ CommitSave \/ CommitRename
           \/ SaveFirst
    BY <2>1 DEF ListBlobs, Resume, OpenFile, AllFetched, CommitSave, CommitRename,
          SaveFirst, Joined
  <2>2. CASE IsDownloadNeeded
    <3>1. CASE published
      BY <2>2, <3>1 DEF IsDownloadNeeded, ReceiptCounts
    <3>2. CASE ~published /\ ReceiptCounts
      <4>1. Sound(Receipt) /\ Hashed(Receipt) /\ Receipt.etag = listing /\ data # None
        BY <3>2, ReceiptFacts DEF ReceiptCounts
      <4> DEFINE checked == ValidateCompletedChunks(Receipt)
      <4>2. Sound(checked) /\ Complete(checked) = {c \in Complete(Receipt) : data[c] = listing}
        BY <4>1, Validated
      <4>3. pc' = IF IsComplete(checked) THEN "finished" ELSE "needed"
        BY <2>2, <3>2 DEF IsDownloadNeeded
      <4> HIDE DEF checked
      <4>4. IsComplete(checked) => \A c \in Chunks : data[c] = listing
        BY <4>2, CompleteIsAll DEF Sound
      <4>5. UNCHANGED <<data, listing>>
        BY <2>2 DEF IsDownloadNeeded
      <4> QED BY <4>1, <4>3, <4>4, <4>5
    <3>3. CASE ~published /\ ~ReceiptCounts
      BY <2>2, <3>3 DEF IsDownloadNeeded
    <3> QED BY <3>1, <3>2, <3>3
  <2>3. CASE Changed \/ GivesUp
    BY <2>3 DEF Changed, GivesUp, Ends, Joined
  <2>4. CASE FinalCheck
    <3>1. CASE pc' = "finished" /\ UNCHANGED <<data, listing>>
      <4>1. state # None /\ Sound(state) /\ OnDisk(state) /\ IsComplete(state)
        BY <2>4 DEF FinalCheck, Steps, Records, Fetched
      <4>2. Complete(state) = Chunks
        BY <4>1, CompleteIsAll DEF Sound
      <4>3. Whole(listing)
        BY <4>1, <4>2, ChunkFacts DEF OnDisk
      <4> QED BY <3>1, <4>3
    <3>2. CASE pc' = "idle"
      BY <3>2
    <3> QED BY <2>4, <3>1, <3>2 DEF FinalCheck, Ends
  <2> QED BY <1>2, <2>1, <2>2, <2>3, <2>4 DEF Attempt
<1>3. ASSUME NEW w \in Workers, Work(w)
      PROVE  FinishedIsWhole'
  <2>1. CASE Claim(w)
    BY <2>1, Running DEF Claim
  <2>2. CASE NoMore(w)
    BY <2>2, Running DEF NoMore
  <2>3. CASE FetchRest(w)
    BY <2>3, Running DEF FetchRest
  <2>4. CASE FetchFails(w)
    BY <2>4, Running DEF FetchFails
  <2>5. CASE Cancels(w)
    BY <2>5, Running DEF Cancels
  <2>6. CASE Mark(w)
    BY <2>6, Running DEF Mark
  <2>7. CASE Checkpoint(w)
    BY <2>7, Running DEF Checkpoint
  <2> QED BY <1>3, <2>1, <2>2, <2>3, <2>4, <2>5, <2>6, <2>7 DEF Work
<1>4. ASSUME Fails \/ Crash \/ PowerLoss \/ RemoveData \/ Replace \/ Again
      PROVE  FinishedIsWhole'
  <2>1. CASE Fails
    BY <2>1 DEF Fails, Ends
  <2>2. CASE Crash
    BY <2>2 DEF Crash, Ends
  <2>3. CASE PowerLoss
    BY <2>3 DEF PowerLoss, Ends
  <2>4. CASE RemoveData
    BY <2>4 DEF RemoveData
  <2>5. CASE Replace
    BY <2>5 DEF Replace
  <2>6. CASE Again
    BY <2>6 DEF Again, Ends
  <2> QED BY <1>4, <2>1, <2>2, <2>3, <2>4, <2>5, <2>6
<1> QED BY <1>1, <1>2, <1>3, <1>4 DEF Next, Progress

-----------------------------------------------------------------------------
LEMMA InitInv == Init => IInv
<1> SUFFICES ASSUME Init
             PROVE  IInv
  OBVIOUS
<1> USE DEF Init
<1>1. Types
  <2>1. worker \in [Workers -> {"exited"}] /\ chunk \in [Workers -> {None}]
    OBVIOUS
  <2>2. since_save \in 0 .. SaveInterval /\ faults \in 0 .. MaxFaults
    BY SizeAssumption, FaultAssumption
  <2>3. remote \in Versions /\ unused \subseteq Versions /\ published \in BOOLEAN
    BY VersionAssumption
  <2> QED BY <2>1, <2>2, <2>3 DEF Types
<1>2. Records /\ Truthful /\ Fetched /\ FinishedIsWhole
  BY DEF Records, Truthful, Fetched, FinishedIsWhole
<1>3. Steps /\ Claimed
  BY DEF Steps, Claimed, Busy
<1>4. Counted
  BY SizeAssumption DEF Counted
<1> QED BY <1>1, <1>2, <1>3, <1>4 DEF IInv

LEMMA NextInv == IInv /\ [Next]_vars => IInv'
<1> SUFFICES ASSUME IInv, [Next]_vars
             PROVE  IInv'
  OBVIOUS
<1> USE DEF IInv
<1>1. Types' /\ Records'
  BY TypeStep, RecordsStep
<1>2. Truthful' /\ Fetched'
  BY TruthfulStep, FetchedStep
<1>3. Steps' /\ Claimed' /\ Counted'
  BY StepsStep, ClaimedStep, CountedStep
<1>4. FinishedIsWhole'
  BY FinishedStep
<1> QED BY <1>1, <1>2, <1>3, <1>4

LEMMA Invariance == Spec => []IInv
BY InitInv, NextInv, PTL DEF Spec

(***************************************************************************)
(* Type correctness: the bitmap's counters are right in memory, and its    *)
(* start is at a byte, whatever was damaged, refetched, saved or read.     *)
(***************************************************************************)
THEOREM TypeCorrect == Spec => []TypeOK
<1>1. IInv => TypeOK
  BY DEF IInv, Types, Records, Sound, Readable, Consistent, TypeOK
<1> QED BY <1>1, Invariance, PTL

(***************************************************************************)
(* An attempt that succeeds leaves the listed version on the disk, whole.  *)
(***************************************************************************)
THEOREM Finished == Spec => []FinishedIsWhole
<1>1. IInv => FinishedIsWhole
  BY DEF IInv
<1> QED BY <1>1, Invariance, PTL

(***************************************************************************)
(* A saved bitmap is accepted when it is read, and says what was complete  *)
(* when it was saved; a receipt says that every chunk is.                  *)
(***************************************************************************)
THEOREM Bitmap == Spec => []ReadsBack
<1>1. IInv => ReadsBack
  <2> SUFFICES ASSUME IInv
               PROVE  ReadsBack
    OBVIOUS
  <2>1. \A f \in {sidecar, receipt} \ {None} :
          LoadState(f) # None /\ Complete(LoadState(f)) = Complete(f)
    BY LoadSound DEF IInv, Records, Readable
  <2> QED BY <2>1 DEF IInv, Truthful, ReadsBack
<1> QED BY <1>1, Invariance, PTL
=============================================================================
