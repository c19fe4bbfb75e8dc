-------------------------- MODULE SdkConnection_proofs --------------------------
(***************************************************************************)
(* Types, with the delivery slots counted, that two ends that keep to the  *)
(* protocol never fail by it, and that releases find room at the server.   *)
(***************************************************************************)
EXTENDS SdkConnection, FiniteSetTheorems, TLAPS

Reserved(e) == {c \in Calls : call[e][c].receive_requested}

\* A fragment is delivered into a slot, and it belongs to a message.
Deliveries ==
  \A e \in Ends, c \in Calls :
    call[e][c].delivery # None =>
      call[e][c].receive_requested /\ call[e][c].delivery.kind \in Messages

-----------------------------------------------------------------------------
(* The queues, as one call sees them.                                      *)

Frames(q) == {q[n] : n \in 1 .. Len(q)}
Of(q, c) == {f \in Frames(q) : f.id = c}
Once(q, K, c) ==
  \A m, n \in 1 .. Len(q) :
    q[m].id = c /\ q[m].kind \in K /\ q[n].id = c /\ q[n].kind \in K => m = n

Queued(e, k, c) == \E f \in Of(controls[e], c) : f.kind = k
Carried(e, c) == Of(data[e], c)

LEMMA OtherFacts ==
  /\ Other("client") = "server" /\ Other("server") = "client"
  /\ \A e \in Ends : Other(e) \in Ends /\ Other(e) # e /\ Other(Other(e)) = e
  /\ \A e, x \in Ends : x = e \/ x = Other(e)
<1>1. Other("client") = "server"
  BY DEF Other, Ends
<1>2. Other("server") = "client"
  BY DEF Other, Ends
<1> QED BY <1>1, <1>2 DEF Ends

LEMMA AppendFrames ==
  ASSUME NEW q \in Seq(Frame), NEW f \in Frame
  PROVE  /\ Append(q, f) \in Seq(Frame) /\ Len(Append(q, f)) = Len(q) + 1
         /\ \A c : Of(Append(q, f), c) = Of(q, c) \cup (IF f.id = c THEN {f} ELSE {})
         /\ \A K, c :
              Once(q, K, c) /\ (f.id = c /\ f.kind \in K => \A g \in Of(q, c) : g.kind \notin K)
                => Once(Append(q, f), K, c)
<1> DEFINE p == Append(q, f)
<1>1. p \in Seq(Frame) /\ Len(p) = Len(q) + 1 /\ Len(q) \in Nat /\ p[Len(q) + 1] = f
  OBVIOUS
<1>2. \A n \in 1 .. Len(q) : p[n] = q[n]
  OBVIOUS
<1> HIDE DEF p
<1>3. 1 .. Len(p) = (1 .. Len(q)) \cup {Len(q) + 1}
  BY <1>1
<1>4. Frames(p) = Frames(q) \cup {f}
  BY <1>1, <1>2, <1>3 DEF Frames
<1>5. \A c : Of(p, c) = Of(q, c) \cup (IF f.id = c THEN {f} ELSE {})
  BY <1>4 DEF Of
<1>6. ASSUME NEW K, NEW c, Once(q, K, c),
             f.id = c /\ f.kind \in K => \A g \in Of(q, c) : g.kind \notin K
      PROVE  Once(p, K, c)
  <2> SUFFICES ASSUME NEW m \in 1 .. Len(p), NEW n \in 1 .. Len(p),
                      p[m].id = c /\ p[m].kind \in K /\ p[n].id = c /\ p[n].kind \in K
               PROVE  m = n
    BY DEF Once
  <2>1. ASSUME NEW i \in 1 .. Len(q), p[i].kind \in K, p[i].id = c, f.kind \in K, f.id = c
        PROVE  FALSE
    BY <1>2, <1>6, <2>1 DEF Of, Frames
  <2> QED BY <1>1, <1>2, <1>3, <1>6, <2>1 DEF Once
<1> QED BY <1>1, <1>5, <1>6 DEF p

LEMMA TailFrames ==
  ASSUME NEW q \in Seq(Frame), q # <<>>
  PROVE  /\ Tail(q) \in Seq(Frame) /\ Len(Tail(q)) = Len(q) - 1 /\ Head(q) \in Frame
         /\ \A c : Of(q, c) = Of(Tail(q), c) \cup (IF Head(q).id = c THEN {Head(q)} ELSE {})
         /\ \A K, c : Once(q, K, c) =>
              /\ Once(Tail(q), K, c)
              /\ Head(q).id = c /\ Head(q).kind \in K => \A g \in Of(Tail(q), c) : g.kind \notin K
<1> DEFINE p == Tail(q)
<1>1. p \in Seq(Frame) /\ Len(p) = Len(q) - 1 /\ Len(q) \in Nat \ {0} /\ q[1] = Head(q) /\ Head(q) \in Frame
  OBVIOUS
<1>2. \A n \in 1 .. Len(p) : p[n] = q[n + 1] /\ n + 1 \in 1 .. Len(q)
  OBVIOUS
<1> HIDE DEF p
<1>3. \A n \in 1 .. Len(q) : n = 1 \/ (n - 1 \in 1 .. Len(p) /\ (n - 1) + 1 = n)
  BY <1>1
<1>4. Frames(q) = Frames(p) \cup {Head(q)}
  <2>1. ASSUME NEW n \in 1 .. Len(q)
        PROVE  q[n] \in Frames(p) \cup {Head(q)}
    <3>1. CASE n = 1
      BY <3>1, <1>1
    <3>2. CASE n # 1
      <4>1. n - 1 \in 1 .. Len(p) /\ p[n - 1] = q[n]
        BY <3>2, <1>2, <1>3
      <4> QED BY <4>1 DEF Frames
    <3> QED BY <3>1, <3>2
  <2>2. Frames(p) \subseteq Frames(q) /\ Head(q) \in Frames(q)
    BY <1>1, <1>2 DEF Frames
  <2> QED BY <2>1, <2>2 DEF Frames
<1>5. \A c : Of(q, c) = Of(p, c) \cup (IF Head(q).id = c THEN {Head(q)} ELSE {})
  BY <1>4 DEF Of
<1>6. ASSUME NEW K, NEW c, Once(q, K, c)
      PROVE  /\ Once(p, K, c)
             /\ Head(q).id = c /\ Head(q).kind \in K => \A g \in Of(p, c) : g.kind \notin K
  <2>1. Once(p, K, c)
    <3> SUFFICES ASSUME NEW m \in 1 .. Len(p), NEW n \in 1 .. Len(p),
                        p[m].id = c /\ p[m].kind \in K /\ p[n].id = c /\ p[n].kind \in K
                 PROVE  m = n
      BY DEF Once
    <3>1. m + 1 = n + 1
      BY <1>2, <1>6 DEF Once
    <3> QED BY <3>1
  <2>2. ASSUME NEW n \in 1 .. Len(p), p[n].kind \in K, p[n].id = c, Head(q).kind \in K, Head(q).id = c
        PROVE  FALSE
    <3>1. n + 1 = 1
      BY <1>1, <1>2, <1>6, <2>2 DEF Once
    <3> QED BY <3>1
  <2> QED BY <2>1, <2>2 DEF Of, Frames
<1> QED BY <1>1, <1>5, <1>6 DEF p

Transported == Messages \cup {"request"}
ControlsOnce(e, c) == Once(controls[e], {"ready"}, c) /\ Once(controls[e], {"pull"}, c)
DataOnce(e, c) == Once(data[e], Transported, c)

ControlsGain(e, c, S) ==
  /\ controls' \in [Ends -> Seq(Frame)]
  /\ \A x \in Ends, d \in Calls :
       /\ Of(controls'[x], d) = IF x = e /\ d = c THEN Of(controls[x], d) \cup S ELSE Of(controls[x], d)
       /\ /\ ControlsOnce(x, d)
          /\ x = e /\ d = c => \A f \in S : f.kind \in {"ready", "pull"} => ~Queued(e, f.kind, c)
          => ControlsOnce(x, d)'

ControlsLose(e, f) ==
  /\ controls' \in [Ends -> Seq(Frame)]
  /\ \A x \in Ends, d \in Calls :
       /\ Of(controls[x], d) = IF x = e /\ d = f.id THEN Of(controls'[x], d) \cup {f} ELSE Of(controls'[x], d)
       /\ ControlsOnce(x, d) => ControlsOnce(x, d)'
  /\ ControlsOnce(e, f.id) /\ f.kind \in {"ready", "pull"} =>
       \A g \in Of(controls'[e], f.id) : g.kind # f.kind

DataGain(e, f) ==
  /\ data' \in [Ends -> Seq(Frame)] /\ \A x \in Ends : Len(data'[x]) <= QueuedFrames
  /\ \A x \in Ends, d \in Calls :
       /\ Of(data'[x], d) = IF x = e /\ d = f.id THEN Of(data[x], d) \cup {f} ELSE Of(data[x], d)
       /\ DataOnce(x, d) /\ (x = e /\ d = f.id => Carried(x, d) = {}) => DataOnce(x, d)'

DataLose(e, f) ==
  /\ data' \in [Ends -> Seq(Frame)] /\ \A x \in Ends : Len(data'[x]) <= QueuedFrames
  /\ \A x \in Ends, d \in Calls :
       /\ Of(data[x], d) = IF x = e /\ d = f.id THEN Of(data'[x], d) \cup {f} ELSE Of(data'[x], d)
       /\ DataOnce(x, d) => DataOnce(x, d)'
  /\ DataOnce(e, f.id) /\ f.kind \in Transported =>
       \A g \in Of(data'[e], f.id) : g.kind \notin Transported

LEMMA OneMore ==
  ASSUME TypeOK, NEW e \in Ends, NEW c \in Calls, NEW f \in Frame, f.id = c,
         controls' = [controls EXCEPT ![e] = Append(@, f)]
  PROVE  ControlsGain(e, c, {f})
<1> DEFINE q == controls[e]
<1>1. q \in Seq(Frame) /\ controls'[e] = Append(q, f) /\ \A x \in Ends : x # e => controls'[x] = controls[x]
  BY DEF TypeOK
<1>2. controls' \in [Ends -> Seq(Frame)]
  BY <1>1, AppendFrames DEF TypeOK
<1>3. ASSUME NEW x \in Ends, NEW d \in Calls
      PROVE  /\ Of(controls'[x], d) = IF x = e /\ d = c THEN Of(controls[x], d) \cup {f} ELSE Of(controls[x], d)
             /\ /\ ControlsOnce(x, d)
                /\ x = e /\ d = c /\ f.kind \in {"ready", "pull"} => ~Queued(e, f.kind, c)
                => ControlsOnce(x, d)'
  <2>1. CASE x # e
    BY <2>1, <1>1 DEF ControlsOnce
  <2>2. CASE x = e
    <3>1. Of(controls'[e], d) = Of(q, d) \cup (IF f.id = d THEN {f} ELSE {})
      BY <1>1, AppendFrames
    <3>2. ASSUME NEW K, Once(q, K, d), d = c /\ f.kind \in K => \A g \in Of(q, c) : g.kind \notin K
          PROVE  Once(controls'[e], K, d)
      BY <3>2, <1>1, AppendFrames
    <3>3. ASSUME NEW k \in {"ready", "pull"}, Once(q, {k}, d), d = c /\ f.kind = k => ~Queued(e, k, c)
          PROVE  Once(controls'[e], {k}, d)
      BY <3>2, <3>3 DEF Queued
    <3> QED BY <2>2, <3>1, <3>3 DEF ControlsOnce
  <2> QED BY <2>1, <2>2
<1> QED BY <1>2, <1>3 DEF ControlsGain

\* QueueControl and QueueControls.
LEMMA ControlQueued ==
  ASSUME TypeOK, NEW e \in Ends, NEW c \in Calls, NEW k \in Controls, QueueControl(e, k, c)
  PROVE  ControlsGain(e, c, {ControlFrame(k, c)})
<1>1. ControlFrame(k, c) \in Frame /\ ControlFrame(k, c).id = c
  BY DEF ControlFrame, Frame
<1> QED BY <1>1, OneMore DEF QueueControl

LEMMA ReadyQueued ==
  ASSUME TypeOK, NEW e \in Ends, NEW c \in Calls, QueueControls(e, Ready(e, c))
  PROVE  ControlsGain(e, c, IF call[e][c].offer_pending THEN {} ELSE {ControlFrame("ready", c)})
<1>1. CASE call[e][c].offer_pending
  <2>1. controls' = controls
    BY <1>1 DEF TypeOK, QueueControls, Ready
  <2> QED BY <1>1, <2>1 DEF ControlsGain, TypeOK, ControlsOnce
<1>2. CASE ~call[e][c].offer_pending
  <2>1. ControlFrame("ready", c) \in Frame /\ ControlFrame("ready", c).id = c
    BY DEF ControlFrame, Frame, Controls
  <2>2. controls' = [controls EXCEPT ![e] = controls[e] \o <<ControlFrame("ready", c)>>]
    BY <1>2 DEF QueueControls, Ready
  <2>3. controls[e] \o <<ControlFrame("ready", c)>> = Append(controls[e], ControlFrame("ready", c))
    BY <2>1 DEF TypeOK
  <2> QED BY <1>2, <2>1, <2>2, <2>3, OneMore
<1> QED BY <1>1, <1>2

LEMMA ClosedQueued ==
  ASSUME TypeOK, NEW e \in Ends, NEW c \in Calls,
         QueueControls(e, <<ControlFrame("closed", c)>> \o Ready(e, c))
  PROVE  ControlsGain(e, c, {ControlFrame("closed", c)} \cup
                            (IF call[e][c].offer_pending THEN {} ELSE {ControlFrame("ready", c)}))
<1> DEFINE f == ControlFrame("closed", c)
           g == ControlFrame("ready", c)
           q == controls[e]
<1>1. f \in Frame /\ f.id = c /\ g \in Frame /\ g.id = c /\ f.kind = "closed" /\ g.kind = "ready"
  BY DEF ControlFrame, Frame, Controls
<1>2. q \in Seq(Frame)
  BY DEF TypeOK
<1>3. CASE call[e][c].offer_pending
  <2>1. controls' = [controls EXCEPT ![e] = q \o (<<f>> \o <<>>)]
    BY <1>3 DEF QueueControls, Ready
  <2> HIDE DEF f
  <2>2. q \o (<<f>> \o <<>>) = Append(q, f)
    BY <1>1, <1>2
  <2>3. ControlsGain(e, c, {f})
    BY <1>1, <2>1, <2>2, OneMore
  <2> QED BY <1>3, <2>3 DEF f
<1>4. CASE ~call[e][c].offer_pending
  <2> DEFINE p == Append(q, f)
             r == Append(p, g)
  <2>1. controls' = [controls EXCEPT ![e] = q \o (<<f>> \o <<g>>)]
    BY <1>4 DEF TypeOK, QueueControls, Ready
  <2> HIDE DEF f, g
  <2>2. q \o (<<f>> \o <<g>>) = r
    BY <1>1, <1>2
  <2>3. controls'[e] = r /\ \A x \in Ends : x # e => controls'[x] = controls[x]
    BY <2>1, <2>2 DEF TypeOK
  <2>4. /\ p \in Seq(Frame) /\ r \in Seq(Frame)
        /\ \A d : Of(r, d) = Of(q, d) \cup (IF d = c THEN {f, g} ELSE {})
    <3>1. p \in Seq(Frame) /\ \A d : Of(p, d) = Of(q, d) \cup (IF d = c THEN {f} ELSE {})
      BY <1>1, <1>2, AppendFrames
    <3> HIDE DEF p
    <3>2. r \in Seq(Frame) /\ \A d : Of(r, d) = Of(p, d) \cup (IF d = c THEN {g} ELSE {})
      BY <1>1, <3>1, AppendFrames
    <3> QED BY <3>1, <3>2
  <2>5. ASSUME NEW d \in Calls, NEW k \in {"ready", "pull"}, Once(q, {k}, d), d = c /\ k = "ready" => ~Queued(e, k, c)
        PROVE  Once(r, {k}, d)
    <3>1. Once(p, {k}, d) /\ Of(p, d) = Of(q, d) \cup (IF d = c THEN {f} ELSE {})
      BY <1>1, <1>2, <2>5, AppendFrames
    <3>2. g.id = d /\ g.kind \in {k} => \A h \in Of(p, d) : h.kind \notin {k}
      BY <1>1, <2>5, <3>1 DEF Queued
    <3> HIDE DEF p
    <3> QED BY <1>1, <2>4, <3>1, <3>2, AppendFrames
  <2> HIDE DEF r
  <2>6. ControlsGain(e, c, {f, g})
    <3>1. controls' \in [Ends -> Seq(Frame)]
      BY <2>3, <2>4, <2>1, <2>2 DEF TypeOK
    <3>2. ASSUME NEW x \in Ends, NEW d \in Calls
          PROVE  /\ Of(controls'[x], d) = IF x = e /\ d = c THEN Of(controls[x], d) \cup {f, g} ELSE Of(controls[x], d)
                 /\ /\ ControlsOnce(x, d)
                    /\ x = e /\ d = c => ~Queued(e, "ready", c)
                    => ControlsOnce(x, d)'
      BY <2>3, <2>4, <2>5 DEF ControlsOnce
    <3> QED BY <1>1, <3>1, <3>2 DEF ControlsGain
  <2> QED BY <1>4, <2>6 DEF f, g
<1> QED BY <1>3, <1>4

\* QueueData.
LEMMA DataQueued ==
  ASSUME TypeOK, NEW e \in Ends, NEW f \in Frame, QueueData(e, f)
  PROVE  DataGain(e, f)
<1> DEFINE q == data[e]
<1>1. q \in Seq(Frame) /\ data'[e] = Append(q, f) /\ \A x \in Ends : x # e => data'[x] = data[x]
  BY DEF TypeOK, QueueData
<1>2. data' \in [Ends -> Seq(Frame)]
  BY <1>1, AppendFrames DEF TypeOK, QueueData
<1>3. ASSUME NEW x \in Ends
      PROVE  Len(data'[x]) <= QueuedFrames
  <2>1. Len(Append(q, f)) = Len(q) + 1 /\ Len(q) < QueuedFrames /\ Len(q) \in Nat /\ QueuedFrames \in Nat
    BY <1>1, AppendFrames, SizesAssumption DEF QueueData
  <2>2. Len(data'[e]) <= QueuedFrames
    BY <1>1, <2>1
  <2> QED BY <1>1, <2>2 DEF TypeOK
<1>4. ASSUME NEW x \in Ends, NEW d \in Calls
      PROVE  /\ Of(data'[x], d) = IF x = e /\ d = f.id THEN Of(data[x], d) \cup {f} ELSE Of(data[x], d)
             /\ DataOnce(x, d) /\ (x = e /\ d = f.id => Carried(x, d) = {}) => DataOnce(x, d)'
  <2>1. CASE x # e
    BY <2>1, <1>1 DEF DataOnce
  <2>2. CASE x = e
    <3>1. Of(data'[e], d) = Of(q, d) \cup (IF f.id = d THEN {f} ELSE {})
      BY <1>1, AppendFrames
    <3>2. ASSUME Once(q, Transported, d), d = f.id => Of(q, d) = {}
          PROVE  Once(data'[e], Transported, d)
      <4>1. f.id = d /\ f.kind \in Transported => \A g \in Of(q, d) : g.kind \notin Transported
        BY <3>2
      <4> HIDE DEF q
      <4> QED BY <3>2, <4>1, <1>1, AppendFrames
    <3> QED BY <2>2, <3>1, <3>2 DEF DataOnce, Carried
  <2> QED BY <2>1, <2>2
<1> QED BY <1>2, <1>3, <1>4 DEF DataGain

\* Written.
LEMMA FrameWritten ==
  ASSUME TypeOK, NEW e \in Ends, NextFrames(e) # <<>>, Written(e),
         NEW f, f = Head(NextFrames(e))
  PROVE  /\ f \in Frame
         /\ \/ f \in Of(controls[e], f.id) /\ ControlsLose(e, f) /\ UNCHANGED data
            \/ f \in Of(data[e], f.id) /\ DataLose(e, f) /\ UNCHANGED controls
<1>1. CASE controls[e] # <<>>
  <2> DEFINE q == controls[e]
  <2>1. q \in Seq(Frame) /\ q # <<>> /\ f = Head(q) /\ UNCHANGED data
    BY <1>1 DEF TypeOK, NextFrames, Written
  <2>2. controls'[e] = Tail(q) /\ \A x \in Ends : x # e => controls'[x] = controls[x]
    BY <1>1 DEF TypeOK, Written
  <2> HIDE DEF q
  <2>3. f \in Frame /\ Tail(q) \in Seq(Frame)
    BY <2>1, TailFrames
  <2>4. controls' \in [Ends -> Seq(Frame)]
    BY <1>1, <2>3 DEF TypeOK, Written, q
  <2>5. \A d : Of(q, d) = Of(Tail(q), d) \cup (IF d = f.id THEN {f} ELSE {})
    BY <2>1, TailFrames
  <2>6. ASSUME NEW x \in Ends, NEW d \in Calls
        PROVE  /\ Of(controls[x], d) = IF x = e /\ d = f.id THEN Of(controls'[x], d) \cup {f} ELSE Of(controls'[x], d)
               /\ ControlsOnce(x, d) => ControlsOnce(x, d)'
    <3>1. CASE x # e
      BY <3>1, <2>2 DEF ControlsOnce
    <3>2. CASE x = e
      <4>1. \A K : Once(q, K, d) => Once(Tail(q), K, d)
        BY <2>1, TailFrames
      <4> QED BY <2>2, <2>5, <3>2, <4>1 DEF ControlsOnce, q
    <3> QED BY <3>1, <3>2
  <2>7. ASSUME ControlsOnce(e, f.id), f.kind \in {"ready", "pull"}
        PROVE  \A g \in Of(controls'[e], f.id) : g.kind # f.kind
    <3>1. Once(q, {f.kind}, f.id)
      BY <2>7 DEF ControlsOnce, q
    <3>2. \A g \in Of(Tail(q), f.id) : g.kind # f.kind
      BY <2>1, <3>1, TailFrames
    <3> QED BY <2>2, <3>2
  <2>8. f \in Of(controls[e], f.id)
    BY <2>5 DEF q
  <2> QED BY <2>1, <2>3, <2>4, <2>6, <2>7, <2>8 DEF ControlsLose
<1>2. CASE controls[e] = <<>>
  <2> DEFINE q == data[e]
  <2>1. q \in Seq(Frame) /\ q # <<>> /\ f = Head(q) /\ UNCHANGED controls
    BY <1>2 DEF TypeOK, NextFrames, Written
  <2>2. data'[e] = Tail(q) /\ \A x \in Ends : x # e => data'[x] = data[x]
    BY <1>2 DEF TypeOK, Written
  <2> HIDE DEF q
  <2>3. f \in Frame /\ Tail(q) \in Seq(Frame) /\ Len(Tail(q)) = Len(q) - 1
    BY <2>1, TailFrames
  <2>4. data' \in [Ends -> Seq(Frame)]
    BY <1>2, <2>3 DEF TypeOK, Written, q
  <2>5. \A d : Of(q, d) = Of(Tail(q), d) \cup (IF d = f.id THEN {f} ELSE {})
    BY <2>1, TailFrames
  <2>6. ASSUME NEW x \in Ends, NEW d \in Calls
        PROVE  /\ Of(data[x], d) = IF x = e /\ d = f.id THEN Of(data'[x], d) \cup {f} ELSE Of(data'[x], d)
               /\ DataOnce(x, d) => DataOnce(x, d)'
    <3>1. CASE x # e
      BY <3>1, <2>2 DEF DataOnce
    <3>2. CASE x = e
      <4>1. \A K : Once(q, K, d) => Once(Tail(q), K, d)
        BY <2>1, TailFrames
      <4> QED BY <2>2, <2>5, <3>2, <4>1 DEF DataOnce, q
    <3> QED BY <3>1, <3>2
  <2>7. ASSUME DataOnce(e, f.id), f.kind \in Transported
        PROVE  \A g \in Of(data'[e], f.id) : g.kind \notin Transported
    <3>1. Once(q, Transported, f.id)
      BY <2>7 DEF DataOnce, q
    <3>2. \A g \in Of(Tail(q), f.id) : g.kind \notin Transported
      BY <2>1, <2>7, <3>1, TailFrames
    <3> QED BY <2>2, <3>2
  <2>8. f \in Of(data[e], f.id)
    BY <2>5 DEF q
  <2>9. \A x \in Ends : Len(data'[x]) <= QueuedFrames
    <3>1. Len(q) <= QueuedFrames /\ Len(q) \in Nat /\ QueuedFrames \in Nat
      <4>1. Len(q) <= QueuedFrames /\ QueuedFrames \in Nat
        BY SizesAssumption DEF TypeOK, q
      <4> QED BY <2>1, <4>1
    <3>2. Len(data'[e]) <= QueuedFrames
      BY <2>2, <2>3, <3>1
    <3> QED BY <2>2, <3>2 DEF TypeOK
  <2> QED BY <2>1, <2>3, <2>4, <2>6, <2>7, <2>8, <2>9 DEF DataLose
<1> QED BY <1>1, <1>2

-----------------------------------------------------------------------------
(* What the steps do to the state of one call at one end.                  *)

Sender == [step : Sends, kind : Messages \cup {"none"}, part : Nat]
Receiver == [step : Receives, kind : Messages \cup {"none"}, parts : Nat]

RequestRead(c, b) == call' = [call EXCEPT !["server"][c].cancelled = b]
FrameApplied(e, f) == call' = [call EXCEPT ![e][f.id] = Applied(e, f)]
PermitUsed(e, c, b) == call' = [call EXCEPT ![e][c].peer_permit = FALSE, ![e][c].offer_pending = b]
PullRequested(e, c) == call' = [call EXCEPT ![e][c].ready = FALSE, ![e][c].receive_requested = TRUE]
FrameDelivered(e, c, b) ==
  call' = [call EXCEPT ![e][c].delivery = None, ![e][c].receive_requested = FALSE,
                       ![e][c].complete = @ \/ b]
SenderDone(e, c) == sender' = [sender EXCEPT ![e][c] = NotSending]
ReceiverMoved(e, c, s) == receiver' = [receiver EXCEPT ![e][c].step = s]
Assembled(e, c, v) == receiver' = [receiver EXCEPT ![e][c] = v]

\* g is f but for one end and call.
Changed(f, g, e, c, v) ==
  /\ g[e][c] = v
  /\ \A x \in Ends, d \in Calls : x # e \/ d # c => g[x][d] = f[x][d]

LEMMA Update ==
  ASSUME NEW D, NEW f \in [Ends -> [Calls -> D]], NEW e \in Ends, NEW c \in Calls, NEW v \in D
  PROVE  LET g == [f EXCEPT ![e][c] = v]
         IN  g \in [Ends -> [Calls -> D]] /\ Changed(f, g, e, c, v)
BY DEF Changed

LEMMA CallUpdate ==
  ASSUME TypeOK, NEW e \in Ends, NEW c \in Calls, NEW v \in Invocation, call' = [call EXCEPT ![e][c] = v]
  PROVE  call' \in [Ends -> [Calls -> Invocation]] /\ Changed(call, call', e, c, v)
<1>1. call \in [Ends -> [Calls -> Invocation]]
  BY DEF TypeOK
<1> QED BY <1>1, Update

LEMMA SenderUpdate ==
  ASSUME TypeOK, NEW e \in Ends, NEW c \in Calls, NEW v \in Sender, sender' = [sender EXCEPT ![e][c] = v]
  PROVE  sender' \in [Ends -> [Calls -> Sender]] /\ Changed(sender, sender', e, c, v)
<1>1. sender \in [Ends -> [Calls -> Sender]]
  BY DEF TypeOK, Sender
<1> QED BY <1>1, Update

LEMMA ReceiverUpdate ==
  ASSUME TypeOK, NEW e \in Ends, NEW c \in Calls, NEW v \in Receiver, receiver' = [receiver EXCEPT ![e][c] = v]
  PROVE  receiver' \in [Ends -> [Calls -> Receiver]] /\ Changed(receiver, receiver', e, c, v)
<1>1. receiver \in [Ends -> [Calls -> Receiver]]
  BY DEF TypeOK, Receiver
<1> QED BY <1>1, Update

\* ReadRequest, of the call that comes.
LEMMA RequestReadEffect ==
  ASSUME TypeOK, NEW c \in Calls, NEW b \in BOOLEAN, RequestRead(c, b)
  PROVE  Changed(call, call', "server", c, [call["server"][c] EXCEPT !.cancelled = b]) /\ call' \in [Ends -> [Calls -> Invocation]]
<1> DEFINE v == [call["server"][c] EXCEPT !.cancelled = b]
<1>1. "server" \in Ends /\ call \in [Ends -> [Calls -> Invocation]] /\ call["server"][c] \in Invocation
  BY SMTT(40) DEF TypeOK, Ends, Sender, Receiver
<1>2. v \in Invocation
  BY <1>1 DEF Invocation
<1>3. call' = [call EXCEPT !["server"][c] = v]
  BY <1>1 DEF TypeOK, RequestRead
<1> HIDE DEF v
<1>4. Changed(call, call', "server", c, v) /\ call' \in [Ends -> [Calls -> Invocation]]
  BY <1>1, <1>2, <1>3, CallUpdate
<1> QED BY <1>4 DEF v

\* ReadKnown.
LEMMA FrameAppliedEffect ==
  ASSUME TypeOK, NEW e \in Ends, NEW c \in Calls, NEW f \in Frame, f.kind # "request", f.id = c,
         FrameApplied(e, f)
  PROVE  Changed(call, call', e, c, Applied(e, f)) /\ call' \in [Ends -> [Calls -> Invocation]]
<1> DEFINE v == Applied(e, f)
<1>1. e \in Ends /\ call \in [Ends -> [Calls -> Invocation]] /\ call[e][c] \in Invocation
  BY SMTT(40) DEF TypeOK, Ends, Sender, Receiver
<1>2. v \in Invocation
  BY <1>1 DEF Applied, Invocation, Frame, Messages, Controls
<1>3. call' = [call EXCEPT ![e][c] = v]
  BY <1>1 DEF TypeOK, FrameApplied
<1> HIDE DEF v
<1>4. Changed(call, call', e, c, v) /\ call' \in [Ends -> [Calls -> Invocation]]
  BY <1>1, <1>2, <1>3, CallUpdate
<1> QED BY <1>4 DEF v

\* Post.
LEMMA PostEffect ==
  ASSUME TypeOK, NEW e \in Ends, NEW c \in Calls, NEW b \in BOOLEAN, PermitUsed(e, c, b)
  PROVE  Changed(call, call', e, c, [call[e][c] EXCEPT !.peer_permit = FALSE, !.offer_pending = b]) /\ call' \in [Ends -> [Calls -> Invocation]]
<1> DEFINE v == [call[e][c] EXCEPT !.peer_permit = FALSE, !.offer_pending = b]
<1>1. e \in Ends /\ call \in [Ends -> [Calls -> Invocation]] /\ call[e][c] \in Invocation
  BY SMTT(40) DEF TypeOK, Ends, Sender, Receiver
<1>2. v \in Invocation
  BY <1>1 DEF Invocation
<1>3. call' = [call EXCEPT ![e][c] = v]
  BY <1>1 DEF TypeOK, PermitUsed
<1> HIDE DEF v
<1>4. Changed(call, call', e, c, v) /\ call' \in [Ends -> [Calls -> Invocation]]
  BY <1>1, <1>2, <1>3, CallUpdate
<1> QED BY <1>4 DEF v

\* Pending.
LEMMA PendingEffect ==
  ASSUME TypeOK, NEW e \in Ends, NEW c \in Calls, Pending(e, c)
  PROVE  Changed(call, call', e, c, [call[e][c] EXCEPT !.offer_pending = TRUE]) /\ call' \in [Ends -> [Calls -> Invocation]]
<1> DEFINE v == [call[e][c] EXCEPT !.offer_pending = TRUE]
<1>1. e \in Ends /\ call \in [Ends -> [Calls -> Invocation]] /\ call[e][c] \in Invocation
  BY SMTT(40) DEF TypeOK, Ends, Sender, Receiver
<1>2. v \in Invocation
  BY <1>1 DEF Invocation
<1>3. call' = [call EXCEPT ![e][c] = v]
  BY <1>1 DEF TypeOK, Pending
<1> HIDE DEF v
<1>4. Changed(call, call', e, c, v) /\ call' \in [Ends -> [Calls -> Invocation]]
  BY <1>1, <1>2, <1>3, CallUpdate
<1> QED BY <1>4 DEF v

\* Pull, Deliver and Retired.
LEMMA PullEffect ==
  ASSUME TypeOK, NEW e \in Ends, NEW c \in Calls, PullRequested(e, c)
  PROVE  Changed(call, call', e, c, [call[e][c] EXCEPT !.ready = FALSE, !.receive_requested = TRUE]) /\ call' \in [Ends -> [Calls -> Invocation]]
<1> DEFINE v == [call[e][c] EXCEPT !.ready = FALSE, !.receive_requested = TRUE]
<1>1. e \in Ends /\ call \in [Ends -> [Calls -> Invocation]] /\ call[e][c] \in Invocation
  BY SMTT(40) DEF TypeOK, Ends, Sender, Receiver
<1>2. v \in Invocation
  BY <1>1 DEF Invocation
<1>3. call' = [call EXCEPT ![e][c] = v]
  BY <1>1 DEF TypeOK, PullRequested
<1> HIDE DEF v
<1>4. Changed(call, call', e, c, v) /\ call' \in [Ends -> [Calls -> Invocation]]
  BY <1>1, <1>2, <1>3, CallUpdate
<1> QED BY <1>4 DEF v

LEMMA DeliverEffect ==
  ASSUME TypeOK, NEW e \in Ends, NEW c \in Calls, NEW b \in BOOLEAN, FrameDelivered(e, c, b)
  PROVE  Changed(call, call', e, c, [call[e][c] EXCEPT !.delivery = None, !.receive_requested = FALSE,
                               !.complete = @ \/ b]) /\ call' \in [Ends -> [Calls -> Invocation]]
<1> DEFINE v == [call[e][c] EXCEPT !.delivery = None, !.receive_requested = FALSE,
                               !.complete = @ \/ b]
<1>1. e \in Ends /\ call \in [Ends -> [Calls -> Invocation]] /\ call[e][c] \in Invocation
  BY SMTT(40) DEF TypeOK, Ends, Sender, Receiver
<1>2. v \in Invocation
  BY <1>1 DEF Invocation
<1>3. call' = [call EXCEPT ![e][c] = v]
  BY <1>1 DEF TypeOK, FrameDelivered
<1> HIDE DEF v
<1>4. Changed(call, call', e, c, v) /\ call' \in [Ends -> [Calls -> Invocation]]
  BY <1>1, <1>2, <1>3, CallUpdate
<1> QED BY <1>4 DEF v

LEMMA RetireEffect ==
  ASSUME TypeOK, NEW c \in Calls, Retired(c)
  PROVE  Changed(call, call', "server", c, [call["server"][c] EXCEPT !.receive_requested = FALSE, !.delivery = None,
                                      !.complete = TRUE]) /\ call' \in [Ends -> [Calls -> Invocation]]
<1> DEFINE v == [call["server"][c] EXCEPT !.receive_requested = FALSE, !.delivery = None,
                                      !.complete = TRUE]
<1>1. "server" \in Ends /\ call \in [Ends -> [Calls -> Invocation]] /\ call["server"][c] \in Invocation
  BY SMTT(40) DEF TypeOK, Ends, Sender, Receiver
<1>2. v \in Invocation
  BY <1>1 DEF Invocation
<1>3. call' = [call EXCEPT !["server"][c] = v]
  BY <1>1 DEF TypeOK, Retired
<1> HIDE DEF v
<1>4. Changed(call, call', "server", c, v) /\ call' \in [Ends -> [Calls -> Invocation]]
  BY <1>1, <1>2, <1>3, CallUpdate
<1> QED BY <1>4 DEF v

\* Cancel.
LEMMA CancelEffect ==
  ASSUME TypeOK, NEW c \in Calls, Cancel(c)
  PROVE  Changed(call, call', "client", c, [call["client"][c] EXCEPT !.cancelled = TRUE]) /\ call' \in [Ends -> [Calls -> Invocation]]
<1> DEFINE v == [call["client"][c] EXCEPT !.cancelled = TRUE]
<1>1. "client" \in Ends /\ call \in [Ends -> [Calls -> Invocation]] /\ call["client"][c] \in Invocation
  BY SMTT(40) DEF TypeOK, Ends, Sender, Receiver
<1>2. v \in Invocation
  BY <1>1 DEF Invocation
<1>3. call' = [call EXCEPT !["client"][c] = v]
  BY <1>1 DEF TypeOK, Cancel
<1> HIDE DEF v
<1>4. Changed(call, call', "client", c, v) /\ call' \in [Ends -> [Calls -> Invocation]]
  BY <1>1, <1>2, <1>3, CallUpdate
<1> QED BY <1>4 DEF v

\* Offers, and the sender that throws.
LEMMA OfferEffect ==
  ASSUME TypeOK, NEW e \in Ends, NEW c \in Calls, NEW kind \in Messages, NEW part \in Nat, Offers(e, c, kind, part)
  PROVE  Changed(sender, sender', e, c, [step |-> "permit", kind |-> kind, part |-> part]) /\ sender' \in [Ends -> [Calls -> Sender]]
<1> DEFINE v == [step |-> "permit", kind |-> kind, part |-> part]
<1>1. e \in Ends /\ sender \in [Ends -> [Calls -> Sender]] /\ sender[e][c] \in Sender
  BY SMTT(40) DEF TypeOK, Ends, Sender, Receiver
<1>2. v \in Sender
  BY <1>1 DEF Sender, Sends
<1>3. sender' = [sender EXCEPT ![e][c] = v]
  BY <1>1 DEF TypeOK, Offers
<1> HIDE DEF v
<1>4. Changed(sender, sender', e, c, v) /\ sender' \in [Ends -> [Calls -> Sender]]
  BY <1>1, <1>2, <1>3, SenderUpdate
<1> QED BY <1>4 DEF v

LEMMA SenderDoneEffect ==
  ASSUME TypeOK, NEW e \in Ends, NEW c \in Calls, SenderDone(e, c)
  PROVE  Changed(sender, sender', e, c, NotSending) /\ sender' \in [Ends -> [Calls -> Sender]]
<1> DEFINE v == NotSending
<1>1. e \in Ends /\ sender \in [Ends -> [Calls -> Sender]] /\ sender[e][c] \in Sender
  BY SMTT(40) DEF TypeOK, Ends, Sender, Receiver
<1>2. v \in Sender
  BY <1>1 DEF Sender, Sends, NotSending
<1>3. sender' = [sender EXCEPT ![e][c] = v]
  BY <1>1 DEF TypeOK, SenderDone
<1> HIDE DEF v
<1>4. Changed(sender, sender', e, c, v) /\ sender' \in [Ends -> [Calls -> Sender]]
  BY <1>1, <1>2, <1>3, SenderUpdate
<1> QED BY <1>4 DEF v

LEMMA ThrowEffect ==
  ASSUME TypeOK, NEW e \in Ends, NEW c \in Calls, SenderThrows(e, c)
  PROVE  Changed(sender, sender', e, c, [sender[e][c] EXCEPT !.step = "thrown"]) /\ sender' \in [Ends -> [Calls -> Sender]]
<1> DEFINE v == [sender[e][c] EXCEPT !.step = "thrown"]
<1>1. e \in Ends /\ sender \in [Ends -> [Calls -> Sender]] /\ sender[e][c] \in Sender
  BY SMTT(40) DEF TypeOK, Ends, Sender, Receiver
<1>2. v \in Sender
  BY <1>1 DEF Sender, Sends
<1>3. sender' = [sender EXCEPT ![e][c] = v]
  BY <1>1 DEF TypeOK, SenderThrows
<1> HIDE DEF v
<1>4. Changed(sender, sender', e, c, v) /\ sender' \in [Ends -> [Calls -> Sender]]
  BY <1>1, <1>2, <1>3, SenderUpdate
<1> QED BY <1>4 DEF v

\* The receiver moves, or has assembled something.
LEMMA ReceiverEffect ==
  ASSUME TypeOK, NEW e \in Ends, NEW c \in Calls, NEW s \in Receives, ReceiverMoved(e, c, s)
  PROVE  Changed(receiver, receiver', e, c, [receiver[e][c] EXCEPT !.step = s]) /\ receiver' \in [Ends -> [Calls -> Receiver]]
<1> DEFINE v == [receiver[e][c] EXCEPT !.step = s]
<1>1. e \in Ends /\ receiver \in [Ends -> [Calls -> Receiver]] /\ receiver[e][c] \in Receiver
  BY SMTT(40) DEF TypeOK, Ends, Sender, Receiver
<1>2. v \in Receiver
  BY <1>1 DEF Receiver
<1>3. receiver' = [receiver EXCEPT ![e][c] = v]
  BY <1>1 DEF TypeOK, ReceiverMoved
<1> HIDE DEF v
<1>4. Changed(receiver, receiver', e, c, v) /\ receiver' \in [Ends -> [Calls -> Receiver]]
  BY <1>1, <1>2, <1>3, ReceiverUpdate
<1> QED BY <1>4 DEF v

LEMMA AssembledEffect ==
  ASSUME TypeOK, NEW e \in Ends, NEW c \in Calls, NEW a \in Receiver, Assembled(e, c, a)
  PROVE  Changed(receiver, receiver', e, c, a) /\ receiver' \in [Ends -> [Calls -> Receiver]]
<1> DEFINE v == a
<1>1. e \in Ends /\ receiver \in [Ends -> [Calls -> Receiver]] /\ receiver[e][c] \in Receiver
  BY SMTT(40) DEF TypeOK, Ends, Sender, Receiver
<1>2. v \in Receiver
  BY <1>1 DEF Receiver
<1>3. receiver' = [receiver EXCEPT ![e][c] = v]
  BY <1>1 DEF TypeOK, Assembled
<1> HIDE DEF v
<1>4. Changed(receiver, receiver', e, c, v) /\ receiver' \in [Ends -> [Calls -> Receiver]]
  BY <1>1, <1>2, <1>3, ReceiverUpdate
<1> QED BY <1>4 DEF v

LEMMA SlotsCounted ==
  ASSUME TypeOK, NEW e \in Ends, NEW c \in Calls, NEW v \in Invocation, Changed(call, call', e, c, v),
         \A x \in Ends : x # e => slots'[x] = slots[x],
         \/ v.receive_requested = call[e][c].receive_requested /\ slots'[e] = slots[e]
         \/ v.receive_requested /\ ~call[e][c].receive_requested /\ slots'[e] = slots[e] + 1
         \/ ~v.receive_requested /\ call[e][c].receive_requested /\ slots'[e] = slots[e] - 1
  PROVE  \A x \in Ends : slots'[x] \in Nat /\ slots'[x] = Cardinality(Reserved(x)')
<1>1. \A x \in Ends : slots[x] \in Nat /\ slots[x] = Cardinality(Reserved(x)) /\ IsFiniteSet(Reserved(x))
  <2>1. ASSUME NEW x \in Ends
        PROVE  IsFiniteSet(Reserved(x))
    BY CallsAssumption, FS_Subset, Reserved(x) \subseteq Calls DEF Reserved
  <2>2. ASSUME NEW x \in Ends
        PROVE  slots[x] \in Nat /\ slots[x] = Cardinality(Reserved(x))
    BY SizesAssumption DEF TypeOK, Reserved
  <2> QED BY <2>1, <2>2
<1>2. \A x \in Ends : x # e => Reserved(x)' = Reserved(x)
  BY DEF Reserved, Changed
<1>3. CASE v.receive_requested = call[e][c].receive_requested /\ slots'[e] = slots[e]
  <2>1. Reserved(e)' = Reserved(e)
    BY <1>3 DEF Reserved, Changed
  <2> QED BY <1>1, <1>2, <1>3, <2>1
<1>4. CASE v.receive_requested /\ ~call[e][c].receive_requested /\ slots'[e] = slots[e] + 1
  <2>1. Reserved(e)' = Reserved(e) \cup {c} /\ c \notin Reserved(e)
    BY <1>4 DEF Reserved, Changed
  <2>2. Cardinality(Reserved(e) \cup {c}) = Cardinality(Reserved(e)) + 1
    BY <1>1, <2>1, FS_AddElement
  <2>3. slots'[e] = Cardinality(Reserved(e)') /\ slots'[e] \in Nat
    BY <1>1, <1>4, <2>1, <2>2
  <2> QED BY <1>1, <1>2, <2>3
<1>5. CASE ~v.receive_requested /\ call[e][c].receive_requested /\ slots'[e] = slots[e] - 1
  <2>1. Reserved(e)' = Reserved(e) \ {c} /\ c \in Reserved(e)
    BY <1>5 DEF Reserved, Changed
  <2>2. Cardinality(Reserved(e) \ {c}) = Cardinality(Reserved(e)) - 1
    BY <1>1, <2>1, FS_RemoveElement
  <2>3. Cardinality(Reserved(e) \ {c}) \in Nat
    BY <1>1, FS_Subset, FS_CardinalityType
  <2> QED BY <1>1, <1>2, <1>5, <2>1, <2>2, <2>3
<1> QED BY <1>3, <1>4, <1>5

-----------------------------------------------------------------------------
(* Types.                                                                  *)

CallsTyped ==
  /\ call \in [Ends -> [Calls -> Invocation]] /\ slots \in [Ends -> 0 .. DeliverySlots]
  /\ \A e \in Ends : slots[e] = Cardinality(Reserved(e))
  /\ Deliveries
QueuesTyped ==
  /\ controls \in [Ends -> Seq(Frame)] /\ data \in [Ends -> Seq(Frame)]
  /\ \A e \in Ends : Len(data[e]) <= QueuedFrames
SetsTyped ==
  /\ calls \in [Ends -> SUBSET Calls] /\ seen \in [Ends -> SUBSET Calls]
  /\ failure \in {"none", "closed", "limit", "protocol"}
  /\ written \subseteq Calls /\ early \subseteq Calls /\ marking \in Calls \cup {None}
  /\ incoming \in Seq(Calls)
ThreadsTyped ==
  /\ sender \in [Ends -> [Calls -> Sender]] /\ receiver \in [Ends -> [Calls -> Receiver]]
  /\ canceller \in [Calls -> {"idle", "queueing", "done"}]
  /\ worker \in [Calls -> {"none", "accepted", "running", "completing", "joining", "ended"}]
  /\ hook \in [Calls -> {"none", "set", "queued", "run"}]
  /\ sent \in [Ends -> [Calls -> 0 .. MaxMessages + 1]]

LEMMA TypeParts ==
  TypeOK /\ Deliveries <=> CallsTyped /\ QueuesTyped /\ SetsTyped /\ ThreadsTyped
BY DEF TypeOK, CallsTyped, QueuesTyped, SetsTyped, ThreadsTyped, Reserved, Sender, Receiver

LEMMA TypeWhole ==
  CallsTyped' /\ QueuesTyped' /\ SetsTyped' /\ ThreadsTyped' => TypeOK' /\ Deliveries'
BY DEF TypeOK, CallsTyped, QueuesTyped, SetsTyped, ThreadsTyped, Reserved, Sender, Receiver

\* One call changes at one end, and its slot as the flag does.
LEMMA OneCall ==
  ASSUME TypeOK, Deliveries, NEW e \in Ends, NEW c \in Calls, NEW v \in Invocation, NEW n,
         call' \in [Ends -> [Calls -> Invocation]], Changed(call, call', e, c, v),
         v.delivery # None => v.receive_requested /\ v.delivery.kind \in Messages,
         slots' = [slots EXCEPT ![e] = n], n <= DeliverySlots,
         \/ v.receive_requested = call[e][c].receive_requested /\ n = slots[e]
         \/ v.receive_requested /\ ~call[e][c].receive_requested /\ n = slots[e] + 1
         \/ ~v.receive_requested /\ call[e][c].receive_requested /\ n = slots[e] - 1
  PROVE  CallsTyped'
<1>1. slots \in [Ends -> 0 .. DeliverySlots] /\ DeliverySlots \in Nat
  BY SizesAssumption DEF TypeOK
<1>2. slots'[e] = n /\ \A x \in Ends : x # e => slots'[x] = slots[x]
  BY <1>1
<1>3. \A x \in Ends : slots'[x] \in Nat /\ slots'[x] = Cardinality(Reserved(x)')
  BY <1>2, SlotsCounted
<1>4. slots' \in [Ends -> 0 .. DeliverySlots]
  BY <1>1, <1>2, <1>3
<1>5. Deliveries'
  BY DEF Deliveries, Changed
<1> QED BY <1>3, <1>4, <1>5 DEF CallsTyped

LEMMA SameSlots ==
  ASSUME TypeOK, Deliveries, NEW e \in Ends, NEW c \in Calls, NEW v \in Invocation,
         call' \in [Ends -> [Calls -> Invocation]], Changed(call, call', e, c, v),
         v.delivery # None => v.receive_requested /\ v.delivery.kind \in Messages,
         v.receive_requested = call[e][c].receive_requested, UNCHANGED slots
  PROVE  CallsTyped'
<1>1. slots' = [slots EXCEPT ![e] = slots[e]] /\ slots[e] <= DeliverySlots
  BY SizesAssumption DEF TypeOK
<1> QED BY <1>1, OneCall

\* What the queues hold: requests and cancellations come from the client.
Wired ==
  /\ \A e \in Ends, c \in Calls : sender[e][c].step = "permit" => sender[e][c].kind \in Messages
  /\ \A c \in Calls :
       /\ \A f \in Of(controls["client"], c) : f.kind \in {"ready", "pull", "cancel"}
       /\ \A f \in Of(controls["server"], c) : f.kind \in {"ready", "pull", "closed"}
       /\ \A f \in Of(data["client"], c) : f.kind \in Transported
       /\ \A f \in Of(data["server"], c) : f.kind \in Messages

Unfailed == ~Fail("protocol") /\ ~Fail("limit") /\ ~Fail("closed")

\* The frame that is read.
LEMMA HeadFrame ==
  ASSUME TypeOK, NEW e \in Ends, NextFrames(e) # <<>>
  PROVE  Head(NextFrames(e)) \in Frame
<1>1. NextFrames(e) \in Seq(Frame)
  BY DEF TypeOK, NextFrames
<1> QED BY <1>1, TailFrames

LEMMA Permits ==
  ASSUME TypeOK, Wired, NEW e \in Ends, NEW c \in Calls, NEW k \in Messages, NEW p \in Nat, Offers(e, c, k, p)
  PROVE  \A x \in Ends, d \in Calls : sender'[x][d].step = "permit" => sender'[x][d].kind \in Messages
<1>1. Changed(sender, sender', e, c, [step |-> "permit", kind |-> k, part |-> p])
  BY OfferEffect
<1>2. sender'[e][c].kind \in Messages
  BY <1>1 DEF Changed
<1>3. \A x \in Ends, d \in Calls : x # e \/ d # c => sender'[x][d] = sender[x][d]
  BY <1>1 DEF Changed
<1> QED BY <1>2, <1>3 DEF Wired

LEMMA RequestHead ==
  ASSUME TypeOK, Wired, NEW e \in Ends, NextFrames(e) # <<>>,
         Head(NextFrames(e)).kind \in {"request", "cancel"}
  PROVE  e = "client"
<1> DEFINE q == NextFrames(e)
           f == Head(q)
<1>1. q \in Seq(Frame) /\ q # <<>> /\ (q = controls[e] \/ q = data[e])
  BY DEF TypeOK, NextFrames
<1> HIDE DEF q
<1>2. f \in Frame /\ f \in Of(q, f.id)
  BY <1>1, TailFrames
<1>3. f.id \in Calls /\ f.kind \in {"request", "cancel"}
  BY <1>2 DEF Frame, q
<1> HIDE DEF f
<1> QED BY <1>1, <1>2, <1>3 DEF Wired, Ends, Messages

LEMMA RequestTyped ==
  ASSUME TypeOK, Deliveries, NEW c \in Calls, NEW b \in BOOLEAN, RequestRead(c, b), UNCHANGED slots
  PROVE  CallsTyped'
<1> DEFINE v == [call["server"][c] EXCEPT !.cancelled = b]
<1>1. "server" \in Ends /\ call["server"][c] \in Invocation
  BY DEF TypeOK, Ends
<1>2. call' \in [Ends -> [Calls -> Invocation]] /\ Changed(call, call', "server", c, v)
  BY RequestReadEffect
<1>3. v \in Invocation
  BY <1>1, <1>2 DEF Changed
<1>4. v.receive_requested = call["server"][c].receive_requested
  BY <1>1 DEF Invocation, Deliveries
<1>5. v.delivery # None => v.receive_requested /\ v.delivery.kind \in Messages
  BY <1>1 DEF Invocation, Deliveries
<1> HIDE DEF v
<1> QED BY <1>1, <1>2, <1>3, <1>4, <1>5, SameSlots

LEMMA ApplyTyped ==
  ASSUME TypeOK, Deliveries, NEW e \in Ends, NEW c \in Calls, NEW f \in Frame,
         f.kind # "request", f.id = c, FrameApplied(e, f), ~Offending(e, f), UNCHANGED slots
  PROVE  CallsTyped'
<1> DEFINE v == Applied(e, f)
<1>1. e \in Ends /\ call[e][c] \in Invocation
  BY DEF TypeOK, Ends
<1>2. call' \in [Ends -> [Calls -> Invocation]] /\ Changed(call, call', e, c, v)
  BY FrameAppliedEffect
<1>3. v \in Invocation
  BY <1>1, <1>2 DEF Changed
<1>4. v.receive_requested = call[e][c].receive_requested
  BY <1>1 DEF Invocation, Deliveries, Applied, Offending, Messages, Controls, Frame
<1>5. v.delivery # None => v.receive_requested /\ v.delivery.kind \in Messages
  BY <1>1 DEF Invocation, Deliveries, Applied, Offending, Messages, Controls, Frame
<1> HIDE DEF v
<1> QED BY <1>1, <1>2, <1>3, <1>4, <1>5, SameSlots

LEMMA PostTyped ==
  ASSUME TypeOK, Deliveries, NEW e \in Ends, NEW c \in Calls, NEW b \in BOOLEAN, PermitUsed(e, c, b),
         UNCHANGED slots
  PROVE  CallsTyped'
<1> DEFINE v == [call[e][c] EXCEPT !.peer_permit = FALSE, !.offer_pending = b]
<1>1. e \in Ends /\ call[e][c] \in Invocation
  BY DEF TypeOK, Ends
<1>2. call' \in [Ends -> [Calls -> Invocation]] /\ Changed(call, call', e, c, v)
  BY PostEffect
<1>3. v \in Invocation
  BY <1>1, <1>2 DEF Changed
<1>4. v.receive_requested = call[e][c].receive_requested
  BY <1>1 DEF Invocation, Deliveries
<1>5. v.delivery # None => v.receive_requested /\ v.delivery.kind \in Messages
  BY <1>1 DEF Invocation, Deliveries
<1> HIDE DEF v
<1> QED BY <1>1, <1>2, <1>3, <1>4, <1>5, SameSlots

LEMMA PendingTyped ==
  ASSUME TypeOK, Deliveries, NEW e \in Ends, NEW c \in Calls, Pending(e, c), UNCHANGED slots
  PROVE  CallsTyped'
<1> DEFINE v == [call[e][c] EXCEPT !.offer_pending = TRUE]
<1>1. e \in Ends /\ call[e][c] \in Invocation
  BY DEF TypeOK, Ends
<1>2. call' \in [Ends -> [Calls -> Invocation]] /\ Changed(call, call', e, c, v)
  BY PendingEffect
<1>3. v \in Invocation
  BY <1>1, <1>2 DEF Changed
<1>4. v.receive_requested = call[e][c].receive_requested
  BY <1>1 DEF Invocation, Deliveries
<1>5. v.delivery # None => v.receive_requested /\ v.delivery.kind \in Messages
  BY <1>1 DEF Invocation, Deliveries
<1> HIDE DEF v
<1> QED BY <1>1, <1>2, <1>3, <1>4, <1>5, SameSlots

LEMMA CancelTyped ==
  ASSUME TypeOK, Deliveries, NEW c \in Calls, Cancel(c)
  PROVE  CallsTyped'
<1> DEFINE v == [call["client"][c] EXCEPT !.cancelled = TRUE]
<1>1. "client" \in Ends /\ call["client"][c] \in Invocation
  BY DEF TypeOK, Ends
<1>2. call' \in [Ends -> [Calls -> Invocation]] /\ Changed(call, call', "client", c, v)
  BY CancelEffect
<1>3. v \in Invocation
  BY <1>1, <1>2 DEF Changed
<1>4. v.receive_requested = call["client"][c].receive_requested
  BY <1>1 DEF Invocation, Deliveries
<1>5. v.delivery # None => v.receive_requested /\ v.delivery.kind \in Messages
  BY <1>1 DEF Invocation, Deliveries
<1> HIDE DEF v
<1>6. UNCHANGED slots
  BY DEF Cancel
<1> QED BY <1>1, <1>2, <1>3, <1>4, <1>5, <1>6, SameSlots

LEMMA PullTyped ==
  ASSUME TypeOK, Deliveries, NEW e \in Ends, NEW c \in Calls, PullRequested(e, c),
         ~call[e][c].receive_requested, slots[e] < DeliverySlots, slots' = [slots EXCEPT ![e] = @ + 1]
  PROVE  CallsTyped'
<1> DEFINE v == [call[e][c] EXCEPT !.ready = FALSE, !.receive_requested = TRUE]
<1>1. e \in Ends /\ call[e][c] \in Invocation
  BY DEF TypeOK, Ends
<1>2. call' \in [Ends -> [Calls -> Invocation]] /\ Changed(call, call', e, c, v)
  BY PullEffect
<1>3. v \in Invocation
  BY <1>1, <1>2 DEF Changed
<1>4. v.receive_requested
  BY <1>1 DEF Invocation, Deliveries
<1>5. v.delivery # None => v.receive_requested /\ v.delivery.kind \in Messages
  BY <1>1 DEF Invocation, Deliveries
<1> HIDE DEF v
<1>6. slots \in [Ends -> 0 .. DeliverySlots] /\ DeliverySlots \in Nat
  BY SizesAssumption DEF TypeOK
<1>7. slots[e] + 1 <= DeliverySlots /\ slots' = [slots EXCEPT ![e] = slots[e] + 1]
  BY <1>6
<1> QED BY <1>1, <1>2, <1>3, <1>4, <1>5, <1>7, OneCall

LEMMA DeliverTyped ==
  ASSUME TypeOK, Deliveries, NEW e \in Ends, NEW c \in Calls, NEW b \in BOOLEAN, FrameDelivered(e, c, b),
         call[e][c].receive_requested, slots' = [slots EXCEPT ![e] = @ - 1]
  PROVE  CallsTyped'
<1> DEFINE v == [call[e][c] EXCEPT !.delivery = None, !.receive_requested = FALSE,
                               !.complete = @ \/ b]
<1>1. e \in Ends /\ call[e][c] \in Invocation
  BY DEF TypeOK, Ends
<1>2. call' \in [Ends -> [Calls -> Invocation]] /\ Changed(call, call', e, c, v)
  BY DeliverEffect
<1>3. v \in Invocation
  BY <1>1, <1>2 DEF Changed
<1>4. ~v.receive_requested
  BY <1>1 DEF Invocation, Deliveries
<1>5. v.delivery # None => v.receive_requested /\ v.delivery.kind \in Messages
  BY <1>1 DEF Invocation, Deliveries
<1> HIDE DEF v
<1>6. slots \in [Ends -> 0 .. DeliverySlots] /\ DeliverySlots \in Nat
  BY SizesAssumption DEF TypeOK
<1>7. slots[e] - 1 <= DeliverySlots /\ slots' = [slots EXCEPT ![e] = slots[e] - 1]
  BY <1>1, <1>6
<1> QED BY <1>1, <1>2, <1>3, <1>4, <1>5, <1>7, OneCall

LEMMA RetireTyped ==
  ASSUME TypeOK, Deliveries, NEW c \in Calls, Retired(c)
  PROVE  CallsTyped'
<1> DEFINE v == [call["server"][c] EXCEPT !.receive_requested = FALSE, !.delivery = None,
                                      !.complete = TRUE]
<1>1. "server" \in Ends /\ call["server"][c] \in Invocation
  BY DEF TypeOK, Ends
<1>2. call' \in [Ends -> [Calls -> Invocation]] /\ Changed(call, call', "server", c, v)
  BY RetireEffect
<1>3. v \in Invocation
  BY <1>1, <1>2 DEF Changed
<1>4. ~v.receive_requested
  BY <1>1 DEF Invocation, Deliveries
<1>5. v.delivery # None => v.receive_requested /\ v.delivery.kind \in Messages
  BY <1>1 DEF Invocation, Deliveries
<1> HIDE DEF v
<1>6. slots \in [Ends -> 0 .. DeliverySlots] /\ DeliverySlots \in Nat
  BY SizesAssumption DEF TypeOK
<1>7. CASE call["server"][c].receive_requested
  <2>1. slots["server"] - 1 <= DeliverySlots /\ slots' = [slots EXCEPT !["server"] = slots["server"] - 1]
    BY <1>1, <1>6, <1>7 DEF Retired
  <2> QED BY <1>1, <1>2, <1>3, <1>4, <1>5, <1>7, <2>1, OneCall
<1>8. CASE ~call["server"][c].receive_requested
  <2>1. UNCHANGED slots
    BY <1>1, <1>6, <1>8 DEF Retired
  <2>2. v.receive_requested = call["server"][c].receive_requested
    BY <1>1, <1>3, <1>4, <1>8 DEF Invocation
  <2> QED BY <1>1, <1>2, <1>3, <1>5, <2>1, <2>2, SameSlots
<1> QED BY <1>7, <1>8

\* The queues hold frames, and not too many.
LEMMA QueuesTypedStep ==
  ASSUME TypeOK, Deliveries, Wired, Unfailed, [Next]_vars
  PROVE  QueuesTyped'
<1>1. CASE UNCHANGED vars
  <2>1. UNCHANGED <<controls, data>>
    BY <1>1 DEF vars, queues
  <2> QED BY <2>1, TypeParts DEF QueuesTyped
<1>2. ASSUME MarkWritten \/ Accept
      PROVE  QueuesTyped'
  <2>1. CASE MarkWritten \/ Accept
    <3>1. UNCHANGED <<controls, data>>
      BY <2>1 DEF MarkWritten, Accept, ProtocolError, Unfailed, queues
    <3> QED BY <3>1, TypeParts DEF QueuesTyped
  <2> QED BY <1>2, <2>1
<1>3. ASSUME NEW e \in Ends,
             ReadOne(e)
      PROVE  QueuesTyped'
  <2>1. Other(e) \in Ends /\ NextFrames(Other(e)) # <<>>
    BY <1>3, OtherFacts DEF ReadOne
  <2>2. PICK f : f = Head(NextFrames(Other(e)))
    OBVIOUS
  <2>3. f.kind \in {"request", "cancel"} => Other(e) = "client"
    BY <2>1, <2>2, RequestHead
  <2>4. ReadKnown(e, f) \/ ReadLate(e) => Written(Other(e))
    BY DEF ReadKnown, ReadLate, ProtocolError, Unfailed
  <2>5. ReadRequest(f.id) => Written("client")
    BY DEF ReadRequest, LimitExceeded, ProtocolError, Unfailed
  <2>6. ReadEarlyCancel(f.id) => Written("client")
    BY DEF ReadEarlyCancel, ProtocolError, Unfailed
  <2>7. Written(Other(e))
    BY <1>3, <2>2, <2>3, <2>4, <2>5, <2>6 DEF ReadOne, ProtocolError, Unfailed
  <2> QED BY <2>1, <2>2, <2>7, FrameWritten, TypeParts DEF QueuesTyped, ControlsLose, DataLose
<1>4. ASSUME NEW e \in Ends, NEW c \in Calls,
             Send(e, c) \/ Receive(e, c)
      PROVE  QueuesTyped'
  <2>1. CASE SenderThrows(e, c) \/ Deliver(e, c) \/ ReceiverThrows(e, c)
    <3>1. UNCHANGED <<controls, data>>
      BY <2>1 DEF SenderThrows, Deliver, ReceiverThrows, ProtocolError, Unfailed, queues
    <3> QED BY <3>1, TypeParts DEF QueuesTyped
  <2>2. CASE Post(e, c)
    <3> DEFINE f == MessageFrame(sender[e][c].kind, c, sender[e][c].part)
    <3>1. QueueData(e, f)
      BY <2>2 DEF Post
    <3>2. f \in Frame
      BY <2>2 DEF MessageFrame, Frame, Post, TypeOK, Wired
    <3>3. DataGain(e, f)
      BY <3>1, <3>2, DataQueued
    <3>4. controls' \in [Ends -> Seq(Frame)]
      <4>1. QueueControl(e, "ready", c) \/ UNCHANGED controls
        BY <2>2 DEF Post
      <4> QED BY <4>1, ControlQueued DEF ControlsGain, Controls, TypeOK
    <3> QED BY <3>3, <3>4 DEF QueuesTyped, DataGain
  <2>3. CASE Pull(e, c)
    <3>1. ControlsGain(e, c, {ControlFrame("pull", c)}) /\ UNCHANGED data
      BY <2>3, ControlQueued DEF Pull, ProtocolError, Unfailed, Controls
    <3> QED BY <3>1, TypeParts DEF QueuesTyped, ControlsGain, DataGain
  <2> QED BY <1>4, <2>1, <2>2, <2>3 DEF Send, Receive
<1>5. ASSUME NEW c \in Calls,
             \/ SendRequest(c) \/ QueueCancel(c) \/ RunHook(c) \/ Start(c) \/ End(c) \/ Complete(c) \/ Join(c)
             \/ Call(c) \/ Cancel(c) \/ Input(c, "input") \/ Input(c, "finish") \/ SendEvent(c)
      PROVE  QueuesTyped'
  <2>1. CASE RunHook(c) \/ Start(c) \/ CompleteThrows(c) \/ Complete(c) \/ Join(c) \/
           Call(c) \/ Cancel(c)
    <3>1. UNCHANGED <<controls, data>>
      BY <2>1 DEF RunHook, Start, CompleteThrows, Complete, Join, Call, Cancel, queues
    <3> QED BY <3>1, TypeParts DEF QueuesTyped
  <2>2. CASE SendRequest(c)
    <3>1. MessageFrame("request", c, 1) \in Frame
      BY DEF MessageFrame, Frame
    <3>2. DataGain("client", MessageFrame("request", c, 1)) /\ UNCHANGED controls
      BY <2>2, <3>1, DataQueued DEF SendRequest, Ends
    <3> QED BY <3>2, TypeParts DEF QueuesTyped, DataGain
  <2>3. CASE QueueCancel(c)
    <3>1. \/ ControlsGain("client", c, {ControlFrame("cancel", c)}) /\ UNCHANGED data
          \/ UNCHANGED <<controls, data>>
      BY <2>3, ControlQueued DEF QueueCancel, Controls, Ends
    <3> QED BY <3>1, TypeParts DEF QueuesTyped, ControlsGain, DataGain
  <2>4. CASE CloseInput(c)
    <3>1. UNCHANGED data /\ QueueControls("server", <<ControlFrame("closed", c)>> \o Ready("server", c))
      BY <2>4 DEF CloseInput
    <3>2. controls' \in [Ends -> Seq(Frame)]
      BY <3>1, ClosedQueued DEF Ends, ControlsGain
    <3> QED BY <3>1, <3>2, TypeParts DEF QueuesTyped
  <2>5. CASE Input(c, "input") \/ Input(c, "finish")
    <3>1. UNCHANGED data /\ QueueControls("client", Ready("client", c))
      BY <2>5 DEF Input
    <3>2. controls' \in [Ends -> Seq(Frame)]
      BY <3>1, ReadyQueued DEF Ends, ControlsGain
    <3> QED BY <3>1, <3>2, TypeParts DEF QueuesTyped
  <2>6. CASE SendEvent(c)
    <3>1. UNCHANGED data /\ QueueControls("server", Ready("server", c))
      BY <2>6 DEF SendEvent
    <3>2. controls' \in [Ends -> Seq(Frame)]
      BY <3>1, ReadyQueued DEF Ends, ControlsGain
    <3> QED BY <3>1, <3>2, TypeParts DEF QueuesTyped
  <2> QED BY <1>5, <2>1, <2>2, <2>3, <2>4, <2>5, <2>6 DEF End
<1>6. ASSUME Disconnect
      PROVE  QueuesTyped'
  BY <1>6 DEF Disconnect, Unfailed
<1> QED BY <1>1, <1>2, <1>3, <1>4, <1>5, <1>6 DEF Next, Progress, Choice

\* The calls of both ends, and their slots.
LEMMA CallsTypedStep ==
  ASSUME TypeOK, Deliveries, Unfailed, [Next]_vars
  PROVE  CallsTyped'
<1>1. CASE UNCHANGED vars
  <2>1. UNCHANGED <<call, slots>>
    BY <1>1 DEF vars
  <2> QED BY <2>1, TypeParts DEF CallsTyped, Deliveries, Reserved
<1>2. ASSUME MarkWritten \/ Accept
      PROVE  CallsTyped'
  <2>1. CASE MarkWritten \/ Accept
    <3>1. UNCHANGED <<call, slots>>
      BY <2>1 DEF MarkWritten, Accept, ProtocolError, Unfailed
    <3> QED BY <3>1, TypeParts DEF CallsTyped, Deliveries, Reserved
  <2> QED BY <1>2, <2>1
<1>3. ASSUME NEW e \in Ends,
             ReadOne(e)
      PROVE  CallsTyped'
  <2> DEFINE g == Head(NextFrames(Other(e)))
  <2>1. Other(e) \in Ends /\ NextFrames(Other(e)) # <<>>
    BY <1>3, OtherFacts DEF ReadOne
  <2>2. PICK f \in Frame : f = g
    BY <2>1, HeadFrame
  <2> HIDE DEF g
  <2>3. CASE f.kind = "request" /\ ReadRequest(f.id)
    <3>1. PICK b \in BOOLEAN : b = (f.id \in early)
      BY (f.id \in early) \in BOOLEAN
    <3>2. RequestRead(f.id, b) /\ UNCHANGED slots
      BY <2>3, <3>1 DEF ReadRequest, LimitExceeded, RequestRead, ProtocolError, Unfailed
    <3> QED BY <3>2, RequestTyped DEF Frame
  <2>4. CASE f.kind # "request" /\ ReadKnown(e, f)
    <3>1. FrameApplied(e, f) /\ ~Offending(e, f) /\ UNCHANGED slots /\ f.id \in Calls
      BY <2>4 DEF ReadKnown, FrameApplied, ProtocolError, Unfailed, Frame
    <3> QED BY <2>4, <3>1, ApplyTyped
  <2>5. CASE ReadLate(e) \/ ReadEarlyCancel(f.id)
    <3>1. UNCHANGED <<call, slots>>
      BY <2>5 DEF ReadLate, ReadEarlyCancel, ProtocolError, Unfailed
    <3> QED BY <3>1, TypeParts DEF CallsTyped, Deliveries, Reserved
  <2> QED BY <1>3, <2>2, <2>3, <2>4, <2>5 DEF ReadOne, ProtocolError, Unfailed, g
<1>4. ASSUME NEW e \in Ends, NEW c \in Calls,
             Send(e, c) \/ Receive(e, c)
      PROVE  CallsTyped'
  <2>1. CASE SenderThrows(e, c) \/ ReceiverThrows(e, c)
    <3>1. UNCHANGED <<call, slots>>
      BY <2>1 DEF SenderThrows, ReceiverThrows
    <3> QED BY <3>1, TypeParts DEF CallsTyped, Deliveries, Reserved
  <2>2. CASE Post(e, c)
    <3>1. PICK b \in BOOLEAN : b = (sender[e][c].part < Parts[sender[e][c].kind])
      BY (sender[e][c].part < Parts[sender[e][c].kind]) \in BOOLEAN
    <3>2. PermitUsed(e, c, b) /\ UNCHANGED slots
      BY <2>2, <3>1 DEF Post, PermitUsed
    <3> QED BY <3>2, PostTyped
  <2>3. CASE Pull(e, c)
    <3>1. /\ PullRequested(e, c) /\ ~call[e][c].receive_requested
          /\ slots[e] < DeliverySlots /\ slots' = [slots EXCEPT ![e] = @ + 1]
      BY <2>3 DEF Pull, PullRequested, ProtocolError, Unfailed
    <3> QED BY <3>1, PullTyped
  <2>4. CASE Deliver(e, c)
    <3> DEFINE f == call[e][c].delivery
    <3>1. PICK b \in BOOLEAN : b = (f.part = Parts[f.kind] /\ f.kind \in {"result", "finish"} /\ e = "client")
      BY (f.part = Parts[f.kind] /\ f.kind \in {"result", "finish"} /\ e = "client") \in BOOLEAN
    <3>2. FrameDelivered(e, c, b) /\ slots' = [slots EXCEPT ![e] = @ - 1]
      BY <2>4, <3>1 DEF Deliver, FrameDelivered, ProtocolError, Unfailed
    <3>3. call[e][c].receive_requested
      BY <2>4 DEF Deliver, Deliveries
    <3> QED BY <3>2, <3>3, DeliverTyped
  <2> QED BY <1>4, <2>1, <2>2, <2>3, <2>4 DEF Send, Receive
<1>5. ASSUME NEW c \in Calls,
             \/ SendRequest(c) \/ QueueCancel(c) \/ RunHook(c) \/ Start(c) \/ End(c) \/ Complete(c) \/ Join(c)
             \/ Call(c) \/ Cancel(c) \/ Input(c, "input") \/ Input(c, "finish") \/ SendEvent(c)
      PROVE  CallsTyped'
  <2>1. CASE SendRequest(c) \/ QueueCancel(c) \/ RunHook(c) \/ Start(c) \/
           CompleteThrows(c) \/ Call(c)
    <3>1. UNCHANGED <<call, slots>>
      BY <2>1 DEF SendRequest, QueueCancel, RunHook, Start, CompleteThrows, Call, Moves
    <3> QED BY <3>1, TypeParts DEF CallsTyped, Deliveries, Reserved
  <2>2. CASE CloseInput(c)
    <3>1. Pending("server", c) /\ UNCHANGED slots /\ "server" \in Ends
      BY <2>2 DEF CloseInput, Ends
    <3> QED BY <3>1, PendingTyped
  <2>3. CASE Complete(c) \/ Join(c)
    BY <2>3, RetireTyped DEF Complete, Join
  <2>4. CASE Cancel(c)
    BY <2>4, CancelTyped
  <2>5. CASE Input(c, "input") \/ Input(c, "finish")
    <3>1. Pending("client", c) /\ UNCHANGED slots /\ "client" \in Ends
      BY <2>5 DEF Input, Ends
    <3> QED BY <3>1, PendingTyped
  <2>6. CASE SendEvent(c)
    <3>1. Pending("server", c) /\ UNCHANGED slots /\ "server" \in Ends
      BY <2>6 DEF SendEvent, Ends
    <3> QED BY <3>1, PendingTyped
  <2> QED BY <1>5, <2>1, <2>2, <2>3, <2>4, <2>5, <2>6 DEF End
<1>6. ASSUME Disconnect
      PROVE  CallsTyped'
  BY <1>6 DEF Disconnect, Unfailed
<1> QED BY <1>1, <1>2, <1>3, <1>4, <1>5, <1>6 DEF Next, Progress, Choice

\* The sets of calls.
LEMMA SetsTypedStep ==
  ASSUME TypeOK, SetsTyped, Unfailed, [Next]_vars
  PROVE  SetsTyped'
<1>1. CASE UNCHANGED vars
  <2>1. UNCHANGED <<calls, seen, failure, written, early, marking, incoming>>
    BY <1>1 DEF vars
  <2> QED BY <2>1 DEF SetsTyped
<1>2. ASSUME MarkWritten \/ Accept
      PROVE  SetsTyped'
  <2>1. CASE MarkWritten
    BY <2>1 DEF MarkWritten, ProtocolError, Unfailed, SetsTyped
  <2>2. CASE Accept
    BY <2>2 DEF Accept, SetsTyped
  <2> QED BY <1>2, <2>1, <2>2
<1>3. ASSUME NEW e \in Ends,
             ReadOne(e)
      PROVE  SetsTyped'
  <2>1. Other(e) \in Ends /\ NextFrames(Other(e)) # <<>>
    BY <1>3, OtherFacts DEF ReadOne
  <2>2. PICK f \in Frame : f = Head(NextFrames(Other(e)))
    BY <2>1, HeadFrame
  <2>3. CASE ReadRequest(f.id)
    <3>1. /\ calls' = [calls EXCEPT !["server"] = @ \cup {f.id}]
          /\ seen' = [seen EXCEPT !["server"] = @ \cup {f.id}]
          /\ early' = early \ {f.id} /\ marking' = f.id /\ incoming' = Append(incoming, f.id)
          /\ UNCHANGED <<failure, written>> /\ f.id \in Calls
      BY <2>2, <2>3 DEF ReadRequest, LimitExceeded, ProtocolError, Unfailed, Frame
    <3>2. incoming' \in Seq(Calls)
      BY <3>1 DEF SetsTyped
    <3>3. calls' \in [Ends -> SUBSET Calls] /\ seen' \in [Ends -> SUBSET Calls]
      BY <3>1 DEF SetsTyped
    <3> QED BY <3>1, <3>2, <3>3 DEF SetsTyped
  <2>4. CASE ReadEarlyCancel(f.id)
    BY <2>2, <2>4 DEF ReadEarlyCancel, ProtocolError, Unfailed, SetsTyped, Frame
  <2>5. CASE ReadKnown(e, f) \/ ReadLate(e)
    BY <2>5 DEF ReadKnown, ReadLate, ProtocolError, Unfailed, SetsTyped
  <2> QED BY <1>3, <2>2, <2>3, <2>4, <2>5 DEF ReadOne, ProtocolError, Unfailed
<1>4. ASSUME NEW e \in Ends, NEW c \in Calls,
             Send(e, c) \/ Receive(e, c)
      PROVE  SetsTyped'
  <2>1. CASE SenderThrows(e, c) \/ Post(e, c) \/ Pull(e, c) \/ ReceiverThrows(e, c)
    <3>1. UNCHANGED <<calls, seen, failure, written, early, marking, incoming>>
      BY <2>1 DEF SenderThrows, Post, Pull, ReceiverThrows, ProtocolError, Unfailed
    <3> QED BY <3>1 DEF SetsTyped
  <2>2. CASE Deliver(e, c)
    <3>1. /\ UNCHANGED <<failure, written, early, marking, incoming>>
          /\ \/ seen' = [seen EXCEPT ![e] = @ \cup {c}] /\ calls' = [calls EXCEPT ![e] = @ \ {c}]
             \/ UNCHANGED <<seen, calls>>
      BY <2>2 DEF Deliver, ProtocolError, Unfailed
    <3> QED BY <3>1 DEF SetsTyped
  <2> QED BY <1>4, <2>1, <2>2 DEF Send, Receive
<1>5. ASSUME NEW c \in Calls,
             \/ SendRequest(c) \/ QueueCancel(c) \/ RunHook(c) \/ Start(c) \/ End(c) \/ Complete(c) \/ Join(c)
             \/ Call(c) \/ Cancel(c) \/ Input(c, "input") \/ Input(c, "finish") \/ SendEvent(c)
      PROVE  SetsTyped'
  <2>1. CASE SendRequest(c) \/ QueueCancel(c) \/ RunHook(c) \/ Start(c) \/ CloseInput(c)
           \/ CompleteThrows(c) \/ Cancel(c) \/ Input(c, "input") \/ Input(c, "finish") \/
           SendEvent(c)
    <3>1. UNCHANGED <<calls, seen, failure, written, early, marking, incoming>>
      BY <2>1 DEF SendRequest, QueueCancel, RunHook, Start, CloseInput, CompleteThrows, Cancel, Input, SendEvent, Moves
    <3> QED BY <3>1 DEF SetsTyped
  <2>2. CASE Complete(c) \/ Join(c)
    <3>1. /\ calls' = [calls EXCEPT !["server"] = @ \ {c}]
          /\ seen' = [seen EXCEPT !["server"] = @ \cup {c}]
          /\ UNCHANGED <<failure, written, early, marking, incoming>>
      BY <2>2 DEF Complete, Join, Retired
    <3> QED BY <3>1 DEF SetsTyped
  <2>3. CASE Call(c)
    BY <2>3 DEF Call, SetsTyped
  <2> QED BY <1>5, <2>1, <2>2, <2>3 DEF End
<1>6. ASSUME Disconnect
      PROVE  SetsTyped'
  BY <1>6 DEF Disconnect, Unfailed
<1> QED BY <1>1, <1>2, <1>3, <1>4, <1>5, <1>6 DEF Next, Progress, Choice

\* The threads.
LEMMA ThreadsTypedStep ==
  ASSUME TypeOK, Deliveries, Wired, ThreadsTyped, Unfailed, [Next]_vars
  PROVE  ThreadsTyped'
<1>1. CASE UNCHANGED vars
  BY <1>1 DEF vars, threads, ThreadsTyped
<1>2. ASSUME MarkWritten \/ Accept
      PROVE  ThreadsTyped'
  <2>1. CASE MarkWritten \/ Accept
    BY <2>1 DEF MarkWritten, Accept, Moves, ProtocolError, Unfailed, threads, ThreadsTyped
  <2> QED BY <1>2, <2>1
<1>3. ASSUME NEW e \in Ends,
             ReadOne(e)
      PROVE  ThreadsTyped'
  <2>1. PICK f : f = Head(NextFrames(Other(e)))
    OBVIOUS
  <2>2. CASE ReadRequest(f.id) \/ ReadEarlyCancel(f.id) \/ ReadLate(e)
    BY <2>2 DEF ReadRequest, LimitExceeded, ReadEarlyCancel, ReadLate, ProtocolError, Unfailed, threads, ThreadsTyped
  <2>3. CASE ReadKnown(e, f)
    <3>1. /\ hook' \in {hook, [hook EXCEPT ![f.id] = "queued"], [hook EXCEPT ![f.id] = @]}
          /\ UNCHANGED <<sender, receiver, canceller, worker, sent>>
      BY <2>3 DEF ReadKnown, Hooked, ProtocolError, Unfailed
    <3> QED BY <3>1 DEF ThreadsTyped
  <2> QED BY <1>3, <2>1, <2>2, <2>3 DEF ReadOne, ProtocolError, Unfailed
<1>4. ASSUME NEW e \in Ends, NEW c \in Calls,
             Send(e, c) \/ Receive(e, c)
      PROVE  ThreadsTyped'
  <2>1. CASE SenderThrows(e, c)
    <3>1. UNCHANGED <<receiver, canceller, worker, hook, sent>>
      BY <2>1 DEF SenderThrows
    <3> QED BY <2>1, <3>1, ThrowEffect DEF ThreadsTyped
  <2>2. CASE Post(e, c)
    <3>1. UNCHANGED <<receiver, canceller, worker, hook, sent>>
      BY <2>2 DEF Post
    <3>2. SenderDone(e, c) \/ \E k \in Messages, p \in Nat : Offers(e, c, k, p)
      <4>1. sender[e][c].kind \in Messages /\ sender[e][c].part + 1 \in Nat
        BY <2>2 DEF Post, Wired, ThreadsTyped, Sender
      <4>2. SenderDone(e, c) \/ Offers(e, c, sender[e][c].kind, sender[e][c].part + 1)
        BY <2>2 DEF Post, SenderDone
      <4> QED BY <4>1, <4>2
    <3>3. sender' \in [Ends -> [Calls -> Sender]]
      BY <3>2, OfferEffect, SenderDoneEffect
    <3> QED BY <3>1, <3>3 DEF ThreadsTyped
  <2>3. CASE Pull(e, c)
    <3>1. ReceiverMoved(e, c, "delivery") /\ UNCHANGED <<sender, canceller, worker, hook, sent>>
      BY <2>3 DEF Pull, ReceiverMoved, ProtocolError, Unfailed
    <3>2. receiver' \in [Ends -> [Calls -> Receiver]]
      BY <3>1, ReceiverEffect DEF Receives, Ends
    <3> QED BY <3>1, <3>2 DEF ThreadsTyped
  <2>4. CASE Deliver(e, c)
    <3> DEFINE f == call[e][c].delivery
    <3>1. UNCHANGED <<sender, canceller, worker, hook, sent>>
      BY <2>4 DEF Deliver, ProtocolError, Unfailed
    <3>2. \E b \in BOOLEAN, d \in BOOLEAN :
            Assembled(e, c, [step |-> IF b THEN "ended" ELSE "waiting", kind |-> IF d THEN "none" ELSE f.kind,
                             parts |-> IF d THEN 0 ELSE f.part])
      BY <2>4 DEF Deliver, Assembled, ProtocolError, Unfailed
    <3>3. f.kind \in Messages /\ f.part \in Nat
      BY <2>4 DEF Deliver, Deliveries, TypeOK, Invocation, Frame
    <3>4. \A b \in BOOLEAN, d \in BOOLEAN :
            [step |-> IF b THEN "ended" ELSE "waiting", kind |-> IF d THEN "none" ELSE f.kind,
             parts |-> IF d THEN 0 ELSE f.part] \in Receiver
      BY <3>3 DEF Receiver, Receives
    <3>5. receiver' \in [Ends -> [Calls -> Receiver]]
      BY <3>2, <3>4, AssembledEffect
    <3> QED BY <3>1, <3>5 DEF ThreadsTyped
  <2>5. CASE ReceiverThrows(e, c)
    <3>1. ReceiverMoved(e, c, "ended") /\ UNCHANGED <<sender, canceller, worker, hook, sent>>
      BY <2>5 DEF ReceiverThrows, ReceiverMoved
    <3>2. receiver' \in [Ends -> [Calls -> Receiver]]
      BY <3>1, ReceiverEffect DEF Receives, Ends
    <3> QED BY <3>1, <3>2 DEF ThreadsTyped
  <2> QED BY <1>4, <2>1, <2>2, <2>3, <2>4, <2>5 DEF Send, Receive
<1>5. ASSUME NEW c \in Calls,
             \/ SendRequest(c) \/ QueueCancel(c) \/ RunHook(c) \/ Start(c) \/ End(c) \/ Complete(c) \/ Join(c)
             \/ Call(c) \/ Cancel(c) \/ Input(c, "input") \/ Input(c, "finish") \/ SendEvent(c)
      PROVE  ThreadsTyped'
  <2>1. CASE SendRequest(c)
    <3>1. ReceiverMoved("client", c, "waiting") /\ UNCHANGED <<sender, canceller, worker, hook, sent>>
      BY <2>1 DEF SendRequest, ReceiverMoved
    <3>2. receiver' \in [Ends -> [Calls -> Receiver]]
      BY <3>1, ReceiverEffect DEF Receives, Ends
    <3> QED BY <3>1, <3>2 DEF ThreadsTyped
  <2>2. CASE QueueCancel(c) \/ RunHook(c) \/ CompleteThrows(c) \/ Complete(c) \/ Join(c)
           \/ Cancel(c)
    BY <2>2 DEF QueueCancel, RunHook, CompleteThrows, Complete, Join, Cancel, Moves, ThreadsTyped
  <2>3. CASE Start(c)
    <3>1. /\ UNCHANGED <<sender, canceller, sent>> /\ Moves(c, "accepted", "running")
          /\ hook' \in {hook, [hook EXCEPT ![c] = "queued"], [hook EXCEPT ![c] = "set"]}
          /\ \/ ReceiverMoved("server", c, "waiting") \/ ReceiverMoved("server", c, "ended")
             \/ UNCHANGED receiver
      BY <2>3 DEF Start, ReceiverMoved
    <3>2. receiver' \in [Ends -> [Calls -> Receiver]]
      BY <3>1, ReceiverEffect DEF Receives, Ends, ThreadsTyped
    <3>3. worker' = [worker EXCEPT ![c] = "running"]
      BY <3>1 DEF Moves
    <3> QED BY <3>1, <3>2, <3>3 DEF ThreadsTyped
  <2>4. CASE CloseInput(c)
    <3>1. Offers("server", c, "result", 1) /\ Moves(c, "running", "completing") /\ UNCHANGED <<receiver, canceller, hook, sent>>
      BY <2>4 DEF CloseInput
    <3>2. sender' \in [Ends -> [Calls -> Sender]]
      BY <3>1, OfferEffect DEF Ends, Messages
    <3> QED BY <3>1, <3>2 DEF ThreadsTyped, Moves
  <2>5. CASE Call(c)
    <3>1. ReceiverMoved("client", c, "request") /\ UNCHANGED <<sender, canceller, worker, hook, sent>>
      BY <2>5 DEF Call, ReceiverMoved
    <3>2. receiver' \in [Ends -> [Calls -> Receiver]]
      BY <3>1, ReceiverEffect DEF Receives, Ends
    <3> QED BY <3>1, <3>2 DEF ThreadsTyped
  <2>6. CASE Input(c, "input")
    <3>1. Offers("client", c, "input", 1) /\ UNCHANGED <<receiver, canceller, worker, hook>>
      BY <2>6 DEF Input
    <3>2. sender' \in [Ends -> [Calls -> Sender]]
      BY <3>1, OfferEffect DEF Ends, Messages
    <3>3. sent' \in [Ends -> [Calls -> 0 .. MaxMessages + 1]]
      BY <2>6, SizesAssumption DEF Input, ThreadsTyped, Ends
    <3> QED BY <3>1, <3>2, <3>3 DEF ThreadsTyped
  <2>7. CASE Input(c, "finish")
    <3>1. Offers("client", c, "finish", 1) /\ UNCHANGED <<receiver, canceller, worker, hook>>
      BY <2>7 DEF Input
    <3>2. sender' \in [Ends -> [Calls -> Sender]]
      BY <3>1, OfferEffect DEF Ends, Messages
    <3>3. sent' \in [Ends -> [Calls -> 0 .. MaxMessages + 1]]
      BY <2>7, SizesAssumption DEF Input, ThreadsTyped, Ends
    <3> QED BY <3>1, <3>2, <3>3 DEF ThreadsTyped
  <2>8. CASE SendEvent(c)
    <3>1. Offers("server", c, "event", 1) /\ UNCHANGED <<receiver, canceller, worker, hook>>
      BY <2>8 DEF SendEvent
    <3>2. sender' \in [Ends -> [Calls -> Sender]]
      BY <3>1, OfferEffect DEF Ends, Messages
    <3>3. sent' \in [Ends -> [Calls -> 0 .. MaxMessages + 1]]
      BY <2>8, SizesAssumption DEF SendEvent, ThreadsTyped, Ends
    <3> QED BY <3>1, <3>2, <3>3 DEF ThreadsTyped
  <2> QED BY <1>5, <2>1, <2>2, <2>3, <2>4, <2>5, <2>6, <2>7, <2>8 DEF End
<1>6. ASSUME Disconnect
      PROVE  ThreadsTyped'
  BY <1>6 DEF Disconnect, Unfailed
<1> QED BY <1>1, <1>2, <1>3, <1>4, <1>5, <1>6 DEF Next, Progress, Choice

\* What the queues hold.
LEMMA WiredStep ==
  ASSUME TypeOK, Deliveries, Wired, ThreadsTyped, Unfailed, [Next]_vars
  PROVE  Wired'
<1>1. CASE UNCHANGED vars
  <2>1. UNCHANGED <<controls, data, sender>>
    BY <1>1 DEF vars, queues, threads
  <2> QED BY <2>1 DEF Wired
<1>2. ASSUME MarkWritten \/ Accept
      PROVE  Wired'
  <2>1. CASE MarkWritten \/ Accept
    <3>1. UNCHANGED <<controls, data, sender>>
      BY <2>1 DEF MarkWritten, Accept, ProtocolError, Unfailed, queues, threads
    <3> QED BY <3>1 DEF Wired
  <2> QED BY <1>2, <2>1
<1>3. ASSUME NEW e \in Ends,
             ReadOne(e)
      PROVE  Wired'
  <2>1. Other(e) \in Ends /\ NextFrames(Other(e)) # <<>>
    BY <1>3, OtherFacts DEF ReadOne
  <2>2. PICK f : f = Head(NextFrames(Other(e)))
    OBVIOUS
  <2>3. f.kind \in {"request", "cancel"} => Other(e) = "client"
    BY <2>1, <2>2, RequestHead
  <2>4. ReadKnown(e, f) \/ ReadLate(e) => Written(Other(e)) /\ UNCHANGED sender
    BY DEF ReadKnown, ReadLate, ProtocolError, Unfailed, threads
  <2>5. ReadRequest(f.id) => Written("client") /\ UNCHANGED sender
    BY DEF ReadRequest, LimitExceeded, ProtocolError, Unfailed, threads
  <2>6. ReadEarlyCancel(f.id) => Written("client") /\ UNCHANGED sender
    BY DEF ReadEarlyCancel, ProtocolError, Unfailed, threads
  <2>7. Written(Other(e)) /\ UNCHANGED sender
    BY <1>3, <2>2, <2>3, <2>4, <2>5, <2>6 DEF ReadOne, ProtocolError, Unfailed
  <2>8. \/ f \in Of(controls[Other(e)], f.id) /\ ControlsLose(Other(e), f) /\ UNCHANGED data
        \/ f \in Of(data[Other(e)], f.id) /\ DataLose(Other(e), f) /\ UNCHANGED controls
    BY <2>1, <2>2, <2>7, FrameWritten
  <2>9. \A x \in Ends, d \in Calls :
          Of(controls'[x], d) \subseteq Of(controls[x], d) /\ Of(data'[x], d) \subseteq Of(data[x], d)
    BY <2>8 DEF ControlsLose, DataLose
  <2> QED BY <2>7, <2>9 DEF Wired, Ends
<1>4. ASSUME NEW e \in Ends, NEW c \in Calls,
             Send(e, c) \/ Receive(e, c)
      PROVE  Wired'
  <2>1. CASE SenderThrows(e, c)
    <3>1. UNCHANGED <<controls, data>>
      BY <2>1 DEF SenderThrows, queues
    <3>2. sender[e][c].step = "permit" /\ sender[e][c] \in Sender
      BY <2>1 DEF SenderThrows, ThreadsTyped
    <3>3. Changed(sender, sender', e, c, [sender[e][c] EXCEPT !.step = "thrown"])
      BY <2>1, ThrowEffect
    <3>4. \A x \in Ends, d \in Calls : sender'[x][d].step = "permit" => sender'[x][d].kind \in Messages
      BY <3>2, <3>3 DEF Changed, Wired, Sender
    <3> QED BY <3>1, <3>4 DEF Wired
  <2>2. CASE Post(e, c)
    <3> DEFINE k == sender[e][c].kind
              f == MessageFrame(k, c, sender[e][c].part)
    <3>1. k \in Messages /\ sender[e][c].part \in Nat
      BY <2>2 DEF Post, Wired, ThreadsTyped, Sender
    <3>2. f \in Frame /\ f.kind = k /\ f.id = c
      BY <3>1 DEF MessageFrame, Frame
    <3>3. QueueData(e, f)
      BY <2>2 DEF Post
    <3>4. \/ SenderDone(e, c) /\ UNCHANGED controls
          \/ Offers(e, c, k, sender[e][c].part + 1) /\ QueueControl(e, "ready", c)
      BY <2>2 DEF Post, SenderDone
    <3> HIDE DEF f
    <3>5. \A x \in Ends, d \in Calls : sender'[x][d].step = "permit" => sender'[x][d].kind \in Messages
      <4>1. CASE SenderDone(e, c)
        BY <4>1, SenderDoneEffect DEF Changed, NotSending, Wired
      <4>2. CASE Offers(e, c, k, sender[e][c].part + 1)
        <5>1. PICK p \in Nat : p = sender[e][c].part + 1
          BY <3>1
        <5>2. PICK m \in Messages : m = k
          BY <3>1
        <5> QED BY <4>2, <5>1, <5>2, Permits
      <4> QED BY <3>4, <4>1, <4>2
    <3>6. \A x \in Ends, d \in Calls : Of(controls'[x], d) \subseteq Of(controls[x], d) \cup {ControlFrame("ready", c)}
      <4>1. ControlsGain(e, c, {ControlFrame("ready", c)}) \/ UNCHANGED controls
        BY <3>4, ControlQueued DEF Controls
      <4> QED BY <4>1 DEF ControlsGain
    <3>7. \A x \in Ends, d \in Calls : Of(data'[x], d) \subseteq Of(data[x], d) \cup {f}
      <4>1. DataGain(e, f)
        BY <3>2, <3>3, DataQueued
      <4> QED BY <4>1 DEF DataGain
    <3> QED BY <3>1, <3>2, <3>5, <3>6, <3>7 DEF Wired, ControlFrame, Ends, Transported
  <2>3. CASE Pull(e, c)
    <3>1. ControlsGain(e, c, {ControlFrame("pull", c)}) /\ UNCHANGED <<data, sender>>
      BY <2>3, ControlQueued DEF Pull, ProtocolError, Unfailed, Controls
    <3> QED BY <3>1 DEF Wired, ControlsGain, ControlFrame, Ends
  <2>4. CASE Deliver(e, c) \/ ReceiverThrows(e, c)
    <3>1. UNCHANGED <<controls, data, sender>>
      BY <2>4 DEF Deliver, ReceiverThrows, ProtocolError, Unfailed, queues
    <3> QED BY <3>1 DEF Wired
  <2> QED BY <1>4, <2>1, <2>2, <2>3, <2>4 DEF Send, Receive
<1>5. ASSUME NEW c \in Calls,
             \/ SendRequest(c) \/ QueueCancel(c) \/ RunHook(c) \/ Start(c) \/ End(c) \/ Complete(c) \/ Join(c)
             \/ Call(c) \/ Cancel(c) \/ Input(c, "input") \/ Input(c, "finish") \/ SendEvent(c)
      PROVE  Wired'
  <2>1. CASE RunHook(c) \/ Start(c) \/ CompleteThrows(c) \/ Complete(c) \/ Join(c) \/
           Call(c) \/ Cancel(c)
    <3>1. UNCHANGED <<controls, data, sender>>
      BY <2>1 DEF RunHook, Start, CompleteThrows, Complete, Join, Call, Cancel, queues
    <3> QED BY <3>1 DEF Wired
  <2>2. CASE SendRequest(c)
    <3> DEFINE f == MessageFrame("request", c, 1)
    <3>1. f \in Frame /\ f.kind = "request" /\ f.id = c
      BY DEF MessageFrame, Frame
    <3> HIDE DEF f
    <3>2. DataGain("client", f) /\ UNCHANGED <<controls, sender>>
      BY <2>2, <3>1, DataQueued DEF SendRequest, Ends, f
    <3> QED BY <3>1, <3>2 DEF Wired, DataGain, Ends, Transported
  <2>3. CASE QueueCancel(c)
    <3>1. QueueControl("client", "cancel", c) \/ UNCHANGED controls
      BY <2>3 DEF QueueCancel
    <3>2. ControlsGain("client", c, {ControlFrame("cancel", c)}) \/ UNCHANGED controls
      BY <3>1, ControlQueued DEF Controls, Ends
    <3>3. \A d \in Calls : /\ Of(controls'["client"], d) \subseteq Of(controls["client"], d) \cup {ControlFrame("cancel", c)}
                          /\ Of(controls'["server"], d) = Of(controls["server"], d)
      BY <3>2 DEF ControlsGain, Ends
    <3>4. UNCHANGED <<data, sender>>
      BY <2>3 DEF QueueCancel
    <3> QED BY <3>3, <3>4 DEF Wired, ControlFrame, Ends
  <2>4. CASE CloseInput(c)
    <3>1. /\ UNCHANGED data /\ QueueControls("server", <<ControlFrame("closed", c)>> \o Ready("server", c))
          /\ Offers("server", c, "result", 1)
      BY <2>4 DEF CloseInput
    <3>2. ControlsGain("server", c, {ControlFrame("closed", c)} \cup (IF call["server"][c].offer_pending THEN {} ELSE {ControlFrame("ready", c)}))
      BY <3>1, ClosedQueued DEF Ends
    <3>3. \A d \in Calls : /\ Of(controls'["server"], d) \subseteq Of(controls["server"], d) \cup {ControlFrame("closed", c), ControlFrame("ready", c)}
                          /\ Of(controls'[Other("server")], d) = Of(controls[Other("server")], d)
      BY <3>2, OtherFacts DEF Ends, ControlsGain
    <3>4. \A x \in Ends, d \in Calls : sender'[x][d].step = "permit" => sender'[x][d].kind \in Messages
      BY <3>1, Permits DEF Ends, Messages
    <3> QED BY <3>1, <3>3, <3>4, OtherFacts DEF Wired, ControlFrame, Ends
  <2>5. CASE Input(c, "input")
    <3>1. /\ UNCHANGED data /\ QueueControls("client", Ready("client", c)) /\ Offers("client", c, "input", 1)
      BY <2>5 DEF Input
    <3>2. ControlsGain("client", c, IF call["client"][c].offer_pending THEN {} ELSE {ControlFrame("ready", c)})
      BY <3>1, ReadyQueued DEF Ends
    <3>3. \A d \in Calls : /\ Of(controls'["client"], d) \subseteq Of(controls["client"], d) \cup {ControlFrame("ready", c)}
                          /\ Of(controls'[Other("client")], d) = Of(controls[Other("client")], d)
      BY <3>2, OtherFacts DEF Ends, ControlsGain
    <3>4. \A x \in Ends, d \in Calls : sender'[x][d].step = "permit" => sender'[x][d].kind \in Messages
      BY <3>1, Permits DEF Ends, Messages
    <3> QED BY <3>1, <3>3, <3>4, OtherFacts DEF Wired, ControlFrame, Ends
  <2>6. CASE Input(c, "finish")
    <3>1. /\ UNCHANGED data /\ QueueControls("client", Ready("client", c)) /\ Offers("client", c, "finish", 1)
      BY <2>6 DEF Input
    <3>2. ControlsGain("client", c, IF call["client"][c].offer_pending THEN {} ELSE {ControlFrame("ready", c)})
      BY <3>1, ReadyQueued DEF Ends
    <3>3. \A d \in Calls : /\ Of(controls'["client"], d) \subseteq Of(controls["client"], d) \cup {ControlFrame("ready", c)}
                          /\ Of(controls'[Other("client")], d) = Of(controls[Other("client")], d)
      BY <3>2, OtherFacts DEF Ends, ControlsGain
    <3>4. \A x \in Ends, d \in Calls : sender'[x][d].step = "permit" => sender'[x][d].kind \in Messages
      BY <3>1, Permits DEF Ends, Messages
    <3> QED BY <3>1, <3>3, <3>4, OtherFacts DEF Wired, ControlFrame, Ends
  <2>7. CASE SendEvent(c)
    <3>1. /\ UNCHANGED data /\ QueueControls("server", Ready("server", c)) /\ Offers("server", c, "event", 1)
      BY <2>7 DEF SendEvent
    <3>2. ControlsGain("server", c, IF call["server"][c].offer_pending THEN {} ELSE {ControlFrame("ready", c)})
      BY <3>1, ReadyQueued DEF Ends
    <3>3. \A d \in Calls : /\ Of(controls'["server"], d) \subseteq Of(controls["server"], d) \cup {ControlFrame("ready", c)}
                          /\ Of(controls'[Other("server")], d) = Of(controls[Other("server")], d)
      BY <3>2, OtherFacts DEF Ends, ControlsGain
    <3>4. \A x \in Ends, d \in Calls : sender'[x][d].step = "permit" => sender'[x][d].kind \in Messages
      BY <3>1, Permits DEF Ends, Messages
    <3> QED BY <3>1, <3>3, <3>4, OtherFacts DEF Wired, ControlFrame, Ends
  <2> QED BY <1>5, <2>1, <2>2, <2>3, <2>4, <2>5, <2>6, <2>7 DEF End
<1>6. ASSUME Disconnect
      PROVE  Wired'
  BY <1>6 DEF Disconnect, Unfailed
<1> QED BY <1>1, <1>2, <1>3, <1>4, <1>5, <1>6 DEF Next, Progress, Choice

\* A failure leaves nothing of what was under way.
LEMMA FailTyped ==
  ASSUME TypeOK, Deliveries, Wired, NEW why \in {"closed", "limit", "protocol"}, Fail(why)
  PROVE  CallsTyped' /\ QueuesTyped' /\ SetsTyped' /\ ThreadsTyped' /\ Wired'
<1>1. /\ call' \in [Ends -> [Calls -> Invocation]]
      /\ \A e \in Ends, c \in Calls :
           call'[e][c].delivery = None /\ ~call'[e][c].receive_requested
  BY DEF Fail, Fresh, Invocation, TypeOK
<1>2. slots' = [e \in Ends |-> 0] /\ controls' = [e \in Ends |-> <<>>] /\ data' = [e \in Ends |-> <<>>]
  BY DEF Fail, PerEnd
<1>3. CallsTyped'
  <2>1. \A e \in Ends : Reserved(e)' = {}
    BY <1>1 DEF Reserved
  <2>2. Cardinality({}) = 0
    BY FS_EmptySet
  <2>3. Deliveries'
    BY <1>1 DEF Deliveries
  <2>4. slots' \in [Ends -> 0 .. DeliverySlots] /\ \A e \in Ends : slots'[e] = 0
    BY <1>2, SizesAssumption
  <2> QED BY <1>1, <2>1, <2>2, <2>3, <2>4 DEF CallsTyped
<1>4. QueuesTyped'
  BY <1>2, SizesAssumption DEF QueuesTyped
<1>5. SetsTyped'
  <2>1. /\ UNCHANGED <<calls, seen>> /\ failure' = why
        /\ written' = {} /\ marking' = None /\ early' = {} /\ incoming' = <<>>
    BY DEF Fail
  <2>2. calls \in [Ends -> SUBSET Calls] /\ seen \in [Ends -> SUBSET Calls]
    BY DEF TypeOK
  <2> QED BY <2>1, <2>2 DEF SetsTyped
<1>6. sender' \in [Ends -> [Calls -> Sender]] /\ \A e \in Ends, c \in Calls : sender'[e][c].step # "permit"
  <2>1. sender \in [Ends -> [Calls -> Sender]]
    BY DEF TypeOK, Sender
  <2>2. sender' = [e \in Ends |-> [c \in Calls |->
          IF sender[e][c].step = "permit" THEN [NotSending EXCEPT !.step = "thrown"] ELSE sender[e][c]]]
    BY DEF Fail
  <2> QED BY <2>1, <2>2 DEF Sender, Sends, NotSending
<1>7. receiver' \in [Ends -> [Calls -> Receiver]]
  BY DEF Fail, Receiver, Receives, NotReceiving
<1>8. ThreadsTyped'
  <2>1. hook' = [c \in Calls |-> IF c \in calls["server"] THEN Hooked(c) ELSE hook[c]]
    BY DEF Fail
  <2>2. hook \in [Calls -> {"none", "set", "queued", "run"}]
    BY DEF TypeOK
  <2>3. hook' \in [Calls -> {"none", "set", "queued", "run"}]
    BY <2>1, <2>2 DEF Hooked
  <2>4. UNCHANGED <<canceller, worker>> /\ sent' = [e \in Ends |-> [c \in Calls |-> 0]]
    BY DEF Fail, PerEnd, PerCall
  <2>5. /\ canceller \in [Calls -> {"idle", "queueing", "done"}]
        /\ worker \in [Calls -> {"none", "accepted", "running", "completing", "joining", "ended"}]
    BY DEF TypeOK
  <2> QED BY <1>6, <1>7, <2>3, <2>4, <2>5, SizesAssumption DEF ThreadsTyped
<1>9. Wired'
  BY <1>2, <1>6 DEF Wired, Of, Frames, Ends
<1> QED BY <1>3, <1>4, <1>5, <1>8, <1>9

TypeInv == TypeOK /\ Deliveries /\ Wired

LEMMA InitTyped == Init => TypeInv
<1> SUFFICES ASSUME Init
             PROVE  TypeInv
  OBVIOUS
<1>1. /\ call = [e \in Ends |-> [c \in Calls |-> Fresh]] /\ slots = [e \in Ends |-> 0]
      /\ controls = [e \in Ends |-> <<>>] /\ data = [e \in Ends |-> <<>>]
  BY DEF Init, PerEnd, PerCall
<1>2. CallsTyped
  <2>1. \A e \in Ends : Reserved(e) = {}
    BY <1>1 DEF Reserved, Fresh
  <2>2. Cardinality({}) = 0
    BY FS_EmptySet
  <2>3. slots \in [Ends -> 0 .. DeliverySlots] /\ \A e \in Ends : slots[e] = 0
    BY <1>1, SizesAssumption
  <2>4. Fresh \in Invocation
    BY DEF Fresh, Invocation
  <2>5. Deliveries
    BY <1>1 DEF Deliveries, Fresh
  <2> QED BY <1>1, <2>1, <2>2, <2>3, <2>4, <2>5 DEF CallsTyped
<1>3. QueuesTyped
  BY <1>1, SizesAssumption DEF QueuesTyped
<1>4. SetsTyped
  BY DEF Init, PerEnd, SetsTyped
<1>5. ThreadsTyped
  BY SizesAssumption
    DEF Init, PerEnd, PerCall, ThreadsTyped, Sender, Receiver, NotSending, NotReceiving, Sends, Receives
<1>6. Wired
  BY <1>1 DEF Init, PerEnd, PerCall, NotSending, Wired, Of, Frames, Ends
<1> QED BY <1>2, <1>3, <1>4, <1>5, <1>6, TypeParts DEF TypeInv

LEMMA NextTyped == TypeInv /\ [Next]_vars => TypeInv'
<1> SUFFICES ASSUME TypeOK, Deliveries, Wired, [Next]_vars
             PROVE  TypeInv'
  BY DEF TypeInv
<1>1. CASE Unfailed
  BY <1>1, TypeParts, TypeWhole, CallsTypedStep, QueuesTypedStep, SetsTypedStep, ThreadsTypedStep,
     WiredStep DEF TypeInv
<1>2. CASE ~Unfailed
  BY <1>2, TypeWhole, FailTyped DEF TypeInv, Unfailed
<1> QED BY <1>1, <1>2

LEMMA Typed == Spec => []TypeInv
BY InitTyped, NextTyped, PTL DEF Spec

(***************************************************************************)
(* The types, and the count of the delivery slots: they are reserved by    *)
(* the calls that have asked for a fragment and by no others, whatever     *)
(* was cancelled, retired or lost.                                         *)
(***************************************************************************)
THEOREM TypeCorrect == Spec => []TypeOK
BY Typed, PTL DEF TypeInv

-----------------------------------------------------------------------------
(* The protocol, call by call, while the connection works.                 *)

Sent(e, c) == \E f \in Carried(e, c) : f.kind \in Messages
Requested(c) == \E f \in Carried("client", c) : f.kind = "request"

\* A call has at most one offer, one permit and one data frame on the way.
Single(c) == \A e \in Ends : ControlsOnce(e, c) /\ DataOnce(e, c)

AtMostOne(p, q, r, s) == (p => ~q /\ ~r /\ ~s) /\ (q => ~r /\ ~s) /\ (r => ~s)

\* An offer of e is a Ready frame, what the other end knows, its Pull, or a permit.
OfferedAt(e, c) ==
  LET o == Other(e)
  IN  /\ AtMostOne(Queued(e, "ready", c), call[o][c].ready, Queued(o, "pull", c), call[e][c].peer_permit)
      /\ \/ Queued(e, "ready", c) \/ call[o][c].ready
         \/ Queued(o, "pull", c) \/ call[e][c].peer_permit
         => call[e][c].offer_pending
Offered(c) == \A e \in Ends : OfferedAt(e, c)

\* What the other end has asked e for is a Pull, a permit, a fragment or a delivery.
PermittedAt(e, c) ==
  LET o == Other(e)
  IN  /\ AtMostOne(Queued(o, "pull", c), call[e][c].peer_permit, Sent(e, c), call[o][c].delivery # None)
      /\ /\ ~call[o][c].complete
         /\ \/ Queued(o, "pull", c) \/ call[e][c].peer_permit
            \/ Sent(e, c) \/ call[o][c].delivery # None
         => call[o][c].receive_requested
Permitted(c) == \A e \in Ends : PermittedAt(e, c)

Waits(c) ==
  \A e \in Ends :
    receiver[e][c].step \in {"idle", "request", "waiting"} => ~call[e][c].receive_requested

\* Where a call is at the client,
ClientSide(c) ==
  /\ c \in calls["client"] <=> receiver["client"][c].step \in {"request", "waiting", "delivery"}
  /\ receiver["client"][c].step = "ended" <=> call["client"][c].complete
  /\ c \in seen["client"] <=> call["client"][c].complete
  /\ Requested(c) => receiver["client"][c].step = "waiting" /\ c \notin seen["server"]
  /\ c \in seen["server"] => receiver["client"][c].step \in {"waiting", "delivery", "ended"}

\* and at the server.
ServerSide(c) ==
  /\ c \in seen["server"] <=> c \in calls["server"] \/ call["server"][c].complete
  /\ c \in calls["server"] => ~call["server"][c].complete
  /\ call["server"][c].complete <=> worker[c] \in {"joining", "ended"}
  /\ worker[c] # "none" => c \in seen["server"]
  /\ worker[c] \in {"none", "accepted"} => receiver["server"][c].step = "idle"
  /\ receiver["server"][c].step # "request"
  /\ sender["server"][c].step = "thrown" => worker[c] = "running"
  /\ sender["server"][c].step = "permit" => worker[c] \in {"running", "completing"}
  /\ ~call["server"][c].peer_input_closed

\* Before the request has been read there is nothing else of a call.
Unseen(c) ==
  c \notin seen["server"] =>
    /\ c \notin written /\ marking # c /\ ~Queued("server", "closed", c)
    /\ \A e \in Ends :
         /\ ~Queued(e, "ready", c) /\ ~Queued(e, "pull", c) /\ ~Sent(e, c)
         /\ ~call[e][c].ready /\ ~call[e][c].peer_permit /\ call[e][c].delivery = None
         /\ sender[e][c].step = "idle"

\* While the client's Writer is about to note that the request is written, it
\* writes no Pull, so the server sends nothing.
Marked(c) ==
  marking = c =>
    /\ c \in calls["client"]
    /\ ~call["server"][c].peer_permit /\ ~Sent("server", c)
    /\ call["client"][c].delivery = None

\* The server learns of a cancellation from the client.
Cancels(c) ==
  \/ call["server"][c].cancelled \/ c \in early
  \/ Queued("client", "cancel", c) \/ canceller[c] = "queueing"
  => call["client"][c].cancelled

\* Which messages go which way.
Directed(c) ==
  /\ \A f \in Carried("client", c) : f.kind \in {"request", "input", "finish"}
  /\ \A f \in Carried("server", c) : f.kind \in {"event", "result"}
  /\ call["server"][c].delivery # None => call["server"][c].delivery.kind \in {"input", "finish"}
  /\ call["client"][c].delivery # None => call["client"][c].delivery.kind \in {"event", "result"}
  /\ sender["client"][c].step = "permit" => sender["client"][c].kind \in {"input", "finish"}
  /\ sender["server"][c].step = "permit" =>
       sender["server"][c].kind = IF worker[c] = "running" THEN "event" ELSE "result"
  /\ \A e \in Ends : sender[e][c].step = "permit" => sender[e][c].part \in 1 .. Parts[sender[e][c].kind]

\* The fragments come in sequence: what is on the way to the other end fits what
\* is assembled there, and what is sent next fits what is left after it.
Fits(a, k, p, c) ==
  \/ p = a.parts + 1 /\ (a.parts = 0 \/ a.kind = k)
  \/ k = "result" /\ p = 1 /\ call["client"][c].cancelled
Rest(f) == IF f.part = Parts[f.kind] THEN Nothing ELSE [kind |-> f.kind, parts |-> f.part]
Goes(e, c, a) ==
  /\ sender[e][c].step = "idle" => a.parts = 0
  /\ sender[e][c].step = "permit" => Fits(a, sender[e][c].kind, sender[e][c].part, c)
  /\ sender[e][c].step = "thrown" /\ e = "server" => a.parts = 0 \/ call["client"][c].cancelled
Comes(e, c, f) ==
  /\ f.part \in 1 .. Parts[f.kind]
  /\ Fits(receiver[Other(e)][c], f.kind, f.part, c)
  /\ Goes(e, c, Rest(f))
SequencedFrom(e, c) ==
  ~call[Other(e)][c].complete =>
    /\ \A f \in Carried(e, c) : f.kind \in Messages => Comes(e, c, f)
    /\ call[Other(e)][c].delivery # None => Comes(e, c, call[Other(e)][c].delivery)
    /\ ~Sent(e, c) /\ call[Other(e)][c].delivery = None => Goes(e, c, receiver[Other(e)][c])
Sequenced(c) == \A e \in Ends : SequencedFrom(e, c)

CallInv(c) ==
  /\ Single(c) /\ Offered(c) /\ Permitted(c) /\ Waits(c) /\ ClientSide(c) /\ ServerSide(c)
  /\ Unseen(c) /\ Marked(c) /\ Cancels(c) /\ Directed(c) /\ Sequenced(c)

Accepted == \A n \in 1 .. Len(incoming) : incoming[n] \in seen["server"]

ProtocolInv == Works => Accepted /\ \A c \in Calls : CallInv(c)
IInv == TypeInv /\ ProtocolInv

\* A step that is another call's leaves this one as it was: its frames,
ControlsSame(c) ==
  \A e \in Ends :
    Of(controls'[e], c) = Of(controls[e], c) /\ (ControlsOnce(e, c) => ControlsOnce(e, c)')
DataSame(c) ==
  \A e \in Ends : Of(data'[e], c) = Of(data[e], c) /\ (DataOnce(e, c) => DataOnce(e, c)')
\* its invocations, its threads and the sets.
CallSame(c) == \A e \in Ends : call'[e][c] = call[e][c]
SenderSame(c) == \A e \in Ends : sender'[e][c] = sender[e][c]
ReceiverSame(c) == \A e \in Ends : receiver'[e][c] = receiver[e][c]
SetsSame(c) ==
  /\ \A e \in Ends : (c \in calls'[e] <=> c \in calls[e]) /\ (c \in seen'[e] <=> c \in seen[e])
  /\ worker'[c] = worker[c]
  /\ canceller'[c] = "queueing" => canceller[c] = "queueing"
  /\ c \in written' => c \in written
  /\ c \in early' => c \in early
  /\ marking' = c => marking = c
Same(c) ==
  /\ ControlsSame(c) /\ DataSame(c) /\ CallSame(c) /\ SenderSame(c) /\ ReceiverSame(c)
  /\ SetsSame(c)

LEMMA Untouched ==
  ASSUME NEW c \in Calls, CallInv(c), Same(c)
  PROVE  CallInv(c)'
<1>1. \A e \in Ends : Other(e) \in Ends
  BY OtherFacts
<1>2. "client" \in Ends /\ "server" \in Ends
  BY DEF Ends
<1> USE DEF Same, ControlsSame, DataSame, CallSame, SenderSame, ReceiverSame, SetsSame
<1>3. \A e \in Ends : \A k : Queued(e, k, c)' <=> Queued(e, k, c)
  BY DEF Same, Queued
<1>4. \A e \in Ends : (Sent(e, c)' <=> Sent(e, c)) /\ Carried(e, c)' = Carried(e, c)
  BY DEF Same, Sent, Carried
<1>5. Requested(c)' <=> Requested(c)
  BY <1>2, <1>4 DEF Requested
<1> USE DEF CallInv
<1>6. Single(c)'
  BY DEF Single, Same
<1>7. Offered(c)' /\ Permitted(c)' /\ Waits(c)'
  BY <1>1, <1>3, <1>4 DEF Offered, OfferedAt, Permitted, PermittedAt, AtMostOne, Waits, Same
<1>8. ClientSide(c)' /\ ServerSide(c)'
  BY <1>2, <1>5 DEF ClientSide, ServerSide, Same
<1>9. Unseen(c)' /\ Marked(c)' /\ Cancels(c)'
  BY <1>2, <1>3, <1>4 DEF Unseen, Marked, Cancels, Same
<1>10. Directed(c)'
  BY <1>2, <1>4 DEF Directed, Same
<1>11. Sequenced(c)'
  <2>1. \A a, k, p : Fits(a, k, p, c)' <=> Fits(a, k, p, c)
    BY <1>2 DEF Fits, Same
  <2>2. \A e \in Ends : \A a : Goes(e, c, a)' <=> Goes(e, c, a)
    BY <1>2, <2>1 DEF Goes, Same
  <2>3. \A e \in Ends : \A f : Comes(e, c, f)' <=> Comes(e, c, f)
    BY <1>1, <2>1, <2>2 DEF Comes, Same
  <2>4. ASSUME NEW e \in Ends
        PROVE  /\ call'[Other(e)][c] = call[Other(e)][c] /\ receiver'[Other(e)][c] = receiver[Other(e)][c]
               /\ Carried(e, c)' = Carried(e, c) /\ (Sent(e, c)' <=> Sent(e, c))
    BY <1>1, <1>4 DEF Same
  <2> QED BY <2>2, <2>3, <2>4 DEF Sequenced, SequencedFrom
<1> QED BY <1>6, <1>7, <1>8, <1>9, <1>10, <1>11

\* The sequence from one end needs only some of this.
LEMMA SequenceSame ==
  ASSUME NEW e \in Ends, NEW c \in Calls, NEW o \in Ends, o = Other(e), SequencedFrom(e, c),
         \A f : f.kind \in Messages => (f \in Of(data'[e], c) <=> f \in Carried(e, c)),
         sender'[e][c] = sender[e][c],
         receiver'[o][c].kind = receiver[o][c].kind, receiver'[o][c].parts = receiver[o][c].parts,
         ~call'[o][c].complete => ~call[o][c].complete /\ call'[o][c].delivery = call[o][c].delivery,
         call["client"][c].cancelled => call'["client"][c].cancelled
  PROVE  SequencedFrom(e, c)'
<1>1. \A a, b, k, p : a.kind = b.kind /\ a.parts = b.parts /\ Fits(a, k, p, c) => Fits(b, k, p, c)'
  BY DEF Fits
<1>2. \A a, b : a.kind = b.kind /\ a.parts = b.parts /\ Goes(e, c, a) => Goes(e, c, b)'
  BY <1>1 DEF Goes
<1>3. \A f : Comes(e, c, f) => Comes(e, c, f)'
  BY <1>1, <1>2 DEF Comes
<1>4. Sent(e, c)' <=> Sent(e, c)
  BY DEF Sent, Carried
<1>5. ASSUME Goes(e, c, receiver[o][c])
      PROVE  Goes(e, c, receiver[Other(e)][c])'
  <2>1. PICK a, b : a = receiver[o][c] /\ b = receiver'[o][c]
    OBVIOUS
  <2>2. Goes(e, c, b)'
    BY <1>2, <1>5, <2>1
  <2> QED BY <2>1, <2>2
<1>6. ASSUME ~call'[o][c].complete, call'[o][c].delivery # None
      PROVE  Comes(e, c, call[Other(e)][c].delivery)'
  <2>1. PICK g : g = call[o][c].delivery
    OBVIOUS
  <2>2. Comes(e, c, g)'
    BY <1>3, <1>6, <2>1 DEF SequencedFrom
  <2> QED BY <1>6, <2>1, <2>2
<1> QED BY <1>3, <1>4, <1>5, <1>6 DEF SequencedFrom, Carried

LEMMA AllSame ==
  ASSUME NEW c
  PROVE  /\ UNCHANGED controls => ControlsSame(c)
         /\ UNCHANGED data => DataSame(c)
         /\ UNCHANGED call => CallSame(c)
         /\ UNCHANGED sender => SenderSame(c)
         /\ UNCHANGED receiver => ReceiverSame(c)
         /\ UNCHANGED <<calls, seen, worker, canceller, written, early, marking>> => SetsSame(c)
BY DEF ControlsSame, DataSame, CallSame, SenderSame, ReceiverSame, SetsSame, ControlsOnce, DataOnce

LEMMA OthersSame ==
  ASSUME NEW e \in Ends, NEW c, NEW v, NEW d \in Calls, d # c
  PROVE  /\ Changed(call, call', e, c, v) => CallSame(d)
         /\ Changed(sender, sender', e, c, v) => SenderSame(d)
         /\ Changed(receiver, receiver', e, c, v) => ReceiverSame(d)
BY DEF Changed, CallSame, SenderSame, ReceiverSame

\* What a call sees of frames that are queued,
KindsGain(e, c, K) ==
  /\ \A d \in Calls : d # c => ControlsSame(d)
  /\ \A x \in Ends, j \in Controls : Queued(x, j, c)' <=> Queued(x, j, c) \/ (x = e /\ j \in K)
  /\ /\ \A x \in Ends : ControlsOnce(x, c)
     /\ \A j \in K \cap {"ready", "pull"} : ~Queued(e, j, c)
     => \A x \in Ends : ControlsOnce(x, c)'

LEMMA GainKinds ==
  ASSUME NEW e \in Ends, NEW c \in Calls, NEW S, ControlsGain(e, c, S), NEW K, K = {f.kind : f \in S}
  PROVE  KindsGain(e, c, K)
<1>1. ASSUME NEW d \in Calls, d # c
      PROVE  ControlsSame(d)
  BY <1>1 DEF ControlsGain, ControlsSame
<1>2. ASSUME NEW x \in Ends, NEW j
      PROVE  Queued(x, j, c)' <=> Queued(x, j, c) \/ (x = e /\ j \in K)
  <2>1. Of(controls'[x], c) = IF x = e THEN Of(controls[x], c) \cup S ELSE Of(controls[x], c)
    BY DEF ControlsGain
  <2> QED BY <2>1 DEF Queued
<1>3. ASSUME \A x \in Ends : ControlsOnce(x, c), \A j \in K \cap {"ready", "pull"} : ~Queued(e, j, c)
      PROVE  \A x \in Ends : ControlsOnce(x, c)'
  <2>1. \A f \in S : f.kind \in {"ready", "pull"} => ~Queued(e, f.kind, c)
    BY <1>3
  <2> QED BY <1>3, <2>1 DEF ControlsGain
<1> QED BY <1>1, <1>2, <1>3 DEF KindsGain

LEMMA KindsQueued ==
  ASSUME TypeOK, NEW e \in Ends, NEW c \in Calls
  PROVE  /\ UNCHANGED controls => KindsGain(e, c, {})
         /\ \A k \in Controls : QueueControl(e, k, c) => KindsGain(e, c, {k})
         /\ QueueControls(e, Ready(e, c)) =>
              KindsGain(e, c, IF call[e][c].offer_pending THEN {} ELSE {"ready"})
         /\ QueueControls(e, <<ControlFrame("closed", c)>> \o Ready(e, c)) =>
              KindsGain(e, c, {"closed"} \cup (IF call[e][c].offer_pending THEN {} ELSE {"ready"}))
<1>1. UNCHANGED controls => KindsGain(e, c, {})
  BY AllSame DEF KindsGain, Queued, ControlsOnce
<1>2. ASSUME NEW k \in Controls, QueueControl(e, k, c)
      PROVE  KindsGain(e, c, {k})
  <2>1. {k} = {f.kind : f \in {ControlFrame(k, c)}}
    BY DEF ControlFrame
  <2> QED BY <1>2, <2>1, ControlQueued, GainKinds
<1>3. ASSUME QueueControls(e, Ready(e, c))
      PROVE  KindsGain(e, c, IF call[e][c].offer_pending THEN {} ELSE {"ready"})
  <2>1. CASE call[e][c].offer_pending
    <3>1. ControlsGain(e, c, {})
      BY <1>3, <2>1, ReadyQueued
    <3>2. {} = {f.kind : f \in {}}
      OBVIOUS
    <3> QED BY <2>1, <3>1, <3>2, GainKinds
  <2>2. CASE ~call[e][c].offer_pending
    <3>1. ControlsGain(e, c, {ControlFrame("ready", c)})
      BY <1>3, <2>2, ReadyQueued
    <3>2. {"ready"} = {f.kind : f \in {ControlFrame("ready", c)}}
      BY DEF ControlFrame
    <3> QED BY <2>2, <3>1, <3>2, GainKinds
  <2> QED BY <2>1, <2>2
<1>4. ASSUME QueueControls(e, <<ControlFrame("closed", c)>> \o Ready(e, c))
      PROVE  KindsGain(e, c, {"closed"} \cup (IF call[e][c].offer_pending THEN {} ELSE {"ready"}))
  <2>1. CASE call[e][c].offer_pending
    <3>1. ControlsGain(e, c, {ControlFrame("closed", c)} \cup {})
      BY <1>4, <2>1, ClosedQueued
    <3>2. {"closed"} \cup {} = {f.kind : f \in {ControlFrame("closed", c)} \cup {}}
      BY DEF ControlFrame
    <3> QED BY <2>1, <3>1, <3>2, GainKinds
  <2>2. CASE ~call[e][c].offer_pending
    <3>1. ControlsGain(e, c, {ControlFrame("closed", c)} \cup {ControlFrame("ready", c)})
      BY <1>4, <2>2, ClosedQueued
    <3>2. {"closed"} \cup {"ready"} = {f.kind : f \in {ControlFrame("closed", c)} \cup {ControlFrame("ready", c)}}
      BY DEF ControlFrame
    <3> QED BY <2>2, <3>1, <3>2, GainKinds
  <2> QED BY <2>1, <2>2
<1> QED BY <1>1, <1>2, <1>3, <1>4

LEMMA OneFrame ==
  ASSUME Wired, NEW e \in Ends, NEW c \in Calls, DataOnce(e, c), NEW f \in Carried(e, c), NEW g \in Carried(e, c)
  PROVE  f = g
<1>1. f.kind \in Transported /\ g.kind \in Transported
  BY DEF Wired, Carried, Ends, Transported
<1> QED BY <1>1 DEF DataOnce, Once, Carried, Of, Frames

LEMMA FrameCarried ==
  ASSUME TypeOK, NEW e \in Ends, NEW f \in Frame, QueueData(e, f), Carried(e, f.id) = {},
         \A x \in Ends : DataOnce(x, f.id)
  PROVE  /\ \A d \in Calls : d # f.id => DataSame(d)
         /\ \A x \in Ends : Of(data'[x], f.id) = (IF x = e THEN {f} ELSE Carried(x, f.id))
         /\ \A x \in Ends, c \in Calls : c = f.id => DataOnce(x, c)'
<1>1. DataGain(e, f) /\ f.id \in Calls
  BY DataQueued DEF Frame
<1>2. \A d \in Calls : d # f.id => DataSame(d)
  BY <1>1 DEF DataGain, DataSame
<1>3. ASSUME NEW x \in Ends
      PROVE  Of(data'[x], f.id) = IF x = e THEN {f} ELSE Carried(x, f.id)
  BY <1>1 DEF DataGain, Carried
<1>4. ASSUME NEW x \in Ends, NEW c \in Calls, c = f.id
      PROVE  DataOnce(x, c)'
  BY <1>1, <1>4 DEF DataGain
<1> QED BY <1>2, <1>3, <1>4

\* and of one that is written.
LEMMA ControlRead ==
  ASSUME Wired, NEW e \in Ends, NEW f \in Frame, ControlsLose(e, f), f \in Of(controls[e], f.id),
         \A x \in Ends : ControlsOnce(x, f.id)
  PROVE  /\ \A d \in Calls : d # f.id => ControlsSame(d)
         /\ \A c \in Calls : c = f.id =>
              /\ Queued(e, f.kind, c)
              /\ \A x \in Ends, j \in Controls :
                   /\ Queued(x, j, c)' => Queued(x, j, c)
                   /\ x # e \/ j # f.kind => (Queued(x, j, c)' <=> Queued(x, j, c))
                   /\ x = e /\ j = f.kind /\ j \in {"ready", "pull"} => ~Queued(x, j, c)'
              /\ \A x \in Ends : ControlsOnce(x, c)'
<1>1. f.id \in Calls
  BY DEF Frame
<1>2. \A d \in Calls : d # f.id => ControlsSame(d)
  BY DEF ControlsLose, ControlsSame
<1>3. ASSUME NEW c \in Calls, c = f.id
      PROVE  /\ Queued(e, f.kind, c)
             /\ \A x \in Ends, j \in Controls :
                  /\ Queued(x, j, c)' => Queued(x, j, c)
                  /\ x # e \/ j # f.kind => (Queued(x, j, c)' <=> Queued(x, j, c))
                  /\ x = e /\ j = f.kind /\ j \in {"ready", "pull"} => ~Queued(x, j, c)'
             /\ \A x \in Ends : ControlsOnce(x, c)'
  <2>1. Queued(e, f.kind, c)
    BY <1>3 DEF Queued
  <2>2. ASSUME NEW x \in Ends, NEW j \in Controls
        PROVE  /\ Queued(x, j, c)' => Queued(x, j, c)
               /\ x # e \/ j # f.kind => (Queued(x, j, c)' <=> Queued(x, j, c))
    <3>1. Of(controls[x], c) = IF x = e THEN Of(controls'[x], c) \cup {f} ELSE Of(controls'[x], c)
      BY <1>3 DEF ControlsLose
    <3> QED BY <3>1 DEF Queued
  <2>3. ASSUME f.kind \in {"ready", "pull"}
        PROVE  ~\E g \in Of(controls'[e], c) : g.kind = f.kind
    BY <1>3, <2>3 DEF ControlsLose
  <2>4. ASSUME NEW x \in Ends, NEW j \in Controls, x = e, j = f.kind, j \in {"ready", "pull"}
        PROVE  ~Queued(x, j, c)'
    BY <2>3, <2>4 DEF Queued
  <2>5. \A x \in Ends : ControlsOnce(x, c)'
    BY <1>3 DEF ControlsLose
  <2> QED BY <2>1, <2>2, <2>4, <2>5
<1> QED BY <1>2, <1>3

LEMMA DataRead ==
  ASSUME Wired, NEW e \in Ends, NEW f \in Frame, DataLose(e, f), f \in Of(data[e], f.id),
         \A x \in Ends : DataOnce(x, f.id)
  PROVE  /\ \A d \in Calls : d # f.id => DataSame(d)
         /\ Carried(e, f.id) = {f}
         /\ \A x \in Ends : Of(data'[x], f.id) = (IF x = e THEN {} ELSE Carried(x, f.id))
         /\ \A x \in Ends, c \in Calls : c = f.id => DataOnce(x, c)'
<1>1. f.id \in Calls /\ f \in Carried(e, f.id)
  BY DEF Frame, Carried
<1>2. f.kind \in Transported /\ \A g \in Carried(e, f.id) : g.kind \in Transported
  BY <1>1 DEF Wired, Carried, Ends, Transported
<1>3. Carried(e, f.id) = {f}
  BY <1>1, OneFrame
<1>4. Carried(e, f.id) = Of(data'[e], f.id) \cup {f}
  BY <1>1 DEF DataLose, Carried
<1>5. \A g \in Of(data'[e], f.id) : g.kind \notin Transported
  BY <1>2 DEF DataLose
<1>6. Of(data'[e], f.id) = {}
  BY <1>2, <1>4, <1>5
<1>7. \A x \in Ends : x # e => Of(data'[x], f.id) = Carried(x, f.id)
  BY <1>1 DEF DataLose, Carried
<1>8. \A d \in Calls : d # f.id => DataSame(d)
  BY DEF DataLose, DataSame
<1>9. \A x \in Ends, c \in Calls : c = f.id => DataOnce(x, c)'
  BY DEF DataLose
<1> QED BY <1>3, <1>6, <1>7, <1>8, <1>9

-----------------------------------------------------------------------------
(* Sending.                                                                *)

LEMMA PostKeeps ==
  ASSUME TypeInv, NEW e \in Ends, NEW c \in Calls, CallInv(c), Post(e, c)
  PROVE  CallInv(c)' /\ \A d \in Calls : d # c => Same(d)
<1> DEFINE o == Other(e)
<1>1. PICK k, p, a : k = sender[e][c].kind /\ p = sender[e][c].part /\ a = receiver[o][c]
  OBVIOUS
<1> DEFINE more == p < Parts[k]
           f == MessageFrame(k, c, p)
<1> USE <1>1 DEF CallInv, TypeInv
<1>2. /\ o \in Ends /\ o # e /\ Other(o) = e /\ \A x \in Ends : x = e \/ x = o
      /\ "client" \in Ends /\ "server" \in Ends
      /\ Other("client") = "server" /\ Other("server") = "client"
  BY OtherFacts DEF Ends
<1>3. /\ sender[e][c].step = "permit" /\ call[e][c].peer_permit /\ ~Dropped(e, c)
      /\ UNCHANGED <<calls, seen, written, marking, early, receiver, canceller, worker>>
  BY DEF Post
<1>4. k \in Messages /\ p \in 1 .. Parts[k] /\ Parts[k] \in Nat
  BY <1>3, SizesAssumption DEF Wired, Directed
<1>5. f \in Frame /\ f.kind = k /\ f.id = c /\ f.part = p
  BY <1>4 DEF MessageFrame, Frame
<1>6. Changed(call, call', e, c, [call[e][c] EXCEPT !.peer_permit = FALSE, !.offer_pending = more])
  <2>1. PICK b \in BOOLEAN : b = more
    BY more \in BOOLEAN
  <2>2. PermitUsed(e, c, b)
    BY <2>1 DEF Post, PermitUsed
  <2> QED BY <2>1, <2>2, PostEffect
<1>7. Changed(sender, sender', e, c, IF more THEN [step |-> "permit", kind |-> k, part |-> p + 1] ELSE NotSending)
  <2>1. CASE more
    <3>1. Offers(e, c, k, p + 1)
      BY <2>1 DEF Post
    <3>2. PICK m \in Messages, q \in Nat : m = k /\ q = p + 1
      BY <1>4
    <3>3. Changed(sender, sender', e, c, [step |-> "permit", kind |-> m, part |-> q])
      BY <3>1, <3>2, OfferEffect
    <3> QED BY <2>1, <3>2, <3>3
  <2>2. CASE ~more
    <3>1. SenderDone(e, c)
      BY <2>2 DEF Post, SenderDone
    <3> QED BY <2>2, <3>1, SenderDoneEffect
  <2> QED BY <2>1, <2>2
<1>8. \/ more /\ KindsGain(e, c, {"ready"})
      \/ ~more /\ KindsGain(e, c, {})
  BY KindsQueued DEF Post, Controls
<1>9. QueueData(e, f)
  BY DEF Post
<1> HIDE DEF o, more, f
<1>10. c \in seen["server"] /\ ~Requested(c) /\ ~Sent(e, c) /\ Carried(e, c) = {}
  BY <1>2, <1>3 DEF Unseen, ClientSide, Permitted, PermittedAt, AtMostOne, Sent, Requested, Directed, Messages
<1>11. /\ \A d \in Calls : d # c => DataSame(d)
       /\ \A x \in Ends : Carried(x, c)' = (IF x = e THEN {f} ELSE Carried(x, c)) /\ DataOnce(x, c)'
  BY <1>5, <1>9, <1>10, FrameCarried DEF Single, Carried
<1>12. \A d \in Calls : d # c => Same(d)
  BY <1>3, <1>6, <1>7, <1>8, <1>11, AllSame, OthersSame DEF Same, KindsGain
<1>13. \A x \in Ends, j \in Controls : Queued(x, j, c)' <=> Queued(x, j, c) \/ (x = e /\ j = "ready" /\ more)
  BY <1>8 DEF KindsGain
<1>14. Sent(e, c)' /\ (Sent(o, c)' <=> Sent(o, c)) /\ ~Requested(c)'
  BY <1>2, <1>4, <1>5, <1>10, <1>11 DEF Sent, Requested, Messages
<1>15. /\ call'[o][c] = call[o][c] /\ sender'[o][c] = sender[o][c]
       /\ call[e][c] \in Invocation /\ call[o][c] \in Invocation
  BY <1>2, <1>6, <1>7 DEF Changed, TypeOK
<1>16. /\ ~call'[e][c].peer_permit /\ (call'[e][c].offer_pending <=> more)
       /\ call'[e][c].ready = call[e][c].ready /\ call'[e][c].complete = call[e][c].complete
       /\ call'[e][c].delivery = call[e][c].delivery /\ call'[e][c].cancelled = call[e][c].cancelled
       /\ call'[e][c].receive_requested = call[e][c].receive_requested
       /\ call'[e][c].peer_input_closed = call[e][c].peer_input_closed
  BY <1>6, <1>15 DEF Changed, Invocation
<1>17. /\ more => sender'[e][c].step = "permit" /\ sender'[e][c].kind = k /\ sender'[e][c].part = p + 1
       /\ ~more => sender'[e][c].step = "idle"
  BY <1>7 DEF Changed, NotSending
<1>18. Single(c)'
  <2>1. ~Queued(e, "ready", c)
    BY <1>3 DEF Offered, OfferedAt, AtMostOne
  <2> QED BY <1>8, <1>11, <2>1 DEF Single, KindsGain
<1>19. Offered(c)'
  BY <1>2, <1>3, <1>13, <1>15, <1>16 DEF Offered, OfferedAt, AtMostOne, Controls
<1>20. Permitted(c)' /\ Waits(c)'
  BY <1>2, <1>3, <1>13, <1>14, <1>15, <1>16 DEF Permitted, PermittedAt, Waits, AtMostOne, Controls
<1>21. ClientSide(c)' /\ ServerSide(c)'
  BY <1>2, <1>3, <1>14, <1>15, <1>16, <1>17 DEF ClientSide, ServerSide
<1>22. Unseen(c)' /\ Marked(c)' /\ Cancels(c)'
  BY <1>2, <1>3, <1>10, <1>13, <1>14, <1>15, <1>16 DEF Unseen, Marked, Cancels, Controls
<1>23. Directed(c)'
  <2>1. /\ e = "client" => k \in {"input", "finish"}
        /\ e = "server" => k = IF worker[c] = "running" THEN "event" ELSE "result"
    BY <1>3 DEF Directed
  <2>2. more => p + 1 \in 1 .. Parts[k]
    BY <1>4 DEF more
  <2> QED BY <1>2, <1>3, <1>5, <1>11, <1>15, <1>16, <1>17, <2>1, <2>2 DEF Directed
<1>24. Sequenced(c)'
  <2>1. SequencedFrom(o, c)'
    BY <1>2, <1>3, <1>11, <1>15, <1>16, SequenceSame DEF Sequenced, Carried
  <2>2. SequencedFrom(e, c)'
    <3>1. call[o][c].delivery = None
      BY <1>3 DEF Permitted, PermittedAt, AtMostOne, o
    <3>2. ~call[o][c].complete => Fits(a, k, p, c)
      BY <1>2, <1>3, <1>10, <3>1 DEF Sequenced, SequencedFrom, Goes, o
    <3>3. ~call[o][c].complete => Fits(a, k, p, c)'
      BY <1>2, <1>3, <1>15, <1>16, <3>2 DEF Fits
    <3>4. p \in Nat /\ Parts[k] \in Nat
      BY <1>4
    <3>5. Goes(e, c, Rest(f))'
      <4>1. CASE more
        BY <1>5, <1>17, <3>4, <4>1 DEF Goes, Rest, Fits, more
      <4>2. CASE ~more
        BY <1>4, <1>5, <1>17, <4>2 DEF Goes, Rest, Nothing, more
      <4> QED BY <4>1, <4>2
    <3>6. ~call[o][c].complete => Comes(e, c, f)'
      BY <1>2, <1>3, <1>4, <1>5, <3>3, <3>5 DEF Comes, o
    <3> QED BY <1>2, <1>11, <1>14, <1>15, <3>1, <3>6 DEF SequencedFrom
  <2> QED BY <1>2, <2>1, <2>2 DEF Sequenced
<1> QED BY <1>12, <1>18, <1>19, <1>20, <1>21, <1>22, <1>23, <1>24

LEMMA SenderThrowsKeeps ==
  ASSUME TypeInv, NEW e \in Ends, NEW c \in Calls, CallInv(c), SenderThrows(e, c)
  PROVE  CallInv(c)' /\ \A d \in Calls : d # c => Same(d)
<1> DEFINE o == Other(e)
<1> USE DEF CallInv, TypeInv
<1>1. /\ o \in Ends /\ o # e /\ Other(e) = o /\ Other(o) = e /\ \A x \in Ends : x = e \/ x = o
      /\ "client" \in Ends /\ "server" \in Ends
      /\ Other("client") = "server" /\ Other("server") = "client"
  BY OtherFacts DEF Ends
<1>2. /\ sender[e][c].step = "permit" /\ Dropped(e, c)
      /\ UNCHANGED <<call, calls, seen, controls, data, written, marking, early, receiver, canceller, worker>>
  BY DEF SenderThrows, queues
<1>3. Changed(sender, sender', e, c, [sender[e][c] EXCEPT !.step = "thrown"])
  BY ThrowEffect
<1> HIDE DEF o
<1>4. /\ sender'[o][c] = sender[o][c] /\ sender'[e][c].step = "thrown"
      /\ sender'[e][c].kind = sender[e][c].kind /\ sender'[e][c].part = sender[e][c].part
  BY <1>1, <1>3 DEF Changed, TypeOK
<1>5. \A d \in Calls : d # c => Same(d)
  BY <1>2, <1>3, AllSame, OthersSame DEF Same
<1>6. ControlsSame(c) /\ DataSame(c) /\ CallSame(c) /\ ReceiverSame(c)
  BY <1>2, AllSame
<1>7. e = "server" => worker[c] = "running" /\ call["client"][c].cancelled
  BY <1>1, <1>2 DEF Dropped, Directed, ServerSide, Cancels
<1>8. Single(c)' /\ Offered(c)' /\ Permitted(c)' /\ Waits(c)'
  BY <1>1, <1>2 DEF Single, Offered, OfferedAt, Permitted, PermittedAt, Waits, AtMostOne, Queued, Sent, Carried, ControlsOnce, DataOnce
<1>9. ClientSide(c)' /\ ServerSide(c)'
  BY <1>1, <1>2, <1>4, <1>7 DEF ClientSide, ServerSide, Requested, Carried
<1>10. Unseen(c)' /\ Marked(c)' /\ Cancels(c)' /\ Directed(c)'
  BY <1>1, <1>2, <1>4 DEF Unseen, Marked, Cancels, Directed, Carried, Queued, Sent
<1>11. Sequenced(c)'
  <2>1. SequencedFrom(o, c)'
    BY <1>1, <1>2, <1>4, SequenceSame DEF Sequenced, Carried
  <2>2. \A a : Goes(e, c, a)'
    BY <1>1, <1>2, <1>4, <1>7 DEF Goes
  <2>3. \A f : Comes(e, c, f) => Comes(e, c, f)'
    BY <1>1, <1>2, <2>2 DEF Comes, Fits
  <2>4. SequencedFrom(e, c)'
    BY <1>1, <1>2, <2>2, <2>3 DEF Sequenced, SequencedFrom, Carried, Sent
  <2> QED BY <1>1, <2>1, <2>4 DEF Sequenced
<1> QED BY <1>5, <1>8, <1>9, <1>10, <1>11

LEMMA ReceiverThrowsKeeps ==
  ASSUME TypeInv, NEW e \in Ends, NEW c \in Calls, CallInv(c), ReceiverThrows(e, c)
  PROVE  CallInv(c)' /\ \A d \in Calls : d # c => Same(d)
<1> DEFINE o == Other(e)
<1> USE DEF CallInv, TypeInv
<1>1. /\ o \in Ends /\ o # e /\ Other(e) = o /\ Other(o) = e /\ \A x \in Ends : x = e \/ x = o
      /\ "client" \in Ends /\ "server" \in Ends
      /\ Other("client") = "server" /\ Other("server") = "client"
  BY OtherFacts DEF Ends
<1>2. /\ e = "server" /\ o = "client" /\ receiver[e][c].step \in {"waiting", "delivery"}
      /\ UNCHANGED <<call, calls, seen, controls, data, written, marking, early, sender, canceller, worker>>
  BY <1>1 DEF ReceiverThrows, Abandoned, queues
<1>3. Changed(receiver, receiver', e, c, [receiver[e][c] EXCEPT !.step = "ended"])
  BY ReceiverEffect DEF ReceiverThrows, ReceiverMoved, Receives
<1> HIDE DEF o
<1>4. /\ receiver'[o][c] = receiver[o][c] /\ receiver'[e][c].step = "ended"
      /\ receiver'[e][c].kind = receiver[e][c].kind /\ receiver'[e][c].parts = receiver[e][c].parts
  BY <1>1, <1>3 DEF Changed, TypeOK
<1>5. \A d \in Calls : d # c => Same(d)
  BY <1>2, <1>3, AllSame, OthersSame DEF Same
<1>6. Single(c)' /\ Offered(c)' /\ Permitted(c)' /\ Waits(c)'
  BY <1>1, <1>2, <1>4 DEF Single, Offered, OfferedAt, Permitted, PermittedAt, Waits, AtMostOne, Queued, Sent, Carried, ControlsOnce, DataOnce
<1>7. ClientSide(c)' /\ ServerSide(c)'
  BY <1>1, <1>2, <1>4 DEF ClientSide, ServerSide, Requested, Carried
<1>8. Unseen(c)' /\ Marked(c)' /\ Cancels(c)' /\ Directed(c)'
  BY <1>1, <1>2, <1>4 DEF Unseen, Marked, Cancels, Directed, Carried, Queued, Sent
<1>9. Sequenced(c)'
  BY <1>1, <1>2, <1>4, SequenceSame DEF Sequenced, Carried
<1> QED BY <1>5, <1>6, <1>7, <1>8, <1>9

LEMMA PullKeeps ==
  ASSUME TypeInv, NEW e \in Ends, NEW c \in Calls, CallInv(c), Pull(e, c)
  PROVE  ~call[e][c].receive_requested /\ CallInv(c)' /\ \A d \in Calls : d # c => Same(d)
<1> DEFINE o == Other(e)
<1> USE DEF CallInv, TypeInv
<1>1. /\ o \in Ends /\ o # e /\ Other(e) = o /\ Other(o) = e /\ \A x \in Ends : x = e \/ x = o
      /\ "client" \in Ends /\ "server" \in Ends
      /\ Other("client") = "server" /\ Other("server") = "client"
  BY OtherFacts DEF Ends
<1>2. /\ receiver[e][c].step = "waiting" /\ call[e][c].ready /\ ~call[e][c].receive_requested
      /\ UNCHANGED <<calls, seen, data, written, marking, early, sender, canceller, worker>>
      /\ QueueControl(e, "pull", c) /\ PullRequested(e, c) /\ ReceiverMoved(e, c, "delivery")
  BY DEF Pull, Waits, PullRequested, ReceiverMoved
<1>3. Changed(call, call', e, c, [call[e][c] EXCEPT !.ready = FALSE, !.receive_requested = TRUE])
  BY <1>2, PullEffect
<1>4. Changed(receiver, receiver', e, c, [receiver[e][c] EXCEPT !.step = "delivery"])
  BY <1>2, ReceiverEffect DEF Receives
<1>5. KindsGain(e, c, {"pull"})
  BY <1>2, KindsQueued DEF Controls
<1> HIDE DEF o
<1>6. \A x \in Ends, j \in Controls : Queued(x, j, c)' <=> Queued(x, j, c) \/ (x = e /\ j = "pull")
  BY <1>5 DEF KindsGain
<1>7. /\ receiver'[o][c] = receiver[o][c] /\ receiver'[e][c].step = "delivery"
      /\ receiver'[e][c].kind = receiver[e][c].kind /\ receiver'[e][c].parts = receiver[e][c].parts
  BY <1>1, <1>4 DEF Changed, TypeOK
<1>8. /\ call'[o][c] = call[o][c] /\ call[e][c] \in Invocation
      /\ ~call'[e][c].ready /\ call'[e][c].receive_requested
      /\ call'[e][c].peer_permit = call[e][c].peer_permit /\ call'[e][c].complete = call[e][c].complete
      /\ call'[e][c].delivery = call[e][c].delivery /\ call'[e][c].cancelled = call[e][c].cancelled
      /\ call'[e][c].offer_pending = call[e][c].offer_pending
      /\ call'[e][c].peer_input_closed = call[e][c].peer_input_closed
  BY <1>1, <1>3 DEF Changed, TypeOK, Invocation
<1>9. \A d \in Calls : d # c => Same(d)
  BY <1>2, <1>3, <1>4, <1>5, AllSame, OthersSame DEF Same, KindsGain
<1>10. c \in seen["server"] /\ ~Requested(c) /\ ~Queued(e, "pull", c) /\ ~call[e][c].complete
  BY <1>1, <1>2 DEF Unseen, ClientSide, Offered, OfferedAt, AtMostOne, Pull, Abandoned
<1>11. Single(c)'
  BY <1>2, <1>5, <1>10 DEF Single, KindsGain, DataOnce
<1>12. Offered(c)'
  BY <1>1, <1>2, <1>6, <1>8, <1>10 DEF Offered, OfferedAt, AtMostOne, Controls
<1>13. Permitted(c)' /\ Waits(c)'
  BY <1>1, <1>2, <1>6, <1>7, <1>8, <1>10 DEF Permitted, PermittedAt, Waits, AtMostOne, Controls, Sent, Carried
<1>14. ClientSide(c)' /\ ServerSide(c)'
  BY <1>1, <1>2, <1>7, <1>8, <1>10 DEF ClientSide, ServerSide, Requested, Carried
<1>15. Unseen(c)' /\ Marked(c)' /\ Cancels(c)' /\ Directed(c)'
  BY <1>1, <1>2, <1>6, <1>8, <1>10 DEF Unseen, Marked, Cancels, Directed, Controls, Carried, Sent
<1>16. Sequenced(c)'
  BY <1>1, <1>2, <1>7, <1>8, SequenceSame DEF Sequenced, Carried
<1> QED BY <1>2, <1>9, <1>11, <1>12, <1>13, <1>14, <1>15, <1>16

LEMMA DeliverKeeps ==
  ASSUME TypeInv, NEW e \in Ends, NEW c \in Calls, CallInv(c), Deliver(e, c)
  PROVE  /\ Follows(Kept(e, c, call[e][c].delivery), call[e][c].delivery)
         /\ CallInv(c)' /\ \A d \in Calls : d # c => Same(d)
<1> DEFINE o == Other(e)
<1>1. PICK f, a : f = call[e][c].delivery /\ a = receiver[e][c]
  OBVIOUS
<1> DEFINE whole == f.part = Parts[f.kind]
           over == whole /\ f.kind \in {"result", "finish"}
           b == over /\ e = "client"
<1> USE <1>1 DEF CallInv, TypeInv
<1>2. /\ o \in Ends /\ o # e /\ Other(e) = o /\ Other(o) = e /\ \A x \in Ends : x = e \/ x = o
      /\ "client" \in Ends /\ "server" \in Ends
      /\ Other("client") = "server" /\ Other("server") = "client"
  BY OtherFacts DEF Ends
<1>3. /\ receiver[e][c].step = "delivery" /\ call[e][c].delivery # None
      /\ ~call[e][c].complete
  BY <1>2 DEF Deliver, Abandoned, ClientSide
<1>4. /\ ~Queued(e, "pull", c) /\ ~call[o][c].peer_permit /\ ~Sent(o, c)
      /\ c \in seen["server"] /\ (marking = c => e = "server")
  BY <1>2, <1>3 DEF Permitted, PermittedAt, AtMostOne, Unseen, Marked
<1>5. Comes(o, c, f)
  BY <1>2, <1>3 DEF Sequenced, SequencedFrom
<1>6. Follows(Kept(e, c, f), f)
  <2>1. /\ f.kind = "result" => e = "client"
        /\ Fits(a, f.kind, f.part, c) /\ f.part \in 1 .. Parts[f.kind]
    BY <1>2, <1>3, <1>5 DEF Comes, Directed
  <2> QED BY <1>2, <2>1 DEF Fits, Follows, Kept, Nothing
<1>7. /\ FrameDelivered(e, c, b)
      /\ receiver' = [receiver EXCEPT ![e][c] =
                        [step |-> IF over THEN "ended" ELSE "waiting",
                         kind |-> IF whole THEN "none" ELSE f.kind, parts |-> IF whole THEN 0 ELSE f.part]]
      /\ IF b THEN seen' = [seen EXCEPT ![e] = @ \cup {c}] /\ calls' = [calls EXCEPT ![e] = @ \ {c}]
              ELSE UNCHANGED <<seen, calls>>
      /\ UNCHANGED <<controls, data, written, marking, early, sender, canceller, worker>>
  BY <1>6 DEF Deliver, FrameDelivered, queues
<1>8. b \in BOOLEAN
  OBVIOUS
<1> HIDE DEF o, b
<1>9. Changed(call, call', e, c, [call[e][c] EXCEPT !.delivery = None, !.receive_requested = FALSE, !.complete = @ \/ b])
  BY <1>7, <1>8, DeliverEffect
<1>10. \E v : /\ Changed(receiver, receiver', e, c, v)
              /\ v.step = (IF over THEN "ended" ELSE "waiting")
              /\ v.kind = Rest(f).kind /\ v.parts = Rest(f).parts
  <2> DEFINE v == [step |-> IF over THEN "ended" ELSE "waiting",
                   kind |-> IF whole THEN "none" ELSE f.kind, parts |-> IF whole THEN 0 ELSE f.part]
  <2>1. f.kind \in Messages /\ f.part \in Nat
    BY <1>3 DEF Deliveries, TypeOK, Invocation, Frame
  <2>2. v \in Receiver
    BY <2>1 DEF Receiver, Receives
  <2>3. v.step = (IF over THEN "ended" ELSE "waiting") /\ v.kind = Rest(f).kind /\ v.parts = Rest(f).parts
    BY DEF Rest, Nothing
  <2>4. Assembled(e, c, v)
    BY <1>7 DEF Assembled
  <2> HIDE DEF v
  <2> QED BY <2>2, <2>3, <2>4, AssembledEffect
<1>11. /\ receiver'[o][c] = receiver[o][c]
       /\ receiver'[e][c].step = IF over THEN "ended" ELSE "waiting"
       /\ receiver'[e][c].kind = Rest(f).kind /\ receiver'[e][c].parts = Rest(f).parts
  BY <1>2, <1>10 DEF Changed
<1>12. call'[e][c].complete <=> b
  <2>1. call[e][c] \in Invocation
    BY DEF TypeOK
  <2>2. call'[e][c].complete = (call[e][c].complete \/ b)
    BY <1>9, <2>1 DEF Changed, Invocation
  <2> QED BY <1>3, <2>2
<1>13. /\ call'[o][c] = call[o][c] /\ call[e][c] \in Invocation
       /\ call'[e][c].delivery = None /\ ~call'[e][c].receive_requested
       /\ call'[e][c].ready = call[e][c].ready /\ call'[e][c].peer_permit = call[e][c].peer_permit
       /\ call'[e][c].offer_pending = call[e][c].offer_pending
       /\ call'[e][c].cancelled = call[e][c].cancelled
       /\ call'[e][c].peer_input_closed = call[e][c].peer_input_closed
  BY <1>2, <1>9 DEF Changed, TypeOK, Invocation
<1>14. (call["client"][c].cancelled <=> call'["client"][c].cancelled) /\ (call'[o][c].complete <=> call[o][c].complete)
  BY <1>2, <1>13
<1>15. /\ calls'[o] = calls[o] /\ seen'[o] = seen[o]
       /\ b => calls'[e] = calls[e] \ {c} /\ seen'[e] = seen[e] \cup {c}
       /\ ~b => calls'[e] = calls[e] /\ seen'[e] = seen[e]
  BY <1>2, <1>7 DEF TypeOK
<1>16. \A d \in Calls : d # c => Same(d)
  <2>1. \A d \in Calls : d # c => ReceiverSame(d)
    BY <1>10, OthersSame
  <2>2. \A d \in Calls : d # c => SetsSame(d)
    BY <1>2, <1>7, <1>15 DEF SetsSame
  <2> QED BY <1>7, <1>9, <2>1, <2>2, AllSame, OthersSame DEF Same
<1>17. b => e = "client" /\ over
  BY DEF b
<1>18. e = "client" => (b <=> over)
  BY DEF b
<1>19. Single(c)' /\ Offered(c)' /\ Permitted(c)' /\ Waits(c)'
  <2>1. Single(c)'
    BY <1>7 DEF Single, ControlsOnce, DataOnce
  <2>2. Offered(c)'
    BY <1>2, <1>7, <1>13 DEF Offered, OfferedAt, AtMostOne, Queued
  <2>3. \A x \in Ends : (Queued(x, "pull", c)' <=> Queued(x, "pull", c)) /\ (Sent(x, c)' <=> Sent(x, c))
    BY <1>7 DEF Queued, Sent, Carried
  <2>4. Permitted(c)'
    BY <1>2, <1>3, <1>4, <1>13, <1>14, <2>3 DEF Permitted, PermittedAt, AtMostOne
  <2>5. Waits(c)'
    BY <1>2, <1>11, <1>13 DEF Waits
  <2> QED BY <2>1, <2>2, <2>4, <2>5
<1>20. ClientSide(c)' /\ ServerSide(c)'
  <2>1. (Requested(c)' <=> Requested(c)) /\ ClientSide(c) /\ ServerSide(c)
    BY <1>7 DEF Requested, Carried
  <2>2. CASE e = "client"
    <3>1. ClientSide(c)'
      <4>1. /\ c \in calls["client"] /\ c \notin seen["client"] /\ ~Requested(c)' /\ c \in seen["server"]
            /\ seen'["server"] = seen["server"] /\ (call'["client"][c].complete <=> b)
        BY <1>2, <1>3, <1>4, <1>12, <1>15, <2>1, <2>2 DEF ClientSide
      <4>2. CASE b
        <5>1. /\ receiver'["client"][c].step = "ended"
              /\ c \notin calls'["client"] /\ c \in seen'["client"]
          BY <1>11, <1>15, <1>18, <2>2, <4>2
        <5> QED BY <4>1, <4>2, <5>1 DEF ClientSide
      <4>3. CASE ~b
        <5>1. /\ receiver'["client"][c].step = "waiting"
              /\ c \in calls'["client"] /\ c \notin seen'["client"]
          BY <1>11, <1>15, <1>18, <2>2, <4>1, <4>3
        <5> QED BY <4>1, <4>3, <5>1 DEF ClientSide
      <4> QED BY <4>2, <4>3
    <3>2. ServerSide(c)'
      BY <1>2, <1>7, <1>11, <1>13, <1>15, <2>1, <2>2 DEF ServerSide
    <3> QED BY <3>1, <3>2
  <2>3. CASE e = "server"
    <3>1. /\ calls' = calls /\ seen' = seen /\ ~b
      BY <1>7, <1>17, <2>3
    <3>2. ClientSide(c)'
      BY <1>2, <1>11, <1>13, <2>1, <2>3, <3>1 DEF ClientSide
    <3>3. ServerSide(c)'
      BY <1>2, <1>3, <1>7, <1>11, <1>12, <1>13, <2>1, <2>3, <3>1 DEF ServerSide
    <3> QED BY <3>2, <3>3
  <2> QED BY <2>2, <2>3 DEF Ends
<1>21. Unseen(c)' /\ Marked(c)' /\ Cancels(c)' /\ Directed(c)'
  BY <1>2, <1>3, <1>4, <1>7, <1>13, <1>15, <1>17, <1>12 DEF Unseen, Marked, Cancels, Directed, Carried, Queued, Sent
<1>22. Sequenced(c)'
  <2>1. SequencedFrom(e, c)'
    BY <1>2, <1>7, <1>11, <1>13, <1>14, SequenceSame DEF Sequenced, Carried
  <2>2. SequencedFrom(o, c)'
    <3>1. \A r : r.kind = Rest(f).kind /\ r.parts = Rest(f).parts => Goes(o, c, r)
      BY <1>5 DEF Comes, Goes, Fits
    <3>2. PICK r : r = receiver'[e][c]
      OBVIOUS
    <3>3. Goes(o, c, r)'
      BY <1>2, <1>7, <1>11, <1>13, <3>1, <3>2 DEF Goes, Fits
    <3> QED BY <1>2, <1>4, <1>7, <1>13, <3>2, <3>3 DEF SequencedFrom, Carried, Sent
  <2> QED BY <1>2, <2>1, <2>2 DEF Sequenced
<1> QED BY <1>6, <1>16, <1>19, <1>20, <1>21, <1>22

-----------------------------------------------------------------------------
(* Reading.                                                                *)

\* The frame that is read is one that its writer has queued.
LEMMA HeadQueued ==
  ASSUME TypeOK, Wired, NEW w \in Ends, NextFrames(w) # <<>>, NEW f, f = Head(NextFrames(w))
  PROVE  /\ f \in Frame /\ f.id \in Calls
         /\ \/ f.kind \in Controls /\ Queued(w, f.kind, f.id)
            \/ f.kind \in Transported /\ f \in Carried(w, f.id)
         /\ f.kind = "request" => w = "client"
<1> DEFINE q == NextFrames(w)
<1>1. q \in Seq(Frame) /\ q # <<>> /\ (q = controls[w] \/ q = data[w])
  BY DEF TypeOK, NextFrames
<1>2. f = Head(q)
  OBVIOUS
<1> HIDE DEF q
<1>3. f \in Frame /\ f \in Of(q, f.id)
  BY <1>1, <1>2, TailFrames
<1>4. f.id \in Calls
  BY <1>3 DEF Frame
<1>5. CASE q = controls[w]
  <2>1. f.kind \in Controls
    BY <1>3, <1>4, <1>5 DEF Wired, Ends, Controls
  <2>2. Queued(w, f.kind, f.id)
    BY <1>3, <1>5 DEF Queued
  <2>3. f.kind # "request"
    BY <2>1 DEF Controls
  <2> QED BY <1>3, <1>4, <2>1, <2>2, <2>3
<1>6. CASE q = data[w]
  <2>1. f.kind \in Transported
    BY <1>3, <1>4, <1>6 DEF Wired, Ends, Transported
  <2>2. f.kind = "request" => w = "client"
    BY <1>3, <1>4, <1>6 DEF Wired, Ends, Messages
  <2> QED BY <1>3, <1>4, <1>6, <2>1, <2>2 DEF Carried
<1> QED BY <1>1, <1>5, <1>6

\* What its call sees of it.
ControlTaken(w, k, c) ==
  /\ \A d \in Calls : d # c => ControlsSame(d) /\ DataSame(d)
  /\ Queued(w, k, c) /\ DataSame(c)
  /\ \A x \in Ends, j \in Controls :
       /\ Queued(x, j, c)' => Queued(x, j, c)
       /\ x # w \/ j # k => (Queued(x, j, c)' <=> Queued(x, j, c))
       /\ x = w /\ j = k /\ j \in {"ready", "pull"} => ~Queued(x, j, c)'
  /\ \A x \in Ends : ControlsOnce(x, c)'
DataTaken(w, f) ==
  /\ \A d \in Calls : d # f.id => ControlsSame(d) /\ DataSame(d)
  /\ ControlsSame(f.id)
  /\ Carried(w, f.id) = {f}
  /\ \A x \in Ends : Of(data'[x], f.id) = (IF x = w THEN {} ELSE Carried(x, f.id))
  /\ \A x \in Ends, c \in Calls : c = f.id => DataOnce(x, c)'

LEMMA FrameTaken ==
  ASSUME TypeOK, Wired, NEW w \in Ends, NextFrames(w) # <<>>, Written(w),
         NEW f, f = Head(NextFrames(w)), Single(f.id)
  PROVE  \/ f.kind \in Controls /\ ControlTaken(w, f.kind, f.id)
         \/ f.kind \in Transported /\ DataTaken(w, f)
<1>1. f \in Frame /\ f.id \in Calls
  BY HeadQueued
<1>2. \A x \in Ends : ControlsOnce(x, f.id) /\ DataOnce(x, f.id)
  BY DEF Single
<1>3. CASE f \in Of(controls[w], f.id) /\ ControlsLose(w, f) /\ UNCHANGED data
  <2>1. f.kind \in Controls
    BY <1>1, <1>3 DEF Wired, Ends, Controls
  <2>2. \A d \in Calls : DataSame(d)
    BY <1>3, AllSame
  <2> QED BY <1>1, <1>2, <1>3, <2>1, <2>2, ControlRead DEF ControlTaken
<1>4. CASE f \in Of(data[w], f.id) /\ DataLose(w, f) /\ UNCHANGED controls
  <2>1. f.kind \in Transported
    BY <1>1, <1>4 DEF Wired, Ends, Transported
  <2>2. \A d \in Calls : ControlsSame(d)
    BY <1>4, AllSame
  <2> QED BY <1>1, <1>2, <1>4, <2>1, <2>2, DataRead DEF DataTaken
<1> QED BY <1>3, <1>4, FrameWritten

LEMMA ReadRequestKeeps ==
  ASSUME TypeInv, NEW c \in Calls, NextFrames("client") # <<>>, NEW f, f = Head(NextFrames("client")),
         f.kind = "request", f.id = c, marking = None, CallInv(c), ReadRequest(c)
  PROVE  /\ c \notin seen["server"]
         /\ Unfailed => CallInv(c)' /\ \A d \in Calls : d # c => Same(d)
<1> USE DEF CallInv, TypeInv
<1>1. /\ "client" \in Ends /\ "server" \in Ends /\ \A x \in Ends : x = "client" \/ x = "server"
      /\ Other("client") = "server" /\ Other("server") = "client"
  BY OtherFacts DEF Ends
<1>2. f \in Carried("client", c)
  BY <1>1, HeadQueued DEF Controls
<1>3. Requested(c) /\ c \notin seen["server"] /\ receiver["client"][c].step = "waiting" /\ c # None
  BY <1>2, CallsAssumption DEF Requested, ClientSide
<1> SUFFICES ASSUME Unfailed
             PROVE  CallInv(c)' /\ \A d \in Calls : d # c => Same(d)
  BY <1>3
<1>4. /\ Written("client") /\ marking' = c /\ early' = early \ {c}
      /\ RequestRead(c, c \in early)
      /\ calls' = [calls EXCEPT !["server"] = @ \cup {c}] /\ seen' = [seen EXCEPT !["server"] = @ \cup {c}]
      /\ UNCHANGED <<written, sender, receiver, worker, canceller>>
  BY DEF ReadRequest, LimitExceeded, ProtocolError, Unfailed, RequestRead, threads
<1>5. Changed(call, call', "server", c, [call["server"][c] EXCEPT !.cancelled = c \in early])
  <2>1. PICK b \in BOOLEAN : b = (c \in early)
    BY (c \in early) \in BOOLEAN
  <2> QED BY <1>4, <2>1, RequestReadEffect
<1>6. /\ call'["client"][c] = call["client"][c] /\ call["server"][c] \in Invocation
      /\ call'["server"][c].delivery = call["server"][c].delivery
      /\ call'["server"][c].receive_requested = call["server"][c].receive_requested
      /\ call'["server"][c].ready = call["server"][c].ready
      /\ call'["server"][c].peer_permit = call["server"][c].peer_permit
      /\ call'["server"][c].offer_pending = call["server"][c].offer_pending
      /\ call'["server"][c].complete = call["server"][c].complete
      /\ call'["server"][c].peer_input_closed = call["server"][c].peer_input_closed
      /\ call'["server"][c].cancelled = (c \in early)
  BY <1>1, <1>5 DEF Changed, TypeOK, Invocation
<1>7. DataTaken("client", f)
  BY <1>1, <1>4, FrameTaken DEF Controls
<1>8. /\ \A x \in Ends, j \in Controls : Queued(x, j, c)' <=> Queued(x, j, c)
      /\ Of(data'["client"], c) = {} /\ Of(data'["server"], c) = Carried("server", c)
      /\ Single(c)'
  BY <1>1, <1>7 DEF DataTaken, ControlsSame, Queued, Single
<1>9. /\ calls'["client"] = calls["client"] /\ seen'["client"] = seen["client"]
      /\ calls'["server"] = calls["server"] \cup {c} /\ seen'["server"] = seen["server"] \cup {c}
  BY <1>1, <1>4 DEF TypeOK
<1>10. \A d \in Calls : d # c => Same(d)
  <2>1. \A d \in Calls : d # c => SetsSame(d)
    BY <1>1, <1>4, <1>9 DEF SetsSame
  <2> QED BY <1>1, <1>4, <1>5, <1>7, <2>1, AllSame, OthersSame DEF Same, DataTaken
<1>11. Carried("client", c) = {f} /\ ~Sent("client", c) /\ ~Sent("server", c)
  BY <1>1, <1>3, <1>7 DEF DataTaken, Unseen
<1>12. ~Sent("client", c)' /\ ~Sent("server", c)' /\ ~Requested(c)'
  BY <1>1, <1>8, <1>11 DEF Sent, Requested, Carried
<1>13. Offered(c)' /\ Permitted(c)' /\ Waits(c)'
  BY <1>1, <1>4, <1>6, <1>8, <1>11, <1>12 DEF Offered, OfferedAt, Permitted, PermittedAt, Waits, AtMostOne, Controls
<1>14. ClientSide(c)' /\ ServerSide(c)'
  BY <1>1, <1>3, <1>4, <1>6, <1>9, <1>12 DEF ClientSide, ServerSide
<1>15. Unseen(c)' /\ Marked(c)' /\ Cancels(c)'
  <2>1. Unseen(c)'
    BY <1>9 DEF Unseen
  <2>2. Marked(c)'
    BY <1>1, <1>3, <1>6, <1>9, <1>12 DEF Marked, Unseen, ClientSide
  <2>3. Cancels(c)'
    BY <1>1, <1>4, <1>6, <1>8 DEF Cancels, Controls
  <2> QED BY <2>1, <2>2, <2>3
<1>16. Directed(c)'
  BY <1>1, <1>4, <1>6, <1>8 DEF Directed, Carried
<1>17. Sequenced(c)'
  <2>1. \A x \in Ends : \A g : g.kind \in Messages => (g \in Of(data'[x], c) <=> g \in Carried(x, c))
    BY <1>1, <1>8, <1>11 DEF Messages
  <2> QED BY <1>1, <1>4, <1>6, <2>1, SequenceSame DEF Sequenced
<1> QED BY <1>8, <1>10, <1>13, <1>14, <1>15, <1>16, <1>17

LEMMA ReadEarlyCancelKeeps ==
  ASSUME TypeInv, NEW c \in Calls, NextFrames("client") # <<>>, NEW f, f = Head(NextFrames("client")),
         f.kind = "cancel", f.id = c, CallInv(c), ReadEarlyCancel(c), Unfailed
  PROVE  CallInv(c)' /\ \A d \in Calls : d # c => Same(d)
<1> USE DEF CallInv, TypeInv
<1>1. /\ "client" \in Ends /\ "server" \in Ends /\ \A x \in Ends : x = "client" \/ x = "server"
      /\ Other("client") = "server" /\ Other("server") = "client"
  BY OtherFacts DEF Ends
<1>2. /\ Written("client") /\ early' = early \cup {c}
      /\ UNCHANGED <<call, calls, seen, marking, written, sender, receiver, worker, canceller>>
  BY DEF ReadEarlyCancel, ProtocolError, Unfailed, threads
<1>3. ControlTaken("client", "cancel", c)
  BY <1>1, <1>2, FrameTaken DEF Transported, Messages
<1>4. \A d \in Calls : d # c => Same(d)
  <2>1. \A d \in Calls : d # c => SetsSame(d)
    BY <1>2 DEF SetsSame
  <2> QED BY <1>2, <1>3, <2>1, AllSame DEF Same, ControlTaken
<1>5. /\ \A x \in Ends, j \in Controls : Queued(x, j, c)' => Queued(x, j, c)
      /\ \A x \in Ends, j \in {"ready", "pull", "closed"} : Queued(x, j, c)' <=> Queued(x, j, c)
      /\ \A x \in Ends : Of(data'[x], c) = Carried(x, c) /\ (Sent(x, c)' <=> Sent(x, c))
      /\ (Requested(c)' <=> Requested(c)) /\ call["client"][c].cancelled
  BY <1>1, <1>3 DEF ControlTaken, DataSame, Controls, Carried, Sent, Requested, Cancels
<1>6. Single(c)' /\ Offered(c)' /\ Permitted(c)' /\ Waits(c)'
  BY <1>1, <1>2, <1>3, <1>5 DEF Single, Offered, OfferedAt, Permitted, PermittedAt, Waits, AtMostOne, ControlTaken, DataSame
<1>7. ClientSide(c)' /\ ServerSide(c)'
  BY <1>1, <1>2, <1>5 DEF ClientSide, ServerSide
<1>8. Unseen(c)' /\ Marked(c)' /\ Cancels(c)' /\ Directed(c)'
  BY <1>1, <1>2, <1>5 DEF Unseen, Marked, Cancels, Directed, Carried
<1>9. Sequenced(c)'
  BY <1>1, <1>2, <1>5, SequenceSame DEF Sequenced
<1> QED BY <1>4, <1>6, <1>7, <1>8, <1>9

LEMMA ReadLateKeeps ==
  ASSUME TypeInv, NEW e \in Ends, NextFrames(Other(e)) # <<>>, NEW f, f = Head(NextFrames(Other(e))),
         f.kind # "request", f.id \in seen[e], f.id \notin calls[e], CallInv(f.id), ReadLate(e)
  PROVE  \A c \in Calls : c = f.id => CallInv(c)' /\ \A d \in Calls : d # c => Same(d)
<1> DEFINE w == Other(e)
<1> USE DEF CallInv, TypeInv
<1>1. /\ w \in Ends /\ w # e /\ Other(e) = w /\ Other(w) = e /\ \A x \in Ends : x = e \/ x = w
      /\ "client" \in Ends /\ "server" \in Ends
      /\ Other("client") = "server" /\ Other("server") = "client"
  BY OtherFacts DEF Ends
<1>2. /\ Written(w)
      /\ UNCHANGED <<call, calls, seen, marking, written, early, sender, receiver, worker, canceller>>
  BY DEF ReadLate, threads
<1>3. PICK c \in Calls : c = f.id
  BY <1>1, HeadQueued
<1>4. call[e][c].complete
  BY <1>1, <1>3 DEF ClientSide, ServerSide
<1>5. \/ f.kind \in Controls /\ ControlTaken(w, f.kind, f.id)
      \/ f.kind \in Transported /\ DataTaken(w, f)
  BY <1>1, <1>2, FrameTaken
<1> HIDE DEF w
<1>6. \A d \in Calls : d # c => Same(d)
  BY <1>2, <1>3, <1>5, AllSame DEF Same, ControlTaken, DataTaken
<1>7. /\ \A x \in Ends, j \in Controls : Queued(x, j, c)' => Queued(x, j, c)
      /\ \A x \in Ends : Of(data'[x], c) \subseteq Carried(x, c)
      /\ Of(data'[e], c) = Carried(e, c)
      /\ \A g \in Carried(w, c) : g.kind = "request" => g \in Of(data'[w], c)
      /\ Single(c)'
  BY <1>1, <1>3, <1>5 DEF ControlTaken, DataTaken, ControlsSame, DataSame, Queued, Carried, Single
<1>8. /\ \A x \in Ends : Sent(x, c)' => Sent(x, c)
      /\ Requested(c)' <=> Requested(c)
  BY <1>1, <1>7 DEF Sent, Requested, Carried
<1>9. Offered(c)' /\ Permitted(c)' /\ Waits(c)'
  <2>1. \A x \in Ends : /\ Queued(x, "ready", c)' => Queued(x, "ready", c)
                        /\ Queued(x, "pull", c)' => Queued(x, "pull", c)
                        /\ call'[x][c] = call[x][c]
                        /\ Sent(x, c)' => Sent(x, c)
    BY <1>2, <1>7, <1>8 DEF Controls
  <2>2. ASSUME NEW x \in Ends
        PROVE  OfferedAt(x, c)' /\ PermittedAt(x, c)'
    <3>0. PICK y \in Ends : y = Other(x)
      BY <1>1
    <3>1. /\ Queued(x, "ready", c)' => Queued(x, "ready", c)
          /\ Queued(y, "pull", c)' => Queued(y, "pull", c)
          /\ Sent(x, c)' => Sent(x, c)
          /\ call'[x][c] = call[x][c] /\ call'[y][c] = call[y][c]
      BY <2>1
    <3>2. OfferedAt(x, c) /\ PermittedAt(x, c)
      BY <1>3 DEF Offered, Permitted
    <3>3. OfferedAt(x, c)'
      BY <3>0, <3>1, <3>2 DEF OfferedAt, AtMostOne
    <3>4. PermittedAt(x, c)'
      BY <3>0, <3>1, <3>2 DEF PermittedAt, AtMostOne
    <3> QED BY <3>3, <3>4
  <2>3. Waits(c)'
    BY <1>2, <1>3 DEF Waits
  <2> QED BY <2>2, <2>3 DEF Offered, Permitted
<1>10. ClientSide(c)' /\ ServerSide(c)'
  BY <1>1, <1>2, <1>3, <1>8 DEF ClientSide, ServerSide
<1>11. Unseen(c)' /\ Marked(c)' /\ Cancels(c)' /\ Directed(c)'
  BY <1>1, <1>2, <1>3, <1>7, <1>8 DEF Unseen, Marked, Cancels, Directed, Carried, Controls
<1>12. Sequenced(c)'
  <2>1. SequencedFrom(e, c)'
    BY <1>1, <1>2, <1>3, <1>7, SequenceSame DEF Sequenced
  <2>2. SequencedFrom(w, c)'
    BY <1>1, <1>2, <1>4 DEF SequencedFrom
  <2> QED BY <1>1, <2>1, <2>2 DEF Sequenced
<1> QED BY <1>3, <1>6, <1>7, <1>9, <1>10, <1>11, <1>12

LEMMA ReadKnownKeeps ==
  ASSUME TypeInv, NEW e \in Ends, NextFrames(Other(e)) # <<>>, NEW f, f = Head(NextFrames(Other(e))),
         f.kind # "request", f.id \in calls[e], e = "server" => marking = None, CallInv(f.id), ReadKnown(e, f)
  PROVE  /\ ~Offending(e, f)
         /\ Unfailed => \A c \in Calls : c = f.id => CallInv(c)' /\ \A d \in Calls : d # c => Same(d)
<1> DEFINE w == Other(e)
<1> USE DEF CallInv, TypeInv
<1>1. /\ w \in Ends /\ w # e /\ Other(e) = w /\ Other(w) = e /\ \A x \in Ends : x = e \/ x = w
      /\ "client" \in Ends /\ "server" \in Ends
      /\ Other("client") = "server" /\ Other("server") = "client"
  BY OtherFacts DEF Ends
<1>2. f \in Frame
  BY <1>1, HeadQueued
<1>3. PICK c \in Calls : c = f.id
  BY <1>1, HeadQueued
<1>4. PICK k : k = f.kind
  OBVIOUS
<1>5. c = f.id /\ k = f.kind
  BY <1>3, <1>4
<1>6. /\ \/ k \in Controls /\ Queued(w, k, c)
         \/ k \in Messages /\ f \in Carried(w, c) /\ Sent(w, c)
      /\ k \in Messages => k \notin Controls
  <2>1. \/ f.kind \in Controls /\ Queued(w, f.kind, f.id)
        \/ f.kind \in Transported /\ f \in Carried(w, f.id)
    BY <1>1, HeadQueued
  <2>2. f.kind \in Transported => k \in Messages
    BY <1>5 DEF Transported
  <2>3. k \in Messages => k \notin Controls
    BY DEF Messages, Controls
  <2> QED BY <1>5, <2>1, <2>2, <2>3 DEF Sent
<1>7. CallInv(c) /\ c \in calls[e] /\ ~call[e][c].complete /\ c # None
  BY <1>1, <1>5, CallsAssumption DEF ClientSide, ServerSide
<1>8. ~Offending(e, f)
  <2>1. CASE k \in {"closed", "cancel"}
    BY <1>5, <2>1 DEF Offending
  <2>2. CASE k = "ready"
    BY <1>1, <1>5, <1>6, <1>7, <2>2 DEF Offending, Offered, OfferedAt, AtMostOne, Messages
  <2>3. CASE k = "pull"
    BY <1>1, <1>5, <1>6, <1>7, <2>3 DEF Offending, Offered, OfferedAt, AtMostOne, Messages
  <2>4. CASE k \in Messages
    <3>1. call[e][c].receive_requested /\ call[e][c].delivery = None
      BY <1>1, <1>6, <1>7, <2>4 DEF Permitted, PermittedAt, AtMostOne
    <3> QED BY <1>5, <2>4, <3>1 DEF Offending, Messages
  <2> QED BY <1>6, <2>1, <2>2, <2>3, <2>4 DEF Controls
<1> SUFFICES ASSUME Unfailed
             PROVE  CallInv(c)' /\ \A d \in Calls : d # c => Same(d)
  BY <1>5, <1>8
<1>9. /\ Written(w) /\ FrameApplied(e, f)
      /\ UNCHANGED <<calls, seen, marking, written, early, sender, receiver, worker, canceller>>
  BY <1>8 DEF ReadKnown, FrameApplied
<1> HIDE DEF w
<1>10. Changed(call, call', e, c, Applied(e, f))
  BY <1>2, <1>5, <1>9, FrameAppliedEffect
<1>11. /\ call'[w][c] = call[w][c]
       /\ call'[e][c].offer_pending = call[e][c].offer_pending
       /\ call'[e][c].receive_requested = call[e][c].receive_requested
       /\ call'[e][c].complete = call[e][c].complete
       /\ call'[e][c].delivery = (IF k \in Messages THEN f ELSE call[e][c].delivery)
       /\ k # "ready" => call'[e][c].ready = call[e][c].ready
       /\ k # "pull" => call'[e][c].peer_permit = call[e][c].peer_permit
       /\ k # "cancel" => call'[e][c].cancelled = call[e][c].cancelled
       /\ k # "closed" => call'[e][c].peer_input_closed = call[e][c].peer_input_closed
       /\ k = "ready" => call'[e][c].ready
       /\ k = "pull" => call'[e][c].peer_permit
       /\ k = "cancel" => call'[e][c].cancelled
  <2>1. call[e][c] \in Invocation /\ call'[e][c] = Applied(e, f) /\ call'[w][c] = call[w][c]
    BY <1>1, <1>10 DEF Changed, TypeOK
  <2>2. CASE k \in Messages
    <3>1. Applied(e, f) = [call[e][c] EXCEPT !.delivery = f]
      BY <1>5, <2>2 DEF Applied, Messages
    <3> QED BY <2>1, <2>2, <3>1 DEF Invocation, Messages
  <2>3. CASE k \in Controls
    BY ZenonT(40), <1>5, <1>6, <2>1, <2>3 DEF Applied, Invocation, Controls
  <2> QED BY <1>6, <2>2, <2>3
<1>12. /\ k = "cancel" => e = "server"
       /\ k = "closed" => e = "client"
  BY <1>1, <1>6 DEF Wired, Queued, Ends, Messages
<1>13. \/ k \in Controls /\ ControlTaken(w, k, c)
       \/ k \in Messages /\ DataTaken(w, f)
  <2>1. \/ f.kind \in Controls /\ ControlTaken(w, f.kind, f.id)
        \/ f.kind \in Transported /\ DataTaken(w, f)
    BY <1>1, <1>7, <1>5, <1>9, FrameTaken DEF w
  <2> QED BY <1>5, <2>1 DEF Transported
<1>14. \A d \in Calls : d # c => Same(d)
  BY <1>5, <1>9, <1>10, <1>13, AllSame, OthersSame DEF Same, ControlTaken, DataTaken
<1>15. CASE k \in Controls
  <2>1. /\ \A x \in Ends : /\ Of(data'[x], c) = Carried(x, c) /\ (Sent(x, c)' <=> Sent(x, c))
                           /\ call'[x][c].delivery = call[x][c].delivery
        /\ (Requested(c)' <=> Requested(c))
    BY <1>1, <1>6, <1>11, <1>13, <1>15 DEF ControlTaken, DataSame, Carried, Sent, Requested
  <2>2. /\ \A x \in Ends, j \in Controls :
             /\ Queued(x, j, c)' => Queued(x, j, c)
             /\ x # w \/ j # k => (Queued(x, j, c)' <=> Queued(x, j, c))
             /\ x = w /\ j = k /\ j \in {"ready", "pull"} => ~Queued(x, j, c)'
        /\ Queued(w, k, c)
    BY <1>6, <1>13, <1>15 DEF ControlTaken
  <2>3. Single(c)'
    BY <1>6, <1>7, <1>13, <1>15 DEF Single, ControlTaken, DataSame
  <2>4. Offered(c)' /\ Permitted(c)' /\ Waits(c)'
    <3>1. OfferedAt(e, c) /\ OfferedAt(w, c) /\ PermittedAt(e, c) /\ PermittedAt(w, c)
      BY <1>1, <1>7 DEF Offered, Permitted
    <3>2. Waits(c)'
      BY <1>1, <1>7, <1>9, <1>11 DEF Waits
    <3>3. ASSUME OfferedAt(e, c)', OfferedAt(w, c)', PermittedAt(e, c)', PermittedAt(w, c)'
          PROVE  Offered(c)' /\ Permitted(c)'
      BY <1>1, <3>3 DEF Offered, Permitted
    <3>4. CASE k = "ready"
      <4>1. /\ Queued(w, "ready", c) /\ ~Queued(w, "ready", c)'
            /\ Queued(e, "ready", c)' <=> Queued(e, "ready", c)
            /\ Queued(w, "pull", c)' <=> Queued(w, "pull", c)
            /\ Queued(e, "pull", c)' <=> Queued(e, "pull", c)
        BY <1>1, <2>2, <3>4 DEF Controls
      <4>2. OfferedAt(e, c)' /\ OfferedAt(w, c)'
        BY <1>1, <1>11, <3>1, <3>4, <4>1 DEF OfferedAt, AtMostOne
      <4>3. PermittedAt(e, c)' /\ PermittedAt(w, c)'
        BY <1>1, <1>11, <2>1, <3>1, <3>4, <4>1 DEF PermittedAt, AtMostOne
      <4> QED BY <3>2, <3>3, <4>2, <4>3
    <3>5. CASE k = "pull"
      <4>1. /\ Queued(w, "pull", c) /\ ~Queued(w, "pull", c)'
            /\ Queued(e, "ready", c)' <=> Queued(e, "ready", c)
            /\ Queued(w, "ready", c)' <=> Queued(w, "ready", c)
            /\ Queued(e, "pull", c)' <=> Queued(e, "pull", c)
        BY <1>1, <2>2, <3>5 DEF Controls
      <4>2. OfferedAt(e, c)' /\ OfferedAt(w, c)'
        BY <1>1, <1>11, <3>1, <3>5, <4>1 DEF OfferedAt, AtMostOne
      <4>3. PermittedAt(e, c)' /\ PermittedAt(w, c)'
        BY <1>1, <1>11, <2>1, <3>1, <3>5, <4>1 DEF PermittedAt, AtMostOne
      <4> QED BY <3>2, <3>3, <4>2, <4>3
    <3>6. CASE k \in {"cancel", "closed"}
      <4>1. /\ Queued(e, "ready", c)' <=> Queued(e, "ready", c)
            /\ Queued(w, "ready", c)' <=> Queued(w, "ready", c)
            /\ Queued(e, "pull", c)' <=> Queued(e, "pull", c)
            /\ Queued(w, "pull", c)' <=> Queued(w, "pull", c)
            /\ k # "ready" /\ k # "pull"
        BY <1>1, <2>2, <3>6 DEF Controls
      <4>2. OfferedAt(e, c)' /\ OfferedAt(w, c)'
        BY <1>1, <1>11, <3>1, <4>1 DEF OfferedAt, AtMostOne
      <4>3. PermittedAt(e, c)' /\ PermittedAt(w, c)'
        BY <1>1, <1>11, <2>1, <3>1, <4>1 DEF PermittedAt, AtMostOne
      <4> QED BY <3>2, <3>3, <4>2, <4>3
    <3> QED BY <1>15, <3>4, <3>5, <3>6 DEF Controls
  <2>5. ClientSide(c)' /\ ServerSide(c)'
    <3>1. /\ (call'["client"][c].complete <=> call["client"][c].complete)
          /\ (call'["server"][c].complete <=> call["server"][c].complete)
      BY <1>1, <1>11
    <3>2. call'["server"][c].peer_input_closed <=> call["server"][c].peer_input_closed
      BY <1>1, <1>11, <1>12
    <3>3. ClientSide(c)'
      BY <1>7, <1>9, <2>1, <3>1 DEF ClientSide
    <3>4. ServerSide(c)'
      BY <1>7, <1>9, <3>1, <3>2 DEF ServerSide
    <3> QED BY <3>3, <3>4
  <2>6. Unseen(c)'
    BY <1>1, <1>7, <1>9, <1>11, <2>1, <2>2 DEF Unseen, Controls
  <2>7. Marked(c)'
    BY <1>1, <1>7, <1>9, <1>11, <2>1 DEF Marked
  <2>8. Cancels(c)'
    BY <1>1, <1>7, <1>9, <1>11, <1>12, <2>2 DEF Cancels, Controls
  <2>9. Directed(c)'
    BY <1>1, <1>7, <1>9, <1>11, <2>1 DEF Directed, Carried
  <2>10. Sequenced(c)'
    BY <1>1, <1>7, <1>9, <1>11, <1>12, <2>1, SequenceSame DEF Sequenced
  <2> QED BY <1>14, <2>3, <2>4, <2>5, <2>6, <2>7, <2>8, <2>9, <2>10
<1>16. CASE k \in Messages
  <2>1. /\ Of(data'[w], c) = {} /\ Of(data'[e], c) = Carried(e, c) /\ Carried(w, c) = {f}
        /\ ~Sent(w, c)' /\ Sent(w, c) /\ (Sent(e, c)' <=> Sent(e, c)) /\ (Requested(c)' <=> Requested(c))
        /\ \A x \in Ends : \A j : Queued(x, j, c)' <=> Queued(x, j, c)
        /\ Single(c)'
    BY <1>1, <1>5, <1>6, <1>7, <1>13, <1>16
       DEF DataTaken, ControlsSame, Carried, Sent, Requested, Queued, Single, Messages
  <2>2. /\ call'[e][c].delivery = f /\ f # None
        /\ call'[e][c].ready = call[e][c].ready
        /\ call'[e][c].peer_permit = call[e][c].peer_permit
        /\ call'[e][c].cancelled = call[e][c].cancelled
        /\ call'[e][c].peer_input_closed = call[e][c].peer_input_closed
    BY <1>2, <1>6, <1>11, <1>16, NoneAssumption DEF Controls, Messages
  <2>3. Offered(c)' /\ Permitted(c)' /\ Waits(c)'
    <3>1. Offered(c)'
      <4>1. /\ Queued(w, "ready", c)' <=> Queued(w, "ready", c)
            /\ Queued(e, "ready", c)' <=> Queued(e, "ready", c)
        BY <1>1, <2>1
      <4>2. OfferedAt(e, c) /\ OfferedAt(w, c)
        BY <1>1, <1>7 DEF Offered
      <4>3. OfferedAt(e, c)' /\ OfferedAt(w, c)'
        BY <1>1, <1>11, <2>1, <2>2, <4>1, <4>2 DEF OfferedAt, AtMostOne
      <4> QED BY <1>1, <4>3 DEF Offered
    <3>2. Permitted(c)'
      <4>1. /\ Queued(w, "pull", c)' <=> Queued(w, "pull", c)
            /\ Queued(e, "pull", c)' <=> Queued(e, "pull", c)
        BY <1>1, <2>1
      <4>2. PermittedAt(e, c) /\ PermittedAt(w, c)
        BY <1>1, <1>7 DEF Permitted
      <4>3. PermittedAt(e, c)' /\ PermittedAt(w, c)'
        BY <1>1, <1>11, <2>1, <2>2, <4>1, <4>2 DEF PermittedAt, AtMostOne
      <4> QED BY <1>1, <4>3 DEF Permitted
    <3>3. Waits(c)'
      BY <1>1, <1>7, <1>9, <1>11 DEF Waits
    <3> QED BY <3>1, <3>2, <3>3
  <2>4. ClientSide(c)' /\ ServerSide(c)'
    BY <1>1, <1>7, <1>9, <1>11, <2>1, <2>2 DEF ClientSide, ServerSide
  <2>5. Unseen(c)'
    BY <1>1, <1>7, <1>9, <2>1 DEF Unseen
  <2>6. Marked(c)'
    BY <1>1, <1>7, <1>9, <1>11, <2>1, <2>2 DEF Marked
  <2>7. Cancels(c)'
    BY <1>1, <1>7, <1>9, <1>11, <2>1, <2>2 DEF Cancels
  <2>8. Directed(c)'
    <3>1. /\ w = "client" => f.kind \in {"input", "finish"}
          /\ w = "server" => f.kind \in {"event", "result"}
      BY <1>1, <1>7, <2>1 DEF Directed
    <3>2. \A x \in Ends : /\ Carried(x, c)' \subseteq Carried(x, c)
                          /\ call'[x][c].delivery # None => 
                               \/ x = e /\ call'[x][c].delivery = f
                               \/ call'[x][c].delivery = call[x][c].delivery
      BY <1>1, <1>11, <2>1, <2>2 DEF Carried
    <3> QED BY <1>1, <1>7, <1>9, <3>1, <3>2 DEF Directed
  <2>9. Sequenced(c)'
    <3>1. SequencedFrom(e, c)'
      BY <1>1, <1>7, <1>9, <1>11, <2>1, <2>2, SequenceSame DEF Sequenced
    <3>2. Comes(w, c, f)
      BY <1>1, <1>5, <1>6, <1>7, <1>16 DEF Sequenced, SequencedFrom
    <3>3. Comes(w, c, f)'
      BY <1>1, <1>9, <1>11, <2>2, <3>2 DEF Comes, Goes, Fits
    <3>4. SequencedFrom(w, c)'
      <4>1. PICK g : g = call'[e][c].delivery
        OBVIOUS
      <4> QED BY <1>1, <2>1, <2>2, <3>3 DEF SequencedFrom, Carried
    <3> QED BY <1>1, <3>1, <3>4 DEF Sequenced
  <2> QED BY <1>14, <2>1, <2>3, <2>4, <2>5, <2>6, <2>7, <2>8, <2>9
<1> QED BY <1>6, <1>15, <1>16

-----------------------------------------------------------------------------
(* The client.                                                             *)

LEMMA MarkWrittenKeeps ==
  ASSUME TypeInv, NEW c \in Calls, c = marking, CallInv(c), MarkWritten
  PROVE  /\ c \in calls["client"]
         /\ CallInv(c)' /\ \A d \in Calls : d # c => Same(d)
<1> USE DEF CallInv, TypeInv
<1>1. c \in calls["client"] /\ c \in seen["server"] /\ c # None
  BY CallsAssumption DEF Marked, Unseen
<1>2. /\ written' = written \cup {c} /\ marking' = None
      /\ UNCHANGED <<call, calls, seen, controls, data, early, sender, receiver, canceller, worker>>
  BY <1>1 DEF MarkWritten, queues, threads
<1>3. \A d \in Calls : d # c => Same(d)
  <2>1. \A d \in Calls : d # c => SetsSame(d)
    BY <1>1, <1>2, CallsAssumption DEF SetsSame
  <2> QED BY <1>2, <2>1, AllSame DEF Same
<1>4. Single(c)' /\ Offered(c)' /\ Permitted(c)' /\ Waits(c)' /\ ClientSide(c)' /\ ServerSide(c)'
  BY <1>2 DEF Single, ControlsOnce, DataOnce, Offered, OfferedAt, Permitted, PermittedAt, Waits, AtMostOne, Queued, Sent, Carried,
              ClientSide, ServerSide, Requested
<1>5. Unseen(c)' /\ Marked(c)' /\ Cancels(c)' /\ Directed(c)'
  BY <1>1, <1>2 DEF Unseen, Marked, Cancels, Directed, Carried, Queued
<1>6. Sequenced(c)'
  BY <1>2, OtherFacts, SequenceSame DEF Sequenced, Carried
<1> QED BY <1>1, <1>3, <1>4, <1>5, <1>6

LEMMA CallKeeps ==
  ASSUME TypeInv, NEW c \in Calls, CallInv(c), Call(c)
  PROVE  CallInv(c)' /\ \A d \in Calls : d # c => Same(d)
<1> USE DEF CallInv, TypeInv
<1>1. /\ "client" \in Ends /\ "server" \in Ends /\ \A x \in Ends : x = "client" \/ x = "server"
      /\ Other("client") = "server" /\ Other("server") = "client" /\ "client" # "server"
  BY OtherFacts DEF Ends
<1>2. /\ receiver["client"][c].step = "idle"
      /\ calls' = [calls EXCEPT !["client"] = @ \cup {c}] /\ ReceiverMoved("client", c, "request")
      /\ UNCHANGED <<call, seen, controls, data, written, marking, early, sender, canceller, worker>>
  BY DEF Call, ReceiverMoved, queues
<1>3. Changed(receiver, receiver', "client", c, [receiver["client"][c] EXCEPT !.step = "request"])
  BY <1>1, <1>2, ReceiverEffect DEF Receives
<1>4. /\ receiver'["server"][c] = receiver["server"][c] /\ receiver'["client"][c].step = "request"
      /\ receiver'["client"][c].kind = receiver["client"][c].kind
      /\ receiver'["client"][c].parts = receiver["client"][c].parts
  BY <1>1, <1>3 DEF Changed, TypeOK
<1>5. calls'["client"] = calls["client"] \cup {c} /\ calls'["server"] = calls["server"]
  BY <1>1, <1>2 DEF TypeOK
<1>6. \A d \in Calls : d # c => Same(d)
  <2>1. \A d \in Calls : d # c => SetsSame(d)
    BY <1>1, <1>2, <1>5 DEF SetsSame
  <2> QED BY <1>1, <1>2, <1>3, <2>1, AllSame, OthersSame DEF Same
<1>7. Single(c)' /\ Offered(c)' /\ Permitted(c)' /\ Waits(c)'
  BY <1>1, <1>2, <1>4 DEF Single, ControlsOnce, DataOnce, Offered, OfferedAt, Permitted, PermittedAt, Waits, AtMostOne, Queued, Sent, Carried
<1>8. ClientSide(c)' /\ ServerSide(c)'
  BY <1>1, <1>2, <1>4, <1>5 DEF ClientSide, ServerSide, Requested, Carried
<1>9. Unseen(c)' /\ Marked(c)' /\ Cancels(c)' /\ Directed(c)'
  BY <1>1, <1>2, <1>5 DEF Unseen, Marked, Cancels, Directed, Carried, Queued, Sent
<1>10. Sequenced(c)'
  BY <1>1, <1>2, <1>4, SequenceSame DEF Sequenced, Carried
<1> QED BY <1>6, <1>7, <1>8, <1>9, <1>10

LEMMA SendRequestKeeps ==
  ASSUME TypeInv, NEW c \in Calls, CallInv(c), SendRequest(c)
  PROVE  CallInv(c)' /\ \A d \in Calls : d # c => Same(d)
<1> DEFINE f == MessageFrame("request", c, 1)
<1> USE DEF CallInv, TypeInv
<1>1. /\ "client" \in Ends /\ "server" \in Ends /\ \A x \in Ends : x = "client" \/ x = "server"
      /\ Other("client") = "server" /\ Other("server") = "client" /\ "client" # "server"
  BY OtherFacts DEF Ends
<1>2. /\ receiver["client"][c].step = "request"
      /\ QueueData("client", f) /\ ReceiverMoved("client", c, "waiting")
      /\ UNCHANGED <<call, calls, seen, controls, written, marking, early, sender, canceller, worker>>
  BY DEF SendRequest, ReceiverMoved
<1>3. f \in Frame /\ f.kind = "request" /\ f.id = c
  BY DEF MessageFrame, Frame
<1> HIDE DEF f
<1>4. Changed(receiver, receiver', "client", c, [receiver["client"][c] EXCEPT !.step = "waiting"])
  BY <1>1, <1>2, ReceiverEffect DEF Receives
<1>5. /\ receiver'["server"][c] = receiver["server"][c] /\ receiver'["client"][c].step = "waiting"
      /\ receiver'["client"][c].kind = receiver["client"][c].kind
      /\ receiver'["client"][c].parts = receiver["client"][c].parts
  BY <1>1, <1>4 DEF Changed, TypeOK
<1>6. c \notin seen["server"] /\ ~Requested(c) /\ ~Sent("client", c)
  BY <1>1, <1>2 DEF ClientSide, Unseen
<1>7. Carried("client", c) = {}
  BY <1>1, <1>6 DEF Directed, Sent, Requested, Messages
<1>8. /\ \A d \in Calls : d # c => DataSame(d)
      /\ \A x \in Ends : Carried(x, c)' = (IF x = "client" THEN {f} ELSE Carried(x, c)) /\ DataOnce(x, c)'
  BY <1>1, <1>2, <1>3, <1>7, FrameCarried DEF Single, Carried
<1>9. \A d \in Calls : d # c => Same(d)
  BY <1>1, <1>2, <1>4, <1>8, AllSame, OthersSame DEF Same
<1>10. Requested(c)' /\ \A x \in Ends : Sent(x, c)' <=> Sent(x, c)
  BY <1>1, <1>3, <1>6, <1>8 DEF Requested, Sent, Messages
<1>11. Single(c)'
  BY <1>2, <1>8 DEF Single, ControlsOnce
<1>12. Offered(c)' /\ Permitted(c)' /\ Waits(c)'
  BY <1>1, <1>2, <1>5, <1>10 DEF Offered, OfferedAt, Permitted, PermittedAt, Waits, AtMostOne, Queued
<1>13. ClientSide(c)' /\ ServerSide(c)'
  BY <1>1, <1>2, <1>5, <1>6 DEF ClientSide, ServerSide
<1>14. Unseen(c)' /\ Marked(c)' /\ Cancels(c)'
  BY <1>1, <1>2, <1>10 DEF Unseen, Marked, Cancels, Queued
<1>15. Directed(c)'
  BY <1>1, <1>2, <1>3, <1>8 DEF Directed
<1>16. Sequenced(c)'
  <2>1. \A x \in Ends : \A g : g.kind \in Messages => (g \in Of(data'[x], c) <=> g \in Carried(x, c))
    BY <1>1, <1>3, <1>7, <1>8 DEF Messages, Carried
  <2> QED BY <1>1, <1>2, <1>5, <2>1, SequenceSame DEF Sequenced
<1> QED BY <1>9, <1>11, <1>12, <1>13, <1>14, <1>15, <1>16

LEMMA CancelKeeps ==
  ASSUME TypeInv, NEW c \in Calls, CallInv(c), Cancel(c)
  PROVE  CallInv(c)' /\ \A d \in Calls : d # c => Same(d)
<1> USE DEF CallInv, TypeInv
<1>1. /\ "client" \in Ends /\ "server" \in Ends /\ \A x \in Ends : x = "client" \/ x = "server"
      /\ Other("client") = "server" /\ Other("server") = "client" /\ "client" # "server"
  BY OtherFacts DEF Ends
<1>2. /\ canceller' = [canceller EXCEPT ![c] = "queueing"]
      /\ UNCHANGED <<calls, seen, controls, data, written, marking, early, sender, receiver, worker>>
  BY DEF Cancel, queues
<1>3. Changed(call, call', "client", c, [call["client"][c] EXCEPT !.cancelled = TRUE])
  BY CancelEffect
<1>4. /\ call'["server"][c] = call["server"][c] /\ call["client"][c] \in Invocation
      /\ call'["client"][c].cancelled
      /\ call'["client"][c].delivery = call["client"][c].delivery
      /\ call'["client"][c].receive_requested = call["client"][c].receive_requested
      /\ call'["client"][c].ready = call["client"][c].ready
      /\ call'["client"][c].peer_permit = call["client"][c].peer_permit
      /\ call'["client"][c].offer_pending = call["client"][c].offer_pending
      /\ call'["client"][c].complete = call["client"][c].complete
  BY <1>1, <1>3 DEF Changed, TypeOK, Invocation
<1>5. \A d \in Calls : d # c => Same(d)
  <2>1. \A d \in Calls : d # c => SetsSame(d)
    BY <1>2 DEF SetsSame, TypeOK
  <2> QED BY <1>1, <1>2, <1>3, <2>1, AllSame, OthersSame DEF Same
<1>6. Single(c)' /\ Offered(c)' /\ Permitted(c)' /\ Waits(c)'
  BY <1>1, <1>2, <1>4 DEF Single, ControlsOnce, DataOnce, Offered, OfferedAt, Permitted, PermittedAt, Waits, AtMostOne, Queued, Sent, Carried
<1>7. ClientSide(c)' /\ ServerSide(c)'
  BY <1>1, <1>2, <1>4 DEF ClientSide, ServerSide, Requested, Carried
<1>8. Unseen(c)' /\ Marked(c)' /\ Cancels(c)' /\ Directed(c)'
  BY <1>1, <1>2, <1>4 DEF Unseen, Marked, Cancels, Directed, Carried, Queued, Sent
<1>9. Sequenced(c)'
  BY <1>1, <1>2, <1>4, SequenceSame DEF Sequenced, Carried
<1> QED BY <1>5, <1>6, <1>7, <1>8, <1>9

LEMMA QueueCancelKeeps ==
  ASSUME TypeInv, NEW c \in Calls, CallInv(c), QueueCancel(c), Works
  PROVE  CallInv(c)' /\ \A d \in Calls : d # c => Same(d)
<1> USE DEF CallInv, TypeInv
<1>1. /\ "client" \in Ends /\ "server" \in Ends /\ \A x \in Ends : x = "client" \/ x = "server"
      /\ Other("client") = "server" /\ Other("server") = "client" /\ "client" # "server"
  BY OtherFacts DEF Ends
<1>2. /\ canceller[c] = "queueing" /\ canceller' = [canceller EXCEPT ![c] = "done"]
      /\ QueueControl("client", "cancel", c)
      /\ UNCHANGED <<call, calls, seen, data, written, marking, early, sender, receiver, worker>>
  BY DEF QueueCancel
<1>3. KindsGain("client", c, {"cancel"})
  BY <1>1, <1>2, KindsQueued DEF Controls
<1>4. \A d \in Calls : d # c => Same(d)
  <2>1. \A d \in Calls : d # c => SetsSame(d)
    BY <1>2 DEF SetsSame, TypeOK
  <2> QED BY <1>2, <1>3, <2>1, AllSame DEF Same, KindsGain
<1>5. /\ \A x \in Ends, j \in {"ready", "pull", "closed"} : Queued(x, j, c)' <=> Queued(x, j, c)
      /\ \A x \in Ends : Carried(x, c)' = Carried(x, c) /\ (Sent(x, c)' <=> Sent(x, c))
      /\ Requested(c)' <=> Requested(c)
  BY <1>2, <1>3 DEF KindsGain, Controls, Carried, Sent, Requested
<1>6. Single(c)' /\ Offered(c)' /\ Permitted(c)' /\ Waits(c)'
  BY <1>1, <1>2, <1>3, <1>5 DEF Single, KindsGain, DataOnce, Offered, OfferedAt, Permitted, PermittedAt, Waits, AtMostOne
<1>7. ClientSide(c)' /\ ServerSide(c)'
  BY <1>1, <1>2, <1>5 DEF ClientSide, ServerSide
<1>8. Unseen(c)' /\ Marked(c)' /\ Cancels(c)' /\ Directed(c)'
  BY <1>1, <1>2, <1>5 DEF Unseen, Marked, Cancels, Directed
<1>9. Sequenced(c)'
  BY <1>1, <1>2, SequenceSame DEF Sequenced, Carried
<1> QED BY <1>4, <1>6, <1>7, <1>8, <1>9

-----------------------------------------------------------------------------
(* Offering a message, and the server.                                     *)

LEMMA OfferKeeps ==
  ASSUME TypeInv, NEW e \in Ends, NEW c \in Calls, CallInv(c), c \in seen["server"],
         NEW k \in Messages, Offers(e, c, k, 1), Pending(e, c),
         NEW K, KindsGain(e, c, K), K \subseteq {"ready", "closed"},
         "ready" \in K <=> ~call[e][c].offer_pending,
         UNCHANGED <<calls, seen, data, written, marking, early, receiver, canceller>>,
         \A d \in Calls : d # c => worker'[d] = worker[d],
         \/ /\ e = "client" /\ k \in {"input", "finish"}
            /\ sender[e][c].step = "idle" /\ worker'[c] = worker[c]
         \/ /\ e = "server" /\ worker[c] = "running"
            /\ \/ k = "event" /\ sender[e][c].step = "idle" /\ worker'[c] = "running"
               \/ /\ k = "result" /\ sender[e][c].step \in {"idle", "thrown"}
                  /\ worker'[c] = "completing"
  PROVE  CallInv(c)' /\ \A d \in Calls : d # c => Same(d)
<1> DEFINE o == Other(e)
<1> USE DEF CallInv, TypeInv
<1>1. /\ o \in Ends /\ o # e /\ Other(e) = o /\ Other(o) = e /\ \A x \in Ends : x = e \/ x = o
      /\ "client" \in Ends /\ "server" \in Ends
      /\ Other("client") = "server" /\ Other("server") = "client" /\ "client" # "server"
  BY OtherFacts DEF Ends
<1>2. Changed(sender, sender', e, c, [step |-> "permit", kind |-> k, part |-> 1])
  BY OfferEffect
<1>3. Changed(call, call', e, c, [call[e][c] EXCEPT !.offer_pending = TRUE])
  BY PendingEffect
<1> HIDE DEF o
<1>4. /\ sender'[o][c] = sender[o][c]
      /\ sender'[e][c].step = "permit" /\ sender'[e][c].kind = k /\ sender'[e][c].part = 1
  BY <1>1, <1>2 DEF Changed
<1>5. /\ call'[o][c] = call[o][c] /\ call[e][c] \in Invocation
      /\ call'[e][c].offer_pending
      /\ call'[e][c].ready = call[e][c].ready /\ call'[e][c].peer_permit = call[e][c].peer_permit
      /\ call'[e][c].receive_requested = call[e][c].receive_requested
      /\ call'[e][c].delivery = call[e][c].delivery /\ call'[e][c].complete = call[e][c].complete
      /\ call'[e][c].cancelled = call[e][c].cancelled
      /\ call'[e][c].peer_input_closed = call[e][c].peer_input_closed
  BY <1>1, <1>3 DEF Changed, TypeOK, Invocation
<1>6. \A d \in Calls : d # c => Same(d)
  <2>1. \A d \in Calls : d # c => SetsSame(d)
    BY DEF SetsSame
  <2> QED BY <1>2, <1>3, <2>1, AllSame, OthersSame DEF Same, KindsGain
<1>7. /\ \A x \in Ends : /\ Queued(x, "ready", c)' <=> Queued(x, "ready", c) \/ (x = e /\ ~call[e][c].offer_pending)
                         /\ Queued(x, "pull", c)' <=> Queued(x, "pull", c)
                         /\ Queued(x, "cancel", c)' <=> Queued(x, "cancel", c)
      /\ \A x \in Ends : Carried(x, c)' = Carried(x, c) /\ (Sent(x, c)' <=> Sent(x, c))
      /\ Requested(c)' <=> Requested(c)
  BY <1>1 DEF KindsGain, Controls, Carried, Sent, Requested
<1>8. Single(c)'
  <2>1. \A j \in K \cap {"ready", "pull"} : ~Queued(e, j, c)
    BY <1>1 DEF Offered, OfferedAt
  <2> QED BY <2>1 DEF Single, KindsGain, DataOnce
<1>9. Offered(c)'
  BY <1>1, <1>5, <1>7 DEF Offered, OfferedAt, AtMostOne
<1>10. Permitted(c)' /\ Waits(c)'
  BY <1>1, <1>5, <1>7 DEF Permitted, PermittedAt, Waits, AtMostOne
<1>11. ClientSide(c)' /\ ServerSide(c)'
  BY <1>1, <1>4, <1>5, <1>7 DEF ClientSide, ServerSide
<1>12. Unseen(c)' /\ Marked(c)' /\ Cancels(c)'
  BY <1>1, <1>5, <1>7 DEF Unseen, Marked, Cancels
<1>13. Directed(c)'
  <2>1. 1 \in 1 .. Parts[k]
    BY SizesAssumption
  <2>2. e = "client" => (sender["server"][c].step = "permit" => worker'[c] = worker[c])
    BY <1>1
  <2> QED BY <1>1, <1>4, <1>5, <1>7, <2>1, <2>2 DEF Directed
<1>14. Sequenced(c)'
  <2>1. SequencedFrom(o, c)'
    BY <1>1, <1>4, <1>5, SequenceSame DEF Sequenced, Carried
  <2>2. \A a : Goes(e, c, a) => Goes(e, c, a)'
    BY <1>1, <1>4, <1>5 DEF Goes, Fits
  <2>3. \A f : Comes(e, c, f) => Comes(e, c, f)'
    BY <1>1, <1>4, <1>5, <2>2 DEF Comes, Fits
  <2>4. SequencedFrom(e, c)'
    BY <1>1, <1>5, <1>7, <2>2, <2>3 DEF Sequenced, SequencedFrom
  <2> QED BY <1>1, <2>1, <2>4 DEF Sequenced
<1> QED BY <1>6, <1>8, <1>9, <1>10, <1>11, <1>12, <1>13, <1>14

LEMMA InputKeeps ==
  ASSUME TypeInv, NEW c \in Calls, CallInv(c), NEW k \in {"input", "finish"}, Input(c, k)
  PROVE  CallInv(c)' /\ \A d \in Calls : d # c => Same(d)
<1>1. "client" \in Ends /\ k \in Messages
  BY DEF Ends, Messages
<1>2. PICK K : K = IF call["client"][c].offer_pending THEN {} ELSE {"ready"}
  OBVIOUS
<1>3. KindsGain("client", c, K)
  BY <1>1, <1>2, KindsQueued DEF Input, TypeInv
<1>4. c \in seen["server"]
  BY DEF CallInv, Unseen, Input, MayInput
<1>5. /\ sender["client"][c].step = "idle" /\ Offers("client", c, k, 1) /\ Pending("client", c)
      /\ UNCHANGED <<calls, seen, data, written, marking, early, receiver, canceller, worker>>
  BY DEF Input
<1>6. K \subseteq {"ready", "closed"} /\ ("ready" \in K <=> ~call["client"][c].offer_pending)
  BY <1>2
<1> QED BY <1>1, <1>3, <1>4, <1>5, <1>6, OfferKeeps

LEMMA SendEventKeeps ==
  ASSUME TypeInv, NEW c \in Calls, CallInv(c), SendEvent(c)
  PROVE  CallInv(c)' /\ \A d \in Calls : d # c => Same(d)
<1>1. "server" \in Ends /\ "event" \in Messages
  BY DEF Ends, Messages
<1>2. PICK K : K = IF call["server"][c].offer_pending THEN {} ELSE {"ready"}
  OBVIOUS
<1>3. KindsGain("server", c, K)
  BY <1>1, <1>2, KindsQueued DEF SendEvent, TypeInv
<1>4. /\ sender["server"][c].step = "idle" /\ Offers("server", c, "event", 1) /\ Pending("server", c)
      /\ worker[c] = "running"
      /\ UNCHANGED <<calls, seen, data, written, marking, early, receiver, canceller, worker>>
  BY DEF SendEvent
<1>5. c \in seen["server"]
  BY <1>4 DEF CallInv, ServerSide
<1>6. K \subseteq {"ready", "closed"} /\ ("ready" \in K <=> ~call["server"][c].offer_pending)
  BY <1>2
<1> QED BY <1>1, <1>3, <1>4, <1>5, <1>6, OfferKeeps

LEMMA CloseInputKeeps ==
  ASSUME TypeInv, NEW c \in Calls, CallInv(c), CloseInput(c)
  PROVE  CallInv(c)' /\ \A d \in Calls : d # c => Same(d)
<1>1. "server" \in Ends /\ "result" \in Messages
  BY DEF Ends, Messages
<1>2. PICK K : K = {"closed"} \cup (IF call["server"][c].offer_pending THEN {} ELSE {"ready"})
  OBVIOUS
<1>3. KindsGain("server", c, K)
  BY <1>1, <1>2, KindsQueued DEF CloseInput, TypeInv
<1>4. /\ sender["server"][c].step \in {"idle", "thrown"}
      /\ Offers("server", c, "result", 1) /\ Pending("server", c)
      /\ worker[c] = "running" /\ worker' = [worker EXCEPT ![c] = "completing"]
      /\ UNCHANGED <<calls, seen, data, written, marking, early, receiver, canceller>>
  BY DEF CloseInput, Moves
<1>5. worker'[c] = "completing" /\ \A d \in Calls : d # c => worker'[d] = worker[d]
  BY <1>4 DEF TypeInv, TypeOK
<1>6. c \in seen["server"]
  BY <1>4 DEF CallInv, ServerSide
<1>7. K \subseteq {"ready", "closed"} /\ ("ready" \in K <=> ~call["server"][c].offer_pending)
  BY <1>2
<1> QED BY <1>1, <1>3, <1>4, <1>5, <1>6, <1>7, OfferKeeps

LEMMA AcceptKeeps ==
  ASSUME TypeInv, NEW c \in Calls, c = Head(incoming), c \in seen["server"], CallInv(c), Accept
  PROVE  CallInv(c)' /\ \A d \in Calls : d # c => Same(d)
<1> USE DEF CallInv, TypeInv
<1>1. /\ "client" \in Ends /\ "server" \in Ends /\ \A x \in Ends : x = "client" \/ x = "server"
      /\ Other("client") = "server" /\ Other("server") = "client" /\ "client" # "server"
  BY OtherFacts DEF Ends
<1>2. /\ worker[c] = "none" /\ worker' = [worker EXCEPT ![c] = "accepted"]
      /\ UNCHANGED <<call, calls, seen, controls, data, written, marking, early, sender, receiver, canceller>>
  BY DEF Accept, Moves, queues
<1>3. worker'[c] = "accepted" /\ \A d \in Calls : d # c => worker'[d] = worker[d]
  BY <1>2 DEF TypeOK
<1>4. \A d \in Calls : d # c => Same(d)
  <2>1. \A d \in Calls : d # c => SetsSame(d)
    BY <1>2, <1>3 DEF SetsSame
  <2> QED BY <1>2, <2>1, AllSame DEF Same
<1>5. Single(c)' /\ Offered(c)' /\ Permitted(c)' /\ Waits(c)' /\ ClientSide(c)'
  BY <1>2 DEF Single, ControlsOnce, DataOnce, Offered, OfferedAt, Permitted, PermittedAt, Waits, AtMostOne, Queued, Sent, Carried,
              ClientSide, Requested
<1>6. ServerSide(c)'
  BY <1>2, <1>3 DEF ServerSide
<1>7. Unseen(c)' /\ Marked(c)' /\ Cancels(c)' /\ Directed(c)'
  BY <1>1, <1>2, <1>3 DEF Unseen, Marked, Cancels, Directed, ServerSide, Carried, Queued, Sent
<1>8. Sequenced(c)'
  BY <1>1, <1>2, SequenceSame DEF Sequenced, Carried
<1> QED BY <1>4, <1>5, <1>6, <1>7, <1>8

LEMMA StartKeeps ==
  ASSUME TypeInv, NEW c \in Calls, CallInv(c), Start(c), Works
  PROVE  CallInv(c)' /\ \A d \in Calls : d # c => Same(d)
<1> USE DEF CallInv, TypeInv
<1>1. /\ "client" \in Ends /\ "server" \in Ends /\ \A x \in Ends : x = "client" \/ x = "server"
      /\ Other("client") = "server" /\ Other("server") = "client" /\ "client" # "server"
  BY OtherFacts DEF Ends
<1>2. /\ worker[c] = "accepted" /\ worker' = [worker EXCEPT ![c] = "running"]
      /\ UNCHANGED receiver \/ ReceiverMoved("server", c, "waiting")
      /\ UNCHANGED <<call, calls, seen, controls, data, written, marking, early, sender, canceller>>
  BY DEF Start, Moves, ReceiverMoved, queues
<1>3. worker'[c] = "running" /\ \A d \in Calls : d # c => worker'[d] = worker[d]
  BY <1>2 DEF TypeOK
<1>4. /\ \A d \in Calls : d # c => ReceiverSame(d)
      /\ receiver'["client"][c] = receiver["client"][c]
      /\ receiver'["server"][c].step \in {"waiting", receiver["server"][c].step}
      /\ receiver'["server"][c].kind = receiver["server"][c].kind
      /\ receiver'["server"][c].parts = receiver["server"][c].parts
  <2>1. CASE UNCHANGED receiver
    BY <2>1, AllSame
  <2>2. CASE ReceiverMoved("server", c, "waiting")
    <3>1. Changed(receiver, receiver', "server", c, [receiver["server"][c] EXCEPT !.step = "waiting"])
      BY <1>1, <2>2, ReceiverEffect DEF Receives
    <3>2. \A d \in Calls : d # c => ReceiverSame(d)
      BY <1>1, <3>1, OthersSame
    <3> QED BY <1>1, <3>1, <3>2 DEF Changed, TypeOK
  <2> QED BY <1>2, <2>1, <2>2
<1>5. \A d \in Calls : d # c => Same(d)
  <2>1. \A d \in Calls : d # c => SetsSame(d)
    BY <1>2, <1>3 DEF SetsSame
  <2> QED BY <1>2, <1>4, <2>1, AllSame DEF Same
<1>6. Single(c)' /\ Offered(c)' /\ Permitted(c)'
  BY <1>2 DEF Single, ControlsOnce, DataOnce, Offered, OfferedAt, Permitted, PermittedAt, AtMostOne, Queued, Sent, Carried
<1>7. Waits(c)' /\ ClientSide(c)' /\ ServerSide(c)'
  BY <1>1, <1>2, <1>3, <1>4 DEF Waits, ClientSide, ServerSide, Requested, Carried
<1>8. Unseen(c)' /\ Marked(c)' /\ Cancels(c)' /\ Directed(c)'
  BY <1>1, <1>2, <1>3 DEF Unseen, Marked, Cancels, Directed, ServerSide, Carried, Queued, Sent
<1>9. Sequenced(c)'
  BY <1>1, <1>2, <1>4, SequenceSame DEF Sequenced, Carried
<1> QED BY <1>5, <1>6, <1>7, <1>8, <1>9

LEMMA RetireKeeps ==
  ASSUME TypeInv, NEW c \in Calls, CallInv(c), Retired(c), Complete(c) \/ Join(c)
  PROVE  CallInv(c)' /\ \A d \in Calls : d # c => Same(d)
<1> USE DEF CallInv, TypeInv
<1>1. /\ "client" \in Ends /\ "server" \in Ends /\ \A x \in Ends : x = "client" \/ x = "server"
      /\ Other("client") = "server" /\ Other("server") = "client" /\ "client" # "server"
  BY OtherFacts DEF Ends
<1>2. /\ worker[c] \in {"completing", "joining"} /\ sender["server"][c].step = "idle"
      /\ worker' = [worker EXCEPT ![c] = "joining"] \/ worker' = [worker EXCEPT ![c] = "ended"]
      /\ UNCHANGED <<controls, data, written, marking, early, sender, receiver, canceller>>
  <2>1. CASE Complete(c)
    BY <2>1 DEF Complete, Moves, queues
  <2>2. CASE Join(c)
    <3>1. worker[c] = "joining"
      BY <2>2 DEF Join, Moves
    <3>2. sender["server"][c].step \in {"idle", "permit", "thrown"}
      BY <1>1 DEF TypeOK, Sends
    <3>3. sender["server"][c].step = "idle"
      BY <3>1, <3>2 DEF ServerSide
    <3> QED BY <2>2, <3>1, <3>3 DEF Join, Moves, queues
  <2> QED BY <2>1, <2>2
<1>3. worker'[c] \in {"joining", "ended"} /\ \A d \in Calls : d # c => worker'[d] = worker[d]
  BY <1>2 DEF TypeOK
<1>4. Changed(call, call', "server", c, [call["server"][c] EXCEPT !.receive_requested = FALSE, !.delivery = None,
                                                                !.complete = TRUE])
  BY RetireEffect
<1>5. /\ call'["client"][c] = call["client"][c] /\ call["server"][c] \in Invocation
      /\ call'["server"][c].complete /\ call'["server"][c].delivery = None
      /\ ~call'["server"][c].receive_requested
      /\ call'["server"][c].ready = call["server"][c].ready
      /\ call'["server"][c].peer_permit = call["server"][c].peer_permit
      /\ call'["server"][c].offer_pending = call["server"][c].offer_pending
      /\ call'["server"][c].cancelled = call["server"][c].cancelled
      /\ call'["server"][c].peer_input_closed = call["server"][c].peer_input_closed
  BY <1>1, <1>4 DEF Changed, TypeOK, Invocation
<1>6. /\ calls'["client"] = calls["client"] /\ calls'["server"] = calls["server"] \ {c}
      /\ seen'["client"] = seen["client"] /\ seen'["server"] = seen["server"] \cup {c}
  BY <1>1 DEF Retired, TypeOK
<1>7. \A d \in Calls : d # c => Same(d)
  <2>1. \A d \in Calls : d # c => SetsSame(d)
    BY <1>1, <1>2, <1>3, <1>6 DEF SetsSame
  <2> QED BY <1>1, <1>2, <1>4, <2>1, AllSame, OthersSame DEF Same
<1>8. c \in seen["server"]
  BY <1>2 DEF ServerSide
<1>9. Single(c)' /\ Offered(c)' /\ Permitted(c)' /\ Waits(c)'
  BY <1>1, <1>2, <1>5 DEF Single, ControlsOnce, DataOnce, Offered, OfferedAt, Permitted, PermittedAt, Waits, AtMostOne, Queued, Sent, Carried
<1>10. ClientSide(c)' /\ ServerSide(c)'
  BY <1>1, <1>2, <1>3, <1>5, <1>6, <1>8 DEF ClientSide, ServerSide, Requested, Carried
<1>11. Unseen(c)' /\ Marked(c)' /\ Cancels(c)' /\ Directed(c)'
  BY <1>1, <1>2, <1>5, <1>6, <1>8 DEF Unseen, Marked, Cancels, Directed, Carried, Queued, Sent
<1>12. Sequenced(c)'
  BY <1>1, <1>2, <1>5, SequenceSame DEF Sequenced, Carried
<1> QED BY <1>7, <1>9, <1>10, <1>11, <1>12

-----------------------------------------------------------------------------
(* Every step, and every call.                                             *)

LEMMA OneCallKept ==
  ASSUME \A d \in Calls : CallInv(d), NEW c \in Calls, CallInv(c)', \A d \in Calls : d # c => Same(d)
  PROVE  \A d \in Calls : CallInv(d)'
<1>1. ASSUME NEW d \in Calls, d # c
      PROVE  CallInv(d)'
  BY <1>1, Untouched
<1>2. \A d \in Calls : d # c \/ d = c
  OBVIOUS
<1> QED BY <1>1, <1>2

LEMMA ReadKept ==
  ASSUME TypeInv, \A c \in Calls : CallInv(c), Unfailed, NEW e \in Ends, ReadOne(e)
  PROVE  \A c \in Calls : CallInv(c)'
<1>1. PICK f : f = Head(NextFrames(Other(e)))
  OBVIOUS
<1>2. /\ NextFrames(Other(e)) # <<>> /\ Other(e) \in Ends /\ (e = "server" => marking = None)
      /\ \/ f.kind = "request" /\ ReadRequest(f.id)
         \/ f.kind # "request" /\ f.id \in calls[e] /\ ReadKnown(e, f)
         \/ /\ f.kind # "request" /\ f.id \notin calls[e]
            /\ \/ f.id \in seen[e] /\ ReadLate(e)
               \/ f.id \notin seen[e] /\ f.kind = "cancel" /\ ReadEarlyCancel(f.id)
  BY <1>1, OtherFacts DEF ReadOne, ProtocolError, Unfailed
<1>3. f.id \in Calls /\ (f.kind \in {"request", "cancel"} => Other(e) = "client" /\ e = "server")
  <2>1. TypeOK /\ Wired
    BY DEF TypeInv
  <2>2. /\ f.id \in Calls /\ (f.kind = "request" => Other(e) = "client")
        /\ \/ f.kind \in Controls /\ Queued(Other(e), f.kind, f.id)
           \/ f.kind \in Transported /\ f \in Carried(Other(e), f.id)
    BY <1>1, <1>2, <2>1, HeadQueued
  <2>3. f.kind = "cancel" => Other(e) = "client"
    BY <1>2, <2>1, <2>2 DEF Wired, Queued, Ends, Transported, Messages
  <2> QED BY <2>2, <2>3, OtherFacts
<1>4. PICK c \in Calls : c = f.id
  BY <1>3
<1>5. CASE f.kind = "request" /\ ReadRequest(f.id)
  <2>1. CallInv(c)' /\ \A d \in Calls : d # c => Same(d)
    BY <1>1, <1>2, <1>3, <1>4, <1>5, ReadRequestKeeps
  <2> QED BY <2>1, OneCallKept
<1>6. CASE f.kind # "request" /\ f.id \in calls[e] /\ ReadKnown(e, f)
  <2>1. CallInv(c)' /\ \A d \in Calls : d # c => Same(d)
    BY <1>1, <1>2, <1>4, <1>6, ReadKnownKeeps
  <2> QED BY <2>1, OneCallKept
<1>7. CASE f.kind # "request" /\ f.id \notin calls[e] /\ f.id \in seen[e] /\ ReadLate(e)
  <2>1. CallInv(c)' /\ \A d \in Calls : d # c => Same(d)
    BY <1>1, <1>2, <1>4, <1>7, ReadLateKeeps
  <2> QED BY <2>1, OneCallKept
<1>8. CASE f.kind = "cancel" /\ ReadEarlyCancel(f.id)
  <2>1. CallInv(c)' /\ \A d \in Calls : d # c => Same(d)
    BY <1>1, <1>2, <1>3, <1>4, <1>8, ReadEarlyCancelKeeps
  <2> QED BY <2>1, OneCallKept
<1> QED BY <1>2, <1>5, <1>6, <1>7, <1>8

LEMMA CallsKept ==
  ASSUME TypeInv, Works, Accepted, \A c \in Calls : CallInv(c), Unfailed, [Next]_vars
  PROVE  \A c \in Calls : CallInv(c)'
<1> DEFINE Keeps(c) == CallInv(c)' /\ \A d \in Calls : d # c => Same(d)
<1>1. ASSUME NEW c \in Calls, Keeps(c)
      PROVE  \A d \in Calls : CallInv(d)'
  BY <1>1, OneCallKept
<1>2. CASE UNCHANGED <<call, calls, seen, controls, data, written, marking, early, sender, receiver, canceller, worker>>
  <2>1. \A d \in Calls : Same(d)
    BY <1>2, AllSame DEF Same
  <2> QED BY <2>1, Untouched
<1>3. CASE UNCHANGED vars
  BY <1>2, <1>3 DEF vars, queues, threads
<1>4. CASE MarkWritten
  <2>1. PICK c \in Calls : c = marking
    BY <1>4 DEF MarkWritten, TypeInv, TypeOK
  <2>2. Keeps(c)
    BY <1>4, <2>1, MarkWrittenKeeps
  <2> QED BY <1>1, <2>2
<1>5. CASE Accept
  <2>1. incoming \in Seq(Calls) /\ incoming # <<>>
    BY <1>5 DEF Accept, TypeInv, TypeOK
  <2>2. PICK c \in Calls : c = Head(incoming)
    BY <2>1
  <2>3. c \in seen["server"]
    BY <2>1, <2>2 DEF Accepted
  <2>4. Keeps(c)
    BY <1>5, <2>2, <2>3, AcceptKeeps
  <2> QED BY <1>1, <2>4
<1>6. ASSUME NEW e \in Ends, ReadOne(e)
      PROVE  \A d \in Calls : CallInv(d)'
  BY <1>6, ReadKept
<1>7. ASSUME NEW e \in Ends, NEW c \in Calls, Send(e, c) \/ Receive(e, c)
      PROVE  Keeps(c)
  <2>1. CASE SenderThrows(e, c)
    BY <2>1, SenderThrowsKeeps
  <2>2. CASE Post(e, c)
    BY <2>2, PostKeeps
  <2>3. CASE Pull(e, c)
    BY <2>3, PullKeeps
  <2>4. CASE Deliver(e, c)
    BY <2>4, DeliverKeeps
  <2>5. CASE ReceiverThrows(e, c)
    BY <2>5, ReceiverThrowsKeeps
  <2> QED BY <1>7, <2>1, <2>2, <2>3, <2>4, <2>5 DEF Send, Receive
<1>8. ASSUME NEW c \in Calls,
             \/ SendRequest(c) \/ QueueCancel(c) \/ Start(c) \/ CloseInput(c) \/ Complete(c) \/ Join(c)
             \/ Call(c) \/ Cancel(c) \/ Input(c, "input") \/ Input(c, "finish") \/ SendEvent(c)
      PROVE  Keeps(c)
  <2>1. CASE SendRequest(c)
    BY <2>1, SendRequestKeeps
  <2>2. CASE QueueCancel(c)
    BY <2>2, QueueCancelKeeps
  <2>3. CASE Start(c)
    BY <2>3, StartKeeps
  <2>4. CASE CloseInput(c)
    BY <2>4, CloseInputKeeps
  <2>5. CASE Complete(c) \/ Join(c)
    <3>1. Retired(c)
      BY <2>5 DEF Complete, Join
    <3> QED BY <2>5, <3>1, RetireKeeps
  <2>6. CASE Call(c)
    BY <2>6, CallKeeps
  <2>7. CASE Cancel(c)
    BY <2>7, CancelKeeps
  <2>8. CASE Input(c, "input") \/ Input(c, "finish")
    BY <2>8, InputKeeps
  <2>9. CASE SendEvent(c)
    BY <2>9, SendEventKeeps
  <2> QED BY <1>8, <2>1, <2>2, <2>3, <2>4, <2>5, <2>6, <2>7, <2>8, <2>9
<1>9. ASSUME NEW c \in Calls, RunHook(c) \/ CompleteThrows(c)
      PROVE  \A d \in Calls : CallInv(d)'
  BY <1>2, <1>9 DEF RunHook, CompleteThrows, queues
<1>10. ~Disconnect
  BY DEF Disconnect, Unfailed
<1> HIDE DEF Keeps
<1> QED BY <1>1, <1>3, <1>4, <1>5, <1>6, <1>7, <1>8, <1>9, <1>10 DEF Next, Progress, Choice, End

-----------------------------------------------------------------------------
(* Room at the server.  Releases come one after the other, and a call stays *)
(* outstanding at the client until its result is there; so at the server    *)
(* only the release before the last can be left, and only the ordinary      *)
(* calls outstanding at the client can be cancelled early.                  *)

Client(c) == receiver["client"][c].step
Finishing(c) == worker[c] \notin {"none", "accepted", "running"}

\* The result is on its way, or the client has it.
Answering(c) ==
  \/ Client(c) = "ended"
  \/ \E f \in Carried("server", c) : f.kind = "result"
  \/ call["client"][c].delivery # None /\ call["client"][c].delivery.kind = "result"

Room(c) ==
  /\ Client(c) \in {"delivery", "ended"} => c \in seen["server"]
  /\ call["client"][c].cancelled => c \in Streaming /\ Client(c) # "idle"
  /\ c \in early => c \notin seen["server"]
  /\ Answering(c) => Finishing(c)

Active(c) == Client(c) \notin {"idle", "ended"}
Executing(c) == worker[c] \notin {"none", "ended"}
Counted ==
  /\ \A e \in Ends : Cardinality(calls[e] \ Releases) <= MaxPendingCalls
  /\ \A r, q \in Releases : Active(r) /\ Active(q) => r = q
  /\ \A r, q \in Releases : Executing(r) /\ Executing(q) => r = q

RoomInv == Works => Counted /\ \A c \in Calls : Room(c)

LEMMA OneMoreCall ==
  ASSUME NEW S \in SUBSET Calls, NEW T \in SUBSET Calls, NEW c \in Calls, T \subseteq S \cup {c}
  PROVE  /\ Cardinality(S) \in Nat /\ Cardinality(T) \in Nat
         /\ Cardinality(T) <= Cardinality(S) + 1
         /\ c \notin T \/ c \in S => Cardinality(T) <= Cardinality(S)
<1>1. IsFiniteSet(S) /\ IsFiniteSet(T) /\ IsFiniteSet(S \cup {c})
  BY CallsAssumption, FS_Subset
<1>2. Cardinality(S) \in Nat /\ Cardinality(T) \in Nat
  BY <1>1, FS_CardinalityType
<1>3. Cardinality(S \cup {c}) <= Cardinality(S) + 1
  <2>1. c \in S => S \cup {c} = S
    OBVIOUS
  <2>2. c \notin S => Cardinality(S \cup {c}) = Cardinality(S) + 1
    BY <1>1, FS_AddElement
  <2> QED BY <1>2, <2>1, <2>2
<1>4. Cardinality(T) <= Cardinality(S \cup {c}) /\ Cardinality(S \cup {c}) \in Nat
  BY <1>1, FS_Subset, FS_CardinalityType
<1>5. ASSUME c \notin T \/ c \in S
      PROVE  Cardinality(T) <= Cardinality(S)
  <2>1. T \subseteq S
    BY <1>5
  <2> QED BY <1>1, <2>1, FS_Subset
<1> QED BY <1>2, <1>3, <1>4, <1>5

LEMMA SameRoom ==
  ASSUME NEW c \in Calls, Room(c), Same(c)
  PROVE  Room(c)'
<1>1. "client" \in Ends /\ "server" \in Ends
  BY DEF Ends
<1>2. /\ Client(c)' = Client(c) /\ call'["client"][c] = call["client"][c]
      /\ Carried("server", c)' = Carried("server", c) /\ worker'[c] = worker[c]
      /\ c \in seen'["server"] <=> c \in seen["server"]
      /\ c \in early' => c \in early
  BY <1>1 DEF Same, DataSame, CallSame, ReceiverSame, SetsSame, Client, Carried
<1> QED BY <1>2 DEF Room, Answering, Finishing

\* A step that changes one call at one end, but not whether it is cancelled.
LEMMA ClientSame ==
  ASSUME NEW e \in Ends, NEW c \in Calls, NEW v, Changed(call, call', e, c, v),
         v.cancelled = call[e][c].cancelled, NEW d \in Calls
  PROVE  /\ call'["client"][d].cancelled = call["client"][d].cancelled
         /\ call'["client"][d].delivery \in {v.delivery, call["client"][d].delivery}
         /\ v.delivery = call[e][c].delivery =>
              call'["client"][d].delivery = call["client"][d].delivery
<1>1. "client" \in Ends
  BY DEF Ends
<1>2. CASE e = "client" /\ d = c
  <2>1. call'["client"][d] = v
    BY <1>2 DEF Changed
  <2> QED BY <1>2, <2>1
<1>3. CASE e # "client" \/ d # c
  <2>1. call'["client"][d] = call["client"][d]
    BY <1>1, <1>3 DEF Changed
  <2> QED BY <2>1
<1> QED BY <1>2, <1>3

\* What the step of one call has to keep.
Fitting(c) ==
  /\ Room(c)'
  /\ \A e \in Ends :
       c \in calls'[e] => c \in calls[e] \/ c \in Releases \/ Cardinality(calls[e]) < MaxPendingCalls
  /\ c \in Releases /\ Active(c)' => Active(c) \/ ~Releasing
  /\ c \in Releases /\ Executing(c)' => Executing(c) \/ Accepting

LEMMA OneCallRoom ==
  ASSUME TypeOK, TypeOK', Counted, \A d \in Calls : Room(d),
         NEW c \in Calls, Fitting(c), \A d \in Calls : d # c => Same(d)
  PROVE  Counted' /\ \A d \in Calls : Room(d)'
<1>1. "client" \in Ends /\ "server" \in Ends /\ Releases \subseteq Calls /\ MaxPendingCalls \in Nat
  BY CallsAssumption, SizesAssumption DEF Ends
<1>2. ASSUME NEW d \in Calls
      PROVE  Room(d)'
  BY <1>2, SameRoom DEF Fitting
<1>3. ASSUME NEW e \in Ends
      PROVE  Cardinality(calls'[e] \ Releases) <= MaxPendingCalls
  <2>1. calls[e] \in SUBSET Calls /\ calls'[e] \in SUBSET Calls
    BY DEF TypeOK
  <2>2. \A d \in Calls : d # c => (d \in calls'[e] <=> d \in calls[e])
    BY DEF Same, SetsSame
  <2> DEFINE S == calls[e] \ Releases
             T == calls'[e] \ Releases
  <2>3. /\ S \in SUBSET Calls /\ T \in SUBSET Calls
        /\ T \subseteq S \cup {c} /\ T \subseteq calls[e] \cup {c}
    BY <2>1, <2>2
  <2>4. Cardinality(S) <= MaxPendingCalls
    BY DEF Counted
  <2>5. c \in T => c \in S \/ Cardinality(calls[e]) < MaxPendingCalls
    BY DEF Fitting
  <2> HIDE DEF S, T
  <2>6. CASE c \notin T \/ c \in S
    <3>1. Cardinality(S) \in Nat /\ Cardinality(T) \in Nat /\ Cardinality(T) <= Cardinality(S)
      BY <2>3, <2>6, OneMoreCall
    <3> QED BY <1>1, <2>4, <3>1 DEF T
  <2>7. CASE Cardinality(calls[e]) < MaxPendingCalls
    <3>1. /\ Cardinality(calls[e]) \in Nat /\ Cardinality(T) \in Nat
          /\ Cardinality(T) <= Cardinality(calls[e]) + 1
      BY <2>1, <2>3, OneMoreCall
    <3> QED BY <1>1, <2>7, <3>1 DEF T
  <2> QED BY <2>5, <2>6, <2>7
<1>4. \A d \in Calls : d # c => (Active(d)' <=> Active(d)) /\ (Executing(d)' <=> Executing(d))
  BY <1>1 DEF Same, ReceiverSame, SetsSame, Active, Client, Executing
<1>5. ASSUME NEW r \in Releases, NEW q \in Releases, Active(r)', Active(q)'
      PROVE  r = q
  <2>1. Active(c) \/ ~Releasing \/ (r # c /\ q # c)
    BY <1>5 DEF Fitting
  <2>2. ~Releasing => ~Active(r) /\ ~Active(q)
    BY DEF Releasing, Active, Client
  <2> QED BY <1>1, <1>4, <1>5, <2>1, <2>2 DEF Counted
<1>6. ASSUME NEW r \in Releases, NEW q \in Releases, Executing(r)', Executing(q)'
      PROVE  r = q
  <2>1. Executing(c) \/ Accepting \/ (r # c /\ q # c)
    BY <1>6 DEF Fitting
  <2>2. Accepting => ~Executing(r) /\ ~Executing(q)
    BY DEF Accepting, Executing
  <2> QED BY <1>1, <1>4, <1>6, <2>1, <2>2 DEF Counted
<1>7. Counted'
  BY <1>3, <1>5, <1>6 DEF Counted
<1> QED BY <1>2, <1>7

\* A step that moves no call and brings no frame nearer.
LEMMA RoomUnmoved ==
  ASSUME Counted, \A c \in Calls : Room(c), UNCHANGED <<calls, seen, early, receiver, worker>>,
         \A c \in Calls :
           /\ call'["client"][c].cancelled = call["client"][c].cancelled
           /\ call'["client"][c].delivery = call["client"][c].delivery
           /\ Of(data'["server"], c) \subseteq Carried("server", c)
  PROVE  Counted' /\ \A c \in Calls : Room(c)'
<1>1. Counted'
  BY DEF Counted, Active, Executing, Client
<1>2. ASSUME NEW c \in Calls
      PROVE  Room(c)'
  <2>1. Answering(c)' => Answering(c)
    BY DEF Answering, Client, Carried
  <2> QED BY <2>1 DEF Room, Client, Finishing
<1> QED BY <1>1, <1>2

LEMMA WrittenFewer ==
  ASSUME TypeOK, NEW w \in Ends, NextFrames(w) # <<>>, Written(w)
  PROVE  \A x \in Ends, c \in Calls : Of(data'[x], c) \subseteq Carried(x, c)
<1>1. PICK f : f = Head(NextFrames(w))
  OBVIOUS
<1>2. DataLose(w, f) \/ UNCHANGED data
  BY <1>1, FrameWritten
<1>3. CASE DataLose(w, f)
  BY <1>3 DEF DataLose, Carried
<1>4. CASE UNCHANGED data
  BY <1>4 DEF Carried
<1> QED BY <1>2, <1>3, <1>4

\* Each step in turn, of the call that makes it.
LEMMA ClientFits ==
  ASSUME TypeInv, NEW c \in Calls, CallInv(c), Room(c), Call(c) \/ SendRequest(c) \/ Cancel(c)
  PROVE  Fitting(c)
<1> USE DEF TypeInv
<1>1. /\ "client" \in Ends /\ "server" \in Ends /\ Ends = {"client", "server"}
      /\ {"request", "waiting"} \subseteq Receives /\ MaxPendingCalls \in Nat
  BY SizesAssumption DEF Ends, Receives
<1>2. CASE Call(c)
  <2>1. ReceiverMoved("client", c, "request") /\ calls' = [calls EXCEPT !["client"] = @ \cup {c}]
    BY <1>2 DEF Call, ReceiverMoved
  <2>2. Client(c) = "idle" /\ Client(c)' = "request"
    BY <1>1, <1>2, <2>1, ReceiverEffect DEF Call, Client, Changed, TypeOK
  <2>3. UNCHANGED <<call, seen, data, early, worker>> /\ calls'["server"] = calls["server"]
    BY <1>1, <1>2, <2>1 DEF Call, queues, TypeOK
  <2>4. c \notin Releases => Cardinality(calls["client"]) < MaxPendingCalls
    BY <1>1, <1>2 DEF Call
  <2>5. c \in Releases => ~Releasing
    BY <1>2 DEF Call
  <2>6. Room(c)'
    BY <2>2, <2>3 DEF Room, Answering, Finishing, Carried
  <2> QED BY <1>1, <2>3, <2>4, <2>5, <2>6 DEF Fitting, Executing
<1>3. CASE SendRequest(c)
  <2>1. ReceiverMoved("client", c, "waiting") /\ QueueData("client", MessageFrame("request", c, 1))
    BY <1>3 DEF SendRequest, ReceiverMoved
  <2>2. Client(c) = "request" /\ Client(c)' = "waiting"
    BY <1>1, <1>3, <2>1, ReceiverEffect DEF SendRequest, Client, Changed, TypeOK
  <2>3. UNCHANGED <<call, calls, seen, early, worker>> /\ data'["server"] = data["server"]
    BY <1>1, <1>3, <2>1 DEF SendRequest, QueueData, TypeOK
  <2>4. Room(c)'
    BY <2>2, <2>3 DEF Room, Answering, Finishing, Carried
  <2> QED BY <2>2, <2>3, <2>4 DEF Fitting, Executing, Active
<1>4. CASE Cancel(c)
  <2>1. Changed(call, call', "client", c, [call["client"][c] EXCEPT !.cancelled = TRUE])
    BY <1>4, CancelEffect
  <2>2. call'["client"][c].delivery = call["client"][c].delivery
    BY <1>1, <2>1 DEF Changed, TypeOK, Invocation
  <2>3. UNCHANGED <<calls, seen, data, early, receiver, worker>> /\ c \in Streaming \cap calls["client"]
    BY <1>4 DEF Cancel, queues
  <2>4. Client(c) # "idle"
    BY <2>3 DEF CallInv, ClientSide, Client
  <2>5. Room(c)'
    BY <2>2, <2>3, <2>4 DEF Room, Answering, Finishing, Carried, Client
  <2> QED BY <2>3, <2>5 DEF Fitting, Executing, Active, Client
<1> QED BY <1>2, <1>3, <1>4

LEMMA ServerFits ==
  ASSUME TypeInv, NEW c \in Calls, CallInv(c), Room(c),
         \/ Accept /\ c = Head(incoming)
         \/ Start(c) \/ CloseInput(c) \/ Complete(c) \/ Join(c)
  PROVE  Fitting(c)
<1> USE DEF TypeInv
<1>1. "client" \in Ends /\ "server" \in Ends /\ Ends = {"client", "server"}
  BY DEF Ends
<1>2. ASSUME Client(c)' = Client(c), call'["client"][c] = call["client"][c],
             UNCHANGED <<data, early>>, c \in early => (c \in seen'["server"] <=> c \in seen["server"]),
             seen["server"] \subseteq seen'["server"], \A e \in Ends : calls'[e] \subseteq calls[e],
             Finishing(c) => Finishing(c)', Executing(c)' => Executing(c) \/ Accepting
      PROVE  Fitting(c)
  <2>1. Answering(c)' <=> Answering(c)
    BY <1>2 DEF Answering, Carried
  <2>2. Room(c)'
    BY <1>2, <2>1 DEF Room
  <2> QED BY <1>2, <2>2 DEF Fitting, Active
<1>3. CASE Accept /\ c = Head(incoming)
  <2>1. /\ Moves(c, "none", "accepted") /\ Accepting
        /\ UNCHANGED <<call, calls, seen, early, data, receiver>>
    BY <1>3 DEF Accept, queues
  <2>2. worker[c] = "none" /\ worker'[c] = "accepted"
    BY <2>1 DEF Moves, TypeOK
  <2> QED BY <1>2, <2>1, <2>2 DEF Client, Finishing
<1>4. CASE Start(c)
  <2>1. Moves(c, "accepted", "running") /\ UNCHANGED <<call, calls, seen, early, data>>
    BY <1>4 DEF Start, queues
  <2>2. worker[c] = "accepted" /\ worker'[c] = "running"
    BY <2>1 DEF Moves, TypeOK
  <2>3. receiver'["client"] = receiver["client"]
    BY <1>1, <1>4 DEF Start, TypeOK
  <2> QED BY <1>2, <2>1, <2>2, <2>3 DEF Client, Finishing, Executing
<1>5. CASE CloseInput(c)
  <2>1. /\ Moves(c, "running", "completing") /\ Pending("server", c)
        /\ UNCHANGED <<calls, seen, early, data, receiver>>
    BY <1>5 DEF CloseInput
  <2>2. worker[c] = "running" /\ worker'[c] = "completing"
    BY <2>1 DEF Moves, TypeOK
  <2>3. call'["client"] = call["client"]
    BY <1>1, <2>1 DEF Pending, TypeOK
  <2> QED BY <1>2, <2>1, <2>2, <2>3 DEF Client, Finishing, Executing
<1>6. CASE Complete(c) \/ Join(c)
  <2>1. Retired(c) /\ (Moves(c, "completing", "joining") \/ Moves(c, "joining", "ended"))
        /\ UNCHANGED <<early, data, receiver>>
    BY <1>6 DEF Complete, Join, queues
  <2>2. worker[c] \in {"completing", "joining"} /\ worker'[c] \in {"joining", "ended"}
    BY <2>1 DEF Moves, TypeOK
  <2>3. c \in seen["server"]
    BY <2>2 DEF CallInv, ServerSide
  <2>4. /\ calls'["server"] \subseteq calls["server"] /\ calls'["client"] = calls["client"]
        /\ seen'["server"] = seen["server"] \cup {c}
        /\ call'["client"] = call["client"]
    BY <1>1, <2>1 DEF Retired, TypeOK
  <2> QED BY <1>1, <1>2, <2>1, <2>2, <2>3, <2>4 DEF Client, Finishing, Executing
<1> QED BY <1>3, <1>4, <1>5, <1>6

LEMMA PostFits ==
  ASSUME TypeInv, NEW e \in Ends, NEW c \in Calls, CallInv(c), Room(c), Post(e, c)
  PROVE  Fitting(c)
<1> USE DEF TypeInv
<1>1. "client" \in Ends /\ "server" \in Ends
  BY DEF Ends
<1>2. PICK k, p : k = sender[e][c].kind /\ p = sender[e][c].part
  OBVIOUS
<1>3. k \in Messages /\ p \in Nat
  BY <1>2 DEF Post, Wired, TypeOK
<1>4. PICK b \in BOOLEAN : b = (p < Parts[k])
  BY (p < Parts[k]) \in BOOLEAN
<1>5. PermitUsed(e, c, b) /\ QueueData(e, MessageFrame(k, c, p))
  BY <1>2, <1>4 DEF Post, PermitUsed
<1>6. UNCHANGED <<calls, seen, early, receiver, worker>>
  BY DEF Post
<1>7. /\ call'["client"][c].cancelled = call["client"][c].cancelled
      /\ call'["client"][c].delivery = call["client"][c].delivery
  <2>1. Changed(call, call', e, c, [call[e][c] EXCEPT !.peer_permit = FALSE, !.offer_pending = b])
    BY <1>5, PostEffect
  <2>2. call[e][c] \in Invocation
    BY DEF TypeOK
  <2>3. PICK v : v = [call[e][c] EXCEPT !.peer_permit = FALSE, !.offer_pending = b]
    OBVIOUS
  <2>4. v.cancelled = call[e][c].cancelled /\ v.delivery = call[e][c].delivery
    BY <2>2, <2>3 DEF Invocation
  <2>5. Changed(call, call', e, c, v)
    BY <2>1, <2>3
  <2> QED BY <2>4, <2>5, ClientSame
<1>8. \A f \in Of(data'["server"], c) : f \in Carried("server", c) \/ (e = "server" /\ f.kind = k)
  <2>1. MessageFrame(k, c, p) \in Frame
    BY <1>3 DEF MessageFrame, Frame
  <2>2. DataGain(e, MessageFrame(k, c, p))
    BY <1>5, <2>1, DataQueued
  <2> QED BY <1>1, <2>2 DEF DataGain, Carried, MessageFrame
<1>9. e = "server" /\ k = "result" => Finishing(c)
  BY <1>2 DEF Post, CallInv, Directed, ServerSide, Finishing
<1>10. Answering(c)' => Answering(c) \/ Finishing(c)
  BY <1>6, <1>7, <1>8, <1>9 DEF Answering, Carried, Client
<1>11. Room(c)'
  BY <1>6, <1>7, <1>10 DEF Room, Client, Finishing
<1> QED BY <1>6, <1>11 DEF Fitting, Active, Executing, Client

LEMMA PullFits ==
  ASSUME TypeInv, Unfailed, NEW e \in Ends, NEW c \in Calls, CallInv(c), Room(c), Pull(e, c)
  PROVE  Fitting(c)
<1> USE DEF TypeInv
<1>1. "client" \in Ends /\ "server" \in Ends /\ "delivery" \in Receives
  BY DEF Ends, Receives
<1>2. /\ PullRequested(e, c) /\ ReceiverMoved(e, c, "delivery")
      /\ UNCHANGED <<calls, seen, early, data, worker>>
  BY DEF Pull, PullRequested, ReceiverMoved, ProtocolError, Unfailed
<1>3. /\ call'["client"][c].cancelled = call["client"][c].cancelled
      /\ call'["client"][c].delivery = call["client"][c].delivery
  <2>1. Changed(call, call', e, c, [call[e][c] EXCEPT !.ready = FALSE, !.receive_requested = TRUE])
    BY <1>2, PullEffect
  <2>2. call[e][c] \in Invocation
    BY DEF TypeOK
  <2>3. PICK v : v = [call[e][c] EXCEPT !.ready = FALSE, !.receive_requested = TRUE]
    OBVIOUS
  <2>4. v.cancelled = call[e][c].cancelled /\ v.delivery = call[e][c].delivery
    BY <2>2, <2>3 DEF Invocation
  <2>5. Changed(call, call', e, c, v)
    BY <2>1, <2>3
  <2> QED BY <2>4, <2>5, ClientSame
<1>4. Client(c)' = (IF e = "client" THEN "delivery" ELSE Client(c))
  <2>1. Changed(receiver, receiver', e, c, [receiver[e][c] EXCEPT !.step = "delivery"])
    BY <1>1, <1>2, ReceiverEffect
  <2>2. receiver[e][c] \in Receiver
    BY DEF TypeOK, Receiver
  <2>3. CASE e = "client"
    BY <2>1, <2>2, <2>3 DEF Changed, Client, Receiver
  <2>4. CASE e # "client"
    BY <1>1, <2>1, <2>4 DEF Changed, Client
  <2> QED BY <2>3, <2>4
<1>5. e = "client" => Client(c) = "waiting" /\ c \in seen["server"]
  BY <1>1 DEF Pull, Client, CallInv, Unseen
<1>6. Answering(c)' => Answering(c)
  BY <1>2, <1>3, <1>4 DEF Answering, Carried
<1>7. Room(c)'
  BY <1>2, <1>3, <1>4, <1>5, <1>6 DEF Room, Finishing
<1> QED BY <1>2, <1>4, <1>5, <1>7 DEF Fitting, Active, Executing

LEMMA DeliverFits ==
  ASSUME TypeInv, Unfailed, NEW e \in Ends, NEW c \in Calls, CallInv(c), Room(c), Deliver(e, c)
  PROVE  Fitting(c)
<1> USE DEF TypeInv
<1>1. "client" \in Ends /\ "server" \in Ends /\ Ends = {"client", "server"} /\ "client" # "server"
  BY DEF Ends
<1>2. PICK f : f = call[e][c].delivery
  OBVIOUS
<1>3. f # None /\ f \in Frame /\ f.kind \in Messages /\ receiver[e][c].step = "delivery"
  BY <1>2 DEF Deliver, TypeOK, Invocation, Deliveries
<1>4. PICK over \in BOOLEAN : over = (f.part = Parts[f.kind] /\ f.kind \in {"result", "finish"})
  BY (f.part = Parts[f.kind] /\ f.kind \in {"result", "finish"}) \in BOOLEAN
<1>5. PICK a : a = [step |-> IF over THEN "ended" ELSE "waiting",
                   kind |-> IF f.part = Parts[f.kind] THEN "none" ELSE f.kind,
                   parts |-> IF f.part = Parts[f.kind] THEN 0 ELSE f.part]
  OBVIOUS
<1>6. PICK b \in BOOLEAN : b = (over /\ e = "client")
  BY (over /\ e = "client") \in BOOLEAN
<1>7. /\ FrameDelivered(e, c, b) /\ Assembled(e, c, a)
      /\ UNCHANGED <<early, data, worker>>
  BY <1>2, <1>4, <1>5, <1>6 DEF Deliver, FrameDelivered, Assembled, ProtocolError, Unfailed, queues
<1>8. a \in Receiver
  BY <1>3, <1>5 DEF Receiver, Receives, Frame
<1>9. Client(c)' = IF e = "client" THEN (IF over THEN "ended" ELSE "waiting") ELSE Client(c)
  <2>1. Changed(receiver, receiver', e, c, a)
    BY <1>7, <1>8, AssembledEffect
  <2>2. CASE e = "client"
    BY <1>5, <2>1, <2>2 DEF Changed, Client
  <2>3. CASE e # "client"
    BY <1>1, <2>1, <2>3 DEF Changed, Client
  <2> QED BY <2>2, <2>3
<1>10. /\ call'["client"][c].cancelled = call["client"][c].cancelled
       /\ call'["client"][c].delivery \in {None, call["client"][c].delivery}
  <2>1. Changed(call, call', e, c, [call[e][c] EXCEPT !.delivery = None, !.receive_requested = FALSE,
                                                     !.complete = @ \/ b])
    BY <1>7, DeliverEffect
  <2>2. call[e][c] \in Invocation
    BY DEF TypeOK
  <2>3. PICK v : v = [call[e][c] EXCEPT !.delivery = None, !.receive_requested = FALSE,
                                     !.complete = @ \/ b]
    OBVIOUS
  <2>4. v.cancelled = call[e][c].cancelled /\ v.delivery = None
    BY <2>2, <2>3 DEF Invocation
  <2>5. Changed(call, call', e, c, v)
    BY <2>1, <2>3
  <2> QED BY <2>4, <2>5, ClientSame
<1>11. seen'["server"] = seen["server"] /\ \A x \in Ends : calls'[x] \subseteq calls[x]
  <2>1. \/ UNCHANGED <<seen, calls>>
        \/ /\ e = "client" /\ seen' = [seen EXCEPT !["client"] = @ \cup {c}]
           /\ calls' = [calls EXCEPT !["client"] = @ \ {c}]
    BY DEF Deliver, ProtocolError, Unfailed
  <2>2. seen \in [Ends -> SUBSET Calls] /\ calls \in [Ends -> SUBSET Calls]
    BY DEF TypeOK
  <2>3. CASE UNCHANGED <<seen, calls>>
    BY <2>3
  <2>4. CASE /\ seen' = [seen EXCEPT !["client"] = @ \cup {c}]
             /\ calls' = [calls EXCEPT !["client"] = @ \ {c}]
    BY <1>1, <2>2, <2>4
  <2> QED BY <2>1, <2>3, <2>4
<1>12. e = "client" /\ over => f.kind = "result" /\ Finishing(c)
  <2>1. e = "client" /\ over => f.kind = "result"
    BY <1>2, <1>3, <1>4 DEF CallInv, Directed
  <2> QED BY <1>2, <1>3, <2>1 DEF Room, Answering
<1>13. Answering(c)' => Answering(c) \/ Finishing(c)
  BY <1>7, <1>9, <1>10, <1>12 DEF Answering, Carried
<1>14. e = "client" => Client(c) = "delivery"
  BY <1>3 DEF Client
<1>15. Room(c)'
  BY <1>7, <1>9, <1>10, <1>11, <1>13, <1>14 DEF Room, Finishing
<1> QED BY <1>1, <1>7, <1>9, <1>11, <1>14, <1>15 DEF Fitting, Active, Executing

LEMMA ReceiverThrowsFits ==
  ASSUME TypeInv, NEW e \in Ends, NEW c \in Calls, Room(c), ReceiverThrows(e, c)
  PROVE  Fitting(c)
<1>1. e = "server" /\ UNCHANGED <<call, calls, seen, data, early, worker>>
  BY DEF ReceiverThrows, Abandoned, queues
<1>2. receiver'["client"] = receiver["client"]
  BY <1>1 DEF ReceiverThrows, TypeInv, TypeOK, Ends
<1>3. Room(c)'
  BY <1>1, <1>2 DEF Room, Answering, Carried, Client, Finishing
<1> QED BY <1>1, <1>2, <1>3 DEF Fitting, Active, Executing, Client

LEMMA RequestFits ==
  ASSUME TypeInv, Unfailed, NEW c \in Calls, CallInv(c), Room(c), ReadRequest(c),
         NextFrames("client") # <<>>
  PROVE  Fitting(c)
<1> USE DEF TypeInv
<1>1. "client" \in Ends /\ "server" \in Ends /\ Ends = {"client", "server"} /\ MaxPendingCalls \in Nat
  BY SizesAssumption DEF Ends
<1>2. /\ ~Crowded(c) /\ Written("client") /\ RequestRead(c, c \in early)
      /\ early' = early \ {c} /\ calls' = [calls EXCEPT !["server"] = @ \cup {c}]
      /\ seen' = [seen EXCEPT !["server"] = @ \cup {c}]
      /\ UNCHANGED <<receiver, worker>>
  BY DEF ReadRequest, LimitExceeded, ProtocolError, Unfailed, RequestRead, threads
<1>3. call'["client"] = call["client"]
  BY <1>1, <1>2 DEF RequestRead, TypeOK
<1>4. Of(data'["server"], c) \subseteq Carried("server", c)
  BY <1>1, <1>2, WrittenFewer
<1>5. /\ calls'["client"] = calls["client"] /\ calls["server"] \in SUBSET Calls
      /\ seen'["server"] = seen["server"] \cup {c}
  BY <1>1, <1>2 DEF TypeOK
<1>6. c \notin Releases => Cardinality(calls["server"]) < MaxPendingCalls
  <2>1. Cardinality(calls["server"]) \in Nat
    BY <1>5, CallsAssumption, FS_Subset, FS_CardinalityType
  <2> QED BY <1>1, <1>2, <2>1 DEF Crowded, CallLimit
<1>7. Answering(c)' => Answering(c)
  BY <1>2, <1>3, <1>4 DEF Answering, Client, Carried
<1>8. Room(c)'
  BY <1>2, <1>3, <1>5, <1>7 DEF Room, Client, Finishing
<1> QED BY <1>1, <1>2, <1>5, <1>6, <1>8 DEF Fitting, Active, Executing, Client

LEMMA EarlyFits ==
  ASSUME TypeInv, Unfailed, NEW c \in Calls, Room(c), c \notin seen["server"], ReadEarlyCancel(c),
         NextFrames("client") # <<>>
  PROVE  Fitting(c)
<1> USE DEF TypeInv
<1>1. "client" \in Ends /\ "server" \in Ends
  BY DEF Ends
<1>2. Written("client") /\ UNCHANGED <<call, calls, seen, receiver, worker>>
  BY DEF ReadEarlyCancel, ProtocolError, Unfailed, threads
<1>3. Of(data'["server"], c) \subseteq Carried("server", c)
  BY <1>1, <1>2, WrittenFewer
<1>4. Answering(c)' => Answering(c)
  BY <1>2, <1>3 DEF Answering, Client, Carried
<1>5. Room(c)'
  BY <1>2, <1>4 DEF Room, Client, Finishing
<1> QED BY <1>2, <1>5 DEF Fitting, Active, Executing, Client

LEMMA KnownFits ==
  ASSUME TypeInv, Unfailed, NEW e \in Ends, NEW f, NEW c \in Calls, c = f.id, CallInv(c), Room(c),
         NextFrames(Other(e)) # <<>>, f = Head(NextFrames(Other(e))), f.kind # "request", ReadKnown(e, f)
  PROVE  Fitting(c)
<1> USE DEF TypeInv
<1>1. /\ "client" \in Ends /\ "server" \in Ends /\ Other(e) \in Ends
      /\ Other("client") = "server"
      /\ e = "client" \/ e = "server"
  BY OtherFacts DEF Ends
<1>2. /\ Written(Other(e)) /\ FrameApplied(e, f)
      /\ UNCHANGED <<calls, seen, early, receiver, worker>>
  BY DEF ReadKnown, FrameApplied, ProtocolError, Unfailed
<1>3. Of(data'["server"], c) \subseteq Carried("server", c)
  BY <1>1, <1>2, WrittenFewer
<1>4. /\ f \in Frame
      /\ \/ f.kind \in Controls /\ Queued(Other(e), f.kind, c)
         \/ f.kind \in Transported /\ f \in Carried(Other(e), c)
  BY <1>1, HeadQueued
<1>5. Changed(call, call', e, c, Applied(e, f))
  BY <1>2, <1>4, FrameAppliedEffect
<1>6. CASE e = "client"
  <2>1. f.kind # "cancel"
    BY <1>1, <1>4, <1>6 DEF Wired, Queued, Transported, Messages
  <2>2. call'["client"][c] = Applied("client", f) /\ call["client"][c] \in Invocation
    BY <1>5, <1>6 DEF Changed, TypeOK
  <2>3. /\ call'["client"][c].cancelled = call["client"][c].cancelled
        /\ \/ call'["client"][c].delivery = call["client"][c].delivery
           \/ call'["client"][c].delivery = f /\ f \in Carried("server", c)
    BY <1>1, <1>4, <1>6, <2>1, <2>2 DEF Applied, Invocation, Controls
  <2>4. Answering(c)' => Answering(c)
    BY <1>2, <1>3, <2>3 DEF Answering, Client, Carried
  <2>5. Room(c)'
    BY <1>2, <2>3, <2>4 DEF Room, Client, Finishing
  <2> QED BY <1>2, <2>5 DEF Fitting, Active, Executing, Client
<1>7. CASE e = "server"
  <2>1. call'["client"][c] = call["client"][c]
    BY <1>1, <1>5, <1>7 DEF Changed
  <2>2. Answering(c)' => Answering(c)
    BY <1>2, <1>3, <2>1 DEF Answering, Client, Carried
  <2>3. Room(c)'
    BY <1>2, <2>1, <2>2 DEF Room, Client, Finishing
  <2> QED BY <1>2, <2>3 DEF Fitting, Active, Executing, Client
<1> QED BY <1>1, <1>6, <1>7

LEMMA ReadRoom ==
  ASSUME TypeInv, TypeOK', \A c \in Calls : CallInv(c), Counted, \A c \in Calls : Room(c),
         Unfailed, NEW e \in Ends, ReadOne(e)
  PROVE  Counted' /\ \A c \in Calls : Room(c)'
<1> DEFINE Keeps(c) == Fitting(c) /\ \A d \in Calls : d # c => Same(d)
<1>1. PICK f : f = Head(NextFrames(Other(e)))
  OBVIOUS
<1>2. /\ NextFrames(Other(e)) # <<>> /\ Other(e) \in Ends /\ (e = "server" => marking = None)
      /\ \/ f.kind = "request" /\ ReadRequest(f.id)
         \/ f.kind # "request" /\ f.id \in calls[e] /\ ReadKnown(e, f)
         \/ /\ f.kind # "request" /\ f.id \notin calls[e]
            /\ \/ f.id \in seen[e] /\ ReadLate(e)
               \/ f.id \notin seen[e] /\ f.kind = "cancel" /\ ReadEarlyCancel(f.id)
  BY <1>1, OtherFacts DEF ReadOne, ProtocolError, Unfailed
<1>3. TypeOK /\ Wired /\ f.id \in Calls
  BY <1>1, <1>2, HeadQueued DEF TypeInv
<1>4. PICK c \in Calls : c = f.id
  BY <1>3
<1>5. f.kind \in {"request", "cancel"} => Other(e) = "client" /\ e = "server"
  <2>1. f.kind \in {"request", "cancel"} => Other(e) = "client"
    BY <1>1, <1>2, <1>3, RequestHead
  <2> QED BY <2>1, OtherFacts
<1>6. ASSUME Keeps(c)
      PROVE  Counted' /\ \A d \in Calls : Room(d)'
  BY <1>3, <1>6, OneCallRoom
<1>7. CASE f.kind = "request" /\ ReadRequest(f.id)
  <2>1. \A d \in Calls : d # c => Same(d)
    BY <1>1, <1>2, <1>4, <1>5, <1>7, ReadRequestKeeps
  <2>2. Fitting(c)
    BY <1>1, <1>2, <1>4, <1>5, <1>7, RequestFits
  <2> QED BY <1>6, <2>1, <2>2
<1>8. CASE f.kind # "request" /\ f.id \in calls[e] /\ ReadKnown(e, f)
  <2>1. \A d \in Calls : d # c => Same(d)
    BY <1>1, <1>2, <1>4, <1>8, ReadKnownKeeps
  <2>2. Fitting(c)
    BY <1>1, <1>2, <1>4, <1>8, KnownFits
  <2> QED BY <1>6, <2>1, <2>2
<1>9. CASE ReadLate(e)
  <2>1. Written(Other(e)) /\ UNCHANGED <<call, calls, seen, early, receiver, worker>>
    BY <1>9 DEF ReadLate, threads
  <2>2. \A d \in Calls : Of(data'["server"], d) \subseteq Carried("server", d)
    BY <1>2, <1>3, <2>1, WrittenFewer DEF Ends
  <2> QED BY <2>1, <2>2, RoomUnmoved
<1>10. CASE f.id \notin seen[e] /\ f.kind = "cancel" /\ ReadEarlyCancel(f.id)
  <2>1. \A d \in Calls : d # c => Same(d)
    BY <1>1, <1>2, <1>4, <1>5, <1>10, ReadEarlyCancelKeeps
  <2>2. Fitting(c)
    BY <1>1, <1>2, <1>4, <1>5, <1>10, EarlyFits
  <2> QED BY <1>6, <2>1, <2>2
<1> QED BY <1>2, <1>7, <1>8, <1>9, <1>10

LEMMA RoomStep ==
  ASSUME TypeInv, TypeOK', Works, Accepted, \A c \in Calls : CallInv(c), Counted,
         \A c \in Calls : Room(c), Unfailed, [Next]_vars
  PROVE  Counted' /\ \A c \in Calls : Room(c)'
<1> DEFINE Keeps(c) == Fitting(c) /\ \A d \in Calls : d # c => Same(d)
           Goal == Counted' /\ \A d \in Calls : Room(d)'
<1> SUFFICES Goal
  OBVIOUS
<1>1. ASSUME NEW c \in Calls, Keeps(c)
      PROVE  Goal
  BY <1>1, OneCallRoom DEF TypeInv
<1>2. ASSUME UNCHANGED <<call, calls, seen, data, early, receiver, worker>>
      PROVE  Goal
  BY <1>2, RoomUnmoved DEF Carried
<1>3. CASE UNCHANGED vars \/ MarkWritten
  BY <1>2, <1>3 DEF vars, queues, threads, MarkWritten, ProtocolError, Unfailed
<1>4. ASSUME NEW c \in Calls, RunHook(c) \/ CompleteThrows(c) \/ QueueCancel(c)
      PROVE  Goal
  BY <1>2, <1>4 DEF RunHook, CompleteThrows, QueueCancel, queues
<1>5. ASSUME NEW e \in Ends, NEW c \in Calls, SenderThrows(e, c)
      PROVE  Goal
  BY <1>2, <1>5 DEF SenderThrows, queues
<1>6. ASSUME NEW e \in Ends, NEW c \in Calls, Pending(e, c),
             UNCHANGED <<calls, seen, data, early, receiver, worker>>
      PROVE  Goal
  <2>1. Changed(call, call', e, c, [call[e][c] EXCEPT !.offer_pending = TRUE])
    BY <1>6, PendingEffect DEF TypeInv
  <2>2. PICK v : v = [call[e][c] EXCEPT !.offer_pending = TRUE]
    OBVIOUS
  <2>3. v.cancelled = call[e][c].cancelled /\ v.delivery = call[e][c].delivery
    BY <2>2 DEF TypeInv, TypeOK, Invocation
  <2>4. Changed(call, call', e, c, v)
    BY <2>1, <2>2
  <2>5. \A d \in Calls : /\ call'["client"][d].cancelled = call["client"][d].cancelled
                         /\ call'["client"][d].delivery = call["client"][d].delivery
    BY <2>3, <2>4, ClientSame
  <2> QED BY <1>6, <2>5, RoomUnmoved DEF Carried
<1>7. ASSUME NEW c \in Calls, Input(c, "input") \/ Input(c, "finish") \/ SendEvent(c)
      PROVE  Goal
  <2>1. /\ Pending("client", c) \/ Pending("server", c)
        /\ UNCHANGED <<calls, seen, data, early, receiver, worker>>
    BY <1>7 DEF Input, SendEvent
  <2> QED BY <1>6, <2>1 DEF Ends
<1>8. CASE Accept
  <2>1. incoming \in Seq(Calls) /\ incoming # <<>>
    BY <1>8 DEF Accept, TypeInv, TypeOK
  <2>2. PICK c \in Calls : c = Head(incoming)
    BY <2>1
  <2>3. c \in seen["server"]
    BY <2>1, <2>2 DEF Accepted
  <2>4. Keeps(c)
    BY <1>8, <2>2, <2>3, AcceptKeeps, ServerFits
  <2> QED BY <1>1, <2>4
<1>9. ASSUME NEW e \in Ends, ReadOne(e)
      PROVE  Goal
  BY <1>9, ReadRoom
<1>10. ASSUME NEW e \in Ends, NEW c \in Calls, Post(e, c) \/ Receive(e, c)
      PROVE  Goal
  <2>1. CASE Post(e, c)
    BY <1>1, <2>1, PostKeeps, PostFits
  <2>2. CASE Pull(e, c)
    BY <1>1, <2>2, PullKeeps, PullFits
  <2>3. CASE Deliver(e, c)
    BY <1>1, <2>3, DeliverKeeps, DeliverFits
  <2>4. CASE ReceiverThrows(e, c)
    BY <1>1, <2>4, ReceiverThrowsKeeps, ReceiverThrowsFits
  <2> QED BY <1>10, <2>1, <2>2, <2>3, <2>4 DEF Receive
<1>11. ASSUME NEW c \in Calls, SendRequest(c) \/ Call(c) \/ Cancel(c)
      PROVE  Goal
  <2>1. Fitting(c)
    BY <1>11, ClientFits
  <2>2. \A d \in Calls : d # c => Same(d)
    BY <1>11, SendRequestKeeps, CallKeeps, CancelKeeps
  <2> QED BY <1>1, <2>1, <2>2
<1>12. ASSUME NEW c \in Calls, Start(c) \/ CloseInput(c) \/ Complete(c) \/ Join(c)
      PROVE  Goal
  <2>1. Fitting(c)
    BY <1>12, ServerFits
  <2>2. Complete(c) \/ Join(c) => Retired(c)
    BY DEF Complete, Join
  <2>3. \A d \in Calls : d # c => Same(d)
    BY <1>12, <2>2, StartKeeps, CloseInputKeeps, RetireKeeps
  <2> QED BY <1>1, <2>1, <2>3
<1>13. ~Disconnect
  BY DEF Disconnect, Unfailed
<1> HIDE DEF Goal, Keeps
<1>14. CASE Progress
  BY <1>3, <1>4, <1>5, <1>8, <1>9, <1>10, <1>11, <1>12, <1>14 DEF Progress, End, Send
<1>15. CASE Choice
  BY <1>4, <1>7, <1>11, <1>12, <1>13, <1>15 DEF Choice, End
<1> QED BY <1>3, <1>14, <1>15 DEF Next

LEMMA RoomInitially == Init => RoomInv
<1> SUFFICES ASSUME Init
             PROVE  Counted /\ \A c \in Calls : Room(c)
  BY DEF RoomInv
<1>1. /\ "client" \in Ends /\ "server" \in Ends
      /\ \A e \in Ends : calls[e] = {} /\ data[e] = <<>>
      /\ \A c \in Calls : /\ Client(c) = "idle" /\ worker[c] = "none"
                           /\ ~call["client"][c].cancelled /\ call["client"][c].delivery = None
      /\ early = {}
  BY DEF Init, PerEnd, PerCall, Ends, Fresh, NotReceiving, Client
<1>2. Counted
  <2>1. Cardinality({}) = 0 /\ MaxPendingCalls \in Nat /\ Releases \subseteq Calls
    BY FS_EmptySet, SizesAssumption, CallsAssumption
  <2>2. \A e \in Ends : calls[e] \ Releases = {}
    BY <1>1
  <2>3. \A e \in Ends : Cardinality(calls[e] \ Releases) <= MaxPendingCalls
    BY <2>1, <2>2
  <2>4. \A c \in Calls : ~Active(c) /\ ~Executing(c)
    BY <1>1 DEF Active, Executing
  <2> QED BY <2>1, <2>3, <2>4 DEF Counted
<1>3. ASSUME NEW c \in Calls
      PROVE  Room(c)
  <2>1. Carried("server", c) = {}
    BY <1>1 DEF Carried, Of, Frames
  <2> QED BY <1>1, <2>1 DEF Room, Answering
<1> QED BY <1>2, <1>3

-----------------------------------------------------------------------------
(* No error.                                                               *)

\* A cancellation whose request has not come is one of an ordinary call that is
\* outstanding at the client, and so are those that are kept.
LEMMA EarlyHasRoom ==
  ASSUME TypeInv, \A c \in Calls : CallInv(c), Counted, \A c \in Calls : Room(c),
         NEW c \in Calls, Queued("client", "cancel", c), c \notin seen["server"], c \notin early
  PROVE  Cardinality(early) < MaxPendingCalls
<1> DEFINE S == calls["client"] \ Releases
<1>1. "client" \in Ends /\ "server" \in Ends
  BY DEF Ends
<1>2. ASSUME NEW d \in Calls, d \in early \/ d = c
      PROVE  d \in S
  <2>1. call["client"][d].cancelled /\ d \notin seen["server"]
    BY <1>2 DEF CallInv, Cancels, Room
  <2>2. d \in Streaming /\ Client(d) \notin {"idle", "delivery", "ended"}
    BY <2>1 DEF Room
  <2>3. Client(d) \in Receives
    BY <1>1 DEF TypeInv, TypeOK, Client
  <2>4. d \in calls["client"]
    BY <2>2, <2>3 DEF CallInv, ClientSide, Client, Receives
  <2> QED BY <2>2, <2>4, CallsAssumption
<1>3. early \subseteq Calls /\ S \in SUBSET Calls /\ Cardinality(S) <= MaxPendingCalls
  BY <1>1 DEF TypeInv, TypeOK, Counted
<1> HIDE DEF S
<1>4. early \subseteq S \ {c} /\ c \in S
  BY <1>2, <1>3
<1>5. /\ IsFiniteSet(S) /\ IsFiniteSet(S \ {c})
      /\ Cardinality(S \ {c}) = Cardinality(S) - 1 /\ Cardinality(S) \in Nat
  BY <1>3, <1>4, CallsAssumption, FS_Subset, FS_RemoveElement, FS_CardinalityType
<1>6. Cardinality(early) <= Cardinality(S \ {c}) /\ Cardinality(early) \in Nat
  BY <1>4, <1>5, FS_Subset, FS_CardinalityType
<1> QED BY <1>3, <1>5, <1>6, SizesAssumption

\* No frame is read as an error; a request may exceed the limit.
LEMMA ReadExpected ==
  ASSUME TypeInv, \A c \in Calls : CallInv(c), Counted, \A c \in Calls : Room(c),
         NEW e \in Ends, ReadOne(e)
  PROVE  UNCHANGED failure \/ Fail("limit")
<1> DEFINE w == Other(e)
<1>1. PICK f : f = Head(NextFrames(w))
  OBVIOUS
<1>2. /\ NextFrames(w) # <<>> /\ w \in Ends /\ (e = "server" => marking = None)
      /\ w = "client" => e = "server"
      /\ w = "server" => e = "client"
      /\ e = "client" \/ e = "server"
  BY OtherFacts DEF ReadOne, Ends
<1>3. TypeOK /\ Wired
  BY DEF TypeInv
<1>4. /\ f.id \in Calls /\ (f.kind = "request" => w = "client")
      /\ \/ f.kind \in Controls /\ Queued(w, f.kind, f.id)
         \/ f.kind \in Transported /\ f \in Carried(w, f.id)
  BY <1>1, <1>2, <1>3, HeadQueued
<1>5. f.kind = "cancel" => w = "client"
  BY <1>2, <1>3, <1>4 DEF Wired, Queued, Ends, Transported, Messages
<1>6. PICK c \in Calls : c = f.id
  BY <1>4
<1>7. CallInv(c)
  OBVIOUS
<1>8. CASE f.kind = "request" /\ ReadRequest(f.id)
  <2>1. w = "client" /\ e = "server"
    BY <1>2, <1>4, <1>8
  <2>2. c \notin seen["server"]
    BY <1>1, <1>2, <1>6, <1>7, <1>8, <2>1, ReadRequestKeeps
  <2> QED BY <1>6, <1>8, <2>2 DEF ReadRequest, LimitExceeded
<1>9. CASE f.kind # "request" /\ f.id \in calls[e] /\ ReadKnown(e, f)
  <2>1. ~Offending(e, f)
    BY <1>1, <1>2, <1>6, <1>7, <1>9, ReadKnownKeeps
  <2> QED BY <1>9, <2>1 DEF ReadKnown
<1>10. CASE ReadLate(e)
  BY <1>10 DEF ReadLate
<1>11. CASE f.id \notin seen[e] /\ f.kind = "cancel" /\ ReadEarlyCancel(f.id)
  <2>1. w = "client" /\ e = "server"
    BY <1>2, <1>5, <1>11
  <2>2. Cardinality(early) < MaxPendingCalls \/ f.id \in early
    <3>1. Queued("client", "cancel", c)
      BY <1>4, <1>6, <1>11, <2>1 DEF Transported, Messages
    <3> QED BY <1>6, <1>11, <2>1, <3>1, EarlyHasRoom
  <2>3. Cardinality(early) \in Nat /\ MaxPendingCalls \in Nat
    <3>1. early \subseteq Calls
      BY <1>3 DEF TypeOK
    <3> QED BY <3>1, CallsAssumption, SizesAssumption, FS_Subset, FS_CardinalityType
  <2>4. ~(Cardinality(early) >= MaxPendingCalls /\ f.id \notin early)
    BY <2>2, <2>3
  <2> QED BY <1>11, <2>4 DEF ReadEarlyCancel
<1>12. CASE f.kind \notin {"request", "cancel"} /\ f.id \notin calls[e] /\ f.id \notin seen[e]
  \* Then the server has not seen the call, and neither end has anything else of it.
  <2>1. c \notin seen["server"]
    <3>1. CASE e = "server"
      BY <1>6, <1>12, <3>1
    <3>2. CASE e = "client"
      <4>1. receiver["client"][c].step \in {"idle", "request", "waiting", "delivery", "ended"}
        BY <1>3 DEF TypeOK, Receives, Ends
      <4> QED BY <1>6, <1>7, <1>12, <3>2, <4>1 DEF CallInv, ClientSide
    <3> QED BY <1>2, <3>1, <3>2
  <2>2. /\ ~Queued(w, "ready", c) /\ ~Queued(w, "pull", c) /\ ~Sent(w, c) /\ ~Queued("server", "closed", c)
    BY <1>2, <1>7, <2>1 DEF CallInv, Unseen
  <2>3. f.kind = "closed" => w = "server"
    BY <1>2, <1>3, <1>4 DEF Wired, Queued, Ends, Transported, Messages
  <2> QED BY <1>4, <1>6, <1>12, <2>2, <2>3 DEF Controls, Transported, Sent
<1>13. \/ f.kind = "request" /\ ReadRequest(f.id)
       \/ f.kind # "request" /\ f.id \in calls[e] /\ ReadKnown(e, f)
       \/ /\ f.kind # "request" /\ f.id \notin calls[e]
          /\ \/ f.id \in seen[e] /\ ReadLate(e)
             \/ f.id \notin seen[e] /\ f.kind = "cancel" /\ ReadEarlyCancel(f.id)
             \/ f.id \notin seen[e] /\ f.kind # "cancel" /\ ProtocolError
  BY <1>1 DEF ReadOne
<1> QED BY <1>8, <1>9, <1>10, <1>11, <1>12, <1>13

\* The connection fails by Fail alone.
LEMMA FailureStep ==
  ASSUME [Next]_vars
  PROVE  UNCHANGED failure \/ Fail("protocol") \/ Fail("limit") \/ Fail("closed")
<1>1. CASE UNCHANGED vars
  BY <1>1 DEF vars
<1>2. CASE MarkWritten \/ Accept \/ Disconnect
  BY <1>2 DEF MarkWritten, Accept, Disconnect, ProtocolError
<1>3. ASSUME NEW e \in Ends, ReadOne(e)
      PROVE  UNCHANGED failure \/ Fail("protocol") \/ Fail("limit")
  BY <1>3 DEF ReadOne, ReadRequest, LimitExceeded, ReadKnown, ReadLate, ReadEarlyCancel, ProtocolError
<1>4. ASSUME NEW e \in Ends, NEW c \in Calls, Send(e, c) \/ Receive(e, c)
      PROVE  UNCHANGED failure \/ Fail("protocol")
  BY <1>4 DEF Send, Receive, SenderThrows, Post, Pull, Deliver, ReceiverThrows, ProtocolError
<1>5. ASSUME NEW c \in Calls,
             \/ SendRequest(c) \/ QueueCancel(c) \/ RunHook(c) \/ Start(c) \/ End(c) \/ Complete(c) \/ Join(c)
             \/ Call(c) \/ Cancel(c) \/ Input(c, "input") \/ Input(c, "finish") \/ SendEvent(c)
      PROVE  UNCHANGED failure
  BY <1>5 DEF End, SendRequest, QueueCancel, RunHook, Start, CloseInput, CompleteThrows, Complete, Join,
              Call, Cancel, Input, SendEvent
<1> QED BY <1>1, <1>2, <1>3, <1>4, <1>5 DEF Next, Progress, Choice

LEMMA Expected ==
  ASSUME IInv, RoomInv, Orderly, [Next]_vars
  PROVE  Orderly'
<1>1. CASE UNCHANGED failure \/ Fail("limit") \/ Disconnect
  BY <1>1 DEF Orderly, Disconnect, Fail
<1> SUFFICES ASSUME Works
             PROVE  UNCHANGED failure \/ Fail("limit") \/ Disconnect
  BY <1>1, FailureStep DEF Fail
<1>2. TypeInv /\ Counted /\ \A c \in Calls : CallInv(c) /\ Room(c)
  BY DEF IInv, ProtocolInv, RoomInv
<1>3. CASE UNCHANGED vars
  BY <1>3 DEF vars
<1>4. CASE MarkWritten
  <2>1. PICK c \in Calls : c = marking
    BY <1>2, <1>4 DEF MarkWritten, TypeInv, TypeOK
  <2>2. c \in calls["client"]
    BY <1>2, <1>4, <2>1, MarkWrittenKeeps
  <2> QED BY <1>4, <2>1, <2>2 DEF MarkWritten
<1>5. CASE Accept
  BY <1>5 DEF Accept
<1>6. ASSUME NEW e \in Ends, ReadOne(e)
      PROVE  UNCHANGED failure \/ Fail("limit")
  BY <1>2, <1>6, ReadExpected
<1>7. ASSUME NEW e \in Ends, NEW c \in Calls, Send(e, c) \/ Receive(e, c)
      PROVE  UNCHANGED failure
  <2>1. CASE SenderThrows(e, c) \/ Post(e, c) \/ ReceiverThrows(e, c)
    BY <2>1 DEF SenderThrows, Post, ReceiverThrows
  <2>2. CASE Pull(e, c)
    <3>1. ~call[e][c].receive_requested
      BY <1>2, <2>2, PullKeeps
    <3> QED BY <2>2, <3>1 DEF Pull
  <2>3. CASE Deliver(e, c)
    <3>1. Follows(Kept(e, c, call[e][c].delivery), call[e][c].delivery)
      BY <1>2, <2>3, DeliverKeeps
    <3> QED BY <2>3, <3>1 DEF Deliver
  <2> QED BY <1>7, <2>1, <2>2, <2>3 DEF Send, Receive
<1>8. ASSUME NEW c \in Calls,
             \/ SendRequest(c) \/ QueueCancel(c) \/ RunHook(c) \/ Start(c) \/ End(c) \/ Complete(c) \/ Join(c)
             \/ Call(c) \/ Cancel(c) \/ Input(c, "input") \/ Input(c, "finish") \/ SendEvent(c)
      PROVE  UNCHANGED failure
  BY <1>8 DEF End, SendRequest, QueueCancel, RunHook, Start, CloseInput, CompleteThrows, Complete, Join,
              Call, Cancel, Input, SendEvent
<1> QED BY <1>3, <1>4, <1>5, <1>6, <1>7, <1>8 DEF Next, Progress, Choice

\* The calls that Accept has not returned are known,
LEMMA AcceptedKept ==
  ASSUME TypeInv, Accepted, Unfailed, [Next]_vars
  PROVE  Accepted'
<1> DEFINE Seen == seen["server"]
<1>1. incoming \in Seq(Calls) /\ "server" \in Ends /\ seen \in [Ends -> SUBSET Calls]
  BY DEF TypeInv, TypeOK, Ends
<1>2. CASE UNCHANGED <<incoming, seen>>
  BY <1>2 DEF Accepted
<1>3. ASSUME NEW e \in Ends, NEW c \in Calls, UNCHANGED incoming, seen' = [seen EXCEPT ![e] = @ \cup {c}]
      PROVE  Accepted'
  BY <1>1, <1>3 DEF Accepted
<1>4. CASE Accept
  <2>1. incoming' = Tail(incoming) /\ incoming # <<>> /\ UNCHANGED seen
    BY <1>4 DEF Accept
  <2>2. Len(incoming') = Len(incoming) - 1 /\ Len(incoming) \in Nat
    BY <1>1, <2>1
  <2>3. \A n \in 1 .. Len(incoming') : incoming'[n] = incoming[n + 1] /\ n + 1 \in 1 .. Len(incoming)
    BY <1>1, <2>1, <2>2
  <2> QED BY <2>1, <2>3 DEF Accepted
<1>5. ASSUME NEW e \in Ends, ReadOne(e)
      PROVE  Accepted'
  <2>1. PICK f \in Frame : f = Head(NextFrames(Other(e)))
    BY <1>5, HeadFrame, OtherFacts DEF ReadOne, TypeInv
  <2>2. CASE ReadRequest(f.id)
    <3>1. PICK c \in Calls : c = f.id
      BY <2>1 DEF Frame
    <3>2. incoming' = Append(incoming, c) /\ seen'["server"] = seen["server"] \cup {c}
      BY <1>1, <2>2, <3>1 DEF ReadRequest, LimitExceeded, ProtocolError, Unfailed
    <3>3. /\ Len(incoming') = Len(incoming) + 1 /\ Len(incoming) \in Nat /\ incoming'[Len(incoming) + 1] = c
          /\ \A n \in 1 .. Len(incoming) : incoming'[n] = incoming[n]
      BY <1>1, <3>2
    <3>4. \A n \in 1 .. Len(incoming') : n \in 1 .. Len(incoming) \/ n = Len(incoming) + 1
      BY <3>3
    <3> QED BY <3>2, <3>3, <3>4 DEF Accepted
  <2>3. CASE ReadEarlyCancel(f.id) \/ ReadKnown(e, f) \/ ReadLate(e)
    BY <1>2, <2>3 DEF ReadEarlyCancel, ReadKnown, ReadLate, ProtocolError, Unfailed
  <2> QED BY <1>5, <2>1, <2>2, <2>3 DEF ReadOne, ProtocolError, Unfailed
<1>6. ASSUME NEW e \in Ends, NEW c \in Calls, Send(e, c) \/ Receive(e, c)
      PROVE  Accepted'
  <2>1. CASE SenderThrows(e, c) \/ Post(e, c) \/ Pull(e, c) \/ ReceiverThrows(e, c)
    BY <1>2, <2>1 DEF SenderThrows, Post, Pull, ReceiverThrows, ProtocolError, Unfailed
  <2>2. CASE Deliver(e, c)
    <3>1. UNCHANGED incoming /\ (UNCHANGED seen \/ seen' = [seen EXCEPT ![e] = @ \cup {c}])
      BY <2>2 DEF Deliver, ProtocolError, Unfailed
    <3> QED BY <1>2, <1>3, <3>1
  <2> QED BY <1>6, <2>1, <2>2 DEF Send, Receive
<1>7. ASSUME NEW c \in Calls, Complete(c) \/ Join(c)
      PROVE  Accepted'
  BY <1>1, <1>3, <1>7 DEF Complete, Join, Retired
<1>8. ASSUME NEW c \in Calls,
             \/ SendRequest(c) \/ QueueCancel(c) \/ RunHook(c) \/ Start(c) \/ End(c)
             \/ Call(c) \/ Cancel(c) \/ Input(c, "input") \/ Input(c, "finish") \/ SendEvent(c)
      PROVE  Accepted'
  BY <1>2, <1>8 DEF End, SendRequest, QueueCancel, RunHook, Start, CloseInput, CompleteThrows,
                    Call, Cancel, Input, SendEvent
<1>9. CASE UNCHANGED vars \/ MarkWritten
  BY <1>2, <1>9 DEF vars, MarkWritten, ProtocolError, Unfailed
<1>10. ~Disconnect
  BY DEF Disconnect, Unfailed
<1> QED BY <1>4, <1>5, <1>6, <1>7, <1>8, <1>9, <1>10 DEF Next, Progress, Choice

\* A connection that works has worked so far.
LEMMA WorkedBefore ==
  ASSUME [Next]_vars, Works'
  PROVE  Works /\ Unfailed
<1>1. Unfailed
  BY DEF Unfailed, Fail, Works
<1>2. UNCHANGED failure
  BY <1>1, FailureStep DEF Unfailed
<1> QED BY <1>1, <1>2 DEF Works

LEMMA Initially == Init => IInv /\ Orderly
<1> SUFFICES ASSUME Init
             PROVE  Accepted /\ Orderly /\ \A c \in Calls : CallInv(c)
  BY InitTyped DEF IInv, ProtocolInv
<1>1. Accepted /\ Orderly
  BY DEF Init, Accepted, Orderly
<1>2. ASSUME NEW c \in Calls
      PROVE  CallInv(c)
  <2>1. /\ "client" \in Ends /\ "server" \in Ends /\ \A x \in Ends : x = "client" \/ x = "server"
        /\ Other("client") = "server" /\ Other("server") = "client" /\ \A x \in Ends : Other(x) \in Ends
    BY OtherFacts DEF Ends
  <2>2. /\ \A x \in Ends : Len(controls[x]) = 0 /\ Len(data[x]) = 0
        /\ calls["client"] = {} /\ calls["server"] = {} /\ seen["client"] = {} /\ seen["server"] = {}
        /\ written = {} /\ early = {} /\ marking = None /\ worker[c] = "none" /\ canceller[c] = "idle"
        /\ \A x \in Ends : call[x][c] = Fresh /\ sender[x][c] = NotSending /\ receiver[x][c] = NotReceiving
    BY <2>1 DEF Init, PerEnd, PerCall
  <2>3. \A x \in Ends : /\ Of(controls[x], c) = {} /\ Carried(x, c) = {}
                        /\ ControlsOnce(x, c) /\ DataOnce(x, c)
    BY <2>2 DEF Of, Frames, Carried, ControlsOnce, DataOnce, Once
  <2>4. \A x \in Ends : ~Sent(x, c) /\ ~Requested(c) /\ \A j : ~Queued(x, j, c)
    BY <2>1, <2>3 DEF Sent, Requested, Queued
  <2>5. Single(c) /\ Offered(c) /\ Permitted(c) /\ Waits(c)
    BY <2>1, <2>2, <2>3, <2>4 DEF Single, Offered, OfferedAt, Permitted, PermittedAt, Waits, AtMostOne, Fresh
  <2>6. ClientSide(c) /\ ServerSide(c)
    BY <2>1, <2>2, <2>4 DEF ClientSide, ServerSide, Fresh, NotReceiving, NotSending
  <2>7. Unseen(c) /\ Marked(c) /\ Cancels(c) /\ Directed(c)
    BY <2>1, <2>2, <2>3, <2>4, CallsAssumption DEF Unseen, Marked, Cancels, Directed, Fresh, NotSending
  <2>8. Sequenced(c)
    BY <2>1, <2>2, <2>3, <2>4 DEF Sequenced, SequencedFrom, Goes, Fresh, NotSending, NotReceiving
  <2> QED BY <2>5, <2>6, <2>7, <2>8 DEF CallInv
<1> QED BY <1>1, <1>2

LEMMA Inductive == IInv /\ [Next]_vars => IInv'
<1> SUFFICES ASSUME IInv, [Next]_vars
             PROVE  IInv'
  OBVIOUS
<1>1. TypeInv'
  BY NextTyped DEF IInv
<1>2. ASSUME Works'
      PROVE  Accepted' /\ \A c \in Calls : CallInv(c)'
  <2>1. Works /\ Unfailed
    BY <1>2, WorkedBefore
  <2>2. TypeInv /\ Accepted /\ \A c \in Calls : CallInv(c)
    BY <2>1 DEF IInv, ProtocolInv
  <2> QED BY <2>1, <2>2, AcceptedKept, CallsKept
<1> QED BY <1>1, <1>2 DEF IInv, ProtocolInv

LEMMA RoomInductive == IInv /\ RoomInv /\ [Next]_vars => RoomInv'
<1> SUFFICES ASSUME IInv, RoomInv, [Next]_vars, Works'
             PROVE  Counted' /\ \A c \in Calls : Room(c)'
  BY DEF RoomInv
<1>1. Works /\ Unfailed
  BY WorkedBefore
<1>2. TypeInv /\ Accepted /\ Counted /\ \A c \in Calls : CallInv(c) /\ Room(c)
  BY <1>1 DEF IInv, ProtocolInv, RoomInv
<1>3. TypeOK'
  BY <1>2, NextTyped DEF TypeInv
<1> QED BY <1>1, <1>2, <1>3, RoomStep

\* Before the request of a release is read at most one other release is left at
\* the server: the client has its result, so it is being completed there.
LEMMA Fit == IInv /\ RoomInv => ReleasesFit
<1> SUFFICES ASSUME IInv, RoomInv, Works, NextFrames("client") # <<>>,
                    NEW f, f = Head(NextFrames("client")), f.kind = "request", f.id \in Releases
             PROVE  ~Crowded(f.id)
  BY DEF ReleasesFit
<1>1. TypeOK /\ Wired /\ "client" \in Ends /\ "server" \in Ends /\ MaxPendingCalls \in Nat
  BY SizesAssumption DEF IInv, TypeInv, Ends
<1>2. PICK c \in Releases : c = f.id
  OBVIOUS
<1>3. c \in Calls /\ Releases \subseteq Calls /\ Counted /\ \A d \in Calls : CallInv(d) /\ Room(d)
  BY CallsAssumption DEF IInv, ProtocolInv, RoomInv
<1>4. f \in Carried("client", c)
  BY <1>1, <1>2, HeadQueued DEF Controls
<1>5. Active(c) /\ c \notin calls["server"]
  BY <1>3, <1>4 DEF CallInv, ClientSide, ServerSide, Requested, Active, Client
<1>6. ASSUME NEW q \in Releases, q \in calls["server"]
      PROVE  Executing(q)
  <2>1. Client(q) \in {"waiting", "delivery", "ended"} /\ worker[q] # "ended"
    BY <1>3, <1>6 DEF CallInv, ClientSide, ServerSide, Client
  <2>2. Client(q) = "ended"
    BY <1>3, <1>5, <1>6, <2>1 DEF Counted, Active
  <2>3. Finishing(q)
    BY <1>3, <2>2 DEF Room, Answering
  <2> QED BY <2>1, <2>3 DEF Finishing, Executing
<1> DEFINE S == calls["server"] \ Releases
<1>7. PICK d \in Calls : calls["server"] \subseteq S \cup {d}
  <2>1. CASE calls["server"] \cap Releases = {}
    BY <1>3, <2>1
  <2>2. CASE calls["server"] \cap Releases # {}
    <3>1. PICK q \in Releases : q \in calls["server"]
      BY <2>2
    <3>2. calls["server"] \cap Releases \subseteq {q}
      BY <1>3, <1>6, <3>1 DEF Counted
    <3> QED BY <1>3, <3>2
  <2> QED BY <2>1, <2>2
<1>8. Cardinality(S) <= MaxPendingCalls
  BY <1>1, <1>3 DEF Counted
<1>9. /\ Cardinality(calls["server"]) \in Nat /\ Cardinality(S) \in Nat
      /\ Cardinality(calls["server"]) <= Cardinality(S) + 1
  <2>1. calls["server"] \in SUBSET Calls /\ S \in SUBSET Calls
    BY <1>1 DEF TypeOK
  <2> HIDE DEF S
  <2> QED BY <1>7, <2>1, OneMoreCall
<1>10. Cardinality(calls["server"]) < MaxPendingCalls + 2
  BY <1>1, <1>8, <1>9
<1>11. CallLimit(c) = MaxPendingCalls + 2
  BY <1>1 DEF CallLimit
<1> QED BY <1>1, <1>2, <1>9, <1>10, <1>11 DEF Crowded

(***************************************************************************)
(* Whatever a cancellation, the end of the input or a result crosses on    *)
(* the way, two ends that keep to the protocol do not take each other's    *)
(* frames for an error (State::ReadOne, Receive, Writer), and there is     *)
(* room for every cancellation that comes before its request.  The request *)
(* of a release finds a slot (State::ReadRequest), however many calls are  *)
(* outstanding at the server and although the release before it may not be *)
(* retired.                                                                *)
(***************************************************************************)
THEOREM Protocol == Spec => []NoProtocolError
<1>1. Init => IInv /\ RoomInv /\ Orderly
  BY Initially, RoomInitially
<1>2. IInv /\ [Next]_vars => IInv'
  BY Inductive
<1>3. IInv /\ RoomInv /\ [Next]_vars => RoomInv'
  BY RoomInductive
<1>4. IInv /\ RoomInv /\ Orderly /\ [Next]_vars => Orderly'
  BY Expected
<1>5. IInv /\ RoomInv /\ Orderly => NoProtocolError
  BY Fit DEF NoProtocolError
<1> QED BY <1>1, <1>2, <1>3, <1>4, <1>5, PTL DEF Spec
=============================================================================
