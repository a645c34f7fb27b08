-------------------------- MODULE EventStreamProofs --------------------------
(***************************************************************************)
(* What a client of the event stream sees, for any number of streams and   *)
(* of events, and whatever states the task goes through.                   *)
(***************************************************************************)
EXTENDS EventStream, SequenceTheorems, TLAPS

(* Events are numbered as they are emitted: a log begins with 1, what a    *)
(* stream takes or has written is a stretch of it.                         *)
Numbered(s, k) == s \in Seq(Nat) /\ \A n \in 1 .. Len(s) : s[n] = k + n

LEMMA EmptyNumbered == \A k \in Nat : Numbered(<< >>, k)
  BY EmptySeq DEF Numbered

LEMMA AppendNumbered ==
  ASSUME NEW k \in Nat, NEW s, Numbered(s, k)
  PROVE  /\ Numbered(Append(s, k + Len(s) + 1), k)
         /\ Len(Append(s, k + Len(s) + 1)) = Len(s) + 1
<1>1. Len(s) \in Nat /\ k + Len(s) + 1 \in Nat
  BY LenProperties DEF Numbered
<1> DEFINE x == k + Len(s) + 1
           a == Append(s, x)
<1>2. /\ a \in Seq(Nat) /\ Len(a) = Len(s) + 1 /\ a[Len(s) + 1] = x
      /\ \A n \in 1 .. Len(s) : a[n] = s[n]
  BY <1>1, AppendProperties DEF Numbered
<1> HIDE DEF a
<1>3. Numbered(a, k)
  <2>1. \A n \in 1 .. Len(s) + 1 : a[n] = k + n
    <3> TAKE n \in 1 .. Len(s) + 1
    <3>1. CASE n \in 1 .. Len(s)
      BY <1>2, <3>1 DEF Numbered
    <3>2. CASE n = Len(s) + 1
      BY <1>1, <1>2, <3>2
    <3> QED
      BY <1>1, <3>1, <3>2
  <2> QED
    BY <1>2, <2>1 DEF Numbered
<1>4. Numbered(a, k) /\ Len(a) = Len(s) + 1
  BY <1>2, <1>3
<1> QED
  BY <1>4 DEF a

LEMMA TailNumbered ==
  ASSUME NEW k \in Nat, NEW s, Numbered(s, k), s # << >>
  PROVE  /\ Head(s) = k + 1 /\ Numbered(Tail(s), k + 1)
         /\ Len(s) \in Nat \ {0} /\ Len(Tail(s)) = Len(s) - 1
<1>1. /\ Head(s) = s[1] /\ Tail(s) \in Seq(Nat)
      /\ Len(s) \in Nat \ {0} /\ Len(Tail(s)) = Len(s) - 1
      /\ \A n \in 1 .. Len(Tail(s)) : Tail(s)[n] = s[n + 1]
  BY HeadTailProperties, LenProperties, EmptySeq DEF Numbered
<1> QED
  BY <1>1 DEF Numbered

LEMMA RestNumbered ==
  ASSUME NEW s, Numbered(s, 0), NEW m \in 0 .. Len(s)
  PROVE  /\ Numbered(SubSeq(s, m + 1, Len(s)), m)
         /\ Len(SubSeq(s, m + 1, Len(s))) = Len(s) - m
<1>1. s \in Seq(Nat) /\ Len(s) \in Nat
  BY LenProperties DEF Numbered
<1>2. /\ SubSeq(s, m + 1, Len(s)) \in Seq(Nat)
      /\ Len(SubSeq(s, m + 1, Len(s))) = IF m + 1 <= Len(s) THEN Len(s) - (m + 1) + 1 ELSE 0
      /\ \A n \in 1 .. Len(s) - (m + 1) + 1 : SubSeq(s, m + 1, Len(s))[n] = s[m + 1 + n - 1]
  BY <1>1, SubSeqProperties
<1>3. Len(SubSeq(s, m + 1, Len(s))) = Len(s) - m
  BY <1>1, <1>2
<1> QED
  BY <1>1, <1>2, <1>3 DEF Numbered

LEMMA NumberedPrefix ==
  ASSUME NEW s, NEW t, Numbered(s, 0), Numbered(t, 0), Len(s) <= Len(t)
  PROVE  IsPrefix(s, t) /\ (Len(s) = Len(t) => s = t)
<1>1. s \in Seq(Nat) /\ t \in Seq(Nat) /\ Len(s) \in Nat /\ Len(t) \in Nat
  BY LenProperties DEF Numbered
<1>2. \A n \in 1 .. Len(s) : s[n] = n /\ t[n] = n
  BY <1>1 DEF Numbered
<1>3. SubSeq(s, 1, Len(s)) = SubSeq(t, 1, Len(s))
  BY <1>1, <1>2, SubSeqProperties, SeqEqual
<1>4. Len(s) = Len(t) => s = t
  BY <1>1, <1>2, SeqEqual
<1> QED
  BY <1>3, <1>4 DEF IsPrefix

LEMMA NumberedIs == ASSUME NEW s, Numbered(s, 0) PROVE s = [n \in 1 .. Len(s) |-> n]
<1>1. s \in Seq(Nat) /\ Len(s) \in Nat
  BY LenProperties DEF Numbered
<1>2. \A n \in 1 .. Len(s) : s[n] = n
  BY <1>1 DEF Numbered
<1> QED
  BY <1>1, <1>2, LenProperties

-----------------------------------------------------------------------------
(* The inductive invariant.                                                *)

Pcs == {"off", "loop", "ending", "waiting", "closing", "keepalive", "write", "ended", "gone"}

Shape ==
  /\ state \in State /\ hung \subseteq Stream /\ stalled \subseteq Stream
  /\ Numbered(log, 0) /\ Len(log) <= MaxEvents
  /\ pc \in [Stream -> Pcs] /\ idx \in [Stream -> Nat]
  /\ batch \in [Stream -> Seq(Nat)] /\ sent \in [Stream -> Seq(Nat)]

\* One stream at a time writes under _cv.
Writing(c) == pc[c] \in {"closing", "keepalive"}
LockInv ==
  /\ cv \subseteq Stream
  /\ \A c \in Stream : c \in cv <=> Writing(c)
  /\ \A c, d \in Stream : Writing(c) /\ Writing(d) => c = d

\* What was written, what is taken and what is left make up the log; nothing
\* can be emitted any more when a stream has decided to close.
CopyInv(c) ==
  /\ idx[c] <= Len(log)
  /\ Numbered(sent[c], 0) /\ Numbered(batch[c], Len(sent[c]))
  /\ Len(sent[c]) + Len(batch[c]) = idx[c]
  /\ pc[c] = "write" => batch[c] # << >>
  /\ pc[c] \notin {"write", "gone"} => batch[c] = << >>
  /\ pc[c] = "closing" => idx[c] = Len(log)

IInv == Shape /\ LockInv /\ \A c \in Stream : CopyInv(c)

LEMMA InitHolds == Init => IInv
<1> SUFFICES ASSUME Init PROVE IInv
  OBVIOUS
<1>1. << >> \in Seq(Nat) /\ Len(<< >>) = 0 /\ Numbered(<< >>, 0)
  BY EmptySeq, EmptyNumbered
<1>2. Shape
  BY <1>1, EventAssumption DEF Init, Shape, Pcs
<1>3. LockInv
  BY DEF Init, LockInv, Writing
<1>4. \A c \in Stream : CopyInv(c)
  BY <1>1 DEF Init, CopyInv
<1> QED
  BY <1>2, <1>3, <1>4 DEF IInv

LEMMA TaskKeeps == ASSUME IInv, Emit \/ (\E s \in State : SetState(s)) PROVE IInv'
<1> USE DEF IInv, streams
<1>1. CASE Emit
  <2>1. Len(log) \in Nat /\ log' = Append(log, 0 + Len(log) + 1)
    BY <1>1, LenProperties DEF Emit, Shape, Numbered
  <2>2. Numbered(log', 0) /\ Len(log') = Len(log) + 1
    BY <2>1, AppendNumbered DEF Shape
  <2>3. Len(log') <= MaxEvents
    BY <1>1, <2>1, <2>2, EventAssumption DEF Emit
  <2>4. Shape' /\ LockInv'
    BY <1>1, <2>2, <2>3 DEF Emit, Shape, LockInv, Writing
  <2>5. ASSUME NEW c \in Stream PROVE CopyInv(c)'
    <3>1. pc[c] # "closing"
      BY <1>1 DEF Emit, LockInv, Writing
    <3>2. idx[c] \in Nat
      BY DEF Shape
    <3>3. UNCHANGED <<pc, idx, batch, sent>>
      BY <1>1 DEF Emit
    <3>4. idx[c] <= Len(log) /\ Len(log) \in Nat /\ Len(log') = Len(log) + 1
      BY <2>1, <2>2 DEF CopyInv
    <3>5. idx'[c] <= Len(log')
      BY <3>2, <3>3, <3>4
    <3> QED
      BY <3>1, <3>3, <3>5 DEF CopyInv
  <2> QED
    BY <2>4, <2>5
<1>2. CASE \E s \in State : SetState(s)
  BY <1>2 DEF SetState, Shape, LockInv, Writing, CopyInv
<1> QED
  BY <1>1, <1>2

\* Only the stream that moves changes.
LEMMA OneMoves ==
  ASSUME IInv, NEW c \in Stream, Connect(c) \/ HangUp(c) \/ Stall(c) \/ StreamStep(c)
  PROVE  /\ UNCHANGED <<state, log>> /\ hung' \subseteq Stream /\ stalled' \subseteq Stream
         /\ \A d \in Stream \ {c} :
              /\ pc'[d] = pc[d] /\ idx'[d] = idx[d]
              /\ batch'[d] = batch[d] /\ sent'[d] = sent[d]
  BY DEF IInv, Shape, Connect, HangUp, Stall, StreamStep, Look, WakeEnding, Wake, Keepalive, Close,
    Write, Broken, Take, Wait, Goto, streams

LEMMA LockKept ==
  ASSUME IInv, NEW c \in Stream, Connect(c) \/ HangUp(c) \/ Stall(c) \/ StreamStep(c)
  PROVE  LockInv' /\ pc' \in [Stream -> Pcs]
<1> USE DEF IInv, LockInv, Writing, Goto, Pcs
<1>0. pc \in [Stream -> Pcs]
  BY DEF Shape
<1>1. CASE Connect(c) \/ HangUp(c) \/ Stall(c) \/ Look(c) \/ Write(c)
  BY <1>0, <1>1 DEF Connect, HangUp, Stall, Look, Take, Wait, Write, streams
<1>2. CASE WakeEnding(c) \/ Wake(c)
  BY <1>0, <1>2 DEF WakeEnding, Wake, Take
<1>3. CASE Keepalive(c) \/ Close(c) \/ Broken(c)
  BY <1>0, <1>3 DEF Keepalive, Close, Broken, Wait
<1> QED
  BY <1>1, <1>2, <1>3 DEF StreamStep

LEMMA TakeKeeps ==
  ASSUME IInv, NEW c \in Stream, Take(c), Behind(c), batch[c] = << >>,
         UNCHANGED <<log, sent>>
  PROVE  /\ idx' \in [Stream -> Nat] /\ batch' \in [Stream -> Seq(Nat)]
         /\ CopyInv(c)'
<1> DEFINE rest == SubSeq(log, idx[c] + 1, Len(log))
<1>1. /\ Numbered(log, 0) /\ Len(log) \in Nat /\ idx[c] \in 0 .. Len(log)
      /\ Len(batch[c]) = 0 /\ Len(sent[c]) \in Nat
  BY LenProperties, EmptySeq DEF IInv, Shape, CopyInv, Numbered
<1>2. Len(sent[c]) = idx[c]
  <2>1. Len(sent[c]) + Len(batch[c]) = idx[c]
    BY DEF IInv, CopyInv
  <2> QED
    BY <1>1, <2>1
<1>3. Numbered(rest, idx[c]) /\ Len(rest) = Len(log) - idx[c] /\ rest # << >>
  <2>1. Numbered(rest, idx[c]) /\ Len(rest) = Len(log) - idx[c]
    BY <1>1, RestNumbered
  <2>2. Len(rest) # 0
    BY <1>1, <2>1 DEF Behind
  <2>3. Len(<< >>) = 0
    BY EmptySeq
  <2> QED
    BY <2>1, <2>2, <2>3
<1> HIDE DEF rest
<1>4. /\ batch' = [batch EXCEPT ![c] = rest] /\ idx' = [idx EXCEPT ![c] = Len(log)]
      /\ pc' = [pc EXCEPT ![c] = "write"]
  BY DEF Take, Goto, rest
<1>5. idx' \in [Stream -> Nat] /\ batch' \in [Stream -> Seq(Nat)]
  BY <1>1, <1>3, <1>4 DEF IInv, Shape, Numbered
<1>6. batch'[c] = rest /\ idx'[c] = Len(log) /\ pc'[c] = "write"
  BY <1>4 DEF IInv, Shape
<1>7. Numbered(sent[c], 0)
  BY DEF IInv, CopyInv
<1> QED
  BY <1>1, <1>2, <1>3, <1>5, <1>6, <1>7 DEF CopyInv

LEMMA WriteKeeps ==
  ASSUME IInv, NEW c \in Stream, Write(c)
  PROVE  /\ sent' \in [Stream -> Seq(Nat)] /\ batch' \in [Stream -> Seq(Nat)]
         /\ CopyInv(c)'
<1> DEFINE s == sent[c]
           b == batch[c]
<1>1. /\ Numbered(s, 0) /\ Numbered(b, Len(s)) /\ Len(s) \in Nat /\ b # << >>
      /\ Len(s) + Len(b) = idx[c] /\ idx[c] <= Len(log) /\ idx[c] \in Nat
  BY LenProperties DEF IInv, Shape, CopyInv, Write, Numbered
<1>2. /\ Head(b) = Len(s) + 1 /\ Numbered(Tail(b), Len(s) + 1)
      /\ Len(b) \in Nat \ {0} /\ Len(Tail(b)) = Len(b) - 1
  BY <1>1, TailNumbered
<1>3. Numbered(Append(s, Head(b)), 0) /\ Len(Append(s, Head(b))) = Len(s) + 1
  <2>1. Head(b) = 0 + Len(s) + 1
    BY <1>1, <1>2
  <2> QED
    BY <1>1, <2>1, AppendNumbered
<1>4. Tail(b) = << >> <=> Len(b) = 1
  <2>1. /\ Len(<< >>) = 0
        /\ Tail(b) # << >> => Len(Tail(b)) # 0
    BY <1>2, EmptySeq DEF Numbered
  <2>2. Tail(b) = << >> <=> Len(Tail(b)) = 0
    BY <2>1
  <2>3. Len(Tail(b)) = 0 <=> Len(b) = 1
    BY <1>2
  <2> QED
    BY <2>2, <2>3
<1>5. /\ sent' = [sent EXCEPT ![c] = Append(s, Head(b))]
      /\ batch' = [batch EXCEPT ![c] = Tail(b)]
      /\ pc' = [pc EXCEPT ![c] = IF Len(b) = 1 THEN "loop" ELSE "write"]
      /\ UNCHANGED <<log, idx>>
  BY DEF Write, Goto
<1>6. sent' \in [Stream -> Seq(Nat)] /\ batch' \in [Stream -> Seq(Nat)]
  BY <1>2, <1>3, <1>5 DEF IInv, Shape, Numbered
<1>7. /\ sent'[c] = Append(s, Head(b)) /\ batch'[c] = Tail(b)
      /\ pc'[c] = IF Len(b) = 1 THEN "loop" ELSE "write"
  BY <1>5 DEF IInv, Shape
<1> HIDE DEF s, b
<1>8. /\ Numbered(sent'[c], 0) /\ Numbered(batch'[c], Len(sent'[c]))
      /\ Len(sent'[c]) + Len(batch'[c]) = idx[c]
  BY <1>1, <1>2, <1>3, <1>7
<1> QED
  BY <1>1, <1>4, <1>5, <1>6, <1>7, <1>8 DEF CopyInv

LEMMA StreamKeeps ==
  ASSUME IInv, NEW c \in Stream, Connect(c) \/ HangUp(c) \/ Stall(c) \/ StreamStep(c)
  PROVE  IInv'
<1>0. LockInv' /\ pc' \in [Stream -> Pcs]
  BY LockKept
<1> DEFINE Typed == idx' \in [Stream -> Nat] /\ batch' \in [Stream -> Seq(Nat)]
                      /\ sent' \in [Stream -> Seq(Nat)]
<1>1. Typed /\ CopyInv(c)'
  <2>1. CASE Write(c)
    BY <2>1, WriteKeeps DEF Write, IInv, Shape
  <2>2. CASE Look(c)
    <3>1. CASE Behind(c)
      BY <2>2, <3>1, TakeKeeps DEF Look, IInv, Shape, CopyInv
    <3>2. CASE ~Behind(c)
      BY <2>2, <3>2 DEF Look, Wait, Goto, IInv, Shape, CopyInv
    <3> QED
      BY <3>1, <3>2
  <2>3. CASE Wake(c)
    <3>1. CASE Behind(c)
      BY <2>3, <3>1, TakeKeeps DEF Wake, IInv, Shape, CopyInv
    <3>2. CASE ~Behind(c)
      BY <2>3, <3>2 DEF Wake, Goto, IInv, Shape, CopyInv
    <3> QED
      BY <3>1, <3>2
  <2>4. CASE WakeEnding(c)
    <3>1. ~Behind(c) => idx[c] = Len(log)
      BY LenProperties DEF Behind, IInv, Shape, CopyInv, Numbered
    <3> QED
      BY <2>4, <3>1 DEF WakeEnding, Goto, IInv, Shape, CopyInv
  <2>5. CASE Connect(c) \/ HangUp(c) \/ Stall(c)
    BY <2>5 DEF Connect, HangUp, Stall, Goto, streams, IInv, Shape, CopyInv
  <2>6. CASE Keepalive(c) \/ Close(c) \/ Broken(c)
    BY <2>6 DEF Keepalive, Close, Broken, Wait, Goto, IInv, Shape, CopyInv
  <2> QED
    BY <2>1, <2>2, <2>3, <2>4, <2>5, <2>6 DEF StreamStep
<1>2. Shape'
  BY <1>0, <1>1, OneMoves DEF IInv, Shape
<1>3. ASSUME NEW d \in Stream \ {c} PROVE CopyInv(d)'
  BY <1>3, OneMoves DEF IInv, CopyInv
<1> QED
  BY <1>0, <1>1, <1>2, <1>3 DEF IInv
-----------------------------------------------------------------------------
(* What a stream has written and will write is the log, for ever.          *)
THEOREM Invariant == Spec => []IInv
<1>1. IInv /\ [Next]_vars => IInv'
  <2> SUFFICES ASSUME IInv, [Next]_vars PROVE IInv'
    OBVIOUS
  <2>1. CASE Emit \/ \E s \in State : SetState(s)
    BY <2>1, TaskKeeps
  <2>2. CASE \E c \in Stream : Connect(c) \/ HangUp(c) \/ Stall(c) \/ StreamStep(c)
    BY <2>2, StreamKeeps
  <2>3. CASE UNCHANGED vars
    BY <2>3 DEF vars, streams, IInv, Shape, LockInv, Writing, CopyInv
  <2> QED
    BY <2>1, <2>2, <2>3 DEF Next
<1> QED
  BY InitHolds, <1>1, PTL DEF Spec

(* The type invariant: _cv is held by whoever writes under it.             *)
THEOREM TypeCorrect == Spec => []TypeOK
<1>1. IInv => TypeOK
  <2> SUFFICES ASSUME IInv PROVE TypeOK
    OBVIOUS
  <2>1. log = [n \in 1 .. Len(log) |-> n] /\ Len(log) \in Nat
    BY NumberedIs, LenProperties DEF IInv, Shape, Numbered
  <2>2. \A c \in Stream : idx[c] \in 0 .. Len(log)
    BY <2>1 DEF IInv, Shape, CopyInv
  <2> QED
    BY <2>1, <2>2 DEF IInv, Shape, LockInv, Writing, CopyInv, TypeOK
<1> QED
  BY Invariant, <1>1, PTL

(* What a client has seen is a prefix of the events.                       *)
THEOREM NothingLostOrRepeated == Spec => []SeesPrefix
<1>1. IInv => SeesPrefix
  <2> SUFFICES ASSUME IInv, NEW c \in Stream PROVE IsPrefix(sent[c], log)
    BY DEF SeesPrefix
  <2>1. Len(sent[c]) + Len(batch[c]) = idx[c] /\ idx[c] <= Len(log)
    BY DEF IInv, CopyInv
  <2>2. Len(sent[c]) \in Nat /\ Len(batch[c]) \in Nat /\ idx[c] \in Nat /\ Len(log) \in Nat
    BY LenProperties DEF IInv, Shape, CopyInv, Numbered
  <2>3. Len(sent[c]) <= Len(log)
    <3>1. \A a, b, d, e \in Nat : a + b = d /\ d <= e => a <= e
      OBVIOUS
    <3> QED
      BY <2>1, <2>2, <3>1
  <2>4. Numbered(sent[c], 0) /\ Numbered(log, 0)
    BY DEF IInv, Shape, CopyInv
  <2> QED
    BY <2>3, <2>4, NumberedPrefix
<1> QED
  BY Invariant, <1>1, PTL

(* stream.end comes when everything emitted until then was written.        *)
THEOREM EndIsComplete == Spec => EndsComplete
<1>1. IInv /\ [Next]_vars =>
        [\A c \in Stream : pc[c] # "ended" /\ pc'[c] = "ended" => sent[c] = log]_vars
  <2> SUFFICES ASSUME IInv, [Next]_vars, NEW c \in Stream,
                      pc[c] # "ended", pc'[c] = "ended"
               PROVE  sent[c] = log
    OBVIOUS
  <2>1. Close(c)
    <3>1. ASSUME NEW d \in Stream, Connect(d) \/ HangUp(d) \/ Stall(d) \/ StreamStep(d) PROVE Close(c)
      <4>1. d = c
        BY <3>1, OneMoves
      <4> QED
        BY <3>1, <4>1 DEF Connect, HangUp, Stall, StreamStep, Look, WakeEnding, Wake, Keepalive, Take,
          Wait, Write, Broken, Goto, streams, IInv, Shape
    <3>2. ASSUME Emit \/ (\E s \in State : SetState(s)) \/ UNCHANGED vars PROVE FALSE
      BY <3>2 DEF Emit, SetState, vars, streams
    <3> QED
      BY <3>1, <3>2 DEF Next
  <2>2. /\ Numbered(sent[c], 0) /\ Numbered(log, 0) /\ batch[c] = << >>
        /\ Len(sent[c]) + Len(batch[c]) = Len(log)
    BY <2>1 DEF Close, IInv, Shape, CopyInv
  <2>3. Len(sent[c]) = Len(log)
    BY <2>2, EmptySeq, LenProperties DEF Numbered
  <2>4. Len(sent[c]) \in Nat
    BY <2>2, LenProperties DEF Numbered
  <2> QED
    BY <2>2, <2>3, <2>4, NumberedPrefix
<1> QED
  BY Invariant, <1>1, PTL DEF Spec, EndsComplete
=============================================================================
