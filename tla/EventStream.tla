---------------------------- MODULE EventStream ----------------------------
(***************************************************************************)
(* The events of a task: Runtime.emit appends to a list under the          *)
(* condition _cv, and every GET .../events has a thread in Handler._sse    *)
(* that copies the list to its client. Runtime.state tells it when to end, *)
(* and is neither written nor notified under _cv.                          *)
(***************************************************************************)
EXTENDS Naturals, Sequences, SequencesExt

CONSTANTS
  Stream,     \* requests for the events
  State,      \* values of Runtime.state
  MaxEvents   \* bound: events of the task

ASSUME EventAssumption == MaxEvents \in Nat /\ "RUNNING" \in State

\* mutant: a state is missing from the set.
TerminalForgets ==
  {"VERIFIED", "WAITING_FOR_APPROVAL", "READY_FOR_PROMOTION", "FAILED",
   "DISCARDED", "PROMOTION_REJECTED"}

\* terminal of _sse.
Terminal ==
  {"VERIFIED", "WAITING_FOR_APPROVAL", "READY_FOR_PROMOTION", "FAILED",
   "CANCELLED", "DISCARDED", "PROMOTION_REJECTED"}

VARIABLES
  state,   \* Runtime.state
  log,     \* Runtime.events; events are numbered as they are emitted
  cv,      \* {} or {the stream that writes while it holds _cv}
  pc,      \* where a stream is: "off", "loop", "ending" and "waiting" in the
           \* two waits, "closing" and "keepalive" writing under _cv, "write",
           \* "ended", "gone"
  idx,     \* idx of a stream
  batch,   \* what it has taken and not written yet
  sent,    \* what it has written
  hung,    \* streams whose client has closed the connection
  stalled  \* streams whose client does not read any more

streams == <<cv, pc, idx, batch, sent>>
vars    == <<state, log, hung, stalled, streams>>

Init ==
  /\ state = "RUNNING" /\ log = << >> /\ cv = {} /\ hung = {} /\ stalled = {}
  /\ pc = [c \in Stream |-> "off"] /\ idx = [c \in Stream |-> 0]
  /\ batch = [c \in Stream |-> << >>] /\ sent = [c \in Stream |-> << >>]

Goto(c, p) == pc' = [pc EXCEPT ![c] = p]
Over       == state \in Terminal

\* mutant: off by one.
BehindByTwo(c) == idx[c] + 1 < Len(log)

\* There are events this stream has not taken.
Behind(c) == idx[c] < Len(log)
-----------------------------------------------------------------------------
(* The task.                                                               *)

Emit ==
  /\ cv = {} /\ Len(log) < MaxEvents
  /\ log' = Append(log, Len(log) + 1)
  /\ UNCHANGED <<state, hung, stalled, streams>>

\* Any state may follow any other: even a terminal one is left when a cancel
\* meets FAILED or the worker writes over DISCARDED. Runtime has the details.
SetState(s) ==
  /\ s \in State /\ s # state
  /\ state' = s
  /\ UNCHANGED <<log, hung, stalled, streams>>
-----------------------------------------------------------------------------
(* A stream. Where _cv is taken, it must be free.                          *)

Connect(c) ==
  /\ pc[c] = "off"
  /\ Goto(c, "loop")
  /\ UNCHANGED <<state, log, hung, stalled, cv, idx, batch, sent>>

HangUp(c) ==
  /\ c \notin hung /\ pc[c] # "off"
  /\ hung' = hung \cup {c}
  /\ UNCHANGED <<state, log, stalled, streams>>

\* The client stops reading: what is written may still fit into the buffers.
Stall(c) ==
  /\ c \notin stalled /\ pc[c] # "off"
  /\ stalled' = stalled \cup {c}
  /\ UNCHANGED <<state, log, hung, streams>>

Take(c) ==
  /\ batch' = [batch EXCEPT ![c] = SubSeq(log, idx[c] + 1, Len(log))]
  /\ idx' = [idx EXCEPT ![c] = Len(log)]
  /\ Goto(c, "write")

Wait(c) == Goto(c, IF Over THEN "ending" ELSE "waiting") /\ UNCHANGED <<idx, batch>>

\* The while statement: take what is there, or wait.
Look(c) ==
  /\ pc[c] = "loop" /\ cv = {}
  /\ IF Behind(c) THEN Take(c) ELSE Wait(c)
  /\ UNCHANGED <<state, log, hung, stalled, cv, sent>>

\* mutant: after the first wait the stream ends without looking again.
WakeEndingBlindly(c) ==
  /\ pc[c] = "ending" /\ cv = {}
  /\ Goto(c, "closing") /\ cv' = {c}
  /\ UNCHANGED <<state, log, hung, stalled, idx, batch, sent>>

\* After the first wait: still over, and nothing new? Otherwise wait again.
WakeEnding(c) ==
  /\ pc[c] = "ending" /\ cv = {}
  /\ IF Over /\ ~Behind(c)
     THEN Goto(c, "closing") /\ cv' = {c}
     ELSE Goto(c, "waiting") /\ UNCHANGED cv
  /\ UNCHANGED <<state, log, hung, stalled, idx, batch, sent>>

\* After the second wait.
Wake(c) ==
  /\ pc[c] = "waiting" /\ cv = {}
  /\ IF Behind(c)
     THEN Take(c) /\ UNCHANGED cv
     ELSE Goto(c, "keepalive") /\ cv' = {c} /\ UNCHANGED <<idx, batch>>
  /\ UNCHANGED <<state, log, hung, stalled, sent>>

\* mutant: _cv is kept after a keepalive.
KeepaliveKeeps(c) ==
  /\ pc[c] = "keepalive"
  /\ Wait(c) /\ UNCHANGED cv
  /\ UNCHANGED <<state, log, hung, stalled, sent>>

\* The keepalive is written, and the while statement begins anew.
Keepalive(c) ==
  /\ pc[c] = "keepalive"
  /\ Wait(c) /\ cv' = {}
  /\ UNCHANGED <<state, log, hung, stalled, sent>>

Close(c) ==
  /\ pc[c] = "closing"
  /\ Goto(c, "ended") /\ cv' = {}
  /\ UNCHANGED <<state, log, hung, stalled, idx, batch, sent>>

\* mutant: idx is read again when the batch has been written.
WriteMoves(c) ==
  /\ pc[c] = "write"
  /\ sent' = [sent EXCEPT ![c] = Append(@, Head(batch[c]))]
  /\ batch' = [batch EXCEPT ![c] = Tail(@)]
  /\ idx' = [idx EXCEPT ![c] = Len(log)]
  /\ Goto(c, IF Len(batch[c]) = 1 THEN "loop" ELSE "write")
  /\ UNCHANGED <<state, log, hung, stalled, cv>>

Write(c) ==
  /\ pc[c] = "write"
  /\ sent' = [sent EXCEPT ![c] = Append(@, Head(batch[c]))]
  /\ batch' = [batch EXCEPT ![c] = Tail(@)]
  /\ Goto(c, IF Len(batch[c]) = 1 THEN "loop" ELSE "write")
  /\ UNCHANGED <<state, log, hung, stalled, cv, idx>>

\* A write to a client that has gone may raise. It may also succeed once more.
Broken(c) ==
  /\ pc[c] \in {"write", "keepalive", "closing"} /\ c \in hung
  /\ Goto(c, "gone") /\ cv' = cv \ {c}
  /\ UNCHANGED <<state, log, hung, stalled, idx, batch, sent>>

StreamStep(c) ==
  \/ Look(c) \/ WakeEnding(c) \/ Wake(c)
  \/ Keepalive(c) \/ Close(c) \/ Write(c) \/ Broken(c)

Next ==
  \/ Emit
  \/ \E s \in State : SetState(s)
  \/ \E c \in Stream : Connect(c) \/ HangUp(c) \/ Stall(c) \/ StreamStep(c)

Spec == Init /\ [][Next]_vars

\* Nothing takes the bytes of this stream: a write may block for ever.
Blocked(c) == c \in stalled \ hung /\ pc[c] \in {"write", "keepalive", "closing"}

\* Both waits have timeouts, and a write returns if the client reads or goes.
\* Between two times that another stream holds _cv it waits for half a
\* second, so nobody is starved of it.
FairSpec == Spec /\ \A c \in Stream : SF_vars(~Blocked(c) /\ StreamStep(c))
-----------------------------------------------------------------------------
(* Properties.                                                             *)

Closed(c) == pc[c] \in {"ended", "gone"}

\* A stream that cannot write holds _cv, on which emit and the others wait.
Jammed == \E c \in cv : Blocked(c)

(* Types; _cv is held by a stream exactly while it writes under it, and    *)
(* what is taken and not written is what lies between sent and idx.        *)
TypeOK ==
  /\ state \in State
  /\ log = [n \in 1 .. Len(log) |-> n] /\ Len(log) <= MaxEvents
  /\ \A c \in Stream : c \in cv <=> pc[c] \in {"closing", "keepalive"}
  /\ \A c \in Stream : idx[c] \in 0 .. Len(log)
  /\ \A c \in Stream : Len(sent[c]) + Len(batch[c]) = idx[c]
  /\ hung \subseteq Stream /\ stalled \subseteq Stream

(* What a client has seen is a prefix of the events: none is lost,         *)
(* repeated or out of order, although events go on being emitted while a   *)
(* batch is written without the lock.                                      *)
SeesPrefix == \A c \in Stream : IsPrefix(sent[c], log)

(* stream.end is written only when the client has everything that was      *)
(* emitted until then (service.py:177, the second look).                   *)
EndsComplete ==
  [][\A c \in Stream : pc[c] # "ended" /\ pc'[c] = "ended" => sent[c] = log]_vars

(* Every event reaches every client that goes on reading, or its stream    *)
(* has ended, unless another client has jammed _cv.                        *)
EventsArrive ==
  \A c \in Stream : \A n \in 1 .. MaxEvents :
    (pc[c] # "off" /\ Len(log) >= n)
      ~> (Len(sent[c]) >= n \/ Closed(c) \/ c \in stalled \/ Jammed)

(* The stream of a task that stays cancelled or failed ends, although      *)
(* nobody notifies _cv of the state; clients as above.                     *)
StreamsEnd ==
  \A c \in Stream :
    <>[](pc[c] # "off" /\ state \in {"CANCELLED", "FAILED"})
      => <>(Closed(c) \/ c \in stalled \/ Jammed)

(* emit, which the worker and request_cancel call, is held up for good by  *)
(* one thing only: a client that stopped reading and was sent a keepalive  *)
(* or the end. One that stopped in the middle of the events holds up       *)
(* nobody: a batch is written without _cv.                                 *)
EmitIsServed == []<>(cv = {} \/ Jammed)
=============================================================================
