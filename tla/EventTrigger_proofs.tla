------------------------ MODULE EventTrigger_proofs -------------------------
(***************************************************************************)
(* Proofs about EventTrigger, for every set of recorders that film, every  *)
(* duration, size of the rings and number of events: which clips are open, *)
(* then what the rings hold, and from both what a clip shows.              *)
(***************************************************************************)
EXTENDS EventTrigger, Integers, SequenceTheorems, FiniteSetTheorems, TLAPS

-----------------------------------------------------------------------------
(* The invariant.                                                          *)

\* The types of what the invariant is about.
HandlerOK ==
  /\ writer \in [Recorders -> Events \cup {NoEvent}]
  /\ last \in 0 .. MaxEvents
  /\ pc \in Steps
  /\ rec \in Recorders
  /\ listed \subseteq Events

\* The handler has not yet recorded its event.
Unlisted == {"mkdir", "open", "pre", "publish", "sleep", "stop", "write", "save"}

\* The recorders whose clips the handler has closed: in their order while it
\* stops them, all of them behind that.
Closed ==
  CASE pc = "stop" /\ rec = "front" -> {}
    [] pc = "stop" /\ rec = "rear"  -> {"front"}
    [] pc = "stop" /\ rec = "mic"   -> {"front", "rear"}
    [] pc \in {"write", "save"}     -> Recorders
    [] OTHER                        -> {}

\* Clips and rows belong to events up to the latest; while that one is handled
\* it has no row, and its handler has closed all the clips before it writes it.
OpenInv ==
  /\ HandlerOK
  /\ \A r \in Recorders : writer[r] <= last
  /\ \A e \in listed : e <= last
  /\ pc \in Unlisted => last \in Events /\ last \notin listed
  /\ pc = "sleep" => rec = "front"
  /\ \A r \in Closed : writer[r] = NoEvent
  /\ OpenIsUnlisted

LEMMA NumbersType ==
  /\ MaxEvents \in Nat \ {0}
  /\ Events \subseteq Nat
  /\ \A e \in Events : e > 0
  BY BoundsAssumption DEF Events

LEMMA WriterType == HandlerOK => \A r \in Recorders : writer[r] \in Nat
<1>1. Events \cup {NoEvent} \subseteq Nat
  BY NumbersType DEF NoEvent
<1> QED BY <1>1 DEF HandlerOK

LEMMA OpenInit == Init => OpenInv
  BY NumbersType DEF Init, OpenInv, HandlerOK, Unlisted, Closed, OpenIsUnlisted,
     Recorders, Cameras, Steps, NoEvent

-----------------------------------------------------------------------------
(* Every step preserves it.                                                *)

\* A step that leaves the writers, the rows and the latest event as they are,
\* and goes on in the handler to a place that asks for no more clips closed.
LEMMA OpenKept ==
  ASSUME OpenInv, UNCHANGED <<writer, last, listed>>,
         pc' \in Steps, rec' \in Recorders,
         pc' \in Unlisted => pc \in Unlisted,
         pc' = "sleep" => rec' = "front",
         Closed' \subseteq Closed
  PROVE  OpenInv'
  BY DEF OpenInv, HandlerOK, OpenIsUnlisted

\* The handler goes on to the next recorder or to its sleep.
LEMMA NextStartKept ==
  ASSUME rec \in Recorders, NextStart
  PROVE  /\ pc' \in {"open", "pre", "sleep"}
         /\ rec' \in Recorders
         /\ pc' = "sleep" => rec' = "front"
         /\ Closed' = {}
<1>1. pc' \in {"open", "pre", "sleep"} /\ rec' \in Recorders
  BY DEF NextStart, Entry, Succ, IsLast, Recorders, Cameras
<1>2. pc' = "sleep" => rec' = "front"
  BY DEF NextStart, Entry
<1>3. Closed' = {}
  BY <1>1 DEF Closed
<1> QED BY <1>1, <1>2, <1>3

LEMMA CaptureKeeps == OpenInv /\ CaptureStep => OpenInv'
<1> SUFFICES ASSUME OpenInv, CaptureStep PROVE OpenInv'
  OBVIOUS
<1>1. UNCHANGED <<writer, last, listed, pc, rec>>
  BY DEF CaptureStep, Capture, WriteFrame, CaptureError, CaptureEnds, eventVars
<1> QED BY <1>1, OpenKept DEF OpenInv, HandlerOK, Closed

\* A new event has no clip and no row.
LEMMA TriggerKeeps == OpenInv /\ OnTrigger => OpenInv'
<1> SUFFICES ASSUME OpenInv, OnTrigger PROVE OpenInv'
  OBVIOUS
<1> USE NumbersType DEF OpenInv, OnTrigger
<1>1. last' = last + 1 /\ last' \in Events /\ pc' = "mkdir" /\ rec' = "front"
  BY DEF HandlerOK, Events
<1>2. HandlerOK'
  BY <1>1 DEF HandlerOK, Steps, Recorders, Cameras, Events
<1>3. \A r \in Recorders : writer'[r] <= last'
  <2>1. \A r \in Recorders : writer[r] \in Nat
    BY WriterType
  <2>2. last \in Nat /\ UNCHANGED writer
    BY DEF HandlerOK
  <2> QED BY <1>1, <2>1, <2>2
<1>4. \A e \in listed' : e <= last' /\ e # last'
  BY <1>1 DEF HandlerOK
<1>5. Closed' = {}
  BY <1>1 DEF Closed
<1>6. OpenIsUnlisted'
  BY DEF OpenIsUnlisted
<1> QED BY <1>1, <1>2, <1>3, <1>4, <1>5, <1>6

LEMMA PublishKeeps == OpenInv /\ Publish => OpenInv'
<1> SUFFICES ASSUME OpenInv, Publish PROVE OpenInv'
  OBVIOUS
<1> USE NumbersType DEF OpenInv, Publish, eventVars
<1>1. rec \in Recorders /\ last \in Events /\ last \notin listed
  BY DEF Unlisted, HandlerOK
<1>2. /\ pc' \in {"open", "pre", "sleep"}
      /\ rec' \in Recorders
      /\ pc' = "sleep" => rec' = "front"
      /\ Closed' = {}
  BY <1>1, NextStartKept
<1>3. \A r \in Recorders : writer'[r] = IF r = rec THEN last ELSE writer[r]
  BY DEF HandlerOK
<1>4. HandlerOK'
  BY <1>1, <1>2 DEF HandlerOK, Steps
<1>5. \A r \in Recorders : writer'[r] <= last'
  BY <1>1, <1>3 DEF HandlerOK
<1>6. \A r \in Recorders : \A e \in listed' :
        writer'[r] # NoEvent => writer'[r] > e
  <2> SUFFICES ASSUME NEW r \in Recorders, NEW e \in listed, writer'[r] # NoEvent
               PROVE  writer'[r] > e
    OBVIOUS
  <2>1. e \in Nat /\ e <= last /\ e # last /\ last \in Nat
    BY <1>1 DEF HandlerOK
  <2>2. CASE r = rec
    BY <2>1, <2>2, <1>3
  <2>3. CASE r # rec
    BY <2>3, <1>3 DEF OpenIsUnlisted
  <2> QED BY <2>2, <2>3
<1> QED BY <1>1, <1>2, <1>4, <1>5, <1>6 DEF OpenIsUnlisted

LEMMA StopKeeps == OpenInv /\ StopClip => OpenInv'
<1> SUFFICES ASSUME OpenInv, StopClip PROVE OpenInv'
  OBVIOUS
<1> USE NumbersType DEF OpenInv, StopClip, eventVars
<1>1. rec \in Recorders /\ last \in Events /\ last \notin listed
  BY DEF Unlisted, HandlerOK
<1>2. \A r \in Recorders : writer'[r] = IF r = rec THEN NoEvent ELSE writer[r]
  BY DEF HandlerOK
<1>3. HandlerOK' /\ pc' \in {"stop", "write", "save"}
  <2>1. pc' \in {"stop", "write", "save"} /\ rec' \in Recorders
    BY <1>1 DEF IsLast, Succ, Recorders, Cameras
  <2> QED BY <2>1 DEF HandlerOK, Steps
<1>4. \A r \in Closed' : writer'[r] = NoEvent
  <2>1. Closed' \subseteq Closed \cup {rec}
    BY <1>1 DEF Closed, IsLast, Succ, Recorders, Cameras
  <2>2. Closed' \subseteq Recorders
    BY DEF Closed, Recorders, Cameras
  <2> QED BY <2>1, <2>2, <1>2
<1>5. \A r \in Recorders : writer'[r] <= last'
  BY <1>1, <1>2 DEF HandlerOK, NoEvent
<1>6. OpenIsUnlisted'
  BY <1>2 DEF OpenIsUnlisted
<1> QED BY <1>1, <1>3, <1>4, <1>5, <1>6

\* Every clip is closed when the row is written.
LEMMA SaveKeeps == OpenInv /\ Save => OpenInv'
<1> SUFFICES ASSUME OpenInv, Save PROVE OpenInv'
  OBVIOUS
<1> USE NumbersType DEF OpenInv, Save, eventVars
<1>1. last \in Events
  BY DEF Unlisted
<1>2. Closed = Recorders /\ Closed' = {}
  BY DEF Closed
<1>3. HandlerOK' /\ OpenIsUnlisted'
  BY <1>1, <1>2 DEF HandlerOK, OpenIsUnlisted, Steps
<1>4. \A e \in listed' : e <= last'
  BY <1>1
<1> QED BY <1>2, <1>3, <1>4 DEF Unlisted

LEMMA HandlerKeeps == OpenInv /\ HandlerStep => OpenInv'
<1> SUFFICES ASSUME OpenInv, HandlerStep PROVE OpenInv'
  OBVIOUS
<1>1. rec \in Recorders
  BY DEF OpenInv, HandlerOK
<1>2. CASE MakeDir
  <2>1. pc' \in {"open", "pre"} /\ Closed' = {}
    BY <1>2 DEF MakeDir, Entry, Closed
  <2> QED BY <1>1, <1>2, <2>1, OpenKept DEF MakeDir, Unlisted, Steps, eventVars
<1>3. CASE MakeDirFails \/ Finally
  <2>1. pc' \in {"dead", "idle"} /\ Closed' = {}
    BY <1>3 DEF MakeDirFails, Finally, Closed
  <2> QED BY <1>1, <1>3, <2>1, OpenKept DEF MakeDirFails, Finally, Unlisted,
             Steps, eventVars
<1>4. CASE OpenWriter \/ WritePre
  <2>1. pc' \in {"pre", "publish"} /\ Closed' = {}
    BY <1>4 DEF OpenWriter, WritePre, Closed
  <2> QED BY <1>1, <1>4, <2>1, OpenKept DEF OpenWriter, WritePre, Unlisted,
             Steps, eventVars
<1>5. CASE OpenWriterFails
  <2>1. NextStart
    BY <1>5 DEF OpenWriterFails
  <2> QED BY <1>1, <1>5, <2>1, NextStartKept, OpenKept DEF OpenWriterFails,
             Unlisted, Steps, eventVars
<1>6. CASE Publish
  BY <1>6, PublishKeeps
<1>7. CASE Wake
  <2>1. rec = "front"
    BY <1>7 DEF OpenInv, Wake
  <2>2. Closed' = {}
    BY <1>7, <2>1 DEF Wake, Closed
  <2> QED BY <1>1, <1>7, <2>2, OpenKept DEF Wake, Unlisted, Steps, eventVars
<1>8. CASE StopClip
  BY <1>8, StopKeeps
<1>9. CASE WriteWav
  <2>1. Closed' = Closed
    BY <1>9 DEF WriteWav, Closed
  <2> QED BY <1>1, <1>9, <2>1, OpenKept DEF WriteWav, Unlisted, Steps, eventVars
<1>10. CASE Save
  BY <1>10, SaveKeeps
<1>11. CASE Raise
  <2>1. Closed' = {}
    BY <1>11 DEF Raise, Closed
  <2> QED BY <1>1, <1>11, <2>1, OpenKept DEF Raise, Unlisted, Steps, eventVars
<1> QED BY <1>2, <1>3, <1>4, <1>5, <1>6, <1>7, <1>8, <1>9, <1>10, <1>11
        DEF HandlerStep

LEMMA OpenNext == OpenInv /\ [Next]_vars => OpenInv'
<1> SUFFICES ASSUME OpenInv, [Next]_vars PROVE OpenInv'
  OBVIOUS
<1>1. CASE Tick \/ UNCHANGED vars
  <2>1. UNCHANGED <<writer, last, listed, pc, rec>>
    BY <1>1 DEF Tick, vars, eventVars
  <2> QED BY <2>1, OpenKept DEF OpenInv, HandlerOK, Closed
<1> QED BY <1>1, CaptureKeeps, TriggerKeeps, HandlerKeeps DEF Next

\* What a failed event leaves open never gets into the evidence of a recorded
\* one: every clip that is open is of an event after all that have a row
\* (start_event_clip and stop_event_clip of the recorders, _handle_event).
THEOREM OpenUnlisted == Spec => []OpenIsUnlisted
<1>1. OpenInv => OpenIsUnlisted
  BY DEF OpenInv
<1> QED BY <1>1, OpenInit, OpenNext, PTL DEF Spec

-----------------------------------------------------------------------------
(* Frames in the order of time.                                            *)

Strict(s) == \A i, j \in 1 .. Len(s) : i < j => s[i] < s[j]

EndsAt(s, t) == s # <<>> /\ s[Len(s)] = t

LEMMA NowFrames ==
  /\ RingLen \in Nat \ {0}
  /\ PreSecs \in Nat
  /\ Cooldown \in Nat
  /\ PreSecs < Cooldown
  BY BoundsAssumption, SecsAssumption

LEMMA EmptyStrict == Strict(<<>>) /\ <<>> \in Seq(Nat) /\ Len(<<>>) = 0
  BY EmptySeq DEF Strict

\* What an Append does, in the terms used here.
LEMMA Appended ==
  ASSUME NEW s \in Seq(Nat), NEW f \in Nat
  PROVE  /\ Append(s, f) \in Seq(Nat)
         /\ Len(s) \in Nat
         /\ Len(Append(s, f)) = Len(s) + 1
         /\ \A i \in 1 .. Len(s) + 1 :
              Append(s, f)[i] = IF i = Len(s) + 1 THEN f ELSE s[i]
         /\ EndsAt(Append(s, f), f)
<1>1. Len(s) \in Nat
  BY LenProperties
<1>2. /\ Append(s, f) \in Seq(Nat)
      /\ Append(s, f) # <<>>
      /\ Len(Append(s, f)) = Len(s) + 1
      /\ \A i \in 1 .. Len(s) : Append(s, f)[i] = s[i]
      /\ Append(s, f)[Len(s) + 1] = f
  BY AppendProperties
<1>3. \A i \in 1 .. Len(s) + 1 : i = Len(s) + 1 \/ i \in 1 .. Len(s)
  BY <1>1
<1> QED BY <1>1, <1>2, <1>3 DEF EndsAt

LEMMA AppendStrict ==
  ASSUME NEW s \in Seq(Nat), Strict(s), NEW f \in Nat,
         \A i \in 1 .. Len(s) : s[i] < f
  PROVE  Strict(Append(s, f))
<1>1. /\ Len(s) \in Nat
      /\ Len(Append(s, f)) = Len(s) + 1
      /\ \A i \in 1 .. Len(s) + 1 :
           Append(s, f)[i] = IF i = Len(s) + 1 THEN f ELSE s[i]
  BY Appended
<1>2. ASSUME NEW i \in 1 .. Len(s) + 1, NEW j \in 1 .. Len(s) + 1, i < j
      PROVE  Append(s, f)[i] < Append(s, f)[j]
  <2>1. i \in 1 .. Len(s) /\ (j = Len(s) + 1 \/ j \in 1 .. Len(s))
    BY <1>1, <1>2
  <2> QED BY <1>1, <1>2, <2>1 DEF Strict
<1> QED BY <1>1, <1>2 DEF Strict

\* The end of a sequence, behind its first k elements.
LEMMA Suffix ==
  ASSUME NEW s \in Seq(Nat), Strict(s), NEW k \in 0 .. Len(s)
  PROVE  LET p == SubSeq(s, k + 1, Len(s))
         IN  /\ p \in Seq(Nat)
             /\ Len(p) = Len(s) - k
             /\ \A i \in 1 .. Len(p) : p[i] = s[i + k] /\ i + k \in 1 .. Len(s)
             /\ Strict(p)
<1> DEFINE p == SubSeq(s, k + 1, Len(s))
<1>1. Len(s) \in Nat /\ k \in Nat /\ k <= Len(s)
  BY LenProperties
<1>2. \A i \in k + 1 .. Len(s) : s[i] \in Nat
  BY <1>1, ElementOfSeq
<1>3. /\ p \in Seq(Nat)
      /\ Len(p) = IF k + 1 <= Len(s) THEN Len(s) - (k + 1) + 1 ELSE 0
      /\ \A i \in 1 .. Len(s) - (k + 1) + 1 : p[i] = s[(k + 1) + i - 1]
  BY <1>1, <1>2, SubSeqProperties
<1>4. Len(p) = Len(s) - k
  BY <1>1, <1>3
<1>5. \A i \in 1 .. Len(p) : p[i] = s[i + k] /\ i + k \in 1 .. Len(s)
  <2> SUFFICES ASSUME NEW i \in 1 .. Len(p)
               PROVE  p[i] = s[i + k] /\ i + k \in 1 .. Len(s)
    OBVIOUS
  <2>1. (k + 1) + i - 1 = i + k /\ i \in 1 .. Len(s) - (k + 1) + 1
    BY <1>1, <1>4
  <2> QED BY <1>1, <1>3, <1>4, <2>1
<1>6. Strict(p)
  <2> SUFFICES ASSUME NEW i \in 1 .. Len(p), NEW j \in 1 .. Len(p), i < j
               PROVE  p[i] < p[j]
    BY DEF Strict
  <2>1. i + k < j + k
    BY <1>1, <1>4
  <2> QED BY <1>5, <2>1 DEF Strict
<1> QED BY <1>3, <1>4, <1>5, <1>6

\* A ring drops its oldest frame when it is full.
LEMMA Pushed ==
  ASSUME NEW s \in Seq(Nat), Strict(s), NEW f \in Nat,
         \A i \in 1 .. Len(s) : s[i] < f
  PROVE  /\ Push(s, f) \in Seq(Nat)
         /\ Strict(Push(s, f))
         /\ EndsAt(Push(s, f), f)
         /\ \A i \in 1 .. Len(Push(s, f)) : Push(s, f)[i] <= f
         /\ Len(s) <= RingLen => Len(Push(s, f)) <= RingLen
<1> DEFINE Kept == IF Len(s) < RingLen THEN s ELSE Tail(s)
<1>1. Push(s, f) = Append(Kept, f)
  BY DEF Push
<1>2. /\ Kept \in Seq(Nat)
      /\ Strict(Kept)
      /\ \A i \in 1 .. Len(Kept) : Kept[i] < f
      /\ Len(s) <= RingLen => Len(Kept) + 1 <= RingLen
  <2>1. CASE Len(s) < RingLen
    BY <2>1, NowFrames, LenProperties
  <2>2. CASE ~(Len(s) < RingLen)
    <3>1. Len(s) \in Nat /\ Len(s) >= 1
      BY <2>2, NowFrames, LenProperties
    <3>2. s # <<>>
      BY <3>1, EmptyStrict
    <3>3. Kept = SubSeq(s, 1 + 1, Len(s))
      BY <2>2, <3>2, TailIsSubSeq
    <3>4. 1 \in 0 .. Len(s)
      BY <3>1
    <3> HIDE DEF Kept
    <3>5. /\ Kept \in Seq(Nat)
          /\ Len(Kept) = Len(s) - 1
          /\ \A i \in 1 .. Len(Kept) : Kept[i] = s[i + 1] /\ i + 1 \in 1 .. Len(s)
          /\ Strict(Kept)
      BY <3>3, <3>4, Suffix
    <3>6. Len(s) <= RingLen => Len(Kept) + 1 <= RingLen
      BY <3>1, <3>5, NowFrames
    <3> QED BY <3>5, <3>6
  <2> QED BY <2>1, <2>2
<1> HIDE DEF Kept
<1>3. /\ Append(Kept, f) \in Seq(Nat)
      /\ Len(Kept) \in Nat
      /\ Len(Append(Kept, f)) = Len(Kept) + 1
      /\ \A i \in 1 .. Len(Kept) + 1 :
           Append(Kept, f)[i] = IF i = Len(Kept) + 1 THEN f ELSE Kept[i]
      /\ EndsAt(Append(Kept, f), f)
  BY <1>2, Appended
<1>4. Strict(Append(Kept, f))
  BY <1>2, AppendStrict
<1>5. \A i \in 1 .. Len(Kept) + 1 : Append(Kept, f)[i] <= f
  <2> SUFFICES ASSUME NEW i \in 1 .. Len(Kept) + 1
               PROVE  Append(Kept, f)[i] <= f
    OBVIOUS
  <2>1. i = Len(Kept) + 1 \/ i \in 1 .. Len(Kept)
    BY <1>3
  <2>2. \A j \in 1 .. Len(Kept) : Kept[j] \in Nat
    BY <1>2, ElementOfSeq
  <2> QED BY <1>2, <1>3, <2>1, <2>2
<1>6. Len(s) <= RingLen => Len(Append(Kept, f)) <= RingLen
  BY <1>2, <1>3
<1> QED BY <1>1, <1>3, <1>4, <1>5, <1>6

-----------------------------------------------------------------------------
(* The rings.                                                              *)

\* A ring is in the order of time and not ahead of the clock; the frame that
\* is pushed and not yet written is the last of its ring, of this second.
RingInv ==
  /\ now \in Nat \ {0}
  /\ ring \in [Recorders -> Seq(Nat)]
  /\ hand \in [Recorders -> Nat]
  /\ \A r \in Recorders :
       /\ Strict(ring[r])
       /\ \A i \in 1 .. Len(ring[r]) : ring[r][i] <= now
       /\ Len(ring[r]) <= RingLen
       /\ hand[r] # NoFrame => hand[r] = now /\ EndsAt(ring[r], now)

LEMMA RingInit == Init => RingInv
<1> SUFFICES ASSUME Init PROVE RingInv
  OBVIOUS
<1>1. now = 1 /\ ring = [r \in Recorders |-> <<>>] /\ hand = [r \in Recorders |-> NoFrame]
  BY DEF Init
<1>2. \A r \in Recorders : ring[r] = <<>> /\ hand[r] = NoFrame
  BY <1>1
<1>3. hand \in [Recorders -> Nat]
  BY <1>1 DEF NoFrame
<1>4. ring \in [Recorders -> Seq(Nat)]
  BY <1>1, EmptyStrict
<1>5. \A r \in Recorders : 1 .. Len(ring[r]) = {} /\ Len(ring[r]) <= RingLen
  BY <1>2, EmptyStrict, NowFrames
<1> QED BY <1>1, <1>2, <1>3, <1>4, <1>5, EmptyStrict DEF RingInv

LEMMA RingNext == RingInv /\ [Next]_vars => RingInv'
<1> SUFFICES ASSUME RingInv, [Next]_vars PROVE RingInv'
  OBVIOUS
<1> USE DEF RingInv
<1>1. ASSUME NEW q \in Recorders, Capture(q) PROVE RingInv'
  <2>1. /\ UNCHANGED now
        /\ ring' = [ring EXCEPT ![q] = Push(@, now)]
        /\ hand' = [hand EXCEPT ![q] = now]
    BY <1>1 DEF Capture
  <2>2. ring[q] \in Seq(Nat) /\ \A i \in 1 .. Len(ring[q]) : ring[q][i] < now
    <3>1. ring[q] \in Seq(Nat)
      OBVIOUS
    <3>2. DOMAIN ring[q] = 1 .. Len(ring[q])
      BY <3>1, LenProperties
    <3> QED BY <1>1, <3>1, <3>2 DEF Capture
  <2>3. /\ Push(ring[q], now) \in Seq(Nat)
        /\ Strict(Push(ring[q], now))
        /\ EndsAt(Push(ring[q], now), now)
        /\ \A i \in 1 .. Len(Push(ring[q], now)) : Push(ring[q], now)[i] <= now
        /\ Len(Push(ring[q], now)) <= RingLen
    BY <2>2, Pushed
  <2>4. \A r \in Recorders :
          /\ ring'[r] = IF r = q THEN Push(ring[q], now) ELSE ring[r]
          /\ hand'[r] = IF r = q THEN now ELSE hand[r]
    BY <2>1
  <2>5. ring' \in [Recorders -> Seq(Nat)] /\ hand' \in [Recorders -> Nat]
    BY <2>1, <2>3
  <2> QED BY <2>1, <2>3, <2>4, <2>5
<1>2. ASSUME NEW q \in Recorders, WriteFrame(q) \/ CaptureError(q)
      PROVE  RingInv'
  <2>1. UNCHANGED <<now, ring>> /\ hand' = [hand EXCEPT ![q] = NoFrame]
    BY <1>2 DEF WriteFrame, CaptureError
  <2>2. hand' \in [Recorders -> Nat]
    BY <2>1 DEF NoFrame
  <2>3. \A r \in Recorders : hand'[r] = IF r = q THEN NoFrame ELSE hand[r]
    BY <2>1
  <2> QED BY <2>1, <2>2, <2>3
<1>3. CASE Tick
  <2>1. /\ now' = now + 1
        /\ UNCHANGED <<ring, hand>>
        /\ \A r \in Recorders : hand[r] = NoFrame
    BY <1>3 DEF Tick, captureVars
  <2>2. ASSUME NEW r \in Recorders, NEW i \in 1 .. Len(ring[r])
        PROVE  ring[r][i] <= now + 1
    <3>1. ring[r] \in Seq(Nat)
      OBVIOUS
    <3>2. ring[r][i] \in Nat
      BY <3>1, ElementOfSeq
    <3> QED BY <3>2
  <2> QED BY <2>1, <2>2
<1>4. CASE UNCHANGED <<now, ring, hand>>
  BY <1>4
<1>5. OnTrigger \/ HandlerStep \/ UNCHANGED vars => UNCHANGED <<now, ring, hand>>
  BY DEF OnTrigger, HandlerStep, MakeDir, MakeDirFails, OpenWriter,
     OpenWriterFails, WritePre, Publish, Wake, StopClip, WriteWav, Save, Raise,
     Finally, captureVars, vars
<1>6. \A q \in Recorders : CaptureEnds(q) => UNCHANGED <<now, ring, hand>>
  BY DEF CaptureEnds
<1> QED BY <1>1, <1>2, <1>3, <1>4, <1>5, <1>6 DEF Next, CaptureStep

\* What is too old is the beginning of the ring.
LEMMA OutdatedFirst ==
  ASSUME RingInv, NEW r \in Recorders
  PROVE  /\ Cardinality(Outdated(r)) \in 0 .. Len(ring[r])
         /\ \A i \in 1 .. Len(ring[r]) :
              i > Cardinality(Outdated(r)) => ring[r][i] + PreSecs >= now
<1> DEFINE s == ring[r]
<1>1. s \in Seq(Nat) /\ Strict(s) /\ now \in Nat
  BY DEF RingInv
<1>2. Len(s) \in Nat /\ DOMAIN s = 1 .. Len(s) /\ \A i \in 1 .. Len(s) : s[i] \in Nat
  BY <1>1, LenProperties, ElementOfSeq
<1>3. Outdated(r) = {i \in 1 .. Len(s) : s[i] + PreSecs < now}
  BY <1>2 DEF Outdated
<1> HIDE DEF s
<1>4. \A n \in Nat : IsFiniteSet(1 .. n) /\ Cardinality(1 .. n) = n
  <2> TAKE n \in Nat
  <2>1. /\ IsFiniteSet(1 .. n)
        /\ Cardinality(1 .. n) = IF 1 > n THEN 0 ELSE n - 1 + 1
    BY FS_Interval
  <2> QED BY <2>1
<1>5. /\ IsFiniteSet(Outdated(r))
      /\ Cardinality(Outdated(r)) \in Nat
      /\ Cardinality(Outdated(r)) <= Len(s)
  <2>1. Outdated(r) \subseteq 1 .. Len(s)
    BY <1>3
  <2>2. IsFiniteSet(Outdated(r)) /\ Cardinality(Outdated(r)) <= Cardinality(1 .. Len(s))
    BY <1>2, <1>4, <2>1, FS_Subset
  <2> QED BY <1>2, <1>4, <2>2, FS_CardinalityType
<1>6. ASSUME NEW i \in 1 .. Len(s), i > Cardinality(Outdated(r))
      PROVE  s[i] + PreSecs >= now
  <2> SUFFICES ASSUME s[i] + PreSecs < now PROVE FALSE
    BY <1>1, <1>2, NowFrames
  <2>1. 1 .. i \subseteq Outdated(r)
    <3> SUFFICES ASSUME NEW j \in 1 .. i PROVE j \in Outdated(r)
      OBVIOUS
    <3>1. j \in 1 .. Len(s) /\ (j = i \/ j < i)
      BY <1>2
    <3>2. s[j] <= s[i]
      BY <1>1, <1>2, <3>1 DEF Strict
    <3> QED BY <1>1, <1>2, <1>3, <3>1, <3>2, NowFrames
  <2>2. i \in Nat /\ Cardinality(1 .. i) = i
    BY <1>2, <1>4
  <2>3. Cardinality(1 .. i) <= Cardinality(Outdated(r))
    BY <1>5, <2>1, FS_Subset
  <2> QED BY <1>5, <1>6, <2>2, <2>3
<1> QED BY <1>2, <1>5, <1>6 DEF s

\* What the handler takes of a ring: its end, and of a camera no older than
\* the clip reaches back.
LEMMA PreEventTaken ==
  ASSUME RingInv, NEW r \in Recorders
  PROVE  LET p == PreEvent(r)
         IN  /\ p \in Seq(Nat)
             /\ Strict(p)
             /\ \A i \in 1 .. Len(p) : p[i] <= now
             /\ EndsAt(p, now) => EndsAt(ring[r], now)
             /\ r \in Cameras => \A i \in 1 .. Len(p) : p[i] + PreSecs >= now
<1> DEFINE s == ring[r]
           k == Cardinality(Outdated(r))
           q == SubSeq(s, k + 1, Len(s))
<1>1. s \in Seq(Nat) /\ Strict(s) /\ \A i \in 1 .. Len(s) : s[i] <= now
  BY DEF RingInv
<1>2. /\ k \in 0 .. Len(s)
      /\ \A i \in 1 .. Len(s) : i > k => s[i] + PreSecs >= now
  BY OutdatedFirst
<1>3. PreEvent(r) = IF r \in Cameras THEN q ELSE s
  BY DEF PreEvent
<1>4. Len(s) \in Nat
  BY <1>1, LenProperties
<1> HIDE DEF s, k
<1>5. /\ q \in Seq(Nat)
      /\ Len(q) = Len(s) - k
      /\ \A i \in 1 .. Len(q) : q[i] = s[i + k] /\ i + k \in 1 .. Len(s)
      /\ Strict(q)
  BY <1>1, <1>2, Suffix
<1>6. k \in Nat /\ Len(q) \in Nat
  BY <1>2, <1>4, <1>5
<1> HIDE DEF q
<1>7. \A i \in 1 .. Len(q) : q[i] <= now /\ q[i] + PreSecs >= now
  <2> SUFFICES ASSUME NEW i \in 1 .. Len(q)
               PROVE  q[i] <= now /\ q[i] + PreSecs >= now
    OBVIOUS
  <2>1. i + k > k
    BY <1>6
  <2> QED BY <1>1, <1>2, <1>5, <2>1
<1>8. EndsAt(q, now) => EndsAt(s, now)
  <2> SUFFICES ASSUME EndsAt(q, now) PROVE EndsAt(s, now)
    OBVIOUS
  <2>1. Len(q) # 0
    BY <1>5, EmptySeq, LenProperties, SeqEqual, EmptyStrict DEF EndsAt
  <2>2. Len(q) \in 1 .. Len(q) /\ Len(q) + k = Len(s)
    BY <1>4, <1>5, <1>6, <2>1
  <2>3. s[Len(s)] = now /\ Len(s) # 0
    BY <1>4, <1>5, <2>2 DEF EndsAt
  <2> QED BY <2>3, EmptyStrict DEF EndsAt
<1> QED BY <1>1, <1>3, <1>5, <1>7, <1>8 DEF s

-----------------------------------------------------------------------------
(* What a step does to the clips.                                          *)

ClipType == clip \in [Events -> [Recorders -> Seq(Nat)]]

\* The recorders whose clip the handler has not filled from the ring.
Unfilled ==
  CASE pc = "mkdir"                              -> Recorders
    [] pc \in {"open", "pre"} /\ rec = "front"   -> Recorders
    [] pc \in {"open", "pre"} /\ rec = "rear"    -> {"rear", "mic"}
    [] pc \in {"open", "pre"} /\ rec = "mic"     -> {"mic"}
    [] pc = "publish" /\ rec = "front"           -> {"rear", "mic"}
    [] pc = "publish" /\ rec = "rear"            -> {"mic"}
    [] OTHER                                     -> {}

\* Nothing is in a clip before the handler fills it from the ring, and nobody
\* writes to it before that.
FreshInv ==
  /\ ClipType
  /\ \A e \in Events : e > last => \A r \in Recorders : clip[e][r] = <<>>
  /\ \A r \in Unfilled : clip[last][r] = <<>> /\ writer[r] # last

ClipKept(e, r)     == clip'[e][r] = clip[e][r]
ClipExtended(e, r) ==
  /\ hand[r] # NoFrame
  /\ hand' = [hand EXCEPT ![r] = NoFrame]
  /\ writer[r] = e
  /\ clip'[e][r] = Append(clip[e][r], hand[r])
  /\ UNCHANGED <<now, ring, eventVars, pc, rec, listed>>
ClipFilled(e, r) ==
  /\ pc = "pre"
  /\ pc' = "publish"
  /\ e = last
  /\ r = rec
  /\ clip'[e][r] = clip[e][r] \o PreEvent(r)
  /\ UNCHANGED <<now, ring, hand, eventVars, listed>>

LEMMA ClipStep ==
  ASSUME RingInv, OpenInv, ClipType, [Next]_vars
  PROVE  /\ ClipType'
         /\ \A e \in Events, r \in Recorders :
              ClipKept(e, r) \/ ClipExtended(e, r) \/ ClipFilled(e, r)
<1> USE DEF ClipType
<1>1. CASE UNCHANGED clip
  BY <1>1 DEF ClipKept
<1>2. ASSUME NEW q \in Recorders, WriteFrame(q), writer[q] # NoEvent
      PROVE  /\ ClipType'
             /\ \A e \in Events, r \in Recorders :
                  ClipKept(e, r) \/ ClipExtended(e, r)
  <2>1. /\ clip' = [clip EXCEPT ![writer[q]][q] = Append(@, hand[q])]
        /\ hand[q] # NoFrame
        /\ hand' = [hand EXCEPT ![q] = NoFrame]
        /\ UNCHANGED <<now, ring, eventVars, pc, rec, listed>>
    BY <1>2 DEF WriteFrame
  <2>2. writer[q] \in Events /\ hand[q] \in Nat
    BY <1>2 DEF OpenInv, HandlerOK, RingInv
  <2>3. Append(clip[writer[q]][q], hand[q]) \in Seq(Nat)
    <3>1. clip[writer[q]][q] \in Seq(Nat)
      BY <2>2
    <3> QED BY <2>2, <3>1, Appended
  <2>4. ClipType'
    BY <2>1, <2>2, <2>3
  <2>5. \A e \in Events, r \in Recorders :
          clip'[e][r] = IF e = writer[q] /\ r = q THEN Append(clip[e][r], hand[q])
                        ELSE clip[e][r]
    BY <2>1, <2>2
  <2> QED BY <2>1, <2>4, <2>5 DEF ClipKept, ClipExtended
<1>3. CASE WritePre
  <2>1. /\ clip' = [clip EXCEPT ![last][rec] = @ \o PreEvent(rec)]
        /\ pc = "pre"
        /\ pc' = "publish"
        /\ UNCHANGED <<now, ring, hand, eventVars, listed>>
    BY <1>3 DEF WritePre, captureVars
  <2>2. last \in Events /\ rec \in Recorders
    BY <2>1 DEF OpenInv, HandlerOK, Unlisted
  <2>3. clip[last][rec] \o PreEvent(rec) \in Seq(Nat)
    <3>1. clip[last][rec] \in Seq(Nat)
      BY <2>2
    <3>2. PreEvent(rec) \in Seq(Nat)
      BY <2>2, PreEventTaken
    <3> QED BY <3>1, <3>2, ConcatProperties
  <2>4. ClipType'
    BY <2>1, <2>2, <2>3
  <2>5. \A e \in Events, r \in Recorders :
          clip'[e][r] = IF e = last /\ r = rec THEN clip[e][r] \o PreEvent(r)
                        ELSE clip[e][r]
    BY <2>1, <2>2
  <2> QED BY <2>1, <2>4, <2>5 DEF ClipKept, ClipFilled
<1>4. UNCHANGED clip \/ WritePre \/ \E q \in Recorders : WriteFrame(q) /\ writer[q] # NoEvent
  BY DEF Next, CaptureStep, Capture, WriteFrame, CaptureError, CaptureEnds,
     OnTrigger, HandlerStep, MakeDir, MakeDirFails, OpenWriter, OpenWriterFails,
     Publish, Wake, StopClip, WriteWav, Save, Raise, Finally, Tick, vars
<1> QED BY <1>1, <1>2, <1>3, <1>4

LEMMA FreshInit == Init => FreshInv
<1> SUFFICES ASSUME Init PROVE FreshInv
  OBVIOUS
<1>1. clip = [e \in Events |-> [r \in Recorders |-> <<>>]] /\ pc = "idle"
  BY DEF Init
<1>2. ClipType
  BY <1>1, EmptyStrict DEF ClipType
<1>3. \A e \in Events, r \in Recorders : clip[e][r] = <<>>
  BY <1>1
<1>4. Unfilled = {}
  BY <1>1 DEF Unfilled
<1> QED BY <1>2, <1>3, <1>4 DEF FreshInv

\* A step of the handler that starts no recorder leaves fewer of them unfilled.
LEMMA UnfilledShrinks ==
  ASSUME OpenInv, [Next]_vars, ~OnTrigger
  PROVE  /\ last' = last
         /\ Unfilled' \subseteq Unfilled
         /\ \A r \in Unfilled' : writer'[r] = writer[r] \/ writer'[r] = NoEvent
         /\ WritePre => rec \notin Unfilled'
<1>1. rec \in Recorders
  BY DEF OpenInv, HandlerOK
<1>2. last' = last
  BY DEF Next, CaptureStep, Capture, WriteFrame, CaptureError, CaptureEnds,
     HandlerStep, MakeDir, MakeDirFails, OpenWriter, OpenWriterFails, WritePre,
     Publish, Wake, StopClip, WriteWav, Save, Raise, Finally, Tick, vars, eventVars
<1>3. CASE UNCHANGED <<pc, rec, writer>>
  BY <1>2, <1>3 DEF Unfilled, WritePre
<1>4. CASE MakeDir \/ OpenWriter
  <2>1. Unfilled' \subseteq Unfilled /\ UNCHANGED writer
    BY <1>1, <1>4 DEF MakeDir, OpenWriter, Unfilled, Entry, Recorders, Cameras
  <2> QED BY <1>2, <1>4, <2>1 DEF MakeDir, OpenWriter, WritePre, Entry
<1>5. CASE WritePre
  <2>1. Unfilled' \subseteq Unfilled /\ UNCHANGED writer /\ rec \notin Unfilled'
    BY <1>1, <1>5 DEF WritePre, Unfilled, Recorders, Cameras
  <2> QED BY <1>2, <2>1
<1>6. CASE OpenWriterFails \/ Publish
  <2>1. NextStart
    BY <1>6 DEF OpenWriterFails, Publish
  <2>2. Unfilled' \subseteq Unfilled /\ rec \notin Unfilled'
    BY <1>1, <1>6, <2>1 DEF OpenWriterFails, Publish, NextStart, IsLast, Succ,
       Entry, Unfilled, Recorders, Cameras
  <2>3. \A r \in Unfilled' : writer'[r] = writer[r]
    <3>1. \A r \in Recorders : r # rec => writer'[r] = writer[r]
      BY <1>1, <1>6 DEF OpenWriterFails, Publish, OpenInv, HandlerOK
    <3>2. Unfilled \subseteq Recorders
      BY DEF Unfilled, Recorders, Cameras
    <3> QED BY <2>2, <3>1, <3>2
  <2>4. ~WritePre
    BY <1>6 DEF OpenWriterFails, Publish, WritePre
  <2> QED BY <1>2, <2>2, <2>3, <2>4
<1>7. CASE MakeDirFails \/ Wake \/ StopClip \/ WriteWav \/ Save \/ Raise \/ Finally
  <2>1. Unfilled' = {}
    BY <1>7 DEF MakeDirFails, Wake, StopClip, WriteWav, Save, Raise, Finally, Unfilled
  <2> QED BY <1>2, <2>1
<1> QED BY <1>3, <1>4, <1>5, <1>6, <1>7 DEF Next, CaptureStep, Capture, WriteFrame,
           CaptureError, CaptureEnds, HandlerStep, Tick, vars

LEMMA FreshNext == RingInv /\ OpenInv /\ FreshInv /\ [Next]_vars => FreshInv'
<1> SUFFICES ASSUME RingInv, OpenInv, FreshInv, [Next]_vars PROVE FreshInv'
  OBVIOUS
<1> USE DEF FreshInv
<1>1. /\ ClipType'
      /\ \A e \in Events, r \in Recorders :
           ClipKept(e, r) \/ ClipExtended(e, r) \/ ClipFilled(e, r)
  BY ClipStep
<1>2. /\ last \in Nat
      /\ Unfilled \subseteq Recorders
      /\ Unfilled # {} => last \in Events
      /\ \A r \in Recorders : writer[r] <= last /\ writer[r] \in Nat
  BY WriterType DEF Unfilled, Unlisted, OpenInv, HandlerOK, Recorders, Cameras
<1>3. CASE OnTrigger
  <2>1. /\ last' = last + 1
        /\ last' \in Events
        /\ pc' = "mkdir"
        /\ UNCHANGED <<clip, writer>>
    BY <1>3, NumbersType DEF OnTrigger, OpenInv, HandlerOK, Events
  <2>2. Unfilled' = Recorders
    BY <2>1 DEF Unfilled
  <2>3. last' > last /\ \A r \in Recorders : writer[r] # last'
    BY <1>2, <2>1
  <2>4. \A e \in Events : e > last' => e > last
    BY <1>2, <2>1, NumbersType
  <2> QED BY <1>1, <2>1, <2>2, <2>3, <2>4
<1>4. CASE ~OnTrigger
  <2>1. /\ last' = last
        /\ Unfilled' \subseteq Unfilled
        /\ \A r \in Unfilled' : writer'[r] = writer[r] \/ writer'[r] = NoEvent
        /\ WritePre => rec \notin Unfilled'
    BY <1>4, UnfilledShrinks
  <2>2. ASSUME NEW e \in Events, e > last, NEW r \in Recorders
        PROVE  clip'[e][r] = <<>>
    <3>1. writer[r] # e /\ e # last
      BY <1>2, <2>2, NumbersType
    <3> QED BY <1>1, <2>2, <3>1 DEF ClipKept, ClipExtended, ClipFilled
  <2>3. ASSUME NEW r \in Unfilled'
        PROVE  clip'[last][r] = <<>> /\ writer'[r] # last
    <3>1. /\ r \in Unfilled
          /\ r \in Recorders
          /\ last \in Events
          /\ clip[last][r] = <<>>
          /\ writer[r] # last
      BY <1>2, <2>1
    <3>2. ~ClipFilled(last, r)
      <4>1. pc = "pre" /\ pc' = "publish" => WritePre
        BY DEF Next, CaptureStep, Capture, WriteFrame, CaptureError, CaptureEnds,
           OnTrigger, HandlerStep, MakeDir, MakeDirFails, OpenWriter,
           OpenWriterFails, Publish, Wake, StopClip, WriteWav, Save, Raise,
           Finally, Tick, vars
      <4> QED BY <2>1, <2>3, <4>1 DEF ClipFilled
    <3>3. clip'[last][r] = <<>>
      BY <1>1, <3>1, <3>2 DEF ClipKept, ClipExtended
    <3>4. writer'[r] # last
      BY <2>1, <3>1, NumbersType DEF NoEvent
    <3> QED BY <3>3, <3>4
  <2> QED BY <1>1, <2>1, <2>2, <2>3
<1> QED BY <1>3, <1>4

-----------------------------------------------------------------------------
(* One seam.                                                               *)

Seams(c) == {i \in 1 .. Len(c) : i < Len(c) /\ c[i] = c[i + 1]}

\* A clip c beside its ring s, the frame h in hand and the time t.  It can show
\* a frame of this second only if the ring does, and as long as that frame is
\* still in hand the clip has no seam.
SeamOK(c, s, h, t) ==
  /\ \A i, j \in 1 .. Len(c) : i < j => c[i] <= c[j]
  /\ \A i \in 1 .. Len(c) : c[i] <= t
  /\ \A i, j \in Seams(c) : i = j
  /\ EndsAt(c, t) => EndsAt(s, t)
  /\ EndsAt(c, t) /\ h # NoFrame => Strict(c)

SeamInv ==
  \A e \in Events, r \in Recorders : SeamOK(clip[e][r], ring[r], hand[r], now)

LEMMA StrictSeamless ==
  ASSUME NEW c \in Seq(Nat), Strict(c)
  PROVE  /\ Seams(c) = {}
         /\ \A i, j \in 1 .. Len(c) : i < j => c[i] <= c[j]
<1>1. Len(c) \in Nat /\ \A i \in 1 .. Len(c) : c[i] \in Nat
  BY LenProperties, ElementOfSeq
<1>2. \A i \in 1 .. Len(c) : i < Len(c) => i + 1 \in 1 .. Len(c) /\ i < i + 1
  BY <1>1
<1>3. Seams(c) = {}
  <2> SUFFICES ASSUME NEW i \in 1 .. Len(c), i < Len(c), c[i] = c[i + 1]
               PROVE  FALSE
    BY DEF Seams
  <2>1. c[i] < c[i + 1]
    BY <1>2 DEF Strict
  <2> QED BY <1>1, <1>2, <2>1
<1> QED BY <1>1, <1>3 DEF Strict

\* The frame in hand is written behind the ones of the clip.
LEMMA SeamAppend ==
  ASSUME NEW c \in Seq(Nat), NEW s, NEW t \in Nat, t # NoFrame,
         SeamOK(c, s, t, t), EndsAt(s, t)
  PROVE  SeamOK(Append(c, t), s, NoFrame, t)
<1> DEFINE a == Append(c, t)
<1>1. /\ a \in Seq(Nat)
      /\ Len(c) \in Nat
      /\ Len(a) = Len(c) + 1
      /\ \A i \in 1 .. Len(c) + 1 : a[i] = IF i = Len(c) + 1 THEN t ELSE c[i]
  BY Appended
<1>2. \A i \in 1 .. Len(c) : c[i] \in Nat /\ c[i] <= t
  BY ElementOfSeq DEF SeamOK
<1> HIDE DEF a
<1>3. \A i \in 1 .. Len(a) : a[i] <= t
  <2> TAKE i \in 1 .. Len(a)
  <2>1. i = Len(c) + 1 \/ i \in 1 .. Len(c)
    BY <1>1
  <2> QED BY <1>1, <1>2, <2>1
<1>4. \A i, j \in 1 .. Len(a) : i < j => a[i] <= a[j]
  <2> SUFFICES ASSUME NEW i \in 1 .. Len(c) + 1, NEW j \in 1 .. Len(c) + 1, i < j
               PROVE  a[i] <= a[j]
    BY <1>1
  <2>1. Len(c) \in Nat
    BY <1>1
  <2>2. i \in 1 .. Len(c) /\ (j = Len(c) + 1 \/ j \in 1 .. Len(c))
    BY <2>1
  <2>3. a[i] = c[i]
    BY <1>1, <2>1, <2>2
  <2>4. CASE j = Len(c) + 1
    <3>1. a[j] = t
      BY <1>1, <2>4
    <3> QED BY <1>2, <2>2, <2>3, <3>1
  <2>5. CASE j \in 1 .. Len(c) /\ j # Len(c) + 1
    <3>1. a[j] = c[j]
      BY <1>1, <2>5
    <3> QED BY <2>2, <2>3, <2>5, <3>1 DEF SeamOK
  <2> QED BY <2>2, <2>4, <2>5
<1>5. \A i \in Seams(a) : (i = Len(c) /\ EndsAt(c, t)) \/ i \in Seams(c)
  <2> SUFFICES ASSUME NEW i \in 1 .. Len(a), i < Len(a), a[i] = a[i + 1]
               PROVE  (i = Len(c) /\ EndsAt(c, t)) \/ i \in Seams(c)
    BY DEF Seams
  <2>1. i \in 1 .. Len(c) /\ i + 1 \in 1 .. Len(c) + 1 /\ a[i] = c[i]
    BY <1>1
  <2>2. CASE i = Len(c)
    <3>1. c[Len(c)] = t
      BY <1>1, <2>1, <2>2
    <3>2. c # <<>>
      BY <2>1, <2>2, EmptyStrict
    <3> QED BY <2>2, <3>1, <3>2 DEF EndsAt
  <2>3. CASE i # Len(c)
    <3>1. i < Len(c) /\ i + 1 # Len(c) + 1
      BY <1>1, <2>1, <2>3
    <3>2. a[i + 1] = c[i + 1]
      BY <1>1, <2>1, <3>1
    <3> QED BY <2>1, <3>1, <3>2 DEF Seams
  <2> QED BY <2>2, <2>3
<1>6. \A i, j \in Seams(a) : i = j
  <2>1. EndsAt(c, t) => Seams(c) = {}
    BY StrictSeamless DEF SeamOK
  <2>2. \A i, j \in Seams(c) : i = j
    BY DEF SeamOK
  <2> QED BY <1>5, <2>1, <2>2
<1> QED BY <1>3, <1>4, <1>6 DEF SeamOK, a

\* A clip without seams, as it is taken from the ring.
LEMMA SeamFresh ==
  ASSUME NEW c \in Seq(Nat), Strict(c), NEW s, NEW h, NEW t \in Nat,
         \A i \in 1 .. Len(c) : c[i] <= t,
         EndsAt(c, t) => EndsAt(s, t)
  PROVE  SeamOK(c, s, h, t)
  BY StrictSeamless DEF SeamOK

\* A frame is taken: the clip shows none of this second.
LEMMA SeamCapture ==
  ASSUME NEW c, NEW s, NEW h, NEW t, SeamOK(c, s, h, t), ~EndsAt(s, t), NEW z, NEW g
  PROVE  SeamOK(c, z, g, t)
  BY DEF SeamOK

\* The frame in hand is dropped.
LEMMA SeamDrop ==
  ASSUME NEW c, NEW s, NEW h, NEW t, SeamOK(c, s, h, t)
  PROVE  SeamOK(c, s, NoFrame, t)
  BY DEF SeamOK

\* The next second begins.
LEMMA SeamTick ==
  ASSUME NEW c \in Seq(Nat), NEW s, NEW h, NEW t \in Nat, SeamOK(c, s, h, t)
  PROVE  SeamOK(c, s, h, t + 1)
<1>1. \A i \in 1 .. Len(c) : c[i] \in Nat /\ c[i] <= t + 1 /\ c[i] # t + 1
  <2> TAKE i \in 1 .. Len(c)
  <2>1. c[i] \in Nat /\ c[i] <= t
    BY ElementOfSeq DEF SeamOK
  <2> QED BY <2>1
<1>2. ~EndsAt(c, t + 1)
  <2> SUFFICES ASSUME EndsAt(c, t + 1) PROVE FALSE
    OBVIOUS
  <2>1. Len(c) \in Nat /\ Len(c) # 0
    BY EmptySeq, LenProperties DEF EndsAt
  <2>2. Len(c) \in 1 .. Len(c)
    BY <2>1
  <2> QED BY <1>1, <2>2 DEF EndsAt
<1> QED BY <1>1, <1>2 DEF SeamOK

\* What a step does beside the clips.
LEMMA RingStep ==
  ASSUME RingInv, [Next]_vars, NEW r \in Recorders
  PROVE  \/ /\ UNCHANGED <<now, ring>>
            /\ hand'[r] = hand[r] \/ hand'[r] = NoFrame
         \/ /\ UNCHANGED now
            /\ ring'[r] = ring[r]
            /\ hand'[r] = hand[r]
         \/ /\ UNCHANGED <<now, clip>>
            /\ ~EndsAt(ring[r], now)
         \/ /\ UNCHANGED <<ring, hand, clip>>
            /\ now' = now + 1
<1> USE DEF RingInv
<1>1. ASSUME NEW q \in Recorders, Capture(q)
      PROVE  \/ UNCHANGED now /\ ring'[r] = ring[r] /\ hand'[r] = hand[r]
             \/ UNCHANGED <<now, clip>> /\ ~EndsAt(ring[r], now)
  <2>1. /\ UNCHANGED <<now, clip>>
        /\ ring' = [ring EXCEPT ![q] = Push(@, now)]
        /\ hand' = [hand EXCEPT ![q] = now]
    BY <1>1 DEF Capture
  <2>2. CASE r # q
    BY <2>1, <2>2
  <2>3. CASE r = q
    <3>1. ring[r] \in Seq(Nat)
      OBVIOUS
    <3>2. \A i \in 1 .. Len(ring[r]) : ring[r][i] < now /\ ring[r][i] \in Nat
      <4>1. DOMAIN ring[r] = 1 .. Len(ring[r])
        BY <3>1, LenProperties
      <4> QED BY <1>1, <2>3, <3>1, <4>1, ElementOfSeq DEF Capture
    <3>3. ~EndsAt(ring[r], now)
      <4> SUFFICES ASSUME EndsAt(ring[r], now) PROVE FALSE
        OBVIOUS
      <4>1. Len(ring[r]) \in Nat /\ Len(ring[r]) # 0
        BY <3>1, EmptySeq, LenProperties DEF EndsAt
      <4>2. Len(ring[r]) \in 1 .. Len(ring[r])
        BY <4>1
      <4> QED BY <3>2, <4>2 DEF EndsAt
    <3> QED BY <2>1, <3>3
  <2> QED BY <2>2, <2>3
<1>2. ASSUME NEW q \in Recorders, WriteFrame(q) \/ CaptureError(q)
      PROVE  /\ UNCHANGED <<now, ring>>
             /\ hand'[r] = hand[r] \/ hand'[r] = NoFrame
  BY <1>2 DEF WriteFrame, CaptureError
<1>3. CASE Tick
  BY <1>3 DEF Tick, captureVars
<1>4. OnTrigger \/ HandlerStep \/ UNCHANGED vars => UNCHANGED <<now, ring, hand>>
  BY DEF OnTrigger, HandlerStep, MakeDir, MakeDirFails, OpenWriter,
     OpenWriterFails, WritePre, Publish, Wake, StopClip, WriteWav, Save, Raise,
     Finally, captureVars, vars
<1>5. \A q \in Recorders : CaptureEnds(q) => UNCHANGED <<now, ring, hand>>
  BY DEF CaptureEnds
<1> QED BY <1>1, <1>2, <1>3, <1>4, <1>5 DEF Next, CaptureStep

LEMMA SeamInit == Init => SeamInv
<1> SUFFICES ASSUME Init, NEW e \in Events, NEW r \in Recorders
             PROVE  SeamOK(clip[e][r], ring[r], hand[r], now)
  BY DEF SeamInv
<1>1. clip[e][r] = <<>> /\ now \in Nat
  BY DEF Init
<1>2. \A i \in 1 .. Len(<<>>) : <<>>[i] <= now
  BY EmptyStrict
<1> QED BY <1>1, <1>2, EmptyStrict, SeamFresh DEF EndsAt

LEMMA SeamNext ==
  RingInv /\ OpenInv /\ FreshInv /\ SeamInv /\ [Next]_vars => SeamInv'
<1> SUFFICES ASSUME RingInv, OpenInv, FreshInv, SeamInv, [Next]_vars,
                    NEW e \in Events, NEW r \in Recorders
             PROVE  SeamOK(clip'[e][r], ring'[r], hand'[r], now')
  BY DEF SeamInv
<1> DEFINE c == clip[e][r]
<1>1. ClipKept(e, r) \/ ClipExtended(e, r) \/ ClipFilled(e, r)
  BY ClipStep DEF FreshInv
<1>2. c \in Seq(Nat) /\ now \in Nat /\ SeamOK(c, ring[r], hand[r], now)
  BY DEF FreshInv, ClipType, RingInv, SeamInv
<1> HIDE DEF c
<1>3. CASE ClipKept(e, r)
  <2>1. clip'[e][r] = c
    BY <1>3 DEF ClipKept, c
  <2>2. CASE UNCHANGED <<now, ring>> /\ (hand'[r] = hand[r] \/ hand'[r] = NoFrame)
    BY <1>2, <2>1, <2>2, SeamDrop
  <2>3. CASE UNCHANGED now /\ ring'[r] = ring[r] /\ hand'[r] = hand[r]
    BY <1>2, <2>1, <2>3
  <2>4. CASE UNCHANGED <<now, clip>> /\ ~EndsAt(ring[r], now)
    BY <1>2, <2>1, <2>4, SeamCapture
  <2>5. CASE UNCHANGED <<ring, hand, clip>> /\ now' = now + 1
    BY <1>2, <2>1, <2>5, SeamTick
  <2> QED BY <2>2, <2>3, <2>4, <2>5, RingStep
<1>4. CASE ClipExtended(e, r)
  <2>1. /\ clip'[e][r] = Append(c, now)
        /\ now # NoFrame
        /\ hand[r] = now
        /\ hand'[r] = NoFrame
        /\ EndsAt(ring[r], now)
        /\ UNCHANGED <<now, ring>>
    BY <1>4 DEF ClipExtended, RingInv, c
  <2> QED BY <1>2, <2>1, SeamAppend
<1>5. CASE ClipFilled(e, r)
  <2>1. clip[last][rec] = <<>>
    <3>1. rec \in Unfilled
      BY <1>5 DEF ClipFilled, Unfilled, OpenInv, HandlerOK, Recorders, Cameras
    <3> QED BY <3>1 DEF FreshInv
  <2>2. /\ PreEvent(r) \in Seq(Nat)
        /\ Strict(PreEvent(r))
        /\ \A i \in 1 .. Len(PreEvent(r)) : PreEvent(r)[i] <= now
        /\ EndsAt(PreEvent(r), now) => EndsAt(ring[r], now)
    BY PreEventTaken
  <2>3. clip'[e][r] = PreEvent(r) /\ UNCHANGED <<now, ring, hand>>
    <3>1. <<>> \o PreEvent(r) = PreEvent(r)
      BY <2>2, ConcatEmptySeq
    <3> QED BY <1>5, <2>1, <3>1 DEF ClipFilled
  <2>4. SeamOK(PreEvent(r), ring[r], hand[r], now)
    BY <1>2, <2>2, SeamFresh
  <2> QED BY <2>3, <2>4
<1> QED BY <1>1, <1>3, <1>4, <1>5

LEMMA SeamInvOneSeam == FreshInv /\ SeamInv => OneSeam
<1> SUFFICES ASSUME FreshInv, SeamInv, NEW e \in Events, NEW r \in Recorders
             PROVE  LET c     == clip[e][r]
                        Inner == {i \in 1 .. Len(c) : i < Len(c)}
                    IN  /\ \A i \in Inner : c[i] <= c[i + 1]
                        /\ Cardinality({i \in Inner : c[i] = c[i + 1]}) <= 1
  BY DEF OneSeam
<1> DEFINE c     == clip[e][r]
           Inner == {i \in 1 .. Len(c) : i < Len(c)}
<1>1. c \in Seq(Nat) /\ SeamOK(c, ring[r], hand[r], now)
  BY DEF FreshInv, ClipType, SeamInv
<1> HIDE DEF c
<1>2. \A i \in Inner : i + 1 \in 1 .. Len(c) /\ i < i + 1
  BY <1>1, LenProperties
<1>3. \A i \in Inner : c[i] <= c[i + 1]
  BY <1>1, <1>2 DEF SeamOK
<1>4. {i \in Inner : c[i] = c[i + 1]} = Seams(c)
  BY DEF Seams
<1>5. Cardinality(Seams(c)) <= 1
  <2>1. CASE Seams(c) = {}
    BY <2>1, FS_EmptySet
  <2>2. CASE Seams(c) # {}
    <3>1. PICK i \in Seams(c) : TRUE
      BY <2>2
    <3>2. Seams(c) = {i}
      BY <1>1, <3>1 DEF SeamOK
    <3>3. Cardinality({i}) = 1
      BY FS_Singleton
    <3> QED BY <3>2, <3>3
  <2> QED BY <2>1, <2>2
<1> QED BY <1>3, <1>4, <1>5 DEF c

-----------------------------------------------------------------------------
(* Clips apart.                                                            *)

\* While an event is handled its cooldown bound is the one of the event before:
\* what a camera shows of the recorded events is a cooldown older than that,
\* what it shows of this one reaches back at most PreSecs behind it.
ApartInv ==
  /\ quietTill \in Nat
  /\ inEvent \/ pc = "idle"
  /\ pc # "idle" => quietTill <= now
  /\ \A d \in listed, r \in Cameras : \A f \in FramesOf(d, r) :
       (d = last /\ pc = "finally") \/ f + Cooldown <= quietTill
  /\ pc \in Unlisted =>
       \A r \in Cameras : \A f \in FramesOf(last, r) : f + PreSecs >= quietTill
  /\ CameraClipsDisjoint

\* The frames of a clip are frames that were taken.
LEMMA FramesTaken ==
  ASSUME RingInv, FreshInv, SeamInv, NEW e \in Events, NEW r \in Recorders
  PROVE  \A f \in FramesOf(e, r) : f \in Nat /\ f <= now
<1>1. clip[e][r] \in Seq(Nat)
  BY DEF FreshInv, ClipType
<1> QED BY <1>1, ElementOfSeq DEF FramesOf, SeamInv, SeamOK

\* A frame that a step adds to a clip of a camera is not older than the clip
\* reaches back, and the clip is not recorded.
LEMMA FramesStep ==
  ASSUME RingInv, OpenInv, FreshInv, [Next]_vars,
         NEW e \in Events, NEW r \in Cameras, NEW f \in FramesOf(e, r)'
  PROVE  \/ f \in FramesOf(e, r)
         \/ /\ e \notin listed
            /\ f \in Nat
            /\ f + PreSecs >= now
            /\ UNCHANGED <<now, eventVars, listed>>
<1> DEFINE c == clip[e][r]
<1>1. /\ r \in Recorders
      /\ c \in Seq(Nat)
      /\ now \in Nat
      /\ ClipKept(e, r) \/ ClipExtended(e, r) \/ ClipFilled(e, r)
  BY ClipStep DEF FreshInv, ClipType, RingInv, Recorders
<1>2. PICK i \in 1 .. Len(clip'[e][r]) : f = clip'[e][r][i]
  BY DEF FramesOf
<1>3. CASE ClipKept(e, r)
  BY <1>2, <1>3 DEF ClipKept, FramesOf
<1>4. CASE ClipExtended(e, r)
  <2>1. clip'[e][r] = Append(c, now) /\ UNCHANGED <<now, eventVars, listed>>
    BY <1>1, <1>4 DEF ClipExtended, RingInv
  <2>2. e \notin listed
    <3>1. e # NoEvent /\ e \in Nat /\ writer[r] = e
      BY <1>4, NumbersType DEF ClipExtended, NoEvent
    <3> QED BY <1>1, <3>1 DEF OpenInv, OpenIsUnlisted
  <2> HIDE DEF c
  <2>3. /\ Len(c) \in Nat
        /\ Len(Append(c, now)) = Len(c) + 1
        /\ \A j \in 1 .. Len(c) + 1 :
             Append(c, now)[j] = IF j = Len(c) + 1 THEN now ELSE c[j]
    BY <1>1, Appended
  <2>4. i \in 1 .. Len(c) + 1 /\ f = IF i = Len(c) + 1 THEN now ELSE c[i]
    BY <1>2, <2>1, <2>3
  <2>5. CASE i = Len(c) + 1
    BY <1>1, <2>1, <2>2, <2>4, <2>5, NowFrames
  <2>6. CASE i # Len(c) + 1
    <3>1. i \in 1 .. Len(c) /\ f = c[i]
      BY <2>3, <2>4, <2>6
    <3> QED BY <3>1 DEF FramesOf, c
  <2> QED BY <2>5, <2>6
<1>5. CASE ClipFilled(e, r)
  <2>1. /\ e = last
        /\ e \notin listed
        /\ clip[e][r] = <<>>
        /\ UNCHANGED <<now, eventVars, listed>>
    <3>1. rec \in Unfilled
      BY <1>5 DEF ClipFilled, Unfilled, OpenInv, HandlerOK, Recorders, Cameras
    <3> QED BY <1>5, <3>1 DEF FreshInv, ClipFilled, OpenInv, Unlisted
  <2>2. /\ PreEvent(r) \in Seq(Nat)
        /\ \A j \in 1 .. Len(PreEvent(r)) : PreEvent(r)[j] + PreSecs >= now
    BY <1>1, PreEventTaken
  <2>3. clip'[e][r] = PreEvent(r)
    BY <1>5, <2>1, <2>2, ConcatEmptySeq DEF ClipFilled
  <2>4. f \in Nat /\ f + PreSecs >= now
    BY <1>2, <2>2, <2>3, ElementOfSeq
  <2> QED BY <2>1, <2>4
<1> QED BY <1>1, <1>3, <1>4, <1>5

\* The steps that begin and end an event, and all the others.
LEMMA EventStep ==
  ASSUME OpenInv, [Next]_vars
  PROVE  \/ OnTrigger
         \/ Save
         \/ Finally
         \/ /\ UNCHANGED <<quietTill, inEvent, last, listed>>
            /\ now' = now \/ now' = now + 1
            /\ pc = "idle" <=> pc' = "idle"
            /\ pc' \in Unlisted => pc \in Unlisted
            /\ pc = "finally" => pc' = "finally"
<1>1. CASE CaptureStep
  BY <1>1 DEF CaptureStep, Capture, WriteFrame, CaptureError, CaptureEnds, eventVars
<1>2. CASE Tick \/ UNCHANGED vars
  BY <1>2 DEF Tick, eventVars, vars
<1>3. CASE OpenWriterFails \/ Publish
  <2>1. NextStart /\ rec \in Recorders
    BY <1>3 DEF OpenWriterFails, Publish, OpenInv, HandlerOK
  <2>2. pc' \in {"open", "pre", "sleep"}
    BY <2>1, NextStartKept
  <2> QED BY <1>3, <2>2 DEF OpenWriterFails, Publish, Unlisted, eventVars
<1>4. CASE MakeDir \/ MakeDirFails \/ OpenWriter \/ WritePre \/ Wake \/ StopClip
           \/ WriteWav \/ Raise
  BY <1>4 DEF MakeDir, MakeDirFails, OpenWriter, WritePre, Wake, StopClip,
     WriteWav, Raise, Entry, Unlisted, eventVars
<1> QED BY <1>1, <1>2, <1>3, <1>4 DEF Next, HandlerStep

LEMMA ApartInit == Init => ApartInv
  BY DEF Init, ApartInv, Unlisted, CameraClipsDisjoint

LEMMA ApartNext ==
  RingInv /\ OpenInv /\ FreshInv /\ SeamInv /\ ApartInv /\ [Next]_vars => ApartInv'
<1> SUFFICES ASSUME RingInv, OpenInv, FreshInv, SeamInv, ApartInv, [Next]_vars
             PROVE  ApartInv'
  OBVIOUS
<1>1. now \in Nat /\ listed \subseteq Events /\ Cameras \subseteq Recorders
  BY DEF RingInv, OpenInv, HandlerOK, Recorders
<1>2. \A d \in listed, r \in Cameras : FramesOf(d, r)' \subseteq FramesOf(d, r)
  BY <1>1, FramesStep
<1>3. \A e \in Events, r \in Cameras : \A f \in FramesOf(e, r) : f \in Nat /\ f <= now
  BY <1>1, FramesTaken
<1>4. listed' = listed => CameraClipsDisjoint'
  BY <1>2 DEF ApartInv, CameraClipsDisjoint
<1>5. CASE OnTrigger
  <2>1. /\ pc' = "mkdir"
        /\ pc = "idle"
        /\ inEvent'
        /\ last' = last + 1
        /\ last' \in Events
        /\ last' > last
        /\ quietTill <= now
        /\ UNCHANGED <<now, quietTill, listed, clip>>
    BY <1>1, <1>5, NumbersType DEF OnTrigger, ApartInv, OpenInv, HandlerOK, Events
  <2>2. \A r \in Cameras : FramesOf(last, r)' = {}
    <3> SUFFICES ASSUME NEW r \in Cameras PROVE FramesOf(last, r)' = {}
      OBVIOUS
    <3>1. clip'[last'][r] = <<>>
      BY <1>1, <2>1 DEF FreshInv
    <3>2. 1 .. Len(<<>>) = {}
      BY EmptyStrict
    <3> QED BY <3>1, <3>2 DEF FramesOf
  <2>3. \A d \in listed', r \in Cameras : \A f \in FramesOf(d, r)' :
          f + Cooldown <= quietTill'
    BY <1>2, <2>1 DEF ApartInv
  <2> QED BY <1>4, <2>1, <2>2, <2>3 DEF ApartInv
<1>6. CASE Save
  <2>1. /\ pc = "save"
        /\ pc' = "finally"
        /\ listed' = listed \cup {last}
        /\ last \in Events
        /\ UNCHANGED <<now, quietTill, inEvent, last, clip>>
    BY <1>6 DEF Save, eventVars, OpenInv, Unlisted
  <2>2. \A e \in Events, r \in Cameras : FramesOf(e, r)' = FramesOf(e, r)
    BY <2>1 DEF FramesOf
  <2>3. \A d \in listed, r \in Cameras : \A f \in FramesOf(d, r) :
          f + Cooldown <= quietTill
    BY <2>1 DEF ApartInv
  <2>4. \A d \in listed, r \in Cameras : FramesOf(d, r) \cap FramesOf(last, r) = {}
    <3> SUFFICES ASSUME NEW d \in listed, NEW r \in Cameras,
                        NEW f \in FramesOf(d, r), f \in FramesOf(last, r)
                 PROVE  FALSE
      OBVIOUS
    <3>1. f + Cooldown <= quietTill
      BY <2>3
    <3>2. f + PreSecs >= quietTill
      BY <2>1 DEF ApartInv, Unlisted
    <3>3. f \in Nat /\ quietTill \in Nat
      BY <1>1, <1>3 DEF ApartInv
    <3> QED BY <3>1, <3>2, <3>3, NowFrames
  <2>5. CameraClipsDisjoint'
    <3> SUFFICES ASSUME NEW d \in listed', NEW e \in listed', NEW r \in Cameras, d # e
                 PROVE  FramesOf(d, r)' \cap FramesOf(e, r)' = {}
      BY DEF CameraClipsDisjoint
    <3>1. FramesOf(d, r)' = FramesOf(d, r) /\ FramesOf(e, r)' = FramesOf(e, r)
      BY <1>1, <2>1, <2>2
    <3>2. CASE d \in listed /\ e \in listed
      BY <3>1, <3>2 DEF ApartInv, CameraClipsDisjoint
    <3>3. CASE e = last /\ d \in listed
      BY <2>4, <3>1, <3>3
    <3>4. CASE d = last /\ e \in listed
      BY <2>4, <3>1, <3>4
    <3> QED BY <2>1, <3>2, <3>3, <3>4
  <2>6. \A d \in listed', r \in Cameras : \A f \in FramesOf(d, r)' :
          d = last \/ f + Cooldown <= quietTill
    BY <1>1, <2>1, <2>2, <2>3
  <2> QED BY <2>1, <2>5, <2>6 DEF ApartInv, Unlisted
<1>7. CASE Finally
  <2>1. /\ pc = "finally"
        /\ pc' = "idle"
        /\ quietTill' = now + Cooldown
        /\ UNCHANGED <<now, listed, last, clip>>
    BY <1>7 DEF Finally
  <2>2. ASSUME NEW d \in listed, NEW r \in Cameras, NEW f \in FramesOf(d, r)'
        PROVE  f + Cooldown <= quietTill'
    <3>1. f \in Nat /\ f <= now
      BY <1>1, <1>2, <1>3
    <3> QED BY <1>1, <2>1, <3>1, NowFrames
  <2>3. quietTill' \in Nat
    BY <1>1, <2>1, NowFrames
  <2> QED BY <1>4, <2>1, <2>2, <2>3 DEF ApartInv, Unlisted
<1>8. CASE /\ UNCHANGED <<quietTill, inEvent, last, listed>>
           /\ now' = now \/ now' = now + 1
           /\ pc = "idle" <=> pc' = "idle"
           /\ pc' \in Unlisted => pc \in Unlisted
           /\ pc = "finally" => pc' = "finally"
  <2>1. pc' # "idle" => quietTill' <= now'
    BY <1>1, <1>8 DEF ApartInv
  <2>2. \A d \in listed', r \in Cameras : \A f \in FramesOf(d, r)' :
          (d = last' /\ pc' = "finally") \/ f + Cooldown <= quietTill'
    BY <1>2, <1>8 DEF ApartInv
  <2>3. ASSUME pc' \in Unlisted, NEW e \in Events, e = last,
               NEW r \in Cameras, NEW f \in FramesOf(e, r)'
        PROVE  f + PreSecs >= quietTill
    <3>1. pc \in Unlisted /\ quietTill <= now /\ quietTill \in Nat
      BY <1>8, <2>3 DEF ApartInv, Unlisted
    <3>2. CASE f \in FramesOf(e, r)
      BY <2>3, <3>1, <3>2 DEF ApartInv
    <3>3. CASE f \in Nat /\ f + PreSecs >= now
      BY <1>1, <3>1, <3>3, NowFrames
    <3> QED BY <3>1, <3>2, <3>3, FramesStep
  <2>4. inEvent' \/ pc' = "idle"
    BY <1>8 DEF ApartInv
  <2>5. quietTill' \in Nat
    BY <1>8 DEF ApartInv
  <2>6. \A r \in Cameras : \A f \in FramesOf(last, r)' :
          pc' \in Unlisted => f + PreSecs >= quietTill'
    <3> SUFFICES ASSUME pc' \in Unlisted, NEW r \in Cameras,
                        NEW f \in FramesOf(last, r)'
                 PROVE  f + PreSecs >= quietTill
      BY <1>8
    <3>1. last \in Events /\ last' = last
      BY <1>8 DEF OpenInv
    <3>2. PICK e \in Events : e = last /\ e = last'
      BY <3>1
    <3>3. f \in FramesOf(e, r)'
      BY <3>2 DEF FramesOf
    <3> QED BY <2>3, <3>2, <3>3
  <2> QED BY <1>4, <1>8, <2>1, <2>2, <2>4, <2>5, <2>6 DEF ApartInv
<1> QED BY <1>5, <1>6, <1>7, <1>8, EventStep

-----------------------------------------------------------------------------
(* The end of an event.                                                    *)

\* The recorders from this one on.
Behind(r) == IF r = "front" THEN 3 ELSE IF r = "rear" THEN 2 ELSE 1

\* The steps that the handler has at most before it.
StepsLeft ==
  CASE pc \in {"idle", "dead"} -> 0
    [] pc = "finally"          -> 1
    [] pc = "save"             -> 2
    [] pc = "write"            -> 3
    [] pc = "stop"             -> 3 + Behind(rec)
    [] pc = "sleep"            -> 7
    [] pc = "publish"          -> 5 + 3 * Behind(rec)
    [] pc = "pre"              -> 6 + 3 * Behind(rec)
    [] pc = "open"             -> 7 + 3 * Behind(rec)
    [] pc = "mkdir"            -> 17

\* The flag is up while there is a handler, and one that sleeps has not long
\* to go.
FlagInv ==
  /\ filming \in [Recorders -> BOOLEAN]
  /\ inEvent \in BOOLEAN
  /\ inEvent <=> pc # "idle"
  /\ wake \in Nat
  /\ pc = "sleep" => wake <= now + PostSecs

\* Every step of the handler is one step nearer to its end, and only a trigger
\* that is accepted gives it steps to take.
HandlerProgress ==
  [][/\ HandlerStep => StepsLeft' < StepsLeft
     /\ ~HandlerStep /\ ~OnTrigger => StepsLeft' = StepsLeft
     /\ OnTrigger => StepsLeft = 0]_vars

LEMMA FlagInit == Init => FlagInv
<1> SUFFICES ASSUME Init PROVE FlagInv
  OBVIOUS
<1>1. PICK s \in Started : filming = [r \in Recorders |-> r \in s]
  BY DEF Init
<1>2. filming \in [Recorders -> BOOLEAN]
  BY <1>1
<1> QED BY <1>2 DEF Init, FlagInv

LEMMA FlagNext ==
  RingInv /\ OpenInv /\ FlagInv /\ [Next]_vars => FlagInv'
<1> SUFFICES ASSUME RingInv, OpenInv, FlagInv, [Next]_vars PROVE FlagInv'
  OBVIOUS
<1> USE DEF FlagInv
<1>1. filming' \in [Recorders -> BOOLEAN]
  <2>1. CASE UNCHANGED filming
    BY <2>1
  <2>2. ASSUME NEW q \in Recorders, CaptureError(q) \/ CaptureEnds(q)
        PROVE  filming' \in [Recorders -> BOOLEAN]
    <3>1. CASE filming' = [filming EXCEPT ![q] = q \in Cameras]
      <4>1. (q \in Cameras) \in BOOLEAN
        OBVIOUS
      <4> QED BY <3>1, <4>1, Zenon
    <3>2. CASE filming' = [filming EXCEPT ![q] = FALSE]
      BY <3>2, Zenon
    <3> QED BY <2>2, <3>1, <3>2 DEF CaptureError, CaptureEnds
  <2>3. UNCHANGED filming \/ \E q \in Recorders : CaptureError(q) \/ CaptureEnds(q)
    BY DEF Next, CaptureStep, Capture, WriteFrame, OnTrigger, HandlerStep, MakeDir,
       MakeDirFails, OpenWriter, OpenWriterFails, WritePre, Publish, Wake,
       StopClip, WriteWav, Save, Raise, Finally, Tick, captureVars, vars
  <2> QED BY <2>1, <2>2, <2>3
<1>2. inEvent' \in BOOLEAN /\ (inEvent' <=> pc' # "idle")
  <2>1. CASE UNCHANGED <<inEvent, pc>>
    BY <2>1
  <2>2. CASE OnTrigger \/ Finally
    BY <2>2 DEF OnTrigger, Finally
  <2>3. CASE OpenWriterFails \/ Publish
    <3>1. NextStart /\ rec \in Recorders
      BY <2>3 DEF OpenWriterFails, Publish, OpenInv, HandlerOK
    <3>2. pc' # "idle"
      BY <3>1, NextStartKept
    <3> QED BY <2>3, <3>2 DEF OpenWriterFails, Publish, eventVars
  <2>4. CASE \/ MakeDir \/ MakeDirFails \/ OpenWriter \/ WritePre \/ Wake
             \/ StopClip \/ WriteWav \/ Save \/ Raise
    BY <2>4 DEF MakeDir, MakeDirFails, OpenWriter, WritePre, Wake, StopClip,
       WriteWav, Save, Raise, Entry, eventVars
  <2> QED BY <2>1, <2>2, <2>3, <2>4 DEF Next, CaptureStep, Capture, WriteFrame,
             CaptureError, CaptureEnds, HandlerStep, Tick, vars, eventVars
<1>3. wake' \in Nat /\ (pc' = "sleep" => wake' <= now' + PostSecs)
  <2>1. now \in Nat /\ PostSecs \in Nat
    BY SecsAssumption DEF RingInv
  <2>2. CASE NextStart /\ UNCHANGED now
    BY <2>1, <2>2 DEF NextStart, Entry
  <2>3. CASE /\ UNCHANGED wake
             /\ now' = now \/ now' = now + 1
             /\ pc' = "sleep" => pc = "sleep"
    BY <2>1, <2>3
  <2>4. \/ NextStart /\ UNCHANGED now
        \/ /\ UNCHANGED wake
           /\ now' = now \/ now' = now + 1
           /\ pc' = "sleep" => pc = "sleep"
    BY DEF Next, CaptureStep, Capture, WriteFrame, CaptureError, CaptureEnds,
       OnTrigger, HandlerStep, MakeDir, MakeDirFails, OpenWriter,
       OpenWriterFails, WritePre, Publish, Wake, StopClip, WriteWav, Save, Raise,
       Finally, Entry, Tick, vars
  <2> QED BY <2>2, <2>3, <2>4
<1> QED BY <1>1, <1>2, <1>3

LEMMA ProgressStep ==
  ASSUME OpenInv, FlagInv, [Next]_vars
  PROVE  /\ HandlerStep => StepsLeft' < StepsLeft
         /\ ~HandlerStep /\ ~OnTrigger => StepsLeft' = StepsLeft
         /\ OnTrigger => StepsLeft = 0
<1>1. rec \in {"front", "rear", "mic"}
  BY DEF OpenInv, HandlerOK, Recorders, Cameras
<1>2. ASSUME HandlerStep PROVE StepsLeft' < StepsLeft
  <2>1. CASE OpenWriterFails \/ Publish
    BY <1>1, <2>1 DEF OpenWriterFails, Publish, NextStart, IsLast, Succ, Entry,
       StepsLeft, Behind, Cameras
  <2>2. CASE MakeDir \/ MakeDirFails
    BY <1>1, <2>2 DEF MakeDir, MakeDirFails, Entry, StepsLeft, Behind, Cameras
  <2>3. CASE OpenWriter \/ WritePre
    BY <1>1, <2>3 DEF OpenWriter, WritePre, StepsLeft, Behind
  <2>4. CASE Wake
    BY <1>1, <2>4 DEF Wake, StepsLeft, Behind
  <2>5. CASE StopClip
    BY <1>1, <2>5 DEF StopClip, IsLast, Succ, StepsLeft, Behind
  <2>6. CASE WriteWav \/ Save \/ Finally
    BY <2>6 DEF WriteWav, Save, Finally, StepsLeft
  <2>7. CASE Raise
    BY <1>1, <2>7 DEF Raise, StepsLeft, Behind
  <2> QED BY <1>2, <2>1, <2>2, <2>3, <2>4, <2>5, <2>6, <2>7 DEF HandlerStep
<1>3. ASSUME ~HandlerStep, ~OnTrigger PROVE StepsLeft' = StepsLeft
  <2>1. UNCHANGED <<pc, rec>>
    BY <1>3 DEF Next, CaptureStep, Capture, WriteFrame, CaptureError, CaptureEnds,
       Tick, vars
  <2> QED BY <2>1 DEF StepsLeft, Behind
<1>4. ASSUME OnTrigger PROVE StepsLeft = 0
  BY <1>4 DEF OnTrigger, FlagInv, StepsLeft
<1> QED BY <1>2, <1>3, <1>4

-----------------------------------------------------------------------------
(* The theorems.                                                           *)

\* All of it together.
LEMMA ClipsInvariant ==
  Spec => [](RingInv /\ OpenInv /\ FreshInv /\ SeamInv /\ ApartInv)
<1>1. Init => RingInv /\ OpenInv /\ FreshInv /\ SeamInv /\ ApartInv
  BY RingInit, OpenInit, FreshInit, SeamInit, ApartInit
<1>2. RingInv /\ OpenInv /\ FreshInv /\ SeamInv /\ ApartInv /\ [Next]_vars
        => (RingInv /\ OpenInv /\ FreshInv /\ SeamInv /\ ApartInv)'
  BY RingNext, OpenNext, FreshNext, SeamNext, ApartNext
<1> QED BY <1>1, <1>2, PTL DEF Spec

\* A clip is in the order of time and at most one frame is in it twice, the
\* one that was pushed before the handler read the ring and written behind
\* what it had read (_write_pre_frames and the two sections of the capture
\* loop of csi_recorder.py, usb_recorder.py and mic_recorder.py).
THEOREM OneSeamPerClip == Spec => []OneSeam
  BY ClipsInvariant, SeamInvOneSeam, PTL

\* No picture is in the clips of two recorded events, as the cooldown is
\* longer than a clip reaches back (_on_trigger and _handle_event of
\* event_trigger.py, start_event_clip of the cameras).
THEOREM ClipsDisjoint == Spec => []CameraClipsDisjoint
<1>1. ApartInv => CameraClipsDisjoint
  BY DEF ApartInv
<1> QED BY <1>1, ClipsInvariant, PTL

LEMMA FlagInvariant == Spec => [](RingInv /\ OpenInv /\ FlagInv)
<1>1. Init => RingInv /\ OpenInv /\ FlagInv
  BY RingInit, OpenInit, FlagInit
<1>2. RingInv /\ OpenInv /\ FlagInv /\ [Next]_vars
        => (RingInv /\ OpenInv /\ FlagInv)'
  BY RingNext, OpenNext, FlagNext
<1> QED BY <1>1, <1>2, PTL DEF Spec

\* Type correctness; a ring never holds more than its capacity (RingBuffer of
\* the recorders).
THEOREM TypeCorrect == Spec => []TypeOK
<1>1. RingInv /\ OpenInv /\ FreshInv /\ SeamInv /\ ApartInv /\ FlagInv => TypeOK
  BY DEF RingInv, OpenInv, HandlerOK, FreshInv, ClipType, ApartInv, FlagInv, TypeOK
<1> QED BY <1>1, ClipsInvariant, FlagInvariant, PTL

\* _in_event is up exactly while there is a handler, and whatever fails in it
\* the handler has at most 17 steps to take, one less after each: it never goes
\* back, waits for nothing but a sleep of PostSecs and cannot be kept busy by a
\* trigger or a recorder (_on_trigger, _handle_event).
THEOREM HandlerEnds ==
  Spec => /\ [](/\ inEvent <=> pc # "idle"
                /\ StepsLeft \in 0 .. 17
                /\ pc = "sleep" => wake <= now + PostSecs)
          /\ HandlerProgress
<1>1. OpenInv /\ FlagInv => /\ inEvent <=> pc # "idle"
                            /\ StepsLeft \in 0 .. 17
                            /\ pc = "sleep" => wake <= now + PostSecs
  <2> SUFFICES ASSUME OpenInv, FlagInv
               PROVE  /\ inEvent <=> pc # "idle"
                      /\ StepsLeft \in 0 .. 17
                      /\ pc = "sleep" => wake <= now + PostSecs
    OBVIOUS
  <2>1. StepsLeft \in 0 .. 17
    BY DEF OpenInv, HandlerOK, Steps, Recorders, Cameras, StepsLeft, Behind
  <2> QED BY <2>1 DEF FlagInv
<1>2. OpenInv /\ FlagInv /\ [Next]_vars =>
        [/\ HandlerStep => StepsLeft' < StepsLeft
         /\ ~HandlerStep /\ ~OnTrigger => StepsLeft' = StepsLeft
         /\ OnTrigger => StepsLeft = 0]_vars
  BY ProgressStep
<1> QED BY <1>1, <1>2, FlagInvariant, PTL DEF Spec, HandlerProgress
=============================================================================
