---------------------------- MODULE EventTrigger ----------------------------
(***************************************************************************)
(* The black box of the MEDIA computer: event_trigger.py and the recorders *)
(* it drives (csi_recorder.py, usb_recorder.py, mic_recorder.py).          *)
(*                                                                         *)
(* Threads: the ones that call _on_trigger (UDP listener, SOME/IP server), *)
(* the handler of the event under way, and one capture thread per          *)
(* recorder.  A capture thread pushes a frame into its ring and only later *)
(* in the same turn, under _event_lock, writes it to the clip that is      *)
(* published, if any; the handler fills a clip from the ring before it     *)
(* publishes it.                                                           *)
(*                                                                         *)
(* A frame (a chunk, for the microphone) is the second it was taken in.    *)
(* The loop of a capture thread is assumed to be done with a frame within  *)
(* that second.  The live stream, the continuous segments and the          *)
(* transcoding of a recorded event are left out.                           *)
(***************************************************************************)
EXTENDS Naturals, Sequences, FiniteSets

CONSTANTS
  Started,     \* the sets of recorders that main() may have got to start
  PreSecs,     \* PRE_EVENT_SECS (5)
  PostSecs,    \* POST_EVENT_SECS (10)
  Cooldown,    \* _POST_EVENT_COOLDOWN_SECS (30)
  RingLen,     \* the capacity of a ring buffer
  MaxTime,     \* bound: the second after which nothing is triggered or taken
  MaxEvents    \* bound: the events handled

Cameras   == {"front", "rear"}
Recorders == Cameras \cup {"mic"}
Events    == 1 .. MaxEvents
NoEvent   == 0
NoFrame   == 0

ASSUME StartedAssumption == Started \subseteq SUBSET Recorders

\* The cooldown is longer than the time a clip reaches back.
ASSUME SecsAssumption ==
  /\ PreSecs \in Nat
  /\ PostSecs \in Nat
  /\ Cooldown \in Nat
  /\ PreSecs < Cooldown

ASSUME BoundsAssumption ==
  /\ RingLen \in Nat \ {0}
  /\ MaxTime \in Nat
  /\ MaxEvents \in Nat \ {0}

VARIABLES
  now,        \* time.time(), in seconds
  filming,    \* the capture thread of the recorder runs
  ring,       \* its RingBuffer, oldest first
  hand,       \* the frame between ring.push and the write to the clip
  writer,     \* the event whose clip is published (_event_writer, _event_chunks)
  clip,       \* what was written to the clip of an event
  inEvent,    \* _in_event
  quietTill,  \* _last_event_end + Cooldown
  last,       \* the number of the latest accepted event
  pc,         \* where its handler is
  rec,        \* the recorder it starts or stops
  wake,       \* when its sleep is over
  listed      \* the events in the database

vars == <<now, filming, ring, hand, writer, clip, inEvent, quietTill, last, pc,
          rec, wake, listed>>

captureVars == <<filming, ring, hand>>
eventVars   == <<inEvent, quietTill, last>>

Steps == {"idle", "mkdir", "open", "pre", "publish", "sleep", "stop", "write",
          "save", "finally", "dead"}

TypeOK ==
  /\ now \in Nat
  /\ filming \in [Recorders -> BOOLEAN]
  /\ ring \in [Recorders -> Seq(Nat)]
  /\ \A r \in Recorders : Len(ring[r]) <= RingLen
  /\ hand \in [Recorders -> Nat]
  /\ writer \in [Recorders -> Events \cup {NoEvent}]
  /\ clip \in [Events -> [Recorders -> Seq(Nat)]]
  /\ inEvent \in BOOLEAN
  /\ quietTill \in Nat
  /\ last \in 0 .. MaxEvents
  /\ pc \in Steps
  /\ rec \in Recorders
  /\ wake \in Nat
  /\ listed \subseteq Events

Init ==
  /\ now = 1
  /\ \E s \in Started : filming = [r \in Recorders |-> r \in s]
  /\ ring = [r \in Recorders |-> <<>>]
  /\ hand = [r \in Recorders |-> NoFrame]
  /\ writer = [r \in Recorders |-> NoEvent]
  /\ clip = [e \in Events |-> [r \in Recorders |-> <<>>]]
  /\ inEvent = FALSE
  /\ quietTill = 0
  /\ last = 0
  /\ pc = "idle"
  /\ rec = "front"
  /\ wake = 0
  /\ listed = {}

-----------------------------------------------------------------------------
(* The capture threads.                                                    *)

Push(s, f) ==
  IF Len(s) < RingLen THEN Append(s, f) ELSE Append(Tail(s), f)

Capture(r) ==
  /\ filming[r]
  /\ hand[r] = NoFrame
  /\ now <= MaxTime
  /\ \A i \in DOMAIN ring[r] : ring[r][i] < now
  /\ ring' = [ring EXCEPT ![r] = Push(@, now)]
  /\ hand' = [hand EXCEPT ![r] = now]
  /\ UNCHANGED <<now, filming, writer, clip, eventVars, pc, rec, wake, listed>>

WriteFrame(r) ==
  /\ hand[r] # NoFrame
  /\ hand' = [hand EXCEPT ![r] = NoFrame]
  /\ clip' = IF writer[r] = NoEvent THEN clip
             ELSE [clip EXCEPT ![writer[r]][r] = Append(@, hand[r])]
  /\ UNCHANGED <<now, filming, ring, writer, eventVars, pc, rec, wake, listed>>

\* An exception between the push and the write (the continuous file, the
\* JPEG).  A camera drops the frame and goes on; the thread of the microphone
\* ends.
CaptureError(r) ==
  /\ hand[r] # NoFrame
  /\ hand' = [hand EXCEPT ![r] = NoFrame]
  /\ filming' = [filming EXCEPT ![r] = r \in Cameras]
  /\ UNCHANGED <<now, ring, writer, clip, eventVars, pc, rec, wake, listed>>

\* A camera is not found again in five attempts; reading the microphone fails.
CaptureEnds(r) ==
  /\ filming[r]
  /\ hand[r] = NoFrame
  /\ filming' = [filming EXCEPT ![r] = FALSE]
  /\ UNCHANGED <<now, ring, hand, writer, clip, eventVars, pc, rec, wake, listed>>

-----------------------------------------------------------------------------
(* A trigger, then the thread that handles the event.                      *)

\* The recorders in the order in which they are started and stopped.
IsLast(r) == r = "mic"
Succ(r)   == IF r = "front" THEN "rear" ELSE "mic"
Entry(r)  == IF r \in Cameras THEN "open" ELSE "pre"

\* The triggers that are refused change nothing.
OnTrigger ==
  /\ last < MaxEvents
  /\ now <= MaxTime
  /\ ~inEvent
  /\ now >= quietTill
  /\ inEvent' = TRUE
  /\ last' = last + 1
  /\ pc' = "mkdir"
  /\ rec' = "front"
  /\ UNCHANGED <<now, captureVars, writer, clip, quietTill, wake, listed>>

MakeDir ==
  /\ pc = "mkdir"
  /\ pc' = Entry(rec)
  /\ UNCHANGED <<now, captureVars, writer, clip, eventVars, rec, wake, listed>>

\* mkdir is outside the try: the thread ends, and the finally does not run.
MakeDirFails ==
  /\ pc = "mkdir"
  /\ pc' = "dead"
  /\ UNCHANGED <<now, captureVars, writer, clip, eventVars, rec, wake, listed>>

\* On to the next recorder, or to the sleep behind the last one.
NextStart ==
  IF IsLast(rec)
  THEN pc' = "sleep" /\ rec' = "front" /\ wake' = now + PostSecs
  ELSE pc' = Entry(Succ(rec)) /\ rec' = Succ(rec) /\ wake' = wake

\* The writer is published as soon as it is open.
OpenWriterPublished ==
  /\ pc = "open"
  /\ pc' = "pre"
  /\ writer' = [writer EXCEPT ![rec] = last]
  /\ UNCHANGED <<now, captureVars, clip, eventVars, rec, wake, listed>>

OpenWriter ==
  /\ pc = "open"
  /\ pc' = "pre"
  /\ UNCHANGED <<now, captureVars, writer, clip, eventVars, rec, wake, listed>>

\* isOpened() is false: start_event_clip returns, the writer of an earlier
\* event stays where it is.
OpenWriterFails ==
  /\ pc = "open"
  /\ NextStart
  /\ UNCHANGED <<now, captureVars, writer, clip, eventVars, listed>>

\* The cameras take the whole ring, as the microphone does.
PreEventWhole(r) == ring[r]

Outdated(r) == {i \in DOMAIN ring[r] : ring[r][i] + PreSecs < now}

\* The cameras leave out what is older than PreSecs, which is the beginning of
\* a ring in the order of time; the chunks of the microphone carry no time.
PreEvent(r) ==
  IF r \in Cameras
  THEN SubSeq(ring[r], Cardinality(Outdated(r)) + 1, Len(ring[r]))
  ELSE ring[r]

WritePre ==
  /\ pc = "pre"
  /\ clip' = [clip EXCEPT ![last][rec] = @ \o PreEvent(rec)]
  /\ pc' = "publish"
  /\ UNCHANGED <<now, captureVars, writer, eventVars, rec, wake, listed>>

Publish ==
  /\ pc = "publish"
  /\ writer' = [writer EXCEPT ![rec] = last]
  /\ NextStart
  /\ UNCHANGED <<now, captureVars, clip, eventVars, listed>>

Wake ==
  /\ pc = "sleep"
  /\ now >= wake
  /\ pc' = "stop"
  /\ UNCHANGED <<now, captureVars, writer, clip, eventVars, rec, wake, listed>>

\* Only a clip with a start time, one that got frames of the ring, is stopped.
StopClipStarted ==
  /\ pc = "stop"
  /\ writer' = IF clip[last][rec] = <<>> THEN writer
               ELSE [writer EXCEPT ![rec] = NoEvent]
  /\ IF IsLast(rec)
     THEN /\ pc' = IF writer[rec] = NoEvent THEN "save" ELSE "write"
          /\ rec' = rec
     ELSE pc' = "stop" /\ rec' = Succ(rec)
  /\ UNCHANGED <<now, captureVars, clip, eventVars, wake, listed>>

\* A camera closes its file; the microphone takes the chunks and has the
\* file still to write, unless there are none.
StopClip ==
  /\ pc = "stop"
  /\ writer' = [writer EXCEPT ![rec] = NoEvent]
  /\ IF IsLast(rec)
     THEN /\ pc' = IF writer[rec] = NoEvent THEN "save" ELSE "write"
          /\ rec' = rec
     ELSE pc' = "stop" /\ rec' = Succ(rec)
  /\ UNCHANGED <<now, captureVars, clip, eventVars, wake, listed>>

WriteWav ==
  /\ pc = "write"
  /\ pc' = "save"
  /\ UNCHANGED <<now, captureVars, writer, clip, eventVars, rec, wake, listed>>

\* metadata.json, then the row of the database.
Save ==
  /\ pc = "save"
  /\ listed' = listed \cup {last}
  /\ pc' = "finally"
  /\ UNCHANGED <<now, captureVars, writer, clip, eventVars, rec, wake>>

\* Every exception in the try is logged and dropped.
Raise ==
  /\ pc \in {"open", "pre", "publish", "stop", "write", "save"}
  /\ pc' = "finally"
  /\ UNCHANGED <<now, captureVars, writer, clip, eventVars, rec, wake, listed>>

\* Only a recorded event is over.
FinallyIfListed ==
  /\ pc = "finally"
  /\ quietTill' = now + Cooldown
  /\ inEvent' = (last \notin listed)
  /\ pc' = "idle"
  /\ UNCHANGED <<now, captureVars, writer, clip, last, rec, wake, listed>>

Finally ==
  /\ pc = "finally"
  /\ quietTill' = now + Cooldown
  /\ inEvent' = FALSE
  /\ pc' = "idle"
  /\ UNCHANGED <<now, captureVars, writer, clip, last, rec, wake, listed>>

\* After the bound the clock moves only for a handler that sleeps.
Tick ==
  /\ \A r \in Recorders : hand[r] = NoFrame
  /\ now <= MaxTime \/ (pc = "sleep" /\ now < wake)
  /\ now' = now + 1
  /\ UNCHANGED <<captureVars, writer, clip, eventVars, pc, rec, wake, listed>>

-----------------------------------------------------------------------------

CaptureStep ==
  \E r \in Recorders :
    Capture(r) \/ WriteFrame(r) \/ CaptureError(r) \/ CaptureEnds(r)

HandlerStep ==
  \/ MakeDir \/ MakeDirFails
  \/ OpenWriter \/ OpenWriterFails \/ WritePre \/ Publish
  \/ Wake
  \/ StopClip \/ WriteWav \/ Save
  \/ Raise \/ Finally

Next == CaptureStep \/ OnTrigger \/ HandlerStep \/ Tick

\* The threads are scheduled and the clock runs; no recorder has to deliver.
Fairness ==
  /\ WF_vars(HandlerStep)
  /\ WF_vars(Tick)
  /\ \A r \in Recorders : WF_vars(WriteFrame(r))

Spec == Init /\ [][Next]_vars /\ Fairness

-----------------------------------------------------------------------------

\* A clip is in the order of time and shows no frame twice, except one: the
\* frame that was pushed before the handler looked at the ring and written
\* after the clip was published.  (Frames pushed and written between the two
\* are missing from it.)
OneSeam ==
  \A e \in Events, r \in Recorders :
    LET c     == clip[e][r]
        Inner == {i \in 1 .. Len(c) : i < Len(c)}
    IN  /\ \A i \in Inner : c[i] <= c[i + 1]
        /\ Cardinality({i \in Inner : c[i] = c[i + 1]}) <= 1

FramesOf(e, r) == {clip[e][r][i] : i \in 1 .. Len(clip[e][r])}

\* No picture of a camera is evidence in two recorded events.
CameraClipsDisjoint ==
  \A d, e \in listed, r \in Cameras :
    d # e => FramesOf(d, r) \cap FramesOf(e, r) = {}

\* A clip that is still open belongs to an event after all the recorded ones:
\* what a failed event leaves open is closed by the next event that is
\* recorded, and a recorded clip has no more frames added.
OpenIsUnlisted ==
  \A r \in Recorders : \A e \in listed : writer[r] # NoEvent => writer[r] > e

\* An event is over at some time, and triggers count again after the
\* cooldown, unless the directory of the event could not be made.
EventEnds == inEvent ~> (~inEvent \/ pc = "dead")
=============================================================================
