--------------------------- MODULE Retransmitter ---------------------------
(***************************************************************************)
(* The gateway from the on-board computer's serial line to ROS topics:     *)
(* wait_for_msg looks for a frame's start magic byte by byte, the task     *)
(* reads as many bytes as a frame has, publishes its numbers and writes    *)
(* the magic back.  It does not look at the end magic, and it does not     *)
(* read while it publishes: the UART's small FIFO then overruns and bytes  *)
(* are lost.                                                               *)
(*                                                                         *)
(* A number is one byte of the model.  Each byte on the line also carries  *)
(* the frame and the place it was sent at, which only the properties read. *)
(***************************************************************************)
EXTENDS Integers, Sequences, SequencesExt, FiniteSets, FiniteSetsExt

CONSTANTS
  Wheels,       \* wheels, each with a drive and a swerve command
  Value,        \* what a byte of a number may be
  Numbers,      \* bound of the model: the numbers a frame may hold
  FifoSize,     \* the UART's receive FIFO
  MaxFrames,    \* bound of the model: frames the computer sends
  MaxGaps,      \* bound of the model: runs of bytes lost
  Unknown       \* the end of the last body, when it was not as sent

ASSUME RetransmitterAssumption ==
  /\ Wheels \in Nat \ {0} /\ FifoSize \in Nat \ {0}
  /\ MaxFrames \in Nat /\ MaxGaps \in Nat /\ Unknown \notin Nat

startMagic == <<"EF", "BE", "ED", "FE">>
endMagic == <<"EF", "BE", "AD", "DE">>    \* 0xDEADBEEF, low byte first

NUM_MSG == 2 * Wheels
Data == 1 .. NUM_MSG                      \* the numbers, in the order of the enum messages

ASSUME NumbersAssumption == Numbers \subseteq [Data -> Value]

BodySize == NUM_MSG + Len(endMagic)       \* sizeof(struct message)
FrameSize == Len(startMagic) + BodySize

FrameOf(data) == startMagic \o data \o endMagic
Frames == {FrameOf(data) : data \in Numbers}

VARIABLES
  sending,     \* the frame the computer is sending
  frame,       \* its number
  at,          \* bytes of it that have been sent
  fifo,        \* the UART's receive FIFO
  matched,     \* bytes of the start magic wait_for_msg has seen
  serial,      \* the bytes of the body, as they are read
  sent,        \* the commands last sent, each with its topic, in their order
  start,       \* ghost: the last byte wait_for_msg read
  delivered,   \* ghost: the frames published as they were sent
  upto,        \* ghost: the last byte of the last body, if that was as sent
  misled,      \* ghost: bodies read after a start that was none
  gaps,        \* ghost: runs of bytes that were lost
  gap,         \* ghost: the last byte was lost
  hit          \* ghost: the frames that lost a byte

host == <<sending, frame, at>>
bodies == <<delivered, upto, misled>>
losses == <<gaps, gap, hit>>
retransmitter_vars == <<host, fifo, matched, serial, sent, start, bodies, losses>>

RetransmitterInit ==
  /\ sending \in Frames /\ frame = 1 /\ at = 0
  /\ fifo = <<>> /\ matched = 0 /\ serial = <<>> /\ sent = <<>>
  /\ start = <<>>
  /\ delivered = {} /\ upto = 0 /\ misled = 0
  /\ gaps = 0 /\ gap = FALSE /\ hit = {}

\* The place of a byte in the stream.
Position(byte) == (byte.frame - 1) * FrameSize + byte.at

----------------------------------------------------------------------------
(* The serial line. *)

NextFrame ==
  /\ at = FrameSize /\ frame < MaxFrames
  /\ sending' \in Frames /\ frame' = frame + 1 /\ at' = 0
  /\ UNCHANGED <<fifo, matched, serial, sent, start, bodies, losses>>

\* A byte arrives; one that finds the FIFO full is lost.
Arrive ==
  /\ at < FrameSize
  /\ at' = at + 1
  /\ IF Len(fifo) < FifoSize
     THEN /\ fifo' = Append(fifo, [value |-> sending[at + 1], frame |-> frame, at |-> at + 1])
          /\ gap' = FALSE
          /\ UNCHANGED <<gaps, hit>>
     ELSE /\ gap \/ gaps < MaxGaps
          /\ gaps' = IF gap THEN gaps ELSE gaps + 1
          /\ gap' = TRUE
          /\ hit' = hit \cup {frame}
          /\ UNCHANGED fifo
  /\ UNCHANGED <<sending, frame, matched, serial, sent, start, bodies>>

----------------------------------------------------------------------------
(* The task. *)

\* A plausible bug: two bytes are taken for the magic, which the end magic shares.
MatchedEarly(byte) ==
  IF byte # startMagic[matched + 1] THEN 0 ELSE IF matched = 0 THEN 1 ELSE Len(startMagic)

\* How much of the magic is matched after a byte.  A byte that breaks it is
\* dropped, even if it is the magic's first byte.
Matched(byte) == IF byte = startMagic[matched + 1] THEN matched + 1 ELSE 0

\* A byte that ends the magic, but is not where a frame's magic ends.
Misleading(byte) ==
  Matched(byte.value) = Len(startMagic) /\ byte.at # Len(startMagic)

\* wait_for_msg reads a byte.
WaitForMsg ==
  /\ matched < Len(startMagic)
  /\ fifo # <<>>
  /\ matched' = Matched(Head(fifo).value)
  /\ start' = Head(fifo)
  /\ fifo' = Tail(fifo)
  /\ misled' = IF Misleading(Head(fifo)) THEN misled + 1 ELSE misled
  /\ UNCHANGED <<host, serial, sent, delivered, upto, losses>>

\* The task reads a byte of the body.
ReadBody ==
  /\ matched = Len(startMagic) /\ Len(serial) < BodySize
  /\ fifo # <<>>
  /\ serial' = Append(serial, Head(fifo))
  /\ fifo' = Tail(fifo)
  /\ UNCHANGED <<host, matched, sent, start, bodies, losses>>

\* The topic of publishers[i]: the swerve publishers start at topics[3], the
\* topic of the last drive publisher.
Topic(i) == IF i <= Wheels THEN i ELSE i - 1

\* publish() puts a command in its own publisher's buffer.  spin then empties the
\* buffers from the head of the node's list, where init has put each publisher
\* before those initialised earlier: the last publisher is the first to send.
Turn(k) == NUM_MSG + 1 - k

\* The body read is what the computer sent after a start.
Exact ==
  /\ start.at = Len(startMagic)
  /\ \A k \in 1 .. BodySize :
       serial[k].frame = start.frame /\ serial[k].at = start.at + k

\* A plausible bug: the next body is read without waiting for its magic.
NoMagic == Len(startMagic)

\* The loop goes back to wait_for_msg.
FromTheStart == 0

\* The numbers are published, whatever the end magic is, and acknowledged.
Publish ==
  /\ Len(serial) = BodySize
  /\ sent' = [k \in Data |-> [topic |-> Topic(Turn(k)), command |-> serial[Turn(k)]]]
  /\ delivered' = IF Exact THEN delivered \cup {start.frame} ELSE delivered
  /\ upto' = IF Exact THEN Position(Last(serial)) ELSE Unknown
  /\ serial' = <<>>
  /\ matched' = FromTheStart
  /\ UNCHANGED <<host, fifo, start, misled, losses>>

RetransmitterNext == NextFrame \/ Arrive \/ WaitForMsg \/ ReadBody \/ Publish

RetransmitterSpec == RetransmitterInit /\ [][RetransmitterNext]_retransmitter_vars

----------------------------------------------------------------------------
(* Properties. *)

\* A body is garbled only by lost bytes, whatever the numbers are: the one read
\* after a frame's start is that frame's, and the one read after a body that was
\* as sent is the next frame's, start and all, unless bytes of it were lost.
\* Only after a loss can a magic in the numbers be taken for a start, although
\* the end magic goes unread and wait_for_msg drops the bytes that mislead it.
GarbledOnlyByLoss ==
  Len(serial) = BodySize =>
    /\ start.at = Len(startMagic) =>
         Exact \/ Position(Last(serial)) > Position(start) + BodySize
    /\ upto # Unknown => Exact \/ Position(Last(serial)) > upto + FrameSize

\* The frames all of whose bytes were read or lost.
Past == IF fifo # <<>> THEN Head(fifo).frame - 1
        ELSE IF at = FrameSize THEN frame ELSE frame - 1

\* A run of lost bytes costs the frames it hits and at most one more, which the
\* task swallows as the rest of a short one or misses the start of; a start that
\* was none costs one more again, the frame in which its body ends.  The frame
\* after that is published.
OneMorePerGap ==
  Len(serial) < BodySize =>
    Cardinality((1 .. Past) \ (delivered \cup hit)) <= gaps + misled

\* Each number of a frame that came whole goes out on the topic of its name: the
\* topics and the enum messages list the wheels' drive and swerve commands in the
\* same order ("FLS" is "/front_left_wheel_swerve_controller/command").
EachOnItsOwnTopic ==
  \A k \in DOMAIN sent :
    sent[k].command.frame \in delivered =>
      sent[k].command.at = Len(startMagic) + sent[k].topic
=============================================================================
