--------------------------- MODULE VideoAdaptation ---------------------------
(***************************************************************************)
(* UavVideoClient (uav/uav-video-client.cc) and UavVideoServer             *)
(* (uav/uav-video-server.cc).  The server sends each frame in several      *)
(* packets.  The client counts the frames in its buffer, lowers the video  *)
(* level after three rebuffering events, raises it when five seconds are   *)
(* buffered, and tells the server the new level in a packet.               *)
(*                                                                         *)
(* Both run in events of the simulator.  Between them are two transmit     *)
(* queues, each a drop-tail FIFO or a PriorityTxQueue; of the latter the   *)
(* model keeps that it is FIFO within a class and that any class with      *)
(* packets may be the next to send: a higher one may have spent its share. *)
(* Packets may get lost, those of the video and those with a level; there  *)
(* is no acknowledgement and no retry.                                     *)
(*                                                                         *)
(* The base classes are ns-3's: the player, which reads the buffer once a  *)
(* second, and the server's and the client's fields.                       *)
(***************************************************************************)
EXTENDS Integers, Sequences

CONSTANTS
  MaxVideoLevel,    \* MAX_VIDEO_LEVEL
  InitialLevel,     \* m_videoLevel of a new client and a new server
  FrameRate,        \* m_frameRate, frames the player uses in a second
  PacketsPerFrame,  \* packets the server cuts a frame into
  PriorityUplink,   \* does the client's device use a PriorityTxQueue?
  PriorityDownlink, \* does the server's device?
  LastFrame,        \* the video's last frame, a bound of the model
  MaxInFlight       \* bound of the model on video packets under way

ASSUME VideoAssumption ==
  /\ MaxVideoLevel \in Nat /\ InitialLevel \in 1 .. MaxVideoLevel
  /\ {FrameRate, PacketsPerFrame, MaxInFlight} \subseteq Nat \ {0}
  /\ {PriorityUplink, PriorityDownlink} \subseteq BOOLEAN
  /\ LastFrame \in Nat

VARIABLES
  level,       \* the client's m_videoLevel
  buffered,    \* m_currentBufferSize
  rebuffers,   \* m_rebufferCounter, up to 3: more makes no difference
  lastFrame,   \* m_lastRecvFrame
  seen,        \* history: the frames the client has had a packet of
  serverLevel, \* the server's m_videoLevel of this client
  nextFrame,   \* the server's m_sent
  uplink,      \* the levels under way to the server, a line for each class
  downlink,    \* the frame numbers under way to the client, likewise
  newestLost,  \* history: the level sent last got lost
  countedAt    \* history: the level at which the count last reached 3

videoVars == << level, buffered, rebuffers, lastFrame, seen, serverLevel,
                nextFrame, uplink, downlink, newestLost, countedAt >>

Frames == 0 .. LastFrame
NoFrame == -1
Classes == 0 .. 3
High == 1
Untagged == 2  \* the class of a packet without a tag

Empty == [c \in Classes |-> << >>]

\* A FIFO queue has one line, whatever the class of a packet.
Put(lines, byPriority, class, packets) ==
  [lines EXCEPT ![IF byPriority THEN class ELSE 0] = @ \o packets]

VideoInit ==
  /\ level = InitialLevel
  /\ buffered = 0
  /\ rebuffers = 0
  /\ lastFrame = NoFrame
  /\ seen = {}
  /\ serverLevel = InitialLevel
  /\ nextFrame = 0
  /\ uplink = Empty
  /\ downlink = Empty
  /\ newestLost = FALSE
  /\ countedAt = InitialLevel

-----------------------------------------------------------------------------
(***************************************************************************)
(* The server.                                                             *)
(***************************************************************************)
CalculateVideoPriority(videoLevel) == IF videoLevel >= 4 THEN 2 ELSE 3

\* A SendPacket for each packet of the frame, all with the frame's number.
SendFrame ==
  /\ nextFrame <= LastFrame
  /\ \A c \in Classes : Len(downlink[c]) + PacketsPerFrame <= MaxInFlight
  /\ downlink' = Put(downlink, PriorityDownlink, CalculateVideoPriority(serverLevel),
                     [i \in 1 .. PacketsPerFrame |-> nextFrame])
  /\ nextFrame' = nextFrame + 1
  /\ UNCHANGED << level, buffered, rebuffers, lastFrame, seen, serverLevel, uplink,
                  newestLost, countedAt >>

\* The base class reads a level from the socket.
ReceiveLevel(c) ==
  /\ uplink[c] # << >>
  /\ serverLevel' = Head(uplink[c])
  /\ uplink' = [uplink EXCEPT ![c] = Tail(@)]
  /\ UNCHANGED << level, buffered, rebuffers, lastFrame, seen, nextFrame, downlink,
                  newestLost, countedAt >>

\* The level sent last is the client's and the last in its line.
IsNewest(c) == uplink[c] = << level >>

LoseLevel(c) ==
  /\ uplink[c] # << >>
  /\ uplink' = [uplink EXCEPT ![c] = Tail(@)]
  /\ newestLost' = (newestLost \/ IsNewest(c))
  /\ UNCHANGED << level, buffered, rebuffers, lastFrame, seen, serverLevel,
                  nextFrame, downlink, countedAt >>

-----------------------------------------------------------------------------
(***************************************************************************)
(* The client.                                                             *)
(***************************************************************************)
CountEveryPacket(frameNum) == buffered + 1

CountFrame(frameNum) == IF frameNum = lastFrame THEN buffered ELSE buffered + 1

LowerWithoutFloor == rebuffers >= 3

MustLower == rebuffers >= 3 /\ level > 1

Lowered == IF MustLower THEN level - 1 ELSE level

CounterKept == rebuffers

CounterAfter == IF MustLower THEN 0 ELSE rebuffers

MustRaise(frames) == frames > 5 * FrameRate /\ Lowered < MaxVideoLevel

\* The level packets of a call: the lowered level, then the raised one.
LowerPart == IF MustLower THEN << Lowered >> ELSE << >>

TellOldLevel(frames) == IF MustRaise(frames) THEN << Lowered >> ELSE << >>

RaiseUntold(frames) == << >>

RaisePart(frames) == IF MustRaise(frames) THEN << Lowered + 1 >> ELSE << >>

\* One packet of HandleRead's loop, which only reads what is there, up to the
\* packets it sends.
ReadPacket(c) ==
  /\ downlink[c] # << >>
  /\ downlink' = [downlink EXCEPT ![c] = Tail(@)]
  /\ lastFrame' = Head(downlink[c])
  /\ seen' = seen \cup {lastFrame'}
  /\ rebuffers' = CounterAfter
  /\ LET frames == CountFrame(lastFrame')
     IN  IF MustRaise(frames)
           THEN level' = Lowered + 1 /\ buffered' = FrameRate
           ELSE level' = Lowered /\ buffered' = frames
  /\ UNCHANGED << serverLevel, nextFrame, countedAt >>

HandleRead(c) ==
  /\ ReadPacket(c)
  /\ uplink' = Put(Put(uplink, PriorityUplink, High, LowerPart),
                   PriorityUplink, Untagged, RaisePart(CountFrame(lastFrame')))
  /\ newestLost' = (newestLost /\ level' = level)

\* The player plays a second of video, or notes that it cannot.  Whether
\* playing forgets earlier rebuffering is left open.
ReadFromBuffer ==
  /\ IF buffered >= FrameRate
       THEN /\ buffered' = buffered - FrameRate
            /\ rebuffers' \in {0, rebuffers}
       ELSE /\ buffered' = buffered
            /\ rebuffers' = IF rebuffers < 3 THEN rebuffers + 1 ELSE rebuffers
  /\ countedAt' = IF rebuffers < 3 /\ rebuffers' = 3 THEN level ELSE countedAt
  /\ UNCHANGED << level, lastFrame, seen, serverLevel, nextFrame, uplink, downlink,
                  newestLost >>

LoseVideoPacket(c) ==
  /\ downlink[c] # << >>
  /\ downlink' = [downlink EXCEPT ![c] = Tail(@)]
  /\ UNCHANGED << level, buffered, rebuffers, lastFrame, seen, serverLevel,
                  nextFrame, uplink, newestLost, countedAt >>

VideoNext ==
  \/ SendFrame
  \/ ReadFromBuffer
  \/ \E c \in Classes : ReceiveLevel(c) \/ LoseLevel(c)
  \/ \E c \in Classes : HandleRead(c) \/ LoseVideoPacket(c)

VideoSteps == VideoInit /\ [][VideoNext]_videoVars

\* The device goes on sending: a level does not stay under way for ever.
VideoSpec == VideoSteps /\ WF_videoVars(\E c \in Classes : ReceiveLevel(c))

-----------------------------------------------------------------------------
(***************************************************************************)
(* Properties.                                                             *)
(***************************************************************************)

VideoTypeOK ==
  /\ level \in 1 .. MaxVideoLevel
  /\ serverLevel \in 1 .. MaxVideoLevel
  /\ buffered \in Nat
  /\ rebuffers \in 0 .. 3
  /\ lastFrame \in Frames \cup {NoFrame}
  /\ seen \subseteq Frames
  /\ nextFrame \in 0 .. LastFrame + 1
  /\ uplink \in [Classes -> Seq(1 .. MaxVideoLevel)]
  /\ downlink \in [Classes -> Seq(Frames)]
  /\ newestLost \in BOOLEAN
  /\ countedAt \in 1 .. MaxVideoLevel

\* Documented ("reflect the change to the server"): when no level is under
\* way any more, the server sends at the level the client has chosen.  A lost
\* level does harm only until the next one arrives, since levels are absolute.
LevelsAgree == uplink = Empty /\ ~newestLost => serverLevel = level

\* A frame is counted into the buffer once, however many packets it has and
\* whichever of them are lost.
FramesCountedOnce ==
  [][buffered' > buffered => lastFrame' \notin seen]_videoVars

\* What old rebuffering can do.  The count outlives a stay at level 1, however
\* far the buffer recovers in the meantime, and also the raise that ends it: the
\* next packet then lowers the level on the strength of the old count.  But that
\* is all: the count takes back this one raise and is used up.  At any other
\* level it lowers the one at which the rebuffering was counted.
OldCountTakesBackOneRaise ==
  rebuffers = 3 => level = countedAt \/ (countedAt = 1 /\ level = 2)

\* Over a FIFO queue the server goes through the levels the client has chosen,
\* none repeated or swapped and none left out but those lost, and goes on as
\* long as there are any; the client chooses them one step at a time.
Follower == INSTANCE LevelFollower
  WITH Levels <- 1 .. MaxVideoLevel, chosen <- level, pending <- uplink[0],
       followed <- serverLevel
FollowsClient == Follower!Spec

=============================================================================
