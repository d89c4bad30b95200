------------------------ MODULE VideoAdaptationProofs ------------------------
(***************************************************************************)
(* Theorems about VideoAdaptation, for every number of levels and frames,  *)
(* every frame rate and frame size and any number of packets under way.    *)
(* What is said of the order of packets is about FIFO queues.              *)
(***************************************************************************)
EXTENDS VideoAdaptation, SequenceTheorems, TLAPS

-----------------------------------------------------------------------------
(***************************************************************************)
(* Type correctness.                                                       *)
(***************************************************************************)

\* The bounds of the model are numbers.
LEMMA Numbers ==
  /\ MaxVideoLevel \in Nat /\ InitialLevel \in 1 .. MaxVideoLevel
  /\ FrameRate \in Nat /\ FrameRate > 0
  /\ PacketsPerFrame \in Nat /\ PacketsPerFrame > 0
  /\ LastFrame \in Nat
BY VideoAssumption

\* What a line holds without its head.
LEMMA TailOfLine ==
  ASSUME NEW S, NEW lines \in [Classes -> Seq(S)], NEW c \in Classes, lines[c] # << >>
  PROVE  /\ Head(lines[c]) \in S
         /\ [lines EXCEPT ![c] = Tail(@)] \in [Classes -> Seq(S)]
<1>1. lines[c] \in Seq(S)
  OBVIOUS
<1>2. Head(lines[c]) \in S /\ Tail(lines[c]) \in Seq(S)
  BY <1>1, HeadTailProperties
<1> QED BY <1>2

\* Packets put into lines of their type.
LEMMA PutIntoLine ==
  ASSUME NEW S, NEW lines \in [Classes -> Seq(S)], NEW byPriority \in BOOLEAN,
         NEW class \in Classes, NEW packets \in Seq(S)
  PROVE  Put(lines, byPriority, class, packets) \in [Classes -> Seq(S)]
<1> DEFINE c == IF byPriority THEN class ELSE 0
<1>1. c \in Classes
  BY DEF Classes
<1>2. lines[c] \o packets \in Seq(S)
  BY <1>1, ConcatProperties
<1> QED BY <1>1, <1>2 DEF Put

\* A call sends a packet of each kind or none.
LEMMA OneOrNone ==
  ASSUME NEW S, NEW b \in BOOLEAN, NEW x, b => x \in S
  PROVE  (IF b THEN << x >> ELSE << >>) \in Seq(S)
OBVIOUS

\* What HandleRead computes from the state: the level lowered or kept, and
\* the level packets it sends.
LEMMA HandleReadTypes ==
  ASSUME VideoTypeOK, NEW frames \in Nat
  PROVE  /\ Lowered \in 1 .. MaxVideoLevel
         /\ MustRaise(frames) => Lowered + 1 \in 1 .. MaxVideoLevel
         /\ CounterAfter \in 0 .. 3
         /\ LowerPart \in Seq(1 .. MaxVideoLevel)
         /\ RaisePart(frames) \in Seq(1 .. MaxVideoLevel)
<1>1. Lowered \in 1 .. MaxVideoLevel
  BY Numbers DEF VideoTypeOK, Lowered, MustLower
<1>2. MustRaise(frames) => Lowered + 1 \in 1 .. MaxVideoLevel
  BY <1>1, Numbers DEF MustRaise
<1>3. CounterAfter \in 0 .. 3
  BY DEF VideoTypeOK, CounterAfter
<1>4. LowerPart \in Seq(1 .. MaxVideoLevel)
  BY <1>1, OneOrNone DEF LowerPart
<1>5. RaisePart(frames) \in Seq(1 .. MaxVideoLevel)
  BY <1>2, OneOrNone DEF RaisePart
<1> QED BY <1>1, <1>2, <1>3, <1>4, <1>5

\* A new client and a new server have the types.
LEMMA VideoInitTypes == VideoInit => VideoTypeOK
<1>1. \A S : Empty \in [Classes -> Seq(S)]
  BY DEF Empty
<1> SUFFICES ASSUME VideoInit PROVE VideoTypeOK
  OBVIOUS
<1>2. uplink \in [Classes -> Seq(1 .. MaxVideoLevel)] /\ downlink \in [Classes -> Seq(Frames)]
  BY <1>1 DEF VideoInit
<1>3. /\ level \in 1 .. MaxVideoLevel /\ serverLevel \in 1 .. MaxVideoLevel
      /\ countedAt \in 1 .. MaxVideoLevel
  BY Numbers DEF VideoInit
<1>4. buffered \in Nat /\ rebuffers \in 0 .. 3 /\ nextFrame \in 0 .. LastFrame + 1
  BY Numbers DEF VideoInit
<1>5. lastFrame \in Frames \cup {NoFrame} /\ seen \subseteq Frames /\ newestLost \in BOOLEAN
  BY DEF VideoInit
<1> QED BY <1>2, <1>3, <1>4, <1>5 DEF VideoTypeOK

\* Every step keeps them.
LEMMA VideoTypeStep == VideoTypeOK /\ [VideoNext]_videoVars => VideoTypeOK'
<1> SUFFICES ASSUME VideoTypeOK, [VideoNext]_videoVars PROVE VideoTypeOK'
  OBVIOUS
<1> USE DEF VideoTypeOK
<1>1. CASE SendFrame
  <2>1. nextFrame \in Frames
    BY <1>1 DEF SendFrame, Frames
  <2>2. [i \in 1 .. PacketsPerFrame |-> nextFrame] \in Seq(Frames)
    BY <2>1, Numbers, IsASeq
  <2>3. CalculateVideoPriority(serverLevel) \in Classes
    BY DEF CalculateVideoPriority, Classes
  <2>4. downlink' \in [Classes -> Seq(Frames)]
    BY <1>1, <2>2, <2>3, PutIntoLine, VideoAssumption DEF SendFrame
  <2>5. nextFrame' \in 0 .. LastFrame + 1
    BY <1>1, Numbers DEF SendFrame
  <2> QED BY <1>1, <2>4, <2>5 DEF SendFrame
<1>2. CASE ReadFromBuffer
  BY <1>2, Numbers DEF ReadFromBuffer
<1>3. ASSUME NEW c \in Classes, ReceiveLevel(c) PROVE VideoTypeOK'
  BY <1>3, TailOfLine DEF ReceiveLevel
<1>4. ASSUME NEW c \in Classes, LoseLevel(c) PROVE VideoTypeOK'
  BY <1>4, TailOfLine DEF LoseLevel, IsNewest
<1>5. ASSUME NEW c \in Classes, HandleRead(c) PROVE VideoTypeOK'
  <2>1. /\ Head(downlink[c]) \in Frames
        /\ downlink' \in [Classes -> Seq(Frames)]
        /\ lastFrame' = Head(downlink[c])
        /\ seen' = seen \cup {lastFrame'}
    BY <1>5, TailOfLine DEF HandleRead, ReadPacket
  <2> DEFINE frames == CountFrame(lastFrame')
  <2>2. frames \in Nat
    BY DEF CountFrame
  <2>3. /\ Lowered \in 1 .. MaxVideoLevel
        /\ MustRaise(frames) => Lowered + 1 \in 1 .. MaxVideoLevel
        /\ CounterAfter \in 0 .. 3
        /\ LowerPart \in Seq(1 .. MaxVideoLevel)
        /\ RaisePart(frames) \in Seq(1 .. MaxVideoLevel)
    BY <2>2, HandleReadTypes
  <2>4. High \in Classes /\ Untagged \in Classes
    BY DEF High, Untagged, Classes
  <2>5. Put(uplink, PriorityUplink, High, LowerPart) \in [Classes -> Seq(1 .. MaxVideoLevel)]
    BY <2>3, <2>4, PutIntoLine, VideoAssumption
  <2>6. uplink' \in [Classes -> Seq(1 .. MaxVideoLevel)]
    <3>1. uplink' = Put(Put(uplink, PriorityUplink, High, LowerPart),
                        PriorityUplink, Untagged, RaisePart(frames))
      BY <1>5 DEF HandleRead
    <3> HIDE DEF frames
    <3> QED BY <2>3, <2>4, <2>5, <3>1, PutIntoLine, VideoAssumption
  <2>7. level' \in 1 .. MaxVideoLevel /\ buffered' \in Nat
    BY <1>5, <2>2, <2>3, Numbers DEF HandleRead, ReadPacket
  <2>8. /\ rebuffers' = CounterAfter
        /\ UNCHANGED << serverLevel, nextFrame, countedAt >>
        /\ newestLost' \in BOOLEAN
    BY <1>5 DEF HandleRead, ReadPacket
  <2> QED BY <2>1, <2>3, <2>6, <2>7, <2>8
<1>6. ASSUME NEW c \in Classes, LoseVideoPacket(c) PROVE VideoTypeOK'
  BY <1>6, TailOfLine DEF LoseVideoPacket
<1>7. CASE UNCHANGED videoVars
  BY <1>7 DEF videoVars
<1> QED BY <1>1, <1>2, <1>3, <1>4, <1>5, <1>6, <1>7 DEF VideoNext

\* VideoTypeOK holds in every reachable state.
THEOREM VideoTypeCorrect == VideoSpec => []VideoTypeOK
BY VideoInitTypes, VideoTypeStep, PTL DEF VideoSpec, VideoSteps

-----------------------------------------------------------------------------
(***************************************************************************)
(* What the count of rebuffering events can do.  Two invariants: where the *)
(* count stands at three, the level is the one it was counted at or, from  *)
(* level 1, the next one; and where it is about to lower the level, the    *)
(* account of the buffer holds at most a second.  Three events end with a  *)
(* buffer that does not hold one, and above level 1 the next packet uses   *)
(* the count up, so that the buffer never fills under it.  A raise under a *)
(* standing count starts from level 1 and sets the account to one second.  *)
(***************************************************************************)
ShortWhenLowered == MustLower => buffered <= FrameRate

\* Both hold for new applications.
LEMMA InitiallyNothingCounted == VideoInit => ShortWhenLowered /\ OldCountTakesBackOneRaise
BY DEF VideoInit, ShortWhenLowered, MustLower, OldCountTakesBackOneRaise

\* Every step keeps the account short.
LEMMA LowerStep ==
  VideoTypeOK /\ ShortWhenLowered /\ [VideoNext]_videoVars => ShortWhenLowered'
<1> SUFFICES ASSUME VideoTypeOK, ShortWhenLowered, [VideoNext]_videoVars
             PROVE  ShortWhenLowered'
  OBVIOUS
<1>1. level \in Int /\ buffered \in Nat /\ rebuffers \in 0 .. 3 /\ FrameRate \in Nat /\ FrameRate > 0
  BY Numbers DEF VideoTypeOK
<1>2. CASE UNCHANGED << level, buffered, rebuffers >>
  BY <1>2 DEF ShortWhenLowered, MustLower
<1>3. CASE ReadFromBuffer
  BY <1>1, <1>3 DEF ReadFromBuffer, ShortWhenLowered, MustLower
<1>4. ASSUME NEW c \in Classes, HandleRead(c) PROVE ShortWhenLowered'
  <2>1. rebuffers' = CounterAfter
    BY <1>4 DEF HandleRead, ReadPacket
  <2>2. CASE MustLower
    BY <2>1, <2>2 DEF CounterAfter, ShortWhenLowered, MustLower
  <2>3. CASE ~MustLower
    <3>1. rebuffers' = rebuffers /\ (level' = level \/ buffered' = FrameRate)
      BY <1>4, <2>1, <2>3 DEF HandleRead, ReadPacket, CounterAfter, Lowered
    <3> QED BY <1>1, <2>3, <3>1 DEF ShortWhenLowered, MustLower
  <2> QED BY <2>2, <2>3
<1>5. CASE UNCHANGED videoVars
  BY <1>2, <1>5 DEF videoVars
<1> QED
  BY <1>2, <1>3, <1>4, <1>5 DEF VideoNext, SendFrame, ReceiveLevel, LoseLevel, LoseVideoPacket

\* Every step keeps the count at its level.
LEMMA CountStep ==
  VideoTypeOK /\ OldCountTakesBackOneRaise /\ [VideoNext]_videoVars
    => OldCountTakesBackOneRaise'
<1> SUFFICES ASSUME VideoTypeOK, OldCountTakesBackOneRaise, [VideoNext]_videoVars
             PROVE  OldCountTakesBackOneRaise'
  OBVIOUS
<1>1. level \in 1 .. MaxVideoLevel /\ MaxVideoLevel \in Nat /\ rebuffers \in 0 .. 3
  BY Numbers DEF VideoTypeOK
<1>2. CASE UNCHANGED << level, rebuffers, countedAt >>
  BY <1>2 DEF OldCountTakesBackOneRaise
<1>3. CASE ReadFromBuffer
  <2>1. level' = level /\ rebuffers' \in 0 .. 3
    BY <1>1, <1>3 DEF ReadFromBuffer
  <2>2. CASE rebuffers < 3 /\ rebuffers' = 3
    BY <1>3, <2>1, <2>2 DEF ReadFromBuffer, OldCountTakesBackOneRaise
  <2>3. CASE ~(rebuffers < 3 /\ rebuffers' = 3)
    <3>1. countedAt' = countedAt /\ (rebuffers' = 3 => rebuffers = 3)
      BY <1>1, <1>3, <2>3 DEF ReadFromBuffer
    <3> QED BY <2>1, <3>1 DEF OldCountTakesBackOneRaise
  <2> QED BY <2>2, <2>3
<1>4. ASSUME NEW c \in Classes, HandleRead(c) PROVE OldCountTakesBackOneRaise'
  <2>1. rebuffers' = CounterAfter /\ countedAt' = countedAt
    BY <1>4 DEF HandleRead, ReadPacket
  <2>2. CASE MustLower
    BY <2>1, <2>2 DEF CounterAfter, OldCountTakesBackOneRaise
  <2>3. CASE ~MustLower
    <3>1. rebuffers' = rebuffers /\ level' \in {level, level + 1}
      BY <1>4, <2>1, <2>3 DEF HandleRead, ReadPacket, CounterAfter, Lowered
    <3>2. rebuffers = 3 => level = 1
      BY <1>1, <2>3 DEF MustLower
    <3> QED BY <2>1, <3>1, <3>2 DEF OldCountTakesBackOneRaise
  <2> QED BY <2>2, <2>3
<1>5. CASE UNCHANGED videoVars
  BY <1>2, <1>5 DEF videoVars
<1> QED
  BY <1>2, <1>3, <1>4, <1>5 DEF VideoNext, SendFrame, ReceiveLevel, LoseLevel, LoseVideoPacket

\* Old rebuffering takes back one raise at most, for any number of levels, any
\* frame rate and whatever is lost.
THEOREM OldCountBounded == VideoSpec => []OldCountTakesBackOneRaise
<1>1. VideoInit => VideoTypeOK /\ OldCountTakesBackOneRaise
  BY VideoInitTypes, InitiallyNothingCounted
<1>2. VideoTypeOK /\ OldCountTakesBackOneRaise /\ [VideoNext]_videoVars
        => (VideoTypeOK /\ OldCountTakesBackOneRaise)'
  BY VideoTypeStep, CountStep
<1> QED BY <1>1, <1>2, PTL DEF VideoSpec, VideoSteps

\* What a short account is good for: a call that lowers the level does not
\* raise it.
LEMMA NeverLowersAndRaises ==
  ASSUME VideoTypeOK, ShortWhenLowered, NEW frames \in Nat, frames <= buffered + 1,
         MustRaise(frames)
  PROVE  ~MustLower
BY Numbers DEF VideoTypeOK, ShortWhenLowered, MustRaise

-----------------------------------------------------------------------------
(***************************************************************************)
(* Over FIFO queues, no frame is counted twice.  A line of a FIFO queue is *)
(* sorted, and the client has seen nothing beyond its last frame.          *)
(***************************************************************************)
FrameOrder ==
  /\ \A c \in Classes \ {0} : downlink[c] = << >>
  /\ \A i, j \in 1 .. Len(downlink[0]) : i <= j => downlink[0][i] <= downlink[0][j]
  /\ \A i \in 1 .. Len(downlink[0]) :
       lastFrame <= downlink[0][i] /\ downlink[0][i] < nextFrame
  /\ lastFrame < nextFrame
  /\ \A f \in seen : f <= lastFrame

\* Empty lines are sorted.
LEMMA FrameOrderInit == VideoInit => FrameOrder
BY DEF VideoInit, FrameOrder, Empty, Classes, NoFrame

\* A sorted line stays sorted when its head is taken, and the head is the
\* least of it.
LEMMA SortedTail ==
  ASSUME NEW s \in Seq(Int), s # << >>,
         \A i, j \in 1 .. Len(s) : i <= j => s[i] <= s[j]
  PROVE  /\ Len(Tail(s)) = Len(s) - 1 /\ Len(s) \in Nat \ {0}
         /\ Head(s) = s[1]
         /\ \A i \in 1 .. Len(Tail(s)) : Tail(s)[i] = s[i + 1] /\ Head(s) <= Tail(s)[i]
         /\ \A i, j \in 1 .. Len(Tail(s)) : i <= j => Tail(s)[i] <= Tail(s)[j]
<1>1. Head(s) = s[1]
  OBVIOUS
<1>2. Len(Tail(s)) = Len(s) - 1 /\ Len(s) \in Nat \ {0}
  BY HeadTailProperties, EmptySeq
<1>3. \A i \in 1 .. Len(Tail(s)) : Tail(s)[i] = s[i + 1]
  BY HeadTailProperties
<1> QED BY <1>1, <1>2, <1>3

\* A sorted line to which packets of one frame are added, the frame being
\* beyond all in the line.
LEMMA SortedConcat ==
  ASSUME NEW s \in Seq(Int), NEW t \in Seq(Int), NEW n \in Int,
         \A i, j \in 1 .. Len(s) : i <= j => s[i] <= s[j],
         \A i \in 1 .. Len(s) : s[i] < n,
         \A i \in 1 .. Len(t) : t[i] = n
  PROVE  /\ \A i, j \in 1 .. Len(s \o t) : i <= j => (s \o t)[i] <= (s \o t)[j]
         /\ \A i \in 1 .. Len(s \o t) : (s \o t)[i] = n \/ (i \in 1 .. Len(s) /\ (s \o t)[i] = s[i])
<1> DEFINE st == s \o t
<1>1. Len(s) \in Nat /\ Len(t) \in Nat /\ Len(st) = Len(s) + Len(t)
  BY LenProperties, ConcatProperties
<1>2. \A i \in 1 .. Len(st) : IF i <= Len(s) THEN st[i] = s[i] ELSE st[i] = n
  <2> TAKE i \in 1 .. Len(st)
  <2>1. st[i] = IF i <= Len(s) THEN s[i] ELSE t[i - Len(s)]
    BY <1>1, ConcatProperties
  <2>2. i > Len(s) => i - Len(s) \in 1 .. Len(t)
    BY <1>1
  <2> QED BY <2>1, <2>2, <1>1
<1>3. \A i \in 1 .. Len(s) : s[i] \in Int
  BY ElementOfSeq
<1> HIDE DEF st
<1>4. \A i, j \in 1 .. Len(st) : i <= j => st[i] <= st[j]
  BY <1>1, <1>2, <1>3
<1>5. \A i \in 1 .. Len(st) : st[i] = n \/ (i \in 1 .. Len(s) /\ st[i] = s[i])
  BY <1>1, <1>2
<1> QED BY <1>4, <1>5 DEF st

\* The line at the client's end of a FIFO queue is one of numbers.
LEMMA LineOfFrames == VideoTypeOK => downlink[0] \in Seq(Int) /\ downlink \in [Classes -> Seq(Frames)]
<1>1. Frames \subseteq Int /\ 0 \in Classes
  BY Numbers DEF Frames, Classes
<1>2. ASSUME VideoTypeOK PROVE downlink[0] \in Seq(Frames)
  BY <1>1, <1>2 DEF VideoTypeOK
<1> QED BY <1>1, <1>2, SeqMonotonic DEF VideoTypeOK

\* Taking a packet from a line, to read or to lose it, keeps the order.
LEMMA TakeKeepsOrder ==
  ASSUME VideoTypeOK, FrameOrder, NEW c \in Classes, downlink[c] # << >>,
         downlink' = [downlink EXCEPT ![c] = Tail(@)], nextFrame' = nextFrame,
         \/ lastFrame' = lastFrame /\ seen' = seen
         \/ lastFrame' = Head(downlink[c]) /\ seen' = seen \cup {lastFrame'}
  PROVE  FrameOrder'
<1> DEFINE s == downlink[0]
<1>1. c = 0 /\ s # << >>
  BY DEF FrameOrder
<1>2. s \in Seq(Int) /\ downlink \in [Classes -> Seq(Frames)]
  BY LineOfFrames
<1>3. downlink' = [downlink EXCEPT ![0] = Tail(s)]
  BY <1>1
<1>4. /\ Len(Tail(s)) = Len(s) - 1 /\ Len(s) \in Nat \ {0}
      /\ Head(s) = s[1]
      /\ \A i \in 1 .. Len(Tail(s)) : Tail(s)[i] = s[i + 1] /\ Head(s) <= Tail(s)[i]
      /\ \A i, j \in 1 .. Len(Tail(s)) : i <= j => Tail(s)[i] <= Tail(s)[j]
  BY <1>1, <1>2, SortedTail DEF FrameOrder
<1>5. downlink'[0] = Tail(s) /\ \A d \in Classes \ {0} : downlink'[d] = << >>
  BY <1>2, <1>3 DEF FrameOrder, Classes
<1>6. lastFrame <= s[1] /\ s[1] < nextFrame
  BY <1>4 DEF FrameOrder
<1>7. lastFrame \in Int /\ nextFrame \in Int /\ s[1] \in Int /\ \A f \in seen : f \in Int
  BY <1>2, <1>4, ElementOfSeq, Numbers DEF VideoTypeOK, Frames, NoFrame
<1>8. lastFrame' \in {lastFrame, s[1]} /\ \A f \in seen' : f \in seen \/ f = lastFrame'
  BY <1>1, <1>4
<1>9. \A i \in 1 .. Len(Tail(s)) : lastFrame' <= Tail(s)[i] /\ Tail(s)[i] < nextFrame
  BY <1>4, <1>8 DEF FrameOrder
<1>10. \A f \in seen' : f <= lastFrame'
  BY <1>6, <1>7, <1>8 DEF FrameOrder
<1>11. lastFrame' < nextFrame
  BY <1>6, <1>8 DEF FrameOrder
<1> HIDE DEF s
<1> QED BY <1>4, <1>5, <1>9, <1>10, <1>11 DEF FrameOrder

\* Every step keeps the order.
LEMMA FrameOrderStep ==
  ~PriorityDownlink /\ VideoTypeOK /\ FrameOrder /\ [VideoNext]_videoVars => FrameOrder'
<1> SUFFICES ASSUME ~PriorityDownlink, VideoTypeOK, FrameOrder, [VideoNext]_videoVars
             PROVE  FrameOrder'
  OBVIOUS
<1>1. CASE UNCHANGED << downlink, lastFrame, nextFrame, seen >>
  BY <1>1 DEF FrameOrder
<1>2. CASE SendFrame
  <2> DEFINE s == downlink[0]
             t == [i \in 1 .. PacketsPerFrame |-> nextFrame]
  <2>1. s \in Seq(Int) /\ downlink \in [Classes -> Seq(Frames)]
    BY LineOfFrames
  <2>2. nextFrame \in Int /\ lastFrame \in Int
    BY Numbers DEF VideoTypeOK, Frames, NoFrame
  <2>3. t \in Seq(Int) /\ Len(t) = PacketsPerFrame /\ \A i \in 1 .. Len(t) : t[i] = nextFrame
    BY <2>2, Numbers, IsASeq
  <2>4. /\ \A i, j \in 1 .. Len(s \o t) : i <= j => (s \o t)[i] <= (s \o t)[j]
        /\ \A i \in 1 .. Len(s \o t) :
             (s \o t)[i] = nextFrame \/ (i \in 1 .. Len(s) /\ (s \o t)[i] = s[i])
    <3> HIDE DEF t
    <3> QED BY <2>1, <2>2, <2>3, SortedConcat DEF FrameOrder
  <2>5. downlink' = [downlink EXCEPT ![0] = s \o t]
    BY <1>2 DEF SendFrame, Put
  <2>6. downlink'[0] = s \o t /\ \A c \in Classes \ {0} : downlink'[c] = << >>
    <3> HIDE DEF t
    <3>1. 0 \in Classes
      BY DEF Classes
    <3> QED BY <2>1, <2>5, <3>1 DEF FrameOrder
  <2>7. nextFrame' = nextFrame + 1 /\ lastFrame' = lastFrame /\ seen' = seen
    BY <1>2 DEF SendFrame
  <2> HIDE DEF t
  <2>8. \A i \in 1 .. Len(s) : s[i] \in Int
    BY <2>1, ElementOfSeq
  <2>9. \A i \in 1 .. Len(s \o t) : lastFrame <= (s \o t)[i] /\ (s \o t)[i] < nextFrame + 1
    BY <2>2, <2>4, <2>8 DEF FrameOrder
  <2> HIDE DEF s
  <2> QED BY <2>2, <2>4, <2>6, <2>7, <2>9 DEF FrameOrder
<1>3. ASSUME NEW c \in Classes, HandleRead(c) PROVE FrameOrder'
  BY <1>3, TakeKeepsOrder DEF HandleRead, ReadPacket
<1>4. ASSUME NEW c \in Classes, LoseVideoPacket(c) PROVE FrameOrder'
  BY <1>4, TakeKeepsOrder DEF LoseVideoPacket
<1> QED
  BY <1>1, <1>2, <1>3, <1>4 DEF VideoNext, videoVars, ReadFromBuffer, ReceiveLevel, LoseLevel

\* When a packet fills the buffer it is the first of its frame: of an ordered
\* line, a head that is not the last frame is beyond all frames seen.  The
\* buffer a raise leaves is never larger than the one it found.
LEMMA CountedFrameIsNew ==
  VideoTypeOK /\ FrameOrder /\ [VideoNext]_videoVars
    => (buffered' > buffered => lastFrame' \notin seen)
<1> SUFFICES ASSUME VideoTypeOK, FrameOrder, [VideoNext]_videoVars, buffered' > buffered
             PROVE  lastFrame' \notin seen
  OBVIOUS
<1>1. buffered \in Nat /\ FrameRate \in Nat /\ FrameRate > 0
  BY Numbers DEF VideoTypeOK
<1>2. CASE buffered' = buffered
  BY <1>1, <1>2
<1>3. CASE ReadFromBuffer
  BY <1>1, <1>3 DEF ReadFromBuffer
<1>4. ASSUME NEW c \in Classes, HandleRead(c) PROVE lastFrame' \notin seen
  <2> DEFINE frames == CountFrame(lastFrame')
  <2>1. downlink[c] # << >> /\ lastFrame' = Head(downlink[c])
    BY <1>4 DEF HandleRead, ReadPacket
  <2>2. c = 0
    BY <2>1 DEF FrameOrder
  <2>3. downlink[0] \in Seq(Int)
    BY LineOfFrames
  <2>4. 1 \in 1 .. Len(downlink[0]) /\ lastFrame' = downlink[0][1] /\ lastFrame' \in Int
    BY <2>1, <2>2, <2>3, EmptySeq
  <2>5. lastFrame <= lastFrame'
    BY <2>4 DEF FrameOrder
  <2>6. frames \in Nat /\ frames <= buffered + 1 /\ (frames > buffered => lastFrame' # lastFrame)
    BY <1>1 DEF CountFrame
  <2>7. buffered' = frames \/ (frames > 5 * FrameRate /\ buffered' = FrameRate)
    BY <1>4 DEF HandleRead, ReadPacket, MustRaise
  <2>8. lastFrame' # lastFrame
    <3> HIDE DEF frames
    <3> QED BY <1>1, <2>6, <2>7
  <2>9. lastFrame \in Int
    BY Numbers DEF VideoTypeOK, Frames, NoFrame
  <2> QED BY <2>4, <2>5, <2>8, <2>9 DEF FrameOrder
<1> QED
  BY <1>2, <1>3, <1>4
  DEF VideoNext, videoVars, SendFrame, ReceiveLevel, LoseLevel, LoseVideoPacket

\* Over a FIFO queue no frame is counted into the buffer twice, however the
\* server cuts it into packets and whichever of them are lost.
THEOREM NoFrameCountedTwice == ~PriorityDownlink /\ VideoSpec => FramesCountedOnce
<1> SUFFICES ASSUME ~PriorityDownlink PROVE VideoSpec => FramesCountedOnce
  OBVIOUS
<1>1. VideoInit => VideoTypeOK /\ FrameOrder
  BY VideoInitTypes, FrameOrderInit
<1>2. VideoTypeOK /\ FrameOrder /\ [VideoNext]_videoVars => (VideoTypeOK /\ FrameOrder)'
  BY VideoTypeStep, FrameOrderStep
<1>3. VideoTypeOK /\ FrameOrder /\ [VideoNext]_videoVars
        => [buffered' > buffered => lastFrame' \notin seen]_videoVars
  BY CountedFrameIsNew
<1> QED BY <1>1, <1>2, <1>3, PTL DEF VideoSpec, VideoSteps, FramesCountedOnce

-----------------------------------------------------------------------------
(***************************************************************************)
(* Over a FIFO queue the server follows the client.  The last level under  *)
(* way is the client's; when none is, the server's is, unless the newest   *)
(* got lost.                                                               *)
(***************************************************************************)
LevelsChain ==
  /\ \A c \in Classes \ {0} : uplink[c] = << >>
  /\ uplink[0] # << >> => uplink[0][Len(uplink[0])] = level
  /\ uplink[0] = << >> /\ ~newestLost => serverLevel = level

\* Both start with the same level.
LEMMA LevelsChainInit == VideoInit => LevelsChain
BY DEF VideoInit, LevelsChain, Empty, Classes

\* A line of levels is a sequence of them.
LEMMA LineOfLevels ==
  VideoTypeOK => /\ 0 \in Classes /\ uplink[0] \in Seq(1 .. MaxVideoLevel)
                 /\ uplink \in [Classes -> Seq(1 .. MaxVideoLevel)]
<1>1. 0 \in Classes
  BY DEF Classes
<1> QED BY <1>1 DEF VideoTypeOK

\* What a call of HandleRead tells the server over a FIFO queue: nothing when
\* it leaves the level alone, else the new level, one step from the old one.
LEMMA TellsEachStep ==
  ASSUME ~PriorityUplink, VideoTypeOK, ShortWhenLowered, NEW c \in Classes, HandleRead(c)
  PROVE  \/ level' = level /\ uplink' = uplink /\ newestLost' = newestLost
         \/ /\ level' \in (1 .. MaxVideoLevel) \cap {level - 1, level + 1}
            /\ uplink' = [uplink EXCEPT ![0] = Append(@, level')]
            /\ newestLost' = FALSE
<1> DEFINE frames == CountFrame(lastFrame')
           line == uplink[0]
<1>1. /\ line \in Seq(1 .. MaxVideoLevel) /\ 0 \in Classes
      /\ uplink \in [Classes -> Seq(1 .. MaxVideoLevel)]
  BY LineOfLevels
<1>2. frames \in Nat /\ frames <= buffered + 1
  BY DEF CountFrame, VideoTypeOK
<1>3. uplink' = Put(Put(uplink, PriorityUplink, High, LowerPart),
                    PriorityUplink, Untagged, RaisePart(frames))
  BY DEF HandleRead
<1>4. newestLost' = (newestLost /\ level' = level) /\ newestLost \in BOOLEAN
  BY DEF HandleRead, VideoTypeOK
<1>5. level' = IF MustRaise(frames) THEN Lowered + 1 ELSE Lowered
  BY DEF HandleRead, ReadPacket
<1> HIDE DEF frames
<1>6. ~(MustRaise(frames) /\ MustLower)
  BY <1>2, NeverLowersAndRaises
<1>7. /\ Lowered \in 1 .. MaxVideoLevel
      /\ MustRaise(frames) => Lowered + 1 \in 1 .. MaxVideoLevel
      /\ LowerPart \in Seq(1 .. MaxVideoLevel)
      /\ RaisePart(frames) \in Seq(1 .. MaxVideoLevel)
  BY <1>2, HandleReadTypes
<1>8. uplink' = [uplink EXCEPT ![0] = (line \o LowerPart) \o RaisePart(frames)]
  BY <1>1, <1>3 DEF Put
<1>9. level \in Int
  BY DEF VideoTypeOK
<1>10. line \o << >> = line /\ \A x \in 1 .. MaxVideoLevel : line \o << x >> = Append(line, x)
  BY <1>1, ConcatEmptySeq, AppendIsConcat
<1>11. CASE MustLower
  <2>1. LowerPart = << Lowered >> /\ RaisePart(frames) = << >> /\ level' = Lowered
    BY <1>5, <1>6, <1>11 DEF LowerPart, RaisePart
  <2>2. (line \o << Lowered >>) \o << >> = Append(line, Lowered)
    <3>1. line \o << Lowered >> \in Seq(1 .. MaxVideoLevel)
      BY <1>1, <1>7, <1>10, AppendProperties
    <3> QED BY <1>7, <1>10, <3>1, ConcatEmptySeq
  <2>3. level' = level - 1
    BY <1>11, <2>1 DEF Lowered
  <2>4. level' # level
    BY <1>9, <2>3
  <2>5. uplink' = [uplink EXCEPT ![0] = Append(@, level')]
    BY <1>8, <2>1, <2>2
  <2> QED BY <1>4, <1>7, <2>1, <2>3, <2>4, <2>5
<1>12. CASE MustRaise(frames)
  <2>1. LowerPart = << >> /\ RaisePart(frames) = << level + 1 >> /\ level' = level + 1
    BY <1>5, <1>6, <1>12 DEF LowerPart, RaisePart, Lowered
  <2>2. level + 1 \in 1 .. MaxVideoLevel
    BY <1>6, <1>7, <1>12 DEF Lowered
  <2>3. (line \o << >>) \o << level + 1 >> = Append(line, level + 1)
    BY <1>10, <2>2
  <2>4. level' # level
    BY <1>9, <2>1
  <2>5. uplink' = [uplink EXCEPT ![0] = Append(@, level')]
    BY <1>8, <2>1, <2>3
  <2> QED BY <1>4, <2>1, <2>2, <2>4, <2>5
<1>13. CASE ~MustLower /\ ~MustRaise(frames)
  <2>1. LowerPart = << >> /\ RaisePart(frames) = << >> /\ level' = level
    BY <1>5, <1>13 DEF LowerPart, RaisePart, Lowered
  <2>2. (line \o << >>) \o << >> = line
    BY <1>10
  <2>3. uplink' = uplink
    BY <1>1, <1>8, <2>1, <2>2
  <2> QED BY <1>4, <2>1, <2>3
<1> QED BY <1>11, <1>12, <1>13

\* Every step keeps the chain.
LEMMA LevelsChainStep ==
  ~PriorityUplink /\ VideoTypeOK /\ ShortWhenLowered /\ LevelsChain /\ [VideoNext]_videoVars
    => LevelsChain'
<1> SUFFICES ASSUME ~PriorityUplink, VideoTypeOK, ShortWhenLowered, LevelsChain,
                    [VideoNext]_videoVars
             PROVE  LevelsChain'
  OBVIOUS
<1> DEFINE line == uplink[0]
<1>1. /\ line \in Seq(1 .. MaxVideoLevel) /\ 0 \in Classes
      /\ uplink \in [Classes -> Seq(1 .. MaxVideoLevel)]
  BY LineOfLevels
<1>2. CASE UNCHANGED << level, uplink, serverLevel, newestLost >>
  BY <1>2 DEF LevelsChain
<1>3. ASSUME NEW c \in Classes, ReceiveLevel(c) \/ LoseLevel(c) PROVE LevelsChain'
  <2>1. c = 0 /\ line # << >> /\ uplink' = [uplink EXCEPT ![0] = Tail(line)] /\ level' = level
    BY <1>3 DEF ReceiveLevel, LoseLevel, LevelsChain
  <2>2. uplink'[0] = Tail(line) /\ \A d \in Classes \ {0} : uplink'[d] = << >>
    BY <1>1, <2>1 DEF LevelsChain
  <2>3. /\ Len(Tail(line)) = Len(line) - 1 /\ Len(line) \in Nat \ {0}
        /\ \A i \in 1 .. Len(Tail(line)) : Tail(line)[i] = line[i + 1]
        /\ Tail(line) \in Seq(1 .. MaxVideoLevel)
    BY <1>1, <2>1, HeadTailProperties, EmptySeq
  <2>4. Tail(line) # << >> => Tail(line)[Len(Tail(line))] = level
    <3> SUFFICES ASSUME Tail(line) # << >> PROVE Tail(line)[Len(Tail(line))] = level
      OBVIOUS
    <3>1. Len(Tail(line)) \in Nat \ {0}
      BY <2>3, EmptySeq
    <3>2. Tail(line)[Len(Tail(line))] = line[Len(line)]
      BY <2>3, <3>1
    <3> QED BY <2>1, <3>2 DEF LevelsChain
  <2>5. ASSUME Tail(line) = << >>, ~newestLost' PROVE serverLevel' = level
    <3>1. Len(line) = 1 /\ line[1] = level
      <4>1. Len(Tail(line)) = 0
        BY <2>5, EmptySeq, Zenon
      <4>2. Len(line) = 1
        BY <2>3, <4>1
      <4> QED BY <2>1, <4>2 DEF LevelsChain
    <3>2. line = << level >>
      BY <1>1, <3>1
    <3>3. CASE ReceiveLevel(c)
      BY <2>1, <3>2, <3>3 DEF ReceiveLevel
    <3>4. CASE LoseLevel(c)
      BY <2>1, <2>5, <3>2, <3>4 DEF LoseLevel, IsNewest
    <3> QED BY <1>3, <3>3, <3>4
  <2> HIDE DEF line
  <2> QED BY <2>1, <2>2, <2>4, <2>5 DEF LevelsChain
<1>4. ASSUME NEW c \in Classes, HandleRead(c) PROVE LevelsChain'
  <2>1. serverLevel' = serverLevel
    BY <1>4 DEF HandleRead, ReadPacket
  <2>2. CASE level' = level /\ uplink' = uplink /\ newestLost' = newestLost
    BY <1>2, <2>1, <2>2
  <2>3. CASE /\ level' \in (1 .. MaxVideoLevel) \cap {level - 1, level + 1}
             /\ uplink' = [uplink EXCEPT ![0] = Append(@, level')]
             /\ newestLost' = FALSE
    <3>1. uplink'[0] = Append(line, level') /\ \A d \in Classes \ {0} : uplink'[d] = << >>
      BY <1>1, <2>3 DEF LevelsChain
    <3>2. /\ Append(line, level') # << >> /\ Len(Append(line, level')) = Len(line) + 1
          /\ Append(line, level')[Len(line) + 1] = level'
      BY <1>1, <2>3, AppendProperties
    <3> QED BY <3>1, <3>2 DEF LevelsChain
  <2> QED BY <1>4, <2>2, <2>3, TellsEachStep
<1> QED
  BY <1>2, <1>3, <1>4 DEF VideoNext, videoVars, SendFrame, ReadFromBuffer, LoseVideoPacket

\* The invariant of both theorems below.
VideoInv == VideoTypeOK /\ ShortWhenLowered /\ LevelsChain

\* It holds in every reachable state of an uplink that is FIFO.
LEMMA VideoInvariant == ~PriorityUplink /\ VideoSpec => []VideoInv
<1> SUFFICES ASSUME ~PriorityUplink PROVE VideoSpec => []VideoInv
  OBVIOUS
<1>1. VideoInit => VideoInv
  BY VideoInitTypes, InitiallyNothingCounted, LevelsChainInit DEF VideoInv
<1>2. VideoInv /\ [VideoNext]_videoVars => VideoInv'
  BY VideoTypeStep, LowerStep, LevelsChainStep DEF VideoInv
<1> QED BY <1>1, <1>2, PTL DEF VideoSpec, VideoSteps

\* Over a FIFO queue client and server agree on the level whenever no level is
\* under way and the newest was not lost.
THEOREM LevelsAgreeOverFifo == ~PriorityUplink /\ VideoSpec => []LevelsAgree
<1>1. VideoInv => LevelsAgree
  BY DEF VideoInv, LevelsChain, LevelsAgree, Empty, Classes
<1> QED BY <1>1, VideoInvariant, PTL

\* Over a FIFO queue client and server implement LevelFollower, its promise
\* of progress apart: each step is a choice one level up or down, the server
\* taking over the oldest choice under way, the loss of it, or none of these.
THEOREM FollowsOverFifo == ~PriorityUplink /\ VideoSpec => Follower!Steps
<1> SUFFICES ASSUME ~PriorityUplink PROVE VideoSpec => Follower!Steps
  OBVIOUS
<1>1. VideoInit => Follower!Init
  BY Numbers DEF VideoInit, Follower!Init, Empty, Classes
<1>2. ASSUME VideoInv, [VideoNext]_videoVars
      PROVE  [Follower!Next]_<< level, uplink[0], serverLevel >>
  <2>1. /\ uplink[0] \in Seq(1 .. MaxVideoLevel) /\ 0 \in Classes
        /\ uplink \in [Classes -> Seq(1 .. MaxVideoLevel)]
    BY <1>2, LineOfLevels DEF VideoInv
  <2>2. CASE UNCHANGED << level, uplink, serverLevel >>
    BY <2>2
  <2>3. ASSUME NEW c \in Classes, ReceiveLevel(c) \/ LoseLevel(c)
        PROVE  Follower!Follow \/ Follower!Lose
    <3>1. c = 0
      BY <1>2, <2>3 DEF VideoInv, LevelsChain, ReceiveLevel, LoseLevel
    <3> QED BY <2>1, <2>3, <3>1 DEF ReceiveLevel, LoseLevel, Follower!Follow, Follower!Lose
  <2>4. ASSUME NEW c \in Classes, HandleRead(c)
        PROVE  Follower!Choose \/ UNCHANGED << level, uplink, serverLevel >>
    <3>1. serverLevel' = serverLevel
      BY <2>4 DEF HandleRead, ReadPacket
    <3>2. \/ level' = level /\ uplink' = uplink
          \/ /\ level' \in (1 .. MaxVideoLevel) \cap {level - 1, level + 1}
             /\ uplink' = [uplink EXCEPT ![0] = Append(@, level')]
      BY <1>2, <2>4, TellsEachStep DEF VideoInv
    <3> QED BY <2>1, <3>1, <3>2 DEF Follower!Choose
  <2> QED
    BY <1>2, <2>2, <2>3, <2>4
    DEF VideoNext, videoVars, SendFrame, ReadFromBuffer, LoseVideoPacket, Follower!Next
<1> QED BY <1>1, <1>2, VideoInvariant, PTL DEF VideoSpec, VideoSteps, Follower!Steps

=============================================================================
