---------------------------- MODULE VideoOverQueue ----------------------------
(***************************************************************************)
(* The video client at the ground station of test_congestion.cc: its       *)
(* device sends through a PriorityTxQueue (QueuedLink), beside other       *)
(* traffic; the server's device has ns-3's FIFO queue.  A packet with a    *)
(* level waits in the client's queue until the device takes it and then    *)
(* gets through or is lost; the channel keeps the order.                   *)
(*                                                                         *)
(* The parties are VideoAdaptation's, whose uplink is here the levels in   *)
(* the queue.  It says of the queue only that each class is FIFO and that  *)
(* any may be next; that this is right is the property ImplementsVideo.    *)
(***************************************************************************)
EXTENDS QueuedLink, FiniteSets

Seqs == INSTANCE SequencesExt

CONSTANTS
  MaxVideoLevel, InitialLevel, FrameRate, PacketsPerFrame, LastFrame,
  MaxInFlight,  \* as in VideoAdaptation
  LevelSize,    \* the size of a packet with a level
  MaxOthers     \* bound of the model on other packets waiting

VARIABLES level, buffered, rebuffers, lastFrame, seen, serverLevel, nextFrame,
          downlink, newestLost, countedAt
          \* as in VideoAdaptation

LevelPacket(tag, l) == [tag |-> tag, size |-> LevelSize, level |-> l]
LevelPackets == {LevelPacket(t, l) : t \in {1, NoTag}, l \in 1 .. MaxVideoLevel}

ASSUME CompositionAssumption == LevelPackets \subseteq Packets

Waiting(p, kind) == SelectSeq(queues[p], LAMBDA pkt : pkt \in kind)

LevelsWaiting ==
  [p \in Priorities |-> [i \in DOMAIN Waiting(p, LevelPackets) |->
                           Waiting(p, LevelPackets)[i].level]]

Video == INSTANCE VideoAdaptation
  WITH uplink <- LevelsWaiting, PriorityUplink <- TRUE, PriorityDownlink <- FALSE

partyVars == << level, buffered, rebuffers, lastFrame, seen, nextFrame, downlink,
                countedAt >>
allVars == << linkVars, partyVars, serverLevel, newestLost >>

CompositionInit == LinkInit /\ Video!VideoInit

-----------------------------------------------------------------------------
Told(tag, levels) == [i \in DOMAIN levels |-> LevelPacket(tag, levels[i])]

\* A packet of the video arrives; the levels it makes the client choose go
\* into the queue and make an idle line ask.
HandleRead ==
  /\ BetweenEvents
  /\ \A p \in {1, 2} : Len(queues[p]) < MaxQueued
  /\ Video!ReadPacket(0)
  /\ newestLost' = (newestLost /\ level' = level)
  /\ LET told == Told(1, Video!LowerPart)
                   \o Told(NoTag, Video!RaisePart(Video!CountFrame(lastFrame')))
     IN  /\ queues' = Seqs!FoldLeft(Into, queues, told)
         /\ line' = IF told # << >> /\ line = "idle" THEN "arrival" ELSE line
  /\ UNCHANGED << qosVars, configured, sent, tracked, cycleBudget, budgets, shareBase, calls >>

\* The device asks; a level it takes reaches the server or is lost.
Transmit ==
  /\ Ask
  /\ LET taken == {p \in Priorities : LevelsWaiting'[p] # LevelsWaiting[p]}
     IN  \/ /\ serverLevel' = IF taken = {} THEN serverLevel
                              ELSE Head(LevelsWaiting[CHOOSE p \in taken : TRUE])
            /\ UNCHANGED newestLost
         \/ /\ taken # {}
            /\ newestLost' = (newestLost \/ \E p \in taken : Video!IsNewest(p))
            /\ UNCHANGED serverLevel
  /\ UNCHANGED partyVars

OthersWaiting ==
  Cardinality({<< p, i >> \in Priorities \X (1 .. MaxQueued) :
                 i \in DOMAIN queues[p] /\ queues[p][i] \notin LevelPackets})

\* The rest of the link: other traffic and the end of a transmission.
LinkStep ==
  /\ TransmitComplete \/ \E p \in Sources : OthersWaiting < MaxOthers /\ Send(p)
  /\ UNCHANGED << partyVars, serverLevel, newestLost >>

\* The server's frames and the player leave the link alone.  A video packet
\* is not lost here.
Elsewhere ==
  /\ BetweenEvents
  /\ UNCHANGED linkVars
  /\ Video!SendFrame \/ Video!ReadFromBuffer

CompositionNext == HandleRead \/ Transmit \/ LinkStep \/ Elsewhere

CompositionSpec == CompositionInit /\ [][CompositionNext]_allVars

-----------------------------------------------------------------------------

\* The parties with the real queue and device between them behave like
\* VideoAdaptation with a line for each class: levels of one class reach the
\* device in order and none is dropped by the queue, whatever else is sent and
\* whenever the shares run out.
ImplementsVideo == Video!VideoSteps

\* Documented ("reflect the change to the server"): when no level is under
\* way any more, the server sends at the level the client has chosen.
LevelsAgree == Video!LevelsAgree

=============================================================================
