SPECIFICATION BusyPublisherSpec
CONSTANTS
  FastSends = 2
  MaxApps = 1
  MaxInbox = 2
  Places = {"home", "away"}
  HomePlace = "home"
  Messages <- LifecycleMessages
  Agenda <- TestAgenda
INVARIANTS
  ReceiverTypeOK
  AtMostOneLateMessage
  StopLeavesWholeUpdate
  NoHandlingAfterDestroy
PROPERTIES
  CommandsWhileRunning
  AbortsWhileReceiving
  SimulationEnds
