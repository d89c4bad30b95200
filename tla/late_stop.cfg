SPECIFICATION BusyPublisherSpec
CONSTANTS
  FastSends = 2
  MaxApps = 1
  MaxInbox = 1
  Places = {"home", "away"}
  HomePlace = "home"
  Messages <- LifecycleMessages
  Agenda <- TestZmqAgenda
INVARIANTS
  NoHandlingAfterDestroy
