SPECIFICATION Spec
CONSTANTS
  FastSends = 2
  MaxApps = 2
  MaxInbox = 2
  Places = {"home"}
  HomePlace = "home"
  Messages <- StopMessages
  Agenda <- TestAgenda
INVARIANTS
  ToldMeansStopped
