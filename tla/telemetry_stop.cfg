SPECIFICATION Spec
CONSTANTS
  FastSends = 2
  MaxApps = 2
  MaxInbox = 2
  Places = {"home"}
  HomePlace = "home"
  Messages <- StopMessages
  Agenda <- EndlessAgenda
INVARIANTS
  AtMostOneStraggler
PROPERTIES
  StopReachesAll
  StopSilences
  KeepsSending
