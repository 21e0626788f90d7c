\* Three hosts; each may reset the bus twice; words have five bits.
SPECIFICATION FairSpec
CONSTANTS
  Console <- PlayStation
  Computer <- Desktop
  Tester <- Probe
  Hardware <- Controller
  Width = 5
  MaxResets = 2
INVARIANTS TypeOK AnswersInFull StaysAlive ReadyWhenConfigured
PROPERTIES ConsoleServed EveryButtonPressed
