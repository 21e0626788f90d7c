\* Four events of the host, of any kind; any call of initialize() may fail.  The
\* system may stop: every thread has ended or waits for an event.
SPECIFICATION StartupSpec
CONSTANTS
  Requests <- Kinds
  MaxEvents = 4
  Alternates <- Shape
INVARIANTS TypeOK OneAnswerEach DeviceInOrder ServesRunningGadget RecordsFilled
PROPERTIES HostIsAnswered StopCloses
CHECK_DEADLOCK FALSE
