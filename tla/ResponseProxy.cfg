SPECIFICATION FairResponseSpec
CONSTANTS
  ResponseEvents = 3
PROPERTIES EveryRequestSettles
\* A response ends.
CHECK_DEADLOCK FALSE
