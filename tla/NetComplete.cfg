SPECIFICATION FlowsSpec
CONSTANTS
  f1 = f1
  f2 = f2
  Flows = {f1, f2}
  Streams <- MCStreams
  Headers <- MCHeaders
  LEN = 2
  PKT_MAX_LEN = 6
  CCD_MAX_LEN = 20
  Chunk = 3
  req_mq_cnt = 2
  W32 = 3
INVARIANTS FramingInv ClosedForCause
PROPERTIES EveryFrameIsCut
CHECK_DEADLOCK FALSE
