CONSTANTS
  Width = 8
  LineWords = 2
  WordBytes = 4
  NWords = 10
  BlockAddr = 1
  Jobs <- MCJobs
  MaxFrames = 2
SPECIFICATION Spec
INVARIANTS Copied EngineSeesTheCall
PROPERTIES CopyReturns
CHECK_DEADLOCK FALSE
