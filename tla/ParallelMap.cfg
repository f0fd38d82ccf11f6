CONSTANTS
  N = 4
  NoResult = NoResult
  Requested = 0
  Hardware = 3
  KMaxThreads = 64
SPECIFICATION MCSpec
INVARIANTS
  TypeOK
  OneWriterPerItem
  NoWorkerOutlivesCall
  NoSwallowedException
  ThreadsDoNotShow
PROPERTIES
  ImplementsCall
