SPECIFICATION FairSpec
CONSTANTS
  NoValue = NoValue
  Nothing = Nothing
  Failed = Failed
  Requests = {q1, q2}
  Demands <- ListsAndPrints
  PrinterCount = 2
  LastVersion = 1
  Report <- Changing
  Concurrency = 1
  IppTimeout = 1
  CacheTtl = 2
INVARIANTS SubmitsWhatWasReported
PROPERTIES OffersArePrintable ImplementsRecentReads EveryReaderEnds
