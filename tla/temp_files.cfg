SPECIFICATION FairSpec
CONSTANTS
  u1 = u1
  u2 = u2
  u3 = u3
  NoTicket = NoTicket
  NoFile = NoFile
  Uploads = {u1, u2, u3}
  Readers = {g1}
  Deleters = {d1}
  Tickets = {t1}
  Kind <- DocAndTickets
  Bytes <- OneByteEach
  MaxBytes = 1
  UploadSlots = 1
  ConversionSlots = 1
  TicketCapacity = 1
  RequestTimeout = 1
  ConversionTimeout = 1
  TempTtl = 2
INVARIANTS HeldFileStays RegisteredOnDisk ReferencesExact WorkNotSwept TicketCreatesOneFile
PROPERTIES LeftoversLeave
