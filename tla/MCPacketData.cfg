CONSTANTS
  SessionIds <- MCSessionIds
  mirroring_sessions <- MCMirroring
  Ids <- MCIds
  Headers = {"eth", "ip"}
  nbytes <- MCNbytes
  PayloadSize = 3
  Stale <- MCStale
  MaxArrivals = 1
  MaxPrimitives = 2
  MaxPasses = 4
  Nibbles = 4
  Numbers <- MCNumbers
  AddressBytes = {0, 9, 10, 255}
  Keys <- MCKeys
SPECIFICATION MCSpec
INVARIANTS TypeOK ArrivalsAskNothing AnsweredOnce LengthIsDeparsed AddressSurvives KeyKeepsPrefix HashIsRemainder
PROPERTIES RequestsIndependent
CHECK_DEADLOCK FALSE
