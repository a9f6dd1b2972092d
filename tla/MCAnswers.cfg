SPECIFICATION MCSpec
CONSTANTS
  MaxRetries = 2
  Lists <- MCLists
  Scripts <- MCScripts
  Exchanges = {e1}
  MaxLength = 5
  ChunkSize = 2
  EditRoom = 4
  TextLimit = 4
  Candidates = 2
INVARIANTS
  StreamsArriveIntact
  AddressesAreKnown
  RetriesAreDue
  OneAnswerRemains
  NoExchangeEndsInSilence
PROPERTIES
  EveryCallSettles
  ExchangesEnd
CHECK_DEADLOCK FALSE
