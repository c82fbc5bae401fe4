CONSTANTS
  G1 = G1
  G2 = G2
  G3 = G3
  AES128 = AES128
  CHACHA = CHACHA
  AES256 = AES256
  RC4 = RC4
  ALPN1 = ALPN1
  ALPN2 = ALPN2
  NoGroup = NoGroup
  NoAlpn = NoAlpn
  None = None
  Groups <- MCGroups
  SupportedGroups <- MCSupportedGroups
  InitialGroup = G1
  GroupId <- MCGroupId
  KeyShareType = 0
  CookieType = 1
  HRRBlocks <- MCHRRBlocks
  Ciphers <- MCCiphers
  TLS13Ciphers <- MCTLS13Ciphers
  PRF <- MCPRF
  Alpns <- MCAlpns
  ExperimentVersion = FALSE
  ChannelIdOffered = TRUE
  MaxEarlyWrites = 1
  Sessions <- MCSessions
  ServerMsgs <- MCServerMsgs
SPECIFICATION Spec
INVARIANT TypeOK
INVARIANT HandshakeSecretsBound
INVARIANT HelloRetryRequestChecked
INVARIANT ServerAuthenticatedBeforeAppKeys
INVARIANT RecordsUnderExpectedKey
INVARIANT ResumptionCompatible
INVARIANT EarlyDataParametersKept
INVARIANT EarlyDataRejectedOnce
INVARIANT ClientFlightWellFormed
