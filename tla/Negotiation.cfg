SPECIFICATION FairSpec
CONSTANTS
  r1 = r1
  r2 = r2
  NoOne = NoOne
  Receivers = {r1, r2}
  OldReceivers = {r1}
  MAX_CLIENTS = 2
  RcvBuf <- MCRcvBuf
  Configurations <- MCConfigurations
INVARIANTS TypeOK ParticipantsConsistent ConnectedIsRegistered TransferSuitsParticipants
PROPERTIES EverybodyIsServed
CHECK_DEADLOCK FALSE
