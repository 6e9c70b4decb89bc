CONSTANTS
  alice = alice
  bob = bob
  carol = carol
  Identities <- MCIdentities
  DirectStores <- MCDirectStores
  MaxVersion = 2
  MaxStates = 2
  MaxSize = 2
  NoIdentity = NoIdentity
SPECIFICATION Spec
PROPERTY NewerChainIsKept
