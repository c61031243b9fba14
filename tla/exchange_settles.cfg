SPECIFICATION FairSpec
CONSTANTS
  Node = {1, 2}
  Key = {1}
  Slot = {1}
  Scopes <- SettlingScopes
PROPERTY Settles
