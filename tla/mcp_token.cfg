\* Two tools, one of them miswired, one issuer and three keypairs.
CONSTANTS
  list = list
  shell = shell
  nope = nope
  cli = cli
  Tools <- MCTools
  Miswired <- MCMiswired
  Unknown = nope
  Issuers <- MCIssuers
  MaxKeys = 3
SPECIFICATION Spec
PROPERTIES
  IssuedTokenAccepted
CHECK_DEADLOCK FALSE
