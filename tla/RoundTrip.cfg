SPECIFICATION Spec
CONSTANTS
  Captures <- SomeCaptures
  Literals <- SomeLiterals
  Shape <- SomeShape
  Unknown = "?"
  MapZone <- SomeZone
  MapIface <- SomeIface
  AclName <- SomeAcl
  GlobalAcl = "global_acl"
  HelperName <- SomeHelper
  GuessLevel <- SomeLevel
  Hosts <- SomeHosts
  Hosts4 <- SomeHosts4
  Hosts6 <- SomeHosts6
  Covers <- SomeCovers
  Fqdns = {"fqdn"}
  Prefixes6 <- SomePrefixes6
  Slash32 = {"2002::/32"}
  HostPart <- SomeHostPart
  Flows <- SomeFlows
CHECK_DEADLOCK FALSE
INVARIANT TypeOK
INVARIANT NothingSilent
 
 
 
INVARIANT NoFalseAlarm
