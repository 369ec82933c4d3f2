SPECIFICATION Spec
CONSTANTS
  Hosts <- SomeHosts
  Zones <- SomeZones
  Prefixes6 <- SomePrefixes6
  Flows <- SomeFlows
  Tcp <- SomeTcp
  Icmp = {"ping"}
  Sctp <- SomeSctp
  Names <- SomeNames
  Tidy <- SomeTidy
  Sources = {"asa", "panos", "fortigate", "checkpoint"}
  Targets = {"asa", "ftd", "panos", "fortigate", "checkpoint"}
  Policies <- SomePolicies
  ZoneMap <- SwapZones
  Global = "global"
CHECK_DEADLOCK FALSE
INVARIANT TypeOK
INVARIANT AddressesExact
 
 
