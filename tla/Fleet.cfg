SPECIFICATION FairSpec
CONSTANTS
  c1 = c1
  c2 = c2
  home = home
  work = work
  plain = plain
  as = as
  n1 = n1
  n2 = n2
  Nobody = Nobody
  MaxPorts = 2
  Clients <- ClientsMC
  Files <- FilesMC
  Flags <- FlagsMC
  Settings <- SettingsMC
  PassedOn <- PassedOnMC
  Names <- NamesMC
  Digest <- DigestMC
  Arguments <- ArgumentsMC
  Commands = {"proxies", "shutdown", "wait", "force"}
  MaxEdits = 1
  MaxCrashes = 1
INVARIANTS
  TypeOK
  SharesBySignature
  EveryProxyReached
PROPERTIES
  ClaimsAreSeparate
  ServedUnlessDisturbed
CHECK_DEADLOCK FALSE
