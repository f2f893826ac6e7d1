SPECIFICATION FocusedSpec
CONSTANTS
  SoftwarePaths <- MCSoftwarePaths
  BlueprintPaths <- MCBlueprintPaths
  SoftwareDefs <- MCSoftwareDefs
  BlueprintDefs <- MCBlueprintDefs
  StartSoftware <- MCStartSoftware
  StartBlueprints <- MCStartBlueprints
  Remotes <- MCRemotes
  Parsed <- MCParsed
  OverrideSets <- MCOverrideSets
  LateOverrides <- MCLateOverrides
  Ports = {"p1"}
  Defaults <- MCDefaults
  Reloaders = {h1, h2}
  MaxReloads = 2
  MaxEdits = 1
  MaxServers = 2
  Quoted <- MCQuoted
  ConfigData <- MCConfigData
  PathOf <- MCPathOf
  Outside = "outside"
  Docs <- MCDocs
  Folders <- MCFolders
  Sources = {"w"}
  Content <- MCContent
  Upper <- MCUpper
  Reserved = {"TZ"}
  Workers = 2
  MaxStarts = 2
  MaxWrites = 1
  MaxFaults = 1
  MaxCrashes = 1
ACTION_CONSTRAINT Focus
INVARIANTS TypeOK RegistryCurrent  Patched 
CHECK_DEADLOCK FALSE
