SPECIFICATION CoreSpec
CONSTANTS
  Workers <- OneWorker
  Bios <- OneBio
  Langs = {"cpp"}
  Modules <- ThreeModules
  Services = {s}
  ServiceItems <- TwoItems
  Ports <- SomePorts
  MaxWorkflows = 2
  MaxModules = 2
  MaxItems = 4
  MaxSignals = 2
INVARIANTS CoreInv ServesAsConfigured
PROPERTIES StopEnds
