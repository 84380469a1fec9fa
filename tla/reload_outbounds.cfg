SPECIFICATION Spec
INVARIANTS
  ReloadTakesEffect
CONSTANTS
  Capitals <- Spellings
  Domains = {"a"}
  MaxPairs = 2
  OwnPairs = 2
  Kcfg <- OwnKernel
  LocalCert <- NoOwnCert
  SpecOf <- PanelSpec
  Specs <- MovedServer
  FirstSpecs <- NoFirst
  Connections <- Probes
