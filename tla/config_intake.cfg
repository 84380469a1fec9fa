SPECIFICATION Spec
INVARIANTS
  TypeOK
  PairsMatch
  ClientIsConfigured
  KernelServesMaterial
  XrayRunsItsConfig
  KernelsAgree
  InboundsAgree
CONSTANTS
  Capitals <- Spellings
  Domains = {"a", "b"}
  MaxPairs = 4
  OwnPairs = 2
  Kcfg <- OwnKernel
  LocalCert <- NoOwnCert
  SpecOf <- PanelSpec
  Specs <- CertSpecs
  FirstSpecs <- FirstNames
  Connections <- Probes
