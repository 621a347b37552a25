SPECIFICATION Spec
CONSTANTS
  k1 = k1
  k2 = k2
  k3 = k3
  desktop = desktop
  tab = tab
  disk = disk
  browser = browser
  None = None
  Tokens <- SomeTokens
  Legacy <- OldTokens
  Desktops <- OneDesktop
  Tabs <- OneTab
  Stores <- TwoStores
  StoreOf <- OwnStores
  MaxSecret = 1
SYMMETRY TokenSymmetry
INVARIANTS
  CutOff
  NoFork
  ReplayMeansLoss
PROPERTIES
  OnlyLoginSwitches
