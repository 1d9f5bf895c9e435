SPECIFICATION Spec
CONSTANTS
  c1 = c1  c2 = c2  c3 = c3
  k1 = k1  k2 = k2  k3 = k3
  l1 = l1  l2 = l2  l3 = l3  l4 = l4  l5 = l5
  NoLoad = NoLoad  NoKey = NoKey  NoClient = NoClient
  Clients <- ThreeClients
  Keys <- TwoKeys
  Loads <- FiveLoads
  Size <- MixedSize
  Capacity = 2
  Limits <- BothLimits
  Cancellable = FALSE
  LoaderObeysCancel = FALSE
SYMMETRY Symmetry
INVARIANTS
  TokensAccounted
  HeldIsFound
  LRUEvictable
