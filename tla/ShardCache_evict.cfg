SPECIFICATION Spec
CONSTANTS
  c1 = c1  c2 = c2  c3 = c3
  k1 = k1  k2 = k2  k3 = k3
  l1 = l1  l2 = l2  l3 = l3  l4 = l4  l5 = l5
  NoLoad = NoLoad  NoKey = NoKey  NoClient = NoClient
  Clients <- TwoClients
  Keys <- TwoKeys
  Loads <- FourLoads
  Size <- UnitSize
  Capacity = 2
  Limits <- Enforced
  Cancellable = TRUE
  LoaderObeysCancel = TRUE
INVARIANT NoPanic
