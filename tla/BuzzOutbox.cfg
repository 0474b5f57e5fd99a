SPECIFICATION Spec
CONSTANTS
  Decisions = {d1}
  Tenants = {a, b}
  Communities = {c1}
  Contents = {x, y}
  Workers = {w1, w2, w3}
  NoTenant = NoTenant
SYMMETRY WorkerSymmetry
INVARIANTS
  OneEventForAll
  ResolutionHasRequest
  AcceptedIsRelayed
PROPERTIES
  NothingIsRelayedTwice
