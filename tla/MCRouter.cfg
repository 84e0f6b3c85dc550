CONSTANTS
  Routers = {main, admin, shop}
  Root = main
  Leaves = {x, y}
  OuterRouters = {admin}
  ErrorRouters = {main, admin}
  MaxRoutes = 4
  Nil = Nil
SYMMETRY Symmetry
SPECIFICATION Spec
INVARIANT Acyclic
INVARIANT RegistrationOrder
INVARIANT SyncDecisionRight
INVARIANT ErrorGoesToInnermost
CHECK_DEADLOCK FALSE
