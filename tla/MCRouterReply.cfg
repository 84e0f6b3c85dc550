CONSTANTS
  Routers = {main, admin, shop}
  Root = main
  Leaves = {x, y}
  OuterRouters = {admin}
  ErrorRouters = {main, admin}
  MaxRoutes = 3
  Nil = Nil
SYMMETRY Symmetry
SPECIFICATION Spec
INVARIANT ReplyGetsMade
CHECK_DEADLOCK FALSE
