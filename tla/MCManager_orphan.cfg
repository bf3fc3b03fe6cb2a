SPECIFICATION Spec
CONSTANTS
  Versions = {v1, vacuum}
  Vacuum = vacuum
  Unnamed = unnamed
  Handlers = {h1, h2, h3, h4}
  MaxRouters = 2
SYMMETRY Symmetry
INVARIANT NoRouterOrphaned
