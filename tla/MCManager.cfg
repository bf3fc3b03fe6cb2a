SPECIFICATION Spec
CONSTANTS
  Versions = {v1, v2, vacuum}
  Vacuum = vacuum
  Unnamed = unnamed
  Handlers = {h1, h2, h3}
  MaxRouters = 3
SYMMETRY Symmetry
INVARIANTS TypeOK TrackedIsLive OneRouterPerKind EveryVersionWatched
