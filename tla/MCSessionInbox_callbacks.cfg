SPECIFICATION Spec
CONSTANTS
  Stable = Stable
  Auth = Auth
  Aliases = {a1}
  NoHook = NoHook
  MaxPayloads = 1
  MaxCommits = 2
INVARIANT
  CallbacksNeverSurfaceAsSessionActivity
CHECK_DEADLOCK FALSE
