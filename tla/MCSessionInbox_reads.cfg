SPECIFICATION FairSpec
CONSTANTS
  Stable = Stable
  Auth = Auth
  Aliases = {a1, a2}
  NoHook = NoHook
  MaxPayloads = 2
  MaxCommits = 3
INVARIANTS
  ExactlyOnceInOrder
  NoReadLost
  CallbackNotOvertaken
PROPERTY
  CommittedEventuallyConsumed
CHECK_DEADLOCK FALSE
