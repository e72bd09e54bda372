\* Two receivers race over the registry slot; events, a buffer of one, a listener
\* that dies: one healthy listener, nothing is lost silently, every call returns.
SPECIFICATION FairSpec
CONSTANTS
  s1 = s1
  s2 = s2
  l1 = l1
  l2 = l2
  c1 = c1
  Subs <- TwoSubs
  Listeners <- TwoListeners
  Chans <- OneChan
  Cap = 1
  MaxEvents = 2
  MaxDeaths = 1
  None = None
INVARIANT TypeOK
INVARIANT OneListener
INVARIANT NoDeafReceiver
INVARIANT NothingLostSilently
PROPERTY RegistryKeepsHealthy
PROPERTY PromiseSpec
PROPERTY TerminationNoticed
PROPERTY SubscribeReturns
