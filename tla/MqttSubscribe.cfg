\* Two synchronous subscriptions, a yield loop, a refusal or a reset.
SPECIFICATION Spec
CONSTANTS
  t1 = t1
  t2 = t2
  h1 = h1
  h2 = h2
  Yielder = Yielder
  NoThread = NoThread
  Callers <- MCCallers
  Handlers <- MCHandlers
  HandlerOf <- MCHandlerOf
  MaxFaults = 1
  MaxMessages = 2
  MaxId = 4
INVARIANTS
  WaitedCallWasGranted
  ServedAfterReturn
PROPERTY
  EveryCallReturns
CHECK_DEADLOCK FALSE
