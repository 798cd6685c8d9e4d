\* Two requests, every program and environment, and signals at any time.
SPECIFICATION FairSpec
CONSTANTS
  Requests = {r1, r2}
  None = None
  Unset = Unset
  Garbage = Garbage
  Int32Half = 32
  Environments <- SomeEnvironments
  Statuses = {200, 404, 500}
INVARIANTS PathTypeOK GracefulMeansAnswered ClosedOnReturn BodyIsOwn AnsweredIsLogged
PROPERTIES SignalStops ImplementsLifecycle
