CONSTANTS
  Producers = {p1, p2}
  Services = {s1, s2}
  Main = main
  MaxAdded = 3
SPECIFICATION SchedulerSpec
INVARIANTS NeverForgotten FlushIsComplete
PROPERTIES ImplementsCallbackQueue
CHECK_DEADLOCK FALSE
