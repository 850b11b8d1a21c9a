\* Three wakeups; the worker may run before the main thread has set the words.
CONSTANTS
  Max = 3
  Bound = 5
SPECIFICATION Spec
CHECK_DEADLOCK FALSE
INVARIANT ResultIsMax
