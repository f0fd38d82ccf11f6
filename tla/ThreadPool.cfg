\* Two workers, three tasks of the owner's, two that tasks submit.
SPECIFICATION Spec
CONSTANTS
  Workers <- MCWorkers
  Roots <- MCRoots
  Children <- MCChildren
  child <- MCchild
CHECK_DEADLOCK FALSE
INVARIANTS
  RunsOnce
  DestroyedMeansDone
PROPERTY NoWakeupLost
