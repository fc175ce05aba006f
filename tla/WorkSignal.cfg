SPECIFICATION Spec
CONSTANTS
    MaxWorks = 4
INVARIANTS
    NoLostWakeup
    NoCallbackAfterRemoval
    OutlivesThread
PROPERTIES
    EveryWorkTaken
    DestructorReturns
