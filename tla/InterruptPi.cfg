\* Two calls of attachInterrupt; edges that come while two are unanswered
\* change nothing more.
CONSTANTS
    MaxAttaches = 2
    MaxEdges = 2
SPECIFICATION FairSpec
INVARIANTS TypeOK LiveIsAttached CallsAreDue
PROPERTIES FailureIsDetach EdgeServed
