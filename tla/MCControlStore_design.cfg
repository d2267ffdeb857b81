\* The transitions of a node that the design's state machine draws.
SPECIFICATION Spec
CONSTANTS
    Nodes = {extract}
    Critical = {extract}
    Operations = {}
    Digests = {d1}
    NoDigest = NoDigest
    Retryables = {TRUE}
    MaxRuns = 1
    MaxAttempts = 1
PROPERTIES
    FollowsDesignDiagram
CHECK_DEADLOCK FALSE
