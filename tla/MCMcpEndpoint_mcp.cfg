SPECIFICATION FairEndpoint
CONSTANTS
    a = a  b = b  c = c
    Requests <- ThreeRequests
    None = None
    Paths <- FourFiles
    Root = "agentquery"
    Graphs <- FourGraphs
INVARIANTS EndpointTypeOK OneHandlerPerProcess ServingHasDatabase ImportsComeFirst
PROPERTIES RefusedByOwnBuild EveryRequestAnswered
