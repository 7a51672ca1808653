\* Streams and plain calls that share a pool of one, two models, two calls.
SPECIFICATION CallsFairSpec
CONSTANTS
    Request = {"stream", "plain"}
    Streaming = {"stream"}
    Stopping = {"stream"}
    Conn = {"c1", "c2", "c3"}
    tls = TRUE
    max_connections_per_host = 1
    Answers <- ServerAnswers
    Pieces = 2
    FinishAt = 2
    Primary = "primary"
    Fallbacks <- OneFallback
    Resolved = {"fallback"}
    Overrides = {"primary"}
    max_attempts = 2
    MaxCalls = 2
    MaxFaults = 1
INVARIANTS AnswersOwn CallsHonest
PROPERTY CallsEnd
CHECK_DEADLOCK FALSE
