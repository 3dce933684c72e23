SPECIFICATION LlmSpec
CONSTANTS
    Callers = {c1}
    ApiKeys = {1, 2}
    RetryAfters = {1}
    MaxRetries = 1
INVARIANT
    FailuresAreResults
