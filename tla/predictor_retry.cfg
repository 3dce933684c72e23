SPECIFICATION PredictorSpec
CONSTANTS
    gazp = gazp
    sber = sber
    Whitelist <- MCWhitelist
    Off = Off
    Inputs <- MCInputs
    MaxEvents = 1
    MaxMishaps = 2
INVARIANT
    InferenceIsRetried
CHECK_DEADLOCK FALSE
