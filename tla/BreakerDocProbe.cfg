SPECIFICATION BreakerSpec
CONSTANTS
    Calls = {c1, c2, c3}
    Threshold = 2
    Retries = 1
    MaxFaults = 2
PROPERTY ProbeRunsAlone
