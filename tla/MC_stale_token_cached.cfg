SPECIFICATION Spec
CONSTANTS
    b1 = b1
    r1 = r1
    b2 = b2
    p1 = p1
    p2 = p2
    Workers = {b1, r1, b2}
    Processes = {p1, p2}
    ProcessOf <- MCProcessOf
    Background = {b1, b2}
    MaxRetries <- MCMaxRetries
    MaxVersion = 3
    MaxFaults = 0
CHECK_DEADLOCK FALSE
PROPERTY StaleNotCached
