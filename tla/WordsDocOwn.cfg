SPECIFICATION WordSpec
CONSTANTS
    None = None
    Requests = {r1, r2}
    Packages = {a1, a2}
    Legacy = {a1, a2}
    Details = {b1, b2}
    MaxEntries = 1
PROPERTY EditsStayInPackage
CHECK_DEADLOCK FALSE
