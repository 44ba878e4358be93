SPECIFICATION Spec
CONSTANTS
    None = None
    PrivateId = {f1}
    ImageId = {}
    Request = {}
    TTL = 2
    MaxTime = 6
    MaxCrashes = 0
PROPERTY ExpiredIsPurged
CHECK_DEADLOCK FALSE
