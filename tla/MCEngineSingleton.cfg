SPECIFICATION LiveSpec
CONSTANTS
    Screens = {s1, s2, s3}
    None = None
INVARIANT
    LateScreensShare
PROPERTY
    ScreenIsServed
CHECK_DEADLOCK FALSE
