SPECIFICATION FairSpec
CONSTANTS
    Second = 3
    Timeout = 10
    Interval = 4
    MaxCheck = 4
    MaxNow = 60
PROPERTY TimesOut
CHECK_DEADLOCK FALSE
