\* A Stop between the claim of mIsRunning and the reset of its flags.
SPECIFICATION EagerSpec
CONSTANTS
    Thread = {t1, t2}
    NoThread = NoThread
PROPERTY StopHasAnEffect
CHECK_DEADLOCK FALSE
