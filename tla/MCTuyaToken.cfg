CONSTANTS
    Page = 3
    Timeout = 2
    Throttle = 1
    Callbacks = 1
    Poll = 2
    Delay = 3
    Margin = 10
    Lifetimes = {9, 16}
    Jumps = {7}
    Horizon = 40
SPECIFICATION Spec
INVARIANTS TypeOK TokenLive
CHECK_DEADLOCK FALSE
