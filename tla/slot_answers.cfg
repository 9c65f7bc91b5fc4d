CONSTANTS
    u1 = u1
    u2 = u2
    t1 = t1
    t2 = t2
    Users = {u1, u2}
    Tunnels = {t1, t2}
    N = 1
    NoSocket = NoSocket
SPECIFICATION PromptSpec
INVARIANT AnswerToAsker
CHECK_DEADLOCK FALSE
