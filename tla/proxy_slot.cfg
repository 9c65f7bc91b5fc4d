CONSTANTS
    u1 = u1
    u2 = u2
    t1 = t1
    t2 = t2
    Users = {u1, u2}
    Tunnels = {t1, t2}
    N = 1
    NoSocket = NoSocket
SPECIFICATION PromptSpec
INVARIANTS HandlerOwnsSlot OneUserPerTunnel CloseRequestKept
PROPERTIES UsedTunnelEnds BufferedDataLeaves
CHECK_DEADLOCK FALSE
