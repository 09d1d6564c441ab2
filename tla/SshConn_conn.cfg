\* A caller, the keepalive goroutine and Close on a route with a jump host.
SPECIFICATION FairSpec
CONSTANTS
    c1 = c1
    Keepalive = Keepalive
    Callers = {c1}
    Retries = 1
    Hops = 2
    ChannelDeadline = FALSE
    MaxDials = 5
    MaxBreaks = 3
INVARIANTS OneDialPerFailure NoLeak
PROPERTIES  Heals
