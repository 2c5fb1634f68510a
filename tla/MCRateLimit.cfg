CONSTANTS
    satel = satel
    httpd = httpd
    zone_cb = zone_cb
    api_auth = api_auth
    api_net = api_net
    NoKey = NoKey
    Callers = {satel, httpd}
    KeysOf <- MCKeysOf
    RL_MAX = 2
    Limit = 2
    Window = 2
    Horizon = 3
SPECIFICATION LimiterSpec
INVARIANTS BelowTwiceAlone OneEntryAlone
PROPERTY DeniedAlone
