\* The OAuth listener, the gate, the key, the browser and TikTok, one at a time.
SPECIFICATION SideBySide
CONSTANTS
    Parts = {"oauth", "accounts", "keys", "dying", "failing", "web", "paged", "platform"}
    None = None a1 = a1 a2 = a2 a3 = a3 a4 = a4 b1 = b1 b2 = b2
    both = both second = second x1 = x1 x2 = x2
    owned = owned other = other sandbox = sandbox d1 = d1 openrouter = openrouter
    small = small large = large r1 = r1 r2 = r2 r3 = r3 r4 = r4
    State = {b1, b2} Callback = {a1, a2} Advertiser = {x1, x2} Code = {both, second}
    Advertisers <- Granted Redirects = {"u1", "u2"} Ttl = 1 MaxTime = 1 MaxCrashes = 1
SYMMETRY Alike
CONSTRAINT Apart
INVARIANTS TypesOK AuthorizationsHold KeyIsServed PageIsTrue ReadsAreWhole
PROPERTIES CredentialsKept SettingsHold OperationsHold
CHECK_DEADLOCK FALSE
