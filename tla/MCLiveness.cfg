\* What must come to an end, one part at a time.
SPECIFICATION FairSideBySide
CONSTANTS
    Parts = {"turns", "tools", "oauth", "settings", "keys", "web", "memory", "platform",
             "reading", "pages"}
    None = None a1 = a1 a2 = a2 a3 = a3 b1 = b1 x1 = x1 d1 = d1 openrouter = openrouter
    owned = owned small = small e1 = e1
PROPERTIES TurnsEnd AskedIsAnswered
CHECK_DEADLOCK FALSE
