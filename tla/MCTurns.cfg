\* Turns of one session: with tools, of two processes, and one after the other.
SPECIFICATION Spec
CONSTANTS
    None = None
    Turn = {t1, t2, t3}  Host = {h1, h2}  Binding = {b1, b2}
    Call = {c1, c2, c3}  Mutation = {c1, c2}  Staging = {c1}
    Asks = {t1, t2, t3}  Captures = TRUE
    LeaseTTL = 5  TurnTimeout = 1  MemoryTimeout = 1  SaveTimeout = 1
    Slack = 1  MaxFaults = 2
CONSTRAINT Corners
SYMMETRY Interchangeable
INVARIANTS TypeOK ResumesWhole CompletedIsRecorded LogIsGapless AnnouncedIsSaved
           SuccessIsAnnounced OneTurnAtATime
PROPERTY ImplementsConversation
CHECK_DEADLOCK FALSE
