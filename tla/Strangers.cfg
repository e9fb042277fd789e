CONSTANT member = member
CONSTANT stranger = stranger
CONSTANT f1 = f1
CONSTANT f2 = f2
CONSTANT f3 = f3
CONSTANT g1 = g1
CONSTANT NoFile = NoFile
CONSTANT NoPart = NoPart
CONSTANT FileOf <- MCFileOf
CONSTANT Size <- MCSize
CONSTANT HashMod <- MCHashMod
CONSTANT Path <- MCPath
CONSTANT Number <- MCNumber
CONSTANT Spelled <- MCSpelled
CONSTANT Client = {member, stranger}
CONSTANT File = {f1}
CONSTANT Version = {1, 2}
CONSTANT EolBytes <- MCEolBytes
CONSTANT Splits = "write"
CONSTANT Live = {1}
CONSTANT Unwritable = {}
CONSTANT Elsewhere = {}
CONSTANT Missing = {}
CONSTANT TornWrites = FALSE
CONSTANT ShortNames = {}
CONSTANT Stranger = {stranger}
CONSTANT Messages <- PoliteMessages
CONSTANT MaxKills = 0
CONSTANT MaxSends <- PoliteSends
SPECIFICATION Spec
INVARIANT StrangersReadNothing
INVARIANT StrangersStoreNothing
PROPERTY PartsAreKept
CHECK_DEADLOCK FALSE
