CONSTANT member = member
CONSTANT stranger = stranger
CONSTANT f1 = f1
CONSTANT f2 = f2
CONSTANT f3 = f3
CONSTANT g1 = g1
CONSTANT NoFile = NoFile
CONSTANT NoPart = NoPart
CONSTANT FileOf <- MCFileOf
CONSTANT Size <- MCSize
CONSTANT HashMod <- MCHashMod
CONSTANT Path <- MCPath
CONSTANT Number <- MCNumber
CONSTANT Spelled <- MCSpelled
CONSTANT Client = {member}
CONSTANT File = {f1, f2, f3, g1}
CONSTANT Version = {1, 2}
CONSTANT EolBytes <- MCEolBytes
CONSTANT Splits = "write"
CONSTANT Live = {1, 2}
CONSTANT Unwritable = {2}
CONSTANT Elsewhere = {f2}
CONSTANT Missing = {f3}
CONSTANT TornWrites = TRUE
CONSTANT ShortNames = {g1}
CONSTANT Stranger = {}
CONSTANT Messages <- RudeMessages
CONSTANT MaxKills = 1
CONSTANT MaxSends <- RudeSends
SPECIFICATION Spec
INVARIANT TypeOK
 
PROPERTY PartsAreKept
PROPERTY StoresParts
CHECK_DEADLOCK FALSE
