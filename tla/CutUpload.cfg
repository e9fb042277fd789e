CONSTANT alice = alice
CONSTANT bob = bob
CONSTANT f1 = f1
CONSTANT f2 = f2
CONSTANT NoFile = NoFile
CONSTANT NoPart = NoPart
CONSTANT NoVersion = NoVersion
CONSTANT FileOf <- MCFileOf
CONSTANT Size <- MCSize
CONSTANT HashMod <- MCHashMod
CONSTANT Path <- MCPath
CONSTANT Number <- OneWild
CONSTANT Spelled <- SpelledOne
CONSTANT Client = {alice}
CONSTANT File = {f1}
CONSTANT Version = {1}
CONSTANT EolBytes <- LinesOfText
CONSTANT Length = 24
CONSTANT Splits = "byte"
CONSTANT Live = {1}
CONSTANT Unwritable = {}
CONSTANT Elsewhere = {}
CONSTANT Missing = {}
CONSTANT TornWrites = FALSE
CONSTANT ShortNames = {}
CONSTANT Password <- RightPassword
CONSTANT MaxCommands <- One
CONSTANT MaxKills = 0
CONSTANT KillsBetween = FALSE
CONSTANT Restarts = FALSE
CONSTANT Quits = FALSE
CONSTANT Patient = TRUE
SPECIFICATION Spec
INVARIANT StoredPartsAreSlices
CHECK_DEADLOCK FALSE
