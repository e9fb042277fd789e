CONSTANT alice = alice
CONSTANT bob = bob
CONSTANT f1 = f1
CONSTANT f2 = f2
CONSTANT NoFile = NoFile
CONSTANT NoPart = NoPart
CONSTANT NoVersion = NoVersion
CONSTANT FileOf <- MCFileOf
CONSTANT Size <- MCSize
CONSTANT HashMod <- MCHashMod
CONSTANT Path <- MCPath
CONSTANT Number <- NoWild
CONSTANT Spelled <- Plain
CONSTANT Client = {alice, bob}
CONSTANT File = {f1}
CONSTANT Version = {1, 2}
CONSTANT EolBytes <- NoEol
CONSTANT Length = 5
CONSTANT Splits = "write"
CONSTANT Live = {1}
CONSTANT Unwritable = {}
CONSTANT Elsewhere = {}
CONSTANT Missing = {}
CONSTANT TornWrites = FALSE
CONSTANT ShortNames = {}
CONSTANT Password <- RightPassword
CONSTANT MaxCommands <- Two
CONSTANT MaxKills = 0
CONSTANT KillsBetween = FALSE
CONSTANT Restarts = FALSE
CONSTANT Quits = FALSE
CONSTANT Patient = FALSE
SPECIFICATION Spec
INVARIANT StoredPartsAreSlices
INVARIANT FetchedPartsAreSlices
INVARIANT ListedIsStored
CHECK_DEADLOCK FALSE
