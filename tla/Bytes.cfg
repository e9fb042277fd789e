CONSTANT alice = alice
CONSTANT bob = bob
CONSTANT f1 = f1
CONSTANT f2 = f2
CONSTANT NoFile = NoFile
CONSTANT NoPart = NoPart
CONSTANT NoVersion = NoVersion
CONSTANT FileOf <- MCFileOf
CONSTANT Size <- MCSize
CONSTANT HashMod <- MCHashMod
CONSTANT Path <- MCPath
CONSTANT Number <- NoWild
CONSTANT Spelled <- Plain
CONSTANT Client = {alice}
CONSTANT File = {f1, f2}
CONSTANT Version = {1, 2, 3}
CONSTANT EolBytes <- PartsStartWithEol
CONSTANT Length = 5
CONSTANT Splits = "byte"
CONSTANT Live = {1}
CONSTANT Unwritable = {}
CONSTANT Elsewhere = {}
CONSTANT Missing = {}
CONSTANT TornWrites = TRUE
CONSTANT ShortNames = {}
CONSTANT Password <- AnyPassword
CONSTANT MaxCommands <- Three
CONSTANT MaxKills = 1
CONSTANT KillsBetween = FALSE
CONSTANT Restarts = TRUE
CONSTANT Quits = TRUE
CONSTANT Patient = FALSE
SPECIFICATION Spec
INVARIANT StoredPartsAreSlices
INVARIANT ListedIsStored
INVARIANT FetchedFromUploads
CHECK_DEADLOCK FALSE
