CONSTANT alice = alice
CONSTANT bob = bob
CONSTANT f1 = f1
CONSTANT f2 = f2
CONSTANT NoFile = NoFile
CONSTANT NoPart = NoPart
CONSTANT NoVersion = NoVersion
CONSTANT FileOf <- MCFileOf
CONSTANT Size <- MCSize
CONSTANT HashMod <- MCHashMod
CONSTANT Path <- MCPath
CONSTANT Number <- NoWild
CONSTANT Spelled <- Plain
CONSTANT Client = {alice}
CONSTANT File = {f1}
CONSTANT Version = {1}
CONSTANT EolBytes <- NoEol
CONSTANT Length = 5
CONSTANT Splits = "burst"
CONSTANT Live = {1, 2, 3, 4}
CONSTANT Unwritable = {}
CONSTANT Elsewhere = {}
CONSTANT Missing = {}
CONSTANT TornWrites = FALSE
CONSTANT ShortNames = {}
CONSTANT Password <- RightPassword
CONSTANT MaxCommands <- Three
CONSTANT MaxKills = 2
CONSTANT KillsBetween = TRUE
CONSTANT Restarts = FALSE
CONSTANT Quits = FALSE
CONSTANT Patient = TRUE
SPECIFICATION Spec
PROPERTY ListedIsAvailable
CHECK_DEADLOCK FALSE
