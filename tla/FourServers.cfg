CONSTANT alice = alice
CONSTANT bob = bob
CONSTANT f1 = f1
CONSTANT f2 = f2
CONSTANT NoFile = NoFile
CONSTANT NoPart = NoPart
CONSTANT NoVersion = NoVersion
CONSTANT FileOf <- MCFileOf
CONSTANT Size <- MCSize
CONSTANT HashMod <- MCHashMod
CONSTANT Path <- MCPath
CONSTANT Number <- NoWild
CONSTANT Spelled <- Plain
CONSTANT Client = {alice}
CONSTANT File = {f1}
CONSTANT Version = {1}
CONSTANT EolBytes <- NoEol
CONSTANT Length = 5
CONSTANT Splits = "burst"
CONSTANT Live = {1, 2, 3, 4}
CONSTANT Unwritable = {}
CONSTANT Elsewhere = {}
CONSTANT Missing = {}
CONSTANT TornWrites = FALSE
CONSTANT ShortNames = {}
CONSTANT Password <- RightPassword
CONSTANT MaxCommands <- Two
CONSTANT MaxKills = 1
CONSTANT KillsBetween = FALSE
CONSTANT Restarts = FALSE
CONSTANT Quits = FALSE
CONSTANT Patient = TRUE
SPECIFICATION FairSpec
INVARIANT TypeOK
INVARIANT RetrievedIsUploaded
INVARIANT NoServerAborts
PROPERTY PutAndListReturn
PROPERTY UploadIsStored
PROPERTY RetrievedDespiteLoss
CHECK_DEADLOCK FALSE
