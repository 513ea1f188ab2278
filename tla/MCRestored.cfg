CONSTANTS
    o1 = o1  o2 = o2
    a = a  b = b  c = c
    fa = fa  fb = fb  fc = fc  plain = plain  t1 = t1  t2 = t2  t3 = t3
    edit = edit  wizard = wizard
    NoFile = NoFile  Torn = Torn
    Operators = {o1, o2}
    Loaders = {l1}
    Ids = {a, b, c}
    Bodies = {a, b, edit, wizard}
    Files <- MCFiles
    Names <- MCNames
    ManifestNames <- MCManifestNames
    TempName <- MCTempName
    FileFor <- MCFileFor
    CopyIds <- MCCopyIds
    Texts <- MCTexts
    SavePaths <- MCSavePaths
    Templates <- MCTemplates
    InitialDisks <- MCInitialDisks
    MaxOps = 2
    MaxLoads = 1
SPECIFICATION Spec
PROPERTIES
    RestoredIsActive
CHECK_DEADLOCK FALSE
