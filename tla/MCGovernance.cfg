CONSTANTS
    reader = reader
    sender = sender
    Pack = {reader, sender}
    Tool <- MCTool
    Listed <- MCListed
    Profile <- MCProfile
    Command = {c1, c2}
    Caller = {r1}
    Evaluator = {l1}
    Envs <- MCEnvs
    Enables <- MCEnables
    Disables <- MCDisables
    MaxCommands = 2
    MaxCrashes = 1
SPECIFICATION Spec
INVARIANTS
    IndInv
    ReadyIsRunnable
PROPERTIES
    PolicyLostByOverlapOnly
SYMMETRY Symmetric
CONSTRAINT OneReads
CHECK_DEADLOCK FALSE
