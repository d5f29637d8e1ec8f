SPECIFICATION GovSpec
CONSTANTS
    Job = job
    Workers = {w1}
    NoOwner = NoOwner
    ada = ada
    bob = bob
    Callers <- SignedInCallers
    Emails <- Addresses
    Null = Null
    AsIs = AsIs
    Patches = {p1, p2}
    Downloads = {}
PROPERTY ApprovalKept
