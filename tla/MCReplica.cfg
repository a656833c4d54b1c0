CONSTANTS
    r1 = r1
    r2 = r2
    Replicas = {r1, r2}
    NoOne = NoOne
    Release <- OldAndNew
    MaxBoots = 3
    MaxBusy = 1
SPECIFICATION FairSpec
INVARIANTS
    TypeOK
    OpenWhileUsed
    ServesItsSchema
    NoSchemaCollision
    JobsOverlapOnlyOverdue
PROPERTY
    StartsAndStopsEnd
CHECK_DEADLOCK FALSE
