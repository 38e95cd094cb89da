\* The batch of ten rows of the code against up to twelve profiles.
CONSTANTS
    BatchSize = 10
    MaxProfiles = 12
    Panic = Panic
SPECIFICATION Spec
INVARIANT ListProfilesComplete
