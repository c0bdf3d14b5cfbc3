SPECIFICATION Spec
CONSTANTS
    contract = contract
    nullifier = nullifier
    archive = archive
    leaf = leaf
    None = None
    Zero = Zero
    TreeOrder <- MCTreeOrder
    Archive <- archive
    Marker <- nullifier
    Indexed <- MCIndexed
    Bodies <- MCBodies
    MayCrash = {"create", "createLeaves", "idle", "commit", "commitLeaves", "check", "snapshot", "number"}
    MaxBlocks = 2
    MaxCrashes = 2
CHECK_DEADLOCK FALSE
INVARIANTS
    SyncSafe
    CommittedIsPublished
PROPERTIES
    FollowsUnlessTorn
