SPECIFICATION Spec
INVARIANTS
    BuffersDisjoint
    WholeFrame
    CameraPowered
PROPERTIES
    StageComplete
