SPECIFICATION Spec
CONSTANTS
    U32Max = 7
    UsizeMax = 31
    Slots = 3
    Volumes <- SmallVolumes
    Forks <- SmallForks
    CNID = 5
    Trees <- SmallTrees
INVARIANTS
    FragmentedForksRead
CHECK_DEADLOCK FALSE
