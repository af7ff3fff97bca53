CONSTANTS
    Objs = {1, 2, 3, 4, 5}
    Inputs <- Teams
SPECIFICATION Spec
INVARIANTS KeysRight
CHECK_DEADLOCK FALSE
