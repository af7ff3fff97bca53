CONSTANTS
    Objs = {1, 2, 3}
    Inputs <- Graphs3
SPECIFICATION Spec
INVARIANTS KeysRight Integrity Complete NoCollision AllOrNothing
CHECK_DEADLOCK FALSE
