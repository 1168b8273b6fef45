SPECIFICATION Spec
CONSTANTS
    ObjId = {"a", "b", "c"}
    NoParent = NoParent
    Scene0 <- MCScene
    Habits <- MCHabits
    MaxInputs = 5
INVARIANTS EditForksHistory UndoRestores RedoRestores HandshakeMatched
PROPERTIES PressesDrain
CHECK_DEADLOCK FALSE
