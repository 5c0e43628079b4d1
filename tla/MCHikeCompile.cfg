SPECIFICATION Spec
CONSTANTS
    Programs <- FunctionBodies
    Backends = {"llvm", "wabt"}
    Fuel = 60
INVARIANTS
    OneTree
    Executable
PROPERTY Implements
