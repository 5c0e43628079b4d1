SPECIFICATION Spec
CONSTANTS
    Programs <- ContinuingSwitches
    Backends = {"llvm", "wabt"}
    Fuel = 60
INVARIANT FollowsSource
