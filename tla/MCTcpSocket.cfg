CONSTANTS
    Sockets = {s1, s2}
    Servers = {v1, v2}
    Fds = {f1, f2}
    NoFd = NoFd
    Hosts = {2}
    MaxQueued = 1
    MaxBusy = 2
SYMMETRY Symmetry
SPECIFICATION Spec
INVARIANTS OwnershipInv ErrorsExplained AnswersTruthful
