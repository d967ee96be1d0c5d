----------------------------- MODULE MCTcpSocket -----------------------------
(* Descriptors are interchangeable, and so are objects of one class. *)
EXTENDS TcpSocket, TLC

Symmetry == Permutations(Fds) \cup Permutations(Sockets) \cup Permutations(Servers)

=============================================================================
