--------------------------- MODULE TcpSocketProofs ---------------------------
(***************************************************************************)
(* TcpSocket and TcpServer own their descriptors alone, explain their      *)
(* errors and answer truthfully, for every number of objects, descriptors  *)
(* and addresses, every behaviour of the network and every interleaving of *)
(* calls, those of the two threads of a socket included.                   *)
(*                                                                         *)
(* The runs' invariants are not inductive.  What they rest on is local:    *)
(* every descriptor is free or has one holder, an object or a call in      *)
(* progress (FdFits); and each object agrees with the descriptors it holds *)
(* (SocketFits, ServerFits), a broken connection having its error pending, *)
(* told of, or about to be stored.  A step disturbs the objects it is      *)
(* about and descriptors that are theirs or free, and nothing else, so     *)
(* that only those have to be looked at again (TouchedKeeps).              *)
(***************************************************************************)
EXTENDS TcpSocket, FiniteSetTheorems, TLAPS

ObjRecords == [handle : Fds \cup {NoFd}, error : BOOLEAN, nb : BOOLEAN, port : BOOLEAN]

CallRecords ==
    [at : {"none", "socket", "mode", "connect", "bind", "listen", "accept"},
     fd : Fds \cup {NoFd}, left : Nat, last : BOOLEAN]

Descriptors ==
    [st : {"free", "new", "listening", "connecting", "connected", "failed", "reset"},
     nb : BOOLEAN, so : BOOLEAN, queued : 0 .. MaxQueued, fin : BOOLEAN, told : BOOLEAN,
     overlap : BOOLEAN]

\* The object, or the call on it in progress, holds the descriptor.
Holds(o, f) == obj[o].handle = f \/ call[o].fd = f

\* A descriptor is free and nobody's, or it is open and has one holder.
FdFits(f) ==
    IF FreeFd(f) THEN \A o \in Objects : ~ Holds(o, f)
    ELSE \E o \in Objects : Holds(o, f) /\ \A p \in Objects : Holds(p, f) => p = o

\* A connect() holds a new descriptor, of the mode asked for once it is set.
ConnectFits(ob, c, k) ==
    /\ c.left > 0 /\ k.st = "new" /\ ~ k.told
    /\ c.at = "mode" => ob.nb
    /\ c.at = "connect" => k.nb = ob.nb

\* What is known of an open socket, whatever its two threads are doing.
ConnectionFits(ob, i, k) ==
    /\ k.st \in {"connecting", "connected", "failed", "reset"}
    /\ (\A d \in Sides : i[d] # "mode") => k.nb = ob.nb
    /\ Broken(k) => k.so \/ k.told \/ \E d \in Sides : i[d] = "took"
    /\ \A d \in Sides : /\ i[d] = "raised" => Broken(k)
                        /\ i[d] = "resolved" => k.st # "connecting"
    /\ k.overlap \/ ((k.told => ob.error) /\ \A d \in Sides : i[d] # "zero")

SocketFits(s) ==
    /\ call[s].at \in {"none", "socket", "mode", "connect"}
    /\ call[s].fd = NoFd <=> call[s].at \in {"none", "socket"}
    /\ call[s].at # "none" => obj[s].handle = NoFd
    /\ obj[s].handle = NoFd => \A d \in Sides : io[s][d] = "idle"
    /\ call[s].at = "socket" /\ call[s].left = 0 => call[s].last
    /\ call[s].fd # NoFd => ConnectFits(obj[s], call[s], kernel[call[s].fd])
    /\ obj[s].handle # NoFd => ConnectionFits(obj[s], io[s], kernel[obj[s].handle])
    /\ ~ obj[s].port

\* listen() holds a new descriptor, of the mode asked for once it is set.
ListenFits(ob, c, k) ==
    /\ ob.handle = NoFd /\ k.st = "new"
    /\ c.at = "mode" => ob.nb
    /\ c.at # "mode" => k.nb = ob.nb

\* accept() holds a connection of which nobody has been told anything.
AcceptFits(ob, k) ==
    /\ ob.handle # NoFd /\ ~ ob.error /\ ~ k.told
    /\ k.st \in {"connected", "reset"} /\ (k.st = "reset" => k.so)

ServerFits(v) ==
    /\ call[v].at \in {"none", "mode", "bind", "listen", "accept"}
    /\ call[v].fd = NoFd <=> call[v].at = "none"
    /\ call[v].at \in {"mode", "bind", "listen"} =>
           ListenFits(obj[v], call[v], kernel[call[v].fd])
    /\ call[v].at = "accept" => AcceptFits(obj[v], kernel[call[v].fd])
    /\ obj[v].handle # NoFd =>
           kernel[obj[v].handle].st = "listening" /\ kernel[obj[v].handle].nb = obj[v].nb
    /\ obj[v].port => obj[v].handle # NoFd

\* The answer just given is true, and a failure just returned is explained.
Answered ==
    /\ ret.res = "error" =>
          \/ obj[ret.of].error
          \/ ret.of \in Sockets /\ is_open(ret.of) /\ Of(ret.of).overlap
    /\ AnswersTruthful

Fits(o) == (o \in Sockets => SocketFits(o)) /\ (o \in Servers => ServerFits(o))

SocketsIInv ==
    /\ TypeOK
    /\ \A f \in Fds : FdFits(f)
    /\ \A o \in Objects : Fits(o)

-----------------------------------------------------------------------------
(* What the invariant gives.                                               *)

\* The types, name by name.
LEMMA Typed ==
    ASSUME TypeOK
    PROVE  /\ obj \in [Objects -> ObjRecords] /\ call \in [Objects -> CallRecords]
           /\ io \in [Sockets -> [Sides -> Stages]] /\ kernel \in [Fds -> Descriptors]
           /\ NoFd \notin Fds /\ Sockets \cap Servers = {} /\ Objects = Sockets \cup Servers
           /\ \A o \in Objects : is_open(o) <=> obj[o].handle \in Fds
BY ConstantsFit DEF TypeOK, ObjRecords, CallRecords, Descriptors, Objects, is_open

\* The types are those of the variables' values.
LEMMA Retyped ==
    ASSUME obj' \in [Objects -> ObjRecords], call' \in [Objects -> CallRecords],
           io' \in [Sockets -> [Sides -> Stages]], kernel' \in [Fds -> Descriptors]
    PROVE  TypeOK'
BY DEF TypeOK, ObjRecords, CallRecords, Descriptors, Objects

\* An object does not hold one descriptor twice.
LEMMA HeldOneWay ==
    ASSUME SocketsIInv, NEW o \in Objects, NEW f \in Fds, obj[o].handle = f
    PROVE  call[o].fd # f
<1>1. Fits(o) /\ o \in Sockets \cup Servers /\ NoFd \notin Fds
  BY Typed DEF SocketsIInv
<1>2. CASE o \in Sockets
  BY <1>1, <1>2 DEF Fits, SocketFits
<1>3. CASE o \in Servers
  BY <1>1, <1>3 DEF Fits, ServerFits, ListenFits, AcceptFits
<1>4. QED BY <1>1, <1>2, <1>3

\* One holder means exactly one owner.
LEMMA HeldOnce == SocketsIInv => OneOwner
<1> SUFFICES ASSUME SocketsIInv, NEW f \in Fds
             PROVE  Cardinality(Owners(f)) = IF FreeFd(f) THEN 0 ELSE 1
  BY DEF OneOwner
<1>0. FdFits(f)
  BY DEF SocketsIInv
<1>1. CASE FreeFd(f)
  <2>1. Owners(f) = {}
    BY <1>0, <1>1 DEF Owners, FdFits, Holds
  <2>2. QED BY <1>1, <2>1, FS_EmptySet
<1>2. CASE ~ FreeFd(f)
  <2>1. PICK o \in Objects : Holds(o, f) /\ \A p \in Objects : Holds(p, f) => p = o
    BY <1>0, <1>2 DEF FdFits
  <2>2. CASE obj[o].handle = f
    <3>1. \A p \in Objects : call[p].fd # f
      BY <2>1, <2>2, HeldOneWay DEF Holds
    <3>2. Owners(f) = {o}
      BY <2>1, <2>2, <3>1 DEF Owners, Holds
    <3>3. QED BY <1>2, <3>2, FS_Singleton
  <2>3. CASE obj[o].handle # f
    <3>1. {x \in Objects : call[x].fd = f} = {o}
      BY <2>1, <2>3 DEF Holds
    <3>2. {p \in Objects : obj[p].handle = f} = {}
      BY <2>1, <2>3 DEF Holds
    <3>3. Owners(f) = {<<o, "call">>}
      BY <3>1, <3>2 DEF Owners
    <3>4. QED BY <1>2, <3>3, FS_Singleton
  <2>4. QED BY <2>2, <2>3
<1>3. QED BY <1>1, <1>2

\* Nothing is open at first.
LEMMA InitSockets == Init => SocketsIInv /\ Answered
<1> SUFFICES ASSUME Init PROVE SocketsIInv /\ Answered
  OBVIOUS
<1>1. TypeOK
  <2>1. 0 \in Nat /\ 0 \in 0 .. MaxQueued
    BY ConstantsFit
  <2>2. QED BY <2>1 DEF Init, TypeOK, Closed, NoCall, Free, Stages
<1>2. NoFd \notin Fds /\ Sockets \cap Servers = {} /\ Objects = Sockets \cup Servers
  BY <1>1, Typed
<1>3. /\ \A o \in Objects : obj[o] = Closed /\ call[o] = NoCall
      /\ \A s \in Sockets, d \in Sides : io[s][d] = "idle"
      /\ \A f \in Fds : kernel[f] = Free
  BY DEF Init
<1>4. \A f \in Fds : FdFits(f)
  BY <1>2, <1>3 DEF FdFits, Holds, FreeFd, Closed, NoCall, Free
<1>5. \A s \in Sockets : SocketFits(s)
  BY <1>2, <1>3 DEF SocketFits, Closed, NoCall
<1>6. \A v \in Servers : ServerFits(v)
  BY <1>2, <1>3 DEF ServerFits, Closed, NoCall
<1>7. ret.res = "none"
  BY DEF Init, NoAnswer
<1>8. Answered
  BY <1>7 DEF Answered, AnswersTruthful, ReadyMeansConnected, AcceptTells, ClosedMeansDrained
<1>9. QED BY <1>1, <1>4, <1>5, <1>6, <1>8 DEF SocketsIInv, Fits

-----------------------------------------------------------------------------
(* What a step leaves alone.                                               *)

\* The step is about the objects O and touches descriptors of theirs or free
\* ones only; a descriptor it opens it gives to one of them.
Touches(O) ==
    /\ \A p \in Objects \ O : /\ obj'[p] = obj[p] /\ call'[p] = call[p]
                              /\ p \in Sockets => io'[p] = io[p]
    /\ \A f \in Fds :
          IF FreeFd(f) \/ \E o \in O : Holds(o, f)
          THEN IF FreeFd(f)' THEN \A o \in O : ~ Holds(o, f)'
               ELSE \E o \in O : Holds(o, f)' /\ \A p \in O : Holds(p, f)' => p = o
          ELSE kernel'[f] = kernel[f] /\ \A o \in O : ~ Holds(o, f)'

LEMMA TouchedKeeps ==
    ASSUME SocketsIInv, TypeOK', NEW O \in SUBSET Objects, Touches(O),
           \A o \in O : Fits(o)'
    PROVE  SocketsIInv'
<1>0. /\ Objects = Sockets \cup Servers /\ NoFd \notin Fds
      /\ obj \in [Objects -> ObjRecords] /\ call \in [Objects -> CallRecords]
  BY Typed DEF SocketsIInv
<1>1. ASSUME NEW f \in Fds PROVE FdFits(f)'
  <2>1. FdFits(f) /\ \A p \in Objects \ O : Holds(p, f)' <=> Holds(p, f)
    BY DEF SocketsIInv, Touches, Holds
  <2>2. CASE FreeFd(f) \/ \E o \in O : Holds(o, f)
    <3>1. \A p \in Objects \ O : ~ Holds(p, f)
      BY <2>1, <2>2 DEF FdFits
    <3>2. IF FreeFd(f)' THEN \A o \in O : ~ Holds(o, f)'
          ELSE \E o \in O : Holds(o, f)' /\ \A p \in O : Holds(p, f)' => p = o
      BY <2>2 DEF Touches
    <3>3. CASE FreeFd(f)'
      BY <2>1, <3>1, <3>2, <3>3 DEF FdFits
    <3>4. CASE ~ FreeFd(f)'
      <4>1. PICK o \in O : Holds(o, f)' /\ \A p \in O : Holds(p, f)' => p = o
        BY <3>2, <3>4
      <4>2. \A p \in Objects : Holds(p, f)' => p = o
        BY <4>1, <2>1, <3>1
      <4>3. QED BY <4>1, <4>2, <3>4 DEF FdFits
    <3>5. QED BY <3>3, <3>4
  <2>3. CASE ~ FreeFd(f) /\ \A o \in O : ~ Holds(o, f)
    <3>1. kernel'[f] = kernel[f] /\ \A o \in O : ~ Holds(o, f)'
      BY <2>3 DEF Touches
    <3>2. ~ FreeFd(f)'
      BY <2>3, <3>1 DEF FreeFd
    <3>3. PICK p \in Objects : Holds(p, f) /\ \A q \in Objects : Holds(q, f) => q = p
      BY <2>1, <2>3 DEF FdFits
    <3>4. Holds(p, f)' /\ \A q \in Objects : Holds(q, f)' => q = p
      BY <2>1, <2>3, <3>1, <3>3
    <3>5. QED BY <3>2, <3>4 DEF FdFits
  <2>4. QED BY <2>2, <2>3
<1>2. ASSUME NEW p \in Objects \ O PROVE Fits(p)'
  <2>1. /\ obj'[p] = obj[p] /\ call'[p] = call[p] /\ (p \in Sockets => io'[p] = io[p])
        /\ Fits(p)
    BY DEF Touches, SocketsIInv
  <2>2. \A f \in Fds : Holds(p, f) => kernel'[f] = kernel[f]
    <3>1. SUFFICES ASSUME NEW f \in Fds, Holds(p, f) PROVE kernel'[f] = kernel[f]
      OBVIOUS
    <3>2. FdFits(f)
      BY DEF SocketsIInv
    <3>3. ~ FreeFd(f) /\ \A o \in O : ~ Holds(o, f)
      BY <3>1, <3>2 DEF FdFits
    <3>4. QED BY <3>3 DEF Touches
  <2>3. /\ obj[p].handle # NoFd => kernel'[obj[p].handle] = kernel[obj[p].handle]
        /\ call[p].fd # NoFd => kernel'[call[p].fd] = kernel[call[p].fd]
    BY <1>0, <2>2 DEF Holds, ObjRecords, CallRecords
  <2>4. p \in Sockets => SocketFits(p)'
    BY <2>1, <2>3 DEF Fits, SocketFits
  <2>5. p \in Servers => ServerFits(p)'
    BY <2>1, <2>3 DEF Fits, ServerFits
  <2>6. QED BY <2>4, <2>5 DEF Fits
<1>3. QED BY <1>1, <1>2 DEF SocketsIInv

\* The step is about one object.
Only(o) ==
    \A p \in Objects \ {o} : /\ obj'[p] = obj[p] /\ call'[p] = call[p]
                             /\ p \in Sockets => io'[p] = io[p]

\* It keeps the descriptors it holds,
LEMMA SteadyKeeps ==
    ASSUME SocketsIInv, TypeOK', NEW o \in Objects, Only(o), Fits(o)',
           \A f \in Fds : /\ Holds(o, f)' <=> Holds(o, f)
                          /\ kernel'[f] = kernel[f] \/ (Holds(o, f) /\ ~ FreeFd(f)')
    PROVE  SocketsIInv'
<1>1. \A f \in Fds : Holds(o, f) => ~ FreeFd(f)
  BY DEF SocketsIInv, FdFits
<1>2. \A f \in Fds : FreeFd(f) \/ Holds(o, f) => (Holds(o, f)' <=> ~ FreeFd(f)')
  BY <1>1 DEF FreeFd
<1>3. Touches({o})
  BY <1>2 DEF Touches, Only
<1>4. QED BY <1>3, TouchedKeeps

\* or is given one more,
LEMMA OpenedKeeps ==
    ASSUME SocketsIInv, TypeOK', NEW o \in Objects, Only(o), Fits(o)',
           NEW g \in Fds, FreeFd(g), ~ FreeFd(g)',
           \A f \in Fds : /\ Holds(o, f)' <=> Holds(o, f) \/ f = g
                          /\ \/ f = g \/ kernel'[f] = kernel[f]
                             \/ Holds(o, f) /\ ~ FreeFd(f)'
    PROVE  SocketsIInv'
<1>1. \A f \in Fds : Holds(o, f) => ~ FreeFd(f)
  BY DEF SocketsIInv, FdFits
<1>2. \A f \in Fds : FreeFd(f) \/ Holds(o, f) => (Holds(o, f)' <=> ~ FreeFd(f)')
  BY <1>1 DEF FreeFd
<1>3. Touches({o})
  BY <1>2 DEF Touches, Only
<1>4. QED BY <1>3, TouchedKeeps

\* The kernel after a close.
LEMMA ClosedOne ==
    ASSUME TypeOK, NEW g \in Fds
    PROVE  /\ close_native(g) \in [Fds -> Descriptors]
           /\ close_native(g)[g] = Free /\ Free.st = "free"
           /\ \A f \in Fds : f # g => close_native(g)[f] = kernel[f]
<1>1. kernel \in [Fds -> Descriptors]
  BY Typed
<1>2. Free \in Descriptors
  BY ConstantsFit DEF Free, Descriptors
<1>3. QED BY <1>1, <1>2 DEF close_native, Free

\* or closes one.
LEMMA DroppedKeeps ==
    ASSUME SocketsIInv, TypeOK', NEW o \in Objects, Only(o), Fits(o)',
           NEW g \in Fds, Holds(o, g), kernel' = close_native(g),
           \A f \in Fds : Holds(o, f)' <=> Holds(o, f) /\ f # g
    PROVE  SocketsIInv'
<1>1. \A f \in Fds : Holds(o, f) => ~ FreeFd(f)
  BY DEF SocketsIInv, FdFits
<1>2. kernel'[g].st = "free" /\ \A f \in Fds : f # g => kernel'[f] = kernel[f]
  BY ClosedOne DEF SocketsIInv
<1>3. \A f \in Fds : FreeFd(f) \/ Holds(o, f) => (Holds(o, f)' <=> ~ FreeFd(f)')
  BY <1>1, <1>2 DEF FreeFd
<1>4. Touches({o})
  BY <1>2, <1>3 DEF Touches, Only
<1>5. QED BY <1>4, TouchedKeeps

\* A step that answers nothing has nothing to explain,
LEMMA NothingAnswered == ASSUME ret' = NoAnswer PROVE Answered'
BY DEF NoAnswer, Answered, AnswersTruthful, ReadyMeansConnected, AcceptTells,
       ClosedMeansDrained

\* and one that fails only its failure.
LEMMA FailureAnswered ==
    ASSUME NEW o, Returns(o, "error"),
           obj'[o].error \/ (o \in Sockets /\ is_open(o) /\ Of(o).overlap)'
    PROVE  Answered'
<1>1. ret'.of = o /\ ret'.res = "error"
  BY DEF Returns, Answers
<1>2. QED BY <1>1 DEF Answered, AnswersTruthful, ReadyMeansConnected, AcceptTells,
                     ClosedMeansDrained, is_open, Of

\* The descriptors of an object.
LEMMA Hers ==
    ASSUME SocketsIInv, NEW o \in Objects
    PROVE  /\ obj[o] \in ObjRecords /\ call[o] \in CallRecords /\ Fits(o)
           /\ obj[o].handle # NoFd => /\ obj[o].handle \in Fds
                                      /\ kernel[obj[o].handle] \in Descriptors
                                      /\ Of(o) = kernel[obj[o].handle]
           /\ call[o].fd # NoFd => /\ call[o].fd \in Fds
                                   /\ kernel[call[o].fd] \in Descriptors
           /\ is_open(o) <=> obj[o].handle # NoFd
BY Typed DEF SocketsIInv, ObjRecords, CallRecords, Of, is_open

-----------------------------------------------------------------------------
(* connect().                                                              *)

\* The records of objects and calls as they begin.
LEMMA NewRecords ==
    /\ \A e, nb \in BOOLEAN :
          LET r == [Closed EXCEPT !.error = e, !.nb = nb]
          IN  r \in ObjRecords /\ r.handle = NoFd /\ r.error = e /\ r.nb = nb /\ r.port = FALSE
    /\ \A nb \in BOOLEAN :
          LET r == [Closed EXCEPT !.nb = nb]
          IN  /\ r \in ObjRecords /\ r.handle = NoFd /\ r.error = FALSE /\ r.nb = nb
              /\ r.port = FALSE
    /\ \A nb \in BOOLEAN, h \in Fds :
          LET r == [Closed EXCEPT !.handle = h, !.nb = nb]
          IN  r \in ObjRecords /\ r.handle = h /\ r.error = FALSE /\ r.nb = nb /\ r.port = FALSE
    /\ \A n \in Nat :
          LET r == [NoCall EXCEPT !.at = "socket", !.left = n]
          IN  r \in CallRecords /\ r.at = "socket" /\ r.fd = NoFd /\ r.left = n
    /\ NoCall \in CallRecords /\ NoCall.at = "none" /\ NoCall.fd = NoFd
<1>1. /\ Closed \in ObjRecords /\ Closed.handle = NoFd /\ Closed.error = FALSE
      /\ Closed.nb = FALSE /\ Closed.port = FALSE
  BY DEF Closed, ObjRecords
<1>2. NoCall \in CallRecords /\ NoCall.at = "none" /\ NoCall.fd = NoFd
  BY DEF NoCall, CallRecords
<1>3. QED BY <1>1, <1>2 DEF ObjRecords, CallRecords

LEMMA ConnectBeginKeeps ==
    ASSUME SocketsIInv, NEW s \in Sockets, NEW nb \in BOOLEAN, ConnectBegin(s, nb)
    PROVE  SocketsIInv' /\ Answered'
<1>0. /\ s \in Objects /\ UNCHANGED <<io, kernel>> /\ NoFd \notin Fds
      /\ obj \in [Objects -> ObjRecords] /\ call \in [Objects -> CallRecords]
      /\ io \in [Sockets -> [Sides -> Stages]] /\ kernel \in [Fds -> Descriptors]
  BY Typed DEF SocketsIInv, ConnectBegin
<1>1. PICK r \in ObjRecords : /\ obj' = [obj EXCEPT ![s] = r]
                              /\ r.handle = NoFd /\ r.port = FALSE
  <2>1. \/ \E e \in BOOLEAN : obj' = [obj EXCEPT ![s] = [Closed EXCEPT !.error = e, !.nb = nb]]
        \/ obj' = [obj EXCEPT ![s] = [Closed EXCEPT !.nb = nb]]
    BY DEF ConnectBegin
  <2>2. ASSUME NEW e \in BOOLEAN,
               obj' = [obj EXCEPT ![s] = [Closed EXCEPT !.error = e, !.nb = nb]]
        PROVE  \E r \in ObjRecords : /\ obj' = [obj EXCEPT ![s] = r]
                                     /\ r.handle = NoFd /\ r.port = FALSE
    <3> DEFINE r == [Closed EXCEPT !.error = e, !.nb = nb]
    <3>1. r \in ObjRecords /\ r.handle = NoFd /\ r.port = FALSE
      BY NewRecords
    <3>2. obj' = [obj EXCEPT ![s] = r]
      BY <2>2
    <3> HIDE DEF r
    <3>3. QED BY <3>1, <3>2
  <2>3. ASSUME obj' = [obj EXCEPT ![s] = [Closed EXCEPT !.nb = nb]]
        PROVE  \E r \in ObjRecords : /\ obj' = [obj EXCEPT ![s] = r]
                                     /\ r.handle = NoFd /\ r.port = FALSE
    <3> DEFINE r == [Closed EXCEPT !.nb = nb]
    <3>1. r \in ObjRecords /\ r.handle = NoFd /\ r.port = FALSE
      BY NewRecords
    <3>2. obj' = [obj EXCEPT ![s] = r]
      BY <2>3
    <3> HIDE DEF r
    <3>3. QED BY <3>1, <3>2
  <2>4. QED BY <2>1, <2>2, <2>3
<1>2. /\ call[s].at = "none" /\ obj[s].handle = NoFd
      /\ SocketFits(s) /\ call[s].fd = NoFd
      /\ \A d \in Sides : io[s][d] = "idle"
  BY <1>0, Hers DEF ConnectBegin, Idle, is_open, Fits, SocketFits
<1>3. /\ obj' \in [Objects -> ObjRecords] /\ call' \in [Objects -> CallRecords]
      /\ obj'[s].handle = NoFd /\ call'[s].fd = NoFd /\ obj'[s].port = FALSE
      /\ call'[s].at \in {"none", "socket"} /\ (call'[s].at = "socket" => call'[s].left # 0)
      /\ \A p \in Objects \ {s} : obj'[p] = obj[p] /\ call'[p] = call[p]
  <2>1. /\ obj' \in [Objects -> ObjRecords] /\ obj'[s] = r
        /\ \A p \in Objects \ {s} : obj'[p] = obj[p]
    BY <1>0, <1>1
  <2>2. CASE call' = call
    BY <1>0, <1>1, <1>2, <2>1, <2>2
  <2>3. ASSUME NEW n \in Hosts,
               call' = [call EXCEPT ![s] = [NoCall EXCEPT !.at = "socket", !.left = n]]
        PROVE  /\ call' \in [Objects -> CallRecords] /\ call'[s].fd = NoFd
               /\ call'[s].at = "socket" /\ call'[s].left # 0
               /\ \A p \in Objects \ {s} : call'[p] = call[p]
    <3>1. n \in Nat /\ n # 0
      BY ConstantsFit
    <3>2. LET c == [NoCall EXCEPT !.at = "socket", !.left = n]
          IN  c \in CallRecords /\ c.at = "socket" /\ c.fd = NoFd /\ c.left = n
      BY <3>1, NewRecords
    <3>3. QED BY <1>0, <2>3, <3>1, <3>2
  <2>4. QED BY <1>1, <2>1, <2>2, <2>3 DEF ConnectBegin
<1>4. TypeOK'
  BY <1>0, <1>3, Retyped
<1>5. Only(s)
  BY <1>0, <1>3 DEF Only
<1>6. SocketFits(s)' /\ s \notin Servers
  BY <1>0, <1>2, <1>3, ConstantsFit DEF SocketFits
<1>7. \A f \in Fds : (Holds(s, f)' <=> Holds(s, f)) /\ kernel'[f] = kernel[f]
  BY <1>0, <1>2, <1>3 DEF Holds
<1>8. SocketsIInv'
  BY <1>0, <1>4, <1>5, <1>6, <1>7, SteadyKeeps DEF Fits
<1>9. Answered'
  BY NothingAnswered DEF ConnectBegin
<1>10. QED BY <1>8, <1>9

\* The call as it goes on with the next address.
LEMMA NextCall ==
    ASSUME SocketsIInv, NEW s \in Sockets, call[s].at \in {"socket", "mode", "connect"},
           call[s].at = "socket" => call[s].left > 0,
           call' = [call EXCEPT ![s] = NextAddress(s)]
    PROVE  /\ call' \in [Objects -> CallRecords]
           /\ call'[s].at = "socket" /\ call'[s].fd = NoFd /\ call'[s].last
           /\ \A p \in Objects \ {s} : call'[p] = call[p]
<1>1. /\ s \in Objects /\ call \in [Objects -> CallRecords] /\ call[s] \in CallRecords
      /\ SocketFits(s)
  BY Typed, Hers DEF SocketsIInv, Fits
<1>2. call[s].left \in Nat /\ call[s].left > 0
  BY <1>1 DEF CallRecords, SocketFits, ConnectFits
<1>3. call[s].left - 1 \in Nat
  BY <1>2
<1>4. /\ NextAddress(s) \in CallRecords /\ NextAddress(s).at = "socket"
      /\ NextAddress(s).fd = NoFd /\ NextAddress(s).last
  BY <1>1, <1>3 DEF NextAddress, CallRecords
<1>5. QED BY <1>1, <1>4

\* A connect() that closes the descriptor it holds and goes on.
LEMMA NextAfterClose ==
    ASSUME SocketsIInv, NEW s \in Sockets, call[s].at \in {"mode", "connect"},
           kernel' = close_native(call[s].fd), call' = [call EXCEPT ![s] = NextAddress(s)],
           ret' = NoAnswer,
           UNCHANGED <<obj, io>>
    PROVE  SocketsIInv' /\ Answered'
<1>1. /\ s \in Objects /\ SocketFits(s) /\ NoFd \notin Fds /\ s \notin Servers
      /\ obj \in [Objects -> ObjRecords] /\ io \in [Sockets -> [Sides -> Stages]]
      /\ call[s].fd # NoFd /\ obj[s].handle = NoFd
  BY Typed, Hers DEF SocketsIInv, Fits, SocketFits
<1>2. call[s].fd \in Fds /\ kernel' \in [Fds -> Descriptors]
  BY <1>1, Hers, ClosedOne DEF SocketsIInv
<1>3. /\ call' \in [Objects -> CallRecords]
      /\ call'[s].at = "socket" /\ call'[s].fd = NoFd /\ call'[s].last
      /\ \A p \in Objects \ {s} : call'[p] = call[p]
  BY NextCall
<1>4. TypeOK'
  BY <1>1, <1>2, <1>3, Retyped
<1>5. Only(s)
  BY <1>1, <1>3 DEF Only
<1>6. SocketFits(s)'
  BY <1>1, <1>3 DEF SocketFits
<1>7. Holds(s, call[s].fd) /\ \A f \in Fds : Holds(s, f)' <=> Holds(s, f) /\ f # call[s].fd
  BY <1>1, <1>3 DEF Holds
<1>8. SocketsIInv'
  BY <1>1, <1>2, <1>4, <1>5, <1>6, <1>7, DroppedKeeps DEF Fits
<1>9. QED BY <1>8, NothingAnswered

LEMMA ConnectRefusedKeeps ==
    ASSUME SocketsIInv, NEW s \in Sockets, ConnectRefused(s)
    PROVE  SocketsIInv' /\ Answered'
BY NextAfterClose DEF ConnectRefused

\* A new descriptor, and one of another mode, are descriptors.
LEMMA FreshTyped ==
    ASSUME NEW st \in {"new", "connected"}, NEW nb \in BOOLEAN
    PROVE  /\ Fresh(st, nb) \in Descriptors
           /\ Fresh(st, nb).st = st /\ Fresh(st, nb).nb = nb /\ ~ Fresh(st, nb).told
<1>1. 0 \in 0 .. MaxQueued
  BY ConstantsFit
<1>2. Free \in Descriptors /\ Free.told = FALSE
  BY <1>1 DEF Free, Descriptors
<1>3. QED BY <1>2 DEF Fresh, Descriptors

LEMMA ConnectSocketKeeps ==
    ASSUME SocketsIInv, NEW s \in Sockets, ConnectSocket(s)
    PROVE  SocketsIInv' /\ Answered'
<1>1. /\ s \in Objects /\ SocketFits(s) /\ NoFd \notin Fds /\ s \notin Servers
      /\ obj \in [Objects -> ObjRecords] /\ call \in [Objects -> CallRecords]
      /\ io \in [Sockets -> [Sides -> Stages]] /\ kernel \in [Fds -> Descriptors]
      /\ UNCHANGED <<obj, io>> /\ call[s].at = "socket" /\ call[s].left > 0
      /\ call[s].fd = NoFd /\ obj[s].handle = NoFd
  BY Typed, Hers DEF SocketsIInv, Fits, SocketFits, ConnectSocket
<1>2. ASSUME call' = [call EXCEPT ![s] = NextAddress(s)], UNCHANGED kernel
      PROVE  SocketsIInv'
  <2>1. /\ call' \in [Objects -> CallRecords]
        /\ call'[s].at = "socket" /\ call'[s].fd = NoFd /\ call'[s].last
        /\ \A p \in Objects \ {s} : call'[p] = call[p]
    BY <1>1, <1>2, NextCall
  <2>2. TypeOK'
    BY <1>1, <1>2, <2>1, Retyped
  <2>3. Only(s)
    BY <1>1, <2>1 DEF Only
  <2>4. SocketFits(s)'
    BY <1>1, <2>1 DEF SocketFits
  <2>5. \A f \in Fds : (Holds(s, f)' <=> Holds(s, f)) /\ kernel'[f] = kernel[f]
    BY <1>1, <1>2, <2>1 DEF Holds
  <2>6. QED BY <1>1, <2>2, <2>3, <2>4, <2>5, SteadyKeeps DEF Fits
<1>3. ASSUME NEW g \in Fds, Opens(g, Fresh("new", FALSE)),
             call' = [call EXCEPT ![s].at = IF obj[s].nb THEN "mode" ELSE "connect", ![s].fd = g]
      PROVE  SocketsIInv'
  <2>1. /\ FreeFd(g) /\ kernel' = [kernel EXCEPT ![g] = Fresh("new", FALSE)]
        /\ Fresh("new", FALSE) \in Descriptors /\ Fresh("new", FALSE).st = "new"
        /\ Fresh("new", FALSE).nb = FALSE /\ ~ Fresh("new", FALSE).told
    BY <1>3, FreshTyped DEF Opens
  <2>2. /\ kernel' \in [Fds -> Descriptors] /\ kernel'[g] = Fresh("new", FALSE)
        /\ \A f \in Fds : f # g => kernel'[f] = kernel[f]
    BY <1>1, <2>1
  <2>3. /\ call' \in [Objects -> CallRecords]
        /\ call'[s].at = (IF obj[s].nb THEN "mode" ELSE "connect")
        /\ call'[s].fd = g /\ call'[s].left = call[s].left
        /\ \A p \in Objects \ {s} : call'[p] = call[p]
    BY <1>1, <1>3 DEF CallRecords
  <2>4. TypeOK'
    BY <1>1, <2>2, <2>3, Retyped
  <2>5. Only(s)
    BY <1>1, <2>3 DEF Only
  <2>6. ConnectFits(obj[s], call'[s], kernel'[g])
    BY <1>1, <2>1, <2>2, <2>3 DEF ConnectFits, ObjRecords
  <2>7. SocketFits(s)'
    BY <1>1, <2>3, <2>6 DEF SocketFits
  <2>8. \A f \in Fds : /\ Holds(s, f)' <=> Holds(s, f) \/ f = g
                       /\ f = g \/ kernel'[f] = kernel[f]
    BY <1>1, <2>2, <2>3 DEF Holds
  <2>9. ~ FreeFd(g)'
    BY <2>1, <2>2 DEF FreeFd
  <2>10. QED BY <1>1, <2>1, <2>4, <2>5, <2>7, <2>8, <2>9, OpenedKeeps DEF Fits
<1>4. SocketsIInv'
  BY <1>2, <1>3 DEF ConnectSocket
<1>5. QED BY <1>4, NothingAnswered DEF ConnectSocket

\* fcntl changes nothing but the mode.
LEMMA ModeSet ==
    ASSUME NEW k \in Descriptors, NEW enabled \in BOOLEAN,
           NEW x \in set_nonblocking_native(k, enabled)
    PROVE  /\ x.ok \in BOOLEAN /\ x.k \in Descriptors
           /\ x.k.st = k.st /\ x.k.so = k.so /\ x.k.queued = k.queued /\ x.k.fin = k.fin
           /\ x.k.told = k.told /\ x.k.overlap = k.overlap
           /\ IF x.ok THEN x.k.nb = enabled ELSE x.k = k
<1>1. CASE x = [ok |-> FALSE, k |-> k]
  BY <1>1
<1>2. CASE x = [ok |-> TRUE, k |-> [k EXCEPT !.nb = enabled]]
  <2>1. x.ok = TRUE /\ x.k = [k EXCEPT !.nb = enabled]
    BY <1>2
  <2>2. QED BY <2>1 DEF Descriptors
<1>3. QED BY <1>1, <1>2 DEF set_nonblocking_native

LEMMA ConnectModeKeeps ==
    ASSUME SocketsIInv, NEW s \in Sockets, ConnectMode(s)
    PROVE  SocketsIInv' /\ Answered'
<1>1. /\ s \in Objects /\ SocketFits(s) /\ NoFd \notin Fds /\ s \notin Servers
      /\ obj \in [Objects -> ObjRecords] /\ call \in [Objects -> CallRecords]
      /\ io \in [Sockets -> [Sides -> Stages]] /\ kernel \in [Fds -> Descriptors]
      /\ UNCHANGED <<obj, io>> /\ ret' = NoAnswer /\ call[s].at = "mode"
      /\ call[s].fd # NoFd /\ obj[s].handle = NoFd
  BY Typed, Hers DEF SocketsIInv, Fits, SocketFits, ConnectMode
<1>2. /\ call[s].fd \in Fds /\ kernel[call[s].fd] \in Descriptors
      /\ ConnectFits(obj[s], call[s], kernel[call[s].fd])
  BY <1>1, Hers DEF SocketFits
<1>3. PICK x \in set_nonblocking_native(kernel[call[s].fd], TRUE) :
        IF x.ok
        THEN /\ kernel' = [kernel EXCEPT ![call[s].fd] = x.k]
             /\ call' = [call EXCEPT ![s].at = "connect"]
        ELSE /\ kernel' = close_native(call[s].fd)
             /\ call' = [call EXCEPT ![s] = NextAddress(s)]
  BY DEF ConnectMode
<1>4. CASE x.ok
  <2>1. /\ x.k \in Descriptors /\ x.k.st = "new" /\ x.k.nb = TRUE /\ ~ x.k.told
    BY <1>2, <1>3, <1>4, ModeSet DEF ConnectFits
  <2>2. /\ kernel' \in [Fds -> Descriptors] /\ kernel'[call[s].fd] = x.k
        /\ \A f \in Fds : f # call[s].fd => kernel'[f] = kernel[f]
    <3>1. kernel' = [kernel EXCEPT ![call[s].fd] = x.k]
      BY <1>3, <1>4
    <3>2. QED BY <1>1, <1>2, <2>1, <3>1
  <2>3. /\ call' \in [Objects -> CallRecords] /\ call'[s].at = "connect"
        /\ call'[s].fd = call[s].fd /\ call'[s].left = call[s].left
        /\ \A p \in Objects \ {s} : call'[p] = call[p]
    <3>1. call' = [call EXCEPT ![s].at = "connect"]
      BY <1>3, <1>4
    <3>2. QED BY <1>1, <3>1 DEF CallRecords
  <2>4. TypeOK'
    BY <1>1, <2>2, <2>3, Retyped
  <2>5. Only(s)
    BY <1>1, <2>3 DEF Only
  <2>6. ConnectFits(obj[s], call'[s], kernel'[call[s].fd])
    BY <1>1, <1>2, <2>1, <2>2, <2>3 DEF ConnectFits
  <2>7. SocketFits(s)'
    BY <1>1, <2>3, <2>6 DEF SocketFits
  <2>8. \A f \in Fds : /\ Holds(s, f)' <=> Holds(s, f)
                       /\ kernel'[f] = kernel[f] \/ (Holds(s, f) /\ ~ FreeFd(f)')
    BY <1>1, <2>1, <2>2, <2>3 DEF Holds, FreeFd
  <2>9. SocketsIInv'
    BY <1>1, <2>4, <2>5, <2>7, <2>8, SteadyKeeps DEF Fits
  <2>10. QED BY <1>1, <2>9, NothingAnswered
<1>5. CASE ~ x.ok
  BY <1>1, <1>3, <1>5, NextAfterClose
<1>6. QED BY <1>4, <1>5

LEMMA ConnectTakesKeeps ==
    ASSUME SocketsIInv, NEW s \in Sockets, ConnectTakes(s)
    PROVE  SocketsIInv' /\ Answered'
<1> DEFINE g == call[s].fd
<1>1. /\ s \in Objects /\ SocketFits(s) /\ NoFd \notin Fds /\ s \notin Servers
      /\ obj \in [Objects -> ObjRecords] /\ call \in [Objects -> CallRecords]
      /\ io \in [Sockets -> [Sides -> Stages]] /\ kernel \in [Fds -> Descriptors]
      /\ call[s].at = "connect" /\ g # NoFd /\ obj[s].handle = NoFd
      /\ io' = io /\ ret' = NoAnswer /\ call' = [call EXCEPT ![s] = NoCall]
      /\ obj' = [obj EXCEPT ![s].handle = g]
  BY Typed, Hers DEF SocketsIInv, Fits, SocketFits, ConnectTakes
<1>2. /\ g \in Fds /\ kernel[g] \in Descriptors /\ ConnectFits(obj[s], call[s], kernel[g])
      /\ \A d \in Sides : io[s][d] = "idle"
  BY <1>1, Hers DEF SocketFits
<1>3. PICK st \in {"connected", "connecting"} : kernel' = [kernel EXCEPT ![g].st = st]
  BY DEF ConnectTakes
<1>4. /\ kernel' \in [Fds -> Descriptors]
      /\ kernel'[g].st = st /\ kernel'[g].nb = kernel[g].nb /\ kernel'[g].told = kernel[g].told
      /\ \A f \in Fds : f # g => kernel'[f] = kernel[f]
  BY <1>1, <1>2, <1>3 DEF Descriptors
<1>5. /\ call' \in [Objects -> CallRecords] /\ call'[s].at = "none" /\ call'[s].fd = NoFd
      /\ \A p \in Objects \ {s} : call'[p] = call[p]
  BY <1>1, NewRecords
<1>6. /\ obj' \in [Objects -> ObjRecords] /\ obj'[s].handle = g /\ obj'[s].nb = obj[s].nb
      /\ obj'[s].port = obj[s].port /\ \A p \in Objects \ {s} : obj'[p] = obj[p]
  BY <1>1, <1>2 DEF ObjRecords
<1> HIDE DEF g
<1>7. TypeOK'
  BY <1>1, <1>4, <1>5, <1>6, Retyped
<1>8. Only(s)
  BY <1>1, <1>5, <1>6 DEF Only
<1>9. ConnectionFits(obj'[s], io[s], kernel'[g])
  BY <1>1, <1>2, <1>4, <1>6 DEF ConnectFits, ConnectionFits, Broken
<1>10. SocketFits(s)'
  BY <1>1, <1>2, <1>5, <1>6, <1>9 DEF SocketFits
<1>11. \A f \in Fds : /\ Holds(s, f)' <=> Holds(s, f)
                      /\ kernel'[f] = kernel[f] \/ (Holds(s, f) /\ ~ FreeFd(f)')
  BY <1>1, <1>4, <1>5, <1>6 DEF Holds, FreeFd, g
<1>12. SocketsIInv'
  BY <1>1, <1>7, <1>8, <1>10, <1>11, SteadyKeeps DEF Fits
<1>13. QED BY <1>1, <1>12, NothingAnswered

LEMMA ConnectGivesUpKeeps ==
    ASSUME SocketsIInv, NEW s \in Sockets, ConnectGivesUp(s)
    PROVE  SocketsIInv' /\ Answered'
<1>1. /\ s \in Objects /\ SocketFits(s) /\ NoFd \notin Fds /\ s \notin Servers
      /\ obj \in [Objects -> ObjRecords] /\ call \in [Objects -> CallRecords]
      /\ io \in [Sockets -> [Sides -> Stages]] /\ kernel \in [Fds -> Descriptors]
      /\ call[s].at = "socket" /\ call[s].left = 0 /\ call[s].fd = NoFd
      /\ obj[s].handle = NoFd /\ call[s].last /\ call[s].last \in BOOLEAN
      /\ UNCHANGED <<io, kernel>>
      /\ call' = [call EXCEPT ![s] = NoCall] /\ obj' = [obj EXCEPT ![s].error = call[s].last]
  BY Typed, Hers DEF SocketsIInv, Fits, SocketFits, ConnectGivesUp, CallRecords
<1>2. /\ call' \in [Objects -> CallRecords] /\ call'[s].at = "none" /\ call'[s].fd = NoFd
      /\ \A p \in Objects \ {s} : call'[p] = call[p]
  BY <1>1, NewRecords
<1>3. /\ obj' \in [Objects -> ObjRecords] /\ obj'[s].handle = NoFd /\ obj'[s].error
      /\ obj'[s].port = obj[s].port /\ \A p \in Objects \ {s} : obj'[p] = obj[p]
  BY <1>1 DEF ObjRecords
<1>4. TypeOK'
  BY <1>1, <1>2, <1>3, Retyped
<1>5. Only(s)
  BY <1>1, <1>2, <1>3 DEF Only
<1>6. SocketFits(s)'
  BY <1>1, <1>2, <1>3 DEF SocketFits
<1>7. \A f \in Fds : (Holds(s, f)' <=> Holds(s, f)) /\ kernel'[f] = kernel[f]
  BY <1>1, <1>2, <1>3 DEF Holds
<1>8. SocketsIInv'
  BY <1>1, <1>4, <1>5, <1>6, <1>7, SteadyKeeps DEF Fits
<1>9. Answered'
  BY <1>3, FailureAnswered DEF ConnectGivesUp
<1>10. QED BY <1>8, <1>9

-----------------------------------------------------------------------------
(* listen().                                                               *)

\* A listen() in progress.
LEMMA Listening ==
    ASSUME SocketsIInv, NEW v \in Servers, call[v].at \in {"mode", "bind", "listen"}
    PROVE  /\ v \in Objects /\ v \notin Sockets /\ ServerFits(v) /\ NoFd \notin Fds
           /\ obj \in [Objects -> ObjRecords] /\ call \in [Objects -> CallRecords]
           /\ io \in [Sockets -> [Sides -> Stages]] /\ kernel \in [Fds -> Descriptors]
           /\ call[v].fd \in Fds /\ kernel[call[v].fd] \in Descriptors
           /\ call[v].fd # NoFd /\ obj[v].handle = NoFd /\ ~ obj[v].port
           /\ ListenFits(obj[v], call[v], kernel[call[v].fd])
BY Typed, Hers DEF SocketsIInv, Fits, ServerFits, ListenFits

LEMMA ListenFailsKeeps ==
    ASSUME SocketsIInv, NEW v \in Servers, call[v].at \in {"mode", "bind", "listen"},
           ListenFails(v), UNCHANGED io
    PROVE  SocketsIInv' /\ Answered'
<1>1. /\ v \in Objects /\ v \notin Sockets /\ ServerFits(v) /\ NoFd \notin Fds
      /\ obj \in [Objects -> ObjRecords] /\ call \in [Objects -> CallRecords]
      /\ io \in [Sockets -> [Sides -> Stages]]
      /\ call[v].fd \in Fds /\ obj[v].handle = NoFd /\ ~ obj[v].port
  BY Listening
<1>2. /\ kernel' = close_native(call[v].fd) /\ kernel' \in [Fds -> Descriptors]
      /\ call' = [call EXCEPT ![v] = NoCall] /\ obj' = [obj EXCEPT ![v].error = TRUE]
  BY <1>1, ClosedOne DEF ListenFails, SocketsIInv
<1>3. /\ call' \in [Objects -> CallRecords] /\ call'[v].at = "none" /\ call'[v].fd = NoFd
      /\ \A p \in Objects \ {v} : call'[p] = call[p]
  BY <1>1, <1>2, NewRecords
<1>4. /\ obj' \in [Objects -> ObjRecords] /\ obj'[v].handle = NoFd /\ obj'[v].error
      /\ obj'[v].port = obj[v].port /\ \A p \in Objects \ {v} : obj'[p] = obj[p]
  BY <1>1, <1>2 DEF ObjRecords
<1>5. TypeOK'
  BY <1>1, <1>2, <1>3, <1>4, Retyped
<1>6. Only(v)
  BY <1>3, <1>4 DEF Only
<1>7. ServerFits(v)'
  BY <1>1, <1>3, <1>4 DEF ServerFits
<1>8. Holds(v, call[v].fd) /\ \A f \in Fds : Holds(v, f)' <=> Holds(v, f) /\ f # call[v].fd
  BY <1>1, <1>3, <1>4 DEF Holds
<1>9. SocketsIInv'
  BY <1>1, <1>2, <1>5, <1>6, <1>7, <1>8, DroppedKeeps DEF Fits
<1>10. Answered'
  BY <1>4, FailureAnswered DEF ListenFails
<1>11. QED BY <1>9, <1>10

LEMMA ListenGoesOnKeeps ==
    ASSUME SocketsIInv, NEW v \in Servers, call[v].at \in {"mode", "bind"},
           NEW at \in {"bind", "listen"}, NEW k \in Descriptors,
           k.st = "new" /\ k.nb = obj[v].nb, ListenGoesOn(v, at, k), UNCHANGED io
    PROVE  SocketsIInv' /\ Answered'
<1> DEFINE g == call[v].fd
<1>1. /\ v \in Objects /\ v \notin Sockets /\ ServerFits(v) /\ NoFd \notin Fds
      /\ obj \in [Objects -> ObjRecords] /\ call \in [Objects -> CallRecords]
      /\ io \in [Sockets -> [Sides -> Stages]] /\ kernel \in [Fds -> Descriptors]
      /\ g \in Fds /\ g # NoFd /\ obj[v].handle = NoFd /\ ~ obj[v].port
  BY Listening
<1>2. /\ kernel' \in [Fds -> Descriptors] /\ kernel'[g] = k
      /\ \A f \in Fds : f # g => kernel'[f] = kernel[f]
  BY <1>1 DEF ListenGoesOn
<1>3. /\ call' \in [Objects -> CallRecords] /\ call'[v].at = at /\ call'[v].fd = g
      /\ obj' = obj /\ ret' = NoAnswer
      /\ \A p \in Objects \ {v} : call'[p] = call[p]
  BY <1>1 DEF ListenGoesOn, CallRecords
<1> HIDE DEF g
<1>4. TypeOK'
  BY <1>1, <1>2, <1>3, Retyped
<1>5. Only(v)
  BY <1>3 DEF Only
<1>6. ListenFits(obj[v], call'[v], kernel'[g])
  BY <1>1, <1>2, <1>3 DEF ListenFits
<1>7. ServerFits(v)'
  BY <1>1, <1>3, <1>6 DEF ServerFits
<1>8. \A f \in Fds : /\ Holds(v, f)' <=> Holds(v, f)
                     /\ kernel'[f] = kernel[f] \/ (Holds(v, f) /\ ~ FreeFd(f)')
  BY <1>1, <1>2, <1>3 DEF Holds, FreeFd, g
<1>9. SocketsIInv'
  BY <1>1, <1>4, <1>5, <1>7, <1>8, SteadyKeeps DEF Fits
<1>10. QED BY <1>3, <1>9, NothingAnswered

LEMMA ListenModeKeeps ==
    ASSUME SocketsIInv, NEW v \in Servers, ListenMode(v)
    PROVE  SocketsIInv' /\ Answered'
<1>1. call[v].at = "mode" /\ UNCHANGED io
  BY DEF ListenMode
<1>2. /\ kernel[call[v].fd] \in Descriptors
      /\ ListenFits(obj[v], call[v], kernel[call[v].fd])
  BY <1>1, Listening
<1>3. PICK x \in set_nonblocking_native(kernel[call[v].fd], TRUE) :
        IF x.ok THEN ListenGoesOn(v, "bind", x.k) ELSE ListenFails(v)
  BY DEF ListenMode
<1>4. CASE x.ok
  <2>1. obj[v] \in ObjRecords
    BY Typed DEF SocketsIInv, Objects
  <2>2. x.k \in Descriptors /\ x.k.st = "new" /\ x.k.nb = obj[v].nb
    BY <1>1, <1>2, <1>3, <1>4, <2>1, ModeSet DEF ListenFits, ObjRecords
  <2>3. QED BY <1>1, <1>3, <1>4, <2>2, ListenGoesOnKeeps
<1>5. CASE ~ x.ok
  BY <1>1, <1>3, <1>5, ListenFailsKeeps
<1>6. QED BY <1>4, <1>5

LEMMA ListenBindKeeps ==
    ASSUME SocketsIInv, NEW v \in Servers, ListenBind(v)
    PROVE  SocketsIInv' /\ Answered'
<1>1. call[v].at = "bind" /\ UNCHANGED io
  BY DEF ListenBind
<1>2. /\ kernel[call[v].fd] \in Descriptors
      /\ ListenFits(obj[v], call[v], kernel[call[v].fd])
  BY <1>1, Listening
<1>3. CASE ListenFails(v)
  BY <1>1, <1>3, ListenFailsKeeps
<1>4. CASE ListenGoesOn(v, "listen", kernel[call[v].fd])
  BY <1>1, <1>2, <1>4, ListenGoesOnKeeps DEF ListenFits
<1>5. QED BY <1>3, <1>4 DEF ListenBind

LEMMA ListenSocketKeeps ==
    ASSUME SocketsIInv, NEW v \in Servers, NEW nb \in BOOLEAN, ListenSocket(v, nb)
    PROVE  SocketsIInv' /\ Answered'
<1>1. /\ v \in Objects /\ v \notin Sockets /\ ServerFits(v) /\ NoFd \notin Fds
      /\ obj \in [Objects -> ObjRecords] /\ call \in [Objects -> CallRecords]
      /\ io \in [Sockets -> [Sides -> Stages]] /\ kernel \in [Fds -> Descriptors]
      /\ call[v].at = "none" /\ call[v].fd = NoFd /\ obj[v].handle = NoFd /\ UNCHANGED io
  BY Typed, Hers DEF SocketsIInv, Fits, ServerFits, ListenSocket, Idle
<1>2. ASSUME obj' = [obj EXCEPT ![v] = [Closed EXCEPT !.error = TRUE, !.nb = nb]],
             UNCHANGED <<call, kernel>>, Returns(v, "error")
      PROVE  SocketsIInv' /\ Answered'
  <2> DEFINE r == [Closed EXCEPT !.error = TRUE, !.nb = nb]
  <2>1. r \in ObjRecords /\ r.handle = NoFd /\ r.error /\ ~ r.port
    BY NewRecords
  <2>2. obj' = [obj EXCEPT ![v] = r]
    BY <1>2
  <2> HIDE DEF r
  <2>3. /\ obj' \in [Objects -> ObjRecords] /\ obj'[v] = r
        /\ \A p \in Objects \ {v} : obj'[p] = obj[p]
    BY <1>1, <2>1, <2>2
  <2>4. TypeOK'
    BY <1>1, <1>2, <2>3, Retyped
  <2>5. Only(v)
    BY <1>1, <1>2, <2>3 DEF Only
  <2>6. ServerFits(v)'
    BY <1>1, <1>2, <2>1, <2>3 DEF ServerFits
  <2>7. \A f \in Fds : (Holds(v, f)' <=> Holds(v, f)) /\ kernel'[f] = kernel[f]
    BY <1>1, <1>2, <2>1, <2>3 DEF Holds
  <2>8. SocketsIInv'
    BY <1>1, <2>4, <2>5, <2>6, <2>7, SteadyKeeps DEF Fits
  <2>9. Answered'
    BY <1>2, <2>1, <2>3, FailureAnswered
  <2>10. QED BY <2>8, <2>9
<1>3. ASSUME obj' = [obj EXCEPT ![v] = [Closed EXCEPT !.nb = nb]],
             NEW g \in Fds, Opens(g, Fresh("new", FALSE)), ret' = NoAnswer,
             call' = [call EXCEPT ![v].at = IF nb THEN "mode" ELSE "bind", ![v].fd = g]
      PROVE  SocketsIInv' /\ Answered'
  <2> DEFINE r == [Closed EXCEPT !.nb = nb]
  <2>1. r \in ObjRecords /\ r.handle = NoFd /\ r.nb = nb /\ ~ r.port
    BY NewRecords
  <2>2. obj' = [obj EXCEPT ![v] = r]
    BY <1>3
  <2> HIDE DEF r
  <2>3. /\ obj' \in [Objects -> ObjRecords] /\ obj'[v] = r
        /\ \A p \in Objects \ {v} : obj'[p] = obj[p]
    BY <1>1, <2>1, <2>2
  <2>4. /\ FreeFd(g) /\ kernel' = [kernel EXCEPT ![g] = Fresh("new", FALSE)]
        /\ Fresh("new", FALSE) \in Descriptors /\ Fresh("new", FALSE).st = "new"
        /\ Fresh("new", FALSE).nb = FALSE
    BY <1>3, FreshTyped DEF Opens
  <2>5. /\ kernel' \in [Fds -> Descriptors] /\ kernel'[g] = Fresh("new", FALSE)
        /\ \A f \in Fds : f # g => kernel'[f] = kernel[f]
    BY <1>1, <2>4
  <2>6. /\ call' \in [Objects -> CallRecords]
        /\ call'[v].at = (IF nb THEN "mode" ELSE "bind") /\ call'[v].fd = g
        /\ \A p \in Objects \ {v} : call'[p] = call[p]
    BY <1>1, <1>3 DEF CallRecords
  <2>7. TypeOK'
    BY <1>1, <2>3, <2>5, <2>6, Retyped
  <2>8. Only(v)
    BY <1>1, <2>3, <2>6 DEF Only
  <2>9. ListenFits(obj'[v], call'[v], kernel'[g])
    BY <2>1, <2>3, <2>4, <2>5, <2>6 DEF ListenFits
  <2>10. ServerFits(v)'
    BY <1>1, <2>1, <2>3, <2>6, <2>9 DEF ServerFits
  <2>11. \A f \in Fds : /\ Holds(v, f)' <=> Holds(v, f) \/ f = g
                        /\ f = g \/ kernel'[f] = kernel[f]
    BY <1>1, <2>1, <2>3, <2>5, <2>6 DEF Holds
  <2>12. ~ FreeFd(g)'
    BY <2>4, <2>5 DEF FreeFd
  <2>13. SocketsIInv'
    BY <1>1, <2>4, <2>7, <2>8, <2>10, <2>11, <2>12, OpenedKeeps DEF Fits
  <2>14. QED BY <1>3, <2>13, NothingAnswered
<1>4. QED BY <1>2, <1>3 DEF ListenSocket

LEMMA ListenOpensKeeps ==
    ASSUME SocketsIInv, NEW v \in Servers, ListenOpens(v)
    PROVE  SocketsIInv' /\ Answered'
<1> DEFINE g == call[v].fd
<1>1. call[v].at = "listen" /\ UNCHANGED io
  BY DEF ListenOpens
<1>2. /\ v \in Objects /\ v \notin Sockets /\ ServerFits(v) /\ NoFd \notin Fds
      /\ obj \in [Objects -> ObjRecords] /\ call \in [Objects -> CallRecords]
      /\ io \in [Sockets -> [Sides -> Stages]] /\ kernel \in [Fds -> Descriptors]
      /\ g \in Fds /\ g # NoFd /\ obj[v].handle = NoFd
      /\ ListenFits(obj[v], call[v], kernel[g])
  BY <1>1, Listening
<1>3. CASE ListenFails(v)
  BY <1>1, <1>3, ListenFailsKeeps
<1>4. ASSUME kernel' = [kernel EXCEPT ![g].st = "listening"], NEW port \in BOOLEAN,
             obj' = [obj EXCEPT ![v].handle = g, ![v].port = port],
             call' = [call EXCEPT ![v] = NoCall], ret' = NoAnswer
      PROVE  SocketsIInv' /\ Answered'
  <2>1. /\ kernel' \in [Fds -> Descriptors] /\ kernel'[g].st = "listening"
        /\ kernel'[g].nb = kernel[g].nb
        /\ \A f \in Fds : f # g => kernel'[f] = kernel[f]
    BY <1>2, <1>4 DEF Descriptors
  <2>2. /\ obj' \in [Objects -> ObjRecords] /\ obj'[v].handle = g /\ obj'[v].nb = obj[v].nb
        /\ \A p \in Objects \ {v} : obj'[p] = obj[p]
    BY <1>2, <1>4 DEF ObjRecords
  <2>3. /\ call' \in [Objects -> CallRecords] /\ call'[v].at = "none" /\ call'[v].fd = NoFd
        /\ \A p \in Objects \ {v} : call'[p] = call[p]
    BY <1>2, <1>4, NewRecords
  <2>4. kernel'[g].nb = obj'[v].nb
    BY <1>1, <1>2, <2>1, <2>2 DEF ListenFits
  <2>5. \A f \in Fds : /\ Holds(v, f)' <=> Holds(v, f)
                       /\ kernel'[f] = kernel[f] \/ (Holds(v, f) /\ ~ FreeFd(f)')
    BY <1>2, <2>1, <2>2, <2>3 DEF Holds, FreeFd
  <2> HIDE DEF g
  <2>6. TypeOK'
    BY <1>1, <1>2, <2>1, <2>2, <2>3, Retyped
  <2>7. Only(v)
    BY <1>1, <2>2, <2>3 DEF Only
  <2>8. ServerFits(v)'
    BY <1>2, <2>1, <2>2, <2>3, <2>4 DEF ServerFits
  <2>9. SocketsIInv'
    BY <1>2, <2>5, <2>6, <2>7, <2>8, SteadyKeeps DEF Fits
  <2>10. QED BY <1>4, <2>9, NothingAnswered
<1>5. QED BY <1>3, <1>4 DEF ListenOpens

-----------------------------------------------------------------------------
(* accept().                                                               *)

\* A server that listens.
LEMMA OpenServer ==
    ASSUME SocketsIInv, NEW v \in Servers, is_open(v)
    PROVE  /\ v \in Objects /\ v \notin Sockets /\ ServerFits(v) /\ NoFd \notin Fds
           /\ obj \in [Objects -> ObjRecords] /\ call \in [Objects -> CallRecords]
           /\ io \in [Sockets -> [Sides -> Stages]] /\ kernel \in [Fds -> Descriptors]
           /\ obj[v].handle \in Fds /\ obj[v].handle # NoFd
           /\ Of(v) = kernel[obj[v].handle] /\ Of(v) \in Descriptors
           /\ Of(v).st = "listening" /\ Of(v).nb = obj[v].nb
BY Typed, Hers DEF SocketsIInv, Fits, ServerFits

\* A step that changes only the error of an open server.
LEMMA ServerErrorKeeps ==
    ASSUME SocketsIInv, NEW v \in Servers, is_open(v), call[v].at = "none", NEW e \in BOOLEAN,
           obj' = [obj EXCEPT ![v].error = e], UNCHANGED <<call, io, kernel>>
    PROVE  SocketsIInv' /\ obj'[v].error = e /\ obj'[v].handle = obj[v].handle
<1>1. /\ v \in Objects /\ v \notin Sockets /\ ServerFits(v)
      /\ obj \in [Objects -> ObjRecords] /\ call \in [Objects -> CallRecords]
      /\ io \in [Sockets -> [Sides -> Stages]] /\ kernel \in [Fds -> Descriptors]
  BY OpenServer
<1>2. /\ obj' \in [Objects -> ObjRecords] /\ obj'[v].error = e
      /\ obj'[v].handle = obj[v].handle /\ obj'[v].nb = obj[v].nb /\ obj'[v].port = obj[v].port
      /\ \A p \in Objects \ {v} : obj'[p] = obj[p]
  BY <1>1 DEF ObjRecords
<1>3. TypeOK'
  BY <1>1, <1>2, Retyped
<1>4. Only(v)
  BY <1>1, <1>2 DEF Only
<1>5. ServerFits(v)'
  BY <1>1, <1>2 DEF ServerFits
<1>6. \A f \in Fds : (Holds(v, f)' <=> Holds(v, f)) /\ kernel'[f] = kernel[f]
  BY <1>2 DEF Holds
<1>7. QED BY <1>1, <1>2, <1>3, <1>4, <1>5, <1>6, SteadyKeeps DEF Fits

LEMMA ServerWaitReadableKeeps ==
    ASSUME SocketsIInv, NEW v \in Servers, ServerWaitReadable(v)
    PROVE  SocketsIInv' /\ Answered'
<1>1. is_open(v) /\ call[v].at = "none" /\ UNCHANGED <<call, io, kernel>>
  BY DEF ServerWaitReadable, Idle
<1>2. PICK x \in PollReadable(Of(v)) :
        /\ obj' = [obj EXCEPT ![v].error = @ \/ x.to = "failed"]
        /\ Returns(v, IF x.to = "failed" THEN "error" ELSE x.res)
  BY DEF ServerWaitReadable
<1>3. obj[v] \in ObjRecords /\ obj[v].error \in BOOLEAN
  BY Typed DEF SocketsIInv, Objects, ObjRecords
<1>4. SocketsIInv' /\ obj'[v].error = (obj[v].error \/ x.to = "failed")
  BY <1>1, <1>2, <1>3, ServerErrorKeeps
<1>5. CASE x.to = "failed"
  BY <1>2, <1>4, <1>5, FailureAnswered
<1>6. CASE x.to # "failed"
  <2>1. x.res \in {"ready", "timed_out"}
    BY <1>6 DEF PollReadable, poll_one, Ends, Goes
  <2>2. ret' = NoAnswer
    BY <1>2, <1>6, <2>1 DEF Returns, Answers
  <2>3. QED BY <1>4, <2>2, NothingAnswered
<1>7. QED BY <1>5, <1>6

LEMMA AcceptTakesKeeps ==
    ASSUME SocketsIInv, NEW v \in Servers, AcceptTakes(v)
    PROVE  SocketsIInv' /\ Answered'
<1> DEFINE h == obj[v].handle
<1>1. is_open(v) /\ UNCHANGED io /\ call[v].at = "none"
  BY DEF AcceptTakes, Idle
<1>2. /\ v \in Objects /\ v \notin Sockets /\ ServerFits(v) /\ NoFd \notin Fds
      /\ obj \in [Objects -> ObjRecords] /\ call \in [Objects -> CallRecords]
      /\ io \in [Sockets -> [Sides -> Stages]] /\ kernel \in [Fds -> Descriptors]
      /\ h \in Fds /\ h # NoFd /\ Of(v) = kernel[h] /\ kernel[h] \in Descriptors
      /\ kernel[h].st = "listening" /\ kernel[h].nb = obj[v].nb
  BY <1>1, OpenServer
<1>3. call[v].fd = NoFd
  BY <1>1, <1>2 DEF ServerFits
<1>4. ASSUME NEW failed \in BOOLEAN, failed \/ (Of(v).queued = 0 /\ Of(v).nb),
             obj' = [obj EXCEPT ![v].error = AcceptError(v, failed)],
             Returns(v, IF failed THEN "error" ELSE "none pending"),
             UNCHANGED <<call, kernel>>
      PROVE  SocketsIInv' /\ Answered'
  <2>1. SocketsIInv' /\ obj'[v].error = failed /\ obj'[v].handle = h
    BY <1>1, <1>4, ServerErrorKeeps DEF AcceptError
  <2>2. CASE failed
    BY <1>4, <2>1, <2>2, FailureAnswered
  <2>3. CASE ~ failed
    <3>1. ret'.of = v /\ ret'.res = "none pending"
      BY <1>4, <2>3 DEF Returns, Answers
    <3>2. Of(v)' = Of(v)
      BY <1>4, <2>1 DEF Of
    <3>3. Answered'
      BY <1>4, <2>1, <2>3, <3>1, <3>2
      DEF Answered, AnswersTruthful, ReadyMeansConnected, AcceptTells, ClosedMeansDrained, Of
    <3>4. QED BY <2>1, <3>3
  <2>4. QED BY <2>2, <2>3
<1>5. ASSUME Of(v).queued > 0, NEW g \in Fds, NEW inherits \in BOOLEAN, FreeFd(g),
             kernel' = [kernel EXCEPT ![g] = Fresh("connected", inherits /\ Of(v).nb),
                                      ![h].queued = @ - 1],
             call' = [call EXCEPT ![v].at = "accept", ![v].fd = g],
             obj' = [obj EXCEPT ![v].error = AcceptError(v, FALSE)], ret' = NoAnswer
      PROVE  SocketsIInv' /\ Answered'
  <2> DEFINE k == Fresh("connected", inherits /\ Of(v).nb)
  <2>1. k \in Descriptors /\ k.st = "connected" /\ ~ k.told
    <3>1. (inherits /\ Of(v).nb) \in BOOLEAN
      OBVIOUS
    <3>2. QED BY <3>1, FreshTyped
  <2>2. g # h
    BY <1>2, <1>5 DEF FreeFd
  <2>3. kernel[h].queued \in 0 .. MaxQueued /\ kernel[h].queued - 1 \in 0 .. MaxQueued
    BY <1>2, <1>5, ConstantsFit DEF Descriptors
  <2>4. kernel' = [kernel EXCEPT ![g] = k, ![h].queued = @ - 1]
    BY <1>5
  <2> HIDE DEF k
  <2>5. /\ kernel' \in [Fds -> Descriptors] /\ kernel'[g] = k
        /\ kernel'[h].st = "listening" /\ kernel'[h].nb = kernel[h].nb
        /\ \A f \in Fds : f \notin {g, h} => kernel'[f] = kernel[f]
    BY <1>2, <2>1, <2>2, <2>3, <2>4 DEF Descriptors
  <2>6. /\ call' \in [Objects -> CallRecords] /\ call'[v].at = "accept" /\ call'[v].fd = g
        /\ \A p \in Objects \ {v} : call'[p] = call[p]
    BY <1>2, <1>5 DEF CallRecords
  <2>7. /\ obj' \in [Objects -> ObjRecords] /\ obj'[v].handle = h /\ obj'[v].nb = obj[v].nb
        /\ obj'[v].port = obj[v].port /\ obj'[v].error = FALSE
        /\ \A p \in Objects \ {v} : obj'[p] = obj[p]
    BY <1>2, <1>5 DEF ObjRecords, AcceptError
  <2>8. \A f \in Fds : /\ Holds(v, f)' <=> Holds(v, f) \/ f = g
                       /\ \/ f = g \/ kernel'[f] = kernel[f]
                          \/ Holds(v, f) /\ ~ FreeFd(f)'
    BY <1>2, <1>3, <2>5, <2>6, <2>7 DEF Holds, FreeFd
  <2> HIDE DEF h
  <2>9. TypeOK'
    BY <1>1, <1>2, <2>5, <2>6, <2>7, Retyped
  <2>10. Only(v)
    BY <1>1, <2>6, <2>7 DEF Only
  <2>11. AcceptFits(obj'[v], kernel'[g])
    BY <1>2, <2>1, <2>5, <2>7 DEF AcceptFits
  <2>12. ServerFits(v)'
    BY <1>2, <2>5, <2>6, <2>7, <2>11 DEF ServerFits
  <2>13. ~ FreeFd(g)'
    BY <2>1, <2>5 DEF FreeFd
  <2>14. SocketsIInv'
    BY <1>2, <1>5, <2>8, <2>9, <2>10, <2>12, <2>13, OpenedKeeps DEF Fits
  <2>15. QED BY <1>5, <2>14, NothingAnswered
<1>6. QED BY <1>4, <1>5 DEF AcceptTakes

LEMMA AcceptModeKeeps ==
    ASSUME SocketsIInv, NEW v \in Servers, NEW s \in Sockets, AcceptMode(v, s)
    PROVE  SocketsIInv' /\ Answered'
<1> DEFINE g == call[v].fd
<1>1. /\ call[v].at = "accept" /\ Idle(s) /\ ~ is_open(s) /\ UNCHANGED io
      /\ call' = [call EXCEPT ![v] = NoCall]
  BY DEF AcceptMode
<1>2. /\ v \in Objects /\ v \notin Sockets /\ s \in Objects /\ s \notin Servers /\ s # v
      /\ NoFd \notin Fds /\ ServerFits(v) /\ SocketFits(s)
      /\ obj \in [Objects -> ObjRecords] /\ call \in [Objects -> CallRecords]
      /\ io \in [Sockets -> [Sides -> Stages]] /\ kernel \in [Fds -> Descriptors]
  BY Typed, Hers DEF SocketsIInv, Fits
<1>3. /\ g # NoFd /\ g \in Fds /\ kernel[g] \in Descriptors
      /\ AcceptFits(obj[v], kernel[g]) /\ obj[v] \in ObjRecords
      /\ obj[s].handle = NoFd /\ call[s].at = "none" /\ call[s].fd = NoFd
      /\ \A d \in Sides : io[s][d] = "idle"
  <2>1. g # NoFd /\ AcceptFits(obj[v], kernel[g])
    BY <1>1, <1>2 DEF ServerFits
  <2>2. g \in Fds /\ kernel[g] \in Descriptors /\ obj[v] \in ObjRecords
    BY <1>2, <2>1, Hers
  <2>3. /\ obj[s].handle = NoFd /\ call[s].at = "none" /\ call[s].fd = NoFd
        /\ \A d \in Sides : io[s][d] = "idle"
    BY <1>1, <1>2 DEF SocketFits, Idle, is_open
  <2>4. QED BY <2>1, <2>2, <2>3
<1>4. /\ call' \in [Objects -> CallRecords] /\ call'[v].at = "none" /\ call'[v].fd = NoFd
      /\ \A p \in Objects \ {v} : call'[p] = call[p]
  BY <1>1, <1>2, NewRecords
<1>5. obj[v].handle # g /\ obj[v].nb \in BOOLEAN
  <2>1. obj[v].handle # NoFd /\ kernel[obj[v].handle].st = "listening"
    BY <1>2, <1>3 DEF ServerFits, AcceptFits
  <2>2. QED BY <1>3, <2>1 DEF AcceptFits, ObjRecords
<1>6. PICK x \in set_nonblocking_native(kernel[g], obj[v].nb) :
        IF x.ok
        THEN /\ kernel' = [kernel EXCEPT ![g] = x.k]
             /\ obj' = [obj EXCEPT ![s] = [Closed EXCEPT !.handle = g, !.nb = obj[v].nb]]
             /\ Returns(v, "accepted")
        ELSE /\ kernel' = close_native(g)
             /\ obj' = [obj EXCEPT ![v].error = TRUE]
             /\ Returns(v, "error")
  BY DEF AcceptMode
<1>7. CASE x.ok
  <2> DEFINE r == [Closed EXCEPT !.handle = g, !.nb = obj[v].nb]
  <2>1. r \in ObjRecords /\ r.handle = g /\ r.nb = obj[v].nb /\ r.error = FALSE /\ r.port = FALSE
    BY <1>3, <1>5, NewRecords
  <2>2. /\ kernel' = [kernel EXCEPT ![g] = x.k] /\ obj' = [obj EXCEPT ![s] = r]
        /\ Returns(v, "accepted")
    BY <1>6, <1>7
  <2> HIDE DEF r
  <2>3. /\ x.k \in Descriptors /\ x.k.nb = obj[v].nb /\ x.k.st = kernel[g].st
        /\ x.k.so = kernel[g].so /\ x.k.told = kernel[g].told
    BY <1>3, <1>5, <1>6, <1>7, ModeSet
  <2>4. /\ kernel' \in [Fds -> Descriptors] /\ kernel'[g] = x.k
        /\ \A f \in Fds : f # g => kernel'[f] = kernel[f]
    BY <1>2, <1>3, <2>2, <2>3
  <2>5. /\ obj' \in [Objects -> ObjRecords] /\ obj'[s] = r
        /\ \A p \in Objects \ {s} : obj'[p] = obj[p]
    BY <1>2, <2>1, <2>2
  <2>6. TypeOK'
    BY <1>1, <1>2, <1>4, <2>4, <2>5, Retyped
  <2>7. ConnectionFits(r, io[s], kernel'[g])
    BY <1>3, <2>1, <2>3, <2>4 DEF AcceptFits, ConnectionFits, Broken
  <2>8. SocketFits(s)'
    BY <1>1, <1>2, <1>3, <1>4, <2>1, <2>5, <2>7 DEF SocketFits
  <2>9. ServerFits(v)'
    <3>1. obj'[v] = obj[v] /\ obj[v].handle # NoFd /\ obj[v].handle \in Fds
      BY <1>2, <1>3, <2>5, Hers DEF AcceptFits
    <3>2. kernel'[obj[v].handle] = kernel[obj[v].handle]
      BY <1>5, <2>4, <3>1
    <3>3. QED BY <1>2, <1>4, <3>1, <3>2 DEF ServerFits
  <2>10. ASSUME NEW f \in Fds
         PROVE  IF FreeFd(f) \/ \E o \in {v, s} : Holds(o, f)
                THEN IF FreeFd(f)' THEN \A o \in {v, s} : ~ Holds(o, f)'
                     ELSE \E o \in {v, s} : /\ Holds(o, f)'
                                            /\ \A p \in {v, s} : Holds(p, f)' => p = o
                ELSE kernel'[f] = kernel[f] /\ \A o \in {v, s} : ~ Holds(o, f)'
    <3>1. /\ Holds(v, f) <=> f = g \/ f = obj[v].handle
          /\ ~ Holds(s, f) /\ (Holds(s, f)' <=> f = g)
          /\ Holds(v, f)' <=> f = obj[v].handle
      BY <1>2, <1>3, <1>4, <2>1, <2>5 DEF Holds
    <3>2. Holds(v, f) => ~ FreeFd(f)
      BY <1>2 DEF SocketsIInv, FdFits
    <3>3. FreeFd(f)' <=> FreeFd(f)
      BY <2>3, <2>4 DEF FreeFd
    <3>4. f # g => kernel'[f] = kernel[f]
      BY <2>4
    <3>5. QED BY <1>2, <1>5, <3>1, <3>2, <3>3, <3>4
  <2>11. Touches({v, s})
    BY <1>1, <1>4, <2>5, <2>10 DEF Touches
  <2>12. SocketsIInv'
    BY <1>2, <2>6, <2>8, <2>9, <2>11, TouchedKeeps DEF Fits
  <2>13. ret'.of = v /\ ret'.res = "accepted" /\ ~ obj'[v].error
    BY <1>2, <1>3, <2>2, <2>5 DEF Returns, Answers, AcceptFits
  <2>14. Answered'
    BY <2>13 DEF Answered, AnswersTruthful, ReadyMeansConnected, AcceptTells,
                 ClosedMeansDrained
  <2>15. QED BY <2>12, <2>14
<1>8. CASE ~ x.ok
  <2>1. /\ kernel' = close_native(g) /\ kernel' \in [Fds -> Descriptors]
        /\ obj' = [obj EXCEPT ![v].error = TRUE] /\ Returns(v, "error")
    BY <1>3, <1>6, <1>8, ClosedOne DEF SocketsIInv
  <2>2. /\ obj' \in [Objects -> ObjRecords] /\ obj'[v].error = TRUE
        /\ obj'[v].handle = obj[v].handle /\ obj'[v].nb = obj[v].nb
        /\ obj'[v].port = obj[v].port /\ \A p \in Objects \ {v} : obj'[p] = obj[p]
    BY <1>2, <2>1 DEF ObjRecords
  <2>3. TypeOK'
    BY <1>1, <1>2, <1>4, <2>1, <2>2, Retyped
  <2>4. Only(v)
    BY <1>1, <1>4, <2>2 DEF Only
  <2>5. ServerFits(v)'
    <3>1. obj[v].handle # NoFd /\ obj[v].handle \in Fds
      BY <1>2, <1>3, Hers DEF AcceptFits
    <3>2. kernel'[obj[v].handle] = kernel[obj[v].handle]
      BY <1>3, <1>5, <2>1, <3>1, ClosedOne DEF SocketsIInv
    <3>3. QED BY <1>2, <1>4, <2>2, <3>1, <3>2 DEF ServerFits
  <2>6. Holds(v, g) /\ \A f \in Fds : Holds(v, f)' <=> Holds(v, f) /\ f # g
    BY <1>2, <1>3, <1>4, <1>5, <2>2 DEF Holds
  <2>7. SocketsIInv'
    BY <1>2, <1>3, <2>1, <2>3, <2>4, <2>5, <2>6, DroppedKeeps DEF Fits
  <2>8. Answered'
    BY <2>1, <2>2, FailureAnswered
  <2>9. QED BY <2>7, <2>8
<1>9. QED BY <1>7, <1>8

-----------------------------------------------------------------------------
(* Closing and moving.                                                     *)

LEMMA CallOnClosedKeeps ==
    ASSUME SocketsIInv, NEW o \in Objects, CallOnClosed(o)
    PROVE  SocketsIInv' /\ Answered'
<1>1. UNCHANGED <<obj, call, io, kernel>> /\ ret' = NoAnswer
  BY DEF CallOnClosed
<1>2. SocketsIInv'
  BY <1>1 DEF SocketsIInv, TypeOK, FdFits, FreeFd, Holds, Fits, SocketFits, ServerFits
<1>3. QED BY <1>1, <1>2, NothingAnswered

\* An idle object holds no descriptor but its handle.
LEMMA IdleHolds ==
    ASSUME SocketsIInv, NEW o \in Objects, Idle(o)
    PROVE  /\ call[o].at = "none" /\ call[o].fd = NoFd
           /\ o \in Sockets => SocketFits(o) /\ \A d \in Sides : io[o][d] = "idle"
           /\ o \in Servers => ServerFits(o)
           /\ \A f \in Fds : Holds(o, f) <=> obj[o].handle = f
<1>1. Fits(o) /\ o \in Sockets \cup Servers /\ NoFd \notin Fds
  BY Typed DEF SocketsIInv
<1>2. call[o].at = "none" /\ (o \in Sockets => \A d \in Sides : io[o][d] = "idle")
  BY DEF Idle
<1>3. call[o].fd = NoFd
  BY <1>1, <1>2 DEF Fits, SocketFits, ServerFits
<1>4. QED BY <1>1, <1>2, <1>3 DEF Fits, Holds

\* close() of either class, which differ in the port.
LEMMA ClosingKeeps ==
    ASSUME SocketsIInv, NEW o \in Objects, Idle(o), is_open(o),
           kernel' = close_native(obj[o].handle), NEW r \in ObjRecords, r.handle = NoFd, ~ r.port,
           obj' = [obj EXCEPT ![o] = r], ret' = NoAnswer, UNCHANGED <<call, io>>
    PROVE  SocketsIInv' /\ Answered'
<1>1. /\ obj \in [Objects -> ObjRecords] /\ call \in [Objects -> CallRecords]
      /\ io \in [Sockets -> [Sides -> Stages]] /\ NoFd \notin Fds
      /\ Objects = Sockets \cup Servers /\ obj[o].handle \in Fds
  BY Typed DEF SocketsIInv
<1>2. kernel' \in [Fds -> Descriptors]
  BY <1>1, ClosedOne DEF SocketsIInv
<1>3. /\ obj' \in [Objects -> ObjRecords] /\ obj'[o] = r
      /\ \A p \in Objects \ {o} : obj'[p] = obj[p]
  BY <1>1
<1>4. TypeOK'
  BY <1>1, <1>2, <1>3, Retyped
<1>5. Only(o)
  BY <1>3 DEF Only
<1>6. /\ call[o].at = "none" /\ call[o].fd = NoFd
      /\ o \in Sockets => \A d \in Sides : io[o][d] = "idle"
      /\ \A f \in Fds : Holds(o, f) <=> obj[o].handle = f
  BY IdleHolds
<1>7. o \in Sockets => SocketFits(o)'
  BY <1>3, <1>6 DEF SocketFits
<1>8. o \in Servers => ServerFits(o)'
  BY <1>3, <1>6 DEF ServerFits
<1>9. \A f \in Fds : Holds(o, f)' <=> Holds(o, f) /\ f # obj[o].handle
  BY <1>1, <1>3, <1>6 DEF Holds
<1>10. SocketsIInv'
  BY <1>1, <1>4, <1>5, <1>6, <1>7, <1>8, <1>9, DroppedKeeps DEF Fits
<1>11. QED BY <1>10, NothingAnswered

LEMMA CloseKeeps ==
    ASSUME SocketsIInv, NEW s \in Sockets, Close(s)
    PROVE  SocketsIInv' /\ Answered'
<1>1. s \in Objects /\ obj[s] \in ObjRecords /\ obj \in [Objects -> ObjRecords] /\ SocketFits(s)
  BY Typed, Hers DEF SocketsIInv, Fits
<1> DEFINE r == [obj[s] EXCEPT !.handle = NoFd]
<1>2. r \in ObjRecords /\ r.handle = NoFd /\ r.port = obj[s].port
  BY <1>1 DEF ObjRecords
<1>3. obj' = [obj EXCEPT ![s] = r]
  BY <1>1 DEF Close
<1> HIDE DEF r
<1>4. ~ r.port
  BY <1>1, <1>2 DEF SocketFits
<1>5. QED BY <1>1, <1>2, <1>3, <1>4, ClosingKeeps DEF Close

LEMMA ServerCloseKeeps ==
    ASSUME SocketsIInv, NEW v \in Servers, ServerClose(v)
    PROVE  SocketsIInv' /\ Answered'
<1>1. v \in Objects /\ obj[v] \in ObjRecords /\ obj \in [Objects -> ObjRecords]
  BY Typed, Hers DEF SocketsIInv
<1> DEFINE r == [obj[v] EXCEPT !.handle = NoFd, !.port = FALSE]
<1>2. r \in ObjRecords /\ r.handle = NoFd /\ r.port = FALSE
  BY <1>1 DEF ObjRecords
<1>3. obj' = [obj EXCEPT ![v] = r]
  BY <1>1 DEF ServerClose
<1> HIDE DEF r
<1>4. QED BY <1>1, <1>2, <1>3, ClosingKeeps DEF ServerClose

\* Moves of either class: the target's descriptor is closed, the source's is
\* the target's.
LEMMA MovingKeeps ==
    ASSUME SocketsIInv, NEW from \in Objects, NEW to \in Objects, from # to,
           from \in Sockets <=> to \in Sockets, Idle(from), Idle(to),
           kernel' = IF is_open(to) THEN close_native(obj[to].handle) ELSE kernel,
           NEW r \in ObjRecords, r.handle = NoFd, ~ r.port,
           obj' = [obj EXCEPT ![to] = obj[from], ![from] = r],
           ret' = NoAnswer, UNCHANGED <<call, io>>
    PROVE  SocketsIInv' /\ Answered'
<1>1. /\ obj \in [Objects -> ObjRecords] /\ call \in [Objects -> CallRecords]
      /\ io \in [Sockets -> [Sides -> Stages]] /\ kernel \in [Fds -> Descriptors]
      /\ NoFd \notin Fds /\ Objects = Sockets \cup Servers /\ Sockets \cap Servers = {}
      /\ is_open(to) <=> obj[to].handle \in Fds
      /\ obj[to].handle # NoFd => obj[to].handle \in Fds
      /\ obj[from].handle # NoFd => obj[from].handle \in Fds
  BY Typed, Hers DEF SocketsIInv
<1>2. /\ kernel' \in [Fds -> Descriptors]
      /\ \A f \in Fds : IF f = obj[to].handle THEN kernel'[f].st = "free"
                        ELSE kernel'[f] = kernel[f]
  <2>1. CASE is_open(to)
    BY <1>1, <2>1, ClosedOne DEF SocketsIInv
  <2>2. CASE ~ is_open(to)
    BY <1>1, <2>2
  <2>3. QED BY <2>1, <2>2
<1>3. /\ obj' \in [Objects -> ObjRecords] /\ obj'[to] = obj[from] /\ obj'[from] = r
      /\ \A p \in Objects \ {from, to} : obj'[p] = obj[p]
  BY <1>1
<1>4. TypeOK'
  BY <1>1, <1>2, <1>3, Retyped
<1>5. \A o \in {from, to} :
        /\ call[o].at = "none" /\ call[o].fd = NoFd
        /\ o \in Sockets => SocketFits(o) /\ \A d \in Sides : io[o][d] = "idle"
        /\ o \in Servers => ServerFits(o)
        /\ \A f \in Fds : Holds(o, f) <=> obj[o].handle = f
  BY IdleHolds
<1>6. \A f \in Fds : obj[from].handle = f => obj[to].handle # f /\ ~ FreeFd(f)
  BY <1>5 DEF SocketsIInv, FdFits
<1>7. obj[from].handle # NoFd => kernel'[obj[from].handle] = kernel[obj[from].handle]
  BY <1>1, <1>2, <1>6
<1>8. from \in Sockets => SocketFits(from)' /\ SocketFits(to)'
  <2> SUFFICES ASSUME from \in Sockets PROVE SocketFits(from)' /\ SocketFits(to)'
    OBVIOUS
  <2>1. SocketFits(from)'
    BY <1>3, <1>5 DEF SocketFits
  <2>2. obj[from].handle # NoFd => ConnectionFits(obj[from], io[to], kernel[obj[from].handle])
    BY <1>5 DEF SocketFits, ConnectionFits
  <2>3. ~ obj[from].port
    BY <1>5 DEF SocketFits
  <2>4. SocketFits(to)'
    BY <1>3, <1>5, <1>7, <2>2, <2>3 DEF SocketFits
  <2>5. QED BY <2>1, <2>4
<1>9. from \in Servers => ServerFits(from)' /\ ServerFits(to)'
  <2> SUFFICES ASSUME from \in Servers PROVE ServerFits(from)' /\ ServerFits(to)'
    OBVIOUS
  <2>1. ServerFits(from)'
    BY <1>3, <1>5 DEF ServerFits
  <2>2. ServerFits(to)'
    BY <1>3, <1>5, <1>7 DEF ServerFits
  <2>3. QED BY <2>1, <2>2
<1>10. ASSUME NEW f \in Fds
       PROVE  IF FreeFd(f) \/ \E o \in {from, to} : Holds(o, f)
              THEN IF FreeFd(f)' THEN \A o \in {from, to} : ~ Holds(o, f)'
                   ELSE \E o \in {from, to} : /\ Holds(o, f)'
                                              /\ \A p \in {from, to} : Holds(p, f)' => p = o
              ELSE kernel'[f] = kernel[f] /\ \A o \in {from, to} : ~ Holds(o, f)'
  <2>1. /\ Holds(from, f) <=> obj[from].handle = f
        /\ Holds(to, f) <=> obj[to].handle = f
        /\ Holds(to, f)' <=> obj[from].handle = f
        /\ ~ Holds(from, f)'
    BY <1>1, <1>3, <1>5 DEF Holds
  <2>2. FreeFd(f)' <=> FreeFd(f) \/ obj[to].handle = f
    BY <1>2 DEF FreeFd
  <2>3. f # obj[to].handle => kernel'[f] = kernel[f]
    BY <1>2
  <2>4. QED BY <1>6, <2>1, <2>2, <2>3
<1>11. Touches({from, to})
  BY <1>3, <1>10 DEF Touches
<1>12. \A o \in {from, to} : Fits(o)'
  BY <1>1, <1>8, <1>9 DEF Fits
<1>13. SocketsIInv'
  BY <1>4, <1>11, <1>12, TouchedKeeps
<1>14. QED BY <1>13, NothingAnswered

LEMMA MoveKeeps ==
    ASSUME SocketsIInv, NEW from \in Sockets, NEW to \in Sockets, Move(from, to)
    PROVE  SocketsIInv' /\ Answered'
<1>1. /\ from \in Objects /\ to \in Objects /\ obj[from] \in ObjRecords
      /\ obj \in [Objects -> ObjRecords] /\ SocketFits(from)
  BY Typed, Hers DEF SocketsIInv, Fits
<1> DEFINE r == [obj[from] EXCEPT !.handle = NoFd]
<1>2. r \in ObjRecords /\ r.handle = NoFd /\ r.port = obj[from].port
  BY <1>1 DEF ObjRecords
<1>3. from # to /\ obj' = [obj EXCEPT ![to] = obj[from], ![from] = r]
  BY <1>1 DEF Move
<1> HIDE DEF r
<1>4. ~ r.port
  BY <1>1, <1>2 DEF SocketFits
<1>5. QED BY <1>1, <1>2, <1>3, <1>4, MovingKeeps DEF Move

LEMMA ServerMoveKeeps ==
    ASSUME SocketsIInv, NEW from \in Servers, NEW to \in Servers, ServerMove(from, to)
    PROVE  SocketsIInv' /\ Answered'
<1>1. /\ from \in Objects /\ to \in Objects /\ obj[from] \in ObjRecords
      /\ obj \in [Objects -> ObjRecords] /\ from \notin Sockets /\ to \notin Sockets
  BY Typed, Hers DEF SocketsIInv
<1> DEFINE r == [obj[from] EXCEPT !.handle = NoFd, !.port = FALSE]
<1>2. r \in ObjRecords /\ r.handle = NoFd /\ r.port = FALSE
  BY <1>1 DEF ObjRecords
<1>3. from # to /\ obj' = [obj EXCEPT ![to] = obj[from], ![from] = r]
  BY <1>1 DEF ServerMove
<1> HIDE DEF r
<1>4. QED BY <1>1, <1>2, <1>3, MovingKeeps DEF ServerMove

-----------------------------------------------------------------------------
(* The network.                                                            *)

\* What the network may make of a descriptor.
Disturbs(k, l) ==
    /\ l \in Descriptors /\ k.st # "free" /\ l.st # "free" /\ k.st # "new"
    /\ l.nb = k.nb /\ l.told = k.told /\ l.overlap = k.overlap
    /\ k.st = "listening" => l.st = "listening"
    /\ k.st = "connecting" => l.st \in {"connected", "failed"}
    /\ k.st = "connected" => l.st \in {"connected", "reset"}
    /\ k.st \in {"listening", "connecting", "connected"}
    /\ Broken(l) => l.so

LEMMA NetworkDisturbs ==
    ASSUME SocketsIInv, Network
    PROVE  \E f \in Fds, l \in Descriptors : Happens(f, l) /\ Disturbs(kernel[f], l)
<1>1. PICK f \in Fds : ConnectResolves(f) \/ Arrives(f) \/ PeerShutsDown(f) \/ PeerResets(f)
  BY DEF Network
<1>2. kernel[f] \in Descriptors /\ MaxQueued \in Nat
  BY Typed, ConstantsFit DEF SocketsIInv
<1>3. ASSUME NEW l, Happens(f, l), Disturbs(kernel[f], l)
      PROVE  \E g \in Fds, m \in Descriptors : Happens(g, m) /\ Disturbs(kernel[g], m)
  BY <1>3 DEF Disturbs
<1>4. CASE ConnectResolves(f)
  <2>1. Disturbs(kernel[f], [kernel[f] EXCEPT !.st = "connected"])
    BY <1>2, <1>4 DEF ConnectResolves, Disturbs, Descriptors, Broken
  <2>2. Disturbs(kernel[f], [kernel[f] EXCEPT !.st = "failed", !.so = TRUE])
    BY <1>2, <1>4 DEF ConnectResolves, Disturbs, Descriptors, Broken
  <2>3. QED BY <1>3, <1>4, <2>1, <2>2 DEF ConnectResolves
<1>5. CASE Arrives(f)
  <2>1. kernel[f].queued + 1 \in 0 .. MaxQueued
    BY <1>2, <1>5 DEF Arrives, Descriptors
  <2>2. Disturbs(kernel[f], [kernel[f] EXCEPT !.queued = @ + 1])
    BY <1>2, <1>5, <2>1 DEF Arrives, Disturbs, Descriptors, Broken
  <2>3. QED BY <1>3, <1>5, <2>2 DEF Arrives
<1>6. CASE PeerShutsDown(f)
  <2>1. Disturbs(kernel[f], [kernel[f] EXCEPT !.fin = TRUE])
    BY <1>2, <1>6 DEF PeerShutsDown, Disturbs, Descriptors, Broken
  <2>2. QED BY <1>3, <1>6, <2>1 DEF PeerShutsDown
<1>7. CASE PeerResets(f)
  <2>1. 0 \in 0 .. MaxQueued
    BY <1>2
  <2>2. Disturbs(kernel[f], [kernel[f] EXCEPT !.st = "reset", !.so = TRUE, !.queued = 0,
                                              !.fin = FALSE])
    BY <1>2, <1>7, <2>1 DEF PeerResets, Disturbs, Descriptors, Broken
  <2>3. QED BY <1>3, <1>7, <2>2 DEF PeerResets
<1>8. QED BY <1>1, <1>4, <1>5, <1>6, <1>7

LEMMA NetworkKeeps == ASSUME SocketsIInv, Network PROVE SocketsIInv' /\ Answered'
<1>1. PICK g \in Fds, l \in Descriptors : Happens(g, l) /\ Disturbs(kernel[g], l)
  BY NetworkDisturbs
<1>2. /\ obj \in [Objects -> ObjRecords] /\ call \in [Objects -> CallRecords]
      /\ io \in [Sockets -> [Sides -> Stages]] /\ kernel \in [Fds -> Descriptors]
      /\ NoFd \notin Fds /\ Objects = Sockets \cup Servers
      /\ UNCHANGED <<obj, call, io>> /\ ret' = NoAnswer
  BY <1>1, Typed DEF SocketsIInv, Happens
<1>3. /\ kernel' \in [Fds -> Descriptors] /\ kernel'[g] = l
      /\ \A f \in Fds : f # g => kernel'[f] = kernel[f]
  BY <1>1, <1>2 DEF Happens
<1>4. TypeOK'
  BY <1>2, <1>3, Retyped
<1>5. ASSUME NEW f \in Fds PROVE FdFits(f)'
  <2>1. FdFits(f) /\ (FreeFd(f)' <=> FreeFd(f))
    BY <1>1, <1>3 DEF SocketsIInv, FreeFd, Disturbs
  <2>2. QED BY <1>2, <2>1 DEF FdFits, Holds
<1>6. ASSUME NEW s \in Sockets PROVE SocketFits(s)'
  <2>1. SocketFits(s) /\ s \in Objects
    BY <1>2 DEF SocketsIInv, Fits
  <2>2. /\ call[s].fd # NoFd => call[s].fd \in Fds
        /\ obj[s].handle # NoFd => obj[s].handle \in Fds
    BY <2>1, Hers
  <2>3. call[s].fd # NoFd => ConnectFits(obj[s], call[s], kernel'[call[s].fd])
    <3>1. call[s].fd # NoFd => call[s].fd # g
      BY <1>1, <2>1 DEF SocketFits, ConnectFits, Disturbs
    <3>2. QED BY <1>3, <2>1, <2>2, <3>1 DEF SocketFits
  <2>4. obj[s].handle # NoFd => ConnectionFits(obj[s], io[s], kernel'[obj[s].handle])
    <3>1. CASE obj[s].handle = g
      BY <1>1, <1>3, <2>1, <3>1 DEF SocketFits, ConnectionFits, Disturbs, Broken
    <3>2. CASE obj[s].handle # g
      BY <1>3, <2>1, <2>2, <3>2 DEF SocketFits
    <3>3. QED BY <3>1, <3>2
  <2>5. QED BY <1>2, <2>1, <2>3, <2>4 DEF SocketFits
<1>7. ASSUME NEW v \in Servers PROVE ServerFits(v)'
  <2>1. ServerFits(v) /\ v \in Objects
    BY <1>2 DEF SocketsIInv, Fits
  <2>2. /\ call[v].fd # NoFd => call[v].fd \in Fds
        /\ obj[v].handle # NoFd => obj[v].handle \in Fds
    BY <2>1, Hers
  <2>3. call[v].at \in {"mode", "bind", "listen"} =>
          ListenFits(obj[v], call[v], kernel'[call[v].fd])
    <3> SUFFICES ASSUME call[v].at \in {"mode", "bind", "listen"}
                 PROVE  ListenFits(obj[v], call[v], kernel'[call[v].fd])
      OBVIOUS
    <3>1. call[v].fd # g /\ call[v].fd \in Fds
      BY <1>1, <2>1, <2>2 DEF ServerFits, ListenFits, Disturbs
    <3>2. QED BY <1>3, <2>1, <3>1 DEF ServerFits
  <2>4. call[v].at = "accept" => AcceptFits(obj[v], kernel'[call[v].fd])
    <3>1. CASE call[v].fd = g
      BY <1>1, <1>3, <2>1, <3>1 DEF ServerFits, AcceptFits, Disturbs, Broken
    <3>2. CASE call[v].fd # g
      BY <1>3, <2>1, <2>2, <3>2 DEF ServerFits
    <3>3. QED BY <3>1, <3>2
  <2>5. obj[v].handle # NoFd =>
          kernel'[obj[v].handle].st = "listening" /\ kernel'[obj[v].handle].nb = obj[v].nb
    <3>1. CASE obj[v].handle = g
      BY <1>1, <1>3, <2>1, <3>1 DEF ServerFits, Disturbs
    <3>2. CASE obj[v].handle # g
      BY <1>3, <2>1, <2>2, <3>2 DEF ServerFits
    <3>3. QED BY <3>1, <3>2
  <2>6. QED BY <1>2, <2>1, <2>3, <2>4, <2>5 DEF ServerFits
<1>8. SocketsIInv'
  BY <1>4, <1>5, <1>6, <1>7 DEF SocketsIInv, Fits
<1>9. QED BY <1>2, <1>8, NothingAnswered

-----------------------------------------------------------------------------
(* Calls on an open socket.                                                *)

\* What a call of the OS from stage `from` may do on a descriptor in state k,
\* with error_ not zero or zero: a pending error is read only to be stored, a
\* stage is entered only where its next step is in order, answers are true.
Outcome(k, error, from, x) ==
    /\ x.k \in Descriptors /\ x.to \in Stages
    /\ x.k.st = k.st /\ x.k.fin = k.fin /\ x.k.told = k.told /\ x.k.overlap = k.overlap
    /\ x.k.nb = k.nb \/ x.to = "mode"
    /\ k.so => x.k.so \/ x.to = "took"
    /\ x.to = "raised" => Broken(k)
    /\ x.to = "resolved" => k.st # "connecting"
    /\ x.to = "zero" => from = "raised" /\ ~ k.so /\ ~ error
    /\ x.res = "connected" => k.st # "connecting" /\ ~ k.so
    /\ x.res = "closed" => /\ ~ k.so
                           /\ Broken(k) \/ (k.fin /\ x.k.queued = 0)
    /\ x.res \notin {"error", "accepted", "none pending"}

\* A socket that is open.
LEMMA OpenSocket ==
    ASSUME SocketsIInv, NEW s \in Sockets, is_open(s)
    PROVE  /\ s \in Objects /\ s \notin Servers /\ NoFd \notin Fds
           /\ obj \in [Objects -> ObjRecords] /\ call \in [Objects -> CallRecords]
           /\ io \in [Sockets -> [Sides -> Stages]] /\ kernel \in [Fds -> Descriptors]
           /\ obj[s].handle \in Fds /\ obj[s].handle # NoFd
           /\ Of(s) = kernel[obj[s].handle] /\ Of(s) \in Descriptors
           /\ SocketFits(s) /\ ConnectionFits(obj[s], io[s], Of(s))
           /\ call[s].at = "none" /\ call[s].fd = NoFd
BY Typed, Hers DEF SocketsIInv, Fits, SocketFits

\* Thread d of s goes on to stage `to`; s and its descriptor are now r and l.
Proceeds(s, d, to, r, l) ==
    /\ obj' = [obj EXCEPT ![s] = r] /\ r.handle = obj[s].handle /\ ~ r.port
    /\ kernel' = [kernel EXCEPT ![obj[s].handle] = l]
    /\ io' = [io EXCEPT ![s][d] = to] /\ call' = call
    /\ ConnectionFits(r, [io[s] EXCEPT ![d] = to], l)

LEMMA CallKeeps ==
    ASSUME SocketsIInv, NEW s \in Sockets, is_open(s), NEW d \in Sides,
           NEW r \in ObjRecords, NEW l \in Descriptors, NEW to \in Stages,
           Proceeds(s, d, to, r, l)
    PROVE  /\ SocketsIInv' /\ is_open(s)' /\ Of(s)' = l /\ obj'[s] = r
           /\ io'[s] = [io[s] EXCEPT ![d] = to]
<1> DEFINE h == obj[s].handle
<1>1. /\ s \in Objects /\ s \notin Servers /\ NoFd \notin Fds
      /\ obj \in [Objects -> ObjRecords] /\ call \in [Objects -> CallRecords]
      /\ io \in [Sockets -> [Sides -> Stages]] /\ kernel \in [Fds -> Descriptors]
      /\ h \in Fds /\ h # NoFd /\ SocketFits(s) /\ call[s].at = "none" /\ call[s].fd = NoFd
  BY OpenSocket
<1>2. /\ kernel' \in [Fds -> Descriptors] /\ kernel'[h] = l
      /\ \A f \in Fds : f # h => kernel'[f] = kernel[f]
  BY <1>1 DEF Proceeds
<1>3. /\ obj' \in [Objects -> ObjRecords] /\ obj'[s] = r /\ r.handle = h /\ ~ r.port
      /\ call' = call /\ \A p \in Objects \ {s} : obj'[p] = obj[p]
  BY <1>1 DEF Proceeds
<1>4. /\ io' \in [Sockets -> [Sides -> Stages]] /\ io'[s] = [io[s] EXCEPT ![d] = to]
      /\ \A p \in Sockets \ {s} : io'[p] = io[p]
  BY <1>1 DEF Proceeds
<1>5. ConnectionFits(r, [io[s] EXCEPT ![d] = to], l) /\ l.st # "free"
  BY DEF Proceeds, ConnectionFits
<1>6. \A f \in Fds : /\ Holds(s, f)' <=> Holds(s, f)
                     /\ kernel'[f] = kernel[f] \/ (Holds(s, f) /\ ~ FreeFd(f)')
  BY <1>1, <1>2, <1>3, <1>5 DEF Holds, FreeFd
<1>7. is_open(s)' /\ Of(s)' = l
  BY <1>1, <1>2, <1>3 DEF is_open, Of
<1>8. TypeOK'
  BY <1>1, <1>2, <1>3, <1>4, Retyped
<1>9. Only(s)
  BY <1>3, <1>4 DEF Only
<1>10. SocketFits(s)'
  BY <1>1, <1>2, <1>3, <1>4, <1>5 DEF SocketFits
<1>11. SocketsIInv'
  BY <1>1, <1>6, <1>8, <1>9, <1>10, SteadyKeeps DEF Fits
<1>12. QED BY <1>3, <1>4, <1>7, <1>11

\* A call of the OS with such outcomes preserves the invariant.
LEMMA DoesKeeps ==
    ASSUME SocketsIInv, NEW s \in Sockets, NEW d \in Sides,
           NEW from \in {"idle", "resolved", "raised"}, NEW outcomes,
           Does(s, d, from, outcomes), ASSUME NEW x \in outcomes, is_open(s)
                                       PROVE  Outcome(Of(s), obj[s].error, from, x)
    PROVE  SocketsIInv' /\ Answered'
<1>1. is_open(s) /\ io[s][d] = from /\ UNCHANGED <<obj, call>>
  BY DEF Does
<1>2. PICK x \in outcomes :
        /\ kernel' = [kernel EXCEPT ![obj[s].handle] = Overlaps(s, d, x.k)]
        /\ io' = [io EXCEPT ![s][d] = x.to]
        /\ Returns(s, x.res)
  BY DEF Does
<1> DEFINE k == Of(s)
           l == Overlaps(s, d, x.k)
           i == [io[s] EXCEPT ![d] = x.to]
<1>3. Outcome(k, obj[s].error, from, x)
  BY <1>1
<1>4. /\ obj[s] \in ObjRecords /\ io[s] \in [Sides -> Stages] /\ obj \in [Objects -> ObjRecords]
      /\ k \in Descriptors /\ ConnectionFits(obj[s], io[s], k) /\ ~ obj[s].port
      /\ s \in Objects
  BY <1>1, OpenSocket DEF SocketFits
<1>5. /\ l \in Descriptors /\ l.st = k.st /\ l.so = x.k.so /\ l.queued = x.k.queued
      /\ l.fin = k.fin /\ l.told = k.told /\ l.nb = x.k.nb
      /\ l.overlap = (k.overlap \/ (Broken(k) /\ \E e \in Sides \ {d} : io[s][e] # "idle"))
  BY <1>3 DEF Outcome, Overlaps, Descriptors, Broken
<1>6. i[d] = x.to /\ \A e \in Sides \ {d} : i[e] = io[s][e]
  BY <1>4
<1> HIDE DEF k, l, i
<1>7. ConnectionFits(obj[s], i, l)
  <2>1. l.st \in {"connecting", "connected", "failed", "reset"}
    BY <1>4, <1>5 DEF ConnectionFits
  <2>2. (\A e \in Sides : i[e] # "mode") => l.nb = obj[s].nb
    BY <1>1, <1>3, <1>4, <1>5, <1>6 DEF ConnectionFits, Outcome
  <2>3. Broken(l) => l.so \/ l.told \/ \E e \in Sides : i[e] = "took"
    BY <1>1, <1>3, <1>4, <1>5, <1>6 DEF ConnectionFits, Outcome, Broken
  <2>4. \A e \in Sides : /\ i[e] = "raised" => Broken(l)
                         /\ i[e] = "resolved" => l.st # "connecting"
    BY <1>3, <1>4, <1>5, <1>6 DEF ConnectionFits, Outcome, Broken
  <2>5. l.overlap \/ ((l.told => obj[s].error) /\ \A e \in Sides : i[e] # "zero")
    <3> SUFFICES ASSUME ~ l.overlap
                 PROVE  (l.told => obj[s].error) /\ \A e \in Sides : i[e] # "zero"
      OBVIOUS
    <3>1. (k.told => obj[s].error) /\ \A e \in Sides : io[s][e] # "zero"
      BY <1>4, <1>5 DEF ConnectionFits
    <3>2. x.to # "zero"
      <4> SUFFICES ASSUME x.to = "zero" PROVE FALSE
        OBVIOUS
      <4>1. from = "raised" /\ ~ k.so /\ ~ obj[s].error
        BY <1>3 DEF Outcome
      <4>2. Broken(k)
        BY <1>1, <1>4, <4>1 DEF ConnectionFits
      <4>3. \A e \in Sides \ {d} : io[s][e] = "idle"
        BY <1>5, <4>2
      <4>4. k.told
        BY <1>1, <1>4, <4>1, <4>2, <4>3 DEF ConnectionFits
      <4>5. QED BY <3>1, <4>1, <4>4
    <3>3. QED BY <1>5, <1>6, <3>1, <3>2
  <2>6. QED BY <2>1, <2>2, <2>3, <2>4, <2>5 DEF ConnectionFits
<1>8. obj' = [obj EXCEPT ![s] = obj[s]]
  BY <1>1, <1>4
<1>9. /\ SocketsIInv' /\ is_open(s)' /\ Of(s)' = l /\ obj'[s] = obj[s] /\ io'[s] = i
  <2>1. x.to \in Stages
    BY <1>3 DEF Outcome
  <2>2. ConnectionFits(obj[s], [io[s] EXCEPT ![d] = x.to], l)
    BY <1>7 DEF i
  <2>3. kernel' = [kernel EXCEPT ![obj[s].handle] = l]
    BY <1>2 DEF l
  <2>4. Proceeds(s, d, x.to, obj[s], l)
    BY <1>1, <1>2, <1>4, <1>8, <2>2, <2>3 DEF Proceeds
  <2>5. /\ SocketsIInv' /\ is_open(s)' /\ Of(s)' = l /\ obj'[s] = obj[s]
        /\ io'[s] = [io[s] EXCEPT ![d] = x.to]
    BY <1>1, <1>4, <1>5, <2>1, <2>4, CallKeeps
  <2>6. QED BY <2>5 DEF i
<1>10. Answered'
  <2>1. CASE x.res \notin Answers
    <3>1. ret' = NoAnswer
      BY <1>2, <2>1 DEF Returns
    <3>2. QED BY <3>1, NothingAnswered
  <2>2. CASE x.res \in Answers
    <3>1. ret'.of = s /\ ret'.res = x.res
      BY <1>2, <2>2 DEF Returns
    <3>2. Broken(k) /\ ~ k.so => Reported(s)'
      <4> SUFFICES ASSUME Broken(k), ~ k.so PROVE Reported(s)'
        OBVIOUS
      <4>1. k.told \/ \E e \in Sides : io[s][e] = "took"
        BY <1>4 DEF ConnectionFits
      <4>2. l.told \/ \E e \in Sides : i[e] = "took"
        BY <1>1, <1>5, <1>6, <4>1
      <4>3. QED BY <1>9, <4>2 DEF Reported, Of
    <3>3. x.res \in {"connected", "closed"}
      BY <1>3, <2>2 DEF Outcome, Answers
    <3>4. x.res = "connected" => l.st = "connected" \/ (Broken(l) /\ Reported(s)')
      BY <1>3, <1>4, <1>5, <3>2 DEF Outcome, ConnectionFits, Broken
    <3>5. x.res = "closed" => (l.fin /\ l.queued = 0) \/ (Broken(l) /\ Reported(s)')
      BY <1>3, <1>5, <3>2 DEF Outcome, Broken
    <3>6. ReadyMeansConnected' /\ ClosedMeansDrained'
      BY <1>9, <3>1, <3>4, <3>5 DEF ReadyMeansConnected, ClosedMeansDrained, Of, Reported
    <3>7. AcceptTells' /\ ret'.res # "error"
      BY <3>1, <3>3 DEF AcceptTells
    <3>8. QED BY <3>6, <3>7 DEF Answered, AnswersTruthful
  <2>3. QED BY <2>1, <2>2
<1>11. QED BY <1>9, <1>10

\* The outcomes that end a call or fail it without touching the descriptor,
LEMMA PlainOutcome ==
    ASSUME NEW k \in Descriptors, NEW error, NEW from,
           NEW res \in {"ready", "timed_out", "would_block", "ok", "closed, no room"}
    PROVE  /\ Outcome(k, error, from, Ends(res, k))
           /\ Outcome(k, error, from, Goes("failed", k))
BY DEF Outcome, Ends, Goes, Stages

\* and those that take the pending error.
LEMMA TakingOutcome ==
    ASSUME NEW k \in Descriptors, NEW error, NEW from
    PROVE  Outcome(k, error, from, Goes("took", get_so_error(k)))
<1>1. /\ get_so_error(k) \in Descriptors /\ get_so_error(k).st = k.st
      /\ get_so_error(k).fin = k.fin /\ get_so_error(k).told = k.told
      /\ get_so_error(k).overlap = k.overlap /\ get_so_error(k).nb = k.nb
  BY DEF get_so_error, Descriptors
<1>2. QED BY <1>1 DEF Outcome, Goes, Stages

LEMMA SetNonBlockingKeeps ==
    ASSUME SocketsIInv, NEW s \in Sockets, NEW enabled \in BOOLEAN, set_non_blocking(s, enabled)
    PROVE  SocketsIInv' /\ Answered'
<1> DEFINE outcomes == {IF x.ok THEN Goes("mode", x.k) ELSE Goes("failed", x.k) :
                           x \in set_nonblocking_native(Of(s), enabled)}
<1>1. ASSUME NEW y \in outcomes, is_open(s) PROVE Outcome(Of(s), obj[s].error, "idle", y)
  <2>1. Of(s) \in Descriptors
    BY <1>1, OpenSocket
  <2>2. PICK x \in set_nonblocking_native(Of(s), enabled) :
          y = IF x.ok THEN Goes("mode", x.k) ELSE Goes("failed", x.k)
    OBVIOUS
  <2>3. /\ x.ok \in BOOLEAN /\ x.k \in Descriptors
        /\ x.k.st = Of(s).st /\ x.k.so = Of(s).so /\ x.k.fin = Of(s).fin
        /\ x.k.told = Of(s).told /\ x.k.overlap = Of(s).overlap
        /\ ~ x.ok => x.k = Of(s)
    BY <2>1, <2>2, ModeSet
  <2>4. CASE x.ok
    BY <2>2, <2>3, <2>4 DEF Outcome, Goes, Stages
  <2>5. CASE ~ x.ok
    <3>1. y = Goes("failed", Of(s))
      BY <2>2, <2>3, <2>5
    <3>2. QED BY <2>1, <3>1, PlainOutcome
  <2>6. QED BY <2>4, <2>5
<1>2. Does(s, "writer", "idle", outcomes)
  BY DEF set_non_blocking
<1>3. "writer" \in Sides
  BY DEF Sides
<1> HIDE DEF outcomes
<1>4. QED BY <1>1, <1>2, <1>3, DoesKeeps

LEMMA WaitConnectedKeeps ==
    ASSUME SocketsIInv, NEW s \in Sockets, wait_connected(s)
    PROVE  SocketsIInv' /\ Answered'
<1>1. ASSUME NEW x \in wait_connect_resolved(Of(s)), is_open(s)
      PROVE  Outcome(Of(s), obj[s].error, "idle", x)
  <2>1. Of(s) \in Descriptors
    BY <1>1, OpenSocket
  <2>2. Of(s).st # "connecting" =>
          Outcome(Of(s), obj[s].error, "idle", Goes("resolved", Of(s)))
    BY <2>1 DEF Outcome, Goes, Stages
  <2>3. QED BY <2>1, <2>2, PlainOutcome DEF wait_connect_resolved
<1>2. Does(s, "writer", "idle", wait_connect_resolved(Of(s))) /\ "writer" \in Sides
  BY DEF wait_connected, Sides
<1>3. QED BY <1>1, <1>2, DoesKeeps

LEMMA WaitConnectedReadsKeeps ==
    ASSUME SocketsIInv, NEW s \in Sockets, WaitConnectedReads(s)
    PROVE  SocketsIInv' /\ Answered'
<1>0. io[s]["writer"] = "resolved" /\ "writer" \in Sides
  BY DEF WaitConnectedReads, Does, Sides
<1>1. ASSUME NEW x \in Resolved(Of(s)), is_open(s)
      PROVE  Outcome(Of(s), obj[s].error, "resolved", x)
  <2>1. Of(s) \in Descriptors /\ ConnectionFits(obj[s], io[s], Of(s))
    BY <1>1, OpenSocket
  <2>2. Of(s).st # "connecting"
    BY <1>0, <2>1 DEF ConnectionFits
  <2>3. ~ Of(s).so => Outcome(Of(s), obj[s].error, "resolved", Ends("connected", Of(s)))
    BY <2>1, <2>2 DEF Outcome, Ends, Stages
  <2>4. QED BY <2>1, <2>3, TakingOutcome DEF Resolved
<1>2. Does(s, "writer", "resolved", Resolved(Of(s)))
  BY DEF WaitConnectedReads
<1>3. QED BY <1>0, <1>1, <1>2, DoesKeeps

LEMMA WaitReadableKeeps ==
    ASSUME SocketsIInv, NEW s \in Sockets, wait_readable(s)
    PROVE  SocketsIInv' /\ Answered'
<1>1. ASSUME NEW x \in PollReadable(Of(s)), is_open(s)
      PROVE  Outcome(Of(s), obj[s].error, "idle", x)
  <2>1. Of(s) \in Descriptors
    BY <1>1, OpenSocket
  <2>2. x \in {Goes("failed", Of(s)), Ends("ready", Of(s)), Ends("timed_out", Of(s))}
    BY DEF PollReadable, poll_one
  <2>3. QED BY <2>1, <2>2, PlainOutcome
<1>2. Does(s, "reader", "idle", PollReadable(Of(s))) /\ "reader" \in Sides
  BY DEF wait_readable, Sides
<1>3. QED BY <1>1, <1>2, DoesKeeps

LEMMA WaitWritableKeeps ==
    ASSUME SocketsIInv, NEW s \in Sockets, wait_writable(s)
    PROVE  SocketsIInv' /\ Answered'
<1>1. ASSUME NEW x \in PollWritable(Of(s)), is_open(s)
      PROVE  Outcome(Of(s), obj[s].error, "idle", x)
  <2>1. Of(s) \in Descriptors
    BY <1>1, OpenSocket
  <2>2. \/ x \in {Goes("failed", Of(s)), Ends("ready", Of(s)), Ends("timed_out", Of(s))}
        \/ Broken(Of(s)) /\ x = Goes("raised", Of(s))
    BY DEF PollWritable, poll_one, When
  <2>3. Broken(Of(s)) => Outcome(Of(s), obj[s].error, "idle", Goes("raised", Of(s)))
    BY <2>1 DEF Outcome, Goes, Stages
  <2>4. QED BY <2>1, <2>2, <2>3, PlainOutcome
<1>2. Does(s, "writer", "idle", PollWritable(Of(s))) /\ "writer" \in Sides
  BY DEF wait_writable, Sides
<1>3. QED BY <1>1, <1>2, DoesKeeps

LEMMA WaitWritableReadsKeeps ==
    ASSUME SocketsIInv, NEW s \in Sockets, WaitWritableReads(s)
    PROVE  SocketsIInv' /\ Answered'
<1>1. ASSUME NEW x \in Raised(Of(s), obj[s].error), is_open(s)
      PROVE  Outcome(Of(s), obj[s].error, "raised", x)
  <2>1. Of(s) \in Descriptors
    BY <1>1, OpenSocket
  <2>2. ~ Of(s).so /\ ~ obj[s].error =>
          Outcome(Of(s), obj[s].error, "raised", Goes("zero", Of(s)))
    BY <2>1 DEF Outcome, Goes, Stages
  <2>3. QED BY <2>1, <2>2, PlainOutcome, TakingOutcome DEF Raised
<1>2. Does(s, "writer", "raised", Raised(Of(s), obj[s].error)) /\ "writer" \in Sides
  BY DEF WaitWritableReads, Sides
<1>3. QED BY <1>1, <1>2, DoesKeeps

LEMMA SendKeeps ==
    ASSUME SocketsIInv, NEW s \in Sockets, send(s)
    PROVE  SocketsIInv' /\ Answered'
<1>1. ASSUME NEW x \in native_send(Of(s)), is_open(s)
      PROVE  Outcome(Of(s), obj[s].error, "idle", x)
  <2>1. Of(s) \in Descriptors
    BY <1>1, OpenSocket
  <2>2. x \in {Goes("failed", Of(s)), Goes("took", get_so_error(Of(s))),
               Ends("would_block", Of(s)), Ends("ok", Of(s))}
    BY DEF native_send, OsErrors, When
  <2>3. QED BY <2>1, <2>2, PlainOutcome, TakingOutcome
<1>2. Does(s, "writer", "idle", native_send(Of(s))) /\ "writer" \in Sides
  BY DEF send, Sides
<1>3. QED BY <1>1, <1>2, DoesKeeps

LEMMA ShutdownKeeps ==
    ASSUME SocketsIInv, NEW s \in Sockets, shutdown_write(s)
    PROVE  SocketsIInv' /\ Answered'
<1> DEFINE outcomes == {Goes("failed", Of(s))} \cup
                       When(Of(s).st = "connected", Ends("ok", Of(s)))
<1>1. ASSUME NEW x \in outcomes, is_open(s)
      PROVE  Outcome(Of(s), obj[s].error, "idle", x)
  <2>1. Of(s) \in Descriptors
    BY <1>1, OpenSocket
  <2>2. x \in {Goes("failed", Of(s)), Ends("ok", Of(s))}
    BY DEF When
  <2>3. QED BY <2>1, <2>2, PlainOutcome
<1>2. Does(s, "writer", "idle", outcomes) /\ "writer" \in Sides
  BY DEF shutdown_write, Sides
<1> HIDE DEF outcomes
<1>3. QED BY <1>1, <1>2, DoesKeeps

LEMMA RecvKeeps ==
    ASSUME SocketsIInv, NEW s \in Sockets, NEW n \in 0 .. MaxQueued, recv(s, n)
    PROVE  SocketsIInv' /\ Answered'
<1> DEFINE k == Of(s)
<1>1. ASSUME NEW x \in native_recv(k, n), is_open(s)
      PROVE  Outcome(k, obj[s].error, "idle", x)
  <2>1. k \in Descriptors
    BY <1>1, OpenSocket
  <2>2. \/ x \in {Goes("failed", k), Goes("took", get_so_error(k)), Ends("would_block", k),
                  Ends("closed, no room", k)}
        \/ /\ ~ k.so /\ k.queued = 0 /\ (k.fin \/ Broken(k))
           /\ x = Ends("closed", k)
        \/ \E i \in {j \in 1 .. n : j <= k.queued} :
              x = Ends("ok", [k EXCEPT !.queued = @ - i])
    BY DEF native_recv, OsErrors, When
  <2>3. CASE ~ k.so /\ k.queued = 0 /\ (k.fin \/ Broken(k)) /\ x = Ends("closed", k)
    BY <2>1, <2>3 DEF Outcome, Ends, Stages
  <2>4. ASSUME NEW i \in {j \in 1 .. n : j <= k.queued},
               x = Ends("ok", [k EXCEPT !.queued = @ - i])
        PROVE  Outcome(k, obj[s].error, "idle", x)
    <3>1. k.queued - i \in 0 .. MaxQueued
      BY <2>1, <2>4, ConstantsFit DEF Descriptors
    <3> DEFINE l == [k EXCEPT !.queued = @ - i]
    <3>2. /\ l \in Descriptors /\ l.st = k.st /\ l.fin = k.fin /\ l.told = k.told
          /\ l.overlap = k.overlap /\ l.nb = k.nb /\ l.so = k.so
      BY <2>1, <3>1 DEF Descriptors
    <3>3. x = Ends("ok", l)
      BY <2>4
    <3> HIDE DEF l
    <3>4. QED BY <3>2, <3>3 DEF Outcome, Ends, Stages
  <2>5. QED BY <2>1, <2>2, <2>3, <2>4, PlainOutcome, TakingOutcome
<1>2. Does(s, "reader", "idle", native_recv(Of(s), n)) /\ "reader" \in Sides
  BY DEF recv, Sides
<1>3. QED BY <1>1, <1>2, DoesKeeps

LEMMA StoreKeeps ==
    ASSUME SocketsIInv, NEW s \in Sockets, NEW d \in Sides, Store(s, d)
    PROVE  SocketsIInv' /\ Answered'
<1> DEFINE h == obj[s].handle
<1>1. io[s][d] \in {"failed", "took", "zero"} /\ UNCHANGED call /\ Returns(s, "error")
  BY DEF Store
<1>2. is_open(s)
  BY <1>1, Hers DEF SocketsIInv, Fits, SocketFits, Objects
<1>3. /\ s \in Objects /\ obj[s] \in ObjRecords /\ io[s] \in [Sides -> Stages]
      /\ obj \in [Objects -> ObjRecords] /\ kernel \in [Fds -> Descriptors] /\ h \in Fds
      /\ kernel[h] \in Descriptors /\ ConnectionFits(obj[s], io[s], kernel[h]) /\ ~ obj[s].port
      /\ io \in [Sockets -> [Sides -> Stages]]
  BY <1>2, OpenSocket DEF SocketFits
<1>4. PICK e \in Stored(io[s][d], obj[s].error) : obj' = [obj EXCEPT ![s].error = e]
  BY DEF Store
<1>5. /\ e \in BOOLEAN /\ (io[s][d] # "zero" => e)
  BY <1>3, <1>4 DEF Stored, ObjRecords
<1> DEFINE r == [obj[s] EXCEPT !.error = e]
           l == [kernel[h] EXCEPT !.told = @ \/ io[s][d] = "took"]
           i == [io[s] EXCEPT ![d] = "idle"]
<1>6. r \in ObjRecords /\ r.handle = h /\ r.error = e /\ r.nb = obj[s].nb /\ r.port = obj[s].port
  BY <1>3, <1>5 DEF ObjRecords
<1>7. /\ l \in Descriptors /\ l.st = kernel[h].st /\ l.nb = kernel[h].nb /\ l.so = kernel[h].so
      /\ l.overlap = kernel[h].overlap /\ l.told = (kernel[h].told \/ io[s][d] = "took")
  BY <1>3 DEF Descriptors
<1>8. i[d] = "idle" /\ \A a \in Sides \ {d} : i[a] = io[s][a]
  BY <1>3
<1>9. obj' = [obj EXCEPT ![s] = r] /\ kernel' = [kernel EXCEPT ![h] = l]
  BY <1>3, <1>4 DEF Store
<1>10. "idle" \in Stages /\ io' = [io EXCEPT ![s][d] = "idle"]
  BY DEF Store, Stages
<1> HIDE DEF r, l, i
<1>11. ConnectionFits(r, i, l)
  <2>1. /\ l.st \in {"connecting", "connected", "failed", "reset"}
        /\ (\A a \in Sides : i[a] # "mode") => l.nb = r.nb
    BY <1>1, <1>3, <1>6, <1>7, <1>8 DEF ConnectionFits
  <2>2. Broken(l) => l.so \/ l.told \/ \E a \in Sides : i[a] = "took"
    BY <1>3, <1>7, <1>8 DEF ConnectionFits, Broken
  <2>3. \A a \in Sides : /\ i[a] = "raised" => Broken(l)
                         /\ i[a] = "resolved" => l.st # "connecting"
    BY <1>3, <1>7, <1>8 DEF ConnectionFits, Broken
  <2>4. l.overlap \/ ((l.told => r.error) /\ \A a \in Sides : i[a] # "zero")
    BY <1>1, <1>3, <1>5, <1>6, <1>7, <1>8 DEF ConnectionFits
  <2>5. QED BY <2>1, <2>2, <2>3, <2>4 DEF ConnectionFits
<1>12. Proceeds(s, d, "idle", r, l)
  <2>1. ConnectionFits(r, [io[s] EXCEPT ![d] = "idle"], l)
    BY <1>11 DEF i
  <2>2. QED BY <1>1, <1>3, <1>6, <1>9, <1>10, <2>1 DEF Proceeds
<1>13. SocketsIInv' /\ is_open(s)' /\ Of(s)' = l /\ obj'[s] = r
  BY <1>2, <1>6, <1>7, <1>10, <1>12, CallKeeps
<1>14. r.error \/ l.overlap
  BY <1>1, <1>3, <1>5, <1>6, <1>7 DEF ConnectionFits
<1>15. Answered'
  BY <1>1, <1>13, <1>14, FailureAnswered
<1>16. QED BY <1>13, <1>15

LEMMA StoreModeKeeps ==
    ASSUME SocketsIInv, NEW s \in Sockets, NEW d \in Sides, StoreMode(s, d)
    PROVE  SocketsIInv' /\ Answered'
<1> DEFINE h == obj[s].handle
<1>1. io[s][d] = "mode" /\ UNCHANGED <<call, kernel>> /\ ret' = NoAnswer
  BY DEF StoreMode
<1>2. is_open(s)
  BY <1>1, Hers DEF SocketsIInv, Fits, SocketFits, Objects
<1>3. /\ s \in Objects /\ obj[s] \in ObjRecords /\ io[s] \in [Sides -> Stages]
      /\ obj \in [Objects -> ObjRecords] /\ kernel \in [Fds -> Descriptors] /\ h \in Fds
      /\ kernel[h] \in Descriptors /\ ConnectionFits(obj[s], io[s], kernel[h]) /\ ~ obj[s].port
      /\ Of(s) = kernel[h]
  BY <1>2, OpenSocket DEF SocketFits
<1> DEFINE r == [obj[s] EXCEPT !.nb = kernel[h].nb]
           i == [io[s] EXCEPT ![d] = "idle"]
<1>4. /\ r \in ObjRecords /\ r.handle = h /\ r.error = obj[s].error
      /\ r.nb = kernel[h].nb /\ r.port = obj[s].port
  BY <1>3 DEF ObjRecords, Descriptors
<1>5. i[d] = "idle" /\ \A a \in Sides \ {d} : i[a] = io[s][a]
  BY <1>3
<1>6. obj' = [obj EXCEPT ![s] = r] /\ kernel' = [kernel EXCEPT ![h] = kernel[h]]
  BY <1>1, <1>3 DEF StoreMode
<1>7. "idle" \in Stages /\ io' = [io EXCEPT ![s][d] = "idle"]
  BY DEF StoreMode, Stages
<1> HIDE DEF r, i
<1>8. ConnectionFits(r, i, kernel[h])
  BY <1>1, <1>3, <1>4, <1>5 DEF ConnectionFits
<1>9. Proceeds(s, d, "idle", r, kernel[h])
  <2>1. ConnectionFits(r, [io[s] EXCEPT ![d] = "idle"], kernel[h])
    BY <1>8 DEF i
  <2>2. QED BY <1>1, <1>3, <1>4, <1>6, <1>7, <2>1 DEF Proceeds
<1>10. SocketsIInv'
  BY <1>2, <1>3, <1>4, <1>7, <1>9, CallKeeps
<1>11. QED BY <1>1, <1>10, NothingAnswered

-----------------------------------------------------------------------------
(* The theorems.                                                           *)

LEMMA StepKeeps ==
    SocketsIInv /\ Answered /\ [Next]_vars => SocketsIInv' /\ Answered'
<1> SUFFICES ASSUME SocketsIInv, Answered, [Next]_vars PROVE SocketsIInv' /\ Answered'
  OBVIOUS
<1>1. ASSUME NEW s \in Sockets, Connect(s) PROVE SocketsIInv' /\ Answered'
  <2>1. CASE \E b \in BOOLEAN : ConnectBegin(s, b)
    BY <2>1, ConnectBeginKeeps
  <2>2. CASE ConnectSocket(s) \/ ConnectMode(s) \/ ConnectTakes(s)
    BY <2>2, ConnectSocketKeeps, ConnectModeKeeps, ConnectTakesKeeps
  <2>3. CASE ConnectRefused(s) \/ ConnectGivesUp(s)
    BY <2>3, ConnectRefusedKeeps, ConnectGivesUpKeeps
  <2>4. QED BY <1>1, <2>1, <2>2, <2>3 DEF Connect
<1>2. ASSUME NEW s \in Sockets, Use(s) PROVE SocketsIInv' /\ Answered'
  <2>1. CASE \E d \in Sides : Store(s, d) \/ StoreMode(s, d)
    BY <2>1, StoreKeeps, StoreModeKeeps
  <2>2. CASE \E b \in BOOLEAN : set_non_blocking(s, b)
    BY <2>2, SetNonBlockingKeeps
  <2>3. CASE wait_connected(s) \/ WaitConnectedReads(s) \/ wait_readable(s)
    BY <2>3, WaitConnectedKeeps, WaitConnectedReadsKeeps, WaitReadableKeeps
  <2>4. CASE wait_writable(s) \/ WaitWritableReads(s)
    BY <2>4, WaitWritableKeeps, WaitWritableReadsKeeps
  <2>5. CASE send(s) \/ shutdown_write(s)
    BY <2>5, SendKeeps, ShutdownKeeps
  <2>6. CASE \E n \in 0 .. MaxQueued : recv(s, n)
    BY <2>6, RecvKeeps
  <2>7. QED BY <1>2, <2>1, <2>2, <2>3, <2>4, <2>5, <2>6 DEF Use
<1>3. ASSUME NEW v \in Servers, Serve(v) PROVE SocketsIInv' /\ Answered'
  <2>1. CASE \E b \in BOOLEAN : ListenSocket(v, b)
    BY <2>1, ListenSocketKeeps
  <2>2. CASE ListenMode(v) \/ ListenBind(v) \/ ListenOpens(v)
    BY <2>2, ListenModeKeeps, ListenBindKeeps, ListenOpensKeeps
  <2>3. CASE ServerWaitReadable(v) \/ AcceptTakes(v)
    BY <2>3, ServerWaitReadableKeeps, AcceptTakesKeeps
  <2>4. CASE \E s \in Sockets : AcceptMode(v, s)
    BY <2>4, AcceptModeKeeps
  <2>5. QED BY <1>3, <2>1, <2>2, <2>3, <2>4 DEF Serve
<1>4. ASSUME NEW s \in Sockets, Close(s) \/ \E to \in Sockets : Move(s, to)
      PROVE  SocketsIInv' /\ Answered'
  BY <1>4, CloseKeeps, MoveKeeps
<1>5. ASSUME NEW v \in Servers, ServerClose(v) \/ \E to \in Servers : ServerMove(v, to)
      PROVE  SocketsIInv' /\ Answered'
  BY <1>5, ServerCloseKeeps, ServerMoveKeeps
<1>6. CASE \E o \in Objects : CallOnClosed(o)
  BY <1>6, CallOnClosedKeeps
<1>7. CASE Network
  BY <1>7, NetworkKeeps
<1>8. CASE UNCHANGED vars
  <2>1. UNCHANGED <<obj, call, io, kernel>> /\ ret' = ret
    BY <1>8 DEF vars
  <2>2. SocketsIInv'
    BY <2>1 DEF SocketsIInv, TypeOK, FdFits, FreeFd, Holds, Fits, SocketFits, ServerFits
  <2>3. Answered'
    BY <2>1 DEF Answered, AnswersTruthful, ReadyMeansConnected, AcceptTells,
                ClosedMeansDrained, Reported, Of, is_open
  <2>4. QED BY <2>2, <2>3
<1>9. QED BY <1>1, <1>2, <1>3, <1>4, <1>5, <1>6, <1>7, <1>8 DEF Next

LEMMA SocketsInvariant == Spec => [](SocketsIInv /\ Answered)
<1>1. QED BY InitSockets, StepKeeps, PTL DEF Spec

\* Every open descriptor has one owner and a closed one none, through moves and
\* closes and every failure of connect(), listen() and accept() behind the
\* socket() or accept() that opened it; and every object knows its
\* descriptor's mode and its port.
THEOREM DescriptorsOwned == Spec => []OwnershipInv
<1>1. SocketsIInv => OwnershipInv
  <2> SUFFICES ASSUME SocketsIInv PROVE OwnershipInv
    OBVIOUS
  <2>1. /\ TypeOK /\ Objects = Sockets \cup Servers
        /\ \A s \in Sockets : SocketFits(s)
        /\ \A v \in Servers : ServerFits(v)
    BY Typed DEF SocketsIInv, Fits
  <2>2. ModeAgrees
    <3>1. ASSUME NEW s \in Sockets, is_open(s), \A d \in Sides : io[s][d] # "mode"
          PROVE  Of(s).nb = obj[s].nb
      BY <2>1, <3>1 DEF SocketFits, ConnectionFits, is_open, Of
    <3>2. ASSUME NEW v \in Servers, is_open(v)
          PROVE  Of(v).nb = obj[v].nb
      BY <2>1, <3>2 DEF ServerFits, is_open, Of
    <3>3. QED BY <2>1, <3>1, <3>2 DEF ModeAgrees
  <2>3. PortAgrees
    BY <2>1 DEF PortAgrees, SocketFits, ServerFits, is_open
  <2>4. QED BY <2>1, <2>2, <2>3, HeldOnce DEF OwnershipInv
<1>2. QED BY <1>1, SocketsInvariant, PTL

\* A failing call on an open socket or server, a connect() to a resolved host
\* and a listen() leave error() not zero, and error() goes on telling of the
\* connection's error once a call has returned it, unless the two threads of
\* the socket were inside calls at the same time after its connection broke.
THEOREM FailuresExplained == Spec => []ErrorsExplained
<1>1. SocketsIInv /\ Answered => ErrorsExplained
  <2> SUFFICES ASSUME SocketsIInv, Answered PROVE ErrorsExplained
    OBVIOUS
  <2>1. ASSUME NEW s \in Sockets, is_open(s), Of(s).told
        PROVE  obj[s].error \/ Of(s).overlap
    BY <2>1, OpenSocket DEF ConnectionFits
  <2>2. QED BY <2>1 DEF Answered, ErrorsExplained
<1>2. QED BY <1>1, SocketsInvariant, PTL

\* ready of wait_connected() and closed of recv() are true when they are given,
\* unless another call of the socket has taken the error of its broken
\* connection to report it; and accept() tells nothing pending from a failure.
THEOREM AnswersAreTrue == Spec => []AnswersTruthful
<1>1. Answered => AnswersTruthful
  BY DEF Answered
<1>2. QED BY <1>1, SocketsInvariant, PTL

=============================================================================
