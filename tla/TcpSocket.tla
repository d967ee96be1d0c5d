------------------------------ MODULE TcpSocket ------------------------------
(***************************************************************************)
(* TcpSocket and TcpServer (tcp_socket.hpp, tcp_socket.cpp): owners of one *)
(* descriptor each, over a kernel that hands descriptors out again as soon *)
(* as they are closed, and a network that connects, resets, delivers and   *)
(* ends connections at any time.                                           *)
(*                                                                         *)
(* Objects are driven by different threads, and an open socket by two: a   *)
(* reader and a writer (tcp_socket.hpp:68-69), whose calls interleave at   *)
(* every call of the OS and at every store to a member.  connect(),        *)
(* listen() and accept() hold a descriptor between their OS calls.  A call *)
(* that blocks is one that cannot take its step yet.  EINTR is retried by  *)
(* every wrapper and does not appear (::connect is not retried: a failure  *)
(* like any other).  Host names and payloads are left out; error codes and *)
(* ports are zero (FALSE) or not (TRUE).                                   *)
(***************************************************************************)
EXTENDS Integers, FiniteSets

CONSTANTS
    Sockets, Servers,   \* the TcpSocket and TcpServer objects
    Fds,                \* the descriptors the kernel can hand out
    NoFd,               \* invalid_handle
    Hosts,              \* how many addresses the host names resolve to
    MaxQueued,          \* bound: bytes, or connections, queued in the kernel
    MaxBusy             \* bound: threads inside calls of several steps

ASSUME ConstantsFit ==
    /\ Sockets \cap Servers = {} /\ NoFd \notin Fds /\ IsFiniteSet(Fds)
    /\ Hosts \subseteq Nat \ {0} /\ MaxQueued \in Nat \ {0}
    /\ MaxBusy \in Nat \ {0}

VARIABLES
    obj,    \* per object: handle_, error_ # 0, non_blocking_, local_port_ # 0
    call,   \* per object: the connect(), listen() or accept() in progress
    io,     \* per socket and thread: what the call in progress does next
    kernel, \* per descriptor: what the OS keeps
    ret     \* the answer given by the last step: [of, res]

vars == <<obj, call, io, kernel, ret>>

Objects == Sockets \cup Servers
Sides   == {"reader", "writer"}

NoAnswer == [of |-> NoFd, res |-> "none"]
Closed   == [handle |-> NoFd, error |-> FALSE, nb |-> FALSE, port |-> FALSE]

\* at: the next OS call; fd: the local fd; left: addresses to try; last: the
\* local `last` # 0.
NoCall == [at |-> "none", fd |-> NoFd, left |-> 0, last |-> FALSE]

\* queued: bytes to receive, or connections waiting for accept(); fin: the
\* peer has shut down; so: SO_ERROR is pending; nb: O_NONBLOCK.  History: told,
\* a call that took SO_ERROR has returned an error; overlap, since the
\* connection broke its two threads have been inside calls at the same time.
Free == [st |-> "free", nb |-> FALSE, so |-> FALSE, queued |-> 0, fin |-> FALSE,
         told |-> FALSE, overlap |-> FALSE]
Fresh(st, nb) == [Free EXCEPT !.st = st, !.nb = nb]

Init ==
    /\ obj = [o \in Objects |-> Closed]
    /\ call = [o \in Objects |-> NoCall]
    /\ io = [s \in Sockets |-> [d \in Sides |-> "idle"]]
    /\ kernel = [f \in Fds |-> Free]
    /\ ret = NoAnswer

is_open(o) == obj[o].handle # NoFd
Of(o)      == kernel[obj[o].handle]

\* Nobody is inside a call of the object.
Idle(o) == call[o].at = "none" /\ (o \in Sockets => \A d \in Sides : io[o][d] = "idle")

\* Bound: the threads inside calls of several steps, a socket in use counting
\* for its two.
Opening    == {o \in Objects : call[o].at # "none"}
Used       == {s \in Sockets : \E d \in Sides : io[s][d] # "idle"}
MayOpen(o) == Cardinality(Opening \cup {o}) + 2 * Cardinality(Used) <= MaxBusy
MayUse(s)  == Cardinality(Opening) + 2 * Cardinality(Used \cup {s}) <= MaxBusy

\* The answers that say something of the connection or of error(); of other
\* results only that the call is over matters.
Answers == {"error", "connected", "closed", "accepted", "none pending"}

Returns(o, res) == ret' = IF res \in Answers THEN [of |-> o, res |-> res] ELSE NoAnswer

FreeFd(f) == kernel[f].st = "free"

\* socket() and accept(): f is open, in state k.
Opens(f, k) == FreeFd(f) /\ kernel' = [kernel EXCEPT ![f] = k]

\* The kernel once f is closed.
close_native(f) == [kernel EXCEPT ![f] = Free]

\* fcntl: the mode is set, or left as it was.
set_nonblocking_native(k, enabled) ==
    {[ok |-> FALSE, k |-> k], [ok |-> TRUE, k |-> [k EXCEPT !.nb = enabled]]}

-----------------------------------------------------------------------------
(* TcpSocket::connect. *)

(* The socket under construction, once the host is resolved.               *)
(* getaddrinfo reports its own codes: errno may be zero when it fails.     *)
ConnectBegin(s, nb) ==
    /\ Idle(s) /\ ~is_open(s) /\ MayOpen(s)
    /\ \/ /\ \E e \in BOOLEAN : obj' = [obj EXCEPT ![s] = [Closed EXCEPT !.error = e, !.nb = nb]]
          /\ UNCHANGED call
       \/ /\ \E n \in Hosts :
                call' = [call EXCEPT ![s] = [NoCall EXCEPT !.at = "socket", !.left = n]]
          /\ obj' = [obj EXCEPT ![s] = [Closed EXCEPT !.nb = nb]]
    /\ ret' = NoAnswer
    /\ UNCHANGED <<io, kernel>>

\* The call as the loop goes on with the next address, an error in `last`.
NextAddress(s) ==
    [call[s] EXCEPT !.at = "socket", !.fd = NoFd, !.left = @ - 1, !.last = TRUE]

(* socket(): without a descriptor the next address is tried. *)
ConnectSocket(s) ==
    /\ call[s].at = "socket" /\ call[s].left > 0
    /\ \/ call' = [call EXCEPT ![s] = NextAddress(s)] /\ UNCHANGED kernel
       \/ \E f \in Fds :
             /\ Opens(f, Fresh("new", FALSE))
             /\ call' = [call EXCEPT ![s].at = IF obj[s].nb THEN "mode" ELSE "connect",
                                     ![s].fd = f]
    /\ ret' = NoAnswer
    /\ UNCHANGED <<obj, io>>

\* Mutant: the descriptor stays open when its mode cannot be set.
ConnectModeLeaks(s) ==
    /\ call[s].at = "mode"
    /\ \E x \in set_nonblocking_native(kernel[call[s].fd], TRUE) :
          /\ kernel' = [kernel EXCEPT ![call[s].fd] = x.k]
          /\ call' = [call EXCEPT ![s] = IF x.ok THEN [@ EXCEPT !.at = "connect"]
                                         ELSE NextAddress(s)]
    /\ ret' = NoAnswer
    /\ UNCHANGED <<obj, io>>

(* The switch to non-blocking mode; if it fails, the descriptor is closed. *)
ConnectMode(s) ==
    /\ call[s].at = "mode"
    /\ \E x \in set_nonblocking_native(kernel[call[s].fd], TRUE) :
          IF x.ok
          THEN /\ kernel' = [kernel EXCEPT ![call[s].fd] = x.k]
               /\ call' = [call EXCEPT ![s].at = "connect"]
          ELSE /\ kernel' = close_native(call[s].fd)
               /\ call' = [call EXCEPT ![s] = NextAddress(s)]
    /\ ret' = NoAnswer
    /\ UNCHANGED <<obj, io>>

(* ::connect succeeds, or starts (non-blocking descriptors only): the      *)
(* socket takes the descriptor.                                            *)
ConnectTakes(s) ==
    /\ call[s].at = "connect"
    /\ LET f == call[s].fd IN
       /\ \E st \in {"connected"} \cup (IF kernel[f].nb THEN {"connecting"} ELSE {}) :
             kernel' = [kernel EXCEPT ![f].st = st]
       /\ obj' = [obj EXCEPT ![s].handle = f]
    /\ call' = [call EXCEPT ![s] = NoCall]
    /\ ret' = NoAnswer
    /\ UNCHANGED io

(* ::connect fails: the descriptor is closed, the next address tried. *)
ConnectRefused(s) ==
    /\ call[s].at = "connect"
    /\ kernel' = close_native(call[s].fd)
    /\ call' = [call EXCEPT ![s] = NextAddress(s)]
    /\ ret' = NoAnswer
    /\ UNCHANGED <<obj, io>>

(* No address left: a closed socket with the last error. *)
ConnectGivesUp(s) ==
    /\ call[s].at = "socket" /\ call[s].left = 0
    /\ obj' = [obj EXCEPT ![s].error = call[s].last]
    /\ call' = [call EXCEPT ![s] = NoCall]
    /\ Returns(s, "error")
    /\ UNCHANGED <<io, kernel>>

-----------------------------------------------------------------------------
(* Calls on an open TcpSocket, by thread d.  A call of the OS has one of a *)
(* set of outcomes: the descriptor in state k, and the call over with a    *)
(* result or going on at a stage:                                          *)
(*   failed, took    an error code is to be stored in error_; took: it is  *)
(*                   the connection's own, which was in SO_ERROR           *)
(*   resolved        wait_connected: SO_ERROR is to be read                *)
(*   raised          wait_writable: POLLERR seen, SO_ERROR to be read      *)
(*   zero            wait_writable: error_ was loaded, a zero, and is to   *)
(*                   be stored back                                        *)
(*   mode            set_non_blocking: non_blocking_ is to be stored       *)

Stages == {"idle", "failed", "took", "resolved", "raised", "zero", "mode"}

Ends(res, k)  == [to |-> "idle", res |-> res, k |-> k]
Goes(to, k)   == [to |-> to, res |-> "none", k |-> k]
When(cond, x) == {y \in {x} : cond}

Broken(k) == k.st \in {"failed", "reset"}

\* What the kernel keeps once thread d of s has called it.
Overlaps(s, d, k) ==
    [k EXCEPT !.overlap = @ \/ (Broken(k) /\ \E e \in Sides \ {d} : io[s][e] # "idle")]

\* Thread d calls the OS from stage `from`, with one of these outcomes.
Does(s, d, from, outcomes) ==
    /\ call[s].at = "none" /\ is_open(s) /\ io[s][d] = from
    /\ MayUse(s)
    /\ \E x \in outcomes :
          /\ kernel' = [kernel EXCEPT ![obj[s].handle] = Overlaps(s, d, x.k)]
          /\ io' = [io EXCEPT ![s][d] = x.to]
          /\ Returns(s, x.res)
    /\ UNCHANGED <<obj, call>>

\* SO_ERROR is cleared by reading it.
get_so_error(k) == [k EXCEPT !.so = FALSE]

\* Any call may fail; one on a broken connection takes its pending error.
OsErrors(k) == {Goes("failed", k)} \cup When(k.so, Goes("took", get_so_error(k)))

\* Mutant: a call that fails with the connection's error does not keep it.
StoreForgets(s, d) ==
    /\ io[s][d] \in {"failed", "took", "zero"}
    /\ obj' = [obj EXCEPT ![s].error = @ \/ io[s][d] = "failed"]
    /\ kernel' = [kernel EXCEPT ![obj[s].handle].told = @ \/ io[s][d] = "took"]
    /\ io' = [io EXCEPT ![s][d] = "idle"]
    /\ Returns(s, "error")
    /\ UNCHANGED call

\* What error_ holds after the store.  A build may leave out the store of the
\* value that was loaded from error_ itself.
Stored(stage, error) == IF stage = "zero" THEN {FALSE, error} ELSE {TRUE}

(* error_ is assigned and the call fails. *)
Store(s, d) ==
    /\ io[s][d] \in {"failed", "took", "zero"}
    /\ \E e \in Stored(io[s][d], obj[s].error) : obj' = [obj EXCEPT ![s].error = e]
    /\ kernel' = [kernel EXCEPT ![obj[s].handle].told = @ \/ io[s][d] = "took"]
    /\ io' = [io EXCEPT ![s][d] = "idle"]
    /\ Returns(s, "error")
    /\ UNCHANGED call

set_non_blocking(s, enabled) ==
    Does(s, "writer", "idle",
         {IF x.ok THEN Goes("mode", x.k) ELSE Goes("failed", x.k) :
             x \in set_nonblocking_native(Of(s), enabled)})

(* non_blocking_ = enabled *)
StoreMode(s, d) ==
    /\ io[s][d] = "mode"
    /\ obj' = [obj EXCEPT ![s].nb = Of(s).nb]
    /\ io' = [io EXCEPT ![s][d] = "idle"]
    /\ ret' = NoAnswer
    /\ UNCHANGED <<call, kernel>>

\* select() on a connect: resolved either way is ready.
wait_connect_resolved(k) ==
    {Goes("failed", k),
     IF k.st = "connecting" THEN Ends("timed_out", k) ELSE Goes("resolved", k)}

wait_connected(s) == Does(s, "writer", "idle", wait_connect_resolved(Of(s)))

\* Mutant: SO_ERROR is not looked at.
ResolvedUnread(k) == {Ends("connected", k)}

\* Once the connect is resolved, SO_ERROR decides.
Resolved(k) == {IF k.so THEN Goes("took", get_so_error(k)) ELSE Ends("connected", k)}

WaitConnectedReads(s) == Does(s, "writer", "resolved", Resolved(Of(s)))

\* poll() reports an event: data, the peer's end, or a broken connection.
Readable(k) == k.queued > 0 \/ k.fin \/ Broken(k)

\* One poll(), given the outcomes other than its failure.
poll_one(k, outcomes) == {Goes("failed", k)} \cup outcomes

PollReadable(k) == poll_one(k, {Ends(IF Readable(k) THEN "ready" ELSE "timed_out", k)})

(* Errors of the connection are left to recv(). *)
wait_readable(s) == Does(s, "reader", "idle", PollReadable(Of(s)))

\* A connection has room for more bytes or not.  A broken one raises POLLERR,
\* or, once its error has been read, is writable, as the platform has it.
PollWritable(k) ==
    poll_one(k, IF Broken(k)
                THEN {Goes("raised", k)} \cup When(~k.so, Ends("ready", k))
                ELSE {Ends("timed_out", k)} \cup When(k.st # "connecting", Ends("ready", k)))

wait_writable(s) == Does(s, "writer", "idle", PollWritable(Of(s)))

\* error_ = (so != 0) ? so : error_, up to the store.
Raised(k, error) ==
    {IF k.so THEN Goes("took", get_so_error(k)) ELSE Goes(IF error THEN "failed" ELSE "zero", k)}

WaitWritableReads(s) == Does(s, "writer", "raised", Raised(Of(s), obj[s].error))

\* The connection is established or about to be.
InUse(k) == k.st \in {"connecting", "connected"}

\* One ::send takes a part of the bytes, or none.
native_send(k) ==
    OsErrors(k) \cup When(k.nb /\ InUse(k), Ends("would_block", k))
                \cup When(k.st = "connected", Ends("ok", k))

send(s) == Does(s, "writer", "idle", native_send(Of(s)))

\* One ::recv into a buffer with room for n bytes; with nothing to receive on a
\* blocking descriptor there is no outcome yet, and the call waits.  A broken
\* connection reports its error once, and then an end of stream.
native_recv(k, n) ==
    LET end == k.queued = 0 /\ (k.fin \/ Broken(k))
    IN  OsErrors(k)
        \cup When(k.nb /\ InUse(k) /\ k.queued = 0 /\ ~k.fin, Ends("would_block", k))
        \cup When(k.st # "connecting" /\ ~k.so /\ n = 0, Ends("closed, no room", k))
        \cup When(k.st # "connecting" /\ ~k.so /\ n > 0 /\ end, Ends("closed", k))
        \cup {Ends("ok", [k EXCEPT !.queued = @ - i]) : i \in {j \in 1 .. n : j <= k.queued}}

(* A count of zero is taken for the end of the stream. *)
recv(s, n) == Does(s, "reader", "idle", native_recv(Of(s), n))

shutdown_write(s) ==
    Does(s, "writer", "idle",
         {Goes("failed", Of(s))} \cup When(Of(s).st = "connected", Ends("ok", Of(s))))

(* A call on a closed object fails and changes nothing (close() succeeds). *)
CallOnClosed(o) ==
    /\ Idle(o) /\ ~is_open(o)
    /\ ret' = NoAnswer
    /\ UNCHANGED <<obj, call, io, kernel>>

(* close(); the destructor is the same. *)
Close(s) ==
    /\ Idle(s) /\ is_open(s)
    /\ kernel' = close_native(obj[s].handle)
    /\ obj' = [obj EXCEPT ![s].handle = NoFd]
    /\ ret' = NoAnswer
    /\ UNCHANGED <<call, io>>

(* Move assignment closes what the target held; onto a closed target it is *)
(* move construction too.                                                  *)
Move(from, to) ==
    /\ from # to /\ Idle(from) /\ Idle(to)
    /\ kernel' = IF is_open(to) THEN close_native(obj[to].handle) ELSE kernel
    /\ obj' = [obj EXCEPT ![to] = obj[from], ![from].handle = NoFd]
    /\ ret' = NoAnswer
    /\ UNCHANGED <<call, io>>

-----------------------------------------------------------------------------
(* TcpServer, driven by one thread. *)

\* An OS call of listen() failed: the descriptor is closed.
ListenFails(v) ==
    /\ kernel' = close_native(call[v].fd)
    /\ obj' = [obj EXCEPT ![v].error = TRUE]
    /\ call' = [call EXCEPT ![v] = NoCall]
    /\ Returns(v, "error")

\* listen() goes on with its next OS call, the descriptor in state k.
ListenGoesOn(v, at, k) ==
    /\ kernel' = [kernel EXCEPT ![call[v].fd] = k]
    /\ call' = [call EXCEPT ![v].at = at]
    /\ ret' = NoAnswer
    /\ UNCHANGED obj

(* listen(): socket(). *)
ListenSocket(v, nb) ==
    /\ Idle(v) /\ ~is_open(v) /\ MayOpen(v)
    /\ \/ /\ obj' = [obj EXCEPT ![v] = [Closed EXCEPT !.error = TRUE, !.nb = nb]]
          /\ Returns(v, "error")
          /\ UNCHANGED <<call, kernel>>
       \/ /\ obj' = [obj EXCEPT ![v] = [Closed EXCEPT !.nb = nb]]
          /\ \E f \in Fds :
                /\ Opens(f, Fresh("new", FALSE))
                /\ call' = [call EXCEPT ![v].at = IF nb THEN "mode" ELSE "bind", ![v].fd = f]
          /\ ret' = NoAnswer
    /\ UNCHANGED io

ListenMode(v) ==
    /\ call[v].at = "mode"
    /\ \E x \in set_nonblocking_native(kernel[call[v].fd], TRUE) :
          IF x.ok THEN ListenGoesOn(v, "bind", x.k) ELSE ListenFails(v)
    /\ UNCHANGED io

ListenBind(v) ==
    /\ call[v].at = "bind"
    /\ ListenFails(v) \/ ListenGoesOn(v, "listen", kernel[call[v].fd])
    /\ UNCHANGED io

(* ::listen, and the port read back; if that fails it is the one asked     *)
(* for, which may be zero.                                                 *)
ListenOpens(v) ==
    /\ call[v].at = "listen"
    /\ \/ ListenFails(v)
       \/ /\ kernel' = [kernel EXCEPT ![call[v].fd].st = "listening"]
          /\ \E port \in BOOLEAN :
                obj' = [obj EXCEPT ![v].handle = call[v].fd, ![v].port = port]
          /\ call' = [call EXCEPT ![v] = NoCall]
          /\ ret' = NoAnswer
    /\ UNCHANGED io

ServerWaitReadable(v) ==
    /\ Idle(v) /\ is_open(v)
    /\ \E x \in PollReadable(Of(v)) :
          /\ obj' = [obj EXCEPT ![v].error = @ \/ x.to = "failed"]
          /\ Returns(v, IF x.to = "failed" THEN "error" ELSE x.res)
    /\ UNCHANGED <<call, io, kernel>>

\* error_ is reset on entry, and set by a real failure.
AcceptError(v, failed) == failed

(* accept(): ::accept returns a connection, which is in the mode the       *)
(* platform gives it, inherited or blocking; fails; or would block.        *)
AcceptTakes(v) ==
    /\ Idle(v) /\ is_open(v) /\ MayOpen(v)
    /\ \/ /\ Of(v).queued > 0
          /\ \E f \in Fds, inherits \in BOOLEAN :
                /\ FreeFd(f)
                /\ kernel' = [kernel EXCEPT ![f] = Fresh("connected", inherits /\ Of(v).nb),
                                            ![obj[v].handle].queued = @ - 1]
                /\ call' = [call EXCEPT ![v].at = "accept", ![v].fd = f]
          /\ obj' = [obj EXCEPT ![v].error = AcceptError(v, FALSE)]
          /\ ret' = NoAnswer
       \/ \E failed \in BOOLEAN :
             /\ failed \/ (Of(v).queued = 0 /\ Of(v).nb)
             /\ obj' = [obj EXCEPT ![v].error = AcceptError(v, failed)]
             /\ Returns(v, IF failed THEN "error" ELSE "none pending")
             /\ UNCHANGED <<call, kernel>>
    /\ UNCHANGED io

(* accept(): the connection gets the listener's mode and becomes the       *)
(* TcpSocket s; if the mode cannot be set it is closed.                    *)
AcceptMode(v, s) ==
    /\ call[v].at = "accept" /\ Idle(s) /\ ~is_open(s)
    /\ LET f == call[v].fd IN
       \E x \in set_nonblocking_native(kernel[f], obj[v].nb) :
          IF x.ok
          THEN /\ kernel' = [kernel EXCEPT ![f] = x.k]
               /\ obj' = [obj EXCEPT ![s] = [Closed EXCEPT !.handle = f, !.nb = obj[v].nb]]
               /\ Returns(v, "accepted")
          ELSE /\ kernel' = close_native(f)
               /\ obj' = [obj EXCEPT ![v].error = TRUE]
               /\ Returns(v, "error")
    /\ call' = [call EXCEPT ![v] = NoCall]
    /\ UNCHANGED io

(* close() and the destructor: the port goes with the descriptor. *)
ServerClose(v) ==
    /\ Idle(v) /\ is_open(v)
    /\ kernel' = close_native(obj[v].handle)
    /\ obj' = [obj EXCEPT ![v].handle = NoFd, ![v].port = FALSE]
    /\ ret' = NoAnswer
    /\ UNCHANGED <<call, io>>

ServerMove(from, to) ==
    /\ from # to /\ Idle(from) /\ Idle(to)
    /\ kernel' = IF is_open(to) THEN close_native(obj[to].handle) ELSE kernel
    /\ obj' = [obj EXCEPT ![to] = obj[from], ![from].handle = NoFd, ![from].port = FALSE]
    /\ ret' = NoAnswer
    /\ UNCHANGED <<call, io>>

-----------------------------------------------------------------------------
(* The network and the peers (outside this library). *)

Happens(f, k) ==
    /\ kernel' = [kernel EXCEPT ![f] = k]
    /\ ret' = NoAnswer
    /\ UNCHANGED <<obj, call, io>>

ConnectResolves(f) ==
    /\ kernel[f].st = "connecting"
    /\ \/ Happens(f, [kernel[f] EXCEPT !.st = "connected"])
       \/ Happens(f, [kernel[f] EXCEPT !.st = "failed", !.so = TRUE])

\* Bytes arrive at a connected descriptor, clients at a listening one.
Arrives(f) ==
    /\ kernel[f].st \in {"connected", "listening"} /\ ~kernel[f].fin
    /\ kernel[f].queued < MaxQueued
    /\ Happens(f, [kernel[f] EXCEPT !.queued = @ + 1])

PeerShutsDown(f) ==
    /\ kernel[f].st = "connected" /\ ~kernel[f].fin
    /\ Happens(f, [kernel[f] EXCEPT !.fin = TRUE])

\* A reset discards what was queued and the peer's end of stream.
PeerResets(f) ==
    /\ kernel[f].st = "connected"
    /\ Happens(f, [kernel[f] EXCEPT !.st = "reset", !.so = TRUE, !.queued = 0, !.fin = FALSE])

Network == \E f \in Fds : ConnectResolves(f) \/ Arrives(f) \/ PeerShutsDown(f) \/ PeerResets(f)

Connect(s) ==
    \/ \E b \in BOOLEAN : ConnectBegin(s, b)
    \/ ConnectSocket(s) \/ ConnectMode(s) \/ ConnectTakes(s) \/ ConnectRefused(s)
    \/ ConnectGivesUp(s)

Use(s) ==
    \/ \E d \in Sides : Store(s, d) \/ StoreMode(s, d)
    \/ \E b \in BOOLEAN : set_non_blocking(s, b)
    \/ wait_connected(s) \/ WaitConnectedReads(s) \/ wait_readable(s)
    \/ wait_writable(s) \/ WaitWritableReads(s)
    \/ send(s) \/ shutdown_write(s)
    \/ \E n \in 0 .. MaxQueued : recv(s, n)

Serve(v) ==
    \/ \E b \in BOOLEAN : ListenSocket(v, b)
    \/ ListenMode(v) \/ ListenBind(v) \/ ListenOpens(v)
    \/ ServerWaitReadable(v) \/ AcceptTakes(v)
    \/ \E s \in Sockets : AcceptMode(v, s)

Next ==
    \/ \E s \in Sockets : Connect(s) \/ Use(s) \/ Close(s) \/ \E to \in Sockets : Move(s, to)
    \/ \E v \in Servers : Serve(v) \/ ServerClose(v) \/ \E to \in Servers : ServerMove(v, to)
    \/ \E o \in Objects : CallOnClosed(o)
    \/ Network

Spec == Init /\ [][Next]_vars

-----------------------------------------------------------------------------
TypeOK ==
    /\ obj \in [Objects -> [handle : Fds \cup {NoFd}, error : BOOLEAN, nb : BOOLEAN,
                            port : BOOLEAN]]
    /\ call \in [Objects -> [at : {"none", "socket", "mode", "connect", "bind", "listen",
                                   "accept"},
                             fd : Fds \cup {NoFd}, left : Nat, last : BOOLEAN]]
    /\ io \in [Sockets -> [Sides -> Stages]]
    /\ kernel \in [Fds -> [st : {"free", "new", "listening", "connecting",
                                 "connected", "failed", "reset"},
                           nb : BOOLEAN, so : BOOLEAN, queued : 0 .. MaxQueued,
                           fin : BOOLEAN, told : BOOLEAN, overlap : BOOLEAN]]

\* The objects, and the calls in progress, that hold descriptor f.
Owners(f) == {o \in Objects : obj[o].handle = f} \cup
             {<<o, "call">> : o \in {x \in Objects : call[x].fd = f}}

(* Every open descriptor has exactly one owner and a closed one has none,  *)
(* through every failure path of connect(), listen() and accept() behind   *)
(* the socket() or accept() that opened it, through moves and closes:      *)
(* nothing leaks, and nobody closes or reads a descriptor the kernel has   *)
(* handed to another object.                                               *)
OneOwner ==
    \A f \in Fds : Cardinality(Owners(f)) = IF FreeFd(f) THEN 0 ELSE 1

(* What non_blocking() says is what the descriptor does once               *)
(* set_non_blocking() is over, also for a socket from accept(), which sets *)
(* the mode rather than trust the platform to inherit it                   *)
(* (tcp_socket.cpp:591-598).                                               *)
ModeAgrees ==
    \A o \in Objects :
        is_open(o) /\ (o \in Sockets => \A d \in Sides : io[o][d] # "mode") =>
            Of(o).nb = obj[o].nb

(* local_port() is zero unless the server listens: a closed or moved-from  *)
(* one does not go on naming the port (tcp_socket.cpp:503, 609).           *)
PortAgrees ==
    \A o \in Objects : obj[o].port => o \in Servers /\ is_open(o)

(* Each object owns its descriptor alone and knows its mode and its port,  *)
(* whichever call, failing or not, gave it to it.                          *)
OwnershipInv == TypeOK /\ OneOwner /\ ModeAgrees /\ PortAgrees

(* A call on an open socket or server that fails, a connect() to a host    *)
(* that resolved and a listen() leave error() not zero; and once a call    *)
(* has returned the error it took from SO_ERROR, which reading clears,     *)
(* error() goes on telling of it until the socket is closed.  Both unless  *)
(* the two threads of the socket have been inside calls at the same time   *)
(* after its connection broke: wait_writable() may then find POLLERR but   *)
(* no SO_ERROR, because the other call has just taken it, and leave, or    *)
(* store back over the other's error, the zero it found in error_          *)
(* (tcp_socket.cpp:416-418).                                               *)
ErrorsExplained ==
    /\ ret.res = "error" =>
          \/ obj[ret.of].error
          \/ ret.of \in Sockets /\ is_open(ret.of) /\ Of(ret.of).overlap
    /\ \A s \in Sockets : is_open(s) /\ Of(s).told => obj[s].error \/ Of(s).overlap

\* A call of the socket has told of the connection's error, or is about to.
Reported(s) == Of(s).told \/ \E d \in Sides : io[s][d] = "took"

(* wait_connected() says ready only of a connection that is established,   *)
(* or one that failed or was reset and whose error another call of the     *)
(* socket has reported or is about to: SO_ERROR is read once and then      *)
(* gone, so that a second wait, or one beside a recv(), says ready of a    *)
(* connect that failed, which tcp_socket.hpp:105 does not foresee.         *)
ReadyMeansConnected ==
    ret.res = "connected" =>
        Of(ret.of).st = "connected" \/ (Broken(Of(ret.of)) /\ Reported(ret.of))

(* accept() returns a socket, or nullopt with error() zero, exactly when   *)
(* it did not fail, and the latter when nothing was pending: a failure of  *)
(* an earlier call does not show (tcp_socket.cpp:578).                     *)
AcceptTells ==
    /\ ret.res \in {"accepted", "none pending"} => ~obj[ret.of].error
    /\ ret.res = "none pending" => Of(ret.of).queued = 0

(* recv() with room in the buffer says closed only when the peer has shut  *)
(* down and every byte it sent has been received, or of a connection that  *)
(* failed or was reset and whose error another call has reported or is     *)
(* about to: the kernel reports it once and then an end of stream, where   *)
(* tcp_socket.hpp:35 promises an orderly shutdown.                         *)
ClosedMeansDrained ==
    ret.res = "closed" =>
        \/ Of(ret.of).fin /\ Of(ret.of).queued = 0
        \/ Broken(Of(ret.of)) /\ Reported(ret.of)

(* No failure of a connection is lost on its callers: ready of a connect   *)
(* and closed of recv() are true when they are given, or some call of the  *)
(* socket has reported, or is about to report, that the connection broke;  *)
(* and accept() tells nothing pending from a failure.                      *)
AnswersTruthful == ReadyMeansConnected /\ AcceptTells /\ ClosedMeansDrained

=============================================================================
