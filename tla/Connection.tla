----------------------------- MODULE Connection -----------------------------
(***************************************************************************)
(* discover, connect, and the descriptors and the port they use up: which  *)
(* object owns which descriptor, through opening, binding, errors, moves   *)
(* and destruction.                                                        *)
(*                                                                         *)
(* A function of the library runs to its end before the next one begins;   *)
(* the rest of the process opens and closes descriptors of its own at any  *)
(* time.                                                                   *)
(***************************************************************************)
EXTENDS Integers

CONSTANTS
    Descriptors,  \* what socket() hands out; 0 may be among them
    Ports,        \* UDP ports
    Clients,      \* variables of the application that hold a client or a hub
    Local         \* the sockets in basic_discover and basic_connect

ASSUME ConnectionAssumption ==
    /\ Descriptors \subseteq Nat
    /\ 0 \notin Ports
    /\ Local \notin Clients

VARIABLES
    open,        \* open descriptors of the process
    port,        \* the port a descriptor is bound to
    foreign,     \* the open descriptors of the rest of the process
    fd,          \* _fd of the two sockets of each owner
    pc,          \* where discover or connect is
    want,        \* their argument udp_port
    overwritten  \* ghost: descriptors a move assignment wrote over

vars == <<open, port, foreign, fd, pc, want, overwritten>>

Owners == Clients \cup {Local}
Sockets == {"udp", "tcp"}

\* A default constructed or moved-from file_descriptor.
NoFd == -1
Unbound == 0
Nothing == [s \in Sockets |-> NoFd]

Held(o) == {fd[o][s] : s \in Sockets} \ {NoFd}

-----------------------------------------------------------------------------
(* file_descriptor                                                         *)

\* Mutant: the destructor asks valid(), which takes 0 for no descriptor.
CloseValid(o) ==
    /\ open' = open \ {n \in Held(o) : n > 0}
    /\ port' = [n \in Descriptors |-> IF n \in Held(o) THEN Unbound ELSE port[n]]
    /\ fd' = [fd EXCEPT ![o] = Nothing]

\* The destructor of both sockets of o.
Close(o) ==
    /\ open' = open \ Held(o)
    /\ port' = [n \in Descriptors |-> IF n \in Held(o) THEN Unbound ELSE port[n]]
    /\ fd' = [fd EXCEPT ![o] = Nothing]

\* Mutant: the moved-from object keeps its descriptor.
MoveCopies(a, b) ==
    /\ fd' = [fd EXCEPT ![b] = fd[a]]
    /\ overwritten' = overwritten \cup Held(b)

\* Move assignment (on an empty b, move construction): b takes over what a
\* holds.  What b held before is not closed.
Move(a, b) ==
    /\ fd' = [fd EXCEPT ![b] = fd[a], ![a] = Nothing]
    /\ overwritten' = overwritten \cup Held(b)

-----------------------------------------------------------------------------
(* Sockets                                                                 *)

\* An open that fails before anything else is open changes nothing and is no
\* step here.
Open(s) ==
    \E n \in Descriptors \ open :
        /\ open' = open \cup {n}
        /\ fd' = [fd EXCEPT ![Local][s] = n]
        /\ UNCHANGED <<port, foreign, overwritten>>

\* bind is refused while another descriptor has the port.
Bind ==
    /\ \A n \in open : port[n] # want
    /\ port' = [port EXCEPT ![fd[Local]["udp"]] = want]
    /\ UNCHANGED <<open, foreign, fd, want, overwritten>>

CloseLocal == Close(Local) /\ pc' = "idle" /\ UNCHANGED <<foreign, want, overwritten>>

-----------------------------------------------------------------------------
(* basic_discover                                                          *)

Discover ==
    /\ pc = "idle"
    /\ want' \in Ports
    /\ Open("udp")
    /\ pc' = "discover_bind"

DiscoverBind ==
    /\ pc = "discover_bind"
    /\ Bind
    /\ pc' = "discover_receive"

\* Mutant: the socket outlives the call.
DiscoverEndsOpen ==
    /\ pc \in {"discover_bind", "discover_receive"}
    /\ pc' = "idle"
    /\ UNCHANGED <<open, port, foreign, fd, want, overwritten>>

\* bind or recvfrom failed, or a datagram was seen: the socket goes out of
\* scope.
DiscoverEnds ==
    /\ pc \in {"discover_bind", "discover_receive"}
    /\ CloseLocal

-----------------------------------------------------------------------------
(* basic_connect                                                           *)

Connect ==
    /\ pc = "idle"
    /\ want' \in Ports
    /\ Open("udp")
    /\ pc' = "connect_open"

ConnectOpensTcp ==
    /\ pc = "connect_open"
    /\ Open("tcp")
    /\ pc' = "connect_bind"
    /\ UNCHANGED want

ConnectBinds ==
    /\ pc = "connect_bind"
    /\ Bind
    /\ pc' = "connect_connect"

ConnectSucceeds ==
    /\ pc = "connect_connect"
    /\ pc' = "connected"
    /\ UNCHANGED <<open, port, foreign, fd, want, overwritten>>

\* One of the early returns.
ConnectFails ==
    /\ pc \in {"connect_open", "connect_bind", "connect_connect"}
    /\ CloseLocal

\* The application assigns the client, or the hub it moved into, to a
\* variable; or lets it go, as when initialize_hub fails.
Store ==
    /\ pc = "connected"
    /\ \E c \in Clients : Move(Local, c)
    /\ pc' = "idle"
    /\ UNCHANGED <<open, port, foreign, want>>

Drop ==
    /\ pc = "connected"
    /\ CloseLocal

-----------------------------------------------------------------------------
(* The application                                                         *)

MoveClient ==
    /\ pc = "idle"
    /\ \E c, d \in Clients : c # d /\ Move(c, d)
    /\ UNCHANGED <<open, port, foreign, pc, want>>

Destroy ==
    /\ pc = "idle"
    /\ \E c \in Clients : Close(c)
    /\ UNCHANGED <<foreign, pc, want, overwritten>>

OthersOpen ==
    /\ \E n \in Descriptors \ open :
         /\ open' = open \cup {n}
         /\ foreign' = foreign \cup {n}
    /\ UNCHANGED <<port, fd, pc, want, overwritten>>

OthersClose ==
    /\ \E n \in foreign :
         /\ open' = open \ {n}
         /\ foreign' = foreign \ {n}
    /\ UNCHANGED <<port, fd, pc, want, overwritten>>

-----------------------------------------------------------------------------
Init ==
    /\ open = {}
    /\ port = [n \in Descriptors |-> Unbound]
    /\ foreign = {}
    /\ fd = [o \in Owners |-> Nothing]
    /\ pc = "idle"
    /\ want \in Ports
    /\ overwritten = {}

Next ==
    \/ Discover \/ DiscoverBind \/ DiscoverEnds
    \/ Connect \/ ConnectOpensTcp \/ ConnectBinds \/ ConnectSucceeds \/ ConnectFails
    \/ Store \/ Drop \/ MoveClient \/ Destroy
    \/ OthersOpen \/ OthersClose

Spec == Init /\ [][Next]_vars

-----------------------------------------------------------------------------
(* Properties                                                              *)

Places == {"idle", "discover_bind", "discover_receive", "connect_open", "connect_bind",
           "connect_connect", "connected"}

\* Every variable has its type, and nobody closes what the rest of the
\* process has open, nor what a move assignment lost.
TypeOK ==
    /\ open \subseteq Descriptors
    /\ port \in [Descriptors -> Ports \cup {Unbound}]
    /\ foreign \subseteq open
    /\ fd \in [Owners -> [Sockets -> Descriptors \cup {NoFd}]]
    /\ pc \in Places
    /\ want \in Ports
    /\ overwritten \subseteq open \ foreign

\* A descriptor has one owner, and what an owner holds is open and its own.
\* Two owners would close it twice, the second time perhaps after the process
\* got the same number for something else.
OwnedOnce ==
    /\ \A o \in Owners : Held(o) \subseteq open \ (foreign \cup overwritten)
    /\ \A o, p \in Owners : \A s, t \in Sockets :
         fd[o][s] = fd[p][t] /\ fd[o][s] # NoFd => o = p /\ s = t

\* Whatever is open belongs to somebody, through every error, move and
\* destruction, with one exception: move assignment to an owner that still
\* holds sockets loses them.
NothingElseLeaks ==
    \A n \in open : n \in foreign \cup overwritten \/ \E o \in Owners : n \in Held(o)

\* Between two calls only clients (and what was written over) keep a port: a
\* discover, or a connect that failed, does not stand in the way of the next
\* connect to the same port.
OnlyClientsKeepPorts ==
    pc = "idle" =>
        \A n \in open : port[n] # Unbound =>
            n \in overwritten \/ \E c \in Clients : fd[c]["udp"] = n

-----------------------------------------------------------------------------
(* The inductive invariant                                                 *)

\* Which of its sockets the call under way has opened so far.
LocalSockets ==
    /\ pc = "idle" => fd[Local] = Nothing
    /\ pc \in {"discover_bind", "discover_receive", "connect_open"} => fd[Local]["tcp"] = NoFd
    /\ pc \in {"discover_bind", "connect_open", "connect_bind"} => fd[Local]["udp"] # NoFd

\* A port belongs to an open UDP socket.
BoundSockets ==
    \A n \in Descriptors : port[n] # Unbound =>
        n \in open /\ (n \in overwritten \/ \E o \in Owners : fd[o]["udp"] = n)

Ownership == TypeOK /\ LocalSockets /\ OwnedOnce /\ NothingElseLeaks /\ BoundSockets
=============================================================================
