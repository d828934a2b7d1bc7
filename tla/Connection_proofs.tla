-------------------------- MODULE Connection_proofs --------------------------
(***************************************************************************)
(* Descriptors have one owner, for any number of clients, descriptors and  *)
(* ports.                                                                  *)
(***************************************************************************)
EXTENDS Connection, TLAPS

\* At the start nothing is open.
LEMMA InitOwnership == Init => Ownership
<1> SUFFICES ASSUME Init PROVE Ownership
  OBVIOUS
<1> USE DEF Init, Nothing, Sockets, NoFd, Unbound, Held
<1>1. TypeOK
  BY DEF TypeOK, Places
<1>2. LocalSockets
  BY DEF LocalSockets, Owners
<1>3. OwnedOnce
  BY DEF OwnedOnce
<1>4. NothingElseLeaks
  BY DEF NothingElseLeaks
<1>5. BoundSockets
  BY DEF BoundSockets
<1>6. QED
  BY <1>1, <1>2, <1>3, <1>4, <1>5 DEF Ownership

\* Opening a socket for the call under way, in a place still empty.
LEMMA OpenKeepsOwnership ==
    ASSUME Ownership, NEW s \in Sockets, fd[Local][s] = NoFd, Open(s)
    PROVE  /\ OwnedOnce' /\ NothingElseLeaks' /\ BoundSockets'
           /\ open' \subseteq Descriptors /\ foreign' \subseteq open'
           /\ overwritten' \subseteq open' \ foreign'
           /\ fd' \in [Owners -> [Sockets -> Descriptors \cup {NoFd}]]
           /\ fd'[Local][s] # NoFd
           /\ \A t \in Sockets : t # s => fd'[Local][t] = fd[Local][t]
<1>1. PICK n \in Descriptors \ open :
        /\ open' = open \cup {n}
        /\ fd' = [fd EXCEPT ![Local][s] = n]
        /\ UNCHANGED <<port, foreign, overwritten>>
  BY DEF Open
<1>2. n # NoFd /\ Local \in Owners
  BY ConnectionAssumption DEF NoFd, Owners
<1>3. TypeOK /\ OwnedOnce /\ NothingElseLeaks /\ BoundSockets
  BY DEF Ownership
<1>4. fd' \in [Owners -> [Sockets -> Descriptors \cup {NoFd}]]
  BY <1>1, <1>2, <1>3 DEF TypeOK
<1>5. \A o \in Owners : \A t \in Sockets :
         fd'[o][t] = IF o = Local /\ t = s THEN n ELSE fd[o][t]
  <2>1. fd \in [Owners -> [Sockets -> Descriptors \cup {NoFd}]]
    BY <1>3 DEF TypeOK
  <2>2. fd' = [fd EXCEPT ![Local] = [fd[Local] EXCEPT ![s] = n]]
    BY <1>1
  <2>3. ASSUME NEW o \in Owners, NEW t \in Sockets
        PROVE  fd'[o][t] = IF o = Local /\ t = s THEN n ELSE fd[o][t]
    <3>1. CASE o = Local
      BY <2>1, <2>2, <3>1, <1>2
    <3>2. CASE o # Local
      BY <2>1, <2>2, <3>2
    <3>3. QED
      BY <3>1, <3>2
  <2>4. QED
    BY <2>3
<1>6. \A o \in Owners : Held(o)' = IF o = Local THEN Held(o) \cup {n} ELSE Held(o)
  <2>1. ASSUME NEW o \in Owners, o # Local PROVE Held(o)' = Held(o)
    BY <1>5, <2>1 DEF Held
  <2>2. Held(Local)' = Held(Local) \cup {n}
    <3>1. \A t \in Sockets : t # s => fd'[Local][t] = fd[Local][t]
      BY <1>2, <1>5
    <3>2. fd'[Local][s] = n /\ fd[Local][s] = NoFd
      BY <1>2, <1>5
    <3>3. ASSUME NEW m, m \in Held(Local)' PROVE m \in Held(Local) \cup {n}
      BY <3>1, <3>2, <3>3 DEF Held
    <3>4. ASSUME NEW m, m \in Held(Local) \cup {n} PROVE m \in Held(Local)'
      BY <1>2, <3>1, <3>2, <3>4 DEF Held
    <3>5. QED
      BY <3>3, <3>4
  <2>3. QED
    BY <2>1, <2>2
<1>7. OwnedOnce'
  <2>1. \A o \in Owners : Held(o)' \subseteq open' \ (foreign' \cup overwritten')
    BY <1>1, <1>3, <1>6 DEF OwnedOnce, TypeOK, NothingElseLeaks
  <2>2. ASSUME NEW o \in Owners, NEW t \in Sockets PROVE fd[o][t] # n
    <3>1. SUFFICES ASSUME fd[o][t] = n PROVE FALSE
      OBVIOUS
    <3>2. n \in Held(o)
      BY <1>2, <3>1 DEF Held
    <3>3. QED
      BY <1>3, <3>2 DEF OwnedOnce
  <2>3. \A o, p \in Owners : \A t, u \in Sockets :
          fd'[o][t] = fd'[p][u] /\ fd'[o][t] # NoFd => o = p /\ t = u
    BY <1>3, <1>5, <2>2 DEF OwnedOnce
  <2>4. QED
    BY <2>1, <2>3 DEF OwnedOnce
<1>8. NothingElseLeaks'
  BY <1>1, <1>2, <1>3, <1>6 DEF NothingElseLeaks
<1>9. BoundSockets'
  <2>1. NoFd \notin open
    BY <1>3, ConnectionAssumption DEF TypeOK, NoFd
  <2>2. ASSUME NEW o \in Owners, fd[o]["udp"] \in open PROVE fd'[o]["udp"] = fd[o]["udp"]
    <3>1. ~(o = Local /\ "udp" = s)
      BY <2>1, <2>2
    <3>2. QED
      BY <1>5, <3>1 DEF Sockets
  <2>3. QED
    BY <1>1, <1>3, <2>2 DEF BoundSockets
<1>10. QED
  BY <1>1, <1>2, <1>3, <1>4, <1>5, <1>7, <1>8, <1>9 DEF TypeOK

\* Closing both sockets of an owner.
LEMMA CloseKeepsOwnership ==
    ASSUME Ownership, NEW o \in Owners, Close(o), UNCHANGED <<foreign, overwritten>>
    PROVE  /\ OwnedOnce' /\ NothingElseLeaks' /\ BoundSockets'
           /\ open' \subseteq Descriptors /\ foreign' \subseteq open'
           /\ overwritten' \subseteq open' \ foreign'
           /\ port' \in [Descriptors -> Ports \cup {Unbound}]
           /\ fd' = [fd EXCEPT ![o] = Nothing]
           /\ fd' \in [Owners -> [Sockets -> Descriptors \cup {NoFd}]]
<1>1. TypeOK /\ OwnedOnce /\ NothingElseLeaks /\ BoundSockets
  BY DEF Ownership
<1>2. /\ open' = open \ Held(o)
      /\ port' = [n \in Descriptors |-> IF n \in Held(o) THEN Unbound ELSE port[n]]
      /\ fd' = [fd EXCEPT ![o] = Nothing]
  BY DEF Close
<1>3. fd' \in [Owners -> [Sockets -> Descriptors \cup {NoFd}]]
  BY <1>1, <1>2 DEF TypeOK, Nothing
<1>4. \A p \in Owners, t \in Sockets : fd'[p][t] = IF p = o THEN NoFd ELSE fd[p][t]
  BY <1>1, <1>2 DEF TypeOK, Nothing
<1>5. \A p \in Owners : Held(p)' = IF p = o THEN {} ELSE Held(p)
  BY <1>4 DEF Held
<1>6. \A p \in Owners : p # o => Held(p) \cap Held(o) = {}
  BY <1>1 DEF OwnedOnce, Held
<1>7. OwnedOnce'
  <2>1. \A p \in Owners : Held(p)' \subseteq open' \ (foreign' \cup overwritten')
    BY <1>1, <1>2, <1>5, <1>6 DEF OwnedOnce
  <2>2. \A p, q \in Owners : \A t, u \in Sockets :
          fd'[p][t] = fd'[q][u] /\ fd'[p][t] # NoFd => p = q /\ t = u
    BY <1>1, <1>4 DEF OwnedOnce
  <2>3. QED
    BY <2>1, <2>2 DEF OwnedOnce
<1>8. NothingElseLeaks'
  <2> SUFFICES ASSUME NEW n \in open', n \notin foreign \cup overwritten
               PROVE  \E p \in Owners : n \in Held(p)'
    BY DEF NothingElseLeaks
  <2>1. PICK p \in Owners : n \in Held(p)
    BY <1>1, <1>2 DEF NothingElseLeaks
  <2>2. p # o
    BY <1>2, <2>1
  <2>3. QED
    BY <1>5, <2>1, <2>2
<1>9. BoundSockets'
  <2> SUFFICES ASSUME NEW n \in Descriptors, port'[n] # Unbound
               PROVE  n \in open' /\ (n \in overwritten' \/ \E p \in Owners : fd'[p]["udp"] = n)
    BY DEF BoundSockets
  <2>1. n \notin Held(o) /\ port[n] # Unbound
    BY <1>2
  <2>2. n \in open /\ (n \in overwritten \/ \E p \in Owners : fd[p]["udp"] = n)
    BY <1>1, <2>1 DEF BoundSockets
  <2>3. ASSUME NEW p \in Owners, fd[p]["udp"] = n PROVE fd'[p]["udp"] = n
    <3>1. n # NoFd
      BY ConnectionAssumption DEF NoFd
    <3>2. p # o
      BY <2>1, <2>3, <3>1 DEF Held, Sockets
    <3>3. QED
      BY <1>4, <2>3, <3>2 DEF Sockets
  <2>4. QED
    BY <1>2, <2>1, <2>2, <2>3
<1>10. QED
  <2>1. foreign' \subseteq open' /\ overwritten' \subseteq open' \ foreign'
    BY <1>1, <1>2 DEF TypeOK, OwnedOnce
  <2>2. port' \in [Descriptors -> Ports \cup {Unbound}]
    BY <1>1, <1>2 DEF TypeOK
  <2>3. QED
    BY <1>1, <1>2, <1>3, <1>7, <1>8, <1>9, <2>1, <2>2 DEF TypeOK

\* Moving the sockets of one owner to another.
LEMMA MoveKeepsOwnership ==
    ASSUME Ownership, NEW a \in Owners, NEW b \in Owners, a # b, Move(a, b),
           UNCHANGED <<open, port, foreign>>
    PROVE  /\ OwnedOnce' /\ NothingElseLeaks' /\ BoundSockets'
           /\ overwritten' \subseteq open' \ foreign'
           /\ fd' = [fd EXCEPT ![b] = fd[a], ![a] = Nothing]
           /\ fd' \in [Owners -> [Sockets -> Descriptors \cup {NoFd}]]
<1>1. TypeOK /\ OwnedOnce /\ NothingElseLeaks /\ BoundSockets
  BY DEF Ownership
<1>2. /\ fd' = [fd EXCEPT ![b] = fd[a], ![a] = Nothing]
      /\ overwritten' = overwritten \cup Held(b)
  BY DEF Move
<1>3. fd' \in [Owners -> [Sockets -> Descriptors \cup {NoFd}]]
  BY <1>1, <1>2 DEF TypeOK, Nothing
<1>4. \A p \in Owners, t \in Sockets :
        fd'[p][t] = IF p = a THEN NoFd ELSE IF p = b THEN fd[a][t] ELSE fd[p][t]
  BY <1>1, <1>2 DEF TypeOK, Nothing
<1>5. \A p \in Owners :
        Held(p)' = IF p = a THEN {} ELSE IF p = b THEN Held(a) ELSE Held(p)
  BY <1>4 DEF Held
<1>6. \A p, q \in Owners : p # q => Held(p) \cap Held(q) = {}
  BY <1>1 DEF OwnedOnce, Held
<1>7. OwnedOnce'
  <2>1. \A p \in Owners : Held(p)' \subseteq open' \ (foreign' \cup overwritten')
    BY <1>1, <1>2, <1>5, <1>6 DEF OwnedOnce
  <2>2. \A p, q \in Owners : \A t, u \in Sockets :
          fd'[p][t] = fd'[q][u] /\ fd'[p][t] # NoFd => p = q /\ t = u
    BY <1>1, <1>4 DEF OwnedOnce
  <2>3. QED
    BY <2>1, <2>2 DEF OwnedOnce
<1>8. NothingElseLeaks'
  <2> SUFFICES ASSUME NEW n \in open, n \notin foreign \cup overwritten'
               PROVE  \E p \in Owners : n \in Held(p)'
    BY DEF NothingElseLeaks
  <2>1. PICK p \in Owners : n \in Held(p)
    BY <1>1, <1>2 DEF NothingElseLeaks
  <2>2. p # b
    BY <1>2, <2>1
  <2>3. CASE p = a
    BY <1>5, <2>1, <2>3
  <2>4. CASE p # a
    BY <1>5, <2>1, <2>2, <2>4
  <2>5. QED
    BY <2>3, <2>4
<1>9. BoundSockets'
  <2> SUFFICES ASSUME NEW n \in Descriptors, port'[n] # Unbound
               PROVE  n \in open' /\ (n \in overwritten' \/ \E p \in Owners : fd'[p]["udp"] = n)
    BY DEF BoundSockets
  <2>1. n # NoFd
    BY ConnectionAssumption DEF NoFd
  <2>2. n \in open /\ (n \in overwritten \/ \E p \in Owners : fd[p]["udp"] = n)
    BY <1>1 DEF BoundSockets
  <2>3. ASSUME NEW p \in Owners, fd[p]["udp"] = n
        PROVE  n \in overwritten' \/ \E q \in Owners : fd'[q]["udp"] = n
    <3>1. CASE p = b
      BY <1>2, <2>1, <2>3, <3>1 DEF Held, Sockets
    <3>2. CASE p = a
      BY <1>4, <2>3, <3>2 DEF Sockets
    <3>3. CASE p # a /\ p # b
      BY <1>4, <2>3, <3>3 DEF Sockets
    <3>4. QED
      BY <3>1, <3>2, <3>3
  <2>4. QED
    BY <1>2, <2>2, <2>3
<1>10. QED
  <2>1. Held(b) \subseteq open
    BY <1>1 DEF OwnedOnce
  <2>2. Held(b) \cap foreign = {}
    BY <1>1 DEF OwnedOnce
  <2>3. QED
    BY <1>1, <1>2, <1>3, <1>7, <1>8, <1>9, <2>1, <2>2 DEF TypeOK

\* A step of a call that touches no owner.
LEMMA BindKeepsOwnership ==
    ASSUME Ownership, fd[Local]["udp"] # NoFd, Bind
    PROVE  /\ OwnedOnce' /\ NothingElseLeaks' /\ BoundSockets'
           /\ port' \in [Descriptors -> Ports \cup {Unbound}]
<1>1. TypeOK /\ OwnedOnce /\ NothingElseLeaks /\ BoundSockets
  BY DEF Ownership
<1>2. /\ port' = [port EXCEPT ![fd[Local]["udp"]] = want]
      /\ UNCHANGED <<open, foreign, fd, want, overwritten>>
  BY DEF Bind
<1>3. OwnedOnce' /\ NothingElseLeaks'
  BY <1>1, <1>2 DEF OwnedOnce, NothingElseLeaks, Held
<1>4. Local \in Owners /\ "udp" \in Sockets
  BY DEF Owners, Sockets
<1>5. fd[Local]["udp"] \in open
  BY <1>1, <1>4 DEF OwnedOnce, Held
<1>6. BoundSockets'
  BY <1>1, <1>2, <1>4, <1>5 DEF BoundSockets, TypeOK
<1>7. port' \in [Descriptors -> Ports \cup {Unbound}]
  BY <1>1, <1>2 DEF TypeOK
<1>8. QED
  BY <1>3, <1>6, <1>7

\* Each step keeps the descriptors owned.
LEMMA StepOwnership == Ownership /\ [Next]_vars => Ownership'
<1> SUFFICES ASSUME Ownership, [Next]_vars PROVE Ownership'
  OBVIOUS
<1> USE DEF Ownership
<1>0. /\ TypeOK /\ LocalSockets
      /\ Local \in Owners /\ Clients \subseteq Owners /\ Local \notin Clients
      /\ "udp" \in Sockets /\ "tcp" \in Sockets /\ "udp" # "tcp"
      /\ NoFd \notin Descriptors
  BY ConnectionAssumption DEF Owners, Sockets, NoFd
<1>1. CASE Discover
  <2>1. fd[Local] = Nothing
    BY <1>0, <1>1 DEF Discover, LocalSockets
  <2>2. fd[Local]["udp"] = NoFd /\ fd[Local]["tcp"] = NoFd
    BY <1>0, <2>1 DEF Nothing
  <2>3. Open("udp") /\ pc' = "discover_bind" /\ want' \in Ports
    BY <1>1 DEF Discover
  <2>4. /\ OwnedOnce' /\ NothingElseLeaks' /\ BoundSockets'
        /\ open' \subseteq Descriptors /\ foreign' \subseteq open' /\ overwritten' \subseteq open' \ foreign'
        /\ fd' \in [Owners -> [Sockets -> Descriptors \cup {NoFd}]]
        /\ fd'[Local]["udp"] # NoFd /\ fd'[Local]["tcp"] = fd[Local]["tcp"]
    BY <1>0, <2>2, <2>3, OpenKeepsOwnership
  <2>5. QED
    BY <1>0, <2>2, <2>3, <2>4 DEF TypeOK, LocalSockets, Places, Open
<1>2. CASE DiscoverBind
  <2>1. /\ OwnedOnce' /\ NothingElseLeaks' /\ BoundSockets'
        /\ port' \in [Descriptors -> Ports \cup {Unbound}]
    BY <1>0, <1>2, BindKeepsOwnership DEF DiscoverBind, LocalSockets
  <2>2. QED
    BY <1>0, <1>2, <2>1 DEF DiscoverBind, Bind, TypeOK, LocalSockets, Places
<1>3. ASSUME CloseLocal PROVE Ownership'
  <2>1. /\ OwnedOnce' /\ NothingElseLeaks' /\ BoundSockets'
        /\ open' \subseteq Descriptors /\ foreign' \subseteq open' /\ overwritten' \subseteq open' \ foreign'
        /\ port' \in [Descriptors -> Ports \cup {Unbound}]
        /\ fd' = [fd EXCEPT ![Local] = Nothing]
        /\ fd' \in [Owners -> [Sockets -> Descriptors \cup {NoFd}]]
    BY <1>0, <1>3, CloseKeepsOwnership DEF CloseLocal
  <2>2. pc' = "idle" /\ want' = want
    BY <1>3 DEF CloseLocal
  <2>3. fd'[Local] = Nothing
    BY <1>0, <2>1 DEF TypeOK
  <2>4. QED
    BY <1>0, <2>1, <2>2, <2>3 DEF TypeOK, LocalSockets, Places
<1>4. CASE DiscoverEnds
  BY <1>3, <1>4 DEF DiscoverEnds
<1>5. CASE Connect
  <2>1. fd[Local] = Nothing
    BY <1>0, <1>5 DEF Connect, LocalSockets
  <2>2. fd[Local]["udp"] = NoFd /\ fd[Local]["tcp"] = NoFd
    BY <1>0, <2>1 DEF Nothing
  <2>3. Open("udp") /\ pc' = "connect_open" /\ want' \in Ports
    BY <1>5 DEF Connect
  <2>4. /\ OwnedOnce' /\ NothingElseLeaks' /\ BoundSockets'
        /\ open' \subseteq Descriptors /\ foreign' \subseteq open' /\ overwritten' \subseteq open' \ foreign'
        /\ fd' \in [Owners -> [Sockets -> Descriptors \cup {NoFd}]]
        /\ fd'[Local]["udp"] # NoFd /\ fd'[Local]["tcp"] = fd[Local]["tcp"]
    BY <1>0, <2>2, <2>3, OpenKeepsOwnership
  <2>5. QED
    BY <1>0, <2>2, <2>3, <2>4 DEF TypeOK, LocalSockets, Places, Open
<1>6. CASE ConnectOpensTcp
  <2>1. fd[Local]["tcp"] = NoFd /\ fd[Local]["udp"] # NoFd
    BY <1>0, <1>6 DEF ConnectOpensTcp, LocalSockets
  <2>2. Open("tcp") /\ pc' = "connect_bind" /\ want' = want
    BY <1>6 DEF ConnectOpensTcp
  <2>3. /\ OwnedOnce' /\ NothingElseLeaks' /\ BoundSockets'
        /\ open' \subseteq Descriptors /\ foreign' \subseteq open' /\ overwritten' \subseteq open' \ foreign'
        /\ fd' \in [Owners -> [Sockets -> Descriptors \cup {NoFd}]]
        /\ fd'[Local]["udp"] = fd[Local]["udp"]
    BY <1>0, <2>1, <2>2, OpenKeepsOwnership
  <2>4. QED
    BY <1>0, <2>1, <2>2, <2>3 DEF TypeOK, LocalSockets, Places, Open
<1>7. CASE ConnectBinds
  <2>1. /\ OwnedOnce' /\ NothingElseLeaks' /\ BoundSockets'
        /\ port' \in [Descriptors -> Ports \cup {Unbound}]
    BY <1>0, <1>7, BindKeepsOwnership DEF ConnectBinds, LocalSockets
  <2>2. QED
    BY <1>0, <1>7, <2>1 DEF ConnectBinds, Bind, TypeOK, LocalSockets, Places
<1>8. CASE ConnectSucceeds
  BY <1>0, <1>8 DEF ConnectSucceeds, TypeOK, LocalSockets, Places, OwnedOnce,
                    NothingElseLeaks, BoundSockets, Held
<1>9. CASE ConnectFails
  BY <1>3, <1>9 DEF ConnectFails
<1>10. CASE Store
  <2>1. PICK c \in Clients : Move(Local, c)
    BY <1>10 DEF Store
  <2>2. pc' = "idle" /\ UNCHANGED <<open, port, foreign, want>>
    BY <1>10 DEF Store
  <2>3. /\ OwnedOnce' /\ NothingElseLeaks' /\ BoundSockets'
        /\ overwritten' \subseteq open' \ foreign'
        /\ fd' = [fd EXCEPT ![c] = fd[Local], ![Local] = Nothing]
        /\ fd' \in [Owners -> [Sockets -> Descriptors \cup {NoFd}]]
    BY <1>0, <2>1, <2>2, MoveKeepsOwnership
  <2>4. fd'[Local] = Nothing
    BY <1>0, <2>3 DEF TypeOK
  <2>5. QED
    BY <1>0, <2>2, <2>3, <2>4 DEF TypeOK, LocalSockets, Places
<1>11. CASE Drop
  BY <1>3, <1>11 DEF Drop
<1>12. CASE MoveClient
  <2>1. PICK c, d \in Clients : c # d /\ Move(c, d)
    BY <1>12 DEF MoveClient
  <2>2. UNCHANGED <<open, port, foreign, pc, want>>
    BY <1>12 DEF MoveClient
  <2>3. /\ OwnedOnce' /\ NothingElseLeaks' /\ BoundSockets'
        /\ overwritten' \subseteq open' \ foreign'
        /\ fd' = [fd EXCEPT ![d] = fd[c], ![c] = Nothing]
        /\ fd' \in [Owners -> [Sockets -> Descriptors \cup {NoFd}]]
    BY <1>0, <2>1, <2>2, MoveKeepsOwnership
  <2>4. fd'[Local] = fd[Local]
    BY <1>0, <2>1, <2>3 DEF TypeOK
  <2>5. QED
    BY <1>0, <2>2, <2>3, <2>4 DEF TypeOK, LocalSockets
<1>13. CASE Destroy
  <2>1. PICK c \in Clients : Close(c)
    BY <1>13 DEF Destroy
  <2>2. UNCHANGED <<foreign, pc, want, overwritten>>
    BY <1>13 DEF Destroy
  <2>3. /\ OwnedOnce' /\ NothingElseLeaks' /\ BoundSockets'
        /\ open' \subseteq Descriptors /\ foreign' \subseteq open' /\ overwritten' \subseteq open' \ foreign'
        /\ port' \in [Descriptors -> Ports \cup {Unbound}]
        /\ fd' = [fd EXCEPT ![c] = Nothing]
        /\ fd' \in [Owners -> [Sockets -> Descriptors \cup {NoFd}]]
    BY <1>0, <2>1, <2>2, CloseKeepsOwnership
  <2>4. fd'[Local] = fd[Local]
    BY <1>0, <2>1, <2>3 DEF TypeOK
  <2>5. QED
    BY <1>0, <2>2, <2>3, <2>4 DEF TypeOK, LocalSockets
<1>14. CASE OthersOpen
  BY <1>0, <1>14 DEF OthersOpen, TypeOK, LocalSockets, OwnedOnce, NothingElseLeaks,
                     BoundSockets, Held
<1>15. CASE OthersClose
  <2>1. PICK n \in foreign : open' = open \ {n} /\ foreign' = foreign \ {n}
    BY <1>15 DEF OthersClose
  <2>2. UNCHANGED <<port, fd, pc, want, overwritten>>
    BY <1>15 DEF OthersClose
  <2>3. OwnedOnce' /\ NothingElseLeaks'
    BY <2>1, <2>2 DEF OwnedOnce, NothingElseLeaks, Held
  <2>4. n \notin overwritten /\ \A o \in Owners : fd[o]["udp"] # n
    <3>1. n \notin overwritten
      BY <1>0, <2>1 DEF TypeOK
    <3>2. ASSUME NEW o \in Owners, fd[o]["udp"] = n PROVE FALSE
      BY <1>0, <2>1, <3>2 DEF OwnedOnce, Held, TypeOK
    <3>3. QED
      BY <3>1, <3>2
  <2>5. BoundSockets'
    BY <2>1, <2>2, <2>4 DEF BoundSockets
  <2>6. QED
    BY <1>0, <2>1, <2>2, <2>3, <2>4, <2>5 DEF TypeOK, LocalSockets
<1>16. CASE UNCHANGED vars
  BY <1>0, <1>16 DEF vars, TypeOK, LocalSockets, OwnedOnce, NothingElseLeaks,
                     BoundSockets, Held
<1>17. QED
  BY <1>1, <1>2, <1>4, <1>5, <1>6, <1>7, <1>8, <1>9, <1>10, <1>11, <1>12, <1>13,
     <1>14, <1>15, <1>16 DEF Next

LEMMA OwnershipIsInvariant == Spec => []Ownership
<1>1. QED
  BY InitOwnership, StepOwnership, PTL DEF Spec

\* The types hold, and nobody closes a descriptor of the rest of the process.
THEOREM ForeignDescriptorsAreSafe == Spec => []TypeOK
<1>1. Ownership => TypeOK
  BY DEF Ownership
<1>2. QED
  BY <1>1, OwnershipIsInvariant, PTL

\* No descriptor has two owners, and what an owner holds is open.
THEOREM DescriptorsAreOwnedOnce == Spec => []OwnedOnce
<1>1. Ownership => OwnedOnce
  BY DEF Ownership
<1>2. QED
  BY <1>1, OwnershipIsInvariant, PTL

\* Only a move assignment to a live client leaks.
THEOREM OnlyMoveAssignmentLeaks == Spec => []NothingElseLeaks
<1>1. Ownership => NothingElseLeaks
  BY DEF Ownership
<1>2. QED
  BY <1>1, OwnershipIsInvariant, PTL

\* Between calls a port is held by a client, or was lost by a move assignment.
THEOREM PortsAreFreed == Spec => []OnlyClientsKeepPorts
<1>1. Ownership => OnlyClientsKeepPorts
  <2> SUFFICES ASSUME Ownership, pc = "idle", NEW n \in open, port[n] # Unbound
               PROVE  n \in overwritten \/ \E c \in Clients : fd[c]["udp"] = n
    BY DEF OnlyClientsKeepPorts
  <2>1. n \in Descriptors /\ n # NoFd
    BY ConnectionAssumption DEF Ownership, TypeOK, NoFd
  <2>2. fd[Local]["udp"] = NoFd
    BY DEF Ownership, LocalSockets, Nothing, Sockets
  <2>3. QED
    BY <2>1, <2>2 DEF Ownership, BoundSockets, Owners
<1>2. QED
  BY <1>1, OwnershipIsInvariant, PTL
=============================================================================
