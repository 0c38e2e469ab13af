--------------------------- MODULE RegistryProofs ---------------------------
(***************************************************************************)
(* For all sets of clients, descriptors, addresses and stations:            *)
(*   - the event loop walks over sockets that exist and open descriptors    *)
(*     only (LoopSafe), whether or not the clients keep to the rules;       *)
(*   - as long as they do, the tables hold exactly the sockets there are    *)
(*     (TablesAgree), every socket can be closed by its client (NoOrphan),  *)
(*     and the daemon does not end (DaemonStays).                           *)
(***************************************************************************)
EXTENDS Registry, WellFoundedInduction, TLAPS

---------------------------------------------------------------------------
(***************************************************************************)
(* The inductive invariant, of a state of the server.  Closing(t, F) is     *)
(* what holds before the descriptors in F are taken out of fds_watch.       *)
(* That the listening socket is always watched is what LoopSafe lacks: it   *)
(* gives fd_clear() a descriptor to find.                                   *)
(***************************************************************************)
Closing(t, F) ==
    /\ t \in Server
    /\ ServerFd \in t.watch
    /\ t.byFd = t.live
    /\ \A f \in t.live : t.clientOf[f] # None
    /\ t.watch \subseteq t.live \cup t.clients \cup {ServerFd} \cup F
    /\ \A fd \in t.watch : fd < t.fdMax

Safe(t) == Closing(t, {})

IInv == Safe(s)

---------------------------------------------------------------------------
(***************************************************************************)
(* fd_watch() and fd_clear().                                               *)
(***************************************************************************)
\* A set of descriptors that is not empty has a highest one.
LEMMA HighestExists ==
    ASSUME NEW S \in SUBSET (0 .. (Scan - 1)), S # {}
    PROVE  \E i \in S : \A j \in S : j <= i
<1> DEFINE R == {ss \in Nat \X Nat : ss[1] < ss[2]}
           T == {Scan - i : i \in S}
<1>1. IsWellFoundedOn(R, Nat)
  BY NatLessThanWellFounded DEF OpToRel
<1>2. T \subseteq Nat /\ T # {}
  <2>1. Scan \in Nat
    BY RegistryAssumption
  <2>2. \A i \in S : Scan - i \in Nat
    BY <2>1
  <2> QED  BY <2>2
<1>3. PICK x \in T : \A y \in T : ~(<<y, x>> \in R)
  <2> HIDE DEF R, T
  <2> QED  BY <1>1, <1>2, WFMin
<1>4. PICK i \in S : x = Scan - i
  OBVIOUS
<1>5. ASSUME NEW j \in S PROVE j <= i
  <2>1. Scan - j \in T /\ ~(<<Scan - j, x>> \in R)
    BY <1>3
  <2>2. ~(Scan - j < Scan - i)
    BY <2>1, <1>2, <1>4
  <2> QED  BY <2>2, RegistryAssumption
<1> QED  BY <1>5

LEMMA FdWatchSafe ==
    ASSUME NEW t, Safe(t), NEW fd \in t.live \cup t.clients
    PROVE  Safe(FdWatch(t, fd))
<1>1. t \in Server /\ fd \in 0 .. (Scan - 1) /\ t.fdMax \in Nat /\ fd + 1 \in Nat
  BY RegistryAssumption DEF Safe, Closing, Server
<1> DEFINE m == IF t.fdMax <= fd THEN fd + 1 ELSE t.fdMax
           u == [t EXCEPT !.watch = @ \cup {fd}, !.fdMax = m]
<1>2. m \in Nat /\ fd < m /\ t.fdMax <= m
  BY <1>1
<1>3. u = FdWatch(t, fd)
  BY <1>1 DEF FdWatch, Server
<1>4. u \in Server
  <2> HIDE DEF m
  <2> QED  BY <1>1, <1>2 DEF Server
<1>5. /\ u.watch = t.watch \cup {fd} /\ u.fdMax = m /\ u.live = t.live /\ u.byFd = t.byFd
      /\ u.clients = t.clients /\ u.clientOf = t.clientOf
  BY <1>1 DEF Server
<1>6. ASSUME NEW g \in u.watch PROVE g < u.fdMax
  <2> HIDE DEF m, u
  <2>1. g \in 0 .. (Scan - 1)
    BY <1>4 DEF Server
  <2> QED  BY <1>1, <1>2, <1>5, <2>1, RegistryAssumption DEF Safe, Closing
<1> HIDE DEF u
<1> QED  BY <1>3, <1>4, <1>5, <1>6 DEF Safe, Closing

LEMMA FdClearSafe ==
    ASSUME NEW t, NEW F, Closing(t, F), ServerFd \notin F
    PROVE  /\ Safe(FdClear(t, F))
           /\ FdClear(t, F).live = t.live /\ FdClear(t, F).clients = t.clients
<1> DEFINE rest == t.watch \ F
           top  == CHOOSE i \in rest : \A j \in rest : j <= i
           m    == IF t.fdMax - 1 \in F THEN 1 + top ELSE t.fdMax
           u    == [t EXCEPT !.watch = rest, !.fdMax = m]
<1>1. /\ t \in Server /\ t.fdMax \in Nat
      /\ rest \subseteq 0 .. (Scan - 1) /\ rest # {} /\ ServerFd \in rest
  BY DEF Closing, Server
<1>2. top \in rest /\ \A j \in rest : j <= top
  <2>1. \E i \in rest : \A j \in rest : j <= i
    <3> HIDE DEF rest
    <3> QED  BY <1>1, HighestExists
  <2> HIDE DEF rest
  <2> QED  BY <2>1
<1>3. m \in Nat /\ \A fd \in rest : fd < m
  <2>1. top \in 0 .. (Scan - 1)
    BY <1>1, <1>2
  <2>2. \A fd \in rest : fd < t.fdMax /\ fd \in 0 .. (Scan - 1)
    BY <1>1 DEF Closing
  <2> HIDE DEF rest, top
  <2> QED  BY <1>1, <1>2, <2>1, <2>2, RegistryAssumption
<1>4. u = FdClear(t, F)
  BY <1>1 DEF FdClear, Server
<1>5. u \in Server
  <2> HIDE DEF m, rest
  <2> QED  BY <1>1, <1>3 DEF Server
<1>6. /\ u.watch = rest /\ u.fdMax = m /\ u.live = t.live /\ u.byFd = t.byFd
      /\ u.clients = t.clients /\ u.clientOf = t.clientOf
  <2> HIDE DEF m, rest
  <2> QED  BY <1>1 DEF Server
<1>7. u.watch \subseteq u.live \cup u.clients \cup {ServerFd} /\ ServerFd \in u.watch
  BY <1>1, <1>6 DEF Closing
<1> HIDE DEF u, m, rest
<1> QED  BY <1>3, <1>4, <1>5, <1>6, <1>7 DEF Safe, Closing

---------------------------------------------------------------------------
(***************************************************************************)
(* Closing sockets.                                                         *)
(***************************************************************************)
LEMMA ServerNotSocket ==
    ServerFd \notin Fd /\ ServerFd \notin Client /\ \A c \in Client : c # None
BY RegistryAssumption

\* A change of sockets and entries alone.
LEMMA EntriesSafe ==
    ASSUME NEW t, NEW F, Closing(t, F), NEW u \in Server,
           u.live = t.live, u.byFd = t.byFd, u.clients = t.clients,
           u.clientOf = t.clientOf, u.watch = t.watch, u.fdMax = t.fdMax
    PROVE  Closing(u, F)
BY DEF Closing

LEMMA ClosingMore ==
    ASSUME NEW t, NEW F, Safe(t) PROVE Closing(t, F)
BY DEF Safe, Closing

LEMMA PairOfType ==
    ASSUME NEW t \in Server, NEW f \in Fd
    PROVE  /\ t.sock[f] \in Socket /\ t.sock[f].local \in Local /\ PairOf(t, f) \in Pair
BY DEF Server, Socket, PairOf, Pair

LEMMA SockShutdownSafe ==
    ASSUME NEW t, Safe(t), NEW F \in SUBSET Fd
    PROVE  /\ Safe(SockShutdown(t, F))
           /\ SockShutdown(t, F).live = t.live /\ SockShutdown(t, F).clients = t.clients
<1> DEFINE sk == [f \in Fd |-> IF /\ f \in F
                                  /\ t.sock[f].type = "STREAM"
                                  /\ t.sock[f].state = "ESTABLISHED"
                               THEN [t.sock[f] EXCEPT !.state = "PENDING_DISCONNECT"]
                               ELSE t.sock[f]]
           u == [t EXCEPT !.sock = sk]
<1>1. t \in Server
  BY DEF Safe, Closing
<1>2. sk \in [Fd -> Socket]
  BY <1>1, PairOfType DEF Socket, State
<1>3. SockShutdown(t, F) = FdClear(u, F)
  BY DEF SockShutdown
<1>4. /\ u \in Server /\ u.live = t.live /\ u.byFd = t.byFd /\ u.clients = t.clients
      /\ u.clientOf = t.clientOf /\ u.watch = t.watch /\ u.fdMax = t.fdMax
  <2> HIDE DEF sk
  <2> QED  BY <1>1, <1>2 DEF Server
<1>5. Closing(u, F)
  <2> HIDE DEF u
  <2> QED  BY <1>4, EntriesSafe, ClosingMore
<1>6. ServerFd \notin F
  BY ServerNotSocket
<1> HIDE DEF u
<1> QED  BY <1>3, <1>4, <1>5, <1>6, FdClearSafe

LEMMA DeleteEntriesSafe ==
    ASSUME NEW t, Safe(t), NEW F \in SUBSET Fd
    PROVE  /\ Safe(DeleteEntries(t, F))
           /\ DeleteEntries(t, F).live = t.live /\ DeleteEntries(t, F).clients = t.clients
<1> DEFINE lo == [a \in Local |->
                     IF \E f \in F : t.sock[f].state = "LISTENING" /\ t.sock[f].local = a
                     THEN None ELSE t.local[a]]
           re == [p \in Pair |->
                     IF \E f \in F : t.sock[f].state \in Linked /\ PairOf(t, f) = p
                     THEN None ELSE t.remote[p]]
           u  == [t EXCEPT !.local = lo, !.remote = re]
<1>1. t \in Server
  BY DEF Safe, Closing
<1>2. lo \in [Local -> Fd \cup {None}] /\ re \in [Pair -> Fd \cup {None}]
  BY <1>1 DEF Server
<1>3. u = DeleteEntries(t, F)
  BY DEF DeleteEntries
<1>4. /\ u \in Server /\ u.live = t.live /\ u.byFd = t.byFd /\ u.clients = t.clients
      /\ u.clientOf = t.clientOf /\ u.watch = t.watch /\ u.fdMax = t.fdMax
  <2> HIDE DEF lo, re
  <2> QED  BY <1>1, <1>2 DEF Server
<1> HIDE DEF u
<1> QED  BY <1>3, <1>4, EntriesSafe DEF Safe

LEMMA SockDestroySafe ==
    ASSUME NEW t, Safe(t), NEW F \in SUBSET Fd
    PROVE  /\ Safe(SockDestroy(t, F))
           /\ SockDestroy(t, F).live = t.live \ F /\ SockDestroy(t, F).clients = t.clients
<1> DEFINE bc == [c \in Client |-> t.byClient[c] \ {f \in F : t.clientOf[f] = c}]
           co == [f \in Fd |-> IF f \in F THEN None ELSE t.clientOf[f]]
           sk == [f \in Fd |-> IF f \in F THEN NoSock ELSE t.sock[f]]
           u  == [t EXCEPT !.byFd = @ \ F, !.byClient = bc, !.clientOf = co,
                           !.live = @ \ F, !.sock = sk]
<1>1. t \in Server
  BY DEF Safe, Closing
<1>2. /\ bc \in [Client -> SUBSET Fd] /\ co \in [Fd -> Client \cup {None}]
      /\ sk \in [Fd -> Socket]
  <2>1. NoSock \in Socket
    BY DEF NoSock, Socket, State, Local
  <2> QED  BY <1>1, <2>1, PairOfType DEF Server
<1>3. SockDestroy(t, F) = FdClear(u, F)
  BY <1>1 DEF SockDestroy, Server
<1>4. /\ u \in Server /\ u.live = t.live \ F /\ u.byFd = t.byFd \ F
      /\ u.clients = t.clients /\ u.clientOf = co /\ u.watch = t.watch
      /\ u.fdMax = t.fdMax
  <2> HIDE DEF bc, co, sk
  <2> QED  BY <1>1, <1>2 DEF Server
<1>5. \A f \in t.live \ F : co[f] = t.clientOf[f]
  BY <1>1 DEF Server
<1>6. Closing(u, F)
  <2> HIDE DEF u, co
  <2> QED  BY <1>4, <1>5 DEF Safe, Closing
<1>7. ServerFd \notin F
  BY ServerNotSocket
<1> HIDE DEF u
<1> QED  BY <1>3, <1>4, <1>6, <1>7, FdClearSafe

LEMMA SockCloseSafe ==
    ASSUME NEW t, Safe(t), NEW f \in Fd
    PROVE  Safe(SockClose(t, f)) /\ SockClose(t, f).clients = t.clients
<1>1. {f} \in SUBSET Fd
  OBVIOUS
<1> DEFINE u == DeleteEntries(t, {f})
<1>2. Safe(u) /\ u.clients = t.clients
  BY <1>1, DeleteEntriesSafe
<1>3. Safe(SockDestroy(u, {f})) /\ SockDestroy(u, {f}).clients = t.clients
  <2> HIDE DEF u
  <2> QED  BY <1>1, <1>2, SockDestroySafe
<1> QED  BY <1>2, <1>3 DEF SockClose

---------------------------------------------------------------------------
(***************************************************************************)
(* Making sockets.                                                          *)
(***************************************************************************)
LEMMA SockSaveSafe ==
    ASSUME NEW t \in Server, NEW f \in t.live, NEW c \in Client,
           ServerFd \in t.watch, t.byFd \cup {f} = t.live,
           \A g \in t.live \ {f} : t.clientOf[g] # None,
           t.watch \subseteq t.live \cup t.clients \cup {ServerFd},
           \A fd \in t.watch : fd < t.fdMax
    PROVE  Safe(SockSave(t, c, f)) /\ SockSave(t, c, f).live = t.live
<1> DEFINE v == IF t.sock[f].state = "LISTENING" THEN SockSaveLocal(t, f)
                ELSE IF t.sock[f].state \in Linked \ {"PENDING_DISCONNECT"}
                THEN SockSaveRemote(t, f)
                ELSE t
           u == [v EXCEPT !.clientOf[f] = c, !.byClient[c] = @ \cup {f},
                          !.byFd = @ \cup {f}]
<1>1. f \in Fd /\ t.local \in [Local -> Fd \cup {None}] /\ t.remote \in [Pair -> Fd \cup {None}]
  BY DEF Server
<1>2. SockSaveLocal(t, f) \in Server /\ SockSaveRemote(t, f) \in Server
  <2>1. [t.local EXCEPT ![t.sock[f].local] = f] \in [Local -> Fd \cup {None}]
    BY <1>1
  <2>2. [t.remote EXCEPT ![PairOf(t, f)] = f] \in [Pair -> Fd \cup {None}]
    BY <1>1
  <2> QED  BY <2>1, <2>2 DEF SockSaveLocal, SockSaveRemote, Server
<1>3. /\ v \in Server /\ v.live = t.live /\ v.byFd = t.byFd /\ v.clients = t.clients
      /\ v.clientOf = t.clientOf /\ v.watch = t.watch /\ v.fdMax = t.fdMax
  BY <1>2 DEF SockSaveLocal, SockSaveRemote, Server
<1>4. u = SockSave(t, c, f)
  BY DEF SockSave
<1>5. /\ u \in Server /\ u.live = v.live /\ u.byFd = v.byFd \cup {f}
      /\ u.clients = v.clients /\ u.clientOf = [v.clientOf EXCEPT ![f] = c]
      /\ u.watch = v.watch /\ u.fdMax = v.fdMax
  <2> HIDE DEF v
  <2> QED  BY <1>1, <1>3 DEF Server
<1>6. \A g \in t.live : u.clientOf[g] # None
  <2> HIDE DEF u, v
  <2>1. v.clientOf \in [Fd -> Client \cup {None}] /\ t.live \subseteq Fd
    BY <1>3 DEF Server
  <2> QED  BY <1>3, <1>5, <2>1, ServerNotSocket
<1> HIDE DEF u, v
<1> QED  BY <1>3, <1>4, <1>5, <1>6 DEF Safe, Closing

\* patty_ax25_sock_new() and sock_save()
LEMMA NewSockSafe ==
    ASSUME NEW t, Safe(t), NEW f \in Fd, NEW c \in Client, NEW sk \in Socket
    PROVE  /\ Safe(SockSave(SockNew(t, f, sk), c, f))
           /\ f \in SockSave(SockNew(t, f, sk), c, f).live
<1> DEFINE u == SockNew(t, f, sk)
<1>1. t \in Server
  BY DEF Safe, Closing
<1>2. /\ u \in Server /\ u.live = t.live \cup {f} /\ u.byFd = t.byFd
      /\ u.clients = t.clients /\ u.clientOf = t.clientOf /\ u.watch = t.watch
      /\ u.fdMax = t.fdMax
  BY <1>1 DEF SockNew, Server
<1> HIDE DEF u
<1>3. Safe(SockSave(u, c, f)) /\ SockSave(u, c, f).live = u.live
  <2>1. /\ f \in u.live /\ u.byFd \cup {f} = u.live /\ ServerFd \in u.watch
        /\ \A g \in u.live \ {f} : u.clientOf[g] # None
        /\ u.watch \subseteq u.live \cup u.clients \cup {ServerFd}
        /\ \A fd \in u.watch : fd < u.fdMax
    BY <1>2 DEF Safe, Closing
  <2> QED  BY <1>2, <2>1, SockSaveSafe
<1> QED  BY <1>2, <1>3 DEF u

---------------------------------------------------------------------------
(***************************************************************************)
(* One lemma per action, but for those that change no table (TableStep).    *)
(***************************************************************************)
\* Only sockets and entries for addresses change.
LEMMA TableStep ==
    ASSUME IInv, NEW u \in Server,
           u.live = s.live, u.byFd = s.byFd, u.clients = s.clients,
           u.clientOf = s.clientOf, u.watch = s.watch, u.fdMax = s.fdMax
    PROVE  Safe(u)
BY EntriesSafe DEF IInv, Safe

\* A change of one socket.
LEMMA OneSock ==
    ASSUME IInv, NEW f \in Fd, NEW sk \in Socket
    PROVE  Safe([s EXCEPT !.sock[f] = sk]) /\ [s EXCEPT !.sock[f] = sk].live = s.live
<1> DEFINE u == [s EXCEPT !.sock[f] = sk]
<1>1. s \in Server
  BY DEF IInv, Safe, Closing
<1>2. /\ u \in Server /\ u.live = s.live /\ u.byFd = s.byFd /\ u.clients = s.clients
      /\ u.clientOf = s.clientOf /\ u.watch = s.watch /\ u.fdMax = s.fdMax
  BY <1>1 DEF Server
<1> HIDE DEF u
<1>3. Safe(u)
  BY <1>2, TableStep
<1> QED  BY <1>2, <1>3 DEF u

LEMMA AcceptClientStep ==
    ASSUME IInv, NEW c \in Client, AcceptClient(c)
    PROVE  IInv'
<1> DEFINE u == [s EXCEPT !.clients = @ \cup {c}, !.byClient[c] = {}]
<1>1. s \in Server
  BY DEF IInv, Safe, Closing
<1>2. /\ u \in Server /\ u.live = s.live /\ u.byFd = s.byFd
      /\ u.clients = s.clients \cup {c}
      /\ u.clientOf = s.clientOf /\ u.watch = s.watch /\ u.fdMax = s.fdMax
  BY <1>1 DEF Server
<1>3. s' = FdWatch(u, c)
  BY DEF AcceptClient
<1> HIDE DEF u
<1>4. Safe(u)
  BY <1>2 DEF IInv, Safe, Closing
<1> QED  BY <1>2, <1>3, <1>4, FdWatchSafe DEF IInv

LEMMA ServerSocketStep ==
    ASSUME IInv, NEW c \in Client, NEW f \in Fd, NEW type \in Types, ServerSocket(c, f, type)
    PROVE  IInv'
<1> DEFINE sk == [NoSock EXCEPT !.type = type,
                     !.state = IF type = "RAW" THEN "ESTABLISHED" ELSE "CLOSED"]
<1>1. sk \in Socket
  BY RegistryAssumption DEF NoSock, Socket, State, Local
<1>2. s' = SockSave(SockNew(s, f, sk), c, f)
  BY DEF ServerSocket
<1> HIDE DEF sk
<1> QED  BY <1>1, <1>2, NewSockSafe DEF IInv

LEMMA ServerSetsockoptStep ==
    ASSUME IInv, NEW c \in Client, NEW f \in Fd, NEW promisc \in BOOLEAN,
           ServerSetsockopt(c, f, promisc)
    PROVE  IInv'
<1>1. s \in Server /\ f \in s.live /\ s.sock[f] \in Socket
  BY PairOfType DEF IInv, Safe, Closing, ServerSetsockopt
<1> DEFINE sk == [s.sock[f] EXCEPT !.state = "PROMISC"]
           u  == [s EXCEPT !.sock[f] = sk]
<1>2. sk \in Socket
  BY <1>1 DEF Socket, State
<1>3. Safe(u) /\ u.live = s.live
  BY <1>2, OneSock
<1>4. s' = FdWatch(u, f) \/ s' = FdWatch(s, f)
  BY <1>1 DEF ServerSetsockopt, Server
<1> HIDE DEF u
<1> QED  BY <1>1, <1>3, <1>4, FdWatchSafe DEF IInv

LEMMA ServerBindStep ==
    ASSUME IInv, NEW c \in Client, NEW f \in Fd, NEW a \in Addr, ServerBind(c, f, a)
    PROVE  IInv'
<1>1. s \in Server /\ s.sock[f] \in Socket
  BY PairOfType DEF IInv, Safe, Closing
<1> DEFINE sk == [s.sock[f] EXCEPT !.local = a]
<1>2. sk \in Socket
  BY <1>1 DEF Socket, Local
<1>3. s' = [s EXCEPT !.sock[f] = sk]
  BY <1>1 DEF ServerBind, Server
<1> HIDE DEF sk
<1> QED  BY <1>2, <1>3, OneSock DEF IInv

LEMMA ServerListenStep ==
    ASSUME IInv, NEW c \in Client, NEW f \in Fd, ServerListen(c, f)
    PROVE  IInv'
<1>1. s \in Server /\ s.sock[f] \in Socket /\ s.local \in [Local -> Fd \cup {None}]
  BY PairOfType DEF IInv, Safe, Closing, Server
<1> DEFINE sk == [s.sock[f] EXCEPT !.state = "LISTENING"]
           u  == [s EXCEPT !.sock[f] = sk]
<1>2. sk \in Socket
  BY <1>1 DEF Socket, State
<1>3. Safe(u) /\ u \in Server /\ u.sock[f] = sk
  BY <1>1, <1>2, OneSock DEF Safe, Closing, Server
<1>4. s' = [u EXCEPT !.local[u.sock[f].local] = f]
  BY <1>1, <1>3 DEF ServerListen, SockSaveLocal, Server
<1> HIDE DEF u
<1>5. [u.local EXCEPT ![u.sock[f].local] = f] \in [Local -> Fd \cup {None}]
  BY <1>3 DEF Server
<1>6. /\ s' \in Server /\ s'.live = u.live /\ s'.byFd = u.byFd /\ s'.clients = u.clients
      /\ s'.clientOf = u.clientOf /\ s'.watch = u.watch /\ s'.fdMax = u.fdMax
  BY <1>3, <1>4, <1>5 DEF Server
<1> QED  BY <1>3, <1>6, EntriesSafe DEF IInv, Safe

\* The state after connect(), field by field.
LEMMA ConnectState ==
    ASSUME s \in Server, NEW c \in Client, NEW f \in Fd, NEW r \in Remote,
           ServerConnect(c, f, r)
    PROVE  LET l  == IF s.sock[f].local = NoAddr THEN IfAddr ELSE s.sock[f].local
               k1 == [s.sock[f] EXCEPT !.local = l, !.remote = r]
               st == IF s.sock[f].type = "DGRAM" THEN "ESTABLISHED" ELSE "PENDING_CONNECT"
               k2 == [k1 EXCEPT !.state = st]
           IN  s' = [s EXCEPT !.sock = [s.sock EXCEPT ![f] = k2],
                              !.remote = [s.remote EXCEPT ![<<l, r>>] = f],
                              !.clientOf = [s.clientOf EXCEPT ![f] = c]]
<1> DEFINE l  == IF s.sock[f].local = NoAddr THEN IfAddr ELSE s.sock[f].local
           k1 == [s.sock[f] EXCEPT !.local = l, !.remote = r]
           st == IF s.sock[f].type = "DGRAM" THEN "ESTABLISHED" ELSE "PENDING_CONNECT"
           k2 == [k1 EXCEPT !.state = st]
           re == [s.remote EXCEPT ![<<l, r>>] = f]
           co == [s.clientOf EXCEPT ![f] = c]
           sk == [s.sock EXCEPT ![f] = k2]
           t  == [s EXCEPT !.sock[f].local = l, !.sock[f].remote = r]
           k  == [s.sock EXCEPT ![f] = k1]
           v  == [s EXCEPT !.sock = k, !.remote = re]
<1>1. s.sock[f] \in Socket
  BY PairOfType
<1>2. l \in Local
  BY <1>1, RegistryAssumption DEF Socket, Local
<1>3. t = [s EXCEPT !.sock = k]
  BY DEF Server
<1>4. PairOf(t, f) = <<l, r>>
  BY <1>1, <1>2, <1>3 DEF PairOf, Server, Socket
<1>5. s' = [SockSaveRemote(t, f) EXCEPT !.clientOf[f] = c, !.sock[f].state = st]
  BY DEF ServerConnect
<1>6. SockSaveRemote(t, f) = v
  <2> HIDE DEF l, k1
  <2> QED  BY <1>3, <1>4 DEF SockSaveRemote, Server
<1>7. [k EXCEPT ![f].state = st] = sk
  <2> HIDE DEF k1, st
  <2> QED  BY DEF Server
<1>8. s' = [v EXCEPT !.clientOf[f] = c, !.sock[f].state = st]
  <2> HIDE DEF v, st, t
  <2> QED  BY <1>5, <1>6
<1>9. v.sock = k /\ v.clientOf = s.clientOf
  <2> HIDE DEF k, re
  <2> QED  BY DEF Server
<1>10. s' = [v EXCEPT !.clientOf = co, !.sock = sk]
  <2> HIDE DEF v, st, k
  <2> QED  BY <1>7, <1>8, <1>9
<1>11. s' = [s EXCEPT !.sock = sk, !.remote = re, !.clientOf = co]
  <2> HIDE DEF k, re, co, sk
  <2> QED  BY <1>10 DEF Server
<1> QED  BY <1>11

LEMMA ServerConnectStep ==
    ASSUME IInv, NEW c \in Client, NEW f \in Fd, NEW r \in Remote, ServerConnect(c, f, r)
    PROVE  IInv'
<1>1. s \in Server /\ s.sock[f] \in Socket /\ f \in s.live
  BY PairOfType DEF IInv, Safe, Closing, ServerConnect
<1> DEFINE l  == IF s.sock[f].local = NoAddr THEN IfAddr ELSE s.sock[f].local
           k1 == [s.sock[f] EXCEPT !.local = l, !.remote = r]
           st == IF s.sock[f].type = "DGRAM" THEN "ESTABLISHED" ELSE "PENDING_CONNECT"
           k2 == [k1 EXCEPT !.state = st]
           re == [s.remote EXCEPT ![<<l, r>>] = f]
           co == [s.clientOf EXCEPT ![f] = c]
           sk == [s.sock EXCEPT ![f] = k2]
           u  == [s EXCEPT !.sock = sk, !.remote = re, !.clientOf = co]
<1>2. l \in Local /\ k2 \in Socket
  BY <1>1, RegistryAssumption DEF Socket, State, Local
<1>3. /\ re \in [Pair -> Fd \cup {None}] /\ co \in [Fd -> Client \cup {None}]
      /\ sk \in [Fd -> Socket]
  <2> HIDE DEF l, k2
  <2> QED  BY <1>1, <1>2 DEF Server
<1>4. s' = u
  BY <1>1, ConnectState
<1>5. /\ u \in Server /\ u.live = s.live /\ u.byFd = s.byFd /\ u.clients = s.clients
      /\ u.clientOf = co /\ u.watch = s.watch /\ u.fdMax = s.fdMax
  <2> HIDE DEF sk, re, co
  <2> QED  BY <1>1, <1>3 DEF Server
<1>6. \A g \in s.live : co[g] # None
  BY <1>1, ServerNotSocket DEF IInv, Safe, Closing, Server
<1> HIDE DEF u, co
<1> QED  BY <1>4, <1>5, <1>6 DEF IInv, Safe, Closing

LEMMA ServerCloseStep ==
    ASSUME IInv, NEW c \in Client, NEW f \in Fd, ServerClose(c, f)
    PROVE  IInv'
<1>1. s' = SockClose(SockShutdown(s, {f}), f)
  BY DEF ServerClose
<1>2. Safe(SockShutdown(s, {f}))
  BY SockShutdownSafe DEF IInv
<1> QED  BY <1>1, <1>2, SockCloseSafe DEF IInv

LEMMA HandleClientGoneStep ==
    ASSUME IInv, NEW c \in Client, HandleClientGone(c)
    PROVE  IInv'
<1>1. CASE s' = s
  BY <1>1 DEF IInv
<1>2. CASE s' # s
  <2> DEFINE shut == SockShutdown(s, Closed(c) \cup FailsOn(c))
             lost == {f \in FailsOn(c) : /\ HasEntry(s, f)
                                         /\ \A g \in Closed(c) : ~SameEntry(s, g, f)}
             del  == DeleteEntries(shut, Closed(c) \cup lost)
             t    == SockDestroy(del, Closed(c))
             u    == [t EXCEPT !.clients = @ \ {c}, !.byClient[c] = {}]
  <2>1. s' = FdClear(u, {c})
    BY <1>2 DEF HandleClientGone, Undefined
  <2>2. /\ Closed(c) \in SUBSET Fd /\ Closed(c) \cup FailsOn(c) \in SUBSET Fd
        /\ Closed(c) \cup lost \in SUBSET Fd
    <3>1. s.byClient[c] \in SUBSET Fd
      BY DEF IInv, Safe, Closing, Server
    <3> QED  BY <3>1 DEF Closed, FailsOn
  <2>3. Safe(shut)
    BY <2>2, SockShutdownSafe DEF IInv
  <2>4. Safe(del)
    <3> HIDE DEF shut, lost
    <3> QED  BY <2>2, <2>3, DeleteEntriesSafe
  <2>5. Safe(t)
    <3> HIDE DEF del
    <3> QED  BY <2>2, <2>4, SockDestroySafe
  <2> HIDE DEF t
  <2>6. /\ u \in Server /\ u.live = t.live /\ u.byFd = t.byFd /\ u.clients = t.clients \ {c}
        /\ u.clientOf = t.clientOf /\ u.watch = t.watch /\ u.fdMax = t.fdMax
    BY <2>5 DEF Safe, Closing, Server
  <2> HIDE DEF u
  <2>7. Closing(u, {c})
    BY <2>5, <2>6 DEF Safe, Closing
  <2> QED  BY <2>1, <2>7, FdClearSafe, ServerNotSocket DEF IInv
<1> QED  BY <1>1, <1>2

\* handle_xid() and handle_sabm() make a socket for a caller.
LEMMA NewLinkSafe ==
    ASSUME IInv, NEW a \in Addr, NEW r \in Remote, NEW f \in Fd, NEW st \in State,
           Listens(a), s.clientOf[s.local[a]] \in s.clients
    PROVE  Safe(NewLink(f, a, r, st)) /\ f \in NewLink(f, a, r, st).live
<1>1. s \in Server /\ s.local[a] \in Fd
  BY DEF IInv, Safe, Closing, Server, Listens
<1>2. s.sock[s.local[a]] \in Socket /\ s.clientOf[s.local[a]] \in Client
  BY <1>1, PairOfType DEF Server
<1> DEFINE sk == [type |-> s.sock[s.local[a]].type, state |-> st, local |-> a, remote |-> r]
<1>3. sk \in Socket
  BY <1>2 DEF Socket, Local
<1>4. NewLink(f, a, r, st) = SockSave(SockNew(s, f, sk), s.clientOf[s.local[a]], f)
  BY DEF NewLink
<1> HIDE DEF sk
<1> QED  BY <1>2, <1>3, <1>4, NewSockSafe DEF IInv

LEMMA HandleXidStep ==
    ASSUME IInv, NEW a \in Addr, NEW r \in Remote, NEW f \in Fd,
           HandleXid(a, r, f) \/ HandleXidRefused(a, r)
    PROVE  IInv'
<1>1. CASE HandleXid(a, r, f)
  <2>1. CASE s' = s
    BY <2>1 DEF IInv
  <2>2. CASE s' # s
    <3>1. /\ s' = NewLink(f, a, r, "PENDING_ACCEPT")
          /\ Listens(a) /\ s.clientOf[s.local[a]] \in s.clients
      BY <1>1, <2>2 DEF HandleXid, Fails
    <3> QED  BY <3>1, NewLinkSafe DEF IInv, State
  <2> QED  BY <2>1, <2>2
<1>2. CASE HandleXidRefused(a, r)
  <2> DEFINE g  == s.remote[<<a, r>>]
             sk == [s.sock[g] EXCEPT !.state = "CLOSED"]
  <2>1. s \in Server /\ g \in Fd
    BY <1>2 DEF HandleXidRefused, IInv, Safe, Closing, Server
  <2>2. s.sock[g] \in Socket
    BY <2>1, PairOfType
  <2>3. sk \in Socket
    BY <2>2 DEF Socket, State
  <2>4. s' = [s EXCEPT !.sock[g] = sk]
    BY <1>2, <2>1 DEF HandleXidRefused, Server
  <2> HIDE DEF g, sk
  <2> QED  BY <2>1, <2>3, <2>4, OneSock DEF IInv
<1> QED  BY <1>1, <1>2

LEMMA HandleSabmStep ==
    ASSUME IInv, NEW a \in Addr, NEW r \in Remote, NEW f \in Fd, HandleSabm(a, r, f)
    PROVE  IInv'
<1> DEFINE g == s.remote[<<a, r>>]
<1>1. CASE /\ s' = FdWatch(NewLink(f, a, r, "ESTABLISHED"), f)
           /\ Listens(a) /\ s.clientOf[s.local[a]] \in s.clients
  <2>1. /\ Safe(NewLink(f, a, r, "ESTABLISHED"))
        /\ f \in NewLink(f, a, r, "ESTABLISHED").live
    BY <1>1, NewLinkSafe DEF State
  <2> QED  BY <1>1, <2>1, FdWatchSafe DEF IInv
<1>2. CASE s' = s
  BY <1>2 DEF IInv
<1>3. CASE g \in s.live /\ s' = FdWatch([s EXCEPT !.sock[g].state = "ESTABLISHED"], g)
  <2> DEFINE sk == [s.sock[g] EXCEPT !.state = "ESTABLISHED"]
             u  == [s EXCEPT !.sock[g] = sk]
  <2>1. s \in Server /\ g \in Fd
    BY <1>3 DEF IInv, Safe, Closing, Server
  <2>2. s.sock[g] \in Socket
    BY <2>1, PairOfType
  <2>3. sk \in Socket
    BY <2>2 DEF Socket, State
  <2>4. s' = FdWatch(u, g)
    BY <1>3, <2>1 DEF Server
  <2> HIDE DEF g, sk
  <2>5. Safe(u) /\ u.live = s.live
    BY <2>1, <2>3, OneSock
  <2> HIDE DEF u
  <2> QED  BY <1>3, <2>4, <2>5, FdWatchSafe DEF IInv
<1> QED  BY <1>1, <1>2, <1>3 DEF HandleSabm, Fails

LEMMA HandleUaConnectStep ==
    ASSUME IInv, NEW a \in Addr, NEW r \in Remote, HandleUaConnect(a, r)
    PROVE  IInv'
<1> DEFINE f  == s.remote[<<a, r>>]
           c  == s.clientOf[f]
           sk == [s.sock[f] EXCEPT !.state = "ESTABLISHED"]
           u  == [s EXCEPT !.sock[f] = sk]
<1>1. CASE s' = s
  BY <1>1 DEF IInv
<1>2. CASE s' # s
  <2>1. s \in Server /\ f \in s.live /\ f \in Fd
    BY DEF HandleUaConnect, IInv, Safe, Closing, Server
  <2>2. s.sock[f] \in Socket
    BY <2>1, PairOfType
  <2>3. sk \in Socket
    BY <2>2 DEF Socket, State
  <2>4. c \in Client /\ s' = FdWatch(SockSave(u, c, f), f)
    <3>1. c \in s.clients /\ s' = FdWatch(SockSave([s EXCEPT !.sock[f].state = "ESTABLISHED"], c, f), f)
      BY <1>2 DEF HandleUaConnect, Fails
    <3>2. u = [s EXCEPT !.sock[f].state = "ESTABLISHED"]
      BY <2>1 DEF Server
    <3>3. c \in Client
      BY <2>1, <3>1 DEF Server
    <3> QED  BY <3>1, <3>2, <3>3
  <2> HIDE DEF f, c, sk
  <2>5. Safe(u) /\ u.live = s.live
    BY <2>1, <2>3, OneSock
  <2> HIDE DEF u
  <2>6. Safe(SockSave(u, c, f)) /\ SockSave(u, c, f).live = u.live
    <3>1. /\ u \in Server /\ f \in u.live /\ ServerFd \in u.watch /\ u.byFd \cup {f} = u.live
          /\ \A g \in u.live \ {f} : u.clientOf[g] # None
          /\ u.watch \subseteq u.live \cup u.clients \cup {ServerFd}
          /\ \A fd \in u.watch : fd < u.fdMax
      BY <2>1, <2>5 DEF Safe, Closing
    <3> QED  BY <2>4, <3>1, SockSaveSafe
  <2> QED  BY <2>1, <2>4, <2>5, <2>6, FdWatchSafe DEF IInv
<1> QED  BY <1>1, <1>2

\* The handlers that close the socket of a link.
LEMMA HandleEndStep ==
    ASSUME IInv, NEW a \in Addr, NEW r \in Remote, HandleReleased(a, r) \/ HandleDisc(a, r)
    PROVE  IInv'
<1>1. PICK f \in Fd : s' = SockClose(s, f)
  <2>1. s.live \subseteq Fd
    BY DEF IInv, Safe, Closing, Server
  <2> QED  BY <2>1 DEF HandleReleased, HandleDisc
<1> QED  BY <1>1, SockCloseSafe DEF IInv

LEMMA HandleSockStep ==
    ASSUME IInv, NEW f \in Fd, HandleSock(f)
    PROVE  IInv'
<1>1. Safe(s) /\ Safe(SockShutdown(s, {f}))
  BY SockShutdownSafe DEF IInv
<1>2. CASE HandleSockT1(f)
  BY <1>1, <1>2, SockCloseSafe DEF HandleSockT1, IInv
<1>3. CASE HandleSockEof(f)
  BY <1>1, <1>3 DEF HandleSockEof, IInv
<1>4. CASE HandleSockClose(f)
  BY <1>1, <1>4, SockCloseSafe DEF HandleSockClose, IInv
<1> QED  BY <1>2, <1>3, <1>4 DEF HandleSock

---------------------------------------------------------------------------
LEMMA InitSafe == Init => IInv
<1> SUFFICES ASSUME Init PROVE IInv
  OBVIOUS
<1>1. /\ s.live = {} /\ s.byFd = {} /\ s.clients = {} /\ s.watch = {ServerFd}
      /\ s.fdMax = ServerFd + 1
  BY DEF Init
<1>2. ServerFd \in 0 .. (Scan - 1) /\ ServerFd + 1 \in Nat /\ ServerFd < ServerFd + 1
  BY RegistryAssumption
<1>3. s \in Server
  <2>1. NoSock \in Socket
    BY DEF NoSock, Socket, State, Local
  <2> QED  BY <1>2, <2>1 DEF Init, Server
<1> QED  BY <1>1, <1>2, <1>3 DEF IInv, Safe, Closing

LEMMA NextSafe == IInv /\ [Next]_vars => IInv'
<1> SUFFICES ASSUME IInv, [Next]_vars PROVE IInv'
  OBVIOUS
<1>1. ASSUME NEW c \in Client, Call(c) PROVE IInv'
  <2>1. CASE AcceptClient(c)
    BY <2>1, AcceptClientStep
  <2>2. CASE HandleClientGone(c)
    BY <2>2, HandleClientGoneStep
  <2>3. ASSUME NEW f \in Fd, NEW type \in Types, ServerSocket(c, f, type) PROVE IInv'
    BY <2>3, ServerSocketStep
  <2>4. ASSUME NEW f \in Fd, NEW promisc \in BOOLEAN, ServerSetsockopt(c, f, promisc)
        PROVE  IInv'
    BY <2>4, ServerSetsockoptStep
  <2>5. ASSUME NEW f \in Fd, NEW a \in Addr, ServerBind(c, f, a) PROVE IInv'
    BY <2>5, ServerBindStep
  <2>6. ASSUME NEW f \in Fd, ServerListen(c, f) PROVE IInv'
    BY <2>6, ServerListenStep
  <2>7. ASSUME NEW f \in Fd, NEW r \in Remote, ServerConnect(c, f, r) PROVE IInv'
    BY <2>7, ServerConnectStep
  <2>8. ASSUME NEW f \in Fd, ServerClose(c, f) PROVE IInv'
    BY <2>8, ServerCloseStep
  <2> QED  BY <1>1, <2>1, <2>2, <2>3, <2>4, <2>5, <2>6, <2>7, <2>8 DEF Call
<1>2. ASSUME NEW a \in Addr, NEW r \in Remote, HandleFrame(a, r) PROVE IInv'
  <2>1. CASE StaleLookup(a, r)
    BY <2>1 DEF StaleLookup, Undefined, IInv
  <2>2. ASSUME NEW f \in Fd, HandleXid(a, r, f) PROVE IInv'
    BY <2>2, HandleXidStep
  <2>3. ASSUME NEW f \in Fd, HandleSabm(a, r, f) PROVE IInv'
    BY <2>3, HandleSabmStep
  <2>4. CASE HandleXidRefused(a, r)
    <3>1. PICK f \in Fd : TRUE
      BY <2>4 DEF HandleXidRefused, IInv, Safe, Closing, Server
    <3> QED  BY <2>4, HandleXidStep
  <2>5. CASE HandleUaConnect(a, r)
    BY <2>5, HandleUaConnectStep
  <2>6. CASE HandleReleased(a, r) \/ HandleDisc(a, r)
    BY <2>6, HandleEndStep
  <2> QED  BY <1>2, <2>1, <2>2, <2>3, <2>4, <2>5, <2>6 DEF HandleFrame
<1>3. ASSUME NEW f \in Fd, HandleSock(f) PROVE IInv'
  BY <1>3, HandleSockStep
<1>4. CASE UNCHANGED vars
  BY <1>4 DEF vars, IInv
<1> QED  BY <1>1, <1>2, <1>3, <1>4 DEF Next

\* Whatever clients and stations do, handle_socks() goes through sockets that
\* exist and have a client, and select() is given open descriptors below
\* fd_max: closing, client exits and failed closes keep socks_by_fd, fds_watch
\* and fd_max in step with the sockets.
THEOREM AlwaysLoopSafe == Spec => []LoopSafe
<1>1. IInv => LoopSafe
  BY DEF IInv, Safe, Closing, LoopSafe
<1> QED  BY <1>1, InitSafe, NextSafe, PTL DEF Spec

---------------------------------------------------------------------------
(***************************************************************************)
(* The tables while the rules are kept.  TablesAgree and NoOrphan need to   *)
(* know which sockets have which addresses: a raw socket has none, and its  *)
(* entry is that of the empty pair, which only one may have at a time; any  *)
(* other socket has its addresses by the time it has an entry.              *)
(***************************************************************************)
Shape(k) ==
    IF k.type = "RAW"
    THEN k.state \in {"ESTABLISHED", "PROMISC"} /\ k.local = NoAddr /\ k.remote = NoAddr
    ELSE /\ k.state = "LISTENING" => k.local \in Addr
         /\ k.state \in Linked => k.local \in Addr /\ k.remote \in Remote

RawLink(k) == k.type = "RAW" /\ k.state = "ESTABLISHED"

RawRegular(t) ==
    /\ \A f \in t.live : Shape(t.sock[f])
    /\ \A f \in t.live : RawLink(t.sock[f]) => t.remote[<<NoAddr, NoAddr>>] # None
    /\ \A f, g \in t.live : RawLink(t.sock[f]) /\ RawLink(t.sock[g]) => f = g

LocalRegular(t) ==
    \A a \in Addr, f \in Fd :
        t.local[a] = f <=> f \in t.live /\ t.sock[f].state = "LISTENING" /\ t.sock[f].local = a

RemoteRegular(t) ==
    \A a \in Addr, r \in Remote, f \in Fd :
        t.remote[<<a, r>>] = f <=> /\ f \in t.live /\ t.sock[f].state \in Linked
                                   /\ t.sock[f].local = a /\ t.sock[f].remote = r

OwnerRegular(t) ==
    /\ \A f \in t.live : t.clientOf[f] \in t.clients
    /\ \A c \in t.clients : t.byClient[c] = {f \in t.live : t.clientOf[f] = c}

Regular(t) == RawRegular(t) /\ LocalRegular(t) /\ RemoteRegular(t) /\ OwnerRegular(t)

RInv == irregular \/ (up /\ Regular(s))

\* The fields that Regular() is about, by their types.
LEMMA Fields ==
    ASSUME NEW t \in Server
    PROVE  /\ t.live \in SUBSET Fd /\ t.sock \in [Fd -> Socket] /\ t.clients \in SUBSET Client
           /\ t.byClient \in [Client -> SUBSET Fd] /\ t.clientOf \in [Fd -> Client \cup {None}]
           /\ t.local \in [Local -> Fd \cup {None}] /\ t.remote \in [Pair -> Fd \cup {None}]
BY DEF Server

LEMMA AddrFacts ==
    /\ NoAddr \notin Addr /\ NoAddr \notin Remote /\ IfAddr \in Addr
    /\ None \notin Fd /\ None \notin Client
    /\ \A a \in Addr : a \in Local
    /\ \A a \in Addr, r \in Remote : <<a, r>> \in Pair
    /\ <<NoAddr, NoAddr>> \in Pair
<1>1. None \notin Fd /\ None \notin Client
  <2>1. 0 .. (Scan - 1) \subseteq Nat
    BY RegistryAssumption
  <2> QED  BY <2>1, RegistryAssumption
<1> QED  BY <1>1, RegistryAssumption DEF Local, Pair

\* Agreement on those fields is enough.
LEMMA SameRegular ==
    ASSUME NEW t, NEW u, Regular(t),
           u.live = t.live, u.sock = t.sock, u.clients = t.clients,
           u.byClient = t.byClient, u.clientOf = t.clientOf,
           u.local = t.local, u.remote = t.remote
    PROVE  Regular(u)
BY DEF Regular, RawRegular, LocalRegular, RemoteRegular, OwnerRegular

LEMMA FdWatchFields ==
    ASSUME NEW t \in Server, NEW fd
    PROVE  /\ FdWatch(t, fd).live = t.live /\ FdWatch(t, fd).sock = t.sock
           /\ FdWatch(t, fd).clients = t.clients /\ FdWatch(t, fd).byClient = t.byClient
           /\ FdWatch(t, fd).clientOf = t.clientOf
           /\ FdWatch(t, fd).local = t.local /\ FdWatch(t, fd).remote = t.remote
BY DEF FdWatch, Server

LEMMA FdClearFields ==
    ASSUME NEW t \in Server, NEW F
    PROVE  /\ FdClear(t, F).live = t.live /\ FdClear(t, F).sock = t.sock
           /\ FdClear(t, F).clients = t.clients /\ FdClear(t, F).byClient = t.byClient
           /\ FdClear(t, F).clientOf = t.clientOf
           /\ FdClear(t, F).local = t.local /\ FdClear(t, F).remote = t.remote
<1> DEFINE w == t.watch \ F
           m == IF t.fdMax - 1 \in F THEN 1 + CHOOSE i \in w : \A j \in w : j <= i
                ELSE t.fdMax
<1>1. FdClear(t, F) = [t EXCEPT !.watch = w, !.fdMax = m]
  BY DEF FdClear
<1> HIDE DEF w, m
<1> QED  BY <1>1 DEF Server

LEMMA FdWatchRegular ==
    ASSUME NEW t \in Server, NEW fd, Regular(t) PROVE Regular(FdWatch(t, fd))
BY FdWatchFields, SameRegular

LEMMA FdClearRegular ==
    ASSUME NEW t \in Server, NEW F, Regular(t) PROVE Regular(FdClear(t, F))
BY FdClearFields, SameRegular

\* Every socket has its entry and its owner, so sock_close() succeeds.
LEMMA RegularCloses ==
    ASSUME NEW t \in Server, Regular(t), NEW f \in t.live
    PROVE  HasEntry(t, f) /\ Owned(t, f) /\ Closes(t, f)
<1> DEFINE k == t.sock[f]
<1>1. f \in Fd /\ k \in Socket /\ Shape(k)
  BY Fields DEF Regular, RawRegular
<1>2. ASSUME k.state = "LISTENING" PROVE t.local[k.local] # None
  <2>1. k.local \in Addr
    BY <1>1, <1>2 DEF Shape
  <2> QED  BY <1>1, <1>2, <2>1, AddrFacts DEF Regular, LocalRegular
<1>3. ASSUME k.state \in Linked PROVE t.remote[PairOf(t, f)] # None
  <2>1. CASE k.type = "RAW"
    <3>1. RawLink(k) /\ PairOf(t, f) = <<NoAddr, NoAddr>>
      BY <1>1, <1>3, <2>1 DEF Shape, RawLink, PairOf, Linked
    <3> QED  BY <3>1 DEF Regular, RawRegular
  <2>2. CASE k.type # "RAW"
    <3>1. k.local \in Addr /\ k.remote \in Remote
      BY <1>1, <1>3, <2>2 DEF Shape
    <3>2. t.remote[<<k.local, k.remote>>] = f
      BY <1>1, <1>3, <3>1 DEF Regular, RemoteRegular
    <3> QED  BY <1>1, <3>2, AddrFacts DEF PairOf
  <2> QED  BY <2>1, <2>2
<1>4. HasEntry(t, f)
  BY <1>2, <1>3 DEF HasEntry
<1>5. Owned(t, f)
  BY DEF Owned, Regular, OwnerRegular
<1> QED  BY <1>4, <1>5 DEF Closes

\* No two sockets share an entry.
LEMMA RegularApart ==
    ASSUME NEW t \in Server, Regular(t), NEW f \in t.live, NEW g \in t.live, SameEntry(t, f, g)
    PROVE  f = g
<1> DEFINE k == t.sock[f]
           j == t.sock[g]
<1>1. f \in Fd /\ g \in Fd /\ k \in Socket /\ j \in Socket /\ Shape(k) /\ Shape(j)
  BY Fields DEF Regular, RawRegular
<1>2. CASE k.state = "LISTENING" /\ j.state = "LISTENING" /\ k.local = j.local
  <2>1. k.local \in Addr
    BY <1>1, <1>2 DEF Shape
  <2>2. t.local[k.local] = f /\ t.local[k.local] = g
    BY <1>1, <1>2, <2>1 DEF Regular, LocalRegular
  <2> QED  BY <2>2
<1>3. CASE k.state \in Linked /\ j.state \in Linked /\ PairOf(t, f) = PairOf(t, g)
  <2>1. k.local = j.local /\ k.remote = j.remote
    BY <1>3 DEF PairOf
  <2>2. CASE k.type = "RAW"
    <3>1. j.type = "RAW"
      BY <1>1, <1>3, <2>1, <2>2, AddrFacts DEF Shape
    <3>2. RawLink(k) /\ RawLink(j)
      BY <1>1, <1>3, <2>2, <3>1 DEF Shape, RawLink, Linked
    <3> QED  BY <3>2 DEF Regular, RawRegular
  <2>3. CASE k.type # "RAW"
    <3>1. k.local \in Addr /\ k.remote \in Remote
      BY <1>1, <1>3, <2>3 DEF Shape
    <3>2. t.remote[<<k.local, k.remote>>] = f /\ t.remote[<<k.local, k.remote>>] = g
      BY <1>1, <1>3, <2>1, <3>1 DEF Regular, RemoteRegular
    <3> QED  BY <3>2
  <2> QED  BY <2>2, <2>3
<1> QED  BY <1>2, <1>3 DEF SameEntry

---------------------------------------------------------------------------
(***************************************************************************)
(* Closing and making sockets keeps the tables regular.                     *)
(***************************************************************************)
\* A link that is shut down keeps its entry.
LEMMA ShutdownRegular ==
    ASSUME NEW t \in Server, Regular(t), NEW F \in SUBSET Fd
    PROVE  /\ Regular(SockShutdown(t, F))
           /\ SockShutdown(t, F).clientOf = t.clientOf
           /\ SockShutdown(t, F).byClient = t.byClient
<1> DEFINE sk == [f \in Fd |-> IF /\ f \in F
                                  /\ t.sock[f].type = "STREAM"
                                  /\ t.sock[f].state = "ESTABLISHED"
                               THEN [t.sock[f] EXCEPT !.state = "PENDING_DISCONNECT"]
                               ELSE t.sock[f]]
           u == [t EXCEPT !.sock = sk]
<1>1. \A f \in Fd : t.sock[f] \in Socket
  BY Fields
<1>2. sk \in [Fd -> Socket]
  BY <1>1 DEF Socket, State
<1>3. /\ u \in Server /\ u.live = t.live /\ u.sock = sk /\ u.clients = t.clients
      /\ u.byClient = t.byClient /\ u.clientOf = t.clientOf
      /\ u.local = t.local /\ u.remote = t.remote
  <2> HIDE DEF sk
  <2> QED  BY <1>2 DEF Server
<1>4. ASSUME NEW f \in Fd
      PROVE  /\ sk[f].type = t.sock[f].type /\ sk[f].local = t.sock[f].local
             /\ sk[f].remote = t.sock[f].remote
             /\ sk[f].state = "LISTENING" <=> t.sock[f].state = "LISTENING"
             /\ sk[f].state \in Linked <=> t.sock[f].state \in Linked
             /\ sk[f].type = "RAW" => sk[f].state = t.sock[f].state
  BY <1>1 DEF Socket, Linked
<1>5. SockShutdown(t, F) = FdClear(u, F)
  BY DEF SockShutdown
<1> HIDE DEF sk, u
<1>6. RawRegular(u)
  <2>1. ASSUME NEW f \in t.live PROVE Shape(sk[f]) /\ (RawLink(sk[f]) <=> RawLink(t.sock[f]))
    <3>1. f \in Fd /\ Shape(t.sock[f])
      BY Fields DEF Regular, RawRegular
    <3> QED  BY <1>4, <3>1 DEF Shape, RawLink
  <2> QED  BY <1>3, <2>1 DEF Regular, RawRegular
<1>7. LocalRegular(u) /\ RemoteRegular(u)
  BY <1>3, <1>4 DEF Regular, LocalRegular, RemoteRegular
<1>8. Regular(u)
  BY <1>3, <1>6, <1>7 DEF Regular, OwnerRegular
<1> QED  BY <1>3, <1>5, <1>8, FdClearRegular, FdClearFields

\* The sockets in F go, and so do their entries, and nothing else.
LEMMA DestroyRegular ==
    ASSUME NEW t \in Server, Regular(t), NEW F \in SUBSET t.live
    PROVE  /\ Regular(SockDestroy(DeleteEntries(t, F), F))
           /\ SockDestroy(DeleteEntries(t, F), F).live = t.live \ F
           /\ \A f \in t.live \ F :
                 SockDestroy(DeleteEntries(t, F), F).clientOf[f] = t.clientOf[f]
<1> DEFINE lo == [a \in Local |->
                     IF \E f \in F : t.sock[f].state = "LISTENING" /\ t.sock[f].local = a
                     THEN None ELSE t.local[a]]
           re == [p \in Pair |->
                     IF \E f \in F : t.sock[f].state \in Linked /\ PairOf(t, f) = p
                     THEN None ELSE t.remote[p]]
           bc == [c \in Client |-> t.byClient[c] \ {f \in F : t.clientOf[f] = c}]
           co == [f \in Fd |-> IF f \in F THEN None ELSE t.clientOf[f]]
           sk == [f \in Fd |-> IF f \in F THEN NoSock ELSE t.sock[f]]
           d  == [t EXCEPT !.local = lo, !.remote = re]
           u  == [d EXCEPT !.byFd = @ \ F, !.byClient = bc, !.clientOf = co,
                           !.live = @ \ F, !.sock = sk]
<1>1. /\ lo \in [Local -> Fd \cup {None}] /\ re \in [Pair -> Fd \cup {None}]
      /\ bc \in [Client -> SUBSET Fd] /\ co \in [Fd -> Client \cup {None}]
      /\ sk \in [Fd -> Socket]
  <2>1. NoSock \in Socket
    BY DEF NoSock, Socket, State, Local
  <2> QED  BY <2>1, Fields
<1>2. DeleteEntries(t, F) = d
  BY DEF DeleteEntries
<1>3. d.byClient = t.byClient /\ d.clientOf = t.clientOf /\ d.sock = t.sock
  <2> HIDE DEF lo, re
  <2> QED  BY DEF Server
<1>4. SockDestroy(d, F) = FdClear(u, F)
  <2> HIDE DEF lo, re, d
  <2> QED  BY <1>3 DEF SockDestroy
<1>5. /\ u \in Server /\ u.live = t.live \ F /\ u.sock = sk /\ u.clients = t.clients
      /\ u.byClient = bc /\ u.clientOf = co /\ u.local = lo /\ u.remote = re
  <2> HIDE DEF bc, co, sk, lo, re
  <2> QED  BY <1>1 DEF Server
<1>6. t.live \subseteq Fd /\ \A f \in t.live \ F : sk[f] = t.sock[f] /\ co[f] = t.clientOf[f]
  BY Fields
<1> HIDE DEF u, d, sk, co
<1>7. RawRegular(u)
  <2>1. ASSUME NEW f \in t.live \ F, RawLink(t.sock[f]) PROVE re[<<NoAddr, NoAddr>>] # None
    <3>1. t.remote[<<NoAddr, NoAddr>>] # None
      BY <2>1 DEF Regular, RawRegular
    <3>2. Shape(t.sock[f]) /\ PairOf(t, f) = <<NoAddr, NoAddr>> /\ t.sock[f].state \in Linked
      BY <2>1 DEF Regular, RawRegular, Shape, RawLink, PairOf, Linked
    <3>3. \A g \in F : ~(t.sock[g].state \in Linked /\ PairOf(t, g) = <<NoAddr, NoAddr>>)
      BY <2>1, <3>2, RegularApart DEF SameEntry
    <3> QED  BY <3>1, <3>3, AddrFacts
  <2> HIDE DEF re
  <2> QED  BY <1>5, <1>6, <2>1 DEF Regular, RawRegular
<1>8. LocalRegular(u)
  <2> SUFFICES ASSUME NEW a \in Addr, NEW f \in Fd
               PROVE  lo[a] = f <=> f \in t.live \ F /\ sk[f].state = "LISTENING" /\ sk[f].local = a
    BY <1>5 DEF LocalRegular
  <2>1. t.local[a] = f <=> f \in t.live /\ t.sock[f].state = "LISTENING" /\ t.sock[f].local = a
    BY DEF Regular, LocalRegular
  <2>2. ASSUME NEW g \in F, t.sock[g].state = "LISTENING", t.sock[g].local = a
        PROVE  t.local[a] = g
    BY <1>6, <2>2 DEF Regular, LocalRegular
  <2>3. a \in Local /\ f # None
    BY AddrFacts
  <2> QED  BY <1>6, <2>1, <2>2, <2>3
<1>9. RemoteRegular(u)
  <2> SUFFICES ASSUME NEW a \in Addr, NEW r \in Remote, NEW f \in Fd
               PROVE  u.remote[<<a, r>>] = f <=> /\ f \in u.live /\ u.sock[f].state \in Linked
                                                 /\ u.sock[f].local = a /\ u.sock[f].remote = r
    BY DEF RemoteRegular
  <2>1. t.remote[<<a, r>>] = f <=> /\ f \in t.live /\ t.sock[f].state \in Linked
                                   /\ t.sock[f].local = a /\ t.sock[f].remote = r
    BY DEF Regular, RemoteRegular
  <2>2. ASSUME NEW g \in F, t.sock[g].state \in Linked, PairOf(t, g) = <<a, r>>
        PROVE  t.remote[<<a, r>>] = g
    <3>1. t.sock[g].local = a /\ t.sock[g].remote = r
      BY <2>2 DEF PairOf
    <3> QED  BY <1>6, <2>2, <3>1 DEF Regular, RemoteRegular
  <2>3. <<a, r>> \in Pair /\ f # None
    BY AddrFacts
  <2>4. PairOf(t, f) = <<a, r>> <=> t.sock[f].local = a /\ t.sock[f].remote = r
    BY DEF PairOf
  <2>5. re[<<a, r>>] = f <=> /\ f \in t.live \ F /\ sk[f].state \in Linked
                             /\ sk[f].local = a /\ sk[f].remote = r
    BY <1>6, <2>1, <2>2, <2>3, <2>4
  <2> HIDE DEF re
  <2> QED  BY <1>5, <2>5
<1>10. OwnerRegular(u)
  <2>1. \A f \in t.live \ F : co[f] \in t.clients
    BY <1>6 DEF Regular, OwnerRegular
  <2>2. ASSUME NEW c \in t.clients PROVE bc[c] = {f \in t.live \ F : co[f] = c}
    <3>1. c \in Client /\ t.byClient[c] = {f \in t.live : t.clientOf[f] = c}
      BY Fields DEF Regular, OwnerRegular
    <3> QED  BY <1>6, <3>1
  <2> HIDE DEF bc
  <2> QED  BY <1>5, <2>1, <2>2 DEF OwnerRegular
<1>11. Regular(u)
  BY <1>7, <1>8, <1>9, <1>10 DEF Regular
<1> QED  BY <1>2, <1>4, <1>5, <1>6, <1>11, FdClearRegular, FdClearFields

\* sock_close() of a socket that is there
LEMMA SockCloseRegular ==
    ASSUME NEW t \in Server, Regular(t), NEW f \in t.live PROVE Regular(SockClose(t, f))
<1>1. SockClose(t, f) = SockDestroy(DeleteEntries(t, {f}), {f})
  BY RegularCloses DEF SockClose
<1> QED  BY <1>1, DestroyRegular

\* patty_ax25_sock_new() and sock_save(): a socket with its own addresses, for
\* a client that is there.
LEMMA NewSockRegular ==
    ASSUME NEW t \in Server, Regular(t), NEW f \in Fd, f \notin t.live, NEW c \in t.clients,
           NEW k \in Socket, Shape(k), k.state \notin {"LISTENING", "PENDING_DISCONNECT"},
           RawLink(k) => \A g \in t.live : ~RawLink(t.sock[g]),
           k.type # "RAW" /\ k.state \in Linked => t.remote[<<k.local, k.remote>>] = None
    PROVE  Regular(SockSave(SockNew(t, f, k), c, f))
<1> DEFINE p  == <<k.local, k.remote>>
           sk == [t.sock EXCEPT ![f] = k]
           n  == [t EXCEPT !.live = @ \cup {f}, !.sock = sk]
           re == IF k.state \in Linked THEN [t.remote EXCEPT ![p] = f] ELSE t.remote
           co == [t.clientOf EXCEPT ![f] = c]
           bc == [t.byClient EXCEPT ![c] = @ \cup {f}]
           u  == [n EXCEPT !.remote = re, !.clientOf = co, !.byClient = bc, !.byFd = @ \cup {f}]
<1>1. p \in Pair /\ c \in Client
  BY Fields DEF Socket, Pair
<1>2. sk \in [Fd -> Socket]
  BY Fields
<1>3. SockNew(t, f, k) = n
  BY DEF SockNew
<1>4. /\ n.live = t.live \cup {f} /\ n.sock = sk /\ n.clients = t.clients
      /\ n.byClient = t.byClient /\ n.clientOf = t.clientOf /\ n.local = t.local
      /\ n.remote = t.remote /\ n \in Server
  <2> HIDE DEF sk
  <2> QED  BY <1>2 DEF Server
<1>5. sk[f] = k /\ \A g \in t.live : sk[g] = t.sock[g]
  BY Fields
<1>6. PairOf(n, f) = p
  <2> HIDE DEF n, sk
  <2> QED  BY <1>4, <1>5 DEF PairOf
<1>7. u = SockSave(n, c, f)
  <2> HIDE DEF sk, p
  <2>1. CASE k.state \in Linked
    <3>1. SockSaveRemote(n, f) = [n EXCEPT !.remote = [t.remote EXCEPT ![p] = f]]
      <4> HIDE DEF n
      <4> QED  BY <1>4, <1>6 DEF SockSaveRemote
    <3> QED  BY <1>4, <1>5, <2>1, <3>1 DEF SockSave, Server, Linked
  <2>2. CASE k.state \notin Linked
    <3>1. u = [n EXCEPT !.clientOf = co, !.byClient = bc, !.byFd = @ \cup {f}]
      BY <2>2 DEF Server
    <3> HIDE DEF n
    <3> QED  BY <1>4, <1>5, <2>2, <3>1 DEF SockSave
  <2> QED  BY <2>1, <2>2
<1>8. /\ u.live = t.live \cup {f} /\ u.sock = sk /\ u.clients = t.clients
      /\ u.byClient = bc /\ u.clientOf = co /\ u.local = t.local /\ u.remote = re
  <2> HIDE DEF n, sk, re, co, bc
  <2> QED  BY <1>4 DEF Server
<1> HIDE DEF sk, u, n
<1>9. t.live \subseteq Fd /\ f # None /\ t.remote \in [Pair -> Fd \cup {None}]
  BY Fields, AddrFacts
<1>10. RawRegular(u)
  <2>1. ASSUME NEW g \in t.live \cup {f}, RawLink(sk[g]) PROVE re[<<NoAddr, NoAddr>>] # None
    <3>1. CASE g = f
      <4>1. k.state \in Linked /\ p = <<NoAddr, NoAddr>>
        BY <1>5, <2>1, <3>1 DEF RawLink, Shape, Linked
      <4> QED  BY <1>1, <1>9, <4>1
    <3>2. CASE g \in t.live
      <4>1. t.remote[<<NoAddr, NoAddr>>] # None
        BY <1>5, <2>1, <3>2 DEF Regular, RawRegular
      <4> HIDE DEF p
      <4> QED  BY <1>1, <1>9, <4>1, AddrFacts
    <3> QED  BY <3>1, <3>2
  <2>2. \A g \in t.live \cup {f} : Shape(sk[g])
    BY <1>5 DEF Regular, RawRegular
  <2>3. \A g, h \in t.live \cup {f} : RawLink(sk[g]) /\ RawLink(sk[h]) => g = h
    BY <1>5 DEF Regular, RawRegular
  <2> HIDE DEF re
  <2> QED  BY <1>8, <2>1, <2>2, <2>3 DEF RawRegular
<1>11. LocalRegular(u)
  BY <1>5, <1>8 DEF Regular, LocalRegular
<1>12. RemoteRegular(u)
  <2> HIDE DEF re
  <2> SUFFICES ASSUME NEW a \in Addr, NEW r \in Remote, NEW g \in Fd
               PROVE  u.remote[<<a, r>>] = g <=> /\ g \in u.live /\ u.sock[g].state \in Linked
                                                 /\ u.sock[g].local = a /\ u.sock[g].remote = r
    BY DEF RemoteRegular
  <2>1. t.remote[<<a, r>>] = g <=> /\ g \in t.live /\ t.sock[g].state \in Linked
                                   /\ t.sock[g].local = a /\ t.sock[g].remote = r
    BY DEF Regular, RemoteRegular
  <2>2. CASE k.state \in Linked /\ p = <<a, r>>
    <3>1. k.local = a /\ k.remote = r /\ k.type # "RAW"
      BY <2>2, AddrFacts DEF Shape
    <3>2. re[<<a, r>>] = f /\ t.remote[<<a, r>>] = None
      BY <1>1, <1>9, <2>2, <3>1 DEF re
    <3>3. g # None
      BY AddrFacts
    <3> QED  BY <1>5, <1>8, <2>1, <2>2, <3>1, <3>2, <3>3
  <2>3. CASE ~(k.state \in Linked /\ p = <<a, r>>)
    <3>1. <<a, r>> \in Pair
      BY AddrFacts
    <3>2. re[<<a, r>>] = t.remote[<<a, r>>]
      <4> HIDE DEF p
      <4> QED  BY <1>1, <1>9, <2>3, <3>1 DEF re
    <3>3. ~(k.state \in Linked /\ k.local = a /\ k.remote = r)
      BY <2>3
    <3> QED  BY <1>5, <1>8, <2>1, <3>2, <3>3
  <2> QED  BY <2>2, <2>3
<1>13. OwnerRegular(u)
  <2>1. co[f] = c /\ \A g \in t.live : co[g] = t.clientOf[g]
    BY Fields
  <2>2. bc[c] = t.byClient[c] \cup {f} /\ \A d \in t.clients \ {c} : bc[d] = t.byClient[d]
    BY Fields
  <2> HIDE DEF co, bc
  <2>3. \A g \in t.live \cup {f} : co[g] \in t.clients
    BY <2>1 DEF Regular, OwnerRegular
  <2>4. ASSUME NEW d \in t.clients PROVE bc[d] = {g \in t.live \cup {f} : co[g] = d}
    BY <2>1, <2>2 DEF Regular, OwnerRegular
  <2> QED  BY <1>8, <2>3, <2>4 DEF OwnerRegular
<1>14. Regular(u)
  BY <1>10, <1>11, <1>12, <1>13 DEF Regular
<1> QED  BY <1>3, <1>7, <1>14

\* A change of one socket that has no effect on its entries.
LEMMA OneSockRegular ==
    ASSUME NEW t \in Server, Regular(t), NEW f \in t.live, NEW k \in Socket, Shape(k),
           RawLink(k) => RawLink(t.sock[f]),
           k.state # "LISTENING" /\ t.sock[f].state # "LISTENING",
           k.type # "RAW" /\ k.state \in Linked
               <=> t.sock[f].type # "RAW" /\ t.sock[f].state \in Linked,
           k.state \in Linked => k.local = t.sock[f].local /\ k.remote = t.sock[f].remote
    PROVE  Regular([t EXCEPT !.sock[f] = k])
<1> DEFINE sk == [t.sock EXCEPT ![f] = k]
           u  == [t EXCEPT !.sock = sk]
<1>1. u = [t EXCEPT !.sock[f] = k] /\ t.live \subseteq Fd /\ f \in Fd
  BY Fields DEF Server
<1>2. sk[f] = k /\ \A g \in Fd \ {f} : sk[g] = t.sock[g]
  BY Fields
<1>3. /\ u.live = t.live /\ u.sock = sk /\ u.clients = t.clients /\ u.byClient = t.byClient
      /\ u.clientOf = t.clientOf /\ u.local = t.local /\ u.remote = t.remote
  <2> HIDE DEF sk
  <2> QED  BY DEF Server
<1> HIDE DEF u, sk
<1>4. RawRegular(u)
  <2>1. \A g \in t.live : Shape(sk[g]) /\ (RawLink(sk[g]) => RawLink(t.sock[g]))
    BY <1>1, <1>2 DEF Regular, RawRegular
  <2> QED  BY <1>3, <2>1 DEF Regular, RawRegular
<1>5. LocalRegular(u)
  BY <1>2, <1>3 DEF Regular, LocalRegular
<1>6. RemoteRegular(u)
  <2>1. Shape(t.sock[f])
    BY DEF Regular, RawRegular
  <2>2. ASSUME NEW a \in Addr, NEW r \in Remote
        PROVE  (k.state \in Linked /\ k.local = a /\ k.remote = r)
               <=> /\ t.sock[f].state \in Linked
                   /\ t.sock[f].local = a /\ t.sock[f].remote = r
    BY <2>1, AddrFacts DEF Shape
  <2> SUFFICES ASSUME NEW a \in Addr, NEW r \in Remote, NEW g \in Fd
               PROVE  u.remote[<<a, r>>] = g <=> /\ g \in u.live /\ u.sock[g].state \in Linked
                                                 /\ u.sock[g].local = a /\ u.sock[g].remote = r
    BY DEF RemoteRegular
  <2>3. t.remote[<<a, r>>] = g <=> /\ g \in t.live /\ t.sock[g].state \in Linked
                                   /\ t.sock[g].local = a /\ t.sock[g].remote = r
    BY DEF Regular, RemoteRegular
  <2> QED  BY <1>2, <1>3, <2>2, <2>3
<1>7. Regular(u)
  BY <1>3, <1>4, <1>5, <1>6 DEF Regular, OwnerRegular
<1> QED  BY <1>1, <1>7

---------------------------------------------------------------------------
(***************************************************************************)
(* One lemma per action: from a regular state, with the rules kept, the     *)
(* daemon goes on in a regular state.                                       *)
(***************************************************************************)
Regularly == s \in Server /\ up /\ Regular(s)

LEMMA AcceptClientRegular ==
    ASSUME Regularly, NEW c \in Client, AcceptClient(c)
    PROVE  up' /\ Regular(s')
<1> DEFINE bc == [s.byClient EXCEPT ![c] = {}]
           u  == [s EXCEPT !.clients = @ \cup {c}, !.byClient = bc]
<1>1. s \in Server /\ Regular(s) /\ c \notin s.clients
  BY DEF Regularly, AcceptClient
<1>2. bc \in [Client -> SUBSET Fd] /\ bc[c] = {} /\ \A d \in s.clients : bc[d] = s.byClient[d]
  BY <1>1, Fields
<1>3. s' = FdWatch(u, c) /\ up'
  BY DEF AcceptClient, Regularly
<1>4. /\ u \in Server /\ u.live = s.live /\ u.sock = s.sock /\ u.clients = s.clients \cup {c}
      /\ u.byClient = bc /\ u.clientOf = s.clientOf /\ u.local = s.local /\ u.remote = s.remote
  <2> HIDE DEF bc
  <2> QED  BY <1>1, <1>2 DEF Server
<1> HIDE DEF u, bc
<1>5. OwnerRegular(u)
  BY <1>1, <1>2, <1>4 DEF Regular, OwnerRegular
<1>6. RawRegular(u) /\ LocalRegular(u) /\ RemoteRegular(u)
  BY <1>1, <1>4 DEF Regular, RawRegular, LocalRegular, RemoteRegular
<1> QED  BY <1>3, <1>4, <1>5, <1>6, FdWatchRegular DEF Regular

LEMMA ServerSocketRegular ==
    ASSUME Regularly, NEW c \in Client, NEW f \in Fd, NEW type \in Types,
           ServerSocket(c, f, type), ~irregular'
    PROVE  up' /\ Regular(s')
<1> DEFINE k == [NoSock EXCEPT !.type = type,
                    !.state = IF type = "RAW" THEN "ESTABLISHED" ELSE "CLOSED"]
<1>1. /\ k \in Socket /\ Shape(k) /\ k.state \notin {"LISTENING", "PENDING_DISCONNECT"}
      /\ k.type = type /\ (k.type # "RAW" => k.state \notin Linked)
  BY RegistryAssumption DEF NoSock, Socket, State, Local, Shape, Linked
<1>2. /\ s \in Server /\ Regular(s) /\ f \notin s.live /\ c \in s.clients
      /\ s' = SockSave(SockNew(s, f, k), c, f) /\ up'
  BY DEF Regularly, ServerSocket, Unused
<1>3. type = "RAW" => \A g \in s.live : s.sock[g].type = "RAW" => s.sock[g].state = "PROMISC"
  BY DEF ServerSocket, Heed, CarefulSocket
<1> HIDE DEF k
<1>4. RawLink(k) => \A g \in s.live : ~RawLink(s.sock[g])
  BY <1>1, <1>3 DEF RawLink
<1> QED  BY <1>1, <1>2, <1>4, NewSockRegular

LEMMA ServerSetsockoptRegular ==
    ASSUME Regularly, NEW c \in Client, NEW f \in Fd, NEW promisc \in BOOLEAN,
           ServerSetsockopt(c, f, promisc), s.byFd = s.live
    PROVE  up' /\ Regular(s')
<1> DEFINE k == [s.sock[f] EXCEPT !.state = "PROMISC"]
           u == [s EXCEPT !.sock[f] = k]
<1>1. s \in Server /\ Regular(s) /\ f \in s.live /\ s.sock[f] \in Socket /\ up'
  BY PairOfType DEF Regularly, ServerSetsockopt
<1>2. Shape(s.sock[f]) /\ s.sock[f].type = "RAW"
  BY <1>1 DEF Regular, RawRegular, ServerSetsockopt
<1>3. /\ k \in Socket /\ k.state = "PROMISC" /\ k.type = "RAW" /\ Shape(k)
      /\ s.sock[f].state # "LISTENING"
  BY <1>1, <1>2 DEF Socket, State, Shape
<1>4. s' = FdWatch(u, f) \/ s' = FdWatch(s, f)
  BY <1>1 DEF ServerSetsockopt, Server
<1>5. u \in Server
  <2> HIDE DEF k
  <2> QED  BY <1>1, <1>3 DEF Server
<1> HIDE DEF k
<1>6. Regular(u)
  BY <1>1, <1>2, <1>3, OneSockRegular DEF RawLink, Linked
<1> HIDE DEF u
<1> QED  BY <1>1, <1>4, <1>5, <1>6, FdWatchRegular

LEMMA ServerBindRegular ==
    ASSUME Regularly, NEW c \in Client, NEW f \in Fd, NEW a \in Addr,
           ServerBind(c, f, a), s.byFd = s.live, ~irregular'
    PROVE  up' /\ Regular(s')
<1> DEFINE k == [s.sock[f] EXCEPT !.local = a]
<1>1. s \in Server /\ Regular(s) /\ f \in s.live /\ s.sock[f] \in Socket /\ up'
  BY PairOfType DEF Regularly, ServerBind
<1>2. s.sock[f].state = "CLOSED"
  BY DEF ServerBind, Heed, CarefulBind
<1>3. Shape(s.sock[f])
  BY <1>1 DEF Regular, RawRegular
<1>4. k \in Socket /\ k.state = "CLOSED" /\ k.type = s.sock[f].type
  BY <1>1, <1>2 DEF Socket, Local
<1>5. s' = [s EXCEPT !.sock[f] = k]
  BY <1>1 DEF ServerBind, Server
<1> HIDE DEF k
<1>6. Shape(k)
  BY <1>2, <1>3, <1>4 DEF Shape, Linked
<1> QED  BY <1>1, <1>2, <1>4, <1>5, <1>6, OneSockRegular DEF RawLink, Linked

LEMMA ServerListenRegular ==
    ASSUME Regularly, NEW c \in Client, NEW f \in Fd,
           ServerListen(c, f), s.byFd = s.live, ~irregular'
    PROVE  up' /\ Regular(s')
<1> DEFINE k  == [s.sock[f] EXCEPT !.state = "LISTENING"]
           l  == s.sock[f].local
           sk == [s.sock EXCEPT ![f] = k]
           lo == [s.local EXCEPT ![l] = f]
           u  == [s EXCEPT !.sock = sk, !.local = lo]
<1>1. s \in Server /\ Regular(s) /\ f \in s.live /\ s.sock[f] \in Socket /\ up'
  BY PairOfType DEF Regularly, ServerListen
<1>2. s.sock[f].state = "CLOSED" /\ s.local[l] = None
  BY DEF ServerListen, Heed, CarefulListen
<1>3. Shape(s.sock[f]) /\ l # NoAddr
  BY <1>1 DEF Regular, RawRegular, ServerListen
<1>4. l \in Addr /\ s.sock[f].type # "RAW"
  BY <1>1, <1>2, <1>3 DEF Socket, Local, Shape
<1>5. k.type = s.sock[f].type /\ k.state = "LISTENING" /\ k.local = l
  BY <1>1 DEF Socket
<1>6. sk[f] = k /\ \A g \in Fd \ {f} : sk[g] = s.sock[g]
  BY <1>1, Fields
<1>7. lo[l] = f /\ \A b \in Addr \ {l} : lo[b] = s.local[b]
  BY <1>1, <1>4, Fields, AddrFacts
<1>8. s' = u
  <2> DEFINE v == [s EXCEPT !.sock = sk]
  <2>1. v = [s EXCEPT !.sock[f].state = "LISTENING"]
    BY <1>1 DEF Server
  <2>2. v.sock = sk /\ v.local = s.local
    <3> HIDE DEF sk
    <3> QED  BY <1>1 DEF Server
  <2>3. s' = SockSaveLocal(v, f)
    BY <2>1 DEF ServerListen
  <2>4. s' = [v EXCEPT !.local = lo]
    <3> HIDE DEF v, sk, k
    <3> QED  BY <1>5, <1>6, <2>2, <2>3 DEF SockSaveLocal
  <2> HIDE DEF sk, lo
  <2> QED  BY <1>1, <2>4 DEF Server
<1>9. /\ u.live = s.live /\ u.sock = sk /\ u.clients = s.clients /\ u.byClient = s.byClient
      /\ u.clientOf = s.clientOf /\ u.local = lo /\ u.remote = s.remote
  <2> HIDE DEF sk, lo
  <2> QED  BY <1>1 DEF Server
<1> HIDE DEF u, sk, lo, k
<1>10. RawRegular(u)
  <2>1. ~RawLink(k) /\ Shape(k)
    BY <1>4, <1>5 DEF RawLink, Shape, Linked
  <2> QED  BY <1>1, <1>6, <1>9, <2>1, Fields DEF Regular, RawRegular
<1>11. LocalRegular(u)
  <2> SUFFICES ASSUME NEW b \in Addr, NEW g \in Fd
               PROVE  u.local[b] = g <=> /\ g \in u.live /\ u.sock[g].state = "LISTENING"
                                         /\ u.sock[g].local = b
    BY DEF LocalRegular
  <2>1. s.local[b] = g <=> /\ g \in s.live /\ s.sock[g].state = "LISTENING"
                           /\ s.sock[g].local = b
    BY <1>1 DEF Regular, LocalRegular
  <2>2. g # None
    BY AddrFacts
  <2> QED  BY <1>1, <1>2, <1>5, <1>6, <1>7, <1>9, <2>1, <2>2
<1>12. RemoteRegular(u)
  <2> SUFFICES ASSUME NEW b \in Addr, NEW r \in Remote, NEW g \in Fd
               PROVE  u.remote[<<b, r>>] = g <=> /\ g \in u.live /\ u.sock[g].state \in Linked
                                                 /\ u.sock[g].local = b /\ u.sock[g].remote = r
    BY DEF RemoteRegular
  <2>1. s.remote[<<b, r>>] = g <=> /\ g \in s.live /\ s.sock[g].state \in Linked
                                   /\ s.sock[g].local = b /\ s.sock[g].remote = r
    BY <1>1 DEF Regular, RemoteRegular
  <2> QED  BY <1>2, <1>5, <1>6, <1>9, <2>1 DEF Linked
<1>13. OwnerRegular(u)
  BY <1>1, <1>9 DEF Regular, OwnerRegular
<1> QED  BY <1>1, <1>8, <1>10, <1>11, <1>12, <1>13 DEF Regular

LEMMA ServerConnectRegular ==
    ASSUME Regularly, NEW c \in Client, NEW f \in Fd, NEW r \in Remote,
           ServerConnect(c, f, r), s.byFd = s.live, ~irregular'
    PROVE  up' /\ Regular(s')
<1> DEFINE l  == IF s.sock[f].local = NoAddr THEN IfAddr ELSE s.sock[f].local
           k1 == [s.sock[f] EXCEPT !.local = l, !.remote = r]
           st == IF s.sock[f].type = "DGRAM" THEN "ESTABLISHED" ELSE "PENDING_CONNECT"
           k2 == [k1 EXCEPT !.state = st]
           re == [s.remote EXCEPT ![<<l, r>>] = f]
           co == [s.clientOf EXCEPT ![f] = c]
           sk == [s.sock EXCEPT ![f] = k2]
           u  == [s EXCEPT !.sock = sk, !.remote = re, !.clientOf = co]
<1>1. s \in Server /\ Regular(s) /\ f \in s.live /\ s.sock[f] \in Socket /\ up'
  BY PairOfType DEF Regularly, ServerConnect
<1>2. /\ s.clientOf[f] = c /\ s.sock[f].remote \in {NoAddr, r} /\ s.remote[<<l, r>>] \in {None, f}
  BY DEF ServerConnect, Heed, CarefulConnect
<1>3. /\ Shape(s.sock[f]) /\ s.sock[f].type # "RAW" /\ s.sock[f].state # "LISTENING"
  BY <1>1 DEF Regular, RawRegular, ServerConnect
<1>4. l \in Addr /\ (s.sock[f].local \in Addr => l = s.sock[f].local)
  BY <1>1, AddrFacts DEF Socket, Local
<1>5. /\ k2.type = s.sock[f].type /\ k2.local = l /\ k2.remote = r
      /\ k2.state \in Linked /\ k2.state # "LISTENING"
  BY <1>1 DEF Socket, Linked
<1>6. s' = u
  BY <1>1, ConnectState
<1>7. /\ u.live = s.live /\ u.sock = sk /\ u.clients = s.clients /\ u.byClient = s.byClient
      /\ u.clientOf = co /\ u.local = s.local /\ u.remote = re
  <2> HIDE DEF sk, re, co
  <2> QED  BY <1>1 DEF Server
<1>8. sk[f] = k2 /\ \A g \in Fd \ {f} : sk[g] = s.sock[g]
  <2> HIDE DEF k2
  <2> QED  BY <1>1, Fields
<1>9. co = s.clientOf
  BY <1>1, <1>2, Fields
<1> HIDE DEF u, sk, co, k2, l
<1>10. RawRegular(u)
  <2>1. ~RawLink(k2) /\ Shape(k2)
    BY <1>3, <1>4, <1>5 DEF RawLink, Shape
  <2>2. re[<<NoAddr, NoAddr>>] = s.remote[<<NoAddr, NoAddr>>]
    <3>1. <<l, r>> # <<NoAddr, NoAddr>>
      BY <1>4, AddrFacts
    <3> QED  BY <1>1, <3>1, Fields, AddrFacts
  <2> HIDE DEF re
  <2> QED  BY <1>1, <1>7, <1>8, <2>1, <2>2, Fields DEF Regular, RawRegular
<1>11. LocalRegular(u)
  <2> SUFFICES ASSUME NEW b \in Addr, NEW g \in Fd
               PROVE  u.local[b] = g <=> /\ g \in u.live /\ u.sock[g].state = "LISTENING"
                                         /\ u.sock[g].local = b
    BY DEF LocalRegular
  <2>1. s.local[b] = g <=> /\ g \in s.live /\ s.sock[g].state = "LISTENING"
                           /\ s.sock[g].local = b
    BY <1>1 DEF Regular, LocalRegular
  <2> QED  BY <1>3, <1>5, <1>7, <1>8, <2>1
<1>12. RemoteRegular(u)
  <2> SUFFICES ASSUME NEW b \in Addr, NEW q \in Remote, NEW g \in Fd
               PROVE  u.remote[<<b, q>>] = g <=> /\ g \in u.live /\ u.sock[g].state \in Linked
                                                 /\ u.sock[g].local = b /\ u.sock[g].remote = q
    BY DEF RemoteRegular
  <2>1. s.remote[<<b, q>>] = g <=> /\ g \in s.live /\ s.sock[g].state \in Linked
                                   /\ s.sock[g].local = b /\ s.sock[g].remote = q
    BY <1>1 DEF Regular, RemoteRegular
  <2>2. g # None
    BY AddrFacts
  <2>3. CASE b = l /\ q = r
    <3>1. re[<<b, q>>] = f
      BY <1>1, <1>4, <2>3, Fields, AddrFacts
    <3> QED  BY <1>1, <1>2, <1>5, <1>7, <1>8, <2>1, <2>2, <2>3, <3>1
  <2>4. CASE ~(b = l /\ q = r)
    <3>1. re[<<b, q>>] = s.remote[<<b, q>>]
      BY <1>1, <1>4, <2>4, Fields, AddrFacts
    <3>2. ASSUME s.sock[f].state \in Linked PROVE s.sock[f].local = l /\ s.sock[f].remote = r
      BY <1>2, <1>3, <1>4, <3>2, AddrFacts DEF Shape
    <3> QED  BY <1>5, <1>7, <1>8, <2>1, <2>4, <3>1, <3>2
  <2> QED  BY <2>3, <2>4
<1>13. OwnerRegular(u)
  BY <1>1, <1>7, <1>9 DEF Regular, OwnerRegular
<1> QED  BY <1>1, <1>6, <1>10, <1>11, <1>12, <1>13 DEF Regular

LEMMA ServerCloseRegular ==
    ASSUME Regularly, NEW c \in Client, NEW f \in Fd, ServerClose(c, f), IInv
    PROVE  up' /\ Regular(s')
<1> DEFINE t == SockShutdown(s, {f})
<1>1. Regular(t)
  BY ShutdownRegular DEF Regularly
<1>2. t \in Server /\ t.live = s.live /\ f \in s.live
  BY SockShutdownSafe DEF IInv, Safe, Closing, ServerClose
<1>3. s' = SockClose(t, f) /\ up'
  BY DEF ServerClose
<1> HIDE DEF t
<1> QED  BY <1>1, <1>2, <1>3, SockCloseRegular

\* client_sock_close() succeeds for each socket of a client that goes away.
LEMMA AllClosed ==
    ASSUME Regularly, NEW c \in s.clients
    PROVE  /\ Closed(c) = s.byClient[c] /\ FailsOn(c) = {}
           /\ s.byClient[c] = {f \in s.live : s.clientOf[f] = c}
<1>1. s \in Server /\ Regular(s) /\ s.byClient[c] = {f \in s.live : s.clientOf[f] = c}
  BY DEF Regularly, Regular, OwnerRegular
<1>2. ASSUME NEW g \in s.byClient[c] PROVE Closes(s, g)
  BY <1>1, RegularCloses
<1>3. ASSUME NEW g \in s.byClient[c], NEW h \in s.byClient[c], h < g PROVE ~SameEntry(s, h, g)
  <2>1. h # g
    <3>1. h \in 0 .. (Scan - 1) /\ g \in 0 .. (Scan - 1)
      BY <1>1, RegistryAssumption, Fields
    <3> QED  BY <1>3, <3>1, RegistryAssumption
  <2> QED  BY <1>1, <2>1, RegularApart
<1>4. Closed(c) = s.byClient[c]
  BY <1>2, <1>3 DEF Closed
<1> QED  BY <1>1, <1>4 DEF FailsOn

LEMMA HandleClientGoneRegular ==
    ASSUME Regularly, NEW c \in Client, HandleClientGone(c), IInv
    PROVE  up' /\ Regular(s')
<1> DEFINE F    == s.byClient[c]
           shut == SockShutdown(s, F)
           t    == SockDestroy(DeleteEntries(shut, F), F)
           bc   == [t.byClient EXCEPT ![c] = {}]
           u    == [t EXCEPT !.clients = @ \ {c}, !.byClient = bc]
<1>1. /\ s \in Server /\ Regular(s) /\ c \in s.clients
      /\ Closed(c) = F /\ FailsOn(c) = {} /\ F = {f \in s.live : s.clientOf[f] = c}
  BY AllClosed DEF Regularly, HandleClientGone
<1>2. F \subseteq s.live /\ F \in SUBSET Fd
  BY <1>1, Fields
<1>3. s' = FdClear(u, {c}) /\ up'
  <2> DEFINE lost == {f \in FailsOn(c) : /\ HasEntry(s, f)
                                         /\ \A g \in Closed(c) : ~SameEntry(s, g, f)}
             w    == SockDestroy(DeleteEntries(SockShutdown(s, Closed(c) \cup FailsOn(c)),
                                               Closed(c) \cup lost), Closed(c))
  <2>1. lost = {} /\ Closed(c) \cup FailsOn(c) = F /\ Closed(c) \cup lost = F
    BY <1>1
  <2>2. w = t
    BY <1>1, <2>1
  <2>3. s' = FdClear([w EXCEPT !.clients = @ \ {c}, !.byClient[c] = {}], {c}) /\ up'
    <3>1. F \subseteq s.live /\ up
      BY <1>2 DEF Regularly
    <3> QED  BY <3>1 DEF HandleClientGone
  <2> HIDE DEF w, t
  <2> QED  BY <2>2, <2>3
<1> HIDE DEF F
<1>4. Regular(shut) /\ shut.clientOf = s.clientOf
  BY <1>1, <1>2, ShutdownRegular
<1>5. Safe(shut) /\ shut \in Server /\ shut.live = s.live /\ shut.clients = s.clients
  BY <1>2, SockShutdownSafe DEF IInv, Safe, Closing
<1> HIDE DEF shut
<1>6. /\ Regular(t) /\ t.live = s.live \ F
      /\ \A f \in s.live \ F : t.clientOf[f] = s.clientOf[f]
  BY <1>2, <1>4, <1>5, DestroyRegular
<1>7. Safe(t) /\ t \in Server
  <2>1. Safe(DeleteEntries(shut, F))
    BY <1>2, <1>5, DeleteEntriesSafe
  <2> QED  BY <1>2, <2>1, SockDestroySafe DEF Safe, Closing
<1> HIDE DEF t
<1>8. bc \in [Client -> SUBSET Fd] /\ \A d \in Client \ {c} : bc[d] = t.byClient[d]
  BY <1>7, Fields
<1>9. /\ u \in Server /\ u.live = t.live /\ u.sock = t.sock /\ u.clients = t.clients \ {c}
      /\ u.byClient = bc /\ u.clientOf = t.clientOf /\ u.local = t.local /\ u.remote = t.remote
  <2> HIDE DEF bc
  <2> QED  BY <1>7, <1>8 DEF Server
<1> HIDE DEF u, bc
<1>10. OwnerRegular(u)
  <2>1. \A f \in t.live : t.clientOf[f] # c
    BY <1>1, <1>6
  <2>2. t.clients \subseteq Client
    BY <1>7, Fields
  <2> QED  BY <1>6, <1>8, <1>9, <2>1, <2>2 DEF Regular, OwnerRegular
<1>11. Regular(u)
  BY <1>6, <1>9, <1>10 DEF Regular, RawRegular, LocalRegular, RemoteRegular
<1> QED  BY <1>3, <1>9, <1>11, FdClearRegular

\* A caller gets a socket whose pair has no entry yet.
LEMMA NewLinkRegular ==
    ASSUME Regularly, NEW a \in Addr, NEW r \in Remote, NEW f \in Fd, f \notin s.live,
           NEW st \in {"PENDING_ACCEPT", "ESTABLISHED"},
           Listens(a), s.remote[<<a, r>>] = None
    PROVE  Regular(NewLink(f, a, r, st)) /\ s.clientOf[s.local[a]] \in s.clients
<1> DEFINE g == s.local[a]
           k == [type |-> s.sock[g].type, state |-> st, local |-> a, remote |-> r]
<1>1. /\ s \in Server /\ Regular(s) /\ g \in s.live /\ s.sock[g] \in Socket
      /\ s.sock[g].state = "LISTENING"
  BY Fields DEF Regularly, Listens
<1>2. s.clientOf[g] \in s.clients /\ Shape(s.sock[g])
  BY <1>1 DEF Regular, OwnerRegular, RawRegular
<1>3. s.sock[g].type # "RAW"
  BY <1>1, <1>2 DEF Shape
<1>4. /\ k \in Socket /\ k.type # "RAW" /\ k.local = a /\ k.remote = r
      /\ k.state \notin {"LISTENING", "PENDING_DISCONNECT"}
  BY <1>1, <1>3 DEF Socket, State, Local
<1>5. NewLink(f, a, r, st) = SockSave(SockNew(s, f, k), s.clientOf[g], f)
  BY DEF NewLink
<1> HIDE DEF k, g
<1>6. Shape(k) /\ ~RawLink(k)
  BY <1>4 DEF Shape, RawLink
<1>7. Regular(SockSave(SockNew(s, f, k), s.clientOf[g], f))
  BY <1>1, <1>2, <1>4, <1>6, NewSockRegular
<1> QED  BY <1>2, <1>5, <1>7 DEF g

LEMMA HandleXidRegular ==
    ASSUME Regularly, NEW a \in Addr, NEW r \in Remote, NEW f \in Fd, HandleXid(a, r, f)
    PROVE  up' /\ Regular(s')
<1>1. f \notin s.live /\ Listens(a) /\ s.remote[<<a, r>>] = None
  BY DEF HandleXid, Unused
<1>2. Regular(NewLink(f, a, r, "PENDING_ACCEPT")) /\ s.clientOf[s.local[a]] \in s.clients
  BY <1>1, NewLinkRegular
<1> QED  BY <1>2 DEF HandleXid, Regularly

\* The socket of an entry for two addresses.
LEMMA EntrySock ==
    ASSUME Regularly, NEW a \in Addr, NEW r \in Remote, s.remote[<<a, r>>] # None
    PROVE  LET f == s.remote[<<a, r>>]
           IN  /\ f \in Fd /\ f \in s.live /\ s.sock[f] \in Socket /\ Shape(s.sock[f])
               /\ s.sock[f].state \in Linked /\ s.sock[f].type # "RAW"
               /\ s.sock[f].local = a /\ s.sock[f].remote = r
<1> DEFINE f == s.remote[<<a, r>>]
<1>1. s \in Server /\ Regular(s) /\ f \in Fd
  BY Fields, AddrFacts DEF Regularly
<1>2. f \in s.live /\ s.sock[f].state \in Linked /\ s.sock[f].local = a /\ s.sock[f].remote = r
  BY <1>1 DEF Regular, RemoteRegular
<1>3. s.sock[f] \in Socket /\ Shape(s.sock[f])
  BY <1>1, <1>2, Fields DEF Regular, RawRegular
<1>4. s.sock[f].type # "RAW"
  BY <1>2, <1>3, AddrFacts DEF Shape
<1> QED  BY <1>1, <1>2, <1>3, <1>4

\* A link goes from one state with an entry to another.
LEMMA LinkedStateRegular ==
    ASSUME Regularly, NEW a \in Addr, NEW r \in Remote, s.remote[<<a, r>>] # None
    PROVE  LET f == s.remote[<<a, r>>]
               u == [s EXCEPT !.sock[f] = [s.sock[f] EXCEPT !.state = "ESTABLISHED"]]
           IN  /\ Regular(u) /\ u \in Server /\ u = [s EXCEPT !.sock[f].state = "ESTABLISHED"]
               /\ u.sock[f].state = "ESTABLISHED" /\ u.sock[f].local = a /\ u.sock[f].remote = r
               /\ u.live = s.live /\ u.clientOf = s.clientOf /\ u.byClient = s.byClient
               /\ u.clients = s.clients /\ u.remote = s.remote
<1> DEFINE f == s.remote[<<a, r>>]
           k == [s.sock[f] EXCEPT !.state = "ESTABLISHED"]
           u == [s EXCEPT !.sock[f] = k]
<1>1. /\ f \in Fd /\ f \in s.live /\ s.sock[f] \in Socket /\ Shape(s.sock[f])
      /\ s.sock[f].state \in Linked /\ s.sock[f].type # "RAW"
      /\ s.sock[f].local = a /\ s.sock[f].remote = r
  BY EntrySock
<1>2. /\ k \in Socket /\ k.state = "ESTABLISHED" /\ k.type # "RAW" /\ k.local = a /\ k.remote = r
  BY <1>1 DEF Socket, State
<1>3. s \in Server /\ Regular(s)
  BY DEF Regularly
<1>4. u = [s EXCEPT !.sock[f].state = "ESTABLISHED"]
  BY <1>1, <1>3 DEF Server
<1> HIDE DEF f, k
<1>5. Shape(k) /\ ~RawLink(k) /\ k.state \in Linked /\ s.sock[f].state # "LISTENING"
  BY <1>1, <1>2 DEF Shape, RawLink, Linked
<1>6. Regular(u)
  BY <1>1, <1>2, <1>3, <1>5, OneSockRegular
<1>7. /\ u \in Server /\ u.sock[f] = k /\ u.live = s.live /\ u.clientOf = s.clientOf
      /\ u.byClient = s.byClient /\ u.clients = s.clients /\ u.remote = s.remote
  BY <1>1, <1>2, <1>3 DEF Server
<1> HIDE DEF u
<1>8. u.sock[f].state = "ESTABLISHED" /\ u.sock[f].local = a /\ u.sock[f].remote = r
  BY <1>2, <1>7
<1> QED  BY <1>4, <1>6, <1>7, <1>8 DEF f, k, u

LEMMA HandleSabmRegular ==
    ASSUME Regularly, NEW a \in Addr, NEW r \in Remote, NEW f \in Fd, HandleSabm(a, r, f), IInv
    PROVE  up' /\ Regular(s')
<1> DEFINE g == s.remote[<<a, r>>]
<1>1. CASE g = None /\ Unused(f)
  <2> DEFINE n == NewLink(f, a, r, "ESTABLISHED")
  <2>1. f \notin s.live /\ Listens(a) /\ s.remote[<<a, r>>] = None
    BY <1>1 DEF HandleSabm, Unused
  <2>2. Regular(n) /\ s.clientOf[s.local[a]] \in s.clients
    BY <2>1, NewLinkRegular
  <2>3. n \in Server
    BY <2>1, <2>2, NewLinkSafe DEF State, Safe, Closing
  <2>4. s' = FdWatch(n, f) /\ up'
    BY <1>1, <2>2 DEF HandleSabm, Regularly
  <2> HIDE DEF n
  <2> QED  BY <2>2, <2>3, <2>4, FdWatchRegular
<1>2. CASE g # None
  <2> DEFINE u == [s EXCEPT !.sock[g] = [s.sock[g] EXCEPT !.state = "ESTABLISHED"]]
  <2>1. Regular(u) /\ u \in Server /\ u = [s EXCEPT !.sock[g].state = "ESTABLISHED"]
    BY <1>2, LinkedStateRegular
  <2>2. s' = FdWatch(u, g) /\ up'
    <3>1. s' = FdWatch([s EXCEPT !.sock[g].state = "ESTABLISHED"], g) /\ up'
      BY <1>2 DEF HandleSabm, Regularly
    <3> QED  BY <2>1, <3>1
  <2> HIDE DEF u
  <2> QED  BY <2>1, <2>2, FdWatchRegular
<1> QED  BY <1>1, <1>2 DEF HandleSabm

LEMMA HandleUaConnectRegular ==
    ASSUME Regularly, NEW a \in Addr, NEW r \in Remote, HandleUaConnect(a, r)
    PROVE  up' /\ Regular(s')
<1> DEFINE f == s.remote[<<a, r>>]
           c == s.clientOf[f]
           u == [s EXCEPT !.sock[f] = [s.sock[f] EXCEPT !.state = "ESTABLISHED"]]
           v == SockSave(u, c, f)
<1>1. f # None /\ s \in Server /\ Regular(s)
  BY DEF HandleUaConnect, Regularly
<1>2. f \in Fd /\ f \in s.live
  BY <1>1, EntrySock
<1>3. /\ Regular(u) /\ u \in Server /\ u = [s EXCEPT !.sock[f].state = "ESTABLISHED"]
      /\ u.sock[f].state = "ESTABLISHED" /\ u.sock[f].local = a /\ u.sock[f].remote = r
      /\ u.live = s.live /\ u.clientOf = s.clientOf /\ u.byClient = s.byClient
      /\ u.clients = s.clients /\ u.remote = s.remote
  BY <1>1, LinkedStateRegular
<1>4. c \in s.clients /\ c \in Client /\ f \in s.byClient[c]
  BY <1>1, <1>2, Fields DEF Regular, OwnerRegular
<1>5. s' = FdWatch(v, f) /\ up'
  <2>1. s' = FdWatch(SockSave([s EXCEPT !.sock[f].state = "ESTABLISHED"], c, f), f) /\ up'
    BY <1>4 DEF HandleUaConnect, Regularly
  <2> HIDE DEF u, f, c
  <2> QED  BY <1>3, <2>1
<1> HIDE DEF u
<1>6. /\ v \in Server /\ v.live = u.live /\ v.sock = u.sock /\ v.clients = u.clients
      /\ v.byClient = u.byClient /\ v.clientOf = u.clientOf
      /\ v.local = u.local /\ v.remote = u.remote
  <2> DEFINE co == [u.clientOf EXCEPT ![f] = c]
             bc == [u.byClient EXCEPT ![c] = @ \cup {f}]
             re == [u.remote EXCEPT ![<<a, r>>] = f]
             w  == [u EXCEPT !.clientOf = co, !.byClient = bc, !.byFd = @ \cup {f},
                             !.remote = re]
  <2>1. PairOf(u, f) = <<a, r>>
    BY <1>3 DEF PairOf
  <2> DEFINE q == [u EXCEPT !.remote = re]
  <2>2. q = SockSaveRemote(u, f) /\ q.clientOf = u.clientOf /\ q.byClient = u.byClient
    BY <1>3, <2>1 DEF SockSaveRemote, Server
  <2>3. v = [q EXCEPT !.clientOf[f] = c, !.byClient[c] = @ \cup {f}, !.byFd = @ \cup {f}]
    BY <1>3, <2>2 DEF SockSave, Linked
  <2>4. v = w
    BY ZenonT(60), <1>3, <2>2, <2>3 DEF Server
  <2>5. co = u.clientOf
    BY <1>1, <1>2, <1>3, Fields
  <2>6. bc = u.byClient
    <3>1. u.byClient \in [Client -> SUBSET Fd] /\ u.byClient[c] \cup {f} = u.byClient[c]
      BY <1>3, <1>4, Fields
    <3> HIDE DEF f, c
    <3> QED  BY <1>4, <3>1
  <2>7. re = u.remote
    <3>1. u.remote \in [Pair -> Fd \cup {None}] /\ u.remote[<<a, r>>] = f
      BY <1>3, Fields
    <3> HIDE DEF f
    <3> QED  BY <3>1
  <2> HIDE DEF f, c, v, co, bc, re
  <2>8. /\ w.live = u.live /\ w.sock = u.sock /\ w.clients = u.clients /\ w.byClient = bc
        /\ w.clientOf = co /\ w.local = u.local /\ w.remote = re
    BY <1>3 DEF Server
  <2>9. w \in Server
    BY <1>2, <1>3, <2>5, <2>6, <2>7 DEF Server
  <2> QED  BY <2>4, <2>5, <2>6, <2>7, <2>8, <2>9
<1>7. Regular(v)
  <2> HIDE DEF v
  <2> QED  BY <1>3, <1>6, SameRegular
<1> HIDE DEF v
<1> QED  BY <1>5, <1>6, <1>7, FdWatchRegular

LEMMA HandleEndRegular ==
    ASSUME Regularly, NEW a \in Addr, NEW r \in Remote, HandleReleased(a, r) \/ HandleDisc(a, r)
    PROVE  up' /\ Regular(s')
<1> DEFINE f == s.remote[<<a, r>>]
<1>1. s \in Server /\ Regular(s) /\ up /\ f \in s.live /\ s' = SockClose(s, f)
  BY DEF Regularly, HandleReleased, HandleDisc
<1>2. Closes(s, f)
  BY <1>1, RegularCloses
<1>3. up'
  BY <1>1, <1>2 DEF HandleReleased, HandleDisc
<1> QED  BY <1>1, <1>3, SockCloseRegular

LEMMA HandleSockRegular ==
    ASSUME Regularly, NEW f \in Fd, HandleSock(f), IInv
    PROVE  up' /\ Regular(s')
<1> DEFINE t == SockShutdown(s, {f})
<1>1. s \in Server /\ Regular(s) /\ f \in s.live /\ up
  BY DEF Regularly, IInv, Safe, Closing, HandleSock, HandleSockT1, HandleSockEof, HandleSockClose
<1>2. Regular(t) /\ t \in Server /\ t.live = s.live
  BY <1>1, ShutdownRegular, SockShutdownSafe DEF IInv, Safe, Closing
<1>3. Closes(s, f)
  BY <1>1, RegularCloses
<1> HIDE DEF t
<1>4. Regular(SockClose(s, f)) /\ Regular(SockClose(t, f))
  BY <1>1, <1>2, SockCloseRegular
<1> QED  BY <1>1, <1>2, <1>3, <1>4
         DEF HandleSock, HandleSockT1, HandleSockEof, HandleSockClose, t

\* No frame meets an entry of a socket that was destroyed.
LEMMA NoStaleLookup ==
    ASSUME Regularly, NEW a \in Addr, NEW r \in Remote PROVE ~StaleLookup(a, r)
<1>1. s.remote[<<a, r>>] # None => s.remote[<<a, r>>] \in s.live
  BY EntrySock
<1>2. s.local[a] # None => s.local[a] \in s.live
  <2>1. s \in Server /\ Regular(s) /\ s.local[a] \in Fd \cup {None}
    BY Fields, AddrFacts DEF Regularly
  <2> QED  BY <2>1 DEF Regular, LocalRegular
<1> QED  BY <1>1, <1>2 DEF StaleLookup

LEMMA InitRegular == Init => RInv
<1> SUFFICES ASSUME Init PROVE up /\ Regular(s)
  BY DEF RInv
<1>1. /\ up /\ s.live = {} /\ s.clients = {}
      /\ \A a \in Local : s.local[a] = None /\ \A p \in Pair : s.remote[p] = None
  BY DEF Init
<1>2. \A a \in Addr : s.local[a] = None /\ \A r \in Remote : s.remote[<<a, r>>] = None
  BY <1>1, AddrFacts
<1>3. RawRegular(s) /\ OwnerRegular(s)
  BY <1>1 DEF RawRegular, OwnerRegular
<1>4. LocalRegular(s) /\ RemoteRegular(s)
  BY <1>1, <1>2, AddrFacts DEF LocalRegular, RemoteRegular
<1> QED  BY <1>1, <1>3, <1>4 DEF Regular

\* A broken rule is not forgotten.
LEMMA IrregularStays == Next /\ irregular => irregular'
<1>1. ASSUME irregular, NEW c \in Client, Call(c) PROVE irregular'
  <2>1. CASE AcceptClient(c) \/ HandleClientGone(c)
    BY <1>1, <2>1 DEF AcceptClient, HandleClientGone, Undefined
  <2>2. ASSUME NEW f \in Fd, \/ \E type \in Types : ServerSocket(c, f, type)
                            \/ \E promisc \in BOOLEAN : ServerSetsockopt(c, f, promisc)
                            \/ \E a \in Addr : ServerBind(c, f, a)
        PROVE  irregular'
    BY <1>1, <2>2 DEF ServerSocket, ServerSetsockopt, ServerBind, Heed
  <2>3. ASSUME NEW f \in Fd, \/ ServerListen(c, f) \/ ServerClose(c, f)
                            \/ \E r \in Remote : ServerConnect(c, f, r)
        PROVE  irregular'
    BY <1>1, <2>3 DEF ServerListen, ServerClose, ServerConnect, Heed
  <2> QED  BY <1>1, <2>1, <2>2, <2>3 DEF Call
<1>2. ASSUME irregular, NEW a \in Addr, NEW r \in Remote, HandleFrame(a, r) PROVE irregular'
  <2>1. ASSUME NEW f \in Fd, HandleXid(a, r, f) \/ HandleSabm(a, r, f) PROVE irregular'
    BY <1>2, <2>1 DEF HandleXid, HandleSabm, Fails
  <2> QED  BY <1>2, <2>1 DEF HandleFrame, StaleLookup, HandleXidRefused, HandleUaConnect,
                             HandleReleased, HandleDisc, Undefined, Fails
<1>3. ASSUME irregular, NEW f \in Fd, HandleSock(f) PROVE irregular'
  BY <1>3 DEF HandleSock, HandleSockT1, HandleSockEof, HandleSockClose
<1> QED  BY <1>1, <1>2, <1>3 DEF Next

LEMMA NextRegular == IInv /\ RInv /\ [Next]_vars => RInv'
<1>1. ASSUME IInv, RInv, Next, ~irregular' PROVE up' /\ Regular(s')
  <2>1. Regularly /\ s.byFd = s.live
    BY <1>1, IrregularStays DEF RInv, Regularly, IInv, Safe, Closing
  <2>2. ASSUME NEW c \in Client, Call(c) PROVE up' /\ Regular(s')
    <3>1. CASE AcceptClient(c)
      BY <2>1, <3>1, AcceptClientRegular
    <3>2. CASE HandleClientGone(c)
      BY <1>1, <2>1, <3>2, HandleClientGoneRegular
    <3>3. ASSUME NEW f \in Fd, NEW type \in Types, ServerSocket(c, f, type)
          PROVE  up' /\ Regular(s')
      BY <1>1, <2>1, <3>3, ServerSocketRegular
    <3>4. ASSUME NEW f \in Fd, NEW promisc \in BOOLEAN, ServerSetsockopt(c, f, promisc)
          PROVE  up' /\ Regular(s')
      BY <2>1, <3>4, ServerSetsockoptRegular
    <3>5. ASSUME NEW f \in Fd, NEW a \in Addr, ServerBind(c, f, a) PROVE up' /\ Regular(s')
      BY <1>1, <2>1, <3>5, ServerBindRegular
    <3>6. ASSUME NEW f \in Fd, ServerListen(c, f) PROVE up' /\ Regular(s')
      BY <1>1, <2>1, <3>6, ServerListenRegular
    <3>7. ASSUME NEW f \in Fd, NEW r \in Remote, ServerConnect(c, f, r)
          PROVE  up' /\ Regular(s')
      BY <1>1, <2>1, <3>7, ServerConnectRegular
    <3>8. ASSUME NEW f \in Fd, ServerClose(c, f) PROVE up' /\ Regular(s')
      BY <1>1, <2>1, <3>8, ServerCloseRegular
    <3> QED  BY <2>2, <3>1, <3>2, <3>3, <3>4, <3>5, <3>6, <3>7, <3>8 DEF Call
  <2>3. ASSUME NEW a \in Addr, NEW r \in Remote, HandleFrame(a, r) PROVE up' /\ Regular(s')
    <3>1. ~StaleLookup(a, r)
      BY <2>1, NoStaleLookup
    <3>2. ~HandleXidRefused(a, r)
      BY <1>1 DEF HandleXidRefused
    <3>3. ASSUME NEW f \in Fd, HandleXid(a, r, f) PROVE up' /\ Regular(s')
      BY <2>1, <3>3, HandleXidRegular
    <3>4. ASSUME NEW f \in Fd, HandleSabm(a, r, f) PROVE up' /\ Regular(s')
      BY <1>1, <2>1, <3>4, HandleSabmRegular
    <3>5. CASE HandleUaConnect(a, r)
      BY <2>1, <3>5, HandleUaConnectRegular
    <3>6. CASE HandleReleased(a, r) \/ HandleDisc(a, r)
      BY <2>1, <3>6, HandleEndRegular
    <3> QED  BY <2>3, <3>1, <3>2, <3>3, <3>4, <3>5, <3>6 DEF HandleFrame
  <2>4. ASSUME NEW f \in Fd, HandleSock(f) PROVE up' /\ Regular(s')
    BY <1>1, <2>1, <2>4, HandleSockRegular
  <2> QED  BY <1>1, <2>2, <2>3, <2>4 DEF Next
<1>2. ASSUME RInv, UNCHANGED vars PROVE RInv'
  BY <1>2 DEF RInv, vars
<1> QED  BY <1>1, <1>2 DEF RInv

LEMMA AlwaysRegular == Spec => [](IInv /\ RInv)
BY InitSafe, NextSafe, InitRegular, NextRegular, PTL DEF Spec

\* As long as the clients keep the rules the server relies on, socks_local and
\* socks_remote have exactly one entry for each listener and each link, and no
\* other: every frame finds its socket, and no frame one that was destroyed.
THEOREM AlwaysTablesAgree == Spec => []TablesAgree
<1>1. ASSUME IInv, RInv PROVE TablesAgree
  <2> SUFFICES ASSUME ~irregular PROVE TablesAgree
    BY DEF TablesAgree
  <2>1. Regular(s)
    BY <1>1 DEF RInv
  <2>2. \A a \in Addr, f \in Fd :
            s.local[a] = f <=> /\ f \in s.live /\ s.sock[f].state = "LISTENING"
                               /\ s.sock[f].local = a
    BY <2>1 DEF Regular, LocalRegular
  <2>3. ASSUME NEW a \in Addr, NEW r \in Remote, NEW f \in Fd
        PROVE  s.remote[<<a, r>>] = f <=> /\ f \in s.live /\ s.sock[f].state \in Linked
                                          /\ PairOf(s, f) = <<a, r>>
    <3>1. PairOf(s, f) = <<a, r>> <=> s.sock[f].local = a /\ s.sock[f].remote = r
      BY DEF PairOf
    <3> QED  BY <2>1, <3>1 DEF Regular, RemoteRegular
  <2> QED  BY <2>2, <2>3 DEF TablesAgree
<1> QED  BY <1>1, AlwaysRegular, PTL

\* As long as the rules are kept, sock_close() succeeds for every socket, and
\* socks_by_client holds exactly the sockets of each client: when a client's
\* connection ends, handle_client() closes all it had.
THEOREM AlwaysNoOrphan == Spec => []NoOrphan
<1>1. ASSUME IInv, RInv PROVE NoOrphan
  <2> SUFFICES ASSUME ~irregular PROVE NoOrphan
    BY DEF NoOrphan
  <2>1. Regular(s) /\ s \in Server
    BY <1>1 DEF RInv, IInv, Safe, Closing
  <2>2. \A f \in s.live : Closes(s, f)
    BY <2>1, RegularCloses
  <2> QED  BY <2>1, <2>2 DEF NoOrphan, Regular, OwnerRegular
<1> QED  BY <1>1, AlwaysRegular, PTL

\* As long as the rules are kept, no handler returns the error that ends the
\* event loop, and none follows a pointer to a socket that was destroyed.
THEOREM AlwaysDaemonStays == Spec => []DaemonStays
<1>1. RInv => DaemonStays
  BY DEF RInv, DaemonStays
<1> QED  BY <1>1, AlwaysRegular, PTL
=============================================================================
