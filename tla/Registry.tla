------------------------------ MODULE Registry ------------------------------
(***************************************************************************)
(* The tables of the server (src/src/server.c): its clients, the sockets    *)
(* they own, and the sockets by descriptor, by local address (listeners)    *)
(* and by pair of addresses (links).  The calls of the clients, the frames  *)
(* and the timers create, find and destroy sockets through them.            *)
(*                                                                          *)
(* s is the whole state of the server; an operator takes one and gives the  *)
(* one after it.  A socket is named by its descriptor, and a table entry by *)
(* the descriptor of the socket that its pointer was made from; as long as  *)
(* an entry points to a socket that was destroyed, no new one gets its      *)
(* name.  The tables are maps (see Dict): the low digits of descriptors and *)
(* hashes are taken to differ.  Reads, writes and malloc() do not fail.     *)
(*                                                                          *)
(* A call names a descriptor the server gave to some client, at some time:  *)
(* the server asks neither whose socket it is nor whether it is still the   *)
(* one that the client knew.                                                *)
(***************************************************************************)
EXTENDS Integers, FiniteSets

CONSTANTS
    Fd,          \* descriptors of the ptys of the sockets
    Client,      \* descriptors of the connections of the clients
    ServerFd,    \* descriptor of the listening Unix socket
    Scan,        \* descriptors that fd_clear() looks at: 64
    Types,       \* types of sockets that are asked for
    Addr,        \* local addresses
    IfAddr,      \* the address of the interface of the default route
    Remote,      \* addresses of other stations
    NoAddr,      \* the empty address
    None         \* no entry

ASSUME RegistryAssumption ==
    /\ Scan \in Nat
    /\ Fd \subseteq 0 .. (Scan - 1) /\ Client \subseteq 0 .. (Scan - 1)
    /\ ServerFd \in 0 .. (Scan - 1)
    /\ Fd \cap Client = {} /\ ServerFd \notin Fd \cup Client
    /\ Types \subseteq {"STREAM", "DGRAM", "RAW"}
    /\ IfAddr \in Addr
    /\ NoAddr \notin Addr \cup Remote
    /\ None \notin Nat

VARIABLES
    s,           \* the server
    up,          \* the daemon has not ended
    irregular    \* history: a rule the server relies on was broken

vars == <<s, up, irregular>>

---------------------------------------------------------------------------
State == {"CLOSED", "LISTENING", "PENDING_ACCEPT", "PENDING_CONNECT",
          "PENDING_DISCONNECT", "ESTABLISHED", "PROMISC"}

\* The states in which a socket has its entry in socks_remote.
Linked == {"PENDING_ACCEPT", "PENDING_CONNECT", "PENDING_DISCONNECT", "ESTABLISHED"}

Local == Addr \cup {NoAddr}
Pair  == Local \X (Remote \cup {NoAddr})

Socket == [type : {"STREAM", "DGRAM", "RAW"}, state : State,
           local : Local, remote : Remote \cup {NoAddr}]

NoSock == [type |-> "STREAM", state |-> "CLOSED", local |-> NoAddr, remote |-> NoAddr]

Server == [live     : SUBSET Fd,             \* sockets that exist
           sock     : [Fd -> Socket],
           byFd     : SUBSET Fd,             \* socks_by_fd
           clients  : SUBSET Client,
           byClient : [Client -> SUBSET Fd], \* socks_by_client
           clientOf : [Fd -> Client \cup {None}],  \* clients_by_sock
           local    : [Local -> Fd \cup {None}],   \* socks_local
           remote   : [Pair -> Fd \cup {None}],    \* socks_remote
           watch    : SUBSET (0 .. (Scan - 1)),    \* fds_watch
           fdMax    : Nat]

PairOf(t, f) == <<t.sock[f].local, t.sock[f].remote>>

---------------------------------------------------------------------------
\* fd_watch()
FdWatch(t, fd) ==
    [t EXCEPT !.watch = @ \cup {fd}, !.fdMax = IF @ <= fd THEN fd + 1 ELSE @]

\* fd_clear() of each descriptor in F.  The listening socket is among the rest.
FdClear(t, F) ==
    LET rest == t.watch \ F
    IN  [t EXCEPT !.watch = rest,
                  !.fdMax = IF @ - 1 \in F
                            THEN 1 + CHOOSE i \in rest : \A j \in rest : j <= i
                            ELSE @]

---------------------------------------------------------------------------
\* patty_ax25_sock_new() with descriptor f
SockNew(t, f, sock) == [t EXCEPT !.live = @ \cup {f}, !.sock[f] = sock]

SockSaveLocal(t, f)  == [t EXCEPT !.local[t.sock[f].local] = f]
SockSaveRemote(t, f) == [t EXCEPT !.remote[PairOf(t, f)] = f]

\* Mutant: the socket is not added to those of its client.
SockSaveNoClient(t, c, f) ==
    LET u == IF t.sock[f].state = "LISTENING" THEN SockSaveLocal(t, f)
             ELSE IF t.sock[f].state \in Linked \ {"PENDING_DISCONNECT"}
             THEN SockSaveRemote(t, f)
             ELSE t
    IN  [u EXCEPT !.clientOf[f] = c, !.byFd = @ \cup {f}]

\* sock_save() for a client whose table exists
SockSave(t, c, f) ==
    LET u == IF t.sock[f].state = "LISTENING" THEN SockSaveLocal(t, f)
             ELSE IF t.sock[f].state \in Linked \ {"PENDING_DISCONNECT"}
             THEN SockSaveRemote(t, f)
             ELSE t
    IN  [u EXCEPT !.clientOf[f] = c, !.byClient[c] = @ \cup {f}, !.byFd = @ \cup {f}]

\* sock_shutdown() of each socket in F
SockShutdown(t, F) ==
    FdClear([t EXCEPT !.sock =
        [f \in Fd |-> IF /\ f \in F
                         /\ t.sock[f].type = "STREAM"
                         /\ t.sock[f].state = "ESTABLISHED"
                      THEN [t.sock[f] EXCEPT !.state = "PENDING_DISCONNECT"]
                      ELSE t.sock[f]]], F)

---------------------------------------------------------------------------
(***************************************************************************)
(* sock_close().  The entry of the socket's state must be there, and the    *)
(* socket must be among those of its client; otherwise it stops half-way.   *)
(* The entry is deleted by its key, whichever socket it points to.          *)
(***************************************************************************)
HasEntry(t, f) ==
    /\ t.sock[f].state = "LISTENING" => t.local[t.sock[f].local] # None
    /\ t.sock[f].state \in Linked => t.remote[PairOf(t, f)] # None

\* Two sockets that delete the same entry.
SameEntry(t, f, g) ==
    \/ /\ t.sock[f].state = "LISTENING" /\ t.sock[g].state = "LISTENING"
       /\ t.sock[f].local = t.sock[g].local
    \/ /\ t.sock[f].state \in Linked /\ t.sock[g].state \in Linked
       /\ PairOf(t, f) = PairOf(t, g)

Owned(t, f) == t.clientOf[f] \in t.clients /\ f \in t.byClient[t.clientOf[f]]

\* Mutant: PENDING_DISCONNECT is missing among the cases.
DeleteEntriesCase(t, F) ==
    [t EXCEPT
       !.local = [a \in Local |->
           IF \E f \in F : t.sock[f].state = "LISTENING" /\ t.sock[f].local = a
           THEN None ELSE t.local[a]],
       !.remote = [p \in Pair |->
           IF \E f \in F : /\ t.sock[f].state \in Linked \ {"PENDING_DISCONNECT"}
                           /\ PairOf(t, f) = p
           THEN None ELSE t.remote[p]]]

DeleteEntries(t, F) ==
    [t EXCEPT
       !.local = [a \in Local |->
           IF \E f \in F : t.sock[f].state = "LISTENING" /\ t.sock[f].local = a
           THEN None ELSE t.local[a]],
       !.remote = [p \in Pair |->
           IF \E f \in F : t.sock[f].state \in Linked /\ PairOf(t, f) = p
           THEN None ELSE t.remote[p]]]

\* Mutant: the descriptor of a destroyed socket stays in fds_watch.
SockDestroyWatched(t, F) ==
    [t EXCEPT !.byFd = @ \ F,
              !.byClient = [c \in Client |-> @[c] \ {f \in F : t.clientOf[f] = c}],
              !.clientOf = [f \in Fd |-> IF f \in F THEN None ELSE @[f]],
              !.live = @ \ F,
              !.sock = [f \in Fd |-> IF f \in F THEN NoSock ELSE @[f]]]

\* The rest of sock_close(), for the sockets in F.
SockDestroy(t, F) ==
    FdClear([t EXCEPT !.byFd = @ \ F,
                      !.byClient = [c \in Client |-> @[c] \ {f \in F : t.clientOf[f] = c}],
                      !.clientOf = [f \in Fd |-> IF f \in F THEN None ELSE @[f]],
                      !.live = @ \ F,
                      !.sock = [f \in Fd |-> IF f \in F THEN NoSock ELSE @[f]]], F)

Closes(t, f) == HasEntry(t, f) /\ Owned(t, f)

SockClose(t, f) ==
    IF ~HasEntry(t, f) THEN t
    ELSE IF ~Owned(t, f) THEN DeleteEntries(t, {f})
    ELSE SockDestroy(DeleteEntries(t, {f}), {f})

---------------------------------------------------------------------------
(***************************************************************************)
(* What the server relies on and does not check (see also HandleXidRefused).*)
(***************************************************************************)
\* One raw socket that is not promiscuous: all of them have the empty pair.
CarefulSocket(type) ==
    type = "RAW" => \A f \in s.live : s.sock[f].type = "RAW" => s.sock[f].state = "PROMISC"

\* An address is given to a new socket, and by one call of listen() used.
CarefulBind(f)   == s.sock[f].state = "CLOSED"
CarefulListen(f) == s.sock[f].state = "CLOSED" /\ s.local[s.sock[f].local] = None

\* A client connects its own socket, always to the same station, and there is
\* no other socket for the two addresses.
CarefulConnect(c, f, l, r) ==
    /\ s.clientOf[f] = c
    /\ s.sock[f].remote \in {NoAddr, r}
    /\ s.remote[<<l, r>>] \in {None, f}

Heed(careful) == irregular' = (irregular \/ ~careful)

---------------------------------------------------------------------------
Init ==
    /\ s = [live |-> {}, sock |-> [f \in Fd |-> NoSock], byFd |-> {}, clients |-> {},
            byClient |-> [c \in Client |-> {}], clientOf |-> [f \in Fd |-> None],
            local |-> [a \in Local |-> None], remote |-> [p \in Pair |-> None],
            watch |-> {ServerFd}, fdMax |-> ServerFd + 1]
    /\ up = TRUE
    /\ irregular = FALSE

\* No table names f.  (The entry of the empty pair is never followed.)
Unused(f) ==
    /\ f \notin s.live
    /\ \A c \in Client : f \notin s.byClient[c]
    /\ \A a \in Local : s.local[a] # f
    /\ \A a \in Addr, r \in Remote : s.remote[<<a, r>>] # f

\* accept_client()
AcceptClient(c) ==
    /\ up /\ c \notin s.clients
    /\ s' = FdWatch([s EXCEPT !.clients = @ \cup {c}, !.byClient[c] = {}], c)
    /\ UNCHANGED <<up, irregular>>

\* server_socket().  A raw socket is ESTABLISHED from the start.
ServerSocket(c, f, type) ==
    /\ up /\ c \in s.clients /\ Unused(f)
    /\ s' = SockSave(SockNew(s, f, [NoSock EXCEPT !.type = type,
                         !.state = IF type = "RAW" THEN "ESTABLISHED" ELSE "CLOSED"]), c, f)
    /\ Heed(CarefulSocket(type))
    /\ UNCHANGED up

\* server_setsockopt() with PATTY_AX25_SOCK_IF: promiscuous or not
ServerSetsockopt(c, f, promisc) ==
    /\ up /\ c \in s.clients /\ f \in s.byFd
    /\ s.sock[f].type = "RAW"
    /\ s' = FdWatch(IF promisc THEN [s EXCEPT !.sock[f].state = "PROMISC"] ELSE s, f)
    /\ UNCHANGED <<up, irregular>>

\* server_bind()
ServerBind(c, f, a) ==
    /\ up /\ c \in s.clients /\ f \in s.byFd
    /\ s.sock[f].local = NoAddr
    /\ s.local[a] = None
    /\ s' = [s EXCEPT !.sock[f].local = a]
    /\ Heed(CarefulBind(f))
    /\ UNCHANGED up

\* server_listen()
ServerListen(c, f) ==
    /\ up /\ c \in s.clients /\ f \in s.byFd
    /\ s.sock[f].local # NoAddr
    /\ s' = SockSaveLocal([s EXCEPT !.sock[f].state = "LISTENING"], f)
    /\ Heed(CarefulListen(f))
    /\ UNCHANGED up

\* server_connect(), over the default route
ServerConnect(c, f, r) ==
    LET l == IF s.sock[f].local = NoAddr THEN IfAddr ELSE s.sock[f].local
        t == [s EXCEPT !.sock[f].local = l, !.sock[f].remote = r]
    IN  /\ up /\ c \in s.clients /\ f \in s.byFd
        /\ s.sock[f].type # "RAW"
        /\ s.sock[f].state \notin {"LISTENING", "ESTABLISHED"}
        /\ s' = [SockSaveRemote(t, f) EXCEPT
                    !.clientOf[f] = c,
                    !.sock[f].state = IF s.sock[f].type = "DGRAM" THEN "ESTABLISHED"
                                                                  ELSE "PENDING_CONNECT"]
        /\ Heed(CarefulConnect(c, f, l, r))
        /\ UNCHANGED up

\* server_close()
ServerClose(c, f) ==
    /\ up /\ c \in s.clients /\ f \in s.byFd
    /\ s' = SockClose(SockShutdown(s, {f}), f)
    /\ UNCHANGED <<up, irregular>>

(***************************************************************************)
(* handle_client() finds the connection closed: client_sock_close() for     *)
(* each of the client's sockets, until one fails.                           *)
(***************************************************************************)
Closed(c) ==
    {f \in s.byClient[c] :
        \A g \in s.byClient[c] : g <= f =>
            /\ Closes(s, g)
            /\ \A h \in s.byClient[c] : h < g => ~SameEntry(s, h, g)}

\* The socket on which the loop stops.
FailsOn(c) ==
    {f \in s.byClient[c] \ Closed(c) : \A g \in s.byClient[c] \ Closed(c) : f <= g}

\* A pointer to a socket that was destroyed is followed.
Undefined == up' = FALSE /\ UNCHANGED <<s, irregular>>

\* Mutant: the sockets of the client are left open.
HandleClientGoneOnly(c) ==
    /\ up /\ c \in s.clients
    /\ s' = FdClear([s EXCEPT !.clients = @ \ {c}, !.byClient[c] = {}], {c})
    /\ UNCHANGED <<up, irregular>>

HandleClientGone(c) ==
    LET shut == SockShutdown(s, Closed(c) \cup FailsOn(c))
        \* the failed one has lost its entry if only its owner was wrong
        lost == {f \in FailsOn(c) : /\ HasEntry(s, f)
                                    /\ \A g \in Closed(c) : ~SameEntry(s, g, f)}
        t    == SockDestroy(DeleteEntries(shut, Closed(c) \cup lost), Closed(c))
    IN  /\ up /\ c \in s.clients
        /\ \/ /\ s.byClient[c] \subseteq s.live
              /\ s' = FdClear([t EXCEPT !.clients = @ \ {c}, !.byClient[c] = {}], {c})
              /\ UNCHANGED <<up, irregular>>
           \/ ~(s.byClient[c] \subseteq s.live) /\ Undefined

---------------------------------------------------------------------------
(***************************************************************************)
(* Frames from station r to the local address a.                            *)
(***************************************************************************)
\* The daemon ends: an error is returned to patty_ax25_server_event_handle().
Fails == up' = FALSE /\ UNCHANGED <<s, irregular>>

\* handle_frame() looks the pair up; handle_sabm() and handle_xid() the address.
StaleLookup(a, r) ==
    /\ up
    /\ \/ s.remote[<<a, r>>] # None /\ s.remote[<<a, r>>] \notin s.live
       \/ s.local[a] # None /\ s.local[a] \notin s.live
    /\ Undefined

Listens(a) == /\ s.local[a] # None /\ s.local[a] \in s.live
              /\ s.sock[s.local[a]].state = "LISTENING"

\* A socket for a caller, as handle_xid() and handle_sabm() make it.
NewLink(f, a, r, state) ==
    LET c == s.clientOf[s.local[a]]
    IN  SockSave(SockNew(s, f, [type |-> s.sock[s.local[a]].type, state |-> state,
                                local |-> a, remote |-> r]), c, f)

\* handle_xid() for a listener: a new socket, unless its client is gone.
HandleXid(a, r, f) ==
    /\ up /\ Listens(a) /\ s.remote[<<a, r>>] = None /\ Unused(f)
    /\ \/ /\ s.clientOf[s.local[a]] \in s.clients
          /\ s' = NewLink(f, a, r, "PENDING_ACCEPT")
          /\ UNCHANGED <<up, irregular>>
       \/ s.clientOf[s.local[a]] \notin s.clients /\ Fails

\* handle_xid() with parameters that cannot be negotiated: the connecting
\* socket is initialised and so CLOSED, its entry stays.
HandleXidRefused(a, r) ==
    LET f == s.remote[<<a, r>>]
    IN  /\ up /\ f # None /\ f \in s.live
        /\ s.sock[f].state = "PENDING_CONNECT"
        /\ s' = [s EXCEPT !.sock[f].state = "CLOSED"]
        /\ irregular' = TRUE
        /\ UNCHANGED up

\* handle_sabm(): a link is accepted, on a new socket or on that of an XID.
HandleSabm(a, r, f) ==
    LET g == s.remote[<<a, r>>]
    IN  /\ up /\ Listens(a) /\ s.sock[s.local[a]].type = "STREAM"
        /\ \/ /\ g = None /\ Unused(f)
              /\ s.clientOf[s.local[a]] \in s.clients
              /\ s' = FdWatch(NewLink(f, a, r, "ESTABLISHED"), f)
              /\ UNCHANGED <<up, irregular>>
           \/ g = None /\ Unused(f) /\ s.clientOf[s.local[a]] \notin s.clients /\ Fails
           \/ /\ g # None /\ g \in s.live /\ s.sock[g].state = "PENDING_ACCEPT"
              /\ s' = FdWatch([s EXCEPT !.sock[g].state = "ESTABLISHED"], g)
              /\ UNCHANGED <<up, irregular>>

\* handle_ua() for a connecting socket, which is saved once more.
HandleUaConnect(a, r) ==
    LET f == s.remote[<<a, r>>]
    IN  /\ up /\ f # None /\ f \in s.live
        /\ s.sock[f].state = "PENDING_CONNECT"
        /\ \/ /\ s.clientOf[f] \in s.clients
              /\ s' = FdWatch(SockSave([s EXCEPT !.sock[f].state = "ESTABLISHED"],
                                       s.clientOf[f], f), f)
              /\ UNCHANGED <<up, irregular>>
           \/ s.clientOf[f] \notin s.clients /\ Fails

\* handle_ua() and handle_dm() for a socket that waits for one of them.
HandleReleased(a, r) ==
    LET f == s.remote[<<a, r>>]
    IN  /\ up /\ f # None /\ f \in s.live
        /\ s.sock[f].state = "PENDING_DISCONNECT"
        /\ s' = SockClose(s, f)
        /\ up' = Closes(s, f)
        /\ UNCHANGED irregular

\* handle_disc() for a link
HandleDisc(a, r) ==
    LET f == s.remote[<<a, r>>]
    IN  /\ up /\ f # None /\ f \in s.live
        /\ s.sock[f].state = "ESTABLISHED"
        /\ s' = SockClose(s, f)
        /\ UNCHANGED <<up, irregular>>

---------------------------------------------------------------------------
(***************************************************************************)
(* handle_sock()                                                            *)
(***************************************************************************)
\* The last retry of T1.  A failure of sock_close() is ignored in two states.
HandleSockT1(f) ==
    /\ up /\ f \in s.byFd
    /\ s.sock[f].type = "STREAM" /\ s.sock[f].state \in Linked
    /\ s' = SockClose(IF s.sock[f].state \in {"PENDING_CONNECT", "ESTABLISHED"}
                      THEN SockShutdown(s, {f}) ELSE s, f)
    /\ up' = (Closes(s, f) \/ s.sock[f].state \in {"PENDING_ACCEPT", "PENDING_CONNECT"})
    /\ UNCHANGED irregular

\* The pty of a stream socket is closed, or its link cannot send.
HandleSockEof(f) ==
    /\ up /\ f \in s.byFd \cap s.watch /\ s.sock[f].type = "STREAM"
    /\ s' = SockShutdown(s, {f})
    /\ UNCHANGED <<up, irregular>>

HandleSockClose(f) ==
    /\ up /\ f \in s.byFd \cap s.watch /\ s.sock[f].type \in {"STREAM", "RAW"}
    /\ s' = SockClose(s, f)
    /\ UNCHANGED <<up, irregular>>

---------------------------------------------------------------------------
Call(c) ==
    \/ AcceptClient(c)
    \/ HandleClientGone(c)
    \/ \E f \in Fd :
          \/ \E type \in Types : ServerSocket(c, f, type)
          \/ \E promisc \in BOOLEAN : ServerSetsockopt(c, f, promisc)
          \/ \E a \in Addr : ServerBind(c, f, a)
          \/ ServerListen(c, f)
          \/ \E r \in Remote : ServerConnect(c, f, r)
          \/ ServerClose(c, f)

HandleFrame(a, r) ==
    \/ StaleLookup(a, r)
    \/ \E f \in Fd : HandleXid(a, r, f) \/ HandleSabm(a, r, f)
    \/ HandleXidRefused(a, r)
    \/ HandleUaConnect(a, r)
    \/ HandleReleased(a, r)
    \/ HandleDisc(a, r)

HandleSock(f) == HandleSockT1(f) \/ HandleSockEof(f) \/ HandleSockClose(f)

Next ==
    \/ \E c \in Client : Call(c)
    \/ \E a \in Addr, r \in Remote : HandleFrame(a, r)
    \/ \E f \in Fd : HandleSock(f)

Spec == Init /\ [][Next]_vars

---------------------------------------------------------------------------
TypeOK ==
    /\ s \in Server
    /\ up \in BOOLEAN
    /\ irregular \in BOOLEAN

\* Whatever clients and stations do: handle_socks() goes through sockets that
\* exist and have a client, select() is given open descriptors only, and none
\* above fd_max.
LoopSafe ==
    /\ s.byFd = s.live
    /\ \A f \in s.live : s.clientOf[f] # None
    /\ s.watch \subseteq s.live \cup s.clients \cup {ServerFd}
    /\ \A fd \in s.watch : fd < s.fdMax

\* As long as the rules are kept, an entry for an address or a pair points to
\* the one socket that has them, and every such socket has its entry: a frame
\* never meets a socket that was destroyed, nor misses one that is there.
TablesAgree ==
    irregular \/
        /\ \A a \in Addr, f \in Fd :
              s.local[a] = f <=> /\ f \in s.live /\ s.sock[f].state = "LISTENING"
                                 /\ s.sock[f].local = a
        /\ \A a \in Addr, r \in Remote, f \in Fd :
              s.remote[<<a, r>>] = f <=> /\ f \in s.live /\ s.sock[f].state \in Linked
                                         /\ PairOf(s, f) = <<a, r>>

\* As long as the rules are kept, every socket is one of its client's, who is
\* there, and can be closed: a client that goes away leaves no socket behind.
NoOrphan ==
    irregular \/
        /\ \A f \in s.live : Closes(s, f)
        /\ \A c \in s.clients : s.byClient[c] = {f \in s.live : s.clientOf[f] = c}

\* As long as the rules are kept, no call, frame or expiry ends the daemon.
DaemonStays == irregular \/ up

=============================================================================
