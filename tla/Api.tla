-------------------------------- MODULE Api --------------------------------
(***************************************************************************)
(* A program that uses the client library (src/src/client.c), and the       *)
(* answers of the server to it (the server_* calls of src/src/server.c and  *)
(* respond_accept, notify_accept, respond_connect).                         *)
(*                                                                          *)
(* Requests go to the server over one stream and answers come back over     *)
(* it.  Nothing in either says where a message begins or which call it      *)
(* belongs to: each side reads as much as it expects.  The answer to        *)
(* connect() comes when the peer or T1 has decided; the connections that    *)
(* accept() takes wait in the pty of the listening socket.                  *)
(*                                                                          *)
(* The server is reduced to what its answers depend on; Registry.tla has    *)
(* its tables.  The number of a descriptor is used again; the path of a pty *)
(* is not, for the server keeps its slave end open.  The program gives its  *)
(* address to one socket at a time and uses no raw sockets, which take no   *)
(* part in connections: Iface has their data, Registry their tables.        *)
(***************************************************************************)
EXTENDS Integers, Sequences, SequencesExt, FiniteSets

CONSTANTS
    Fd,         \* the server's descriptors for ptys
    Types,      \* the types of sockets that the program asks for
    MaxCalls,   \* bound: calls of the program
    MaxSocks,   \* bound: sockets ever made
    MaxPeer     \* bound: frames and expiries that nobody waits for

ASSUME ApiAssumption ==
    /\ Fd \subseteq 1 .. 98 /\ IsFiniteSet(Fd)
    /\ Types \subseteq {"STREAM", "DGRAM"}
    /\ MaxCalls \in Nat /\ MaxSocks \in Nat /\ MaxPeer \in Nat

VARIABLES
    srv,        \* server: the sockets by descriptor
    local,      \* server: the descriptor in socks_local, or 0
    req,        \* the stream to the server
    ans,        \* the stream to the program, in words
    pc,         \* the call that the program is in
    socks,      \* client->socks
    calls,      \* history: calls made
    made,       \* history: sockets made
    peer,       \* history: steps counted by MaxPeer
    odd,        \* history: what happened that the library has no answer to
    wrong       \* history: calls that went wrong

vars == <<srv, local, req, ans, pc, socks, calls, made, peer, odd, wrong>>

---------------------------------------------------------------------------
State == {"CLOSED", "LISTENING", "PENDING_ACCEPT", "PENDING_CONNECT", "ESTABLISHED"}

\* t1: T1 of a pending socket runs; call: the connect() that waits for its
\* answer, or 0; box: what notify_accept() has written to the pty.
Sock == [id : 1 .. MaxSocks, type : {"STREAM", "DGRAM"}, state : State,
         bound : {"no", "bind", "other"}, t1 : BOOLEAN, call : Nat,
         box : Seq([fd : Fd, id : 1 .. MaxSocks])]

NoSock == [id |-> 0]

Live  == {f \in Fd : srv[f] # NoSock}
Ids   == {srv[f].id : f \in Live}
Free  == Fd \ Live
Next1 == CHOOSE f \in Free : \A g \in Free : f <= g

NewSock(type) == [id |-> made + 1, type |-> type, state |-> "CLOSED", bound |-> "no",
                  t1 |-> FALSE, call |-> 0, box |-> <<>>]

EFail == 99   \* any errno

(***************************************************************************)
(* Answers, as words: call is the call a word belongs to, v what it says    *)
(* and so what it should say, id the socket whose path it is.               *)
(***************************************************************************)
Word(c, v, so, id) == [call |-> c, v |-> v, so |-> so, id |-> id]

Return(c, v) == <<Word(c, v, v, 0), Word(c, IF v < 0 THEN EFail ELSE 0, 0, 0)>>

Size(op) == CASE op = "ping" -> 1 [] op = "socket" -> 3 [] OTHER -> 2

---------------------------------------------------------------------------
(***************************************************************************)
(* The program: a call writes its request and waits for the answer.         *)
(***************************************************************************)
Idle == [step |-> "idle", op |-> "ping", sock |-> [fd |-> 0, id |-> 0], call |-> 0]

Request(op, e, arg, c) == <<[op |-> op, fd |-> e.fd, id |-> e.id, arg |-> arg, call |-> c]>>

\* What setsockopt() writes behind its request
Data == [op |-> "data", fd |-> 0, id |-> 0, arg |-> "none", call |-> 0]

Write(op, e, arg, step) ==
    /\ calls' = calls + 1
    /\ req' = req \o Request(op, e, arg, calls')
                  \o (IF op = "setsockopt" THEN <<Data>> ELSE <<>>)
    /\ pc' = [step |-> step, op |-> op, sock |-> e, call |-> calls']

Call(op, e, arg) ==
    /\ pc.step = "idle"
    /\ calls < MaxCalls
    /\ Write(op, e, arg, "answer")
    /\ UNCHANGED <<srv, local, ans, socks, made, peer, odd, wrong>>

Ping         == Call("ping", Idle.sock, "none")
Socket(type) == Call("socket", Idle.sock, type)

\* bind(), listen(), accept(), connect(), close() and the two options
OnSock(op, e) == e \in socks /\ Call(op, e, "none")
SetSockOpt(e, opt) == e \in socks /\ Call("setsockopt", e, opt)

---------------------------------------------------------------------------
(***************************************************************************)
(* The program: the answer.  A read takes as many words as the answer to    *)
(* the call should have, or all that there are.                             *)
(***************************************************************************)
Words == IF Len(ans) < Size(pc.op) THEN Len(ans) ELSE Size(pc.op)
Got   == SubSeq(ans, 1, Words)
Ret   == Got[1].v

\* The answer is the one to this call, and says what happened.
Right == /\ Words = Size(pc.op)
         /\ \A i \in 1 .. Words : Got[i].call = pc.call
         /\ Got[1].v = Got[1].so

\* The path in an answer to socket(): open() works while the socket is there.
Path == IF Words = 3 THEN Got[3].id ELSE 0

Read == /\ pc.step \in {"answer", "undo"}
        /\ ans # <<>>
        /\ ans' = SubSeq(ans, Words + 1, Len(ans))
        /\ wrong' = wrong \cup (IF Right THEN {} ELSE {"answer"})
        /\ UNCHANGED <<srv, local, made, peer, odd>>

\* ping(), setsockopt(), bind(), listen(), connect(), and the request_close()
\* after an open() that failed
ReturnPlain ==
    /\ pc.step = "undo" \/ pc.op \in {"ping", "setsockopt", "bind", "listen", "connect"}
    /\ Read
    /\ pc' = Idle
    /\ UNCHANGED <<req, socks, calls>>

\* Mutant: zero is taken for a failure.
CloseDoneAbove == Words = Size("close") /\ Ret > 0

\* request_close() takes a short answer for a failure.
CloseDone == Words = Size("close") /\ Ret >= 0

\* patty_client_close() forgets the socket if the server could close it.
ReturnClose ==
    /\ pc.step = "answer" /\ pc.op = "close"
    /\ Read
    /\ socks' = IF CloseDone THEN socks \ {pc.sock} ELSE socks
    /\ pc' = Idle
    /\ UNCHANGED <<req, calls>>

ReturnSocket ==
    /\ pc.step = "answer" /\ pc.op = "socket"
    /\ Read
    /\ \/ /\ Path \in Ids
          /\ socks' = socks \cup {[fd |-> Ret, id |-> Path]}
          /\ pc' = Idle
          /\ UNCHANGED <<req, calls>>
       \/ /\ Path \notin Ids
          /\ Write("close", [fd |-> Ret, id |-> Path], "none", "undo")
          /\ UNCHANGED socks

\* patty_client_accept(): first the answer, then the message in the pty
ReturnAccept ==
    /\ pc.step = "answer" /\ pc.op = "accept"
    /\ Read
    /\ pc' = IF Ret < 0 THEN Idle ELSE [pc EXCEPT !.step = "message"]
    /\ UNCHANGED <<req, socks, calls>>

Listener == {f \in Live : srv[f].id = pc.sock.id}

ReadMessage ==
    /\ pc.step = "message"
    /\ \E f \in Listener :
          /\ srv[f].box # <<>>
          /\ LET m == Head(srv[f].box)
             IN  \/ /\ m.id \in Ids
                    /\ socks' = socks \cup {m}
                    /\ pc' = Idle
                    /\ UNCHANGED <<req, calls>>
                 \/ /\ m.id \notin Ids
                    /\ Write("close", m, "none", "undo")
                    /\ UNCHANGED socks
          /\ srv' = [srv EXCEPT ![f].box = Tail(@)]
    /\ UNCHANGED <<local, ans, made, peer, odd, wrong>>

---------------------------------------------------------------------------
(***************************************************************************)
(* The server: handle_client() reads a call and its request.                *)
(***************************************************************************)
R == Head(req)

Found == R.fd \in Live

\* The socket is another one than the program means.
Other == Found /\ srv[R.fd].id # R.id

Serve(op) ==
    /\ req # <<>> /\ R.op = op
    /\ wrong' = wrong \cup (IF Other THEN {"other"} ELSE {})
    /\ UNCHANGED <<pc, socks, calls, peer>>

Answer(v) == req' = Tail(req) /\ ans' = ans \o Return(R.call, v)

ServerPing ==
    /\ Serve("ping")
    /\ req' = Tail(req) /\ ans' = ans \o <<Word(R.call, 1, 1, 0)>>
    /\ UNCHANGED <<srv, local, made, odd>>

ServerSocket ==
    /\ Serve("socket")
    /\ Free # {} /\ made < MaxSocks
    /\ srv' = [srv EXCEPT ![Next1] = NewSock(R.arg)]
    /\ made' = made + 1
    /\ req' = Tail(req)
    /\ ans' = ans \o <<Word(R.call, Next1, Next1, 0), Word(R.call, 0, 0, 0),
                       Word(R.call, 0, 0, made')>>
    /\ UNCHANGED <<local, odd>>

\* An option that is refused leaves its data in the stream; IF is for raw
\* sockets only.
OptionFits == Found /\ R.arg = "PARAMS"

ServerSetSockOpt ==
    /\ Serve("setsockopt")
    /\ \/ /\ OptionFits
          /\ req' = Tail(Tail(req))
          /\ ans' = ans \o Return(R.call, 0)
          /\ UNCHANGED odd
       \/ /\ ~OptionFits
          /\ Answer(-1)
          /\ odd' = odd \cup {"option"}
    /\ UNCHANGED <<srv, local, made>>

\* The data of an option, read as a call: no call, or one nobody made.
ServerData ==
    /\ Serve("data")
    /\ req' = Tail(req)
    /\ \/ UNCHANGED ans
       \/ \E v \in {-1, 0} : ans' = ans \o Return(0, v)
    /\ UNCHANGED <<srv, local, made, odd>>

Binds == Found /\ srv[R.fd].bound = "no" /\ local = 0

ServerBind ==
    /\ Serve("bind")
    /\ \/ /\ Binds
          /\ srv' = [srv EXCEPT ![R.fd].bound = "bind"]
          /\ Answer(0)
       \/ ~Binds /\ Answer(-1) /\ UNCHANGED srv
    /\ UNCHANGED <<local, made, odd>>

\* Without an address, response.ret is not set.
ServerListen ==
    /\ Serve("listen")
    /\ \/ ~Found /\ Answer(-1) /\ UNCHANGED <<srv, local, odd>>
       \/ /\ Found /\ srv[R.fd].bound = "no"
          /\ \E v \in {-1, 0} :
                /\ req' = Tail(req)
                /\ ans' = ans \o <<Word(R.call, v, -1, 0), Word(R.call, EFail, 0, 0)>>
          /\ odd' = odd \cup {"unbound"}
          /\ UNCHANGED <<srv, local>>
       \/ /\ Found /\ srv[R.fd].bound # "no"
          /\ srv' = [srv EXCEPT ![R.fd].state = "LISTENING", ![R.fd].t1 = FALSE]
          /\ local' = R.fd
          /\ Answer(0)
          /\ UNCHANGED odd
    /\ UNCHANGED made


\* respond_accept()
AcceptAnswer(v) == Answer(v)

ServerAccept ==
    /\ Serve("accept")
    /\ AcceptAnswer(IF Found /\ srv[R.fd].type = "STREAM" /\ srv[R.fd].state = "LISTENING"
                    THEN 0 ELSE -1)
    /\ UNCHANGED <<srv, local, made, odd>>

Connects == Found /\ srv[R.fd].state \notin {"LISTENING", "ESTABLISHED"}

\* A datagram socket is connected at once; the program is not told.
ServerConnect ==
    /\ Serve("connect")
    /\ \/ /\ Connects
          /\ srv' = [srv EXCEPT ![R.fd].bound = IF @ = "no" THEN "other" ELSE @,
                                ![R.fd].call  = R.call,
                                ![R.fd].t1    = srv[R.fd].type = "STREAM",
                                ![R.fd].state = IF srv[R.fd].type = "DGRAM"
                                                THEN "ESTABLISHED" ELSE "PENDING_CONNECT"]
          /\ req' = Tail(req)
          /\ UNCHANGED ans
       \/ ~Connects /\ Answer(-1) /\ UNCHANGED srv
    /\ UNCHANGED <<local, made, odd>>

\* sock_close() of descriptor f
Destroyed(f) == [srv EXCEPT ![f] = NoSock]

\* Mutant: the entry in socks_local stays.
UnlistedNot(f) == local

Unlisted(f) == IF srv[f].state = "LISTENING" THEN 0 ELSE local

\* Closing a listening socket loses the connections that wait in its pty.
ServerClose ==
    /\ Serve("close")
    /\ \/ /\ Found
          /\ srv' = Destroyed(R.fd)
          /\ local' = Unlisted(R.fd)
          /\ odd' = odd \cup (IF srv[R.fd].box # <<>> THEN {"unread"} ELSE {})
          /\ Answer(0)
       \/ ~Found /\ Answer(-1) /\ UNCHANGED <<srv, local, odd>>
    /\ UNCHANGED made

---------------------------------------------------------------------------
(***************************************************************************)
(* The stations on the air, and the timers.                                 *)
(***************************************************************************)
Event == UNCHANGED <<req, pc, socks, calls, wrong>>

\* An answer that nobody waits for: the socket goes on connecting after a DM.
Extra(f) == srv[f].call = 0

Told(f) == IF Extra(f) /\ srv[f].state = "PENDING_CONNECT" THEN odd \cup {"again"} ELSE odd

Counted(c) == (c => peer < MaxPeer) /\ peer' = IF c THEN peer + 1 ELSE peer

\* Mutant: a link that is up is taken for one that is being set up.
ConnectingOrUp(f) == /\ srv[f] # NoSock /\ srv[f].type = "STREAM"
                     /\ srv[f].state \in {"PENDING_CONNECT", "ESTABLISHED"}

Connecting(f) == srv[f] # NoSock /\ srv[f].state = "PENDING_CONNECT"

\* respond_connect() to the client of socket f
RespondConnect(f, v) == /\ Counted(Extra(f))
                        /\ ans' = ans \o Return(srv[f].call, v)

\* handle_ua()
HandleUa(f) ==
    /\ Connecting(f)
    /\ RespondConnect(f, 0)
    /\ srv' = [srv EXCEPT ![f].state = "ESTABLISHED", ![f].t1 = FALSE, ![f].call = 0]
    /\ odd' = Told(f)
    /\ Event /\ UNCHANGED <<local, made>>

\* handle_dm() resets the socket, which starts T1, and leaves it connecting; an
\* XID that cannot be negotiated (handle_xid) initialises it.
HandleRefusal(f) ==
    /\ Connecting(f)
    /\ RespondConnect(f, -1)
    /\ \E state \in {"PENDING_CONNECT", "CLOSED"} :
          srv' = [srv EXCEPT ![f].state = state, ![f].t1 = (state = "PENDING_CONNECT"),
                             ![f].call = 0]
    /\ odd' = Told(f)
    /\ Event /\ UNCHANGED <<local, made>>

\* T1 has expired for the last time: the socket is gone, the program has it.
ConnectTimeout(f) ==
    /\ Connecting(f) /\ srv[f].t1
    /\ RespondConnect(f, -1)
    /\ srv' = Destroyed(f)
    /\ odd' = Told(f) \cup {"ended"}
    /\ Event /\ UNCHANGED <<local, made>>

---------------------------------------------------------------------------
\* A socket that handle_xid() has made and no SABM has followed.
Pending(f) == srv[f] # NoSock /\ srv[f].state = "PENDING_ACCEPT"

\* frame_ack() for RR, RNR, REJ or SREJ, in any state: N(R) = V(A) passes for
\* an acknowledgement, and with nothing left to acknowledge T1 stops.
HandleRr(f) ==
    /\ Connecting(f) \/ Pending(f)
    /\ srv[f].t1
    /\ Counted(TRUE)
    /\ srv' = [srv EXCEPT ![f].t1 = FALSE]
    /\ Event /\ UNCHANGED <<local, ans, made, odd>>

\* handle_xid() for the answer to our XID, and handle_frmr(): SABM or SABME
\* goes out and T1 starts.
HandleXidAnswer(f) ==
    /\ Connecting(f)
    /\ Counted(TRUE)
    /\ srv' = [srv EXCEPT ![f].t1 = TRUE]
    /\ Event /\ UNCHANGED <<local, ans, made, odd>>

\* Mutant: the message names the listening socket.
MessageOfLocal(f, id) == [fd |-> local, id |-> id]

\* notify_accept()
Message(f, id) == [fd |-> f, id |-> id]

\* Mutant: the message is not written.
NotifiedNot(box, f, id) == box

Notified(box, f, id) == Append(box, Message(f, id))

\* The bounds keep a place for the socket that was asked for.
Asked == Cardinality({i \in DOMAIN req : req[i].op = "socket"})
Room  == Cardinality(Free) > Asked /\ made + Asked < MaxSocks

\* A socket for the peer of a listening one, of the same type
PeerSock(state) == [NewSock(srv[local].type) EXCEPT !.state = state, !.bound = "other",
                                                    !.t1 = (state = "PENDING_ACCEPT")]

\* handle_xid() for the listening socket, whatever its type: the new socket is
\* in the tables and nobody is told.
HandleXid ==
    /\ Counted(TRUE)
    /\ local # 0 /\ Room
    /\ made' = made + 1
    /\ srv' = [srv EXCEPT ![Next1] = PeerSock("PENDING_ACCEPT")]
    /\ Event /\ UNCHANGED <<local, ans, odd>>

\* T1 of such a socket has expired for the last time; handle_sock() looks at
\* the timers of stream sockets only.
AcceptTimeout(f) ==
    /\ Pending(f) /\ srv[f].type = "STREAM" /\ srv[f].t1
    /\ Counted(TRUE)
    /\ srv' = Destroyed(f)
    /\ Event /\ UNCHANGED <<local, ans, made, odd>>

Accepts == local # 0 /\ srv[local].type = "STREAM"

\* handle_sabm() after an XID: whichever socket listens at the address now is
\* told.  T1 goes on, for the link (LinkEnds).
HandleSabm(f) ==
    /\ Counted(TRUE)
    /\ Accepts /\ Pending(f)
    /\ srv' = [srv EXCEPT ![f].state = "ESTABLISHED", ![f].t1 = FALSE,
                          ![local].box = Notified(@, f, srv[f].id)]
    /\ Event /\ UNCHANGED <<local, ans, made, odd>>

\* handle_sabm() without one
HandleSabmFirst ==
    /\ Counted(TRUE)
    /\ Accepts /\ Room
    /\ made' = made + 1
    /\ srv' = [srv EXCEPT ![Next1] = PeerSock("ESTABLISHED"),
                          ![local].box = Notified(@, Next1, made + 1)]
    /\ Event /\ UNCHANGED <<local, ans, odd>>

\* A DISC, or T1, or the end of the program on the pty
LinkEnds(f) ==
    /\ srv[f] # NoSock /\ srv[f].type = "STREAM" /\ srv[f].state = "ESTABLISHED"
    /\ Counted(TRUE)
    /\ srv' = Destroyed(f)
    /\ odd' = odd \cup {"ended"}
    /\ Event /\ UNCHANGED <<local, ans, made>>

---------------------------------------------------------------------------
\* patty_client_destroy() closes the connection; what it asks for then is
\* not sent.  The server closes the sockets of the client.
Destroy ==
    /\ pc.step = "idle" /\ req = <<>>
    /\ pc' = [Idle EXCEPT !.step = "gone"]
    /\ srv' = [f \in Fd |-> NoSock] /\ local' = 0
    /\ socks' = {} /\ ans' = <<>>
    /\ UNCHANGED <<req, calls, made, peer, odd, wrong>>

Init == /\ srv = [f \in Fd |-> NoSock] /\ local = 0
        /\ req = <<>> /\ ans = <<>> /\ pc = Idle /\ socks = {}
        /\ calls = 0 /\ made = 0 /\ peer = 0 /\ odd = {} /\ wrong = {}

ClientCall ==
    \/ Ping
    \/ \E t \in Types : made < MaxSocks /\ Free # {} /\ Socket(t)
    \/ \E e \in socks : \/ \E op \in {"listen", "accept", "connect", "close"} : OnSock(op, e)
                        \/ (\A f \in Live : srv[f].bound # "bind") /\ OnSock("bind", e)
                        \/ \E opt \in {"PARAMS", "IF"} : SetSockOpt(e, opt)

ClientReturn == ReturnPlain \/ ReturnClose \/ ReturnSocket \/ ReturnAccept \/ ReadMessage

Server == \/ ServerPing \/ ServerSocket \/ ServerSetSockOpt \/ ServerData \/ ServerBind
          \/ ServerListen \/ ServerAccept \/ ServerConnect \/ ServerClose

Peer == \/ \E f \in Fd : \/ HandleUa(f) \/ HandleRefusal(f) \/ ConnectTimeout(f)
                         \/ HandleRr(f) \/ HandleXidAnswer(f)
                         \/ HandleSabm(f) \/ AcceptTimeout(f) \/ LinkEnds(f)
        \/ HandleXid \/ HandleSabmFirst

Next == ClientCall \/ ClientReturn \/ Server \/ Destroy \/ Peer

\* The event loop goes on and the program reads its answers.  Of a connect()
\* only this is certain: a T1 that runs expires for the last time, unless it is
\* stopped or the socket changes its state.  (MaxPeer bounds the XIDs and FRMRs
\* that start it again.)  No frame of a peer is certain to come.
Fairness == /\ WF_vars(Server)
            /\ WF_vars(ClientReturn)
            /\ \A f \in Fd : WF_vars(ConnectTimeout(f))

Spec == Init /\ [][Next]_vars /\ Fairness

---------------------------------------------------------------------------
(***************************************************************************)
(* Properties.  Each one names what the code does not handle.               *)
(***************************************************************************)
\* A call returns the answer that the server gave to this call, and the
\* answer says what the server did, unless a connect() was answered twice,
\* an option was refused, or listen() was called without an address.
AnswersMatch == "answer" \in wrong => odd \cap {"again", "option", "unbound"} # {}

\* The server does what a call asks for to the socket that the program means,
\* unless the program still knows the number of a socket that is gone: its link
\* has ended, or the answer to close() was taken for that of another call.
OwnSocket == "other" \in wrong => odd \cap {"ended", "again", "option"} # {}

\* The connections that wait in the pty of socket f
InPty(f) == {m.id : m \in Range(srv[f].box)}

\* The sockets that the program has, that wait in the pty of a listening
\* socket, or whose answer is on its way.
Announced == {e.id : e \in socks} \cup (UNION {InPty(f) : f \in Live})
                                  \cup {w.id : w \in Range(ans)}

\* A socket of the server is announced if, and only if, it is no longer one
\* that an XID has made and that still waits for its SABM: accept() never gives
\* out half a connection, and none is lost.  The exceptions are a connect()
\* answered twice, an option that was refused, a close() of a listening socket
\* with connections in its pty, and a call that took another socket for its own.
Known ==
    \/ \A f \in Live : srv[f].id \in Announced <=> ~Pending(f)
    \/ odd \cap {"again", "option", "unread"} # {} \/ "other" \in wrong

\* Between two calls, a socket that the program has is there, unless its link
\* has ended.
Holds == pc.step = "idle" =>
         {e.id : e \in socks} \subseteq Ids \/ odd \cap {"ended", "again", "option"} # {}

Waiting == pc.step \in {"answer", "undo"}

\* connect() of a datagram socket is never answered; that of a stream socket
\* only by the peer, once T1 is stopped.
Endless == /\ pc.op = "connect" /\ pc.sock.fd \in Live
           /\ srv[pc.sock.fd].type = "STREAM" => Connecting(pc.sock.fd) /\ ~srv[pc.sock.fd].t1


\* The types; and a descriptor in socks_local is that of a socket that is there
\* and listens, after every close() and every end of a link.
TypeOK == /\ srv \in [Fd -> Sock \cup {NoSock}]
          /\ local \in {f \in Live : srv[f].state = "LISTENING"} \cup {0}
          /\ socks \subseteq [fd : Fd, id : 1 .. MaxSocks] \/ odd # {}
          /\ pc.step \in {"idle", "answer", "message", "undo", "gone"}
=============================================================================
