----------------------------- MODULE ApiProofs -----------------------------
(***************************************************************************)
(* Proofs about the client library.                                         *)
(*                                                                          *)
(* While the two streams are in step (~Loose), they hold at most what       *)
(* belongs to the one call that the program is in, and the call is at one   *)
(* of three places: in the stream to the server, with a socket that is      *)
(* being connected, or in the stream to the program (Phase).  Together with *)
(* where the names of sockets are kept (Places, Once, Silent, Alive) this   *)
(* is inductive, and the properties of Api follow from it.                  *)
(***************************************************************************)
EXTENDS Api, FiniteSetTheorems, SequenceTheorems, WellFoundedInduction, TLAPS

---------------------------------------------------------------------------
(***************************************************************************)
(* The inductive invariant.                                                 *)
(***************************************************************************)
Ops    == {"ping", "socket", "setsockopt", "bind", "listen", "accept", "connect", "close"}
Name   == [fd : Int, id : Int]
Args   == {"none", "PARAMS", "IF", "STREAM", "DGRAM"}
Req    == [op : Ops \cup {"data"}, fd : Int, id : Int, arg : Args, call : Nat]
Answers == [call : Nat, v : Int, so : Int, id : Int]

\* The types; a socket that is asked for has a type, something comes behind
\* setsockopt(), and a connection only waits in the pty of a socket that listens.
Typed ==
    /\ srv \in [Fd -> Sock \cup {NoSock}]
    /\ local \in {f \in Live : srv[f].state = "LISTENING"} \cup {0}
    /\ req \in Seq(Req)
    /\ \A i \in DOMAIN req : /\ req[i].op = "socket" => req[i].arg \in Types
                             /\ req[i].op = "setsockopt" => i + 1 \in DOMAIN req
    /\ ans \in Seq(Answers)
    /\ pc \in [step : {"idle", "answer", "message", "undo", "gone"}, op : Ops,
               sock : Name, call : Nat]
    /\ socks \subseteq Name
    /\ calls \in Nat /\ made \in Nat /\ peer \in Nat
    /\ \A f \in Live : srv[f].box # <<>> => srv[f].state = "LISTENING"

Loose == odd \cap {"again", "option"} # {}

Unasked == \A f \in Live : srv[f].call = 0

Quiet == req = <<>> /\ ans = <<>> /\ Unasked

\* The call is in the stream to the server,
Sent ==
    /\ ans = <<>> /\ Unasked
    /\ \E arg \in Args : req = Request(pc.op, pc.sock, arg, pc.call)
                                 \o (IF pc.op = "setsockopt" THEN <<Data>> ELSE <<>>)
    /\ pc.op \in {"ping", "socket"} => pc.sock = Idle.sock

\* its answer is in the stream to the program,
Answered ==
    /\ req = <<>> /\ Unasked
    /\ Len(ans) = Size(pc.op)
    /\ \A i \in 1 .. Len(ans) : ans[i].call = pc.call
    /\ ans[1].v = ans[1].so \/ (pc.op = "listen" /\ "unbound" \in odd)
    /\ \A i \in 1 .. Len(ans) : ans[i].id # 0 => pc.op = "socket" /\ i = 3

\* or a socket has it that is being connected.
Waits ==
    /\ req = <<>> /\ ans = <<>> /\ pc.op = "connect"
    /\ \E f \in Live :
          /\ srv[f].call = pc.call
          /\ srv[f].type = "DGRAM" \/ srv[f].state = "PENDING_CONNECT"
          /\ \A g \in Live \ {f} : srv[g].call = 0

Phase == \/ ~Waiting /\ Quiet
         \/ Waiting /\ pc.call # 0 /\ (pc.step = "undo" => pc.op = "close")
                    /\ (Sent \/ Answered \/ Waits)

Socketed == Waiting /\ pc.op = "socket" /\ ans # <<>>
Closed   == pc.step = "answer" /\ pc.op = "close" /\ ans # <<>>

\* The names of sockets: those that the program has, in the answer to
\* socket(), and in the ptys of listening sockets
Had   == socks \cup (IF Socketed THEN {[fd |-> ans[1].v, id |-> ans[3].id]} ELSE {})
Boxed == UNION {{srv[f].box[i] : i \in DOMAIN srv[f].box} : f \in Live}
Named == Had \cup Boxed

\* A name leads to its socket or to none by this number.
Places ==
    /\ \A f \in Live : srv[f].id <= made
    /\ \A f, g \in Live : srv[f].id = srv[g].id => f = g
    /\ \A e \in Named : /\ e.fd \in Fd /\ e.id \in 1 .. made
                        /\ \A f \in Live : srv[f].id = e.id => f = e.fd

\* A call is about a socket that the program has.
Calling ==
    /\ pc.step = "answer" /\ pc.op \notin {"ping", "socket"} => pc.sock \in socks
    /\ Closed /\ ans[1].v >= 0 => \A f \in Live : srv[f].id # pc.sock.id

\* Each name is in one place.
Once ==
    \A f \in Live : \A i \in DOMAIN srv[f].box :
        /\ \A e \in Had : e.id # srv[f].box[i].id
        /\ \A g \in Live : \A j \in DOMAIN srv[g].box :
               srv[g].box[j].id = srv[f].box[i].id => f = g /\ i = j

\* While no link ends, every name but that of a socket just closed leads to
\* its socket.
Alive ==
    /\ \A e \in Named : \/ e.fd \in Live /\ srv[e.fd].id = e.id
                        \/ Closed /\ e = pc.sock
    /\ pc.step # "undo"
    /\ Closed => ans[1].v >= 0

\* A socket that only an XID has made has no name; every other one has.
Half     == {f \in Live : srv[f].state = "PENDING_ACCEPT"}
Silent   == \A f \in Half : \A e \in Named : e.id # srv[f].id
AllNamed == \A f \in Live \ Half : \E e \in Named : e.id = srv[f].id

InStep ==
    /\ Phase /\ Places /\ Calling /\ Once /\ Silent
    /\ "unread" \in odd \/ "other" \in wrong \/ AllNamed
    /\ "ended" \in odd \/ Alive

Good == (Loose \/ InStep) /\ AnswersMatch /\ OwnSocket

AInv == Typed /\ Good

---------------------------------------------------------------------------
(***************************************************************************)
(* The types.                                                               *)
(***************************************************************************)
LEMMA FdNat == \A f \in Fd : f \in Nat /\ f # 0
<1>1. Fd \subseteq 1 .. 98
  BY ApiAssumption
<1> QED  BY <1>1

LEMMA Next1Free ==
    ASSUME Free # {} PROVE Next1 \in Free /\ Next1 \in Fd /\ srv[Next1] = NoSock
<1> DEFINE Less == {ss \in Nat \X Nat : ss[1] < ss[2]}
<1>1. Free \subseteq Nat
  BY FdNat DEF Free
<1>2. PICK x \in Free : \A y \in Free : ~(<<y, x>> \in Less)
  <2>1. IsWellFoundedOn(Less, Nat)
    BY NatLessThanWellFounded DEF OpToRel
  <2> HIDE DEF Less
  <2> QED  BY <1>1, <2>1, WFMin
<1>3. \A y \in Free : x <= y
  <2> SUFFICES ASSUME NEW y \in Free PROVE x <= y
    OBVIOUS
  <2>1. x \in Nat /\ y \in Nat
    BY <1>1
  <2>2. <<y, x>> \in Less <=> y < x
    BY <2>1
  <2> HIDE DEF Less
  <2> QED  BY <1>2, <2>1, <2>2
<1>4. Next1 \in Free
  BY <1>3 DEF Next1
<1> QED  BY <1>4 DEF Free, Live

LEMMA SockFields ==
    ASSUME Typed, NEW f \in Live
    PROVE  /\ f \in Fd /\ f # 0 /\ srv[f] \in Sock /\ srv[f] # NoSock
           /\ srv[f].id \in 1 .. MaxSocks /\ srv[f].call \in Nat
           /\ srv[f].box \in Seq([fd : Fd, id : 1 .. MaxSocks])
<1>1. f \in Fd /\ srv[f] # NoSock
  BY DEF Live
<1>2. srv[f] \in Sock
  BY <1>1 DEF Typed
<1> QED  BY <1>1, <1>2, FdNat DEF Sock

LEMMA SockReal == \A x \in Sock : x # NoSock
BY ApiAssumption DEF Sock, NoSock

LEMMA NewSockTyped ==
    ASSUME Typed, made < MaxSocks, NEW type \in {"STREAM", "DGRAM"}
    PROVE  NewSock(type) \in Sock
<1>1. <<>> \in Seq([fd : Fd, id : 1 .. MaxSocks])
  OBVIOUS
<1>2. made + 1 \in 1 .. MaxSocks
  BY ApiAssumption DEF Typed
<1> QED  BY <1>1, <1>2 DEF NewSock, Sock, State

LEMMA ReturnTyped ==
    ASSUME NEW c \in Nat, NEW v \in Int
    PROVE  /\ Return(c, v) \in Seq(Answers)
           /\ Len(Return(c, v)) = 2
           /\ Return(c, v)[1] = [call |-> c, v |-> v, so |-> v, id |-> 0]
           /\ Return(c, v)[2].call = c /\ Return(c, v)[2].id = 0
BY DEF Return, Word, Answers, EFail

\* Requests in a stream
Typable(s) ==
    /\ s \in Seq(Req)
    /\ \A i \in DOMAIN s : /\ s[i].op = "socket" => s[i].arg \in Types
                           /\ s[i].op = "setsockopt" => i + 1 \in DOMAIN s

LEMMA TypableAt ==
    ASSUME NEW s, Typable(s)
    PROVE  /\ s \in Seq(Req)
           /\ \A i \in DOMAIN s : s[i].op = "socket" => s[i].arg \in Types
           /\ \A i \in DOMAIN s : s[i].op = "setsockopt" => i + 1 \in DOMAIN s
<1>1. s \in Seq(Req)
  BY Zenon DEF Typable
<1>2. \A i \in DOMAIN s : /\ s[i].op = "socket" => s[i].arg \in Types
                          /\ s[i].op = "setsockopt" => i + 1 \in DOMAIN s
  BY Zenon DEF Typable
<1>3. \A i \in DOMAIN s : s[i].op = "socket" => s[i].arg \in Types
  BY <1>2
<1>4. \A i \in DOMAIN s : s[i].op = "setsockopt" => i + 1 \in DOMAIN s
  BY <1>2, Zenon
<1> QED  BY <1>1, <1>3, <1>4, Zenon

LEMMA TailTypable ==
    ASSUME NEW s, Typable(s), s # <<>>
    PROVE  Typable(Tail(s))
<1>1. /\ s \in Seq(Req) /\ Tail(s) \in Seq(Req) /\ Len(Tail(s)) = Len(s) - 1
      /\ \A i \in 1 .. Len(Tail(s)) : Tail(s)[i] = s[i + 1]
  BY HeadTailProperties DEF Typable
<1>2. DOMAIN s = 1 .. Len(s) /\ DOMAIN Tail(s) = 1 .. Len(Tail(s)) /\ Len(s) \in Nat
  BY <1>1
<1>3. ASSUME NEW i \in DOMAIN Tail(s)
      PROVE  /\ Tail(s)[i].op = "socket" => Tail(s)[i].arg \in Types
             /\ Tail(s)[i].op = "setsockopt" => i + 1 \in DOMAIN Tail(s)
  <2>1. i + 1 \in DOMAIN s /\ Tail(s)[i] = s[i + 1] /\ i \in Nat
    BY <1>1, <1>2
  <2>2. /\ s[i + 1].op = "socket" => s[i + 1].arg \in Types
        /\ s[i + 1].op = "setsockopt" => (i + 1) + 1 \in DOMAIN s
    <3> DEFINE j == i + 1
    <3>1. j \in DOMAIN s
      BY <2>1
    <3> HIDE DEF j
    <3>2. /\ s[j].op = "socket" => s[j].arg \in Types
          /\ s[j].op = "setsockopt" => j + 1 \in DOMAIN s
      BY <3>1, TypableAt, Zenon
    <3> QED  BY <3>2 DEF j
  <2>3. (i + 1) + 1 \in DOMAIN s => i + 1 \in DOMAIN Tail(s)
    BY <1>1, <1>2, <2>1
  <2> QED  BY <2>1, <2>2, <2>3
<1> QED  BY <1>1, <1>3 DEF Typable

LEMMA HeadTyped ==
    ASSUME Typed, req # <<>>
    PROVE  /\ R \in Req /\ R = req[1] /\ Typable(req) /\ Typable(Tail(req))
           /\ R.op = "socket" => R.arg \in Types
           /\ R.op = "setsockopt" => Tail(req) # <<>>
<1>1. Typable(req)
  BY DEF Typed, Typable
<1>2. req \in Seq(Req) /\ Len(req) \in Nat /\ DOMAIN req = 1 .. Len(req) /\ Len(req) >= 1
  BY <1>1 DEF Typable
<1>3. Head(req) \in Req /\ Len(Tail(req)) = Len(req) - 1
  BY <1>2, HeadTailProperties
<1>4. R = req[1] /\ 1 \in DOMAIN req
  BY <1>2 DEF R
<1>5. R.op = "setsockopt" => 1 + 1 \in DOMAIN req
  BY <1>1, <1>4 DEF Typable
<1>6. R.op = "setsockopt" => Len(Tail(req)) >= 1
  BY <1>2, <1>3, <1>5
<1>7. R.op = "setsockopt" => Tail(req) # <<>>
  <2> DEFINE t == Tail(req)
  <2>1. R.op = "setsockopt" => Len(t) >= 1
    BY <1>6
  <2> HIDE DEF t
  <2>2. t = <<>> => Len(t) = 0
    OBVIOUS
  <2>3. R.op = "setsockopt" => t # <<>>
    BY <2>1, <2>2
  <2> QED  BY <2>3 DEF t
<1>8. R.op = "socket" => R.arg \in Types
  BY <1>1, <1>4, TypableAt, Zenon
<1> QED  BY <1>1, <1>3, <1>4, <1>7, <1>8, TailTypable DEF R

LEMMA IdleName == Idle.sock \in Name /\ Idle \in [step : {"idle", "answer", "message", "undo", "gone"},
                                                  op : Ops, sock : Name, call : Nat]
BY DEF Idle, Name, Ops

\* What is written to a stream comes behind what is in it.
LEMMA Written ==
    ASSUME NEW S, NEW s \in Seq(S), NEW m \in S
    PROVE  /\ s \o <<m>> \in Seq(S) /\ Len(s \o <<m>>) = Len(s) + 1
           /\ \A i \in 1 .. Len(s) : (s \o <<m>>)[i] = s[i]
           /\ (s \o <<m>>)[Len(s) + 1] = m
           /\ s \o <<>> = s
OBVIOUS

LEMMA WrittenTypable ==
    ASSUME NEW s, Typable(s), NEW m \in Req, m.op = "socket" => m.arg \in Types,
           m.op # "setsockopt"
    PROVE  Typable(s \o <<m>>)
<1> DEFINE u == s \o <<m>>
<1>1. s \in Seq(Req) /\ Len(s) \in Nat /\ DOMAIN s = 1 .. Len(s)
  BY DEF Typable
<1>2. u \in Seq(Req) /\ Len(u) = Len(s) + 1
  BY <1>1, Written
<1>3. (\A i \in 1 .. Len(s) : u[i] = s[i]) /\ u[Len(s) + 1] = m
  BY <1>1, Written
<1> HIDE DEF u
<1>4. DOMAIN u = 1 .. Len(s) + 1
  BY <1>1, <1>2
<1>5. ASSUME NEW i \in DOMAIN u
      PROVE  /\ u[i].op = "socket" => u[i].arg \in Types
             /\ u[i].op = "setsockopt" => i + 1 \in DOMAIN u
  <2>1. CASE i \in 1 .. Len(s)
    <3>1. /\ u[i].op = "socket" => u[i].arg \in Types
          /\ u[i].op = "setsockopt" => i + 1 \in DOMAIN s
      <4>1. i \in DOMAIN s /\ u[i] = s[i]
        BY <2>1, <1>1, <1>3
      <4> QED  BY <4>1, TypableAt, Zenon
    <3> QED  BY <3>1, <1>1, <1>4
  <2>2. CASE i = Len(s) + 1
    BY <2>2, <1>3
  <2> QED  BY <2>1, <2>2, <1>1, <1>4
<1>6. Typable(u)
  BY <1>2, <1>5 DEF Typable
<1> QED  BY <1>6 DEF u

LEMMA WrittenBoth ==
    ASSUME NEW s, Typable(s), NEW m \in Req, NEW d \in Req,
           m.op = "setsockopt", d.op = "data"
    PROVE  Typable(s \o <<m>> \o <<d>>)
<1> DEFINE u == s \o <<m>>
           w == u \o <<d>>
<1>1. s \in Seq(Req) /\ Len(s) \in Nat /\ DOMAIN s = 1 .. Len(s)
  BY DEF Typable
<1>2. u \in Seq(Req) /\ Len(u) = Len(s) + 1
  BY <1>1, Written
<1>3. (\A i \in 1 .. Len(s) : u[i] = s[i]) /\ u[Len(s) + 1] = m
  BY <1>1, Written
<1> HIDE DEF u
<1>4. w \in Seq(Req) /\ Len(w) = Len(u) + 1
  BY <1>2, Written
<1>5. (\A i \in 1 .. Len(u) : w[i] = u[i]) /\ w[Len(u) + 1] = d
  BY <1>2, Written
<1> HIDE DEF w
<1>6. DOMAIN w = 1 .. Len(s) + 2
  BY <1>1, <1>2, <1>4
<1>7. /\ \A i \in 1 .. Len(s) : w[i] = s[i]
      /\ w[Len(s) + 1] = m /\ w[Len(s) + 2] = d
  BY <1>1, <1>2, <1>3, <1>5
<1>8. ASSUME NEW i \in DOMAIN w
      PROVE  /\ w[i].op = "socket" => w[i].arg \in Types
             /\ w[i].op = "setsockopt" => i + 1 \in DOMAIN w
  <2>1. CASE i \in 1 .. Len(s)
    <3>1. /\ w[i].op = "socket" => w[i].arg \in Types
          /\ w[i].op = "setsockopt" => i + 1 \in DOMAIN s
      <4>1. i \in DOMAIN s /\ w[i] = s[i]
        BY <2>1, <1>1, <1>7
      <4> QED  BY <4>1, TypableAt, Zenon
    <3> QED  BY <3>1, <1>1, <1>6
  <2>2. CASE i = Len(s) + 1
    BY <2>2, <1>1, <1>6, <1>7
  <2>3. CASE i = Len(s) + 2
    BY <2>3, <1>7
  <2> QED  BY <2>1, <2>2, <2>3, <1>1, <1>6
<1>9. Typable(w)
  BY <1>4, <1>8 DEF Typable
<1> QED  BY <1>9 DEF u, w

\* What a call writes
LEMMA WriteTyped ==
    ASSUME Typed, NEW op \in Ops, NEW e \in Name, NEW arg \in Args,
           NEW step \in {"answer", "undo"},
           op = "socket" => arg \in Types,
           Write(op, e, arg, step)
    PROVE  /\ calls' \in Nat
           /\ Typable(req')
           /\ pc' \in [step : {"idle", "answer", "message", "undo", "gone"}, op : Ops,
                       sock : Name, call : Nat]
<1>1. calls' \in Nat
  BY DEF Typed, Write
<1> DEFINE m == [op |-> op, fd |-> e.fd, id |-> e.id, arg |-> arg, call |-> calls']
<1>2. m \in Req /\ Data \in Req
  <2>1. e.fd \in Int /\ e.id \in Int /\ op \in Ops \cup {"data"}
    BY DEF Name
  <2>2. m \in Req
    BY <1>1, <2>1 DEF Req
  <2>3. Data \in Req
    BY DEF Data, Req, Args
  <2> QED  BY <2>2, <2>3
<1>3. m.op = op /\ m.arg = arg /\ Data.op = "data"
  BY DEF Data
<1>4. Typable(req)
  BY DEF Typed, Typable
<1>5. req' = req \o <<m>> \o (IF op = "setsockopt" THEN <<Data>> ELSE <<>>)
  BY DEF Write, Request
<1> HIDE DEF m
<1>7. Typable(req')
  <2>1. CASE op = "setsockopt"
    <3>1. req' = req \o <<m>> \o <<Data>>
      BY <2>1, <1>5
    <3> QED  BY <2>1, <3>1, <1>2, <1>3, <1>4, WrittenBoth
  <2>2. CASE op # "setsockopt"
    <3> DEFINE u == req \o <<m>>
    <3>1. Typable(u)
      BY <2>2, <1>2, <1>3, <1>4, WrittenTypable
    <3>2. req' = u \o <<>>
      BY <2>2, <1>5
    <3> HIDE DEF u
    <3>3. req' = u
      BY <3>1, <3>2, ConcatEmptySeq DEF Typable
    <3> QED  BY <3>1, <3>3
  <2> QED  BY <2>1, <2>2
<1>8. pc' = [step |-> step, op |-> op, sock |-> e, call |-> calls']
  BY DEF Write
<1>9. pc' \in [step : {"idle", "answer", "message", "undo", "gone"}, op : Ops, sock : Name, call : Nat]
  BY <1>1, <1>8
<1> QED  BY <1>1, <1>7, <1>9

LEMMA ReadTyped ==
    ASSUME Typed, Read
    PROVE  /\ ans' \in Seq(Answers) /\ Ret \in Int /\ Path \in Int
           /\ Words \in 1 .. Len(ans) /\ Words <= Size(pc.op)
           /\ Len(ans) <= Size(pc.op) => ans' = <<>> /\ Words = Len(ans)
           /\ \A i \in 1 .. Words : Got[i] = ans[i]
<1>1. ans \in Seq(Answers) /\ ans # <<>> /\ Len(ans) \in Nat /\ Len(ans) >= 1
  BY DEF Typed, Read
<1>2. Size(pc.op) \in 1 .. 3
  BY DEF Size
<1>3. Words \in 1 .. Len(ans) /\ Words <= Size(pc.op)
  BY <1>1, <1>2 DEF Words
<1>4. \A i \in 1 .. Len(ans) : ans[i] \in Answers
  BY <1>1
<1>5. ans' = SubSeq(ans, Words + 1, Len(ans))
  BY DEF Read
<1>6. \A i \in Words + 1 .. Len(ans) : ans[i] \in Answers
  BY <1>3, <1>4
<1>7. ans' \in Seq(Answers)
  BY <1>1, <1>3, <1>5, <1>6, SubSeqProperties
<1>8. /\ Got \in Seq(Answers) /\ \A i \in 1 .. Words : Got[i] = ans[i]
  <2>1. \A i \in 1 .. Words : ans[i] \in Answers
    BY <1>3, <1>4
  <2>2. SubSeq(ans, 1, Words) \in Seq(Answers)
    BY <1>3, <2>1, SubSeqProperties
  <2>3. \A i \in 1 .. Words - 1 + 1 : SubSeq(ans, 1, Words)[i] = ans[1 + i - 1]
    BY <1>3, <2>1, SubSeqProperties
  <2>4. \A i \in 1 .. Words : SubSeq(ans, 1, Words)[i] = ans[i]
    BY <1>3, <2>3
  <2> QED  BY <2>2, <2>4 DEF Got
<1>9. Ret \in Int
  BY <1>3, <1>4, <1>8 DEF Ret, Answers
<1>10. Path \in Int
  <2>1. CASE Words = 3
    BY <2>1, <1>3, <1>4, <1>8 DEF Path, Answers
  <2>2. CASE Words # 3
    BY <2>2 DEF Path
  <2> QED  BY <2>1, <2>2
<1>11. Len(ans) <= Size(pc.op) => Words = Len(ans)
  BY <1>1, <1>2 DEF Words
<1>12. Len(ans) <= Size(pc.op) => ans' = <<>>
  BY <1>1, <1>5, <1>11, SubSeqEmpty
<1> QED  BY <1>3, <1>7, <1>8, <1>9, <1>10, <1>11, <1>12

\* The steps that answer a connect()
Decides(f) == HandleUa(f) \/ HandleRefusal(f) \/ ConnectTimeout(f)

\* A handler that sets one socket keeps the types of the server.
TypedSrv ==
    /\ srv \in [Fd -> Sock \cup {NoSock}]
    /\ local \in {f \in Live : srv[f].state = "LISTENING"} \cup {0}
    /\ \A f \in Live : srv[f].box # <<>> => srv[f].state = "LISTENING"

LEMMA SrvTyped ==
    ASSUME Typed, NEW f \in Fd, NEW t \in Sock \cup {NoSock},
           srv' = [srv EXCEPT ![f] = t],
           t # NoSock /\ t.box # <<>> => t.state = "LISTENING",
           local' \in {local, f, 0},
           local' = f => t # NoSock /\ t.state = "LISTENING"
    PROVE  TypedSrv'
<1>1. srv \in [Fd -> Sock \cup {NoSock}]
  BY DEF Typed
<1>2. srv' \in [Fd -> Sock \cup {NoSock}]
  BY <1>1
<1>3. srv'[f] = t /\ \A g \in Fd \ {f} : srv'[g] = srv[g]
  BY <1>1
<1>4. local' \in {g \in Live : srv[g].state = "LISTENING"}' \cup {0}
  <2>1. CASE local' = f
    BY <2>1, <1>3 DEF Live
  <2>2. CASE local' = local /\ local' # f
    BY <2>2, <1>3 DEF Live, Typed
  <2> QED  BY <2>1, <2>2
<1>5. (\A g \in Live : srv[g].box # <<>> => srv[g].state = "LISTENING")'
  <2> SUFFICES ASSUME NEW g \in Live', srv'[g].box # <<>> PROVE srv'[g].state = "LISTENING"
    OBVIOUS
  <2>1. g \in Fd /\ srv'[g] # NoSock
    BY DEF Live
  <2>2. CASE g = f
    BY <2>1, <2>2, <1>3
  <2>3. CASE g # f
    BY <2>1, <2>3, <1>3 DEF Typed, Live
  <2> QED  BY <2>2, <2>3
<1> QED  BY <1>2, <1>4, <1>5 DEF TypedSrv

LEMMA TypedStill ==
    ASSUME Typed, UNCHANGED <<srv, local>>
    PROVE  TypedSrv'
BY DEF Typed, TypedSrv, Live

Typedpc == pc \in [step : {"idle", "answer", "message", "undo", "gone"}, op : Ops,
                   sock : Name, call : Nat]

LEMMA TypedParts ==
    Typed <=> /\ TypedSrv /\ Typable(req) /\ ans \in Seq(Answers) /\ Typedpc
              /\ socks \subseteq Name /\ calls \in Nat /\ made \in Nat /\ peer \in Nat
BY DEF Typed, TypedSrv, Typable, Typedpc

LEMMA TypedPartsNext ==
    Typed' <=> /\ TypedSrv' /\ Typable(req') /\ ans' \in Seq(Answers) /\ Typedpc'
               /\ socks' \subseteq Name /\ calls' \in Nat /\ made' \in Nat /\ peer' \in Nat
BY DEF Typed, TypedSrv, Typable, Typedpc

LEMMA TypedCall ==
    ASSUME Typed, NEW op \in Ops, NEW e \in Name, NEW arg \in Args,
           op = "socket" => arg \in Types, Call(op, e, arg)
    PROVE  Typed'
<1>1. Write(op, e, arg, "answer") /\ UNCHANGED <<srv, local, ans, socks, made, peer>>
  BY DEF Call
<1>2. calls' \in Nat /\ Typable(req') /\ Typedpc'
  BY <1>1, WriteTyped DEF Typedpc
<1>3. TypedSrv'
  BY <1>1, TypedStill
<1> QED  BY <1>1, <1>2, <1>3, TypedPartsNext, TypedParts

LEMMA TypedClientCall ==
    ASSUME Typed, ClientCall
    PROVE  Typed'
<1>1. ASSUME Ping PROVE Typed'
  BY <1>1, IdleName, TypedCall DEF Ping, Ops, Args
<1>2. ASSUME NEW t \in Types, Socket(t) PROVE Typed'
  BY <1>2, IdleName, TypedCall, ApiAssumption DEF Socket, Ops, Args
<1>3. ASSUME NEW e \in socks, NEW op \in {"bind", "listen", "accept", "connect", "close"},
             OnSock(op, e)
      PROVE  Typed'
  <2>1. e \in Name /\ op \in Ops /\ op # "socket" /\ "none" \in Args
    BY DEF Typed, Ops, Args
  <2> QED  BY <1>3, <2>1, TypedCall DEF OnSock
<1>4. ASSUME NEW e \in socks, NEW opt \in {"PARAMS", "IF"}, SetSockOpt(e, opt)
      PROVE  Typed'
  <2>1. e \in Name /\ "setsockopt" \in Ops /\ opt \in Args
    BY DEF Typed, Ops, Args
  <2> QED  BY <1>4, <2>1, TypedCall DEF SetSockOpt
<1> QED  BY <1>1, <1>2, <1>3, <1>4 DEF ClientCall

LEMMA TypedClientReturn ==
    ASSUME Typed, ClientReturn
    PROVE  Typed'
<1>0. Typedpc /\ Typable(req) /\ socks \subseteq Name
  BY TypedParts
<1>i. Typedpc' \/ pc' # Idle
  BY IdleName DEF Typedpc
<1>1. CASE ReturnPlain
  <2>1. Read /\ pc' = Idle /\ UNCHANGED <<srv, local, req, socks, calls, made, peer>>
    BY <1>1 DEF ReturnPlain, Read
  <2>2. TypedSrv' /\ ans' \in Seq(Answers)
    BY <2>1, TypedStill, ReadTyped
  <2> QED  BY <1>0, <1>i, <2>1, <2>2, TypedPartsNext, TypedParts
<1>2. CASE ReturnClose
  <2>1. Read /\ pc' = Idle /\ socks' \subseteq socks /\ UNCHANGED <<srv, local, req, calls, made, peer>>
    BY <1>2 DEF ReturnClose, Read
  <2>2. TypedSrv' /\ ans' \in Seq(Answers)
    BY <2>1, TypedStill, ReadTyped
  <2> QED  BY <1>0, <1>i, <2>1, <2>2, TypedPartsNext, TypedParts
<1>3. CASE ReturnSocket
  <2>1. Read /\ UNCHANGED <<srv, local, made, peer>>
    BY <1>3 DEF ReturnSocket, Read
  <2>2. TypedSrv' /\ ans' \in Seq(Answers) /\ Ret \in Int /\ Path \in Int
    BY <2>1, TypedStill, ReadTyped
  <2> DEFINE n == [fd |-> Ret, id |-> Path]
  <2>3. n \in Name
    BY <2>2 DEF Name
  <2>4. \/ pc' = Idle /\ socks' = socks \cup {n} /\ UNCHANGED <<req, calls>>
        \/ Write("close", n, "none", "undo") /\ UNCHANGED socks
    BY <1>3 DEF ReturnSocket
  <2> HIDE DEF n
  <2>5. CASE pc' = Idle /\ socks' = socks \cup {n} /\ UNCHANGED <<req, calls>>
    BY <1>0, <1>i, <2>1, <2>2, <2>3, <2>5, TypedPartsNext, TypedParts
  <2>6. CASE Write("close", n, "none", "undo") /\ UNCHANGED socks
    <3>1. calls' \in Nat /\ Typable(req') /\ Typedpc'
      BY <2>3, <2>6, WriteTyped DEF Typedpc, Ops, Args
    <3> QED  BY <1>0, <2>1, <2>2, <2>6, <3>1, TypedPartsNext, TypedParts
  <2> QED  BY <2>4, <2>5, <2>6
<1>4. CASE ReturnAccept
  <2>1. /\ Read /\ pc' \in {Idle, [pc EXCEPT !.step = "message"]}
        /\ UNCHANGED <<srv, local, req, socks, calls, made, peer>>
    BY <1>4 DEF ReturnAccept, Read
  <2>2. TypedSrv' /\ ans' \in Seq(Answers)
    BY <2>1, TypedStill, ReadTyped
  <2>3. Typedpc'
    BY <1>0, <2>1, IdleName DEF Typedpc
  <2> QED  BY <1>0, <2>1, <2>2, <2>3, TypedPartsNext, TypedParts
<1>5. CASE ReadMessage
  <2>1. PICK f \in Listener :
           /\ srv[f].box # <<>>
           /\ \/ /\ socks' = socks \cup {Head(srv[f].box)} /\ pc' = Idle /\ UNCHANGED <<req, calls>>
              \/ Write("close", Head(srv[f].box), "none", "undo") /\ UNCHANGED socks
           /\ srv' = [srv EXCEPT ![f].box = Tail(@)]
           /\ UNCHANGED <<local, ans, made, peer>>
    BY <1>5 DEF ReadMessage
  <2>2. f \in Live
    BY <2>1 DEF Listener
  <2> DEFINE t == [srv[f] EXCEPT !.box = Tail(@)]
             m == Head(srv[f].box)
  <2>3. srv[f] \in Sock /\ srv[f].box \in Seq([fd : Fd, id : 1 .. MaxSocks]) /\ f \in Fd /\ f # 0
    BY <2>2, SockFields
  <2>4. m \in [fd : Fd, id : 1 .. MaxSocks] /\ Tail(srv[f].box) \in Seq([fd : Fd, id : 1 .. MaxSocks])
    BY <2>1, <2>3, HeadTailProperties
  <2>5. m \in Name
    <3>1. m.fd \in Fd /\ m.id \in 1 .. MaxSocks /\ m = [fd |-> m.fd, id |-> m.id]
      BY <2>4
    <3> HIDE DEF m
    <3> QED  BY <3>1, FdNat DEF Name
  <2>6. t \in Sock /\ t.state = srv[f].state
    BY <2>3, <2>4 DEF Sock
  <2>7. srv' = [srv EXCEPT ![f] = t]
    BY <2>1
  <2>8. srv[f].state = "LISTENING"
    BY <2>1, <2>2 DEF Typed
  <2> HIDE DEF t, m
  <2>9. TypedSrv'
    BY <2>1, <2>3, <2>6, <2>7, <2>8, SockReal, SrvTyped
  <2>10. CASE socks' = socks \cup {m} /\ pc' = Idle /\ UNCHANGED <<req, calls>>
    BY <1>0, <1>i, <2>1, <2>5, <2>9, <2>10, TypedPartsNext, TypedParts
  <2>11. CASE Write("close", m, "none", "undo") /\ UNCHANGED socks
    <3>1. calls' \in Nat /\ Typable(req') /\ Typedpc'
      BY <2>5, <2>11, WriteTyped DEF Typedpc, Ops, Args
    <3> QED  BY <1>0, <2>1, <2>9, <2>11, <3>1, TypedPartsNext, TypedParts
  <2> QED  BY <2>1, <2>10, <2>11 DEF m
<1> QED  BY <1>1, <1>2, <1>3, <1>4, <1>5 DEF ClientReturn

\* A handler reads one request and writes an answer or none.
LEMMA TypedServe ==
    ASSUME Typed, req # <<>>,
           UNCHANGED <<pc, socks, calls, peer>>, made' \in Nat,
           req' = Tail(req), ans' \in Seq(Answers), TypedSrv'
    PROVE  Typed'
<1>1. Typable(req')
  BY HeadTyped
<1>2. Typedpc'
  BY DEF Typed, Typedpc
<1> QED  BY <1>1, <1>2, TypedPartsNext DEF Typed

LEMMA AnswerTyped ==
    ASSUME Typed, req # <<>>, NEW v \in Int
    PROVE  ans \o Return(R.call, v) \in Seq(Answers)
<1>1. R.call \in Nat
  BY HeadTyped DEF Req
<1>2. Return(R.call, v) \in Seq(Answers) /\ ans \in Seq(Answers)
  BY <1>1, ReturnTyped DEF Typed
<1> QED  BY <1>2, ConcatProperties

LEMMA AnswerBoth ==
    ASSUME Typed, req # <<>>
    PROVE  /\ ans \o Return(R.call, 0) \in Seq(Answers)
           /\ ans \o Return(R.call, -1) \in Seq(Answers)
<1>1. 0 \in Int /\ -1 \in Int
  OBVIOUS
<1> QED  BY <1>1, AnswerTyped

LEMMA CallTyped == ASSUME Typed, req # <<>> PROVE R.call \in Nat
<1>1. R \in Req
  BY HeadTyped
<1> QED  BY <1>1 DEF Req

LEMMA TypedServerRest ==
    ASSUME Typed,
           ServerPing \/ ServerSetSockOpt \/ ServerData \/ ServerListen
    PROVE  Typed'
<1>0. ans \in Seq(Answers) /\ made \in Nat
  BY DEF Typed
<1>1. CASE ServerPing
  <2>1. /\ req # <<>> /\ UNCHANGED <<pc, socks, calls, peer, made, srv, local>>
        /\ req' = Tail(req) /\ ans' = ans \o <<Word(R.call, 1, 1, 0)>>
    BY <1>1 DEF ServerPing, Serve
  <2>2. Word(R.call, 1, 1, 0) \in Answers
    BY <2>1, CallTyped DEF Word, Answers
  <2>3. ans' \in Seq(Answers)
    BY <1>0, <2>1, <2>2, Written
  <2> QED  BY <1>0, <2>1, <2>3, TypedStill, TypedServe
<1>2. CASE ServerSetSockOpt
  <2>1. /\ req # <<>> /\ R.op = "setsockopt"
        /\ UNCHANGED <<pc, socks, calls, peer, made, srv, local>>
        /\ \/ req' = Tail(Tail(req)) /\ ans' = ans \o Return(R.call, 0)
           \/ req' = Tail(req) /\ ans' = ans \o Return(R.call, -1)
    BY <1>2 DEF ServerSetSockOpt, Serve, Answer
  <2>2. ans' \in Seq(Answers)
    BY <2>1, AnswerBoth
  <2>3. TypedSrv' /\ Typedpc'
    BY <2>1, TypedStill DEF Typed, Typedpc
  <2>4. CASE req' = Tail(req)
    BY <1>0, <2>1, <2>2, <2>3, <2>4, TypedServe
  <2>5. CASE req' = Tail(Tail(req))
    <3> DEFINE t == Tail(req)
    <3>1. Typable(t) /\ t # <<>>
      BY <2>1, HeadTyped
    <3> HIDE DEF t
    <3>2. Typable(Tail(t))
      BY <3>1, TailTypable
    <3>3. Typable(req')
      BY <2>5, <3>2 DEF t
    <3> QED  BY <2>1, <2>2, <2>3, <3>3, TypedPartsNext DEF Typed
  <2> QED  BY <2>1, <2>4, <2>5
<1>3. CASE ServerData
  <2>1. /\ req # <<>> /\ UNCHANGED <<pc, socks, calls, peer, made, srv, local>>
        /\ req' = Tail(req)
        /\ ans' = ans \/ \E v \in {-1, 0} : ans' = ans \o Return(0, v)
    BY <1>3 DEF ServerData, Serve
  <2>2. ans' \in Seq(Answers)
    <3>1. ASSUME NEW v \in {-1, 0}, ans' = ans \o Return(0, v) PROVE ans' \in Seq(Answers)
      <4>1. 0 \in Nat /\ v \in Int
        OBVIOUS
      <4>2. Return(0, v) \in Seq(Answers)
        BY <4>1, ReturnTyped
      <4> QED  BY <1>0, <3>1, <4>2, ConcatProperties
    <3> QED  BY <1>0, <2>1, <3>1
  <2> QED  BY <1>0, <2>1, <2>2, TypedStill, TypedServe
<1>4. CASE ServerListen
  <2>1. req # <<>> /\ UNCHANGED <<pc, socks, calls, peer, made>> /\ req' = Tail(req)
    BY <1>4 DEF ServerListen, Serve, Answer
  <2>2. R.call \in Nat
    BY <2>1, HeadTyped DEF Req
  <2>3. ans' \in Seq(Answers)
    <3>1. CASE \E v \in {-1, 0} : ans' = ans \o Return(R.call, v)
      BY <2>1, <3>1, AnswerTyped
    <3>2. CASE \E v \in {-1, 0} :
                  ans' = ans \o <<Word(R.call, v, -1, 0), Word(R.call, EFail, 0, 0)>>
      <4>1. PICK v \in {-1, 0} :
                  ans' = ans \o <<Word(R.call, v, -1, 0), Word(R.call, EFail, 0, 0)>>
        BY <3>2
      <4>2. Word(R.call, v, -1, 0) \in Answers /\ Word(R.call, EFail, 0, 0) \in Answers
        BY <2>2 DEF Word, Answers, EFail
      <4>3. <<Word(R.call, v, -1, 0), Word(R.call, EFail, 0, 0)>> \in Seq(Answers)
        BY <4>2
      <4> QED  BY <1>0, <4>1, <4>3, ConcatProperties
    <3> QED  BY <1>4, <3>1, <3>2 DEF ServerListen, Answer
  <2>4. CASE UNCHANGED <<srv, local>>
    BY <1>0, <2>1, <2>3, <2>4, TypedStill, TypedServe
  <2>5. CASE /\ Found /\ local' = R.fd
             /\ srv' = [srv EXCEPT ![R.fd].state = "LISTENING", ![R.fd].t1 = FALSE]
    <3> DEFINE f == R.fd
               t == [srv[f] EXCEPT !.state = "LISTENING", !.t1 = FALSE]
    <3>1. f \in Live
      BY <2>5 DEF Found
    <3>2. srv[f] \in Sock /\ f \in Fd /\ f # 0
      BY <3>1, SockFields
    <3>3. t \in Sock /\ t.state = "LISTENING"
      BY <3>2 DEF Sock, State
    <3>4. srv' = [srv EXCEPT ![f] = t] /\ local' = f
      BY <2>5
    <3> HIDE DEF f, t
    <3>5. TypedSrv'
      BY <3>2, <3>3, <3>4, SockReal, SrvTyped
    <3> QED  BY <1>0, <2>1, <2>3, <3>5, TypedServe
  <2> QED  BY <1>4, <2>4, <2>5 DEF ServerListen
<1> QED  BY <1>1, <1>2, <1>3, <1>4

LEMMA TypedServerSock ==
    ASSUME Typed,
           ServerSocket \/ ServerBind \/ ServerAccept \/ ServerConnect \/ ServerClose
    PROVE  Typed'
<1>0. ans \in Seq(Answers) /\ made \in Nat
  BY DEF Typed
<1>1. CASE ServerSocket
  <2>1. /\ req # <<>> /\ R.op = "socket" /\ UNCHANGED <<pc, socks, calls, peer, local>>
        /\ Free # {} /\ made < MaxSocks /\ made' = made + 1 /\ req' = Tail(req)
        /\ srv' = [srv EXCEPT ![Next1] = NewSock(R.arg)]
        /\ ans' = ans \o <<Word(R.call, Next1, Next1, 0), Word(R.call, 0, 0, 0),
                           Word(R.call, 0, 0, made')>>
    BY <1>1 DEF ServerSocket, Serve
  <2>2. R.call \in Nat /\ R.arg \in {"STREAM", "DGRAM"}
    BY <2>1, HeadTyped, ApiAssumption DEF Req
  <2>3. Next1 \in Fd /\ Next1 \in Nat /\ Next1 # 0 /\ srv[Next1] = NoSock
    BY <2>1, Next1Free, FdNat
  <2>4. NewSock(R.arg) \in Sock /\ NewSock(R.arg).box = <<>>
    BY <2>1, <2>2, NewSockTyped DEF NewSock
  <2>5. local # Next1
    BY <2>3, FdNat DEF Typed, Live
  <2>6. TypedSrv'
    BY <2>1, <2>3, <2>4, <2>5, SrvTyped
  <2>7. ans' \in Seq(Answers)
    <3>1. /\ Word(R.call, Next1, Next1, 0) \in Answers /\ Word(R.call, 0, 0, 0) \in Answers
          /\ Word(R.call, 0, 0, made') \in Answers
      BY <1>0, <2>1, <2>2, <2>3 DEF Word, Answers
    <3>2. <<Word(R.call, Next1, Next1, 0), Word(R.call, 0, 0, 0), Word(R.call, 0, 0, made')>>
              \in Seq(Answers)
      BY <3>1
    <3> QED  BY <1>0, <2>1, <3>2, ConcatProperties
  <2> QED  BY <1>0, <2>1, <2>6, <2>7, TypedServe
<1>2. CASE ServerBind
  <2>1. /\ req # <<>> /\ UNCHANGED <<pc, socks, calls, peer, made, local>> /\ req' = Tail(req)
        /\ \E v \in {-1, 0} : ans' = ans \o Return(R.call, v)
    BY <1>2 DEF ServerBind, Serve, Answer
  <2>2. ans' \in Seq(Answers)
    BY <2>1, AnswerBoth
  <2>3. CASE UNCHANGED srv
    BY <1>0, <2>1, <2>2, <2>3, TypedStill, TypedServe
  <2>4. CASE Binds /\ srv' = [srv EXCEPT ![R.fd].bound = "bind"]
    <3> DEFINE f == R.fd
               t == [srv[f] EXCEPT !.bound = "bind"]
    <3>1. f \in Live
      BY <2>4 DEF Binds, Found
    <3>2. srv[f] \in Sock /\ f \in Fd /\ f # 0
      BY <3>1, SockFields
    <3>3. t \in Sock /\ t.state = srv[f].state /\ t.box = srv[f].box
      BY <3>2 DEF Sock
    <3>4. srv' = [srv EXCEPT ![f] = t]
      BY <2>4
    <3>5. t.box # <<>> => t.state = "LISTENING"
      BY <3>1, <3>3 DEF Typed
    <3>6. local = f => t.state = "LISTENING"
      BY <3>2, <3>3 DEF Typed
    <3> HIDE DEF f, t
    <3>7. TypedSrv'
      BY <2>1, <3>2, <3>3, <3>4, <3>5, <3>6, SockReal, SrvTyped
    <3> QED  BY <1>0, <2>1, <2>2, <3>7, TypedServe
  <2> QED  BY <1>2, <2>3, <2>4 DEF ServerBind
<1>3. CASE ServerAccept
  <2>1. /\ req # <<>> /\ UNCHANGED <<pc, socks, calls, peer, made, srv, local>> /\ req' = Tail(req)
        /\ \E v \in {-1, 0} : ans' = ans \o Return(R.call, v)
    BY <1>3 DEF ServerAccept, Serve, AcceptAnswer, Answer
  <2>2. ans' \in Seq(Answers)
    BY <2>1, AnswerBoth
  <2> QED  BY <1>0, <2>1, <2>2, TypedStill, TypedServe
<1>4. CASE ServerConnect
  <2>1. /\ req # <<>> /\ UNCHANGED <<pc, socks, calls, peer, made, local>> /\ req' = Tail(req)
        /\ ans' = ans \/ ans' = ans \o Return(R.call, -1)
    BY <1>4 DEF ServerConnect, Serve, Answer
  <2>2. ans' \in Seq(Answers)
    BY <1>0, <2>1, AnswerBoth
  <2>3. CASE UNCHANGED srv
    BY <1>0, <2>1, <2>2, <2>3, TypedStill, TypedServe
  <2>4. CASE /\ Connects
             /\ srv' = [srv EXCEPT ![R.fd].bound = IF @ = "no" THEN "other" ELSE @,
                                   ![R.fd].call  = R.call,
                                   ![R.fd].t1    = srv[R.fd].type = "STREAM",
                                   ![R.fd].state = IF srv[R.fd].type = "DGRAM"
                                                   THEN "ESTABLISHED" ELSE "PENDING_CONNECT"]
    <3> DEFINE f == R.fd
               t == [srv[f] EXCEPT !.bound = IF @ = "no" THEN "other" ELSE @, !.call = R.call,
                                   !.t1    = srv[R.fd].type = "STREAM",
                                   !.state = IF srv[R.fd].type = "DGRAM"
                                             THEN "ESTABLISHED" ELSE "PENDING_CONNECT"]
    <3>1. f \in Live /\ srv[f].state # "LISTENING"
      BY <2>4 DEF Connects, Found
    <3>2. srv[f] \in Sock /\ f \in Fd /\ f # 0
      BY <3>1, SockFields
    <3>3. R.call \in Nat
      BY <2>1, HeadTyped DEF Req
    <3>4. t \in Sock /\ t.box = srv[f].box
      BY <3>2, <3>3 DEF Sock, State
    <3>5. srv' = [srv EXCEPT ![f] = t]
      BY <2>4
    <3>6. t.box = <<>>
      BY <3>1, <3>4 DEF Typed
    <3>7. local # f
      BY <3>1, <3>2 DEF Typed
    <3> HIDE DEF f, t
    <3>8. TypedSrv'
      BY <2>1, <3>2, <3>4, <3>5, <3>6, <3>7, SockReal, SrvTyped
    <3> QED  BY <1>0, <2>1, <2>2, <3>8, TypedServe
  <2> QED  BY <1>4, <2>3, <2>4 DEF ServerConnect
<1>5. CASE ServerClose
  <2>1. /\ req # <<>> /\ UNCHANGED <<pc, socks, calls, peer, made>> /\ req' = Tail(req)
        /\ \E v \in {-1, 0} : ans' = ans \o Return(R.call, v)
    BY <1>5 DEF ServerClose, Serve, Answer
  <2>2. ans' \in Seq(Answers)
    BY <2>1, AnswerBoth
  <2>3. CASE UNCHANGED <<srv, local>>
    BY <1>0, <2>1, <2>2, <2>3, TypedStill, TypedServe
  <2>4. CASE Found /\ srv' = Destroyed(R.fd) /\ local' = Unlisted(R.fd)
    <3>1. R.fd \in Live
      BY <2>4 DEF Found
    <3>2. R.fd \in Fd /\ R.fd # 0
      BY <3>1, SockFields
    <3>3. local' \in {local, 0} /\ local' # R.fd
      <4>1. CASE srv[R.fd].state = "LISTENING"
        BY <2>4, <3>2, <4>1 DEF Unlisted
      <4>2. CASE srv[R.fd].state # "LISTENING"
        BY <2>4, <3>2, <4>2 DEF Unlisted, Typed
      <4> QED  BY <4>1, <4>2
    <3>4. TypedSrv'
      BY <2>4, <3>2, <3>3, SrvTyped DEF Destroyed
    <3> QED  BY <1>0, <2>1, <2>2, <3>4, TypedServe
  <2> QED  BY <1>5, <2>3, <2>4 DEF ServerClose
<1> QED  BY <1>1, <1>2, <1>3, <1>4, <1>5

LEMMA TypedDecides ==
    ASSUME Typed, NEW f \in Fd, Decides(f)
    PROVE  Typed'
<1> DEFINE done(t) == srv' = [srv EXCEPT ![f] = t]
<1>1. /\ f \in Live /\ srv[f].state = "PENDING_CONNECT"
      /\ UNCHANGED <<req, pc, socks, calls, made, local>>
      /\ \E v \in {-1, 0} : ans' = ans \o Return(srv[f].call, v)
      /\ peer' \in {peer, peer + 1}
  BY DEF Decides, HandleUa, HandleRefusal, ConnectTimeout, Connecting, RespondConnect, Event,
         Counted, Live
<1>2. \/ \E state \in {"ESTABLISHED", "PENDING_CONNECT", "CLOSED"}, t1 \in BOOLEAN :
            done([srv[f] EXCEPT !.state = state, !.t1 = t1, !.call = 0])
      \/ done(NoSock)
  <2>1. ASSUME HandleUa(f) PROVE done([srv[f] EXCEPT !.state = "ESTABLISHED", !.t1 = FALSE, !.call = 0])
    BY <2>1 DEF HandleUa
  <2>2. ASSUME HandleRefusal(f)
        PROVE  \E state \in {"PENDING_CONNECT", "CLOSED"} :
                   done([srv[f] EXCEPT !.state = state, !.t1 = (state = "PENDING_CONNECT"), !.call = 0])
    BY <2>2 DEF HandleRefusal
  <2>3. ASSUME ConnectTimeout(f) PROVE done(NoSock)
    BY <2>3 DEF ConnectTimeout, Destroyed
  <2> HIDE DEF done
  <2>4. \A state : (state = "PENDING_CONNECT") \in BOOLEAN
    OBVIOUS
  <2> QED  BY <2>1, <2>2, <2>3, <2>4 DEF Decides
<1>3. srv[f] \in Sock /\ srv[f].box = <<>> /\ local # f /\ srv[f].call \in Nat
  BY <1>1, SockFields DEF Typed
<1>4. TypedSrv'
  <2>1. ASSUME NEW state \in {"ESTABLISHED", "PENDING_CONNECT", "CLOSED"}, NEW t1 \in BOOLEAN,
               done([srv[f] EXCEPT !.state = state, !.t1 = t1, !.call = 0])
        PROVE  TypedSrv'
    <3> DEFINE t == [srv[f] EXCEPT !.state = state, !.t1 = t1, !.call = 0]
    <3>1. t \in Sock /\ t.box = <<>>
      BY <1>3 DEF Sock, State
    <3>2. srv' = [srv EXCEPT ![f] = t]
      BY <2>1
    <3> HIDE DEF t
    <3> QED  BY <1>1, <1>3, <3>1, <3>2, SrvTyped
  <2>2. ASSUME done(NoSock) PROVE TypedSrv'
    BY <1>1, <1>3, <2>2, SrvTyped
  <2> HIDE DEF done
  <2> QED  BY <1>2, <2>1, <2>2
<1>5. ans' \in Seq(Answers)
  <2>1. PICK v \in {-1, 0} : ans' = ans \o Return(srv[f].call, v)
    BY <1>1
  <2>2. v \in Int
    OBVIOUS
  <2>3. Return(srv[f].call, v) \in Seq(Answers) /\ ans \in Seq(Answers)
    BY <1>3, <2>2, ReturnTyped DEF Typed
  <2> QED  BY <2>1, <2>3, ConcatProperties
<1>6. Typable(req') /\ Typedpc' /\ peer' \in Nat
  BY <1>1, TypedParts DEF Typedpc, Typed
<1> HIDE DEF done
<1> QED  BY <1>1, <1>4, <1>5, <1>6, TypedPartsNext DEF Typed

\* A frame that tells the program nothing
LEMMA TypedEvent ==
    ASSUME Typed, Event, UNCHANGED <<local, ans>>, made' \in Nat, peer' \in Nat, TypedSrv'
    PROVE  Typed'
<1>1. UNCHANGED <<req, pc, socks, calls>>
  BY DEF Event
<1>2. Typable(req') /\ Typedpc'
  BY <1>1, TypedParts DEF Typedpc
<1> QED  BY <1>1, <1>2, TypedPartsNext DEF Typed

\* A frame that starts or stops T1
LEMMA TypedT1 ==
    ASSUME Typed, NEW f \in Fd, HandleRr(f) \/ HandleXidAnswer(f)
    PROVE  Typed'
<1>1. /\ Event /\ UNCHANGED <<local, ans, made>> /\ peer' \in {peer, peer + 1} /\ f \in Live
      /\ \E b \in BOOLEAN : srv' = [srv EXCEPT ![f].t1 = b]
  BY DEF HandleRr, HandleXidAnswer, Connecting, Pending, Counted, Live
<1>2. PICK b \in BOOLEAN : srv' = [srv EXCEPT ![f].t1 = b]
  BY <1>1
<1> DEFINE t == [srv[f] EXCEPT !.t1 = b]
<1>3. srv[f] \in Sock
  BY <1>1, SockFields
<1>4. t \in Sock /\ t.box = srv[f].box /\ t.state = srv[f].state
  BY <1>3 DEF Sock
<1>5. srv' = [srv EXCEPT ![f] = t]
  BY <1>2
<1>6. t.box # <<>> => t.state = "LISTENING"
  BY <1>1, <1>4 DEF Typed
<1>7. local = f => t.state = "LISTENING"
  BY <1>1, <1>4, FdNat DEF Typed
<1> HIDE DEF t
<1>8. TypedSrv'
  BY <1>1, <1>4, <1>5, <1>6, <1>7, SockReal, SrvTyped
<1>9. made' \in Nat /\ peer' \in Nat
  BY <1>1 DEF Typed
<1> QED  BY <1>1, <1>8, <1>9, TypedEvent

LEMMA AskedNat == ASSUME Typed PROVE Asked \in Nat
<1>1. req \in Seq(Req) /\ DOMAIN req = 1 .. Len(req) /\ Len(req) \in Nat
  BY DEF Typed
<1>2. IsFiniteSet(1 .. Len(req))
  BY <1>1, FS_Interval
<1> DEFINE A == {i \in DOMAIN req : req[i].op = "socket"}
<1>3. IsFiniteSet(A)
  BY <1>1, <1>2, FS_Subset
<1> HIDE DEF A
<1>4. Cardinality(A) \in Nat
  BY <1>3, FS_CardinalityType
<1> QED  BY <1>4 DEF Asked, A

\* There is a place for a socket that a peer asks for.
LEMMA RoomFree ==
    ASSUME Typed, Room
    PROVE  /\ Free # {} /\ made < MaxSocks /\ made + 1 \in 1 .. MaxSocks /\ made \in Nat
           /\ Next1 \in Fd /\ Next1 # 0 /\ srv[Next1] = NoSock /\ Next1 \notin Live
<1>1. Asked \in Nat /\ made \in Nat /\ Cardinality({}) = 0
  BY AskedNat, FS_EmptySet DEF Typed
<1>2. Free # {} /\ made < MaxSocks
  BY <1>1, ApiAssumption DEF Room
<1>3. Next1 \in Fd /\ Next1 # 0 /\ srv[Next1] = NoSock /\ Next1 \notin Live
  BY <1>2, Next1Free, FdNat DEF Live
<1> QED  BY <1>1, <1>2, <1>3, ApiAssumption

LEMMA PeerSockTyped ==
    ASSUME Typed, made < MaxSocks, local \in Live,
           NEW state \in {"PENDING_ACCEPT", "ESTABLISHED"}
    PROVE  /\ PeerSock(state) \in Sock /\ PeerSock(state).id = made + 1
           /\ PeerSock(state).box = <<>> /\ PeerSock(state).call = 0
           /\ PeerSock(state).state = state
<1> DEFINE n == NewSock(srv[local].type)
<1>1. srv[local].type \in {"STREAM", "DGRAM"}
  BY SockFields DEF Sock
<1>2. n \in Sock /\ n.id = made + 1 /\ n.box = <<>> /\ n.call = 0
  BY <1>1, NewSockTyped DEF NewSock
<1> HIDE DEF n
<1>3. PeerSock(state) = [n EXCEPT !.state = state, !.bound = "other",
                                  !.t1 = (state = "PENDING_ACCEPT")]
  BY DEF PeerSock, n
<1> QED  BY <1>2, <1>3 DEF Sock, State

LEMMA LocalLive ==
    ASSUME Typed, local # 0
    PROVE  /\ local \in Live /\ local \in Fd /\ srv[local].state = "LISTENING"
           /\ srv[local] \in Sock /\ srv[local].box \in Seq([fd : Fd, id : 1 .. MaxSocks])
<1>1. local \in Live /\ srv[local].state = "LISTENING"
  BY DEF Typed
<1> QED  BY <1>1, SockFields

LEMMA TypedHandleXid ==
    ASSUME Typed, HandleXid
    PROVE  Typed'
<1>1. /\ Event /\ UNCHANGED <<local, ans>> /\ made' = made + 1 /\ peer' \in {peer, peer + 1}
      /\ local # 0 /\ Room /\ srv' = [srv EXCEPT ![Next1] = PeerSock("PENDING_ACCEPT")]
  BY DEF HandleXid, Counted
<1>2. /\ made < MaxSocks /\ Next1 \in Fd /\ Next1 # 0 /\ Next1 \notin Live /\ made \in Nat
  BY <1>1, RoomFree
<1>3. local \in Live
  BY <1>1, LocalLive
<1> DEFINE t == PeerSock("PENDING_ACCEPT")
<1>4. t \in Sock /\ t.box = <<>>
  BY <1>2, <1>3, PeerSockTyped
<1> HIDE DEF t
<1>5. TypedSrv'
  BY <1>1, <1>2, <1>3, <1>4, SrvTyped DEF t
<1>6. made' \in Nat /\ peer' \in Nat
  BY <1>1, <1>2 DEF Typed
<1> QED  BY <1>1, <1>5, <1>6, TypedEvent

\* Socket n is t, and the name x comes last in the pty of the listening one.
Notifies(n, t, x) ==
    srv' = [[srv EXCEPT ![n] = t] EXCEPT ![local].box = Append(@, x)]

NotifiedOf(n, t, x) ==
    /\ srv'[n] = t /\ Live' = Live \cup {n}
    /\ \A g \in Fd \ {n, local} : srv'[g] = srv[g]
    /\ srv'[local].id = srv[local].id /\ srv'[local].call = srv[local].call
    /\ srv'[local].type = srv[local].type /\ srv'[local].state = srv[local].state
    /\ srv'[local].box = Append(srv[local].box, x)

LEMMA SrvNotified ==
    ASSUME Typed, local # 0, NEW n \in Fd, n # local, NEW t \in Sock, t.box = <<>>,
           NEW x \in [fd : Fd, id : 1 .. MaxSocks], local' = local, Notifies(n, t, x)
    PROVE  TypedSrv' /\ NotifiedOf(n, t, x)
<1> DEFINE b == srv[local].box
           l == [srv[local] EXCEPT !.box = Append(b, x)]
           M == [fd : Fd, id : 1 .. MaxSocks]
<1>1. /\ local \in Live /\ local \in Fd /\ srv[local].state = "LISTENING"
      /\ srv[local] \in Sock /\ b \in Seq(M)
  BY LocalLive
<1>2. Append(b, x) \in Seq(M)
  BY <1>1
<1>3. /\ l \in Sock /\ l.id = srv[local].id /\ l.call = srv[local].call
      /\ l.type = srv[local].type /\ l.state = srv[local].state /\ l.box = Append(b, x)
  BY <1>1, <1>2 DEF Sock
<1>4. srv \in [Fd -> Sock \cup {NoSock}]
  BY DEF Typed
<1> DEFINE u == [srv EXCEPT ![n] = t]
<1>5. /\ u \in [Fd -> Sock \cup {NoSock}] /\ u[n] = t /\ u[local] = srv[local]
      /\ \A g \in Fd \ {n} : u[g] = srv[g]
  BY <1>1, <1>4
<1>6. srv' = [u EXCEPT ![local].box = Append(@, x)]
  BY DEF Notifies
<1> HIDE DEF u
<1>7. srv' = [u EXCEPT ![local] = l]
  BY <1>1, <1>5, <1>6
<1> HIDE DEF l, b, M
<1>8. /\ srv' \in [Fd -> Sock \cup {NoSock}] /\ srv'[n] = t /\ srv'[local] = l
      /\ \A g \in Fd \ {n, local} : srv'[g] = srv[g]
  <2>1. srv' \in [Fd -> Sock \cup {NoSock}]
    BY <1>3, <1>5, <1>7
  <2>2. srv'[local] = l /\ \A g \in Fd \ {local} : srv'[g] = u[g]
    BY <1>1, <1>5, <1>7
  <2> QED  BY <1>5, <2>1, <2>2
<1>9. Live' = Live \cup {n}
  BY <1>1, <1>3, <1>8, SockReal DEF Live
<1>10. local' \in {g \in Live : srv[g].state = "LISTENING"}'
  BY <1>1, <1>3, <1>8, <1>9
<1>11. ASSUME NEW g \in Live', srv'[g].box # <<>> PROVE srv'[g].state = "LISTENING"
  <2>1. g \in Fd
    BY DEF Live
  <2> QED  BY <1>1, <1>3, <1>8, <1>9, <1>11, <2>1 DEF Typed
<1>12. TypedSrv'
  BY <1>8, <1>10, <1>11 DEF TypedSrv
<1> QED  BY <1>3, <1>8, <1>9, <1>12 DEF b, NotifiedOf

\* The socket that a SABM is about: one that an XID has made, or a new one
LEMMA SabmSock ==
    ASSUME Typed, NEW f \in Fd, HandleSabm(f)
    PROVE  /\ Event /\ UNCHANGED <<local, ans, made, odd>> /\ peer' \in {peer, peer + 1}
           /\ local # 0 /\ f # local /\ f \in Live /\ srv[f].state = "PENDING_ACCEPT"
           /\ srv[f].box = <<>>
           /\ \E t \in Sock :
                 /\ t.id = srv[f].id /\ t.box = <<>> /\ t.call = srv[f].call
                 /\ t.type = srv[f].type /\ t.state = "ESTABLISHED"
                 /\ Notifies(f, t, [fd |-> f, id |-> srv[f].id])
           /\ [fd |-> f, id |-> srv[f].id] \in [fd : Fd, id : 1 .. MaxSocks]
<1>1. /\ Event /\ UNCHANGED <<local, ans, made, odd>> /\ peer' \in {peer, peer + 1}
      /\ local # 0 /\ f \in Live /\ srv[f].state = "PENDING_ACCEPT"
      /\ srv' = [srv EXCEPT ![f].state = "ESTABLISHED", ![f].t1 = FALSE,
                            ![local].box = Append(@, [fd |-> f, id |-> srv[f].id])]
  BY DEF HandleSabm, Counted, Accepts, Pending, Live, Notified, Message
<1>2. f # local /\ srv[f].box = <<>> /\ srv[f] \in Sock /\ srv[f].id \in 1 .. MaxSocks
  BY <1>1, LocalLive, SockFields DEF Typed
<1> DEFINE t == [srv[f] EXCEPT !.state = "ESTABLISHED", !.t1 = FALSE]
<1>3. /\ t \in Sock /\ t.id = srv[f].id /\ t.box = <<>> /\ t.call = srv[f].call
      /\ t.type = srv[f].type /\ t.state = "ESTABLISHED"
  BY <1>2 DEF Sock, State
<1>4. srv' = [[srv EXCEPT ![f] = t]
                 EXCEPT ![local].box = Append(@, [fd |-> f, id |-> srv[f].id])]
  <2>1. srv \in [Fd -> Sock \cup {NoSock}] /\ local \in Fd
    BY <1>1, LocalLive DEF Typed
  <2> QED  BY <1>1, <1>2, <2>1
<1> HIDE DEF t
<1>5. Notifies(f, t, [fd |-> f, id |-> srv[f].id])
  BY <1>4 DEF Notifies
<1>6. [fd |-> f, id |-> srv[f].id] \in [fd : Fd, id : 1 .. MaxSocks]
  BY <1>2
<1> QED  BY <1>1, <1>2, <1>3, <1>5, <1>6

LEMMA SabmFirstSock ==
    ASSUME Typed, HandleSabmFirst
    PROVE  /\ Event /\ UNCHANGED <<local, ans, odd>> /\ peer' \in {peer, peer + 1}
           /\ made' = made + 1 /\ made \in Nat
           /\ local # 0 /\ Next1 \in Fd /\ Next1 # local /\ Next1 \notin Live
           /\ \E t \in Sock :
                 /\ t.id = made + 1 /\ t.box = <<>> /\ t.call = 0 /\ t.state = "ESTABLISHED"
                 /\ Notifies(Next1, t, [fd |-> Next1, id |-> made + 1])
           /\ [fd |-> Next1, id |-> made + 1] \in [fd : Fd, id : 1 .. MaxSocks]
<1> DEFINE n == Next1
           t == PeerSock("ESTABLISHED")
<1>1. /\ Event /\ UNCHANGED <<local, ans, odd>> /\ peer' \in {peer, peer + 1} /\ made' = made + 1
      /\ local # 0 /\ Room
      /\ srv' = [srv EXCEPT ![n] = t, ![local].box = Append(@, [fd |-> n, id |-> made + 1])]
  BY DEF HandleSabmFirst, Counted, Accepts, Notified, Message
<1>2. /\ made < MaxSocks /\ made + 1 \in 1 .. MaxSocks /\ made \in Nat
      /\ n \in Fd /\ n \notin Live
  BY <1>1, RoomFree
<1>3. local \in Live /\ local \in Fd /\ n # local
  BY <1>1, <1>2, LocalLive
<1>4. t \in Sock /\ t.id = made + 1 /\ t.box = <<>> /\ t.call = 0 /\ t.state = "ESTABLISHED"
  BY <1>2, <1>3, PeerSockTyped
<1> HIDE DEF n, t
<1>5. srv' = [[srv EXCEPT ![n] = t]
                 EXCEPT ![local].box = Append(@, [fd |-> n, id |-> made + 1])]
  BY <1>1, <1>3
<1>6. Notifies(n, t, [fd |-> n, id |-> made + 1])
  BY <1>5 DEF Notifies
<1>7. [fd |-> n, id |-> made + 1] \in [fd : Fd, id : 1 .. MaxSocks]
  BY <1>2
<1> QED  BY <1>1, <1>2, <1>3, <1>4, <1>6, <1>7 DEF n

LEMMA TypedSabms ==
    ASSUME Typed, HandleSabmFirst \/ \E f \in Fd : HandleSabm(f)
    PROVE  Typed'
<1>1. CASE HandleSabmFirst
  <2> DEFINE x == [fd |-> Next1, id |-> made + 1]
  <2>1. PICK t \in Sock : /\ t.box = <<>>
                          /\ Notifies(Next1, t, x)
    BY <1>1, SabmFirstSock
  <2>2. /\ Event /\ UNCHANGED <<local, ans>> /\ made' \in Nat /\ peer' \in Nat
        /\ local # 0 /\ Next1 \in Fd /\ Next1 # local
        /\ x \in [fd : Fd, id : 1 .. MaxSocks]
    BY <1>1, SabmFirstSock DEF Typed
  <2> HIDE DEF x
  <2>3. TypedSrv'
    BY <2>1, <2>2, SrvNotified
  <2> QED  BY <2>2, <2>3, TypedEvent
<1>2. ASSUME NEW f \in Fd, HandleSabm(f) PROVE Typed'
  <2> DEFINE x == [fd |-> f, id |-> srv[f].id]
  <2>1. PICK t \in Sock : /\ t.box = <<>>
                          /\ Notifies(f, t, x)
    BY <1>2, SabmSock
  <2>2. /\ Event /\ UNCHANGED <<local, ans>> /\ made' \in Nat /\ peer' \in Nat
        /\ local # 0 /\ f # local
        /\ x \in [fd : Fd, id : 1 .. MaxSocks]
    <3>1. made \in Nat /\ peer \in Nat
      BY DEF Typed
    <3>2. Event /\ UNCHANGED <<local, ans, made>> /\ peer' \in {peer, peer + 1} /\ local # 0 /\ f # local
      BY <1>2, SabmSock
    <3>3. x \in [fd : Fd, id : 1 .. MaxSocks]
      BY <1>2, SabmSock
    <3> HIDE DEF x
    <3> QED  BY <3>1, <3>2, <3>3
  <2> HIDE DEF x
  <2>3. TypedSrv'
    BY <2>1, <2>2, SrvNotified
  <2> QED  BY <2>2, <2>3, TypedEvent
<1> QED  BY <1>1, <1>2

LEMMA TypedEnds ==
    ASSUME Typed, NEW f \in Fd, LinkEnds(f) \/ AcceptTimeout(f)
    PROVE  Typed'
<1>1. /\ Event /\ UNCHANGED <<local, ans, made>>
      /\ peer' \in {peer, peer + 1} /\ f \in Live
      /\ srv[f].state # "LISTENING" /\ srv' = [srv EXCEPT ![f] = NoSock]
  BY DEF LinkEnds, AcceptTimeout, Pending, Counted, Destroyed, Live
<1>2. local # f
  BY SMTT(30), <1>1, FdNat DEF Typed
<1>3. TypedSrv'
  BY <1>1, <1>2, SrvTyped
<1>4. made' \in Nat /\ peer' \in Nat
  BY <1>1 DEF Typed
<1> QED  BY <1>1, <1>3, <1>4, TypedEvent

LEMMA TypedDestroy ==
    ASSUME Typed, Destroy
    PROVE  Typed'
<1>1. /\ UNCHANGED <<req, calls, made, peer>> /\ socks' = {} /\ ans' = <<>>
      /\ pc' = [Idle EXCEPT !.step = "gone"]
      /\ srv' = [g \in Fd |-> NoSock] /\ local' = 0
  BY DEF Destroy
<1>2. Typedpc'
  BY <1>1, IdleName DEF Typedpc
<1>3. TypedSrv'
  BY <1>1 DEF TypedSrv, Live
<1>4. Typable(req') /\ ans' \in Seq(Answers)
  BY <1>1, TypedParts
<1> QED  BY <1>1, <1>2, <1>3, <1>4, TypedPartsNext DEF Typed

LEMMA TypedInit == ASSUME Init PROVE Typed
<1>1. srv = [g \in Fd |-> NoSock] /\ local = 0 /\ req = <<>> /\ ans = <<>> /\ pc = Idle
      /\ socks = {} /\ calls = 0 /\ made = 0 /\ peer = 0
  BY DEF Init
<1>2. Typedpc
  BY <1>1, IdleName DEF Typedpc
<1>3. TypedSrv
  BY <1>1 DEF TypedSrv, Live
<1>4. Typable(req) /\ ans \in Seq(Answers)
  BY <1>1 DEF Typable
<1> QED  BY <1>1, <1>2, <1>3, <1>4, TypedParts

LEMMA TypedNext ==
    ASSUME Typed, [Next]_vars
    PROVE  Typed'
<1>1. CASE UNCHANGED vars
  BY <1>1 DEF vars, Typed, Live
<1>2. CASE Peer
  <2>1. ASSUME NEW f \in Fd, Decides(f) PROVE Typed'
    BY <2>1, TypedDecides
  <2>2. ASSUME NEW f \in Fd, HandleRr(f) \/ HandleXidAnswer(f) PROVE Typed'
    BY <2>2, TypedT1
  <2>3. ASSUME NEW f \in Fd, LinkEnds(f) \/ AcceptTimeout(f) PROVE Typed'
    BY <2>3, TypedEnds
  <2>4. ASSUME NEW f \in Fd, HandleSabm(f) PROVE Typed'
    BY <2>4, TypedSabms
  <2> QED  BY <1>2, <2>1, <2>2, <2>3, <2>4, TypedHandleXid, TypedSabms DEF Peer, Decides
<1>4. CASE Server
  BY <1>4, TypedServerRest, TypedServerSock DEF Server
<1> QED  BY <1>1, <1>2, <1>4, TypedClientCall, TypedClientReturn, TypedDestroy DEF Next

---------------------------------------------------------------------------
(***************************************************************************)
(* Where a call is.                                                         *)
(***************************************************************************)
LEMMA NonEmpty == ASSUME NEW s, s = <<>> PROVE Len(s) = 0
OBVIOUS

LEMMA Single == ASSUME NEW S, NEW t \in Seq(S), Len(t) = 1 PROVE t = <<t[1]>>
OBVIOUS

LEMMA Pair ==
    ASSUME NEW S, NEW a \in S, NEW b \in S, NEW u, u = <<a>> \o <<b>>
    PROVE  Head(u) = a /\ Tail(u) = <<b>> /\ Tail(Tail(u)) = <<>>
<1> DEFINE x == <<a>>
<1>1. x \in Seq(S) /\ Len(x) = 1 /\ x[1] = a
  OBVIOUS
<1>2. u = x \o <<b>>
  OBVIOUS
<1> HIDE DEF x
<1>3. u \in Seq(S) /\ Len(u) = 2 /\ u[1] = a /\ u[2] = b
  BY <1>1, <1>2, Written
<1>4. u # <<>>
  BY <1>3
<1>5. Tail(u) \in Seq(S) /\ Len(Tail(u)) = 1 /\ Tail(u)[1] = b
  BY <1>3, <1>4, HeadTailProperties
<1>6. Head(u) = a
  BY <1>3
<1>7. Tail(u) = <<b>>
  BY <1>5, Single
<1>8. Tail(<<b>>) = <<>>
  OBVIOUS
<1> QED  BY <1>6, <1>7, <1>8, Zenon

\* A request that the server finds is the one of the call, with nothing else
\* on its way.
LEMMA SentHead ==
    ASSUME Typed, Phase, req # <<>>
    PROVE  /\ Waiting /\ ans = <<>> /\ Unasked /\ pc.call # 0 /\ pc.call \in Nat /\ pc.op \in Ops
           /\ pc.step = "undo" => pc.op = "close"
           /\ pc.op \in {"ping", "socket"} => pc.sock = Idle.sock
           /\ R.op = pc.op /\ R.fd = pc.sock.fd /\ R.id = pc.sock.id /\ R.call = pc.call
           /\ pc.op # "setsockopt" => Tail(req) = <<>>
           /\ pc.op = "setsockopt" => Tail(req) = <<Data>> /\ Tail(Tail(req)) = <<>>
<1>1. /\ Waiting /\ Sent /\ pc.call # 0
      /\ pc.step = "undo" => pc.op = "close"
  BY DEF Phase, Quiet, Answered, Waits
<1>2. PICK arg \in Args : req = Request(pc.op, pc.sock, arg, pc.call)
                                \o (IF pc.op = "setsockopt" THEN <<Data>> ELSE <<>>)
  BY <1>1 DEF Sent
<1> DEFINE m == [op |-> pc.op, fd |-> pc.sock.fd, id |-> pc.sock.id, arg |-> arg,
                 call |-> pc.call]
<1>3. CASE pc.op = "setsockopt"
  <2>1. req = <<m>> \o <<Data>>
    BY <1>2, <1>3 DEF Request
  <2> HIDE DEF m
  <2>2. m \in {m, Data} /\ Data \in {m, Data}
    OBVIOUS
  <2>3. Head(req) = m /\ Tail(req) = <<Data>> /\ Tail(Tail(req)) = <<>>
    BY <2>1, <2>2, Pair
  <2> QED  BY <1>1, <1>3, <2>3 DEF R, m, Sent, Typed
<1>4. CASE pc.op # "setsockopt"
  <2>1. req = <<m>> \o <<>>
    BY <1>2, <1>4 DEF Request
  <2> HIDE DEF m
  <2>2. req = <<m>>
    BY <2>1
  <2>3. Head(req) = m /\ Tail(req) = <<>>
    BY <2>2
  <2> QED  BY <1>1, <1>4, <2>3 DEF R, m, Sent, Typed
<1> QED  BY <1>3, <1>4

\* Words that the program finds are the answer to its call, and all of it.
LEMMA AnsweredWords ==
    ASSUME Typed, Phase, ans # <<>>
    PROVE  /\ Waiting /\ Answered /\ req = <<>> /\ Unasked /\ pc.op \in Ops
           /\ pc.step = "undo" => pc.op = "close"
           /\ Len(ans) = Size(pc.op)
BY DEF Phase, Quiet, Sent, Answered, Waits, Typed

LEMMA ReadAnswer ==
    ASSUME Typed, Phase, Read, AnswersMatch
    PROVE  /\ Answered /\ req = <<>> /\ ans # <<>> /\ Unasked /\ ans' = <<>>
           /\ Words = Size(pc.op) /\ Ret = ans[1].v
           /\ pc.op = "socket" => Path = ans[3].id
           /\ AnswersMatch'
<1>1. ans # <<>>
  BY DEF Read
<1>2. Answered /\ req = <<>> /\ Unasked /\ Len(ans) = Size(pc.op)
  BY <1>1, AnsweredWords
<1>3. Size(pc.op) \in 1 .. 3 /\ (pc.op = "socket" => Size(pc.op) = 3)
  BY DEF Size
<1>4. Words = Len(ans) /\ ans' = <<>> /\ \A i \in 1 .. Words : Got[i] = ans[i]
  BY <1>2, <1>3, ReadTyped
<1>5. Ret = ans[1].v
  BY <1>2, <1>3, <1>4 DEF Ret
<1>6. pc.op = "socket" => Path = ans[3].id
  BY <1>2, <1>3, <1>4 DEF Path
<1>7. Right \/ "unbound" \in odd
  BY <1>2, <1>3, <1>4 DEF Right, Answered
<1>8. AnswersMatch'
  <2>1. odd' = odd /\ wrong' = wrong \cup (IF Right THEN {} ELSE {"answer"})
    BY DEF Read
  <2> QED  BY <1>7, <2>1 DEF AnswersMatch
<1> QED  BY <1>1, <1>2, <1>4, <1>5, <1>6, <1>8

\* The server answers in one word and an errno.
LEMMA AnswerSent ==
    ASSUME Waiting, pc.call # 0, pc.call \in Nat, pc.step = "undo" => pc.op = "close",
           pc' = pc, Unasked', Size(pc.op) = 2, pc.op # "socket",
           req' = <<>>, ans = <<>>, NEW v \in Int, ans' = ans \o Return(pc.call, v)
    PROVE  Phase' /\ ans'[1].v = v /\ ans' # <<>>
<1> DEFINE r == Return(pc.call, v)
<1>1. /\ r \in Seq(Answers) /\ Len(r) = 2
      /\ r[1].v = v /\ r[1].so = v /\ r[1].id = 0 /\ r[1].call = pc.call
      /\ r[2].id = 0 /\ r[2].call = pc.call
  <2>1. /\ r \in Seq(Answers) /\ Len(r) = 2
        /\ r[1] = [call |-> pc.call, v |-> v, so |-> v, id |-> 0]
        /\ r[2].call = pc.call /\ r[2].id = 0
    BY ReturnTyped
  <2> HIDE DEF r
  <2> QED  BY <2>1
<1>2. ans' = <<>> \o r
  OBVIOUS
<1> HIDE DEF r
<1>3. ans' = r
  BY <1>1, <1>2, ConcatEmptySeq
<1>4. Answered'
  BY <1>1, <1>3 DEF Answered
<1>5. Waiting'
  BY DEF Waiting
<1>6. ans' # <<>>
  <2>1. Len(r) # 0
    BY <1>1
  <2>2. r # <<>>
    BY <2>1, NonEmpty, Zenon
  <2> QED  BY <1>3, <2>2
<1> QED  BY <1>1, <1>3, <1>4, <1>5, <1>6 DEF Phase

---------------------------------------------------------------------------
(***************************************************************************)
(* Where the names are.                                                     *)
(***************************************************************************)
\* A step that keeps names and sockets, or loses some.
Fewer ==
    /\ made' = made /\ Live' \subseteq Live /\ Half' \subseteq Half
    /\ \A f \in Live' : srv'[f].id = srv[f].id /\ srv'[f].box = srv[f].box

LEMMA NamesFewer ==
    ASSUME Fewer, Had' \subseteq Had, Places, Once, Silent
    PROVE  Named' \subseteq Named /\ Places' /\ Once' /\ Silent'
<1>1. Boxed' \subseteq Boxed
  BY DEF Boxed, Fewer
<1>2. Named' \subseteq Named
  BY <1>1 DEF Named
<1>3. Places'
  BY <1>2 DEF Places, Fewer
<1>4. Once'
  BY DEF Once, Fewer
<1>5. Silent'
  <2>1. \A f \in Half' : f \in Half /\ f \in Live'
    BY DEF Half, Fewer
  <2> QED  BY <1>2, <2>1 DEF Silent, Fewer
<1> QED  BY <1>2, <1>3, <1>4, <1>5

LEMMA NamesSame ==
    ASSUME Fewer, Live' = Live, Had' = Had, Places, Once, Silent
    PROVE  /\ Named' = Named /\ Places' /\ Once' /\ Silent'
           /\ AllNamed /\ Half' = Half => AllNamed'
           /\ \A e : e.fd \in Live /\ srv[e.fd].id = e.id => e.fd \in Live' /\ srv'[e.fd].id = e.id
<1>1. Places' /\ Once' /\ Silent'
  BY NamesFewer
<1>2. Boxed' = Boxed
  BY DEF Boxed, Fewer
<1>3. Named' = Named
  BY <1>2 DEF Named
<1>4. AllNamed /\ Half' = Half => AllNamed'
  BY <1>3 DEF AllNamed, Fewer
<1> QED  BY <1>1, <1>3, <1>4 DEF Fewer

\* A handler that keeps the names, and answers another call than close().
LEMMA InStepSame ==
    ASSUME InStep, Phase', Fewer, Live' = Live, UNCHANGED <<pc, socks>>, odd \subseteq odd',
           wrong \subseteq wrong', Half' = Half \/ "other" \in wrong',
           Had' = Had, pc.op # "close"
    PROVE  InStep'
<1>1. /\ Named' = Named /\ Places' /\ Once' /\ Silent'
      /\ AllNamed /\ Half' = Half => AllNamed'
      /\ \A e : e.fd \in Live /\ srv[e.fd].id = e.id => e.fd \in Live' /\ srv'[e.fd].id = e.id
  BY NamesSame DEF InStep
<1>2. ~Closed /\ ~Closed'
  BY DEF Closed
<1>3. Calling'
  BY <1>2 DEF Calling, InStep
<1>4. Alive => Alive'
  BY <1>1, <1>2 DEF Alive
<1> QED  BY <1>1, <1>3, <1>4 DEF InStep

---------------------------------------------------------------------------
(***************************************************************************)
(* The program.                                                             *)
(***************************************************************************)
LEMMA NothingWrong ==
    ASSUME odd \subseteq odd', wrong' = wrong, AnswersMatch, OwnSocket
    PROVE  AnswersMatch' /\ OwnSocket' /\ (Loose => Loose')
BY DEF AnswersMatch, OwnSocket, Loose

\* A call writes its request to a stream that was empty.
LEMMA WrittenSent ==
    ASSUME req = <<>>, ans' = <<>>, Unasked', calls \in Nat,
           NEW op \in Ops, NEW e \in Name, NEW arg \in Args, NEW step \in {"answer", "undo"},
           step = "undo" => op = "close", op \in {"ping", "socket"} => e = Idle.sock,
           Write(op, e, arg, step)
    PROVE  Phase' /\ pc'.op = op /\ pc'.sock = e /\ pc'.step = step
<1>1. pc' = [step |-> step, op |-> op, sock |-> e, call |-> calls'] /\ calls' = calls + 1
  BY DEF Write
<1>2. pc'.step = step /\ pc'.op = op /\ pc'.sock = e /\ pc'.call = calls' /\ pc'.call # 0
  BY <1>1
<1> DEFINE r == Request(op, e, arg, calls')
           d == IF op = "setsockopt" THEN <<Data>> ELSE <<>>
<1>3. req' = req \o r \o d
  BY DEF Write
<1>4. req \o r = r
  <2>1. r = <<[op |-> op, fd |-> e.fd, id |-> e.id, arg |-> arg, call |-> calls']>>
    BY DEF Request
  <2>2. r \in Seq({r[1]})
    BY <2>1
  <2> HIDE DEF r
  <2> QED  BY <2>2, ConcatEmptySeq
<1> HIDE DEF r, d
<1>5. req' = r \o d
  BY <1>3, <1>4
<1>6. req' = Request(pc'.op, pc'.sock, arg, pc'.call)
             \o (IF pc'.op = "setsockopt" THEN <<Data>> ELSE <<>>)
  BY <1>2, <1>5 DEF r, d
<1>7. Sent'
  BY <1>2, <1>6 DEF Sent
<1>8. Waiting'
  BY <1>2 DEF Waiting
<1> QED  BY <1>2, <1>7, <1>8 DEF Phase

LEMMA GoodCall ==
    ASSUME Typed, Good, NEW op \in Ops, NEW e \in Name, NEW arg \in Args,
           IF op \in {"ping", "socket"} THEN e = Idle.sock ELSE e \in socks,
           Call(op, e, arg)
    PROVE  Good'
<1>1. /\ pc.step = "idle" /\ Write(op, e, arg, "answer")
      /\ UNCHANGED <<srv, local, ans, socks, made, peer, odd, wrong>>
  BY DEF Call
<1>2. AnswersMatch' /\ OwnSocket' /\ (Loose => Loose')
  BY <1>1, NothingWrong DEF Good
<1>3. ASSUME InStep PROVE InStep'
  <2>1. req = <<>> /\ ans = <<>> /\ Unasked
    BY <1>1, <1>3 DEF InStep, Phase, Waiting, Quiet
  <2>2. Unasked' /\ Live' = Live /\ Half' = Half
    BY <1>1, <2>1 DEF Unasked, Live, Half
  <2>3. Phase' /\ pc'.op = op /\ pc'.sock = e /\ pc'.step = "answer"
    BY <1>1, <2>1, <2>2, WrittenSent DEF Typed
  <2>4. Had' = socks /\ Had = socks /\ ~Closed /\ ~Closed'
    BY <1>1, <2>1 DEF Had, Socketed, Closed
  <2>5. Fewer
    BY <1>1, <2>2 DEF Fewer
  <2>6. /\ Named' = Named /\ Places' /\ Once' /\ Silent'
        /\ AllNamed => AllNamed'
        /\ \A n : n.fd \in Live /\ srv[n.fd].id = n.id => n.fd \in Live' /\ srv'[n.fd].id = n.id
    BY <1>3, <2>2, <2>4, <2>5, NamesSame DEF InStep
  <2>7. Calling'
    BY <1>1, <2>3, <2>4 DEF Calling
  <2>8. Alive => Alive'
    BY <2>3, <2>4, <2>6 DEF Alive
  <2> QED  BY <1>1, <1>3, <2>3, <2>6, <2>7, <2>8 DEF InStep
<1> QED  BY <1>2, <1>3 DEF Good

LEMMA GoodClientCall ==
    ASSUME Typed, Good, ClientCall
    PROVE  Good'
<1>1. ASSUME Ping PROVE Good'
  <2>1. "ping" \in Ops /\ "none" \in Args
    BY DEF Ops, Args
  <2> QED  BY <1>1, <2>1, IdleName, GoodCall DEF Ping
<1>2. ASSUME NEW t \in Types, Socket(t) PROVE Good'
  <2>1. "socket" \in Ops /\ t \in Args
    BY ApiAssumption DEF Ops, Args
  <2> QED  BY <1>2, <2>1, IdleName, GoodCall DEF Socket
<1>3. ASSUME NEW e \in socks, NEW op \in {"bind", "listen", "accept", "connect", "close"},
             OnSock(op, e)
      PROVE  Good'
  <2>1. e \in Name /\ op \in Ops /\ op \notin {"ping", "socket"} /\ "none" \in Args
    BY DEF Typed, Ops, Args
  <2> QED  BY <1>3, <2>1, GoodCall DEF OnSock
<1>4. ASSUME NEW e \in socks, NEW opt \in {"PARAMS", "IF"}, SetSockOpt(e, opt)
      PROVE  Good'
  <2>1. e \in Name /\ "setsockopt" \in Ops /\ opt \in Args
    BY DEF Typed, Ops, Args
  <2> QED  BY <1>4, <2>1, GoodCall DEF SetSockOpt
<1> QED  BY <1>1, <1>2, <1>3, <1>4 DEF ClientCall

LEMMA ReadSame ==
    ASSUME Read
    PROVE  /\ UNCHANGED <<srv, local, made, peer, odd>> /\ Live' = Live /\ Half' = Half /\ Fewer
           /\ Unasked => Unasked'
           /\ OwnSocket => OwnSocket' /\ (Loose => Loose') /\ wrong \subseteq wrong'
BY DEF Read, Live, Half, Fewer, Unasked, OwnSocket, Loose

LEMMA QuietNext ==
    ASSUME req' = <<>>, ans' = <<>>, Unasked', pc'.step \in {"idle", "message", "gone"}
    PROVE  Phase' /\ ~Closed' /\ Had' = socks' /\ pc'.step # "answer" /\ pc'.step # "undo"
BY DEF Phase, Waiting, Quiet, Closed, Had, Socketed

LEMMA GoodLooseRead ==
    ASSUME Good, Read, Loose
    PROVE  Good'
<1>1. "answer" \in wrong' => odd' \cap {"again", "option", "unbound"} # {}
  BY ReadSame DEF Loose
<1> QED  BY <1>1, ReadSame DEF Good, AnswersMatch

\* The answers that give no socket and take none
LEMMA GoodReturnRest ==
    ASSUME Typed, Good, ReturnPlain \/ ReturnAccept
    PROVE  Good'
<1>1. Read /\ UNCHANGED <<req, socks, calls>> /\ pc'.step \in {"idle", "message"}
  BY DEF ReturnPlain, ReturnAccept, Idle, Typed
<1>2. CASE Loose
  BY <1>1, <1>2, GoodLooseRead
<1>3. CASE InStep
  <2>1. /\ Answered /\ req = <<>> /\ ans # <<>> /\ Unasked /\ ans' = <<>> /\ AnswersMatch'
    BY <1>1, <1>3, ReadAnswer DEF InStep, Good
  <2>2. /\ UNCHANGED <<srv, made, odd>> /\ Live' = Live /\ Half' = Half /\ Fewer /\ Unasked'
        /\ OwnSocket' /\ wrong \subseteq wrong'
    BY <1>1, <2>1, ReadSame DEF Good
  <2>3. Phase' /\ ~Closed' /\ Had' = socks' /\ pc'.step # "answer" /\ pc'.step # "undo"
    BY <1>1, <2>1, <2>2, QuietNext
  <2>4. ~Closed /\ ~Socketed
    <3>1. pc.step = "undo" => pc.op = "close"
      BY <1>3, <2>1, AnsweredWords DEF InStep
    <3> QED  BY <3>1 DEF ReturnPlain, ReturnAccept, Closed, Socketed
  <2>5. Had' = Had
    BY <1>1, <2>3, <2>4 DEF Had
  <2>6. /\ Named' = Named /\ Places' /\ Once' /\ Silent'
        /\ AllNamed => AllNamed'
        /\ \A n : n.fd \in Live /\ srv[n.fd].id = n.id => n.fd \in Live' /\ srv'[n.fd].id = n.id
    BY <1>3, <2>2, <2>5, NamesSame DEF InStep
  <2>7. Calling'
    BY <2>3 DEF Calling
  <2>8. Alive => Alive'
    BY <2>3, <2>4, <2>6 DEF Alive
  <2> QED  BY <1>3, <2>1, <2>2, <2>3, <2>6, <2>7, <2>8 DEF InStep, Good
<1> QED  BY <1>2, <1>3 DEF Good

LEMMA GoodReturnClose ==
    ASSUME Typed, Good, ReturnClose
    PROVE  Good'
<1>1. /\ Read /\ UNCHANGED <<req, calls>> /\ pc'.step \in {"idle", "message"}
      /\ pc.step = "answer" /\ pc.op = "close"
      /\ socks' = IF CloseDone THEN socks \ {pc.sock} ELSE socks
  BY DEF ReturnClose, Idle
<1>2. CASE Loose
  BY <1>1, <1>2, GoodLooseRead
<1>3. CASE InStep
  <2>1. /\ ans # <<>> /\ Unasked /\ ans' = <<>> /\ AnswersMatch' /\ req = <<>> /\ Ret = ans[1].v
        /\ CloseDone <=> Ret >= 0
    BY <1>1, <1>3, ReadAnswer DEF InStep, Good, CloseDone
  <2>2. /\ UNCHANGED <<srv, made, odd>> /\ Live' = Live /\ Half' = Half /\ Fewer /\ Unasked'
        /\ OwnSocket' /\ wrong \subseteq wrong'
    BY <1>1, <2>1, ReadSame DEF Good
  <2>3. Phase' /\ ~Closed' /\ Had' = socks' /\ pc'.step # "answer" /\ pc'.step # "undo"
    BY <1>1, <2>1, <2>2, QuietNext
  <2>4. Closed /\ Had = socks
    BY <1>1, <2>1 DEF Closed, Had, Socketed
  <2>5. Had' \subseteq Had
    BY <1>1, <2>3, <2>4
  <2>6. Named' \subseteq Named /\ Places' /\ Once' /\ Silent'
    BY <1>3, <2>2, <2>5, NamesFewer DEF InStep
  <2>7. Calling'
    BY <2>3 DEF Calling
  <2>8. Boxed' = Boxed
    BY <2>2 DEF Boxed
  <2>9. ASSUME AllNamed PROVE AllNamed'
    <3> SUFFICES ASSUME NEW f \in Live \ Half PROVE \E e \in Named' : e.id = srv[f].id
      BY <2>2 DEF AllNamed
    <3>1. PICK e \in Named : e.id = srv[f].id
      BY <2>9 DEF AllNamed
    <3>2. CASE e \in socks'
      BY <2>3, <3>1, <3>2 DEF Named
    <3>3. CASE e \in Boxed
      BY <2>8, <3>1, <3>3 DEF Named
    <3>4. CASE e = pc.sock /\ Ret >= 0
      BY <1>3, <2>1, <2>4, <3>1, <3>4 DEF Calling, InStep
    <3> QED  BY <1>1, <2>1, <2>4, <3>1, <3>2, <3>3, <3>4 DEF Named
  <2>10. ASSUME Alive PROVE Alive'
    <3>1. socks' = socks \ {pc.sock}
      BY <1>1, <2>1, <2>4, <2>10 DEF Alive
    <3>2. pc.sock \in Had
      BY <1>1, <1>3, <2>4 DEF InStep, Calling
    <3>3. pc.sock \notin Boxed
      BY <1>3, <3>2 DEF InStep, Once, Boxed
    <3>4. \A e \in Named' : e \in Named /\ e # pc.sock
      BY <2>3, <2>6, <2>8, <3>1, <3>3 DEF Named
    <3>5. \A e \in Named' : e.fd \in Live /\ srv[e.fd].id = e.id
      BY <2>10, <3>4 DEF Alive
    <3> QED  BY <2>2, <2>3, <3>5 DEF Alive
  <2> QED  BY <1>3, <2>1, <2>2, <2>3, <2>6, <2>7, <2>9, <2>10 DEF InStep, Good
<1> QED  BY <1>2, <1>3 DEF Good

LEMMA GoodReturnSocket ==
    ASSUME Typed, Good, ReturnSocket
    PROVE  Good'
<1> DEFINE n == [fd |-> Ret, id |-> Path]
<1>1. /\ Read /\ pc.step = "answer" /\ pc.op = "socket"
      /\ \/ Path \in Ids /\ socks' = socks \cup {n} /\ pc' = Idle /\ UNCHANGED <<req, calls>>
         \/ Path \notin Ids /\ Write("close", n, "none", "undo") /\ UNCHANGED socks
  BY DEF ReturnSocket
<1>2. CASE Loose
  BY <1>1, <1>2, GoodLooseRead
<1>3. CASE InStep
  <2>1. /\ ans # <<>> /\ Unasked /\ ans' = <<>> /\ AnswersMatch' /\ req = <<>>
        /\ Ret = ans[1].v /\ Path = ans[3].id
    BY <1>1, <1>3, ReadAnswer DEF InStep, Good
  <2>2. /\ UNCHANGED <<srv, made, odd>> /\ Live' = Live /\ Half' = Half /\ Fewer /\ Unasked'
        /\ OwnSocket' /\ wrong \subseteq wrong'
    BY <1>1, <2>1, ReadSame DEF Good
  <2>3. Socketed /\ Had = socks \cup {n} /\ ~Closed
    BY <1>1, <2>1 DEF Socketed, Had, Closed, Waiting
  <2>4. Had' = socks' /\ ~Closed'
    BY <2>1 DEF Socketed, Had, Closed
  <2>5. n.fd = Ret /\ n.id = Path /\ n \in Name
    <3>1. Ret \in Int /\ Path \in Int
      BY <1>1, ReadTyped
    <3> QED  BY <3>1 DEF Name
  <2> HIDE DEF n
  <2>6. CASE Path \in Ids /\ socks' = socks \cup {n} /\ pc' = Idle /\ UNCHANGED <<req, calls>>
    <3>1. Phase' /\ pc'.step # "answer" /\ pc'.step # "undo"
      <4>1. pc'.step = "idle"
        BY <2>6 DEF Idle
      <4> QED  BY <2>1, <2>2, <2>6, <4>1, QuietNext
    <3>2. Had' = Had
      BY <2>3, <2>4, <2>6
    <3>3. /\ Named' = Named /\ Places' /\ Once' /\ Silent'
          /\ AllNamed => AllNamed'
          /\ \A e : e.fd \in Live /\ srv[e.fd].id = e.id => e.fd \in Live' /\ srv'[e.fd].id = e.id
      BY <1>3, <2>2, <3>2, NamesSame DEF InStep
    <3>4. Calling'
      BY <3>1, <2>4 DEF Calling
    <3>5. Alive => Alive'
      BY <2>3, <2>4, <3>1, <3>3 DEF Alive
    <3> QED  BY <1>3, <2>1, <2>2, <3>1, <3>3, <3>4, <3>5 DEF InStep, Good
  <2>7. CASE Path \notin Ids /\ Write("close", n, "none", "undo") /\ UNCHANGED socks
    <3>1. Phase' /\ pc'.step = "undo"
      <4>1. "close" \in Ops /\ "none" \in Args /\ calls \in Nat
        BY DEF Ops, Args, Typed
      <4> QED  BY <2>1, <2>2, <2>5, <2>7, <4>1, WrittenSent
    <3>2. Had' \subseteq Had
      BY <2>3, <2>4, <2>7
    <3>3. Named' \subseteq Named /\ Places' /\ Once' /\ Silent'
      BY <1>3, <2>2, <3>2, NamesFewer DEF InStep
    <3>4. Calling'
      BY <2>4, <3>1 DEF Calling
    <3>5. \A f \in Live : srv[f].id # n.id
      BY <2>5, <2>7 DEF Ids
    <3>6. ASSUME AllNamed PROVE AllNamed'
      <4> SUFFICES ASSUME NEW f \in Live \ Half PROVE \E e \in Named' : e.id = srv[f].id
        BY <2>2 DEF AllNamed
      <4>1. PICK e \in Named : e.id = srv[f].id
        BY <3>6 DEF AllNamed
      <4>2. e # n
        BY <3>5, <4>1
      <4>3. Boxed' = Boxed
        BY <2>2 DEF Boxed
      <4>4. e \in Named'
        BY <2>3, <2>4, <2>7, <4>2, <4>3 DEF Named
      <4> QED  BY <4>1, <4>4
    <3>7. ~Alive
      <4>1. n \in Named
        BY <2>3 DEF Named
      <4> QED  BY <2>3, <3>5, <4>1 DEF Alive
    <3> QED  BY <1>3, <2>1, <2>2, <3>1, <3>3, <3>4, <3>6, <3>7 DEF InStep, Good
  <2> QED  BY <1>1, <2>6, <2>7 DEF n
<1> QED  BY <1>2, <1>3 DEF Good

\* The message is taken out of the pty.
LEMMA MessageTaken ==
    ASSUME Typed, NEW f \in Live, srv[f].box # <<>>,
           srv' = [srv EXCEPT ![f].box = Tail(@)]
    PROVE  /\ Live' = Live
           /\ \A g \in Live : srv'[g].id = srv[g].id /\ srv'[g].call = srv[g].call /\ srv'[g].state = srv[g].state
           /\ 1 \in DOMAIN srv[f].box /\ Head(srv[f].box) = srv[f].box[1]
           /\ Head(srv[f].box) \in Name
           /\ \A i \in DOMAIN srv'[f].box : /\ i \in Nat \ {0} /\ i + 1 \in DOMAIN srv[f].box
                                            /\ srv'[f].box[i] = srv[f].box[i + 1]
           /\ \A i \in DOMAIN srv[f].box : i # 1 =>
                  i \in Nat /\ i - 1 \in DOMAIN srv'[f].box /\ srv'[f].box[i - 1] = srv[f].box[i]
           /\ \A g \in Live \ {f} : srv'[g].box = srv[g].box
<1> DEFINE M == [fd : Fd, id : 1 .. MaxSocks]
           b == srv[f].box
           t == [srv[f] EXCEPT !.box = Tail(@)]
<1>1. srv[f] \in Sock /\ b \in Seq(M) /\ f \in Fd /\ srv \in [Fd -> Sock \cup {NoSock}]
  BY SockFields DEF Typed
<1>2. /\ Head(b) \in M /\ Head(b) = b[1] /\ Tail(b) \in Seq(M) /\ Len(Tail(b)) = Len(b) - 1
      /\ \A i \in 1 .. Len(Tail(b)) : Tail(b)[i] = b[i + 1]
      /\ Len(b) \in Nat /\ DOMAIN b = 1 .. Len(b) /\ DOMAIN Tail(b) = 1 .. Len(Tail(b))
      /\ Len(b) >= 1
  <2>1. b \in Seq(M) /\ b # <<>>
    BY <1>1
  <2> HIDE DEF b, M
  <2>2. /\ Head(b) \in M /\ Tail(b) \in Seq(M) /\ Len(Tail(b)) = Len(b) - 1
        /\ \A i \in 1 .. Len(Tail(b)) : Tail(b)[i] = b[i + 1]
    BY <2>1, HeadTailProperties
  <2>3. Len(b) \in Nat /\ DOMAIN b = 1 .. Len(b) /\ Len(b) >= 1 /\ Head(b) = b[1]
    BY <2>1
  <2>4. DOMAIN Tail(b) = 1 .. Len(Tail(b))
    BY <2>2
  <2> QED  BY <2>2, <2>3, <2>4
<1>3. t \in Sock /\ t.id = srv[f].id /\ t.call = srv[f].call /\ t.state = srv[f].state /\ t.box = Tail(b)
  BY <1>1, <1>2 DEF Sock
<1>4. srv'[f] = t /\ \A g \in Fd \ {f} : srv'[g] = srv[g]
  BY <1>1
<1>5. Head(b) \in Name
  <2> DEFINE m == Head(b)
  <2>1. m \in M
    BY <1>2
  <2> HIDE DEF m
  <2>2. m.fd \in Fd /\ m.id \in 1 .. MaxSocks /\ m = [fd |-> m.fd, id |-> m.id]
    BY <2>1
  <2>3. m \in Name
    BY <2>2, FdNat DEF Name
  <2> QED  BY <2>3 DEF m
<1> HIDE DEF t, M
<1>6. Live' = Live
  <2>1. srv'[f] # NoSock
    BY <1>3, <1>4, SockReal
  <2> QED  BY <1>4, <2>1 DEF Live
<1>7. \A g \in Live : srv'[g].id = srv[g].id /\ srv'[g].call = srv[g].call /\ srv'[g].state = srv[g].state
  BY <1>3, <1>4 DEF Live
<1>8. \A g \in Live \ {f} : srv'[g].box = srv[g].box
  BY <1>4 DEF Live
<1>9. srv'[f].box = Tail(b)
  BY <1>3, <1>4
<1> DEFINE c == srv'[f].box
<1>10. /\ DOMAIN c = 1 .. Len(b) - 1
       /\ \A i \in 1 .. Len(b) - 1 : c[i] = b[i + 1]
  BY <1>2, <1>9
<1>11. 1 \in DOMAIN b
  BY <1>2
<1>n. Len(b) \in Nat /\ DOMAIN b = 1 .. Len(b) /\ Head(b) = b[1]
  BY <1>2
<1> HIDE DEF b, c
<1>12. \A i \in DOMAIN c : /\ i \in Nat \ {0} /\ i + 1 \in DOMAIN b
                           /\ c[i] = b[i + 1]
  BY <1>n, <1>10
<1>13. \A i \in DOMAIN b : i # 1 =>
           i \in Nat /\ i - 1 \in DOMAIN c /\ c[i - 1] = b[i]
  <2> SUFFICES ASSUME NEW i \in DOMAIN b, i # 1
               PROVE  i \in Nat /\ i - 1 \in DOMAIN c /\ c[i - 1] = b[i]
    OBVIOUS
  <2>1. i \in Nat /\ i - 1 \in 1 .. Len(b) - 1 /\ (i - 1) + 1 = i
    BY <1>n
  <2> QED  BY <1>10, <2>1
<1> QED  BY <1>n, <1>5, <1>6, <1>7, <1>8, <1>11, <1>12, <1>13 DEF b, c

LEMMA MessageNames ==
    ASSUME Typed, Places, Once, Silent, NEW f \in Live, srv[f].box # <<>>,
           srv' = [srv EXCEPT ![f].box = Tail(@)],
           made' = made, Had' \subseteq Had \cup {Head(srv[f].box)}
    PROVE  /\ Boxed \subseteq Boxed' \cup {Head(srv[f].box)}
           /\ Head(srv[f].box) \in Named
           /\ Named' \subseteq Named /\ Places' /\ Once' /\ Silent' /\ Half' = Half
<1> DEFINE m == Head(srv[f].box)
<1>1. /\ Live' = Live
      /\ \A g \in Live : srv'[g].id = srv[g].id /\ srv'[g].state = srv[g].state
      /\ 1 \in DOMAIN srv[f].box /\ m = srv[f].box[1]
      /\ \A i \in DOMAIN srv'[f].box : /\ i \in Nat \ {0} /\ i + 1 \in DOMAIN srv[f].box
                                       /\ srv'[f].box[i] = srv[f].box[i + 1]
      /\ \A i \in DOMAIN srv[f].box : i # 1 =>
             i \in Nat /\ i - 1 \in DOMAIN srv'[f].box /\ srv'[f].box[i - 1] = srv[f].box[i]
      /\ \A g \in Live \ {f} : srv'[g].box = srv[g].box
  BY MessageTaken
<1>2. Had' \subseteq Had \cup {m}
  OBVIOUS
<1> HIDE DEF m
<1>3. m \in Boxed
  BY <1>1 DEF Boxed
<1>4. Boxed' \subseteq Boxed
  <2> SUFFICES ASSUME NEW g \in Live, NEW i \in DOMAIN srv'[g].box
               PROVE  srv'[g].box[i] \in Boxed
    BY <1>1 DEF Boxed
  <2>1. CASE g = f
    BY <1>1, <2>1 DEF Boxed
  <2>2. CASE g # f
    BY <1>1, <2>2 DEF Boxed
  <2> QED  BY <2>1, <2>2
<1>5. Boxed \subseteq Boxed' \cup {m}
  <2> SUFFICES ASSUME NEW g \in Live, NEW i \in DOMAIN srv[g].box, srv[g].box[i] # m
               PROVE  srv[g].box[i] \in Boxed'
    BY DEF Boxed
  <2>1. CASE g = f
    <3>1. i # 1 /\ i - 1 \in DOMAIN srv'[f].box /\ srv'[f].box[i - 1] = srv[f].box[i]
      BY <1>1, <2>1
    <3> QED  BY <1>1, <2>1, <3>1 DEF Boxed
  <2>2. CASE g # f
    BY <1>1, <2>2 DEF Boxed
  <2> QED  BY <2>1, <2>2
<1>6. Named' \subseteq Named
  BY <1>2, <1>3, <1>4 DEF Named
<1>7. Places'
  BY <1>1, <1>6 DEF Places
<1>8. Once'
  <2> SUFFICES ASSUME NEW g \in Live, NEW i \in DOMAIN srv'[g].box
               PROVE  /\ \A e \in Had' : e.id # srv'[g].box[i].id
                      /\ \A h \in Live : \A j \in DOMAIN srv'[h].box :
                             srv'[h].box[j].id = srv'[g].box[i].id => g = h /\ i = j
    BY <1>1 DEF Once
  <2>1. PICK k \in DOMAIN srv[g].box :
           srv'[g].box[i] = srv[g].box[k] /\ (IF g = f THEN k = i + 1 /\ i \in Nat \ {0} ELSE k = i)
    BY <1>1
  <2>2. ASSUME NEW e \in Had' PROVE e.id # srv'[g].box[i].id
    <3>1. CASE e \in Had
      BY <2>1, <3>1 DEF Once
    <3>2. CASE e = m
      <4>1. ~(f = g /\ 1 = k)
        BY <2>1
      <4>2. srv[f].box[1].id # srv[g].box[k].id
        BY <1>1, <2>1, <4>1 DEF Once
      <4> QED  BY <1>1, <2>1, <3>2, <4>2
    <3> QED  BY <1>2, <3>1, <3>2
  <2>3. ASSUME NEW h \in Live, NEW j \in DOMAIN srv'[h].box,
               srv'[h].box[j].id = srv'[g].box[i].id
        PROVE  g = h /\ i = j
    <3>1. PICK l \in DOMAIN srv[h].box :
             srv'[h].box[j] = srv[h].box[l] /\ (IF h = f THEN l = j + 1 /\ j \in Nat \ {0} ELSE l = j)
      BY <1>1
    <3>2. g = h /\ k = l
      BY <2>1, <2>3, <3>1 DEF Once
    <3> QED  BY <2>1, <3>1, <3>2
  <2> QED  BY <2>2, <2>3
<1>9. Half' = Half
  BY <1>1 DEF Half
<1>10. Silent'
  <2>1. \A g \in Half' : g \in Half /\ srv'[g].id = srv[g].id
    BY <1>1, <1>9 DEF Half
  <2> QED  BY <1>6, <2>1 DEF Silent
<1> QED  BY <1>3, <1>5, <1>6, <1>7, <1>8, <1>9, <1>10 DEF m, Named

LEMMA GoodReadMessage ==
    ASSUME Typed, Good, ReadMessage
    PROVE  Good'
<1>1. PICK f \in Listener :
         /\ srv[f].box # <<>>
         /\ \/ /\ Head(srv[f].box).id \in Ids /\ socks' = socks \cup {Head(srv[f].box)}
               /\ pc' = Idle /\ UNCHANGED <<req, calls>>
            \/ /\ Head(srv[f].box).id \notin Ids
               /\ Write("close", Head(srv[f].box), "none", "undo") /\ UNCHANGED socks
         /\ srv' = [srv EXCEPT ![f].box = Tail(@)]
  BY DEF ReadMessage
<1> DEFINE m == Head(srv[f].box)
<1>2. pc.step = "message" /\ UNCHANGED <<local, ans, made, peer, odd, wrong>> /\ f \in Live
  BY <1>1 DEF ReadMessage, Listener
<1>3. AnswersMatch' /\ OwnSocket' /\ (Loose => Loose')
  BY <1>2, NothingWrong DEF Good
<1>4. ASSUME InStep PROVE InStep'
  <2>1. req = <<>> /\ ans = <<>> /\ Unasked /\ ~Closed /\ Had = socks
    BY <1>2, <1>4 DEF InStep, Phase, Waiting, Quiet, Closed, Had, Socketed
  <2>2. /\ Live' = Live /\ m \in Name
        /\ \A g \in Live : srv'[g].id = srv[g].id /\ srv'[g].call = srv[g].call
    BY <1>1, <1>2, MessageTaken
  <2>3. Had' = socks' /\ ~Closed'
    BY <1>2, <2>1 DEF Had, Socketed, Closed
  <2>4. Had' \subseteq Had \cup {Head(srv[f].box)}
    BY <1>1, <2>1, <2>3
  <2>5. /\ Boxed \subseteq Boxed' \cup {m} /\ m \in Named
        /\ Named' \subseteq Named /\ Places' /\ Once' /\ Silent' /\ Half' = Half
    BY <1>1, <1>2, <1>4, <2>4, MessageNames DEF InStep
  <2>6. Unasked'
    BY <2>1, <2>2 DEF Unasked
  <2>7. \/ m.id \in Ids /\ socks' = socks \cup {m} /\ pc' = Idle /\ UNCHANGED <<req, calls>>
        \/ m.id \notin Ids /\ Write("close", m, "none", "undo") /\ UNCHANGED socks
    BY <1>1
  <2> HIDE DEF m
  <2>8. CASE m.id \in Ids /\ socks' = socks \cup {m} /\ pc' = Idle /\ UNCHANGED <<req, calls>>
    <3>1. Phase' /\ pc'.step # "answer" /\ pc'.step # "undo"
      <4>1. pc'.step = "idle"
        BY <2>8 DEF Idle
      <4> QED  BY <1>2, <2>1, <2>6, <2>8, <4>1, QuietNext
    <3>2. Named' = Named
      BY <2>1, <2>3, <2>5, <2>8 DEF Named
    <3>3. Calling'
      BY <2>3, <3>1 DEF Calling
    <3>4. AllNamed => AllNamed'
      BY <2>2, <2>5, <3>2 DEF AllNamed
    <3>5. Alive => Alive'
      BY <2>1, <2>2, <2>3, <3>1, <3>2 DEF Alive
    <3> QED  BY <1>2, <1>4, <2>5, <3>1, <3>3, <3>4, <3>5 DEF InStep
  <2>9. CASE m.id \notin Ids /\ Write("close", m, "none", "undo") /\ UNCHANGED socks
    <3>1. Phase' /\ pc'.step = "undo"
      <4>1. "close" \in Ops /\ "none" \in Args /\ calls \in Nat
        BY DEF Ops, Args, Typed
      <4>2. ans' = <<>>
        BY <1>2, <2>1
      <4> QED  BY <2>1, <2>2, <2>6, <2>9, <4>1, <4>2, WrittenSent
    <3>2. Calling'
      BY <2>3, <3>1 DEF Calling
    <3>3. \A g \in Live : srv[g].id # m.id
      BY <2>9 DEF Ids
    <3>4. ASSUME AllNamed PROVE AllNamed'
      <4> SUFFICES ASSUME NEW g \in Live \ Half PROVE \E e \in Named' : e.id = srv[g].id
        BY <2>2, <2>5 DEF AllNamed
      <4>1. PICK e \in Named : e.id = srv[g].id
        BY <3>4 DEF AllNamed
      <4>2. e # m
        BY <3>3, <4>1
      <4>3. e \in Named'
        BY <2>1, <2>3, <2>5, <2>9, <4>2 DEF Named
      <4> QED  BY <4>1, <4>3
    <3>5. ~Alive
      BY <2>1, <2>5, <3>3 DEF Alive
    <3> QED  BY <1>2, <1>4, <2>5, <3>1, <3>2, <3>4, <3>5 DEF InStep
  <2> QED  BY <2>7, <2>8, <2>9
<1> QED  BY <1>3, <1>4 DEF Good

---------------------------------------------------------------------------
(***************************************************************************)
(* The server.                                                              *)
(***************************************************************************)
LEMMA ServedOwn ==
    ASSUME Typed, Good, req # <<>>, odd \subseteq odd',
           wrong' = wrong \cup (IF Other THEN {"other"} ELSE {})
    PROVE  AnswersMatch' /\ OwnSocket' /\ (Loose => Loose')
<1>1. AnswersMatch' /\ (Loose => Loose')
  BY DEF AnswersMatch, Loose, Good
<1>2. ASSUME Other PROVE "ended" \in odd \/ Loose
  <2> SUFFICES ASSUME "ended" \notin odd, ~Loose PROVE FALSE
    OBVIOUS
  <2>1. Phase /\ Calling /\ Alive
    BY DEF Good, InStep
  <2>2. /\ Waiting /\ ans = <<>> /\ R.fd = pc.sock.fd /\ R.id = pc.sock.id
        /\ pc.op \in {"ping", "socket"} => pc.sock = Idle.sock
    BY <2>1, SentHead
  <2>3. pc.sock.fd \in Live /\ srv[pc.sock.fd].id # pc.sock.id
    BY <1>2, <2>2 DEF Other, Found
  <2>4. pc.op \notin {"ping", "socket"}
    <3>1. Idle.sock.fd = 0
      BY DEF Idle
    <3> QED  BY <2>2, <2>3, <3>1, FdNat DEF Live
  <2>5. pc.sock \in socks
    BY <2>1, <2>2, <2>4 DEF Calling, Alive, Waiting
  <2>6. pc.sock \in Named /\ ~Closed
    BY <2>2, <2>5 DEF Named, Had, Closed
  <2> QED  BY <2>1, <2>3, <2>6 DEF Alive
<1>3. OwnSocket'
  BY <1>2 DEF OwnSocket, Good, Loose
<1> QED  BY <1>1, <1>3

LEMMA ServedAnswer ==
    ASSUME Typed, InStep, req # <<>>, UNCHANGED <<pc, socks>>, odd \subseteq odd',
           wrong \subseteq wrong', Half' = Half \/ "other" \in wrong',
           Fewer, Live' = Live, \A g \in Live : srv'[g].call = srv[g].call,
           req' = IF pc.op = "setsockopt" THEN Tail(Tail(req)) ELSE Tail(req),
           pc.op \notin {"ping", "socket", "close"},
           NEW v \in Int, ans' = ans \o Return(R.call, v)
    PROVE  InStep'
<1>1. /\ Waiting /\ ans = <<>> /\ Unasked /\ pc.call # 0 /\ pc.call \in Nat /\ pc.op \in Ops
      /\ pc.step = "undo" => pc.op = "close"
      /\ R.call = pc.call
      /\ pc.op # "setsockopt" => Tail(req) = <<>>
      /\ pc.op = "setsockopt" => Tail(Tail(req)) = <<>>
  BY SentHead DEF InStep
<1>2. req' = <<>>
  <2>1. CASE pc.op = "setsockopt"
    BY <1>1, <2>1, Zenon
  <2>2. CASE pc.op # "setsockopt"
    BY <1>1, <2>2, Zenon
  <2> QED  BY <2>1, <2>2
<1>3. Unasked'
  BY <1>1 DEF Unasked
<1>4. Size(pc.op) = 2
  BY DEF Size
<1>5. Phase'
  <2>1. ans' = ans \o Return(pc.call, v)
    BY <1>1
  <2> QED  BY <1>1, <1>2, <1>3, <1>4, <2>1, AnswerSent
<1>6. Had' = Had
  BY DEF Had, Socketed
<1> QED  BY <1>5, <1>6, InStepSame

LEMMA HandlerIs ==
    ASSUME Typed, Phase, NEW op, Serve(op)
    PROVE  /\ req # <<>> /\ R.op = op /\ pc.op = op /\ op # "data"
           /\ UNCHANGED <<pc, socks, calls, peer>>
           /\ wrong' = wrong \cup (IF Other THEN {"other"} ELSE {})
<1>1. req # <<>> /\ R.op = op
  BY DEF Serve
<1>2. R.op = pc.op /\ pc.op \in Ops
  BY <1>1, SentHead
<1> QED  BY <1>1, <1>2 DEF Serve, Ops

\* The state of the sockets stays.
LEMMA SrvSame ==
    ASSUME srv' = srv, made' = made
    PROVE  Fewer /\ Live' = Live /\ Half' = Half /\ \A g \in Live : srv'[g].call = srv[g].call
BY DEF Fewer, Live, Half

\* One socket changes in what is not its name.
LEMMA SrvChanged ==
    ASSUME Typed, NEW f \in Live, NEW t \in Sock, srv' = [srv EXCEPT ![f] = t], made' = made,
           t.id = srv[f].id, t.box = srv[f].box,
           t.state # "PENDING_ACCEPT" \/ t.state = srv[f].state
    PROVE  /\ Fewer /\ Live' = Live /\ \A g \in Live \ {f} : srv'[g] = srv[g]
           /\ t.state = srv[f].state \/ srv[f].state # "PENDING_ACCEPT" => Half' = Half
           /\ srv'[f] = t
<1>1. srv \in [Fd -> Sock \cup {NoSock}] /\ f \in Fd
  BY DEF Typed, Live
<1>2. srv'[f] = t /\ \A g \in Fd \ {f} : srv'[g] = srv[g]
  BY <1>1
<1>3. Live' = Live /\ \A g \in Live \ {f} : srv'[g] = srv[g]
  BY <1>1, <1>2, SockReal DEF Live
<1>4. Half' \subseteq Half
  BY <1>2, <1>3 DEF Half
<1>5. t.state = srv[f].state \/ srv[f].state # "PENDING_ACCEPT" => Half' = Half
  BY <1>2, <1>3 DEF Half
<1> QED  BY <1>2, <1>3, <1>4, <1>5 DEF Fewer

\* The socket of a listen() or connect() has a name, so that no peer waits on
\* it, unless it is another one than the program means.
LEMMA CalledNamed ==
    ASSUME Typed, InStep, req # <<>>, R.op \in {"listen", "connect"}, Found,
           wrong' = wrong \cup (IF Other THEN {"other"} ELSE {})
    PROVE  srv[R.fd].state # "PENDING_ACCEPT" \/ "other" \in wrong'
<1>1. /\ Waiting /\ R.op = pc.op /\ R.fd = pc.sock.fd /\ R.id = pc.sock.id
      /\ pc.step = "undo" => pc.op = "close"
  BY SentHead DEF InStep
<1>2. pc.sock \in Named
  BY <1>1 DEF InStep, Calling, Waiting, Named, Had
<1>3. R.fd \in Live /\ (srv[R.fd].id = R.id \/ Other)
  BY DEF Found, Other
<1> QED  BY <1>1, <1>2, <1>3 DEF InStep, Silent, Half

LEMMA GoodServerAnswers ==
    ASSUME Typed, Good, ServerSetSockOpt \/ ServerBind \/ ServerAccept
    PROVE  Good'
<1>0. /\ req # <<>> /\ UNCHANGED <<pc, socks, made>> /\ odd \subseteq odd'
      /\ wrong' = wrong \cup (IF Other THEN {"other"} ELSE {})
  BY DEF ServerSetSockOpt, ServerBind, ServerAccept, Serve
<1>1. AnswersMatch' /\ OwnSocket' /\ (Loose => Loose')
  BY <1>0, ServedOwn
<1>2. CASE ~InStep
  BY <1>1, <1>2 DEF Good
<1>3. CASE InStep /\ ServerSetSockOpt
  <2>1. pc.op = "setsockopt"
    BY <1>3, HandlerIs DEF ServerSetSockOpt, InStep
  <2>2. CASE OptionFits /\ req' = Tail(Tail(req)) /\ ans' = ans \o Return(R.call, 0)
    <3>1. srv' = srv
      BY <1>3 DEF ServerSetSockOpt
    <3>2. /\ Fewer /\ Live' = Live /\ Half' = Half /\ \A g \in Live : srv'[g].call = srv[g].call
      BY <1>0, <3>1, SrvSame
    <3>3. 0 \in Int
      OBVIOUS
    <3>4. req' = IF pc.op = "setsockopt" THEN Tail(Tail(req)) ELSE Tail(req)
      BY <2>1, <2>2, Zenon
    <3>5. InStep'
      BY <1>0, <1>3, <2>1, <2>2, <3>2, <3>3, <3>4, ServedAnswer
    <3> QED  BY <1>1, <3>5 DEF Good
  <2>3. CASE odd' = odd \cup {"option"}
    BY <1>1, <2>3 DEF Good, Loose
  <2> QED  BY <1>3, <2>2, <2>3 DEF ServerSetSockOpt
<1>4. CASE InStep /\ (ServerBind \/ ServerAccept)
  <2>1. pc.op \in {"bind", "accept"}
    BY <1>4, HandlerIs DEF ServerBind, ServerAccept, InStep
  <2>2. /\ req' = Tail(req)
        /\ \E v \in {-1, 0} : ans' = ans \o Return(R.call, v)
        /\ srv' = srv \/ (Binds /\ srv' = [srv EXCEPT ![R.fd].bound = "bind"])
    BY <1>4 DEF ServerBind, ServerAccept, AcceptAnswer, Answer
  <2>3. /\ Fewer /\ Live' = Live /\ Half' = Half /\ \A g \in Live : srv'[g].call = srv[g].call
    <3>1. CASE srv' = srv
      BY <1>0, <3>1, SrvSame
    <3>2. CASE Binds /\ srv' = [srv EXCEPT ![R.fd].bound = "bind"]
      <4> DEFINE f == R.fd
                 t == [srv[f] EXCEPT !.bound = "bind"]
      <4>1. f \in Live
        BY <3>2 DEF Binds, Found
      <4>2. srv[f] \in Sock
        BY <4>1, SockFields
      <4>3. t \in Sock /\ t.id = srv[f].id /\ t.box = srv[f].box /\ t.call = srv[f].call
            /\ t.state = srv[f].state
        BY <4>2 DEF Sock
      <4>4. srv' = [srv EXCEPT ![f] = t]
        BY <3>2
      <4> HIDE DEF f, t
      <4>5. Fewer /\ Live' = Live /\ Half' = Half /\ \A g \in Live \ {f} : srv'[g] = srv[g]
        BY <1>0, <4>1, <4>3, <4>4, SrvChanged
      <4>6. srv'[f] = t
        BY <4>1, <4>4 DEF Typed, Live
      <4> QED  BY <4>3, <4>5, <4>6
    <3> QED  BY <2>2, <3>1, <3>2
  <2>4. PICK v \in {-1, 0} : ans' = ans \o Return(R.call, v)
    BY <2>2
  <2>5. v \in Int
    OBVIOUS
  <2>6. req' = IF pc.op = "setsockopt" THEN Tail(Tail(req)) ELSE Tail(req)
    <3>1. pc.op # "setsockopt"
      BY <2>1
    <3> QED  BY <2>2, <3>1, Zenon
  <2>7. InStep'
    BY <1>0, <1>4, <2>1, <2>3, <2>4, <2>5, <2>6, ServedAnswer
  <2> QED  BY <1>1, <2>7 DEF Good
<1> QED  BY <1>2, <1>3, <1>4

\* Words written to an empty stream
LEMMA FirstWords ==
    ASSUME ans = <<>>, NEW S, NEW w \in Seq(S)
    PROVE  ans \o w = w
<1>1. ans \o w = <<>> \o w
  OBVIOUS
<1>2. <<>> \o w = w
  BY ConcatEmptySeq
<1> QED  BY <1>1, <1>2, Zenon

LEMMA GoodServerPing ==
    ASSUME Typed, Good, ServerPing
    PROVE  Good'
<1>0. /\ req # <<>> /\ UNCHANGED <<pc, socks, made, srv, odd>> /\ req' = Tail(req)
      /\ wrong' = wrong \cup (IF Other THEN {"other"} ELSE {})
      /\ ans' = ans \o <<Word(R.call, 1, 1, 0)>>
  BY DEF ServerPing, Serve
<1>1. AnswersMatch' /\ OwnSocket' /\ (Loose => Loose')
  BY <1>0, ServedOwn
<1>2. ASSUME InStep PROVE InStep'
  <2>1. pc.op = "ping"
    BY <1>2, HandlerIs DEF ServerPing, InStep
  <2>2. /\ Waiting /\ ans = <<>> /\ Unasked /\ pc.call # 0 /\ R.call = pc.call
        /\ Tail(req) = <<>>
        /\ pc.step = "undo" => pc.op = "close"
    BY <1>0, <1>2, <2>1, SentHead DEF InStep
  <2> DEFINE w == Word(R.call, 1, 1, 0)
  <2>3. w.call = pc.call /\ w.v = w.so /\ w.id = 0
    BY <2>2 DEF Word
  <2>4. ans' = ans \o <<w>>
    BY <1>0
  <2> HIDE DEF w
  <2>5. ans' = <<w>>
    <3>1. <<w>> \in Seq({w})
      OBVIOUS
    <3> QED  BY <2>2, <2>4, <3>1, FirstWords
  <2>6. Fewer /\ Live' = Live /\ Half' = Half
    BY <1>0, SrvSame
  <2>7. Len(ans') = 1 /\ ans'[1] = w
    BY <2>5
  <2>8. Answered'
    <3>1. Len(ans') = Size(pc'.op)
      BY <1>0, <2>1, <2>7 DEF Size
    <3>2. Unasked' /\ req' = <<>>
      BY <1>0, <2>2, <2>6 DEF Unasked
    <3> QED  BY <1>0, <2>1, <2>3, <2>7, <3>1, <3>2 DEF Answered
  <2>9. Phase'
    BY <1>0, <2>2, <2>8 DEF Phase, Waiting
  <2>10. Had' = Had
    BY <1>0, <2>1 DEF Had, Socketed
  <2> QED  BY <1>0, <1>2, <2>1, <2>6, <2>9, <2>10, InStepSame
<1> QED  BY <1>1, <1>2 DEF Good

\* The data of an option are only read as a call out of step.
LEMMA GoodServerData ==
    ASSUME Typed, Good, ServerData
    PROVE  Good'
<1>0. /\ req # <<>> /\ odd' = odd
      /\ wrong' = wrong \cup (IF Other THEN {"other"} ELSE {})
  BY DEF ServerData, Serve
<1>1. AnswersMatch' /\ OwnSocket' /\ (Loose => Loose')
  BY <1>0, ServedOwn
<1>2. ~InStep
  BY HandlerIs DEF ServerData, InStep
<1> QED  BY <1>1, <1>2 DEF Good

LEMMA GoodServerListen ==
    ASSUME Typed, Good, ServerListen
    PROVE  Good'
<1>0. /\ req # <<>> /\ UNCHANGED <<pc, socks, made>> /\ odd \subseteq odd' /\ req' = Tail(req)
      /\ wrong' = wrong \cup (IF Other THEN {"other"} ELSE {})
  BY DEF ServerListen, Serve, Answer
<1>1. AnswersMatch' /\ OwnSocket' /\ (Loose => Loose')
  BY <1>0, ServedOwn
<1>2. ASSUME InStep PROVE InStep'
  <2>1. pc.op = "listen"
    BY <1>2, HandlerIs DEF ServerListen, InStep
  <2>2. /\ Waiting /\ ans = <<>> /\ Unasked /\ pc.call # 0 /\ R.call = pc.call
        /\ Tail(req) = <<>>
        /\ pc.step = "undo" => pc.op = "close"
    BY <1>0, <1>2, <2>1, SentHead DEF InStep
  <2>3. req' = IF pc.op = "setsockopt" THEN Tail(Tail(req)) ELSE Tail(req)
    <3>1. pc.op # "setsockopt"
      BY <2>1
    <3> QED  BY <1>0, <3>1, Zenon
  <2>4. 0 \in Int /\ -1 \in Int
    OBVIOUS
  <2>5. CASE ans' = ans \o Return(R.call, -1) /\ srv' = srv
    <3>1. /\ Fewer /\ Live' = Live /\ Half' = Half /\ \A g \in Live : srv'[g].call = srv[g].call
      BY <1>0, <2>5, SrvSame
    <3> QED  BY <1>0, <1>2, <2>1, <2>3, <2>4, <2>5, <3>1, ServedAnswer
  <2>6. CASE /\ srv' = srv /\ odd' = odd \cup {"unbound"}
             /\ \E v \in {-1, 0} :
                   ans' = ans \o <<Word(R.call, v, -1, 0), Word(R.call, EFail, 0, 0)>>
    <3>1. PICK v \in {-1, 0} :
                   ans' = ans \o <<Word(R.call, v, -1, 0), Word(R.call, EFail, 0, 0)>>
      BY <2>6
    <3> DEFINE x == Word(R.call, v, -1, 0)
               y == Word(R.call, EFail, 0, 0)
    <3>2. x.call = pc.call /\ x.id = 0 /\ y.call = pc.call /\ y.id = 0
      BY <2>2 DEF Word
    <3> HIDE DEF x, y
    <3>3. ans' = <<x, y>>
      <4>1. <<x, y>> \in Seq({x, y})
        OBVIOUS
      <4>2. ans' = ans \o <<x, y>>
        BY <3>1 DEF x, y
      <4> QED  BY <2>2, <4>1, <4>2, FirstWords
    <3>4. Fewer /\ Live' = Live /\ Half' = Half
      BY <1>0, <2>6, SrvSame
    <3>5. Len(ans') = 2 /\ ans'[1] = x /\ ans'[2] = y
      BY <3>3
    <3>6. Answered'
      <4>1. Len(ans') = Size(pc'.op)
        BY <1>0, <2>1, <3>5 DEF Size
      <4>2. Unasked' /\ req' = <<>>
        BY <1>0, <2>2, <2>6, <3>4 DEF Unasked
      <4>3. \A i \in 1 .. Len(ans') : ans'[i].call = pc'.call /\ ans'[i].id = 0
        <5>1. \A i \in 1 .. 2 : i = 1 \/ i = 2
          OBVIOUS
        <5> QED  BY <1>0, <3>2, <3>5, <5>1
      <4> QED  BY <1>0, <2>1, <2>6, <4>1, <4>2, <4>3 DEF Answered
    <3>7. Phase'
      BY <1>0, <2>2, <3>6 DEF Phase, Waiting
    <3>8. Had' = Had
      BY <1>0, <2>1 DEF Had, Socketed
    <3> QED  BY <1>0, <1>2, <2>1, <3>4, <3>7, <3>8, InStepSame
  <2>7. CASE /\ Found
             /\ srv' = [srv EXCEPT ![R.fd].state = "LISTENING", ![R.fd].t1 = FALSE]
             /\ ans' = ans \o Return(R.call, 0)
    <3> DEFINE f == R.fd
               t == [srv[f] EXCEPT !.state = "LISTENING", !.t1 = FALSE]
    <3>1. f \in Live
      BY <2>7 DEF Found
    <3>2. srv[f] \in Sock
      BY <3>1, SockFields
    <3>3. t \in Sock /\ t.id = srv[f].id /\ t.box = srv[f].box /\ t.call = srv[f].call
          /\ t.state # "PENDING_ACCEPT"
      BY <3>2 DEF Sock, State
    <3>n. srv[f].state # "PENDING_ACCEPT" \/ "other" \in wrong'
      <4>1. R.op = "listen" /\ Found
        BY <1>2, <2>7, HandlerIs DEF ServerListen, InStep
      <4> QED  BY <1>0, <1>2, <4>1, CalledNamed
    <3>4. srv' = [srv EXCEPT ![f] = t]
      BY <2>7
    <3> HIDE DEF f, t
    <3>5. /\ Fewer /\ Live' = Live /\ \A g \in Live \ {f} : srv'[g] = srv[g]
          /\ Half' = Half \/ "other" \in wrong'
      BY <1>0, <3>1, <3>3, <3>4, <3>n, SrvChanged
    <3>6. srv'[f] = t
      BY <3>1, <3>4 DEF Typed, Live
    <3>7. \A g \in Live : srv'[g].call = srv[g].call
      BY <3>3, <3>5, <3>6
    <3> QED  BY <1>0, <1>2, <2>1, <2>3, <2>4, <2>7, <3>5, <3>7, ServedAnswer
  <2> QED  BY <2>5, <2>6, <2>7 DEF ServerListen, Answer
<1> QED  BY <1>1, <1>2 DEF Good

LEMMA GoodServerConnect ==
    ASSUME Typed, Good, ServerConnect
    PROVE  Good'
<1>0. /\ req # <<>> /\ UNCHANGED <<pc, socks, made, odd>> /\ req' = Tail(req)
      /\ wrong' = wrong \cup (IF Other THEN {"other"} ELSE {})
  BY DEF ServerConnect, Serve, Answer
<1>1. AnswersMatch' /\ OwnSocket' /\ (Loose => Loose')
  BY <1>0, ServedOwn
<1>2. ASSUME InStep PROVE InStep'
  <2>1. pc.op = "connect"
    BY <1>2, HandlerIs DEF ServerConnect, InStep
  <2>2. /\ Waiting /\ ans = <<>> /\ Unasked /\ pc.call # 0 /\ pc.call \in Nat /\ R.call = pc.call
        /\ Tail(req) = <<>>
        /\ pc.step = "undo" => pc.op = "close"
    BY <1>0, <1>2, <2>1, SentHead DEF InStep
  <2>3. CASE ans' = ans \o Return(R.call, -1) /\ srv' = srv
    <3>1. req' = IF pc.op = "setsockopt" THEN Tail(Tail(req)) ELSE Tail(req)
      <4>1. pc.op # "setsockopt"
        BY <2>1
      <4> QED  BY <1>0, <4>1, Zenon
    <3>2. /\ Fewer /\ Live' = Live /\ Half' = Half /\ \A g \in Live : srv'[g].call = srv[g].call
      BY <1>0, <2>3, SrvSame
    <3>3. -1 \in Int
      OBVIOUS
    <3> QED  BY <1>0, <1>2, <2>1, <2>3, <3>1, <3>2, <3>3, ServedAnswer
  <2>4. CASE /\ Connects /\ ans' = ans
             /\ srv' = [srv EXCEPT ![R.fd].bound = IF @ = "no" THEN "other" ELSE @,
                                   ![R.fd].call  = R.call,
                                   ![R.fd].t1    = srv[R.fd].type = "STREAM",
                                   ![R.fd].state = IF srv[R.fd].type = "DGRAM"
                                                   THEN "ESTABLISHED" ELSE "PENDING_CONNECT"]
    <3> DEFINE f == R.fd
               t == [srv[f] EXCEPT !.bound = IF @ = "no" THEN "other" ELSE @, !.call = R.call,
                                   !.t1    = srv[R.fd].type = "STREAM",
                                   !.state = IF srv[R.fd].type = "DGRAM"
                                             THEN "ESTABLISHED" ELSE "PENDING_CONNECT"]
    <3>1. f \in Live
      BY <2>4 DEF Connects, Found
    <3>2. srv[f] \in Sock /\ f \in Fd
      BY <3>1, SockFields
    <3>3. /\ t \in Sock /\ t.id = srv[f].id /\ t.box = srv[f].box /\ t.call = pc.call
          /\ t.type = "DGRAM" \/ t.state = "PENDING_CONNECT"
          /\ t.state # "PENDING_ACCEPT"
      BY <2>2, <3>2 DEF Sock, State
    <3>n. srv[f].state # "PENDING_ACCEPT" \/ "other" \in wrong'
      <4>1. R.op = "connect" /\ Found
        BY <1>2, <2>4, HandlerIs DEF ServerConnect, InStep, Connects
      <4> QED  BY <1>0, <1>2, <4>1, CalledNamed
    <3>4. srv' = [srv EXCEPT ![f] = t]
      BY <2>4
    <3> HIDE DEF f, t
    <3>5. /\ Fewer /\ Live' = Live /\ \A g \in Live \ {f} : srv'[g] = srv[g]
          /\ Half' = Half \/ "other" \in wrong'
      BY <1>0, <3>1, <3>3, <3>4, <3>n, SrvChanged
    <3>6. srv'[f] = t
      BY <3>1, <3>4 DEF Typed, Live
    <3>7. Waits'
      <4>1. f \in Live' /\ srv'[f].call = pc'.call
            /\ (srv'[f].type = "DGRAM" \/ srv'[f].state = "PENDING_CONNECT")
        BY <1>0, <3>1, <3>3, <3>5, <3>6
      <4>2. \A g \in Live' \ {f} : srv'[g].call = 0
        BY <2>2, <3>5 DEF Unasked
      <4>3. req' = <<>> /\ ans' = <<>> /\ pc'.op = "connect"
        BY <1>0, <2>1, <2>2, <2>4
      <4> QED  BY <4>1, <4>2, <4>3 DEF Waits
    <3>8. Phase'
      BY <1>0, <2>2, <3>7 DEF Phase, Waiting
    <3>9. Had' = Had
      BY <1>0, <2>1 DEF Had, Socketed
    <3> QED  BY <1>0, <1>2, <2>1, <3>5, <3>8, <3>9, InStepSame
  <2> QED  BY <2>3, <2>4 DEF ServerConnect, Answer
<1> QED  BY <1>1, <1>2 DEF Good

\* A new socket, and its name unless it waits for a SABM
LEMMA NamesMore ==
    ASSUME Typed, Places, Silent, NEW n \in Fd, n \notin Live, Live' = Live \cup {n},
           \A g \in Live : srv'[g].id = srv[g].id /\ srv'[g].state = srv[g].state,
           srv'[n].id = made + 1, made' = made + 1,
           Named' = IF srv'[n].state = "PENDING_ACCEPT" THEN Named
                    ELSE Named \cup {[fd |-> n, id |-> made + 1]}
    PROVE  /\ Places' /\ Silent' /\ (AllNamed => AllNamed')
           /\ \A e : e.fd \in Live /\ srv[e.fd].id = e.id => e.fd \in Live' /\ srv'[e.fd].id = e.id
<1> DEFINE x == [fd |-> n, id |-> made + 1]
<1>1. /\ x.fd = n /\ x.id = made + 1 /\ Named' \subseteq Named \cup {x} /\ Named \subseteq Named'
      /\ srv'[n].state # "PENDING_ACCEPT" => x \in Named'
      /\ srv'[n].state = "PENDING_ACCEPT" => Named' = Named
  OBVIOUS
<1>2. made \in Nat /\ \A g \in Live : srv[g].id \in Int /\ srv[g].id <= made
  BY SockFields, ApiAssumption DEF Typed, Places
<1> HIDE DEF x
<1>n. \A e \in Named : e.id \in 1 .. made
  BY DEF Places
<1>3. ASSUME NEW e \in Named'
      PROVE  e.fd \in Fd /\ e.id \in 1 .. made' /\ \A f \in Live' : srv'[f].id = e.id => f = e.fd
  <2>1. CASE e \in Named
    <3>1. e.fd \in Fd /\ e.id \in 1 .. made /\ \A f \in Live : srv[f].id = e.id => f = e.fd
      BY <2>1 DEF Places
    <3>2. srv'[n].id # e.id /\ e.id \in 1 .. made'
      BY <1>2, <3>1
    <3> QED  BY <3>1, <3>2
  <2>2. CASE e = x
    <3>1. \A f \in Live : srv'[f].id # x.id
      BY <1>1, <1>2
    <3>2. x.id \in 1 .. made'
      BY <1>1, <1>2
    <3> QED  BY <1>1, <2>2, <3>1, <3>2
  <2> QED  BY <1>1, <2>1, <2>2
<1>4. \A f \in Live' : srv'[f].id <= made'
  BY <1>2
<1>5. ASSUME NEW f \in Live', NEW g \in Live', srv'[f].id = srv'[g].id PROVE f = g
  <2>1. \A h \in Live : srv'[h].id # srv'[n].id
    BY <1>2
  <2> QED  BY <1>5, <2>1 DEF Places
<1>6. Places'
  BY <1>3, <1>4, <1>5 DEF Places
<1>7. Half' = Half \cup (IF srv'[n].state = "PENDING_ACCEPT" THEN {n} ELSE {})
  BY DEF Half
<1>8. Silent'
  <2> SUFFICES ASSUME NEW f \in Half', NEW e \in Named', e.id = srv'[f].id PROVE FALSE
    BY DEF Silent
  <2>1. CASE f = n
    <3>1. srv'[n].state = "PENDING_ACCEPT"
      BY <1>7, <2>1 DEF Half
    <3>2. e.id \in 1 .. made /\ e.id = made + 1
      BY <1>1, <1>n, <2>1, <3>1
    <3> QED  BY <1>2, <3>2
  <2>2. CASE f \in Half
    <3>1. f \in Live /\ srv'[f].id = srv[f].id /\ srv[f].id <= made /\ srv[f].id \in Int
      BY <1>2, <2>2 DEF Half
    <3>2. e # x
      BY <1>1, <1>2, <3>1
    <3> QED  BY <1>1, <2>2, <3>1, <3>2 DEF Silent
  <2> QED  BY <1>7, <2>1, <2>2
<1>9. ASSUME AllNamed PROVE AllNamed'
  <2> SUFFICES ASSUME NEW f \in Live' \ Half' PROVE \E e \in Named' : e.id = srv'[f].id
    BY DEF AllNamed
  <2>1. CASE f = n
    <3>1. srv'[n].state # "PENDING_ACCEPT"
      BY <2>1 DEF Half
    <3> QED  BY <1>1, <2>1, <3>1
  <2>2. CASE f # n
    <3>1. f \in Live \ Half /\ srv'[f].id = srv[f].id
      BY <1>7, <2>2
    <3> QED  BY <1>1, <1>9, <3>1 DEF AllNamed
  <2> QED  BY <2>1, <2>2
<1> QED  BY <1>6, <1>8, <1>9

LEMMA GoodServerSocket ==
    ASSUME Typed, Good, ServerSocket
    PROVE  Good'
<1> DEFINE n == Next1
           t == NewSock(R.arg)
           w1 == Word(R.call, n, n, 0)
           w2 == Word(R.call, 0, 0, 0)
           w3 == Word(R.call, 0, 0, made')
<1>0. /\ req # <<>> /\ R.op = "socket" /\ UNCHANGED <<pc, socks, odd>> /\ req' = Tail(req)
      /\ wrong' = wrong \cup (IF Other THEN {"other"} ELSE {})
      /\ Free # {} /\ made < MaxSocks /\ made' = made + 1
      /\ srv' = [srv EXCEPT ![n] = t]
      /\ ans' = ans \o <<w1, w2, w3>>
  BY DEF ServerSocket, Serve
<1>1. AnswersMatch' /\ OwnSocket' /\ (Loose => Loose')
  BY <1>0, ServedOwn
<1>2. ASSUME InStep PROVE InStep'
  <2>1. pc.op = "socket"
    BY <1>2, HandlerIs DEF ServerSocket, InStep
  <2>2. /\ Waiting /\ ans = <<>> /\ Unasked /\ pc.call # 0 /\ R.call = pc.call
        /\ Tail(req) = <<>>
        /\ pc.step = "undo" => pc.op = "close"
    BY <1>0, <1>2, <2>1, SentHead DEF InStep
  <2>3. n \in Fd /\ n \notin Live /\ srv[n] = NoSock
    BY <1>0, Next1Free DEF Free
  <2>4. /\ t \in Sock /\ t.id = made + 1 /\ t.call = 0 /\ t.box = <<>>
        /\ t.state # "PENDING_ACCEPT"
    <3>1. R.arg \in {"STREAM", "DGRAM"}
      BY <1>0, HeadTyped, ApiAssumption
    <3> QED  BY <1>0, <3>1, NewSockTyped DEF NewSock
  <2>5. /\ w1.call = pc.call /\ w1.v = n /\ w1.so = n /\ w1.id = 0
        /\ w2.call = pc.call /\ w2.id = 0
        /\ w3.call = pc.call /\ w3.id = made + 1
    BY <1>0, <2>2 DEF Word
  <2> HIDE DEF n, t, w1, w2, w3
  <2>6. srv'[n] = t /\ (\A g \in Fd \ {n} : srv'[g] = srv[g]) /\ Live' = Live \cup {n}
    <3>1. srv \in [Fd -> Sock \cup {NoSock}]
      BY DEF Typed
    <3>2. srv'[n] = t /\ \A g \in Fd \ {n} : srv'[g] = srv[g]
      BY <1>0, <2>3, <3>1
    <3> QED  BY <2>3, <2>4, <3>2, SockReal DEF Live
  <2>7. Len(ans') = 3 /\ ans'[1] = w1 /\ ans'[2] = w2 /\ ans'[3] = w3 /\ ans' # <<>>
    <3>1. <<w1, w2, w3>> \in Seq({w1, w2, w3})
      OBVIOUS
    <3>2. ans' = <<w1, w2, w3>>
      BY <1>0, <2>2, <3>1, FirstWords
    <3> QED  BY <3>2
  <2>8. Phase'
    <3>1. Len(ans') = Size(pc'.op)
      BY <1>0, <2>1, <2>7 DEF Size
    <3>2. Unasked' /\ req' = <<>>
      BY <1>0, <2>2, <2>3, <2>4, <2>6 DEF Unasked, Live
    <3>3. \A i \in 1 .. 3 : i = 1 \/ i = 2 \/ i = 3
      OBVIOUS
    <3>4. \A i \in 1 .. Len(ans') : ans'[i].call = pc'.call /\ (ans'[i].id # 0 => i = 3)
      BY <1>0, <2>5, <2>7, <3>3
    <3>5. Answered'
      BY <1>0, <2>1, <2>5, <2>7, <3>1, <3>2, <3>4 DEF Answered
    <3> QED  BY <1>0, <2>2, <3>5 DEF Phase, Waiting
  <2> DEFINE x == [fd |-> n, id |-> made + 1]
  <2>9. Had = socks /\ Had' = socks \cup {x}
    BY <1>0, <2>1, <2>2, <2>5, <2>7 DEF Had, Socketed, Waiting
  <2>10. Boxed' = Boxed
    <3>1. \A g \in Live : srv'[g].box = srv[g].box
      BY <2>3, <2>6 DEF Live
    <3>2. DOMAIN srv'[n].box = {}
      BY <2>4, <2>6
    <3> QED  BY <2>6, <3>1, <3>2 DEF Boxed
  <2>11. Named' = Named \cup {x}
    BY <2>9, <2>10 DEF Named
  <2>12. \A g \in Live : srv'[g] = srv[g]
    BY <2>3, <2>6 DEF Live
  <2>13. /\ Places' /\ Silent' /\ (AllNamed => AllNamed')
         /\ \A e : e.fd \in Live /\ srv[e.fd].id = e.id => e.fd \in Live' /\ srv'[e.fd].id = e.id
    BY <1>0, <1>2, <2>3, <2>4, <2>6, <2>11, <2>12, NamesMore DEF InStep
  <2>14. Once'
    <3> SUFFICES ASSUME NEW f \in Live', NEW i \in DOMAIN srv'[f].box
                 PROVE  /\ \A e \in Had' : e.id # srv'[f].box[i].id
                        /\ \A g \in Live' : \A j \in DOMAIN srv'[g].box :
                               srv'[g].box[j].id = srv'[f].box[i].id => f = g /\ i = j
      BY DEF Once
    <3>0. srv'[n].box = <<>>
      BY <2>4, <2>6
    <3>1. f \in Live /\ srv'[f] = srv[f]
      BY <2>6, <2>12, <3>0
    <3>2. \A e \in socks : e.id # srv[f].box[i].id
      BY <1>2, <2>9, <3>1 DEF InStep, Once
    <3>3. srv[f].box[i].id # x.id
      <4>1. srv[f].box[i] \in Named
        BY <3>1 DEF Named, Boxed
      <4>2. srv[f].box[i].id \in 1 .. made /\ made \in Nat
        BY <1>2, <4>1 DEF InStep, Places, Typed
      <4> QED  BY <4>2
    <3>4. ASSUME NEW g \in Live', NEW j \in DOMAIN srv'[g].box,
                 srv'[g].box[j].id = srv'[f].box[i].id
          PROVE  f = g /\ i = j
      <4>1. g \in Live /\ srv'[g] = srv[g]
        BY <2>6, <2>12, <3>0
      <4> QED  BY <1>2, <3>1, <3>4, <4>1 DEF InStep, Once
    <3> QED  BY <2>9, <3>1, <3>2, <3>3, <3>4
  <2>15. Calling'
    BY <1>0, <2>1 DEF Calling, Closed
  <2>16. ASSUME Alive PROVE Alive'
    <3>1. ~Closed /\ ~Closed'
      BY <1>0, <2>1 DEF Closed
    <3>2. x.fd \in Live' /\ srv'[x.fd].id = x.id
      BY <2>4, <2>6
    <3>3. \A e \in Named' : e.fd \in Live' /\ srv'[e.fd].id = e.id
      BY <2>11, <2>13, <2>16, <3>1, <3>2 DEF Alive
    <3> QED  BY <1>0, <2>16, <3>1, <3>3 DEF Alive
  <2> QED  BY <1>0, <1>2, <2>8, <2>13, <2>14, <2>15, <2>16 DEF InStep
<1> QED  BY <1>1, <1>2 DEF Good

\* Names are pairs of a number and an id.
LEMMA NamedTyped ==
    ASSUME Typed, NEW e \in Named
    PROVE  e = [fd |-> e.fd, id |-> e.id]
<1>1. CASE e \in socks
  BY <1>1 DEF Typed, Name
<1>2. CASE e = [fd |-> ans[1].v, id |-> ans[3].id]
  BY <1>2
<1>3. ASSUME NEW f \in Live, NEW i \in DOMAIN srv[f].box, e = srv[f].box[i]
      PROVE  e = [fd |-> e.fd, id |-> e.id]
  <2> DEFINE M == [fd : Fd, id : 1 .. MaxSocks]
             b == srv[f].box
  <2>1. b \in Seq(M) /\ i \in DOMAIN b /\ e = b[i]
    BY <1>3, SockFields
  <2> HIDE DEF M, b
  <2>2. e \in M
    BY <2>1
  <2> QED  BY <2>2 DEF M
<1> QED  BY <1>1, <1>2, <1>3 DEF Named, Had, Boxed

LEMMA GoodServerClose ==
    ASSUME Typed, Good, ServerClose
    PROVE  Good'
<1>0. /\ req # <<>> /\ UNCHANGED <<pc, socks, made>> /\ odd \subseteq odd' /\ req' = Tail(req)
      /\ wrong' = wrong \cup (IF Other THEN {"other"} ELSE {})
  BY DEF ServerClose, Serve, Answer
<1>1. AnswersMatch' /\ OwnSocket' /\ (Loose => Loose')
  BY <1>0, ServedOwn
<1>2. ASSUME InStep PROVE InStep'
  <2>1. pc.op = "close"
    BY <1>2, HandlerIs DEF ServerClose, InStep
  <2>2. /\ Waiting /\ ans = <<>> /\ Unasked /\ pc.call # 0 /\ pc.call \in Nat /\ R.call = pc.call
        /\ Tail(req) = <<>> /\ R.fd = pc.sock.fd
        /\ pc.step = "undo" => pc.op = "close"
    BY <1>0, <1>2, <2>1, SentHead DEF InStep
  <2>3. Had = socks /\ Had' = socks /\ ~Closed /\ Size(pc.op) = 2
    BY <1>0, <2>1, <2>2 DEF Had, Socketed, Closed, Size
  <2>4. pc.step = "answer" => pc.sock \in socks /\ pc.sock \in Named
    BY <1>2, <2>1, <2>3 DEF InStep, Calling, Named
  <2>i. 0 \in Int /\ -1 \in Int
    OBVIOUS
  <2>5. CASE ~Found /\ ans' = ans \o Return(R.call, -1) /\ srv' = srv
    <3>1. Fewer /\ Live' = Live /\ Half' = Half
      BY <1>0, <2>5, SrvSame
    <3>2. Phase' /\ ans'[1].v = -1 /\ ans' # <<>>
      <4>1. Unasked' /\ req' = <<>> /\ ans' = ans \o Return(pc.call, -1)
        BY <1>0, <2>2, <2>5, <3>1 DEF Unasked
      <4> QED  BY <1>0, <2>1, <2>2, <2>3, <2>i, <4>1, AnswerSent
    <3>3. /\ Named' = Named /\ Places' /\ Once' /\ Silent'
          /\ AllNamed => AllNamed'
      BY <1>2, <2>3, <3>1, NamesSame DEF InStep
    <3>4. Calling'
      <4>1. ~(ans'[1].v >= 0)
        BY <3>2
      <4> QED  BY <1>0, <2>4, <4>1 DEF Calling
    <3>5. ~Alive
      <4>1. ASSUME Alive PROVE FALSE
        <5>1. pc.sock \in Named
          BY <2>2, <2>4, <4>1 DEF Alive, Waiting
        <5> QED  BY <2>2, <2>3, <2>5, <4>1, <5>1 DEF Alive, Found
      <4> QED  BY <4>1
    <3> QED  BY <1>0, <1>2, <3>2, <3>3, <3>4, <3>5 DEF InStep
  <2>6. CASE /\ Found /\ srv' = Destroyed(R.fd) /\ ans' = ans \o Return(R.call, 0)
             /\ odd' = odd \cup (IF srv[R.fd].box # <<>> THEN {"unread"} ELSE {})
    <3> DEFINE f == R.fd
    <3>1. f \in Live /\ f = pc.sock.fd
      BY <2>2, <2>6 DEF Found
    <3>2. /\ srv \in [Fd -> Sock \cup {NoSock}] /\ f \in Fd
          /\ srv' = [srv EXCEPT ![f] = NoSock]
      BY <2>6, <3>1 DEF Typed, Live, Destroyed
    <3>3. odd' = odd \cup (IF srv[f].box # <<>> THEN {"unread"} ELSE {})
      BY <2>6
    <3> HIDE DEF f
    <3>4. Live' = Live \ {f} /\ Half' = Half \ {f} /\ \A g \in Live' : srv'[g] = srv[g]
      BY <3>2 DEF Live, Half
    <3>5. Fewer
      BY <1>0, <3>4 DEF Fewer
    <3>6. Phase' /\ ans'[1].v = 0 /\ ans' # <<>>
      <4>1. Unasked' /\ req' = <<>> /\ ans' = ans \o Return(pc.call, 0)
        BY <1>0, <2>2, <2>6, <3>4 DEF Unasked
      <4> QED  BY <1>0, <2>1, <2>2, <2>3, <2>i, <4>1, AnswerSent
    <3>7. Named' \subseteq Named /\ Places' /\ Once' /\ Silent'
      BY <1>2, <2>3, <3>5, NamesFewer DEF InStep
    <3>8. Calling'
      <4>1. pc.step = "answer" => \A g \in Live' : srv'[g].id # pc.sock.id
        BY <1>2, <2>4, <3>1, <3>4 DEF InStep, Places
      <4> QED  BY <1>0, <2>4, <4>1 DEF Calling, Closed
    <3>9. ASSUME AllNamed, "unread" \notin odd' PROVE AllNamed'
      <4>1. DOMAIN srv[f].box = {}
        <5>1. srv[f].box = <<>>
          BY <3>3, <3>9
        <5> QED  BY <5>1
      <4>2. Boxed \subseteq Boxed'
        BY <3>4, <4>1 DEF Boxed
      <4>3. Named \subseteq Named'
        BY <2>3, <4>2 DEF Named
      <4> QED  BY <3>4, <3>9, <4>3 DEF AllNamed
    <3>10. ASSUME Alive PROVE Alive'
      <4>1. pc.step = "answer" /\ pc.sock \in Named
        BY <2>2, <2>4, <3>10 DEF Alive, Waiting
      <4>2. Closed'
        BY <1>0, <2>1, <3>6, <4>1 DEF Closed
      <4>3. srv[f].id = pc.sock.id
        BY <2>3, <3>1, <3>10, <4>1 DEF Alive
      <4>4. ASSUME NEW e \in Named'
            PROVE  (e.fd \in Live' /\ srv'[e.fd].id = e.id) \/ e = pc.sock
        <5>1. e \in Named /\ e.fd \in Live /\ srv[e.fd].id = e.id
          BY <2>3, <3>7, <3>10 DEF Alive
        <5>2. CASE e.fd # f
          BY <3>4, <5>1, <5>2
        <5>3. CASE e.fd = f
          <6>1. e.fd = pc.sock.fd /\ e.id = pc.sock.id
            BY <3>1, <4>3, <5>1, <5>3
          <6>2. e = pc.sock
            BY <4>1, <5>1, <6>1, NamedTyped
          <6> QED  BY <6>2
        <5> QED  BY <5>2, <5>3
      <4>5. ans'[1].v >= 0
        BY <3>6
      <4> QED  BY <1>0, <4>1, <4>2, <4>4, <4>5 DEF Alive
    <3> QED  BY <1>0, <1>2, <3>3, <3>6, <3>7, <3>8, <3>9, <3>10 DEF InStep
  <2> QED  BY <2>5, <2>6 DEF ServerClose, Answer
<1> QED  BY <1>1, <1>2 DEF Good

---------------------------------------------------------------------------
(***************************************************************************)
(* The stations on the air.                                                 *)
(***************************************************************************)
\* An answer to a connect(): the one that is waited for, or one too many.
LEMMA DecidedAnswer ==
    ASSUME Typed, Good, NEW f \in Fd, Connecting(f), NEW v \in Int, RespondConnect(f, v),
           Told(f) \subseteq odd', Event, Live' \subseteq Live,
           \A g \in Live' \ {f} : srv'[g] = srv[g],
           f \in Live' => srv'[f].call = 0
    PROVE  /\ f \in Live /\ UNCHANGED <<pc, socks>> /\ odd \subseteq odd'
           /\ AnswersMatch' /\ OwnSocket' /\ (Loose => Loose')
           /\ ~Loose' => InStep /\ pc.op = "connect" /\ Phase' /\ Had' = Had
<1>1. f \in Live /\ srv[f].state = "PENDING_CONNECT"
  BY DEF Connecting, Live
<1>2. odd \subseteq odd' /\ wrong' = wrong /\ UNCHANGED <<req, pc, socks>>
  BY DEF Told, Event
<1>3. AnswersMatch' /\ OwnSocket' /\ (Loose => Loose')
  BY <1>2, NothingWrong DEF Good
<1>4. ASSUME ~Loose' PROVE InStep /\ pc.op = "connect" /\ Phase' /\ Had' = Had
  <2>1. InStep /\ ~Extra(f)
    BY <1>1, <1>3, <1>4 DEF Good, Told, Loose
  <2>2. ~Unasked
    BY <1>1, <2>1 DEF Extra, Unasked
  <2>3. /\ Waiting /\ pc.call # 0 /\ (pc.step = "undo" => pc.op = "close") /\ Waits
    BY <2>1, <2>2 DEF InStep, Phase, Quiet, Sent, Answered
  <2>4. /\ srv[f].call = pc.call /\ \A g \in Live \ {f} : srv[g].call = 0
    BY <1>1, <2>1, <2>3 DEF Waits, Extra
  <2>5. req = <<>> /\ ans = <<>> /\ pc.op = "connect" /\ Size(pc.op) = 2
    BY <2>3 DEF Waits, Size
  <2>6. Unasked'
    BY <2>4 DEF Unasked
  <2>7. ans' = ans \o Return(pc.call, v) /\ pc.call \in Nat
    BY <2>4 DEF RespondConnect, Typed
  <2>8. Phase'
    BY <1>2, <2>3, <2>5, <2>6, <2>7, AnswerSent
  <2>9. Had' = Had
    BY <1>2, <2>5 DEF Had, Socketed
  <2> QED  BY <2>1, <2>5, <2>8, <2>9
<1> QED  BY <1>1, <1>2, <1>3, <1>4

\* A socket whose link has ended is gone; its name stays where it is.
LEMMA SocketEnds ==
    ASSUME Typed, InStep, NEW f \in Live, srv[f].box = <<>>, srv' = Destroyed(f), made' = made,
           UNCHANGED <<pc, socks>>, Had' = Had, Phase', odd \subseteq odd', wrong \subseteq wrong',
           "ended" \in odd' \/ (srv[f].state = "PENDING_ACCEPT" /\ ans' = ans),
           Closed' => Closed /\ ans' = ans
    PROVE  InStep'
<1>1. srv \in [Fd -> Sock \cup {NoSock}] /\ f \in Fd
  BY DEF Typed, Live
<1>2. Live' = Live \ {f} /\ \A g \in Live' : srv'[g] = srv[g]
  BY <1>1 DEF Live, Destroyed
<1>h. Half' = Half \ {f}
  BY <1>2 DEF Half
<1>3. Fewer
  BY <1>2, <1>h DEF Fewer
<1>4. Places' /\ Once' /\ Silent'
  BY <1>3, NamesFewer DEF InStep
<1>5. Boxed' = Boxed
  <2>1. DOMAIN srv[f].box = {}
    <3> DEFINE b == srv[f].box
    <3>1. b = <<>>
      OBVIOUS
    <3> HIDE DEF b
    <3>2. DOMAIN b = {}
      BY <3>1
    <3> QED  BY <3>2 DEF b
  <2> QED  BY <1>2, <2>1 DEF Boxed
<1>6. Named' = Named
  BY <1>5 DEF Named
<1>7. AllNamed => AllNamed'
  BY <1>2, <1>h, <1>6 DEF AllNamed
<1>8. Calling'
  BY <1>2 DEF Calling, InStep
<1>9. ASSUME srv[f].state = "PENDING_ACCEPT", ans' = ans, Alive PROVE Alive'
  <2>1. Closed' <=> Closed
    BY <1>9 DEF Closed
  <2>2. f \in Half
    BY <1>9 DEF Half
  <2>3. \A e \in Named : e.id # srv[f].id
    BY <2>2 DEF InStep, Silent
  <2>4. ASSUME NEW e \in Named, e.fd \in Live, srv[e.fd].id = e.id
        PROVE  e.fd \in Live' /\ srv'[e.fd].id = e.id
    <3>1. e.fd # f
      BY <2>3, <2>4
    <3> QED  BY <1>2, <2>4, <3>1
  <2> QED  BY <1>6, <1>9, <2>1, <2>4 DEF Alive
<1>10. "ended" \in odd' \/ Alive'
  BY <1>9 DEF InStep
<1>11. "unread" \in odd' \/ "other" \in wrong' \/ AllNamed'
  BY <1>7 DEF InStep
<1> QED  BY <1>4, <1>8, <1>10, <1>11 DEF InStep

LEMMA GoodDecides ==
    ASSUME Typed, Good, NEW f \in Fd, Decides(f)
    PROVE  Good'
<1>1. CASE HandleUa(f) \/ HandleRefusal(f)
  <2>1. PICK state \in {"ESTABLISHED", "PENDING_CONNECT", "CLOSED"}, t1 \in BOOLEAN,
                v \in {-1, 0} :
            /\ RespondConnect(f, v)
            /\ srv' = [srv EXCEPT ![f].state = state, ![f].t1 = t1, ![f].call = 0]
    <3>1. \A state : (state = "PENDING_CONNECT") \in BOOLEAN
      OBVIOUS
    <3>2. CASE HandleUa(f)
      BY <3>2 DEF HandleUa
    <3>3. CASE HandleRefusal(f)
      BY <3>1, <3>3 DEF HandleRefusal
    <3> QED  BY <1>1, <3>2, <3>3
  <2>2. Connecting(f) /\ odd' = Told(f) /\ Event /\ made' = made /\ v \in Int
    BY <1>1 DEF HandleUa, HandleRefusal
  <2> DEFINE t == [srv[f] EXCEPT !.state = state, !.t1 = t1, !.call = 0]
  <2>3. f \in Live
    BY <2>2 DEF Connecting, Live
  <2>4. srv[f] \in Sock
    BY <2>3, SockFields
  <2>5. /\ t \in Sock /\ t.id = srv[f].id /\ t.box = srv[f].box /\ t.call = 0
        /\ t.state # "PENDING_ACCEPT" /\ srv[f].state # "PENDING_ACCEPT"
    BY <2>2, <2>4 DEF Connecting, Sock, State
  <2>6. srv' = [srv EXCEPT ![f] = t]
    BY <2>1
  <2> HIDE DEF t
  <2>7. Fewer /\ Live' = Live /\ Half' = Half /\ \A g \in Live \ {f} : srv'[g] = srv[g]
    BY <2>2, <2>3, <2>5, <2>6, SrvChanged
  <2>8. srv'[f] = t
    BY <2>6 DEF Typed
  <2>9. /\ UNCHANGED <<pc, socks>> /\ odd \subseteq odd'
        /\ AnswersMatch' /\ OwnSocket' /\ (Loose => Loose')
        /\ ~Loose' => InStep /\ pc.op = "connect" /\ Phase' /\ Had' = Had
    BY <2>1, <2>2, <2>5, <2>7, <2>8, DecidedAnswer
  <2>10. ASSUME ~Loose' PROVE InStep'
    <3>1. pc.op # "close" /\ wrong' = wrong
      BY <2>2, <2>9, <2>10 DEF Event
    <3> QED  BY <2>7, <2>9, <2>10, <3>1, InStepSame
  <2> QED  BY <2>9, <2>10 DEF Good
<1>2. CASE ConnectTimeout(f)
  <2>1. /\ RespondConnect(f, -1) /\ srv' = Destroyed(f) /\ -1 \in Int
        /\ Connecting(f) /\ odd' = Told(f) \cup {"ended"} /\ Event /\ made' = made
    BY <1>2 DEF ConnectTimeout
  <2>2. f \in Live /\ srv[f].box = <<>>
    BY <2>1 DEF Connecting, Live, Typed
  <2>3. Live' = Live \ {f} /\ \A g \in Live' : srv'[g] = srv[g]
    BY <2>1 DEF Live, Destroyed, Typed
  <2>4. /\ UNCHANGED <<pc, socks>> /\ odd \subseteq odd'
        /\ AnswersMatch' /\ OwnSocket' /\ (Loose => Loose')
        /\ ~Loose' => InStep /\ pc.op = "connect" /\ Phase' /\ Had' = Had
    BY <2>1, <2>3, DecidedAnswer
  <2>5. ASSUME ~Loose' PROVE InStep'
    <3>1. "ended" \in odd' /\ wrong' = wrong
      BY <2>1 DEF Event
    <3>2. ~Closed /\ ~Closed'
      BY <2>4, <2>5 DEF Closed
    <3> QED  BY <2>1, <2>2, <2>4, <2>5, <3>1, <3>2, SocketEnds
  <2> QED  BY <2>4, <2>5 DEF Good
<1> QED  BY <1>1, <1>2 DEF Decides

\* A socket that no connect() waits for is gone.
LEMMA GoodEnds ==
    ASSUME Typed, Good, NEW f \in Fd, LinkEnds(f) \/ AcceptTimeout(f)
    PROVE  Good'
<1>1. /\ srv[f] # NoSock /\ srv[f].type = "STREAM" /\ srv[f].state # "LISTENING"
      /\ srv[f].state # "PENDING_CONNECT"
      /\ srv' = Destroyed(f) /\ odd \subseteq odd'
      /\ "ended" \in odd' \/ srv[f].state = "PENDING_ACCEPT"
      /\ UNCHANGED <<req, ans, pc, socks, made, wrong>>
  BY DEF LinkEnds, AcceptTimeout, Pending, Event
<1>2. AnswersMatch' /\ OwnSocket' /\ (Loose => Loose')
  BY <1>1, NothingWrong DEF Good
<1>3. ASSUME InStep PROVE InStep'
  <2>1. f \in Live /\ srv[f].box = <<>>
    BY <1>1 DEF Live, Typed
  <2>2. Live' = Live \ {f} /\ \A g \in Live' : srv'[g] = srv[g]
    BY <1>1 DEF Live, Destroyed, Typed
  <2>3. Unasked => Unasked'
    BY <2>2 DEF Unasked
  <2>4. ASSUME Waits PROVE Waits'
    <3>1. PICK w \in Live :
              /\ srv[w].call = pc.call
              /\ srv[w].type = "DGRAM" \/ srv[w].state = "PENDING_CONNECT"
              /\ \A g \in Live \ {w} : srv[g].call = 0
      BY <2>4 DEF Waits
    <3>2. w \in Live'
      BY <1>1, <2>2, <3>1
    <3> QED  BY <1>1, <2>2, <2>4, <3>1, <3>2 DEF Waits
  <2>5. Sent => Sent'
    BY <1>1, <2>3 DEF Sent
  <2>6. Answered => Answered'
    BY <1>1, <2>3 DEF Answered
  <2>7. Phase'
    BY <1>1, <1>3, <2>3, <2>4, <2>5, <2>6 DEF InStep, Phase, Waiting, Quiet
  <2>8. Had' = Had /\ (Closed' <=> Closed)
    BY <1>1 DEF Had, Socketed, Closed, Waiting
  <2> QED  BY <1>1, <1>3, <2>1, <2>7, <2>8, SocketEnds
<1> QED  BY <1>2, <1>3 DEF Good

\* A frame that starts or stops T1
LEMMA GoodT1 ==
    ASSUME Typed, Good, NEW f \in Fd, HandleRr(f) \/ HandleXidAnswer(f)
    PROVE  Good'
<1>1. /\ UNCHANGED <<req, ans, pc, socks, made, odd, wrong>> /\ f \in Live
      /\ \E b \in BOOLEAN : srv' = [srv EXCEPT ![f].t1 = b]
  BY DEF HandleRr, HandleXidAnswer, Connecting, Pending, Live, Event
<1>2. PICK b \in BOOLEAN : srv' = [srv EXCEPT ![f].t1 = b]
  BY <1>1
<1>3. AnswersMatch' /\ OwnSocket' /\ (Loose => Loose')
  BY <1>1, NothingWrong DEF Good
<1> DEFINE t == [srv[f] EXCEPT !.t1 = b]
<1>4. srv[f] \in Sock
  BY <1>1, SockFields
<1>5. /\ t \in Sock /\ t.id = srv[f].id /\ t.box = srv[f].box /\ t.state = srv[f].state
      /\ t.call = srv[f].call /\ t.type = srv[f].type
  BY <1>4 DEF Sock
<1>6. srv' = [srv EXCEPT ![f] = t]
  BY <1>2
<1> HIDE DEF t
<1>7. /\ Fewer /\ Live' = Live /\ Half' = Half /\ srv'[f] = t
      /\ \A g \in Live \ {f} : srv'[g] = srv[g]
  BY <1>1, <1>5, <1>6, SrvChanged
<1>8. \A g \in Live : /\ srv'[g].call = srv[g].call /\ srv'[g].type = srv[g].type
                      /\ srv'[g].state = srv[g].state
  BY <1>5, <1>7
<1>9. ASSUME InStep PROVE InStep'
  <2>1. Phase'
    BY <1>1, <1>7, <1>8, <1>9 DEF InStep, Phase, Waiting, Quiet, Unasked, Sent, Answered, Waits
  <2>2. Had' = Had /\ (Closed' <=> Closed)
    BY <1>1 DEF Had, Socketed, Closed, Waiting
  <2>3. /\ Named' = Named /\ Places' /\ Once' /\ Silent' /\ (AllNamed => AllNamed')
        /\ \A e : e.fd \in Live /\ srv[e.fd].id = e.id => e.fd \in Live' /\ srv'[e.fd].id = e.id
    BY <1>7, <1>9, <2>2, NamesSame DEF InStep
  <2>4. Calling'
    BY <1>1, <1>7, <1>9, <2>2 DEF InStep, Calling, Fewer
  <2>5. Alive => Alive'
    BY <1>1, <2>2, <2>3 DEF Alive
  <2> QED  BY <1>1, <1>9, <2>1, <2>3, <2>4, <2>5 DEF InStep
<1> QED  BY <1>3, <1>9 DEF Good

\* A socket that an XID makes changes nothing that the program knows.
LEMMA GoodHandleXid ==
    ASSUME Typed, Good, HandleXid
    PROVE  Good'
<1> DEFINE n == Next1
           t == PeerSock("PENDING_ACCEPT")
<1>1. /\ UNCHANGED <<req, ans, pc, socks, odd, wrong>> /\ made' = made + 1
      /\ local # 0 /\ Room /\ srv' = [srv EXCEPT ![n] = t]
  BY DEF HandleXid, Event
<1>2. made < MaxSocks /\ made \in Nat /\ n \in Fd /\ n \notin Live
  BY <1>1, RoomFree
<1>3. local \in Live
  BY <1>1, LocalLive
<1>4. /\ t \in Sock /\ t.id = made + 1 /\ t.box = <<>> /\ t.call = 0
      /\ t.state = "PENDING_ACCEPT"
  BY <1>2, <1>3, PeerSockTyped
<1> HIDE DEF n, t
<1>5. srv'[n] = t /\ Live' = Live \cup {n} /\ \A g \in Live : srv'[g] = srv[g]
  <2>1. srv \in [Fd -> Sock \cup {NoSock}]
    BY DEF Typed
  <2> QED  BY <1>1, <1>2, <1>4, <2>1, SockReal DEF Live
<1>6. AnswersMatch' /\ OwnSocket' /\ (Loose => Loose')
  BY <1>1, NothingWrong DEF Good
<1>7. ASSUME InStep PROVE InStep'
  <2>1. Had' = Had /\ (Closed' <=> Closed)
    BY <1>1 DEF Had, Socketed, Closed, Waiting
  <2>2. Boxed' = Boxed
    <3>1. DOMAIN srv'[n].box = {}
      BY <1>4, <1>5
    <3> QED  BY <1>5, <3>1 DEF Boxed
  <2>3. Named' = Named
    BY <2>1, <2>2 DEF Named
  <2>4. /\ Places' /\ Silent' /\ (AllNamed => AllNamed')
        /\ \A e : e.fd \in Live /\ srv[e.fd].id = e.id => e.fd \in Live' /\ srv'[e.fd].id = e.id
    BY <1>1, <1>2, <1>4, <1>5, <1>7, <2>3, NamesMore DEF InStep
  <2>5. Unasked => Unasked'
    BY <1>4, <1>5 DEF Unasked
  <2>6. ASSUME Waits PROVE Waits'
    <3>1. PICK w \in Live :
              /\ srv[w].call = pc.call
              /\ srv[w].type = "DGRAM" \/ srv[w].state = "PENDING_CONNECT"
              /\ \A g \in Live \ {w} : srv[g].call = 0
      BY <2>6 DEF Waits
    <3>2. w \in Live' /\ \A g \in Live' \ {w} : srv'[g].call = 0
      BY <1>4, <1>5, <3>1
    <3> QED  BY <1>1, <1>5, <2>6, <3>1, <3>2 DEF Waits
  <2>7. Phase'
    BY <1>1, <1>7, <2>5, <2>6 DEF InStep, Phase, Waiting, Quiet, Sent, Answered
  <2>8. Once'
    <3>1. DOMAIN srv'[n].box = {}
      BY <1>4, <1>5
    <3> QED  BY <1>5, <1>7, <2>1, <3>1 DEF InStep, Once
  <2>9. Calling'
    <3>1. ASSUME Closed', ans'[1].v >= 0, NEW f \in Live' PROVE srv'[f].id # pc'.sock.id
      <4>1. Closed /\ ans[1].v >= 0 /\ pc.sock \in socks
        BY <1>1, <1>7, <2>1, <3>1 DEF InStep, Calling, Closed
      <4>2. CASE f \in Live
        BY <1>1, <1>5, <1>7, <4>1, <4>2 DEF InStep, Calling
      <4>3. CASE f = n
        <5>1. pc.sock \in Named
          BY <4>1 DEF Named, Had
        <5>2. pc.sock.id \in 1 .. made
          BY <1>7, <5>1 DEF InStep, Places
        <5> QED  BY <1>1, <1>2, <1>4, <1>5, <4>3, <5>2
      <4> QED  BY <1>5, <4>2, <4>3
    <3> QED  BY <1>1, <1>7, <3>1 DEF InStep, Calling
  <2>10. Alive => Alive'
    BY <1>1, <2>1, <2>3, <2>4 DEF Alive
  <2> QED  BY <1>1, <1>7, <2>4, <2>7, <2>8, <2>9, <2>10 DEF InStep
<1> QED  BY <1>6, <1>7 DEF Good

LEMMA BoxedAt ==
    \A y : y \in Boxed <=> \E f \in Live : \E i \in DOMAIN srv[f].box : y = srv[f].box[i]
BY DEF Boxed

LEMMA BoxedAtNext ==
    \A y : y \in Boxed' <=> \E f \in Live' : \E i \in DOMAIN srv'[f].box : y = srv'[f].box[i]
BY DEF Boxed

\* The name x of socket n comes last in the pty of the listening socket.
Writes(n, x) ==
    /\ UNCHANGED <<req, ans, pc, socks, odd, wrong>>
    /\ made' \in Nat /\ made <= made' /\ x.fd = n /\ x.id <= made'
    /\ local \in Live /\ n # local /\ Live' = Live \cup {n}
    /\ \A e \in Named : e.id # x.id
    /\ \A g \in Live \ {n} : srv[g].id # x.id
    /\ srv'[n].id = x.id /\ srv'[n].box = <<>> /\ srv'[n].state # "PENDING_ACCEPT"
    /\ \/ n \notin Live /\ srv'[n].call = 0
       \/ /\ n \in Live /\ srv[n].id = x.id /\ srv[n].box = <<>>
          /\ srv'[n].call = srv[n].call /\ srv'[n].type = srv[n].type
          /\ srv[n].state = "PENDING_ACCEPT"
    /\ \A g \in Live \ {n, local} : srv'[g] = srv[g]
    /\ srv'[local].id = srv[local].id /\ srv'[local].call = srv[local].call
    /\ srv'[local].type = srv[local].type /\ srv'[local].state = srv[local].state
    /\ srv'[local].box = Append(srv[local].box, x)

LEMMA NameWritten ==
    ASSUME Typed, InStep, NEW n \in Fd, NEW x \in [fd : Fd, id : 1 .. MaxSocks], Writes(n, x)
    PROVE  InStep'
<1> USE DEF Writes
<1> DEFINE b == srv[local].box
           M == [fd : Fd, id : 1 .. MaxSocks]
<1>1. x.id \in 1 .. made' /\ x.id \in Nat
  BY ApiAssumption
<1>2. b \in Seq(M)
  BY SockFields
<1>3. /\ Len(b) \in Nat /\ DOMAIN b = 1 .. Len(b) /\ DOMAIN srv'[local].box = 1 .. Len(b) + 1
      /\ srv'[local].box[Len(b) + 1] = x /\ \A i \in 1 .. Len(b) : srv'[local].box[i] = b[i]
  <2>1. srv'[local].box = Append(b, x) /\ x \in M
    OBVIOUS
  <2> HIDE DEF b, M
  <2> QED  BY <1>2, <2>1
<1>b. n \in Live => DOMAIN srv[n].box = {}
  OBVIOUS
<1>4. Had' = Had /\ (Closed' <=> Closed)
  BY DEF Had, Socketed, Closed, Waiting
<1> HIDE DEF M
<1>5. Boxed' = Boxed \cup {x}
  <2>1. ASSUME NEW y \in Boxed PROVE y \in Boxed'
    <3>1. PICK g \in Live : \E i \in DOMAIN srv[g].box : y = srv[g].box[i]
      BY <2>1, BoxedAt
    <3>2. PICK i \in DOMAIN srv[g].box : y = srv[g].box[i]
      BY <3>1
    <3>3. g \in Live' /\ i \in DOMAIN srv'[g].box /\ srv'[g].box[i] = y
      <4>1. CASE g = local
        <5>1. i \in 1 .. Len(b) /\ y = b[i]
          BY <1>3, <3>2, <4>1
        <5>2. i \in 1 .. Len(b) + 1
          BY <1>3, <5>1
        <5> QED  BY <1>3, <4>1, <5>1, <5>2
      <4>2. CASE g # local
        <5>1. g # n
          BY <1>b, <3>2
        <5> QED  BY <3>2, <4>2, <5>1
      <4> QED  BY <4>1, <4>2
    <3> QED  BY <3>3, BoxedAtNext
  <2>2. x \in Boxed'
    <3>1. local \in Live' /\ Len(b) + 1 \in DOMAIN srv'[local].box
      BY <1>3
    <3> QED  BY <1>3, <3>1, BoxedAtNext
  <2>3. ASSUME NEW y \in Boxed' PROVE y \in Boxed \cup {x}
    <3>1. PICK g \in Live' : \E i \in DOMAIN srv'[g].box : y = srv'[g].box[i]
      BY <2>3, BoxedAtNext
    <3>2. PICK i \in DOMAIN srv'[g].box : y = srv'[g].box[i]
      BY <3>1
    <3>3. y = x \/ (g \in Live /\ i \in DOMAIN srv[g].box /\ y = srv[g].box[i])
      <4>1. CASE g = n
        BY <3>2, <4>1
      <4>2. CASE g = local
        <5>1. CASE i = Len(b) + 1
          BY <1>3, <3>2, <4>2, <5>1
        <5>2. CASE i \in 1 .. Len(b)
          <6>1. y = b[i] /\ i \in DOMAIN b
            BY <1>3, <3>2, <4>2, <5>2
          <6> QED  BY <4>2, <6>1
        <5>3. i \in 1 .. Len(b) + 1
          BY <1>3, <3>2, <4>2
        <5> QED  BY <1>3, <5>1, <5>2, <5>3
      <4>3. CASE g # local /\ g # n
        BY <3>2, <4>3
      <4> QED  BY <4>1, <4>2, <4>3
    <3> QED  BY <3>3, BoxedAt
  <2> QED  BY <2>1, <2>2, <2>3
<1>6. Named' = Named \cup {x}
  BY <1>4, <1>5 DEF Named
<1>7. \A g \in Live : srv'[g].id = srv[g].id /\ srv'[g].call = srv[g].call
                      /\ srv'[g].type = srv[g].type
  OBVIOUS
<1>8. \A g \in Live \ {n} : srv'[g].state = srv[g].state
  OBVIOUS
<1>m. made \in Nat /\ \A g \in Live : srv[g].id \in Int /\ srv[g].id <= made
  BY SockFields, ApiAssumption DEF Typed, InStep, Places
<1>9. Places'
  <2>1. \A f \in Live' : srv'[f].id <= made'
    BY <1>1, <1>7, <1>m
  <2>2. ASSUME NEW f \in Live', NEW g \in Live', srv'[f].id = srv'[g].id PROVE f = g
    <3>1. CASE f # n /\ g # n
      BY <1>7, <2>2, <3>1 DEF InStep, Places
    <3>2. CASE f = n \/ g = n
      BY <1>7, <2>2, <3>2
    <3> QED  BY <3>1, <3>2
  <2>3. ASSUME NEW e \in Named'
        PROVE  e.fd \in Fd /\ e.id \in 1 .. made' /\ \A f \in Live' : srv'[f].id = e.id => f = e.fd
    <3>1. CASE e \in Named
      <4>1. e.fd \in Fd /\ e.id \in 1 .. made /\ \A f \in Live : srv[f].id = e.id => f = e.fd
        BY <3>1 DEF InStep, Places
      <4>2. srv'[n].id # e.id
        BY <3>1
      <4>3. e.id \in 1 .. made'
        BY <1>m, <4>1
      <4> QED  BY <1>7, <4>1, <4>2, <4>3
    <3>2. CASE e = x
      <4>1. \A f \in Live' \ {n} : srv'[f].id # x.id
        BY <1>7
      <4> QED  BY <1>1, <3>2, <4>1
    <3> QED  BY <1>6, <3>1, <3>2
  <2> QED  BY <2>1, <2>2, <2>3 DEF Places
<1>10. Half' = Half \ {n}
  BY <1>8 DEF Half
<1>11. Silent'
  <2> SUFFICES ASSUME NEW f \in Half', NEW e \in Named' PROVE e.id # srv'[f].id
    BY DEF Silent
  <2>1. f \in Half /\ f \in Live \ {n} /\ srv'[f].id = srv[f].id
    BY <1>7, <1>10 DEF Half
  <2> QED  BY <1>6, <2>1 DEF InStep, Silent
<1>12. ASSUME AllNamed PROVE AllNamed'
  <2> SUFFICES ASSUME NEW f \in Live' \ Half' PROVE \E e \in Named' : e.id = srv'[f].id
    BY DEF AllNamed
  <2>1. CASE f = n
    BY <1>6, <2>1
  <2>2. CASE f # n
    <3>1. f \in Live \ Half /\ srv'[f].id = srv[f].id
      BY <1>7, <1>10, <2>2
    <3> QED  BY <1>6, <1>12, <3>1 DEF AllNamed
  <2> QED  BY <2>1, <2>2
<1>13. Unasked => Unasked'
  BY <1>7 DEF Unasked
<1>14. ASSUME Waits PROVE Waits'
  <2>1. PICK w \in Live :
            /\ srv[w].call = pc.call
            /\ srv[w].type = "DGRAM" \/ srv[w].state = "PENDING_CONNECT"
            /\ \A g \in Live \ {w} : srv[g].call = 0
    BY <1>14 DEF Waits
  <2>2. w \in Live' /\ \A g \in Live' \ {w} : srv'[g].call = 0
    BY <1>7, <2>1
  <2>3. srv'[w].type = "DGRAM" \/ srv'[w].state = "PENDING_CONNECT"
    BY <1>7, <1>8, <2>1
  <2> QED  BY <1>7, <1>14, <2>1, <2>2, <2>3 DEF Waits
<1>15. Phase'
  BY <1>13, <1>14 DEF InStep, Phase, Waiting, Quiet, Sent, Answered
<1>16. Once'
  <2> SUFFICES ASSUME NEW f \in Live', NEW i \in DOMAIN srv'[f].box
               PROVE  /\ \A e \in Had' : e.id # srv'[f].box[i].id
                      /\ \A g \in Live' : \A j \in DOMAIN srv'[g].box :
                             srv'[g].box[j].id = srv'[f].box[i].id => f = g /\ i = j
    BY DEF Once
  <2>1. ASSUME NEW g \in Live', NEW j \in DOMAIN srv'[g].box
        PROVE  \/ g = local /\ j = Len(b) + 1 /\ srv'[g].box[j] = x
               \/ /\ g \in Live /\ j \in DOMAIN srv[g].box /\ srv'[g].box[j] = srv[g].box[j]
                  /\ srv'[g].box[j].id # x.id
    <3>1. CASE g = n
      BY <2>1, <3>1
    <3>2. ASSUME g \in Live, j \in DOMAIN srv[g].box, srv'[g].box[j] = srv[g].box[j]
          PROVE  srv'[g].box[j].id # x.id
      <4>1. srv[g].box[j] \in Named
        BY <3>2 DEF Named, Boxed
      <4> QED  BY <3>2, <4>1
    <3>3. CASE g = local
      <4>1. CASE j = Len(b) + 1
        BY <1>3, <3>3, <4>1
      <4>2. CASE j \in 1 .. Len(b)
        <5>1. g \in Live /\ j \in DOMAIN srv[g].box /\ srv'[g].box[j] = srv[g].box[j]
          <6>1. srv'[local].box[j] = b[j] /\ j \in DOMAIN b
            BY <1>3, <4>2
          <6> QED  BY <3>3, <6>1
        <5> QED  BY <3>2, <5>1
      <4>3. j \in 1 .. Len(b) + 1
        BY <1>3, <2>1, <3>3
      <4> QED  BY <1>3, <4>1, <4>2, <4>3
    <3>4. CASE g # local /\ g # n
      <4>1. g \in Live /\ j \in DOMAIN srv[g].box /\ srv'[g].box[j] = srv[g].box[j]
        BY <2>1, <3>4
      <4> QED  BY <3>2, <4>1
    <3> QED  BY <3>1, <3>3, <3>4
  <2>2. \A e \in Had' : e.id # srv'[f].box[i].id
    <3>1. CASE srv'[f].box[i] = x
      BY <1>4, <3>1 DEF Named
    <3>2. CASE srv'[f].box[i] # x
      BY <1>4, <2>1, <3>2 DEF InStep, Once
    <3> QED  BY <3>1, <3>2
  <2>3. ASSUME NEW g \in Live', NEW j \in DOMAIN srv'[g].box,
               srv'[g].box[j].id = srv'[f].box[i].id
        PROVE  f = g /\ i = j
    <3>1. CASE srv'[f].box[i] = x
      BY <2>1, <2>3, <3>1
    <3>2. CASE srv'[f].box[i] # x
      <4>1. /\ f \in Live /\ i \in DOMAIN srv[f].box /\ srv'[f].box[i] = srv[f].box[i]
            /\ srv'[f].box[i].id # x.id
        BY <2>1, <3>2
      <4>2. g \in Live /\ j \in DOMAIN srv[g].box /\ srv'[g].box[j] = srv[g].box[j]
        BY <2>1, <2>3, <4>1
      <4>3. srv[g].box[j].id = srv[f].box[i].id
        BY <2>3, <4>1, <4>2
      <4> QED  BY <4>1, <4>2, <4>3 DEF InStep, Once
    <3> QED  BY <3>1, <3>2
  <2> QED  BY <2>2, <2>3
<1>17. Calling'
  <2>1. ASSUME Closed', ans'[1].v >= 0, NEW f \in Live' PROVE srv'[f].id # pc'.sock.id
    <3>1. Closed /\ ans[1].v >= 0 /\ pc.sock \in socks
      BY <1>4, <2>1 DEF InStep, Calling, Closed
    <3>2. CASE f \in Live
      BY <1>7, <3>1, <3>2 DEF InStep, Calling
    <3>3. CASE f = n
      <4>1. pc.sock \in Named
        BY <3>1 DEF Named, Had
      <4> QED  BY <3>3, <4>1
    <3> QED  BY <3>2, <3>3
  <2> QED  BY <2>1 DEF InStep, Calling
<1>18. ASSUME Alive PROVE Alive'
  <2>1. x.fd \in Live' /\ srv'[x.fd].id = x.id
    OBVIOUS
  <2>2. \A e \in Named : e.fd \in Live /\ srv[e.fd].id = e.id => e.fd \in Live' /\ srv'[e.fd].id = e.id
    BY <1>7
  <2>3. \A e \in Named' : (e.fd \in Live' /\ srv'[e.fd].id = e.id) \/ (Closed' /\ e = pc'.sock)
    BY <1>4, <1>6, <1>18, <2>1, <2>2 DEF Alive
  <2> QED  BY <1>4, <1>18, <2>3 DEF Alive
<1> QED  BY <1>9, <1>11, <1>12, <1>15, <1>16, <1>17, <1>18 DEF InStep

\* A connection for the listening socket: the socket that an XID has made, or a
\* new one
LEMMA GoodSabms ==
    ASSUME Typed, Good, HandleSabmFirst \/ \E f \in Fd : HandleSabm(f)
    PROVE  Good'
<1>1. UNCHANGED <<req, ans, pc, socks, local, odd, wrong>>
  BY SabmSock, SabmFirstSock DEF Event
<1>2. AnswersMatch' /\ OwnSocket' /\ (Loose => Loose')
  BY <1>1, NothingWrong DEF Good
<1>3. ASSUME InStep, HandleSabmFirst PROVE InStep'
  <2> DEFINE n == Next1
             x == [fd |-> n, id |-> made + 1]
  <2>1. PICK t \in Sock : /\ t.id = made + 1 /\ t.box = <<>> /\ t.call = 0
                          /\ t.state = "ESTABLISHED"
                          /\ Notifies(n, t, x)
    BY <1>3, SabmFirstSock
  <2>2. /\ made' = made + 1 /\ made \in Nat /\ local # 0 /\ n \in Fd /\ n # local /\ n \notin Live
        /\ x \in [fd : Fd, id : 1 .. MaxSocks] /\ x.fd = n /\ x.id = made + 1
    BY <1>3, SabmFirstSock
  <2> HIDE DEF n, x
  <2>3. NotifiedOf(n, t, x)
    BY <1>1, <2>1, <2>2, SrvNotified
  <2>4. \A e \in Named : e.id # x.id
    BY <1>3, <2>2 DEF InStep, Places
  <2>5. \A g \in Live \ {n} : srv[g].id # x.id
    <3>1. \A g \in Live : srv[g].id \in Int /\ srv[g].id <= made
      BY <1>3, SockFields, ApiAssumption DEF InStep, Places
    <3> QED  BY <2>2, <3>1
  <2>6. local \in Live /\ \A g \in Live : g \in Fd
    BY <2>2, LocalLive DEF Live
  <2>7. made' \in Nat /\ made <= made' /\ x.id <= made'
    BY <2>2
  <2>8. Writes(n, x)
    BY <1>1, <2>1, <2>2, <2>3, <2>4, <2>5, <2>6, <2>7 DEF Writes, NotifiedOf
  <2> QED  BY <1>3, <2>2, <2>8, NameWritten
<1>4. ASSUME InStep, NEW n \in Fd, HandleSabm(n) PROVE InStep'
  <2> DEFINE x == [fd |-> n, id |-> srv[n].id]
  <2>1. PICK t \in Sock : /\ t.id = srv[n].id /\ t.box = <<>> /\ t.call = srv[n].call
                          /\ t.type = srv[n].type /\ t.state = "ESTABLISHED"
                          /\ Notifies(n, t, x)
    BY <1>4, SabmSock
  <2>2. /\ made' = made /\ local # 0 /\ n # local /\ n \in Live
        /\ srv[n].state = "PENDING_ACCEPT" /\ srv[n].box = <<>>
        /\ x \in [fd : Fd, id : 1 .. MaxSocks] /\ x.fd = n /\ x.id = srv[n].id
    BY <1>4, SabmSock
  <2> HIDE DEF x
  <2>3. NotifiedOf(n, t, x)
    BY <1>1, <2>1, <2>2, SrvNotified
  <2>4. \A e \in Named : e.id # x.id
    <3>1. n \in Half
      BY <2>2 DEF Half
    <3> QED  BY <1>4, <2>2, <3>1 DEF InStep, Silent
  <2>5. \A g \in Live \ {n} : srv[g].id # x.id
    BY <1>4, <2>2 DEF InStep, Places
  <2>6. local \in Live /\ \A g \in Live : g \in Fd
    BY <2>2, LocalLive DEF Live
  <2>7. made' \in Nat /\ made <= made' /\ x.id <= made'
    BY <1>4, <2>2 DEF Typed, InStep, Places
  <2>8. Writes(n, x)
    BY <1>1, <2>1, <2>2, <2>3, <2>4, <2>5, <2>6, <2>7 DEF Writes, NotifiedOf
  <2> QED  BY <1>4, <2>2, <2>8, NameWritten
<1> QED  BY <1>2, <1>3, <1>4 DEF Good

LEMMA GoodDestroy ==
    ASSUME Typed, Good, Destroy
    PROVE  Good'
<1>1. /\ req' = <<>> /\ ans' = <<>> /\ socks' = {} /\ pc'.step = "gone"
      /\ UNCHANGED <<made, odd, wrong>> /\ srv' = [g \in Fd |-> NoSock]
  BY DEF Destroy, Idle
<1>2. AnswersMatch' /\ OwnSocket' /\ (Loose => Loose')
  BY <1>1, NothingWrong DEF Good
<1>3. Live' = {}
  BY <1>1 DEF Live
<1>4. Phase' /\ ~Closed' /\ Had' = {} /\ pc'.step # "answer" /\ pc'.step # "undo"
  BY <1>1, <1>3, QuietNext DEF Unasked
<1>5. Named' = {}
  BY <1>3, <1>4 DEF Named, Boxed
<1>6. InStep'
  <2>1. Half' = {}
    BY <1>3 DEF Half
  <2> QED  BY <1>3, <1>4, <1>5, <2>1 DEF InStep, Places, Calling, Once, Silent, AllNamed, Alive
<1> QED  BY <1>2, <1>6 DEF Good

---------------------------------------------------------------------------
(***************************************************************************)
(* The theorems.                                                            *)
(***************************************************************************)
\* No socket is made beyond the bound.
LEMMA MadeNext ==
    ASSUME Typed, made <= MaxSocks, [Next]_vars
    PROVE  made' <= MaxSocks
<1>1. made \in Nat /\ MaxSocks \in Nat
  BY ApiAssumption DEF Typed
<1>2. CASE ServerSocket
  BY <1>1, <1>2 DEF ServerSocket
<1>3. CASE HandleXid \/ HandleSabmFirst
  <2>1. Room /\ made' = made + 1
    BY <1>3 DEF HandleXid, HandleSabmFirst
  <2> QED  BY <1>1, <2>1, RoomFree
<1>4. CASE made' = made
  BY <1>4
<1>5. ServerSocket \/ HandleXid \/ HandleSabmFirst \/ made' = made
  <2>1. ASSUME ClientCall PROVE made' = made
    BY <2>1 DEF ClientCall, Ping, Socket, OnSock, SetSockOpt, Call
  <2>2. ASSUME ClientReturn PROVE made' = made
    BY <2>2 DEF ClientReturn, ReturnPlain, ReturnClose, ReturnSocket, ReturnAccept,
                ReadMessage, Read
  <2>3. ASSUME Server PROVE ServerSocket \/ made' = made
    BY <2>3 DEF Server, ServerPing, ServerSetSockOpt, ServerData, ServerBind, ServerListen,
                ServerAccept, ServerConnect, ServerClose
  <2>4. ASSUME Peer PROVE HandleXid \/ HandleSabmFirst \/ made' = made
    BY <2>4 DEF Peer, HandleUa, HandleRefusal, ConnectTimeout, HandleRr, HandleXidAnswer,
                HandleSabm, AcceptTimeout, LinkEnds
  <2>5. Destroy \/ UNCHANGED vars => made' = made
    BY DEF Destroy, vars
  <2> QED  BY <2>1, <2>2, <2>3, <2>4, <2>5 DEF Next
<1> QED  BY <1>2, <1>3, <1>4, <1>5

LEMMA GoodInit == ASSUME Init PROVE Good /\ made <= MaxSocks
<1>1. /\ srv = [g \in Fd |-> NoSock] /\ req = <<>> /\ ans = <<>> /\ socks = {}
      /\ pc.step = "idle" /\ made = 0 /\ wrong = {}
  BY DEF Init, Idle
<1>2. Live = {}
  BY <1>1 DEF Live
<1>3. Phase /\ Named = {} /\ ~Closed
  BY <1>1, <1>2 DEF Phase, Waiting, Quiet, Unasked, Named, Had, Socketed, Boxed, Closed
<1>4. InStep
  <2>1. Half = {}
    BY <1>2 DEF Half
  <2> QED  BY <1>1, <1>2, <1>3, <2>1 DEF InStep, Places, Calling, Once, Silent, AllNamed, Alive,
                                         Named, Had
<1> QED  BY <1>1, <1>4, ApiAssumption DEF Good, AnswersMatch, OwnSocket

LEMMA GoodStutter == ASSUME Good, UNCHANGED vars PROVE Good'
<1>1. /\ UNCHANGED <<srv, req, ans, pc, socks, made, odd, wrong>>
  BY DEF vars
<1>2. Live' = Live /\ (Waiting' <=> Waiting) /\ (Closed' <=> Closed) /\ (Socketed' <=> Socketed)
  BY <1>1 DEF Live, Waiting, Closed, Socketed
<1>3. Had' = Had /\ Boxed' = Boxed /\ Named' = Named /\ Half' = Half
  BY <1>1, <1>2 DEF Had, Boxed, Named, Half
<1>4. Phase => Phase'
  BY <1>1, <1>2 DEF Phase, Quiet, Unasked, Sent, Answered, Waits
<1>5. InStep => InStep'
  BY <1>1, <1>2, <1>3, <1>4 DEF InStep, Places, Calling, Once, Silent, AllNamed, Alive
<1> QED  BY <1>1, <1>5 DEF Good, Loose, AnswersMatch, OwnSocket

LEMMA GoodNext ==
    ASSUME Typed, Good, [Next]_vars
    PROVE  Good'
<1>1. CASE ClientReturn
  BY <1>1, GoodReturnRest, GoodReturnClose, GoodReturnSocket, GoodReadMessage DEF ClientReturn
<1>2. CASE Server
  BY <1>2, GoodServerAnswers, GoodServerPing, GoodServerData, GoodServerListen,
     GoodServerConnect, GoodServerSocket, GoodServerClose DEF Server
<1>3. CASE Peer
  <2>1. ASSUME NEW f \in Fd, Decides(f) PROVE Good'
    BY <2>1, GoodDecides
  <2>2. ASSUME NEW f \in Fd, HandleRr(f) \/ HandleXidAnswer(f) PROVE Good'
    BY <2>2, GoodT1
  <2>3. ASSUME NEW f \in Fd, LinkEnds(f) \/ AcceptTimeout(f) PROVE Good'
    BY <2>3, GoodEnds
  <2>4. ASSUME NEW f \in Fd, HandleSabm(f) PROVE Good'
    BY <2>4, GoodSabms
  <2> QED  BY <1>3, <2>1, <2>2, <2>3, <2>4, GoodHandleXid, GoodSabms DEF Peer, Decides
<1> QED  BY <1>1, <1>2, <1>3, GoodClientCall, GoodDestroy, GoodStutter DEF Next

\* The invariant
THEOREM AlwaysAInv == Spec => [](AInv /\ made <= MaxSocks)
<1>1. Init => AInv /\ made <= MaxSocks
  BY TypedInit, GoodInit DEF AInv
<1>2. AInv /\ made <= MaxSocks /\ [Next]_vars => (AInv /\ made <= MaxSocks)'
  BY TypedNext, GoodNext, MadeNext DEF AInv
<1> QED  BY <1>1, <1>2, PTL DEF Spec

\* After every close(), every end of a link and every destroy, the entry of
\* socks_local is that of a socket that is there and listens, whatever the
\* program calls and however its answers come.
THEOREM ApiTypeCorrect == Spec => []TypeOK
<1>1. AInv /\ made <= MaxSocks => TypeOK
  <2> SUFFICES ASSUME Typed, Good, made <= MaxSocks PROVE TypeOK
    BY DEF AInv
  <2>1. made \in Nat /\ MaxSocks \in Nat
    BY ApiAssumption DEF Typed
  <2>2. ASSUME InStep PROVE socks \subseteq [fd : Fd, id : 1 .. MaxSocks]
    <3> SUFFICES ASSUME NEW e \in socks PROVE e \in [fd : Fd, id : 1 .. MaxSocks]
      OBVIOUS
    <3>1. e \in Named
      BY DEF Named, Had
    <3>2. e = [fd |-> e.fd, id |-> e.id] /\ e.fd \in Fd /\ e.id \in 1 .. made
      BY <2>2, <3>1, NamedTyped DEF InStep, Places
    <3>3. e.id \in 1 .. MaxSocks
      BY <2>1, <3>2
    <3> QED  BY <3>2, <3>3
  <2>3. socks \subseteq [fd : Fd, id : 1 .. MaxSocks] \/ odd # {}
    BY <2>2 DEF Good, Loose
  <2>4. pc.step \in {"idle", "answer", "message", "undo", "gone"}
    BY DEF Typed
  <2> QED  BY <2>3, <2>4 DEF TypeOK, Typed
<1> QED  BY <1>1, AlwaysAInv, PTL

\* client.c reads as many bytes as it expects and takes them for the answer to
\* its call: with any number of calls, sockets and frames this goes wrong only
\* after a connect() that was answered twice, a refused option, or listen()
\* without an address.
THEOREM AlwaysAnswersMatch == Spec => []AnswersMatch
<1>1. AInv => AnswersMatch
  BY DEF AInv, Good
<1> QED  BY <1>1, AlwaysAInv, PTL

\* handle_client() looks for the socket by a number that is used again: it finds
\* the one that the program means, unless a link has ended or the streams are
\* out of step.
THEOREM AlwaysOwnSocket == Spec => []OwnSocket
<1>1. AInv => OwnSocket
  BY DEF AInv, Good
<1> QED  BY <1>1, AlwaysAInv, PTL

\* A socket that waits for its SABM after an XID is known to nobody, and every
\* other socket of the server is in client->socks, in an answer or in a pty:
\* close(), socket(), accept(), an XID and a SABM keep it so in any order, unless
\* a listening socket is closed with connections in its pty or a call took
\* another socket for its own.
THEOREM AlwaysKnown == Spec => []Known
<1>1. AInv => Known
  <2> SUFFICES ASSUME Typed, Good, odd \cap {"again", "option", "unread"} = {}, "other" \notin wrong
               PROVE  \A f \in Live : srv[f].id \in Announced <=> ~Pending(f)
    BY DEF AInv, Known
  <2>1. InStep /\ AllNamed
    BY DEF Good, Loose, InStep
  <2>2. ASSUME Socketed
        PROVE  /\ Len(ans) = 3 /\ ans \in Seq(Answers)
               /\ \A i \in 1 .. 3 : ans[i].id # 0 => i = 3
    BY <2>1, <2>2, AnsweredWords DEF InStep, Socketed, Size, Answered, Typed
  <2>3. ASSUME NEW e \in Named PROVE e.id \in Announced
    <3>1. CASE e \in socks
      BY <3>1 DEF Announced
    <3>2. CASE Socketed /\ e = [fd |-> ans[1].v, id |-> ans[3].id]
      <4>1. ans[3] \in Range(ans)
        BY <2>2, <3>2 DEF Range
      <4> QED  BY <3>2, <4>1 DEF Announced
    <3>3. CASE e \in Boxed
      <4>1. PICK h \in Live : \E i \in DOMAIN srv[h].box : e = srv[h].box[i]
        BY <3>3, BoxedAt
      <4>2. e \in Range(srv[h].box)
        BY <4>1 DEF Range
      <4>3. e.id \in InPty(h)
        BY <4>2 DEF InPty
      <4> QED  BY <4>3 DEF Announced
    <3> QED  BY <3>1, <3>2, <3>3 DEF Named, Had
  <2>4. ASSUME NEW g \in Live, srv[g].id \in Announced PROVE \E e \in Named : e.id = srv[g].id
    <3>1. ASSUME NEW e \in socks, e.id = srv[g].id PROVE \E d \in Named : d.id = srv[g].id
      BY <3>1 DEF Named, Had
    <3>2. ASSUME NEW h \in Live, srv[g].id \in InPty(h) PROVE \E d \in Named : d.id = srv[g].id
      <4>1. PICK m \in Range(srv[h].box) : m.id = srv[g].id
        BY <3>2 DEF InPty
      <4>2. m \in Boxed
        BY <4>1 DEF Range, Boxed
      <4> QED  BY <4>1, <4>2 DEF Named
    <3>3. ASSUME NEW w \in Range(ans), w.id = srv[g].id PROVE \E d \in Named : d.id = srv[g].id
      <4>1. PICK i \in DOMAIN ans : w = ans[i]
        BY <3>3 DEF Range
      <4>2. ans # <<>> /\ DOMAIN ans = 1 .. Len(ans)
        BY <4>1 DEF Typed
      <4>3. Answered /\ Waiting
        BY <2>1, <4>2, AnsweredWords DEF InStep
      <4>4. srv[g].id # 0
        BY SockFields
      <4>5. pc.op = "socket" /\ i = 3
        BY <3>3, <4>1, <4>2, <4>3, <4>4 DEF Answered
      <4>6. Socketed
        BY <4>2, <4>3, <4>5 DEF Socketed
      <4> DEFINE d == [fd |-> ans[1].v, id |-> ans[3].id]
      <4>7. d \in Named
        BY <4>6 DEF Named, Had
      <4>8. d.id = srv[g].id
        BY <3>3, <4>1, <4>5
      <4> QED  BY <4>7, <4>8
    <3> QED  BY <2>4, <3>1, <3>2, <3>3 DEF Announced
  <2> SUFFICES ASSUME NEW g \in Live PROVE srv[g].id \in Announced <=> g \notin Half
    BY DEF Pending, Half, Live
  <2>5. ASSUME g \notin Half PROVE srv[g].id \in Announced
    <3>1. PICK e \in Named : e.id = srv[g].id
      BY <2>1, <2>5 DEF AllNamed
    <3> QED  BY <2>3, <3>1
  <2>6. ASSUME g \in Half, srv[g].id \in Announced PROVE FALSE
    BY <2>1, <2>4, <2>6 DEF InStep, Silent
  <2> QED  BY <2>5, <2>6
<1> QED  BY <1>1, AlwaysAInv, PTL

\* client->socks and the tables of the server agree between two calls: a socket
\* that the program has is there, unless its link has ended or the streams are
\* out of step.
THEOREM AlwaysHolds == Spec => []Holds
<1>1. AInv => Holds
  <2> SUFFICES ASSUME Good, pc.step = "idle", odd \cap {"ended", "again", "option"} = {},
                      NEW e \in socks
               PROVE  e.id \in Ids
    BY DEF AInv, Holds
  <2>1. Alive /\ ~Closed /\ e \in Named
    BY DEF Good, Loose, InStep, Closed, Named, Had
  <2>2. e.fd \in Live /\ srv[e.fd].id = e.id
    BY <2>1 DEF Alive
  <2> QED  BY <2>2 DEF Ids
<1> QED  BY <1>1, AlwaysAInv, PTL
=============================================================================
