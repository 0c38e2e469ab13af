---------------------------- MODULE IfaceProofs ----------------------------
(***************************************************************************)
(* An interface and the raw sockets, for every set of descriptors, frames  *)
(* and interfaces: an interface writes only to the ptys that were bound to *)
(* it, no decoder leaves its buffer, an answer returns to the sender, and  *)
(* what was sent on the line of a KISS device or an APRS-IS server, or     *)
(* written to a raw socket, is what is decoded, wherever the reads divide  *)
(* it.                                                                     *)
(***************************************************************************)
EXTENDS Iface, SequenceTheorems, WellFoundedInduction, TLAPS

---------------------------------------------------------------------------
(***************************************************************************)
(* Promiscuous lists.                                                       *)
(***************************************************************************)
Fields == {"type", "iface", "promisc", "raw", "in", "got"}

\* The tables are tables, of records.
Tables == /\ sock = [f \in Fd |-> sock[f]]
          /\ promisc = [i \in Interface |-> promisc[i]]
          /\ \A f \in Fd : sock[f] = [x \in Fields |-> sock[f][x]]

\* A descriptor on the list of an interface is that of a socket bound to it,
\* and what has been written to a socket came from its interface.
Bound == /\ device = "open"
         /\ \A i \in Interface : \A f \in promisc[i] :
               f \in Fd /\ sock[f].promisc = TRUE /\ sock[f].iface = i
         /\ \A f \in Fd : /\ sock[f].promisc \in BOOLEAN
                          /\ sock[f].got \subseteq {sock[f].iface} \cap Interface
                          /\ sock[f].type = "none" => sock[f].promisc = FALSE

SInv == Tables /\ (odd \cap Stray # {} \/ Bound)

LEMMA NotNone == "none" \notin Interface /\ "this" \in Interface
BY IfaceAssumption DEF Interface

LEMMA SInvInit == Init => SInv
<1> SUFFICES ASSUME Init PROVE Tables /\ Bound
  BY DEF SInv
<1>1. \A f \in Fd : sock[f] = Socket("none")
  BY DEF Init
<1>2. Tables
  BY <1>1 DEF Init, Tables, Socket, Fields
<1>3. Bound
  BY <1>1 DEF Init, Bound, Socket
<1> QED  BY <1>2, <1>3

LEMMA SockNone ==
    ASSUME NEW type
    PROVE  /\ Socket(type) = [x \in Fields |-> Socket(type)[x]]
           /\ Socket(type).iface = "none" /\ Socket(type).promisc = FALSE
           /\ Socket(type).type = type /\ Socket(type).got = {}
BY DEF Socket, Fields

\* Steps that leave the lists alone, and write to ptys only what their lists
\* say, keep it.
LEMMA BoundKept ==
    ASSUME Bound, device' = device, promisc' = promisc,
           \A f \in Fd : /\ sock'[f].promisc = sock[f].promisc
                         /\ sock'[f].iface = sock[f].iface
                         /\ sock'[f].type = sock[f].type
                         /\ sock'[f].got \subseteq
                               sock[f].got \cup {i \in Interface : f \in promisc[i]}
    PROVE  Bound'
<1>1. \A i \in Interface : \A f \in promisc'[i] :
          f \in Fd /\ sock'[f].promisc = TRUE /\ sock'[f].iface = i
  BY DEF Bound
<1>2. ASSUME NEW f \in Fd
      PROVE  /\ sock'[f].promisc \in BOOLEAN
             /\ sock'[f].got \subseteq {sock'[f].iface} \cap Interface
             /\ sock'[f].type = "none" => sock'[f].promisc = FALSE
  BY <1>2 DEF Bound
<1>3. device' = "open"
  BY DEF Bound
<1> HIDE DEF Interface
<1> QED  BY <1>1, <1>2, <1>3 DEF Bound, Interface

\* What handle_promisc_frame() leaves of the sockets.
LEMMA CopiedTable ==
    ASSUME NEW ss, NEW i \in Interface,
           ss = [f \in Fd |-> ss[f]],
           \A f \in Fd : ss[f] = [x \in Fields |-> ss[f][x]]
    PROVE  /\ Copied(ss, i) = [f \in Fd |-> Copied(ss, i)[f]]
           /\ \A f \in Fd :
                 /\ Copied(ss, i)[f] = [x \in Fields |-> Copied(ss, i)[f][x]]
                 /\ \A x \in Fields \ {"got"} : Copied(ss, i)[f][x] = ss[f][x]
                 /\ Copied(ss, i)[f].got \subseteq ss[f].got \cup {j \in {i} : f \in promisc[j]}
<1> DEFINE c == Copied(ss, i)
<1>1. c = [f \in Fd |-> IF f \in promisc[i] THEN [ss[f] EXCEPT !.got = @ \cup {i}] ELSE ss[f]]
  BY DEF Copied
<1> HIDE DEF c
<1>2. c = [f \in Fd |-> c[f]]
  BY <1>1
<1>3. ASSUME NEW f \in Fd
      PROVE  /\ c[f] = [x \in Fields |-> c[f][x]]
             /\ \A x \in Fields \ {"got"} : c[f][x] = ss[f][x]
             /\ c[f].got \subseteq ss[f].got \cup {j \in {i} : f \in promisc[j]}
  <2> DEFINE r == ss[f]
  <2>1. r = [x \in Fields |-> r[x]]
    BY <1>3
  <2>2. c[f] = IF f \in promisc[i] THEN [r EXCEPT !.got = @ \cup {i}] ELSE r
    BY <1>1, <1>3
  <2> HIDE DEF r
  <2>3. CASE f \in promisc[i]
    <3>1. c[f] = [r EXCEPT !.got = @ \cup {i}]
      BY <2>2, <2>3
    <3>2. c[f] = [x \in Fields |-> IF x = "got" THEN r.got \cup {i} ELSE r[x]]
      BY <2>1, <3>1 DEF Fields
    <3> QED  BY <3>2, <2>3 DEF r, Fields
  <2>4. CASE f \notin promisc[i]
    BY <2>1, <2>2, <2>4 DEF r
  <2> QED  BY <2>3, <2>4
<1> QED  BY <1>2, <1>3 DEF c

\* While the device is open the driver writes to the line.
LEMMA WrittenSame ==
    ASSUME Bound, NEW ss PROVE Written(ss) = ss
BY IfaceAssumption DEF Bound, Written

\* Octets that the client has written, or the server read, and the decoder
\* change nothing of this.
InputOnly(ss) ==
    /\ ss = [f \in Fd |-> ss[f]]
    /\ \A f \in Fd : /\ ss[f] = [x \in Fields |-> ss[f][x]]
                     /\ \A x \in Fields \ {"raw", "in"} : ss[f][x] = sock[f][x]

LEMMA SameInput ==
    ASSUME Tables PROVE InputOnly(sock)
BY DEF Tables, InputOnly

LEMMA SetInput ==
    ASSUME Tables, NEW g \in Fd, NEW d, NEW in
    PROVE  /\ InputOnly([sock EXCEPT ![g].in = in])
           /\ InputOnly([sock EXCEPT ![g].raw = d, ![g].in = in])
<1> DEFINE a == [sock EXCEPT ![g].in = in]
           b == [sock EXCEPT ![g].raw = d, ![g].in = in]
           r == sock[g]
<1>1. r = [x \in Fields |-> r[x]]
  BY DEF Tables
<1>2. /\ a = [f \in Fd |-> IF f = g THEN [r EXCEPT !.in = in] ELSE sock[f]]
      /\ b = [f \in Fd |-> IF f = g THEN [r EXCEPT !.raw = d, !.in = in] ELSE sock[f]]
  BY DEF Tables
<1> HIDE DEF a, b, r
<1>3. /\ [r EXCEPT !.in = in] = [x \in Fields |-> IF x = "in" THEN in ELSE r[x]]
      /\ [r EXCEPT !.raw = d, !.in = in] =
            [x \in Fields |-> IF x = "in" THEN in ELSE IF x = "raw" THEN d ELSE r[x]]
  BY <1>1 DEF Fields
<1>4. InputOnly(a)
  BY <1>2, <1>3 DEF InputOnly, Tables, Fields, r
<1>5. InputOnly(b)
  BY <1>2, <1>3 DEF InputOnly, Tables, Fields, r
<1> QED  BY <1>4, <1>5 DEF a, b

LEMMA InputKept ==
    ASSUME SInv, InputOnly(sock'), promisc' = promisc, device' = device, odd \subseteq odd'
    PROVE  SInv'
<1>1. Tables'
  BY DEF SInv, Tables, InputOnly
<1>2. ASSUME Bound PROVE Bound'
  <2>1. \A f \in Fd : /\ sock'[f].promisc = sock[f].promisc
                      /\ sock'[f].iface = sock[f].iface
                      /\ sock'[f].type = sock[f].type
                      /\ sock'[f].got = sock[f].got
    BY DEF InputOnly, Fields
  <2> QED  BY <1>2, <2>1, BoundKept
<1> QED  BY <1>1, <1>2 DEF SInv

\* The same with a copy to each promiscuous socket of i.
LEMMA CopyKept ==
    ASSUME SInv, NEW ss, InputOnly(ss), NEW i \in Interface, sock' = Copied(ss, i),
           promisc' = promisc, device' = device, odd \subseteq odd'
    PROVE  SInv'
<1>0. /\ sock' = [f \in Fd |-> sock'[f]]
      /\ \A f \in Fd :
            /\ sock'[f] = [x \in Fields |-> sock'[f][x]]
            /\ \A x \in Fields \ {"got"} : sock'[f][x] = ss[f][x]
            /\ sock'[f].got \subseteq ss[f].got \cup {j \in {i} : f \in promisc[j]}
  BY CopiedTable DEF InputOnly
<1>1. Tables'
  BY <1>0 DEF SInv, Tables
<1>2. ASSUME Bound PROVE Bound'
  <2>1. \A f \in Fd : /\ sock'[f].promisc = sock[f].promisc
                      /\ sock'[f].iface = sock[f].iface
                      /\ sock'[f].type = sock[f].type
                      /\ ss[f].got = sock[f].got
    <3>1. /\ {"promisc", "iface", "type"} \subseteq Fields \ {"got"}
          /\ {"promisc", "iface", "type", "got"} \subseteq Fields \ {"raw", "in"}
      BY DEF Fields
    <3>2. \A f \in Fd : \A x \in {"promisc", "iface", "type"} : sock'[f][x] = sock[f][x]
      <4> SUFFICES ASSUME NEW f \in Fd, NEW x \in {"promisc", "iface", "type"}
                   PROVE  sock'[f][x] = sock[f][x]
        OBVIOUS
      <4>1. sock'[f][x] = ss[f][x]
        BY <1>0, <3>1
      <4>2. ss[f][x] = sock[f][x]
        BY <3>1 DEF InputOnly
      <4> QED  BY <4>1, <4>2
    <3>3. \A f \in Fd : ss[f].got = sock[f].got
      BY <3>1 DEF InputOnly
    <3> QED  BY <3>2, <3>3
  <2>2. \A f \in Fd : sock'[f].got \subseteq
                          sock[f].got \cup {j \in Interface : f \in promisc[j]}
    BY <1>0, <2>1
  <2> QED  BY <1>2, <2>1, <2>2, BoundKept
<1> QED  BY <1>1, <1>2 DEF SInv

---------------------------------------------------------------------------
(***************************************************************************)
(* The steps.                                                               *)
(***************************************************************************)
LEMMA SockKept ==
    ASSUME SInv, sock' = sock, promisc' = promisc, device' = device, odd \subseteq odd'
    PROVE  SInv'
BY SameInput, InputKept DEF SInv

LEMMA EndKept ==
    ASSUME SInv, End, odd \subseteq odd' PROVE SInv'
BY SockKept DEF End, ptys

LEMMA LineKept ==
    ASSUME SInv, Line PROVE SInv'
<1>1. ASSUME NEW f, NEW octets, NEW what, Put(f, octets, what) PROVE SInv'
  BY <1>1, SockKept DEF Put, Irregular, ptys
<1>2. ASSUME NEW c, PutComment(c) PROVE SInv'
  BY <1>2, SockKept DEF PutComment, ptys
<1> QED
  BY <1>1, <1>2 DEF Line, PutGarbage, PutFrame, PutShared, PutIdle, PutLine

LEMMA UsedInput ==
    ASSUME Tables, NEW n PROVE InputOnly(Used(sock, n))
<1>1. CASE device \in Fd
  BY <1>1, SetInput DEF Used
<1>2. CASE device \notin Fd
  BY <1>2, SameInput DEF Used
<1> QED  BY <1>1, <1>2

\* Once the device has hung up, its number may be that of a pty: the driver
\* writes to it, but the records stay records.
LEMMA WrittenTables ==
    ASSUME NEW ss, ss = [f \in Fd |-> ss[f]],
           \A f \in Fd : ss[f] = [x \in Fields |-> ss[f][x]]
    PROVE  /\ Written(ss) = [f \in Fd |-> Written(ss)[f]]
           /\ \A f \in Fd : Written(ss)[f] = [x \in Fields |-> Written(ss)[f][x]]
<1>1. CASE device \in Fd
  <2> DEFINE w == [ss EXCEPT ![device].got = @ \cup {"this"}]
             r == ss[device]
             u == [r EXCEPT !.got = @ \cup {"this"}]
  <2>1. w = [f \in Fd |-> IF f = device THEN u ELSE ss[f]]
    BY <1>1
  <2>2. r = [x \in Fields |-> r[x]]
    BY <1>1
  <2>3. u = [x \in Fields |-> u[x]]
    <3> HIDE DEF r
    <3> QED  BY <2>2
  <2> HIDE DEF w, u, r
  <2>4. w = [f \in Fd |-> w[f]] /\ \A f \in Fd : w[f] = [x \in Fields |-> w[f][x]]
    BY <2>1, <2>3
  <2>5. Written(ss) = w
    BY <1>1 DEF Written, w
  <2> QED  BY <2>4, <2>5
<1>2. CASE device \notin Fd
  BY <1>2 DEF Written
<1> QED  BY <1>1, <1>2

\* After a frame: to the driver, or not, and to the list.
LEMMA WriteAndCopyKept ==
    ASSUME SInv, NEW ss, InputOnly(ss), sock' = Copied(Written(ss), "this"),
           promisc' = promisc, device' = device, odd \subseteq odd'
    PROVE  SInv'
<1>1. CASE Bound
  BY <1>1, WrittenSame, CopyKept, NotNone
<1>2. CASE ~Bound
  <2>1. Tables'
    <3>1. /\ Written(ss) = [f \in Fd |-> Written(ss)[f]]
          /\ \A f \in Fd : Written(ss)[f] = [x \in Fields |-> Written(ss)[f][x]]
      BY WrittenTables DEF InputOnly
    <3> DEFINE w == Written(ss)
    <3>2. sock' = Copied(w, "this")
      OBVIOUS
    <3> HIDE DEF w
    <3>3. /\ sock' = [f \in Fd |-> sock'[f]]
          /\ \A f \in Fd : sock'[f] = [x \in Fields |-> sock'[f][x]]
      BY <3>1, <3>2, CopiedTable, NotNone DEF w
    <3> QED  BY <3>3 DEF SInv, Tables
  <2> QED  BY <1>2, <2>1 DEF SInv
<1> QED  BY <1>1, <1>2

LEMMA KissKept ==
    ASSUME SInv, NEW n, HandleIfaceKiss(n) PROVE SInv'
<1> DEFINE t       == Drain(decoder, SubSeq(Input, 1, n), rx, Mru)
           answers == SelectSeq(t.got, LAMBDA f : f \in Answered)
           fails   == t.got # <<>> /\ CopyFails("this")
           ss      == Used(sock, n)
<1>1. /\ odd \subseteq odd'
      /\ \/ End
         \/ /\ sock' = IF t.got = <<>> THEN ss
                       ELSE Copied(IF answers = <<>> THEN ss ELSE Written(ss), "this")
            /\ UNCHANGED <<device, promisc>>
  BY DEF HandleIfaceKiss, ptys
<1>2. InputOnly(ss)
  BY UsedInput DEF SInv
<1> HIDE DEF t, answers, ss
<1>3. CASE End
  BY <1>1, <1>3, EndKept
<1>4. CASE sock' = ss /\ UNCHANGED <<device, promisc>>
  BY <1>1, <1>2, <1>4, InputKept
<1>5. CASE sock' = Copied(ss, "this") /\ UNCHANGED <<device, promisc>>
  BY <1>1, <1>2, <1>5, CopyKept, NotNone
<1>6. CASE sock' = Copied(Written(ss), "this") /\ UNCHANGED <<device, promisc>>
  BY <1>1, <1>2, <1>6, WriteAndCopyKept
<1> QED  BY <1>1, <1>3, <1>4, <1>5, <1>6

LEMMA IfaceKept ==
    ASSUME SInv, HandleIface PROVE SInv'
<1>1. ASSUME NEW n, HandleIfaceAprs(n) PROVE SInv'
  BY <1>1, SockKept DEF HandleIfaceAprs, ptys
<1>2. CASE HandleIfaceError
  <2>1. odd \subseteq odd'
    BY <1>2 DEF HandleIfaceError, Irregular
  <2>2. CASE End
    BY <2>1, <2>2, EndKept
  <2>3. CASE UNCHANGED <<device, sock, promisc>>
    BY <2>1, <2>3, SockKept
  <2> QED  BY <1>2, <2>2, <2>3 DEF HandleIfaceError, ptys
<1>3. CASE HandleIfaceEof
  <2>1. "hangup" \in odd' /\ sock' = sock /\ promisc' = promisc
    BY <1>3 DEF HandleIfaceEof, Irregular, ptys
  <2>2. odd' \cap Stray # {}
    BY <2>1 DEF Stray
  <2> QED  BY <2>1, <2>2 DEF SInv, Tables
<1>4. CASE HandleIfaceWaits
  BY <1>4, EndKept DEF HandleIfaceWaits
<1> QED  BY <1>1, <1>2, <1>3, <1>4, KissKept DEF HandleIface

LEMMA SocketKept ==
    ASSUME SInv, NEW f \in Fd, NEW type, ServerSocket(f, type) PROVE SInv'
<1> DEFINE s == Socket(type)
<1>1. /\ sock' = [g \in Fd |-> IF g = f THEN s ELSE sock[g]]
      /\ promisc' = promisc /\ odd' = odd /\ sock[f].type = "none"
  BY DEF ServerSocket, SInv, Tables, Open
<1>2. /\ s = [x \in Fields |-> s[x]]
      /\ s.iface = "none" /\ s.promisc = FALSE /\ s.got = {}
  BY SockNone
<1> HIDE DEF s
<1>3. Tables'
  BY <1>1, <1>2 DEF SInv, Tables
<1>4. ASSUME Bound PROVE Bound'
  <2>1. device' = "open"
    BY <1>4 DEF ServerSocket, Bound
  <2>2. \A i \in Interface : \A g \in promisc'[i] :
           g \in Fd /\ sock'[g].promisc = TRUE /\ sock'[g].iface = i
    <3>1. \A i \in Interface : f \notin promisc[i]
      BY <1>1, <1>4 DEF Bound
    <3> QED  BY <1>1, <1>4, <3>1 DEF Bound
  <2>3. \A g \in Fd : /\ sock'[g].promisc \in BOOLEAN
                      /\ sock'[g].got \subseteq {sock'[g].iface} \cap Interface
                      /\ sock'[g].type = "none" => sock'[g].promisc = FALSE
    BY <1>1, <1>2, <1>4 DEF Bound
  <2> QED  BY <2>1, <2>2, <2>3 DEF Bound, Interface
<1> QED  BY <1>1, <1>3, <1>4 DEF SInv

LEMMA SetSockOptKept ==
    ASSUME SInv, NEW f \in Fd, NEW i \in Interface, NEW p \in BOOLEAN, SetSockOptIf(f, i, p)
    PROVE  SInv'
<1> DEFINE r == sock[f]
           s == [r EXCEPT !.iface = i, !.promisc = @ \/ p]
<1>1. /\ sock' = [g \in Fd |-> IF g = f THEN s ELSE sock[g]]
      /\ promisc' = [j \in Interface |->
                        IF j = i /\ s.promisc THEN promisc[i] \cup {f} ELSE promisc[j]]
      /\ odd' = odd \cup (IF r.iface \in {"none", i} THEN {} ELSE {"rebound"})
      /\ device' = device /\ r.type = "raw"
  BY DEF SetSockOptIf, Irregular, SInv, Tables
<1>2. r = [x \in Fields |-> r[x]]
  BY DEF SInv, Tables
<1> HIDE DEF r
<1>3. /\ s = [x \in Fields |-> s[x]] /\ s.iface = i /\ s.promisc = (r.promisc \/ p)
      /\ s.got = r.got /\ s.type = r.type
  BY <1>2 DEF Fields
<1> HIDE DEF s
<1>4. Tables'
  BY <1>1, <1>3 DEF SInv, Tables
<1>5. ASSUME Bound, odd' \cap Stray = {} PROVE Bound'
  <2>1. r.iface \in {"none", i}
    BY <1>1, <1>5 DEF Stray
  <2>2. /\ r.promisc \in BOOLEAN /\ r.got \subseteq {r.iface} \cap Interface
        /\ \A j \in Interface : f \in promisc[j] => j = r.iface /\ r.promisc = TRUE
    BY <1>5 DEF Bound, r
  <2>3. /\ s.got \subseteq {i} \cap Interface /\ s.promisc \in BOOLEAN
        /\ \A j \in Interface : f \in promisc[j] => j = i /\ s.promisc = TRUE
    BY <1>3, <2>1, <2>2, NotNone
  <2>4. \A j \in Interface : \A g \in promisc'[j] :
           g \in Fd /\ sock'[g].promisc = TRUE /\ sock'[g].iface = j
    <3> SUFFICES ASSUME NEW j \in Interface, NEW g \in promisc'[j]
                 PROVE  g \in Fd /\ sock'[g].promisc = TRUE /\ sock'[g].iface = j
      OBVIOUS
    <3>1. CASE g = f
      <4>1. f \in promisc[j] \/ (j = i /\ s.promisc)
        BY <1>1, <3>1
      <4>2. j = i /\ s.promisc = TRUE
        BY <4>1, <2>3
      <4> QED  BY <1>1, <1>3, <3>1, <4>2
    <3>2. CASE g # f
      <4>1. g \in promisc[j]
        BY <1>1, <3>2
      <4> QED  BY <1>1, <1>5, <3>2, <4>1 DEF Bound
    <3> QED  BY <3>1, <3>2
  <2>5. \A g \in Fd : /\ sock'[g].promisc \in BOOLEAN
                      /\ sock'[g].got \subseteq {sock'[g].iface} \cap Interface
                      /\ sock'[g].type = "none" => sock'[g].promisc = FALSE
    BY <1>1, <1>3, <1>5, <2>3 DEF Bound
  <2>6. device' = "open"
    BY <1>1, <1>5 DEF Bound
  <2> QED  BY <2>4, <2>5, <2>6 DEF Bound, Interface
<1> QED  BY <1>1, <1>4, <1>5 DEF SInv

\* server_listen(): a promiscuous socket that listens is an exception, and
\* nothing changes for another.
LEMMA ListenKept ==
    ASSUME SInv, NEW f \in Fd, ServerListen(f) PROVE SInv'
<1> DEFINE r == sock[f]
           s == [r EXCEPT !.promisc = FALSE]
<1>1. /\ sock' = [g \in Fd |-> IF g = f THEN s ELSE sock[g]]
      /\ promisc' = promisc /\ device' = device
      /\ odd' = odd \cup (IF r.promisc THEN {"listened"} ELSE {})
  BY DEF ServerListen, Irregular, SInv, Tables, ptys
<1>2. r = [x \in Fields |-> r[x]]
  BY DEF SInv, Tables
<1> HIDE DEF r
<1>3. /\ s = [x \in Fields |-> s[x]] /\ s.iface = r.iface /\ s.promisc = FALSE
      /\ s.got = r.got /\ s.type = r.type
  BY <1>2 DEF Fields
<1> HIDE DEF s
<1>4. Tables'
  BY <1>1, <1>3 DEF SInv, Tables
<1>5. ASSUME Bound, odd' \cap Stray = {} PROVE Bound'
  <2>1. r.promisc = FALSE
    BY <1>1, <1>5 DEF Bound, Stray, r
  <2>2. \A g \in Fd : /\ sock'[g].promisc = sock[g].promisc
                      /\ sock'[g].iface = sock[g].iface
                      /\ sock'[g].got = sock[g].got /\ sock'[g].type = sock[g].type
    BY <1>1, <1>3, <2>1 DEF r
  <2> QED  BY <1>1, <1>5, <2>2 DEF Bound, Interface
<1> QED  BY <1>1, <1>4, <1>5 DEF SInv

LEMMA CloseKept ==
    ASSUME SInv, NEW f \in Fd, SockClose(f) PROVE SInv'
<1> DEFINE s == Socket("none")
<1>1. /\ sock' = [g \in Fd |-> IF g = f THEN s ELSE sock[g]]
      /\ promisc' = PromiscDelete(f) /\ odd' = odd
      /\ device' = IF device = f THEN "closed" ELSE device
  BY DEF SockClose, SInv, Tables
<1>2. /\ s = [x \in Fields |-> s[x]]
      /\ s.iface = "none" /\ s.promisc = FALSE /\ s.got = {}
  BY SockNone
<1> HIDE DEF s
<1>3. promisc' = [i \in Interface |-> IF sock[f].promisc /\ i = sock[f].iface
                                      THEN promisc[i] \ {f} ELSE promisc[i]]
  BY <1>1 DEF PromiscDelete, SInv, Tables
<1>4. Tables'
  BY <1>1, <1>2, <1>3 DEF SInv, Tables
<1>5. ASSUME Bound PROVE Bound'
  <2>1. device' = "open"
    BY <1>1, <1>5, IfaceAssumption DEF Bound
  <2>2. \A i \in Interface : f \notin promisc'[i] /\ promisc'[i] \subseteq promisc[i]
    BY <1>3, <1>5 DEF Bound
  <2>3. \A i \in Interface : \A g \in promisc'[i] :
           g \in Fd /\ sock'[g].promisc = TRUE /\ sock'[g].iface = i
    BY <1>1, <1>5, <2>2 DEF Bound
  <2>4. \A g \in Fd : /\ sock'[g].promisc \in BOOLEAN
                      /\ sock'[g].got \subseteq {sock'[g].iface} \cap Interface
                      /\ sock'[g].type = "none" => sock'[g].promisc = FALSE
    BY <1>1, <1>2, <1>5 DEF Bound
  <2> QED  BY <2>1, <2>3, <2>4 DEF Bound, Interface
<1> QED  BY <1>1, <1>4, <1>5 DEF SInv

LEMMA WriteKept ==
    ASSUME SInv, NEW f \in Fd, NEW frame, NEW octets, NEW what, Write(f, frame, octets, what)
    PROVE  SInv'
<1>1. sock' = [sock EXCEPT ![f].in = sock[f].in \o octets]
  BY DEF Write
<1>2. InputOnly(sock')
  BY <1>1, SetInput DEF SInv
<1> QED  BY <1>2, InputKept DEF Write, Irregular

LEMMA RawKept ==
    ASSUME SInv, NEW f \in Fd, NEW n, HandleSockRaw(f, n) PROVE SInv'
<1> DEFINE t    == Drain(sock[f].raw, SubSeq(sock[f].in, 1, n), tx, Mtu)
           d    == Rest(t)
           in   == SubSeq(sock[f].in, n + 1, Len(sock[f].in))
           rest == [sock EXCEPT ![f].raw = d, ![f].in = in]
<1>1. /\ odd \subseteq odd'
      /\ \/ End
         \/ /\ sock' = IF t.got = <<>> THEN rest ELSE Copied(Written(rest), "this")
            /\ UNCHANGED <<device, promisc>>
  BY DEF HandleSockRaw, ptys
<1> HIDE DEF t, d, in
<1>2. InputOnly(rest)
  BY SetInput DEF SInv
<1> HIDE DEF rest
<1>3. CASE End
  BY <1>1, <1>3, EndKept
<1>4. CASE sock' = rest /\ UNCHANGED <<device, promisc>>
  BY <1>1, <1>2, <1>4, InputKept
<1>5. CASE sock' = Copied(Written(rest), "this") /\ UNCHANGED <<device, promisc>>
  BY <1>1, <1>2, <1>5, WriteAndCopyKept
<1> QED  BY <1>1, <1>3, <1>4, <1>5

LEMMA OtherKept ==
    ASSUME SInv, NEW i \in Others, HandleOther(i) PROVE SInv'
<1>1. CASE End
  BY <1>1, EndKept DEF HandleOther
<1>2. CASE sock' = Copied(sock, i) /\ UNCHANGED <<device, promisc>>
  BY <1>2, CopyKept, SameInput DEF HandleOther, SInv, Interface
<1> QED  BY <1>1, <1>2 DEF HandleOther, ptys

LEMMA SInvNext == SInv /\ [Next]_vars => SInv'
<1> SUFFICES ASSUME SInv, [Next]_vars PROVE SInv'
  OBVIOUS
<1>1. CASE Line
  BY <1>1, LineKept
<1>2. CASE HandleIface
  BY <1>2, IfaceKept
<1>3. ASSUME NEW f \in Fd, NEW type \in {"raw", "stream"}, ServerSocket(f, type) PROVE SInv'
  BY <1>3, SocketKept
<1>4. ASSUME NEW f \in Fd, NEW i \in Interface, NEW p \in BOOLEAN, SetSockOptIf(f, i, p)
      PROVE  SInv'
  BY <1>4, SetSockOptKept
<1>5. ASSUME NEW f \in Fd, SockClose(f) PROVE SInv'
  BY <1>5, CloseKept
<1>6. ASSUME NEW f \in Fd, NEW frame, WriteFrame(f, frame) PROVE SInv'
  BY <1>6, WriteKept DEF WriteFrame
<1>7. ASSUME NEW f \in Fd, WriteGarbage(f) PROVE SInv'
  BY <1>7, WriteKept DEF WriteGarbage
<1>8. ASSUME NEW f \in Fd, NEW n, HandleSockRaw(f, n) PROVE SInv'
  BY <1>8, RawKept
<1>9. ASSUME NEW i \in Others, HandleOther(i) PROVE SInv'
  BY <1>9, OtherKept
<1>10. CASE UNCHANGED vars
  BY <1>10, SockKept DEF vars, ptys
<1>11. ASSUME NEW f \in Fd, ServerListen(f) PROVE SInv'
  BY <1>11, ListenKept
<1>12. CASE Raw
  BY <1>12, <1>3, <1>4, <1>5, <1>6, <1>7, <1>8, <1>11 DEF Raw
<1> QED  BY <1>1, <1>2, <1>9, <1>10, <1>12 DEF Next

\* An interface writes only to the ptys of raw sockets that were bound to it
\* (handle_promisc_frame() and patty_ax25_if_promisc_delete()): sock_close() takes
\* a descriptor off the list before the next socket can get its number, for
\* every set of descriptors and interfaces, unless a socket has changed its
\* interface, a promiscuous one has listened (its state is then LISTENING, and
\* patty_ax25_sock_destroy() leaves the entry), or the device has hung up.
THEOREM IfaceNoStray == Spec => []NoStray
<1>1. SInv => NoStray
  BY DEF SInv, Bound, NoStray
<1> QED  BY <1>1, SInvInit, SInvNext, PTL DEF Spec

---------------------------------------------------------------------------
(***************************************************************************)
(* Induction, as a fact about sets of numbers.                              *)
(***************************************************************************)
LEMMA SetInduction ==
    ASSUME NEW S \in SUBSET Nat, 0 \in S, \A n \in S : n + 1 \in S
    PROVE  S = Nat
<1> DEFINE R == {ss \in Nat \X Nat : ss[1] < ss[2]}
           T == Nat \ S
<1> SUFFICES ASSUME T # {} PROVE FALSE
  OBVIOUS
<1>1. IsWellFoundedOn(R, Nat)
  BY NatLessThanWellFounded DEF OpToRel
<1>2. PICK x \in T : \A y \in T : ~(<<y, x>> \in R)
  <2> HIDE DEF R, T
  <2> QED  BY <1>1, WFMin DEF T
<1>3. x \in Nat /\ x # 0 /\ x - 1 \in Nat
  BY <1>2
<1>4. x - 1 \notin T
  <2>1. <<x - 1, x>> \in R
    BY <1>3
  <2> HIDE DEF R, T
  <2> QED  BY <1>2, <2>1
<1>5. x - 1 \in S /\ (x - 1) + 1 = x
  BY <1>3, <1>4
<1> QED  BY <1>2, <1>5

\* The decoder t after each of the first k octets.
AfterIs(g, t, octets, k) ==
    g = [n \in 0 .. k |-> IF n = 0 THEN t ELSE Octet(g[n - 1], octets[n])]

\* ... and after all of them.
Run(t, octets) ==
    LET after[n \in 0 .. Len(octets)] == IF n = 0 THEN t ELSE Octet(after[n - 1], octets[n])
    IN  after[Len(octets)]

LEMMA DrainIsRun ==
    \A d, octets, buf, size : Drain(d, octets, buf, size) = Run(Begin(d, octets, buf, size), octets)
BY DEF Drain, Run

LEMMA AfterExists ==
    ASSUME NEW t, NEW octets, NEW k \in Nat PROVE \E g : AfterIs(g, t, octets, k)
<1> DEFINE P(g, j) == AfterIs(g, t, octets, j)
           S == {j \in Nat : \E g : P(g, j)}
<1>1. 0 \in S
  <2>1. P([n \in 0 .. 0 |-> t], 0)
    BY DEF AfterIs
  <2> QED  BY <2>1
<1>2. ASSUME NEW j \in S PROVE j + 1 \in S
  <2>1. PICK g : P(g, j)
    OBVIOUS
  <2> DEFINE h == [n \in 0 .. (j + 1) |-> IF n = j + 1 THEN Octet(g[j], octets[j + 1]) ELSE g[n]]
  <2>2. g = [n \in 0 .. j |-> IF n = 0 THEN t ELSE Octet(g[n - 1], octets[n])]
    BY <2>1 DEF AfterIs
  <2>3. ASSUME NEW n \in 0 .. (j + 1)
        PROVE  h[n] = IF n = 0 THEN t ELSE Octet(h[n - 1], octets[n])
    <3>1. CASE n = j + 1
      BY <3>1
    <3>2. CASE n \in 0 .. j
      <4>1. h[n] = g[n] /\ (n # 0 => h[n - 1] = g[n - 1])
        BY <3>2
      <4> HIDE DEF h
      <4> QED  BY <2>2, <3>2, <4>1
    <3> QED  BY <3>1, <3>2
  <2>4. h = [n \in 0 .. (j + 1) |-> h[n]]
    OBVIOUS
  <2> HIDE DEF h
  <2>5. P(h, j + 1)
    BY <2>3, <2>4 DEF AfterIs
  <2>6. j + 1 \in Nat
    OBVIOUS
  <2> HIDE DEF P
  <2> QED  BY <2>5, <2>6
<1> HIDE DEF P
<1>3. S = Nat
  BY <1>1, <1>2, SetInduction
<1> QED  BY <1>3 DEF P

LEMMA RunAfter ==
    ASSUME NEW t, NEW octets, Len(octets) \in Nat
    PROVE  \E g : AfterIs(g, t, octets, Len(octets)) /\ Run(t, octets) = g[Len(octets)]
<1> DEFINE P(g) == AfterIs(g, t, octets, Len(octets))
<1>1. \E g : P(g)
  BY AfterExists
<1>2. P(CHOOSE g : P(g))
  BY <1>1
<1>3. Run(t, octets) = (CHOOSE g : P(g))[Len(octets)]
  BY DEF Run, AfterIs
<1> QED  BY <1>2, <1>3

---------------------------------------------------------------------------
(***************************************************************************)
(* No octet is stored behind the end of a buffer.                           *)
(***************************************************************************)
IsSeq(s) == \E S : s \in Seq(S)

LEMMA SeqLen ==
    ASSUME NEW s, IsSeq(s) PROVE Len(s) \in Nat /\ DOMAIN s = 1 .. Len(s)
BY DEF IsSeq

LEMMA AppendSeq ==
    ASSUME NEW s, NEW c, IsSeq(s)
    PROVE  IsSeq(Append(s, c)) /\ Len(Append(s, c)) = Len(s) + 1
<1>1. PICK S : s \in Seq(S)
  BY DEF IsSeq
<1> DEFINE T == S \cup {c}
<1>2. s \in Seq(T) /\ c \in T
  BY <1>1
<1> HIDE DEF T
<1>3. Append(s, c) \in Seq(T) /\ Len(Append(s, c)) = Len(s) + 1
  BY <1>2
<1> QED  BY <1>3 DEF IsSeq

\* A function from 1 .. n is a sequence.
LEMMA FcnSeq ==
    ASSUME NEW n \in Nat, NEW u, u = [j \in 1 .. n |-> u[j]]
    PROVE  IsSeq(u) /\ Len(u) = n
<1> DEFINE T == {u[j] : j \in 1 .. n}
<1>1. u \in [1 .. n -> T]
  OBVIOUS
<1> HIDE DEF T
<1>2. u \in Seq(T) /\ Len(u) = n
  BY <1>1
<1> QED  BY <1>2 DEF IsSeq

LEMMA SeqExcept ==
    ASSUME NEW s, NEW i, NEW c, IsSeq(s)
    PROVE  IsSeq([s EXCEPT ![i] = c]) /\ Len([s EXCEPT ![i] = c]) = Len(s)
<1> DEFINE u == [s EXCEPT ![i] = c]
<1>1. DOMAIN s = 1 .. Len(s) /\ Len(s) \in Nat
  BY SeqLen
<1>2. u = [j \in 1 .. Len(s) |-> u[j]]
  BY <1>1
<1> HIDE DEF u
<1>3. IsSeq(u) /\ Len(u) = Len(s)
  BY <1>1, <1>2, FcnSeq
<1> QED  BY <1>3 DEF u

LEMMA ConcatSeq ==
    ASSUME NEW s, NEW t, IsSeq(s), IsSeq(t)
    PROVE  IsSeq(s \o t) /\ Len(s \o t) = Len(s) + Len(t)
<1>1. PICK S : s \in Seq(S)
  BY DEF IsSeq
<1>2. PICK T : t \in Seq(T)
  BY DEF IsSeq
<1> DEFINE U == S \cup T
<1>3. s \in Seq(U) /\ t \in Seq(U)
  BY <1>1, <1>2
<1> HIDE DEF U
<1>4. s \o t \in Seq(U) /\ Len(s \o t) = Len(s) + Len(t)
  BY <1>3
<1> QED  BY <1>4 DEF IsSeq

LEMMA ConcatAt ==
    ASSUME NEW s, NEW t, IsSeq(s), IsSeq(t), NEW u, u = s \o t
    PROVE  /\ \A i \in 1 .. Len(s) : u[i] = s[i]
           /\ \A i \in 1 .. Len(t) : u[Len(s) + i] = t[i]
<1>1. PICK S : s \in Seq(S)
  BY DEF IsSeq
<1>2. PICK T : t \in Seq(T)
  BY DEF IsSeq
<1> DEFINE U == S \cup T
<1>3. s \in Seq(U) /\ t \in Seq(U)
  BY <1>1, <1>2
<1> HIDE DEF U
<1>4. \A i \in 1 .. Len(s) : u[i] = s[i]
  BY <1>3
<1>5. \A i \in 1 .. Len(t) : u[Len(s) + i] = t[i]
  BY <1>3
<1> QED  BY <1>4, <1>5

\* The part of a sequence, or of anything, from 1 to n.
LEMMA FirstSeq ==
    ASSUME NEW s, NEW n \in Nat
    PROVE  IsSeq(SubSeq(s, 1, n)) /\ Len(SubSeq(s, 1, n)) = n
           /\ \A i \in 1 .. n : SubSeq(s, 1, n)[i] = s[i]
<1> DEFINE t == [i \in 1 .. n |-> s[i]]
           S == {s[i] : i \in 1 .. n}
<1>1. SubSeq(s, 1, n) = t
  OBVIOUS
<1>2. t \in Seq(S) /\ Len(t) = n
  OBVIOUS
<1> HIDE DEF S
<1> QED  BY <1>1, <1>2 DEF IsSeq

LEMMA RestSeq ==
    ASSUME NEW s, IsSeq(s), NEW n \in Nat
    PROVE  IsSeq(SubSeq(s, n + 1, Len(s)))
           /\ Len(SubSeq(s, n + 1, Len(s))) = IF n <= Len(s) THEN Len(s) - n ELSE 0
<1>1. PICK S : s \in Seq(S)
  BY DEF IsSeq
<1>2. SubSeq(s, n + 1, Len(s)) \in Seq(S)
  BY <1>1
<1>3. Len(SubSeq(s, n + 1, Len(s))) = IF n <= Len(s) THEN Len(s) - n ELSE 0
  BY <1>1
<1> QED  BY <1>2, <1>3 DEF IsSeq

WorkFields == {"state", "command", "port", "o", "buf", "size", "first", "at", "start",
               "stop", "fail", "got"}

\* The decoder in the middle of a read into a buffer of m octets, of which at
\* least l have been used.
Fitting(t, l, m) ==
    /\ t = [x \in WorkFields |-> t[x]]
    /\ t.state \in {"NONE", "COMMAND", "BODY", "ESCAPE"}
    /\ t.size = m /\ IsSeq(t.buf) /\ l <= Len(t.buf) /\ Len(t.buf) <= m
    /\ t.o \in Nat /\ t.o <= Len(t.buf)

\* Steps that store nothing
LEMMA FittingSame ==
    ASSUME NEW l \in Nat, NEW m \in Nat, NEW t, Fitting(t, l, m), NEW u, u = [x \in WorkFields |-> u[x]],
           u.state \in {"NONE", "COMMAND", "BODY", "ESCAPE"},
           u.size = t.size, u.buf = t.buf, u.o = t.o \/ u.o = 0
    PROVE  Fitting(u, l, m)
<1>1. Len(t.buf) \in Nat
  BY SeqLen DEF Fitting
<1>2. u.o \in Nat /\ u.o <= Len(u.buf)
  BY <1>1 DEF Fitting
<1> QED  BY <1>2 DEF Fitting

LEMMA StoreFits ==
    ASSUME NEW l \in Nat, NEW m \in Nat, NEW t, Fitting(t, l, m), t.o < m, NEW c
    PROVE  Fitting(Store(t, c), l, m)
<1> DEFINE b == IF t.o < Len(t.buf) THEN [t.buf EXCEPT ![t.o + 1] = c] ELSE Append(t.buf, c)
           u == [t EXCEPT !.state = "BODY", !.o = @ + 1, !.buf = b]
<1>1. /\ t = [x \in WorkFields |-> t[x]] /\ t.size = m /\ IsSeq(t.buf)
      /\ Len(t.buf) \in Nat /\ l <= Len(t.buf) /\ Len(t.buf) <= m /\ t.o \in Nat /\ t.o <= Len(t.buf)
  BY SeqLen DEF Fitting
<1>2. IsSeq(b) /\ Len(b) = IF t.o < Len(t.buf) THEN Len(t.buf) ELSE Len(t.buf) + 1
  <2>1. CASE t.o < Len(t.buf)
    BY <2>1, <1>1, SeqExcept
  <2>2. CASE ~(t.o < Len(t.buf))
    BY <2>2, <1>1, AppendSeq
  <2> QED  BY <2>1, <2>2
<1>3. Store(t, c) = u
  BY <1>1 DEF Store
<1> HIDE DEF b
<1>4. /\ u = [x \in WorkFields |-> u[x]] /\ u.state = "BODY" /\ u.o = t.o + 1
      /\ u.buf = b /\ u.size = m
  BY <1>1 DEF WorkFields
<1> HIDE DEF u
<1>5. u.o \in Nat /\ u.o <= Len(b) /\ l <= Len(b) /\ Len(b) <= m
  BY <1>1, <1>2, <1>4
<1>6. Fitting(u, l, m)
  BY <1>2, <1>4, <1>5 DEF Fitting
<1> QED  BY <1>3, <1>6

LEMMA OctetFits ==
    ASSUME NEW l \in Nat, NEW m \in Nat, NEW t, Fitting(t, l, m), NEW c
    PROVE  Fitting(Octet(t, c), l, m)
<1> DEFINE u == [t EXCEPT !.at = @ + 1]
<1>1. /\ t = [x \in WorkFields |-> t[x]] /\ t.size = m
      /\ t.state \in {"NONE", "COMMAND", "BODY", "ESCAPE"}
      /\ t.o \in Nat /\ t.o <= m
  BY SeqLen DEF Fitting
<1>2. CASE t.stop
  BY <1>2 DEF Octet
<1>3. CASE ~t.stop /\ Full(t)
  <2> DEFINE v == Drop(t)
  <2>1. /\ v = [x \in WorkFields |-> v[x]] /\ v.state \in {"NONE", "COMMAND"}
        /\ v.size = t.size /\ v.buf = t.buf /\ v.o = 0
    BY <1>1 DEF Drop, WorkFields
  <2>2. Octet(t, c) = v
    BY <1>3 DEF Octet
  <2> HIDE DEF v
  <2>3. Fitting(v, l, m)
    BY <2>1, FittingSame
  <2> QED  BY <2>2, <2>3
<1>4. CASE ~t.stop /\ ~Full(t)
  <2>1. t.o < m
    BY <1>1, <1>4 DEF Full
  <2>2. /\ u = [x \in WorkFields |-> u[x]] /\ u.state = t.state
        /\ u.size = t.size /\ u.buf = t.buf /\ u.o = t.o
    BY <1>1 DEF WorkFields
  <2>3. Octet(t, c) = CASE t.state = "NONE"    -> InNone(u, c)
                        [] t.state = "COMMAND" -> InCommand(u, c)
                        [] t.state = "BODY"    -> InBody(u, c)
                        [] t.state = "ESCAPE"  -> InEscape(u, c)
    BY <1>4 DEF Octet
  <2> HIDE DEF u
  <2>4. Fitting(u, l, m) /\ u.o < m
    BY <1>1, <2>1, <2>2, FittingSame
  \* the record with another state, and what goes with it
  <2>5. ASSUME NEW v, v = [x \in WorkFields |-> v[x]],
               v.state \in {"NONE", "COMMAND", "BODY", "ESCAPE"},
               v.size = u.size, v.buf = u.buf, v.o = u.o \/ v.o = 0
        PROVE  Fitting(v, l, m)
    BY <2>4, <2>5, FittingSame
  <2>6. Fitting(Error(u), l, m)
    <3> DEFINE v == Error(u)
    <3>1. /\ v = [x \in WorkFields |-> v[x]] /\ v.state = u.state
          /\ v.size = u.size /\ v.buf = u.buf /\ v.o = u.o
      BY <2>2 DEF Error, WorkFields
    <3> HIDE DEF v
    <3>2. Fitting(v, l, m)
      BY <1>1, <2>2, <2>5, <3>1
    <3> QED  BY <3>2 DEF v
  <2>7. ASSUME NEW s \in {"NONE", "COMMAND", "BODY", "ESCAPE"}
        PROVE  /\ Fitting([u EXCEPT !.state = s], l, m)
               /\ Fitting([u EXCEPT !.state = s, !.stop = TRUE], l, m)
    <3>1. Fitting([u EXCEPT !.state = s], l, m)
      <4> DEFINE v == [u EXCEPT !.state = s]
      <4>1. /\ v = [x \in WorkFields |-> v[x]] /\ v.state = s
            /\ v.size = u.size /\ v.buf = u.buf /\ v.o = u.o
        BY <2>2 DEF WorkFields
      <4> HIDE DEF v
      <4>2. Fitting(v, l, m)
        BY <2>5, <4>1
      <4> QED  BY <4>2 DEF v
    <3>2. Fitting([u EXCEPT !.state = s, !.stop = TRUE], l, m)
      <4> DEFINE v == [u EXCEPT !.state = s, !.stop = TRUE]
      <4>1. /\ v = [x \in WorkFields |-> v[x]] /\ v.state = s
            /\ v.size = u.size /\ v.buf = u.buf /\ v.o = u.o
        BY <2>2 DEF WorkFields
      <4> HIDE DEF v
      <4>2. Fitting(v, l, m)
        BY <2>5, <4>1
      <4> QED  BY <4>2 DEF v
    <3> QED  BY <3>1, <3>2
  <2>8. CASE t.state = "NONE"
    BY <2>3, <2>4, <2>7, <2>8 DEF InNone
  <2>9. CASE t.state = "COMMAND"
    <3>1. Octet(t, c) = InCommand(u, c)
      BY <2>3, <2>9
    <3> DEFINE v == [u EXCEPT !.state = "BODY", !.command = Command(c), !.port = Port(c)]
    <3>2. InCommand(u, c) \in {u, Error(u), v}
      BY DEF InCommand
    <3>3. /\ v = [x \in WorkFields |-> v[x]] /\ v.state = "BODY"
          /\ v.size = u.size /\ v.buf = u.buf /\ v.o = u.o
      BY <2>2 DEF WorkFields
    <3> HIDE DEF v
    <3>4. Fitting(v, l, m)
      BY <2>5, <3>3
    <3> QED  BY <3>1, <3>2, <3>4, <2>4, <2>6
  <2>10. CASE t.state = "BODY"
    <3>1. Octet(t, c) = InBody(u, c)
      BY <2>3, <2>10
    <3> DEFINE w == [u EXCEPT !.state = "COMMAND"]
    <3>2. \/ InBody(u, c) = [u EXCEPT !.state = "ESCAPE"]
          \/ InBody(u, c) = Flush(w)
          \/ InBody(u, c) = [w EXCEPT !.stop = TRUE]
          \/ InBody(u, c) = Store(u, c)
          \/ InBody(u, c) = u
      BY DEF InBody
    <3>3. [w EXCEPT !.stop = TRUE] = [u EXCEPT !.state = "COMMAND", !.stop = TRUE]
      OBVIOUS
    <3>4. Fitting(Flush(w), l, m)
      <4> DEFINE v == Flush(w)
      <4>1. w = [x \in WorkFields |-> w[x]] /\ w.size = u.size /\ w.buf = u.buf
        BY <2>2 DEF WorkFields
      <4> HIDE DEF w
      <4>2. Taken(w) = [x \in WorkFields |-> Taken(w)[x]] /\ Taken(w).size = w.size
            /\ Taken(w).buf = w.buf
        BY <4>1 DEF Taken, WorkFields
      <4>3. /\ v = [x \in WorkFields |-> v[x]] /\ v.state = "NONE"
            /\ v.size = w.size /\ v.buf = w.buf /\ v.o = 0
        BY <4>2 DEF Flush, WorkFields
      <4> HIDE DEF v
      <4>4. Fitting(v, l, m)
        BY <2>5, <4>1, <4>3
      <4> QED  BY <4>4 DEF v
    <3>5. Fitting(Store(u, c), l, m)
      BY <2>4, StoreFits
    <3>6. Fitting([w EXCEPT !.stop = TRUE], l, m) /\ Fitting([u EXCEPT !.state = "ESCAPE"], l, m)
      BY <2>7, <3>3
    <3> HIDE DEF w
    <3> QED  BY <3>1, <3>2, <3>4, <3>5, <3>6, <2>4
  <2>11. CASE t.state = "ESCAPE"
    <3>1. Octet(t, c) = InEscape(u, c)
      BY <2>3, <2>11
    <3>2. \/ InEscape(u, c) = Store(u, FEND)
          \/ InEscape(u, c) = Store(u, FESC)
          \/ InEscape(u, c) = Error(u)
      BY DEF InEscape
    <3> QED  BY <3>1, <3>2, <2>4, <2>6, StoreFits
  <2> QED  BY <1>1, <2>8, <2>9, <2>10, <2>11
<1> QED  BY <1>2, <1>3, <1>4

LEMMA DrainFits ==
    ASSUME NEW l \in Nat, NEW m \in Nat, NEW d, NEW octets, NEW buf, Len(octets) \in Nat,
           Fitting(Begin(d, octets, buf, m), l, m)
    PROVE  Fitting(Drain(d, octets, buf, m), l, m)
<1> DEFINE b == Begin(d, octets, buf, m)
<1>1. PICK g : AfterIs(g, b, octets, Len(octets)) /\ Run(b, octets) = g[Len(octets)]
  BY RunAfter
<1> DEFINE S == {k \in Nat : k <= Len(octets) => Fitting(g[k], l, m)}
<1> HIDE DEF b
<1>2. g[0] = b /\ \A k \in 1 .. Len(octets) : g[k] = Octet(g[k - 1], octets[k])
  BY <1>1 DEF AfterIs
<1>3. 0 \in S
  BY <1>2 DEF b
<1>4. ASSUME NEW k \in S PROVE k + 1 \in S
  <2> SUFFICES ASSUME k + 1 <= Len(octets) PROVE Fitting(g[k + 1], l, m)
    OBVIOUS
  <2>1. k \in Nat /\ Fitting(g[k], l, m) /\ g[k + 1] = Octet(g[k], octets[k + 1])
    BY <1>2
  <2> QED  BY <2>1, OctetFits
<1>5. S = Nat
  <2> HIDE DEF S
  <2>1. S \subseteq Nat
    BY DEF S
  <2> QED  BY <1>3, <1>4, <2>1, SetInduction
<1>6. Fitting(g[Len(octets)], l, m)
  BY <1>5
<1> QED  BY <1>1, <1>6, DrainIsRun DEF b

---------------------------------------------------------------------------
(***************************************************************************)
(* The same for the lines of an APRS-IS server.                             *)
(***************************************************************************)
AprsAfterIs(g, d, text, k) ==
    g = [n \in 0 .. k |-> IF n = 0 THEN AprsBegin(d) ELSE Character(g[n - 1], text[n])]

LEMMA AprsAfterExists ==
    ASSUME NEW d, NEW text, NEW k \in Nat PROVE \E g : AprsAfterIs(g, d, text, k)
<1> DEFINE P(g, j) == AprsAfterIs(g, d, text, j)
           S == {j \in Nat : \E g : P(g, j)}
           b == AprsBegin(d)
<1>1. 0 \in S
  <2>1. P([n \in 0 .. 0 |-> b], 0)
    BY DEF AprsAfterIs
  <2> QED  BY <2>1
<1>2. ASSUME NEW j \in S PROVE j + 1 \in S
  <2>1. PICK g : P(g, j)
    OBVIOUS
  <2> DEFINE h == [n \in 0 .. (j + 1) |-> IF n = j + 1 THEN Character(g[j], text[j + 1]) ELSE g[n]]
  <2>2. g = [n \in 0 .. j |-> IF n = 0 THEN b ELSE Character(g[n - 1], text[n])]
    BY <2>1 DEF AprsAfterIs
  <2>3. ASSUME NEW n \in 0 .. (j + 1)
        PROVE  h[n] = IF n = 0 THEN b ELSE Character(h[n - 1], text[n])
    <3> HIDE DEF b
    <3>1. CASE n = j + 1
      BY <3>1
    <3>2. CASE n \in 0 .. j
      <4>1. h[n] = g[n] /\ (n # 0 => h[n - 1] = g[n - 1])
        BY <3>2
      <4> HIDE DEF h
      <4> QED  BY <2>2, <3>2, <4>1
    <3> QED  BY <3>1, <3>2
  <2>4. h = [n \in 0 .. (j + 1) |-> h[n]]
    OBVIOUS
  <2> HIDE DEF h, b
  <2>5. P(h, j + 1)
    BY <2>3, <2>4 DEF AprsAfterIs, b
  <2>6. j + 1 \in Nat
    OBVIOUS
  <2> HIDE DEF P
  <2> QED  BY <2>5, <2>6
<1> HIDE DEF P
<1>3. S = Nat
  BY <1>1, <1>2, SetInduction
<1> QED  BY <1>3 DEF P

LEMMA AprsDrainAfter ==
    ASSUME NEW d, NEW text, Len(text) \in Nat
    PROVE  \E g : /\ AprsAfterIs(g, d, text, Len(text))
                  /\ AprsDrain(d, text) = g[Len(text)]
<1> DEFINE P(g) == AprsAfterIs(g, d, text, Len(text))
<1>1. \E g : P(g)
  BY AprsAfterExists
<1>2. P(CHOOSE g : P(g))
  BY <1>1
<1>3. AprsDrain(d, text) = (CHOOSE g : P(g))[Len(text)]
  BY DEF AprsDrain, AprsAfterIs
<1> QED  BY <1>2, <1>3

AprsFields == {"state", "call", "src", "dest", "path", "body", "stop", "got"}

AprsFitting(a) ==
    /\ a = [x \in AprsFields |-> a[x]]
    /\ a.state \in {"HEADER", "COMMENT", "BODY"}
    /\ IsSeq(a.call) /\ Len(a.call) <= CallSize
    /\ IsSeq(a.path) /\ Len(a.path) <= PathSize
    /\ IsSeq(a.body) /\ Len(a.body) <= BodySize

LEMMA NoneSeq == IsSeq(<<>>) /\ Len(<<>>) = 0
<1>1. <<>> \in Seq({})
  OBVIOUS
<1> QED  BY <1>1 DEF IsSeq

LEMMA AprsFlushFits ==
    ASSUME NEW a, AprsFitting(a)
    PROVE  AprsFitting(AprsFlush(a)) /\ \A w : AprsFitting([AprsFlush(a) EXCEPT !.got = w])
<1> DEFINE u == AprsFlush(a)
<1>1. a = [x \in AprsFields |-> a[x]]
  BY DEF AprsFitting
<1>2. /\ u = [x \in AprsFields |-> u[x]] /\ u.state = "HEADER"
      /\ u.call = <<>> /\ u.path = <<>> /\ u.body = <<>>
  BY <1>1 DEF AprsFlush, AprsFields, Empty
<1> HIDE DEF u
<1>3. AprsFitting(u)
  BY <1>2, NoneSeq, AprsAssumption DEF AprsFitting
<1>4. ASSUME NEW w PROVE AprsFitting([u EXCEPT !.got = w])
  <2> DEFINE v == [u EXCEPT !.got = w]
  <2>1. /\ v = [x \in AprsFields |-> v[x]] /\ v.state = "HEADER"
        /\ v.call = <<>> /\ v.path = <<>> /\ v.body = <<>>
    BY <1>2 DEF AprsFields
  <2> HIDE DEF v
  <2>2. AprsFitting(v)
    BY <2>1, NoneSeq, AprsAssumption DEF AprsFitting
  <2> QED  BY <2>2 DEF v
<1> QED  BY <1>3, <1>4 DEF u

LEMMA AddressFits ==
    ASSUME NEW a, AprsFitting(a), NEW c PROVE AprsFitting(Address(a, c))
<1> DEFINE next == IF c = ":" THEN "BODY" ELSE "HEADER"
           s == [a EXCEPT !.src = a.call, !.call = Empty]
           p == [a EXCEPT !.path = Append(@, a.call), !.call = Empty, !.state = next]
           d == [a EXCEPT !.dest = a.call, !.call = Empty, !.state = next]
           full == c # ">" /\ a.dest # Empty /\ Len(a.path) = PathSize
<1>1. /\ a = [x \in AprsFields |-> a[x]]
      /\ IsSeq(a.path) /\ Len(a.path) \in Nat /\ Len(a.path) <= PathSize
  BY SeqLen DEF AprsFitting
<1>2. \/ Address(a, c) = AprsFlush(a)
      \/ Address(a, c) = s
      \/ ~full /\ c # ">" /\ a.dest # Empty /\ Address(a, c) = p
      \/ Address(a, c) = d
  BY DEF Address, AprsDrop
<1>3. /\ s = [x \in AprsFields |-> s[x]] /\ s.state = a.state
      /\ s.call = <<>> /\ s.path = a.path /\ s.body = a.body
  BY <1>1 DEF AprsFields, Empty
<1>4. AprsFitting(s)
  <2> HIDE DEF s
  <2> QED  BY <1>3, NoneSeq, AprsAssumption DEF AprsFitting
<1>5. /\ d = [x \in AprsFields |-> d[x]] /\ d.state \in {"BODY", "HEADER"}
      /\ d.call = <<>> /\ d.path = a.path /\ d.body = a.body
  BY <1>1 DEF AprsFields, Empty
<1>6. AprsFitting(d)
  <2> HIDE DEF d
  <2> QED  BY <1>5, NoneSeq, AprsAssumption DEF AprsFitting
<1>7. ASSUME ~full, c # ">", a.dest # Empty PROVE AprsFitting(p)
  <2> DEFINE q == Append(a.path, a.call)
  <2>1. IsSeq(q) /\ Len(q) <= PathSize
    BY <1>1, <1>7, AppendSeq, AprsAssumption
  <2>2. /\ p = [x \in AprsFields |-> p[x]] /\ p.state \in {"BODY", "HEADER"}
        /\ p.call = <<>> /\ p.path = q /\ p.body = a.body
    BY <1>1 DEF AprsFields, Empty
  <2> HIDE DEF p, q
  <2> QED  BY <2>1, <2>2, NoneSeq, AprsAssumption DEF AprsFitting
<1> HIDE DEF s, p, d, full
<1> QED  BY <1>2, <1>4, <1>6, <1>7, AprsFlushFits

LEMMA CharacterFits ==
    ASSUME NEW a, AprsFitting(a), NEW c PROVE AprsFitting(Character(a, c))
<1>1. /\ a = [x \in AprsFields |-> a[x]] /\ a.state \in {"HEADER", "COMMENT", "BODY"}
      /\ IsSeq(a.call) /\ Len(a.call) \in Nat /\ Len(a.call) <= CallSize
      /\ IsSeq(a.body) /\ Len(a.body) \in Nat /\ Len(a.body) <= BodySize
  BY SeqLen DEF AprsFitting
<1>2. CASE a.stop
  BY <1>2 DEF Character
<1>3. CASE ~a.stop /\ a.state = "HEADER"
  <2> DEFINE u == [a EXCEPT !.state = "COMMENT"]
             v == [a EXCEPT !.call = Append(@, c)]
  <2>1. Character(a, c) = InHeader(a, c)
    BY <1>3 DEF Character
  <2>2. \/ InHeader(a, c) = u
        \/ InHeader(a, c) = Address(a, c)
        \/ InHeader(a, c) = AprsFlush(a)
        \/ ~CallFull(a) /\ InHeader(a, c) = v
    <3>1. CASE c = "#"
      BY <3>1 DEF InHeader, Letter
    <3>2. CASE c \in {">", ",", ":"}
      BY <3>2 DEF InHeader, Letter
    <3>3. CASE c # "#" /\ c \notin {">", ",", ":"} /\ c \in Letter
      BY <3>3 DEF InHeader, AprsDrop
    <3>4. CASE c # "#" /\ c \notin {">", ",", ":"} /\ c \notin Letter
      BY <3>4 DEF InHeader, AprsDrop
    <3> QED  BY <3>1, <3>2, <3>3, <3>4
  <2>3. AprsFitting(u)
    <3>1. /\ u = [x \in AprsFields |-> u[x]] /\ u.state = "COMMENT"
          /\ u.call = a.call /\ u.path = a.path /\ u.body = a.body
      BY <1>1 DEF AprsFields
    <3> HIDE DEF u
    <3> QED  BY <3>1 DEF AprsFitting
  <2>4. ASSUME ~CallFull(a) PROVE AprsFitting(v)
    <3>1. IsSeq(Append(a.call, c)) /\ Len(Append(a.call, c)) <= CallSize
      BY <1>1, <2>4, AppendSeq, AprsAssumption DEF CallFull
    <3>2. /\ v = [x \in AprsFields |-> v[x]] /\ v.state = a.state
          /\ v.call = Append(a.call, c) /\ v.path = a.path /\ v.body = a.body
      BY <1>1 DEF AprsFields
    <3> HIDE DEF v
    <3> QED  BY <3>1, <3>2 DEF AprsFitting
  <2> HIDE DEF u, v
  <2> QED  BY <2>1, <2>2, <2>3, <2>4, AddressFits, AprsFlushFits
<1>4. CASE ~a.stop /\ a.state = "COMMENT"
  <2> DEFINE u == [a EXCEPT !.state = "HEADER", !.stop = TRUE]
  <2>1. Character(a, c) \in {a, u}
    BY <1>4 DEF Character, InComment
  <2>2. /\ u = [x \in AprsFields |-> u[x]] /\ u.state = "HEADER"
        /\ u.call = a.call /\ u.path = a.path /\ u.body = a.body
    BY <1>1 DEF AprsFields
  <2> HIDE DEF u
  <2>3. AprsFitting(u)
    BY <2>2 DEF AprsFitting
  <2> QED  BY <2>1, <2>3
<1>5. CASE ~a.stop /\ a.state = "BODY"
  <2> DEFINE v == [a EXCEPT !.body = Append(@, c)]
             w == Append(AprsFlush(a).got, Whole(a))
  <2>1. Character(a, c) = InText(a, c)
    BY <1>5 DEF Character
  <2>2. \/ InText(a, c) = a
        \/ InText(a, c) = [AprsFlush(a) EXCEPT !.got = w]
        \/ InText(a, c) = AprsFlush(a)
        \/ Len(a.body) # BodySize /\ InText(a, c) = v
    BY DEF InText, AprsDrop
  <2>3. ASSUME Len(a.body) # BodySize PROVE AprsFitting(v)
    <3>1. IsSeq(Append(a.body, c)) /\ Len(Append(a.body, c)) <= BodySize
      BY <1>1, <2>3, AppendSeq, AprsAssumption
    <3>2. /\ v = [x \in AprsFields |-> v[x]] /\ v.state = a.state
          /\ v.call = a.call /\ v.path = a.path /\ v.body = Append(a.body, c)
      BY <1>1 DEF AprsFields
    <3> HIDE DEF v
    <3> QED  BY <3>1, <3>2 DEF AprsFitting
  <2>4. AprsFitting([AprsFlush(a) EXCEPT !.got = w])
    <3> HIDE DEF w
    <3> QED  BY AprsFlushFits
  <2> HIDE DEF v, w
  <2> QED  BY <2>1, <2>2, <2>3, <2>4, AprsFlushFits
<1> QED  BY <1>1, <1>2, <1>3, <1>4, <1>5

LEMMA AprsDrainFits ==
    ASSUME NEW d, NEW text, Len(text) \in Nat, AprsFitting(AprsBegin(d))
    PROVE  AprsFitting(AprsDrain(d, text))
<1>1. PICK g : AprsAfterIs(g, d, text, Len(text)) /\ AprsDrain(d, text) = g[Len(text)]
  BY AprsDrainAfter
<1> DEFINE S == {k \in Nat : k <= Len(text) => AprsFitting(g[k])}
<1>2. /\ g[0] = AprsBegin(d)
      /\ \A k \in 1 .. Len(text) : g[k] = Character(g[k - 1], text[k])
  BY <1>1 DEF AprsAfterIs
<1>3. 0 \in S
  BY <1>2
<1>4. ASSUME NEW k \in S PROVE k + 1 \in S
  <2> SUFFICES ASSUME k + 1 <= Len(text) PROVE AprsFitting(g[k + 1])
    OBVIOUS
  <2>1. k \in Nat /\ AprsFitting(g[k]) /\ g[k + 1] = Character(g[k], text[k + 1])
    BY <1>2
  <2> QED  BY <2>1, CharacterFits
<1>5. S = Nat
  <2> HIDE DEF S
  <2>1. S \subseteq Nat
    BY DEF S
  <2> QED  BY <1>3, <1>4, <2>1, SetInduction
<1>6. AprsFitting(g[Len(text)])
  BY <1>5
<1> QED  BY <1>1, <1>6

---------------------------------------------------------------------------
(***************************************************************************)
(* Sequences put together from others.                                      *)
(***************************************************************************)
JoinIs(g, seqs, k) ==
    g = [n \in 1 .. k |-> IF n = 1 THEN seqs[n] ELSE g[n - 1] \o seqs[n]]

LEMMA JoinExists ==
    ASSUME NEW seqs, NEW k \in Nat PROVE \E g : JoinIs(g, seqs, k)
<1> DEFINE P(g, j) == JoinIs(g, seqs, j)
           S == {j \in Nat : \E g : P(g, j)}
<1>1. 0 \in S
  <2>1. P([n \in 1 .. 0 |-> 0], 0)
    BY DEF JoinIs
  <2> QED  BY <2>1
<1>2. ASSUME NEW j \in S PROVE j + 1 \in S
  <2>1. PICK g : P(g, j)
    OBVIOUS
  <2> DEFINE e == IF j = 0 THEN seqs[1] ELSE g[j] \o seqs[j + 1]
             h == [n \in 1 .. (j + 1) |-> IF n = j + 1 THEN e ELSE g[n]]
  <2>2. g = [n \in 1 .. j |-> IF n = 1 THEN seqs[n] ELSE g[n - 1] \o seqs[n]]
    BY <2>1 DEF JoinIs
  <2>3. ASSUME NEW n \in 1 .. (j + 1)
        PROVE  h[n] = IF n = 1 THEN seqs[n] ELSE h[n - 1] \o seqs[n]
    <3>1. CASE n = j + 1
      <4>1. h[n] = e
        BY <3>1
      <4>2. n # 1 => h[n - 1] = g[j]
        BY <3>1
      <4> HIDE DEF h
      <4> QED  BY <3>1, <4>1, <4>2
    <3>2. CASE n \in 1 .. j
      <4>1. h[n] = g[n] /\ (n # 1 => h[n - 1] = g[n - 1])
        BY <3>2
      <4> HIDE DEF h
      <4> QED  BY <2>2, <3>2, <4>1
    <3> QED  BY <3>1, <3>2
  <2>4. h = [n \in 1 .. (j + 1) |-> h[n]]
    OBVIOUS
  <2> HIDE DEF h
  <2>5. P(h, j + 1)
    BY <2>3, <2>4 DEF JoinIs
  <2>6. j + 1 \in Nat
    OBVIOUS
  <2> HIDE DEF P
  <2> QED  BY <2>5, <2>6
<1> HIDE DEF P
<1>3. S = Nat
  BY <1>1, <1>2, SetInduction
<1> QED  BY <1>3 DEF P

LEMMA FlattenIs ==
    ASSUME NEW seqs, Len(seqs) \in Nat \ {0}
    PROVE  \E g : JoinIs(g, seqs, Len(seqs)) /\ FlattenSeq(seqs) = g[Len(seqs)]
<1> DEFINE P(g) == JoinIs(g, seqs, Len(seqs))
<1>1. \E g : P(g)
  BY JoinExists
<1>2. P(CHOOSE g : P(g))
  BY <1>1
<1>3. FlattenSeq(seqs) = (CHOOSE g : P(g))[Len(seqs)]
  BY DEF FlattenSeq, JoinIs
<1> QED  BY <1>2, <1>3

LEMMA FlattenIsSeq ==
    ASSUME NEW seqs, IsSeq(seqs), \A i \in 1 .. Len(seqs) : IsSeq(seqs[i])
    PROVE  IsSeq(FlattenSeq(seqs))
<1>1. Len(seqs) \in Nat
  BY SeqLen
<1>2. CASE Len(seqs) = 0
  BY <1>2 DEF FlattenSeq
<1>3. CASE Len(seqs) # 0
  <2>1. PICK g : JoinIs(g, seqs, Len(seqs)) /\ FlattenSeq(seqs) = g[Len(seqs)]
    BY <1>1, <1>3, FlattenIs
  <2> DEFINE S == {k \in Nat : k \in 1 .. Len(seqs) => IsSeq(g[k])}
  <2>2. \A k \in 1 .. Len(seqs) : g[k] = IF k = 1 THEN seqs[k] ELSE g[k - 1] \o seqs[k]
    BY <2>1 DEF JoinIs
  <2>3. 0 \in S
    OBVIOUS
  <2>4. ASSUME NEW k \in S PROVE k + 1 \in S
    <3> SUFFICES ASSUME k + 1 \in 1 .. Len(seqs) PROVE IsSeq(g[k + 1])
      OBVIOUS
    <3>1. CASE k = 0
      BY <2>2, <3>1
    <3>2. CASE k # 0
      <4>1. k \in 1 .. Len(seqs) /\ k + 1 # 1 /\ (k + 1) - 1 = k
        BY <3>2, <1>1
      <4>2. IsSeq(g[k]) /\ IsSeq(seqs[k + 1])
        BY <4>1
      <4>3. g[k + 1] = g[(k + 1) - 1] \o seqs[k + 1]
        BY <2>2, <4>1
      <4> QED  BY <4>1, <4>2, <4>3, ConcatSeq
    <3> QED  BY <3>1, <3>2
  <2>5. S = Nat
    <3> HIDE DEF S
    <3>1. S \subseteq Nat
      BY DEF S
    <3> QED  BY <2>3, <2>4, <3>1, SetInduction
  <2>6. IsSeq(g[Len(seqs)])
    BY <1>1, <1>3, <2>5
  <2> QED  BY <2>1, <2>6
<1> QED  BY <1>2, <1>3

LEMMA LineIsSeq ==
    ASSUME NEW f \in Lines PROVE IsSeq(AprsLine(f))
<1>1. IsSeq(f.src) /\ IsSeq(f.dest) /\ IsSeq(f.path) /\ IsSeq(f.body)
      /\ \A i \in 1 .. Len(f.path) : IsSeq(f.path[i])
  <2>1. /\ f.src \in Seq(Letter) /\ f.dest \in Seq(Letter)
        /\ f.path \in Seq(Station) /\ f.body \in Seq(STRING)
    BY IfaceAssumption
  <2>2. \A i \in 1 .. Len(f.path) : f.path[i] \in Station
    BY <2>1
  <2>3. \A i \in 1 .. Len(f.path) : f.path[i] \in Seq(Letter)
    BY <2>2, IfaceAssumption
  <2> QED  BY <2>1, <2>3 DEF IsSeq
<1>2. \A x : IsSeq(<<x>>)
  <2>1. \A x : <<x>> \in Seq({x})
    OBVIOUS
  <2> QED  BY <2>1 DEF IsSeq
<1>3. IsSeq(<<"\r", "\n">>)
  <2>1. <<"\r", "\n">> \in Seq({"\r", "\n"})
    OBVIOUS
  <2> QED  BY <2>1 DEF IsSeq
<1> DEFINE q == [i \in 1 .. Len(f.path) |-> <<",">> \o f.path[i]]
<1>4. IsSeq(q) /\ Len(q) = Len(f.path)
  <2>1. q = [i \in 1 .. Len(f.path) |-> q[i]]
    OBVIOUS
  <2>2. Len(f.path) \in Nat
    BY <1>1, SeqLen
  <2> HIDE DEF q
  <2> QED  BY <2>1, <2>2, FcnSeq
<1>5. \A i \in 1 .. Len(q) : IsSeq(q[i])
  BY <1>1, <1>2, <1>4, ConcatSeq
<1>6. IsSeq(FlattenSeq(q))
  <2> HIDE DEF q
  <2> QED  BY <1>4, <1>5, FlattenIsSeq
<1> DEFINE z == FlattenSeq(q)
<1>7. AprsLine(f) = f.src \o <<">">> \o f.dest \o z \o <<":">> \o f.body \o <<"\r", "\n">>
  BY DEF AprsLine
<1> HIDE DEF z, q
<1>8. IsSeq(z)
  BY <1>6 DEF z
<1> QED  BY <1>1, <1>2, <1>3, <1>7, <1>8, ConcatSeq

---------------------------------------------------------------------------
(***************************************************************************)
(* The buffers of the interface.  Each decoder goes on where it has stopped, *)
(* so the invariant relates it to the buffer that it collects in: the rx_buf *)
(* of the interface is its own, but tx_buf belongs to all raw sockets.      *)
(***************************************************************************)
Holding(d, l) ==
    d.state \in {"NONE", "COMMAND", "BODY", "ESCAPE"} /\ d.o \in Nat /\ d.o <= l

Sizes ==
    /\ IsSeq(tx) /\ Len(tx) <= Mtu
    /\ \A f \in Fd : Holding(sock[f].raw, Len(tx))
    /\ \/ /\ driver = "kiss"
          /\ IsSeq(rx) /\ Len(rx) = decoder.o /\ Len(rx) <= Mru /\ Holding(decoder, Len(rx))
       \/ /\ driver = "aprs"
          /\ AprsFitting(AprsBegin(decoder)) /\ sent \in Seq(Lines)

LEMMA SizesSafe == Sizes => NoOverflow
<1> SUFFICES ASSUME Sizes PROVE NoOverflow
  OBVIOUS
<1>1. CASE driver = "kiss"
  BY <1>1 DEF Sizes, NoOverflow
<1>2. CASE driver = "aprs"
  <2>1. /\ AprsBegin(decoder).call = decoder.call /\ AprsBegin(decoder).path = decoder.path
        /\ AprsBegin(decoder).body = decoder.body
    BY DEF AprsBegin
  <2> QED  BY <1>2, <2>1 DEF Sizes, NoOverflow, AprsFitting
<1> QED  BY <1>1, <1>2 DEF Sizes

LEMMA NewHolding ==
    ASSUME NEW l \in Nat PROVE Holding(NewDecoder, l) /\ \A type : Holding(Socket(type).raw, l)
BY DEF Holding, NewDecoder, Socket

LEMMA SizesInit == Init => Sizes
<1> SUFFICES ASSUME Init PROVE Sizes
  OBVIOUS
<1>1. tx = <<>> /\ rx = <<>> /\ sent = <<>> /\ IsSeq(<<>>) /\ Len(<<>>) = 0
  BY NoneSeq DEF Init
<1>2. \A f \in Fd : Holding(sock[f].raw, Len(tx))
  BY <1>1, NewHolding DEF Init
<1>3. CASE driver = "kiss"
  <2>1. decoder = NewDecoder
    BY <1>3 DEF Init
  <2>2. decoder.o = 0 /\ Holding(decoder, 0)
    BY <2>1, NewHolding DEF NewDecoder
  <2> QED  BY <1>1, <1>2, <1>3, <2>2, IfaceAssumption DEF Sizes
<1>4. CASE driver = "aprs"
  <2> DEFINE b == AprsBegin(decoder)
  <2>1. decoder = NewAprs
    BY <1>4 DEF Init
  <2>2. /\ b = [x \in AprsFields |-> b[x]] /\ b.state = "HEADER"
        /\ b.call = <<>> /\ b.path = <<>> /\ b.body = <<>>
    BY <2>1 DEF AprsBegin, NewAprs, AprsFields, Empty
  <2> HIDE DEF b
  <2>3. AprsFitting(b)
    BY <1>1, <2>2, AprsAssumption DEF AprsFitting
  <2>4. sent \in Seq(Lines)
    BY <1>1
  <2>5. Len(tx) <= Mtu
    BY <1>1, IfaceAssumption
  <2> QED  BY <1>1, <1>2, <1>4, <2>3, <2>4, <2>5 DEF Sizes, b
<1> QED  BY <1>3, <1>4 DEF Init

\* Steps that leave the decoders and their buffers alone.
LEMMA SizesSame ==
    ASSUME Sizes, UNCHANGED <<driver, decoder, rx, tx>>,
           driver = "aprs" => sent' \in Seq(Lines),
           \A f \in Fd : sock'[f].raw = sock[f].raw \/ Holding(sock'[f].raw, Len(tx))
    PROVE  Sizes'
<1>1. \A f \in Fd : Holding(sock'[f].raw, Len(tx))
  BY DEF Sizes
<1>2. CASE driver = "kiss"
  BY <1>1, <1>2 DEF Sizes, Holding
<1>3. CASE driver = "aprs"
  <2>1. AprsBegin(decoder) = AprsBegin(decoder')
    OBVIOUS
  <2> QED  BY <1>1, <1>3, <2>1 DEF Sizes, Holding, AprsFitting, IsSeq, AprsBegin
<1> QED  BY <1>2, <1>3 DEF Sizes

LEMMA RawCopied ==
    ASSUME NEW ss, NEW i \in Interface, ss = [f \in Fd |-> ss[f]],
           \A f \in Fd : ss[f] = [x \in Fields |-> ss[f][x]], NEW f \in Fd
    PROVE  Copied(ss, i)[f].raw = ss[f].raw
<1> DEFINE c == Copied(ss, i)
<1>1. c = [g \in Fd |-> IF g \in promisc[i] THEN [ss[g] EXCEPT !.got = @ \cup {i}] ELSE ss[g]]
  BY DEF Copied
<1> DEFINE r == ss[f]
<1>2. r = [x \in Fields |-> r[x]]
  OBVIOUS
<1>3. c[f] = IF f \in promisc[i] THEN [r EXCEPT !.got = @ \cup {i}] ELSE r
  BY <1>1
<1> HIDE DEF c, r
<1>4. [r EXCEPT !.got = @ \cup {i}].raw = r.raw
  BY <1>2 DEF Fields
<1>5. c[f].raw = r.raw
  BY <1>3, <1>4
<1> QED  BY <1>5 DEF c, r

LEMMA RawWritten ==
    ASSUME NEW ss, ss = [f \in Fd |-> ss[f]],
           \A f \in Fd : ss[f] = [x \in Fields |-> ss[f][x]], NEW f \in Fd
    PROVE  Written(ss)[f].raw = ss[f].raw
<1>1. CASE device \in Fd
  <2> DEFINE w == [ss EXCEPT ![device].got = @ \cup {"this"}]
             r == ss[device]
             u == [r EXCEPT !.got = @ \cup {"this"}]
  <2>1. w = [g \in Fd |-> IF g = device THEN u ELSE ss[g]]
    BY <1>1
  <2>2. r = [x \in Fields |-> r[x]]
    BY <1>1
  <2>3. u.raw = r.raw
    <3> HIDE DEF r
    <3> QED  BY <2>2 DEF Fields
  <2> HIDE DEF w, u
  <2>4. w[f].raw = ss[f].raw
    BY <2>1, <2>3
  <2> QED  BY <1>1, <2>4 DEF Written, w
<1>2. CASE device \notin Fd
  BY <1>2 DEF Written
<1> QED  BY <1>1, <1>2

LEMMA RawUsed ==
    ASSUME Tables, NEW n, NEW f \in Fd PROVE Used(sock, n)[f].raw = sock[f].raw
<1>1. CASE device \in Fd
  <2> DEFINE in == SubSeq(sock[device].in, n + 1, Len(sock[device].in))
             r == sock[device]
             u == [r EXCEPT !.in = in]
  <2>1. Used(sock, n) = [g \in Fd |-> IF g = device THEN u ELSE sock[g]]
    BY <1>1 DEF Used, Tables
  <2>2. r = [x \in Fields |-> r[x]]
    BY <1>1 DEF Tables
  <2>3. u.raw = r.raw
    <3> HIDE DEF r, in
    <3> QED  BY <2>2 DEF Fields
  <2> HIDE DEF u
  <2> QED  BY <2>1, <2>3
<1>2. CASE device \notin Fd
  BY <1>2 DEF Used
<1> QED  BY <1>1, <1>2

\* A read of the KISS driver, and one from a raw socket.
LEMMA BeginFits ==
    ASSUME NEW d, NEW octets, NEW buf, NEW m \in Nat, IsSeq(buf), Len(buf) <= m,
           Holding(d, Len(buf))
    PROVE  Fitting(Begin(d, octets, buf, m), Len(buf), m)
<1> DEFINE b == Begin(d, octets, buf, m)
<1>1. /\ b = [x \in WorkFields |-> b[x]] /\ b.state = d.state /\ b.size = m
      /\ b.buf = buf /\ b.o = d.o
  BY DEF Begin, WorkFields
<1> HIDE DEF b
<1>2. Len(buf) \in Nat
  BY SeqLen
<1>3. Fitting(b, Len(buf), m)
  BY <1>1, <1>2 DEF Fitting, Holding
<1> QED  BY <1>3 DEF b

LEMMA ReadFits ==
    ASSUME NEW d, NEW in, NEW n \in Nat, NEW buf, NEW m \in Nat, IsSeq(buf), Len(buf) <= m,
           Holding(d, Len(buf)), NEW t, t = Drain(d, SubSeq(in, 1, n), buf, m)
    PROVE  /\ IsSeq(t.buf) /\ Len(buf) <= Len(t.buf) /\ Len(t.buf) <= m
           /\ Holding(Rest(t), Len(t.buf)) /\ Rest(t).o = t.o
<1>1. Len(SubSeq(in, 1, n)) \in Nat /\ Len(buf) \in Nat
  BY FirstSeq, SeqLen
<1>2. Fitting(Begin(d, SubSeq(in, 1, n), buf, m), Len(buf), m)
  BY BeginFits
<1>3. Fitting(t, Len(buf), m)
  BY <1>1, <1>2, DrainFits
<1>4. Rest(t).o = t.o /\ Rest(t).state = t.state
  BY DEF Rest
<1> QED  BY <1>3, <1>4 DEF Fitting, Holding

LEMMA AnswerFits ==
    ASSUME IsSeq(tx), Len(tx) <= Mtu, NEW y, y = Answer \o SubSeq(tx, Len(Answer) + 1, Len(tx))
    PROVE  IsSeq(y) /\ Len(tx) <= Len(y) /\ Len(y) <= Mtu
<1> DEFINE r == SubSeq(tx, Len(Answer) + 1, Len(tx))
<1>1. IsSeq(Answer) /\ Len(Answer) \in Nat /\ Len(tx) \in Nat /\ Len(Answer) <= Mtu /\ Mtu \in Nat
  BY IfaceAssumption, SeqLen DEF IsSeq
<1>2. IsSeq(r) /\ Len(r) = IF Len(Answer) <= Len(tx) THEN Len(tx) - Len(Answer) ELSE 0
  BY <1>1, RestSeq
<1> HIDE DEF r
<1>3. IsSeq(y) /\ Len(y) = Len(Answer) + Len(r)
  BY <1>1, <1>2, ConcatSeq DEF r
<1> QED  BY <1>1, <1>2, <1>3

LEMMA HoldingMore ==
    ASSUME NEW d, NEW k \in Nat, NEW l \in Nat, k <= l, Holding(d, k) PROVE Holding(d, l)
BY DEF Holding

LEMMA EndSizes ==
    ASSUME Sizes, End PROVE Sizes'
BY SizesSame DEF End, ptys, line, Sizes

LEMMA KissSizes ==
    ASSUME Sizes, Tables, NEW n \in Nat, HandleIfaceKiss(n) PROVE Sizes'
<1> DEFINE t       == Drain(decoder, SubSeq(Input, 1, n), rx, Mru)
           answers == SelectSeq(t.got, LAMBDA f : f \in Answered)
           ss      == Used(sock, n)
           y       == Answer \o SubSeq(tx, Len(Answer) + 1, Len(tx))
<1>1. driver = "kiss" /\ driver' = driver
  BY DEF HandleIfaceKiss, End, line
<1>2. CASE End
  BY <1>2, EndSizes
<1>3. CASE ~End
  <2>1. /\ decoder' = Rest(t) /\ rx' = SubSeq(t.buf, 1, t.o)
        /\ tx' = tx \/ tx' = y
        /\ \/ sock' = ss
           \/ sock' = Copied(ss, "this")
           \/ sock' = Copied(Written(ss), "this")
    BY <1>3 DEF HandleIfaceKiss
  <2>2. IsSeq(rx) /\ Len(rx) <= Mru /\ Holding(decoder, Len(rx)) /\ Mru \in Nat
        /\ IsSeq(tx) /\ Len(tx) <= Mtu
    BY <1>1, IfaceAssumption DEF Sizes
  <2>3. /\ IsSeq(t.buf) /\ Len(t.buf) <= Mru
        /\ Holding(Rest(t), Len(t.buf)) /\ Rest(t).o = t.o
    BY <2>2, ReadFits
  <2>4. \A f \in Fd : sock'[f].raw = sock[f].raw
    <3>1. InputOnly(ss)
      BY UsedInput
    <3>2. /\ ss = [f \in Fd |-> ss[f]] /\ \A f \in Fd : ss[f] = [x \in Fields |-> ss[f][x]]
      BY <3>1 DEF InputOnly
    <3>3. \A f \in Fd : ss[f].raw = sock[f].raw
      BY RawUsed
    <3> HIDE DEF ss
    <3> DEFINE w == Written(ss)
    <3>4. \A f \in Fd : w[f].raw = ss[f].raw
      BY <3>2, RawWritten
    <3>5. /\ w = [f \in Fd |-> w[f]] /\ \A f \in Fd : w[f] = [x \in Fields |-> w[f][x]]
      BY <3>2, WrittenTables
    <3>6. \A f \in Fd : Copied(ss, "this")[f].raw = ss[f].raw
      BY <3>2, RawCopied, NotNone
    <3> HIDE DEF w
    <3>7. \A f \in Fd : Copied(w, "this")[f].raw = w[f].raw
      BY <3>5, RawCopied, NotNone
    <3>8. sock' = ss \/ sock' = Copied(ss, "this") \/ sock' = Copied(w, "this")
      BY <2>1 DEF w
    <3> QED  BY <3>3, <3>4, <3>6, <3>7, <3>8
  <2> HIDE DEF t, y
  <2>5. IsSeq(tx') /\ Len(tx) <= Len(tx') /\ Len(tx') <= Mtu
        /\ Len(tx) \in Nat /\ Len(tx') \in Nat
    <3>1. Len(tx) \in Nat
      BY <2>2, SeqLen
    <3>2. CASE tx' = tx
      BY <3>1, <3>2, <2>2
    <3>3. CASE tx' = y
      BY <3>1, <3>3, <2>2, AnswerFits, SeqLen DEF y
    <3> QED  BY <2>1, <3>2, <3>3
  <2>6. \A f \in Fd : Holding(sock'[f].raw, Len(tx'))
    BY <2>4, <2>5, HoldingMore DEF Sizes
  <2>7. /\ IsSeq(rx') /\ Len(rx') = decoder'.o /\ Len(rx') <= Mru
        /\ Holding(decoder', Len(rx'))
    <3>1. t.o \in Nat /\ t.o <= Mru /\ Len(t.buf) \in Nat
      BY <2>2, <2>3, SeqLen DEF Holding
    <3>2. IsSeq(rx') /\ Len(rx') = t.o
      BY <2>1, <3>1, FirstSeq
    <3>3. Holding(decoder', t.o)
      BY <2>1, <2>3, <3>1 DEF Holding
    <3> QED  BY <2>1, <2>3, <3>1, <3>2, <3>3
  <2> QED  BY <1>1, <2>5, <2>6, <2>7 DEF Sizes, IsSeq, Holding
<1> QED  BY <1>2, <1>3

LEMMA TextSizes ==
    ASSUME Sizes, driver = "aprs", NEW text, Len(text) \in Nat, Read(text),
           UNCHANGED <<driver, tx, sock, sent>>
    PROVE  Sizes'
<1> DEFINE a == AprsDrain(decoder, text)
           b == AprsBegin(AprsRest(a))
<1>1. decoder' = AprsRest(a)
  BY DEF Read
<1>2. AprsFitting(a)
  BY AprsDrainFits DEF Sizes
<1> HIDE DEF a
<1>3. /\ b = [x \in AprsFields |-> b[x]] /\ b.state = a.state
      /\ b.call = a.call /\ b.path = a.path /\ b.body = a.body
  BY DEF AprsBegin, AprsRest, AprsFields
<1> HIDE DEF b
<1>4. AprsFitting(b)
  BY <1>2, <1>3 DEF AprsFitting
<1>5. b = AprsBegin(decoder')
  BY <1>1 DEF b
<1> QED  BY <1>4, <1>5 DEF Sizes, Holding, IsSeq, AprsFitting, AprsBegin

LEMMA IfaceSizes ==
    ASSUME Sizes, Tables, HandleIface PROVE Sizes'
<1>1. ASSUME NEW n \in 1 .. BufSize, HandleIfaceKiss(n) PROVE Sizes'
  BY <1>1, KissSizes, IfaceAssumption
<1>2. ASSUME NEW n \in 1 .. BufSize, HandleIfaceAprs(n) PROVE Sizes'
  <2>1. Len(SubSeq(wire, 1, n)) \in Nat
    BY FirstSeq, IfaceAssumption
  <2> QED  BY <1>2, <2>1, TextSizes DEF HandleIfaceAprs
<1>3. CASE HandleIfaceError
  <2>1. CASE End
    BY <2>1, EndSizes
  <2>2. CASE ~End
    <3>1. driver = "aprs" /\ UNCHANGED <<driver, tx, sock, sent>>
      BY <1>3, <2>2 DEF HandleIfaceError
    <3>2. PICK text \in Stale : Read(text)
      BY <1>3, <2>2 DEF HandleIfaceError
    <3>3. Len(text) \in Nat
      <4>1. CASE text = <<>>
        BY <4>1
      <4>2. ASSUME NEW f \in ToSet(sent), text = AprsLine(f) PROVE Len(text) \in Nat
        <5>1. f \in Lines
          BY <3>1, <4>2 DEF Sizes, ToSet
        <5> QED  BY <4>2, <5>1, LineIsSeq, SeqLen
      <4> QED  BY <3>2, <4>1, <4>2 DEF Stale
    <3> QED  BY <3>1, <3>2, <3>3, TextSizes
  <2> QED  BY <2>1, <2>2
<1>4. CASE HandleIfaceEof
  BY <1>4, SizesSame DEF HandleIfaceEof, Sizes
<1>5. CASE HandleIfaceWaits
  BY <1>5, EndSizes DEF HandleIfaceWaits
<1> QED  BY <1>1, <1>2, <1>3, <1>4, <1>5 DEF HandleIface

LEMMA LineSizes ==
    ASSUME Sizes, Line PROVE Sizes'
<1>1. ASSUME NEW f, NEW octets, NEW what, Put(f, octets, what), driver = "kiss" PROVE Sizes'
  BY <1>1, SizesSame DEF Put
<1>2. ASSUME NEW f \in Lines, NEW octets, NEW what, Put(f, octets, what), driver = "aprs"
      PROVE  Sizes'
  <2>1. sent' \in Seq(Lines)
    BY <1>2 DEF Put, Sizes
  <2> QED  BY <1>2, <2>1, SizesSame DEF Put
<1>3. ASSUME NEW c, PutComment(c) PROVE Sizes'
  BY <1>3, SizesSame DEF PutComment, Sizes
<1> QED
  BY <1>1, <1>2, <1>3 DEF Line, PutGarbage, PutFrame, PutShared, PutIdle, PutLine

\* server_socket() and sock_close() put a new record in the place of the old.
LEMMA NewSockSizes ==
    ASSUME Sizes, Tables, NEW f \in Fd, NEW type, sock' = [sock EXCEPT ![f] = Socket(type)],
           UNCHANGED <<driver, decoder, rx, tx, sent>>
    PROVE  Sizes'
<1>1. Len(tx) \in Nat
  BY SeqLen DEF Sizes
<1>2. \A g \in Fd : sock'[g] = sock[g] \/ sock'[g] = Socket(type)
  BY DEF Tables
<1>3. \A g \in Fd : sock'[g].raw = sock[g].raw \/ Holding(sock'[g].raw, Len(tx))
  BY <1>1, <1>2, NewHolding
<1> QED  BY <1>3, SizesSame DEF Sizes

LEMMA SetSockOptSizes ==
    ASSUME Sizes, Tables, NEW f \in Fd, NEW i, NEW p, SetSockOptIf(f, i, p) PROVE Sizes'
<1> DEFINE r == sock[f]
           s == [r EXCEPT !.iface = i, !.promisc = @ \/ p]
<1>1. /\ sock' = [g \in Fd |-> IF g = f THEN s ELSE sock[g]]
      /\ UNCHANGED <<driver, decoder, rx, tx, sent>>
  BY DEF SetSockOptIf, Tables, line
<1>2. r = [x \in Fields |-> r[x]]
  BY DEF Tables
<1> HIDE DEF r
<1>3. s.raw = r.raw
  BY <1>2 DEF Fields
<1> HIDE DEF s
<1>4. \A g \in Fd : sock'[g].raw = sock[g].raw
  BY <1>1, <1>3 DEF r
<1> QED  BY <1>1, <1>4, SizesSame DEF Sizes

LEMMA ListenSizes ==
    ASSUME Sizes, Tables, NEW f \in Fd, ServerListen(f) PROVE Sizes'
<1> DEFINE r == sock[f]
           s == [r EXCEPT !.promisc = FALSE]
<1>1. /\ sock' = [g \in Fd |-> IF g = f THEN s ELSE sock[g]]
      /\ UNCHANGED <<driver, decoder, rx, tx, sent>>
  BY DEF ServerListen, Tables, line
<1>2. r = [x \in Fields |-> r[x]]
  BY DEF Tables
<1> HIDE DEF r
<1>3. s.raw = r.raw
  BY <1>2 DEF Fields
<1> HIDE DEF s
<1>4. \A g \in Fd : sock'[g].raw = sock[g].raw
  BY <1>1, <1>3 DEF r
<1> QED  BY <1>1, <1>4, SizesSame DEF Sizes

LEMMA WriteSizes ==
    ASSUME Sizes, Tables, NEW f \in Fd, NEW frame, NEW octets, NEW what,
           Write(f, frame, octets, what)
    PROVE  Sizes'
<1> DEFINE r == sock[f]
           in == r.in \o octets
           s == [r EXCEPT !.in = in]
<1>1. /\ sock' = [g \in Fd |-> IF g = f THEN s ELSE sock[g]]
      /\ UNCHANGED <<driver, decoder, rx, tx, sent>>
  BY DEF Write, Tables, line
<1>2. r = [x \in Fields |-> r[x]]
  BY DEF Tables
<1> HIDE DEF r, in
<1>3. s.raw = r.raw
  BY <1>2 DEF Fields
<1> HIDE DEF s
<1>4. \A g \in Fd : sock'[g].raw = sock[g].raw
  BY <1>1, <1>3 DEF r
<1> QED  BY <1>1, <1>4, SizesSame DEF Sizes

LEMMA RawSizes ==
    ASSUME Sizes, Tables, NEW f \in Fd, NEW n \in Nat, HandleSockRaw(f, n) PROVE Sizes'
<1> DEFINE r    == sock[f]
           t    == Drain(r.raw, SubSeq(r.in, 1, n), tx, Mtu)
           d    == Rest(t)
           in   == SubSeq(r.in, n + 1, Len(r.in))
           s    == [r EXCEPT !.raw = d, !.in = in]
           rest == [sock EXCEPT ![f].raw = d, ![f].in = in]
<1>1. CASE End
  BY <1>1, EndSizes
<1>2. CASE ~End
  <2>1. /\ tx' = t.buf /\ (sock' = rest \/ sock' = Copied(Written(rest), "this"))
        /\ UNCHANGED <<driver, sent, decoder, rx>>
    BY <1>2 DEF HandleSockRaw, line
  <2>2. IsSeq(tx) /\ Len(tx) <= Mtu /\ Mtu \in Nat /\ Holding(r.raw, Len(tx)) /\ Len(tx) \in Nat
    BY IfaceAssumption, SeqLen DEF Sizes
  <2> HIDE DEF r
  <2>3. /\ IsSeq(t.buf) /\ Len(tx) <= Len(t.buf) /\ Len(t.buf) <= Mtu
        /\ Holding(d, Len(t.buf))
    BY <2>2, ReadFits
  <2> HIDE DEF t, d, in
  <2>4. InputOnly(rest)
    BY SetInput
  <2>5. rest = [g \in Fd |-> IF g = f THEN s ELSE sock[g]]
    BY DEF Tables, r
  <2>6. s.raw = d
    <3>1. r = [x \in Fields |-> r[x]]
      BY DEF Tables, r
    <3> QED  BY <3>1 DEF Fields
  <2> HIDE DEF s, rest
  <2> DEFINE w == Written(rest)
  <2>7. /\ rest = [g \in Fd |-> rest[g]]
        /\ \A g \in Fd : rest[g] = [x \in Fields |-> rest[g][x]]
    BY <2>4 DEF InputOnly
  <2>8. /\ w = [g \in Fd |-> w[g]] /\ \A g \in Fd : w[g] = [x \in Fields |-> w[g][x]]
    BY <2>7, WrittenTables
  <2>9. \A g \in Fd : w[g].raw = rest[g].raw
    BY <2>7, RawWritten
  <2>10. sock' = rest \/ sock' = Copied(w, "this")
    BY <2>1
  <2> HIDE DEF w
  <2>11. \A g \in Fd : Copied(w, "this")[g].raw = w[g].raw
    BY <2>8, RawCopied, NotNone
  <2>12. \A g \in Fd : sock'[g].raw = sock[g].raw \/ sock'[g].raw = d
    BY <2>5, <2>6, <2>9, <2>10, <2>11
  <2>13. Len(t.buf) \in Nat
    BY <2>3, SeqLen
  <2>14. \A g \in Fd : Holding(sock'[g].raw, Len(t.buf))
    BY <2>2, <2>3, <2>12, <2>13, HoldingMore DEF Sizes
  <2>15. IsSeq(tx') /\ Len(tx') <= Mtu /\ \A g \in Fd : Holding(sock'[g].raw, Len(tx'))
    BY <2>1, <2>3, <2>14
  <2>16. CASE driver = "kiss"
    BY <2>1, <2>15, <2>16 DEF Sizes, Holding, IsSeq
  <2>17. CASE driver = "aprs"
    BY <2>1, <2>15, <2>17 DEF Sizes, Holding, IsSeq, AprsFitting, AprsBegin
  <2> QED  BY <2>16, <2>17 DEF Sizes
<1> QED  BY <1>1, <1>2

LEMMA OtherSizes ==
    ASSUME Sizes, Tables, NEW i \in Others, HandleOther(i) PROVE Sizes'
<1>1. CASE End
  BY <1>1, EndSizes
<1>2. CASE ~End
  <2>1. sock' = Copied(sock, i) /\ i \in Interface
        /\ UNCHANGED <<driver, sent, decoder, rx, tx>>
    BY <1>2 DEF HandleOther, line, Interface
  <2>2. \A f \in Fd : sock'[f].raw = sock[f].raw
    BY <2>1, RawCopied DEF Tables
  <2> QED  BY <2>1, <2>2, SizesSame DEF Sizes
<1> QED  BY <1>1, <1>2

LEMMA SizesNext == Sizes /\ SInv /\ [Next]_vars => Sizes'
<1> SUFFICES ASSUME Sizes, SInv, [Next]_vars PROVE Sizes'
  OBVIOUS
<1>0. Tables /\ \A n \in 1 .. BufSize : n \in Nat
  BY IfaceAssumption DEF SInv
<1>1. CASE Line
  BY <1>1, LineSizes
<1>2. CASE HandleIface
  BY <1>0, <1>2, IfaceSizes
<1>3. ASSUME NEW f \in Fd, NEW type, ServerSocket(f, type) PROVE Sizes'
  BY <1>0, <1>3, NewSockSizes DEF ServerSocket, line
<1>4. ASSUME NEW f \in Fd, NEW i, NEW p, SetSockOptIf(f, i, p) PROVE Sizes'
  BY <1>0, <1>4, SetSockOptSizes
<1>5. ASSUME NEW f \in Fd, SockClose(f) PROVE Sizes'
  BY <1>0, <1>5, NewSockSizes DEF SockClose, line
<1>6. ASSUME NEW f \in Fd, NEW frame, WriteFrame(f, frame) PROVE Sizes'
  BY <1>0, <1>6, WriteSizes DEF WriteFrame
<1>7. ASSUME NEW f \in Fd, WriteGarbage(f) PROVE Sizes'
  BY <1>0, <1>7, WriteSizes DEF WriteGarbage
<1>8. ASSUME NEW f \in Fd, NEW n \in 1 .. BufSize, HandleSockRaw(f, n) PROVE Sizes'
  BY <1>0, <1>8, RawSizes
<1>9. ASSUME NEW i \in Others, HandleOther(i) PROVE Sizes'
  BY <1>0, <1>9, OtherSizes
<1>10. CASE UNCHANGED vars
  BY <1>10, SizesSame DEF vars, line, Sizes
<1>11. ASSUME NEW f \in Fd, ServerListen(f) PROVE Sizes'
  BY <1>0, <1>11, ListenSizes
<1>12. CASE Raw
  BY <1>12, <1>3, <1>4, <1>5, <1>6, <1>7, <1>8, <1>11 DEF Raw
<1> QED  BY <1>1, <1>2, <1>9, <1>10, <1>12 DEF Next

\* Whatever arrives on the line, from an APRS-IS server or from the clients of
\* raw sockets, and however the reads divide it, no decoder writes behind the
\* end of its buffer (patty_kiss_tnc_drain() into rx_buf and tx_buf,
\* patty_ax25_aprs_is_drain() into its call, path and payload), for every size
\* of the buffers.
THEOREM IfaceNoOverflow == Spec => []NoOverflow
BY SInvInit, SInvNext, SizesInit, SizesNext, SizesSafe, PTL DEF Spec

---------------------------------------------------------------------------
(***************************************************************************)
(* The way back: what decode_station() and decode_hops() have let through   *)
(* can be answered.                                                         *)
(***************************************************************************)
Answerable(f) == /\ f.src # NoStation /\ f.dest # NoStation
                 /\ IsSeq(f.path) /\ Len(f.path) <= MaxHops
                 /\ \A j \in 1 .. Len(f.path) : f.path[j] # NoStation

LEMMA HandledAnswerable ==
    ASSUME NEW g, NEW f \in Handled(g) PROVE Answerable(f)
<1> DEFINE s == EncodeAddress([dest |-> g.dest, src |-> g.src,
                               cr |-> "COMMAND", path |-> g.path], FALSE)
<1>1. PICK d \in DecodeAddress(s) :
         f = [src |-> d.src, dest |-> d.dest, path |-> d.path, body |-> g.body]
  BY DEF Handled
<1> HIDE DEF s
<1>2. PICK i \in Ends(s) :
         d = [dest |-> s[1].addr, src |-> s[2].addr, cr |-> CrOf(s),
              path |-> [j \in 1 .. (i - 2) |-> s[j + 2].addr]]
  BY DEF DecodeAddress
<1> DEFINE p == [j \in 1 .. (i - 2) |-> s[j + 2].addr]
<1>3. f.src = s[2].addr /\ f.dest = s[1].addr /\ f.path = p
  BY <1>1, <1>2
<1>4. i \in Nat /\ 2 <= i /\ i <= 2 + MaxHops /\ i - 2 \in Nat
  BY FrameAssumption DEF Ends
<1>5. \A j \in 1 .. i : s[j].addr # NoStation
  BY DEF Ends, Decodes
<1>6. \A j \in 1 .. (i - 2) : p[j] # NoStation
  BY <1>4, <1>5
<1>7. s[1].addr # NoStation /\ s[2].addr # NoStation
  BY <1>4, <1>5
<1>8. p = [j \in 1 .. (i - 2) |-> p[j]]
  OBVIOUS
<1> HIDE DEF p
<1>9. IsSeq(p) /\ Len(p) = i - 2
  BY <1>4, <1>8, FcnSeq
<1>10. Len(p) <= MaxHops
  BY <1>4, <1>9, FrameAssumption
<1> QED  BY <1>3, <1>6, <1>7, <1>9, <1>10 DEF Answerable

\* encode_address(), and what is decoded from it
LEMMA MarkedDecodes ==
    ASSUME NEW x, NEW y, x # NoStation, y # NoStation, NEW bx, NEW by,
           NEW p, IsSeq(p), Len(p) <= MaxHops, \A i \in 1 .. Len(p) : p[i] # NoStation
    PROVE  DecodeAddress(Marked(<<AddrCopy(x, bx), AddrCopy(y, by)>>, p)) =
               {[dest |-> x, src |-> y, path |-> p,
                 cr |-> IF bx = by THEN "OLD" ELSE IF bx THEN "COMMAND" ELSE "RESPONSE"]}
<1> DEFINE L   == Len(p)
           q   == [i \in 1 .. Len(p) |-> AddrCopy(p[i], FALSE)]
           h   == <<AddrCopy(x, bx), AddrCopy(y, by)>>
           all == h \o q
           s   == [all EXCEPT ![Len(all)].last = TRUE]
<1>1. L \in Nat /\ L <= MaxHops /\ MaxHops \in Nat /\ \A i \in 1 .. L : p[i] # NoStation
  BY SeqLen, FrameAssumption
<1> HIDE DEF L
<1>4. /\ IsSeq(q) /\ Len(q) = L /\ \A i \in 1 .. L : q[i] = AddrCopy(p[i], FALSE)
  <2>1. q = [i \in 1 .. L |-> q[i]] /\ \A i \in 1 .. L : q[i] = AddrCopy(p[i], FALSE)
    BY DEF L
  <2> HIDE DEF q
  <2> QED  BY <1>1, <2>1, FcnSeq
<1> HIDE DEF q
<1>5. /\ IsSeq(h) /\ Len(h) = 2
      /\ h[1] = AddrCopy(x, bx) /\ h[2] = AddrCopy(y, by)
  <2> DEFINE u == AddrCopy(x, bx)
             w == AddrCopy(y, by)
  <2>1. <<u, w>> \in Seq({u, w}) /\ Len(<<u, w>>) = 2 /\ <<u, w>>[1] = u /\ <<u, w>>[2] = w
    <3> HIDE DEF u, w
    <3> QED  OBVIOUS
  <2> QED  BY <2>1 DEF IsSeq
<1> HIDE DEF h
<1>6. /\ IsSeq(all) /\ Len(all) = L + 2
      /\ all[1] = AddrCopy(x, bx) /\ all[2] = AddrCopy(y, by)
      /\ \A i \in 1 .. L : all[i + 2] = AddrCopy(p[i], FALSE)
  <2>1. IsSeq(h \o q) /\ Len(h \o q) = Len(h) + Len(q)
    BY <1>4, <1>5, ConcatSeq
  <2>2. all = h \o q /\ IsSeq(h) /\ IsSeq(q)
    BY <1>4, <1>5
  <2>3. IsSeq(all) /\ Len(all) = L + 2
    BY <1>1, <1>4, <1>5, <2>1
  <2> HIDE DEF all
  <2>6. /\ \A i \in 1 .. Len(h) : all[i] = h[i]
        /\ \A i \in 1 .. Len(q) : all[Len(h) + i] = q[i]
    BY <2>2, ConcatAt
  <2>4. all[1] = h[1] /\ all[2] = h[2]
    <3>1. 1 \in 1 .. Len(h) /\ 2 \in 1 .. Len(h)
      BY <1>5
    <3> QED  BY <2>6, <3>1
  <2>5. \A i \in 1 .. L : all[i + 2] = q[i]
    <3>1. \A i \in 1 .. L : all[2 + i] = q[i] /\ 2 + i = i + 2
      BY <1>1, <1>4, <1>5, <2>6
    <3> QED  BY <3>1
  <2> QED  BY <1>4, <1>5, <2>3, <2>4, <2>5
<1> HIDE DEF all
<1> DEFINE n == L + 2
<1>7. /\ DOMAIN s = 1 .. n /\ IsSeq(s) /\ Len(s) = n /\ n \in Nat
      /\ \A i \in 1 .. n : s[i] = IF i = n THEN [all[i] EXCEPT !.last = TRUE] ELSE all[i]
  <2>1. DOMAIN all = 1 .. n /\ Len(all) = n /\ n \in Nat
    BY <1>1, <1>6, SeqLen
  <2>2. s = [i \in 1 .. n |-> IF i = n THEN [all[i] EXCEPT !.last = TRUE] ELSE all[i]]
    <3>1. PICK S : all \in Seq(S)
      BY <1>6 DEF IsSeq
    <3>2. all = [i \in 1 .. n |-> all[i]]
      BY <2>1, <3>1
    <3> QED  BY <2>1, <3>2
  <2> HIDE DEF s
  <2>3. s = [i \in 1 .. n |-> s[i]]
    BY <2>2
  <2>4. IsSeq(s) /\ Len(s) = n
    BY <2>1, <2>3, FcnSeq
  <2> QED  BY <2>1, <2>2, <2>4
<1> HIDE DEF s, n
\* Each address, with the bits of its last octet
<1>8. ASSUME NEW i \in 1 .. n, NEW a, NEW b, a # NoStation,
             all[i] = [addr |-> a, c |-> b, last |-> FALSE]
      PROVE  /\ s[i].addr = a /\ s[i].addr # NoStation /\ s[i].c = b
             /\ s[i].last <=> i = n
  <2>1. CASE i = n
    <3>1. s[i] = [[addr |-> a, c |-> b, last |-> FALSE] EXCEPT !.last = TRUE]
      BY <1>7, <1>8, <2>1
    <3>2. s[i] = [addr |-> a, c |-> b, last |-> TRUE]
      BY <3>1
    <3> QED  BY <1>8, <2>1, <3>2
  <2>2. CASE i # n
    <3>1. s[i] = [addr |-> a, c |-> b, last |-> FALSE]
      BY <1>7, <1>8, <2>2
    <3> QED  BY <1>8, <2>2, <3>1
  <2> QED  BY <2>1, <2>2
<1>9. 1 \in 1 .. n /\ 2 \in 1 .. n /\ n - 2 = L /\ n <= 2 + MaxHops /\ 1 # n
  BY <1>1 DEF n
<1>16. s[1].addr = x /\ s[1].addr # NoStation /\ s[1].c = bx /\ (s[1].last <=> 1 = n)
  <2>1. all[1] = [addr |-> x, c |-> bx, last |-> FALSE]
    BY <1>6 DEF AddrCopy
  <2> QED  BY <1>8, <1>9, <2>1
<1>17. s[2].addr = y /\ s[2].addr # NoStation /\ s[2].c = by /\ (s[2].last <=> 2 = n)
  <2>1. all[2] = [addr |-> y, c |-> by, last |-> FALSE]
    BY <1>6 DEF AddrCopy
  <2> QED  BY <1>8, <1>9, <2>1
<1>18. ASSUME NEW j \in 1 .. L
       PROVE  /\ s[j + 2].addr = p[j] /\ s[j + 2].addr # NoStation
              /\ s[j + 2].last <=> j + 2 = n
  <2>1. all[j + 2] = [addr |-> p[j], c |-> FALSE, last |-> FALSE] /\ j + 2 \in 1 .. n
    BY <1>1, <1>6 DEF AddrCopy, n
  <2>2. p[j] # NoStation
    BY <1>1
  <2> QED  BY <1>8, <2>1, <2>2
<1>19. ASSUME NEW i \in 1 .. n PROVE s[i].addr # NoStation /\ (s[i].last <=> i = n)
  <2>1. CASE i = 1
    BY <1>16, <2>1
  <2>2. CASE i = 2
    BY <1>17, <2>2
  <2>3. CASE i # 1 /\ i # 2
    <3>1. i - 2 \in 1 .. L /\ (i - 2) + 2 = i
      BY <1>1, <2>3 DEF n
    <3>2. /\ s[(i - 2) + 2].addr # NoStation
          /\ s[(i - 2) + 2].last <=> (i - 2) + 2 = n
      BY <1>18, <3>1
    <3> QED  BY <3>1, <3>2
  <2> QED  BY <2>1, <2>2, <2>3
<1>10. Ends(s) = {n}
  <2>1. n \in Ends(s)
    <3>1. n \in 2 .. (2 + MaxHops) /\ n \in 1 .. n /\ \A j \in 2 .. (n - 1) : j \in 1 .. n /\ j # n
      BY <1>1, <1>7, <1>9
    <3>2. \A j \in 1 .. n : Decodes(s, j)
      BY <1>7, <1>19 DEF Decodes
    <3>3. s[n].last /\ \A j \in 2 .. (n - 1) : ~s[j].last
      BY <1>19, <3>1
    <3> QED  BY <3>1, <3>2, <3>3 DEF Ends
  <2>2. ASSUME NEW i \in Ends(s) PROVE i = n
    <3>1. i \in 2 .. (2 + MaxHops) /\ (\A j \in 1 .. i : Decodes(s, j)) /\ s[i].last
      BY DEF Ends
    <3>2. i <= Len(s)
      BY <1>1, <3>1 DEF Decodes
    <3>3. i \in 1 .. n
      BY <1>1, <1>7, <3>1, <3>2
    <3> QED  BY <1>19, <3>1, <3>3
  <2> QED  BY <2>1, <2>2
<1>11. CrOf(s) = IF bx = by THEN "OLD" ELSE IF bx THEN "COMMAND" ELSE "RESPONSE"
  BY <1>16, <1>17 DEF CrOf
<1>13. [j \in 1 .. (n - 2) |-> s[j + 2].addr] = p
  <2>1. p = [j \in 1 .. L |-> p[j]]
    BY DEF L, IsSeq
  <2> QED  BY <1>9, <1>18, <2>1
<1>14. DecodeAddress(s) = {[dest |-> x, src |-> y, path |-> p, cr |-> CrOf(s)]}
  <2>1. DecodeAddress(s) = {[dest |-> s[1].addr, src |-> s[2].addr, cr |-> CrOf(s),
                             path |-> [j \in 1 .. (n - 2) |-> s[j + 2].addr]]}
    BY <1>10 DEF DecodeAddress
  <2> QED  BY <1>13, <1>16, <1>17, <2>1
<1>15. Marked(h, p) = s
  BY DEF Marked, s, all, q
<1> QED  BY <1>11, <1>14, <1>15 DEF h

\* The answer to a frame
LEMMA AnswerDecodes ==
    ASSUME NEW f, Answerable(f)
    PROVE  DecodeAddress(EncodeAddress([dest |-> f.dest, src |-> f.src,
                                        cr |-> "COMMAND", path |-> f.path], TRUE)) =
               {[dest |-> f.src, src |-> f.dest, cr |-> "RESPONSE", path |-> Reverse(f.path)]}
<1> DEFINE L == Len(f.path)
           p == Back(f.path)
<1>1. L \in Nat /\ L <= MaxHops /\ MaxHops \in Nat
  BY SeqLen, FrameAssumption DEF Answerable
<1>2. /\ p = [i \in 1 .. L |-> p[i]] /\ \A i \in 1 .. L : p[i] = f.path[L + 1 - i] /\ p[i] # NoStation
  <2>1. p = [i \in 1 .. L |-> f.path[L + 1 - i]]
    BY DEF Back
  <2>2. \A i \in 1 .. L : L + 1 - i \in 1 .. L
    BY <1>1
  <2>3. \A i \in 1 .. L : f.path[L + 1 - i] # NoStation
    BY <2>2 DEF Answerable
  <2> HIDE DEF p, L
  <2> QED  BY <2>1, <2>3
<1> HIDE DEF p, L
<1>3. IsSeq(p) /\ Len(p) = L
  BY <1>1, <1>2, FcnSeq
<1>4. p = Reverse(f.path)
  <2>1. \A j \in 1 .. L : (L - j) + 1 = L + 1 - j
    BY <1>1
  <2>2. Reverse(f.path) = [j \in 1 .. L |-> f.path[(L - j) + 1]]
    BY DEF Reverse, L
  <2> QED  BY <1>2, <2>1, <2>2
<1>5. EncodeAddress([dest |-> f.dest, src |-> f.src, cr |-> "COMMAND", path |-> f.path], TRUE)
          = Marked(<<AddrCopy(f.src, FALSE), AddrCopy(f.dest, TRUE)>>, p)
  BY DEF EncodeAddress, p
<1>6. f.src # NoStation /\ f.dest # NoStation
  BY DEF Answerable
<1>7. DecodeAddress(Marked(<<AddrCopy(f.src, FALSE), AddrCopy(f.dest, TRUE)>>, p))
          = {[dest |-> f.src, src |-> f.dest, path |-> p, cr |-> "RESPONSE"]}
  <2> DEFINE no == FALSE
             yes == TRUE
             x == f.src
             y == f.dest
  <2>1. no # yes /\ ~no /\ x # NoStation /\ y # NoStation
    BY <1>6
  <2>2. IsSeq(p) /\ Len(p) <= MaxHops /\ \A i \in 1 .. Len(p) : p[i] # NoStation
    BY <1>1, <1>2, <1>3
  <2> HIDE DEF no, yes, x, y
  <2>3. DecodeAddress(Marked(<<AddrCopy(x, no), AddrCopy(y, yes)>>, p))
          = {[dest |-> x, src |-> y, path |-> p,
              cr |-> IF no = yes THEN "OLD" ELSE IF no THEN "COMMAND" ELSE "RESPONSE"]}
    BY <2>1, <2>2, MarkedDecodes
  <2>4. DecodeAddress(Marked(<<AddrCopy(x, no), AddrCopy(y, yes)>>, p))
          = {[dest |-> x, src |-> y, path |-> p, cr |-> "RESPONSE"]}
    BY <2>1, <2>3
  <2> QED  BY <2>4 DEF no, yes, x, y
<1> QED  BY <1>4, <1>5, <1>7

\* Every frame heard can be answered.
Answers == driver = "aprs" => IsSeq(heard) /\ \A k \in 1 .. Len(heard) : Answerable(heard[k])

LEMMA AnswersSafe == Answers => ReplyReturns
<1> SUFFICES ASSUME Answers, driver = "aprs", NEW f \in ToSet(heard) PROVE Answerable(f)
  BY AnswerDecodes DEF ReplyReturns
<1> QED  BY SeqLen DEF Answers, ToSet

LEMMA ReadAnswers ==
    ASSUME Answers, driver = "aprs", driver' = driver, NEW text, Read(text) PROVE Answers'
<1>1. CASE UNCHANGED heard
  BY <1>1 DEF Answers, IsSeq, Answerable
<1>2. ASSUME NEW g, NEW f \in Handled(g), heard' = Append(heard, f) PROVE Answers'
  <2> DEFINE h == Append(heard, f)
  <2>1. IsSeq(heard) /\ Len(heard) \in Nat /\ \A k \in 1 .. Len(heard) : Answerable(heard[k])
    BY SeqLen DEF Answers
  <2>2. IsSeq(h) /\ Len(h) = Len(heard) + 1
    BY <2>1, AppendSeq
  <2>3. \A k \in 1 .. Len(h) : k \in 1 .. Len(heard) \/ k = Len(heard) + 1
    BY <2>1, <2>2
  <2>4. h[Len(heard) + 1] = f /\ \A k \in 1 .. Len(heard) : h[k] = heard[k]
    <3>1. PICK S : heard \in Seq(S)
      BY <2>1 DEF IsSeq
    <3>2. heard \in Seq(S \cup {f}) /\ f \in S \cup {f}
      BY <3>1
    <3> QED  BY <3>2
  <2>5. Answerable(f)
    BY HandledAnswerable
  <2> HIDE DEF h
  <2>6. \A k \in 1 .. Len(h) : Answerable(h[k])
    BY <2>1, <2>3, <2>4, <2>5
  <2>7. heard' = h
    BY <1>2 DEF h
  <2> QED  BY <2>2, <2>6, <2>7 DEF Answers, IsSeq, Answerable
<1> QED  BY <1>1, <1>2 DEF Read

LEMMA AnswersInit == Init => Answers
BY NoneSeq DEF Init, Answers

LEMMA AnswersNext == Answers /\ [Next]_vars => Answers'
<1> SUFFICES ASSUME Answers, [Next]_vars, driver' = "aprs" PROVE Answers'
  BY DEF Answers
<1> DEFINE Kept == driver' = driver /\ (UNCHANGED heard \/ \E text : Read(text))
<1>1. ASSUME Line PROVE Kept
  BY <1>1 DEF Line, Put, PutFrame, PutShared, PutIdle, PutGarbage, PutLine, PutComment
<1>2. ASSUME NEW n, HandleIfaceKiss(n) PROVE Kept
  <2>1. driver = "kiss" /\ driver' = driver
    BY <1>2 DEF HandleIfaceKiss, End, line
  <2> QED  BY <2>1
<1>3. ASSUME NEW n, HandleIfaceAprs(n) PROVE Kept
  BY <1>3 DEF HandleIfaceAprs
<1>4. ASSUME HandleIfaceError PROVE Kept
  BY <1>4 DEF HandleIfaceError, End, line
<1>5. ASSUME HandleIfaceEof \/ HandleIfaceWaits PROVE Kept
  BY <1>5 DEF HandleIfaceEof, HandleIfaceWaits, End, line
<1>6. ASSUME HandleIface PROVE Kept
  <2> HIDE DEF Kept
  <2> QED  BY <1>2, <1>3, <1>4, <1>5, <1>6 DEF HandleIface
<1>7. ASSUME NEW f, NEW n, HandleSockRaw(f, n) PROVE Kept
  BY <1>7 DEF HandleSockRaw, End, line
<1>8. ASSUME NEW f, NEW frame, NEW octets, NEW what, Write(f, frame, octets, what) PROVE Kept
  BY <1>8 DEF Write, line
<1>9. ASSUME NEW f, SockClose(f) PROVE Kept
  BY <1>9 DEF SockClose, line
<1>10. ASSUME NEW f, NEW i, NEW p, SetSockOptIf(f, i, p) PROVE Kept
  BY <1>10 DEF SetSockOptIf, line
<1>11. ASSUME NEW f, NEW type, ServerSocket(f, type) PROVE Kept
  BY <1>11 DEF ServerSocket, line
<1>12. ASSUME NEW i, HandleOther(i) PROVE Kept
  BY <1>12 DEF HandleOther, End, line
<1>18. ASSUME NEW f, ServerListen(f) PROVE Kept
  BY <1>18 DEF ServerListen, line
<1>13. ASSUME Raw PROVE Kept
  <2> HIDE DEF Kept
  <2> QED  BY <1>7, <1>8, <1>9, <1>10, <1>11, <1>13, <1>18 DEF Raw, WriteFrame, WriteGarbage
<1>14. ASSUME UNCHANGED vars PROVE Kept
  BY <1>14 DEF vars, line
<1>15. Kept
  <2> HIDE DEF Kept
  <2> QED  BY <1>1, <1>6, <1>12, <1>13, <1>14 DEF Next
<1>16. ASSUME NEW text, Read(text) PROVE Answers'
  BY <1>15, <1>16, ReadAnswers
<1>17. CASE UNCHANGED heard
  BY <1>15, <1>17 DEF Answers, IsSeq, Answerable
<1> QED  BY <1>15, <1>16, <1>17

\* What the daemon would answer to a frame that it has heard goes back to its
\* sender as a response, along the repeaters in the other order
\* (encode_address() after decode_station() and decode_hops()), for every number
\* of repeaters and all stations.
THEOREM IfaceReplyReturns == Spec => []ReplyReturns
BY AnswersInit, AnswersNext, AnswersSafe, PTL DEF Spec

---------------------------------------------------------------------------
(***************************************************************************)
(* Sequences of anything.                                                   *)
(***************************************************************************)
LEMMA CommonSet ==
    ASSUME NEW s, NEW t, IsSeq(s), IsSeq(t) PROVE \E S : s \in Seq(S) /\ t \in Seq(S)
<1>1. PICK S : s \in Seq(S)
  BY DEF IsSeq
<1>2. PICK T : t \in Seq(T)
  BY DEF IsSeq
<1>3. s \in Seq(S \cup T) /\ t \in Seq(S \cup T)
  BY <1>1, <1>2, SeqMonotonic
<1> QED  BY <1>3

LEMMA SameSeq ==
    ASSUME NEW s, NEW t, IsSeq(s), IsSeq(t), Len(s) = Len(t),
           \A i \in 1 .. Len(s) : s[i] = t[i]
    PROVE  s = t
<1>1. PICK S : s \in Seq(S) /\ t \in Seq(S)
  BY CommonSet
<1> QED  BY <1>1, SeqEqual

LEMMA ConcatNone ==
    ASSUME NEW s, IsSeq(s) PROVE s \o <<>> = s /\ <<>> \o s = s
BY ConcatEmptySeq DEF IsSeq

LEMMA ConcatAssoc ==
    ASSUME NEW s, NEW t, NEW u, IsSeq(s), IsSeq(t), IsSeq(u)
    PROVE  (s \o t) \o u = s \o (t \o u)
<1>1. PICK S : s \in Seq(S) /\ t \in Seq(S)
  BY CommonSet
<1>2. PICK T : u \in Seq(T)
  BY DEF IsSeq
<1>3. s \in Seq(S \cup T) /\ t \in Seq(S \cup T) /\ u \in Seq(S \cup T)
  BY <1>1, <1>2, SeqMonotonic
<1> QED  BY <1>3, ConcatAssociative

LEMMA AppendAssoc ==
    ASSUME NEW s, NEW t, NEW c, IsSeq(s), IsSeq(t) PROVE Append(s \o t, c) = s \o Append(t, c)
<1>1. PICK S : s \in Seq(S) /\ t \in Seq(S)
  BY CommonSet
<1> DEFINE T == S \cup {c}
<1>2. s \in Seq(T) /\ t \in Seq(T) /\ c \in T
  BY <1>1, SeqMonotonic
<1> HIDE DEF T
<1>3. s \o t \in Seq(T) /\ <<c>> \in Seq(T)
  BY <1>2, ConcatProperties
<1>4. Append(s \o t, c) = (s \o t) \o <<c>> /\ Append(t, c) = t \o <<c>>
  BY <1>2, <1>3, AppendIsConcat
<1> QED  BY <1>2, <1>3, <1>4, ConcatAssociative

LEMMA SplitSeq ==
    ASSUME NEW s, IsSeq(s), NEW n \in 0 .. Len(s)
    PROVE  /\ IsSeq(SubSeq(s, 1, n)) /\ IsSeq(SubSeq(s, n + 1, Len(s)))
           /\ SubSeq(s, 1, n) \o SubSeq(s, n + 1, Len(s)) = s
<1>1. PICK S : s \in Seq(S)
  BY DEF IsSeq
<1>2. Len(s) \in Nat
  BY <1>1
<1>3. SubSeq(s, 1, n) \o SubSeq(s, n + 1, Len(s)) = SubSeq(s, 1, Len(s))
  <2>1. 1 \in 1 .. Len(s) + 1 /\ n \in 1 - 1 .. Len(s) /\ Len(s) \in n .. Len(s)
    BY <1>2
  <2> QED  BY <1>1, <2>1, ConcatAdjacentSubSeq
<1>4. SubSeq(s, 1, Len(s)) = s
  BY <1>1, SubSeqFull
<1>5. n \in Nat
  BY <1>2
<1>6. IsSeq(SubSeq(s, 1, n)) /\ IsSeq(SubSeq(s, n + 1, Len(s)))
  BY <1>5, FirstSeq, RestSeq
<1> QED  BY <1>3, <1>4, <1>6

---------------------------------------------------------------------------
(***************************************************************************)
(* A run over a sequence in two parts.                                      *)
(***************************************************************************)
LEMMA RunOne ==
    ASSUME NEW t, NEW s, Len(s) = 1 PROVE Run(t, s) = Octet(t, s[1])
<1>1. PICK g : AfterIs(g, t, s, 1) /\ Run(t, s) = g[1]
  BY RunAfter
<1>2. g[0] = t /\ g[1] = Octet(g[0], s[1])
  BY <1>1 DEF AfterIs
<1> QED  BY <1>1, <1>2

LEMMA RunTwo ==
    ASSUME NEW t, NEW s, Len(s) = 2 PROVE Run(t, s) = Octet(Octet(t, s[1]), s[2])
<1>1. PICK g : AfterIs(g, t, s, 2) /\ Run(t, s) = g[2]
  <2>1. Len(s) \in Nat
    OBVIOUS
  <2>2. \E g : AfterIs(g, t, s, Len(s)) /\ Run(t, s) = g[Len(s)]
    BY <2>1, RunAfter
  <2> QED  BY <2>2
<1>2. g[0] = t /\ g[1] = Octet(g[0], s[1]) /\ g[2] = Octet(g[1], s[2])
  BY <1>1 DEF AfterIs
<1> QED  BY <1>1, <1>2

LEMMA RunNone ==
    ASSUME NEW t PROVE Run(t, <<>>) = t
<1>1. PICK g : AfterIs(g, t, <<>>, 0) /\ Run(t, <<>>) = g[0]
  BY RunAfter
<1> QED  BY <1>1 DEF AfterIs

LEMMA RunConcat ==
    ASSUME NEW t, NEW a, NEW b, IsSeq(a), IsSeq(b)
    PROVE  Run(t, a \o b) = Run(Run(t, a), b)
<1> DEFINE c == a \o b
           m == Len(a)
           n == Len(b)
<1>1. m \in Nat /\ n \in Nat /\ Len(c) = m + n
  BY SeqLen, ConcatSeq
<1>2. (\A i \in 1 .. m : c[i] = a[i]) /\ (\A i \in 1 .. n : c[m + i] = b[i])
  BY ConcatAt
<1> HIDE DEF c
<1>3. PICK g : AfterIs(g, t, a, m) /\ Run(t, a) = g[m]
  BY <1>1, RunAfter
<1> DEFINE u == Run(t, a)
<1>4. PICK h : AfterIs(h, u, b, n) /\ Run(u, b) = h[n]
  BY <1>1, RunAfter
<1>5. PICK k : AfterIs(k, t, c, m + n) /\ Run(t, c) = k[m + n]
  BY <1>1, RunAfter
<1> HIDE DEF m, n, u
<1>6. g[0] = t /\ \A i \in 1 .. m : g[i] = Octet(g[i - 1], a[i])
  BY <1>1, <1>3 DEF AfterIs
<1>7. h[0] = u /\ \A i \in 1 .. n : h[i] = Octet(h[i - 1], b[i])
  BY <1>1, <1>4 DEF AfterIs
<1>8. k[0] = t /\ \A i \in 1 .. (m + n) : k[i] = Octet(k[i - 1], c[i])
  BY <1>1, <1>5 DEF AfterIs
<1>9. k[m] = g[m]
  <2> DEFINE S == {i \in Nat : i <= m => k[i] = g[i]}
  <2>1. 0 \in S
    BY <1>6, <1>8
  <2>2. ASSUME NEW i \in S PROVE i + 1 \in S
    <3> SUFFICES ASSUME i + 1 <= m PROVE k[i + 1] = g[i + 1]
      OBVIOUS
    <3>1. i \in Nat /\ k[i] = g[i] /\ i + 1 \in 1 .. m /\ i + 1 \in 1 .. (m + n) /\ (i + 1) - 1 = i
      BY <1>1
    <3> QED  BY <1>2, <1>6, <1>8, <3>1
  <2>3. S = Nat
    <3> HIDE DEF S
    <3>1. S \subseteq Nat
      BY DEF S
    <3> QED  BY <2>1, <2>2, <3>1, SetInduction
  <2> QED  BY <1>1, <2>3
<1>10. k[m + n] = h[n]
  <2> DEFINE S == {i \in Nat : i <= n => k[m + i] = h[i]}
  <2>1. 0 \in S
    BY <1>1, <1>3, <1>7, <1>9 DEF u
  <2>2. ASSUME NEW i \in S PROVE i + 1 \in S
    <3> SUFFICES ASSUME i + 1 <= n PROVE k[m + (i + 1)] = h[i + 1]
      OBVIOUS
    <3>1. /\ i \in Nat /\ k[m + i] = h[i] /\ i + 1 \in 1 .. n /\ (i + 1) - 1 = i
          /\ m + (i + 1) \in 1 .. (m + n) /\ (m + (i + 1)) - 1 = m + i
      BY <1>1
    <3>2. k[m + (i + 1)] = Octet(k[m + i], c[m + (i + 1)]) /\ c[m + (i + 1)] = b[i + 1]
      BY <1>2, <1>8, <3>1
    <3> QED  BY <1>7, <3>1, <3>2
  <2>3. S = Nat
    <3> HIDE DEF S
    <3>1. S \subseteq Nat
      BY DEF S
    <3> QED  BY <2>1, <2>2, <3>1, SetInduction
  <2> QED  BY <1>1, <2>3
<1> QED  BY <1>4, <1>5, <1>10 DEF u, c

\* A decoder that has stopped does nothing.
LEMMA RunStopped ==
    ASSUME NEW t, NEW s, IsSeq(s), t.stop PROVE Run(t, s) = t
<1>1. Len(s) \in Nat
  BY SeqLen
<1>2. PICK g : AfterIs(g, t, s, Len(s)) /\ Run(t, s) = g[Len(s)]
  BY <1>1, RunAfter
<1>3. g[0] = t /\ \A i \in 1 .. Len(s) : g[i] = Octet(g[i - 1], s[i])
  BY <1>1, <1>2 DEF AfterIs
<1> DEFINE S == {i \in Nat : i <= Len(s) => g[i] = t}
<1>4. 0 \in S
  BY <1>3
<1>5. ASSUME NEW i \in S PROVE i + 1 \in S
  <2> SUFFICES ASSUME i + 1 <= Len(s) PROVE g[i + 1] = t
    OBVIOUS
  <2>1. i \in Nat /\ g[i] = t /\ i + 1 \in 1 .. Len(s) /\ (i + 1) - 1 = i
    BY <1>1
  <2>2. g[i + 1] = Octet(t, s[i + 1])
    BY <1>3, <2>1
  <2> QED  BY <2>2 DEF Octet
<1>6. S = Nat
  <2> HIDE DEF S
  <2>1. S \subseteq Nat
    BY DEF S
  <2> QED  BY <1>4, <1>5, <2>1, SetInduction
<1> QED  BY <1>1, <1>2, <1>6

---------------------------------------------------------------------------
(***************************************************************************)
(* One octet, field by field.                                               *)
(***************************************************************************)
States == {"NONE", "COMMAND", "BODY", "ESCAPE"}

\* A decoder in the middle of a read.
Working(t) == /\ t = [x \in WorkFields |-> t[x]] /\ t.state \in States
              /\ t.size \in Nat /\ t.o \in Nat /\ IsSeq(t.buf) /\ t.o <= Len(t.buf)
              /\ IsSeq(t.got) /\ t.stop \in BOOLEAN /\ (~t.stop => t.fail = "no")

\* v is t with another state.
Moved(t, v, state) ==
    /\ v.state = state /\ v.command = t.command /\ v.port = t.port /\ v.o = t.o /\ v.buf = t.buf
    /\ v.got = t.got /\ v.stop = t.stop /\ v.fail = t.fail

Stopped(t, v, state, fail) ==
    /\ v.state = state /\ v.command = t.command /\ v.port = t.port /\ v.o = t.o /\ v.buf = t.buf
    /\ v.got = t.got /\ v.stop = TRUE /\ v.fail = fail

Opened(t, v, c) ==
    /\ v.state = "BODY" /\ v.command = Command(c) /\ v.port = Port(c) /\ v.o = t.o
    /\ v.buf = t.buf /\ v.got = t.got /\ v.stop = t.stop /\ v.fail = t.fail

Stored(t, v, c) ==
    /\ v.state = "BODY" /\ v.command = t.command /\ v.port = t.port /\ v.o = t.o + 1
    /\ v.buf = (IF t.o < Len(t.buf) THEN [t.buf EXCEPT ![t.o + 1] = c] ELSE Append(t.buf, c))
    /\ v.got = t.got /\ v.stop = t.stop /\ v.fail = t.fail

Ended(t, v) ==
    /\ v.state = "NONE" /\ v.command = RETURN /\ v.port = t.port /\ v.o = 0 /\ v.buf = t.buf
    /\ v.got = Append(t.got, SubSeq(t.buf, 1, t.o)) /\ v.stop = t.stop /\ v.fail = t.fail

Taking(t, c, v) ==
    \/ /\ t.state = "NONE" /\ c = FEND /\ Moved(t, v, "COMMAND")
    \/ /\ t.state = "NONE" /\ c # FEND /\ Moved(t, v, "NONE")
    \/ /\ t.state = "COMMAND" /\ Command(c) = FEND /\ Moved(t, v, "COMMAND")
    \/ /\ t.state = "COMMAND" /\ Command(c) # FEND /\ Command(c) \notin Known
       /\ Stopped(t, v, "COMMAND", "EIO")
    \/ /\ t.state = "COMMAND" /\ Command(c) # FEND /\ Command(c) \in Known /\ Opened(t, v, c)
    \/ /\ t.state = "BODY" /\ c = FESC /\ Moved(t, v, "ESCAPE")
    \/ /\ t.state = "BODY" /\ c = FEND
       /\ t.command = DATA /\ t.port = 0 /\ t.o > 0 /\ Ended(t, v)
    \/ /\ t.state = "BODY" /\ c = FEND
       /\ ~(t.command = DATA /\ t.port = 0 /\ t.o > 0) /\ Stopped(t, v, "COMMAND", t.fail)
    \/ /\ t.state = "BODY" /\ c \notin {FESC, FEND} /\ t.command = DATA /\ Stored(t, v, c)
    \/ /\ t.state = "BODY" /\ c \notin {FESC, FEND} /\ t.command # DATA /\ Moved(t, v, "BODY")
    \/ /\ t.state = "ESCAPE" /\ c = TFEND /\ Stored(t, v, FEND)
    \/ /\ t.state = "ESCAPE" /\ c = TFESC /\ Stored(t, v, FESC)
    \/ /\ t.state = "ESCAPE" /\ c \notin {TFEND, TFESC} /\ Stopped(t, v, "ESCAPE", "EIO")

Record(v) == v = [x \in WorkFields |-> v[x]]

LEMMA OctetTakes ==
    ASSUME NEW t, Record(t), t.state \in States, ~t.stop, ~Full(t), NEW c
    PROVE  LET v == Octet(t, c) IN Record(v) /\ v.size = t.size /\ Taking(t, c, v)
<1> DEFINE u == [t EXCEPT !.at = @ + 1]
           v == Octet(t, c)
<1>1. Record(u) /\ u.size = t.size /\ Moved(t, u, t.state)
  BY DEF Record, WorkFields, Moved
<1>2. v = CASE t.state = "NONE"    -> InNone(u, c)
            [] t.state = "COMMAND" -> InCommand(u, c)
            [] t.state = "BODY"    -> InBody(u, c)
            [] t.state = "ESCAPE"  -> InEscape(u, c)
  BY DEF Octet
<1> HIDE DEF u, v
<1>3. ASSUME NEW s PROVE LET w == [u EXCEPT !.state = s]
                         IN  Record(w) /\ w.size = t.size /\ Moved(t, w, s)
  BY <1>1 DEF Record, WorkFields, Moved
<1>4. LET w == Error(u) IN Record(w) /\ w.size = t.size /\ Stopped(t, w, t.state, "EIO")
  BY <1>1 DEF Record, WorkFields, Moved, Stopped, Error
<1>5. ASSUME NEW d
      PROVE  LET w == Store(u, d) IN Record(w) /\ w.size = t.size /\ Stored(t, w, d)
  <2> DEFINE b == IF t.o < Len(t.buf) THEN [t.buf EXCEPT ![t.o + 1] = d] ELSE Append(t.buf, d)
             w == [u EXCEPT !.state = "BODY", !.o = @ + 1, !.buf = b]
  <2>1. Store(u, d) = w
    BY <1>1 DEF Store, Moved, Record, WorkFields
  <2> HIDE DEF b
  <2>2. /\ Record(w) /\ w.size = t.size /\ w.state = "BODY" /\ w.command = t.command
        /\ w.port = t.port /\ w.o = t.o + 1 /\ w.buf = b
        /\ w.got = t.got /\ w.stop = t.stop /\ w.fail = t.fail
    BY <1>1 DEF Moved, Record, WorkFields
  <2> HIDE DEF w
  <2> QED  BY <2>1, <2>2 DEF Stored, b
<1>6. CASE t.state = "NONE"
  <2>1. v = IF c = FEND THEN [u EXCEPT !.state = "COMMAND"] ELSE u
    BY <1>2, <1>6 DEF InNone
  <2>2. Moved(t, u, "NONE")
    BY <1>1, <1>6
  <2> QED  BY <1>1, <1>3, <1>6, <2>1, <2>2 DEF Taking, v
<1>7. CASE t.state = "COMMAND"
  <2> DEFINE w == [u EXCEPT !.state = "BODY", !.command = Command(c), !.port = Port(c)]
  <2>1. v = IF Command(c) = FEND THEN u ELSE IF Command(c) \notin Known THEN Error(u) ELSE w
    BY <1>2, <1>7 DEF InCommand
  <2>2. Moved(t, u, "COMMAND")
    BY <1>1, <1>7
  <2>3. Record(w) /\ w.size = t.size /\ Opened(t, w, c)
    BY <1>1 DEF Moved, Record, WorkFields, Opened
  <2> HIDE DEF w
  <2> QED  BY <1>1, <1>4, <1>7, <2>1, <2>2, <2>3 DEF Taking, v
<1>8. CASE t.state = "BODY"
  <2> DEFINE w == [u EXCEPT !.state = "COMMAND"]
             p == t.command = DATA /\ t.port = 0 /\ t.o > 0
             z == [w EXCEPT !.stop = TRUE]
  <2>1. Record(w) /\ w.size = t.size /\ Moved(t, w, "COMMAND")
    BY <1>3
  <2>2. Pending(w) <=> p
    BY <2>1 DEF Pending, Moved
  <2>3. v = CASE c = FESC -> [u EXCEPT !.state = "ESCAPE"]
              [] c = FEND -> IF Pending(w) THEN Flush(w) ELSE z
              [] OTHER    -> IF u.command = DATA THEN Store(u, c) ELSE u
    BY <1>2, <1>8 DEF InBody
  <2> HIDE DEF w
  <2>4. Record(z) /\ z.size = t.size /\ Stopped(t, z, "COMMAND", t.fail)
    BY <2>1 DEF Moved, Record, WorkFields, Stopped
  <2>5. Record(Flush(w)) /\ Flush(w).size = t.size /\ Ended(t, Flush(w))
    <3> DEFINE e == SubSeq(t.buf, 1, t.o)
               q == Append(t.got, e)
    <3>1. Taken(w) = [w EXCEPT !.got = q, !.start = w.at]
      BY <2>1 DEF Taken, Moved, Record, WorkFields
    <3> HIDE DEF q
    <3> DEFINE y == [w EXCEPT !.got = q, !.start = w.at]
    <3>2. /\ Record(y) /\ y.size = t.size /\ y.got = q /\ y.buf = t.buf /\ y.port = t.port
          /\ y.stop = t.stop /\ y.fail = t.fail
      BY <2>1 DEF Moved, Record, WorkFields
    <3>3. Flush(w) = [y EXCEPT !.state = "NONE", !.command = RETURN, !.o = 0]
      BY <3>1 DEF Flush
    <3> HIDE DEF y
    <3> DEFINE x == [y EXCEPT !.state = "NONE", !.command = RETURN, !.o = 0]
    <3>4. /\ Record(x) /\ x.size = t.size /\ x.state = "NONE" /\ x.command = RETURN
          /\ x.port = t.port /\ x.o = 0 /\ x.buf = t.buf /\ x.got = q
          /\ x.stop = t.stop /\ x.fail = t.fail
      BY <3>2 DEF Record, WorkFields
    <3> HIDE DEF x
    <3>5. Flush(w) = x
      BY <3>3 DEF x
    <3> QED  BY <3>4, <3>5 DEF Ended, q
  <2>6. Moved(t, u, "BODY") /\ u.command = t.command
    BY <1>1, <1>8 DEF Moved
  <2> HIDE DEF z
  <2>7. CASE c = FESC
    <3>1. v = [u EXCEPT !.state = "ESCAPE"]
      BY <2>3, <2>7 DEF FESC, FEND
    <3> QED  BY <1>3, <1>8, <2>7, <3>1 DEF Taking, v
  <2>8. CASE c = FEND
    <3>1. v = IF p THEN Flush(w) ELSE z
      BY <2>2, <2>3, <2>8 DEF FESC, FEND
    <3> QED  BY <1>8, <2>4, <2>5, <2>8, <3>1 DEF Taking, v
  <2>9. CASE c \notin {FESC, FEND}
    <3>1. v = IF u.command = DATA THEN Store(u, c) ELSE u
      BY <2>3, <2>9
    <3> QED  BY <1>1, <1>5, <1>8, <2>6, <2>9, <3>1 DEF Taking, v
  <2> QED  BY <2>7, <2>8, <2>9
<1>9. CASE t.state = "ESCAPE"
  <2>1. v = CASE c = TFEND -> Store(u, FEND)
              [] c = TFESC -> Store(u, FESC)
              [] OTHER     -> Error(u)
    BY <1>2, <1>9 DEF InEscape
  <2>2. \/ c = TFEND /\ v = Store(u, FEND)
        \/ c = TFESC /\ v = Store(u, FESC)
        \/ c \notin {TFEND, TFESC} /\ v = Error(u)
    BY <2>1 DEF TFEND, TFESC
  <2> QED  BY <1>4, <1>5, <1>9, <2>2 DEF Taking, v
<1> QED  BY <1>6, <1>7, <1>8, <1>9 DEF States

\* Where an octet is stored the buffer is one longer, or was long enough.
LEMMA StoredAt ==
    ASSUME NEW t, NEW v, NEW c, Working(t), Stored(t, v, c)
    PROVE  /\ IsSeq(v.buf) /\ v.o \in Nat /\ v.o <= Len(v.buf)
           /\ v.buf[v.o] = c /\ \A i \in 1 .. t.o : v.buf[i] = t.buf[i]
<1> DEFINE b == t.buf
           n == t.o
<1>1. IsSeq(b) /\ n \in Nat /\ n <= Len(b)
  BY DEF Working
<1>2. Len(b) \in Nat /\ DOMAIN b = 1 .. Len(b)
  BY <1>1, SeqLen
<1>3. v.o = n + 1 /\ v.buf = IF n < Len(b) THEN [b EXCEPT ![n + 1] = c] ELSE Append(b, c)
  BY DEF Stored
<1> HIDE DEF b, n
<1>4. CASE n < Len(b)
  <2> DEFINE x == [b EXCEPT ![n + 1] = c]
  <2>0. v.buf = x
    BY <1>3, <1>4
  <2>1. IsSeq(x) /\ Len(x) = Len(b)
    BY <1>1, SeqExcept
  <2>2. x[n + 1] = c /\ \A i \in 1 .. n : x[i] = b[i]
    BY <1>1, <1>2, <1>4
  <2> HIDE DEF x
  <2> QED  BY <1>1, <1>2, <1>3, <1>4, <2>0, <2>1, <2>2 DEF b, n
<1>5. CASE ~(n < Len(b))
  <2>0. v.buf = Append(b, c)
    BY <1>3, <1>5
  <2>1. n = Len(b)
    <3>1. Len(b) \in Nat /\ n \in Nat /\ n <= Len(b)
      BY <1>1, <1>2
    <3> QED  BY <1>5, <3>1
  <2> DEFINE x == Append(b, c)
  <2>2. IsSeq(x) /\ Len(x) = n + 1
    BY <1>1, <2>1, AppendSeq
  <2>3. PICK S : b \in Seq(S)
    BY <1>1 DEF IsSeq
  <2>4. b \in Seq(S \cup {c}) /\ c \in S \cup {c}
    BY <2>3, SeqMonotonic
  <2>5. (\A i \in 1 .. Len(b) : x[i] = b[i]) /\ x[Len(b) + 1] = c
    BY <2>4, AppendProperties
  <2> HIDE DEF x
  <2>6. v.buf = x
    BY <2>0 DEF x
  <2> QED  BY <1>1, <1>2, <1>3, <2>1, <2>2, <2>5, <2>6 DEF b, n
<1> QED  BY <1>4, <1>5

LEMMA TakingWorks ==
    ASSUME NEW t, NEW v, NEW c, Working(t), ~t.stop, Record(v), v.size = t.size,
           Taking(t, c, v)
    PROVE  Working(v)
<1>1. /\ t.size \in Nat /\ t.o \in Nat /\ IsSeq(t.buf) /\ t.o <= Len(t.buf) /\ IsSeq(t.got)
      /\ t.stop = FALSE /\ t.fail = "no" /\ Len(t.buf) \in Nat
  BY SeqLen DEF Working
<1>2. ASSUME NEW s \in States, Moved(t, v, s) PROVE Working(v)
  BY <1>1, <1>2 DEF Moved, Working, Record
<1>3. ASSUME NEW s \in States, NEW e, Stopped(t, v, s, e) PROVE Working(v)
  BY <1>1, <1>3 DEF Stopped, Working, Record
<1>4. CASE Opened(t, v, c)
  BY <1>1, <1>4 DEF Opened, Working, Record, States
<1>5. ASSUME NEW d, Stored(t, v, d) PROVE Working(v)
  <2>1. IsSeq(v.buf) /\ v.o \in Nat /\ v.o <= Len(v.buf)
    BY <1>5, StoredAt
  <2>2. v.state = "BODY" /\ v.got = t.got /\ v.stop = t.stop /\ v.fail = t.fail
    BY <1>5 DEF Stored
  <2> QED  BY <1>1, <2>1, <2>2 DEF Working, Record, States
<1>6. CASE Ended(t, v)
  <2> DEFINE e == SubSeq(t.buf, 1, t.o)
  <2>1. IsSeq(Append(t.got, e))
    BY <1>1, AppendSeq
  <2> HIDE DEF e
  <2>2. /\ v.state = "NONE" /\ v.o = 0 /\ v.buf = t.buf /\ v.got = Append(t.got, e)
        /\ v.stop = t.stop /\ v.fail = t.fail
    BY <1>6 DEF Ended, e
  <2>3. IsSeq(v.got)
    BY <2>1, <2>2
  <2>4. IsSeq(v.buf) /\ v.o \in Nat /\ v.o <= Len(v.buf)
    BY <1>1, <2>2
  <2> QED  BY <1>1, <2>2, <2>3, <2>4 DEF Working, Record, States
<1> QED
  BY <1>2, <1>3, <1>4, <1>5, <1>6 DEF Taking, States

---------------------------------------------------------------------------
(***************************************************************************)
(* Two decoders in the same state go on alike, whatever read their octets   *)
(* are in, and if the buffers agree they find the same frames, as long as   *)
(* the buffer is never full.                                                *)
(***************************************************************************)
Together(t, u) ==
    /\ t.state = u.state /\ t.command = u.command /\ t.port = u.port /\ t.o = u.o
    /\ t.size = u.size /\ t.stop = u.stop /\ t.fail = u.fail

\* What has been found before is pre.
SameText(t, u, pre) ==
    /\ \A i \in 1 .. t.o : t.buf[i] = u.buf[i]
    /\ t.got = pre \o u.got

Alike(t, u, pre, same) == Working(t) /\ Working(u) /\ Together(t, u) /\ (same => SameText(t, u, pre))

LEMMA StoredAlike ==
    ASSUME NEW t, NEW u, NEW v, NEW w, NEW c, NEW pre, Working(t), Working(u),
           Stored(t, v, c), Stored(u, w, c), Together(t, u), SameText(t, u, pre)
    PROVE  SameText(v, w, pre)
<1>1. /\ v.buf[v.o] = c /\ (\A i \in 1 .. t.o : v.buf[i] = t.buf[i])
      /\ w.buf[w.o] = c /\ (\A i \in 1 .. u.o : w.buf[i] = u.buf[i])
  BY StoredAt
<1>2. v.o = t.o + 1 /\ w.o = u.o + 1 /\ t.o = u.o /\ t.o \in Nat
      /\ v.got = t.got /\ w.got = u.got
  BY DEF Stored, Together, Working
<1>3. ASSUME NEW i \in 1 .. v.o PROVE v.buf[i] = w.buf[i]
  <2>1. CASE i = v.o
    BY <1>1, <1>2, <2>1
  <2>2. CASE i \in 1 .. t.o
    BY <1>1, <1>2, <2>2 DEF SameText
  <2> QED  BY <1>2, <2>1, <2>2
<1> QED  BY <1>2, <1>3 DEF SameText

LEMMA EndedAlike ==
    ASSUME NEW t, NEW u, NEW v, NEW w, NEW pre, Working(t), Working(u), IsSeq(pre),
           Ended(t, v), Ended(u, w), Together(t, u), SameText(t, u, pre)
    PROVE  SameText(v, w, pre)
<1> DEFINE e == SubSeq(t.buf, 1, t.o)
           f == SubSeq(u.buf, 1, u.o)
<1>1. e = f
  <2>1. t.o \in Nat /\ u.o = t.o /\ \A i \in 1 .. t.o : t.buf[i] = u.buf[i]
    BY DEF Working, Together, SameText
  <2>2. /\ IsSeq(e) /\ Len(e) = t.o /\ (\A i \in 1 .. t.o : e[i] = t.buf[i])
        /\ IsSeq(f) /\ Len(f) = t.o /\ (\A i \in 1 .. t.o : f[i] = u.buf[i])
    BY <2>1, FirstSeq
  <2> HIDE DEF e, f
  <2> QED  BY <2>1, <2>2, SameSeq
<1> HIDE DEF e, f
<1>2. v.got = Append(pre \o u.got, e) /\ w.got = Append(u.got, e) /\ v.o = 0
  BY <1>1 DEF Ended, SameText, e, f
<1>3. Append(pre \o u.got, e) = pre \o Append(u.got, e)
  <2>1. IsSeq(pre) /\ IsSeq(u.got)
    BY DEF Working
  <2> QED  BY <2>1, AppendAssoc
<1>4. \A i \in 1 .. v.o : v.buf[i] = w.buf[i]
  BY <1>2
<1> QED  BY <1>2, <1>3, <1>4 DEF SameText

LEMMA OctetAlike ==
    ASSUME NEW t, NEW u, NEW pre, NEW same \in BOOLEAN, NEW c, IsSeq(pre),
           Alike(t, u, pre, same), ~t.stop, ~Full(t)
    PROVE  Alike(Octet(t, c), Octet(u, c), pre, same)
<1> DEFINE v == Octet(t, c)
           w == Octet(u, c)
<1>1. Working(t) /\ Working(u) /\ Together(t, u) /\ (same => SameText(t, u, pre))
  BY DEF Alike
<1>2. ~u.stop /\ ~Full(u) /\ Record(t) /\ Record(u) /\ t.state \in States /\ u.state \in States
  BY <1>1 DEF Together, Full, Working, Record
<1>3. Record(v) /\ v.size = t.size /\ Taking(t, c, v)
  BY <1>2, OctetTakes
<1>4. Record(w) /\ w.size = u.size /\ Taking(u, c, w)
  BY <1>2, OctetTakes
<1> HIDE DEF v, w
<1>5. Working(v) /\ Working(w)
  BY <1>1, <1>2, <1>3, <1>4, TakingWorks
<1>6. \/ \E s : Moved(t, v, s) /\ Moved(u, w, s)
      \/ \E s, e : Stopped(t, v, s, e) /\ Stopped(u, w, s, e)
      \/ Opened(t, v, c) /\ Opened(u, w, c)
      \/ \E d : Stored(t, v, d) /\ Stored(u, w, d)
      \/ Ended(t, v) /\ Ended(u, w)
  <2>1. t.state = u.state /\ t.command = u.command /\ t.port = u.port /\ t.o = u.o /\ t.fail = u.fail
    BY <1>1 DEF Together
  <2>2. CASE t.state = "NONE"
    BY <1>3, <1>4, <2>1, <2>2 DEF Taking
  <2>3. CASE t.state = "COMMAND"
    BY <1>3, <1>4, <2>1, <2>3 DEF Taking
  <2>4. CASE t.state = "BODY"
    <3>1. CASE c = FESC
      BY <1>3, <1>4, <2>1, <2>4, <3>1 DEF Taking, FESC, FEND
    <3>2. CASE c = FEND
      BY <1>3, <1>4, <2>1, <2>4, <3>2 DEF Taking, FESC, FEND
    <3>3. CASE c \notin {FESC, FEND}
      BY <1>3, <1>4, <2>1, <2>4, <3>3 DEF Taking
    <3> QED  BY <3>1, <3>2, <3>3
  <2>5. CASE t.state = "ESCAPE"
    BY <1>3, <1>4, <2>1, <2>5 DEF Taking, TFEND, TFESC
  <2> QED  BY <1>2, <2>2, <2>3, <2>4, <2>5 DEF States
<1>7. ASSUME NEW s, Moved(t, v, s), Moved(u, w, s)
      PROVE  Together(v, w) /\ (same => SameText(v, w, pre))
  BY <1>1, <1>3, <1>4, <1>7 DEF Moved, Together, SameText
<1>8. ASSUME NEW s, NEW e, Stopped(t, v, s, e), Stopped(u, w, s, e)
      PROVE  Together(v, w) /\ (same => SameText(v, w, pre))
  BY <1>1, <1>3, <1>4, <1>8 DEF Stopped, Together, SameText
<1>9. ASSUME Opened(t, v, c), Opened(u, w, c)
      PROVE  Together(v, w) /\ (same => SameText(v, w, pre))
  BY <1>1, <1>3, <1>4, <1>9 DEF Opened, Together, SameText
<1>10. ASSUME NEW d, Stored(t, v, d), Stored(u, w, d)
       PROVE  Together(v, w) /\ (same => SameText(v, w, pre))
  <2>1. Together(v, w)
    BY <1>1, <1>3, <1>4, <1>10 DEF Stored, Together
  <2> QED  BY <1>1, <1>10, <2>1, StoredAlike
<1>11. ASSUME Ended(t, v), Ended(u, w)
       PROVE  Together(v, w) /\ (same => SameText(v, w, pre))
  <2>1. Together(v, w)
    BY <1>1, <1>3, <1>4, <1>11 DEF Ended, Together
  <2> QED  BY <1>1, <1>11, <2>1, EndedAlike
<1>12. Together(v, w) /\ (same => SameText(v, w, pre))
  BY <1>6, <1>7, <1>8, <1>9, <1>10, <1>11
<1> QED  BY <1>5, <1>12 DEF Alike, v, w

\* A read that ends without an error, or with one that only the interface
\* pays for.
Sound(t) == t.stop => t.fail = "EIO"

LEMMA SoundBefore ==
    ASSUME NEW t, Working(t), NEW c, Sound(Octet(t, c))
    PROVE  Sound(t) /\ (~t.stop => ~Full(t))
<1>1. CASE t.stop
  BY <1>1 DEF Octet
<1>2. CASE ~t.stop /\ Full(t)
  <2>1. Octet(t, c) = Drop(t)
    BY <1>2 DEF Octet
  <2>2. Record(t)
    BY DEF Working, Record
  <2>3. Drop(t).stop = TRUE /\ Drop(t).fail \in {"any", "no"}
    BY <2>2 DEF Drop, Record, WorkFields
  <2> QED  BY <2>1, <2>3 DEF Sound
<1>3. CASE ~t.stop /\ ~Full(t)
  BY <1>3 DEF Sound
<1> QED  BY <1>1, <1>2, <1>3

LEMMA RunAlike ==
    ASSUME NEW t, NEW u, NEW pre, NEW same \in BOOLEAN, NEW s, IsSeq(s), IsSeq(pre),
           Alike(t, u, pre, same), Sound(Run(t, s))
    PROVE  Alike(Run(t, s), Run(u, s), pre, same)
<1>0. Len(s) \in Nat
  BY SeqLen
<1>1. PICK g : AfterIs(g, t, s, Len(s)) /\ Run(t, s) = g[Len(s)]
  BY <1>0, RunAfter
<1>2. PICK h : AfterIs(h, u, s, Len(s)) /\ Run(u, s) = h[Len(s)]
  BY <1>0, RunAfter
<1>3. g[0] = t /\ \A i \in 1 .. Len(s) : g[i] = Octet(g[i - 1], s[i])
  BY <1>0, <1>1 DEF AfterIs
<1>4. h[0] = u /\ \A i \in 1 .. Len(s) : h[i] = Octet(h[i - 1], s[i])
  BY <1>0, <1>2 DEF AfterIs
<1> DEFINE S == {k \in Nat : k <= Len(s) /\ Sound(g[k]) => Alike(g[k], h[k], pre, same)}
<1>5. 0 \in S
  BY <1>3, <1>4
<1>6. ASSUME NEW k \in S PROVE k + 1 \in S
  <2> SUFFICES ASSUME k + 1 <= Len(s), Sound(g[k + 1]) PROVE Alike(g[k + 1], h[k + 1], pre, same)
    OBVIOUS
  <2>1. k \in Nat /\ k <= Len(s) /\ k + 1 \in 1 .. Len(s) /\ (k + 1) - 1 = k
    BY <1>0
  <2> DEFINE a == g[k]
             b == h[k]
             c == s[k + 1]
  <2>2. g[k + 1] = Octet(a, c) /\ h[k + 1] = Octet(b, c)
    BY <1>3, <1>4, <2>1
  <2>3. Sound(a) => Alike(a, b, pre, same)
    BY <2>1
  <2>4. Sound(Octet(a, c))
    BY <2>2
  <2>5. g[k + 1] = Octet(a, c) /\ h[k + 1] = Octet(b, c)
    BY <2>2
  <2> HIDE DEF a, b, c
  <2>6. CASE a.stop
    <3>1. Octet(a, c) = a
      BY <2>6 DEF Octet
    <3>2. Alike(a, b, pre, same)
      BY <2>3, <2>4, <3>1
    <3>3. b.stop
      BY <2>6, <3>2 DEF Alike, Together
    <3>4. Octet(b, c) = b
      BY <3>3 DEF Octet
    <3> QED  BY <2>5, <3>1, <3>2, <3>4
  <2>7. CASE ~a.stop
    <3>1. Alike(a, b, pre, same)
      BY <2>3, <2>7 DEF Sound
    <3>2. ~Full(a)
      BY <2>4, <2>7, <3>1, SoundBefore DEF Alike
    <3> QED  BY <2>5, <2>7, <3>1, <3>2, OctetAlike
  <2> QED  BY <2>6, <2>7
<1>7. S = Nat
  <2> HIDE DEF S
  <2>1. S \subseteq Nat
    BY DEF S
  <2> QED  BY <1>5, <1>6, <2>1, SetInduction
<1>8. Sound(g[Len(s)]) => Alike(g[Len(s)], h[Len(s)], pre, same)
  BY <1>0, <1>7
<1> QED  BY <1>1, <1>2, <1>8

---------------------------------------------------------------------------
(***************************************************************************)
(* What patty_kiss_frame_send() writes is read as the frame it was.         *)
(***************************************************************************)
Idle(t) == t.state = "NONE" /\ t.o = 0 /\ ~t.stop /\ t.fail = "no"

\* Step by step while the buffer has room.
LEMMA OctetRuns ==
    ASSUME NEW t, Working(t), ~t.stop, t.o < t.size, NEW c
    PROVE  LET v == Octet(t, c) IN Working(v) /\ v.size = t.size /\ Taking(t, c, v)
<1> DEFINE v == Octet(t, c)
<1>1. Record(t) /\ t.state \in States /\ ~Full(t)
  BY DEF Working, Record, Full
<1>2. Record(v) /\ v.size = t.size /\ Taking(t, c, v)
  BY <1>1, OctetTakes
<1> HIDE DEF v
<1>3. Working(v)
  BY <1>2, TakingWorks
<1> QED  BY <1>2, <1>3 DEF v

\* k octets of f have been read, beginning with decoder t.
InFrame(v, t, f, k) ==
    /\ Working(v) /\ v.size = t.size /\ v.state = "BODY" /\ v.command = DATA /\ v.port = 0
    /\ v.o = k /\ ~v.stop /\ v.got = t.got
    /\ \A i \in 1 .. k : v.buf[i] = f[i]

LEMMA StoredInFrame ==
    ASSUME NEW t, NEW f, NEW k \in Nat, NEW u, NEW v, Working(u), ~u.stop, u.o = k,
           u.command = DATA, u.port = 0, u.got = t.got, \A i \in 1 .. k : u.buf[i] = f[i],
           Working(v), v.size = t.size, Stored(u, v, f[k + 1])
    PROVE  InFrame(v, t, f, k + 1)
<1>1. v.buf[v.o] = f[k + 1] /\ \A i \in 1 .. k : v.buf[i] = f[i]
  BY StoredAt
<1>2. /\ v.o = k + 1 /\ v.state = "BODY" /\ v.command = DATA /\ v.port = 0
      /\ v.stop = u.stop /\ v.got = t.got
  BY DEF Stored
<1>3. \A i \in 1 .. (k + 1) : v.buf[i] = f[i]
  BY <1>1, <1>2
<1> QED  BY <1>2, <1>3 DEF InFrame

LEMMA EscapeRun ==
    ASSUME NEW t, NEW f, NEW k \in Nat, k < t.size, NEW v, InFrame(v, t, f, k)
    PROVE  IsSeq(Escape(f[k + 1])) /\ InFrame(Run(v, Escape(f[k + 1])), t, f, k + 1)
<1> DEFINE c == f[k + 1]
           e == Escape(c)
<1>1. /\ Working(v) /\ v.size = t.size /\ v.state = "BODY" /\ v.command = DATA /\ v.port = 0
      /\ v.o = k /\ ~v.stop /\ v.got = t.got /\ \A i \in 1 .. k : v.buf[i] = f[i]
  BY DEF InFrame
\* an octet that is escaped with d
<1>2. ASSUME NEW d, c \in {FEND, FESC}, e = <<FESC, d>>,
             d = IF c = FEND THEN TFEND ELSE TFESC
      PROVE  IsSeq(e) /\ InFrame(Run(v, e), t, f, k + 1)
  <2> DEFINE u == Octet(v, FESC)
             w == Octet(u, d)
  <2>1. Working(u) /\ u.size = v.size /\ Taking(v, FESC, u)
    BY <1>1, OctetRuns
  <2>2. <<FESC, d>> \in Seq({FESC, d}) /\ Len(<<FESC, d>>) = 2
        /\ <<FESC, d>>[1] = FESC /\ <<FESC, d>>[2] = d
    OBVIOUS
  <2>3. IsSeq(e) /\ Run(v, e) = w
    BY <1>2, <2>2, RunTwo DEF IsSeq
  <2> HIDE DEF u
  <2>4. Moved(v, u, "ESCAPE")
    BY <1>1, <2>1 DEF Taking, FESC, FEND
  <2>5. /\ u.state = "ESCAPE" /\ u.command = DATA /\ u.port = 0 /\ u.o = k /\ ~u.stop
        /\ u.got = t.got /\ u.size = t.size /\ \A i \in 1 .. k : u.buf[i] = f[i]
    BY <1>1, <2>1, <2>4 DEF Moved
  <2>6. Working(w) /\ w.size = u.size /\ Taking(u, d, w)
    BY <2>1, <2>5, OctetRuns
  <2> HIDE DEF w
  <2>7. Stored(u, w, c)
    <3>1. CASE c = FEND
      BY <1>2, <2>5, <2>6, <3>1 DEF Taking, TFEND, TFESC
    <3>2. CASE c = FESC
      BY <1>2, <2>5, <2>6, <3>2 DEF Taking, TFEND, TFESC, FEND, FESC
    <3> QED  BY <1>2, <3>1, <3>2
  <2>8. InFrame(w, t, f, k + 1)
    BY <2>1, <2>5, <2>6, <2>7, StoredInFrame
  <2> QED  BY <2>3, <2>8
<1>3. CASE c = FEND
  <2>1. e = <<FESC, TFEND>>
    BY <1>3 DEF Escape, FEND, FESC
  <2> QED  BY <1>2, <1>3, <2>1
<1>4. CASE c = FESC
  <2>1. e = <<FESC, TFESC>> /\ c # FEND
    BY <1>4 DEF Escape, FEND, FESC
  <2> QED  BY <1>2, <1>4, <2>1
<1>5. CASE c \notin {FEND, FESC}
  <2>1. e = <<c>>
    BY <1>5 DEF Escape
  <2> DEFINE w == Octet(v, c)
  <2>2. <<c>> \in Seq({c}) /\ Len(<<c>>) = 1 /\ <<c>>[1] = c
    OBVIOUS
  <2>3. IsSeq(e) /\ Run(v, e) = w
    BY <2>1, <2>2, RunOne DEF IsSeq
  <2>4. Working(w) /\ w.size = v.size /\ Taking(v, c, w)
    BY <1>1, OctetRuns
  <2> HIDE DEF w
  <2>5. Stored(v, w, c)
    BY <1>1, <1>5, <2>4 DEF Taking
  <2>6. InFrame(w, t, f, k + 1)
    BY <1>1, <2>4, <2>5, StoredInFrame
  <2> QED  BY <2>3, <2>6
<1> QED  BY <1>3, <1>4, <1>5

LEMMA BodyRun ==
    ASSUME NEW t, NEW f, Len(f) \in Nat \ {0}, t.size \in Nat, Len(f) < t.size, NEW v,
           InFrame(v, t, f, 0)
    PROVE  IsSeq(Body(f)) /\ InFrame(Run(v, Body(f)), t, f, Len(f))
<1> DEFINE n == Len(f)
           q == [i \in 1 .. n |-> Escape(f[i])]
<1>1. n \in Nat \ {0} /\ n < t.size /\ Body(f) = FlattenSeq(q)
  BY DEF Body
<1>2. Len(q) = n /\ \A i \in 1 .. n : q[i] = Escape(f[i])
  <2>1. q = [i \in 1 .. n |-> q[i]]
    OBVIOUS
  <2> HIDE DEF q, n
  <2>2. Len(q) = n
    BY <1>1, <2>1, FcnSeq
  <2> QED  BY <2>2 DEF q
<1> HIDE DEF q
<1>3. PICK g : JoinIs(g, q, n) /\ FlattenSeq(q) = g[n]
  BY <1>1, <1>2, FlattenIs
<1>4. \A i \in 1 .. n : g[i] = IF i = 1 THEN q[i] ELSE g[i - 1] \o q[i]
  BY <1>3 DEF JoinIs
<1> HIDE DEF n
<1> DEFINE P(i) == IsSeq(g[i]) /\ InFrame(Run(v, g[i]), t, f, i)
           S == {i \in Nat : i \in 1 .. n => P(i)}
<1>5. 0 \in S
  OBVIOUS
<1>6. ASSUME NEW i \in S PROVE i + 1 \in S
  <2> SUFFICES ASSUME i + 1 \in 1 .. n PROVE P(i + 1)
    OBVIOUS
  <2>1. i \in Nat /\ i < t.size /\ q[i + 1] = Escape(f[i + 1])
    BY <1>1, <1>2
  <2>2. CASE i = 0
    <3>1. g[i + 1] = q[i + 1]
      BY <1>4, <2>2
    <3>2. InFrame(v, t, f, i)
      BY <2>2
    <3>3. IsSeq(Escape(f[i + 1])) /\ InFrame(Run(v, Escape(f[i + 1])), t, f, i + 1)
      BY <2>1, <3>2, EscapeRun
    <3> QED  BY <2>1, <3>1, <3>3
  <2>3. CASE i # 0
    <3>1. i \in 1 .. n /\ (i + 1) - 1 = i /\ i + 1 # 1
      BY <1>1, <2>1, <2>3
    <3>2. P(i)
      BY <3>1
    <3>3. g[i + 1] = g[i] \o q[i + 1]
      BY <1>4, <3>1
    <3> DEFINE u == Run(v, g[i])
               e == q[i + 1]
    <3>4. IsSeq(g[i]) /\ InFrame(u, t, f, i)
      BY <3>2
    <3> HIDE DEF u, P
    <3>5. IsSeq(e) /\ InFrame(Run(u, e), t, f, i + 1)
      BY <2>1, <3>4, EscapeRun
    <3>6. IsSeq(g[i] \o e) /\ Run(v, g[i] \o e) = Run(u, e)
      BY <3>4, <3>5, RunConcat, ConcatSeq DEF u
    <3>7. g[i + 1] = g[i] \o e
      BY <3>3
    <3> HIDE DEF e
    <3> QED  BY <3>5, <3>6, <3>7 DEF P
  <2> QED  BY <2>2, <2>3
<1>7. S = Nat
  <2> HIDE DEF S
  <2>1. S \subseteq Nat
    BY DEF S
  <2> QED  BY <1>5, <1>6, <2>1, SetInduction
<1>8. P(n)
  BY <1>1, <1>7
<1> QED  BY <1>1, <1>3, <1>8 DEF n

LEMMA FrameRun ==
    ASSUME NEW t, Working(t), Idle(t), NEW f \in Seq(0 .. 255), Len(f) \in 1 .. (t.size - 1)
    PROVE  LET v == Run(t, Encode(f))
           IN  Working(v) /\ Idle(v) /\ v.size = t.size /\ v.got = Append(t.got, f)
<1> DEFINE h == <<FEND, DATA>>
           b == Body(f)
           e == <<FEND>>
           n == Len(f)
           s == Octet(t, FEND)
           u == Octet(s, DATA)
           w == Run(u, b)
           v == Octet(w, FEND)
<1>0. t.size \in Nat /\ n \in Nat \ {0} /\ n < t.size /\ t.o = 0 /\ ~t.stop /\ t.state = "NONE"
      /\ t.o < t.size
  BY DEF Working, Idle
<1>1. Working(s) /\ s.size = t.size /\ Taking(t, FEND, s)
  BY <1>0, OctetRuns
<1>2. h \in Seq({FEND, DATA}) /\ Len(h) = 2 /\ h[1] = FEND /\ h[2] = DATA
      /\ e \in Seq({FEND}) /\ Len(e) = 1 /\ e[1] = FEND
  OBVIOUS
<1>3. Encode(f) = h \o b \o e
  BY DEF Encode
<1>4. Run(t, h) = u
  <2> HIDE DEF h
  <2> QED  BY <1>2, RunTwo
<1> HIDE DEF s
<1>5. s.state = "COMMAND" /\ s.o = 0 /\ ~s.stop /\ s.got = t.got
  BY <1>0, <1>1 DEF Taking, Moved
<1>6. Working(u) /\ u.size = s.size /\ Taking(s, DATA, u)
  BY <1>0, <1>1, <1>5, OctetRuns
<1> HIDE DEF u
<1>7. Command(DATA) = 0 /\ Port(DATA) = 0 /\ 0 \in Known /\ 0 # FEND
  BY DEF Command, Port, DATA, Known, FEND
<1>8. Opened(s, u, DATA)
  BY <1>5, <1>6, <1>7 DEF Taking
<1>9. InFrame(u, t, f, 0)
  BY <1>1, <1>5, <1>6, <1>7, <1>8 DEF InFrame, Opened, DATA
<1>10. IsSeq(b) /\ InFrame(w, t, f, n)
  BY <1>0, <1>9, BodyRun
<1>11. Run(t, Encode(f)) = v
  <2>1. IsSeq(h) /\ IsSeq(e)
    BY <1>2 DEF IsSeq
  <2>2. IsSeq(h \o b)
    BY <1>10, <2>1, ConcatSeq
  <2> HIDE DEF h, b, e, v
  <2>3. Run(t, (h \o b) \o e) = Run(Run(t, h \o b), e) /\ Run(t, h \o b) = Run(Run(t, h), b)
    BY <1>10, <2>1, <2>2, RunConcat
  <2>4. Run(w, e) = Octet(w, FEND)
    BY <1>2, RunOne
  <2> QED  BY <1>3, <1>4, <2>3, <2>4 DEF v
<1> HIDE DEF w, n
<1>12. /\ Working(w) /\ w.size = t.size /\ w.state = "BODY" /\ w.command = DATA /\ w.port = 0
       /\ w.o = n /\ ~w.stop /\ w.got = t.got /\ \A i \in 1 .. n : w.buf[i] = f[i]
  BY <1>10 DEF InFrame
<1>13. Working(v) /\ v.size = w.size /\ Taking(w, FEND, v)
  BY <1>0, <1>12, OctetRuns
<1> HIDE DEF v
<1>14. Ended(w, v)
  BY <1>0, <1>12, <1>13 DEF Taking, FEND, FESC
<1>15. SubSeq(w.buf, 1, w.o) = f
  <2> DEFINE x == SubSeq(w.buf, 1, n)
  <2>1. IsSeq(x) /\ Len(x) = n /\ \A i \in 1 .. n : x[i] = w.buf[i]
    BY <1>0, FirstSeq
  <2>2. IsSeq(f)
    BY DEF IsSeq
  <2> HIDE DEF x
  <2>3. x = f
    BY <1>12, <2>1, <2>2, SameSeq DEF n
  <2> QED  BY <1>12, <2>3 DEF x
<1>16. Idle(v) /\ v.got = Append(t.got, f)
  BY <1>12, <1>13, <1>14, <1>15 DEF Ended, Idle, Working
<1> QED  BY <1>11, <1>12, <1>13, <1>16

LEMMA EncodeIsSeq ==
    ASSUME NEW f \in Seq(0 .. 255) PROVE IsSeq(Encode(f))
<1> DEFINE q == [i \in 1 .. Len(f) |-> Escape(f[i])]
<1>1. ASSUME NEW c PROVE IsSeq(Escape(c))
  <2>1. /\ <<FESC, TFEND>> \in Seq({FESC, TFEND}) /\ <<FESC, TFESC>> \in Seq({FESC, TFESC})
        /\ <<c>> \in Seq({c})
    OBVIOUS
  <2>2. Escape(c) \in {<<FESC, TFEND>>, <<FESC, TFESC>>, <<c>>}
    BY DEF Escape
  <2> QED  BY <2>1, <2>2 DEF IsSeq
<1>2. IsSeq(q) /\ Len(q) = Len(f) /\ \A i \in 1 .. Len(f) : IsSeq(q[i])
  <2>1. q = [i \in 1 .. Len(f) |-> q[i]] /\ \A i \in 1 .. Len(f) : q[i] = Escape(f[i])
    OBVIOUS
  <2> HIDE DEF q
  <2>2. IsSeq(q) /\ Len(q) = Len(f)
    BY <2>1, FcnSeq
  <2> QED  BY <1>1, <2>1, <2>2
<1> HIDE DEF q
<1>3. IsSeq(Body(f))
  BY <1>2, FlattenIsSeq DEF Body, q
<1>4. IsSeq(<<FEND, DATA>>) /\ IsSeq(<<FEND>>)
  <2>1. <<FEND, DATA>> \in Seq({FEND, DATA}) /\ <<FEND>> \in Seq({FEND})
    OBVIOUS
  <2> QED  BY <2>1 DEF IsSeq
<1> QED  BY <1>3, <1>4, ConcatSeq DEF Encode

---------------------------------------------------------------------------
(***************************************************************************)
(* A read after more has been written, and a read in two parts.             *)
(***************************************************************************)
LEMMA BeginWorks ==
    ASSUME NEW d, NEW octets, NEW buf, NEW m \in Nat, IsSeq(buf), Len(buf) \in Nat,
           Holding(d, Len(buf))
    PROVE  LET t == Begin(d, octets, buf, m)
           IN  /\ Working(t) /\ ~t.stop /\ t.got = <<>> /\ t.size = m /\ t.state = d.state
               /\ t.command = d.command /\ t.port = d.port /\ t.o = d.o /\ t.buf = buf
               /\ t.fail = "no"
<1> DEFINE t == Begin(d, octets, buf, m)
<1>1. /\ Record(t) /\ t.stop = FALSE /\ t.got = <<>> /\ t.size = m /\ t.state = d.state
      /\ t.command = d.command /\ t.port = d.port /\ t.o = d.o /\ t.buf = buf
      /\ t.fail = "no"
  BY DEF Begin, Record, WorkFields
<1>2. IsSeq(<<>>)
  BY NoneSeq
<1> HIDE DEF t
<1>3. IsSeq(t.got) /\ IsSeq(t.buf) /\ t.o <= Len(t.buf)
  BY <1>1, <1>2 DEF Holding
<1>4. Working(t)
  BY <1>1, <1>3 DEF Working, Record, Holding, States
<1> QED  BY <1>1, <1>4 DEF t

LEMMA BeginAlike ==
    ASSUME NEW d, NEW a, NEW b, NEW buf, NEW buf2, NEW m \in Nat, IsSeq(buf), IsSeq(buf2),
           Holding(d, Len(buf)), Holding(d, Len(buf2)), NEW same \in BOOLEAN,
           same => \A i \in 1 .. d.o : buf[i] = buf2[i]
    PROVE  Alike(Begin(d, a, buf, m), Begin(d, b, buf2, m), <<>>, same)
<1> DEFINE t == Begin(d, a, buf, m)
           u == Begin(d, b, buf2, m)
<1>0. Len(buf) \in Nat /\ Len(buf2) \in Nat
  BY SeqLen
<1>1. /\ Working(t) /\ ~t.stop /\ t.got = <<>> /\ t.size = m /\ t.state = d.state
      /\ t.command = d.command /\ t.port = d.port /\ t.o = d.o /\ t.buf = buf
      /\ t.fail = "no"
  BY <1>0, BeginWorks
<1>2. /\ Working(u) /\ ~u.stop /\ u.got = <<>> /\ u.size = m /\ u.state = d.state
      /\ u.command = d.command /\ u.port = d.port /\ u.o = d.o /\ u.buf = buf2
      /\ u.fail = "no"
  BY <1>0, BeginWorks
<1> HIDE DEF t, u
<1>3. t.stop = u.stop
  BY <1>1, <1>2 DEF Working
<1>4. t.got = <<>> \o u.got
  BY <1>1, <1>2, ConcatNone, NoneSeq
<1>5. Together(t, u)
  BY <1>1, <1>2, <1>3 DEF Together
<1>6. same => SameText(t, u, <<>>)
  BY <1>1, <1>2, <1>4 DEF SameText
<1> QED  BY <1>1, <1>2, <1>5, <1>6 DEF Alike, t, u

\* A decoder d with what it has in its buffer, of m octets at most, and in
\* that it is going to read: nothing of it will be dropped.
Readable(d, in, buf, m) ==
    /\ m \in Nat /\ IsSeq(in) /\ IsSeq(buf) /\ Len(buf) <= m /\ Holding(d, Len(buf))
    /\ Sound(Drain(d, in, buf, m))

\* The buffer is another one, or has been written to.
LEMMA ReadAlike ==
    ASSUME NEW d, NEW in, NEW buf, NEW buf2, NEW m, Readable(d, in, buf, m), IsSeq(buf2),
           Holding(d, Len(buf2)), NEW same \in BOOLEAN,
           same => \A i \in 1 .. d.o : buf[i] = buf2[i]
    PROVE  Alike(Drain(d, in, buf, m), Drain(d, in, buf2, m), <<>>, same)
<1>1. Alike(Begin(d, in, buf, m), Begin(d, in, buf2, m), <<>>, same)
  BY BeginAlike DEF Readable
<1> QED  BY <1>1, RunAlike, DrainIsRun, NoneSeq DEF Readable

\* more is in, and e behind it.
Joined(more, in, e) == more = in \o e

LEMMA ReadOn ==
    ASSUME NEW d, NEW in, NEW e, NEW buf, NEW m, IsSeq(in), IsSeq(e),
           NEW more, Joined(more, in, e), NEW u, u = Run(Begin(d, more, buf, m), in)
    PROVE  Drain(d, more, buf, m) = Run(u, e)
<1> DEFINE c == Begin(d, more, buf, m)
<1>1. Drain(d, more, buf, m) = Run(c, in \o e)
  BY DrainIsRun DEF Joined
<1>2. Run(c, in \o e) = Run(Run(c, in), e)
  <2> HIDE DEF c
  <2> QED  BY RunConcat
<1> QED  BY <1>1, <1>2

LEMMA ReadMore ==
    ASSUME NEW d, NEW in, NEW e, NEW buf, NEW m, Readable(d, in, buf, m), IsSeq(e),
           NEW more, Joined(more, in, e), NEW u, u = Run(Begin(d, more, buf, m), in)
    PROVE  Alike(Drain(d, in, buf, m), u, <<>>, TRUE)
<1> DEFINE b == Begin(d, in, buf, m)
           c == Begin(d, more, buf, m)
<1>0. IsSeq(in) /\ Sound(Drain(d, in, buf, m))
  BY DEF Readable
<1>1. Alike(b, c, <<>>, TRUE)
  BY BeginAlike DEF Readable
<1>2. Drain(d, in, buf, m) = Run(b, in) /\ u = Run(c, in)
  BY DrainIsRun
<1> HIDE DEF b, c
<1>3. Alike(Run(b, in), Run(c, in), <<>>, TRUE)
  BY <1>0, <1>1, <1>2, DrainIsRun, RunAlike, NoneSeq
<1> QED  BY <1>2, <1>3

LEMMA ReadSize ==
    ASSUME NEW d, NEW in, NEW buf, NEW m \in Nat, IsSeq(in), IsSeq(buf), Len(buf) <= m,
           Holding(d, Len(buf))
    PROVE  Drain(d, in, buf, m).size = m
<1>1. Len(in) \in Nat /\ Len(buf) \in Nat
  BY SeqLen
<1>2. Fitting(Begin(d, in, buf, m), Len(buf), m)
  BY BeginFits
<1> QED  BY <1>1, <1>2, DrainFits DEF Fitting

LEMMA FrameWritten ==
    ASSUME NEW d, NEW in, NEW buf, NEW m, Readable(d, in, buf, m),
           NEW f \in Seq(0 .. 255), Len(f) \in 1 .. (m - 1)
    PROVE  LET t == Drain(d, in, buf, m)
               v == Drain(d, in \o Encode(f), buf, m)
           IN  /\ t.stop => v.stop /\ v.fail = t.fail
               /\ Idle(t) => Idle(v) /\ v.got = Append(t.got, f)
<1> DEFINE t == Drain(d, in, buf, m)
           e == Encode(f)
           v == Drain(d, in \o e, buf, m)
<1>1. IsSeq(e)
  BY EncodeIsSeq
<1>2. t.size = m
  BY ReadSize DEF Readable
<1> DEFINE more == in \o e
           u == Run(Begin(d, more, buf, m), in)
<1>a. Joined(more, in, e)
  BY DEF Joined
<1>b. v = Drain(d, more, buf, m) /\ u = Run(Begin(d, more, buf, m), in)
  OBVIOUS
<1> HIDE DEF e, more, u, v
<1>c. Alike(Drain(d, in, buf, m), u, <<>>, TRUE)
  BY <1>1, <1>a, <1>b, ReadMore
<1>d. IsSeq(in)
  BY DEF Readable
<1>e. Drain(d, more, buf, m) = Run(u, e)
  BY <1>1, <1>a, <1>b, <1>d, ReadOn, SMT
<1>3. Alike(t, u, <<>>, TRUE) /\ v = Run(u, e)
  BY <1>b, <1>c, <1>e
<1> HIDE DEF t
<1>4. Working(u) /\ Together(t, u) /\ t.got = <<>> \o u.got /\ IsSeq(u.got)
  BY <1>3 DEF Alike, SameText, Working
<1>5. t.got = u.got /\ u.size = m
  BY <1>2, <1>4, ConcatNone DEF Together
<1>6. ASSUME t.stop PROVE v.stop /\ v.fail = t.fail
  BY <1>1, <1>3, <1>4, <1>6, RunStopped DEF Together
<1>7. ASSUME Idle(t) PROVE Idle(v) /\ v.got = Append(t.got, f)
  <2>1. Idle(u)
    BY <1>4, <1>7 DEF Together, Idle
  <2> QED  BY <1>3, <1>4, <1>5, <2>1, FrameRun DEF e
<1> QED  BY <1>6, <1>7, <1>b DEF t, e, more

\* An unknown command
LEMMA GarbageWritten ==
    ASSUME NEW d, NEW in, NEW buf, NEW m, Readable(d, in, buf, m), 0 < m, NEW e, e = <<FEND, 15, FEND>>
    PROVE  LET t == Drain(d, in, buf, m)
               v == Drain(d, in \o e, buf, m)
           IN  /\ t.stop => v.stop /\ v.fail = t.fail
               /\ Idle(t) => v.stop /\ v.fail = "EIO"
<1> DEFINE t == Drain(d, in, buf, m)
           v == Drain(d, in \o e, buf, m)
           a == <<FEND, 15>>
           z == <<FEND>>
<1>1. /\ a \in Seq({FEND, 15}) /\ Len(a) = 2 /\ a[1] = FEND /\ a[2] = 15 /\ z \in Seq({FEND})
      /\ a \o z = e
  <2>1. a \in Seq({FEND, 15}) /\ Len(a) = 2 /\ a[1] = FEND /\ a[2] = 15 /\ z \in Seq({FEND})
    OBVIOUS
  <2>2. a \o z \in Seq({FEND, 15}) /\ e \in Seq({FEND, 15})
    BY <2>1
  <2>3. Len(a \o z) = 3 /\ (a \o z)[1] = FEND /\ (a \o z)[2] = 15 /\ (a \o z)[3] = FEND
    BY <2>1
  <2>4. Len(e) = 3 /\ e[1] = FEND /\ e[2] = 15 /\ e[3] = FEND
    OBVIOUS
  <2>5. a \o z = e
    <3> DEFINE s == a \o z
    <3> HIDE DEF s, a, z
    <3>1. s \in Seq({FEND, 15}) /\ Len(s) = 3 /\ s[1] = FEND /\ s[2] = 15 /\ s[3] = FEND
      BY <2>2, <2>3 DEF s
    <3>2. \A i \in 1 .. 3 : s[i] = e[i]
      BY <2>4, <3>1
    <3>3. s = e
      BY <2>2, <2>4, <3>1, <3>2, SeqEqual
    <3> QED  BY <3>3 DEF s
  <2> QED  BY <2>1, <2>5
<1>2. t.size = m
  BY ReadSize DEF Readable
<1> HIDE DEF a, z
<1>3. IsSeq(a) /\ IsSeq(z) /\ IsSeq(e)
  BY <1>1, ConcatSeq DEF IsSeq
<1> DEFINE more == in \o e
           u == Run(Begin(d, more, buf, m), in)
<1>a. Joined(more, in, e)
  BY DEF Joined
<1>b. v = Drain(d, more, buf, m) /\ u = Run(Begin(d, more, buf, m), in)
  OBVIOUS
<1> HIDE DEF more, u, v
<1>c. Alike(Drain(d, in, buf, m), u, <<>>, TRUE)
  BY <1>3, <1>a, <1>b, ReadMore
<1>d. IsSeq(in)
  BY DEF Readable
<1>e. Drain(d, more, buf, m) = Run(u, e)
  BY <1>3, <1>a, <1>b, <1>d, ReadOn, SMT
<1>4. Alike(t, u, <<>>, TRUE) /\ v = Run(u, e)
  BY <1>b, <1>c, <1>e
<1> HIDE DEF t
<1>5. Working(u) /\ Together(t, u)
  BY <1>4 DEF Alike
<1>6. ASSUME t.stop PROVE v.stop /\ v.fail = t.fail
  BY <1>3, <1>4, <1>5, <1>6, RunStopped DEF Together
<1>7. ASSUME Idle(t) PROVE v.stop /\ v.fail = "EIO"
  <2> DEFINE w == Octet(u, FEND)
             x == Octet(w, 15)
  <2>1. u.state = "NONE" /\ u.o = 0 /\ ~u.stop /\ u.size = m /\ 0 < m
    BY <1>2, <1>5, <1>7 DEF Together, Idle
  <2>2. Working(w) /\ w.size = u.size /\ Taking(u, FEND, w)
    BY <1>5, <2>1, OctetRuns
  <2>3. Run(u, a) = x
    BY <1>1, RunTwo
  <2> HIDE DEF w
  <2>4. w.state = "COMMAND" /\ w.o = 0 /\ ~w.stop
    BY <2>1, <2>2 DEF Taking, Moved
  <2>5. Working(x) /\ x.size = w.size /\ Taking(w, 15, x)
    BY <2>1, <2>2, <2>4, OctetRuns
  <2> HIDE DEF x
  <2>6. x.stop = TRUE /\ x.fail = "EIO"
    BY <2>4, <2>5 DEF Taking, Stopped, Command, Known, FEND
  <2>7. v = Run(x, z)
    <3>1. Run(u, a \o z) = Run(Run(u, a), z)
      BY <1>3, RunConcat
    <3> QED  BY <1>1, <1>4, <2>3, <3>1
  <2>8. Run(x, z) = x
    BY <1>3, <2>6, RunStopped
  <2> QED  BY <2>6, <2>7, <2>8
<1> QED  BY <1>6, <1>7, <1>b DEF t, more

\* A read of the first n octets and one of the rest, into the buffer b that
\* the first has left.
LEMMA ReadParts ==
    ASSUME NEW d, NEW in, NEW n, NEW buf, NEW m, Readable(d, in, buf, m), n \in 0 .. Len(in),
           NEW t, t = Drain(d, SubSeq(in, 1, n), buf, m),
           NEW b, IsSeq(b), t.o <= Len(b), \A i \in 1 .. t.o : b[i] = t.buf[i]
    PROVE  LET all  == Drain(d, in, buf, m)
               rest == Drain(Rest(t), SubSeq(in, n + 1, Len(in)), b, m)
           IN  /\ Working(t) /\ Sound(t)
               /\ t.stop => all.stop /\ all.fail = t.fail
               /\ ~t.stop => Alike(all, rest, t.got, TRUE)
<1> DEFINE x == SubSeq(in, 1, n)
           y == SubSeq(in, n + 1, Len(in))
           all == Drain(d, in, buf, m)
           rest == Drain(Rest(t), y, b, m)
           c == Begin(d, in, buf, m)
           e == Begin(d, x, buf, m)
           u == Run(c, x)
<1>1. IsSeq(x) /\ IsSeq(y) /\ x \o y = in
  BY SplitSeq DEF Readable
<1>2. all = Run(c, in) /\ t = Run(e, x) /\ rest = Run(Begin(Rest(t), y, b, m), y)
  BY DrainIsRun
<1>3. Alike(c, e, <<>>, TRUE)
  BY BeginAlike DEF Readable
<1>4. t.size = m /\ m \in Nat /\ Sound(all)
  BY <1>1, ReadSize DEF Readable
<1> HIDE DEF x, y, c, e, all, rest
<1>5. all = Run(u, y)
  <2>1. Joined(in, x, y)
    BY <1>1 DEF Joined
  <2>2. u = Run(Begin(d, in, buf, m), x)
    BY DEF c
  <2> HIDE DEF u
  <2>3. Drain(d, in, buf, m) = Run(u, y)
    BY <1>1, <2>1, <2>2, ReadOn, SMT
  <2> QED  BY <2>3 DEF all
<1> HIDE DEF u
<1>6. Sound(u) /\ (u.stop => all = u)
  <2>1. CASE u.stop
    BY <1>1, <1>4, <1>5, <2>1, RunStopped
  <2>2. CASE ~u.stop
    BY <2>2 DEF Sound
  <2> QED  BY <2>1, <2>2
<1>7. Alike(u, t, <<>>, TRUE)
  BY <1>1, <1>2, <1>3, <1>6, RunAlike, NoneSeq DEF u
<1>8. Working(u) /\ Working(t) /\ Together(u, t) /\ SameText(u, t, <<>>)
  BY <1>7 DEF Alike
<1>9. Sound(t)
  BY <1>6, <1>8 DEF Sound, Together
<1>10. t.stop => all.stop /\ all.fail = t.fail
  BY <1>6, <1>8 DEF Together
<1>11. ASSUME ~t.stop PROVE Alike(all, rest, t.got, TRUE)
  <2> DEFINE v == Begin(Rest(t), y, b, m)
  <2>1. /\ Rest(t).state = t.state /\ Rest(t).command = t.command /\ Rest(t).port = t.port
        /\ Rest(t).o = t.o
    BY DEF Rest
  <2>2. Holding(Rest(t), Len(b)) /\ Len(b) \in Nat
    BY <1>8, <2>1, SeqLen DEF Holding, Working, States
  <2>3. /\ Working(v) /\ ~v.stop /\ v.got = <<>> /\ v.size = m /\ v.state = t.state
        /\ v.command = t.command /\ v.port = t.port /\ v.o = t.o /\ v.buf = b
        /\ v.fail = "no"
    BY <1>4, <2>1, <2>2, BeginWorks
  <2> HIDE DEF v
  <2>4. u.got = t.got \o v.got
    <3>1. u.got = t.got /\ IsSeq(t.got)
      BY <1>8, ConcatNone DEF SameText, Working
    <3> QED  BY <2>3, <3>1, ConcatNone
  <2>5. \A i \in 1 .. u.o : u.buf[i] = v.buf[i]
    BY <1>8, <2>3 DEF SameText, Together
  <2>6. u.fail = "no" /\ u.stop = v.stop
    BY <1>8, <1>11, <2>3 DEF Together, Working
  <2>7. Alike(u, v, t.got, TRUE)
    BY <1>4, <1>8, <2>3, <2>4, <2>5, <2>6 DEF Alike, Together, SameText
  <2>8. Sound(Run(u, y)) /\ IsSeq(t.got)
    BY <1>4, <1>5, <1>8 DEF Working
  <2>9. Alike(Run(u, y), Run(v, y), t.got, TRUE)
    BY <1>1, <2>7, <2>8, RunAlike
  <2> QED  BY <1>2, <1>5, <2>9 DEF v
<1> QED  BY <1>8, <1>9, <1>10, <1>11 DEF all, rest, y

---------------------------------------------------------------------------
(***************************************************************************)
(* The line of a KISS device, on which only patty writes: the reads, present *)
(* and to come, make of it the frames that have been sent.                  *)
(***************************************************************************)
Reads(t) == IF t.stop THEN t.fail = "EIO" /\ "garbage" \in odd
                      ELSE Idle(t) /\ sent = heard \o t.got

Foreign == odd \cap {"long", "foreign", "hangup"} # {}

KissReads ==
    \/ driver # "kiss" \/ Foreign
    \/ /\ device = "open" /\ IsSeq(wire) /\ IsSeq(sent) /\ IsSeq(heard)
       /\ status = "UP" \/ "garbage" \in odd
       /\ status = "UP" => Reads(Drain(decoder, wire, rx, Mru))

LEMMA KissReadsInit == Init => KissReads
<1> SUFFICES ASSUME Init, driver = "kiss" PROVE KissReads
  BY DEF KissReads
<1> DEFINE t == Drain(decoder, wire, rx, Mru)
           none == <<>>
<1>1. IsSeq(none) /\ Len(none) = 0
  BY NoneSeq
<1>2. t = Begin(decoder, wire, rx, Mru)
  <2>1. t = Run(Begin(decoder, wire, rx, Mru), wire) /\ wire = <<>>
    BY DrainIsRun DEF Init
  <2> QED  BY <2>1, RunNone
<1>3. Idle(t) /\ t.got = <<>>
  BY <1>2 DEF Begin, Init, NewDecoder, Idle
<1>4. heard \o t.got = sent
  BY <1>1, <1>3, ConcatNone DEF Init
<1> HIDE DEF t
<1>5. ~t.stop
  BY <1>3 DEF Idle
<1>6. wire = none /\ sent = none /\ heard = none /\ device = "open" /\ status = "UP"
  BY DEF Init
<1> HIDE DEF none
<1>7. Reads(t)
  BY <1>3, <1>4, <1>5 DEF Reads
<1> QED  BY <1>1, <1>6, <1>7 DEF KissReads, t

LEMMA JoinedAppend ==
    ASSUME NEW r, NEW s, NEW t, NEW c, IsSeq(s), IsSeq(t), Joined(r, s, t)
    PROVE  Joined(Append(r, c), s, Append(t, c))
<1>1. Append(s \o t, c) = s \o Append(t, c)
  BY AppendAssoc
<1> QED  BY <1>1 DEF Joined

LEMMA JoinedAssoc ==
    ASSUME NEW r, NEW s, NEW t, NEW u, NEW v, IsSeq(s), IsSeq(u), IsSeq(v),
           Joined(r, s, t), Joined(t, u, v)
    PROVE  Joined(r, s \o u, v)
<1>1. (s \o u) \o v = s \o (u \o v)
  BY ConcatAssoc
<1> QED  BY <1>1 DEF Joined

LEMMA KissReadable ==
    ASSUME Sizes, driver = "kiss", IsSeq(wire), Reads(Drain(decoder, wire, rx, Mru))
    PROVE  Readable(decoder, wire, rx, Mru)
<1>1. IsSeq(rx) /\ Len(rx) <= Mru /\ Holding(decoder, Len(rx)) /\ Mru \in Nat
  BY IfaceAssumption DEF Sizes
<1>2. Sound(Drain(decoder, wire, rx, Mru))
  BY DEF Reads, Sound
<1> QED  BY <1>1, <1>2 DEF Readable

LEMMA KissPut ==
    ASSUME Sizes, KissReads, NEW f, NEW octets, NEW what, Put(f, octets, what),
           driver = "kiss", ~Foreign',
           \/ octets = Encode(f) /\ f \in Seq(0 .. 255) /\ Len(f) \in 1 .. (Mru - 1)
           \/ octets = <<FEND, 15, FEND>> /\ "garbage" \in odd'
    PROVE  KissReads'
<1> DEFINE t == Drain(decoder, wire, rx, Mru)
           v == Drain(decoder, wire \o octets, rx, Mru)
<1>1. /\ wire' = wire \o octets /\ sent' = Append(sent, f) /\ odd \subseteq odd'
      /\ UNCHANGED <<driver, device, status, decoder, rx, heard>>
  BY DEF Put, Irregular
<1>2. ~Foreign
  BY <1>1 DEF Foreign
<1>3. /\ device = "open" /\ IsSeq(wire) /\ IsSeq(sent) /\ IsSeq(heard)
      /\ status = "UP" \/ "garbage" \in odd
      /\ status = "UP" => Reads(t)
  BY <1>2 DEF KissReads
<1>4. IsSeq(octets)
  <2>1. <<FEND, 15, FEND>> \in Seq({FEND, 15})
    OBVIOUS
  <2> QED  BY <2>1, EncodeIsSeq DEF IsSeq
<1>5. IsSeq(wire') /\ IsSeq(sent')
  BY <1>1, <1>3, <1>4, ConcatSeq, AppendSeq
<1> DEFINE Good == IF v.stop THEN v.fail = "EIO" /\ "garbage" \in odd'
                             ELSE Idle(v) /\ sent' = heard' \o v.got
<1>6. ASSUME status = "UP" PROVE Good
  <2>1. Readable(decoder, wire, rx, Mru) /\ Reads(t)
    BY <1>3, <1>6, KissReadable
  <2>2. CASE octets = Encode(f) /\ f \in Seq(0 .. 255) /\ Len(f) \in 1 .. (Mru - 1)
    <3>1. /\ t.stop => v.stop /\ v.fail = t.fail
          /\ Idle(t) => Idle(v) /\ v.got = Append(t.got, f)
      BY <2>1, <2>2, FrameWritten
    <3> HIDE DEF t, v
    <3>2. CASE t.stop
      BY <1>1, <2>1, <3>1, <3>2 DEF Reads
    <3>3. CASE ~t.stop
      <4>1. Idle(v) /\ ~v.stop /\ v.got = Append(t.got, f) /\ sent = heard \o t.got
        BY <2>1, <3>1, <3>3 DEF Reads, Idle
      <4>2. IsSeq(t.got)
        <5>1. Alike(t, t, <<>>, FALSE)
          BY <2>1, ReadAlike DEF Readable, t
        <5> QED  BY <5>1 DEF Alike, Working
      <4>3. sent' = heard \o v.got
        <5> DEFINE g == t.got
        <5>1. IsSeq(g) /\ sent = heard \o g /\ v.got = Append(g, f)
          BY <4>1, <4>2
        <5> HIDE DEF g
        <5>2. Joined(sent, heard, g)
          BY <5>1 DEF Joined
        <5>3. Joined(Append(sent, f), heard, Append(g, f))
          BY <1>3, <5>1, <5>2, JoinedAppend
        <5> QED  BY <1>1, <5>1, <5>3 DEF Joined
      <4> QED  BY <1>1, <4>1, <4>3 DEF Reads
    <3> QED  BY <3>2, <3>3
  <2>3. CASE octets = <<FEND, 15, FEND>> /\ "garbage" \in odd'
    <3>0. 0 < Mru
      BY IfaceAssumption
    <3>1. /\ t.stop => v.stop /\ v.fail = t.fail
          /\ Idle(t) => v.stop /\ v.fail = "EIO"
      BY <2>1, <2>3, <3>0, GarbageWritten
    <3> HIDE DEF t, v
    <3>2. v.stop /\ v.fail = "EIO"
      BY <2>1, <3>1 DEF Reads
    <3> QED  BY <2>3, <3>2 DEF Reads
  <2> QED  BY <2>2, <2>3
<1>7. v = Drain(decoder', wire', rx', Mru)
  BY <1>1
<1> HIDE DEF v
<1>8. ASSUME status = "UP" PROVE Reads(Drain(decoder, wire, rx, Mru))'
  BY <1>6, <1>7, <1>8 DEF Reads
<1>9. status' = "UP" \/ "garbage" \in odd'
  BY <1>1, <1>3
<1> QED  BY <1>1, <1>3, <1>5, <1>8, <1>9 DEF KissReads

LEMMA KissRead ==
    ASSUME Sizes, SInv, KissReads, NEW n \in Nat, HandleIfaceKiss(n), ~Foreign' PROVE KissReads'
<1> DEFINE t == Drain(decoder, SubSeq(wire, 1, n), rx, Mru)
           all == Drain(decoder, wire, rx, Mru)
           in == SubSeq(wire, n + 1, Len(wire))
           b == SubSeq(t.buf, 1, t.o)
           rest == Drain(Rest(t), in, b, Mru)
<1>1. /\ driver = "kiss" /\ driver' = driver /\ odd \subseteq odd' /\ status = "UP"
      /\ n <= Len(Input)
  BY DEF HandleIfaceKiss, End, line
<1>2. ~Foreign
  BY <1>1 DEF Foreign
<1>3. device = "open" /\ IsSeq(wire) /\ IsSeq(sent) /\ IsSeq(heard) /\ Reads(all)
  BY <1>1, <1>2 DEF KissReads
<1>4. Input = wire /\ n \in 0 .. Len(wire)
  <2>1. Input = wire
    BY <1>3, IfaceAssumption DEF Input
  <2> QED  BY <1>1, <1>3, <2>1, SeqLen
<1>5. CASE End
  <2>1. UNCHANGED <<driver, device, status, wire, sent, decoder, rx, heard>>
    BY <1>1, <1>5 DEF End, HandleIfaceKiss, line
  <2>2. Reads(all)'
    BY <1>1, <1>3, <2>1 DEF Reads
  <2> QED  BY <1>1, <1>3, <2>1, <2>2 DEF KissReads
<1>6. CASE ~End
  <2>1. /\ wire' = in /\ decoder' = Rest(t) /\ rx' = b /\ heard' = heard \o t.got
        /\ status' = (IF t.fail = "no" THEN "UP" ELSE "DOWN")
        /\ UNCHANGED <<driver, device, sent>>
    BY <1>3, <1>4, <1>6 DEF HandleIfaceKiss
  <2>2. Readable(decoder, wire, rx, Mru)
    BY <1>1, <1>3, KissReadable
  <2>3. IsSeq(t.buf) /\ Holding(Rest(t), Len(t.buf)) /\ Rest(t).o = t.o
    BY <2>2, ReadFits DEF Readable
  <2>4. t.o \in Nat /\ t.o <= Len(t.buf) /\ Len(t.buf) \in Nat
    BY <2>3, SeqLen DEF Holding
  <2>5. IsSeq(b) /\ Len(b) = t.o /\ \A i \in 1 .. t.o : b[i] = t.buf[i]
    BY <2>3, <2>4, FirstSeq
  <2>6. /\ Working(t) /\ Sound(t)
        /\ t.stop => all.stop /\ all.fail = t.fail
        /\ ~t.stop => Alike(all, rest, t.got, TRUE)
    <3> HIDE DEF b
    <3>1. t.o <= Len(b)
      BY <2>4, <2>5
    <3> QED  BY <1>4, <2>2, <2>5, <3>1, ReadParts
  <2>7. IsSeq(in)
    BY <1>3, <1>4, SplitSeq
  <2>8. rest = Drain(decoder', wire', rx', Mru)
    BY <2>1
  <2> HIDE DEF t, all, in, b, rest
  <2>9. IsSeq(heard')
    <3>1. IsSeq(t.got)
      BY <2>6 DEF Working
    <3> QED  BY <1>3, <2>1, <3>1, ConcatSeq
  <2>10. CASE t.stop
    <3>1. status' = "DOWN" /\ "garbage" \in odd'
      BY <1>1, <1>3, <2>1, <2>6, <2>10 DEF Sound, Reads
    <3> QED  BY <1>3, <2>1, <2>7, <2>9, <3>1 DEF KissReads
  <2>11. CASE ~t.stop
    <3>1. status' = "UP"
      BY <2>1, <2>6, <2>11 DEF Working
    <3>2. Together(all, rest) /\ all.got = t.got \o rest.got /\ IsSeq(t.got) /\ IsSeq(rest.got)
      BY <2>6, <2>11 DEF Alike, SameText, Working
    <3>3. ASSUME all.stop PROVE Reads(Drain(decoder, wire, rx, Mru))'
      <4>1. rest.stop /\ rest.fail = "EIO" /\ "garbage" \in odd'
        BY <1>1, <1>3, <3>2, <3>3 DEF Reads, Together
      <4> QED  BY <2>8, <4>1 DEF Reads
    <3>4. ASSUME ~all.stop PROVE Reads(Drain(decoder, wire, rx, Mru))'
      <4>1. Idle(rest) /\ ~rest.stop
        BY <1>3, <3>2, <3>4 DEF Reads, Together, Idle
      <4>2. sent = (heard \o t.got) \o rest.got
        <5> DEFINE g == t.got
                   h == rest.got
                   a == all.got
        <5>1. IsSeq(g) /\ IsSeq(h) /\ Joined(sent, heard, a) /\ Joined(a, g, h)
          BY <1>3, <3>2, <3>4 DEF Reads, Joined
        <5> HIDE DEF g, h, a
        <5>2. Joined(sent, heard \o g, h)
          BY <1>3, <5>1, JoinedAssoc
        <5> QED  BY <5>2 DEF Joined, g, h
      <4>3. sent' = heard' \o rest.got
        BY <2>1, <4>2
      <4> QED  BY <2>8, <4>1, <4>3 DEF Reads
    <3>5. Reads(Drain(decoder, wire, rx, Mru))'
      BY <3>3, <3>4
    <3> QED  BY <1>3, <2>1, <2>7, <2>9, <3>1, <3>5 DEF KissReads
  <2> QED  BY <2>10, <2>11
<1> QED  BY <1>5, <1>6

\* Steps that leave the line and its decoder alone.
LEMMA KissSame ==
    ASSUME KissReads, odd \subseteq odd', ~Foreign', device = "open" => device' = "open",
           UNCHANGED <<driver, status, wire, sent, decoder, rx, heard>>
    PROVE  KissReads'
<1>1. ~Foreign
  BY DEF Foreign
<1>2. CASE driver # "kiss"
  BY <1>2 DEF KissReads
<1>3. CASE driver = "kiss"
  <2>1. status = "UP" => Reads(Drain(decoder, wire, rx, Mru))'
    BY <1>1, <1>3 DEF KissReads, Reads
  <2> QED  BY <1>1, <1>3, <2>1 DEF KissReads
<1> QED  BY <1>2, <1>3

LEMMA KissReadsNext == KissReads /\ Sizes /\ SInv /\ [Next]_vars => KissReads'
<1> SUFFICES ASSUME KissReads, Sizes, SInv, [Next]_vars, driver' = "kiss", ~Foreign'
             PROVE  KissReads'
  BY DEF KissReads
<1> DEFINE Same == /\ odd \subseteq odd' /\ (device = "open" => device' = "open")
                   /\ UNCHANGED <<driver, status, wire, sent, decoder, rx, heard>>
           Kept == Same \/ KissReads'
<1>1. ASSUME Line PROVE KissReads'
  <2>0. driver = "kiss"
    BY <1>1 DEF Line, Put, PutFrame, PutShared, PutIdle, PutGarbage, PutLine, PutComment
  <2>1. ASSUME NEW f \in Frames, PutFrame(f) PROVE KissReads'
    <3> DEFINE what == IF Len(f) \in 1 .. (Mru - 1) THEN {} ELSE {"long"}
    <3>1. Put(f, Encode(f), what) /\ what \subseteq odd'
      BY <2>1 DEF PutFrame, Put, Irregular
    <3>2. Len(f) \in 1 .. (Mru - 1) /\ f \in Seq(0 .. 255)
      BY <3>1, IfaceAssumption DEF Foreign
    <3> QED  BY <2>0, <3>1, <3>2, KissPut
  <2>2. ASSUME PutGarbage PROVE KissReads'
    <3>1. Put(<<>>, <<FEND, 15, FEND>>, {"garbage"}) /\ "garbage" \in odd'
      BY <2>2 DEF PutGarbage, Put, Irregular
    <3> QED  BY <2>0, <3>1, KissPut
  <2>3. ASSUME NEW f \in Frames, PutShared(f) \/ PutIdle(f) PROVE FALSE
    <3>1. "foreign" \in odd'
      BY <2>3 DEF PutShared, PutIdle, Put, Irregular
    <3> QED  BY <3>1 DEF Foreign
  <2> QED  BY <1>1, <2>0, <2>1, <2>2, <2>3 DEF Line
<1>2. ASSUME NEW n \in 1 .. BufSize, HandleIfaceKiss(n) PROVE KissReads'
  <2>1. n \in Nat
    BY IfaceAssumption
  <2> QED  BY <1>2, <2>1, KissRead
<1>3. ASSUME NEW n, HandleIfaceAprs(n) PROVE FALSE
  BY <1>3 DEF HandleIfaceAprs
<1>4. ASSUME HandleIfaceError \/ HandleIfaceEof PROVE FALSE
  <2>1. "hangup" \in odd'
    BY <1>4 DEF HandleIfaceError, HandleIfaceEof, Irregular
  <2> QED  BY <2>1 DEF Foreign
<1>5. ASSUME HandleIfaceWaits PROVE Same
  BY <1>5 DEF HandleIfaceWaits, End, line
<1>6. ASSUME HandleIface PROVE Kept
  <2> HIDE DEF Same
  <2> QED  BY <1>2, <1>3, <1>4, <1>5, <1>6 DEF HandleIface
<1>7. ASSUME NEW f, NEW n, HandleSockRaw(f, n) PROVE Same
  BY <1>7 DEF HandleSockRaw, End, line
<1>8. ASSUME NEW f, NEW frame, NEW octets, NEW what, Write(f, frame, octets, what) PROVE Same
  BY <1>8 DEF Write, Irregular, line
<1>9. ASSUME NEW f \in Fd, SockClose(f) PROVE Same
  BY <1>9, IfaceAssumption DEF SockClose, line
<1>10. ASSUME NEW f, NEW i, NEW p, SetSockOptIf(f, i, p) PROVE Same
  BY <1>10 DEF SetSockOptIf, Irregular, line
<1>11. ASSUME NEW f, NEW type, ServerSocket(f, type) PROVE Same
  BY <1>11 DEF ServerSocket, line
<1>12. ASSUME NEW i, HandleOther(i) PROVE Same
  BY <1>12 DEF HandleOther, End, line
<1>16. ASSUME NEW f, ServerListen(f) PROVE Same
  BY <1>16 DEF ServerListen, Irregular, line, ptys
<1>13. ASSUME Raw PROVE Same
  <2> HIDE DEF Same
  <2> QED  BY <1>7, <1>8, <1>9, <1>10, <1>11, <1>13, <1>16 DEF Raw, WriteFrame, WriteGarbage
<1>14. ASSUME UNCHANGED vars PROVE Same
  BY <1>14 DEF vars, line
<1>15. Same \/ KissReads'
  <2> HIDE DEF Same
  <2> QED  BY <1>1, <1>6, <1>12, <1>13, <1>14 DEF Next
<1> QED  BY <1>15, KissSame

LEMMA PrefixConcat ==
    ASSUME NEW s, NEW t, IsSeq(s), IsSeq(t) PROVE IsPrefix(s, s \o t)
<1> DEFINE u == s \o t
<1>1. IsSeq(u) /\ Len(u) = Len(s) + Len(t) /\ Len(s) \in Nat /\ Len(t) \in Nat
  BY SeqLen, ConcatSeq
<1>2. \A i \in 1 .. Len(s) : u[i] = s[i]
  BY ConcatAt
<1> HIDE DEF u
<1>3. SubSeq(s, 1, Len(s)) = SubSeq(u, 1, Len(s))
  BY <1>1, <1>2
<1> QED  BY <1>1, <1>3 DEF IsPrefix, u

\* Frames of a patty on a KISS line are received in order and unaltered.
LEMMA KissInOrder ==
    ASSUME KissReads, driver = "kiss", Regular, Sizes
    PROVE  IsPrefix(heard, sent) /\ status # "DOWN" /\ (wire = <<>> => heard = sent)
<1> DEFINE t == Drain(decoder, wire, rx, Mru)
<1>1. ~Foreign /\ "garbage" \notin odd
  BY DEF Regular, Foreign
<1>2. IsSeq(wire) /\ IsSeq(sent) /\ IsSeq(heard) /\ status = "UP" /\ Reads(t)
  BY <1>1 DEF KissReads
<1>3. sent = heard \o t.got
  BY <1>1, <1>2 DEF Reads
<1>4. IsSeq(t.got)
  <2>1. Readable(decoder, wire, rx, Mru)
    BY <1>2, KissReadable
  <2>2. Alike(t, t, <<>>, FALSE)
    BY <2>1, ReadAlike DEF Readable
  <2> QED  BY <2>2 DEF Alike, Working
<1>5. ASSUME wire = <<>> PROVE t.got = <<>>
  <2>1. t = Run(Begin(decoder, wire, rx, Mru), <<>>)
    BY <1>5, DrainIsRun
  <2>2. t = Begin(decoder, wire, rx, Mru)
    BY <2>1, RunNone
  <2> QED  BY <2>2 DEF Begin
<1> HIDE DEF t
<1>6. IsPrefix(heard, sent)
  <2> DEFINE g == t.got
  <2>1. IsSeq(g) /\ sent = heard \o g
    BY <1>3, <1>4
  <2> HIDE DEF g
  <2>2. IsPrefix(heard, heard \o g)
    BY <1>2, <2>1, PrefixConcat
  <2> QED  BY <2>1, <2>2
<1>7. ASSUME wire = <<>> PROVE heard = sent
  BY <1>2, <1>3, <1>5, <1>7, ConcatNone
<1> QED  BY <1>2, <1>6, <1>7

---------------------------------------------------------------------------
(***************************************************************************)
(* Raw sockets: what a client has written and the server not yet read will  *)
(* be decoded to frames that clients have written.                          *)
(***************************************************************************)
RawTaken(t) == Idle(t) /\ ("mixed" \notin odd => ToSet(t.got) \subseteq ToSet(handed))

RawReads ==
    /\ IsSeq(handed)
    /\ \/ "raw" \in odd \/ device # "open"
       \/ \A f \in Fd : sock[f].type = "raw" =>
             /\ IsSeq(sock[f].in)
             /\ RawTaken(Drain(sock[f].raw, sock[f].in, tx, Mtu))

LEMMA SetAppend ==
    ASSUME NEW s, NEW x, IsSeq(s)
    PROVE  ToSet(s) \subseteq ToSet(Append(s, x)) /\ ToSet(Append(s, x)) \subseteq ToSet(s) \cup {x}
<1>1. PICK S : s \in Seq(S)
  BY DEF IsSeq
<1> DEFINE T == S \cup {x}
<1>2. s \in Seq(T) /\ x \in T
  BY <1>1
<1> HIDE DEF T
<1>3. /\ DOMAIN s = 1 .. Len(s) /\ DOMAIN Append(s, x) = 1 .. (Len(s) + 1) /\ Len(s) \in Nat
      /\ (\A i \in 1 .. Len(s) : Append(s, x)[i] = s[i]) /\ Append(s, x)[Len(s) + 1] = x
  BY <1>2
<1> DEFINE a == Append(s, x)
<1> HIDE DEF a
<1>4. ToSet(s) \subseteq ToSet(a) /\ ToSet(a) \subseteq ToSet(s) \cup {x}
  BY <1>3 DEF ToSet, a
<1> QED  BY <1>4 DEF a

LEMMA SetConcat ==
    ASSUME NEW s, NEW t, IsSeq(s), IsSeq(t)
    PROVE  ToSet(s) \subseteq ToSet(s \o t) /\ ToSet(t) \subseteq ToSet(s \o t)
<1> DEFINE c == s \o t
<1>1. /\ IsSeq(c) /\ Len(c) = Len(s) + Len(t) /\ Len(s) \in Nat /\ Len(t) \in Nat
      /\ DOMAIN s = 1 .. Len(s) /\ DOMAIN t = 1 .. Len(t)
  BY SeqLen, ConcatSeq
<1>2. (\A i \in 1 .. Len(s) : c[i] = s[i]) /\ (\A i \in 1 .. Len(t) : c[Len(s) + i] = t[i])
  BY ConcatAt
<1> HIDE DEF c
<1>3. DOMAIN c = 1 .. (Len(s) + Len(t))
  BY <1>1, SeqLen
<1>4. ToSet(s) \subseteq ToSet(c)
  BY <1>1, <1>2, <1>3 DEF ToSet
<1>5. ASSUME NEW i \in 1 .. Len(t) PROVE t[i] \in ToSet(c)
  <2>1. Len(s) + i \in DOMAIN c /\ c[Len(s) + i] = t[i]
    BY <1>1, <1>2, <1>3
  <2> QED  BY <2>1 DEF ToSet
<1>6. ToSet(t) \subseteq ToSet(c)
  BY <1>1, <1>5 DEF ToSet
<1> QED  BY <1>4, <1>6 DEF c

LEMMA RawReadable ==
    ASSUME Sizes, NEW f \in Fd, IsSeq(sock[f].in), Idle(Drain(sock[f].raw, sock[f].in, tx, Mtu))
    PROVE  Readable(sock[f].raw, sock[f].in, tx, Mtu)
<1>1. IsSeq(tx) /\ Len(tx) <= Mtu /\ Holding(sock[f].raw, Len(tx)) /\ Mtu \in Nat
  BY IfaceAssumption DEF Sizes
<1>2. Sound(Drain(sock[f].raw, sock[f].in, tx, Mtu))
  BY DEF Idle, Sound
<1> QED  BY <1>1, <1>2 DEF Readable

\* A decoder that has not begun
LEMMA RawNew ==
    ASSUME NEW buf, NEW m PROVE LET t == Drain(NewDecoder, <<>>, buf, m) IN Idle(t) /\ t.got = <<>>
<1> DEFINE t == Drain(NewDecoder, <<>>, buf, m)
<1>1. t = Run(Begin(NewDecoder, <<>>, buf, m), <<>>)
  BY DrainIsRun
<1>2. t = Begin(NewDecoder, <<>>, buf, m)
  BY <1>1, RunNone
<1> QED  BY <1>2 DEF Begin, NewDecoder, Idle

\* A read of n octets
LEMMA RawRead ==
    ASSUME Sizes, RawReads, "raw" \notin odd, device = "open", NEW f \in Fd, sock[f].type = "raw",
           NEW n \in Nat, n <= Len(sock[f].in),
           NEW t, t = Drain(sock[f].raw, SubSeq(sock[f].in, 1, n), tx, Mtu)
    PROVE  LET in == SubSeq(sock[f].in, n + 1, Len(sock[f].in))
           IN  /\ t.fail = "no" /\ ("mixed" \notin odd => ToSet(t.got) \subseteq ToSet(handed))
               /\ IsSeq(in) /\ RawTaken(Drain(Rest(t), in, t.buf, Mtu))
<1> DEFINE d == sock[f].raw
           s == sock[f].in
           in == SubSeq(s, n + 1, Len(s))
           all == Drain(d, s, tx, Mtu)
           rest == Drain(Rest(t), in, t.buf, Mtu)
<1>1. IsSeq(s) /\ RawTaken(all)
  BY DEF RawReads
<1>2. Readable(d, s, tx, Mtu)
  BY <1>1, RawReadable DEF RawTaken
<1>a. t = Drain(d, SubSeq(s, 1, n), tx, Mtu) /\ n <= Len(s)
  OBVIOUS
<1> HIDE DEF d, s
<1>3. n \in 0 .. Len(s) /\ IsSeq(in)
  <2>1. Len(s) \in Nat
    BY <1>1, SeqLen
  <2>2. n \in 0 .. Len(s)
    BY <1>a, <2>1
  <2> QED  BY <1>1, <2>2, SplitSeq
<1>4. IsSeq(t.buf) /\ Holding(Rest(t), Len(t.buf)) /\ Rest(t).o = t.o
  BY <1>2, <1>a, ReadFits DEF Readable
<1>5. /\ Working(t) /\ Sound(t)
      /\ t.stop => all.stop /\ all.fail = t.fail
      /\ ~t.stop => Alike(all, rest, t.got, TRUE)
  <2> DEFINE b == t.buf
  <2>1. IsSeq(b) /\ t.o <= Len(b) /\ \A i \in 1 .. t.o : b[i] = t.buf[i]
    BY <1>4 DEF Holding
  <2>2. b = t.buf
    OBVIOUS
  <2> HIDE DEF b
  <2>3. /\ Working(t) /\ Sound(t)
        /\ t.stop => all.stop /\ all.fail = t.fail
        /\ ~t.stop => Alike(all, Drain(Rest(t), in, b, Mtu), t.got, TRUE)
    BY <1>2, <1>3, <1>a, <2>1, ReadParts
  <2> QED  BY <2>2, <2>3
<1> HIDE DEF all, rest
<1>6. ~t.stop
  BY <1>1, <1>5 DEF RawTaken, Idle
<1>7. /\ Together(all, rest) /\ all.got = t.got \o rest.got
      /\ IsSeq(t.got) /\ IsSeq(rest.got) /\ t.fail = "no"
  BY <1>5, <1>6 DEF Alike, SameText, Working
<1>8. ToSet(t.got) \subseteq ToSet(all.got) /\ ToSet(rest.got) \subseteq ToSet(all.got)
  <2> DEFINE g == t.got
             h == rest.got
  <2>1. IsSeq(g) /\ IsSeq(h) /\ all.got = g \o h
    BY <1>7
  <2> HIDE DEF g, h
  <2>2. ToSet(g) \subseteq ToSet(g \o h) /\ ToSet(h) \subseteq ToSet(g \o h)
    BY <2>1, SetConcat
  <2> QED  BY <2>1, <2>2 DEF g, h
<1>9. Idle(rest)
  BY <1>1, <1>7 DEF RawTaken, Together, Idle
<1> QED  BY <1>1, <1>3, <1>7, <1>8, <1>9 DEF RawTaken, rest, s

\* A socket that a step leaves alone, though it may write to tx_buf.
LEMMA RawAlike ==
    ASSUME Sizes, Sizes', RawReads, "raw" \notin odd, device = "open", odd \subseteq odd',
           ToSet(handed) \subseteq ToSet(handed'), NEW g \in Fd, sock[g].type = "raw",
           sock'[g].raw = sock[g].raw, sock'[g].in = sock[g].in,
           "mixed" \notin odd' => \A i \in 1 .. sock[g].raw.o : tx[i] = tx'[i]
    PROVE  /\ IsSeq(sock'[g].in)
           /\ RawTaken(Drain(sock[g].raw, sock[g].in, tx, Mtu))'
<1> DEFINE d == sock[g].raw
           in == sock[g].in
           t == Drain(d, in, tx, Mtu)
           v == Drain(d, in, tx', Mtu)
           same == "mixed" \notin odd'
<1>1. IsSeq(in) /\ RawTaken(t)
  BY DEF RawReads
<1>2. Readable(d, in, tx, Mtu)
  BY <1>1, RawReadable DEF RawTaken
<1>3. IsSeq(tx') /\ Holding(d, Len(tx'))
  <2>1. IsSeq(tx') /\ Holding(sock'[g].raw, Len(tx'))
    BY DEF Sizes, IsSeq, Holding
  <2> QED  BY <2>1
<1>4. same \in BOOLEAN /\ (same => \A i \in 1 .. d.o : tx[i] = tx'[i])
  OBVIOUS
<1>a. v = Drain(sock[g].raw, sock[g].in, tx, Mtu)'
  OBVIOUS
<1> HIDE DEF d, in
<1>5. Alike(t, v, <<>>, same)
  <2> DEFINE b == tx'
  <2>1. IsSeq(b) /\ Holding(d, Len(b)) /\ (same => \A i \in 1 .. d.o : tx[i] = b[i])
    BY <1>3, <1>4
  <2> HIDE DEF b, same
  <2>2. Alike(Drain(d, in, tx, Mtu), Drain(d, in, b, Mtu), <<>>, same)
    BY <1>2, <1>4, <2>1, ReadAlike
  <2> QED  BY <2>2 DEF b
<1> HIDE DEF t, v
<1>6. Together(t, v) /\ IsSeq(v.got) /\ (same => t.got = <<>> \o v.got)
  BY <1>5 DEF Alike, SameText, Working
<1>7. Idle(v)
  BY <1>1, <1>6 DEF RawTaken, Together, Idle
<1>8. same => v.got = t.got
  BY <1>6, ConcatNone
<1>9. "mixed" \notin odd' => ToSet(v.got) \subseteq ToSet(handed')
  BY <1>1, <1>8 DEF RawTaken
<1>10. RawTaken(Drain(sock[g].raw, sock[g].in, tx, Mtu))'
  BY <1>a, <1>7, <1>9 DEF RawTaken
<1> QED  BY <1>1, <1>10 DEF in

\* Every socket is new, or closed, or left alone, or its frames are known.
LEMMA RawKeeps ==
    ASSUME Sizes, Sizes', RawReads, device' = "open" => device = "open", odd \subseteq odd',
           IsSeq(handed) => IsSeq(handed') /\ ToSet(handed) \subseteq ToSet(handed'),
           ASSUME NEW g \in Fd, sock'[g].type = "raw", "raw" \notin odd', device = "open"
           PROVE  \/ sock'[g].raw = NewDecoder /\ sock'[g].in = <<>>
                  \/ /\ sock[g].type = "raw" /\ sock'[g].raw = sock[g].raw
                     /\ sock'[g].in = sock[g].in
                     /\ "mixed" \notin odd' => \A i \in 1 .. sock[g].raw.o : tx[i] = tx'[i]
                  \/ /\ IsSeq(sock'[g].in)
                     /\ RawTaken(Drain(sock[g].raw, sock[g].in, tx, Mtu))'
    PROVE  RawReads'
<1>2. IsSeq(handed) /\ IsSeq(handed') /\ ToSet(handed) \subseteq ToSet(handed')
  BY DEF RawReads
<1> SUFFICES ASSUME "raw" \notin odd', device' = "open" PROVE RawReads'
  BY <1>2 DEF RawReads
<1>1. "raw" \notin odd /\ device = "open"
  OBVIOUS
<1>3. ASSUME NEW g \in Fd, sock'[g].type = "raw"
      PROVE  IsSeq(sock'[g].in) /\ RawTaken(Drain(sock[g].raw, sock[g].in, tx, Mtu))'
  <2>1. CASE sock'[g].raw = NewDecoder /\ sock'[g].in = <<>>
    <3> DEFINE v == Drain(NewDecoder, <<>>, tx', Mtu)
    <3>1. Idle(v) /\ v.got = <<>>
      BY RawNew
    <3>2. v = Drain(sock[g].raw, sock[g].in, tx, Mtu)'
      BY <2>1
    <3> HIDE DEF v
    <3>3. ToSet(v.got) = {}
      <4>1. ToSet(<<>>) = {}
        BY DEF ToSet
      <4> QED  BY <3>1, <4>1
    <3>4. IsSeq(sock'[g].in)
      BY <2>1, NoneSeq
    <3> QED  BY <3>1, <3>2, <3>3, <3>4 DEF RawTaken
  <2>2. CASE /\ sock[g].type = "raw" /\ sock'[g].raw = sock[g].raw
             /\ sock'[g].in = sock[g].in
             /\ "mixed" \notin odd' => \A i \in 1 .. sock[g].raw.o : tx[i] = tx'[i]
    BY <1>1, <1>2, <2>2, RawAlike
  <2> QED  BY <1>1, <1>3, <2>1, <2>2
<1> QED  BY <1>2, <1>3 DEF RawReads

Alone(g) == /\ sock'[g].type = sock[g].type /\ sock'[g].raw = sock[g].raw
            /\ sock'[g].in = sock[g].in

LEMMA CopiedSame ==
    ASSUME NEW ss, InputOnly(ss), NEW i \in Interface, NEW g \in Fd
    PROVE  LET c == Copied(ss, i)
           IN  c[g].type = ss[g].type /\ c[g].raw = ss[g].raw /\ c[g].in = ss[g].in
<1> DEFINE c == Copied(ss, i)
           r == ss[g]
<1>1. r = [x \in Fields |-> r[x]]
  BY DEF InputOnly
<1>2. c[g] = r \/ c[g] = [r EXCEPT !.got = @ \cup {i}]
  <2>1. c = [f \in Fd |-> IF f \in promisc[i] THEN [ss[f] EXCEPT !.got = @ \cup {i}] ELSE ss[f]]
    BY DEF Copied
  <2> HIDE DEF c
  <2> QED  BY <2>1
<1> HIDE DEF c, r
<1>3. c[g].type = r.type /\ c[g].raw = r.raw /\ c[g].in = r.in
  BY <1>1, <1>2 DEF Fields
<1> QED  BY <1>3 DEF c, r

\* Steps that leave tx_buf and every socket alone, but for ptys and lists
LEMMA RawSame ==
    ASSUME Sizes, Sizes', RawReads, device' = "open" => device = "open", odd \subseteq odd',
           UNCHANGED <<tx, handed>>, \A g \in Fd : Alone(g)
    PROVE  RawReads'
<1>1. \A g \in Fd : sock'[g].type = "raw" =>
         /\ sock[g].type = "raw" /\ sock'[g].raw = sock[g].raw /\ sock'[g].in = sock[g].in
         /\ "mixed" \notin odd' => \A i \in 1 .. sock[g].raw.o : tx[i] = tx'[i]
  BY DEF Alone
<1>2. IsSeq(handed) => IsSeq(handed') /\ ToSet(handed) \subseteq ToSet(handed')
  BY DEF IsSeq
<1> QED  BY <1>1, <1>2, RawKeeps

LEMMA RawKiss ==
    ASSUME Sizes, Sizes', SInv, RawReads, NEW n \in Nat, HandleIfaceKiss(n) PROVE RawReads'
<1> DEFINE t       == Drain(decoder, SubSeq(Input, 1, n), rx, Mru)
           answers == SelectSeq(t.got, LAMBDA f : f \in Answered)
           ss      == Used(sock, n)
<1>1. /\ odd \subseteq odd' /\ device' = device /\ handed' = handed
      /\ answers # <<>> /\ Collecting("none") # {} => "mixed" \in odd'
  BY DEF HandleIfaceKiss, End, ptys
<1>2. CASE End
  BY <1>1, <1>2, RawSame DEF End, Alone
<1>3. CASE ~End /\ device = "open"
  <2>1. /\ answers = <<>> => tx' = tx
        /\ sock' = IF t.got = <<>> THEN ss
                   ELSE Copied(IF answers = <<>> THEN ss ELSE Written(ss), "this")
    BY <1>3 DEF HandleIfaceKiss
  <2>2. ss = sock /\ Written(sock) = sock
    BY <1>3, IfaceAssumption DEF Used, Written
  <2> HIDE DEF t, answers, ss
  <2>3. sock' = sock \/ sock' = Copied(sock, "this")
    BY <2>1, <2>2
  <2>4. \A g \in Fd : Alone(g)
    BY <2>3, CopiedSame, SameInput, NotNone DEF SInv, Alone
  <2>5. ASSUME NEW g \in Fd, "mixed" \notin odd'
        PROVE  \A i \in 1 .. sock[g].raw.o : tx[i] = tx'[i]
    <3>1. CASE answers = <<>>
      BY <2>1, <3>1
    <3>2. CASE Collecting("none") = {}
      <4>1. ~(sock[g].raw.o > 0)
        BY <3>2, IfaceAssumption DEF Collecting
      <4>2. sock[g].raw.o \in Nat
        BY DEF Sizes, Holding
      <4> QED  BY <4>1, <4>2
    <3> QED  BY <1>1, <2>5, <3>1, <3>2
  <2>6. \A g \in Fd : sock'[g].type = "raw" =>
           /\ sock[g].type = "raw" /\ sock'[g].raw = sock[g].raw /\ sock'[g].in = sock[g].in
           /\ "mixed" \notin odd' => \A i \in 1 .. sock[g].raw.o : tx[i] = tx'[i]
    BY <2>4, <2>5 DEF Alone
  <2>7. IsSeq(handed) => IsSeq(handed') /\ ToSet(handed) \subseteq ToSet(handed')
    BY <1>1
  <2> QED  BY <1>1, <2>6, <2>7, RawKeeps
<1>4. CASE device # "open"
  BY <1>1, <1>4 DEF RawReads, IsSeq
<1> QED  BY <1>2, <1>3, <1>4

LEMMA RawSock ==
    ASSUME Sizes, Sizes', SInv, RawReads, NEW f \in Fd, NEW n \in Nat, HandleSockRaw(f, n)
    PROVE  RawReads'
<1> DEFINE r    == sock[f]
           t    == Drain(r.raw, SubSeq(r.in, 1, n), tx, Mtu)
           d    == Rest(t)
           in   == SubSeq(r.in, n + 1, Len(r.in))
           s    == [r EXCEPT !.raw = d, !.in = in]
           rest == [sock EXCEPT ![f].raw = d, ![f].in = in]
<1>1. /\ odd \subseteq odd' /\ device' = device /\ handed' = handed
      /\ t.buf # tx /\ Collecting(f) # {} => "mixed" \in odd'
      /\ r.type = "raw" /\ n <= Len(r.in)
  BY DEF HandleSockRaw, End, ptys
<1>2. CASE End
  BY <1>1, <1>2, RawSame DEF End, Alone
<1>3. CASE ~End /\ device = "open" /\ "raw" \notin odd
  <2>1. tx' = t.buf /\ (sock' = rest \/ sock' = Copied(Written(rest), "this"))
    BY <1>3 DEF HandleSockRaw
  <2>2. IsSeq(in) /\ RawTaken(Drain(d, in, t.buf, Mtu))
    BY <1>1, <1>3, RawRead
  <2> HIDE DEF t, d, in, r
  <2>3. InputOnly(rest) /\ Written(rest) = rest
    BY <1>3, SetInput, IfaceAssumption DEF SInv, Written
  <2>4. rest = [g \in Fd |-> IF g = f THEN s ELSE sock[g]]
    BY DEF SInv, Tables, r
  <2>5. s.raw = d /\ s.in = in
    <3>1. r = [x \in Fields |-> r[x]]
      BY DEF SInv, Tables, r
    <3> QED  BY <3>1 DEF Fields
  <2> HIDE DEF s, rest
  <2>6. \A g \in Fd : /\ sock'[g].type = rest[g].type /\ sock'[g].raw = rest[g].raw
                      /\ sock'[g].in = rest[g].in
    BY <2>1, <2>3, CopiedSame, NotNone
  <2>7. ASSUME NEW g \in Fd, g # f PROVE Alone(g)
    BY <2>4, <2>6, <2>7 DEF Alone
  <2>8. ASSUME NEW g \in Fd, g # f, "mixed" \notin odd'
        PROVE  \A i \in 1 .. sock[g].raw.o : tx[i] = tx'[i]
    <3>1. CASE t.buf = tx
      BY <2>1, <3>1
    <3>2. CASE Collecting(f) = {}
      <4>1. ~(sock[g].raw.o > 0)
        BY <2>8, <3>2 DEF Collecting
      <4>2. sock[g].raw.o \in Nat
        BY DEF Sizes, Holding
      <4> QED  BY <4>1, <4>2
    <3> QED  BY <1>1, <2>8, <3>1, <3>2
  <2>9. IsSeq(sock'[f].in) /\ RawTaken(Drain(sock[f].raw, sock[f].in, tx, Mtu))'
    <3> DEFINE v == Drain(d, in, t.buf, Mtu)
    <3>1. sock'[f].raw = d /\ sock'[f].in = in
      BY <2>4, <2>5, <2>6
    <3>2. v = Drain(sock[f].raw, sock[f].in, tx, Mtu)'
      BY <2>1, <3>1
    <3>3. Idle(v) /\ ("mixed" \notin odd => ToSet(v.got) \subseteq ToSet(handed))
      BY <2>2 DEF RawTaken
    <3> HIDE DEF v
    <3> QED  BY <1>1, <2>2, <3>1, <3>2, <3>3 DEF RawTaken
  <2>10. ASSUME NEW g \in Fd, sock'[g].type = "raw"
         PROVE  \/ /\ sock[g].type = "raw" /\ sock'[g].raw = sock[g].raw
                   /\ sock'[g].in = sock[g].in
                   /\ "mixed" \notin odd' => \A i \in 1 .. sock[g].raw.o : tx[i] = tx'[i]
                \/ /\ IsSeq(sock'[g].in)
                   /\ RawTaken(Drain(sock[g].raw, sock[g].in, tx, Mtu))'
    <3>1. CASE g = f
      BY <2>9, <3>1
    <3>2. CASE g # f
      BY <2>7, <2>8, <2>10, <3>2 DEF Alone
    <3> QED  BY <3>1, <3>2
  <2>11. IsSeq(handed) => IsSeq(handed') /\ ToSet(handed) \subseteq ToSet(handed')
    BY <1>1
  <2> QED  BY <1>1, <2>10, <2>11, RawKeeps
<1>4. CASE device # "open" \/ "raw" \in odd
  BY <1>1, <1>4 DEF RawReads, IsSeq
<1> QED  BY <1>2, <1>3, <1>4

LEMMA RawWrites ==
    ASSUME Sizes, Sizes', SInv, RawReads, NEW f \in Fd, NEW frame, NEW octets, NEW what,
           Write(f, frame, octets, what),
           \/ octets = Encode(frame) /\ frame \in Seq(0 .. 255) /\ Len(frame) \in 1 .. (Mtu - 1)
           \/ "raw" \in odd'
    PROVE  RawReads'
<1> DEFINE r == sock[f]
           in == r.in \o octets
           s == [r EXCEPT !.in = in]
<1>1. /\ sock' = [g \in Fd |-> IF g = f THEN s ELSE sock[g]]
      /\ handed' = Append(handed, frame) /\ odd \subseteq odd' /\ r.type = "raw"
      /\ UNCHANGED <<device, tx>>
  BY DEF Write, SInv, Tables, Irregular
<1>2. r = [x \in Fields |-> r[x]]
  BY DEF SInv, Tables
<1> HIDE DEF in
<1>3. s.raw = r.raw /\ s.in = in
  <2> HIDE DEF r
  <2> QED  BY <1>2 DEF Fields
<1> HIDE DEF s
<1>4. IsSeq(handed) => IsSeq(handed') /\ ToSet(handed) \subseteq ToSet(handed')
                       /\ ToSet(handed') \subseteq ToSet(handed) \cup {frame}
                       /\ frame \in ToSet(handed')
  <2> SUFFICES ASSUME IsSeq(handed)
               PROVE  /\ IsSeq(handed') /\ ToSet(handed) \subseteq ToSet(handed')
                      /\ ToSet(handed') \subseteq ToSet(handed) \cup {frame}
                      /\ frame \in ToSet(handed')
    OBVIOUS
  <2>1. IsSeq(handed') /\ ToSet(handed) \subseteq ToSet(handed')
        /\ ToSet(handed') \subseteq ToSet(handed) \cup {frame}
    BY <1>1, SetAppend, AppendSeq
  <2>2. frame \in ToSet(handed')
    <3>1. IsSeq(<<frame>>) /\ ToSet(<<frame>>) = {frame}
      <4>1. <<frame>> \in Seq({frame}) /\ DOMAIN <<frame>> = {1} /\ <<frame>>[1] = frame
        OBVIOUS
      <4> QED  BY <4>1 DEF IsSeq, ToSet
    <3>2. handed' = handed \o <<frame>>
      <4>1. PICK S : handed \in Seq(S)
        BY DEF IsSeq
      <4>2. handed \in Seq(S \cup {frame})
        BY <4>1
      <4> QED  BY <1>1, <4>2
    <3> DEFINE one == <<frame>>
    <3>3. frame \in ToSet(one) /\ IsSeq(one) /\ handed' = handed \o one
      BY <3>1, <3>2
    <3> HIDE DEF one
    <3>4. ToSet(one) \subseteq ToSet(handed \o one)
      BY <3>3, SetConcat
    <3> QED  BY <3>3, <3>4
  <2> QED  BY <2>1, <2>2
<1>5. ASSUME "raw" \notin odd', device = "open"
      PROVE  IsSeq(sock'[f].in) /\ RawTaken(Drain(sock[f].raw, sock[f].in, tx, Mtu))'
  <2> DEFINE t == Drain(r.raw, r.in, tx, Mtu)
             v == Drain(r.raw, r.in \o octets, tx, Mtu)
  <2>1. octets = Encode(frame) /\ frame \in Seq(0 .. 255) /\ Len(frame) \in 1 .. (Mtu - 1)
    BY <1>5
  <2>2. IsSeq(r.in) /\ RawTaken(t) /\ IsSeq(handed)
    BY <1>1, <1>5 DEF RawReads
  <2>3. Readable(r.raw, r.in, tx, Mtu)
    BY <2>2, RawReadable DEF RawTaken
  <2>4. sock'[f].in = r.in \o octets /\ sock'[f].raw = r.raw
    BY <1>1, <1>3 DEF in
  <2>5. v = Drain(sock[f].raw, sock[f].in, tx, Mtu)'
    BY <1>1, <2>4
  <2>a. IsSeq(t.got)
    <3>1. Alike(t, t, <<>>, FALSE)
      BY <2>3, ReadAlike DEF Readable
    <3> QED  BY <3>1 DEF Alike, Working
  <2>6. Idle(v) /\ v.got = Append(t.got, frame)
    <3>1. Idle(t) => Idle(v) /\ v.got = Append(t.got, frame)
      <4> HIDE DEF r
      <4> QED  BY <2>1, <2>3, FrameWritten
    <3> QED  BY <2>2, <3>1 DEF RawTaken
  <2>7. IsSeq(sock'[f].in)
    <3>1. IsSeq(octets)
      BY <2>1, EncodeIsSeq
    <3> HIDE DEF r
    <3> QED  BY <2>2, <2>4, <3>1, ConcatSeq
  <2> HIDE DEF v, t
  <2>8. ASSUME "mixed" \notin odd' PROVE ToSet(v.got) \subseteq ToSet(handed')
    <3>1. ToSet(t.got) \subseteq ToSet(handed)
      BY <1>1, <2>2, <2>8 DEF RawTaken
    <3>2. ToSet(v.got) \subseteq ToSet(t.got) \cup {frame}
      BY <2>6, <2>a, SetAppend
    <3> QED  BY <1>4, <2>2, <3>1, <3>2
  <2> QED  BY <2>5, <2>6, <2>7, <2>8 DEF RawTaken
<1>6. \A g \in Fd : g # f => sock'[g] = sock[g]
  BY <1>1
<1>7. ASSUME NEW g \in Fd, sock'[g].type = "raw", "raw" \notin odd', device = "open"
      PROVE  \/ /\ sock[g].type = "raw" /\ sock'[g].raw = sock[g].raw
                /\ sock'[g].in = sock[g].in
                /\ "mixed" \notin odd' => \A i \in 1 .. sock[g].raw.o : tx[i] = tx'[i]
             \/ /\ IsSeq(sock'[g].in)
                /\ RawTaken(Drain(sock[g].raw, sock[g].in, tx, Mtu))'
  <2>1. CASE g = f
    BY <1>5, <1>7, <2>1
  <2>2. CASE g # f
    BY <1>1, <1>6, <1>7, <2>2
  <2> QED  BY <2>1, <2>2
<1> QED  BY <1>1, <1>4, <1>7, RawKeeps

LEMMA RawTable ==
    ASSUME Sizes, Sizes', SInv, RawReads, NEW f \in Fd, NEW s,
           sock' = [g \in Fd |-> IF g = f THEN s ELSE sock[g]],
           \/ s.type # "raw"
           \/ s.raw = NewDecoder /\ s.in = <<>>
           \/ s.type = sock[f].type /\ s.raw = sock[f].raw /\ s.in = sock[f].in,
           UNCHANGED <<tx, handed>>, odd \subseteq odd', device' = "open" => device = "open"
    PROVE  RawReads'
<1>1. \A g \in Fd : sock'[g].type = "raw" =>
         \/ sock'[g].raw = NewDecoder /\ sock'[g].in = <<>>
         \/ /\ sock[g].type = "raw" /\ sock'[g].raw = sock[g].raw /\ sock'[g].in = sock[g].in
            /\ "mixed" \notin odd' => \A i \in 1 .. sock[g].raw.o : tx[i] = tx'[i]
  OBVIOUS
<1>2. IsSeq(handed) => IsSeq(handed') /\ ToSet(handed) \subseteq ToSet(handed')
  BY DEF IsSeq
<1> QED  BY <1>1, <1>2, RawKeeps

LEMMA RawReadsInit == Init => RawReads
BY NoneSeq DEF Init, RawReads, Socket

LEMMA RawReadsNext == RawReads /\ Sizes /\ SInv /\ Sizes' /\ [Next]_vars => RawReads'
<1> SUFFICES ASSUME RawReads, Sizes, SInv, Sizes', [Next]_vars PROVE RawReads'
  OBVIOUS
<1> DEFINE Same == /\ odd \subseteq odd' /\ (device' = "open" => device = "open")
                   /\ UNCHANGED <<tx, handed, sock>>
           Kept == Same \/ RawReads'
<1>0. \A n \in 1 .. BufSize : n \in Nat
  BY IfaceAssumption
<1>1. ASSUME Line PROVE Same
  BY <1>1 DEF Line, Put, PutFrame, PutShared, PutIdle, PutGarbage, PutLine, PutComment,
              Irregular, ptys
<1>2. ASSUME NEW n \in 1 .. BufSize, HandleIfaceKiss(n) PROVE RawReads'
  BY <1>0, <1>2, RawKiss
<1>3. ASSUME NEW n, HandleIfaceAprs(n) PROVE Same
  BY <1>3 DEF HandleIfaceAprs, ptys
<1>4. ASSUME HandleIfaceError PROVE Same
  BY <1>4 DEF HandleIfaceError, End, Irregular, ptys
<1>5. ASSUME HandleIfaceEof \/ HandleIfaceWaits PROVE Same
  BY <1>5 DEF HandleIfaceEof, HandleIfaceWaits, End, Irregular, ptys
<1>6. ASSUME HandleIface PROVE Kept
  <2> HIDE DEF Same
  <2> QED  BY <1>2, <1>3, <1>4, <1>5, <1>6 DEF HandleIface
<1>7. ASSUME NEW f \in Fd, NEW n \in 1 .. BufSize, HandleSockRaw(f, n) PROVE RawReads'
  BY <1>0, <1>7, RawSock
<1>8. ASSUME NEW f \in Fd, NEW frame \in Frames, WriteFrame(f, frame) PROVE RawReads'
  <2> DEFINE what == IF Len(frame) \in 1 .. (Mtu - 1) THEN {} ELSE {"raw"}
  <2>1. Write(f, frame, Encode(frame), what) /\ what \subseteq odd'
    BY <1>8 DEF WriteFrame, Write, Irregular
  <2>2. Len(frame) \in 1 .. (Mtu - 1) \/ "raw" \in odd'
    BY <2>1
  <2>3. frame \in Seq(0 .. 255)
    BY IfaceAssumption
  <2> QED  BY <2>1, <2>2, <2>3, RawWrites
<1>9. ASSUME NEW f \in Fd, WriteGarbage(f) PROVE RawReads'
  <2>1. Write(f, <<>>, <<FEND, 15, FEND>>, {"raw"}) /\ "raw" \in odd'
    BY <1>9 DEF WriteGarbage, Write, Irregular
  <2> QED  BY <2>1, RawWrites
<1>10. ASSUME NEW f \in Fd, NEW type, ServerSocket(f, type) PROVE RawReads'
  <2> DEFINE s == Socket(type)
  <2>1. /\ sock' = [g \in Fd |-> IF g = f THEN s ELSE sock[g]]
        /\ s.raw = NewDecoder /\ s.in = <<>>
        /\ UNCHANGED <<tx, handed>> /\ odd' = odd
    BY <1>10 DEF ServerSocket, SInv, Tables, Socket
  <2>2. device' = "open" => device = "open"
    BY <1>10, IfaceAssumption DEF ServerSocket
  <2> HIDE DEF s
  <2> QED  BY <2>1, <2>2, RawTable
<1>11. ASSUME NEW f \in Fd, NEW i, NEW p, SetSockOptIf(f, i, p) PROVE RawReads'
  <2> DEFINE r == sock[f]
             s == [r EXCEPT !.iface = i, !.promisc = @ \/ p]
  <2>1. /\ sock' = [g \in Fd |-> IF g = f THEN s ELSE sock[g]]
        /\ UNCHANGED <<tx, handed, device>> /\ odd \subseteq odd'
    BY <1>11 DEF SetSockOptIf, SInv, Tables, Irregular
  <2>2. r = [x \in Fields |-> r[x]]
    BY DEF SInv, Tables
  <2> HIDE DEF r
  <2>3. s.raw = r.raw /\ s.in = r.in /\ s.type = r.type
    BY <2>2 DEF Fields
  <2> HIDE DEF s
  <2> QED  BY <2>1, <2>3, RawTable DEF r
<1>12. ASSUME NEW f \in Fd, SockClose(f) PROVE RawReads'
  <2> DEFINE s == Socket("none")
  <2>1. /\ sock' = [g \in Fd |-> IF g = f THEN s ELSE sock[g]] /\ s.type # "raw"
        /\ UNCHANGED <<tx, handed>> /\ odd' = odd /\ (device' = "open" => device = "open")
    BY <1>12 DEF SockClose, SInv, Tables, Socket
  <2> HIDE DEF s
  <2> QED  BY <2>1, RawTable
<1>13. ASSUME NEW i \in Others, HandleOther(i) PROVE RawReads'
  <2>1. odd' = odd /\ UNCHANGED <<tx, handed, device>>
        /\ (sock' = sock \/ sock' = Copied(sock, i))
    BY <1>13 DEF HandleOther, End, ptys
  <2>2. i \in Interface
    BY DEF Interface
  <2>3. \A g \in Fd : Alone(g)
    BY <2>1, <2>2, CopiedSame, SameInput DEF SInv, Alone
  <2> QED  BY <2>1, <2>3, RawSame
<1>14. ASSUME UNCHANGED vars PROVE Same
  BY <1>14 DEF vars, ptys
<1>17. ASSUME NEW f \in Fd, ServerListen(f) PROVE RawReads'
  <2> DEFINE r == sock[f]
             s == [r EXCEPT !.promisc = FALSE]
  <2>1. /\ sock' = [g \in Fd |-> IF g = f THEN s ELSE sock[g]]
        /\ UNCHANGED <<tx, handed, device>> /\ odd \subseteq odd'
    BY <1>17 DEF ServerListen, SInv, Tables, Irregular, ptys
  <2>2. r = [x \in Fields |-> r[x]]
    BY DEF SInv, Tables
  <2> HIDE DEF r
  <2>3. s.raw = r.raw /\ s.in = r.in /\ s.type = r.type
    BY <2>2 DEF Fields
  <2> HIDE DEF s
  <2> QED  BY <2>1, <2>3, RawTable DEF r
<1>15. ASSUME Raw PROVE RawReads'
  BY <1>7, <1>8, <1>9, <1>10, <1>11, <1>12, <1>15, <1>17 DEF Raw
<1>16. ASSUME Same PROVE RawReads'
  BY <1>16, RawSame DEF Alone
<1> HIDE DEF Same
<1> QED  BY <1>1, <1>6, <1>13, <1>14, <1>15, <1>16 DEF Next

LEMMA NoCopyFails ==
    ASSUME Bound, NEW i \in Interface PROVE ~CopyFails(i)
BY DEF Bound, CopyFails, Open

Wrong == odd \cap ({"long", "foreign", "raw"} \cup Stray) # {}

LEMMA SurvivesNext ==
    ASSUME Survives, KissReads, RawReads, Sizes, SInv, [Next]_vars PROVE Survives'
<1> SUFFICES ASSUME ~Wrong' PROVE up'
  BY DEF Survives, Wrong
<1>0. odd \subseteq odd'
  <2>1. ASSUME Line PROVE odd \subseteq odd'
    BY <2>1 DEF Line, Put, PutFrame, PutShared, PutIdle, PutGarbage, PutLine, PutComment, Irregular
  <2>2. ASSUME HandleIface PROVE odd \subseteq odd'
    BY <2>2 DEF HandleIface, HandleIfaceKiss, HandleIfaceAprs, HandleIfaceError,
                HandleIfaceEof, HandleIfaceWaits, Irregular
  <2>3. ASSUME Raw PROVE odd \subseteq odd'
    <3>1. ASSUME NEW f, NEW type, ServerSocket(f, type) PROVE odd \subseteq odd'
      BY ONLY <3>1 DEF ServerSocket, Irregular
    <3>2. ASSUME NEW f, NEW i, NEW p, SetSockOptIf(f, i, p) PROVE odd \subseteq odd'
      BY ONLY <3>2 DEF SetSockOptIf, Irregular
    <3>3. ASSUME NEW f, SockClose(f) PROVE odd \subseteq odd'
      BY ONLY <3>3 DEF SockClose, Irregular
    <3>4. ASSUME NEW f, NEW frame, WriteFrame(f, frame) PROVE odd \subseteq odd'
      BY ONLY <3>4 DEF WriteFrame, Write, Irregular
    <3>5. ASSUME NEW f, WriteGarbage(f) PROVE odd \subseteq odd'
      BY ONLY <3>5 DEF WriteGarbage, Write, Irregular
    <3>6. ASSUME NEW f, NEW n, HandleSockRaw(f, n) PROVE odd \subseteq odd'
      BY ONLY <3>6 DEF HandleSockRaw, Irregular
    <3>7. ASSUME NEW f, ServerListen(f) PROVE odd \subseteq odd'
      BY ONLY <3>7 DEF ServerListen, Irregular
    <3> QED  BY ONLY <2>3, <3>1, <3>2, <3>3, <3>4, <3>5, <3>6, <3>7 DEF Raw
  <2>4. ASSUME NEW i, HandleOther(i) PROVE odd \subseteq odd'
    BY <2>4 DEF HandleOther
  <2>5. ASSUME UNCHANGED vars PROVE odd \subseteq odd'
    BY <2>5 DEF vars
  <2> QED  BY <2>1, <2>2, <2>3, <2>4, <2>5 DEF Next
<1>2. /\ ~Foreign /\ ~Wrong /\ "raw" \notin odd /\ Bound /\ device = "open" /\ up
  <2>1. ~Wrong
    BY <1>0 DEF Wrong
  <2> QED  BY <2>1 DEF Wrong, Foreign, SInv, Bound, Survives, Stray
<1>3. ASSUME Line PROVE up'
  BY <1>3 DEF Line, Put, PutFrame, PutShared, PutIdle, PutGarbage, PutLine, PutComment
<1>4. ASSUME NEW n \in 1 .. BufSize, HandleIfaceKiss(n) PROVE up'
  <2> DEFINE t == Drain(decoder, SubSeq(wire, 1, n), rx, Mru)
  <2>1. Input = wire /\ driver = "kiss" /\ status = "UP" /\ n <= Len(wire) /\ n \in Nat
    BY <1>2, <1>4, IfaceAssumption DEF HandleIfaceKiss, Input
  <2>2. IsSeq(wire) /\ Reads(Drain(decoder, wire, rx, Mru))
    BY <1>2, <2>1 DEF KissReads
  <2>3. Readable(decoder, wire, rx, Mru)
    BY <2>1, <2>2, KissReadable
  <2>4. n \in 0 .. Len(wire)
    BY <2>1, <2>2, SeqLen
  <2>5. Working(t) /\ Sound(t)
    <3> DEFINE b == t.buf
    <3>1. IsSeq(b) /\ t.o <= Len(b) /\ \A i \in 1 .. t.o : b[i] = t.buf[i]
      <4>1. IsSeq(t.buf) /\ Holding(Rest(t), Len(t.buf)) /\ Rest(t).o = t.o
        BY <2>1, <2>3, ReadFits DEF Readable
      <4> QED  BY <4>1 DEF Holding
    <3> HIDE DEF b
    <3> QED  BY <2>3, <2>4, <3>1, ReadParts
  <2>6. t.fail # "any"
    BY <2>5 DEF Working, Sound
  <2>7. ~CopyFails("this")
    BY <1>2, NoCopyFails, NotNone
  <2> QED  BY <1>2, <1>4, <2>1, <2>6, <2>7 DEF HandleIfaceKiss
<1>5. ASSUME NEW n, HandleIfaceAprs(n) PROVE up'
  BY <1>5 DEF HandleIfaceAprs
<1>6. ASSUME HandleIfaceError \/ HandleIfaceEof PROVE FALSE
  <2>1. "hangup" \in odd'
    BY <1>6 DEF HandleIfaceError, HandleIfaceEof, Irregular
  <2> QED  BY <2>1 DEF Wrong, Stray
<1>7. ASSUME HandleIfaceWaits PROVE FALSE
  BY <1>2, <1>7, IfaceAssumption DEF HandleIfaceWaits, Open
<1>8. ASSUME NEW f \in Fd, NEW n \in 1 .. BufSize, HandleSockRaw(f, n) PROVE up'
  <2> DEFINE t == Drain(sock[f].raw, SubSeq(sock[f].in, 1, n), tx, Mtu)
  <2>1. sock[f].type = "raw" /\ n \in Nat /\ n <= Len(sock[f].in)
    BY <1>8, IfaceAssumption DEF HandleSockRaw
  <2>2. t.fail = "no"
    BY <1>2, <2>1, RawRead
  <2>3. ~SendFails
    BY <1>2, NoCopyFails, NotNone DEF SendFails
  <2> QED  BY <1>2, <1>8, <2>2, <2>3 DEF HandleSockRaw
<1>9. ASSUME NEW f \in Fd, NEW type, ServerSocket(f, type) PROVE up'
  BY <1>9 DEF ServerSocket
<1>10. ASSUME NEW f \in Fd, NEW i, NEW p, SetSockOptIf(f, i, p) PROVE up'
  BY <1>10 DEF SetSockOptIf
<1>11. ASSUME NEW f \in Fd, SockClose(f) PROVE up'
  BY <1>11 DEF SockClose
<1>12. ASSUME NEW f \in Fd, NEW frame, NEW octets, NEW what, Write(f, frame, octets, what)
       PROVE  up'
  BY <1>12 DEF Write
<1>17. ASSUME NEW f \in Fd, ServerListen(f) PROVE up'
  BY <1>17 DEF ServerListen
<1>13. ASSUME Raw PROVE up'
  BY <1>8, <1>9, <1>10, <1>11, <1>12, <1>13, <1>17 DEF Raw, WriteFrame, WriteGarbage
<1>14. ASSUME NEW i \in Others, HandleOther(i) PROVE up'
  <2>1. ~CopyFails(i)
    BY <1>2, NoCopyFails DEF Interface
  <2> QED  BY <1>14, <2>1 DEF HandleOther
<1>15. ASSUME HandleIface PROVE up'
  BY <1>4, <1>5, <1>6, <1>7, <1>15 DEF HandleIface
<1>16. ASSUME UNCHANGED vars PROVE up'
  BY <1>2, <1>16 DEF vars
<1> QED  BY <1>3, <1>13, <1>14, <1>15, <1>16 DEF Next

LEMMA RawIntactNext ==
    ASSUME RawIntact, RawReads, Sizes, SInv, [Next]_vars PROVE RawIntact'
<1> SUFFICES ASSUME odd' \cap {"mixed", "rebound", "raw"} = {}
             PROVE  air' \subseteq (ToSet(handed') \cup {Answer})
  BY DEF RawIntact
<1> DEFINE Same == air' = air /\ handed' = handed /\ odd \subseteq odd'
           Good == air' \subseteq (ToSet(handed') \cup {Answer})
<1>1. odd \subseteq odd' => air \subseteq (ToSet(handed) \cup {Answer})
  BY DEF RawIntact
<1>2. ASSUME Line PROVE Same
  BY <1>2 DEF Line, Put, PutFrame, PutShared, PutIdle, PutGarbage, PutLine, PutComment,
              Irregular, ptys
<1>3. ASSUME NEW n \in 1 .. BufSize, HandleIfaceKiss(n) PROVE Good
  <2> DEFINE t       == Drain(decoder, SubSeq(Input, 1, n), rx, Mru)
             answers == SelectSeq(t.got, LAMBDA f : f \in Answered)
             sends   == [i \in 1 .. Len(answers) |-> Answer]
  <2>1. odd \subseteq odd' /\ handed' = handed
        /\ (air' = air \/ air' = IfSend(sends))
    BY <1>3 DEF HandleIfaceKiss, End, ptys
  <2>2. ToSet(sends) \subseteq {Answer}
    BY DEF ToSet
  <2> HIDE DEF sends
  <2>3. IfSend(sends) \subseteq air \cup {Answer}
    BY <2>2 DEF IfSend
  <2> QED  BY <1>1, <2>1, <2>3
<1>4. ASSUME NEW n, HandleIfaceAprs(n) PROVE Same
  BY <1>4 DEF HandleIfaceAprs, ptys
<1>5. ASSUME HandleIfaceError PROVE Same
  BY <1>5 DEF HandleIfaceError, End, Irregular, ptys
<1>6. ASSUME HandleIfaceEof \/ HandleIfaceWaits PROVE Same
  BY <1>6 DEF HandleIfaceEof, HandleIfaceWaits, End, Irregular, ptys
<1>7. ASSUME NEW f \in Fd, NEW n \in 1 .. BufSize, HandleSockRaw(f, n) PROVE Good
  <2> DEFINE t == Drain(sock[f].raw, SubSeq(sock[f].in, 1, n), tx, Mtu)
  <2>a. End \/ (air' = IfSend(t.got) /\ UNCHANGED ptys)
    BY <1>7 DEF HandleSockRaw
  <2>b. odd \subseteq odd' /\ sock[f].type = "raw" /\ n \in Nat /\ n <= Len(sock[f].in)
    BY <1>7, IfaceAssumption DEF HandleSockRaw
  <2>1. /\ odd \subseteq odd' /\ handed' = handed /\ (air' = air \/ air' = IfSend(t.got))
        /\ sock[f].type = "raw" /\ n \in Nat /\ n <= Len(sock[f].in)
    <3> HIDE DEF t
    <3> QED  BY <2>a, <2>b DEF End, ptys
  <2>2. CASE device = "open"
    <3>1. "raw" \notin odd /\ "mixed" \notin odd
      BY <2>1
    <3>2. ToSet(t.got) \subseteq ToSet(handed)
      BY <2>1, <2>2, <3>1, RawRead
    <3> HIDE DEF t
    <3>3. IfSend(t.got) \subseteq air \cup ToSet(handed)
      BY <3>2 DEF IfSend
    <3> QED  BY <1>1, <2>1, <3>3
  <2>3. CASE device # "open"
    <3>1. IfSend(t.got) = air
      BY <2>3 DEF IfSend
    <3> HIDE DEF t
    <3> QED  BY <1>1, <2>1, <3>1
  <2> QED  BY <2>2, <2>3
<1>8. ASSUME NEW f \in Fd, NEW frame, NEW octets, NEW what, Write(f, frame, octets, what)
      PROVE  odd \subseteq odd' /\ air' = air /\ handed' = Append(handed, frame)
  BY <1>8 DEF Write, Irregular
<1>9. ASSUME NEW f, NEW type, ServerSocket(f, type) PROVE Same
  BY <1>9 DEF ServerSocket
<1>10. ASSUME NEW f, NEW i, NEW p, SetSockOptIf(f, i, p) PROVE Same
  BY <1>10 DEF SetSockOptIf, Irregular
<1>11. ASSUME NEW f, SockClose(f) PROVE Same
  BY <1>11 DEF SockClose
<1>12. ASSUME NEW i, HandleOther(i) PROVE Same
  BY <1>12 DEF HandleOther, End, ptys
<1>13. ASSUME UNCHANGED vars PROVE Same
  BY <1>13 DEF vars, ptys
<1>14. ASSUME Same PROVE Good
  BY <1>1, <1>14
<1>15. ASSUME NEW frame, odd \subseteq odd', air' = air, handed' = Append(handed, frame) PROVE Good
  <2>1. ToSet(handed) \subseteq ToSet(handed')
    BY <1>15, SetAppend DEF RawReads
  <2> QED  BY <1>1, <1>15, <2>1
<1>19. ASSUME NEW f, ServerListen(f) PROVE Same
  BY <1>19 DEF ServerListen, Irregular, line, ptys
<1>16. ASSUME Raw PROVE Good
  <2> HIDE DEF Good, Same
  <2> QED  BY <1>7, <1>8, <1>9, <1>10, <1>11, <1>14, <1>15, <1>16, <1>19 DEF Raw, WriteFrame, WriteGarbage
<1>17. ASSUME HandleIface PROVE Good
  <2> HIDE DEF Good, Same
  <2> QED  BY <1>3, <1>4, <1>5, <1>6, <1>14, <1>17 DEF HandleIface
<1>18. Good
  <2> HIDE DEF Good, Same
  <2> QED  BY <1>2, <1>12, <1>13, <1>14, <1>16, <1>17 DEF Next
<1> QED  BY <1>18

LEMMA SurvivesInit == Init => Survives /\ RawIntact
BY DEF Init, Survives, RawIntact

\* An unknown command from another TNC, or two writers that mix their frames in
\* tx_buf, may take the interface down, but the errors of patty_kiss_tnc_drain()
\* and of handle_promisc_frame() do not end the daemon, for all frames, reads,
\* sizes of the buffers and sockets.
THEOREM IfaceSurvives == Spec => []Survives
BY SInvInit, SInvNext, SizesInit, SizesNext, KissReadsInit, KissReadsNext, RawReadsInit,
   RawReadsNext, SurvivesInit, SurvivesNext, PTL DEF Spec

\* The interface sends only frames that some client has written, octet by octet,
\* or the answer of the daemon: handle_sock_raw() finds in tx_buf what was written
\* to its pty, wherever the reads divide it, as long as no second writer uses
\* tx_buf while a frame is collected there.
THEOREM IfaceRawIntact == Spec => []RawIntact
BY SInvInit, SInvNext, SizesInit, SizesNext, RawReadsInit, RawReadsNext, SurvivesInit,
   RawIntactNext, PTL DEF Spec

---------------------------------------------------------------------------
(***************************************************************************)
(* The lines of an APRS-IS server, as if no read ended with one: behind a   *)
(* newline the decoder goes on.                                             *)
(***************************************************************************)
Going(a, c) ==
    IF a.stop THEN a
    ELSE IF c = "\n" THEN [Character(a, c) EXCEPT !.stop = FALSE] ELSE Character(a, c)

LinesAfterIs(g, t, text, k) ==
    g = [n \in 0 .. k |-> IF n = 0 THEN t ELSE Going(g[n - 1], text[n])]

GoOn(t, text) ==
    LET after[n \in 0 .. Len(text)] == IF n = 0 THEN t ELSE Going(after[n - 1], text[n])
    IN  after[Len(text)]

AprsIdle(a) == AprsRest(a) = NewAprs /\ ~a.stop

LEMMA LinesAfterExists ==
    ASSUME NEW t, NEW text, NEW k \in Nat PROVE \E g : LinesAfterIs(g, t, text, k)
<1> DEFINE P(g, j) == LinesAfterIs(g, t, text, j)
           S == {j \in Nat : \E g : P(g, j)}
<1>1. 0 \in S
  <2>1. P([n \in 0 .. 0 |-> t], 0)
    BY DEF LinesAfterIs
  <2> QED  BY <2>1
<1>2. ASSUME NEW j \in S PROVE j + 1 \in S
  <2>1. PICK g : P(g, j)
    OBVIOUS
  <2> DEFINE h == [n \in 0 .. (j + 1) |-> IF n = j + 1 THEN Going(g[j], text[j + 1]) ELSE g[n]]
  <2>2. g = [n \in 0 .. j |-> IF n = 0 THEN t ELSE Going(g[n - 1], text[n])]
    BY <2>1 DEF LinesAfterIs
  <2>3. ASSUME NEW n \in 0 .. (j + 1)
        PROVE  h[n] = IF n = 0 THEN t ELSE Going(h[n - 1], text[n])
    <3>1. CASE n = j + 1
      BY <3>1
    <3>2. CASE n \in 0 .. j
      <4>1. h[n] = g[n] /\ (n # 0 => h[n - 1] = g[n - 1])
        BY <3>2
      <4> HIDE DEF h
      <4> QED  BY <2>2, <3>2, <4>1
    <3> QED  BY <3>1, <3>2
  <2>4. h = [n \in 0 .. (j + 1) |-> h[n]]
    OBVIOUS
  <2> HIDE DEF h
  <2>5. P(h, j + 1)
    BY <2>3, <2>4 DEF LinesAfterIs
  <2>6. j + 1 \in Nat
    OBVIOUS
  <2> HIDE DEF P
  <2> QED  BY <2>5, <2>6
<1> HIDE DEF P
<1>3. S = Nat
  BY <1>1, <1>2, SetInduction
<1> QED  BY <1>3 DEF P


LEMMA GoOnAfter ==
    ASSUME NEW t, NEW text, Len(text) \in Nat
    PROVE  \E g : LinesAfterIs(g, t, text, Len(text)) /\ GoOn(t, text) = g[Len(text)]
<1> DEFINE P(g) == LinesAfterIs(g, t, text, Len(text))
<1>1. \E g : P(g)
  BY LinesAfterExists
<1>2. P(CHOOSE g : P(g))
  BY <1>1
<1>3. GoOn(t, text) = (CHOOSE g : P(g))[Len(text)]
  BY DEF GoOn, LinesAfterIs
<1> QED  BY <1>2, <1>3


LEMMA GoOnOne ==
    ASSUME NEW t, NEW s, Len(s) = 1 PROVE GoOn(t, s) = Going(t, s[1])
<1>1. PICK g : LinesAfterIs(g, t, s, 1) /\ GoOn(t, s) = g[1]
  <2>1. Len(s) \in Nat
    OBVIOUS
  <2>2. \E g : LinesAfterIs(g, t, s, Len(s)) /\ GoOn(t, s) = g[Len(s)]
    BY <2>1, GoOnAfter
  <2> QED  BY <2>2
<1>2. g[0] = t /\ g[1] = Going(g[0], s[1])
  BY <1>1 DEF LinesAfterIs
<1> QED  BY <1>1, <1>2

LEMMA GoOnNone ==
    ASSUME NEW t PROVE GoOn(t, <<>>) = t
<1>1. PICK g : LinesAfterIs(g, t, <<>>, 0) /\ GoOn(t, <<>>) = g[0]
  BY GoOnAfter
<1> QED  BY <1>1 DEF LinesAfterIs


LEMMA GoOnConcat ==
    ASSUME NEW t, NEW a, NEW b, IsSeq(a), IsSeq(b)
    PROVE  GoOn(t, a \o b) = GoOn(GoOn(t, a), b)
<1> DEFINE c == a \o b
           m == Len(a)
           n == Len(b)
<1>1. m \in Nat /\ n \in Nat /\ Len(c) = m + n
  BY SeqLen, ConcatSeq
<1>2. (\A i \in 1 .. m : c[i] = a[i]) /\ (\A i \in 1 .. n : c[m + i] = b[i])
  BY ConcatAt
<1> HIDE DEF c
<1>3. PICK g : LinesAfterIs(g, t, a, m) /\ GoOn(t, a) = g[m]
  BY <1>1, GoOnAfter
<1> DEFINE u == GoOn(t, a)
<1>4. PICK h : LinesAfterIs(h, u, b, n) /\ GoOn(u, b) = h[n]
  BY <1>1, GoOnAfter
<1>5. PICK k : LinesAfterIs(k, t, c, m + n) /\ GoOn(t, c) = k[m + n]
  BY <1>1, GoOnAfter
<1> HIDE DEF m, n, u
<1>6. g[0] = t /\ \A i \in 1 .. m : g[i] = Going(g[i - 1], a[i])
  BY <1>1, <1>3 DEF LinesAfterIs
<1>7. h[0] = u /\ \A i \in 1 .. n : h[i] = Going(h[i - 1], b[i])
  BY <1>1, <1>4 DEF LinesAfterIs
<1>8. k[0] = t /\ \A i \in 1 .. (m + n) : k[i] = Going(k[i - 1], c[i])
  BY <1>1, <1>5 DEF LinesAfterIs
<1>9. k[m] = g[m]
  <2> DEFINE S == {i \in Nat : i <= m => k[i] = g[i]}
  <2>1. 0 \in S
    BY <1>6, <1>8
  <2>2. ASSUME NEW i \in S PROVE i + 1 \in S
    <3> SUFFICES ASSUME i + 1 <= m PROVE k[i + 1] = g[i + 1]
      OBVIOUS
    <3>1. i \in Nat /\ k[i] = g[i] /\ i + 1 \in 1 .. m /\ i + 1 \in 1 .. (m + n) /\ (i + 1) - 1 = i
      BY <1>1
    <3> QED  BY <1>2, <1>6, <1>8, <3>1
  <2>3. S = Nat
    <3> HIDE DEF S
    <3>1. S \subseteq Nat
      BY DEF S
    <3> QED  BY <2>1, <2>2, <3>1, SetInduction
  <2> QED  BY <1>1, <2>3
<1>10. k[m + n] = h[n]
  <2> DEFINE S == {i \in Nat : i <= n => k[m + i] = h[i]}
  <2>1. 0 \in S
    BY <1>1, <1>3, <1>7, <1>9 DEF u
  <2>2. ASSUME NEW i \in S PROVE i + 1 \in S
    <3> SUFFICES ASSUME i + 1 <= n PROVE k[m + (i + 1)] = h[i + 1]
      OBVIOUS
    <3>1. /\ i \in Nat /\ k[m + i] = h[i] /\ i + 1 \in 1 .. n /\ (i + 1) - 1 = i
          /\ m + (i + 1) \in 1 .. (m + n) /\ (m + (i + 1)) - 1 = m + i
      BY <1>1
    <3>2. k[m + (i + 1)] = Going(k[m + i], c[m + (i + 1)]) /\ c[m + (i + 1)] = b[i + 1]
      BY <1>2, <1>8, <3>1
    <3> QED  BY <1>7, <3>1, <3>2
  <2>3. S = Nat
    <3> HIDE DEF S
    <3>1. S \subseteq Nat
      BY DEF S
    <3> QED  BY <2>1, <2>2, <3>1, SetInduction
  <2> QED  BY <1>1, <2>3
<1> QED  BY <1>4, <1>5, <1>10 DEF u, c

\* A decoder that has stopped does nothing.
LEMMA GoOnStopped ==
    ASSUME NEW t, NEW s, IsSeq(s), t.stop PROVE GoOn(t, s) = t
<1>1. Len(s) \in Nat
  BY SeqLen
<1>2. PICK g : LinesAfterIs(g, t, s, Len(s)) /\ GoOn(t, s) = g[Len(s)]
  BY <1>1, GoOnAfter
<1>3. g[0] = t /\ \A i \in 1 .. Len(s) : g[i] = Going(g[i - 1], s[i])
  BY <1>1, <1>2 DEF LinesAfterIs
<1> DEFINE S == {i \in Nat : i <= Len(s) => g[i] = t}
<1>4. 0 \in S
  BY <1>3
<1>5. ASSUME NEW i \in S PROVE i + 1 \in S
  <2> SUFFICES ASSUME i + 1 <= Len(s) PROVE g[i + 1] = t
    OBVIOUS
  <2>1. i \in Nat /\ g[i] = t /\ i + 1 \in 1 .. Len(s) /\ (i + 1) - 1 = i
    BY <1>1
  <2>2. g[i + 1] = Going(t, s[i + 1])
    BY <1>3, <2>1
  <2> QED  BY <2>2 DEF Going
<1>6. S = Nat
  <2> HIDE DEF S
  <2>1. S \subseteq Nat
    BY DEF S
  <2> QED  BY <1>4, <1>5, <2>1, SetInduction
<1> QED  BY <1>1, <1>2, <1>6

LEMMA GoOnJoined ==
    ASSUME NEW t, NEW r, NEW s, NEW e, IsSeq(s), IsSeq(e), Joined(r, s, e)
    PROVE  GoOn(t, r) = GoOn(GoOn(t, s), e) /\ IsSeq(r)
<1>1. GoOn(t, s \o e) = GoOn(GoOn(t, s), e)
  BY GoOnConcat
<1>2. IsSeq(s \o e)
  BY ConcatSeq
<1> QED  BY <1>1, <1>2 DEF Joined

---------------------------------------------------------------------------
(***************************************************************************)
(* One character.                                                           *)
(***************************************************************************)
Mid(state, call, src, dest, path, body, got) ==
    [state |-> state, call |-> call, src |-> src, dest |-> dest, path |-> path,
     body |-> body, stop |-> FALSE, got |-> got]

LEMMA MidIs ==
    ASSUME NEW state, NEW call, NEW src, NEW dest, NEW path, NEW body, NEW got
    PROVE  LET a == Mid(state, call, src, dest, path, body, got)
           IN  /\ a = [x \in AprsFields |-> a[x]]
               /\ a.state = state /\ a.call = call /\ a.src = src /\ a.dest = dest
               /\ a.path = path /\ a.body = body /\ a.stop = FALSE /\ a.got = got
BY DEF Mid, AprsFields

LEMMA IsMid ==
    ASSUME NEW u, u = [x \in AprsFields |-> u[x]], u.stop = FALSE
    PROVE  u = Mid(u.state, u.call, u.src, u.dest, u.path, u.body, u.got)
BY DEF Mid, AprsFields

\* A comma or a colon, and the state behind it
Divider(c) == c \in {",", ":"}

After(c) == IF c = ":" THEN "BODY" ELSE "HEADER"

LEMMA OnLetter ==
    ASSUME NEW call, NEW src, NEW dest, NEW path, NEW body, NEW got, NEW c, c \in Letter,
           Len(call) # CallSize
    PROVE  Going(Mid("HEADER", call, src, dest, path, body, got), c) =
               Mid("HEADER", Append(call, c), src, dest, path, body, got)
<1> DEFINE a == Mid("HEADER", call, src, dest, path, body, got)
<1>1. c \in {"A", "B"}
  BY DEF Letter
<1>2. c # "\n" /\ c # "#" /\ c \notin {">", ",", ":"}
  BY <1>1
<1>3. ~a.stop /\ a.state = "HEADER" /\ a.call = call
  BY DEF Mid
<1>4. Going(a, c) = InHeader(a, c)
  BY <1>2, <1>3 DEF Going, Character
<1>5. InHeader(a, c) = [a EXCEPT !.call = Append(@, c)]
  <2> HIDE DEF a
  <2> QED  BY <1>2, <1>3 DEF InHeader, CallFull
<1>6. [a EXCEPT !.call = Append(@, c)] = Mid("HEADER", Append(call, c), src, dest, path, body, got)
  <2> DEFINE u == [a EXCEPT !.call = Append(@, c)]
  <2>1. /\ a = [x \in AprsFields |-> a[x]]
        /\ a.state = "HEADER" /\ a.call = call /\ a.src = src /\ a.dest = dest
        /\ a.path = path /\ a.body = body /\ a.stop = FALSE /\ a.got = got
    BY DEF Mid, AprsFields
  <2> HIDE DEF a, After
  <2>2. /\ u = [x \in AprsFields |-> u[x]] /\ u.stop = FALSE
        /\ u.state = "HEADER" /\ u.call = Append(call, c) /\ u.src = src /\ u.dest = dest
        /\ u.path = path /\ u.body = body /\ u.got = got
    BY <2>1 DEF AprsFields
  <2> HIDE DEF u
  <2> QED  BY <2>2, IsMid DEF u
<1> QED  BY <1>4, <1>5, <1>6

LEMMA OnSource ==
    ASSUME NEW call, NEW src, NEW dest, NEW path, NEW body, NEW got, call # Empty
    PROVE  Going(Mid("HEADER", call, src, dest, path, body, got), ">") =
               Mid("HEADER", Empty, call, dest, path, body, got)
<1> DEFINE a == Mid("HEADER", call, src, dest, path, body, got)
<1>1. ~a.stop /\ a.state = "HEADER" /\ a.call = call
  BY DEF Mid
<1>2. Going(a, ">") = InHeader(a, ">")
  BY <1>1 DEF Going, Character
<1>3. InHeader(a, ">") = Address(a, ">")
  <2> HIDE DEF a
  <2> QED  BY DEF InHeader, Letter
<1>4. Address(a, ">") = [a EXCEPT !.src = a.call, !.call = Empty]
  <2> HIDE DEF a
  <2> QED  BY <1>1 DEF Address
<1>5. [a EXCEPT !.src = a.call, !.call = Empty] = Mid("HEADER", Empty, call, dest, path, body, got)
  <2> DEFINE u == [a EXCEPT !.src = a.call, !.call = Empty]
  <2>1. /\ a = [x \in AprsFields |-> a[x]]
        /\ a.state = "HEADER" /\ a.call = call /\ a.src = src /\ a.dest = dest
        /\ a.path = path /\ a.body = body /\ a.stop = FALSE /\ a.got = got
    BY DEF Mid, AprsFields
  <2> HIDE DEF a, After
  <2>2. /\ u = [x \in AprsFields |-> u[x]] /\ u.stop = FALSE
        /\ u.state = "HEADER" /\ u.call = Empty /\ u.src = call /\ u.dest = dest
        /\ u.path = path /\ u.body = body /\ u.got = got
    BY <2>1 DEF AprsFields
  <2> HIDE DEF u
  <2> QED  BY <2>2, IsMid DEF u
<1> QED  BY <1>2, <1>3, <1>4, <1>5

LEMMA OnDest ==
    ASSUME NEW call, NEW src, NEW path, NEW body, NEW got, NEW c, Divider(c), call # Empty
    PROVE  Going(Mid("HEADER", call, src, Empty, path, body, got), c) =
               Mid(After(c), Empty, src, call, path, body, got)
<1> DEFINE a == Mid("HEADER", call, src, Empty, path, body, got)
<1>1. ~a.stop /\ a.state = "HEADER" /\ a.call = call /\ a.dest = Empty
  BY DEF Mid
<1>0. c \in {",", ":"} /\ c # "\n" /\ c # ">" /\ c # "#"
  BY DEF Divider
<1>2. Going(a, c) = InHeader(a, c)
  BY <1>0, <1>1 DEF Going, Character
<1>3. InHeader(a, c) = Address(a, c)
  <2> HIDE DEF a
  <2> QED  BY <1>0 DEF InHeader, Letter
<1>4. Address(a, c) = [a EXCEPT !.dest = a.call, !.call = Empty, !.state = After(c)]
  <2> HIDE DEF a
  <2> QED  BY <1>0, <1>1 DEF Address, After
<1>5. [a EXCEPT !.dest = a.call, !.call = Empty, !.state = After(c)]
          = Mid(After(c), Empty, src, call, path, body, got)
  <2> DEFINE u == [a EXCEPT !.dest = a.call, !.call = Empty, !.state = After(c)]
  <2>1. /\ a = [x \in AprsFields |-> a[x]]
        /\ a.state = "HEADER" /\ a.call = call /\ a.src = src /\ a.dest = Empty
        /\ a.path = path /\ a.body = body /\ a.stop = FALSE /\ a.got = got
    BY DEF Mid, AprsFields
  <2> HIDE DEF a, After
  <2>2. /\ u = [x \in AprsFields |-> u[x]] /\ u.stop = FALSE
        /\ u.state = After(c) /\ u.call = Empty /\ u.src = src /\ u.dest = call
        /\ u.path = path /\ u.body = body /\ u.got = got
    BY <2>1 DEF AprsFields
  <2> HIDE DEF u
  <2> QED  BY <2>2, IsMid DEF u
<1> QED  BY <1>2, <1>3, <1>4, <1>5

LEMMA OnPath ==
    ASSUME NEW call, NEW src, NEW dest, NEW path, NEW body, NEW got, NEW c, Divider(c),
           call # Empty, dest # Empty, Len(path) # PathSize
    PROVE  Going(Mid("HEADER", call, src, dest, path, body, got), c) =
               Mid(After(c), Empty, src, dest, Append(path, call), body, got)
<1> DEFINE a == Mid("HEADER", call, src, dest, path, body, got)
<1>1. ~a.stop /\ a.state = "HEADER" /\ a.call = call /\ a.dest = dest /\ a.path = path
  BY DEF Mid
<1>0. c \in {",", ":"} /\ c # "\n" /\ c # ">" /\ c # "#"
  BY DEF Divider
<1>2. Going(a, c) = InHeader(a, c)
  BY <1>0, <1>1 DEF Going, Character
<1>3. InHeader(a, c) = Address(a, c)
  <2> HIDE DEF a
  <2> QED  BY <1>0 DEF InHeader, Letter
<1>4. Address(a, c) = [a EXCEPT !.path = Append(@, a.call), !.call = Empty, !.state = After(c)]
  <2> HIDE DEF a
  <2> QED  BY <1>0, <1>1 DEF Address, After
<1>5. [a EXCEPT !.path = Append(@, a.call), !.call = Empty, !.state = After(c)]
          = Mid(After(c), Empty, src, dest, Append(path, call), body, got)
  <2> DEFINE u == [a EXCEPT !.path = Append(@, a.call), !.call = Empty, !.state = After(c)]
  <2>1. /\ a = [x \in AprsFields |-> a[x]]
        /\ a.state = "HEADER" /\ a.call = call /\ a.src = src /\ a.dest = dest
        /\ a.path = path /\ a.body = body /\ a.stop = FALSE /\ a.got = got
    BY DEF Mid, AprsFields
  <2> HIDE DEF a, After
  <2>2. /\ u = [x \in AprsFields |-> u[x]] /\ u.stop = FALSE
        /\ u.state = After(c) /\ u.call = Empty /\ u.src = src /\ u.dest = dest
        /\ u.path = Append(path, call) /\ u.body = body /\ u.got = got
    BY <2>1 DEF AprsFields
  <2> HIDE DEF u
  <2> QED  BY <2>2, IsMid DEF u
<1> QED  BY <1>2, <1>3, <1>4, <1>5

LEMMA OnText ==
    ASSUME NEW src, NEW dest, NEW path, NEW body, NEW got, NEW c, c \notin {"\r", "\n"},
           Len(body) # BodySize
    PROVE  Going(Mid("BODY", Empty, src, dest, path, body, got), c) =
               Mid("BODY", Empty, src, dest, path, Append(body, c), got)
<1> DEFINE a == Mid("BODY", Empty, src, dest, path, body, got)
<1>1. ~a.stop /\ a.state = "BODY" /\ a.body = body
  BY DEF Mid
<1>2. \A d : d # "\n" => Going(a, d) = InText(a, d)
  BY <1>1 DEF Going, Character
<1>4. Going(a, c) = Mid("BODY", Empty, src, dest, path, Append(body, c), got)
  <2>1. InText(a, c) = [a EXCEPT !.body = Append(@, c)]
    <3> HIDE DEF a
    <3> QED  BY <1>1 DEF InText
  <2>2. [a EXCEPT !.body = Append(@, c)] = Mid("BODY", Empty, src, dest, path, Append(body, c), got)
    <3> DEFINE u == [a EXCEPT !.body = Append(@, c)]
    <3>1. /\ a = [x \in AprsFields |-> a[x]]
          /\ a.state = "BODY" /\ a.call = Empty /\ a.src = src /\ a.dest = dest
          /\ a.path = path /\ a.body = body /\ a.stop = FALSE /\ a.got = got
      BY DEF Mid, AprsFields
    <3> HIDE DEF a, After
    <3>2. /\ u = [x \in AprsFields |-> u[x]] /\ u.stop = FALSE
          /\ u.state = "BODY" /\ u.call = Empty /\ u.src = src /\ u.dest = dest
          /\ u.path = path /\ u.body = Append(body, c) /\ u.got = got
      BY <3>1 DEF AprsFields
    <3> HIDE DEF u
    <3> QED  BY <3>2, IsMid DEF u
  <2> QED  BY <1>2, <2>1, <2>2
<1> QED  BY <1>4

LEMMA OnTextEnd ==
    ASSUME NEW src, NEW dest, NEW path, NEW body, NEW got
    PROVE  LET a == Mid("BODY", Empty, src, dest, path, body, got)
               w == [src |-> src, dest |-> dest, path |-> path, body |-> body]
           IN  /\ Going(a, "\r") = a
               /\ Going(a, "\n") = Mid("HEADER", Empty, Empty, Empty, <<>>, <<>>, Append(got, w))
<1> DEFINE a == Mid("BODY", Empty, src, dest, path, body, got)
           w == [src |-> src, dest |-> dest, path |-> path, body |-> body]
<1>1. ~a.stop /\ a.state = "BODY" /\ a.body = body
  BY DEF Mid
<1>2. \A d : d # "\n" => Going(a, d) = InText(a, d)
  BY <1>1 DEF Going, Character
<1>3. Going(a, "\n") = [InText(a, "\n") EXCEPT !.stop = FALSE]
  BY <1>1 DEF Going, Character
<1>5. Going(a, "\r") = a
  <2>1. InText(a, "\r") = a
    BY DEF InText
  <2>2. "\r" # "\n"
    OBVIOUS
  <2> QED  BY <1>2, <2>1, <2>2
<1>6. Going(a, "\n") = Mid("HEADER", Empty, Empty, Empty, <<>>, <<>>, Append(got, w))
  <2>0. "\r" # "\n"
    OBVIOUS
  <2>1. InText(a, "\n") = [AprsFlush(a) EXCEPT !.got = Append(@, Whole(a))]
    <3> HIDE DEF a
    <3> QED  BY <2>0 DEF InText
  <2>2. Whole(a) = w
    BY DEF Mid, Whole
  <2> HIDE DEF w
  <2>3. [[AprsFlush(a) EXCEPT !.got = Append(@, w)] EXCEPT !.stop = FALSE]
            = Mid("HEADER", Empty, Empty, Empty, <<>>, <<>>, Append(got, w))
    <3> DEFINE e == AprsFlush(a)
               v == [e EXCEPT !.got = Append(@, w)]
               u == [v EXCEPT !.stop = FALSE]
    <3>1. a = [x \in AprsFields |-> a[x]] /\ a.got = got
      BY DEF Mid, AprsFields
    <3> HIDE DEF a
    <3>2. /\ e = [x \in AprsFields |-> e[x]]
          /\ e.state = "HEADER" /\ e.call = Empty /\ e.src = Empty /\ e.dest = Empty
          /\ e.path = <<>> /\ e.body = <<>> /\ e.got = got
      BY <3>1 DEF AprsFields, AprsFlush
    <3> HIDE DEF e
    <3>3. /\ v = [x \in AprsFields |-> v[x]]
          /\ v.state = "HEADER" /\ v.call = Empty /\ v.src = Empty /\ v.dest = Empty
          /\ v.path = <<>> /\ v.body = <<>> /\ v.got = Append(got, w)
      BY <3>2 DEF AprsFields
    <3> HIDE DEF v
    <3>4. /\ u = [x \in AprsFields |-> u[x]] /\ u.stop = FALSE
          /\ u.state = "HEADER" /\ u.call = Empty /\ u.src = Empty /\ u.dest = Empty
          /\ u.path = <<>> /\ u.body = <<>> /\ u.got = Append(got, w)
      BY <3>3 DEF AprsFields
    <3> HIDE DEF u
    <3> QED  BY <3>4, IsMid DEF u, v, e
  <2> QED  BY <1>3, <2>1, <2>2, <2>3
<1> QED  BY <1>5, <1>6

LEMMA OnComment ==
    ASSUME NEW src, NEW dest, NEW call, NEW path, NEW body, NEW got, NEW c, c # "\n"
    PROVE  LET a == Mid("HEADER", call, src, dest, path, body, got)
               b == Mid("COMMENT", call, src, dest, path, body, got)
           IN  Going(a, "#") = b /\ Going(b, c) = b /\ Going(b, "\n") = a
<1> DEFINE a == Mid("HEADER", call, src, dest, path, body, got)
           b == Mid("COMMENT", call, src, dest, path, body, got)
<1>1. ~a.stop /\ a.state = "HEADER" /\ ~b.stop /\ b.state = "COMMENT"
  BY DEF Mid
<1>2. Going(a, "#") = InHeader(a, "#")
  BY <1>1 DEF Going, Character
<1>3. InHeader(a, "#") = [a EXCEPT !.state = "COMMENT"]
  <2> HIDE DEF a
  <2> QED  BY DEF InHeader, Letter
<1>8. /\ a = [x \in AprsFields |-> a[x]] /\ b = [x \in AprsFields |-> b[x]]
      /\ a.state = "HEADER" /\ b.state = "COMMENT" /\ a.call = b.call /\ a.src = b.src
      /\ a.dest = b.dest /\ a.path = b.path /\ a.body = b.body /\ a.got = b.got
      /\ a.stop = FALSE /\ b.stop = FALSE
  BY MidIs DEF Mid
<1>4. [a EXCEPT !.state = "COMMENT"] = b
  <2> HIDE DEF a, b
  <2> QED  BY ZenonT(60), <1>8 DEF AprsFields
<1>5. Going(b, c) = b
  <2> HIDE DEF b
  <2> QED  BY <1>1 DEF Going, Character, InComment
<1>6. Going(b, "\n") = [[b EXCEPT !.state = "HEADER", !.stop = TRUE] EXCEPT !.stop = FALSE]
  <2> HIDE DEF b
  <2> QED  BY <1>1 DEF Going, Character, InComment
<1>7. [[b EXCEPT !.state = "HEADER", !.stop = TRUE] EXCEPT !.stop = FALSE] = a
  <2> DEFINE u == [b EXCEPT !.state = "HEADER", !.stop = TRUE]
             v == [u EXCEPT !.stop = FALSE]
  <2> HIDE DEF a, b
  <2>1. /\ u = [x \in AprsFields |-> u[x]] /\ u.state = "HEADER" /\ u.call = b.call
        /\ u.src = b.src /\ u.dest = b.dest /\ u.path = b.path /\ u.body = b.body
        /\ u.got = b.got
    BY <1>8 DEF AprsFields
  <2> HIDE DEF u
  <2>2. v = a
    BY ZenonT(60), <1>8, <2>1 DEF AprsFields
  <2> QED  BY <2>2 DEF u
<1> QED  BY <1>2, <1>3, <1>4, <1>5, <1>6, <1>7

---------------------------------------------------------------------------
(***************************************************************************)
(* A line and a comment.                                                    *)
(***************************************************************************)
LEMMA AppendAt ==
    ASSUME NEW s, NEW c, IsSeq(s)
    PROVE  /\ \A i \in 1 .. Len(s) : Append(s, c)[i] = s[i]
           /\ Append(s, c)[Len(s) + 1] = c
<1>1. PICK S : s \in Seq(S)
  BY DEF IsSeq
<1>2. s \in Seq(S \cup {c}) /\ c \in S \cup {c}
  BY <1>1
<1> QED  BY <1>2

LEMMA NextPart ==
    ASSUME NEW s, IsSeq(s), NEW i \in Nat, i + 1 <= Len(s)
    PROVE  SubSeq(s, 1, i + 1) = Append(SubSeq(s, 1, i), s[i + 1])
<1> DEFINE a == SubSeq(s, 1, i)
           u == SubSeq(s, 1, i + 1)
           v == Append(a, s[i + 1])
<1>1. IsSeq(u) /\ Len(u) = i + 1 /\ \A j \in 1 .. (i + 1) : u[j] = s[j]
  BY FirstSeq
<1>2. IsSeq(a) /\ Len(a) = i /\ \A j \in 1 .. i : a[j] = s[j]
  BY FirstSeq
<1> HIDE DEF u, a
<1>3. IsSeq(v) /\ Len(v) = i + 1
  BY <1>2, AppendSeq
<1>4. \A j \in 1 .. i : v[j] = a[j]
  BY <1>2, AppendAt
<1>5. v[i + 1] = s[i + 1]
  BY <1>2, AppendAt
<1> HIDE DEF v
<1>6. \A j \in 1 .. (i + 1) : j \in 1 .. i \/ j = i + 1
  OBVIOUS
<1>7. u = v
  BY <1>1, <1>2, <1>3, <1>4, <1>5, <1>6, SameSeq
<1> QED  BY <1>7 DEF u, v, a

LEMMA CallRun ==
    ASSUME NEW s \in Seq(Letter), Len(s) <= CallSize,
           NEW src, NEW dest, NEW path, NEW body, NEW got
    PROVE  GoOn(Mid("HEADER", Empty, src, dest, path, body, got), s) =
               Mid("HEADER", s, src, dest, path, body, got)
<1> DEFINE P(i) == Mid("HEADER", SubSeq(s, 1, i), src, dest, path, body, got)
           n == Len(s)
<1>1. IsSeq(s) /\ n \in Nat /\ \A i \in 1 .. n : s[i] \in Letter
  BY DEF IsSeq
<1>2. SubSeq(s, 1, 0) = Empty /\ SubSeq(s, 1, n) = s
  <2>1. SubSeq(s, 1, 0) = <<>>
    BY <1>1
  <2>2. SubSeq(s, 1, n) = s
    BY SubSeqFull
  <2> QED  BY <2>1, <2>2 DEF Empty
<1>3. PICK g : LinesAfterIs(g, P(0), s, n) /\ GoOn(P(0), s) = g[n]
  <2> HIDE DEF P
  <2> QED  BY <1>1, GoOnAfter
<1>4. g[0] = P(0) /\ \A i \in 1 .. n : g[i] = Going(g[i - 1], s[i])
  <2> HIDE DEF P
  <2> QED  BY <1>1, <1>3 DEF LinesAfterIs
<1>5. ASSUME NEW i \in Nat, i + 1 <= n PROVE Going(P(i), s[i + 1]) = P(i + 1)
  <2> DEFINE c == SubSeq(s, 1, i)
             d == s[i + 1]
  <2>1. Len(c) = i /\ Append(c, d) = SubSeq(s, 1, i + 1) /\ d \in Letter
    BY <1>1, <1>5, FirstSeq, NextPart
  <2>2. Len(c) # CallSize
    BY <1>1, <1>5, <2>1, AprsAssumption
  <2>4. d \in Letter
    BY <2>1
  <2> HIDE DEF c, n, d, P
  <2>3. Going(Mid("HEADER", c, src, dest, path, body, got), d) =
            Mid("HEADER", Append(c, d), src, dest, path, body, got)
    BY ONLY <2>2, <2>4, OnLetter
  <2> QED  BY <2>1, <2>3 DEF c, d, P
<1> HIDE DEF P
<1> DEFINE S == {i \in Nat : i <= n => g[i] = P(i)}
<1>6. 0 \in S
  BY <1>4
<1>7. ASSUME NEW i \in S PROVE i + 1 \in S
  <2> SUFFICES ASSUME i + 1 <= n PROVE g[i + 1] = P(i + 1)
    OBVIOUS
  <2>1. i \in Nat /\ g[i] = P(i) /\ i + 1 \in 1 .. n /\ (i + 1) - 1 = i
    BY <1>1
  <2>2. g[i + 1] = Going(P(i), s[i + 1])
    BY <1>4, <2>1
  <2> QED  BY <1>5, <2>1, <2>2
<1>8. S = Nat
  <2> HIDE DEF S
  <2>1. S \subseteq Nat
    BY DEF S
  <2> QED  BY <1>6, <1>7, <2>1, SetInduction
<1>9. g[n] = P(n)
  BY <1>1, <1>8
<1> QED  BY <1>2, <1>3, <1>9 DEF P

LEMMA TextRun ==
    ASSUME NEW s, IsSeq(s), Len(s) <= BodySize, \A i \in 1 .. Len(s) : s[i] \notin {"\r", "\n"},
           NEW src, NEW dest, NEW path, NEW got
    PROVE  GoOn(Mid("BODY", Empty, src, dest, path, <<>>, got), s) =
               Mid("BODY", Empty, src, dest, path, s, got)
<1> DEFINE P(i) == Mid("BODY", Empty, src, dest, path, SubSeq(s, 1, i), got)
           n == Len(s)
<1>1. n \in Nat
  BY SeqLen
<1>2. SubSeq(s, 1, 0) = <<>> /\ SubSeq(s, 1, n) = s
  <2>1. SubSeq(s, 1, 0) = <<>>
    BY <1>1
  <2>2. SubSeq(s, 1, n) = s
    BY SubSeqFull DEF IsSeq
  <2> QED  BY <2>1, <2>2
<1>3. PICK g : LinesAfterIs(g, P(0), s, n) /\ GoOn(P(0), s) = g[n]
  <2> HIDE DEF P
  <2> QED  BY <1>1, GoOnAfter
<1>4. g[0] = P(0) /\ \A i \in 1 .. n : g[i] = Going(g[i - 1], s[i])
  <2> HIDE DEF P
  <2> QED  BY <1>1, <1>3 DEF LinesAfterIs
<1>5. ASSUME NEW i \in Nat, i + 1 <= n PROVE Going(P(i), s[i + 1]) = P(i + 1)
  <2> DEFINE b == SubSeq(s, 1, i)
             c == s[i + 1]
  <2>1. Len(b) = i /\ Append(b, c) = SubSeq(s, 1, i + 1)
    BY <1>5, FirstSeq, NextPart
  <2>2. Len(b) # BodySize
    BY <1>1, <1>5, <2>1, AprsAssumption
  <2>4. c \notin {"\r", "\n"}
    BY <1>1, <1>5
  <2> HIDE DEF b, n, c, P
  <2>3. Going(Mid("BODY", Empty, src, dest, path, b, got), c) =
            Mid("BODY", Empty, src, dest, path, Append(b, c), got)
    BY ONLY <2>2, <2>4, OnText
  <2> QED  BY <2>1, <2>3 DEF b, c, P
<1> HIDE DEF P
<1> DEFINE S == {i \in Nat : i <= n => g[i] = P(i)}
<1>6. 0 \in S
  BY <1>4
<1>7. ASSUME NEW i \in S PROVE i + 1 \in S
  <2> SUFFICES ASSUME i + 1 <= n PROVE g[i + 1] = P(i + 1)
    OBVIOUS
  <2>1. i \in Nat /\ g[i] = P(i) /\ i + 1 \in 1 .. n /\ (i + 1) - 1 = i
    BY <1>1
  <2>2. g[i + 1] = Going(P(i), s[i + 1])
    BY <1>4, <2>1
  <2> QED  BY <1>5, <2>1, <2>2
<1>8. S = Nat
  <2> HIDE DEF S
  <2>1. S \subseteq Nat
    BY DEF S
  <2> QED  BY <1>6, <1>7, <2>1, SetInduction
<1>9. g[n] = P(n)
  BY <1>1, <1>8
<1> QED  BY <1>2, <1>3, <1>9 DEF P

LEMMA Stations == \A s \in Station : s \in Seq(Letter) /\ s # Empty /\ IsSeq(s)
BY IfaceAssumption, FrameAssumption DEF IsSeq

LEMMA OneSeq == \A c : IsSeq(<<c>>) /\ Len(<<c>>) = 1 /\ <<c>>[1] = c
<1>1. \A c : <<c>> \in Seq({c}) /\ Len(<<c>>) = 1 /\ <<c>>[1] = c
  OBVIOUS
<1> QED  BY <1>1 DEF IsSeq

\* One character and then a call
LEMMA ThenCall ==
    ASSUME NEW t, NEW c, NEW h \in Station, Len(h) <= CallSize,
           NEW src, NEW dest, NEW path, NEW body, NEW got,
           Going(t, c) = Mid("HEADER", Empty, src, dest, path, body, got),
           NEW e, Joined(e, <<c>>, h)
    PROVE  GoOn(t, e) = Mid("HEADER", h, src, dest, path, body, got)
<1> DEFINE o == <<c>>
           m == Mid("HEADER", Empty, src, dest, path, body, got)
<1>1. IsSeq(o) /\ Len(o) = 1 /\ o[1] = c /\ IsSeq(h) /\ h \in Seq(Letter) /\ Joined(e, o, h)
  BY OneSeq, Stations
<1> HIDE DEF o
<1>2. GoOn(t, o) = Going(t, c)
  BY <1>1, GoOnOne
<1>3. GoOn(t, e) = GoOn(GoOn(t, o), h)
  BY <1>1, GoOnJoined
<1>5. h \in Seq(Letter) /\ Len(h) <= CallSize
  BY <1>1
<1>4. GoOn(m, h) = Mid("HEADER", h, src, dest, path, body, got)
  BY ONLY <1>5, CallRun DEF m
<1> HIDE DEF m
<1>6. GoOn(t, o) = m
  BY <1>2 DEF m
<1> QED  BY <1>3, <1>4, <1>6

Comma == ","

LEMMA OnComma ==
    ASSUME NEW call, NEW src, NEW path, NEW body, NEW got, call # Empty
    PROVE  Going(Mid("HEADER", call, src, Empty, path, body, got), Comma) =
               Mid("HEADER", Empty, src, call, path, body, got)
<1> DEFINE c == Comma
<1>1. Divider(c) /\ After(c) = "HEADER"
  BY DEF After, Divider, Comma
<1> HIDE DEF c
<1>2. Going(Mid("HEADER", call, src, Empty, path, body, got), c) =
          Mid(After(c), Empty, src, call, path, body, got)
  BY ONLY <1>1, call # Empty, OnDest
<1> QED  BY <1>1, <1>2 DEF c

LEMMA OnNextComma ==
    ASSUME NEW call, NEW src, NEW dest, NEW path, NEW body, NEW got, call # Empty, dest # Empty,
           Len(path) # PathSize
    PROVE  Going(Mid("HEADER", call, src, dest, path, body, got), Comma) =
               Mid("HEADER", Empty, src, dest, Append(path, call), body, got)
<1> DEFINE c == Comma
<1>1. Divider(c) /\ After(c) = "HEADER"
  BY DEF After, Divider, Comma
<1> HIDE DEF c
<1>2. Going(Mid("HEADER", call, src, dest, path, body, got), c) =
          Mid(After(c), Empty, src, dest, Append(path, call), body, got)
  BY ONLY <1>1, call # Empty, dest # Empty, Len(path) # PathSize, OnPath
<1> QED  BY <1>1, <1>2 DEF c

Commas(q, p) == q = [i \in 1 .. Len(p) |-> <<Comma>> \o p[i]]

LEMMA PathRun ==
    ASSUME NEW p \in Seq(Station), Len(p) <= PathSize, \A i \in 1 .. Len(p) : Len(p[i]) <= CallSize,
           NEW src, NEW dest, dest # Empty, NEW got,
           NEW q, Commas(q, p)
    PROVE  GoOn(Mid("HEADER", dest, src, Empty, <<>>, <<>>, got), FlattenSeq(q)) =
               IF Len(p) = 0 THEN Mid("HEADER", dest, src, Empty, <<>>, <<>>, got)
               ELSE Mid("HEADER", p[Len(p)], src, dest, SubSeq(p, 1, Len(p) - 1), <<>>, got)
<1> DEFINE n == Len(p)
           t == Mid("HEADER", dest, src, Empty, <<>>, <<>>, got)
           P(k) == Mid("HEADER", p[k], src, dest, SubSeq(p, 1, k - 1), <<>>, got)
<1>1. n \in Nat /\ IsSeq(p) /\ \A i \in 1 .. n : p[i] \in Station
  BY DEF IsSeq
<1>2. \A i \in 1 .. n : p[i] # Empty /\ IsSeq(p[i]) /\ Len(p[i]) <= CallSize
  BY <1>1, Stations
<1>3. IsSeq(q) /\ Len(q) = n /\ \A i \in 1 .. n : Joined(q[i], <<Comma>>, p[i])
  <2>1. q = [i \in 1 .. n |-> q[i]] /\ \A i \in 1 .. n : Joined(q[i], <<Comma>>, p[i])
    BY DEF Commas, Joined, Comma
  <2> HIDE DEF n
  <2> QED  BY <1>1, <2>1, FcnSeq
<1>4. \A i \in 1 .. n : IsSeq(q[i])
  <2> TAKE i \in 1 .. n
  <2> DEFINE e == <<Comma>>
  <2>1. IsSeq(e) /\ IsSeq(p[i]) /\ Joined(q[i], e, p[i])
    BY <1>2, <1>3, OneSeq
  <2> HIDE DEF e
  <2> QED  BY <2>1, ConcatSeq DEF Joined
\* The first one, behind the destination, and the others
<1>5. ASSUME 1 \in 1 .. n PROVE GoOn(t, q[1]) = P(1)
  <2> DEFINE none == <<>>
  <2>1. Going(t, Comma) = Mid("HEADER", Empty, src, dest, none, none, got)
    <3> HIDE DEF none
    <3>1. Going(Mid("HEADER", dest, src, Empty, none, none, got), Comma) =
              Mid("HEADER", Empty, src, dest, none, none, got)
      BY OnComma
    <3> QED  BY <3>1 DEF none
  <2>2. SubSeq(p, 1, 1 - 1) = <<>>
    BY <1>1
  <2> HIDE DEF t
  <2> DEFINE h == p[1]
             e == q[1]
  <2>3. h \in Station /\ Len(h) <= CallSize /\ Joined(e, <<Comma>>, h)
    BY <1>1, <1>2, <1>3, <1>5
  <2> HIDE DEF h, none, e, n
  <2>4. GoOn(t, e) = Mid("HEADER", h, src, dest, none, none, got)
    BY ONLY <2>1, <2>3, ThenCall
  <2> QED  BY <2>2, <2>4 DEF h, none, e
<1>6. ASSUME NEW k \in Nat, k # 0, k + 1 \in 1 .. n PROVE GoOn(P(k), q[k + 1]) = P(k + 1)
  <2> DEFINE h == p[k + 1]
             c == p[k]
             s == SubSeq(p, 1, k - 1)
  <2>0. k \in 1 .. n
    BY <1>1, <1>6
  <2>1. h \in Station /\ Len(h) <= CallSize /\ Joined(q[k + 1], <<Comma>>, h)
    BY <1>1, <1>2, <1>3, <1>6
  <2>2. c # Empty
    BY <1>2, <2>0
  <2>3. Len(s) = k - 1 /\ Append(s, c) = SubSeq(p, 1, k)
    <3> DEFINE j == k - 1
    <3>1. j \in Nat /\ j + 1 = k /\ j + 1 <= Len(p)
      BY <1>1, <1>6
    <3> HIDE DEF j
    <3>2. SubSeq(p, 1, j + 1) = Append(SubSeq(p, 1, j), p[j + 1]) /\ Len(SubSeq(p, 1, j)) = j
      BY <1>1, <3>1, NextPart, FirstSeq
    <3> QED  BY <3>1, <3>2 DEF j
  <2>4. Len(s) # PathSize
    BY <1>1, <1>6, <2>3, AprsAssumption
  <2> DEFINE none == <<>>
             e == q[k + 1]
             u == Mid("HEADER", c, src, dest, s, none, got)
  <2> HIDE DEF h, c, s, n, none
  <2>5. Going(u, Comma) = Mid("HEADER", Empty, src, dest, Append(s, c), none, got)
    BY <2>2, <2>4, OnNextComma
  <2>8. h \in Station /\ Len(h) <= CallSize /\ Joined(e, <<Comma>>, h)
    BY <2>1
  <2> HIDE DEF e, u
  <2>6. GoOn(u, e) = Mid("HEADER", h, src, dest, Append(s, c), none, got)
    BY ONLY <2>8, <2>5, ThenCall
  <2>7. (k + 1) - 1 = k
    BY <1>6
  <2> QED  BY <2>3, <2>6, <2>7 DEF h, c, s, u, e, none
<1> HIDE DEF P, t
<1>7. CASE n = 0
  <2>1. FlattenSeq(q) = <<>>
    BY <1>3, <1>7 DEF FlattenSeq
  <2>2. GoOn(t, <<>>) = t
    BY GoOnNone
  <2> QED  BY <1>7, <2>1, <2>2 DEF t
<1>8. CASE n # 0
  <2> HIDE DEF n
  <2>1. PICK g : JoinIs(g, q, n) /\ FlattenSeq(q) = g[n]
    <3>1. Len(q) \in Nat \ {0}
      BY <1>1, <1>3, <1>8
    <3>2. \E g : JoinIs(g, q, Len(q)) /\ FlattenSeq(q) = g[Len(q)]
      BY <3>1, FlattenIs
    <3> QED  BY <1>3, <3>2
  <2>2. \A k \in 1 .. n : g[k] = IF k = 1 THEN q[k] ELSE g[k - 1] \o q[k]
    BY <2>1 DEF JoinIs
  <2> DEFINE S == {k \in Nat : k \in 1 .. n => IsSeq(g[k]) /\ GoOn(t, g[k]) = P(k)}
  <2>3. 0 \in S
    OBVIOUS
  <2>4. ASSUME NEW k \in S PROVE k + 1 \in S
    <3> SUFFICES ASSUME k + 1 \in 1 .. n PROVE IsSeq(g[k + 1]) /\ GoOn(t, g[k + 1]) = P(k + 1)
      OBVIOUS
    <3>0. k \in Nat
      OBVIOUS
    <3>1. CASE k = 0
      <4>1. 1 \in 1 .. n /\ k + 1 = 1 /\ g[k + 1] = q[1]
        BY <2>2, <3>1
      <4> QED  BY <1>4, <1>5, <4>1
    <3>2. CASE k # 0
      <4>1. k \in 1 .. n /\ k + 1 # 1 /\ (k + 1) - 1 = k
        BY <1>1, <3>0, <3>2
      <4>2. IsSeq(g[k]) /\ GoOn(t, g[k]) = P(k) /\ IsSeq(q[k + 1])
        BY <1>4, <4>1
      <4> DEFINE r == g[k + 1]
                 s == g[k]
                 e == q[k + 1]
      <4>3. Joined(r, s, e)
        BY <2>2, <4>1 DEF Joined
      <4>4. IsSeq(s) /\ IsSeq(e)
        BY <4>2
      <4> HIDE DEF r, s, e
      <4>5. GoOn(t, r) = GoOn(GoOn(t, s), e) /\ IsSeq(r)
        BY <4>3, <4>4, GoOnJoined
      <4> QED  BY <1>6, <3>0, <3>2, <4>2, <4>5 DEF r, s, e
    <3> QED  BY <3>1, <3>2
  <2>5. S = Nat
    <3> HIDE DEF S
    <3>1. S \subseteq Nat
      BY DEF S
    <3> QED  BY <2>3, <2>4, <3>1, SetInduction
  <2>6. GoOn(t, g[n]) = P(n)
    BY <1>1, <1>8, <2>5
  <2> QED  BY <1>8, <2>1, <2>6 DEF t, P, n
<1> QED  BY <1>7, <1>8

LEMMA GoOnTwo ==
    ASSUME NEW t, NEW s, Len(s) = 2 PROVE GoOn(t, s) = Going(Going(t, s[1]), s[2])
<1>1. PICK g : LinesAfterIs(g, t, s, 2) /\ GoOn(t, s) = g[2]
  <2>1. Len(s) \in Nat
    OBVIOUS
  <2>2. \E g : LinesAfterIs(g, t, s, Len(s)) /\ GoOn(t, s) = g[Len(s)]
    BY <2>1, GoOnAfter
  <2> QED  BY <2>2
<1>2. g[0] = t /\ g[1] = Going(g[0], s[1]) /\ g[2] = Going(g[1], s[2])
  BY <1>1 DEF LinesAfterIs
<1> QED  BY <1>1, <1>2

Colon == ":"

\* The end of the addresses
LEMMA OnColon ==
    ASSUME NEW p \in Seq(Station), Len(p) <= PathSize, NEW src, NEW dest, dest # Empty, NEW got
    PROVE  Going(IF Len(p) = 0 THEN Mid("HEADER", dest, src, Empty, <<>>, <<>>, got)
                 ELSE Mid("HEADER", p[Len(p)], src, dest, SubSeq(p, 1, Len(p) - 1), <<>>, got),
                 Colon) = Mid("BODY", Empty, src, dest, p, <<>>, got)
<1> DEFINE n == Len(p)
           none == <<>>
           c == Colon
<1>1. Divider(c) /\ After(c) = "BODY"
  BY DEF Divider, After, Colon
<1>2. n \in Nat /\ IsSeq(p) /\ \A i \in 1 .. n : p[i] \in Station
  BY DEF IsSeq
<1> HIDE DEF n, none, c
<1>3. CASE n = 0
  <2>1. p = none
    BY <1>2, <1>3, NoneSeq, SameSeq DEF n, none
  <2>2. Going(Mid("HEADER", dest, src, Empty, none, none, got), c) =
            Mid(After(c), Empty, src, dest, none, none, got)
    BY <1>1, OnDest
  <2> QED  BY <1>1, <1>3, <2>1, <2>2 DEF n, none, c
<1>4. CASE n # 0
  <2> DEFINE h == p[n]
             s == SubSeq(p, 1, n - 1)
  <2>1. h # Empty
    BY <1>2, <1>4, Stations
  <2>2. Len(s) = n - 1 /\ Append(s, h) = p
    <3> DEFINE j == n - 1
    <3>1. j \in Nat /\ j + 1 = n /\ j + 1 <= Len(p)
      BY <1>2, <1>4 DEF n
    <3> HIDE DEF j
    <3>2. SubSeq(p, 1, j + 1) = Append(SubSeq(p, 1, j), p[j + 1]) /\ Len(SubSeq(p, 1, j)) = j
      BY <1>2, <3>1, NextPart, FirstSeq
    <3>3. SubSeq(p, 1, n) = p
      BY SubSeqFull DEF n
    <3> QED  BY <3>1, <3>2, <3>3 DEF j
  <2> HIDE DEF h, s
  <2>5. n <= PathSize
    BY DEF n
  <2>3. Len(s) # PathSize
    BY <1>2, <2>2, <2>5, AprsAssumption
  <2>4. Going(Mid("HEADER", h, src, dest, s, none, got), c) =
            Mid(After(c), Empty, src, dest, Append(s, h), none, got)
    BY <1>1, <2>1, <2>3, OnPath
  <2> QED  BY <1>1, <1>4, <2>2, <2>4 DEF n, none, c, h, s
<1> QED  BY <1>3, <1>4

\* Between two lines
Ready(got) == Mid("HEADER", Empty, Empty, Empty, <<>>, <<>>, got)

Greater == ">"

\* The parts of a line
Parts(r1, r2, r3, r4, r5, r6, f, z) ==
    /\ Joined(r1, f.src, <<Greater>>) /\ Joined(r2, r1, f.dest) /\ Joined(r3, r2, z)
    /\ Joined(r4, r3, <<Colon>>) /\ Joined(r5, r4, f.body) /\ Joined(r6, r5, <<"\r", "\n">>)

LEMMA LineParts ==
    ASSUME NEW f PROVE \E r1, r2, r3, r4, r5, q : Commas(q, f.path) /\
        Parts(r1, r2, r3, r4, r5, AprsLine(f), f, FlattenSeq(q))
<1> DEFINE q == [i \in 1 .. Len(f.path) |-> <<Comma>> \o f.path[i]]
           z == FlattenSeq(q)
           r1 == f.src \o <<Greater>>
           r2 == r1 \o f.dest
           r3 == r2 \o z
           r4 == r3 \o <<Colon>>
           r5 == r4 \o f.body
           r6 == r5 \o <<"\r", "\n">>
<1>1. Commas(q, f.path)
  BY DEF Commas
<1>2. AprsLine(f) = r6
  BY DEF AprsLine, Comma, Colon, Greater
<1> HIDE DEF q, z
<1>3. Parts(r1, r2, r3, r4, r5, r6, f, z)
  BY DEF Parts, Joined
<1> HIDE DEF r1, r2, r3, r4, r5, r6
<1> QED  BY <1>1, <1>2, <1>3 DEF z

LEMMA LineRun ==
    ASSUME NEW f \in Lines, Fits(f), NEW got
    PROVE  GoOn(Ready(got), AprsLine(f)) = Ready(Append(got, f))
<1> DEFINE t == Ready(got)
           r6 == AprsLine(f)
<1>1. PICK r1, r2, r3, r4, r5, q : Commas(q, f.path) /\ Parts(r1, r2, r3, r4, r5, r6, f, FlattenSeq(q))
  BY LineParts
<1> DEFINE z == FlattenSeq(q)
           src == f.src
           dest == f.dest
           p == f.path
           body == f.body
           none == <<>>
<1>2. /\ src \in Station /\ dest \in Station /\ p \in Seq(Station) /\ IsSeq(body)
      /\ \A i \in 1 .. Len(body) : body[i] \notin {"\r", "\n"}
  BY IfaceAssumption DEF IsSeq
<1>3. /\ Len(body) <= BodySize /\ Len(p) <= PathSize /\ Len(src) <= CallSize /\ Len(dest) <= CallSize
      /\ \A i \in 1 .. Len(p) : Len(p[i]) <= CallSize
  BY DEF Fits
<1>4. src # Empty /\ dest # Empty /\ src \in Seq(Letter) /\ IsSeq(src) /\ IsSeq(dest)
  BY <1>2, Stations
<1>5. f = [src |-> src, dest |-> dest, path |-> p, body |-> body]
  <2>1. f \in [src : Station, dest : Station, path : Seq(Station), body : Seq(STRING)]
    BY IfaceAssumption
  <2> QED  BY <2>1
<1>6. IsSeq(z)
  <2>1. IsSeq(p) /\ \A i \in 1 .. Len(p) : p[i] \in Station
    BY <1>2 DEF IsSeq
  <2>2. Len(p) \in Nat /\ q = [i \in 1 .. Len(p) |-> q[i]]
    BY <1>1, <2>1, SeqLen DEF Commas
  <2>3. IsSeq(q) /\ Len(q) = Len(p)
    <3> HIDE DEF p
    <3> QED  BY <2>2, FcnSeq
  <2>4. \A i \in 1 .. Len(q) : IsSeq(q[i])
    <3> TAKE i \in 1 .. Len(q)
    <3> DEFINE e == <<Comma>>
    <3>1. IsSeq(e) /\ IsSeq(p[i]) /\ Joined(q[i], e, p[i])
      BY <1>1, <2>1, <2>3, OneSeq, Stations DEF Commas, Joined
    <3> HIDE DEF e
    <3> QED  BY <3>1, ConcatSeq DEF Joined
  <2> QED  BY <2>3, <2>4, FlattenIsSeq
<1> DEFINE g == <<Greater>>
           c == <<Colon>>
           e == <<"\r", "\n">>
<1>7. /\ Joined(r1, src, g) /\ Joined(r2, r1, dest) /\ Joined(r3, r2, z)
      /\ Joined(r4, r3, c) /\ Joined(r5, r4, body) /\ Joined(r6, r5, e)
  BY <1>1 DEF Parts
<1>8. IsSeq(g) /\ Len(g) = 1 /\ g[1] = Greater /\ IsSeq(c) /\ Len(c) = 1 /\ c[1] = Colon
  BY OneSeq
<1>9. IsSeq(e) /\ Len(e) = 2 /\ e[1] = "\r" /\ e[2] = "\n"
  <2>1. <<"\r", "\n">> \in Seq({"\r", "\n"})
    OBVIOUS
  <2> QED  BY <2>1 DEF IsSeq
<1>10. t = Mid("HEADER", Empty, Empty, Empty, none, none, got)
  BY DEF Ready
<1> HIDE DEF t, r6, z, src, dest, p, body, none, g, c, e
\* The parts one after the other
<1>11. GoOn(t, src) = Mid("HEADER", src, Empty, Empty, none, none, got)
  BY <1>3, <1>4, <1>10, CallRun
<1>12. GoOn(t, r1) = Mid("HEADER", Empty, src, Empty, none, none, got) /\ IsSeq(r1)
  <2>1. GoOn(t, r1) = GoOn(GoOn(t, src), g) /\ IsSeq(r1)
    BY <1>4, <1>7, <1>8, GoOnJoined
  <2> DEFINE m == Mid("HEADER", src, Empty, Empty, none, none, got)
  <2>2. GoOn(m, g) = Going(m, Greater)
    <3> HIDE DEF m
    <3> QED  BY <1>8, GoOnOne
  <2>3. Going(m, Greater) = Mid("HEADER", Empty, src, Empty, none, none, got)
    BY <1>4, OnSource DEF Greater
  <2> QED  BY <1>11, <2>1, <2>2, <2>3
<1>13. GoOn(t, r2) = Mid("HEADER", dest, src, Empty, none, none, got) /\ IsSeq(r2)
  <2>1. GoOn(t, r2) = GoOn(GoOn(t, r1), dest) /\ IsSeq(r2)
    BY <1>4, <1>7, <1>12, GoOnJoined
  <2>2. dest \in Seq(Letter) /\ Len(dest) <= CallSize
    BY <1>2, <1>3, Stations
  <2>3. GoOn(Mid("HEADER", Empty, src, Empty, none, none, got), dest) =
            Mid("HEADER", dest, src, Empty, none, none, got)
    BY ONLY <2>2, CallRun
  <2> QED  BY <1>12, <2>1, <2>3
<1> DEFINE m3 == IF Len(p) = 0 THEN Mid("HEADER", dest, src, Empty, none, none, got)
                 ELSE Mid("HEADER", p[Len(p)], src, dest, SubSeq(p, 1, Len(p) - 1), none, got)
           m4 == Mid("BODY", Empty, src, dest, p, none, got)
           m5 == Mid("BODY", Empty, src, dest, p, body, got)
<1>14. GoOn(t, r3) = m3 /\ IsSeq(r3)
  <2>1. GoOn(t, r3) = GoOn(GoOn(t, r2), z) /\ IsSeq(r3)
    BY <1>6, <1>7, <1>13, GoOnJoined
  <2>2. Commas(q, p)
    BY <1>1 DEF p
  <2>3. GoOn(Mid("HEADER", dest, src, Empty, <<>>, <<>>, got), FlattenSeq(q)) =
            IF Len(p) = 0 THEN Mid("HEADER", dest, src, Empty, <<>>, <<>>, got)
            ELSE Mid("HEADER", p[Len(p)], src, dest, SubSeq(p, 1, Len(p) - 1), <<>>, got)
    BY ONLY <1>2, <1>3, <1>4, <2>2, PathRun
  <2> QED  BY <1>13, <2>1, <2>3 DEF none, z
<1>15. GoOn(t, r4) = m4 /\ IsSeq(r4)
  <2>1. GoOn(t, r4) = GoOn(GoOn(t, r3), c) /\ IsSeq(r4)
    BY <1>7, <1>8, <1>14, GoOnJoined
  <2>2. GoOn(m3, c) = Going(m3, Colon)
    <3> HIDE DEF m3
    <3> QED  BY <1>8, GoOnOne
  <2>3. Going(m3, Colon) = m4
    BY ONLY <1>2, <1>3, <1>4, OnColon DEF m3, m4, none
  <2> HIDE DEF m3, m4
  <2> QED  BY <1>14, <2>1, <2>2, <2>3
<1>16. GoOn(t, r5) = m5 /\ IsSeq(r5)
  <2>1. GoOn(t, r5) = GoOn(GoOn(t, r4), body) /\ IsSeq(r5)
    BY <1>2, <1>7, <1>15, GoOnJoined
  <2>2. GoOn(Mid("BODY", Empty, src, dest, p, <<>>, got), body) =
            Mid("BODY", Empty, src, dest, p, body, got)
    BY ONLY <1>2, <1>3, TextRun
  <2> QED  BY <1>15, <2>1, <2>2 DEF none
<1>17. GoOn(t, r6) = Ready(Append(got, f))
  <2>1. GoOn(t, r6) = GoOn(GoOn(t, r5), e)
    BY <1>7, <1>9, <1>16, GoOnJoined
  <2>2. GoOn(m5, e) = Going(Going(m5, "\r"), "\n")
    <3> HIDE DEF m5
    <3>1. GoOn(m5, e) = Going(Going(m5, e[1]), e[2])
      BY <1>9, GoOnTwo
    <3> QED  BY <1>9, <3>1
  <2>3. Going(m5, "\r") = m5
    BY ONLY OnTextEnd DEF m5
  <2>4. Going(m5, "\n") = Mid("HEADER", Empty, Empty, Empty, <<>>, <<>>,
                              Append(got, [src |-> src, dest |-> dest, path |-> p, body |-> body]))
    BY ONLY OnTextEnd DEF m5
  <2> HIDE DEF m5
  <2>5. GoOn(t, r6) = Going(m5, "\n")
    BY <1>16, <2>1, <2>2, <2>3
  <2> QED  BY <1>5, <2>4, <2>5 DEF Ready
<1> QED  BY <1>17 DEF t, r6

LEMMA CommentRun ==
    ASSUME NEW c \in Comments, NEW got PROVE GoOn(Ready(got), c) = Ready(got) /\ IsSeq(c)
<1> DEFINE n == Len(c)
           a == Ready(got)
           b == Mid("COMMENT", Empty, Empty, Empty, <<>>, <<>>, got)
<1>1. IsSeq(c) /\ n \in Nat /\ n > 1 /\ c[1] = "#" /\ \A i \in 1 .. n : c[i] = "\n" <=> i = n
  BY IfaceAssumption DEF IsSeq
<1>2. PICK g : LinesAfterIs(g, a, c, n) /\ GoOn(a, c) = g[n]
  <2> HIDE DEF a
  <2> QED  BY <1>1, GoOnAfter
<1>3. Going(a, "#") = b /\ Going(b, "\n") = a
  <2>1. "#" # "\n"
    OBVIOUS
  <2> QED  BY ONLY <2>1, OnComment DEF a, b, Ready
<1>4. ASSUME NEW d, d # "\n" PROVE Going(b, d) = b
  BY ONLY <1>4, OnComment DEF a, b, Ready
<1> HIDE DEF a, b, n
<1>5. g[0] = a /\ \A i \in 1 .. n : g[i] = Going(g[i - 1], c[i])
  BY <1>1, <1>2 DEF LinesAfterIs
<1> DEFINE S == {i \in Nat : i + 1 < n => g[i + 1] = b}
<1>6. 0 \in S
  <2>1. g[1] = b
    <3>1. 1 \in 1 .. n /\ 1 - 1 = 0
      BY <1>1
    <3> QED  BY <1>1, <1>3, <1>5, <3>1
  <2> QED  BY <2>1
<1>7. ASSUME NEW i \in S PROVE i + 1 \in S
  <2> SUFFICES ASSUME (i + 1) + 1 < n PROVE g[(i + 1) + 1] = b
    OBVIOUS
  <2>1. i \in Nat /\ g[i + 1] = b /\ (i + 1) + 1 \in 1 .. n /\ ((i + 1) + 1) - 1 = i + 1
    BY <1>1
  <2>2. c[(i + 1) + 1] # "\n"
    BY <1>1, <2>1
  <2> QED  BY <1>4, <1>5, <2>1, <2>2
<1>8. S = Nat
  <2> HIDE DEF S
  <2>1. S \subseteq Nat
    BY DEF S
  <2> QED  BY <1>6, <1>7, <2>1, SetInduction
<1>9. g[n - 1] = b
  <2>1. n - 2 \in Nat /\ (n - 2) + 1 < n /\ (n - 2) + 1 = n - 1
    BY <1>1
  <2>2. n - 2 \in S
    BY <1>8, <2>1
  <2> QED  BY <2>1, <2>2
<1>10. n \in 1 .. n /\ c[n] = "\n"
  BY <1>1
<1>11. g[n] = a
  BY <1>3, <1>5, <1>9, <1>10
<1> QED  BY <1>1, <1>2, <1>11 DEF a

---------------------------------------------------------------------------
(***************************************************************************)
(* What has been decoded before makes no difference.                        *)
(***************************************************************************)
Standing == {"HEADER", "COMMENT", "BODY"}

Lined(a) == /\ a = [x \in AprsFields |-> a[x]] /\ a.state \in Standing
            /\ a.stop \in BOOLEAN /\ IsSeq(a.got)

SameFields(a, b) == /\ a.state = b.state /\ a.call = b.call /\ a.src = b.src /\ a.dest = b.dest
                    /\ a.path = b.path /\ a.body = b.body /\ a.stop = b.stop

SameBehind(a, b, pre) == Lined(a) /\ Lined(b) /\ SameFields(a, b) /\ Joined(a.got, pre, b.got)

\* One more frame, or none
MoreLike(u, a, v, b) == \/ u.got = a.got /\ v.got = b.got
                        \/ u.got = Append(a.got, Whole(a)) /\ v.got = Append(b.got, Whole(b))

\* u and v come from a and b in the same way.
Likewise(u, a, v, b) ==
    /\ u = [x \in AprsFields |-> u[x]] /\ v = [x \in AprsFields |-> v[x]]
    /\ u.state \in Standing /\ u.stop \in BOOLEAN /\ SameFields(u, v) /\ MoreLike(u, a, v, b)

LEMMA LikewiseBehind ==
    ASSUME NEW a, NEW b, NEW pre, SameBehind(a, b, pre), IsSeq(pre), NEW u, NEW v,
           Likewise(u, a, v, b)
    PROVE  SameBehind(u, v, pre)
<1>1. IsSeq(a.got) /\ IsSeq(b.got) /\ Joined(a.got, pre, b.got)
  BY DEF SameBehind, Lined
<1>2. Whole(a) = Whole(b)
  BY DEF SameBehind, SameFields, Whole
<1>3. IsSeq(u.got) /\ IsSeq(v.got) /\ Joined(u.got, pre, v.got)
  <2>1. CASE u.got = a.got /\ v.got = b.got
    BY <1>1, <2>1
  <2>2. CASE u.got = Append(a.got, Whole(a)) /\ v.got = Append(b.got, Whole(b))
    <3> DEFINE w == Whole(a)
               r == a.got
               s == b.got
    <3>1. u.got = Append(r, w) /\ v.got = Append(s, w) /\ IsSeq(r) /\ IsSeq(s) /\ Joined(r, pre, s)
      BY <1>1, <1>2, <2>2
    <3> HIDE DEF w, r, s
    <3>2. IsSeq(Append(r, w)) /\ IsSeq(Append(s, w)) /\ Joined(Append(r, w), pre, Append(s, w))
      BY <3>1, AppendSeq, JoinedAppend
    <3> QED  BY <3>1, <3>2
  <2> QED  BY <2>1, <2>2 DEF Likewise, MoreLike
<1> QED  BY <1>3 DEF SameBehind, Lined, Likewise, SameFields

\* What can become of a decoder at one character.
Outcome(kind, a, c, u) ==
    \/ kind = 0 /\ u = a
    \/ kind = 1 /\ u = [a EXCEPT !.state = "COMMENT"]
    \/ kind = 2 /\ u = AprsFlush(a)
    \/ kind = 3 /\ u = [a EXCEPT !.call = Append(@, c)]
    \/ kind = 4 /\ u = [a EXCEPT !.src = a.call, !.call = Empty]
    \/ kind = 5 /\ u = [a EXCEPT !.dest = a.call, !.call = Empty, !.state = After(c)]
    \/ kind = 6 /\ u = [a EXCEPT !.path = Append(@, a.call), !.call = Empty, !.state = After(c)]
    \/ kind = 7 /\ u = [a EXCEPT !.state = "HEADER", !.stop = TRUE]
    \/ kind = 8 /\ c = "\n" /\ u = [AprsFlush(a) EXCEPT !.got = Append(@, Whole(a))]
    \/ kind = 9 /\ u = [a EXCEPT !.body = Append(@, c)]

LEMMA OutcomeLikewise ==
    ASSUME NEW a, NEW b, Lined(a), Lined(b), SameFields(a, b), NEW c, NEW kind, NEW u, NEW v,
           Outcome(kind, a, c, u), Outcome(kind, b, c, v)
    PROVE  Likewise(u, a, v, b)
<1>1. /\ a = [x \in AprsFields |-> a[x]] /\ b = [x \in AprsFields |-> b[x]]
      /\ a.stop \in BOOLEAN /\ SameFields(a, b) /\ a.state \in Standing
      /\ After(c) \in Standing /\ "HEADER" \in Standing /\ "COMMENT" \in Standing
  BY DEF Lined, Standing, After
<1>2. CASE kind = 0
  <2>1. u = a /\ v = b
    BY <1>2 DEF Outcome
  <2> QED  BY <1>1, <2>1 DEF Likewise, MoreLike
<1>3. CASE kind = 1
  <2>1. u = [a EXCEPT !.state = "COMMENT"] /\ v = [b EXCEPT !.state = "COMMENT"]
    BY <1>3 DEF Outcome
  <2> QED  BY <1>1, <2>1 DEF Likewise, MoreLike, SameFields, AprsFields
<1>4. CASE kind = 2
  <2>1. u = AprsFlush(a) /\ v = AprsFlush(b)
    BY <1>4 DEF Outcome
  <2> QED  BY <1>1, <2>1 DEF Likewise, MoreLike, SameFields, AprsFields, AprsFlush
<1>5. CASE kind = 3
  <2>1. u = [a EXCEPT !.call = Append(@, c)] /\ v = [b EXCEPT !.call = Append(@, c)]
    BY <1>5 DEF Outcome
  <2> QED  BY <1>1, <2>1 DEF Likewise, MoreLike, SameFields, AprsFields
<1>6. CASE kind = 4
  <2>1. u = [a EXCEPT !.src = a.call, !.call = Empty] /\ v = [b EXCEPT !.src = b.call, !.call = Empty]
    BY <1>6 DEF Outcome
  <2> QED  BY <1>1, <2>1 DEF Likewise, MoreLike, SameFields, AprsFields
<1>7. CASE kind = 5
  <2>1. /\ u = [a EXCEPT !.dest = a.call, !.call = Empty, !.state = After(c)]
        /\ v = [b EXCEPT !.dest = b.call, !.call = Empty, !.state = After(c)]
    BY <1>7 DEF Outcome
  <2> QED  BY <1>1, <2>1 DEF Likewise, MoreLike, SameFields, AprsFields
<1>8. CASE kind = 6
  <2>1. /\ u = [a EXCEPT !.path = Append(@, a.call), !.call = Empty, !.state = After(c)]
        /\ v = [b EXCEPT !.path = Append(@, b.call), !.call = Empty, !.state = After(c)]
    BY <1>8 DEF Outcome
  <2> QED  BY <1>1, <2>1 DEF Likewise, MoreLike, SameFields, AprsFields
<1>9. CASE kind = 7
  <2>1. /\ u = [a EXCEPT !.state = "HEADER", !.stop = TRUE]
        /\ v = [b EXCEPT !.state = "HEADER", !.stop = TRUE]
    BY <1>9 DEF Outcome
  <2> QED  BY <1>1, <2>1 DEF Likewise, MoreLike, SameFields, AprsFields
<1>10. CASE kind = 8
  <2> DEFINE e == AprsFlush(a)
             f == AprsFlush(b)
             w == Whole(a)
             z == Whole(b)
  <2>1. /\ u = [e EXCEPT !.got = Append(@, w)] /\ v = [f EXCEPT !.got = Append(@, z)]
    BY <1>10 DEF Outcome
  <2>2. /\ e = [x \in AprsFields |-> e[x]] /\ f = [x \in AprsFields |-> f[x]]
        /\ e.state \in Standing /\ e.stop \in BOOLEAN /\ SameFields(e, f) /\ e.got = a.got /\ f.got = b.got
    BY <1>1 DEF SameFields, AprsFields, AprsFlush
  <2> HIDE DEF e, f, w, z
  <2>3. /\ u = [x \in AprsFields |-> u[x]] /\ v = [x \in AprsFields |-> v[x]]
        /\ u.state \in Standing /\ u.stop \in BOOLEAN /\ SameFields(u, v)
        /\ u.got = Append(a.got, w) /\ v.got = Append(b.got, z)
    BY <2>1, <2>2 DEF SameFields, AprsFields
  <2> QED  BY <2>3 DEF Likewise, MoreLike, w, z
<1>11. CASE kind = 9
  <2>1. u = [a EXCEPT !.body = Append(@, c)] /\ v = [b EXCEPT !.body = Append(@, c)]
    BY <1>11 DEF Outcome
  <2> QED  BY <1>1, <2>1 DEF Likewise, MoreLike, SameFields, AprsFields
<1> QED  BY <1>2, <1>3, <1>4, <1>5, <1>6, <1>7, <1>8, <1>9, <1>10, <1>11 DEF Outcome

LEMMA OutcomeGot ==
    ASSUME NEW a, Lined(a), NEW c, c # "\n", NEW kind, NEW u, Outcome(kind, a, c, u)
    PROVE  u.got = a.got
<1>1. a = [x \in AprsFields |-> a[x]]
  BY DEF Lined
<1>2. AprsFlush(a).got = a.got
  BY <1>1 DEF AprsFlush, AprsFields
<1> QED  BY <1>1, <1>2 DEF Outcome, AprsFields

\* The character chooses the same outcome for decoders that differ in got only.
LEMMA AddressOutcome ==
    ASSUME NEW a, NEW b, SameFields(a, b), NEW c
    PROVE  \E kind : Outcome(kind, a, c, Address(a, c)) /\ Outcome(kind, b, c, Address(b, c))
<1> DEFINE Q(kind) == Outcome(kind, a, c, Address(a, c)) /\ Outcome(kind, b, c, Address(b, c))
           src == c = Greater
<1>1. /\ a.call = b.call /\ a.dest = b.dest /\ a.path = b.path
  BY DEF SameFields
<1>2. \A x : Address(x, c) =
         IF ~src /\ x.dest # Empty /\ Len(x.path) = PathSize THEN AprsFlush(x)
         ELSE IF x.call = Empty THEN AprsFlush(x)
         ELSE CASE src -> [x EXCEPT !.src = x.call, !.call = Empty]
                [] ~src /\ x.dest # Empty ->
                     [x EXCEPT !.path = Append(@, x.call), !.call = Empty, !.state = After(c)]
                [] OTHER -> [x EXCEPT !.dest = x.call, !.call = Empty, !.state = After(c)]
  BY DEF Address, AprsDrop, Greater, After
<1> HIDE DEF src
<1>3. CASE ~src /\ a.dest # Empty /\ Len(a.path) = PathSize
  <2>1. Address(a, c) = AprsFlush(a) /\ Address(b, c) = AprsFlush(b)
    BY <1>1, <1>2, <1>3
  <2>2. Q(2)
    BY <2>1 DEF Outcome
  <2> QED  BY <2>2
<1>4. CASE ~(~src /\ a.dest # Empty /\ Len(a.path) = PathSize) /\ a.call = Empty
  <2>1. Address(a, c) = AprsFlush(a) /\ Address(b, c) = AprsFlush(b)
    BY <1>1, <1>2, <1>4
  <2>2. Q(2)
    BY <2>1 DEF Outcome
  <2> QED  BY <2>2
<1>5. CASE ~(~src /\ a.dest # Empty /\ Len(a.path) = PathSize) /\ a.call # Empty
  <2>1. CASE src
    <3>1. /\ Address(a, c) = [a EXCEPT !.src = a.call, !.call = Empty]
          /\ Address(b, c) = [b EXCEPT !.src = b.call, !.call = Empty]
      BY <1>1, <1>2, <1>5, <2>1
    <3>2. Q(4)
      BY <3>1 DEF Outcome
    <3> QED  BY <3>2
  <2>2. CASE ~src /\ a.dest # Empty
    <3>1. /\ Address(a, c) = [a EXCEPT !.path = Append(@, a.call), !.call = Empty, !.state = After(c)]
          /\ Address(b, c) = [b EXCEPT !.path = Append(@, b.call), !.call = Empty, !.state = After(c)]
      BY <1>1, <1>2, <1>5, <2>2
    <3>2. Q(6)
      BY <3>1 DEF Outcome
    <3> QED  BY <3>2
  <2>3. CASE ~src /\ ~(a.dest # Empty)
    <3>1. /\ Address(a, c) = [a EXCEPT !.dest = a.call, !.call = Empty, !.state = After(c)]
          /\ Address(b, c) = [b EXCEPT !.dest = b.call, !.call = Empty, !.state = After(c)]
      BY <1>1, <1>2, <1>5, <2>3
    <3>2. Q(5)
      BY <3>1 DEF Outcome
    <3> QED  BY <3>2
  <2> QED  BY <2>1, <2>2, <2>3
<1> QED  BY <1>3, <1>4, <1>5

LEMMA CharacterOutcome ==
    ASSUME NEW a, NEW b, SameFields(a, b), ~a.stop, NEW c,
           a.state \in Standing
    PROVE  \E kind : Outcome(kind, a, c, Character(a, c)) /\ Outcome(kind, b, c, Character(b, c))
<1> DEFINE Q(kind) == Outcome(kind, a, c, Character(a, c)) /\ Outcome(kind, b, c, Character(b, c))
<1>1. /\ a.call = b.call /\ a.body = b.body /\ a.state = b.state /\ ~b.stop
  BY DEF SameFields
<1>2. CASE a.state = "HEADER"
  <2>1. Character(a, c) = InHeader(a, c) /\ Character(b, c) = InHeader(b, c)
    BY <1>1, <1>2 DEF Character
  <2>2. CASE c = "#"
    <3>1. \A x : InHeader(x, c) = [x EXCEPT !.state = "COMMENT"]
      BY <2>2 DEF InHeader, Letter
    <3>2. Q(1)
      BY <2>1, <3>1 DEF Outcome
    <3> QED  BY <3>2
  <2>3. CASE c \in {">", ",", ":"}
    <3>1. \A x : InHeader(x, c) = Address(x, c)
      BY <2>3 DEF InHeader, Letter
    <3> QED  BY <2>1, <3>1, AddressOutcome
  <2>4. CASE c # "#" /\ c \notin {">", ",", ":"} /\ c \in Letter
    <3>1. \A x : InHeader(x, c) = IF CallFull(x) THEN AprsFlush(x) ELSE [x EXCEPT !.call = Append(@, c)]
      BY <2>4 DEF InHeader, AprsDrop
    <3>2. CallFull(a) = CallFull(b)
      BY <1>1 DEF CallFull
    <3>3. CASE CallFull(a)
      <4>1. Q(2)
        BY <2>1, <3>1, <3>2, <3>3 DEF Outcome
      <4> QED  BY <4>1
    <3>4. CASE ~CallFull(a)
      <4>1. Q(3)
        BY <2>1, <3>1, <3>2, <3>4 DEF Outcome
      <4> QED  BY <4>1
    <3> QED  BY <3>3, <3>4
  <2>5. CASE c # "#" /\ c \notin {">", ",", ":"} /\ c \notin Letter
    <3>1. \A x : InHeader(x, c) = AprsFlush(x)
      BY <2>5 DEF InHeader, AprsDrop
    <3>2. Q(2)
      BY <2>1, <3>1 DEF Outcome
    <3> QED  BY <3>2
  <2> QED  BY <2>2, <2>3, <2>4, <2>5
<1>3. CASE a.state = "COMMENT"
  <2>1. Character(a, c) = InComment(a, c) /\ Character(b, c) = InComment(b, c)
    BY <1>1, <1>3 DEF Character
  <2>2. CASE c = "\n"
    <3>1. Q(7)
      BY <2>1, <2>2 DEF Outcome, InComment
    <3> QED  BY <3>1
  <2>3. CASE c # "\n"
    <3>1. Q(0)
      BY <2>1, <2>3 DEF Outcome, InComment
    <3> QED  BY <3>1
  <2> QED  BY <2>2, <2>3
<1>4. CASE a.state = "BODY"
  <2>1. Character(a, c) = InText(a, c) /\ Character(b, c) = InText(b, c)
    BY <1>1, <1>4 DEF Character
  <2>2. CASE c = "\r"
    <3>1. \A x : InText(x, c) = x
      BY <2>2 DEF InText
    <3>2. Q(0)
      BY <2>1, <3>1 DEF Outcome
    <3> QED  BY <3>2
  <2>3. CASE c = "\n"
    <3>0. "\r" # "\n"
      OBVIOUS
    <3>1. \A x : InText(x, c) = [AprsFlush(x) EXCEPT !.got = Append(@, Whole(x))]
      BY <2>3, <3>0 DEF InText
    <3>2. Q(8)
      BY <2>1, <2>3, <3>1 DEF Outcome
    <3> QED  BY <3>2
  <2>4. CASE c # "\r" /\ c # "\n"
    <3>1. \A x : InText(x, c) = IF Len(x.body) = BodySize THEN AprsFlush(x)
                                ELSE [x EXCEPT !.body = Append(@, c)]
      BY <2>4 DEF InText, AprsDrop
    <3>3. CASE Len(a.body) = BodySize
      <4>1. Q(2)
        BY <1>1, <2>1, <3>1, <3>3 DEF Outcome
      <4> QED  BY <4>1
    <3>4. CASE Len(a.body) # BodySize
      <4>1. Q(9)
        BY <1>1, <2>1, <3>1, <3>4 DEF Outcome
      <4> QED  BY <4>1
    <3> QED  BY <3>3, <3>4
  <2> QED  BY <2>2, <2>3, <2>4
<1> QED  BY <1>2, <1>3, <1>4 DEF Standing

LEMMA GoingBehind ==
    ASSUME NEW a, NEW b, NEW pre, SameBehind(a, b, pre), IsSeq(pre), NEW c
    PROVE  SameBehind(Going(a, c), Going(b, c), pre)
<1>1. Lined(a) /\ Lined(b) /\ SameFields(a, b)
  BY DEF SameBehind
<1>2. CASE a.stop
  <2>1. Going(a, c) = a /\ Going(b, c) = b
    BY <1>1, <1>2 DEF Going, SameFields
  <2> QED  BY <2>1
<1>3. CASE ~a.stop
  <2> DEFINE u == Character(a, c)
             v == Character(b, c)
  <2>1. a.state \in Standing /\ ~b.stop
    BY <1>1, <1>3 DEF Lined, SameFields
  <2>2. PICK kind : Outcome(kind, a, c, u) /\ Outcome(kind, b, c, v)
    BY <1>1, <1>3, <2>1, CharacterOutcome
  <2> HIDE DEF u, v
  <2>3. Likewise(u, a, v, b)
    BY <1>1, <2>2, OutcomeLikewise
  <2>4. SameBehind(u, v, pre)
    BY <2>3, LikewiseBehind
  <2>5. CASE c # "\n"
    <3>1. Going(a, c) = u /\ Going(b, c) = v
      BY <1>3, <2>1, <2>5 DEF Going, u, v
    <3> QED  BY <2>4, <3>1
  <2>6. CASE c = "\n"
    <3> DEFINE y == [u EXCEPT !.stop = FALSE]
               z == [v EXCEPT !.stop = FALSE]
    <3>1. Going(a, c) = y /\ Going(b, c) = z
      BY <1>3, <2>1, <2>6 DEF Going, u, v
    <3>2. Lined(u) /\ Lined(v) /\ SameFields(u, v) /\ Joined(u.got, pre, v.got)
      BY <2>4 DEF SameBehind
    <3>3. /\ u = [x \in AprsFields |-> u[x]] /\ v = [x \in AprsFields |-> v[x]]
          /\ u.state \in Standing /\ v.state \in Standing /\ IsSeq(u.got) /\ IsSeq(v.got)
      BY <3>2 DEF Lined
    <3>4. /\ y = [x \in AprsFields |-> y[x]] /\ z = [x \in AprsFields |-> z[x]]
          /\ y.stop = FALSE /\ z.stop = FALSE /\ y.got = u.got /\ z.got = v.got
          /\ y.state = u.state /\ z.state = v.state
          /\ SameFields(y, z)
      BY <3>2, <3>3 DEF SameFields, AprsFields
    <3> HIDE DEF y, z
    <3>5. Lined(y) /\ Lined(z) /\ Joined(y.got, pre, z.got)
      BY <3>2, <3>3, <3>4 DEF Lined
    <3> QED  BY <3>1, <3>4, <3>5 DEF SameBehind
  <2> QED  BY <2>5, <2>6
<1> QED  BY <1>2, <1>3

LEMMA GoOnBehind ==
    ASSUME NEW a, NEW b, NEW pre, SameBehind(a, b, pre), IsSeq(pre), NEW s, IsSeq(s)
    PROVE  SameBehind(GoOn(a, s), GoOn(b, s), pre)
<1>1. Len(s) \in Nat
  BY SeqLen
<1>2. PICK g : LinesAfterIs(g, a, s, Len(s)) /\ GoOn(a, s) = g[Len(s)]
  BY <1>1, GoOnAfter
<1>3. PICK h : LinesAfterIs(h, b, s, Len(s)) /\ GoOn(b, s) = h[Len(s)]
  BY <1>1, GoOnAfter
<1>4. g[0] = a /\ \A i \in 1 .. Len(s) : g[i] = Going(g[i - 1], s[i])
  BY <1>1, <1>2 DEF LinesAfterIs
<1>5. h[0] = b /\ \A i \in 1 .. Len(s) : h[i] = Going(h[i - 1], s[i])
  BY <1>1, <1>3 DEF LinesAfterIs
<1> DEFINE S == {i \in Nat : i <= Len(s) => SameBehind(g[i], h[i], pre)}
<1>6. 0 \in S
  BY <1>4, <1>5
<1>7. ASSUME NEW i \in S PROVE i + 1 \in S
  <2> SUFFICES ASSUME i + 1 <= Len(s) PROVE SameBehind(g[i + 1], h[i + 1], pre)
    OBVIOUS
  <2>1. i \in Nat /\ SameBehind(g[i], h[i], pre) /\ i + 1 \in 1 .. Len(s) /\ (i + 1) - 1 = i
    BY <1>1
  <2>2. g[i + 1] = Going(g[i], s[i + 1]) /\ h[i + 1] = Going(h[i], s[i + 1])
    BY <1>4, <1>5, <2>1
  <2> QED  BY <2>1, <2>2, GoingBehind
<1>8. S = Nat
  <2> HIDE DEF S
  <2>1. S \subseteq Nat
    BY DEF S
  <2> QED  BY <1>6, <1>7, <2>1, SetInduction
<1> QED  BY <1>1, <1>2, <1>3, <1>8

LEMMA SameItself == ASSUME NEW a, Lined(a) PROVE SameFields(a, a) /\ SameBehind(a, a, <<>>) /\ IsSeq(<<>>)
<1> DEFINE none == <<>>
           s == a.got
<1>1. IsSeq(s) /\ IsSeq(none)
  BY NoneSeq DEF Lined
<1>2. Joined(s, none, s)
  <2>1. none \o s = s
    <3> HIDE DEF s
    <3> QED  BY <1>1, ConcatNone DEF none
  <2> QED  BY <2>1 DEF Joined
<1>3. SameFields(a, a)
  BY DEF SameFields
<1> HIDE DEF none, s
<1>4. SameBehind(a, a, none)
  BY <1>2, <1>3 DEF SameBehind, s
<1> QED  BY <1>1, <1>3, <1>4 DEF none

LEMMA GoOnLined ==
    ASSUME NEW a, Lined(a), NEW s, IsSeq(s) PROVE Lined(GoOn(a, s))
<1> DEFINE none == <<>>
<1>1. SameBehind(a, a, none) /\ IsSeq(none)
  BY SameItself
<1> HIDE DEF none
<1>2. SameBehind(GoOn(a, s), GoOn(a, s), none)
  BY <1>1, GoOnBehind
<1> QED  BY <1>2 DEF SameBehind

LEMMA GoingPlain ==
    ASSUME NEW a, Lined(a), NEW c, c # "\n"
    PROVE  Going(a, c) = Character(a, c) /\ Lined(Going(a, c)) /\ Going(a, c).got = a.got
<1> DEFINE u == Character(a, c)
<1>1. Going(a, c) = u
  BY DEF Going, Character
<1>2. CASE a.stop
  <2>1. u = a
    BY <1>2 DEF Character
  <2> QED  BY <1>1, <2>1
<1>3. CASE ~a.stop
  <2>1. a.state \in Standing /\ SameFields(a, a)
    BY SameItself DEF Lined
  <2>2. PICK kind : Outcome(kind, a, c, u)
    BY <1>3, <2>1, CharacterOutcome
  <2> HIDE DEF u
  <2>3. Likewise(u, a, u, a) /\ u.got = a.got
    BY <2>1, <2>2, OutcomeLikewise, OutcomeGot
  <2>4. Lined(u)
    BY <2>3 DEF Likewise, Lined
  <2> QED  BY <1>1, <2>3, <2>4 DEF u
<1> QED  BY <1>2, <1>3

LEMMA CharacterLike ==
    ASSUME NEW a, Lined(a), ~a.stop, NEW c
    PROVE  Likewise(Character(a, c), a, Character(a, c), a)
<1>1. a.state \in Standing /\ SameFields(a, a)
  BY SameItself DEF Lined
<1>2. PICK kind : Outcome(kind, a, c, Character(a, c))
  BY <1>1, CharacterOutcome
<1> QED  BY <1>1, <1>2, OutcomeLikewise

\* A read that does not go on behind the end of a line: it does not matter that
\* patty_ax25_aprs_is_drain() stops there, and it completes one line at most.
LEMMA ReadLine ==
    ASSUME NEW d, Lined(AprsBegin(d)), NEW x, IsSeq(x), EndsIn(x) \subseteq {Len(x)},
           GoOn(AprsBegin(d), x).stop = FALSE
    PROVE  /\ AprsRest(AprsDrain(d, x)) = AprsRest(GoOn(AprsBegin(d), x))
           /\ AprsDrain(d, x).got = GoOn(AprsBegin(d), x).got
           /\ \/ GoOn(AprsBegin(d), x).got = <<>>
              \/ \E w : GoOn(AprsBegin(d), x).got = <<w>>
<1> DEFINE n == Len(x)
           b == AprsBegin(d)
           t == GoOn(b, x)
           a == AprsDrain(d, x)
           none == <<>>
<1>1. n \in Nat
  BY SeqLen
<1>2. PICK g : AprsAfterIs(g, d, x, n) /\ a = g[n]
  BY <1>1, AprsDrainAfter
<1>3. PICK h : LinesAfterIs(h, b, x, n) /\ t = h[n]
  <2> HIDE DEF b
  <2> QED  BY <1>1, GoOnAfter
<1>4. \A i \in 1 .. n : i # n => x[i] # "\n"
  BY DEF EndsIn
<1>5. b.got = none /\ Lined(b) /\ t.stop = FALSE
  BY DEF AprsBegin
<1> HIDE DEF b, n, none, t, a
<1>6. g[0] = b /\ \A i \in 1 .. n : g[i] = Character(g[i - 1], x[i])
  BY <1>1, <1>2 DEF AprsAfterIs, b
<1>7. h[0] = b /\ \A i \in 1 .. n : h[i] = Going(h[i - 1], x[i])
  BY <1>1, <1>3 DEF LinesAfterIs
<1> DEFINE S == {i \in Nat : i < n => g[i] = h[i] /\ Lined(h[i]) /\ h[i].got = none}
<1>8. 0 \in S
  BY <1>5, <1>6, <1>7
<1>9. ASSUME NEW i \in S PROVE i + 1 \in S
  <2> SUFFICES ASSUME i + 1 < n
               PROVE  g[i + 1] = h[i + 1] /\ Lined(h[i + 1]) /\ h[i + 1].got = none
    OBVIOUS
  <2>1. /\ i \in Nat /\ g[i] = h[i] /\ Lined(h[i]) /\ h[i].got = none
        /\ i + 1 \in 1 .. n /\ (i + 1) - 1 = i /\ i + 1 # n
    BY <1>1
  <2>2. x[i + 1] # "\n"
    BY <1>4, <2>1
  <2>3. h[i + 1] = Going(h[i], x[i + 1]) /\ g[i + 1] = Character(g[i], x[i + 1])
    BY <1>6, <1>7, <2>1
  <2> QED  BY <2>1, <2>2, <2>3, GoingPlain
<1>10. S = Nat
  <2> HIDE DEF S
  <2>1. S \subseteq Nat
    BY DEF S
  <2> QED  BY <1>8, <1>9, <2>1, SetInduction
<1>11. CASE n = 0
  <2>1. a = b /\ t = b
    BY <1>2, <1>3, <1>6, <1>7, <1>11
  <2> QED  BY <1>5, <2>1 DEF a, b, t, none
<1>12. CASE n # 0
  <2>1. n - 1 \in Nat /\ n - 1 < n /\ n \in 1 .. n
    BY <1>1, <1>12
  <2>2. g[n - 1] = h[n - 1] /\ Lined(h[n - 1]) /\ h[n - 1].got = none
    BY <1>10, <2>1
  <2> DEFINE z == h[n - 1]
             c == x[n]
             u == Character(z, c)
  <2>3. a = u /\ t = Going(z, c) /\ Lined(z) /\ z.got = none
    BY <1>2, <1>3, <1>6, <1>7, <2>1, <2>2
  <2> HIDE DEF z, c
  <2>4. CASE c # "\n"
    <3>1. t = u /\ t.got = none
      BY <2>3, <2>4, GoingPlain
    <3> QED  BY <2>3, <3>1 DEF a, b, t, none
  <2>5. CASE c = "\n"
    <3>1. ~z.stop
      <4>1. CASE z.stop
        <5>1. t = z
          BY <2>3, <4>1 DEF Going
        <5> QED  BY <1>5, <4>1, <5>1
      <4> QED  BY <4>1
    <3>2. t = [u EXCEPT !.stop = FALSE]
      BY <2>3, <2>5, <3>1 DEF Going
    <3>3. Likewise(u, z, u, z)
      BY <2>3, <3>1, CharacterLike
    <3> HIDE DEF u
    <3>4. u = [f \in AprsFields |-> u[f]] /\ (u.got = none \/ u.got = Append(none, Whole(z)))
      BY <2>3, <3>3 DEF Likewise, MoreLike
    <3>5. /\ t.state = u.state /\ t.call = u.call /\ t.src = u.src /\ t.dest = u.dest
          /\ t.path = u.path /\ t.body = u.body /\ t.got = u.got
      BY <3>2, <3>4 DEF AprsFields
    <3>6. AprsRest(a) = AprsRest(t) /\ a.got = t.got
      BY <2>3, <3>5 DEF AprsRest
    <3>7. t.got = none \/ \E w : t.got = <<w>>
      <4> DEFINE w == Whole(z)
      <4>1. Append(none, w) = <<w>>
        <5> HIDE DEF w
        <5> QED  BY DEF none
      <4> HIDE DEF w
      <4>2. t.got = none \/ t.got = <<w>>
        BY <3>4, <3>5, <4>1 DEF w
      <4> QED  BY <4>2
    <3> QED  BY <3>6, <3>7 DEF a, b, t, none
  <2> QED  BY <2>4, <2>5
<1> QED  BY <1>11, <1>12

\* The frame of a line is what handle_frame() decodes.
LEMMA FitsHandled ==
    ASSUME NEW f \in Lines, Fits(f) PROVE Handled(f) = {f}
<1> DEFINE no == FALSE
           yes == TRUE
           x == f.dest
           y == f.src
           p == f.path
           head == <<AddrCopy(x, yes), AddrCopy(y, no)>>
<1>1. /\ f \in [src : Station, dest : Station, path : Seq(Station), body : Seq(STRING)]
      /\ PathSize \in Nat /\ PathSize <= MaxHops /\ MaxHops \in Nat
  BY IfaceAssumption, FrameAssumption, AprsAssumption
<1>2. /\ x \in Station /\ y \in Station /\ p \in Seq(Station)
      /\ f = [src |-> y, dest |-> x, path |-> p, body |-> f.body]
  BY <1>1
<1>3. x # NoStation /\ y # NoStation /\ no # yes /\ yes
  BY <1>2, FrameAssumption
<1>4. IsSeq(p) /\ Len(p) <= MaxHops /\ \A i \in 1 .. Len(p) : p[i] # NoStation
  <2>1. IsSeq(p) /\ Len(p) \in Nat /\ \A i \in 1 .. Len(p) : p[i] \in Station
    BY <1>2 DEF IsSeq
  <2>2. Len(p) <= PathSize
    BY DEF Fits
  <2> HIDE DEF p
  <2> QED  BY <1>1, <2>1, <2>2, FrameAssumption
<1>5. EncodeAddress([dest |-> f.dest, src |-> f.src, cr |-> "COMMAND", path |-> f.path], FALSE)
          = Marked(head, p)
  BY DEF EncodeAddress
<1> DEFINE m == Marked(head, p)
<1>6. Handled(f) = {[src |-> d.src, dest |-> d.dest, path |-> d.path, body |-> f.body] : d \in DecodeAddress(m)}
  BY <1>5 DEF Handled
<1>7. DecodeAddress(m) = {[dest |-> x, src |-> y, path |-> p, cr |-> "COMMAND"]}
  <2>4. x # NoStation /\ y # NoStation
    BY <1>3
  <2>5. IsSeq(p) /\ Len(p) <= MaxHops /\ \A i \in 1 .. Len(p) : p[i] # NoStation
    BY <1>4
  <2> HIDE DEF no, yes, x, y, p, m
  <2>1. DecodeAddress(Marked(<<AddrCopy(x, yes), AddrCopy(y, no)>>, p))
          = {[dest |-> x, src |-> y, path |-> p,
              cr |-> IF yes = no THEN "OLD" ELSE IF yes THEN "COMMAND" ELSE "RESPONSE"]}
    BY ONLY <2>4, <2>5, MarkedDecodes
  <2>2. DecodeAddress(m) = {[dest |-> x, src |-> y, path |-> p,
              cr |-> IF yes = no THEN "OLD" ELSE IF yes THEN "COMMAND" ELSE "RESPONSE"]}
    BY <2>1 DEF m
  <2>3. (IF yes = no THEN "OLD" ELSE IF yes THEN "COMMAND" ELSE "RESPONSE") = "COMMAND"
    BY <1>3
  <2> QED  BY <2>2, <2>3
<1> HIDE DEF m
<1>8. Handled(f) = {[src |-> y, dest |-> x, path |-> p, body |-> f.body]}
  <2> HIDE DEF x, y, p
  <2> QED  BY <1>6, <1>7
<1> QED  BY <1>2, <1>8

LEMMA BeginLined ==
    ASSUME NEW d, AprsFitting(AprsBegin(d))
    PROVE  Lined(AprsBegin(d)) /\ AprsBegin(d).got = <<>> /\ AprsBegin(d).stop = FALSE
<1> DEFINE b == AprsBegin(d)
           none == <<>>
<1>1. b.got = none /\ b.stop = FALSE /\ IsSeq(none)
  BY NoneSeq DEF AprsBegin
<1> HIDE DEF b, none
<1>2. b = [x \in AprsFields |-> b[x]] /\ b.state \in Standing
  BY DEF AprsFitting, Standing, b
<1>3. Lined(b)
  BY <1>1, <1>2 DEF Lined
<1> QED  BY <1>1, <1>3 DEF b, none

LEMMA IdleReady ==
    ASSUME NEW a, Lined(a), AprsIdle(a) PROVE a = Ready(a.got)
<1>1. a = [x \in AprsFields |-> a[x]] /\ a.stop = FALSE
  BY DEF Lined, AprsIdle
<1>2. /\ a.state = "HEADER" /\ a.call = Empty /\ a.src = Empty /\ a.dest = Empty
      /\ a.path = <<>> /\ a.body = <<>>
  BY DEF AprsIdle, AprsRest, NewAprs
<1>3. a = Mid(a.state, a.call, a.src, a.dest, a.path, a.body, a.got)
  BY <1>1, IsMid
<1> QED  BY <1>2, <1>3 DEF Ready

LEMMA ReadyIdle ==
    ASSUME NEW g PROVE AprsIdle(Ready(g)) /\ Ready(g).got = g
BY DEF Ready, Mid, AprsIdle, AprsRest, NewAprs

\* A decoder d that will have finished a line when it has read w
Waits(d, w) == Lined(AprsBegin(d)) /\ IsSeq(w) /\ AprsIdle(GoOn(AprsBegin(d), w))

LEMMA LineWaits ==
    ASSUME NEW d, NEW w, Waits(d, w), NEW f \in Lines, Fits(f)
    PROVE  /\ Waits(d, w \o AprsLine(f))
           /\ GoOn(AprsBegin(d), w \o AprsLine(f)).got = Append(GoOn(AprsBegin(d), w).got, f)
<1> DEFINE b == AprsBegin(d)
           s == AprsLine(f)
           t == GoOn(b, w)
           g == t.got
           v == GoOn(b, w \o s)
<1>1. IsSeq(w) /\ IsSeq(s) /\ Lined(b) /\ AprsIdle(t)
  BY LineIsSeq DEF Waits
<1> HIDE DEF b, s
<1>2. Lined(t)
  BY <1>1, GoOnLined
<1>3. t = Ready(g)
  BY <1>1, <1>2, IdleReady
<1>4. v = GoOn(t, s)
  BY <1>1, GoOnConcat
<1>5. GoOn(Ready(g), s) = Ready(Append(g, f))
  BY LineRun DEF s
<1> HIDE DEF t
<1>6. v = Ready(Append(g, f))
  BY <1>3, <1>4, <1>5
<1> HIDE DEF v, g
<1>7. AprsIdle(v) /\ v.got = Append(g, f)
  BY <1>6, ReadyIdle
<1>8. IsSeq(w \o s)
  BY <1>1, ConcatSeq
<1> QED  BY <1>1, <1>7, <1>8 DEF Waits, b, s, t, g, v

LEMMA CommentWaits ==
    ASSUME NEW d, NEW w, Waits(d, w), NEW s \in Comments
    PROVE  Waits(d, w \o s) /\ GoOn(AprsBegin(d), w \o s).got = GoOn(AprsBegin(d), w).got
<1> DEFINE b == AprsBegin(d)
           t == GoOn(b, w)
           g == t.got
           v == GoOn(b, w \o s)
<1>1. IsSeq(w) /\ IsSeq(s) /\ Lined(b) /\ AprsIdle(t)
  BY CommentRun DEF Waits
<1> HIDE DEF b
<1>2. Lined(t)
  BY <1>1, GoOnLined
<1>3. t = Ready(g)
  BY <1>1, <1>2, IdleReady
<1>4. v = GoOn(t, s)
  BY <1>1, GoOnConcat
<1>5. GoOn(Ready(g), s) = Ready(g)
  BY CommentRun
<1> HIDE DEF t
<1>6. v = Ready(g)
  BY <1>3, <1>4, <1>5
<1> HIDE DEF v, g
<1>7. AprsIdle(v) /\ v.got = g
  BY <1>6, ReadyIdle
<1>8. IsSeq(w \o s)
  BY <1>1, ConcatSeq
<1> QED  BY <1>1, <1>7, <1>8 DEF Waits, b, t, g, v

\* What drain leaves for the next read, and what it has completed
LEMMA PartWaits ==
    ASSUME NEW d, NEW w, Waits(d, w), NEW n \in 0 .. Len(w),
           EndsIn(SubSeq(w, 1, n)) \subseteq {n}
    PROVE  LET a == AprsDrain(d, SubSeq(w, 1, n))
               e == AprsRest(a)
               r == SubSeq(w, n + 1, Len(w))
           IN  /\ Waits(e, r) /\ IsSeq(a.got) /\ IsSeq(GoOn(AprsBegin(e), r).got)
               /\ Joined(GoOn(AprsBegin(d), w).got, a.got, GoOn(AprsBegin(e), r).got)
               /\ a.got = <<>> \/ \E x : a.got = <<x>>
<1> DEFINE b == AprsBegin(d)
           s == SubSeq(w, 1, n)
           r == SubSeq(w, n + 1, Len(w))
           t == GoOn(b, s)
           all == GoOn(b, w)
           a == AprsDrain(d, s)
           e == AprsRest(a)
           u == AprsBegin(e)
           last == GoOn(u, r)
           none == <<>>
<1>1. Lined(b) /\ IsSeq(w) /\ AprsIdle(all)
  BY DEF Waits
<1>2. IsSeq(s) /\ IsSeq(r) /\ Joined(w, s, r)
  <2>1. IsSeq(s) /\ IsSeq(r) /\ s \o r = w
    BY <1>1, SplitSeq
  <2> QED  BY <2>1 DEF Joined
<1>3. Len(s) = n
  <2>1. n \in Nat /\ n <= Len(w)
    BY <1>1, SeqLen
  <2> QED  BY <1>1, <2>1, FirstSeq
<1>4. EndsIn(s) \subseteq {Len(s)}
  BY <1>3
<1> HIDE DEF b, s, r
<1>5. all = GoOn(t, r)
  BY <1>2, GoOnJoined
<1>6. Lined(t)
  BY <1>1, <1>2, GoOnLined
<1>7. t.stop = FALSE
  <2>1. CASE t.stop
    <3>1. all = t
      BY <1>2, <1>5, <2>1, GoOnStopped
    <3> QED  BY <1>1, <2>1, <3>1 DEF AprsIdle
  <2>2. t.stop \in BOOLEAN
    BY <1>6 DEF Lined
  <2> QED  BY <2>1, <2>2
<1> HIDE DEF t, all, a, e
<1>8. e = AprsRest(t) /\ a.got = t.got /\ (t.got = none \/ \E x : t.got = <<x>>)
  <2> USE DEF t, a, e, b
  <2>1. /\ Lined(AprsBegin(d)) /\ GoOn(AprsBegin(d), s).stop = FALSE
    BY <1>1, <1>7
  <2> HIDE DEF t, a, e, b
  <2>2. /\ AprsRest(AprsDrain(d, s)) = AprsRest(GoOn(AprsBegin(d), s))
        /\ AprsDrain(d, s).got = GoOn(AprsBegin(d), s).got
        /\ \/ GoOn(AprsBegin(d), s).got = <<>>
           \/ \E x : GoOn(AprsBegin(d), s).got = <<x>>
    BY <1>2, <1>4, <2>1, ReadLine
  <2> QED  BY <2>2 DEF t, a, e, b
<1>9. SameBehind(t, u, t.got)
  <2>1. /\ u.state = t.state /\ u.call = t.call /\ u.src = t.src /\ u.dest = t.dest
        /\ u.path = t.path /\ u.body = t.body /\ u.stop = FALSE /\ u.got = none
        /\ u = [x \in AprsFields |-> u[x]]
    BY <1>8 DEF AprsBegin, AprsRest, AprsFields
  <2> HIDE DEF u
  <2>2. SameFields(t, u)
    BY <1>7, <2>1 DEF SameFields
  <2>3. IsSeq(none) /\ IsSeq(t.got)
    BY <1>6, NoneSeq DEF Lined
  <2> DEFINE g == t.got
  <2>4. Joined(g, g, none)
    <3>0. IsSeq(g)
      BY <2>3
    <3> HIDE DEF g
    <3>1. g \o none = g
      BY <3>0, ConcatNone DEF none
    <3> QED  BY <3>1 DEF Joined
  <2> HIDE DEF g, none
  <2>5. Lined(u)
    BY <1>6, <2>1, <2>3 DEF Lined
  <2> QED  BY <1>6, <2>1, <2>2, <2>4, <2>5 DEF SameBehind, g
<1> HIDE DEF u, none
<1>10. IsSeq(t.got)
  BY <1>6 DEF Lined
<1>11. SameBehind(all, last, t.got)
  BY <1>2, <1>5, <1>9, <1>10, GoOnBehind
<1> HIDE DEF last
<1>12. AprsIdle(last)
  <2>1. SameFields(all, last) /\ AprsIdle(all)
    BY <1>1, <1>11 DEF SameBehind
  <2>2. AprsRest(last) = AprsRest(all)
    BY <2>1 DEF SameFields, AprsRest
  <2> QED  BY <2>1, <2>2 DEF SameFields, AprsIdle
<1>13. Lined(u) /\ IsSeq(last.got) /\ Joined(all.got, t.got, last.got)
  BY <1>9, <1>11 DEF SameBehind, Lined
<1>14. Waits(e, r)
  BY <1>2, <1>12, <1>13 DEF Waits, u, last
<1>15. IsSeq(a.got) /\ Joined(all.got, a.got, last.got) /\ (a.got = none \/ \E x : a.got = <<x>>)
  BY <1>8, <1>10, <1>13
<1> QED  BY <1>13, <1>14, <1>15 DEF b, s, r, t, all, a, e, u, last, none

\* What is on its way is the rest of what has been sent.
AprsReads ==
    \/ driver # "aprs" \/ ~Regular
    \/ /\ device = "open" /\ status = "UP" /\ IsSeq(heard) /\ Waits(decoder, wire)
       /\ Joined(sent, heard, GoOn(AprsBegin(decoder), wire).got)
       /\ \A k \in 1 .. Len(sent) : Fits(sent[k])

LEMMA AprsReadsInit == Init => AprsReads
<1> SUFFICES ASSUME Init, driver = "aprs" PROVE AprsReads
  BY DEF AprsReads
<1> DEFINE none == <<>>
           b == AprsBegin(decoder)
<1>1. /\ wire = none /\ sent = none /\ heard = none /\ device = "open" /\ status = "UP"
      /\ IsSeq(none) /\ Len(none) = 0
  BY NoneSeq DEF Init
<1>2. Lined(b) /\ b.got = none /\ b.stop = FALSE
  <2>1. AprsFitting(AprsBegin(decoder))
    BY SizesInit DEF Sizes
  <2> QED  BY <2>1, BeginLined
<1>3. AprsIdle(b)
  <2>1. decoder = NewAprs
    BY DEF Init
  <2> QED  BY <2>1 DEF AprsIdle, AprsRest, AprsBegin, NewAprs
<1>4. GoOn(b, none) = b
  BY GoOnNone
<1>5. Joined(none, none, none)
  <2>1. none \o none = none
    <3> HIDE DEF none
    <3> QED  BY <1>1, ConcatNone DEF none
  <2> QED  BY <2>1 DEF Joined
<1> HIDE DEF none
<1>6. Waits(decoder, wire) /\ GoOn(AprsBegin(decoder), wire).got = none
  BY <1>1, <1>2, <1>3, <1>4 DEF Waits
<1>7. \A k \in 1 .. Len(sent) : Fits(sent[k])
  BY <1>1
<1>8. Joined(sent, heard, GoOn(AprsBegin(decoder), wire).got) /\ IsSeq(heard)
  BY <1>1, <1>5, <1>6
<1> QED  BY <1>1, <1>6, <1>7, <1>8 DEF AprsReads

LEMMA AprsWriteLine ==
    ASSUME Sizes, AprsReads, driver = "aprs", NEW f \in Lines, PutLine(f), Regular'
    PROVE  AprsReads'
<1> DEFINE s == AprsLine(f)
           g == GoOn(AprsBegin(decoder), wire).got
<1>1. /\ wire' = wire \o s /\ sent' = Append(sent, f) /\ odd \subseteq odd'
      /\ UNCHANGED <<driver, device, status, decoder, heard>>
      /\ ~Fits(f) => "long" \in odd'
  BY DEF PutLine, Put, Irregular
<1>2. Regular /\ Fits(f)
  BY <1>1 DEF Regular
<1>3. /\ device = "open" /\ status = "UP" /\ IsSeq(heard) /\ Waits(decoder, wire)
      /\ Joined(sent, heard, g) /\ \A k \in 1 .. Len(sent) : Fits(sent[k])
  BY <1>2 DEF AprsReads
<1>4. Waits(decoder, wire \o s) /\ GoOn(AprsBegin(decoder), wire \o s).got = Append(g, f)
  BY <1>2, <1>3, LineWaits
<1>5. sent \in Seq(Lines) /\ IsSeq(sent)
  BY DEF Sizes, IsSeq
<1>6. IsSeq(g)
  <2>1. Lined(GoOn(AprsBegin(decoder), wire))
    BY <1>3, GoOnLined DEF Waits
  <2> QED  BY <2>1 DEF Lined
<1> HIDE DEF g, s
<1>7. Joined(Append(sent, f), heard, Append(g, f))
  BY <1>3, <1>6, JoinedAppend
<1>8. \A k \in 1 .. Len(sent') : Fits(sent'[k])
  <2>1. /\ Len(Append(sent, f)) = Len(sent) + 1 /\ Len(sent) \in Nat
        /\ Append(sent, f)[Len(sent) + 1] = f
        /\ \A k \in 1 .. Len(sent) : Append(sent, f)[k] = sent[k]
    BY <1>5
  <2> QED  BY <1>1, <1>2, <1>3, <2>1
<1>9. Waits(decoder', wire') /\ Joined(sent', heard', GoOn(AprsBegin(decoder'), wire').got)
  BY <1>1, <1>4, <1>7
<1> QED  BY <1>1, <1>3, <1>8, <1>9 DEF AprsReads

LEMMA AprsWriteComment ==
    ASSUME AprsReads, driver = "aprs", NEW c \in Comments, PutComment(c), Regular'
    PROVE  AprsReads'
<1> DEFINE g == GoOn(AprsBegin(decoder), wire).got
<1>1. wire' = wire \o c /\ UNCHANGED <<driver, device, status, sent, decoder, heard, odd>>
  BY DEF PutComment
<1>2. Regular
  BY <1>1 DEF Regular
<1>3. /\ device = "open" /\ status = "UP" /\ IsSeq(heard) /\ Waits(decoder, wire)
      /\ Joined(sent, heard, g) /\ \A k \in 1 .. Len(sent) : Fits(sent[k])
  BY <1>2 DEF AprsReads
<1>4. Waits(decoder, wire \o c) /\ GoOn(AprsBegin(decoder), wire \o c).got = g
  BY <1>3, CommentWaits
<1> HIDE DEF g
<1>5. Waits(decoder', wire') /\ Joined(sent', heard', GoOn(AprsBegin(decoder'), wire').got)
  BY <1>1, <1>3, <1>4
<1> QED  BY <1>1, <1>3, <1>5 DEF AprsReads

\* The next frame of a sequence
LEMMA JoinedNext ==
    ASSUME NEW r, NEW s, NEW t, NEW e, NEW x, IsSeq(s), IsSeq(e), IsSeq(t),
           Joined(r, s, t), Joined(t, <<x>>, e), r \in Seq(Lines)
    PROVE  \E k \in 1 .. Len(r) : r[k] = x
<1> DEFINE o == <<x>>
           m == Len(s) + 1
<1>1. IsSeq(o) /\ Len(o) = 1 /\ o[1] = x
  BY OneSeq
<1> HIDE DEF o
<1>2. Len(s) \in Nat /\ Len(e) \in Nat
  BY SeqLen
<1>3. Len(t) = 1 + Len(e) /\ t[1] = x
  <2>1. Len(o \o e) = Len(o) + Len(e)
    BY <1>1, ConcatSeq
  <2>2. (o \o e)[1] = o[1]
    <3>1. 1 \in 1 .. Len(o)
      BY <1>1
    <3>2. IsSeq(o)
      BY <1>1
    <3>3. \A i \in 1 .. Len(o) : (o \o e)[i] = o[i]
      BY <3>2, ConcatAt
    <3> DEFINE c == o \o e
    <3> HIDE DEF c
    <3>4. c[1] = o[1]
      BY <3>1, <3>3 DEF c
    <3> QED  BY <3>4 DEF c
  <2>3. t = o \o e
    BY DEF Joined, o
  <2> QED  BY <1>1, <2>1, <2>2, <2>3
<1>4. Len(r) = Len(s) + Len(t) /\ r[m] = t[1]
  <2>1. Len(s \o t) = Len(s) + Len(t)
    BY ConcatSeq
  <2>2. (s \o t)[Len(s) + 1] = t[1]
    <3>1. 1 \in 1 .. Len(t)
      BY <1>2, <1>3
    <3> QED  BY <3>1, ConcatAt
  <2>3. r = s \o t
    BY DEF Joined
  <2> QED  BY <2>1, <2>2, <2>3
<1>5. m \in 1 .. Len(r)
  BY <1>2, <1>3, <1>4
<1> QED  BY <1>3, <1>4, <1>5

LEMMA AprsRead ==
    ASSUME Sizes, AprsReads, NEW n \in Nat, HandleIfaceAprs(n), Regular'
    PROVE  AprsReads'
<1> DEFINE x == SubSeq(wire, 1, n)
           in == SubSeq(wire, n + 1, Len(wire))
           a == AprsDrain(decoder, x)
           e == AprsRest(a)
           g == GoOn(AprsBegin(decoder), wire).got
           h == GoOn(AprsBegin(e), in).got
           t == a.got
<1>1. /\ driver = "aprs" /\ wire' = in /\ Read(x) /\ n <= Len(wire)
      /\ odd \subseteq odd' /\ (~(EndsIn(x) \subseteq {n}) => "beyond" \in odd')
      /\ UNCHANGED <<driver, device, status, sent>>
  BY DEF HandleIfaceAprs
<1>2. Regular /\ EndsIn(x) \subseteq {n}
  BY <1>1 DEF Regular
<1>3. /\ device = "open" /\ status = "UP" /\ IsSeq(heard) /\ Waits(decoder, wire)
      /\ Joined(sent, heard, g) /\ \A k \in 1 .. Len(sent) : Fits(sent[k])
  BY <1>1, <1>2 DEF AprsReads
<1>4. n \in 0 .. Len(wire) /\ sent \in Seq(Lines)
  <2>1. Len(wire) \in Nat
    BY <1>3, SeqLen DEF Waits
  <2> QED  BY <1>1, <2>1 DEF Sizes
<1>5. /\ Waits(e, in) /\ IsSeq(t) /\ IsSeq(h) /\ Joined(g, t, h)
      /\ t = <<>> \/ \E w : t = <<w>>
  BY <1>2, <1>3, <1>4, PartWaits
<1>6. /\ decoder' = e
      /\ LET F == IF t = <<>> THEN {} ELSE Handled(t[1])
         IN  (F = {} /\ UNCHANGED heard) \/ \E f \in F : heard' = Append(heard, f)
  BY <1>1 DEF Read
<1>7. IsSeq(g)
  <2>1. Lined(GoOn(AprsBegin(decoder), wire))
    BY <1>3, GoOnLined DEF Waits
  <2> QED  BY <2>1 DEF Lined
<1> HIDE DEF x, in, a, e, g, h, t
<1>8. heard' = heard \o t
  <2>1. CASE t = <<>>
    <3>1. heard' = heard
      BY <1>6, <2>1
    <3> QED  BY <1>3, <2>1, <3>1, ConcatNone
  <2>2. ASSUME NEW w, t = <<w>> PROVE heard' = heard \o t
    <3>1. PICK k \in 1 .. Len(sent) : sent[k] = w
      <4>1. Joined(g, <<w>>, h)
        BY <1>5, <2>2
      <4> QED  BY ONLY <1>3, <1>4, <1>5, <1>7, <4>1, JoinedNext
    <3>2. w \in Lines /\ Fits(w)
      BY <1>3, <1>4, <3>1
    <3>3. Handled(w) = {w}
      BY <3>2, FitsHandled
    <3>4. Len(t) = 1 /\ t[1] = w
      BY <2>2, OneSeq
    <3>5. t # <<>>
      BY <3>4, NoneSeq
    <3>6. heard' = Append(heard, w)
      BY <1>6, <3>3, <3>4, <3>5
    <3>7. Append(heard, w) = heard \o <<w>>
      <4>1. PICK S : heard \in Seq(S)
        BY <1>3 DEF IsSeq
      <4>2. heard \in Seq(S \cup {w}) /\ w \in S \cup {w}
        BY <4>1
      <4> QED  BY <4>2, AppendIsConcat
    <3> QED  BY <2>2, <3>6, <3>7
  <2> QED  BY <1>5, <2>1, <2>2
<1>9. Joined(sent, heard \o t, h)
  BY <1>3, <1>5, JoinedAssoc
<1>10. IsSeq(heard')
  BY <1>3, <1>5, <1>8, ConcatSeq
<1>11. Waits(decoder', wire') /\ Joined(sent', heard', GoOn(AprsBegin(decoder'), wire').got)
  BY <1>1, <1>5, <1>6, <1>8, <1>9 DEF h
<1> QED  BY <1>1, <1>3, <1>10, <1>11 DEF AprsReads

\* Steps that leave the line and its decoder alone
LEMMA AprsSame ==
    ASSUME AprsReads, Regular', odd \subseteq odd', device = "open" => device' = "open",
           UNCHANGED <<driver, status, wire, sent, decoder, heard>>
    PROVE  AprsReads'
<1>1. Regular
  BY DEF Regular
<1>2. CASE driver # "aprs"
  BY <1>2 DEF AprsReads
<1>3. CASE driver = "aprs"
  BY <1>1, <1>3 DEF AprsReads
<1> QED  BY <1>2, <1>3

LEMMA AprsReadsNext == AprsReads /\ Sizes /\ [Next]_vars => AprsReads'
<1> SUFFICES ASSUME AprsReads, Sizes, [Next]_vars, driver' = "aprs", Regular'
             PROVE  AprsReads'
  BY DEF AprsReads
<1> DEFINE Same == /\ odd \subseteq odd' /\ (device = "open" => device' = "open")
                   /\ UNCHANGED <<driver, status, wire, sent, decoder, heard>>
           Kept == Same \/ AprsReads'
<1>1. ASSUME Line PROVE AprsReads'
  <2>0. driver = "aprs"
    BY <1>1 DEF Line, Put, PutFrame, PutShared, PutIdle, PutGarbage, PutLine, PutComment
  <2>1. ASSUME NEW f \in Lines, PutLine(f) PROVE AprsReads'
    BY <2>0, <2>1, AprsWriteLine
  <2>2. ASSUME NEW c \in Comments, PutComment(c) PROVE AprsReads'
    BY <2>0, <2>2, AprsWriteComment
  <2> QED  BY <1>1, <2>0, <2>1, <2>2 DEF Line
<1>2. ASSUME NEW n \in 1 .. BufSize, HandleIfaceAprs(n) PROVE AprsReads'
  <2>1. n \in Nat
    BY IfaceAssumption
  <2> QED  BY <1>2, <2>1, AprsRead
<1>3. ASSUME NEW n, HandleIfaceKiss(n) PROVE FALSE
  BY <1>3 DEF HandleIfaceKiss, End, line
<1>4. ASSUME HandleIfaceError \/ HandleIfaceEof PROVE FALSE
  <2>1. "hangup" \in odd'
    BY <1>4 DEF HandleIfaceError, HandleIfaceEof, Irregular
  <2> QED  BY <2>1 DEF Regular
<1>5. ASSUME HandleIfaceWaits PROVE Same
  BY <1>5 DEF HandleIfaceWaits, End, line
<1>6. ASSUME HandleIface PROVE Kept
  <2> HIDE DEF Same
  <2> QED  BY <1>2, <1>3, <1>4, <1>5, <1>6 DEF HandleIface
<1>7. ASSUME NEW f, NEW n, HandleSockRaw(f, n) PROVE Same
  BY <1>7 DEF HandleSockRaw, End, line
<1>8. ASSUME NEW f, NEW frame, NEW octets, NEW what, Write(f, frame, octets, what) PROVE Same
  BY <1>8 DEF Write, Irregular, line
<1>9. ASSUME NEW f \in Fd, SockClose(f) PROVE Same
  BY <1>9, IfaceAssumption DEF SockClose, line
<1>10. ASSUME NEW f, NEW i, NEW p, SetSockOptIf(f, i, p) PROVE Same
  BY <1>10 DEF SetSockOptIf, Irregular, line
<1>11. ASSUME NEW f, NEW type, ServerSocket(f, type) PROVE Same
  BY <1>11 DEF ServerSocket, line
<1>12. ASSUME NEW i, HandleOther(i) PROVE Same
  BY <1>12 DEF HandleOther, End, line
<1>16. ASSUME NEW f, ServerListen(f) PROVE Same
  BY <1>16 DEF ServerListen, Irregular, line, ptys
<1>13. ASSUME Raw PROVE Same
  <2> HIDE DEF Same
  <2> QED  BY <1>7, <1>8, <1>9, <1>10, <1>11, <1>13, <1>16 DEF Raw, WriteFrame, WriteGarbage
<1>14. ASSUME UNCHANGED vars PROVE Same
  BY <1>14 DEF vars, line
<1>15. Same \/ AprsReads'
  <2> HIDE DEF Same
  <2> QED  BY <1>1, <1>6, <1>12, <1>13, <1>14 DEF Next
<1> QED  BY <1>15, AprsSame

\* Frames of an APRS-IS server are received in order and unaltered.
LEMMA AprsInOrder ==
    ASSUME AprsReads, driver = "aprs", Regular
    PROVE  IsPrefix(heard, sent) /\ status # "DOWN" /\ (wire = <<>> => heard = sent)
<1> DEFINE b == AprsBegin(decoder)
           g == GoOn(b, wire).got
<1>1. IsSeq(heard) /\ status = "UP" /\ Waits(decoder, wire) /\ Joined(sent, heard, g)
  BY DEF AprsReads
<1>2. IsSeq(g)
  <2>1. Lined(GoOn(b, wire))
    BY <1>1, GoOnLined DEF Waits
  <2> QED  BY <2>1 DEF Lined
<1>3. ASSUME wire = <<>> PROVE g = <<>>
  <2>1. GoOn(b, wire) = b
    BY <1>3, GoOnNone
  <2> QED  BY <2>1 DEF AprsBegin
<1> HIDE DEF g
<1>4. sent = heard \o g
  BY <1>1 DEF Joined
<1>5. IsPrefix(heard, sent)
  <2>1. IsPrefix(heard, heard \o g)
    BY <1>1, <1>2, PrefixConcat
  <2> QED  BY <1>4, <2>1
<1>6. ASSUME wire = <<>> PROVE heard = sent
  BY <1>1, <1>3, <1>4, <1>6, ConcatNone
<1> QED  BY <1>1, <1>5, <1>6

\* On the line of a KISS device and on that of an APRS-IS server, what the other
\* end has sent is received in order and unaltered: patty_kiss_tnc_drain() and
\* patty_kiss_frame_send() agree about every octet and escape, and
\* patty_ax25_aprs_is_drain(), encode_address() and decode_hops() keep every
\* station, repeater and character, wherever the reads of handle_iface() divide
\* the frames, for every size of rx_buf that has room for them.
THEOREM IfaceInOrder == Spec => []InOrder
<1>1. KissReads /\ AprsReads /\ Sizes => InOrder
  <2> SUFFICES ASSUME KissReads, AprsReads, Sizes, Regular PROVE IsPrefix(heard, sent)
    BY DEF InOrder
  <2> QED  BY KissInOrder, AprsInOrder DEF Sizes
<1> QED  BY <1>1, SInvInit, SInvNext, SizesInit, SizesNext, KissReadsInit, KissReadsNext,
            AprsReadsInit, AprsReadsNext, PTL DEF Spec

\* And nothing of it stays in a decoder: when handle_iface() has read all that
\* was sent, all frames have been handled and the interface is up.
THEOREM IfaceComplete == Spec => []Complete
<1>1. KissReads /\ AprsReads /\ Sizes => Complete
  <2> SUFFICES ASSUME KissReads, AprsReads, Sizes, Regular
               PROVE  status # "DOWN" /\ (wire = <<>> => heard = sent)
    BY DEF Complete
  <2> QED  BY KissInOrder, AprsInOrder DEF Sizes
<1> QED  BY <1>1, SInvInit, SInvNext, SizesInit, SizesNext, KissReadsInit, KissReadsNext,
            AprsReadsInit, AprsReadsNext, PTL DEF Spec
=============================================================================
