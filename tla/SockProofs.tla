---------------------------- MODULE SockProofs ----------------------------
(***************************************************************************)
(* What the operations of Sock.tla preserve, for every modulus, window and  *)
(* number of retries.  LinkProofs.tla rests on these lemmas.                *)
(***************************************************************************)
EXTENDS Sock, WellFoundedInduction, TLAPS

---------------------------------------------------------------------------
(***************************************************************************)
(* Arithmetic.                                                              *)
(***************************************************************************)
\* A remainder is a sequence number of its modulus.
LEMMA ModRange ==
    ASSUME NEW x \in Int, NEW m \in Nat, m > 0
    PROVE  x % m \in 0 .. (m - 1)
BY SMT

\* A set of integers with an upper bound has a last element.
LEMMA LastExists ==
    ASSUME NEW S, NEW b \in Int, S # {}, \A i \in S : i \in Int /\ i <= b
    PROVE  LastOf(S) \in S /\ \A j \in S : j <= LastOf(S)
<1> DEFINE R == {ss \in Nat \X Nat : ss[1] < ss[2]}
           T == {b - i : i \in S}
<1>1. IsWellFoundedOn(R, Nat)
  BY NatLessThanWellFounded DEF OpToRel
<1>2. T \subseteq Nat /\ T # {}
  OBVIOUS
<1>3. PICK x \in T : \A y \in T : ~(<<y, x>> \in R)
  <2> HIDE DEF R, T
  <2> QED  BY <1>1, <1>2, WFMin
<1>4. PICK i \in S : x = b - i
  OBVIOUS
<1>5. \A j \in S : j <= i
  <2> SUFFICES ASSUME NEW j \in S PROVE j <= i
    OBVIOUS
  <2>1. b - j \in T /\ ~(<<b - j, x>> \in R)
    BY <1>3
  <2>2. ~(b - j < b - i)
    BY <2>1, <1>2, <1>4
  <2> QED  BY <2>2
<1> QED  BY <1>5 DEF LastOf

---------------------------------------------------------------------------
(***************************************************************************)
(* The invariant of a socket.                                               *)
(***************************************************************************)
Armed(s)      == AckPending(s) => s.t1
Supervised(s) == s.state = "ESTABLISHED" => s.t1 \/ s.t3
Scheduled(s)  == s.rxp > 0 => s.t2
Sized(s)      == s.state \in {"ESTABLISHED", "PENDING_DISCONNECT"} => ~Overrun(s)

SockInv(s) == s \in Socket /\ Armed(s) /\ Supervised(s) /\ Scheduled(s) /\ Sized(s)

\* A frame that was waiting for its acknowledgement is still in its slot, or
\* the whole ring was emptied.
Kept(s, u) ==
    \A i \in Seqno : Pending(s, i) => \/ u.slots[i].data = s.slots[i].data
                                      \/ u.slots = EmptySlots

\* The number of slots is positive, and a slot number is a sequence number.
LEMMA SlotRange ==
    ASSUME NEW s \in Socket, NEW x \in Int
    PROVE  /\ TxSlots(s.mode) \in Nat /\ TxSlots(s.mode) > 0
           /\ TxSlots(s.mode) <= ModExt
           /\ x % TxSlots(s.mode) \in Seqno
           /\ x % TxSlots(s.mode) < TxSlots(s.mode)
<1>1. /\ TxSlots(s.mode) \in Nat /\ TxSlots(s.mode) > 0
      /\ TxSlots(s.mode) <= ModExt
  BY SockAssumption DEF TxSlots
<1>2. x % TxSlots(s.mode) \in 0 .. (TxSlots(s.mode) - 1)
  BY <1>1, ModRange
<1> QED  BY <1>1, <1>2, SockAssumption DEF Seqno

LEMMA EmptySlotsType ==
    EmptySlots \in [Seqno -> Slot] /\ \A i \in Seqno : EmptySlots[i].data = NoData
BY DEF EmptySlots, Slot

\* An empty ring has nothing pending.
LEMMA EmptyNotPending ==
    ASSUME NEW s, s.slots = EmptySlots
    PROVE  ~AckPending(s)
BY EmptySlotsType DEF AckPending, Pending

LEMMA NewSockInv == SockInv(NewSock)
<1>1. NewSock \in Socket
  BY SockAssumption, EmptySlotsType DEF NewSock, Socket, State, Mode, Seqno
<1>2. ~AckPending(NewSock)
  BY EmptyNotPending DEF NewSock
<1> QED
  BY <1>1, <1>2 DEF SockInv, Armed, Supervised, Scheduled, Sized, NewSock

LEMMA ResetInv ==
    ASSUME NEW s \in Socket, SockInv(s)
    PROVE  SockInv(SockReset(s)) /\ SockReset(s).slots = EmptySlots
<1> DEFINE u == SockReset(s)
<1>1. u \in Socket
  <2>1. 0 \in Seqno /\ NRetry \in 0 .. NRetry
    BY SockAssumption DEF Seqno
  <2> QED  BY <2>1, EmptySlotsType DEF SockReset, Socket
<1>2. u.t1 /\ u.rxp = 0 /\ u.state = s.state /\ u.mode = s.mode /\ u.ring = s.ring
      /\ u.slots = EmptySlots
  BY DEF SockInv, SockReset, Socket
<1> QED
  BY <1>1, <1>2 DEF SockInv, Armed, Supervised, Scheduled, Sized, Overrun

\* The buffers are made again: nothing is pending and the ring fits the mode.
LEMMA ReallocInv ==
    ASSUME NEW s \in Socket, Scheduled(s), Supervised(s)
    PROVE  SockInv(ReallocBufs(s)) /\ ReallocBufs(s).slots = EmptySlots
<1> DEFINE u == ReallocBufs(s)
<1>1. TxSlots(s.mode) \in {Mod, ModExt}
  BY DEF TxSlots
<1>2. u \in Socket
  BY <1>1, EmptySlotsType DEF ReallocBufs, Socket
<1>3. /\ u.t1 = s.t1 /\ u.t3 = s.t3 /\ u.rxp = s.rxp /\ u.t2 = s.t2
      /\ u.mode = s.mode /\ u.ring = TxSlots(s.mode) /\ u.slots = EmptySlots
      /\ u.state = s.state
  BY DEF ReallocBufs, Socket
<1>4. ~AckPending(u)
  BY <1>3, EmptyNotPending
<1>5. ~Overrun(u)
  BY <1>3, SockAssumption DEF Overrun, TxSlots
<1> QED
  BY <1>2, <1>3, <1>4, <1>5 DEF SockInv, Armed, Supervised, Scheduled, Sized

---------------------------------------------------------------------------
(***************************************************************************)
(* Acknowledgement.                                                         *)
(***************************************************************************)
\* u is s but for V(S), V(A), the retries, T1 and acknowledged marks.
SameLink(s, u) ==
    /\ u.state = s.state /\ u.mode = s.mode /\ u.ring = s.ring
    /\ u.vr = s.vr /\ u.k = s.k /\ u.krx = s.krx
    /\ u.rxp = s.rxp /\ u.t2 = s.t2 /\ u.t3 = s.t3
    /\ \A i \in Seqno : u.slots[i].data = s.slots[i].data

\* patty_ax25_sock_ack() marks slots and moves V(A); no slot becomes pending.
LEMMA SockAckInv ==
    ASSUME NEW s \in Socket, NEW nr \in Seqno, NEW junk
    PROVE  LET u == SockAck(s, nr, junk)
           IN  /\ u \in Socket /\ SameLink(s, u) /\ u.t1 = s.t1
               /\ AckPending(u) => AckPending(s)
<1> DEFINE acked == AckRange(s, nr, junk)
           u == SockAck(s, nr, junk)
           marked == [i \in Seqno |->
                        IF Pending(s, i) /\ i \in SlotsOf(s, acked)
                        THEN [s.slots[i] EXCEPT !.ack = TRUE]
                        ELSE s.slots[i]]
           last == (LastOf(acked) + 1) % TxSlots(s.mode)
<1>1. CASE acked = {}
  BY <1>1 DEF SockAck, SameLink
<1>2. CASE acked # {}
  <2>1. u = [s EXCEPT !.slots = marked, !.va = last]
    BY <1>2 DEF SockAck
  <2>2. last \in Seqno
    <3>1. TxSlots(s.mode) \in Int /\ s.va \in Int /\ nr \in Int
      BY SlotRange, SockAssumption DEF Socket, Seqno
    <3>2. \A i \in acked : i \in Int /\ i <= nr + TxSlots(s.mode)
      BY <3>1, SlotRange DEF AckRange, AckPlaces
    <3>3. LastOf(acked) \in Int
      <4> HIDE DEF acked
      <4>1. nr + TxSlots(s.mode) \in Int
        BY <3>1
      <4> QED  BY <1>2, <3>2, <4>1, LastExists
    <3> HIDE DEF acked
    <3> QED  BY <3>3, SlotRange
  <2> HIDE DEF marked, last, acked, u
  <2>3. /\ marked \in [Seqno -> Slot]
        /\ \A i \in Seqno : /\ marked[i].data = s.slots[i].data
                            /\ s.slots[i].ack => marked[i].ack
    <3>1. s.slots \in [Seqno -> Slot]
      BY DEF Socket
    <3>2. ASSUME NEW i \in Seqno
          PROVE  /\ marked[i] \in Slot
                 /\ marked[i].data = s.slots[i].data
                 /\ s.slots[i].ack => marked[i].ack
      <4>1. s.slots[i] \in Slot
        BY <3>1
      <4>2. CASE Pending(s, i) /\ i \in SlotsOf(s, acked)
        <5>1. marked[i] = [s.slots[i] EXCEPT !.ack = TRUE]
          BY <4>2 DEF marked
        <5> QED  BY <4>1, <5>1 DEF Slot
      <4>3. CASE ~(Pending(s, i) /\ i \in SlotsOf(s, acked))
        <5>1. marked[i] = s.slots[i]
          BY <4>3 DEF marked
        <5> QED  BY <4>1, <5>1
      <4> QED  BY <4>2, <4>3
    <3>3. marked = [i \in Seqno |-> marked[i]]
      BY DEF marked
    <3> QED  BY <3>2, <3>3
  <2>4. u \in Socket /\ u.slots = marked /\ u.mode = s.mode /\ u.t1 = s.t1
    BY <2>1, <2>2, <2>3 DEF Socket
  <2>5. SameLink(s, u)
    <3>1. /\ u.state = s.state /\ u.ring = s.ring
          /\ u.vr = s.vr /\ u.k = s.k /\ u.krx = s.krx
          /\ u.rxp = s.rxp /\ u.t2 = s.t2 /\ u.t3 = s.t3
      BY <2>1 DEF Socket
    <3> QED  BY <3>1, <2>3, <2>4, Zenon DEF SameLink
  <2>6. AckPending(u) => AckPending(s)
    <3> SUFFICES ASSUME NEW i \in Seqno, i < TxSlots(u.mode), Pending(u, i)
                 PROVE  Pending(s, i) /\ i < TxSlots(s.mode)
      BY Zenon DEF AckPending
    <3> QED  BY <2>3, <2>4, Zenon DEF Pending
  <2> QED  BY <2>4, <2>5, <2>6 DEF u
<1> QED  BY <1>1, <1>2

\* T1 is stopped only when nothing is pending.
LEMMA AckTimerInv ==
    ASSUME NEW s \in Socket, Armed(s), NEW reported, NEW left
    PROVE  LET u == AckTimer(s, reported, left)
           IN  u \in Socket /\ SameLink(s, u) /\ Armed(u)
<1> DEFINE u == AckTimer(s, reported, left)
<1>1. CASE ~reported
  BY <1>1 DEF AckTimer, SameLink
<1>2. CASE reported /\ (AckPending(s) \/ left # {})
  <2>1. u = [s EXCEPT !.retries = NRetry, !.t1 = TRUE]
    BY <1>2 DEF AckTimer
  <2>2. NRetry \in 0 .. NRetry
    BY SockAssumption
  <2> HIDE DEF u
  <2>3. u \in Socket /\ u.slots = s.slots /\ u.t1 = TRUE
    BY <2>1, <2>2 DEF Socket
  <2>4. SameLink(s, u)
    BY <2>1, <2>3 DEF SameLink, Socket
  <2> QED  BY <2>3, <2>4 DEF Armed, u
<1>3. CASE reported /\ ~(AckPending(s) \/ left # {})
  <2>1. u = [s EXCEPT !.t1 = FALSE]
    BY <1>3 DEF AckTimer
  <2> HIDE DEF u
  <2>2. u \in Socket /\ u.slots = s.slots /\ u.mode = s.mode
    BY <2>1 DEF Socket
  <2>3. SameLink(s, u)
    BY <2>1, <2>2 DEF SameLink, Socket
  <2>4. ~AckPending(u)
    BY <1>3, <2>2, Zenon DEF AckPending, Pending
  <2> QED  BY <2>2, <2>3, <2>4 DEF Armed, u
<1> QED  BY <1>1, <1>2, <1>3

LEMMA AckRewindInv ==
    ASSUME NEW s \in Socket, Armed(s), NEW f, f.nr \in Seqno
    PROVE  LET u == AckRewind(s, f)
           IN  u \in Socket /\ SameLink(s, u) /\ Armed(u)
<1> DEFINE u == AckRewind(s, f)
<1>1. CASE u = s
  BY <1>1 DEF SameLink
<1>2. CASE u = [s EXCEPT !.vs = f.nr, !.retries = NRetry]
  <2>1. NRetry \in 0 .. NRetry
    BY SockAssumption
  <2> HIDE DEF u
  <2>2. u \in Socket /\ u.slots = s.slots /\ u.mode = s.mode /\ u.t1 = s.t1
    BY <1>2, <2>1 DEF Socket
  <2>3. SameLink(s, u)
    BY <1>2, <2>2 DEF SameLink, Socket
  <2>4. AckPending(u) => AckPending(s)
    BY <2>2, Zenon DEF AckPending, Pending
  <2> QED  BY <2>2, <2>3, <2>4 DEF Armed, u
<1> QED  BY <1>1, <1>2 DEF AckRewind

\* frame_ack(): T3 runs, nothing is left to acknowledge, every frame is still
\* in its slot, and T1 runs if one of them is pending.
LEMMA FrameAckInv ==
    ASSUME NEW s \in Socket, Armed(s), NEW f, f.nr \in Seqno,
           NEW u \in FrameAck(s, f)
    PROVE  /\ u \in Socket /\ Armed(u)
           /\ u.t3 /\ u.rxp = 0
           /\ u.state = s.state /\ u.mode = s.mode /\ u.ring = s.ring
           /\ u.t2 = s.t2 /\ u.vr = s.vr
           /\ \A i \in Seqno : u.slots[i].data = s.slots[i].data
<1> DEFINE z == [s EXCEPT !.rxp = 0, !.t3 = TRUE]
<1>1. PICK junk \in Junk(s) :
        \E a \in {SockAck(z, f.nr, junk)} :
          \E v \in {AckTimer(a, AckReported(s, f.nr, junk),
                             junk \ SlotsOf(s, AckRange(s, f.nr, junk)))} :
             u = AckRewind(v, f)
  BY Zenon DEF FrameAck
<1> DEFINE a == SockAck(z, f.nr, junk)
           v == AckTimer(a, AckReported(s, f.nr, junk),
                         junk \ SlotsOf(s, AckRange(s, f.nr, junk)))
<1>2. u = AckRewind(v, f)
  BY <1>1, Zenon
<1>3. /\ z \in Socket /\ z.rxp = 0 /\ z.t3 = TRUE /\ z.slots = s.slots
      /\ z.t1 = s.t1 /\ z.t2 = s.t2 /\ z.state = s.state /\ z.mode = s.mode
      /\ z.ring = s.ring /\ z.vr = s.vr
  BY DEF Socket
<1>4. Armed(z)
  BY <1>3, Zenon DEF Armed, AckPending, Pending
<1> HIDE DEF z
<1>5. a \in Socket /\ SameLink(z, a) /\ Armed(a)
  BY <1>3, <1>4, SockAckInv DEF Armed
<1> HIDE DEF a
<1>6. v \in Socket /\ SameLink(a, v) /\ Armed(v)
  BY <1>5, AckTimerInv
<1> HIDE DEF v
<1>7. u \in Socket /\ SameLink(v, u) /\ Armed(u)
  BY <1>2, <1>6, AckRewindInv
<1>8. \A i \in Seqno : u.slots[i].data = s.slots[i].data
  BY <1>3, <1>5, <1>6, <1>7, ZenonT(30) DEF SameLink
<1> QED  BY <1>3, <1>5, <1>6, <1>7, <1>8, Zenon DEF SameLink

---------------------------------------------------------------------------
(***************************************************************************)
(* Frames.                                                                  *)
(***************************************************************************)
LEMMA UFrameType == \A t \in UType : UFrame(t) \in Frame
<1>1. 0 \in Seqno /\ NoData \in 0 .. Garbled
  BY SockAssumption DEF Seqno, NoData, Garbled
<1> QED  BY <1>1 DEF UFrame, Frame

LEMMA IFrameType ==
    ASSUME NEW s \in Socket, NEW seq \in Int, NEW d \in 0 .. Garbled
    PROVE  IFrame(s, seq, d) \in Frame
<1>1. s.vr \in Int
  BY SockAssumption DEF Socket, Seqno
<1>2. seq % TxSlots(s.mode) \in Seqno /\ s.vr % TxSlots(s.mode) \in Seqno
  BY <1>1, SlotRange
<1>3. (FlowLeft(s) = 1) \in BOOLEAN /\ (s.mode = "SABME") \in BOOLEAN
  OBVIOUS
<1> QED  BY <1>2, <1>3 DEF IFrame, Frame

LEMMA SFrameType ==
    ASSUME NEW s \in Socket, NEW t \in SType, NEW cr \in {"C", "R"}, NEW pf \in BOOLEAN
    PROVE  SFrame(s, t, cr, pf) \in Frame
<1>1. s.vr \in Int
  BY SockAssumption DEF Socket, Seqno
<1>2. s.vr % TxSlots(s.mode) \in Seqno /\ 0 \in Seqno /\ NoData \in 0 .. Garbled
  BY <1>1, SlotRange, SockAssumption DEF Seqno, NoData, Garbled
<1>3. (s.mode = "SABME") \in BOOLEAN
  OBVIOUS
<1>4. CASE s.mode = "DM"
  BY <1>2, <1>4 DEF SFrame, Frame
<1>5. CASE s.mode # "DM"
  BY <1>2, <1>3, <1>5 DEF SFrame, Frame
<1> QED  BY <1>4, <1>5

LEMMA SabmFrameType == \A s : SabmFrame(s) \in Frame
BY UFrameType DEF SabmFrame, UType

\* The data of a slot may go into a frame.
LEMMA SlotData ==
    ASSUME NEW s \in Socket, NEW i \in Seqno
    PROVE  s.slots[i].data \in 0 .. Garbled
<1>1. s.slots[i] \in Slot
  BY DEF Socket
<1> QED  BY <1>1, SockAssumption DEF Slot, Item, NoData, Garbled

LEMMA ResendType ==
    ASSUME NEW s \in Socket, NEW seq \in Int
    PROVE  Resend(s, seq) \in Seq(Frame)
<1> DEFINE d == s.slots[seq % TxSlots(s.mode)].data
<1>1. d \in 0 .. Garbled
  BY SlotRange, SlotData
<1> HIDE DEF d
<1>2. IFrame(s, seq, d) \in Frame
  BY <1>1, IFrameType
<1> QED  BY <1>2 DEF Resend, d

\* Whatever a receiver decodes is a frame again.
LEMMA DecodeType ==
    ASSUME NEW f \in Frame, NEW mode, NEW g \in DecodeControl(f, mode)
    PROVE  g \in Frame
<1>1. /\ Half \in Nat /\ Half > 0 /\ Half <= ModExt
      /\ Mod \in Nat /\ Mod > 0 /\ Mod <= ModExt
  BY SockAssumption DEF Half
<1>2. \A x \in Int : x % Half \in Seqno /\ x % Mod \in Seqno
  <2> SUFFICES ASSUME NEW x \in Int PROVE x % Half \in Seqno /\ x % Mod \in Seqno
    OBVIOUS
  <2>1. x % Half \in 0 .. (Half - 1) /\ x % Mod \in 0 .. (Mod - 1)
    BY <1>1, ModRange
  <2> QED  BY <1>1, <2>1, SockAssumption DEF Seqno
<1>3. Cut(f) \in 0 .. Garbled
  BY SockAssumption DEF Cut, NoData, Garbled
<1>4. f.ns \in Int /\ f.nr \in Int
  BY SockAssumption DEF Frame, Seqno
<1>5. ReadExtended(f) \in Frame
  <2>1. f.ns % Half \in Seqno /\ f.nr % Half \in Seqno
    BY <1>2, <1>4
  <2> QED  BY <2>1 DEF ReadExtended, Frame
<1>6. ReadFirst(f) \in Frame
  <2>1. f.ns \div (2 * Mod) \in Int
    BY <1>1, <1>4
  <2>2. f.ns % Mod \in Seqno /\ (f.ns \div (2 * Mod)) % Mod \in Seqno
    BY <1>2, <1>4, <2>1
  <2>3. ((f.ns \div Mod) % 2 = 1) \in BOOLEAN
    OBVIOUS
  <2> QED  BY <1>3, <2>2, <2>3 DEF ReadFirst, Frame
<1>7. ASSUME NEW r \in 0 .. (Half - 1), NEW b \in BOOLEAN
      PROVE  ReadBeyond(f, r, b) \in Frame
  <2> DEFINE n == f.ns + (IF f.pf THEN Mod ELSE 0) + 2 * Mod * (f.nr % 4)
  <2>1. n \in Int
    <3>1. f.nr % 4 \in Int
      BY <1>4
    <3>2. 2 * Mod * (f.nr % 4) \in Int
      BY <1>1, <3>1
    <3> QED  BY <1>1, <1>4, <3>2
  <2>2. r \in Seqno
    BY <1>1, SockAssumption DEF Seqno
  <2>3. ReadBeyond(f, r, b) = [f EXCEPT !.ns = n % Half, !.nr = r, !.pf = b, !.data = Cut(f)]
    BY DEF ReadBeyond
  <2> HIDE DEF n
  <2>4. n % Half \in Seqno
    BY <1>2, <2>1
  <2> QED  BY <1>3, <2>2, <2>3, <2>4 DEF Frame
<1>8. \/ g = f \/ g = ReadExtended(f) \/ g = ReadFirst(f)
      \/ \E r \in 0 .. (Half - 1), b \in BOOLEAN : g = ReadBeyond(f, r, b)
  BY DEF DecodeControl
<1> QED  BY <1>5, <1>6, <1>7, <1>8

=============================================================================
