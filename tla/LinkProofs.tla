---------------------------- MODULE LinkProofs ----------------------------
(***************************************************************************)
(* The safety of a link, for every modulus, window, number of retries,      *)
(* channel and pair of stations, the ones that send arbitrary frames        *)
(* included.                                                                *)
(*                                                                          *)
(* The inductive invariant IInv is the invariant of a socket (SockInv), for *)
(* each station, with the types of the other variables.  An action is shown *)
(* to leave one socket that satisfies SockInv and keeps the frames that are *)
(* waiting for an acknowledgement (SockStep), and the other variables in    *)
(* their types (RestOK).                                                    *)
(*                                                                          *)
(* Two further invariants rest on IInv: Transfer, for a link that carries   *)
(* items one way, from which NoGap, AckedDelivered and the refinement of    *)
(* Pipe follow; and ModeInv, for the set-up of links in the timing of       *)
(* TimelySpec, from which ModesAgree follows.                               *)
(***************************************************************************)
EXTENDS Link, SockProofs

Answers == {"none", "waiting", "ok", "refused", "timeout", "extra"}

RestOK ==
    /\ watch \in [Stations -> BOOLEAN]
    /\ net \in [Stations -> Seq(Frame)]
    /\ sent \in [Stations -> 0 .. MaxItem]
    /\ got \in [Stations -> SUBSET (1 .. Garbled)]
    /\ hup \in [Stations -> BOOLEAN]
    /\ answer \in [Stations -> Answers]
    /\ up \in [Stations -> BOOLEAN]

IInv ==
    /\ sock \in [Stations -> Socket]
    /\ RestOK
    /\ \A n \in Stations : SockInv(sock[n])

\* What a step does to the socket of the station that takes it.
SockStep(n) ==
    \/ sock' = sock
    \/ \E s \in Socket : /\ SockInv(s)
                         /\ Kept(sock[n], s)
                         /\ sock' = [sock EXCEPT ![n] = s]

---------------------------------------------------------------------------
LEMMA PeerType == \A n \in Stations : Peer(n) \in Stations /\ Peer(n) # n
BY DEF Peer, Stations

LEMMA PutType ==
    ASSUME NEW ch \in Seq(Frame), NEW fs \in Seq(Frame)
    PROVE  Put(ch, fs) \in Seq(Frame)
BY DEF Put

LEMMA TransmitType ==
    ASSUME RestOK, NEW n \in Stations, NEW fs \in Seq(Frame), Transmit(n, fs)
    PROVE  net' \in [Stations -> Seq(Frame)]
<1>1. Put(net[Peer(n)], fs) \in Seq(Frame) /\ net[Peer(n)] \in Seq(Frame)
  BY PeerType, PutType DEF RestOK
<1> QED  BY <1>1, PeerType DEF RestOK, Transmit

LEMMA ReplyType ==
    ASSUME RestOK, NEW n \in Stations, net[n] # <<>>, NEW fs \in Seq(Frame), Reply(n, fs)
    PROVE  net' \in [Stations -> Seq(Frame)]
<1>1. Put(net[Peer(n)], fs) \in Seq(Frame) /\ net[Peer(n)] \in Seq(Frame)
  BY PeerType, PutType DEF RestOK
<1>2. Tail(net[n]) \in Seq(Frame)
  BY DEF RestOK
<1>3. net' = [[net EXCEPT ![n] = Tail(net[n])]
                 EXCEPT ![Peer(n)] = IF up[Peer(n)] THEN Put(net[Peer(n)], fs)
                                                    ELSE net[Peer(n)]]
  BY PeerType DEF Reply, RestOK
<1> QED  BY <1>1, <1>2, <1>3, PeerType DEF RestOK

\* A socket that replaces another by an operation that empties the ring, or
\* leaves the frames in their slots.
LEMMA KeptEmpty ==
    ASSUME NEW s, NEW u, u.slots = EmptySlots PROVE Kept(s, u)
BY DEF Kept

LEMMA KeptData ==
    ASSUME NEW s, NEW u, \A i \in Seqno : u.slots[i].data = s.slots[i].data
    PROVE  Kept(s, u)
BY DEF Kept

LEMMA BecomeStep ==
    ASSUME NEW n \in Stations, NEW s \in Socket, SockInv(s), Kept(sock[n], s), Become(n, s)
    PROVE  SockStep(n)
BY DEF SockStep, Become

\* sock_close() leaves a fresh socket.
LEMMA CloseStep ==
    ASSUME RestOK, NEW n \in Stations, SockClose(n)
    PROVE  /\ SockStep(n)
           /\ watch' \in [Stations -> BOOLEAN]
           /\ hup' \in [Stations -> BOOLEAN]
<1>1. NewSock \in Socket /\ SockInv(NewSock)
  BY NewSockInv DEF SockInv
<1>2. Kept(sock[n], NewSock)
  BY KeptEmpty DEF NewSock
<1>3. SockStep(n)
  BY <1>1, <1>2, BecomeStep DEF SockClose
<1> QED  BY <1>3 DEF SockClose, FdClear, RestOK

LEMMA StopStep ==
    ASSUME RestOK, NEW n \in Stations, DaemonStops(n), UNCHANGED <<sent, got, answer>>
    PROVE  SockStep(n) /\ RestOK'
<1>1. /\ SockStep(n) /\ watch' \in [Stations -> BOOLEAN] /\ hup' \in [Stations -> BOOLEAN]
  BY CloseStep DEF DaemonStops
<1>2. net' \in [Stations -> Seq(Frame)] /\ up' \in [Stations -> BOOLEAN]
  <2>1. <<>> \in Seq(Frame)
    OBVIOUS
  <2> QED  BY <2>1 DEF DaemonStops, RestOK
<1> QED  BY <1>1, <1>2 DEF RestOK

LEMMA RespondType ==
    ASSUME RestOK, NEW n \in Stations, NEW a \in Answers, RespondConnect(n, a)
    PROVE  answer' \in [Stations -> Answers]
BY DEF RespondConnect, RestOK, Answers

LEMMA OneFrame == \A f \in Frame : <<f>> \in Seq(Frame)
OBVIOUS

LEMMA IfType == \A c \in BOOLEAN, f \in Frame : If(c, f) \in Seq(Frame)
BY DEF If

---------------------------------------------------------------------------
(***************************************************************************)
(* The frame handlers.  f is a frame that was decoded from the head of the  *)
(* channel.                                                                 *)
(***************************************************************************)
\* The answers that change nothing but the channel.
LEMMA PlainStep ==
    ASSUME IInv, NEW n \in Stations, net[n] # <<>>, NEW fs \in Seq(Frame), Reply(n, fs),
           UNCHANGED <<sock, watch, sent, got, hup, answer, up>>
    PROVE  SockStep(n) /\ RestOK'
<1>1. net' \in [Stations -> Seq(Frame)]
  BY ReplyType DEF IInv
<1> QED  BY <1>1 DEF IInv, RestOK, SockStep

LEMMA ReplyDmStep ==
    ASSUME IInv, NEW n \in Stations, net[n] # <<>>, ReplyDm(n) \/ Ignore(n)
    PROVE  SockStep(n) /\ RestOK'
<1>1. <<UFrame("DM")>> \in Seq(Frame) /\ <<>> \in Seq(Frame)
  BY UFrameType DEF UType
<1> QED  BY <1>1, PlainStep DEF ReplyDm, Ignore

\* The socket after frame_ack(), and after what handle_i() does to it then.
LEMMA AckedInv ==
    ASSUME IInv, NEW n \in Stations, NEW f \in Frame, NEW s \in FrameAck(sock[n], f)
    PROVE  /\ s \in Socket /\ SockInv(s) /\ Kept(sock[n], s)
           /\ s.t3 /\ s.mode = sock[n].mode /\ s.ring = sock[n].ring
<1>1. sock[n] \in Socket /\ Armed(sock[n]) /\ Sized(sock[n]) /\ f.nr \in Seqno
  BY DEF IInv, SockInv, Frame
<1>2. /\ s \in Socket /\ Armed(s)
      /\ s.t3 /\ s.rxp = 0
      /\ s.state = sock[n].state /\ s.mode = sock[n].mode /\ s.ring = sock[n].ring
      /\ \A i \in Seqno : s.slots[i].data = sock[n].slots[i].data
  BY <1>1, FrameAckInv
<1>3. Supervised(s) /\ Scheduled(s) /\ Sized(s)
  BY <1>1, <1>2 DEF Supervised, Scheduled, Sized, Overrun
<1>4. Kept(sock[n], s)
  BY <1>2, KeptData
<1> QED  BY <1>2, <1>3, <1>4 DEF SockInv

LEMMA AcceptedInv ==
    ASSUME NEW s \in Socket, SockInv(s), s.t3, NEW f
    PROVE  LET u == Accepted(s, f)
           IN  u \in Socket /\ SockInv(u) /\ u.slots = s.slots
<1> DEFINE u == Accepted(s, f)
           r == IF f.ns = s.vr THEN VrIncr(s) ELSE s
<1>1. /\ r \in Socket /\ r.slots = s.slots /\ r.mode = s.mode /\ r.state = s.state
      /\ r.ring = s.ring /\ r.t1 = s.t1 /\ r.t3 = s.t3
  <2>1. s.vr \in Int /\ s.vr + 1 \in Int
    BY SockAssumption DEF Socket, Seqno
  <2>2. (s.vr + 1) % Mod \in Seqno /\ (s.vr + 1) % ModExt \in Seqno
    <3>1. (s.vr + 1) % Mod \in 0 .. (Mod - 1) /\ (s.vr + 1) % ModExt \in 0 .. (ModExt - 1)
      BY <2>1, ModRange, SockAssumption
    <3> QED  BY <3>1, SockAssumption DEF Seqno
  <2>3. (s.vr + 1) % (IF s.mode = "SABM" THEN Mod ELSE ModExt) \in Seqno
    BY <2>2
  <2>4. CASE f.ns = s.vr
    BY <2>3, <2>4 DEF VrIncr, Socket
  <2>5. CASE f.ns # s.vr
    BY <2>5
  <2> QED  BY <2>4, <2>5
<1>2. \/ u = [r EXCEPT !.rxp = 0, !.t2 = FALSE]
      \/ u = [r EXCEPT !.rxp = r.rxp + 1, !.t2 = TRUE, !.t3 = TRUE]
  BY DEF Accepted
<1> HIDE DEF u, r
<1>3. /\ u \in Socket /\ u.slots = s.slots /\ u.mode = s.mode /\ u.state = s.state
      /\ u.ring = s.ring /\ u.t1 = s.t1 /\ u.t3 \in {s.t3, TRUE}
      /\ u.rxp = 0 \/ u.t2 = TRUE
  <2>1. CASE u = [r EXCEPT !.rxp = 0, !.t2 = FALSE]
    BY <1>1, <2>1 DEF Socket
  <2>2. CASE u = [r EXCEPT !.rxp = r.rxp + 1, !.t2 = TRUE, !.t3 = TRUE]
    <3>1. r.rxp + 1 \in Nat
      BY <1>1 DEF Socket
    <3> QED  BY <1>1, <2>2, <3>1 DEF Socket
  <2> QED  BY <1>2, <2>1, <2>2
<1>4. AckPending(u) => AckPending(s)
  BY <1>3, Zenon DEF AckPending, Pending
<1>5. Armed(u) /\ Sized(u)
  BY <1>3, <1>4, Zenon DEF SockInv, Armed, Sized, Overrun
<1>6. Supervised(u)
  BY <1>3, Zenon DEF Supervised
<1>7. Scheduled(u)
  BY <1>3 DEF Scheduled
<1> QED  BY <1>3, <1>5, <1>6, <1>7 DEF SockInv, u

LEMMA HandleIStep ==
    ASSUME IInv, NEW n \in Stations, net[n] # <<>>, NEW f \in Frame, HandleI(n, f)
    PROVE  SockStep(n) /\ RestOK'
<1> USE DEF IInv
<1>1. CASE HandleINoLink(n, f)
  <2>1. If(f.pf, UFrame("DM")) \in Seq(Frame)
    BY UFrameType, IfType DEF UType, Frame
  <2> QED  BY <1>1, <2>1, PlainStep DEF HandleINoLink
<1>2. CASE HandleIGap(n, f)
  <2>1. PICK s \in FrameAck(sock[n], f) :
           /\ Become(n, s)
           /\ Reply(n, <<SFrame(s, IF f.ns = s.vr + 1 THEN "SREJ" ELSE "REJ", "R", TRUE)>>)
    BY <1>2, Zenon DEF HandleIGap
  <2>2. s \in Socket /\ SockInv(s) /\ Kept(sock[n], s)
    BY AckedInv
  <2>3. <<SFrame(s, IF f.ns = s.vr + 1 THEN "SREJ" ELSE "REJ", "R", TRUE)>> \in Seq(Frame)
    <3>1. (IF f.ns = s.vr + 1 THEN "SREJ" ELSE "REJ") \in SType
      BY DEF SType
    <3>2. SFrame(s, IF f.ns = s.vr + 1 THEN "SREJ" ELSE "REJ", "R", TRUE) \in Frame
      BY <2>2, <3>1, SFrameType
    <3> QED  BY <3>2, OneFrame, Zenon
  <2>4. net' \in [Stations -> Seq(Frame)]
    BY <2>1, <2>3, ReplyType
  <2>5. SockStep(n)
    BY <2>1, <2>2, BecomeStep
  <2> QED  BY <1>2, <2>4, <2>5 DEF HandleIGap, RestOK
<1>3. CASE HandleIDeliver(n, f)
  <2>1. PICK s \in FrameAck(sock[n], f) :
           /\ Become(n, Accepted(s, f))
           /\ Reply(n, If(f.pf, SFrame(Accepted(s, f), "RR", "R", TRUE)))
    BY <1>3, Zenon DEF HandleIDeliver
  <2>2. s \in Socket /\ SockInv(s) /\ Kept(sock[n], s) /\ s.t3
    BY AckedInv
  <2> DEFINE u == Accepted(s, f)
  <2>3. u \in Socket /\ SockInv(u) /\ u.slots = s.slots
    BY <2>2, AcceptedInv
  <2> HIDE DEF u
  <2>4. Kept(sock[n], u)
    BY <2>2, <2>3, Zenon DEF Kept
  <2>5. If(f.pf, SFrame(u, "RR", "R", TRUE)) \in Seq(Frame)
    BY <2>3, SFrameType, IfType DEF SType, Frame
  <2>6. net' \in [Stations -> Seq(Frame)]
    BY <2>1, <2>5, ReplyType DEF u
  <2>7. SockStep(n)
    BY <2>1, <2>3, <2>4, BecomeStep DEF u
  <2>8. got' \in [Stations -> SUBSET (1 .. Garbled)]
    <3>1. f.data \in 1 .. Garbled
      BY <1>3, SockAssumption DEF HandleIDeliver, Frame, NoData, Garbled
    <3>2. got[n] \cup {f.data} \in SUBSET (1 .. Garbled)
      BY <3>1 DEF RestOK
    <3> QED  BY <1>3, <3>2 DEF HandleIDeliver, RestOK
  <2> QED  BY <1>3, <2>6, <2>7, <2>8 DEF HandleIDeliver, RestOK
<1>4. CASE HandleIShort(n, f)
  BY <1>4, StopStep DEF HandleIShort
<1> QED  BY <1>1, <1>2, <1>3, <1>4 DEF HandleI

\* RR, RNR and REJ.
LEMMA SuperviseStep ==
    ASSUME IInv, NEW n \in Stations, net[n] # <<>>, NEW f \in Frame, NEW w \in BOOLEAN,
           Supervise(n, f, w)
    PROVE  SockStep(n) /\ RestOK'
<1> USE DEF IInv
<1>1. PICK s \in FrameAck(sock[n], f) :
         /\ Become(n, s)
         /\ Reply(n, If(f.cr = "C" /\ f.pf, SFrame(s, "RR", "R", TRUE)))
  BY Zenon DEF Supervise
<1>2. s \in Socket /\ SockInv(s) /\ Kept(sock[n], s)
  BY AckedInv
<1>3. If(f.cr = "C" /\ f.pf, SFrame(s, "RR", "R", TRUE)) \in Seq(Frame)
  <2>1. (f.cr = "C" /\ f.pf) \in BOOLEAN /\ SFrame(s, "RR", "R", TRUE) \in Frame
    BY <1>2, SFrameType DEF SType
  <2> QED  BY <2>1, IfType
<1>4. net' \in [Stations -> Seq(Frame)]
  BY <1>1, <1>3, ReplyType
<1>5. SockStep(n)
  BY <1>1, <1>2, BecomeStep
<1>6. watch' \in [Stations -> BOOLEAN]
  BY DEF Supervise, RestOK
<1> QED  BY <1>4, <1>5, <1>6 DEF Supervise, RestOK

LEMMA HandleSrejStep ==
    ASSUME IInv, NEW n \in Stations, net[n] # <<>>, NEW f \in Frame, HandleSrej(n, f)
    PROVE  SockStep(n) /\ RestOK'
<1> USE DEF IInv
<1>1. PICK s \in FrameAck(sock[n], f) :
         /\ Become(n, s)
         /\ \/ Reply(n, Resend(s, f.nr))
            \/ Reply(n, <<IFrame(s, f.nr, Garbled)>>)
  BY Zenon DEF HandleSrej
<1>2. s \in Socket /\ SockInv(s) /\ Kept(sock[n], s)
  BY AckedInv
<1>3. f.nr \in Int /\ Garbled \in 0 .. Garbled
  BY SockAssumption DEF Frame, Seqno, Garbled
<1>4. Resend(s, f.nr) \in Seq(Frame)
  BY <1>2, <1>3, ResendType
<1>5. <<IFrame(s, f.nr, Garbled)>> \in Seq(Frame)
  BY <1>2, <1>3, IFrameType, OneFrame
<1>6. net' \in [Stations -> Seq(Frame)]
  BY <1>1, <1>4, <1>5, ReplyType
<1>7. SockStep(n)
  BY <1>1, <1>2, BecomeStep
<1> QED  BY <1>6, <1>7 DEF HandleSrej, RestOK

---------------------------------------------------------------------------
(***************************************************************************)
(* Setting up and releasing the link.                                       *)
(***************************************************************************)
LEMMA ParamsType ==
    ASSUME NEW s \in Socket
    PROVE  /\ ParamsUpgrade(s) \in Socket
           /\ ParamsMax(s) \in Socket
           /\ ParamsNegotiate(s) \in Socket
<1>1. WinMax \in Nat \ {0} /\ Win22 \in Nat \ {0}
  BY SockAssumption
<1>2. ParamsUpgrade(s) \in Socket
  BY <1>1 DEF ParamsUpgrade, Socket
<1>3. ParamsMax(s) \in Socket
  BY <1>1 DEF ParamsMax, Socket
<1>4. (IF s.k > WinMax THEN WinMax ELSE s.k) \in Nat \ {0}
  BY <1>1 DEF Socket
<1>5. ParamsNegotiate(s) \in Socket
  BY <1>4 DEF ParamsNegotiate, Socket
<1> QED  BY <1>2, <1>3, <1>5

LEMMA SockResetStep ==
    ASSUME IInv, NEW n \in Stations, Become(n, SockReset(sock[n]))
    PROVE  SockStep(n)
<1>1. sock[n] \in Socket /\ SockInv(sock[n])
  BY DEF IInv
<1>2. SockInv(SockReset(sock[n])) /\ SockReset(sock[n]).slots = EmptySlots
  BY <1>1, ResetInv
<1> QED  BY <1>2, KeptEmpty, BecomeStep DEF SockInv

LEMMA HandleSabmStep ==
    ASSUME IInv, NEW n \in Stations, net[n] # <<>>, NEW f \in Frame, HandleSabm(n, f)
    PROVE  SockStep(n) /\ RestOK'
<1> USE DEF IInv
<1>0. <<UFrame("UA")>> \in Seq(Frame) /\ If(f.pf, UFrame("UA")) \in Seq(Frame)
  <2>1. UFrame("UA") \in Frame /\ f.pf \in BOOLEAN
    BY UFrameType DEF UType, Frame
  <2> QED  BY <2>1, OneFrame, IfType, Zenon
<1>1. CASE HandleSabmAccept(n, f)
  <2> DEFINE s == IF f.type = "SABME" /\ ~Registered(n)
                  THEN ParamsUpgrade(sock[n]) ELSE sock[n]
             z == [s EXCEPT !.state = "ESTABLISHED", !.mode = f.type, !.t3 = TRUE]
             u == ReallocBufs(z)
  <2>1. s \in Socket /\ s.rxp = sock[n].rxp /\ s.t2 = sock[n].t2
    <3>1. sock[n] \in Socket
      OBVIOUS
    <3>2. /\ ParamsUpgrade(sock[n]) \in Socket
          /\ ParamsUpgrade(sock[n]).rxp = sock[n].rxp
          /\ ParamsUpgrade(sock[n]).t2 = sock[n].t2
      BY <3>1, ParamsType DEF ParamsUpgrade, Socket
    <3> QED  BY <3>1, <3>2
  <2> HIDE DEF s
  <2>2. f.type \in Mode
    BY DEF HandleSabm, Mode
  <2>3. z \in Socket /\ z.t3 = TRUE /\ z.rxp = s.rxp /\ z.t2 = s.t2
    BY <2>1, <2>2 DEF Socket, State
  <2> HIDE DEF z
  <2>4. Scheduled(z)
    BY <2>1, <2>3, Zenon DEF SockInv, Scheduled
  <2>5. SockInv(u) /\ u.slots = EmptySlots
    BY <2>3, <2>4, ReallocInv DEF Supervised
  <2>6. Become(n, u) /\ FdWatch(n) /\ Reply(n, <<UFrame("UA")>>)
    BY <1>1, Zenon DEF HandleSabmAccept, s, z
  <2> HIDE DEF u
  <2>7. SockStep(n)
    BY <2>5, <2>6, KeptEmpty, BecomeStep DEF SockInv
  <2>8. net' \in [Stations -> Seq(Frame)] /\ watch' \in [Stations -> BOOLEAN]
    BY <1>0, <2>6, ReplyType DEF FdWatch, RestOK
  <2> QED  BY <1>1, <2>7, <2>8 DEF HandleSabmAccept, RestOK
<1>2. CASE HandleSabmReset(n, f)
  <2>1. SockStep(n)
    BY <1>2, SockResetStep DEF HandleSabmReset
  <2>2. net' \in [Stations -> Seq(Frame)]
    BY <1>0, <1>2, ReplyType DEF HandleSabmReset
  <2> QED  BY <1>2, <2>1, <2>2 DEF HandleSabmReset, RestOK
<1>3. CASE HandleSabmRefuse(n, f)
  BY <1>3, ReplyDmStep DEF HandleSabmRefuse
<1> QED  BY <1>1, <1>2, <1>3 DEF HandleSabm

\* A socket whose T1 runs needs only the other two parts of the invariant.
LEMMA T1Inv ==
    ASSUME NEW u \in Socket, u.t1 = TRUE, Scheduled(u), Sized(u)
    PROVE  SockInv(u)
BY DEF SockInv, Armed, Supervised

\* T1 is started with all its retries, and the link stays in its state.
LEMMA RestartStep ==
    ASSUME IInv, NEW n \in Stations, NEW u,
           u = [sock[n] EXCEPT !.retries = NRetry, !.t1 = TRUE]
    PROVE  u \in Socket /\ SockInv(u) /\ Kept(sock[n], u)
<1>1. sock[n] \in Socket /\ SockInv(sock[n]) /\ NRetry \in 0 .. NRetry
  BY SockAssumption DEF IInv
<1>2. /\ u \in Socket /\ u.t1 = TRUE /\ u.rxp = sock[n].rxp /\ u.t2 = sock[n].t2
      /\ u.state = sock[n].state /\ u.mode = sock[n].mode /\ u.ring = sock[n].ring
      /\ u.slots = sock[n].slots
  BY <1>1 DEF Socket
<1>3. Scheduled(u) /\ Sized(u)
  BY <1>1, <1>2, Zenon DEF SockInv, Scheduled, Sized, Overrun
<1>4. Kept(sock[n], u)
  BY <1>2, Zenon DEF Kept
<1> QED  BY <1>2, <1>3, <1>4, T1Inv

LEMMA ReleasedStep ==
    ASSUME IInv, NEW n \in Stations, net[n] # <<>>, HandleReleased(n)
    PROVE  SockStep(n) /\ RestOK'
<1>1. /\ SockStep(n)
      /\ watch' \in [Stations -> BOOLEAN]
      /\ hup' \in [Stations -> BOOLEAN]
  BY CloseStep DEF HandleReleased, IInv
<1>2. net' \in [Stations -> Seq(Frame)]
  <2>1. <<>> \in Seq(Frame)
    OBVIOUS
  <2> QED  BY <2>1, ReplyType DEF HandleReleased, IInv
<1> QED  BY <1>1, <1>2 DEF HandleReleased, IInv, RestOK

LEMMA HandleUaStep ==
    ASSUME IInv, NEW n \in Stations, net[n] # <<>>, NEW f \in Frame, HandleUa(n, f)
    PROVE  SockStep(n) /\ RestOK'
<1> USE DEF IInv
<1>1. CASE HandleUaConnect(n)
  <2> DEFINE z == [sock[n] EXCEPT !.state = "ESTABLISHED", !.t1 = FALSE, !.t3 = TRUE]
             u == ReallocBufs(z)
  <2>1. sock[n] \in Socket /\ SockInv(sock[n])
    OBVIOUS
  <2>2. z \in Socket /\ z.t3 = TRUE /\ z.rxp = sock[n].rxp /\ z.t2 = sock[n].t2
    BY <2>1 DEF Socket, State
  <2> HIDE DEF z
  <2>3. Scheduled(z)
    BY <2>1, <2>2, Zenon DEF SockInv, Scheduled
  <2>4. SockInv(u) /\ u.slots = EmptySlots
    BY <2>2, <2>3, ReallocInv DEF Supervised
  <2>5. /\ Become(n, u) /\ FdWatch(n) /\ RespondConnect(n, "ok") /\ Reply(n, <<>>)
        /\ UNCHANGED <<sent, got, hup, up>>
    BY <1>1, Zenon DEF HandleUaConnect, z
  <2> HIDE DEF u
  <2>6. SockStep(n)
    BY <2>4, <2>5, KeptEmpty, BecomeStep DEF SockInv
  <2>7. net' \in [Stations -> Seq(Frame)] /\ watch' \in [Stations -> BOOLEAN]
    <3>1. <<>> \in Seq(Frame)
      OBVIOUS
    <3> QED  BY <3>1, <2>5, ReplyType DEF FdWatch, RestOK
  <2>8. answer' \in [Stations -> Answers]
    BY <2>5, RespondType DEF Answers
  <2> QED  BY <2>5, <2>6, <2>7, <2>8 DEF RestOK
<1>2. CASE HandleReleased(n)
  BY <1>2, ReleasedStep
<1>3. CASE ReplyDm(n) \/ Ignore(n)
  BY <1>3, ReplyDmStep
<1> QED  BY <1>1, <1>2, <1>3 DEF HandleUa

LEMMA HandleDmStep ==
    ASSUME IInv, NEW n \in Stations, net[n] # <<>>, NEW f \in Frame, HandleDm(n, f)
    PROVE  SockStep(n) /\ RestOK'
<1> USE DEF IInv
<1>1. CASE HandleDmRefused(n)
  <2>1. SockStep(n)
    BY <1>1, SockResetStep DEF HandleDmRefused
  <2>2. net' \in [Stations -> Seq(Frame)]
    <3>1. <<>> \in Seq(Frame)
      OBVIOUS
    <3> QED  BY <1>1, <3>1, ReplyType DEF HandleDmRefused
  <2>3. answer' \in [Stations -> Answers]
    BY <1>1, RespondType DEF HandleDmRefused, Answers
  <2> QED  BY <1>1, <2>1, <2>2, <2>3 DEF HandleDmRefused, RestOK
<1>2. CASE HandleReleased(n)
  BY <1>2, ReleasedStep
<1>3. CASE Ignore(n)
  BY <1>3, ReplyDmStep
<1> QED  BY <1>1, <1>2, <1>3 DEF HandleDm

LEMMA HandleDiscStep ==
    ASSUME IInv, NEW n \in Stations, net[n] # <<>>, NEW f \in Frame, HandleDisc(n, f)
    PROVE  SockStep(n) /\ RestOK'
<1> USE DEF IInv
<1>1. CASE /\ SockClose(n)
           /\ Reply(n, <<UFrame("UA")>>)
           /\ UNCHANGED <<sent, got, answer, up>>
  <2>1. SockStep(n) /\ watch' \in [Stations -> BOOLEAN] /\ hup' \in [Stations -> BOOLEAN]
    BY <1>1, CloseStep
  <2>2. net' \in [Stations -> Seq(Frame)]
    <3>1. <<UFrame("UA")>> \in Seq(Frame)
      BY UFrameType DEF UType
    <3> QED  BY <1>1, <3>1, ReplyType
  <2> QED  BY <1>1, <2>1, <2>2 DEF RestOK
<1>2. CASE ReplyDm(n) \/ Ignore(n)
  BY <1>2, ReplyDmStep
<1> QED  BY <1>1, <1>2 DEF HandleDisc

LEMMA HandleFrmrStep ==
    ASSUME IInv, NEW n \in Stations, net[n] # <<>>, NEW f \in Frame, HandleFrmr(n, f)
    PROVE  SockStep(n) /\ RestOK'
<1> USE DEF IInv
<1>1. CASE /\ Become(n, [sock[n] EXCEPT !.retries = NRetry, !.t1 = TRUE])
           /\ Reply(n, <<SabmFrame(sock[n])>>)
           /\ UNCHANGED <<watch, sent, got, hup, answer, up>>
  <2>1. SockStep(n)
    BY <1>1, RestartStep, BecomeStep
  <2>2. net' \in [Stations -> Seq(Frame)]
    <3>1. <<SabmFrame(sock[n])>> \in Seq(Frame)
      BY SabmFrameType, OneFrame
    <3> QED  BY <1>1, <3>1, ReplyType
  <2> QED  BY <1>1, <2>1, <2>2 DEF RestOK
<1>2. CASE /\ Become(n, SockReset(sock[n]))
           /\ Reply(n, <<>>)
           /\ UNCHANGED <<watch, sent, got, hup, answer, up>>
  <2>1. SockStep(n)
    BY <1>2, SockResetStep
  <2>2. net' \in [Stations -> Seq(Frame)]
    <3>1. <<>> \in Seq(Frame)
      OBVIOUS
    <3> QED  BY <1>2, <3>1, ReplyType
  <2> QED  BY <1>2, <2>1, <2>2 DEF RestOK
<1>3. CASE Ignore(n)
  BY <1>3, ReplyDmStep
<1> QED  BY <1>1, <1>2, <1>3 DEF HandleFrmr

LEMMA HandleXidStep ==
    ASSUME IInv, NEW n \in Stations, net[n] # <<>>, NEW f \in Frame, HandleXid(n, f)
    PROVE  SockStep(n) /\ RestOK'
<1> USE DEF IInv
<1>1. CASE HandleXidAnswer(n, f)
  <2> DEFINE p == ParamsNegotiate(sock[n])
             u == [p EXCEPT !.mode = IF f.ext THEN "SABME" ELSE p.mode,
                            !.t1 = TRUE, !.retries = NRetry]
  <2>1. sock[n] \in Socket /\ SockInv(sock[n]) /\ NRetry \in 0 .. NRetry
    BY SockAssumption
  <2>2. /\ p \in Socket /\ p.state = sock[n].state /\ p.rxp = sock[n].rxp
        /\ p.t2 = sock[n].t2 /\ p.slots = sock[n].slots
    BY <2>1, ParamsType DEF ParamsNegotiate, Socket
  <2> HIDE DEF p
  <2>3. (IF f.ext THEN "SABME" ELSE p.mode) \in Mode
    BY <2>2 DEF Socket, Mode
  <2>4. /\ u \in Socket /\ u.t1 = TRUE /\ u.state = sock[n].state
        /\ u.rxp = sock[n].rxp /\ u.t2 = sock[n].t2 /\ u.slots = sock[n].slots
    BY <2>1, <2>2, <2>3 DEF Socket
  <2>5. /\ sock[n].state = "PENDING_CONNECT" /\ Become(n, u) /\ Reply(n, <<SabmFrame(u)>>)
        /\ UNCHANGED <<watch, sent, got, hup, answer, up>>
    BY <1>1 DEF HandleXidAnswer, p
  <2> HIDE DEF u
  <2>6. SockInv(u)
    <3>1. Scheduled(u)
      BY <2>1, <2>4, Zenon DEF SockInv, Scheduled
    <3>2. Sized(u)
      BY <2>4, <2>5 DEF Sized
    <3> QED  BY <2>4, <3>1, <3>2, T1Inv
  <2>7. Kept(sock[n], u)
    BY <2>4, Zenon DEF Kept
  <2>8. SockStep(n)
    BY <2>4, <2>5, <2>6, <2>7, BecomeStep
  <2>9. net' \in [Stations -> Seq(Frame)]
    <3>1. <<SabmFrame(u)>> \in Seq(Frame)
      BY SabmFrameType, OneFrame
    <3> QED  BY <2>5, <3>1, ReplyType
  <2> QED  BY <2>5, <2>8, <2>9 DEF RestOK
<1>2. CASE HandleXidAccept(n, f)
  <2> DEFINE p == ParamsNegotiate(ParamsMax(NewSock))
             u == [p EXCEPT !.state = "PENDING_ACCEPT",
                            !.mode = IF f.ext THEN "SABME" ELSE p.mode,
                            !.t1 = TRUE, !.retries = NRetry]
  <2>1. NewSock \in Socket /\ NRetry \in 0 .. NRetry
    BY NewSockInv, SockAssumption DEF SockInv
  <2>2. /\ p \in Socket /\ p.rxp = 0 /\ p.slots = EmptySlots
    <3> DEFINE q == ParamsMax(NewSock)
    <3>1. q \in Socket /\ q.rxp = 0 /\ q.slots = EmptySlots
      BY <2>1, ParamsType DEF ParamsMax, NewSock
    <3> HIDE DEF q
    <3>2. ParamsNegotiate(q) \in Socket
      BY <3>1, ParamsType
    <3>3. ParamsNegotiate(q).rxp = 0 /\ ParamsNegotiate(q).slots = EmptySlots
      BY <3>1 DEF ParamsNegotiate, Socket
    <3> QED  BY <3>2, <3>3 DEF q, p
  <2> HIDE DEF p
  <2>3. (IF f.ext THEN "SABME" ELSE p.mode) \in Mode
    BY <2>2 DEF Socket, Mode
  <2>4. /\ u \in Socket /\ u.t1 = TRUE /\ u.state = "PENDING_ACCEPT"
        /\ u.rxp = 0 /\ u.slots = EmptySlots
    BY <2>1, <2>2, <2>3 DEF Socket, State
  <2>5. /\ Become(n, u) /\ Reply(n, <<[UFrame("XID") EXCEPT !.cr = "R"]>>)
        /\ UNCHANGED <<watch, sent, got, hup, answer, up>>
    BY <1>2 DEF HandleXidAccept, p
  <2> HIDE DEF u
  <2>6. SockInv(u)
    <3>1. Scheduled(u) /\ Sized(u)
      BY <2>4 DEF Scheduled, Sized
    <3> QED  BY <2>4, <3>1, T1Inv
  <2>7. SockStep(n)
    BY <2>4, <2>5, <2>6, KeptEmpty, BecomeStep
  <2>8. net' \in [Stations -> Seq(Frame)]
    <3>1. UFrame("XID") \in Frame
      BY UFrameType DEF UType
    <3>2. [UFrame("XID") EXCEPT !.cr = "R"] \in Frame
      BY <3>1 DEF Frame
    <3>3. <<[UFrame("XID") EXCEPT !.cr = "R"]>> \in Seq(Frame)
      BY <3>2, OneFrame
    <3> QED  BY <2>5, <3>3, ReplyType
  <2> QED  BY <2>5, <2>7, <2>8 DEF RestOK
<1>3. CASE ReplyDm(n)
  BY <1>3, ReplyDmStep
<1> QED  BY <1>1, <1>2, <1>3 DEF HandleXid

\* Every frame, whatever a receiver makes of it.
LEMMA HandleFrameStep ==
    ASSUME IInv, NEW n \in Stations, HandleFrame(n)
    PROVE  SockStep(n) /\ RestOK'
<1> USE DEF IInv
<1>1. net[n] # <<>> /\ Head(net[n]) \in Frame
  BY DEF HandleFrame, RestOK
<1>2. PICK f \in DecodeControl(Head(net[n]), sock[n].mode) :
         \/ HandleI(n, f) \/ HandleRr(n, f) \/ HandleRnr(n, f) \/ HandleRej(n, f)
         \/ HandleSrej(n, f) \/ HandleOverrun(n, f) \/ HandleUnknown(n, f)
         \/ HandleSabm(n, f) \/ HandleUa(n, f) \/ HandleDm(n, f) \/ HandleDisc(n, f)
         \/ HandleFrmr(n, f) \/ HandleXid(n, f)
  BY Zenon DEF HandleFrame
<1>3. f \in Frame
  BY <1>1, DecodeType
<1>4. CASE HandleRr(n, f) \/ HandleRnr(n, f) \/ HandleRej(n, f)
  <2>1. PICK w \in BOOLEAN : Supervise(n, f, w)
    BY <1>4 DEF HandleRr, HandleRnr, HandleRej
  <2> QED  BY <1>1, <1>3, <2>1, SuperviseStep
<1>5. CASE HandleOverrun(n, f)
  BY <1>5, StopStep DEF HandleOverrun
<1>6. CASE HandleUnknown(n, f)
  <2>1. <<>> \in Seq(Frame)
    OBVIOUS
  <2> QED  BY <1>1, <1>6, <2>1, PlainStep DEF HandleUnknown
<1> QED
  BY <1>1, <1>2, <1>3, <1>4, <1>5, <1>6, HandleIStep, HandleSrejStep, HandleSabmStep,
     HandleUaStep, HandleDmStep, HandleDiscStep, HandleFrmrStep, HandleXidStep

---------------------------------------------------------------------------
(***************************************************************************)
(* The timers.                                                              *)
(***************************************************************************)
\* A step that sends fs and changes the socket, and perhaps fds_watch.
LEMMA SendStep ==
    ASSUME IInv, NEW n \in Stations, NEW u \in Socket, SockInv(u), Kept(sock[n], u),
           Become(n, u), NEW fs \in Seq(Frame), Transmit(n, fs),
           watch' \in [Stations -> BOOLEAN], answer' \in [Stations -> Answers],
           UNCHANGED <<sent, got, hup, up>>
    PROVE  SockStep(n) /\ RestOK'
<1>1. net' \in [Stations -> Seq(Frame)]
  BY TransmitType DEF IInv
<1>2. SockStep(n)
  BY BecomeStep
<1> QED  BY <1>1, <1>2 DEF IInv, RestOK

LEMMA RetryFrameType ==
    ASSUME NEW s \in Socket, s.state # "CLOSED"
    PROVE  RetryFrame(s) \in Frame
<1>1. CASE s.state = "PENDING_ACCEPT"
  <2>1. UFrame("XID") \in Frame
    BY UFrameType DEF UType
  <2>2. RetryFrame(s) = [UFrame("XID") EXCEPT !.cr = "R"]
    BY <1>1 DEF RetryFrame
  <2> QED  BY <2>1, <2>2 DEF Frame
<1>2. CASE s.state = "PENDING_CONNECT"
  <2>1. RetryFrame(s) = SabmFrame(s)
    BY <1>2 DEF RetryFrame
  <2> QED  BY <2>1, SabmFrameType
<1>3. CASE s.state = "PENDING_DISCONNECT"
  <2>1. RetryFrame(s) = UFrame("DISC")
    BY <1>3 DEF RetryFrame
  <2> QED  BY <2>1, UFrameType DEF UType
<1>4. CASE s.state = "ESTABLISHED"
  <2>1. RetryFrame(s) = IF Unsent(s)
                        THEN IFrame(s, s.vs, s.slots[s.vs % TxSlots(s.mode)].data)
                        ELSE SFrame(s, "RR", "C", TRUE)
    BY <1>4 DEF RetryFrame
  <2>2. SFrame(s, "RR", "C", TRUE) \in Frame
    BY SFrameType DEF SType
  <2>3. s.vs \in Int
    BY SockAssumption DEF Socket, Seqno
  <2>4. s.slots[s.vs % TxSlots(s.mode)].data \in 0 .. Garbled
    BY <2>3, SlotRange, SlotData
  <2>5. IFrame(s, s.vs, s.slots[s.vs % TxSlots(s.mode)].data) \in Frame
    BY <2>3, <2>4, IFrameType
  <2> QED  BY <2>1, <2>2, <2>5
<1> QED  BY <1>1, <1>2, <1>3, <1>4 DEF Socket, State

\* A frame is sent again: V(S) moves on, and nothing else.
LEMMA ResendPendingInv ==
    ASSUME NEW s \in Socket
    PROVE  LET u == ResendPending(s)
           IN  /\ u \in Socket /\ u.slots = s.slots /\ u.mode = s.mode
               /\ u.state = s.state /\ u.ring = s.ring /\ u.rxp = s.rxp
               /\ u.t1 = s.t1 /\ u.t2 = s.t2 /\ u.t3 = s.t3
<1>1. s.vs + 1 \in Int
  BY SockAssumption DEF Socket, Seqno
<1>2. (s.vs + 1) % TxSlots(s.mode) \in Seqno
  BY <1>1, SlotRange
<1>3. CASE Unsent(s)
  BY <1>2, <1>3 DEF ResendPending, Socket
<1>4. CASE ~Unsent(s)
  BY <1>4 DEF ResendPending
<1> QED  BY <1>3, <1>4

LEMMA T1RetryStep ==
    ASSUME IInv, NEW n \in Stations, T1Retry(n)
    PROVE  SockStep(n) /\ RestOK'
<1> DEFINE s == sock[n]
           r == [s EXCEPT !.retries = s.retries - 1, !.t1 = TRUE]
           u == IF s.state = "ESTABLISHED" THEN ResendPending(r) ELSE r
<1>1. s \in Socket /\ SockInv(s)
  BY DEF IInv
<1>2. /\ s.state # "CLOSED" /\ s.retries > 0 /\ Become(n, u) /\ Transmit(n, <<RetryFrame(s)>>)
      /\ UNCHANGED <<watch, sent, got, hup, answer, up>>
  BY DEF T1Retry
<1>3. /\ r \in Socket /\ r.t1 = TRUE /\ r.slots = s.slots /\ r.mode = s.mode
      /\ r.state = s.state /\ r.ring = s.ring /\ r.rxp = s.rxp /\ r.t2 = s.t2
  <2>1. s.retries - 1 \in 0 .. NRetry
    BY <1>1, <1>2, SockAssumption DEF Socket
  <2> HIDE DEF s
  <2> QED  BY <1>1, <2>1 DEF Socket
<1> HIDE DEF s, r
<1>4. /\ u \in Socket /\ u.t1 = TRUE /\ u.slots = s.slots /\ u.mode = s.mode
      /\ u.state = s.state /\ u.ring = s.ring /\ u.rxp = s.rxp /\ u.t2 = s.t2
  BY <1>3, ResendPendingInv
<1> HIDE DEF u
<1>5. Scheduled(u) /\ Sized(u)
  BY <1>1, <1>4, Zenon DEF SockInv, Scheduled, Sized, Overrun
<1>6. SockInv(u)
  BY <1>4, <1>5, T1Inv
<1>7. Kept(sock[n], u)
  BY <1>4, Zenon DEF Kept, s
<1>8. <<RetryFrame(s)>> \in Seq(Frame)
  BY <1>1, <1>2, RetryFrameType, OneFrame
<1>9. watch' \in [Stations -> BOOLEAN] /\ answer' \in [Stations -> Answers]
  BY <1>2 DEF IInv, RestOK
<1> QED  BY <1>2, <1>4, <1>6, <1>7, <1>8, <1>9, SendStep

LEMMA ShutDownType == \A s \in Socket : ShutDownFrames(s) \in Seq(Frame)
<1>1. <<UFrame("DISC")>> \in Seq(Frame) /\ <<>> \in Seq(Frame)
  BY UFrameType, OneFrame DEF UType
<1> QED  BY <1>1 DEF ShutDownFrames

\* The socket is closed, with or without a DISC.
LEMMA CloseSendStep ==
    ASSUME IInv, NEW n \in Stations, SockClose(n), Transmit(n, ShutDownFrames(sock[n])),
           answer' \in [Stations -> Answers], UNCHANGED <<sent, got, up>>
    PROVE  SockStep(n) /\ RestOK'
<1>1. SockStep(n) /\ watch' \in [Stations -> BOOLEAN] /\ hup' \in [Stations -> BOOLEAN]
  BY CloseStep DEF IInv
<1>2. net' \in [Stations -> Seq(Frame)]
  BY ShutDownType, TransmitType DEF IInv
<1> QED  BY <1>1, <1>2 DEF IInv, RestOK

LEMMA T1GiveUpStep ==
    ASSUME IInv, NEW n \in Stations, T1GiveUp(n)
    PROVE  SockStep(n) /\ RestOK'
<1>1. answer' \in [Stations -> Answers]
  <2>1. CASE RespondConnect(n, "timeout")
    BY <2>1, RespondType DEF IInv, Answers
  <2>2. CASE UNCHANGED answer
    BY <2>2 DEF IInv, RestOK
  <2> QED  BY <2>1, <2>2 DEF T1GiveUp
<1> QED  BY <1>1, CloseSendStep DEF T1GiveUp

LEMMA T2ExpireStep ==
    ASSUME IInv, NEW n \in Stations, T2Expire(n)
    PROVE  SockStep(n) /\ RestOK'
<1> DEFINE s == sock[n]
           u == [s EXCEPT !.t2 = FALSE, !.rxp = 0]
<1>1. s \in Socket /\ SockInv(s)
  BY DEF IInv
<1>2. /\ Become(n, u) /\ Transmit(n, If(s.rxp > 0, SFrame(s, "RR", "R", TRUE)))
      /\ UNCHANGED <<watch, sent, got, hup, answer, up>>
  BY DEF T2Expire
<1> HIDE DEF s
<1>3. /\ u \in Socket /\ u.t1 = s.t1 /\ u.t3 = s.t3 /\ u.slots = s.slots /\ u.mode = s.mode
      /\ u.state = s.state /\ u.ring = s.ring /\ u.rxp = 0
  BY <1>1 DEF Socket
<1> HIDE DEF u
<1>4. AckPending(u) => AckPending(s)
  BY <1>3, Zenon DEF AckPending, Pending
<1>5. Armed(u) /\ Supervised(u) /\ Sized(u)
  BY <1>1, <1>3, <1>4, Zenon DEF SockInv, Armed, Supervised, Sized, Overrun
<1>6. Scheduled(u)
  BY <1>3 DEF Scheduled
<1>7. Kept(sock[n], u)
  BY <1>3, Zenon DEF Kept, s
<1>8. If(s.rxp > 0, SFrame(s, "RR", "R", TRUE)) \in Seq(Frame)
  <2>1. SFrame(s, "RR", "R", TRUE) \in Frame
    BY <1>1, SFrameType DEF SType
  <2>2. CASE s.rxp > 0
    <3>1. If(s.rxp > 0, SFrame(s, "RR", "R", TRUE)) = <<SFrame(s, "RR", "R", TRUE)>>
      BY <2>2 DEF If
    <3>2. <<SFrame(s, "RR", "R", TRUE)>> \in Seq(Frame)
      BY <2>1, OneFrame
    <3> QED  BY <3>1, <3>2, Zenon
  <2>3. CASE ~(s.rxp > 0)
    <3>1. If(s.rxp > 0, SFrame(s, "RR", "R", TRUE)) = <<>>
      BY <2>3 DEF If
    <3>2. <<>> \in Seq(Frame)
      OBVIOUS
    <3> QED  BY <3>1, <3>2, Zenon
  <2> QED  BY <2>2, <2>3
<1>9. SockInv(u)
  BY <1>3, <1>5, <1>6 DEF SockInv
<1>10. watch' \in [Stations -> BOOLEAN] /\ answer' \in [Stations -> Answers]
  BY <1>2 DEF IInv, RestOK
<1> QED  BY <1>2, <1>3, <1>7, <1>8, <1>9, <1>10, SendStep

LEMMA T3ExpireStep ==
    ASSUME IInv, NEW n \in Stations, T3Expire(n)
    PROVE  SockStep(n) /\ RestOK'
<1> DEFINE s == sock[n]
           u == [s EXCEPT !.t3 = FALSE, !.t1 = TRUE, !.retries = NRetry]
<1>1. s \in Socket /\ SockInv(s) /\ NRetry \in 0 .. NRetry
  BY SockAssumption DEF IInv
<1>2. /\ Become(n, u) /\ Transmit(n, <<SFrame(s, "RR", "C", TRUE)>>)
      /\ UNCHANGED <<watch, sent, got, hup, answer, up>>
  BY DEF T3Expire
<1> HIDE DEF s
<1>3. /\ u \in Socket /\ u.t1 = TRUE /\ u.slots = s.slots /\ u.mode = s.mode
      /\ u.state = s.state /\ u.ring = s.ring /\ u.rxp = s.rxp /\ u.t2 = s.t2
  BY <1>1 DEF Socket
<1> HIDE DEF u
<1>4. Scheduled(u) /\ Sized(u)
  BY <1>1, <1>3, Zenon DEF SockInv, Scheduled, Sized, Overrun
<1>5. SockInv(u)
  BY <1>3, <1>4, T1Inv
<1>6. Kept(sock[n], u)
  BY <1>3, Zenon DEF Kept, s
<1>7. <<SFrame(s, "RR", "C", TRUE)>> \in Seq(Frame)
  BY <1>1, SFrameType, OneFrame DEF SType
<1>8. watch' \in [Stations -> BOOLEAN] /\ answer' \in [Stations -> Answers]
  BY <1>2 DEF IInv, RestOK
<1> QED  BY <1>2, <1>3, <1>5, <1>6, <1>7, <1>8, SendStep

---------------------------------------------------------------------------
(***************************************************************************)
(* The pty.                                                                 *)
(***************************************************************************)
LEMMA FlowStopType ==
    ASSUME RestOK, NEW n \in Stations, FlowStop(n)
    PROVE  watch' \in [Stations -> BOOLEAN]
BY DEF FlowStop, RestOK

LEMMA PtyResendStep ==
    ASSUME IInv, NEW n \in Stations, PtyResend(n)
    PROVE  SockStep(n) /\ RestOK'
<1> DEFINE s == sock[n]
           r == ResendPending(s)
           u == [r EXCEPT !.t1 = TRUE]
<1>1. s \in Socket /\ SockInv(s)
  BY DEF IInv
<1>2. /\ Become(n, u) /\ Transmit(n, Resend(s, s.vs)) /\ FlowStop(n)
      /\ UNCHANGED <<sent, got, hup, answer, up>>
  BY DEF PtyResend
<1> HIDE DEF s
<1>3. /\ r \in Socket /\ r.slots = s.slots /\ r.mode = s.mode
      /\ r.state = s.state /\ r.ring = s.ring /\ r.rxp = s.rxp /\ r.t2 = s.t2
  BY <1>1, ResendPendingInv
<1> HIDE DEF r
<1>4. /\ u \in Socket /\ u.t1 = TRUE /\ u.slots = s.slots /\ u.mode = s.mode
      /\ u.state = s.state /\ u.ring = s.ring /\ u.rxp = s.rxp /\ u.t2 = s.t2
  BY <1>3 DEF Socket
<1> HIDE DEF u
<1>5. Scheduled(u) /\ Sized(u)
  BY <1>1, <1>4, Zenon DEF SockInv, Scheduled, Sized, Overrun
<1>6. SockInv(u)
  BY <1>4, <1>5, T1Inv
<1>7. Kept(sock[n], u)
  BY <1>4, Zenon DEF Kept, s
<1>8. Resend(s, s.vs) \in Seq(Frame)
  <2>1. s.vs \in Int
    BY <1>1, SockAssumption DEF Socket, Seqno
  <2> QED  BY <1>1, <2>1, ResendType
<1>9. watch' \in [Stations -> BOOLEAN] /\ answer' \in [Stations -> Answers]
  <2>1. watch' \in [Stations -> BOOLEAN]
    BY <1>2, FlowStopType DEF IInv
  <2> QED  BY <1>2, <2>1 DEF IInv, RestOK
<1> QED  BY <1>2, <1>4, <1>6, <1>7, <1>8, <1>9, SendStep

\* tx_slot_save() takes a slot that holds no pending frame.
LEMMA SaveInv ==
    ASSUME NEW s \in Socket, ~Unsent(s), NEW d \in Item
    PROVE  LET u == TxSlotSave(s, d)
           IN  /\ u \in Socket /\ Kept(s, u) /\ u.mode = s.mode /\ u.vs = s.vs
               /\ u.state = s.state /\ u.ring = s.ring /\ u.rxp = s.rxp /\ u.t2 = s.t2
<1> DEFINE i == s.vs % TxSlots(s.mode)
           slot == [data |-> d, ack |-> FALSE]
           v == [s.slots EXCEPT ![i] = slot]
           u == TxSlotSave(s, d)
<1>1. s.slots \in [Seqno -> Slot] /\ s.vs \in Int
  BY SockAssumption DEF Socket, Seqno
<1>2. i \in Seqno
  BY <1>1, SlotRange
<1>3. slot \in Slot
  BY DEF Slot
<1>4. ~Pending(s, i)
  BY DEF Unsent
<1>5. u = [s EXCEPT !.slots = v]
  BY DEF TxSlotSave
<1> HIDE DEF slot, i
<1>6. v \in [Seqno -> Slot] /\ \A j \in Seqno : j # i => v[j] = s.slots[j]
  BY <1>1, <1>2, <1>3
<1> HIDE DEF v, u
<1>7. /\ u \in Socket /\ u.mode = s.mode /\ u.vs = s.vs /\ u.slots = v
      /\ u.state = s.state /\ u.ring = s.ring /\ u.rxp = s.rxp /\ u.t2 = s.t2
  BY <1>5, <1>6 DEF Socket
<1>8. Kept(s, u)
  BY <1>4, <1>6, <1>7, Zenon DEF Kept
<1> QED  BY <1>7, <1>8 DEF u

LEMMA PtyWriteStep ==
    ASSUME IInv, NEW n \in Stations, PtyWrite(n)
    PROVE  SockStep(n) /\ RestOK'
<1> DEFINE d == sent[n] + 1
           s == TxSlotSave(sock[n], d)
           v == VsIncr(s)
           u == [v EXCEPT !.t1 = TRUE, !.t3 = FALSE]
<1>1. sock[n] \in Socket /\ SockInv(sock[n])
  BY DEF IInv
<1>2. /\ ~Unsent(sock[n]) /\ sent[n] < MaxSend[n]
      /\ Become(n, u) /\ Transmit(n, <<IFrame(s, s.vs, d)>>)
      /\ sent' = [sent EXCEPT ![n] = d] /\ FlowStop(n)
      /\ UNCHANGED <<got, hup, answer, up>>
  BY DEF PtyWrite
<1>3. d \in Item /\ d \in 0 .. MaxItem /\ d \in 0 .. Garbled
  <2>1. sent[n] \in 0 .. MaxItem /\ MaxSend[n] \in 0 .. MaxItem
    BY LinkAssumption DEF IInv, RestOK
  <2> QED  BY <1>2, <2>1, SockAssumption DEF Item, Garbled
<1> HIDE DEF d
<1>4. /\ s \in Socket /\ Kept(sock[n], s) /\ s.mode = sock[n].mode
      /\ s.state = sock[n].state /\ s.ring = sock[n].ring
      /\ s.rxp = sock[n].rxp /\ s.t2 = sock[n].t2
  BY <1>1, <1>2, <1>3, SaveInv
<1> HIDE DEF s
<1>5. s.vs \in Int /\ s.vs + 1 \in Int
  BY <1>4, SockAssumption DEF Socket, Seqno
<1>6. (s.vs + 1) % (IF s.mode = "SABM" THEN Mod ELSE ModExt) \in Seqno
  <2>1. (s.vs + 1) % Mod \in 0 .. (Mod - 1) /\ (s.vs + 1) % ModExt \in 0 .. (ModExt - 1)
    BY <1>5, ModRange, SockAssumption
  <2> QED  BY <2>1, SockAssumption DEF Seqno
<1>7. /\ v \in Socket /\ v.slots = s.slots /\ v.mode = s.mode
      /\ v.state = s.state /\ v.ring = s.ring /\ v.rxp = s.rxp /\ v.t2 = s.t2
  BY <1>4, <1>6 DEF VsIncr, Socket
<1> HIDE DEF v
<1>8. /\ u \in Socket /\ u.t1 = TRUE /\ u.slots = s.slots /\ u.mode = s.mode
      /\ u.state = s.state /\ u.ring = s.ring /\ u.rxp = s.rxp /\ u.t2 = s.t2
  BY <1>7 DEF Socket
<1> HIDE DEF u
<1>9. Scheduled(u) /\ Sized(u)
  BY <1>1, <1>4, <1>8, Zenon DEF SockInv, Scheduled, Sized, Overrun
<1>10. SockInv(u)
  BY <1>8, <1>9, T1Inv
<1>11. Kept(sock[n], u)
  BY <1>4, <1>8, Zenon DEF Kept
<1>12. SockStep(n)
  BY <1>2, <1>8, <1>10, <1>11, BecomeStep
<1>13. net' \in [Stations -> Seq(Frame)]
  <2>1. <<IFrame(s, s.vs, d)>> \in Seq(Frame)
    BY <1>3, <1>4, <1>5, IFrameType, OneFrame
  <2> QED  BY <1>2, <2>1, TransmitType DEF IInv
<1>14. watch' \in [Stations -> BOOLEAN]
  BY <1>2, FlowStopType DEF IInv
<1>15. sent' \in [Stations -> 0 .. MaxItem]
  BY <1>2, <1>3 DEF IInv, RestOK
<1> QED  BY <1>2, <1>12, <1>13, <1>14, <1>15 DEF IInv, RestOK

LEMMA PtyWriteBadModeStep ==
    ASSUME IInv, NEW n \in Stations, PtyWriteBadMode(n)
    PROVE  SockStep(n) /\ RestOK'
<1>1. SockStep(n) /\ watch' \in [Stations -> BOOLEAN] /\ hup' \in [Stations -> BOOLEAN]
  BY CloseStep DEF IInv, PtyWriteBadMode
<1>2. sent' \in [Stations -> 0 .. MaxItem]
  <2>1. sent[n] \in 0 .. MaxItem /\ MaxSend[n] \in 0 .. MaxItem /\ sent[n] < MaxSend[n]
    BY LinkAssumption DEF IInv, RestOK, PtyWriteBadMode
  <2>2. sent[n] + 1 \in 0 .. MaxItem
    BY <2>1, SockAssumption
  <2> QED  BY <2>2 DEF IInv, RestOK, PtyWriteBadMode
<1> QED  BY <1>1, <1>2 DEF IInv, RestOK, PtyWriteBadMode

\* A change of state with T1 started, as by sock_shutdown() and server_connect().
LEMMA RestartInv ==
    ASSUME IInv, NEW n \in Stations, NEW st \in State,
           st # "PENDING_CONNECT" => sock[n].state = "ESTABLISHED",
           NEW u, u = [sock[n] EXCEPT !.state = st, !.retries = NRetry, !.t1 = TRUE]
    PROVE  u \in Socket /\ SockInv(u) /\ Kept(sock[n], u)
<1>1. sock[n] \in Socket /\ SockInv(sock[n]) /\ NRetry \in 0 .. NRetry
  BY SockAssumption DEF IInv
<1>2. /\ u \in Socket /\ u.t1 = TRUE /\ u.rxp = sock[n].rxp /\ u.t2 = sock[n].t2
      /\ u.state = st /\ u.mode = sock[n].mode /\ u.ring = sock[n].ring
      /\ u.slots = sock[n].slots
  BY <1>1 DEF Socket
<1>3. Scheduled(u)
  BY <1>1, <1>2, Zenon DEF SockInv, Scheduled
<1>4. Sized(u)
  BY <1>1, <1>2 DEF SockInv, Sized, Overrun
<1>5. Kept(sock[n], u)
  BY <1>2, Zenon DEF Kept
<1> QED  BY <1>2, <1>3, <1>4, <1>5, T1Inv

LEMMA PtyEofStep ==
    ASSUME IInv, NEW n \in Stations, PtyEof(n)
    PROVE  SockStep(n) /\ RestOK'
<1> DEFINE u == ShutDown(sock[n])
<1>1. sock[n] \in Socket /\ SockInv(sock[n])
  BY DEF IInv
<1>2. /\ Become(n, u) /\ Transmit(n, ShutDownFrames(sock[n])) /\ FdClear(n)
      /\ UNCHANGED <<sent, got, hup, answer, up>>
  BY DEF PtyEof
<1>3. u \in Socket /\ SockInv(u) /\ Kept(sock[n], u)
  <2>1. CASE sock[n].state = "ESTABLISHED"
    <3>1. u = [sock[n] EXCEPT !.state = "PENDING_DISCONNECT", !.retries = NRetry, !.t1 = TRUE]
      BY <2>1 DEF ShutDown
    <3> HIDE DEF u
    <3>2. "PENDING_DISCONNECT" \in State
      BY DEF State
    <3> QED  BY <2>1, <3>1, <3>2, RestartInv
  <2>2. CASE sock[n].state # "ESTABLISHED"
    <3>1. u = sock[n]
      BY <2>2 DEF ShutDown
    <3> QED  BY <1>1, <3>1 DEF Kept
  <2> QED  BY <2>1, <2>2
<1> HIDE DEF u
<1>4. watch' \in [Stations -> BOOLEAN] /\ answer' \in [Stations -> Answers]
  BY <1>2 DEF FdClear, IInv, RestOK
<1>5. ShutDownFrames(sock[n]) \in Seq(Frame)
  BY <1>1, ShutDownType
<1> QED  BY <1>2, <1>3, <1>4, <1>5, SendStep

---------------------------------------------------------------------------
(***************************************************************************)
(* The clients and the channel.                                             *)
(***************************************************************************)
LEMMA ServerConnectStep ==
    ASSUME IInv, NEW n \in Stations, ServerConnect(n)
    PROVE  SockStep(n) /\ RestOK'
<1> DEFINE u == [sock[n] EXCEPT !.state = "PENDING_CONNECT", !.retries = NRetry, !.t1 = TRUE]
<1>1. /\ Become(n, u) /\ Transmit(n, <<UFrame("XID")>>)
      /\ answer' = [answer EXCEPT ![n] = "waiting"]
      /\ UNCHANGED <<watch, sent, got, hup, up>>
  BY DEF ServerConnect
<1>2. u \in Socket /\ SockInv(u) /\ Kept(sock[n], u)
  <2>1. "PENDING_CONNECT" \in State
    BY DEF State
  <2> QED  BY <2>1, RestartInv
<1> HIDE DEF u
<1>3. <<UFrame("XID")>> \in Seq(Frame)
  BY UFrameType, OneFrame DEF UType
<1>4. watch' \in [Stations -> BOOLEAN] /\ answer' \in [Stations -> Answers]
  BY <1>1 DEF IInv, RestOK, Answers
<1> QED  BY <1>1, <1>2, <1>3, <1>4, SendStep

\* The ring made by setsockopt() has the size of the mode and holds nothing.
LEMMA SetParamsStep ==
    ASSUME IInv, NEW n \in Stations, SetParams(n)
    PROVE  SockStep(n) /\ RestOK'
<1>1. PICK w \in Windows : sock' = [sock EXCEPT ![n] = ReallocBufs([sock[n] EXCEPT !.k = w])]
  BY DEF SetParams, Become
<1> DEFINE s == [sock[n] EXCEPT !.k = w]
<1>2. w \in Nat \ {0} /\ sock[n] \in Socket /\ SockInv(sock[n])
  BY LinkAssumption DEF IInv
<1>3. s \in Socket /\ s.t1 = sock[n].t1 /\ s.t2 = sock[n].t2 /\ s.t3 = sock[n].t3
      /\ s.rxp = sock[n].rxp /\ s.state = sock[n].state
  BY <1>2 DEF Socket
<1>4. Scheduled(s) /\ Supervised(s)
  BY <1>2, <1>3 DEF SockInv, Scheduled, Supervised
<1> HIDE DEF s
<1>5. SockInv(ReallocBufs(s)) /\ ReallocBufs(s).slots = EmptySlots
  BY <1>3, <1>4, ReallocInv
<1>6. SockStep(n)
  BY <1>1, <1>5, KeptEmpty, BecomeStep DEF Become, SockInv, s
<1> QED  BY <1>6 DEF SetParams, IInv, RestOK

LEMMA ServerCloseStep ==
    ASSUME IInv, NEW n \in Stations, ServerClose(n)
    PROVE  SockStep(n) /\ RestOK'
<1>1. answer' \in [Stations -> Answers]
  BY DEF ServerClose, IInv, RestOK, Answers
<1> QED  BY <1>1, CloseSendStep DEF ServerClose

LEMMA ChannelStep ==
    ASSUME IInv, NEW n \in Stations, HangUp(n) \/ Lose(n) \/ ForeignSend(n)
    PROVE  SockStep(n) /\ RestOK'
<1>1. CASE HangUp(n)
  BY <1>1 DEF HangUp, SockStep, IInv, RestOK
<1>2. CASE Lose(n)
  <2>1. Tail(net[n]) \in Seq(Frame)
    BY <1>2 DEF Lose, IInv, RestOK
  <2> QED  BY <1>2, <2>1 DEF Lose, SockStep, IInv, RestOK
<1>3. CASE ForeignSend(n)
  <2>1. PICK f \in Foreign : net' = [net EXCEPT ![n] = Put(net[n], <<f>>)]
    BY <1>3 DEF ForeignSend
  <2>2. f \in Frame
    BY LinkAssumption
  <2>3. <<f>> \in Seq(Frame)
    BY <2>2, OneFrame
  <2>4. net[n] \in Seq(Frame)
    BY DEF IInv, RestOK
  <2>5. Put(net[n], <<f>>) \in Seq(Frame)
    BY <2>3, <2>4, PutType
  <2> QED  BY <1>3, <2>1, <2>5 DEF ForeignSend, SockStep, IInv, RestOK
<1> QED  BY <1>1, <1>2, <1>3

---------------------------------------------------------------------------
(***************************************************************************)
(* The inductive invariant.                                                 *)
(***************************************************************************)
\* The link that station 1 has set up and sent Base items over.
LEMMA ConnectedInv ==
    /\ CallerSock \in Socket /\ SockInv(CallerSock)
    /\ ListenerSock \in Socket /\ SockInv(ListenerSock)
<1>1. Base % ModExt \in Seqno /\ WinMax \in Nat \ {0}
  <2>1. Base % ModExt \in 0 .. (ModExt - 1)
    BY ModRange, SockAssumption, LinkAssumption
  <2> QED  BY <2>1, SockAssumption DEF Seqno
<1>2. NewSock \in Socket /\ NewSock.rxp = 0 /\ NewSock.slots = EmptySlots
  BY NewSockInv DEF SockInv, NewSock
<1>3. TxSlots("SABME") = ModExt /\ ModExt \in Nat
  BY SockAssumption DEF TxSlots
<1>4. CallerSock \in Socket /\ SockInv(CallerSock)
  <2> DEFINE sl == [i \in Seqno |-> IF i < Base THEN [data |-> i + 1, ack |-> TRUE]
                                               ELSE EmptySlots[i]]
             u == CallerSock
  <2>1. \A i \in Seqno : sl[i] \in Slot /\ (sl[i].data # NoData => sl[i].ack)
    <3> SUFFICES ASSUME NEW i \in Seqno
                 PROVE  sl[i] \in Slot /\ (sl[i].data # NoData => sl[i].ack)
      OBVIOUS
    <3>1. CASE i < Base
      <4>1. i + 1 \in Item
        BY <3>1, SockAssumption, LinkAssumption DEF Seqno, Item
      <4>2. sl[i] = [data |-> i + 1, ack |-> TRUE]
        BY <3>1
      <4> HIDE DEF sl
      <4> QED  BY <4>1, <4>2 DEF Slot
    <3>2. CASE ~(i < Base)
      <4>1. sl[i] = EmptySlots[i]
        BY <3>2
      <4>2. EmptySlots[i] \in Slot /\ EmptySlots[i].data = NoData
        BY EmptySlotsType
      <4> HIDE DEF sl
      <4> QED  BY <4>1, <4>2
    <3> QED  BY <3>1, <3>2
  <2>2. sl = [i \in Seqno |-> sl[i]]
    OBVIOUS
  <2>3. u = [NewSock EXCEPT !.state = "ESTABLISHED", !.mode = "SABME",
                            !.vs = Base % ModExt, !.va = Base % ModExt, !.t3 = TRUE,
                            !.slots = sl, !.ring = ModExt]
    BY DEF CallerSock
  <2> HIDE DEF sl, u
  <2>4. sl \in [Seqno -> Slot]
    BY <2>1, <2>2
  <2>5. /\ u \in Socket /\ u.slots = sl /\ u.t3 = TRUE /\ u.rxp = 0 /\ u.mode = "SABME"
        /\ u.ring = ModExt
    BY <1>1, <1>2, <2>3, <2>4 DEF Socket, State, Mode
  <2>6. ~AckPending(u)
    BY <2>1, <2>5, Zenon DEF AckPending, Pending
  <2> QED
    BY <1>3, <2>5, <2>6 DEF SockInv, Armed, Supervised, Scheduled, Sized, Overrun, u
<1>5. ListenerSock \in Socket /\ SockInv(ListenerSock)
  <2> DEFINE u == ListenerSock
  <2>1. /\ u \in Socket /\ u.slots = EmptySlots /\ u.t3 = TRUE /\ u.rxp = 0
        /\ u.mode = "SABME" /\ u.ring = ModExt
    <3>1. (Base = 0) \in BOOLEAN
      OBVIOUS
    <3> QED  BY ZenonT(60), <1>1, <1>2, <3>1 DEF ListenerSock, Socket, State, Mode
  <2> HIDE DEF u
  <2>2. ~AckPending(u)
    BY <2>1, EmptyNotPending
  <2> QED
    BY <1>3, <2>1, <2>2 DEF SockInv, Armed, Supervised, Scheduled, Sized, Overrun, u
<1> QED  BY <1>4, <1>5

LEMMA InitInv == Init => IInv
<1> SUFFICES ASSUME Init PROVE IInv
  OBVIOUS
<1>1. NewSock \in Socket /\ SockInv(NewSock)
  BY NewSockInv DEF SockInv
<1>2. sock \in [Stations -> Socket] /\ \A n \in Stations : SockInv(sock[n])
  <2>1. CASE Connected
    <3>1. sock = [n \in Stations |-> IF n = 1 THEN CallerSock ELSE ListenerSock]
      BY <2>1 DEF Init
    <3> QED  BY <3>1, ConnectedInv
  <2>2. CASE ~Connected
    <3>1. sock = [n \in Stations |-> NewSock]
      BY <2>2 DEF Init
    <3> QED  BY <1>1, <3>1
  <2> QED  BY <2>1, <2>2
<1>3. RestOK
  <2>1. /\ watch = [n \in Stations |-> Connected]
        /\ hup = [n \in Stations |-> FALSE]
        /\ up = [n \in Stations |-> n \in Patty]
    BY DEF Init
  <2>2. watch \in [Stations -> BOOLEAN] /\ hup \in [Stations -> BOOLEAN]
        /\ up \in [Stations -> BOOLEAN]
    BY <2>1, LinkAssumption
  <2>3. net \in [Stations -> Seq(Frame)]
    BY DEF Init
  <2>4. sent \in [Stations -> 0 .. MaxItem]
    <3>1. Base \in 0 .. MaxItem /\ 0 \in 0 .. MaxItem
      BY SockAssumption, LinkAssumption
    <3> QED  BY <3>1 DEF Init
  <2>5. got \in [Stations -> SUBSET (1 .. Garbled)]
    <3>1. 1 .. Base \in SUBSET (1 .. Garbled) /\ {} \in SUBSET (1 .. Garbled)
      BY SockAssumption, LinkAssumption DEF Garbled
    <3> QED  BY <3>1 DEF Init
  <2>6. answer \in [Stations -> Answers]
    BY DEF Init, Answers
  <2> QED  BY <2>2, <2>3, <2>4, <2>5, <2>6 DEF RestOK
<1> QED  BY <1>2, <1>3 DEF IInv

\* Every step is one of those above.
LEMMA NextStep ==
    ASSUME IInv, Next
    PROVE  \E n \in Stations : SockStep(n) /\ RestOK'
<1>1. PICK n \in Stations :
         HandleFrame(n) \/ Timers(n) \/ Pty(n) \/ Client(n) \/ Channel(n)
  BY DEF Next
<1>2. CASE HandleFrame(n)
  BY <1>2, HandleFrameStep
<1>3. CASE Timers(n)
  BY <1>3, T1RetryStep, T1GiveUpStep, T2ExpireStep, T3ExpireStep DEF Timers
<1>4. CASE Pty(n)
  BY <1>4, PtyResendStep, PtyWriteStep, PtyWriteBadModeStep, PtyEofStep DEF Pty
<1>5. CASE Client(n)
  BY <1>5, ServerConnectStep, SetParamsStep, ServerCloseStep, ChannelStep DEF Client
<1>6. CASE Channel(n)
  BY <1>6, ChannelStep DEF Channel
<1> QED  BY <1>1, <1>2, <1>3, <1>4, <1>5, <1>6

\* A step leaves sockets that satisfy the invariant and keep what is pending.
LEMMA StepInv ==
    ASSUME IInv, [Next]_vars
    PROVE  IInv' /\ \A n \in Stations : Kept(sock[n], sock'[n])
<1>1. CASE sock' = sock /\ RestOK'
  <2>1. \A n \in Stations : Kept(sock[n], sock'[n])
    BY <1>1 DEF Kept
  <2>2. \A n \in Stations : SockInv(sock'[n])
    BY <1>1 DEF IInv
  <2> QED  BY <1>1, <2>1, <2>2 DEF IInv
<1>2. ASSUME NEW n \in Stations, NEW s \in Socket, SockInv(s), Kept(sock[n], s),
             sock' = [sock EXCEPT ![n] = s], RestOK'
      PROVE  IInv' /\ \A m \in Stations : Kept(sock[m], sock'[m])
  <2>1. sock \in [Stations -> Socket] /\ \A m \in Stations : SockInv(sock[m])
    BY DEF IInv
  <2>2. sock'[n] = s /\ \A m \in Stations : m # n => sock'[m] = sock[m]
    BY <1>2, <2>1
  <2>3. sock' \in [Stations -> Socket]
    BY <1>2, <2>1
  <2>4. \A m \in Stations : SockInv(sock'[m])
    BY <1>2, <2>1, <2>2, Zenon
  <2>5. \A m \in Stations : Kept(sock[m], sock'[m])
    <3> SUFFICES ASSUME NEW m \in Stations, m # n PROVE Kept(sock[m], sock'[m])
      BY <1>2, <2>2
    <3> QED  BY <2>2 DEF Kept
  <2> QED  BY <1>2, <2>3, <2>4, <2>5 DEF IInv
<1>3. CASE Next
  <2>1. PICK n \in Stations : SockStep(n) /\ RestOK'
    BY <1>3, NextStep
  <2> QED  BY <1>1, <1>2, <2>1 DEF SockStep
<1>4. CASE UNCHANGED vars
  <2>1. sock' = sock /\ RestOK'
    BY <1>4 DEF vars, IInv, RestOK
  <2> QED  BY <1>1, <2>1
<1> QED  BY <1>3, <1>4

---------------------------------------------------------------------------
(***************************************************************************)
(* The theorems.                                                            *)
(***************************************************************************)
LEMMA Invariance == Spec => []IInv
<1>1. Init => IInv
  BY InitInv
<1>2. IInv /\ [Next]_vars => IInv'
  BY StepInv
<1> QED  BY <1>1, <1>2, PTL DEF Spec

\* The variables of both stations keep their types.
THEOREM LinkTypeCorrect == Spec => []TypeOK
<1>1. IInv => TypeOK
  BY DEF IInv, RestOK, Answers, TypeOK
<1> QED  BY <1>1, Invariance, PTL

\* T1 runs on every socket with an unacknowledged frame, whatever the peer
\* sends and in whatever order handlers, expiries and client calls happen.
THEOREM AlwaysArmed == Spec => []RetransmissionArmed
<1>1. IInv => RetransmissionArmed
  BY DEF IInv, SockInv, Armed, RetransmissionArmed
<1> QED  BY <1>1, Invariance, PTL

\* No handler and no expiry leaves an established link without T1 and T3.
THEOREM AlwaysSupervised == Spec => []LinkSupervised
<1>1. IInv => LinkSupervised
  BY DEF IInv, SockInv, Supervised, LinkSupervised
<1> QED  BY <1>1, Invariance, PTL

\* T2 runs as long as handle_i() has counted a frame that no RR has answered.
THEOREM AlwaysScheduled == Spec => []AckScheduled
<1>1. IInv => AckScheduled
  BY DEF IInv, SockInv, Scheduled, AckScheduled
<1> QED  BY <1>1, Invariance, PTL

\* The ring of an established or closing link is as large as its mode needs.
THEOREM AlwaysSized == Spec => []RingSized
<1>1. IInv => RingSized
  BY DEF IInv, SockInv, Sized, RingSized
<1> QED  BY <1>1, Invariance, PTL

\* No step takes the slot of a frame that waits for its acknowledgement.
THEOREM AlwaysKept == Spec => PendingKept
<1>1. IInv /\ [Next]_vars =>
        [\A n \in Stations, i \in Seqno :
            Pending(sock[n], i) =>
               \/ sock'[n].slots[i].data = sock[n].slots[i].data
               \/ sock'[n].slots = EmptySlots]_vars
  BY StepInv, Zenon DEF Kept
<1> QED  BY <1>1, Invariance, PTL DEF Spec, PendingKept

---------------------------------------------------------------------------
(***************************************************************************)
(* A link that carries items one way: every item arrives, in order, once.   *)
(*                                                                          *)
(* The invariant (Transfer) says what each frame on the air means: an I     *)
(* frame holds the item of its number, and an answer acknowledges no more   *)
(* than was delivered and no less than the answer before it.  It relates    *)
(* the two sockets through the d items delivered so far: V(R) of the        *)
(* receiver is d, V(A) of the sender is not above d, and the slots below    *)
(* V(A) are the ones marked as acknowledged.                                *)
(***************************************************************************)
\* The link that is set up once and on which one station, a, sends fewer items
\* than half of the sequence numbers: the numbers that frame.c decodes.
OneWay(a) ==
    /\ a \in Stations
    /\ Connected /\ Patty = Stations
    /\ Callers = {} /\ Setters \subseteq {Peer(a)}
    /\ MaxSend[a] < Half /\ MaxSend[Peer(a)] = 0
    /\ Base < Half /\ (Base = 0 \/ a = 1)

\* The unnumbered frames of a link that is not set up again.
Signal == {UFrame("DM"), UFrame("UA"), UFrame("DISC")}

\* A frame on its way to the receiver when m items have been read: an I frame
\* holds the item of its number.
Forth(f, m) ==
    \/ f \in Signal
    \/ f.type = "RR" /\ f.ext /\ f.nr = 0
    \/ f.type = "I" /\ f.ext /\ f.nr = 0 /\ f.ns < m /\ f.data = f.ns + 1

\* A frame on its way back when d items have been delivered.
Returned(f, d) ==
    \/ f \in Signal
    \/ f.type \in SType /\ f.ext /\ f.pf /\ f.nr <= d

\* The channel keeps the order: N(R) never goes back.
Rising(ch) ==
    \A i, j \in 1 .. Len(ch) :
        i <= j /\ ch[i].type \in SType /\ ch[j].type \in SType => ch[i].nr <= ch[j].nr

NotBelow(ch, v) == \A i \in 1 .. Len(ch) : ch[i].type \in SType => v <= ch[i].nr

AllForth(ch, m)    == \A i \in 1 .. Len(ch) : Forth(ch[i], m)
AllReturned(ch, d) == \A i \in 1 .. Len(ch) : Returned(ch[i], d)

Live(s) == s.state \in {"ESTABLISHED", "PENDING_DISCONNECT"}

\* The sender: a slot holds the item of its number, V(A) is behind V(S), and
\* what is behind V(A) is marked.
Sending(s, m, d) ==
    /\ Live(s) /\ s.mode = "SABME" /\ s.vr = 0
    /\ s.va <= s.vs /\ s.vs <= m /\ s.va <= d
    /\ \A i \in Seqno : s.slots[i].data = (IF i < m THEN i + 1 ELSE NoData)
    /\ \A i \in Seqno : s.slots[i].ack = (i < s.va)

Receiving(s, d) ==
    /\ Live(s) /\ s.mode = "SABME"
    /\ s.vs = 0 /\ s.va = 0 /\ s.vr = d /\ s.slots = EmptySlots

SenderOK(s, m, d, ch) == s = NewSock \/ (Sending(s, m, d) /\ NotBelow(ch, s.va))
ReceiverOK(s, d)      == s = NewSock \/ Receiving(s, d)

Transfer(a, d) ==
    /\ sent[a] < Half /\ d \in 0 .. sent[a]
    /\ got[a] = {} /\ got[Peer(a)] = 1 .. d
    /\ SenderOK(sock[a], sent[a], d, net[a])
    /\ ReceiverOK(sock[Peer(a)], d)
    /\ AllForth(net[Peer(a)], sent[a])
    /\ AllReturned(net[a], d) /\ Rising(net[a])

TransferInv(a) == \E d \in Nat : Transfer(a, d)

---------------------------------------------------------------------------
LEMMA SmallNumber ==
    ASSUME NEW x \in Nat, x < Half
    PROVE  x % ModExt = x /\ x % Half = x /\ x \in Seqno /\ x + 1 \in Seqno
<1>1. Half \in Nat /\ ModExt \in Nat /\ ModExt = 2 * Half
  BY SockAssumption DEF Half
<1> QED  BY <1>1 DEF Seqno

LEMMA SockAssumed == ModExt \in Nat /\ Half \in Nat /\ 0 < Half /\ Half < ModExt /\ 0 \in Seqno
BY SockAssumption DEF Half, Seqno

---------------------------------------------------------------------------
\* What a channel keeps when a frame is taken or added.
LEMMA TailForth ==
    ASSUME NEW ch \in Seq(Frame), ch # <<>>, NEW m, AllForth(ch, m)
    PROVE  AllForth(Tail(ch), m)
BY DEF AllForth

LEMMA TailReturned ==
    ASSUME NEW ch \in Seq(Frame), ch # <<>>, NEW d, AllReturned(ch, d), Rising(ch)
    PROVE  /\ AllReturned(Tail(ch), d) /\ Rising(Tail(ch))
           /\ Head(ch).type \in SType => NotBelow(Tail(ch), Head(ch).nr)
<1>1. \A i \in 1 .. Len(Tail(ch)) : Tail(ch)[i] = ch[i + 1] /\ i + 1 \in 1 .. Len(ch)
  OBVIOUS
<1>2. Head(ch) = ch[1] /\ 1 \in 1 .. Len(ch)
  OBVIOUS
<1>3. \A i \in 1 .. Len(Tail(ch)) : i \in Int /\ 1 <= i + 1
  OBVIOUS
<1>4. AllReturned(Tail(ch), d)
  BY <1>1 DEF AllReturned
<1>5. Rising(Tail(ch))
  <2> SUFFICES ASSUME NEW i \in 1 .. Len(Tail(ch)), NEW j \in 1 .. Len(Tail(ch)), i <= j,
                      Tail(ch)[i].type \in SType, Tail(ch)[j].type \in SType
               PROVE  Tail(ch)[i].nr <= Tail(ch)[j].nr
    BY DEF Rising
  <2>1. i + 1 <= j + 1
    OBVIOUS
  <2> QED  BY <1>1, <2>1 DEF Rising
<1>6. Head(ch).type \in SType => NotBelow(Tail(ch), Head(ch).nr)
  BY <1>1, <1>2, <1>3 DEF Rising, NotBelow
<1> QED  BY <1>4, <1>5, <1>6

LEMMA TailNotBelow ==
    ASSUME NEW ch \in Seq(Frame), ch # <<>>, NEW v, NotBelow(ch, v)
    PROVE  NotBelow(Tail(ch), v)
BY DEF NotBelow

LEMMA PutForth ==
    ASSUME NEW ch \in Seq(Frame), NEW f \in Frame, NEW m, AllForth(ch, m), Forth(f, m)
    PROVE  AllForth(Put(ch, <<f>>), m)
BY DEF AllForth, Put

LEMMA PutNotBelow ==
    ASSUME NEW ch \in Seq(Frame), NEW f \in Frame, NEW v, NotBelow(ch, v),
           f.type \in SType => v <= f.nr
    PROVE  NotBelow(Put(ch, <<f>>), v)
BY DEF NotBelow, Put

LEMMA PutNone ==
    ASSUME NEW ch \in Seq(Frame)
    PROVE  Put(ch, <<>>) = ch
BY DEF Put

\* An answer carries the number of items delivered so far, which no frame
\* before it exceeds.
LEMMA PutReturned ==
    ASSUME NEW ch \in Seq(Frame), NEW f \in Frame, NEW d \in Nat,
           AllReturned(ch, d), Rising(ch), Returned(f, d), f.type \in SType => f.nr = d
    PROVE  AllReturned(Put(ch, <<f>>), d) /\ Rising(Put(ch, <<f>>))
<1> DEFINE c == ch \o <<f>>
<1>1. CASE Put(ch, <<f>>) = ch
  BY <1>1
<1>2. CASE Put(ch, <<f>>) = c
  <2>1. /\ Len(c) = Len(ch) + 1 /\ c[Len(ch) + 1] = f
        /\ \A i \in 1 .. Len(ch) : c[i] = ch[i]
    OBVIOUS
  <2> HIDE DEF c
  <2>2. \A i \in 1 .. Len(c) : i \in 1 .. Len(ch) \/ i = Len(ch) + 1
    BY <2>1
  <2>3. AllReturned(c, d)
    BY <2>1, <2>2 DEF AllReturned
  <2>4. \A i \in 1 .. Len(ch) : ch[i].type \in SType => ch[i].nr <= d
    <3>1. \A g \in Signal : g.type \notin SType
      BY DEF Signal, UFrame, SType
    <3> QED  BY <3>1 DEF AllReturned, Returned
  <2>5. Rising(c)
    <3> SUFFICES ASSUME NEW i \in 1 .. Len(c), NEW j \in 1 .. Len(c), i <= j,
                        c[i].type \in SType, c[j].type \in SType
                 PROVE  c[i].nr <= c[j].nr
      BY DEF Rising
    <3>1. CASE i \in 1 .. Len(ch) /\ j \in 1 .. Len(ch)
      BY <2>1, <3>1 DEF Rising
    <3>2. CASE i \in 1 .. Len(ch) /\ j = Len(ch) + 1
      BY <2>1, <2>4, <3>2
    <3>3. CASE i = Len(ch) + 1
      <4>1. j = i
        BY <2>1, <3>3
      <4>2. c[i].nr = d
        BY <2>1, <3>3
      <4> QED  BY <4>1, <4>2
    <3> QED  BY <2>2, <3>1, <3>2, <3>3
  <2> QED  BY <1>2, <2>3, <2>5
<1> QED  BY <1>1, <1>2 DEF Put

---------------------------------------------------------------------------
(***************************************************************************)
(* What a step of the sender, and one of the receiver, may do.              *)
(***************************************************************************)
Sends(n, fs) == (net[n] # <<>> /\ Reply(n, fs)) \/ Transmit(n, fs)

\* The socket of the sender goes on, m items before and k after.
Onward(s, m, u, k) ==
    \/ u = NewSock /\ k = m
    \/ k = m /\ u.va = s.va /\ u.state \in {s.state, "PENDING_DISCONNECT"}
    \/ k = m /\ s.va <= u.va /\ u.state = s.state
    \/ k = m + 1 /\ u.va = s.va /\ u.state = "ESTABLISHED" /\ s.state = "ESTABLISHED"

SenderMoves(a, d) ==
    /\ Transfer(a, d)'
    /\ got' = got
    /\ \E u : /\ sock' = [sock EXCEPT ![a] = u]
              /\ \E k : /\ sent' = [sent EXCEPT ![a] = k]
                        /\ Onward(sock[a], sent[a], u, k)

ReceiverMoves(a, d) ==
    /\ sent' = sent
    /\ \E u : /\ sock' = [sock EXCEPT ![Peer(a)] = u]
              /\ \/ /\ Transfer(a, d)'
                    /\ got' = got
                    /\ u.state \in {sock[Peer(a)].state, "PENDING_DISCONNECT", "CLOSED"}
                 \/ /\ Transfer(a, d + 1)'
                    /\ d < sent[a]
                    /\ got' = [got EXCEPT ![Peer(a)] = 1 .. (d + 1)]
                    /\ u.state = "ESTABLISHED" /\ sock[Peer(a)].state = "ESTABLISHED"

\* The channels after a step of n that sends fs.
LEMMA SendsNet ==
    ASSUME IInv, NEW n \in Stations, NEW fs, Sends(n, fs)
    PROVE  /\ net'[n] = net[n] \/ (net[n] # <<>> /\ net'[n] = Tail(net[n]))
           /\ net'[Peer(n)] = net[Peer(n)] \/ net'[Peer(n)] = Put(net[Peer(n)], fs)
<1>1. net \in [Stations -> Seq(Frame)] /\ Peer(n) \in Stations /\ Peer(n) # n
  BY PeerType DEF IInv, RestOK
<1>2. CASE net[n] # <<>> /\ Reply(n, fs)
  <2>1. net' = [[net EXCEPT ![n] = Tail(net[n])]
                  EXCEPT ![Peer(n)] = IF up[Peer(n)] THEN Put(net[Peer(n)], fs)
                                                     ELSE net[Peer(n)]]
    BY <1>1, <1>2 DEF Reply
  <2> QED  BY <1>1, <1>2, <2>1
<1>3. CASE Transmit(n, fs)
  <2>1. net' = [net EXCEPT ![Peer(n)] = IF up[Peer(n)] THEN Put(net[Peer(n)], fs)
                                                     ELSE net[Peer(n)]]
    BY <1>1, <1>3 DEF Transmit
  <2> QED  BY <1>1, <2>1
<1> QED  BY <1>2, <1>3 DEF Sends

\* A frame that is lost is a frame that was not answered.
LEMMA LoseSends ==
    ASSUME IInv, NEW n \in Stations, Lose(n)
    PROVE  Sends(n, <<>>) /\ UNCHANGED <<sock, sent, got>>
<1>1. net \in [Stations -> Seq(Frame)] /\ Peer(n) \in Stations /\ Peer(n) # n
  BY PeerType DEF IInv, RestOK
<1>2. Put(net[Peer(n)], <<>>) = net[Peer(n)]
  BY <1>1, PutNone
<1>3. net' = [net EXCEPT ![n] = Tail(net[n])] /\ net[n] # <<>>
  BY DEF Lose
<1>4. [net EXCEPT ![n] = Tail(net[n]),
                  ![Peer(n)] = IF up[Peer(n)] THEN Put(net[Peer(n)], <<>>) ELSE net[Peer(n)]]
      = [net EXCEPT ![n] = Tail(net[n])]
  BY <1>1, <1>2
<1>5. Reply(n, <<>>)
  BY <1>1, <1>3, <1>4 DEF Reply
<1> QED  BY <1>3, <1>5 DEF Sends, Lose

LEMMA SilentSends ==
    ASSUME IInv, NEW n \in Stations, net' = net
    PROVE  Sends(n, <<>>)
<1>1. net \in [Stations -> Seq(Frame)] /\ Peer(n) \in Stations
  BY PeerType DEF IInv, RestOK
<1>2. Put(net[Peer(n)], <<>>) = net[Peer(n)]
  BY <1>1, PutNone
<1> QED  BY <1>1, <1>2 DEF Sends, Transmit

LEMMA ForthGrows ==
    ASSUME NEW ch \in Seq(Frame), NEW m \in Int, NEW k \in Int, m <= k, AllForth(ch, m)
    PROVE  AllForth(ch, k)
<1> SUFFICES ASSUME NEW i \in 1 .. Len(ch) PROVE Forth(ch[i], k)
  BY DEF AllForth
<1>1. ch[i] \in Frame /\ Forth(ch[i], m)
  BY DEF AllForth
<1>2. ch[i].ns \in Int
  BY <1>1, SockAssumption DEF Frame, Seqno
<1>3. ch[i].ns < m => ch[i].ns < k
  BY <1>2
<1> QED  BY <1>1, <1>3 DEF Forth

LEMMA SenderStep ==
    ASSUME IInv, IInv', NEW a \in Stations, NEW d \in Nat, Transfer(a, d), got' = got,
           NEW u, sock' = [sock EXCEPT ![a] = u],
           NEW k, sent' = [sent EXCEPT ![a] = k], sent[a] <= k, k < Half,
           Onward(sock[a], sent[a], u, k),
           NEW fs, Sends(a, fs), fs = <<>> \/ \E g \in Frame : fs = <<g>> /\ Forth(g, k),
           u = NewSock \/ (Sending(u, k, d) /\ NotBelow(net'[a], u.va))
    PROVE  SenderMoves(a, d)
<1> DEFINE b == Peer(a)
<1>1. b \in Stations /\ b # a /\ net[a] \in Seq(Frame) /\ net[b] \in Seq(Frame)
      /\ sock \in [Stations -> Socket] /\ sent \in [Stations -> 0 .. MaxItem]
  BY PeerType DEF IInv, RestOK
<1>2. sock'[a] = u /\ sock'[b] = sock[b] /\ sent'[a] = k
  BY <1>1
<1>3. sent[a] \in Int /\ k \in Int
  <2>1. sent'[a] \in 0 .. MaxItem
    BY DEF IInv, RestOK
  <2> QED  BY <1>1, <1>2, <2>1, SockAssumption
<1>4. AllForth(net[b], k)
  BY <1>1, <1>3, ForthGrows DEF Transfer
<1>5. AllForth(net'[b], k)
  <2>1. net'[b] = net[b] \/ net'[b] = Put(net[b], fs)
    BY SendsNet
  <2>2. AllForth(Put(net[b], fs), k)
    BY <1>1, <1>4, PutNone, PutForth
  <2> QED  BY <1>4, <2>1, <2>2
<1>6. AllReturned(net'[a], d) /\ Rising(net'[a])
  <2>1. net'[a] = net[a] \/ (net[a] # <<>> /\ net'[a] = Tail(net[a]))
    BY SendsNet
  <2> QED  BY <1>1, <2>1, TailReturned DEF Transfer
<1>7. Transfer(a, d)'
  <2>1. sent'[a] < Half /\ d \in 0 .. sent'[a] /\ got'[a] = {} /\ got'[b] = 1 .. d
    BY <1>2, <1>3 DEF Transfer
  <2>2. SenderOK(sock'[a], sent'[a], d, net'[a])
    BY <1>2 DEF SenderOK
  <2>3. ReceiverOK(sock'[b], d)
    BY <1>2 DEF Transfer
  <2> QED  BY <1>2, <1>5, <1>6, <2>1, <2>2, <2>3 DEF Transfer
<1> QED  BY <1>7 DEF SenderMoves

LEMMA ReturnedGrows ==
    ASSUME NEW ch \in Seq(Frame), NEW d \in Nat, NEW e \in Nat, d <= e, AllReturned(ch, d)
    PROVE  AllReturned(ch, e)
<1> SUFFICES ASSUME NEW i \in 1 .. Len(ch) PROVE Returned(ch[i], e)
  BY DEF AllReturned
<1>1. ch[i] \in Frame /\ Returned(ch[i], d)
  BY DEF AllReturned
<1>2. ch[i].nr \in Int
  BY <1>1, SockAssumption DEF Frame, Seqno
<1>3. ch[i].nr <= d => ch[i].nr <= e
  BY <1>2
<1> QED  BY <1>1, <1>3 DEF Returned

LEMMA ReceiverStep ==
    ASSUME IInv, IInv', NEW a \in Stations, NEW d \in Nat, Transfer(a, d), sent' = sent,
           NEW u, sock' = [sock EXCEPT ![Peer(a)] = u],
           NEW e \in Nat,
           \/ /\ e = d /\ got' = got
              /\ u.state \in {sock[Peer(a)].state, "PENDING_DISCONNECT", "CLOSED"}
           \/ /\ e = d + 1 /\ d < sent[a]
              /\ got' = [got EXCEPT ![Peer(a)] = 1 .. (d + 1)]
              /\ u.state = "ESTABLISHED" /\ sock[Peer(a)].state = "ESTABLISHED",
           NEW fs, Sends(Peer(a), fs),
           fs = <<>> \/ \E g \in Frame : /\ fs = <<g>> /\ Returned(g, e)
                                         /\ g.type \in SType => g.nr = e,
           u = NewSock \/ Receiving(u, e)
    PROVE  ReceiverMoves(a, d)
<1> DEFINE b == Peer(a)
<1>1. b \in Stations /\ b # a /\ net[a] \in Seq(Frame) /\ net[b] \in Seq(Frame)
      /\ sock \in [Stations -> Socket] /\ sent \in [Stations -> 0 .. MaxItem]
      /\ got \in [Stations -> SUBSET (1 .. Garbled)] /\ Peer(b) = a
  BY PeerType DEF IInv, RestOK, Peer, Stations
<1>2. sock'[b] = u /\ sock'[a] = sock[a] /\ sent'[a] = sent[a]
  BY <1>1
<1>3. sent[a] \in Int /\ d <= e /\ e <= sent[a]
  BY <1>1, SockAssumption DEF Transfer
<1>4. got'[a] = {} /\ got'[b] = 1 .. e
  BY <1>1 DEF Transfer
<1>5. AllForth(net'[b], sent'[a])
  <2>1. net'[b] = net[b] \/ (net[b] # <<>> /\ net'[b] = Tail(net[b]))
    BY <1>1, SendsNet
  <2> QED  BY <1>1, <1>2, <2>1, TailForth DEF Transfer
<1>6. net'[a] = net[a] \/ net'[a] = Put(net[a], fs)
  BY <1>1, SendsNet
<1>7. AllReturned(net'[a], e) /\ Rising(net'[a])
  <2>1. AllReturned(net[a], e) /\ Rising(net[a])
    BY <1>1, <1>3, ReturnedGrows DEF Transfer
  <2>2. AllReturned(Put(net[a], fs), e) /\ Rising(Put(net[a], fs))
    BY <1>1, <2>1, PutNone, PutReturned
  <2> QED  BY <1>6, <2>1, <2>2
<1>8. SenderOK(sock'[a], sent'[a], e, net'[a])
  <2>1. SUFFICES ASSUME Sending(sock[a], sent[a], d), NotBelow(net[a], sock[a].va)
                 PROVE  Sending(sock[a], sent[a], e) /\ NotBelow(net'[a], sock[a].va)
    BY <1>2 DEF SenderOK, Transfer
  <2>2. sock[a].va \in Int /\ sock[a].va <= d
    BY <1>1, <2>1, SockAssumption DEF Sending, Socket, Seqno
  <2>3. sock[a].va <= e
    BY <1>3, <2>2
  <2>4. NotBelow(Put(net[a], fs), sock[a].va)
    BY <1>1, <2>1, <2>3, PutNone, PutNotBelow
  <2> QED  BY <1>6, <2>1, <2>3, <2>4 DEF Sending
<1>9. Transfer(a, e)'
  BY <1>2, <1>3, <1>4, <1>5, <1>7, <1>8 DEF Transfer, ReceiverOK
<1> QED  BY <1>9 DEF ReceiverMoves

---------------------------------------------------------------------------
Moves(a, d) == SenderMoves(a, d) \/ ReceiverMoves(a, d)

LEMMA StationRoles ==
    ASSUME NEW a \in Stations, NEW n \in Stations
    PROVE  (n = a \/ n = Peer(a)) /\ Peer(Peer(a)) = a
BY DEF Stations, Peer

LEMMA SignalType ==
    /\ Signal \subseteq Frame
    /\ \A g \in Signal : g.type \notin SType /\ g.type # "I" /\ g.data = NoData
BY UFrameType DEF Signal, UFrame, UType, SType

LEMMA NewSockFacts == NewSock.state = "CLOSED" /\ NewSock.mode = "DM" /\ NewSock.ring = Mod
                      /\ NewSock \in Socket
BY NewSockInv DEF NewSock, SockInv

\* A step that leaves the socket alone or closes it, and sends a DM, UA or DISC
\* if anything.
LEMMA QuietStep ==
    ASSUME IInv, IInv', NEW a \in Stations, NEW d \in Nat, Transfer(a, d), NEW n \in Stations,
           NEW u, sock' = [sock EXCEPT ![n] = u], u = sock[n] \/ u = NewSock,
           sent' = sent, got' = got,
           NEW fs, Sends(n, fs), fs = <<>> \/ \E g \in Signal : fs = <<g>>
    PROVE  Moves(a, d)
<1>1. sock \in [Stations -> Socket] /\ sent \in [Stations -> 0 .. MaxItem]
      /\ net \in [Stations -> Seq(Frame)]
  BY DEF IInv, RestOK
<1>2. CASE n = a
  <2>1. sent' = [sent EXCEPT ![a] = sent[a]] /\ sent[a] <= sent[a] /\ sent[a] < Half
    BY <1>1, SockAssumption DEF Transfer
  <2>2. Onward(sock[a], sent[a], u, sent[a])
    BY <1>2 DEF Onward
  <2>3. fs = <<>> \/ \E g \in Frame : fs = <<g>> /\ Forth(g, sent[a])
    BY SignalType DEF Forth
  <2>4. u = NewSock \/ (Sending(u, sent[a], d) /\ NotBelow(net'[a], u.va))
    <3>1. net'[a] = net[a] \/ (net[a] # <<>> /\ net'[a] = Tail(net[a]))
      BY <1>2, SendsNet
    <3>2. SenderOK(sock[a], sent[a], d, net'[a])
      BY <1>1, <3>1, TailNotBelow DEF Transfer, SenderOK
    <3> QED  BY <1>2, <3>2 DEF SenderOK
  <2>5. SenderMoves(a, d)
    BY <1>2, <2>1, <2>2, <2>3, <2>4, SenderStep
  <2> QED  BY <2>5 DEF Moves
<1>3. CASE n = Peer(a)
  <2>1. u.state \in {sock[Peer(a)].state, "PENDING_DISCONNECT", "CLOSED"}
    BY <1>3, NewSockFacts
  <2>2. fs = <<>> \/ \E g \in Frame : /\ fs = <<g>> /\ Returned(g, d)
                                      /\ g.type \in SType => g.nr = d
    BY SignalType DEF Returned
  <2>3. u = NewSock \/ Receiving(u, d)
    BY <1>3 DEF Transfer, ReceiverOK
  <2>4. ReceiverMoves(a, d)
    BY <1>3, <2>1, <2>2, <2>3, ReceiverStep
  <2> QED  BY <2>4 DEF Moves
<1> QED  BY <1>2, <1>3, StationRoles

---------------------------------------------------------------------------
(***************************************************************************)
(* The operations of the two sockets.                                       *)
(***************************************************************************)
LEMMA SendingSame ==
    ASSUME NEW s, NEW m, NEW d, Sending(s, m, d), NEW u, Live(u),
           u.mode = s.mode, u.vr = s.vr, u.va = s.va, u.vs = s.vs, u.slots = s.slots
    PROVE  Sending(u, m, d)
BY DEF Sending

LEMMA ReceivingSame ==
    ASSUME NEW s, NEW d, Receiving(s, d), NEW u, Live(u),
           u.mode = s.mode, u.vr = s.vr, u.va = s.va, u.vs = s.vs, u.slots = s.slots
    PROVE  Receiving(u, d)
BY DEF Receiving

\* The ring of a live socket is as large as its mode needs: no junk.
LEMMA NoJunk ==
    ASSUME NEW s \in Socket, SockInv(s), Live(s), NEW f, NEW u \in FrameAck(s, f)
    PROVE  \E v : /\ v = AckTimer(SockAck([s EXCEPT !.rxp = 0, !.t3 = TRUE], f.nr, {}),
                                  AckReported(s, f.nr, {}),
                                  {} \ SlotsOf(s, AckRange(s, f.nr, {})))
                  /\ u = AckRewind(v, f)
<1>1. Junk(s) = {{}}
  <2>1. ~(s.ring < TxSlots(s.mode))
    BY DEF SockInv, Sized, Live, Overrun
  <2>2. s.ring \in Int /\ TxSlots(s.mode) \in Int
    BY SlotRange, SockAssumption DEF Socket
  <2>3. {i \in Seqno : s.ring <= i /\ i < TxSlots(s.mode)} = {}
    BY <2>1, <2>2, SockAssumption DEF Seqno
  <2> QED  BY <2>3 DEF Junk
<1> DEFINE z == [s EXCEPT !.rxp = 0, !.t3 = TRUE]
<1>2. PICK junk \in Junk(s) :
        \E a \in {SockAck(z, f.nr, junk)} :
          \E v \in {AckTimer(a, AckReported(s, f.nr, junk),
                             junk \ SlotsOf(s, AckRange(s, f.nr, junk)))} :
             u = AckRewind(v, f)
  BY Zenon DEF FrameAck
<1>3. junk = {}
  BY <1>1
<1> HIDE DEF z
<1>4. u = AckRewind(AckTimer(SockAck(z, f.nr, {}), AckReported(s, f.nr, {}),
                             {} \ SlotsOf(s, AckRange(s, f.nr, {}))), f)
  BY <1>2, <1>3, Zenon
<1> QED  BY <1>4, Zenon DEF z

\* T1 is all that an acknowledgement changes besides the slots and V(A).
LEMMA TimerSame ==
    ASSUME NEW a \in Socket, NEW v,
           \/ v = a
           \/ v = [a EXCEPT !.retries = NRetry, !.t1 = TRUE]
           \/ v = [a EXCEPT !.t1 = FALSE]
    PROVE  /\ v \in Socket /\ v.slots = a.slots /\ v.state = a.state /\ v.mode = a.mode
           /\ v.vr = a.vr /\ v.va = a.va /\ v.vs = a.vs
<1>1. NRetry \in 0 .. NRetry
  BY SockAssumption
<1>2. CASE v = a
  BY ONLY <1>2, a \in Socket
<1>3. CASE v = [a EXCEPT !.retries = NRetry, !.t1 = TRUE]
  BY ONLY <1>1, <1>3, a \in Socket DEF Socket
<1>4. CASE v = [a EXCEPT !.t1 = FALSE]
  BY ONLY <1>4, a \in Socket DEF Socket
<1> QED  BY <1>2, <1>3, <1>4

\* Nothing is waiting in the ring of a socket that has sent nothing.
LEMMA ReceiverAck ==
    ASSUME NEW s \in Socket, SockInv(s), NEW d, Receiving(s, d), NEW f, f.nr = 0,
           NEW u \in FrameAck(s, f)
    PROVE  Receiving(u, d) /\ u.state = s.state
<1> DEFINE z == [s EXCEPT !.rxp = 0, !.t3 = TRUE]
           a == SockAck(z, f.nr, {})
           v == AckTimer(a, AckReported(s, f.nr, {}), {} \ SlotsOf(s, AckRange(s, f.nr, {})))
<1>1. u = AckRewind(v, f)
  BY NoJunk, Zenon DEF Receiving
<1>2. /\ z \in Socket /\ z.slots = EmptySlots /\ z.state = s.state /\ z.mode = s.mode
      /\ z.vr = d /\ z.va = 0 /\ z.vs = 0
  BY DEF Socket, Receiving
<1> HIDE DEF z
<1>3. a = z
  <2>1. AckPlaces(z, f.nr) = {}
    BY <1>2 DEF AckPlaces
  <2> QED  BY <2>1 DEF SockAck, AckRange
<1> HIDE DEF a
<1>4. /\ v.slots = EmptySlots /\ v.state = s.state /\ v.mode = s.mode
      /\ v.vr = d /\ v.va = 0 /\ v.vs = 0 /\ v \in Socket
  <2>1. v = z \/ v = [z EXCEPT !.retries = NRetry, !.t1 = TRUE] \/ v = [z EXCEPT !.t1 = FALSE]
    BY <1>3 DEF AckTimer
  <2> HIDE DEF v
  <2> QED  BY <1>2, <2>1, TimerSame
<1> HIDE DEF v
<1>5. /\ u.slots = EmptySlots /\ u.state = s.state /\ u.mode = s.mode
      /\ u.vr = d /\ u.va = 0 /\ u.vs = 0
  <2>1. u = v \/ u = [v EXCEPT !.vs = 0, !.retries = NRetry]
    BY <1>1 DEF AckRewind
  <2> QED  BY <1>4, <2>1 DEF Socket
<1> QED  BY <1>5 DEF Receiving, Live

\* A supervisory frame of the receiver acknowledges everything before its N(R)
\* and takes V(S) there.
LEMMA SenderAck ==
    ASSUME NEW s \in Socket, SockInv(s), NEW m \in Nat, m < Half, NEW d \in Nat, d <= m,
           Sending(s, m, d), NEW f \in Frame, f.type \in SType, f.pf, s.va <= f.nr, f.nr <= d,
           NEW u \in FrameAck(s, f)
    PROVE  Sending(u, m, d) /\ u.va = f.nr /\ u.state = s.state
<1> DEFINE z == [s EXCEPT !.rxp = 0, !.t3 = TRUE]
           a == SockAck(z, f.nr, {})
           v == AckTimer(a, AckReported(s, f.nr, {}), {} \ SlotsOf(s, AckRange(s, f.nr, {})))
           nr == f.nr
<1>1. u = AckRewind(v, f)
  BY NoJunk, Zenon DEF Sending
<1>2. /\ z \in Socket /\ z.slots = s.slots /\ z.state = s.state /\ z.mode = "SABME"
      /\ z.vr = 0 /\ z.va = s.va /\ z.vs = s.vs
  BY DEF Socket, Sending
<1>3. /\ s.va \in Nat /\ s.vs \in Nat /\ nr \in Nat /\ s.va <= nr /\ nr <= m
      /\ s.va <= s.vs /\ s.vs <= m
  BY SockAssumption DEF Socket, Seqno, Frame, Sending
<1>4. TxSlots(z.mode) = ModExt /\ ModExt \in Nat /\ Half \in Nat /\ Half < ModExt
  BY <1>2, SockAssumed DEF TxSlots
<1> HIDE DEF z
<1>5. AckPlaces(z, f.nr) = s.va .. (nr - 1)
  BY <1>2, <1>3 DEF AckPlaces
<1>6. \A i \in s.va .. (nr - 1) : i \in Seqno /\ i % ModExt = i /\ Pending(z, i)
  <2> SUFFICES ASSUME NEW i \in s.va .. (nr - 1)
               PROVE  i \in Seqno /\ i % ModExt = i /\ Pending(z, i)
    OBVIOUS
  <2>1. i \in Nat /\ i < m /\ i < Half /\ ~(i < s.va) /\ i + 1 # 0
    BY <1>3, <1>4
  <2>2. i \in Seqno /\ i % ModExt = i
    BY <2>1, SmallNumber
  <2>3. s.slots[i].data = i + 1 /\ s.slots[i].ack = (i < s.va)
    BY <2>1, <2>2 DEF Sending
  <2> QED  BY <1>2, <2>1, <2>2, <2>3 DEF Pending, NoData
<1>7. AckRange(z, f.nr, {}) = s.va .. (nr - 1)
  BY <1>4, <1>5, <1>6 DEF AckRange
<1>8. /\ a.va = nr /\ a.vs = s.vs /\ a.vr = 0 /\ a.mode = "SABME" /\ a.state = s.state
      /\ \A i \in Seqno : /\ a.slots[i].data = s.slots[i].data
                          /\ a.slots[i].ack = (i < nr)
      /\ a \in Socket
  <2>0. a \in Socket /\ SameLink(z, a)
    BY <1>2, SockAckInv DEF Frame
  <2>1. CASE nr = s.va
    <3>1. s.va .. (nr - 1) = {}
      BY <1>3, <2>1
    <3>2. a = z
      BY <1>7, <3>1 DEF SockAck
    <3> QED  BY <1>2, <2>0, <2>1, <3>2 DEF Sending
  <2>2. CASE nr # s.va
    <3> DEFINE S == s.va .. (nr - 1)
               sl == [i \in Seqno |->
                         IF Pending(z, i) /\ i \in SlotsOf(z, S)
                         THEN [z.slots[i] EXCEPT !.ack = TRUE]
                         ELSE z.slots[i]]
    <3>1. S # {} /\ nr - 1 \in S /\ \A i \in S : i <= nr - 1 /\ i \in Int
      BY <1>3, <2>2
    <3>2. LastOf(S) = nr - 1
      <4>1. nr - 1 \in Int
        BY <1>3
      <4>2. LastOf(S) \in S /\ \A j \in S : j <= LastOf(S)
        BY <3>1, <4>1, LastExists
      <4> HIDE DEF S
      <4> QED  BY <3>1, <4>1, <4>2
    <3>3. SlotsOf(z, S) = S
      BY <1>4, <1>6 DEF SlotsOf
    <3> HIDE DEF S, sl
    <3>4. a = [z EXCEPT !.slots = sl, !.va = (LastOf(S) + 1) % ModExt]
      BY <1>4, <1>7, <3>1 DEF SockAck, sl, S
    <3>5. (LastOf(S) + 1) % ModExt = nr
      <4>1. nr < Half
        BY <1>3, <1>4
      <4>2. nr % ModExt = nr
        BY <1>3, <4>1, SmallNumber
      <4> QED  BY <1>3, <3>2, <4>2
    <3>6. /\ a.va = nr /\ a.slots = sl /\ a.vs = s.vs /\ a.vr = 0 /\ a.mode = "SABME"
          /\ a.state = s.state
      <4> HIDE DEF a
      <4> QED  BY <1>2, <3>4, <3>5 DEF Socket
    <3>7. ASSUME NEW i \in Seqno PROVE sl[i].data = s.slots[i].data /\ sl[i].ack = (i < nr)
      <4>1. z.slots[i] \in Slot
        BY <1>2 DEF Socket
      <4>2. i \in Int /\ s.slots[i].ack = (i < s.va)
        BY SockAssumption DEF Seqno, Sending
      <4>3. CASE i \in S
        <5>1. sl[i] = [z.slots[i] EXCEPT !.ack = TRUE] /\ i < nr
          BY <1>3, <1>6, <3>3, <4>2, <4>3 DEF sl, S
        <5> QED  BY <1>2, <4>1, <5>1 DEF Slot
      <4>4. CASE i \notin S
        <5>1. sl[i] = s.slots[i]
          BY <1>2, <3>3, <4>4 DEF sl
        <5>2. (i < s.va) = (i < nr)
          BY <1>3, <4>2, <4>4 DEF S
        <5> QED  BY <4>2, <5>1, <5>2
      <4> QED  BY <4>3, <4>4
    <3> QED  BY <2>0, <3>6, <3>7
  <2> QED  BY <2>1, <2>2
<1> HIDE DEF a
<1>9. /\ v.va = nr /\ v.vs = s.vs /\ v.vr = 0 /\ v.mode = "SABME" /\ v.state = s.state
      /\ v.slots = a.slots /\ v \in Socket
  <2>1. v = a \/ v = [a EXCEPT !.retries = NRetry, !.t1 = TRUE] \/ v = [a EXCEPT !.t1 = FALSE]
    BY DEF AckTimer
  <2> HIDE DEF v
  <2> QED  BY <1>8, <2>1, TimerSame
<1> HIDE DEF v
<1>10. u = [v EXCEPT !.vs = nr, !.retries = NRetry]
  <2>1. v.va <= nr /\ nr <= (IF v.vs < v.va THEN v.vs + TxSlots(v.mode) ELSE v.vs)
    BY <1>2, <1>3, <1>4, <1>9
  <2> QED  BY <1>1, <2>1 DEF AckRewind
<1>11. /\ u.va = nr /\ u.vs = nr /\ u.vr = 0 /\ u.mode = "SABME" /\ u.state = s.state
       /\ u.slots = a.slots
  BY <1>9, <1>10 DEF Socket
<1>12. \A i \in Seqno : /\ u.slots[i].data = (IF i < m THEN i + 1 ELSE NoData)
                        /\ u.slots[i].ack = (i < u.va)
  BY <1>8, <1>11 DEF Sending
<1> QED  BY <1>3, <1>11, <1>12 DEF Sending, Live

---------------------------------------------------------------------------
(***************************************************************************)
(* The frames the two stations send, and what the other one reads.          *)
(***************************************************************************)
\* An answer or a poll of the sender.
LEMMA SenderFrame ==
    ASSUME NEW s \in Socket, NEW m, NEW d, Sending(s, m, d), NEW cr \in {"C", "R"}
    PROVE  SFrame(s, "RR", cr, TRUE) \in Frame /\ Forth(SFrame(s, "RR", cr, TRUE), m)
<1>1. SFrame(s, "RR", cr, TRUE) \in Frame
  BY SFrameType DEF SType
<1>2. s.mode = "SABME" /\ s.vr = 0
  BY DEF Sending
<1>3. TxSlots(s.mode) = ModExt /\ 0 % ModExt = 0
  BY <1>2, SockAssumed DEF TxSlots
<1> QED  BY <1>1, <1>2, <1>3 DEF SFrame, Forth

\* An answer or a poll of the receiver: N(R) is the number of items delivered.
LEMMA ReceiverFrame ==
    ASSUME NEW s \in Socket, NEW d \in Nat, d < Half, Receiving(s, d),
           NEW t \in SType, NEW cr \in {"C", "R"}
    PROVE  LET g == SFrame(s, t, cr, TRUE)
           IN  g \in Frame /\ Returned(g, d) /\ g.nr = d
<1>1. SFrame(s, t, cr, TRUE) \in Frame
  BY SFrameType
<1>2. s.mode = "SABME" /\ s.vr = d
  BY DEF Receiving
<1>3. s.vr % TxSlots(s.mode) = d
  BY <1>2, SmallNumber DEF TxSlots
<1> DEFINE g == SFrame(s, t, cr, TRUE)
<1>4. g.type = t /\ g.ext /\ g.pf /\ g.nr = d
  BY <1>2, <1>3 DEF SFrame
<1> HIDE DEF g
<1>5. g.nr <= d
  BY <1>4
<1> QED  BY <1>1, <1>4, <1>5 DEF Returned, g

\* An item of the sender.
LEMMA ItemFrame ==
    ASSUME NEW s \in Socket, NEW m \in Nat, m < Half,
           s.mode = "SABME", s.vr = 0, NEW i \in Nat, i < m, i + 1 \in 0 .. Garbled
    PROVE  IFrame(s, i, i + 1) \in Frame /\ Forth(IFrame(s, i, i + 1), m)
<1>1. IFrame(s, i, i + 1) \in Frame
  BY IFrameType
<1>2. i < Half /\ TxSlots(s.mode) = ModExt
  BY SockAssumed DEF TxSlots
<1>3. i % TxSlots(s.mode) = i /\ s.vr % TxSlots(s.mode) = 0
  BY <1>2, SmallNumber, SockAssumed
<1> HIDE DEF Half
<1>4. /\ IFrame(s, i, i + 1).type = "I" /\ IFrame(s, i, i + 1).ext
      /\ IFrame(s, i, i + 1).nr = 0 /\ IFrame(s, i, i + 1).ns = i
      /\ IFrame(s, i, i + 1).data = i + 1
  BY <1>3 DEF IFrame
<1> QED  BY <1>1, <1>4 DEF Forth

\* V(S) is in front of an item that has been read before: it is sent again.
LEMMA SenderUnsent ==
    ASSUME NEW s \in Socket, NEW m \in Nat, m < Half, NEW d, Sending(s, m, d)
    PROVE  /\ Unsent(s) = (s.vs < m)
           /\ s.vs \in Nat /\ s.vs % TxSlots(s.mode) = s.vs
           /\ s.slots[s.vs].data = (IF s.vs < m THEN s.vs + 1 ELSE NoData)
<1>1. s.vs \in Nat /\ s.va \in Nat /\ s.vs <= m /\ s.va <= s.vs /\ s.vs < Half
  BY SockAssumption, SockAssumed DEF Socket, Seqno, Sending
<1>2. s.vs \in Seqno /\ s.vs % ModExt = s.vs
  BY <1>1, SmallNumber
<1>3. TxSlots(s.mode) = ModExt
  BY DEF Sending, TxSlots
<1>4. /\ s.slots[s.vs].data = (IF s.vs < m THEN s.vs + 1 ELSE NoData)
      /\ s.slots[s.vs].ack = (s.vs < s.va)
  BY <1>2 DEF Sending
<1>5. ~(s.vs < s.va) /\ (s.vs < m => s.vs + 1 # 0)
  BY <1>1
<1>6. Unsent(s) = (s.vs < m)
  <2>1. Unsent(s) <=> s.slots[s.vs].data # 0 /\ ~s.slots[s.vs].ack
    BY <1>2, <1>3 DEF Unsent, Pending, NoData
  <2>2. Unsent(s) \in BOOLEAN /\ (s.vs < m) \in BOOLEAN
    BY DEF Unsent, Pending
  <2>3. CASE s.vs < m
    BY <1>4, <1>5, <2>1, <2>2, <2>3
  <2>4. CASE ~(s.vs < m)
    <3>1. s.slots[s.vs].data = 0
      BY <1>4, <2>4 DEF NoData
    <3>2. ~Unsent(s)
      BY <2>1, <3>1
    <3> QED  BY <2>2, <2>4, <3>2
  <2> QED  BY <2>3, <2>4
<1> QED  BY <1>1, <1>2, <1>3, <1>4, <1>6

\* What an SREJ gets, or handle_sock() sends again.
LEMMA SenderResend ==
    ASSUME NEW s \in Socket, NEW m \in Nat, m < Half, NEW d, Sending(s, m, d),
           NEW i \in Nat, i < Half
    PROVE  Resend(s, i) = <<>> \/ \E g \in Frame : Resend(s, i) = <<g>> /\ Forth(g, m)
<1>1. i % TxSlots(s.mode) = i /\ i \in Seqno
  BY SmallNumber DEF Sending, TxSlots
<1>2. s.slots[i].data = (IF i < m THEN i + 1 ELSE NoData)
  BY <1>1 DEF Sending
<1>3. CASE ~(i < m)
  BY <1>1, <1>2, <1>3 DEF Resend
<1>4. CASE i < m
  <2>1. i + 1 \in 0 .. Garbled
    BY <1>1, <1>2, <1>4, SlotData
  <2>2. i + 1 # NoData
    BY DEF NoData
  <2>3. Resend(s, i) = <<IFrame(s, i, i + 1)>>
    BY <1>1, <1>2, <1>4, <2>2 DEF Resend
  <2>4. IFrame(s, i, i + 1) \in Frame /\ Forth(IFrame(s, i, i + 1), m)
    BY <1>4, <2>1, ItemFrame DEF Sending
  <2> QED  BY <2>3, <2>4
<1> QED  BY <1>3, <1>4

LEMMA ReceiverSilent ==
    ASSUME NEW s \in Socket, NEW d, Receiving(s, d)
    PROVE  ~Unsent(s) /\ \A i \in Int : Resend(s, i) = <<>>
<1>1. \A i \in Int : i % TxSlots(s.mode) \in Seqno
  BY SlotRange
<1>2. s.vs \in Int
  BY SockAssumption DEF Socket, Seqno
<1>3. \A i \in Seqno : s.slots[i].data = NoData
  BY EmptySlotsType DEF Receiving
<1> QED  BY <1>1, <1>2, <1>3 DEF Unsent, Pending, Resend

\* The sender reads the frames as they were sent.
LEMMA SenderReads ==
    ASSUME NEW g \in Frame, NEW d \in Nat, d < Half, Returned(g, d),
           NEW f \in DecodeControl(g, "SABME")
    PROVE  /\ f.type = g.type
           /\ \/ f \in Signal
              \/ f.type \in SType /\ f.pf /\ f.nr = g.nr /\ f.nr <= d
<1>1. CASE g \in Signal
  <2>1. g.type \in UType
    BY <1>1 DEF Signal, UFrame, UType
  <2> QED  BY <1>1, <2>1 DEF DecodeControl
<1>2. CASE g.type \in SType /\ g.ext /\ g.pf /\ g.nr <= d
  <2>1. f = [g EXCEPT !.ns = g.ns % Half, !.nr = g.nr % Half]
    BY <1>2 DEF DecodeControl, ReadExtended, SType, UType
  <2>2. g.nr \in Nat /\ g.nr < Half
    BY <1>2, SockAssumption, SockAssumed DEF Frame, Seqno
  <2>3. g.nr % Half = g.nr
    BY <2>2, SmallNumber
  <2>4. f.type = g.type /\ f.pf = g.pf /\ f.nr = g.nr
    BY <2>1, <2>3 DEF Frame
  <2> QED  BY <1>2, <2>4
<1> QED  BY <1>1, <1>2 DEF Returned

\* And so does the receiver.
LEMMA ReceiverReads ==
    ASSUME NEW g \in Frame, NEW m \in Nat, m < Half, Forth(g, m),
           NEW f \in DecodeControl(g, "SABME")
    PROVE  /\ f.type = g.type
           /\ \/ f \in Signal
              \/ f.type = "RR" /\ f.nr = 0
              \/ f.type = "I" /\ f.nr = 0 /\ f.ns \in Nat /\ f.ns < m /\ f.data = f.ns + 1
<1>1. CASE g \in Signal
  <2>1. g.type \in UType
    BY <1>1 DEF Signal, UFrame, UType
  <2> QED  BY <1>1, <2>1 DEF DecodeControl
<1>2. CASE g.type \in {"RR", "I"} /\ g.ext /\ g.nr = 0
  <2>1. f = [g EXCEPT !.ns = g.ns % Half, !.nr = g.nr % Half]
    BY <1>2 DEF DecodeControl, ReadExtended, UType
  <2>2. 0 % Half = 0
    BY SmallNumber, SockAssumed
  <2>3. f.type = g.type /\ f.nr = 0 /\ f.ns = g.ns % Half /\ f.data = g.data
    BY <1>2, <2>1, <2>2 DEF Frame
  <2>4. CASE g.type = "RR"
    BY <2>3, <2>4
  <2>5. CASE g.type = "I"
    <3>1. g.ns < m /\ g.data = g.ns + 1
      BY <2>5, SignalType DEF Forth
    <3>2. g.ns \in Nat /\ g.ns < Half
      BY <3>1, SockAssumption, SockAssumed DEF Frame, Seqno
    <3> QED  BY <2>3, <2>5, <3>1, <3>2, SmallNumber
  <2> QED  BY <1>2, <2>4, <2>5
<1> QED  BY <1>1, <1>2 DEF Forth

\* A station without a socket sees the type.
LEMMA TypeRead ==
    ASSUME NEW g \in Frame, NEW mode, NEW f \in DecodeControl(g, mode)
    PROVE  f.type = g.type
<1>1. \/ f = g \/ f = ReadExtended(g) \/ f = ReadFirst(g)
      \/ \E r \in 0 .. (Half - 1), b \in BOOLEAN : f = ReadBeyond(g, r, b)
  BY DEF DecodeControl
<1> QED  BY <1>1 DEF Frame, ReadExtended, ReadFirst, ReadBeyond

---------------------------------------------------------------------------
(***************************************************************************)
(* The frame handlers.                                                      *)
(***************************************************************************)
Handled == SType \cup {"I", "DM", "UA", "DISC"}

LEMMA HeadFrames ==
    ASSUME IInv, NEW a \in Stations, NEW d, Transfer(a, d)
    PROVE  /\ net[a] # <<>> => /\ Head(net[a]) \in Frame /\ Returned(Head(net[a]), d)
                               /\ Head(net[a]).type \in Handled
           /\ net[Peer(a)] # <<>> => /\ Head(net[Peer(a)]) \in Frame
                                     /\ Forth(Head(net[Peer(a)]), sent[a])
                                     /\ Head(net[Peer(a)]).type \in Handled
<1>1. net[a] \in Seq(Frame) /\ net[Peer(a)] \in Seq(Frame)
  BY PeerType DEF IInv, RestOK
<1>2. \A ch \in Seq(Frame) : ch # <<>> => /\ Head(ch) = ch[1] /\ 1 \in 1 .. Len(ch)
                                          /\ Head(ch) \in Frame
  OBVIOUS
<1>3. \A g \in Signal : g.type \in {"DM", "UA", "DISC"}
  BY DEF Signal, UFrame
<1>4. ASSUME net[a] # <<>>
      PROVE  /\ Head(net[a]) \in Frame /\ Returned(Head(net[a]), d)
             /\ Head(net[a]).type \in Handled
  <2>1. Head(net[a]) \in Frame /\ Returned(Head(net[a]), d)
    BY <1>1, <1>2, <1>4 DEF Transfer, AllReturned
  <2> QED  BY <1>3, <2>1 DEF Returned, Handled
<1>5. ASSUME net[Peer(a)] # <<>>
      PROVE  /\ Head(net[Peer(a)]) \in Frame
             /\ Forth(Head(net[Peer(a)]), sent[a])
             /\ Head(net[Peer(a)]).type \in Handled
  <2>1. Head(net[Peer(a)]) \in Frame /\ Forth(Head(net[Peer(a)]), sent[a])
    BY <1>1, <1>2, <1>5 DEF Transfer, AllForth
  <2> QED  BY <1>3, <2>1 DEF Forth, Handled, SType
<1> QED  BY <1>4, <1>5

\* The handler of a frame that two patties exchange on a link that is up.
LEMMA FrameKinds ==
    ASSUME NEW n, HandleFrame(n),
           net[n] # <<>> => Head(net[n]) \in Frame /\ Head(net[n]).type \in Handled
    PROVE  /\ net[n] # <<>>
           /\ \E f \in DecodeControl(Head(net[n]), sock[n].mode) :
                 /\ f.type = Head(net[n]).type
                 /\ \/ HandleI(n, f)
                    \/ \E w \in BOOLEAN : Supervise(n, f, w) /\ f.type \in {"RR", "RNR", "REJ"}
                    \/ HandleSrej(n, f)
                    \/ HandleOverrun(n, f) \/ HandleUnknown(n, f)
                    \/ HandleUa(n, f) \/ HandleDm(n, f) \/ HandleDisc(n, f)
<1>1. net[n] # <<>>
  BY DEF HandleFrame
<1>2. PICK f \in DecodeControl(Head(net[n]), sock[n].mode) :
         \/ HandleI(n, f) \/ HandleRr(n, f) \/ HandleRnr(n, f) \/ HandleRej(n, f)
         \/ HandleSrej(n, f) \/ HandleOverrun(n, f) \/ HandleUnknown(n, f)
         \/ HandleSabm(n, f) \/ HandleUa(n, f) \/ HandleDm(n, f) \/ HandleDisc(n, f)
         \/ HandleFrmr(n, f) \/ HandleXid(n, f)
  BY Zenon DEF HandleFrame
<1>3. f.type = Head(net[n]).type
  BY <1>1, TypeRead
<1>4. f.type \notin {"SABM", "SABME", "FRMR", "XID"}
  BY <1>1, <1>3 DEF Handled, SType
<1>5. ~HandleSabm(n, f) /\ ~HandleFrmr(n, f) /\ ~HandleXid(n, f)
  BY <1>4 DEF HandleSabm, HandleFrmr, HandleXid
<1>6. HandleRr(n, f) \/ HandleRnr(n, f) \/ HandleRej(n, f)
        => \E w \in BOOLEAN : Supervise(n, f, w) /\ f.type \in {"RR", "RNR", "REJ"}
  BY DEF HandleRr, HandleRnr, HandleRej
<1> QED  BY <1>1, <1>2, <1>3, <1>5, <1>6

\* A step that handles a frame and changes nothing but the channel.
LEMMA PlainMove ==
    ASSUME IInv, IInv', NEW a \in Stations, NEW d \in Nat, Transfer(a, d), NEW n \in Stations,
           net[n] # <<>>, sock' = sock, sent' = sent, got' = got,
           NEW fs, Reply(n, fs), fs = <<>> \/ \E g \in Signal : fs = <<g>>
    PROVE  Moves(a, d)
<1>1. sock' = [sock EXCEPT ![n] = sock[n]]
  BY DEF IInv
<1>2. Sends(n, fs)
  BY DEF Sends
<1> QED  BY <1>1, <1>2, QuietStep

LEMMA CloseMove ==
    ASSUME IInv, IInv', NEW a \in Stations, NEW d \in Nat, Transfer(a, d), NEW n \in Stations,
           SockClose(n), sent' = sent, got' = got,
           NEW fs, Sends(n, fs), fs = <<>> \/ \E g \in Signal : fs = <<g>>
    PROVE  Moves(a, d)
BY QuietStep DEF SockClose, Become

LEMMA IfSignal ==
    \A c \in BOOLEAN : \A g \in Signal : LET fs == If(c, g) IN fs = <<>> \/ \E h \in Signal : fs = <<h>>
BY DEF If

LEMMA Signals == UFrame("DM") \in Signal /\ UFrame("UA") \in Signal /\ UFrame("DISC") \in Signal
BY DEF Signal

\* A station whose socket is closed answers with a DM, or not at all.
LEMMA ClosedFrameMove ==
    ASSUME IInv, IInv', NEW a \in Stations, NEW d \in Nat, Transfer(a, d), NEW n \in Stations,
           sock[n] = NewSock, HandleFrame(n)
    PROVE  Moves(a, d)
<1>1. net[n] # <<>> => Head(net[n]).type \in Handled /\ Head(net[n]) \in Frame
  BY HeadFrames, StationRoles
<1>2. net[n] # <<>>
  BY DEF HandleFrame
<1>3. PICK f \in DecodeControl(Head(net[n]), sock[n].mode) :
         /\ f.type = Head(net[n]).type
         /\ \/ HandleI(n, f)
            \/ \E w \in BOOLEAN : Supervise(n, f, w) /\ f.type \in {"RR", "RNR", "REJ"}
            \/ HandleSrej(n, f)
            \/ HandleOverrun(n, f) \/ HandleUnknown(n, f)
            \/ HandleUa(n, f) \/ HandleDm(n, f) \/ HandleDisc(n, f)
  BY <1>1, FrameKinds
<1>4. f \in Frame
  BY <1>1, <1>2, DecodeType
<1>5. sock[n].state = "CLOSED" /\ ~Overrun(sock[n])
  BY NewSockFacts, SockAssumption DEF Overrun, TxSlots
<1>6. CASE HandleI(n, f)
  <2>1. HandleINoLink(n, f)
    BY <1>5, <1>6 DEF HandleI, HandleIGap, HandleIDeliver, HandleIShort
  <2>2. f.pf \in BOOLEAN
    BY <1>4 DEF Frame
  <2> QED  BY <1>2, <2>1, <2>2, PlainMove, IfSignal, Signals DEF HandleINoLink
<1>7. ~HandleOverrun(n, f) /\ ~HandleSrej(n, f) /\ \A w : ~Supervise(n, f, w)
  BY <1>5 DEF HandleOverrun, HandleSrej, Supervise, Registered
<1>8. CASE HandleUnknown(n, f)
  BY <1>2, <1>8, PlainMove DEF HandleUnknown
<1>9. CASE HandleUa(n, f) \/ HandleDm(n, f) \/ HandleDisc(n, f)
  <2>1. ReplyDm(n)
    BY <1>5, <1>9 DEF HandleUa, HandleDm, HandleDisc, HandleUaConnect, HandleReleased,
                      HandleDmRefused
  <2> QED  BY <1>2, <2>1, PlainMove, Signals DEF ReplyDm
<1> QED  BY <1>3, <1>6, <1>7, <1>8, <1>9

\* The frames that end a link, or find that there is none.
LEMMA SignalMove ==
    ASSUME IInv, IInv', NEW a \in Stations, NEW d \in Nat, Transfer(a, d), NEW n \in Stations,
           Live(sock[n]), net[n] # <<>>, NEW f,
           HandleUa(n, f) \/ HandleDm(n, f) \/ HandleDisc(n, f)
    PROVE  Moves(a, d)
<1>1. \/ Ignore(n)
      \/ HandleReleased(n)
      \/ /\ SockClose(n)
         /\ Reply(n, <<UFrame("UA")>>)
         /\ UNCHANGED <<sent, got, answer, up>>
  BY DEF Live, HandleUa, HandleDm, HandleDisc, HandleUaConnect, HandleDmRefused
<1>2. CASE Ignore(n)
  BY <1>2, PlainMove DEF Ignore
<1>3. CASE HandleReleased(n)
  BY <1>3, CloseMove DEF HandleReleased, Sends
<1>4. CASE /\ SockClose(n)
           /\ Reply(n, <<UFrame("UA")>>)
           /\ UNCHANGED <<sent, got, answer, up>>
  BY <1>4, CloseMove, Signals DEF Sends
<1> QED  BY <1>1, <1>2, <1>3, <1>4

LEMMA LiveFits ==
    ASSUME NEW s \in Socket, SockInv(s), Live(s)
    PROVE  ~Overrun(s) /\ s.state # "CLOSED"
BY DEF SockInv, Sized, Live

\* What the sender sends after a supervisory frame.
LEMMA SenderAckMove ==
    ASSUME IInv, IInv', NEW a \in Stations, NEW d \in Nat, Transfer(a, d),
           Sending(sock[a], sent[a], d), NotBelow(net[a], sock[a].va), net[a] # <<>>,
           NEW f \in Frame, f.type \in SType, f.pf, f.nr = Head(net[a]).nr, f.nr <= d,
           Head(net[a]).type \in SType,
           NEW u \in FrameAck(sock[a], f), Become(a, u), got' = got, sent' = sent,
           NEW fs, Reply(a, fs),
           fs = <<>> \/ \E g \in Frame : fs = <<g>> /\ Forth(g, sent[a])
    PROVE  Moves(a, d)
<1>1. sock[a] \in Socket /\ SockInv(sock[a]) /\ net[a] \in Seq(Frame) /\ net \in [Stations -> Seq(Frame)]
      /\ sent \in [Stations -> 0 .. MaxItem]
  BY DEF IInv, RestOK
<1>2. sent[a] \in Nat /\ sent[a] < Half /\ d <= sent[a]
  BY <1>1, SockAssumption DEF Transfer
<1>3. sock[a].va <= f.nr
  <2>1. Head(net[a]) = net[a][1] /\ 1 \in 1 .. Len(net[a])
    BY <1>1
  <2> QED  BY <2>1 DEF NotBelow
<1>4. Sending(u, sent[a], d) /\ u.va = f.nr /\ u.state = sock[a].state
  BY <1>1, <1>2, <1>3, SenderAck
<1>5. Onward(sock[a], sent[a], u, sent[a])
  BY <1>3, <1>4 DEF Onward
<1>6. NotBelow(net'[a], u.va)
  <2>1. net'[a] = Tail(net[a])
    <3>1. Peer(a) \in Stations /\ Peer(a) # a
      BY PeerType
    <3> QED  BY <1>1, <3>1 DEF Reply
  <2>2. NotBelow(Tail(net[a]), Head(net[a]).nr)
    BY <1>1, TailReturned DEF Transfer
  <2> QED  BY <1>4, <2>1, <2>2
<1>7. sent' = [sent EXCEPT ![a] = sent[a]] /\ sent[a] <= sent[a]
  BY <1>1, <1>2
<1>8. SenderMoves(a, d)
  BY <1>2, <1>4, <1>5, <1>6, <1>7, SenderStep DEF Become, Sends
<1> QED  BY <1>8 DEF Moves

LEMMA SenderFrameMove ==
    ASSUME IInv, IInv', NEW a \in Stations, NEW d \in Nat, Transfer(a, d),
           Sending(sock[a], sent[a], d), NotBelow(net[a], sock[a].va), HandleFrame(a)
    PROVE  Moves(a, d)
<1>0. sock[a] \in Socket /\ SockInv(sock[a]) /\ sent[a] \in Nat /\ sent[a] < Half
      /\ d <= sent[a] /\ d < Half
  BY SockAssumption, SockAssumed DEF IInv, RestOK, Transfer
<1>1. net[a] # <<>> /\ Head(net[a]) \in Frame /\ Head(net[a]).type \in Handled
      /\ Returned(Head(net[a]), d)
  BY HeadFrames DEF HandleFrame
<1>2. PICK f \in DecodeControl(Head(net[a]), sock[a].mode) :
         /\ f.type = Head(net[a]).type
         /\ \/ HandleI(a, f)
            \/ \E w \in BOOLEAN : Supervise(a, f, w) /\ f.type \in {"RR", "RNR", "REJ"}
            \/ HandleSrej(a, f)
            \/ HandleOverrun(a, f) \/ HandleUnknown(a, f)
            \/ HandleUa(a, f) \/ HandleDm(a, f) \/ HandleDisc(a, f)
  BY <1>1, FrameKinds
<1>3. f \in Signal \/ (f.type \in SType /\ f.pf /\ f.nr = Head(net[a]).nr /\ f.nr <= d)
  BY <1>0, <1>1, <1>2, SenderReads DEF Sending
<1>4. f \in Frame /\ f.pf \in BOOLEAN
  BY <1>1, <1>2, DecodeType DEF Frame
<1>5. Live(sock[a]) /\ ~Overrun(sock[a]) /\ sock[a].state # "CLOSED"
  BY <1>0, LiveFits DEF Sending
<1>6. ~HandleOverrun(a, f) /\ ~HandleUnknown(a, f) /\ ~HandleI(a, f)
  BY <1>3, <1>5, SignalType DEF HandleOverrun, HandleUnknown, HandleI, Registered, SType
<1>7. CASE HandleUa(a, f) \/ HandleDm(a, f) \/ HandleDisc(a, f)
  BY <1>1, <1>5, <1>7, SignalMove
<1>8. ASSUME NEW w, Supervise(a, f, w), f.type \in {"RR", "RNR", "REJ"} PROVE Moves(a, d)
  <2>1. PICK u \in FrameAck(sock[a], f) :
           Become(a, u) /\ Reply(a, If(f.cr = "C" /\ f.pf, SFrame(u, "RR", "R", TRUE)))
    BY <1>8, Zenon DEF Supervise
  <2>2. u \in Socket /\ f.type \in SType /\ f.pf /\ f.nr = Head(net[a]).nr /\ f.nr <= d
    BY <1>3, <1>4, <1>8, AckedInv, SignalType DEF SType
  <2>3. Sending(u, sent[a], d)
    <3>1. Head(net[a]) = net[a][1] /\ 1 \in 1 .. Len(net[a])
      BY <1>1 DEF IInv, RestOK
    <3>2. sock[a].va <= f.nr
      BY <1>2, <2>2, <3>1 DEF NotBelow
    <3> QED  BY <1>0, <1>4, <2>2, <3>2, SenderAck
  <2> DEFINE fs == If(f.cr = "C" /\ f.pf, SFrame(u, "RR", "R", TRUE))
  <2>4. fs = <<>> \/ \E g \in Frame : fs = <<g>> /\ Forth(g, sent[a])
    <3>1. SFrame(u, "RR", "R", TRUE) \in Frame /\ Forth(SFrame(u, "RR", "R", TRUE), sent[a])
      BY <2>2, <2>3, SenderFrame
    <3> QED  BY <3>1 DEF If
  <2>5. UNCHANGED <<sent, got>>
    BY <1>8 DEF Supervise
  <2> HIDE DEF fs
  <2>6. Reply(a, fs)
    BY <2>1 DEF fs
  <2> QED  BY <1>1, <1>2, <1>4, <2>1, <2>2, <2>4, <2>5, <2>6, SenderAckMove
<1>9. CASE HandleSrej(a, f)
  <2>0. f.type = "SREJ" /\ UNCHANGED <<sent, got>>
    BY <1>9 DEF HandleSrej
  <2>1. PICK u \in FrameAck(sock[a], f) :
           /\ Become(a, u)
           /\ Reply(a, Resend(u, f.nr)) \/ Overrun(u)
    BY <1>9, Zenon DEF HandleSrej
  <2>2. u \in Socket /\ f.type \in SType /\ f.pf /\ f.nr = Head(net[a]).nr /\ f.nr <= d
        /\ SockInv(u)
    BY <1>3, <1>4, <2>0, AckedInv, SignalType DEF SType
  <2>3. Sending(u, sent[a], d)
    <3>1. Head(net[a]) = net[a][1] /\ 1 \in 1 .. Len(net[a])
      BY <1>1 DEF IInv, RestOK
    <3>2. sock[a].va <= f.nr
      BY <1>2, <2>2, <3>1 DEF NotBelow
    <3> QED  BY <1>0, <1>4, <2>2, <3>2, SenderAck
  <2>4. Reply(a, Resend(u, f.nr))
    BY <2>1, <2>2, <2>3, LiveFits DEF Sending
  <2>5. f.nr \in Nat /\ f.nr < Half
    BY <1>0, <1>4, <2>2, SockAssumption, SockAssumed DEF Frame, Seqno
  <2> DEFINE fs == Resend(u, f.nr)
  <2>6. fs = <<>> \/ \E g \in Frame : fs = <<g>> /\ Forth(g, sent[a])
    BY <1>0, <2>2, <2>3, <2>5, SenderResend
  <2> HIDE DEF fs
  <2>7. Reply(a, fs)
    BY <2>4 DEF fs
  <2> QED  BY <1>1, <1>2, <1>4, <2>0, <2>1, <2>2, <2>6, <2>7, SenderAckMove
<1> QED  BY <1>2, <1>6, <1>7, <1>8, <1>9

\* handle_i() moves V(R) on for the frame it expects, and for no other.
LEMMA AcceptedReceiving ==
    ASSUME NEW s \in Socket, NEW d \in Nat, Receiving(s, d), NEW f, f.ns \in Nat,
           f.ns = d => d + 1 < Half, NEW e \in Nat, e = (IF f.ns = d THEN d + 1 ELSE d)
    PROVE  Receiving(Accepted(s, f), e) /\ Accepted(s, f).state = s.state
<1> DEFINE r == IF f.ns = s.vr THEN VrIncr(s) ELSE s
           u == Accepted(s, f)
<1>1. f.ns = d => (d + 1) % ModExt = d + 1 /\ d + 1 \in Seqno
  BY SmallNumber
<1>2. /\ r.mode = "SABME" /\ r.vs = 0 /\ r.va = 0 /\ r.vr = e /\ r.slots = EmptySlots
      /\ r.state = s.state /\ r \in Socket
  <2>1. s.mode = "SABME" /\ s.vs = 0 /\ s.va = 0 /\ s.vr = d /\ s.slots = EmptySlots
    BY DEF Receiving
  <2>2. CASE f.ns = d
    <3>1. r = [s EXCEPT !.vr = d + 1]
      BY <1>1, <2>1, <2>2 DEF VrIncr
    <3> HIDE DEF r
    <3> QED  BY <1>1, <2>1, <2>2, <3>1 DEF Socket
  <2>3. CASE f.ns # d
    BY <2>1, <2>3
  <2> QED  BY <2>2, <2>3
<1>3. \/ u = [r EXCEPT !.rxp = 0, !.t2 = FALSE]
      \/ u = [r EXCEPT !.rxp = r.rxp + 1, !.t2 = TRUE, !.t3 = TRUE]
  BY DEF Accepted
<1> HIDE DEF r, u
<1>4. /\ u.mode = "SABME" /\ u.vs = 0 /\ u.va = 0 /\ u.vr = e /\ u.slots = EmptySlots
      /\ u.state = s.state
  BY <1>2, <1>3 DEF Socket
<1>5. Live(u)
  BY <1>4 DEF Receiving, Live
<1> QED  BY <1>4, <1>5 DEF Receiving, u

\* A step of the receiver that delivers nothing.
LEMMA ReceiverMove ==
    ASSUME IInv, IInv', NEW a \in Stations, NEW d \in Nat, Transfer(a, d),
           NEW u, sock' = [sock EXCEPT ![Peer(a)] = u], Receiving(u, d),
           u.state \in {sock[Peer(a)].state, "PENDING_DISCONNECT"}, sent' = sent, got' = got,
           NEW fs, Sends(Peer(a), fs),
           fs = <<>> \/ \E g \in Frame : /\ fs = <<g>> /\ Returned(g, d)
                                         /\ g.type \in SType => g.nr = d
    PROVE  Moves(a, d)
<1>1. ReceiverMoves(a, d)
  BY ReceiverStep
<1> QED  BY <1>1 DEF Moves

LEMMA ReceiverIMove ==
    ASSUME IInv, IInv', NEW a \in Stations, NEW d \in Nat, Transfer(a, d),
           Receiving(sock[Peer(a)], d), net[Peer(a)] # <<>>, NEW f \in Frame,
           f.nr = 0, f.ns \in Nat, f.ns < sent[a], f.data = f.ns + 1, HandleI(Peer(a), f)
    PROVE  Moves(a, d)
<1> DEFINE b == Peer(a)
           r == sock[b]
<1>1. /\ b \in Stations /\ r \in Socket /\ SockInv(r) /\ f.pf \in BOOLEAN
      /\ sent[a] \in Nat /\ sent[a] < Half /\ d <= sent[a] /\ d < Half
      /\ got \in [Stations -> SUBSET (1 .. Garbled)] /\ sock \in [Stations -> Socket]
  <2>1. /\ b \in Stations /\ sock \in [Stations -> Socket] /\ SockInv(r)
        /\ got \in [Stations -> SUBSET (1 .. Garbled)]
    BY PeerType DEF IInv, RestOK
  <2>2. sent[a] \in Nat /\ sent[a] < Half /\ d <= sent[a]
    BY SockAssumption DEF IInv, RestOK, Transfer
  <2>3. f.pf \in BOOLEAN
    BY DEF Frame
  <2> QED  BY <2>1, <2>2, <2>3, SockAssumed
<1>2. Live(r) /\ r.vr = d
  BY DEF Receiving
<1>3. CASE HandleINoLink(b, f)
  BY <1>1, <1>3, PlainMove, IfSignal, Signals DEF HandleINoLink
<1>4. CASE HandleIGap(b, f)
  <2>1. PICK u \in FrameAck(r, f) :
           /\ Become(b, u)
           /\ Reply(b, <<SFrame(u, IF f.ns = u.vr + 1 THEN "SREJ" ELSE "REJ", "R", TRUE)>>)
    BY <1>4, Zenon DEF HandleIGap
  <2>2. u \in Socket /\ Receiving(u, d) /\ u.state = r.state
    BY <1>1, ReceiverAck, AckedInv
  <2>3. PICK t \in SType : Reply(b, <<SFrame(u, t, "R", TRUE)>>)
    BY <2>1 DEF SType
  <2> DEFINE g == SFrame(u, t, "R", TRUE)
  <2>4. g \in Frame /\ Returned(g, d) /\ g.nr = d
    BY <1>1, <2>2, ReceiverFrame
  <2> HIDE DEF g
  <2>5. Sends(b, <<g>>) /\ sent' = sent /\ got' = got
    BY <1>4, <2>3 DEF g, Sends, HandleIGap
  <2> QED  BY <2>1, <2>2, <2>4, <2>5, ReceiverMove DEF Become
<1>5. CASE HandleIDeliver(b, f)
  <2>1. PICK u \in FrameAck(r, f) :
           /\ Become(b, Accepted(u, f))
           /\ Reply(b, If(f.pf, SFrame(Accepted(u, f), "RR", "R", TRUE)))
    BY <1>5, Zenon DEF HandleIDeliver
  <2>2. u \in Socket /\ SockInv(u) /\ u.t3 /\ Receiving(u, d) /\ u.state = r.state
    BY <1>1, ReceiverAck, AckedInv
  <2>3. /\ r.state = "ESTABLISHED" /\ f.ns <= d /\ sent' = sent
        /\ got' = [got EXCEPT ![b] = got[b] \cup {f.ns + 1}]
    BY <1>2, <1>5 DEF HandleIDeliver
  <2>4. got[b] = 1 .. d
    BY DEF Transfer
  <2> DEFINE e == IF f.ns = d THEN d + 1 ELSE d
             w == Accepted(u, f)
  <2>5. e \in Nat /\ e < Half /\ (f.ns = d => d + 1 < Half)
    <3>1. f.ns = d => d + 1 < Half
      BY <1>1, SockAssumed
    <3> QED  BY <1>1, <3>1
  <2>6. Receiving(w, e) /\ w.state = "ESTABLISHED" /\ w \in Socket
    BY <2>2, <2>3, <2>5, AcceptedReceiving, AcceptedInv
  <2> DEFINE fs == If(f.pf, SFrame(w, "RR", "R", TRUE))
  <2>7. fs = <<>> \/ \E g \in Frame : /\ fs = <<g>> /\ Returned(g, e)
                                      /\ g.type \in SType => g.nr = e
    <3> HIDE DEF w, e
    <3>1. SFrame(w, "RR", "R", TRUE) \in Frame /\ Returned(SFrame(w, "RR", "R", TRUE), e)
          /\ SFrame(w, "RR", "R", TRUE).nr = e
      BY <2>5, <2>6, ReceiverFrame DEF SType
    <3> QED  BY <3>1 DEF If
  <2>8. Sends(b, fs) /\ sock' = [sock EXCEPT ![b] = w]
    BY <2>1 DEF Sends, Become
  <2>9. \/ e = d /\ got' = got
        \/ e = d + 1 /\ d < sent[a] /\ got' = [got EXCEPT ![b] = 1 .. (d + 1)]
    <3>1. CASE f.ns = d
      <4>1. (1 .. d) \cup {d + 1} = 1 .. (d + 1)
        OBVIOUS
      <4> QED  BY <2>3, <2>4, <3>1, <4>1
    <3>2. CASE f.ns # d
      <4>1. f.ns + 1 \in 1 .. d
        BY <2>3, <3>2
      <4>2. got[b] \cup {f.ns + 1} = got[b]
        BY <2>4, <4>1
      <4> QED  BY <1>1, <2>3, <3>2, <4>2
    <3> QED  BY <3>1, <3>2
  <2> HIDE DEF e, w, fs
  <2>10. ReceiverMoves(a, d)
    BY <1>1, <2>3, <2>5, <2>6, <2>7, <2>8, <2>9, ReceiverStep
  <2> QED  BY <2>10 DEF Moves
<1>6. ~HandleIShort(b, f)
  BY DEF HandleIShort, NoData
<1> QED  BY <1>3, <1>4, <1>5, <1>6 DEF HandleI

LEMMA ReceiverFrameMove ==
    ASSUME IInv, IInv', NEW a \in Stations, NEW d \in Nat, Transfer(a, d),
           Receiving(sock[Peer(a)], d), HandleFrame(Peer(a))
    PROVE  Moves(a, d)
<1> DEFINE b == Peer(a)
<1>0. /\ b \in Stations /\ sock[b] \in Socket /\ SockInv(sock[b])
      /\ sent[a] \in Nat /\ sent[a] < Half /\ d <= sent[a] /\ d < Half
  BY PeerType, SockAssumption, SockAssumed DEF IInv, RestOK, Transfer
<1>1. net[b] # <<>> /\ Head(net[b]) \in Frame /\ Head(net[b]).type \in Handled
      /\ Forth(Head(net[b]), sent[a])
  BY HeadFrames DEF HandleFrame
<1>2. PICK f \in DecodeControl(Head(net[b]), sock[b].mode) :
         /\ f.type = Head(net[b]).type
         /\ \/ HandleI(b, f)
            \/ \E w \in BOOLEAN : Supervise(b, f, w) /\ f.type \in {"RR", "RNR", "REJ"}
            \/ HandleSrej(b, f)
            \/ HandleOverrun(b, f) \/ HandleUnknown(b, f)
            \/ HandleUa(b, f) \/ HandleDm(b, f) \/ HandleDisc(b, f)
  BY <1>1, FrameKinds
<1>3. \/ f \in Signal
      \/ f.type = "RR" /\ f.nr = 0
      \/ f.type = "I" /\ f.nr = 0 /\ f.ns \in Nat /\ f.ns < sent[a] /\ f.data = f.ns + 1
  BY <1>0, <1>1, <1>2, ReceiverReads DEF Receiving
<1>4. f \in Frame /\ f.pf \in BOOLEAN
  BY <1>1, <1>2, DecodeType DEF Frame
<1>5. Live(sock[b]) /\ ~Overrun(sock[b]) /\ sock[b].state # "CLOSED"
  BY <1>0, LiveFits DEF Receiving
<1>6. ~HandleOverrun(b, f) /\ ~HandleUnknown(b, f) /\ ~HandleSrej(b, f)
  BY <1>3, <1>5, SignalType DEF HandleOverrun, HandleUnknown, HandleSrej, Registered, SType
<1>7. CASE HandleUa(b, f) \/ HandleDm(b, f) \/ HandleDisc(b, f)
  BY <1>0, <1>1, <1>5, <1>7, SignalMove
<1>8. ASSUME NEW w, Supervise(b, f, w), f.type \in {"RR", "RNR", "REJ"} PROVE Moves(a, d)
  <2>1. PICK u \in FrameAck(sock[b], f) :
           Become(b, u) /\ Reply(b, If(f.cr = "C" /\ f.pf, SFrame(u, "RR", "R", TRUE)))
    BY <1>8, Zenon DEF Supervise
  <2>2. f.nr = 0
    BY <1>3, <1>8, SignalType DEF SType
  <2>3. u \in Socket /\ Receiving(u, d) /\ u.state = sock[b].state
    BY <1>0, <1>4, <2>2, ReceiverAck, AckedInv
  <2> DEFINE fs == If(f.cr = "C" /\ f.pf, SFrame(u, "RR", "R", TRUE))
  <2>4. fs = <<>> \/ \E g \in Frame : /\ fs = <<g>> /\ Returned(g, d)
                                      /\ g.type \in SType => g.nr = d
    <3>1. SFrame(u, "RR", "R", TRUE) \in Frame /\ Returned(SFrame(u, "RR", "R", TRUE), d)
          /\ SFrame(u, "RR", "R", TRUE).nr = d
      BY <1>0, <2>3, ReceiverFrame DEF SType
    <3> QED  BY <3>1 DEF If
  <2>5. sent' = sent /\ got' = got
    BY <1>8 DEF Supervise
  <2> HIDE DEF fs
  <2>6. Sends(b, fs)
    BY <1>1, <2>1 DEF fs, Sends
  <2> QED  BY <2>1, <2>3, <2>4, <2>5, <2>6, ReceiverMove DEF Become
<1>9. CASE HandleI(b, f)
  <2>1. f.type = "I"
    BY <1>9 DEF HandleI
  <2> QED  BY <1>1, <1>3, <1>4, <1>9, <2>1, SignalType, ReceiverIMove
<1> QED  BY <1>2, <1>6, <1>7, <1>8, <1>9


---------------------------------------------------------------------------
(***************************************************************************)
(* The timers, the ptys and the clients.                                    *)
(***************************************************************************)
\* A step of the sender that reads no new item and takes no frame.
LEMMA SenderMove ==
    ASSUME IInv, IInv', NEW a \in Stations, NEW d \in Nat, Transfer(a, d),
           NotBelow(net[a], sock[a].va), sent' = sent, got' = got,
           NEW u, sock' = [sock EXCEPT ![a] = u], Sending(u, sent[a], d), u.va = sock[a].va,
           u.state \in {sock[a].state, "PENDING_DISCONNECT"},
           NEW fs, Transmit(a, fs), fs = <<>> \/ \E g \in Frame : fs = <<g>> /\ Forth(g, sent[a])
    PROVE  Moves(a, d)
<1>1. net'[a] = net[a]
  <2>1. Peer(a) \in Stations /\ Peer(a) # a /\ net \in [Stations -> Seq(Frame)]
    BY PeerType DEF IInv, RestOK
  <2> QED  BY <2>1 DEF Transmit
<1>2. /\ sent' = [sent EXCEPT ![a] = sent[a]] /\ sent[a] <= sent[a] /\ sent[a] < Half
      /\ Onward(sock[a], sent[a], u, sent[a])
  <2>1. sent \in [Stations -> 0 .. MaxItem]
    BY DEF IInv, RestOK
  <2> QED  BY <2>1, SockAssumption DEF Transfer, Onward
<1>3. Sends(a, fs) /\ NotBelow(net'[a], u.va)
  BY <1>1 DEF Sends
<1>4. SenderMoves(a, d)
  BY <1>2, <1>3, SenderStep
<1> QED  BY <1>4 DEF Moves

LEMMA ResendSending ==
    ASSUME NEW s \in Socket, NEW m \in Nat, m < Half, NEW d, Sending(s, m, d)
    PROVE  /\ Sending(ResendPending(s), m, d) /\ ResendPending(s).va = s.va
           /\ ResendPending(s).state = s.state
<1>1. CASE ~Unsent(s)
  BY <1>1 DEF ResendPending
<1>2. CASE Unsent(s)
  <2>1. s.vs < m /\ s.vs \in Nat
    BY <1>2, SenderUnsent
  <2>2. s.vs + 1 < Half /\ s.vs + 1 <= m
    BY <2>1, SockAssumed
  <2>3. (s.vs + 1) % TxSlots(s.mode) = s.vs + 1
    BY <2>1, <2>2, SmallNumber DEF Sending, TxSlots
  <2> DEFINE u == ResendPending(s)
  <2>4. u = [s EXCEPT !.vs = s.vs + 1]
    BY <1>2, <2>3 DEF ResendPending
  <2> HIDE DEF u
  <2>5. /\ u.state = s.state /\ u.mode = s.mode /\ u.vr = s.vr /\ u.va = s.va
        /\ u.vs = s.vs + 1 /\ u.slots = s.slots
    BY <2>4 DEF Socket
  <2>6. s.va \in Int /\ u.va <= u.vs
    BY <2>1, <2>5, SockAssumption DEF Socket, Seqno, Sending
  <2>7. Sending(u, m, d)
    BY <2>2, <2>5, <2>6 DEF Sending, Live
  <2> QED  BY <2>5, <2>7 DEF u
<1> QED  BY <1>1, <1>2

LEMMA SenderTimerMove ==
    ASSUME IInv, IInv', NEW a \in Stations, NEW d \in Nat, Transfer(a, d),
           Sending(sock[a], sent[a], d), NotBelow(net[a], sock[a].va),
           T1Retry(a) \/ T2Expire(a) \/ T3Expire(a)
    PROVE  Moves(a, d)
<1> DEFINE s == sock[a]
           m == sent[a]
<1>1. s \in Socket /\ SockInv(s) /\ m \in Nat /\ m < Half
  BY SockAssumption DEF IInv, RestOK, Transfer
<1>2. sent' = sent /\ got' = got
  BY DEF T1Retry, T2Expire, T3Expire
<1>3. CASE T1Retry(a)
  <2> DEFINE r == [s EXCEPT !.retries = @ - 1, !.t1 = TRUE]
             u == IF s.state = "ESTABLISHED" THEN ResendPending(r) ELSE r
             g == RetryFrame(s)
  <2>1. Become(a, u) /\ Transmit(a, <<g>>) /\ s.retries > 0
    BY <1>3 DEF T1Retry
  <2>2. r \in Socket /\ Sending(r, m, d) /\ r.va = s.va /\ r.state = s.state
    <3>1. s.retries - 1 \in 0 .. NRetry
      BY <1>1, <2>1, SockAssumption DEF Socket
    <3>2. /\ r \in Socket /\ r.state = s.state /\ r.mode = s.mode /\ r.vr = s.vr
          /\ r.va = s.va /\ r.vs = s.vs /\ r.slots = s.slots
      BY <1>1, <3>1 DEF Socket
    <3> HIDE DEF r
    <3> QED  BY <3>2, SendingSame DEF Sending, Live
  <2>3. Sending(u, m, d) /\ u.va = s.va /\ u.state = s.state
    BY <1>1, <2>2, ResendSending
  <2>4. g \in Frame /\ Forth(g, m)
    <3>1. CASE s.state = "PENDING_DISCONNECT"
      BY <3>1, SignalType, Signals DEF RetryFrame, Forth
    <3>2. CASE s.state = "ESTABLISHED" /\ Unsent(s)
      <4>1. s.vs \in Nat /\ s.vs < m /\ s.slots[s.vs % TxSlots(s.mode)].data = s.vs + 1
            /\ s.vs \in Seqno
        BY <1>1, <3>2, SenderUnsent DEF Socket
      <4>2. s.vs + 1 \in 0 .. Garbled
        BY <1>1, <4>1, SenderUnsent, SlotData
      <4>3. g = IFrame(s, s.vs, s.vs + 1)
        BY <3>2, <4>1 DEF RetryFrame
      <4> QED  BY <1>1, <4>1, <4>2, <4>3, ItemFrame DEF Sending
    <3>3. CASE s.state = "ESTABLISHED" /\ ~Unsent(s)
      <4>1. g = SFrame(s, "RR", "C", TRUE)
        BY <3>3 DEF RetryFrame
      <4> QED  BY <1>1, <4>1, SenderFrame
    <3> QED  BY <3>1, <3>2, <3>3 DEF Sending, Live
  <2> HIDE DEF u, g
  <2> QED  BY <1>2, <2>1, <2>3, <2>4, SenderMove DEF Become
<1>4. CASE T2Expire(a)
  <2> DEFINE u == [s EXCEPT !.t2 = FALSE, !.rxp = 0]
             fs == If(s.rxp > 0, SFrame(s, "RR", "R", TRUE))
  <2>1. Become(a, u) /\ Transmit(a, fs)
    BY <1>4 DEF T2Expire
  <2>2. /\ u.state = s.state /\ u.mode = s.mode /\ u.vr = s.vr
        /\ u.va = s.va /\ u.vs = s.vs /\ u.slots = s.slots
    BY <1>1 DEF Socket
  <2> HIDE DEF u
  <2>3. Sending(u, m, d)
    BY <2>2, SendingSame DEF Sending, Live
  <2>4. fs = <<>> \/ \E g \in Frame : fs = <<g>> /\ Forth(g, m)
    BY <1>1, SenderFrame DEF If
  <2> HIDE DEF fs
  <2> QED  BY <1>2, <2>1, <2>2, <2>3, <2>4, SenderMove DEF Become
<1>5. CASE T3Expire(a)
  <2> DEFINE u == [s EXCEPT !.t3 = FALSE, !.t1 = TRUE, !.retries = NRetry]
             g == SFrame(s, "RR", "C", TRUE)
  <2>1. Become(a, u) /\ Transmit(a, <<g>>)
    BY <1>5 DEF T3Expire
  <2>2. /\ u.state = s.state /\ u.mode = s.mode /\ u.vr = s.vr
        /\ u.va = s.va /\ u.vs = s.vs /\ u.slots = s.slots
    BY <1>1 DEF Socket
  <2> HIDE DEF u
  <2>3. Sending(u, m, d)
    BY <2>2, SendingSame DEF Sending, Live
  <2>4. g \in Frame /\ Forth(g, m)
    BY <1>1, SenderFrame
  <2> HIDE DEF g
  <2> QED  BY <1>2, <2>1, <2>2, <2>3, <2>4, SenderMove DEF Become
<1> QED  BY <1>3, <1>4, <1>5

LEMMA ReceiverTimerMove ==
    ASSUME IInv, IInv', NEW a \in Stations, NEW d \in Nat, Transfer(a, d),
           Receiving(sock[Peer(a)], d),
           T1Retry(Peer(a)) \/ T2Expire(Peer(a)) \/ T3Expire(Peer(a))
    PROVE  Moves(a, d)
<1> DEFINE b == Peer(a)
           s == sock[b]
<1>1. b \in Stations /\ s \in Socket /\ SockInv(s) /\ d < Half
  BY PeerType, SockAssumption, SockAssumed DEF IInv, RestOK, Transfer
<1>2. sent' = sent /\ got' = got
  BY DEF T1Retry, T2Expire, T3Expire
<1>3. \A t \in SType, cr \in {"C", "R"} :
         /\ SFrame(s, t, cr, TRUE) \in Frame /\ Returned(SFrame(s, t, cr, TRUE), d)
         /\ SFrame(s, t, cr, TRUE).nr = d
  BY <1>1, ReceiverFrame
<1>4. CASE T1Retry(b)
  <2> DEFINE r == [s EXCEPT !.retries = @ - 1, !.t1 = TRUE]
             u == IF s.state = "ESTABLISHED" THEN ResendPending(r) ELSE r
             g == RetryFrame(s)
  <2>1. Become(b, u) /\ Transmit(b, <<g>>) /\ s.retries > 0
    BY <1>4 DEF T1Retry
  <2>2. r \in Socket /\ Receiving(r, d) /\ r.state = s.state
    <3>1. s.retries - 1 \in 0 .. NRetry
      BY <1>1, <2>1, SockAssumption DEF Socket
    <3>2. /\ r \in Socket /\ r.state = s.state /\ r.mode = s.mode /\ r.vr = s.vr
          /\ r.va = s.va /\ r.vs = s.vs /\ r.slots = s.slots
      BY <1>1, <3>1 DEF Socket
    <3> HIDE DEF r
    <3> QED  BY <3>2, ReceivingSame DEF Receiving, Live
  <2>3. Receiving(u, d) /\ u.state = s.state
    BY <2>2, ReceiverSilent DEF ResendPending
  <2>4. g \in Frame /\ Returned(g, d) /\ (g.type \in SType => g.nr = d)
    <3>1. CASE s.state = "PENDING_DISCONNECT"
      BY <3>1, SignalType, Signals DEF RetryFrame, Returned
    <3>2. CASE s.state = "ESTABLISHED"
      <4>1. g = SFrame(s, "RR", "C", TRUE)
        BY <1>1, <3>2, ReceiverSilent DEF RetryFrame
      <4> QED  BY <1>3, <4>1 DEF SType
    <3> QED  BY <3>1, <3>2 DEF Receiving, Live
  <2>5. Sends(b, <<g>>)
    BY <2>1 DEF Sends
  <2> HIDE DEF u, g
  <2> QED  BY <1>2, <2>1, <2>3, <2>4, <2>5, ReceiverMove DEF Become
<1>5. CASE T2Expire(b)
  <2> DEFINE u == [s EXCEPT !.t2 = FALSE, !.rxp = 0]
             fs == If(s.rxp > 0, SFrame(s, "RR", "R", TRUE))
  <2>1. Become(b, u) /\ Sends(b, fs)
    BY <1>5 DEF T2Expire, Sends
  <2>2. /\ u.state = s.state /\ u.mode = s.mode /\ u.vr = s.vr
        /\ u.va = s.va /\ u.vs = s.vs /\ u.slots = s.slots
    BY <1>1 DEF Socket
  <2> HIDE DEF u
  <2>3. Receiving(u, d)
    BY <2>2, ReceivingSame DEF Receiving, Live
  <2>4. fs = <<>> \/ \E g \in Frame : /\ fs = <<g>> /\ Returned(g, d)
                                      /\ g.type \in SType => g.nr = d
    <3>1. "RR" \in SType /\ "R" \in {"C", "R"}
      BY DEF SType
    <3> QED  BY <1>3, <3>1 DEF If
  <2> HIDE DEF fs
  <2> QED  BY <1>2, <2>1, <2>2, <2>3, <2>4, ReceiverMove DEF Become
<1>6. CASE T3Expire(b)
  <2> DEFINE u == [s EXCEPT !.t3 = FALSE, !.t1 = TRUE, !.retries = NRetry]
             g == SFrame(s, "RR", "C", TRUE)
  <2>1. Become(b, u) /\ Sends(b, <<g>>)
    BY <1>6 DEF T3Expire, Sends
  <2>2. /\ u.state = s.state /\ u.mode = s.mode /\ u.vr = s.vr
        /\ u.va = s.va /\ u.vs = s.vs /\ u.slots = s.slots
    BY <1>1 DEF Socket
  <2> HIDE DEF u
  <2>3. Receiving(u, d)
    BY <2>2, ReceivingSame DEF Receiving, Live
  <2>4. g \in Frame /\ Returned(g, d) /\ g.nr = d
    BY <1>3 DEF SType
  <2> HIDE DEF g
  <2> QED  BY <1>2, <2>1, <2>2, <2>3, <2>4, ReceiverMove DEF Become
<1> QED  BY <1>4, <1>5, <1>6

\* The last retry, and close(): a DISC, or nothing.
LEMMA EndMove ==
    ASSUME IInv, IInv', NEW a \in Stations, NEW d \in Nat, Transfer(a, d), NEW n \in Stations,
           T1GiveUp(n) \/ ServerClose(n)
    PROVE  Moves(a, d)
<1>1. /\ SockClose(n) /\ Transmit(n, ShutDownFrames(sock[n])) /\ sent' = sent /\ got' = got
  BY DEF T1GiveUp, ServerClose
<1>2. ShutDownFrames(sock[n]) = <<>> \/ \E g \in Signal : ShutDownFrames(sock[n]) = <<g>>
  BY Signals DEF ShutDownFrames
<1> QED  BY <1>1, <1>2, CloseMove DEF Sends

\* read() fails: the link is released.
LEMMA PtyEofMove ==
    ASSUME IInv, IInv', NEW a \in Stations, NEW d \in Nat, Transfer(a, d), NEW n \in Stations,
           n = a => Sending(sock[a], sent[a], d) /\ NotBelow(net[a], sock[a].va),
           n = Peer(a) => Receiving(sock[Peer(a)], d),
           PtyEof(n)
    PROVE  Moves(a, d)
<1> DEFINE s == sock[n]
           u == ShutDown(s)
           fs == ShutDownFrames(s)
<1>1. Become(n, u) /\ Transmit(n, fs) /\ sent' = sent /\ got' = got
  BY DEF PtyEof
<1>2. s \in Socket
  BY DEF IInv
<1>3. /\ u.mode = s.mode /\ u.vr = s.vr /\ u.va = s.va /\ u.vs = s.vs
      /\ u.slots = s.slots /\ u.state \in {s.state, "PENDING_DISCONNECT"}
  BY <1>2 DEF ShutDown, Socket
<1>4. fs = <<>> \/ fs = <<UFrame("DISC")>>
  BY DEF ShutDownFrames
<1> HIDE DEF u, fs
<1>5. CASE n = a
  <2>1. Live(u)
    BY <1>3, <1>5 DEF Sending, Live
  <2>2. Sending(u, sent[a], d)
    BY <1>3, <1>5, <2>1, SendingSame
  <2>3. fs = <<>> \/ \E g \in Frame : fs = <<g>> /\ Forth(g, sent[a])
    BY <1>4, SignalType, Signals DEF Forth
  <2> QED  BY <1>1, <1>3, <1>5, <2>2, <2>3, SenderMove DEF Become
<1>6. CASE n = Peer(a)
  <2>1. Live(u)
    BY <1>3, <1>6 DEF Receiving, Live
  <2>2. Receiving(u, d)
    BY <1>3, <1>6, <2>1, ReceivingSame
  <2>3. fs = <<>> \/ \E g \in Frame : /\ fs = <<g>> /\ Returned(g, d)
                                      /\ g.type \in SType => g.nr = d
    BY <1>4, SignalType, Signals DEF Returned
  <2>4. Sends(Peer(a), fs)
    BY <1>1, <1>6 DEF Sends
  <2> QED  BY <1>1, <1>3, <1>6, <2>2, <2>3, <2>4, ReceiverMove DEF Become
<1> QED  BY <1>5, <1>6, StationRoles

LEMMA SenderPtyMove ==
    ASSUME IInv, IInv', NEW a \in Stations, NEW d \in Nat, Transfer(a, d), MaxSend[a] < Half,
           Sending(sock[a], sent[a], d), NotBelow(net[a], sock[a].va),
           PtyResend(a) \/ PtyWrite(a)
    PROVE  Moves(a, d)
<1> DEFINE s == sock[a]
           m == sent[a]
<1>1. /\ s \in Socket /\ SockInv(s) /\ m \in Nat /\ m < Half /\ d <= m
      /\ sent \in [Stations -> 0 .. MaxItem] /\ MaxSend[a] \in Nat
  BY SockAssumption, LinkAssumption DEF IInv, RestOK, Transfer
<1>2. CASE PtyResend(a)
  <2> DEFINE r == ResendPending(s)
             u == [r EXCEPT !.t1 = TRUE]
             fs == Resend(s, s.vs)
  <2>1. Become(a, u) /\ Transmit(a, fs) /\ sent' = sent /\ got' = got
    BY <1>2 DEF PtyResend
  <2>2. Sending(r, m, d) /\ r.va = s.va /\ r.state = s.state /\ r \in Socket
    BY <1>1, ResendSending, ResendPendingInv
  <2> HIDE DEF r
  <2>3. /\ u.state = r.state /\ u.mode = r.mode /\ u.vr = r.vr
        /\ u.va = r.va /\ u.vs = r.vs /\ u.slots = r.slots
    BY <2>2 DEF Socket
  <2> HIDE DEF u
  <2>4. Sending(u, m, d)
    BY <2>2, <2>3, SendingSame DEF Sending, Live
  <2>5. fs = <<>> \/ \E g \in Frame : fs = <<g>> /\ Forth(g, m)
    <3>1. s.vs \in Nat /\ s.vs < Half
      BY <1>1, SenderUnsent, SockAssumed DEF Sending
    <3> QED  BY <1>1, <3>1, SenderResend
  <2> HIDE DEF fs
  <2> QED  BY <2>1, <2>2, <2>3, <2>4, <2>5, SenderMove DEF Become
<1>3. CASE PtyWrite(a)
  <2> DEFINE r == TxSlotSave(s, m + 1)
             u == [VsIncr(r) EXCEPT !.t1 = TRUE, !.t3 = FALSE]
             g == IFrame(r, r.vs, m + 1)
  <2>1. /\ Become(a, u) /\ Transmit(a, <<g>>) /\ sent' = [sent EXCEPT ![a] = m + 1]
        /\ got' = got /\ m < MaxSend[a] /\ ~Unsent(s) /\ s.state = "ESTABLISHED"
    BY <1>3 DEF PtyWrite
  <2>2. m + 1 \in Nat /\ m + 1 < Half /\ m <= m + 1
    BY <1>1, <2>1, SockAssumed
  <2>3. s.vs = m /\ s.mode = "SABME" /\ s.vr = 0 /\ s.va \in Nat /\ s.va <= m
    <3>1. ~(s.vs < m) /\ s.vs \in Nat
      BY <1>1, <2>1, SenderUnsent
    <3>2. s.vs <= m /\ s.va <= s.vs /\ s.va \in Nat
      BY <1>1, SockAssumption DEF Sending, Socket, Seqno
    <3> QED  BY <1>1, <3>1, <3>2 DEF Sending
  <2>4. m \in Seqno /\ m % ModExt = m /\ (m + 1) % ModExt = m + 1
    BY <1>1, <2>2, SmallNumber
  <2>5. r = [s EXCEPT !.slots[m] = [data |-> m + 1, ack |-> FALSE]]
    BY <2>3, <2>4 DEF TxSlotSave, TxSlots
  <2> HIDE DEF r
  <2>6. /\ r.mode = "SABME" /\ r.vr = 0 /\ r.vs = m /\ r.va = s.va /\ r.state = s.state
        /\ r.slots = [s.slots EXCEPT ![m] = [data |-> m + 1, ack |-> FALSE]]
    BY <1>1, <2>3, <2>5 DEF Socket
  <2>7. m + 1 \in 0 .. MaxItem
    <3>1. sent'[a] \in 0 .. MaxItem
      BY DEF IInv, RestOK
    <3> QED  BY <1>1, <2>1, <3>1
  <2>8. r \in Socket
    <3>1. s.slots \in [Seqno -> Slot] /\ [data |-> m + 1, ack |-> FALSE] \in Slot
      BY <1>1, <2>7, SockAssumption DEF Socket, Slot, Item, NoData
    <3>2. [s.slots EXCEPT ![m] = [data |-> m + 1, ack |-> FALSE]] \in [Seqno -> Slot]
      BY <3>1
    <3> QED  BY <1>1, <2>5, <3>2 DEF Socket
  <2>9. u = [r EXCEPT !.vs = m + 1, !.t1 = TRUE, !.t3 = FALSE]
    BY <2>4, <2>6, <2>8 DEF VsIncr, Socket
  <2> HIDE DEF u
  <2>10. /\ u.mode = "SABME" /\ u.vr = 0 /\ u.vs = m + 1 /\ u.va = s.va
         /\ u.state = "ESTABLISHED" /\ u.slots = r.slots
    BY <2>1, <2>6, <2>8, <2>9 DEF Socket
  <2>11. \A i \in Seqno : /\ u.slots[i].data = (IF i < m + 1 THEN i + 1 ELSE NoData)
                          /\ u.slots[i].ack = (i < u.va)
    <3> SUFFICES ASSUME NEW i \in Seqno
                 PROVE  /\ u.slots[i].data = (IF i < m + 1 THEN i + 1 ELSE NoData)
                        /\ u.slots[i].ack = (i < u.va)
      OBVIOUS
    <3>0. i \in Int
      BY SockAssumption DEF Seqno
    <3>1. s.slots \in [Seqno -> Slot] /\ i \in Int
      <4> HIDE DEF Slot
      <4> QED  BY <1>1, <3>0 DEF Socket
    <3>2. CASE i = m
      <4>1. u.slots[i] = [data |-> m + 1, ack |-> FALSE]
        BY <2>4, <2>6, <2>10, <3>1, <3>2
      <4>2. ~(m < s.va) /\ m < m + 1
        BY <1>1, <2>3
      <4>3. u.slots[i].data = m + 1 /\ u.slots[i].ack = FALSE
        BY <4>1
      <4>4. u.slots[i].data = i + 1 /\ i < m + 1
        BY <3>2, <4>2, <4>3
      <4>5. (i < u.va) = FALSE
        BY <2>10, <3>2, <4>2
      <4>6. u.slots[i].ack = FALSE
        BY <3>2, <4>3
      <4> QED  BY <4>4, <4>5, <4>6, Zenon
    <3>3. CASE i # m
      <4>1. u.slots[i] = s.slots[i]
        BY <2>6, <2>10, <3>1, <3>3
      <4>2. (i < m) = (i < m + 1)
        BY <1>1, <3>1, <3>3
      <4> QED  BY <2>10, <4>1, <4>2 DEF Sending
    <3> QED  BY <3>2, <3>3
  <2>12. Sending(u, m + 1, d)
    <3>1. s.va <= d /\ u.va <= u.vs /\ u.vs <= m + 1
      BY <1>1, <2>3, <2>10 DEF Sending
    <3> QED  BY <2>10, <2>11, <3>1 DEF Sending, Live
  <2>13. g \in Frame /\ Forth(g, m + 1)
    <3>1. m + 1 \in 0 .. Garbled /\ m < m + 1
      BY <1>1, <2>7, SockAssumption DEF Garbled
    <3> QED  BY <1>1, <2>2, <2>6, <2>8, <3>1, ItemFrame
  <2>14. net'[a] = net[a]
    <3>1. Peer(a) \in Stations /\ Peer(a) # a /\ net \in [Stations -> Seq(Frame)]
      BY PeerType DEF IInv, RestOK
    <3> QED  BY <2>1, <3>1 DEF Transmit
  <2>15. Onward(s, m, u, m + 1)
    BY <2>1, <2>10 DEF Onward
  <2> HIDE DEF g
  <2>16. SenderMoves(a, d)
    BY <2>1, <2>2, <2>10, <2>12, <2>13, <2>14, <2>15, SenderStep DEF Become, Sends
  <2> QED  BY <2>16 DEF Moves
<1> QED  BY <1>2, <1>3

LEMMA SetParamsMove ==
    ASSUME IInv, IInv', NEW a \in Stations, NEW d \in Nat, Transfer(a, d), Callers = {},
           sock[Peer(a)] = NewSock \/ Receiving(sock[Peer(a)], d), SetParams(Peer(a))
    PROVE  Moves(a, d)
<1> DEFINE b == Peer(a)
           s == sock[b]
<1>1. b \in Stations /\ s \in Socket
  BY PeerType DEF IInv
<1>2. Receiving(s, d)
  BY NewSockFacts DEF SetParams, Registered
<1>3. PICK w \in Windows : Become(b, ReallocBufs([s EXCEPT !.k = w]))
  BY DEF SetParams
<1> DEFINE u == ReallocBufs([s EXCEPT !.k = w])
<1>4. /\ u.state = s.state /\ u.mode = s.mode /\ u.vr = s.vr
      /\ u.va = s.va /\ u.vs = s.vs /\ u.slots = EmptySlots
  BY <1>1 DEF ReallocBufs, Socket
<1> HIDE DEF u
<1>5. Receiving(u, d)
  BY <1>2, <1>4, ReceivingSame DEF Receiving, Live
<1>6. sent' = sent /\ got' = got /\ Sends(b, <<>>)
  BY <1>1, SilentSends DEF SetParams
<1> QED  BY <1>3, <1>4, <1>5, <1>6, ReceiverMove DEF Become, u

LEMMA Stutters ==
    ASSUME IInv, IInv', NEW a \in Stations, NEW d \in Nat, Transfer(a, d), NEW n \in Stations,
           sock' = sock, sent' = sent, got' = got, net' = net \/ Lose(n)
    PROVE  Moves(a, d)
<1>1. Sends(n, <<>>)
  BY SilentSends, LoseSends
<1>2. sock' = [sock EXCEPT ![n] = sock[n]]
  BY DEF IInv
<1> QED  BY <1>1, <1>2, QuietStep

\* Every step is a move of the sender or of the receiver.
LEMMA StepMoves ==
    ASSUME IInv, IInv', NEW a, OneWay(a), NEW d \in Nat, Transfer(a, d), [Next]_vars
    PROVE  Moves(a, d)
<1> DEFINE b == Peer(a)
<1>0. /\ a \in Stations /\ b \in Stations /\ a # b /\ Callers = {} /\ Setters \subseteq {b}
      /\ MaxSend[a] < Half /\ MaxSend[b] = 0
      /\ \A n \in Stations : Peer(n) \in Patty /\ n \notin Callers
      /\ \A n \in Stations : n = a \/ n = b
      /\ sent \in [Stations -> 0 .. MaxItem]
  BY PeerType, StationRoles DEF OneWay, IInv, RestOK
<1>1. CASE UNCHANGED vars
  BY <1>0, <1>1, Stutters DEF vars
<1>2. ASSUME NEW n \in Stations, Channel(n) \/ HangUp(n) PROVE Moves(a, d)
  <2>1. ~ForeignSend(n)
    BY <1>0 DEF ForeignSend
  <2>2. sock' = sock /\ sent' = sent /\ got' = got /\ (net' = net \/ Lose(n))
    BY <1>2, <2>1 DEF Channel, HangUp, Lose
  <2> QED  BY <1>0, <2>2, Stutters
<1>3. ASSUME NEW n \in Stations, T1GiveUp(n) \/ ServerClose(n) PROVE Moves(a, d)
  BY <1>0, <1>3, EndMove
<1>4. ASSUME NEW n \in Stations, ServerConnect(n) PROVE FALSE
  BY <1>0, <1>4 DEF ServerConnect
<1>5. ASSUME NEW n \in Stations, SetParams(n) PROVE Moves(a, d)
  <2>1. n = b
    BY <1>0, <1>5 DEF SetParams
  <2>2. sock[b] = NewSock \/ Receiving(sock[b], d)
    BY DEF Transfer, ReceiverOK
  <2> QED  BY <1>0, <1>5, <2>1, <2>2, SetParamsMove
<1>6. ASSUME NEW n \in Stations, sock[n] = NewSock,
             HandleFrame(n) \/ T1Retry(n) \/ T2Expire(n) \/ T3Expire(n) \/ Pty(n)
      PROVE  Moves(a, d)
  <2>1. sock[n].state = "CLOSED"
    BY <1>6, NewSockFacts
  <2>2. HandleFrame(n)
    BY <1>6, <2>1 DEF T1Retry, T2Expire, T3Expire, Pty, PtyReady, PtyResend, PtyWrite,
                      PtyWriteBadMode, PtyEof
  <2> QED  BY <1>0, <1>6, <2>2, ClosedFrameMove
<1>7. ASSUME Sending(sock[a], sent[a], d), NotBelow(net[a], sock[a].va),
             HandleFrame(a) \/ T1Retry(a) \/ T2Expire(a) \/ T3Expire(a) \/ Pty(a)
      PROVE  Moves(a, d)
  <2>1. CASE HandleFrame(a)
    BY <1>0, <1>7, <2>1, SenderFrameMove
  <2>2. CASE T1Retry(a) \/ T2Expire(a) \/ T3Expire(a)
    BY <1>0, <1>7, <2>2, SenderTimerMove
  <2>3. CASE PtyResend(a) \/ PtyWrite(a)
    BY <1>0, <1>7, <2>3, SenderPtyMove
  <2>4. ~PtyWriteBadMode(a)
    BY <1>7 DEF PtyWriteBadMode, Sending
  <2>5. CASE PtyEof(a)
    BY <1>0, <1>7, <2>5, PtyEofMove
  <2> QED  BY <1>7, <2>1, <2>2, <2>3, <2>4, <2>5 DEF Pty
<1>8. ASSUME Receiving(sock[b], d),
             HandleFrame(b) \/ T1Retry(b) \/ T2Expire(b) \/ T3Expire(b) \/ Pty(b)
      PROVE  Moves(a, d)
  <2>1. CASE HandleFrame(b)
    BY <1>0, <1>8, <2>1, ReceiverFrameMove
  <2>2. CASE T1Retry(b) \/ T2Expire(b) \/ T3Expire(b)
    BY <1>0, <1>8, <2>2, ReceiverTimerMove
  <2>3. ~PtyResend(b)
    BY <1>0, <1>8, ReceiverSilent DEF PtyResend, IInv
  <2>4. ~PtyWriteBadMode(b) /\ ~PtyWrite(b)
    BY <1>0 DEF PtyWriteBadMode, PtyWrite
  <2>5. CASE PtyEof(b)
    BY <1>0, <1>8, <2>5, PtyEofMove
  <2> QED  BY <1>8, <2>1, <2>2, <2>3, <2>4, <2>5 DEF Pty
<1>9. SenderOK(sock[a], sent[a], d, net[a]) /\ ReceiverOK(sock[b], d)
  BY DEF Transfer
<1>10. CASE Next
  <2>1. PICK n \in Stations :
           HandleFrame(n) \/ Timers(n) \/ Pty(n) \/ Client(n) \/ Channel(n)
    BY <1>10 DEF Next
  <2>2. CASE Timers(n)
    BY <1>0, <1>3, <1>6, <1>7, <1>8, <1>9, <2>2 DEF Timers, SenderOK, ReceiverOK
  <2>3. CASE HandleFrame(n) \/ Pty(n)
    BY <1>0, <1>6, <1>7, <1>8, <1>9, <2>3 DEF SenderOK, ReceiverOK
  <2>4. CASE Client(n)
    BY <1>2, <1>3, <1>4, <1>5, <2>4 DEF Client
  <2> QED  BY <1>2, <2>1, <2>2, <2>3, <2>4
<1> QED  BY <1>1, <1>10

LEMMA TransferNext ==
    ASSUME IInv, IInv', NEW a, OneWay(a), TransferInv(a), [Next]_vars
    PROVE  TransferInv(a)'
<1>1. PICK d \in Nat : Transfer(a, d)
  BY DEF TransferInv
<1>2. Moves(a, d)
  BY <1>1, StepMoves
<1>3. d + 1 \in Nat
  OBVIOUS
<1> QED  BY <1>2, <1>3 DEF Moves, SenderMoves, ReceiverMoves, TransferInv

LEMMA TransferInit ==
    ASSUME Init, IInv, NEW a, OneWay(a)
    PROVE  TransferInv(a)
<1> DEFINE b == Peer(a)
           s == sock[a]
           r == sock[b]
<1>1. /\ a \in Stations /\ b \in Stations /\ a # b /\ Connected
      /\ Base \in Nat /\ Base < Half /\ (Base = 0 \/ a = 1) /\ (a = 1 \/ a = 2)
      /\ b = (IF a = 1 THEN 2 ELSE 1) /\ Base % ModExt = Base /\ Base <= MaxItem
  BY PeerType, LinkAssumption, SmallNumber DEF OneWay, Stations, Peer
<1>2. /\ net[a] = <<>> /\ net[b] = <<>> /\ sent[a] = Base
      /\ got[a] = {} /\ got[b] = 1 .. Base
      /\ s = (IF a = 1 THEN CallerSock ELSE ListenerSock)
      /\ r = (IF a = 1 THEN ListenerSock ELSE CallerSock)
  BY <1>1 DEF Init, Stations
<1>3. CallerSock.slots = [i \in Seqno |-> IF i < Base THEN [data |-> i + 1, ack |-> TRUE]
                                                      ELSE EmptySlots[i]]
  BY DEF CallerSock, NewSock
<1>4. \A i \in Seqno : EmptySlots[i] = [data |-> NoData, ack |-> FALSE]
  BY DEF EmptySlots
<1>5. /\ CallerSock.mode = "SABME" /\ CallerSock.vr = 0 /\ CallerSock.va = Base
      /\ CallerSock.vs = Base /\ CallerSock.state = "ESTABLISHED"
  BY <1>1 DEF CallerSock, NewSock
<1>6. /\ ListenerSock.mode = "SABME" /\ ListenerSock.vr = Base /\ ListenerSock.va = 0
      /\ ListenerSock.vs = 0 /\ ListenerSock.state = "ESTABLISHED"
      /\ ListenerSock.slots = EmptySlots
  BY <1>1 DEF ListenerSock, NewSock
<1>7. Base = 0 => CallerSock.slots = EmptySlots
  <2> SUFFICES ASSUME Base = 0 PROVE CallerSock.slots = EmptySlots
    OBVIOUS
  <2>1. \A i \in Seqno : ~(i < Base)
    BY SockAssumption DEF Seqno
  <2>2. \A i \in Seqno : CallerSock.slots[i] = EmptySlots[i]
    BY <1>3, <2>1
  <2> QED  BY <1>3, <2>2 DEF EmptySlots
<1>8. Sending(s, Base, Base)
  <2>1. CASE a = 1
    <3>1. \A i \in Seqno : /\ s.slots[i].data = (IF i < Base THEN i + 1 ELSE NoData)
                           /\ s.slots[i].ack = (i < Base)
      <4> SUFFICES ASSUME NEW i \in Seqno
                   PROVE  /\ CallerSock.slots[i].data = (IF i < Base THEN i + 1 ELSE NoData)
                          /\ CallerSock.slots[i].ack = (i < Base)
        BY <1>2, <2>1
      <4>1. CASE i < Base
        <5>1. CallerSock.slots[i].data = i + 1 /\ CallerSock.slots[i].ack = TRUE
          BY <1>3, <4>1
        <5>2. (i < Base) = TRUE
          BY <4>1
        <5> QED  BY <5>1, <5>2, Zenon
      <4>2. CASE ~(i < Base)
        <5>1. CallerSock.slots[i].data = NoData /\ CallerSock.slots[i].ack = FALSE
          BY <1>3, <1>4, <4>2
        <5>2. (i < Base) = FALSE
          BY <4>2
        <5> QED  BY <5>1, <5>2, Zenon
      <4> QED  BY <4>1, <4>2
    <3> HIDE DEF s
    <3> QED  BY <1>1, <1>2, <1>5, <2>1, <3>1 DEF Sending, Live
  <2>2. CASE a = 2
    <3>1. Base = 0 /\ \A i \in Seqno : ~(i < 0)
      BY <1>1, <2>2, SockAssumption DEF Seqno
    <3>2. \A i \in Seqno : /\ s.slots[i].data = (IF i < Base THEN i + 1 ELSE NoData)
                           /\ s.slots[i].ack = (i < Base)
      <4> SUFFICES ASSUME NEW i \in Seqno
                   PROVE  /\ EmptySlots[i].data = (IF i < Base THEN i + 1 ELSE NoData)
                          /\ EmptySlots[i].ack = (i < Base)
        BY <1>2, <1>6, <2>2
      <4>1. EmptySlots[i].data = NoData /\ EmptySlots[i].ack = FALSE
        BY <1>4
      <4>2. (i < Base) = FALSE
        BY <3>1
      <4> QED  BY <4>1, <4>2, Zenon
    <3> HIDE DEF s
    <3> QED  BY <1>2, <1>6, <2>2, <3>1, <3>2 DEF Sending, Live
  <2> QED  BY <1>1, <2>1, <2>2
<1>9. Receiving(r, Base)
  <2>1. CASE a = 1
    BY <1>2, <1>6, <2>1 DEF Receiving, Live
  <2>2. CASE a = 2
    BY <1>1, <1>2, <1>5, <1>7, <2>2 DEF Receiving, Live
  <2> QED  BY <1>1, <2>1, <2>2
<1>10. NotBelow(net[a], s.va) /\ AllForth(net[b], sent[a]) /\ AllReturned(net[a], Base)
       /\ Rising(net[a])
  BY <1>2 DEF NotBelow, AllForth, AllReturned, Rising
<1>11. Transfer(a, Base)
  BY <1>1, <1>2, <1>8, <1>9, <1>10 DEF Transfer, SenderOK, ReceiverOK
<1> QED  BY <1>1, <1>11 DEF TransferInv

---------------------------------------------------------------------------
LEMMA TransferOK ==
    ASSUME IInv, NEW a, OneWay(a), TransferInv(a)
    PROVE  NoGap /\ AckedDelivered
<1>1. PICK d \in Nat : Transfer(a, d)
  BY DEF TransferInv
<1> DEFINE b == Peer(a)
<1>2. /\ a \in Stations /\ b \in Stations /\ a # b /\ Peer(b) = a
      /\ \A n \in Stations : n = a \/ n = b
      /\ sent[a] \in 0 .. MaxItem /\ MaxItem \in Nat /\ sock[a] \in Socket
      /\ got[a] = {} /\ got[b] = 1 .. d /\ d \in 0 .. sent[a]
  BY <1>1, PeerType, StationRoles, SockAssumption DEF OneWay, IInv, RestOK, Transfer
<1>3. NoGap
  <2>1. d \in 0 .. MaxItem /\ 0 \in 0 .. MaxItem /\ {} = 1 .. 0
    BY <1>2
  <2> QED  BY <1>2, <2>1 DEF NoGap
<1>4. \A i \in Seqno : ~NewSock.slots[i].ack /\ ~EmptySlots[i].ack
  BY DEF NewSock, EmptySlots
<1>5. ASSUME NEW i \in Seqno, sock[b].slots[i].ack PROVE FALSE
  BY <1>1, <1>4, <1>5 DEF Transfer, ReceiverOK, Receiving
<1>6. ASSUME NEW i \in Seqno, sock[a].slots[i].ack PROVE sock[a].slots[i].data \in got[b]
  <2>1. Sending(sock[a], sent[a], d)
    BY <1>1, <1>4, <1>6 DEF Transfer, SenderOK
  <2>2. i < sock[a].va /\ sock[a].va \in Int /\ sock[a].va <= d /\ i \in Nat
    <3>1. sock[a].va \in Int /\ i \in Nat
      BY <1>2, SockAssumption DEF Socket, Seqno
    <3>2. sock[a].slots[i].ack = (i < sock[a].va) /\ sock[a].va <= d
      BY <2>1 DEF Sending
    <3> QED  BY <1>6, <3>1, <3>2
  <2>3. i < sent[a] /\ i + 1 \in 1 .. d
    BY <1>2, <2>2
  <2>4. sock[a].slots[i].data = i + 1
    BY <2>1, <2>3 DEF Sending
  <2> QED  BY <1>2, <2>3, <2>4
<1>7. AckedDelivered
  BY <1>2, <1>5, <1>6 DEF AckedDelivered
<1> QED  BY <1>3, <1>7

LEMMA TransferAlways ==
    ASSUME NEW CONSTANT a, OneWay(a)
    PROVE  Spec => [](IInv /\ TransferInv(a))
<1>1. Init => IInv /\ TransferInv(a)
  BY InitInv, TransferInit
<1>2. IInv /\ TransferInv(a) /\ [Next]_vars => (IInv /\ TransferInv(a))'
  BY StepInv, TransferNext
<1> QED  BY <1>1, <1>2, PTL DEF Spec

(***************************************************************************)
(* NoGap and AckedDelivered, on a link that one station sends over:         *)
(* whatever the channel loses and whenever the timers expire, what          *)
(* handle_i() has written to the pty of the receiver is a beginning of what *)
(* was read from the pty of the sender, and the sender has marked as        *)
(* acknowledged only what was written there.                                *)
(***************************************************************************)
THEOREM AlwaysNoGap == (\E a \in Stations : OneWay(a)) => (Spec => []NoGap)
<1> SUFFICES ASSUME NEW a \in Stations, OneWay(a) PROVE Spec => []NoGap
  OBVIOUS
<1>1. IInv /\ TransferInv(a) => NoGap
  BY TransferOK
<1>2. Spec => [](IInv /\ TransferInv(a))
  BY TransferAlways
<1> QED  BY <1>1, <1>2, PTL

THEOREM AlwaysDelivered == (\E a \in Stations : OneWay(a)) => (Spec => []AckedDelivered)
<1> SUFFICES ASSUME NEW a \in Stations, OneWay(a) PROVE Spec => []AckedDelivered
  OBVIOUS
<1>1. IInv /\ TransferInv(a) => AckedDelivered
  BY TransferOK
<1>2. Spec => [](IInv /\ TransferInv(a))
  BY TransferAlways
<1> QED  BY <1>1, <1>2, PTL

---------------------------------------------------------------------------
(***************************************************************************)
(* The link implements the pipe of Pipe.tla.                                *)
(***************************************************************************)
\* What the two ends know: everything behind V(A), and nothing.
LEMMA KnownSent ==
    ASSUME NEW s \in Socket, NEW m \in Nat, m < Half, NEW d \in Nat, d <= m, Sending(s, m, d)
    PROVE  AckedItems(s) = 1 .. s.va
<1>1. /\ s.va \in Nat /\ s.va <= m
      /\ \A i \in Seqno : i \in Nat
  BY SockAssumption DEF Socket, Seqno, Sending
<1>2. \A i \in Seqno : s.slots[i].ack => i < s.va /\ i + 1 \in 1 .. s.va /\ s.slots[i].data = i + 1
  <2> SUFFICES ASSUME NEW i \in Seqno, s.slots[i].ack
               PROVE  i < s.va /\ i + 1 \in 1 .. s.va /\ s.slots[i].data = i + 1
    OBVIOUS
  <2>1. s.slots[i].ack = (i < s.va) /\ s.slots[i].data = (IF i < m THEN i + 1 ELSE NoData)
    BY DEF Sending
  <2>2. i < s.va
    BY <2>1
  <2> QED  BY <1>1, <2>1, <2>2
<1>3. \A k \in 1 .. s.va : /\ k - 1 \in Seqno /\ s.slots[k - 1].ack
                           /\ s.slots[k - 1].data = k
  <2> SUFFICES ASSUME NEW k \in 1 .. s.va
               PROVE  k - 1 \in Seqno /\ s.slots[k - 1].ack /\ s.slots[k - 1].data = k
    OBVIOUS
  <2>1. k - 1 \in Nat /\ k - 1 < s.va /\ k - 1 < m /\ k - 1 + 1 = k
    BY <1>1
  <2>2. k - 1 \in Seqno
    BY <2>1, SmallNumber, SockAssumed
  <2>3. s.slots[k - 1].ack = (k - 1 < s.va)
        /\ s.slots[k - 1].data = (IF k - 1 < m THEN k - 1 + 1 ELSE NoData)
    BY <2>2 DEF Sending
  <2>4. s.slots[k - 1].ack
    BY <2>1, <2>3
  <2> QED  BY <2>1, <2>2, <2>3, <2>4
<1> QED  BY <1>2, <1>3 DEF AckedItems

LEMMA KnownNothing ==
    ASSUME NEW s, s.slots = EmptySlots
    PROVE  AckedItems(s) = {}
BY DEF EmptySlots, AckedItems

LEMMA KnownSender ==
    ASSUME NEW s \in Socket, NEW m \in Nat, m < Half, NEW d \in Nat, d <= m, NEW ch,
           SenderOK(s, m, d, ch)
    PROVE  /\ AckedItems(s) = 1 .. s.va /\ 1 .. s.va \subseteq 1 .. d
           /\ s.state # "CLOSED" => s # NewSock
<1>1. NewSock.slots = EmptySlots /\ NewSock.va = 0 /\ 1 .. 0 = {} /\ NewSock.state = "CLOSED"
  BY DEF NewSock
<1>2. CASE s = NewSock
  BY <1>1, <1>2, KnownNothing
<1>3. CASE Sending(s, m, d)
  <2>1. s.va \in Nat /\ s.va <= d
    BY <1>3, SockAssumption DEF Socket, Seqno, Sending
  <2>2. 1 .. s.va \subseteq 1 .. d
    BY <2>1
  <2>3. s.state # "CLOSED"
    BY <1>3 DEF Sending, Live
  <2> QED  BY <1>1, <1>3, <2>2, <2>3, KnownSent
<1> QED  BY <1>2, <1>3 DEF SenderOK

LEMMA KnownReceiver ==
    ASSUME NEW s, NEW d, ReceiverOK(s, d)
    PROVE  AckedItems(s) = {}
BY KnownNothing DEF ReceiverOK, Receiving, NewSock

LEMMA PipeNames == Pipe!Ends = Stations /\ \A n \in Stations : Pipe!Other(n) = Peer(n)
BY DEF Pipe!Ends, Pipe!Other, Stations, Peer

\* One socket changes, and with it one end.
LEMMA OneEnd ==
    ASSUME NEW n \in Stations, NEW u, sock \in [Stations -> Socket],
           sock' = [sock EXCEPT ![n] = u]
    PROVE  /\ Open' = [Open EXCEPT ![n] = (u.state = "ESTABLISHED")]
           /\ Known' = [Known EXCEPT ![n] = AckedItems(u)]
           /\ Open[n] = (sock[n].state = "ESTABLISHED") /\ Known[n] = AckedItems(sock[n])
<1>1. Open' = [m \in Stations |-> [sock EXCEPT ![n] = u][m].state = "ESTABLISHED"]
  BY DEF Open
<1>2. Known' = [m \in Stations |-> AckedItems([sock EXCEPT ![n] = u][m])]
  BY DEF Known, AckedItems
<1>3. \A m \in Stations : [sock EXCEPT ![n] = u][m] = IF m = n THEN u ELSE sock[m]
  OBVIOUS
<1>4. Open' = [Open EXCEPT ![n] = (u.state = "ESTABLISHED")]
  BY <1>1, <1>3, Zenon DEF Open
<1>5. Known' = [Known EXCEPT ![n] = AckedItems(u)]
  BY <1>2, <1>3 DEF Known
<1> QED  BY <1>4, <1>5 DEF Open, Known

\* A step of the sender writes an item, hears of items delivered, or releases
\* the link.
LEMMA SenderPipe ==
    ASSUME IInv, IInv', NEW a \in Stations, NEW d \in Nat, Transfer(a, d), SenderMoves(a, d)
    PROVE  [Pipe!Next]_(Pipe!vars)
<1> DEFINE b == Peer(a)
           s == sock[a]
<1>1. PICK u : /\ sock' = [sock EXCEPT ![a] = u]
               /\ \E k : /\ sent' = [sent EXCEPT ![a] = k]
                         /\ Onward(sock[a], sent[a], u, k)
  BY DEF SenderMoves
<1>2. PICK k : sent' = [sent EXCEPT ![a] = k] /\ Onward(sock[a], sent[a], u, k)
  BY <1>1
<1>3. /\ b \in Stations /\ a # b /\ sock \in [Stations -> Socket] /\ got' = got
      /\ sent \in [Stations -> 0 .. MaxItem] /\ sent[a] \in Nat /\ k \in Nat
      /\ sock'[a] = u /\ u \in Socket /\ sent'[a] = k
  <2>1. sent' \in [Stations -> 0 .. MaxItem] /\ sock' \in [Stations -> Socket]
    BY DEF IInv, RestOK
  <2> QED  BY <1>1, <1>2, <2>1, PeerType, SockAssumption DEF IInv, RestOK, SenderMoves
<1>4. Known[a] = 1 .. s.va /\ (s.state # "CLOSED" => s # NewSock) /\ got[b] = 1 .. d
  <2>1. sent[a] < Half /\ d <= sent[a] /\ SenderOK(s, sent[a], d, net[a]) /\ got[b] = 1 .. d
    BY <1>3 DEF Transfer
  <2> QED  BY <1>3, <2>1, KnownSender DEF Known
<1>5. AckedItems(u) = 1 .. u.va /\ 1 .. u.va \subseteq 1 .. d
      /\ (u.state # "CLOSED" => u # NewSock)
  <2>1. k < Half /\ d <= k /\ SenderOK(u, k, d, net'[a])
    BY <1>3 DEF SenderMoves, Transfer
  <2> QED  BY <1>3, <2>1, KnownSender
<1>6. /\ Open' = [Open EXCEPT ![a] = (u.state = "ESTABLISHED")]
      /\ Known' = [Known EXCEPT ![a] = 1 .. u.va]
      /\ Open[a] = (s.state = "ESTABLISHED") /\ Known[a] = 1 .. s.va
      /\ Open = [Open EXCEPT ![a] = Open[a]] /\ Known = [Known EXCEPT ![a] = Known[a]]
      /\ sent = [sent EXCEPT ![a] = sent[a]]
  <2>1. Open = [Open EXCEPT ![a] = Open[a]] /\ Known = [Known EXCEPT ![a] = Known[a]]
    BY DEF Open, Known
  <2>2. /\ Open' = [Open EXCEPT ![a] = (u.state = "ESTABLISHED")]
        /\ Known' = [Known EXCEPT ![a] = AckedItems(u)]
        /\ Open[a] = (s.state = "ESTABLISHED")
    BY <1>1, <1>3, OneEnd
  <2>3. Known' = [Known EXCEPT ![a] = 1 .. u.va]
    BY <1>5, <2>2
  <2>4. sent = [sent EXCEPT ![a] = sent[a]]
    BY <1>3
  <2> QED  BY <1>4, <2>1, <2>2, <2>3, <2>4
<1>7. NewSock.state = "CLOSED" /\ NewSock.va = 0 /\ 1 .. 0 = {}
  BY DEF NewSock
<1>8. CASE u.state # "ESTABLISHED" /\ k = sent[a] /\ (1 .. u.va = {} \/ 1 .. u.va = Known[a])
  <2>1. Pipe!Release(a)
    BY <1>2, <1>3, <1>6, <1>8 DEF Pipe!Release
  <2> QED  BY <2>1, PipeNames DEF Pipe!Next
<1>9. CASE u.state = s.state /\ k = sent[a] /\ 1 .. s.va \subseteq 1 .. u.va
  <2>1. Open' = Open /\ sent' = sent
    BY <1>2, <1>6, <1>9
  <2>2. 1 .. u.va = Known[a] \cup (1 .. u.va) /\ 1 .. u.va \in SUBSET got[b]
    BY <1>4, <1>5, <1>9
  <2>3. Pipe!Learn(a)
    BY <1>3, <1>6, <2>1, <2>2, PipeNames DEF Pipe!Learn
  <2> QED  BY <2>3, PipeNames DEF Pipe!Next
<1>10. CASE k = sent[a] + 1 /\ u.va = s.va /\ u.state = "ESTABLISHED"
            /\ s.state = "ESTABLISHED"
  <2>1. Open' = Open /\ Known' = Known /\ Open[a]
    BY <1>6, <1>10
  <2>2. Pipe!Write(a)
    BY <1>2, <1>3, <1>10, <2>1 DEF Pipe!Write
  <2> QED  BY <2>2, PipeNames DEF Pipe!Next
<1>11. s.va \in Int /\ u.va \in Int
  BY <1>3, SockAssumption DEF Socket, Seqno
<1>12. s.va <= u.va => 1 .. s.va \subseteq 1 .. u.va
  BY <1>11
<1> QED  BY <1>2, <1>4, <1>7, <1>8, <1>9, <1>10, <1>12 DEF Onward

\* A step of the receiver delivers the next item, or releases the link.
LEMMA ReceiverPipe ==
    ASSUME IInv, IInv', NEW a \in Stations, NEW d \in Nat, Transfer(a, d), ReceiverMoves(a, d)
    PROVE  [Pipe!Next]_(Pipe!vars)
<1> DEFINE b == Peer(a)
           s == sock[b]
<1>1. PICK u : /\ sock' = [sock EXCEPT ![b] = u]
               /\ \/ /\ Transfer(a, d)'
                     /\ got' = got
                     /\ u.state \in {s.state, "PENDING_DISCONNECT", "CLOSED"}
                  \/ /\ Transfer(a, d + 1)'
                     /\ d < sent[a]
                     /\ got' = [got EXCEPT ![b] = 1 .. (d + 1)]
                     /\ u.state = "ESTABLISHED" /\ s.state = "ESTABLISHED"
  BY DEF ReceiverMoves
<1>2. /\ b \in Stations /\ a # b /\ Peer(b) = a /\ sock \in [Stations -> Socket]
      /\ sent' = sent /\ sock'[b] = u
      /\ sent[a] \in Nat /\ got[b] = 1 .. d
  BY <1>1, PeerType, StationRoles, SockAssumption DEF IInv, RestOK, ReceiverMoves, Transfer
<1>3. AckedItems(s) = {} /\ AckedItems(u) = {}
  <2>1. ReceiverOK(s, d) /\ (ReceiverOK(u, d) \/ ReceiverOK(u, d + 1))
    BY <1>1, <1>2 DEF Transfer
  <2> QED  BY <2>1, KnownReceiver
<1>4. /\ Open' = [Open EXCEPT ![b] = (u.state = "ESTABLISHED")]
      /\ Known' = [Known EXCEPT ![b] = {}]
      /\ Open[b] = (s.state = "ESTABLISHED") /\ Known[b] = {}
  <2>1. /\ Open' = [Open EXCEPT ![b] = (u.state = "ESTABLISHED")]
        /\ Known' = [Known EXCEPT ![b] = AckedItems(u)]
        /\ Open[b] = (s.state = "ESTABLISHED") /\ Known[b] = AckedItems(s)
    BY <1>1, <1>2, OneEnd
  <2> QED  BY <1>3, <2>1
<1>5. Open = [Open EXCEPT ![b] = Open[b]] /\ Known = [Known EXCEPT ![b] = Known[b]]
  BY DEF Open, Known
<1>6. Known' = Known
  BY <1>4, <1>5
<1>7. CASE got' = got /\ u.state = s.state
  <2>1. Open' = Open
    BY <1>4, <1>5, <1>7
  <2> QED  BY <1>2, <1>6, <1>7, <2>1 DEF Pipe!vars
<1>8. CASE got' = got /\ u.state # "ESTABLISHED"
  <2>1. Pipe!Release(b)
    BY <1>2, <1>4, <1>8 DEF Pipe!Release
  <2> QED  BY <1>2, <2>1, PipeNames DEF Pipe!Next
<1>9. CASE /\ d < sent[a] /\ got' = [got EXCEPT ![b] = 1 .. (d + 1)]
           /\ u.state = "ESTABLISHED" /\ s.state = "ESTABLISHED"
  <2>1. Open' = Open /\ Open[b]
    BY <1>4, <1>5, <1>9
  <2>2. d \in 0 .. (sent[a] - 1)
    BY <1>2, <1>9
  <2>3. Pipe!Deliver(b)
    BY <1>2, <1>6, <1>9, <2>1, <2>2, PipeNames DEF Pipe!Deliver
  <2> QED  BY <1>2, <2>3, PipeNames DEF Pipe!Next
<1> QED  BY <1>1, <1>7, <1>8, <1>9

LEMMA PipeStep ==
    ASSUME IInv, IInv', NEW a, OneWay(a), TransferInv(a), [Next]_vars
    PROVE  [Pipe!Next]_(Pipe!vars)
<1>1. PICK d \in Nat : Transfer(a, d)
  BY DEF TransferInv
<1>2. a \in Stations
  BY DEF OneWay
<1>3. Moves(a, d)
  BY <1>1, StepMoves
<1> QED  BY <1>1, <1>2, <1>3, SenderPipe, ReceiverPipe DEF Moves

LEMMA PipeInit ==
    ASSUME Init, IInv, NEW a, OneWay(a)
    PROVE  Pipe!Init
<1>1. /\ Connected /\ Base \in Nat /\ MaxItem \in Nat /\ Base % ModExt = Base
      /\ Stations = {1, 2} /\ Base < Half
  BY LinkAssumption, SockAssumption, SmallNumber DEF OneWay, Stations
<1>2. /\ sock[1] = CallerSock /\ sock[2] = ListenerSock
      /\ sent = [n \in Stations |-> IF n = 1 THEN Base ELSE 0]
      /\ got = [n \in Stations |-> IF n = 2 THEN 1 .. Base ELSE {}]
  BY <1>1 DEF Init
<1>3. Open = [n \in Stations |-> TRUE]
  <2>1. CallerSock.state = "ESTABLISHED" /\ ListenerSock.state = "ESTABLISHED"
    BY DEF CallerSock, ListenerSock, NewSock
  <2>2. \A n \in Stations : (sock[n].state = "ESTABLISHED") = TRUE
    BY <1>1, <1>2, <2>1
  <2> QED  BY <2>2, Zenon DEF Open
<1>4. AckedItems(ListenerSock) = {}
  BY KnownNothing DEF ListenerSock, NewSock
<1>5. AckedItems(CallerSock) = 1 .. Base
  <2>1. CallerSock.slots = [i \in Seqno |-> IF i < Base THEN [data |-> i + 1, ack |-> TRUE]
                                                        ELSE EmptySlots[i]]
    BY DEF CallerSock, NewSock
  <2>2. \A i \in Seqno : ~EmptySlots[i].ack
    BY DEF EmptySlots
  <2>3. \A i \in Seqno : i \in Nat
    BY SockAssumption DEF Seqno
  <2>4. \A i \in Seqno : /\ CallerSock.slots[i].ack => i < Base
                         /\ i < Base => /\ CallerSock.slots[i].ack
                                        /\ CallerSock.slots[i].data = i + 1
    BY <2>1, <2>2
  <2>5. \A k \in 1 .. Base : k - 1 \in Seqno /\ k - 1 < Base /\ k - 1 + 1 = k
    <3> SUFFICES ASSUME NEW k \in 1 .. Base
                 PROVE  k - 1 \in Seqno /\ k - 1 < Base /\ k - 1 + 1 = k
      OBVIOUS
    <3>1. k - 1 \in Nat /\ k - 1 < Half /\ k - 1 < Base /\ k - 1 + 1 = k
      BY <1>1, SockAssumed
    <3> QED  BY <3>1, SmallNumber
  <2>6. \A i \in Seqno : i < Base => i + 1 \in 1 .. Base
    BY <1>1, <2>3
  <2> DEFINE c == CallerSock
  <2> HIDE DEF c
  <2> QED  BY <2>4, <2>5, <2>6 DEF AckedItems
<1>6. Known = [n \in Stations |-> 1 .. sent[n]]
  <2>1. 1 .. 0 = {}
    OBVIOUS
  <2>2. \A n \in Stations : AckedItems(sock[n]) = 1 .. sent[n]
    BY <1>1, <1>2, <1>4, <1>5, <2>1
  <2> QED  BY <2>2 DEF Known
<1>7. got = [n \in Stations |-> 1 .. sent[Peer(n)]]
  <2>1. 1 .. 0 = {} /\ \A n \in Stations : sent[Peer(n)] = IF n = 2 THEN Base ELSE 0
    BY <1>1, <1>2 DEF Peer
  <2>2. \A n \in Stations : got[n] = 1 .. sent[Peer(n)]
    BY <1>1, <1>2, <2>1
  <2> QED  BY <1>2, <2>2
<1>8. sent \in [Stations -> Nat]
  BY <1>1, <1>2
<1>9. got = [n \in Stations |-> 1 .. sent[Pipe!Other(n)]]
  BY <1>7, PipeNames
<1> QED  BY <1>3, <1>6, <1>8, <1>9, PipeNames DEF Pipe!Init

\* ImplementsPipe, on a link that one station sends over: every step of the
\* handlers, the timers, the ptys, the clients and the channel is a step of
\* the pipe between the two clients, or one they do not see.
THEOREM LinkImplementsPipe == (\E a \in Stations : OneWay(a)) => (Spec => ImplementsPipe)
<1> SUFFICES ASSUME NEW a \in Stations, OneWay(a) PROVE Spec => ImplementsPipe
  OBVIOUS
<1>1. Init => Pipe!Init
  BY InitInv, PipeInit
<1>2. Spec => [](IInv /\ TransferInv(a))
  BY TransferAlways
<1>3. /\ IInv /\ TransferInv(a) /\ (IInv /\ TransferInv(a))' /\ [Next]_vars
      => [Pipe!Next]_(Pipe!vars)
  BY PipeStep
<1> QED  BY <1>1, <1>2, <1>3, PTL DEF Spec, ImplementsPipe, Pipe!Spec

---------------------------------------------------------------------------
(***************************************************************************)
(* ModesAgree, in the timing of TimelySpec, when one station calls.         *)
(***************************************************************************)
OneCaller(c) == c \in Stations /\ Patty = Stations /\ Callers \subseteq {c}

On(ch) == {ch[i] : i \in 1 .. Len(ch)}

Carries(n, t) == \E f \in On(net[n]) : f.type = t

\* The other station is not set to modulo 8, and will not be.
Extended(c) == ~Carries(Peer(c), "SABM") /\ sock[Peer(c)].mode # "SABM"

\* An XID that answers an XID, and the SABM that a caller without an answer
\* sends, are never on their way at the same time.
ModeInv(c) ==
    /\ sock[c].mode \in {"DM", "SABME"}
    /\ sock[Peer(c)].state # "PENDING_CONNECT"
    /\ \A n \in Stations : sock[n].state = "PENDING_ACCEPT" => sock[n].mode = "SABME"
    /\ \A n \in Stations : \A f \in On(net[n]) : f.type # "FRMR" /\ (f.type = "XID" => f.ext)
    /\ ~Carries(c, "SABM") /\ ~Carries(c, "SABME")
    /\ Carries(Peer(c), "XID") => ~Carries(Peer(c), "SABM")
    /\ Carries(c, "XID") \/ sock[c].mode = "SABME" => Extended(c)

\* The frames that set up a link, and the one that reports an error.
Setup == {"SABM", "SABME", "XID", "FRMR"}

\* A step of n that sets nothing up: the mode of its socket stays, or the
\* socket goes.
Calm(n) ==
    /\ \E u : /\ sock' = [sock EXCEPT ![n] = u]
              /\ \/ u = NewSock
                 \/ /\ u.mode = sock[n].mode
                    /\ u.state \in {sock[n].state, "ESTABLISHED", "PENDING_DISCONNECT"}
    /\ On(net'[n]) \subseteq On(net[n])
    /\ \A f \in On(net'[Peer(n)]) : f.type \in Setup => f \in On(net[Peer(n)])

---------------------------------------------------------------------------
LEMMA OnTail ==
    ASSUME NEW ch \in Seq(Frame), ch # <<>>
    PROVE  On(Tail(ch)) \subseteq On(ch) /\ Head(ch) \in On(ch)
<1>1. \A i \in 1 .. Len(Tail(ch)) : Tail(ch)[i] = ch[i + 1] /\ i + 1 \in 1 .. Len(ch)
  OBVIOUS
<1>2. Head(ch) = ch[1] /\ 1 \in 1 .. Len(ch)
  OBVIOUS
<1> QED  BY <1>1, <1>2 DEF On

LEMMA OnPut ==
    ASSUME NEW ch \in Seq(Frame), NEW f \in Frame
    PROVE  /\ On(Put(ch, <<f>>)) \subseteq On(ch) \cup {f}
           /\ Put(ch, <<>>) = ch
<1> DEFINE c == ch \o <<f>>
<1>1. /\ Len(c) = Len(ch) + 1 /\ c[Len(ch) + 1] = f
      /\ \A i \in 1 .. Len(ch) : c[i] = ch[i]
  OBVIOUS
<1> HIDE DEF c
<1>2. \A i \in 1 .. Len(c) : i \in 1 .. Len(ch) \/ i = Len(ch) + 1
  BY <1>1
<1>3. On(c) \subseteq On(ch) \cup {f}
  BY <1>1, <1>2 DEF On
<1>4. Put(ch, <<f>>) = ch \/ Put(ch, <<f>>) = c
  BY DEF Put, c
<1> QED  BY <1>3, <1>4, PutNone

\* The frames on the air after a step of n that sends f, or nothing.
LEMMA SendsOn ==
    ASSUME IInv, NEW n \in Stations, NEW f \in Frame, NEW fs, Sends(n, fs),
           fs = <<>> \/ fs = <<f>>
    PROVE  /\ On(net'[n]) \subseteq On(net[n])
           /\ On(net'[Peer(n)]) \subseteq On(net[Peer(n)]) \cup {f}
           /\ fs = <<>> => On(net'[Peer(n)]) \subseteq On(net[Peer(n)])
<1>1. net[n] \in Seq(Frame) /\ net[Peer(n)] \in Seq(Frame)
  BY PeerType DEF IInv, RestOK
<1>2. /\ net'[n] = net[n] \/ (net[n] # <<>> /\ net'[n] = Tail(net[n]))
      /\ net'[Peer(n)] = net[Peer(n)] \/ net'[Peer(n)] = Put(net[Peer(n)], fs)
  BY SendsNet
<1>3. On(net'[n]) \subseteq On(net[n])
  BY <1>1, <1>2, OnTail
<1>4. fs = <<>> => net'[Peer(n)] = net[Peer(n)]
  BY <1>1, <1>2, OnPut
<1>5. fs = <<f>> => On(net'[Peer(n)]) \subseteq On(net[Peer(n)]) \cup {f}
  BY <1>1, <1>2, OnPut
<1> QED  BY <1>3, <1>4, <1>5

LEMMA SendsCalm ==
    ASSUME IInv, NEW n \in Stations, NEW u, sock' = [sock EXCEPT ![n] = u],
           \/ u = NewSock
           \/ /\ u.mode = sock[n].mode
              /\ u.state \in {sock[n].state, "ESTABLISHED", "PENDING_DISCONNECT"},
           NEW fs, Sends(n, fs), fs = <<>> \/ \E f \in Frame : fs = <<f>> /\ f.type \notin Setup
    PROVE  Calm(n)
<1>1. CASE fs = <<>>
  <2>1. UFrame("DM") \in Frame
    BY UFrameType DEF UType
  <2>2. On(net'[n]) \subseteq On(net[n]) /\ On(net'[Peer(n)]) \subseteq On(net[Peer(n)])
    BY <1>1, <2>1, SendsOn
  <2> QED  BY <2>2 DEF Calm
<1>2. ASSUME NEW f \in Frame, fs = <<f>>, f.type \notin Setup PROVE Calm(n)
  <2>1. On(net'[n]) \subseteq On(net[n]) /\ On(net'[Peer(n)]) \subseteq On(net[Peer(n)]) \cup {f}
    BY <1>2, SendsOn
  <2> QED  BY <1>2, <2>1 DEF Calm
<1> QED  BY <1>1, <1>2

\* A step that does not set anything up keeps the invariant.
LEMMA CalmInv ==
    ASSUME IInv, NEW c \in Stations, ModeInv(c), NEW n \in Stations, Calm(n)
    PROVE  ModeInv(c)'
<1> DEFINE l == Peer(c)
<1>1. /\ l \in Stations /\ l # c /\ (n = c \/ n = l) /\ Peer(l) = c
      /\ \A m \in Stations : m = c \/ m = l
      /\ sock \in [Stations -> Socket]
  BY PeerType, StationRoles DEF IInv
<1>2. PICK u : /\ sock' = [sock EXCEPT ![n] = u]
               /\ \/ u = NewSock
                  \/ /\ u.mode = sock[n].mode
                     /\ u.state \in {sock[n].state, "ESTABLISHED", "PENDING_DISCONNECT"}
  BY DEF Calm
<1>3. \A m \in Stations : sock'[m] = IF m = n THEN u ELSE sock[m]
  BY <1>1, <1>2
<1>4. \A m \in Stations : \A f \in On(net'[m]) : f.type \in Setup => f \in On(net[m])
  BY <1>1 DEF Calm
<1>5. \A m \in Stations, t \in Setup : (Carries(m, t))' => Carries(m, t)
  BY <1>4 DEF Carries
<1>6. \A m \in Stations : /\ sock'[m].mode \in {sock[m].mode, "DM"}
                          /\ sock'[m].state \in {sock[m].state, "ESTABLISHED", "CLOSED",
                                                 "PENDING_DISCONNECT"}
                          /\ sock'[m].state = "PENDING_ACCEPT"
                                => sock[m].state = "PENDING_ACCEPT"
                                   /\ sock'[m].mode = sock[m].mode
  BY <1>2, <1>3, NewSockFacts
<1>7. sock'[c].mode \in {"DM", "SABME"} /\ sock'[l].state # "PENDING_CONNECT"
      /\ \A m \in Stations : sock'[m].state = "PENDING_ACCEPT" => sock'[m].mode = "SABME"
  BY <1>1, <1>6 DEF ModeInv
<1>8. \A m \in Stations : \A f \in On(net'[m]) : f.type # "FRMR" /\ (f.type = "XID" => f.ext)
  BY <1>4 DEF ModeInv, Setup
<1>9. ~Carries(c, "SABM")' /\ ~Carries(c, "SABME")' /\ (Carries(l, "XID")' => ~Carries(l, "SABM")')
  BY <1>1, <1>5 DEF ModeInv, Setup
<1>10. Carries(c, "XID")' \/ sock'[c].mode = "SABME" => ~Carries(l, "SABM")' /\ sock'[l].mode # "SABM"
  BY <1>1, <1>5, <1>6 DEF ModeInv, Setup, Extended
<1> QED  BY <1>7, <1>8, <1>9, <1>10 DEF ModeInv, Extended

---------------------------------------------------------------------------
(***************************************************************************)
(* The handlers that set nothing up.                                        *)
(***************************************************************************)
LEMMA PlainTypes ==
    /\ \A t \in UType \ Setup : UFrame(t) \in Frame /\ UFrame(t).type \notin Setup
    /\ \A s \in Socket, t \in SType, cr \in {"C", "R"} :
          SFrame(s, t, cr, TRUE) \in Frame /\ SFrame(s, t, cr, TRUE).type \notin Setup
    /\ \A s \in Socket, i \in Int, d \in 0 .. Garbled :
          IFrame(s, i, d) \in Frame /\ IFrame(s, i, d).type \notin Setup
<1>1. \A t \in UType \ Setup : UFrame(t) \in Frame /\ UFrame(t).type \notin Setup
  BY UFrameType DEF UFrame
<1>2. ASSUME NEW s \in Socket, NEW t \in SType, NEW cr \in {"C", "R"}
      PROVE  SFrame(s, t, cr, TRUE) \in Frame /\ SFrame(s, t, cr, TRUE).type \notin Setup
  <2>1. SFrame(s, t, cr, TRUE).type \in {"I", t}
    BY DEF SFrame
  <2> QED  BY <2>1, SFrameType DEF SType, Setup
<1>3. ASSUME NEW s \in Socket, NEW i \in Int, NEW d \in 0 .. Garbled
      PROVE  IFrame(s, i, d) \in Frame /\ IFrame(s, i, d).type \notin Setup
  <2>1. IFrame(s, i, d).type = "I"
    BY DEF IFrame
  <2> QED  BY <2>1, IFrameType DEF Setup
<1> QED  BY <1>1, <1>2, <1>3

LEMMA PlainSignals == \A t \in {"DM", "UA", "DISC"} : t \in UType \ Setup
BY DEF UType, Setup

LEMMA PlainResend ==
    ASSUME NEW s \in Socket, NEW i \in Int
    PROVE  Resend(s, i) = <<>> \/ \E f \in Frame : Resend(s, i) = <<f>> /\ f.type \notin Setup
<1>1. s.slots[i % TxSlots(s.mode)].data \in 0 .. Garbled
  BY SlotRange, SlotData
<1> QED  BY <1>1, PlainTypes DEF Resend

\* The socket that a handler leaves in place, or closes.
LEMMA SilentCalm ==
    ASSUME IInv, NEW n \in Stations, sock' = sock, NEW fs, Sends(n, fs),
           fs = <<>> \/ \E f \in Frame : fs = <<f>> /\ f.type \notin Setup
    PROVE  Calm(n)
<1>1. sock' = [sock EXCEPT ![n] = sock[n]]
  BY DEF IInv
<1> QED  BY <1>1, SendsCalm

LEMMA ClosedCalm ==
    ASSUME IInv, NEW n \in Stations, SockClose(n), NEW fs, Sends(n, fs),
           fs = <<>> \/ \E f \in Frame : fs = <<f>> /\ f.type \notin Setup
    PROVE  Calm(n)
BY SendsCalm DEF SockClose, Become

LEMMA StoppedCalm ==
    ASSUME IInv, NEW n \in Stations, DaemonStops(n)
    PROVE  Calm(n)
<1>1. sock' = [sock EXCEPT ![n] = NewSock]
  BY DEF DaemonStops, SockClose, Become
<1>2. net'[n] = <<>> /\ net'[Peer(n)] = net[Peer(n)]
  BY PeerType DEF DaemonStops, IInv, RestOK
<1>3. On(net'[n]) = {}
  BY <1>2 DEF On
<1> QED  BY <1>1, <1>2, <1>3 DEF Calm

LEMMA AckedSame ==
    ASSUME IInv, NEW n \in Stations, NEW f \in Frame, NEW u \in FrameAck(sock[n], f)
    PROVE  u \in Socket /\ u.mode = sock[n].mode /\ u.state = sock[n].state
BY FrameAckInv DEF IInv, SockInv, Frame

LEMMA AcceptedSame ==
    ASSUME NEW s \in Socket, NEW f
    PROVE  Accepted(s, f).mode = s.mode /\ Accepted(s, f).state = s.state
<1> DEFINE r == IF f.ns = s.vr THEN VrIncr(s) ELSE s
           u == Accepted(s, f)
<1>1. r.mode = s.mode /\ r.state = s.state /\ {"mode", "state", "rxp", "t2", "t3"} \subseteq DOMAIN r
  BY DEF VrIncr, Socket
<1>2. \/ u = [r EXCEPT !.rxp = 0, !.t2 = FALSE]
      \/ u = [r EXCEPT !.rxp = r.rxp + 1, !.t2 = TRUE, !.t3 = TRUE]
  BY DEF Accepted
<1> HIDE DEF r, u
<1>3. u.mode = s.mode /\ u.state = s.state
  BY <1>1, <1>2
<1> QED  BY <1>3 DEF u

LEMMA HandleICalm ==
    ASSUME IInv, NEW n \in Stations, net[n] # <<>>, NEW f \in Frame, HandleI(n, f)
    PROVE  Calm(n)
<1>1. CASE HandleINoLink(n, f)
  <2>1. If(f.pf, UFrame("DM")) = <<>> \/ If(f.pf, UFrame("DM")) = <<UFrame("DM")>>
    BY DEF If
  <2> QED  BY <1>1, <2>1, SilentCalm, PlainTypes, PlainSignals DEF HandleINoLink, Sends
<1>2. CASE HandleIGap(n, f)
  <2>1. PICK u \in FrameAck(sock[n], f) :
           /\ Become(n, u)
           /\ Reply(n, <<SFrame(u, IF f.ns = u.vr + 1 THEN "SREJ" ELSE "REJ", "R", TRUE)>>)
    BY <1>2, Zenon DEF HandleIGap
  <2>2. PICK t \in SType : Reply(n, <<SFrame(u, t, "R", TRUE)>>)
    BY <2>1 DEF SType
  <2>3. u \in Socket /\ u.mode = sock[n].mode /\ u.state = sock[n].state
    BY AckedSame
  <2>4. SFrame(u, t, "R", TRUE) \in Frame /\ SFrame(u, t, "R", TRUE).type \notin Setup
    BY <2>3, PlainTypes
  <2> QED  BY <1>2, <2>1, <2>2, <2>3, <2>4, SendsCalm DEF Become, Sends
<1>3. CASE HandleIDeliver(n, f)
  <2>1. PICK u \in FrameAck(sock[n], f) :
           /\ Become(n, Accepted(u, f))
           /\ Reply(n, If(f.pf, SFrame(Accepted(u, f), "RR", "R", TRUE)))
    BY <1>3, Zenon DEF HandleIDeliver
  <2> DEFINE w == Accepted(u, f)
  <2>2. w \in Socket /\ w.mode = sock[n].mode /\ w.state = sock[n].state
    BY AckedInv, AckedSame, AcceptedInv, AcceptedSame
  <2> HIDE DEF w
  <2>3. SFrame(w, "RR", "R", TRUE) \in Frame /\ SFrame(w, "RR", "R", TRUE).type \notin Setup
    BY <2>2, PlainTypes DEF SType
  <2>4. sock' = [sock EXCEPT ![n] = w] /\ Sends(n, If(f.pf, SFrame(w, "RR", "R", TRUE)))
    BY <2>1 DEF Become, Sends, w
  <2>5. If(f.pf, SFrame(w, "RR", "R", TRUE)) \in {<<>>, <<SFrame(w, "RR", "R", TRUE)>>}
    BY DEF If
  <2> QED  BY <2>2, <2>3, <2>4, <2>5, SendsCalm
<1>4. CASE HandleIShort(n, f)
  BY <1>4, StoppedCalm DEF HandleIShort
<1> QED  BY <1>1, <1>2, <1>3, <1>4 DEF HandleI

LEMMA SuperviseCalm ==
    ASSUME IInv, NEW n \in Stations, net[n] # <<>>, NEW f \in Frame, NEW w, Supervise(n, f, w)
    PROVE  Calm(n)
<1>1. PICK u \in FrameAck(sock[n], f) :
         Become(n, u) /\ Reply(n, If(f.cr = "C" /\ f.pf, SFrame(u, "RR", "R", TRUE)))
  BY Zenon DEF Supervise
<1>2. u \in Socket /\ u.mode = sock[n].mode /\ u.state = sock[n].state
  BY AckedSame
<1>3. SFrame(u, "RR", "R", TRUE) \in Frame /\ SFrame(u, "RR", "R", TRUE).type \notin Setup
  BY <1>2, PlainTypes DEF SType
<1> DEFINE g == SFrame(u, "RR", "R", TRUE)
<1>4. If(f.cr = "C" /\ f.pf, g) = <<>> \/ If(f.cr = "C" /\ f.pf, g) = <<g>>
  BY DEF If
<1> QED  BY <1>1, <1>2, <1>3, <1>4, SendsCalm DEF Become, Sends

LEMMA HandleSrejCalm ==
    ASSUME IInv, NEW n \in Stations, net[n] # <<>>, NEW f \in Frame, HandleSrej(n, f)
    PROVE  Calm(n)
<1>1. PICK u \in FrameAck(sock[n], f) :
         /\ Become(n, u)
         /\ \/ Reply(n, Resend(u, f.nr))
            \/ Reply(n, <<IFrame(u, f.nr, Garbled)>>)
  BY Zenon DEF HandleSrej
<1>2. u \in Socket /\ u.mode = sock[n].mode /\ u.state = sock[n].state
  BY AckedSame
<1>3. f.nr \in Int /\ Garbled \in 0 .. Garbled
  BY SockAssumption DEF Frame, Seqno, Garbled
<1>4. CASE Reply(n, Resend(u, f.nr))
  BY <1>1, <1>2, <1>3, <1>4, PlainResend, SendsCalm DEF Become, Sends
<1>5. CASE Reply(n, <<IFrame(u, f.nr, Garbled)>>)
  BY <1>1, <1>2, <1>3, <1>5, PlainTypes, SendsCalm DEF Become, Sends
<1> QED  BY <1>1, <1>4, <1>5

\* DISC, DM and UA, the frames nobody waits for, and the SABM and XID that are
\* refused.
LEMMA SignalCalm ==
    ASSUME IInv, NEW n \in Stations, net[n] # <<>>, NEW f,
           \/ HandleUnknown(n, f) \/ HandleUa(n, f) \/ HandleDm(n, f) \/ HandleDisc(n, f)
           \/ HandleOverrun(n, f) \/ HandleSabmReset(n, f) \/ HandleSabmRefuse(n, f)
           \/ ReplyDm(n)
    PROVE  Calm(n)
<1>0. /\ \A t \in {"DM", "UA", "DISC"} : UFrame(t) \in Frame /\ UFrame(t).type \notin Setup
      /\ sock[n] \in Socket
  BY PlainTypes, PlainSignals DEF IInv
<1>1. CASE ReplyDm(n) \/ Ignore(n) \/ HandleUnknown(n, f) \/ HandleSabmRefuse(n, f)
  BY <1>0, <1>1, SilentCalm DEF ReplyDm, Ignore, HandleUnknown, HandleSabmRefuse, Sends
<1>2. CASE HandleReleased(n)
  BY <1>2, ClosedCalm DEF HandleReleased, Sends
<1>3. CASE HandleUaConnect(n)
  <2> DEFINE u == ReallocBufs([sock[n] EXCEPT !.state = "ESTABLISHED", !.t1 = FALSE, !.t3 = TRUE])
  <2>1. u.mode = sock[n].mode /\ u.state = "ESTABLISHED"
    BY <1>0 DEF ReallocBufs, Socket
  <2> HIDE DEF u
  <2> QED  BY <1>3, <2>1, SendsCalm DEF HandleUaConnect, Become, Sends, u
<1>4. SockReset(sock[n]).mode = sock[n].mode /\ SockReset(sock[n]).state = sock[n].state
  BY <1>0 DEF SockReset, Socket
<1>5. CASE HandleDmRefused(n)
  BY <1>4, <1>5, SendsCalm DEF HandleDmRefused, Become, Sends
<1>6. CASE HandleSabmReset(n, f)
  <2>1. If(f.pf, UFrame("UA")) = <<>> \/ If(f.pf, UFrame("UA")) = <<UFrame("UA")>>
    BY DEF If
  <2> QED  BY <1>0, <1>4, <1>6, <2>1, SendsCalm DEF HandleSabmReset, Become, Sends
<1>7. CASE HandleOverrun(n, f)
  BY <1>7, StoppedCalm DEF HandleOverrun
<1>8. CASE HandleUa(n, f)
  BY <1>1, <1>2, <1>3, <1>8 DEF HandleUa
<1>9. CASE HandleDm(n, f)
  BY <1>1, <1>2, <1>5, <1>9 DEF HandleDm
<1>10. CASE HandleDisc(n, f)
  <2>1. CASE SockClose(n) /\ Reply(n, <<UFrame("UA")>>)
    BY <1>0, <2>1, ClosedCalm DEF Sends
  <2> QED  BY <1>1, <1>10, <2>1 DEF HandleDisc
<1> QED  BY <1>1, <1>6, <1>7, <1>8, <1>9, <1>10

---------------------------------------------------------------------------
(***************************************************************************)
(* The timers, the ptys, the clients and the channel.                       *)
(***************************************************************************)
\* T1 expires on a link that is up or being released.
LEMMA T1RetryCalm ==
    ASSUME IInv, NEW n \in Stations, T1Retry(n),
           sock[n].state \in {"ESTABLISHED", "PENDING_DISCONNECT"}
    PROVE  Calm(n)
<1> DEFINE s == sock[n]
           r == [s EXCEPT !.retries = @ - 1, !.t1 = TRUE]
           u == IF s.state = "ESTABLISHED" THEN ResendPending(r) ELSE r
           g == RetryFrame(s)
<1>1. Become(n, u) /\ Transmit(n, <<g>>) /\ s.retries > 0 /\ s \in Socket
  BY DEF T1Retry, IInv
<1>2. r \in Socket /\ r.mode = s.mode /\ r.state = s.state
  <2>1. s.retries - 1 \in 0 .. NRetry
    BY <1>1, SockAssumption DEF Socket
  <2> QED  BY <1>1, <2>1 DEF Socket
<1> HIDE DEF r
<1>3. u.mode = s.mode /\ u.state = s.state
  BY <1>2, ResendPendingInv
<1> HIDE DEF u
<1>4. g \in Frame /\ g.type \notin Setup
  <2>1. CASE s.state = "PENDING_DISCONNECT"
    BY <2>1, PlainTypes, PlainSignals DEF RetryFrame
  <2>2. CASE s.state = "ESTABLISHED"
    <3>1. s.vs \in Int /\ s.slots[s.vs % TxSlots(s.mode)].data \in 0 .. Garbled
      <4>1. s.vs \in Int
        BY <1>1, SockAssumption DEF Socket, Seqno
      <4> QED  BY <1>1, <4>1, SlotRange, SlotData
    <3>2. \/ g = IFrame(s, s.vs, s.slots[s.vs % TxSlots(s.mode)].data)
          \/ g = SFrame(s, "RR", "C", TRUE)
      BY <2>2 DEF RetryFrame
    <3> QED  BY <1>1, <3>1, <3>2, PlainTypes DEF SType
  <2> QED  BY <2>1, <2>2
<1> HIDE DEF g
<1> QED  BY <1>1, <1>3, <1>4, SendsCalm DEF Become, Sends

LEMMA TimersCalm ==
    ASSUME IInv, NEW n \in Stations, T1GiveUp(n) \/ T2Expire(n) \/ T3Expire(n)
    PROVE  Calm(n)
<1> DEFINE s == sock[n]
<1>1. s \in Socket
  BY DEF IInv
<1>2. SFrame(s, "RR", "R", TRUE) \in Frame /\ SFrame(s, "RR", "R", TRUE).type \notin Setup
      /\ SFrame(s, "RR", "C", TRUE) \in Frame /\ SFrame(s, "RR", "C", TRUE).type \notin Setup
  BY <1>1, PlainTypes DEF SType
<1>3. CASE T1GiveUp(n)
  <2>1. ShutDownFrames(s) = <<>> \/ ShutDownFrames(s) = <<UFrame("DISC")>>
    BY DEF ShutDownFrames
  <2> QED  BY <1>3, <2>1, ClosedCalm, PlainTypes, PlainSignals DEF T1GiveUp, Sends
<1>4. CASE T2Expire(n)
  <2> DEFINE u == [s EXCEPT !.t2 = FALSE, !.rxp = 0]
             fs == If(s.rxp > 0, SFrame(s, "RR", "R", TRUE))
  <2>1. Become(n, u) /\ Transmit(n, fs)
    BY <1>4 DEF T2Expire
  <2>2. u.mode = s.mode /\ u.state = s.state
    BY <1>1 DEF Socket
  <2>3. fs = <<>> \/ fs = <<SFrame(s, "RR", "R", TRUE)>>
    BY DEF If
  <2> HIDE DEF u, fs
  <2> QED  BY <1>2, <2>1, <2>2, <2>3, SendsCalm DEF Become, Sends
<1>5. CASE T3Expire(n)
  <2> DEFINE u == [s EXCEPT !.t3 = FALSE, !.t1 = TRUE, !.retries = NRetry]
  <2>1. Become(n, u) /\ Transmit(n, <<SFrame(s, "RR", "C", TRUE)>>)
    BY <1>5 DEF T3Expire
  <2>2. u.mode = s.mode /\ u.state = s.state
    BY <1>1 DEF Socket
  <2> HIDE DEF u
  <2> QED  BY <1>2, <2>1, <2>2, SendsCalm DEF Become, Sends
<1> QED  BY <1>3, <1>4, <1>5

LEMMA PtyCalm ==
    ASSUME IInv, NEW n \in Stations, Pty(n)
    PROVE  Calm(n)
<1> DEFINE s == sock[n]
<1>1. s \in Socket /\ s.vs \in Int /\ sent[n] \in 0 .. MaxItem
  BY SockAssumption DEF IInv, RestOK, Socket, Seqno
<1>2. CASE PtyResend(n)
  <2> DEFINE r == ResendPending(s)
             u == [r EXCEPT !.t1 = TRUE]
  <2>1. Become(n, u) /\ Transmit(n, Resend(s, s.vs))
    BY <1>2 DEF PtyResend
  <2>2. r \in Socket /\ r.mode = s.mode /\ r.state = s.state
    BY <1>1, ResendPendingInv
  <2> HIDE DEF r
  <2>3. u.mode = s.mode /\ u.state = s.state
    BY <2>2 DEF Socket
  <2> HIDE DEF u
  <2> QED  BY <1>1, <2>1, <2>3, PlainResend, SendsCalm DEF Become, Sends
<1>3. CASE PtyWrite(n)
  <2> DEFINE r == TxSlotSave(s, sent[n] + 1)
             u == [VsIncr(r) EXCEPT !.t1 = TRUE, !.t3 = FALSE]
             g == IFrame(r, r.vs, sent[n] + 1)
  <2>1. Become(n, u) /\ Transmit(n, <<g>>) /\ sent' = [sent EXCEPT ![n] = sent[n] + 1]
    BY <1>3 DEF PtyWrite
  <2>2. u.mode = s.mode /\ u.state = s.state
    <3>1. r.mode = s.mode /\ r.state = s.state /\ DOMAIN r = DOMAIN s
      BY <1>1 DEF TxSlotSave, Socket
    <3>2. {"mode", "state"} \subseteq DOMAIN s
      BY <1>1 DEF Socket
    <3> HIDE DEF r
    <3> QED  BY <3>1, <3>2 DEF VsIncr
  <2>3. g \in Frame /\ g.type \notin Setup
    <3>1. sent[n] + 1 \in Item /\ ~Unsent(s)
      BY <1>1, <1>3, LinkAssumption, SockAssumption DEF PtyWrite, Item
    <3>2. r.vs = s.vs /\ r.vr = s.vr /\ r.mode = s.mode
      BY <1>1 DEF TxSlotSave, Socket
    <3>3. r \in Socket
      BY <1>1, <3>1, SaveInv
    <3> HIDE DEF r
    <3>4. sent[n] + 1 \in 0 .. Garbled
      BY <3>1, SockAssumption DEF Item, Garbled
    <3> QED  BY <1>1, <3>2, <3>3, <3>4, PlainTypes
  <2> HIDE DEF u, g
  <2> QED  BY <2>1, <2>2, <2>3, SendsCalm DEF Become, Sends
<1>4. CASE PtyWriteBadMode(n)
  <2>1. SockClose(n) /\ Sends(n, <<>>)
    BY <1>4, SilentSends DEF PtyWriteBadMode
  <2> QED  BY <2>1, ClosedCalm
<1>5. CASE PtyEof(n)
  <2> DEFINE u == ShutDown(s)
  <2>1. Become(n, u) /\ Transmit(n, ShutDownFrames(s))
    BY <1>5 DEF PtyEof
  <2>2. u.mode = s.mode /\ u.state \in {s.state, "PENDING_DISCONNECT"}
    BY <1>1 DEF ShutDown, Socket
  <2>3. ShutDownFrames(s) = <<>> \/ ShutDownFrames(s) = <<UFrame("DISC")>>
    BY DEF ShutDownFrames
  <2> HIDE DEF u
  <2> QED  BY <2>1, <2>2, <2>3, PlainTypes, PlainSignals, SendsCalm DEF Become, Sends
<1> QED  BY <1>2, <1>3, <1>4, <1>5 DEF Pty

LEMMA ClientCalm ==
    ASSUME IInv, NEW n \in Stations, SetParams(n) \/ ServerClose(n) \/ HangUp(n) \/ Lose(n)
    PROVE  Calm(n)
<1>1. CASE SetParams(n)
  <2>1. PICK w \in Windows : Become(n, ReallocBufs([sock[n] EXCEPT !.k = w]))
    BY <1>1 DEF SetParams
  <2> DEFINE u == ReallocBufs([sock[n] EXCEPT !.k = w])
  <2>2. u.mode = sock[n].mode /\ u.state = sock[n].state
    BY DEF ReallocBufs, IInv, Socket
  <2> HIDE DEF u
  <2> QED  BY <1>1, <2>1, <2>2, SendsCalm, SilentSends DEF SetParams, Become, u
<1>2. CASE ServerClose(n)
  <2>1. ShutDownFrames(sock[n]) = <<>> \/ ShutDownFrames(sock[n]) = <<UFrame("DISC")>>
    BY DEF ShutDownFrames
  <2> QED  BY <1>2, <2>1, ClosedCalm, PlainTypes, PlainSignals DEF ServerClose, Sends
<1>3. CASE HangUp(n)
  BY <1>3, SilentSends, SilentCalm DEF HangUp
<1>4. CASE Lose(n)
  BY <1>4, LoseSends, SilentCalm
<1> QED  BY <1>1, <1>2, <1>3, <1>4

---------------------------------------------------------------------------
(***************************************************************************)
(* The steps that set up a link, in the timing of TimelySpec.               *)
(***************************************************************************)
TimelyNext == EventLoop \/ \E n \in Stations : ClientInTime(n) \/ Channel(n)

LEMMA TimelySteps == TimelyNext => Next
BY DEF TimelyNext, EventLoop, HandleInTime, TimersInTime, PtyInTime, ClientInTime, Next, Timers

LEMMA TimelySafe == TimelySpec => Spec
<1>1. [TimelyNext]_vars => [Next]_vars
  BY TimelySteps
<1> QED  BY <1>1, PTL DEF TimelySpec, Spec, TimelyNext

\* What such a step does: n takes a new socket, and sends a frame.
Becomes(n, u, f) ==
    /\ sock' = [sock EXCEPT ![n] = u]
    /\ On(net'[n]) \subseteq On(net[n])
    /\ On(net'[Peer(n)]) \subseteq On(net[Peer(n)]) \cup {f}

\* The invariant from its parts, for the channels and sockets of the caller c
\* and the other station l.
LEMMA CallerInv ==
    ASSUME IInv, NEW c \in Stations, ModeInv(c), NEW u, NEW f, Becomes(c, u, f),
           u.mode \in {"DM", "SABME"},
           u.state = "PENDING_ACCEPT" => u.mode = "SABME",
           u.mode = "SABME" => Extended(c),
           f.type # "FRMR", f.type = "XID" => f.ext /\ (\A g \in On(net[Peer(c)]) : g.type # "SABM"),
           f.type = "SABM" => /\ u.mode # "SABME"
                              /\ \A n \in Stations : \A g \in On(net[n]) : g.type # "XID"
    PROVE  ModeInv(c)'
<1> DEFINE l == Peer(c)
<1>1. /\ l \in Stations /\ l # c /\ \A m \in Stations : m = c \/ m = l
      /\ sock \in [Stations -> Socket]
  BY PeerType, StationRoles DEF IInv
<1>2. sock'[c] = u /\ sock'[l] = sock[l]
  BY <1>1 DEF Becomes
<1>3. On(net'[c]) \subseteq On(net[c]) /\ On(net'[l]) \subseteq On(net[l]) \cup {f}
  BY DEF Becomes
<1>4. /\ sock'[c].mode \in {"DM", "SABME"} /\ sock'[l].state # "PENDING_CONNECT"
      /\ \A n \in Stations : sock'[n].state = "PENDING_ACCEPT" => sock'[n].mode = "SABME"
  BY <1>1, <1>2 DEF ModeInv
<1>5. \A n \in Stations : \A g \in On(net'[n]) : g.type # "FRMR" /\ (g.type = "XID" => g.ext)
  BY <1>1, <1>3 DEF ModeInv
<1>6. /\ \A g \in On(net'[c]) : g.type # "SABM" /\ g.type # "SABME"
      /\ (\E g \in On(net'[l]) : g.type = "XID") => (\A g \in On(net'[l]) : g.type # "SABM")
  BY <1>1, <1>3 DEF ModeInv, Carries
<1>7. (\E g \in On(net'[c]) : g.type = "XID") \/ sock'[c].mode = "SABME"
        => /\ \A g \in On(net'[l]) : g.type # "SABM"
           /\ sock'[l].mode # "SABM"
  BY <1>1, <1>2, <1>3 DEF ModeInv, Carries, Extended
<1> QED  BY <1>4, <1>5, <1>6, <1>7 DEF ModeInv, Carries, Extended

LEMMA ListenerInv ==
    ASSUME IInv, NEW c \in Stations, ModeInv(c), NEW u, NEW f, Becomes(Peer(c), u, f),
           u.state # "PENDING_CONNECT",
           u.state = "PENDING_ACCEPT" => u.mode = "SABME",
           f.type \notin {"FRMR", "SABM", "SABME"},
           f.type = "XID" => /\ f.ext /\ u.mode # "SABM"
                             /\ \A g \in On(net[Peer(c)]) : g.type # "SABM",
           u.mode = "SABM" => \E g \in On(net[Peer(c)]) : g.type = "SABM"
    PROVE  ModeInv(c)'
<1> DEFINE l == Peer(c)
<1>1. /\ l \in Stations /\ l # c /\ Peer(l) = c /\ \A m \in Stations : m = c \/ m = l
      /\ sock \in [Stations -> Socket]
  BY PeerType, StationRoles DEF IInv
<1>2. sock'[l] = u /\ sock'[c] = sock[c]
  BY <1>1 DEF Becomes
<1>3. On(net'[l]) \subseteq On(net[l]) /\ On(net'[c]) \subseteq On(net[c]) \cup {f}
  BY <1>1 DEF Becomes
<1>4. /\ sock'[c].mode \in {"DM", "SABME"} /\ sock'[l].state # "PENDING_CONNECT"
      /\ \A n \in Stations : sock'[n].state = "PENDING_ACCEPT" => sock'[n].mode = "SABME"
  BY <1>1, <1>2 DEF ModeInv
<1>5. \A n \in Stations : \A g \in On(net'[n]) : g.type # "FRMR" /\ (g.type = "XID" => g.ext)
  BY <1>1, <1>3 DEF ModeInv
<1>6. /\ \A g \in On(net'[c]) : g.type # "SABM" /\ g.type # "SABME"
      /\ (\E g \in On(net'[l]) : g.type = "XID") => (\A g \in On(net'[l]) : g.type # "SABM")
  BY <1>1, <1>3 DEF ModeInv, Carries
<1>7. (\E g \in On(net'[c]) : g.type = "XID") \/ sock'[c].mode = "SABME"
        => /\ \A g \in On(net'[l]) : g.type # "SABM"
           /\ sock'[l].mode # "SABM"
  BY <1>1, <1>2, <1>3 DEF ModeInv, Carries, Extended
<1> QED  BY <1>4, <1>5, <1>6, <1>7 DEF ModeInv, Carries, Extended

LEMMA BecomesOf ==
    ASSUME IInv, NEW n \in Stations, NEW u, sock' = [sock EXCEPT ![n] = u],
           NEW f \in Frame, Sends(n, <<f>>)
    PROVE  Becomes(n, u, f)
BY SendsOn DEF Becomes

\* A frame that sets up a link is read as it is on the air.
LEMMA SetupRead ==
    ASSUME IInv, NEW n \in Stations, net[n] # <<>>,
           NEW f \in DecodeControl(Head(net[n]), sock[n].mode)
    PROVE  f.type \in Setup => f \in On(net[n])
<1> DEFINE h == Head(net[n])
<1>1. net[n] \in Seq(Frame)
  BY DEF IInv, RestOK
<1>2. h \in On(net[n]) /\ h \in Frame
  BY <1>1, OnTail
<1>3. f.type = h.type
  BY <1>2, TypeRead
<1>4. h.type \in UType => f = h
  BY DEF DecodeControl
<1> QED  BY <1>2, <1>3, <1>4 DEF Setup, UType

\* A listening station takes a SABM or SABME: it is not the caller.
LEMMA SabmAcceptModes ==
    ASSUME IInv, NEW c \in Stations, ModeInv(c), NEW n \in Stations, net[n] # <<>>,
           NEW f \in On(net[n]), f.type \in {"SABM", "SABME"}, HandleSabmAccept(n, f)
    PROVE  ModeInv(c)'
<1>1. n = Peer(c)
  BY StationRoles, PeerType DEF ModeInv, Carries
<1> DEFINE s == IF f.type = "SABME" /\ ~Registered(n) THEN ParamsUpgrade(sock[n]) ELSE sock[n]
           t == [s EXCEPT !.state = "ESTABLISHED", !.mode = f.type, !.t3 = TRUE]
           u == ReallocBufs(t)
<1>2. sock' = [sock EXCEPT ![n] = u] /\ Sends(n, <<UFrame("UA")>>)
  BY DEF HandleSabmAccept, Become, Sends
<1>3. {"state", "mode", "t3"} \subseteq DOMAIN s
  BY DEF ParamsUpgrade, IInv, Socket
<1> HIDE DEF s
<1>4. t.state = "ESTABLISHED" /\ t.mode = f.type
  BY <1>3
<1> HIDE DEF t
<1>5. u.state = t.state /\ u.mode = t.mode
  BY DEF ReallocBufs
<1> HIDE DEF u
<1>6. UFrame("UA") \in Frame /\ UFrame("UA").type = "UA"
  BY UFrameType DEF UFrame, UType
<1>7. Becomes(n, u, UFrame("UA"))
  BY <1>2, <1>6, BecomesOf
<1> QED  BY <1>1, <1>4, <1>5, <1>6, <1>7, ListenerInv

\* An XID answers the caller's own, and it goes on with a SABME.
LEMMA XidAnswerModes ==
    ASSUME IInv, NEW c \in Stations, ModeInv(c), NEW n \in Stations, net[n] # <<>>,
           NEW f \in On(net[n]), f.type = "XID", HandleXidAnswer(n, f)
    PROVE  ModeInv(c)'
<1>1. n = c /\ f.ext /\ Extended(c)
  BY StationRoles, PeerType DEF ModeInv, Carries, HandleXidAnswer
<1> DEFINE p == ParamsNegotiate(sock[n])
           u == [p EXCEPT !.mode = IF f.ext THEN "SABME" ELSE @, !.t1 = TRUE, !.retries = NRetry]
<1>2. sock' = [sock EXCEPT ![n] = u] /\ Sends(n, <<SabmFrame(u)>>) /\ sock[n].state = "PENDING_CONNECT"
  BY DEF HandleXidAnswer, Become, Sends
<1>3. p.state = sock[n].state /\ {"state", "mode", "t1", "retries"} \subseteq DOMAIN p
  BY DEF ParamsNegotiate, IInv, Socket
<1> HIDE DEF p
<1>4. u.state = "PENDING_CONNECT" /\ u.mode = "SABME"
  BY <1>1, <1>2, <1>3
<1> HIDE DEF u
<1>5. SabmFrame(u) \in Frame /\ SabmFrame(u).type = "SABME"
  BY <1>4, SabmFrameType DEF SabmFrame, UFrame
<1>6. Becomes(n, u, SabmFrame(u))
  BY <1>2, <1>5, BecomesOf
<1> QED  BY <1>1, <1>4, <1>5, <1>6, CallerInv

LEMMA XidFrame == [UFrame("XID") EXCEPT !.cr = "R"] \in Frame
                  /\ [UFrame("XID") EXCEPT !.cr = "R"].type = "XID"
                  /\ [UFrame("XID") EXCEPT !.cr = "R"].ext
                  /\ UFrame("XID") \in Frame /\ UFrame("XID").type = "XID" /\ UFrame("XID").ext
<1>1. UFrame("XID") \in Frame /\ UFrame("XID").type = "XID" /\ UFrame("XID").ext
  BY UFrameType DEF UFrame, UType
<1> QED  BY <1>1 DEF Frame

\* An XID finds a listening socket, at either station.
LEMMA XidAcceptModes ==
    ASSUME IInv, NEW c \in Stations, ModeInv(c), NEW n \in Stations, net[n] # <<>>,
           NEW f \in On(net[n]), f.type = "XID", HandleXidAccept(n, f)
    PROVE  ModeInv(c)'
<1> DEFINE l == Peer(c)
           g == [UFrame("XID") EXCEPT !.cr = "R"]
           p == ParamsNegotiate(ParamsMax(NewSock))
           u == [p EXCEPT !.state = "PENDING_ACCEPT", !.mode = IF f.ext THEN "SABME" ELSE @,
                          !.t1 = TRUE, !.retries = NRetry]
<1>1. sock' = [sock EXCEPT ![n] = u] /\ Sends(n, <<g>>)
  BY DEF HandleXidAccept, Become, Sends
<1>2. f.ext /\ Carries(n, "XID")
  BY DEF ModeInv, Carries
<1>3. {"state", "mode", "t1", "retries"} \subseteq DOMAIN p
  BY DEF ParamsNegotiate, ParamsMax, NewSock
<1> HIDE DEF p
<1>4. u.state = "PENDING_ACCEPT" /\ u.mode = "SABME"
  BY <1>2, <1>3
<1> HIDE DEF u
<1>5. Becomes(n, u, g) /\ g.type = "XID" /\ g.ext
  BY <1>1, XidFrame, BecomesOf
<1> HIDE DEF g
<1>6. CASE n = c
  <2>1. Extended(c) /\ \A h \in On(net[l]) : h.type # "SABM"
    BY <1>2, <1>6 DEF ModeInv, Extended, Carries
  <2> QED  BY <1>4, <1>5, <1>6, <2>1, CallerInv
<1>7. CASE n = l
  <2>1. \A h \in On(net[l]) : h.type # "SABM"
    BY <1>2, <1>7 DEF ModeInv, Carries
  <2> QED  BY <1>4, <1>5, <1>7, <2>1, ListenerInv
<1> QED  BY <1>6, <1>7, PeerType, StationRoles

\* T1 expires while a link is being set up: no frame is on its way.
LEMMA RetryModes ==
    ASSUME IInv, NEW c \in Stations, ModeInv(c), NEW n \in Stations,
           net = [m \in Stations |-> <<>>], T1Retry(n),
           sock[n].state \in {"PENDING_ACCEPT", "PENDING_CONNECT"}
    PROVE  ModeInv(c)'
<1> DEFINE s == sock[n]
           l == Peer(c)
           r == [s EXCEPT !.retries = @ - 1, !.t1 = TRUE]
           g == RetryFrame(s)
<1>1. sock' = [sock EXCEPT ![n] = r] /\ Sends(n, <<g>>)
  BY DEF T1Retry, Become, Sends
<1>2. r.state = s.state /\ r.mode = s.mode /\ s \in Socket
  BY DEF IInv, Socket
<1> HIDE DEF r
<1>3. \A m \in Stations : On(net[m]) = {}
  BY DEF On
<1>4. g \in Frame
  BY <1>2, RetryFrameType
<1>5. Becomes(n, r, g)
  BY <1>1, <1>4, BecomesOf
<1>6. CASE s.state = "PENDING_ACCEPT"
  <2>1. g.type = "XID" /\ g.ext
    BY <1>6, XidFrame DEF RetryFrame
  <2>2. s.mode = "SABME"
    BY <1>6 DEF ModeInv
  <2>3. \A h \in On(net[l]) : h.type # "SABM"
    BY <1>3, PeerType
  <2> HIDE DEF g
  <2>4. CASE n = c
    <3>1. Extended(c)
      BY <2>2, <2>4 DEF ModeInv
    <3> QED  BY <1>2, <1>5, <2>1, <2>2, <2>3, <2>4, <3>1, CallerInv
  <2>5. CASE n = l
    BY <1>2, <1>5, <1>6, <2>1, <2>2, <2>3, <2>5, ListenerInv
  <2> QED  BY <2>4, <2>5, StationRoles
<1>7. CASE s.state = "PENDING_CONNECT"
  <2>1. n = c
    BY <1>7, StationRoles DEF ModeInv
  <2>2. g.type = IF s.mode = "SABME" THEN "SABME" ELSE "SABM"
    BY <1>7 DEF RetryFrame, SabmFrame, UFrame
  <2> HIDE DEF g
  <2>3. s.mode \in {"DM", "SABME"} /\ (s.mode = "SABME" => Extended(c))
    BY <2>1 DEF ModeInv
  <2> QED  BY <1>2, <1>3, <1>5, <1>7, <2>1, <2>2, <2>3, CallerInv
<1> QED  BY <1>6, <1>7

\* The caller's client connects, and connects again: no frame is on its way
\* to the other station.
LEMMA ConnectModes ==
    ASSUME IInv, NEW c \in Stations, OneCaller(c), ModeInv(c), NEW n \in Stations,
           net[Peer(n)] = <<>>, ServerConnect(n)
    PROVE  ModeInv(c)'
<1> DEFINE u == [sock[n] EXCEPT !.state = "PENDING_CONNECT", !.retries = NRetry, !.t1 = TRUE]
           g == UFrame("XID")
<1>1. sock' = [sock EXCEPT ![n] = u] /\ Sends(n, <<g>>) /\ n = c
  BY DEF ServerConnect, Become, Sends, OneCaller
<1>2. u.state = "PENDING_CONNECT" /\ u.mode = sock[n].mode
  BY DEF IInv, Socket
<1> HIDE DEF u
<1>3. Becomes(n, u, g) /\ g.type = "XID" /\ g.ext
  BY <1>1, XidFrame, BecomesOf
<1> HIDE DEF g
<1>4. On(net[Peer(c)]) = {}
  BY <1>1 DEF On
<1>5. sock[c].mode \in {"DM", "SABME"} /\ (sock[c].mode = "SABME" => Extended(c))
  BY DEF ModeInv
<1> QED  BY <1>1, <1>2, <1>3, <1>4, <1>5, CallerInv

LEMMA FrameModes ==
    ASSUME IInv, NEW c \in Stations, ModeInv(c), NEW n \in Stations, HandleFrame(n)
    PROVE  ModeInv(c)'
<1>1. net[n] # <<>> /\ Head(net[n]) \in Frame
  BY DEF HandleFrame, IInv, RestOK
<1>2. PICK f \in DecodeControl(Head(net[n]), sock[n].mode) :
          \/ HandleI(n, f)
          \/ HandleRr(n, f)
          \/ HandleRnr(n, f)
          \/ HandleRej(n, f)
          \/ HandleSrej(n, f)
          \/ HandleOverrun(n, f)
          \/ HandleUnknown(n, f)
          \/ HandleSabm(n, f)
          \/ HandleUa(n, f)
          \/ HandleDm(n, f)
          \/ HandleDisc(n, f)
          \/ HandleFrmr(n, f)
          \/ HandleXid(n, f)
  BY Zenon DEF HandleFrame
<1>3. f \in Frame
  BY <1>1, DecodeType
<1>4. f.type \in Setup => f \in On(net[n])
  BY <1>1, SetupRead
<1>5. CASE HandleI(n, f)
  BY <1>1, <1>3, <1>5, HandleICalm, CalmInv
<1>6. CASE HandleRr(n, f) \/ HandleRnr(n, f) \/ HandleRej(n, f)
  <2>1. \E w \in BOOLEAN : Supervise(n, f, w)
    BY <1>6 DEF HandleRr, HandleRnr, HandleRej
  <2> QED  BY <1>1, <1>3, <2>1, SuperviseCalm, CalmInv
<1>7. CASE HandleSrej(n, f)
  BY <1>1, <1>3, <1>7, HandleSrejCalm, CalmInv
<1>8. CASE HandleOverrun(n, f) \/ HandleUnknown(n, f) \/ HandleUa(n, f) \/ HandleDm(n, f)
           \/ HandleDisc(n, f)
  BY <1>1, <1>8, SignalCalm, CalmInv
<1>9. CASE HandleSabm(n, f)
  <2>1. f.type \in {"SABM", "SABME"} /\ f \in On(net[n])
    BY <1>4, <1>9 DEF HandleSabm, Setup
  <2>2. CASE HandleSabmAccept(n, f)
    BY <1>1, <2>1, <2>2, SabmAcceptModes
  <2>3. CASE HandleSabmReset(n, f) \/ HandleSabmRefuse(n, f)
    BY <1>1, <2>3, SignalCalm, CalmInv
  <2> QED  BY <1>9, <2>2, <2>3 DEF HandleSabm
<1>10. CASE HandleFrmr(n, f)
  BY <1>4, <1>10 DEF HandleFrmr, Setup, ModeInv
<1>11. CASE HandleXid(n, f)
  <2>1. f.type = "XID" /\ f \in On(net[n])
    BY <1>4, <1>11 DEF HandleXid, Setup
  <2>2. CASE HandleXidAnswer(n, f)
    BY <1>1, <2>1, <2>2, XidAnswerModes
  <2>3. CASE HandleXidAccept(n, f)
    BY <1>1, <2>1, <2>3, XidAcceptModes
  <2>4. CASE ReplyDm(n)
    BY <1>1, <2>4, SignalCalm, CalmInv
  <2> QED  BY <1>11, <2>2, <2>3, <2>4 DEF HandleXid
<1> QED  BY <1>2, <1>5, <1>6, <1>7, <1>8, <1>9, <1>10, <1>11

LEMMA TimelyModes ==
    ASSUME IInv, NEW c \in Stations, OneCaller(c), ModeInv(c), [TimelyNext]_vars
    PROVE  ModeInv(c)'
<1>1. CASE UNCHANGED vars
  BY <1>1 DEF vars, ModeInv, Carries, Extended, On
<1>2. CASE TimelyNext
  <2>1. PICK n \in Stations : \/ HandleFrame(n)
                              \/ TimersInTime(n)
                              \/ Pty(n)
                              \/ ClientInTime(n)
                              \/ Channel(n)
    BY <1>2 DEF TimelyNext, EventLoop, HandleInTime, PtyInTime
  <2>2. CASE HandleFrame(n)
    BY <2>2, FrameModes
  <2>3. CASE TimersInTime(n)
    <3>1. CASE T1Retry(n)
      <4>1. sock[n].state \in State \ {"CLOSED"}
        BY <3>1 DEF T1Retry, IInv, Socket
      <4>2. CASE sock[n].state \in {"ESTABLISHED", "PENDING_DISCONNECT"}
        BY <3>1, <4>2, T1RetryCalm, CalmInv
      <4>3. CASE sock[n].state \in {"PENDING_ACCEPT", "PENDING_CONNECT"}
        BY <2>3, <3>1, <4>3, RetryModes DEF TimersInTime
      <4> QED  BY <4>1, <4>2, <4>3 DEF State
    <3>2. CASE T1GiveUp(n) \/ T2Expire(n) \/ T3Expire(n)
      BY <3>2, TimersCalm, CalmInv
    <3> QED  BY <2>3, <3>1, <3>2 DEF TimersInTime
  <2>4. CASE Pty(n)
    BY <2>4, PtyCalm, CalmInv
  <2>5. CASE ClientInTime(n)
    <3>1. CASE ServerConnect(n)
      BY <2>5, <3>1, ConnectModes DEF ClientInTime
    <3>2. CASE SetParams(n) \/ ServerClose(n) \/ HangUp(n)
      BY <3>2, ClientCalm, CalmInv
    <3> QED  BY <2>5, <3>1, <3>2 DEF ClientInTime, Client
  <2>6. CASE Channel(n)
    <3>1. ~ForeignSend(n)
      BY PeerType DEF ForeignSend, OneCaller
    <3> QED  BY <2>6, <3>1, ClientCalm, CalmInv DEF Channel
  <2> QED  BY <2>1, <2>2, <2>3, <2>4, <2>5, <2>6
<1> QED  BY <1>1, <1>2

LEMMA ModeInit ==
    ASSUME Init, NEW c \in Stations
    PROVE  ModeInv(c)
<1>1. \A n \in Stations : net[n] = <<>> /\ sock[n] \in {NewSock, CallerSock, ListenerSock}
  BY DEF Init
<1>2. \A n \in Stations : On(net[n]) = {}
  BY <1>1 DEF On
<1>3. \A u \in {NewSock, CallerSock, ListenerSock} :
         u.mode \in {"DM", "SABME"} /\ u.state \in {"CLOSED", "ESTABLISHED"}
  <2>1. NewSock.mode = "DM" /\ NewSock.state = "CLOSED"
    BY NewSockFacts
  <2>2. CallerSock.mode = "SABME" /\ CallerSock.state = "ESTABLISHED"
    BY DEF CallerSock, NewSock
  <2>3. ListenerSock.mode = "SABME" /\ ListenerSock.state = "ESTABLISHED"
    BY DEF ListenerSock, NewSock
  <2> QED  BY <2>1, <2>2, <2>3
<1> QED  BY <1>1, <1>2, <1>3, PeerType DEF ModeInv, Carries, Extended

LEMMA ModesOK ==
    ASSUME IInv, NEW c \in Stations, ModeInv(c)
    PROVE  ModesAgree
<1> SUFFICES ASSUME \A n \in Stations : sock[n].state = "ESTABLISHED" /\ sock[n].mode # "DM"
             PROVE  sock[1].mode = sock[2].mode
  BY DEF ModesAgree
<1>1. sock[c].mode = "SABME" /\ sock[Peer(c)].mode \notin {"SABM", "DM"}
  BY PeerType DEF ModeInv, Extended
<1>2. sock[Peer(c)].mode = "SABME"
  BY <1>1, PeerType DEF IInv, Socket, Mode
<1> QED  BY <1>1, <1>2 DEF Stations, Peer

\* As long as only one of two patty stations calls the other, the two ends of
\* their link use the same frame format (ModesAgree), whatever is lost on the
\* way: an XID, the SABM or SABME that follows it, the UA, and what T1 repeats
\* of them.  The station that sends the SABM of a caller without an answer is
\* never one that has seen an XID since.
THEOREM AlwaysAgree ==
    (\E c \in Stations : OneCaller(c)) => (TimelySpec => []ModesAgree)
<1> SUFFICES ASSUME NEW c \in Stations, OneCaller(c)
             PROVE  TimelySpec => []ModesAgree
  OBVIOUS
<1>1. Init => IInv /\ ModeInv(c)
  BY InitInv, ModeInit
<1>2. IInv /\ ModeInv(c) /\ [TimelyNext]_vars => (IInv /\ ModeInv(c))'
  <2> SUFFICES ASSUME IInv, ModeInv(c), [TimelyNext]_vars
               PROVE  IInv' /\ ModeInv(c)'
    OBVIOUS
  <2>1. [Next]_vars
    BY TimelySteps
  <2> QED  BY <2>1, StepInv, TimelyModes
<1>3. IInv /\ ModeInv(c) => ModesAgree
  BY ModesOK
<1> QED  BY <1>1, <1>2, <1>3, PTL DEF TimelySpec, TimelyNext

=============================================================================
