------------------------------- MODULE Sock -------------------------------
(***************************************************************************)
(* The stream socket of patty (src/src/sock.c): the AX.25 link variables,   *)
(* the ring of transmitted I frames kept for retransmission, and the        *)
(* operations on them.  A socket is a record and an operation is an         *)
(* operator from a socket to the socket it leaves behind; Link.tla turns    *)
(* these into the actions of two stations.                                  *)
(*                                                                          *)
(* A timer is its RUNNING flag.  How long it runs is not kept here: the     *)
(* event loop may find any running timer expired (timer.c is a part of its  *)
(* own).  sock->flow is not kept either: the code assigns it and never      *)
(* takes a decision on it; what stops a sender is fds_watch (see Link).     *)
(***************************************************************************)
EXTENDS Integers, Sequences

CONSTANTS
    Mod,         \* sequence numbers (and slots) of a SABM link: 8
    ModExt,      \* sequence numbers (and slots) of a SABME link: 128
    WinDefault,  \* PATTY_AX25_SOCK_DEFAULT_WINDOW: 4
    Win22,       \* PATTY_AX25_SOCK_2_2_DEFAULT_WINDOW: 32
    WinMax,      \* PATTY_AX25_SOCK_2_2_MAX_WINDOW: 127
    NRetry,      \* n_retry, PATTY_AX25_SOCK_DEFAULT_RETRY: 10
    MaxItem      \* bound: the client's stream is cut into items 1 .. MaxItem

ASSUME SockAssumption ==
    /\ Mod \in Nat /\ Mod > 1
    /\ ModExt \in Nat /\ ModExt >= Mod /\ ModExt % 2 = 0
    /\ WinDefault \in Nat /\ WinDefault > 0
    /\ Win22 \in Nat /\ Win22 > 0
    /\ WinMax \in Nat /\ WinMax > 0
    /\ NRetry \in Nat
    /\ MaxItem \in Nat

(***************************************************************************)
(* Types.  The information field of an I frame is one item of the stream;   *)
(* NoData is a missing one and Garbled one that was cut in the wrong place. *)
(***************************************************************************)
NoData  == 0
Garbled == MaxItem + 1
Item    == 1 .. MaxItem
Seqno   == 0 .. (ModExt - 1)

State == {"CLOSED", "PENDING_ACCEPT", "PENDING_CONNECT",
          "PENDING_DISCONNECT", "ESTABLISHED"}
Mode  == {"DM", "SABM", "SABME"}

Slot  == [data : Item \cup {NoData}, ack : BOOLEAN]

Socket == [state : State, mode : Mode,
           k     : Nat \ {0},          \* n_window_tx
           krx   : Nat \ {0},          \* n_window_rx
           vs    : Seqno, vr : Seqno, va : Seqno,
           retries : 0 .. NRetry,
           rxp   : Nat,                \* rx_pending
           slots : [Seqno -> Slot],
           ring  : {1, Mod, ModExt},   \* the slots that the memory holds
           t1    : BOOLEAN, t2 : BOOLEAN, t3 : BOOLEAN]

SType == {"RR", "RNR", "REJ", "SREJ"}
UType == {"SABM", "SABME", "DISC", "DM", "UA", "FRMR", "XID"}

(***************************************************************************)
(* A frame as it is on the air.  ext says that its control field has the    *)
(* two-octet form (for an XID: that modulo 128 is offered).                 *)
(***************************************************************************)
Frame == [type : {"I"} \cup SType \cup UType,
          cr   : {"C", "R"},
          pf   : BOOLEAN,
          ns   : Seqno,
          nr   : Seqno,
          ext  : BOOLEAN,
          data : 0 .. Garbled]

---------------------------------------------------------------------------
(***************************************************************************)
(* The slots.                                                               *)
(***************************************************************************)
TxSlots(mode) == IF mode = "SABME" THEN ModExt ELSE Mod

Pending(s, i) == s.slots[i].data # NoData /\ ~s.slots[i].ack

EmptySlots == [i \in Seqno |-> [data |-> NoData, ack |-> FALSE]]

AckPending(s) == \E i \in Seqno : i < TxSlots(s.mode) /\ Pending(s, i)

\* An XID changes the mode and the size of a slot before
\* patty_ax25_sock_realloc_bufs() makes the ring as large as they need.
\* Until then a loop over the slots of the mode reads past the ring, and
\* any of the slots there may look like a frame that is pending.
Overrun(s) == s.ring < TxSlots(s.mode)

Junk(s) == SUBSET {i \in Seqno : s.ring <= i /\ i < TxSlots(s.mode)}

\* Mutant: the slot before V(S) is taken.
TxSlotSaveBefore(s, d) ==
    [s EXCEPT !.slots[(s.vs - 1) % TxSlots(s.mode)] = [data |-> d, ack |-> FALSE]]

\* tx_slot_save()
TxSlotSave(s, d) ==
    [s EXCEPT !.slots[s.vs % TxSlots(s.mode)] = [data |-> d, ack |-> FALSE]]

\* Mutant: the slots keep what they held.
ReallocBufsKept(s) == [s EXCEPT !.ring = TxSlots(s.mode)]

\* patty_ax25_sock_realloc_bufs()
ReallocBufs(s) == [s EXCEPT !.slots = EmptySlots, !.ring = TxSlots(s.mode)]

---------------------------------------------------------------------------
(***************************************************************************)
(* Creation and reset.                                                      *)
(***************************************************************************)
NewSock == [state |-> "CLOSED", mode |-> "DM",
            k |-> WinDefault, krx |-> WinDefault,
            vs |-> 0, vr |-> 0, va |-> 0,
            retries |-> NRetry, rxp |-> 0, slots |-> EmptySlots, ring |-> Mod,
            t1 |-> FALSE, t2 |-> FALSE, t3 |-> FALSE]

SockReset(s) == [s EXCEPT !.vs = 0, !.vr = 0, !.va = 0,
                          !.retries = NRetry, !.rxp = 0,
                          !.slots = EmptySlots,
                          !.t1 = TRUE, !.t2 = FALSE, !.t3 = FALSE]

\* patty_ax25_sock_params_upgrade() of a socket that is not yet at v2.2
ParamsUpgrade(s) == [s EXCEPT !.k = Win22, !.krx = Win22]

\* patty_ax25_sock_params_max().  Slots of 1536 octets: only the first lies
\* inside a ring that was made for eight of 127.
ParamsMax(s) == [s EXCEPT !.k = WinMax, !.krx = WinMax, !.ring = 1]

\* patty_ax25_sock_params_negotiate() with the XID every patty station sends
ParamsNegotiate(s) == [s EXCEPT !.k = IF @ > WinMax THEN WinMax ELSE @]

---------------------------------------------------------------------------
(***************************************************************************)
(* Sequence numbers and the window.                                         *)
(***************************************************************************)
VsIncr(s) == [s EXCEPT !.vs = (@ + 1) % (IF s.mode = "SABM" THEN Mod ELSE ModExt)]

VrIncr(s) == [s EXCEPT !.vr = (@ + 1) % (IF s.mode = "SABM" THEN Mod ELSE ModExt)]

\* The code's flow_left: a difference of sequence numbers, not modulo anything.
FlowLeft(s) == IF s.k = 1 THEN 1
                          ELSE s.vs - ((s.va + s.k) % TxSlots(s.mode))

---------------------------------------------------------------------------
(***************************************************************************)
(* Frames a socket sends.                                                   *)
(***************************************************************************)
UFrame(t) == [type |-> t, cr |-> "C", pf |-> t # "XID", ns |-> 0, nr |-> 0,
              ext |-> t = "XID", data |-> NoData]

\* control_i(): the poll bit is set on the frame that finds flow_left = 1.
IFrame(s, seq, d) ==
    [type |-> "I", cr |-> "C", pf |-> FlowLeft(s) = 1,
     ns |-> seq % TxSlots(s.mode), nr |-> s.vr % TxSlots(s.mode),
     ext |-> s.mode = "SABME", data |-> d]

\* control_s(): outside SABM and SABME the control field is 0, an I frame
\* with nothing behind it.
SFrame(s, t, cr, pf) ==
    IF s.mode = "DM"
    THEN [type |-> "I", cr |-> cr, pf |-> FALSE, ns |-> 0, nr |-> 0,
          ext |-> FALSE, data |-> NoData]
    ELSE [type |-> t, cr |-> cr, pf |-> pf, ns |-> 0,
          nr |-> s.vr % TxSlots(s.mode), ext |-> s.mode = "SABME",
          data |-> NoData]

\* patty_ax25_sock_send_sabm()
SabmFrame(s) == UFrame(IF s.mode = "SABME" THEN "SABME" ELSE "SABM")

\* patty_ax25_sock_resend(): whatever the slot holds, acknowledged or not.
Resend(s, seq) ==
    LET d == s.slots[seq % TxSlots(s.mode)].data
    IN  IF d = NoData THEN <<>> ELSE <<IFrame(s, seq, d)>>

\* Mutant: the slot after the next one is looked at.
UnsentNext(s) == Pending(s, (s.vs + 1) % TxSlots(s.mode))

\* patty_ax25_sock_resend_pending(): the frames sent, and the socket after.
Unsent(s) == Pending(s, s.vs % TxSlots(s.mode))

ResendPending(s) ==
    IF Unsent(s) THEN [s EXCEPT !.vs = (@ + 1) % TxSlots(s.mode)] ELSE s

---------------------------------------------------------------------------
(***************************************************************************)
(* What a receiver in a given mode makes of a frame: the set of frames it   *)
(* may decode.  The two-octet form is decoded with six-bit masks.  A frame  *)
(* of the other form is misread: bits of N(S) fall into N(R) and P/F, or    *)
(* N(R) and P/F come from the octet that follows (the protocol of an I      *)
(* frame, a stale octet of the buffer after an S frame).                    *)
(***************************************************************************)
Half == ModExt \div 2

\* What is left of the information of a frame of the other form.
Cut(f) == IF f.data = NoData THEN NoData ELSE Garbled

\* Two octets of control read as two octets.
ReadExtended(f) == [f EXCEPT !.ns = @ % Half, !.nr = @ % Half]

\* Two octets of control read as one.
ReadFirst(f) == [f EXCEPT !.ns = @ % Mod,
                          !.pf = (f.ns \div Mod) % 2 = 1,
                          !.nr = (f.ns \div (2 * Mod)) % Mod,
                          !.data = Cut(f)]

\* One octet of control read as two; r and b come from the octet that follows.
ReadBeyond(f, r, b) ==
    [f EXCEPT !.ns = (@ + (IF f.pf THEN Mod ELSE 0) + 2 * Mod * (f.nr % 4)) % Half,
              !.nr = r, !.pf = b, !.data = Cut(f)]

DecodeControl(f, mode) ==
    IF f.type \in UType \/ (~f.ext /\ mode # "SABME") THEN {f}
    ELSE IF ~f.ext THEN {ReadBeyond(f, r, b) : r \in 0 .. (Half - 1), b \in BOOLEAN}
    ELSE IF mode = "SABME" THEN {ReadExtended(f)}
    ELSE {ReadFirst(f)}

---------------------------------------------------------------------------
(***************************************************************************)
(* Acknowledgement: patty_ax25_sock_ack() and frame_ack() of server.c.      *)
(***************************************************************************)
\* Mutant: the place of N(R) itself is acknowledged too.
AckPlacesInclusive(s, nr) ==
    s.va .. (IF nr < s.va THEN nr + TxSlots(s.mode) ELSE nr)

\* The places va .. nr - 1, unwrapped.
AckPlaces(s, nr) ==
    s.va .. ((IF nr < s.va THEN nr + TxSlots(s.mode) ELSE nr) - 1)

\* Those whose frames look pending, when the slots in junk do.
AckRange(s, nr, junk) ==
    {i \in AckPlaces(s, nr) : \/ Pending(s, i % TxSlots(s.mode))
                              \/ i % TxSlots(s.mode) \in junk}

\* The slots of the places in S.
SlotsOf(s, S) == {i % TxSlots(s.mode) : i \in S}

\* The last place (the code assigns va at each one).
LastOf(S) == CHOOSE i \in S : \A j \in S : j <= i

SockAck(s, nr, junk) ==
    LET acked == AckRange(s, nr, junk)
    IN  IF acked = {}
        THEN s
        ELSE [s EXCEPT
                !.slots = [i \in Seqno |->
                             IF Pending(s, i) /\ i \in SlotsOf(s, acked)
                             THEN [s.slots[i] EXCEPT !.ack = TRUE]
                             ELSE s.slots[i]],
                !.va = (LastOf(acked) + 1) % TxSlots(s.mode)]

\* patty_ax25_sock_ack() > 0: also when N(R) equals va and nothing is new.
AckReported(s, nr, junk) == nr = s.va \/ AckRange(s, nr, junk) # {}

\* Mutant: T1 is stopped by the first acknowledgement, not the last.
AckTimerFirst(s, reported, left) ==
    IF reported THEN [s EXCEPT !.t1 = FALSE] ELSE s

\* T1 after the acknowledgement; left is the junk it has not marked.
AckTimer(s, reported, left) ==
    IF ~reported THEN s
    ELSE IF AckPending(s) \/ left # {}
    THEN [s EXCEPT !.retries = NRetry, !.t1 = TRUE]
    ELSE [s EXCEPT !.t1 = FALSE]

\* Mutant: V(S) is not taken back to N(R).
AckRewindNot(s, f) == s

\* V(S) after a supervisory frame with the P/F bit, command or response.
AckRewind(s, f) ==
    LET max == IF s.vs < s.va THEN s.vs + TxSlots(s.mode) ELSE s.vs
    IN  IF f.type \in SType /\ f.pf /\ s.va <= f.nr /\ f.nr <= max
        THEN [s EXCEPT !.vs = f.nr, !.retries = NRetry]
        ELSE s

\* Mutant: T3 is not started.
FrameAckNoT3(s, f) ==
    {AckRewind(AckTimer(SockAck([s EXCEPT !.rxp = 0], f.nr, {}),
                        AckReported(s, f.nr, {}), {}), f)}

\* frame_ack(): the sockets it may leave behind, one unless there is junk.
FrameAck(s, f) ==
    UNION {{AckRewind(t, f) :
              t \in {AckTimer(a, AckReported(s, f.nr, junk),
                               junk \ SlotsOf(s, AckRange(s, f.nr, junk))) :
                        a \in {SockAck([s EXCEPT !.rxp = 0, !.t3 = TRUE], f.nr, junk)}}} :
           junk \in Junk(s)}

=============================================================================
