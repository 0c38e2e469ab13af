------------------------------ MODULE Segment ------------------------------
(***************************************************************************)
(* Messages that a peer has cut into segments, put together again by one    *)
(* socket: handle_segment() of src/src/server.c and the assembler of        *)
(* src/src/sock.c, for a stream socket (handle_i) and for a datagram socket *)
(* (handle_ui).                                                             *)
(*                                                                          *)
(* The link under it is Link.tla's: here the I frames of a stream come in   *)
(* order and once, until the link is reset; UI frames may get lost.  V(R)   *)
(* moves before handle_segment() looks at the frame, so a segment that is   *)
(* refused (SREJ, which asks for the next one) never comes again.           *)
(***************************************************************************)
EXTENDS Integers, Sequences, SequencesExt, FiniteSets

CONSTANTS
    Rx,         \* n_maxlen_rx of a stream socket, and N1 of its peer
    Lengths,    \* the numbers of segments of a message; 1: a plain frame
    MaxMsgs,    \* bound: messages of the peer
    MaxFaults   \* bound: resets, lost and stray frames

ASSUME SegmentAssumption == /\ Rx \in Nat /\ Rx >= 2
                            /\ Lengths \subseteq 1 .. 128

VARIABLES
    type,     \* sock->type
    asm,      \* sock->assembler, and what it has saved
    alive,    \* the daemon has not ended
    chan,     \* frames of the peer on their way
    sent,     \* history: the number of segments of each message
    cut,      \* history: the messages that a reset has cut short
    out,      \* history: what was written to the client, write by write
    faults    \* history: what went wrong on the air

vars == <<type, asm, alive, chan, sent, cut, out, faults>>

\* The frames: of message msg, or of none (0); len is infolen.
Segment == [msg : Nat, kind : {"plain", "first", "next"}, rem : 0 .. 127, len : Nat]

Assembler == [total : 0 .. 128, remaining : 0 .. 128, offset : Nat,
              room : Nat,             \* the octets that malloc() gave it
              saved : Seq(Segment)]

\* No assembler (NULL) is like one that was stopped.
NoAssembler == [total |-> 0, remaining |-> 0, offset |-> 0, room |-> 0, saved |-> <<>>]

\* init_dgram() leaves n_maxlen_rx zero
MaxlenRx == IF type = "STREAM" THEN Rx ELSE 0

---------------------------------------------------------------------------
(***************************************************************************)
(* The assembler.  A new one takes the place of one with a smaller total;   *)
(* one at least as large goes on where it is.                               *)
(***************************************************************************)
\* Mutant: the counters start again in the memory that is there.
AssemblerInitInPlace(a, total) ==
    [total |-> total, remaining |-> total, offset |-> 0, saved |-> <<>>,
     room |-> IF a.room = 0 THEN total * MaxlenRx ELSE a.room]

AssemblerInit(a, total) ==
    IF a.total < total
    THEN [total |-> total, remaining |-> total, offset |-> 0,
          room |-> total * MaxlenRx, saved |-> <<>>]
    ELSE a

\* Mutant: any segment will do.
AssemblerPendingAny(a, rem) == a.total # 0 /\ a.remaining # 0

AssemblerPending(a, rem) == a.total # 0 /\ rem + 1 = a.remaining

\* Mutant: the total stays.
AssemblerStopKept(a) == [a EXCEPT !.remaining = 0]

AssemblerStop(a) == [a EXCEPT !.remaining = 0, !.total = 0]

\* len > n_maxlen_rx - 1, where zero minus one is the largest size_t
Overlong(f) == MaxlenRx > 0 /\ f.len - 1 > MaxlenRx - 1

AssemblerSave(a, f) == [a EXCEPT !.offset = @ + (f.len - 1), !.remaining = @ - 1,
                                 !.saved = Append(@, f)]

---------------------------------------------------------------------------
(***************************************************************************)
(* handle_segment(), and the frames that are no segments                    *)
(***************************************************************************)
\* Mutant: the first segment may also be the last.
RefusedLess(f) ==
    \/ f.len < 2
    \/ f.kind = "next" /\ f.rem > 0 /\ f.len # MaxlenRx
    \/ f.kind = "next" /\ f.rem = 0 /\ f.len > MaxlenRx

\* Before the assembler is asked: SREJ
Refused(f) ==
    \/ f.len < 2
    \/ f.kind = "first" /\ f.rem = 0
    \/ f.kind = "next" /\ f.rem > 0 /\ f.len # MaxlenRx
    \/ f.kind = "next" /\ f.rem = 0 /\ f.len > MaxlenRx

Begun(f) == IF f.kind = "first" THEN AssemblerInit(asm, f.rem + 1) ELSE asm

\* assembler_init() fails for a total of less than two
TooFew(f) == f.kind = "first" /\ f.rem + 1 < 2

\* -1 from handle_segment(), which ends the daemon
Fails(f) == TooFew(f) \/ (AssemblerPending(Begun(f), f.rem) /\ Overlong(f))

HandleSegment(f) ==
    LET a == Begun(f)
        b == AssemblerSave(a, f)
    IN  \/ /\ Refused(f)
           /\ UNCHANGED <<asm, alive, out>>
        \/ /\ ~Refused(f) /\ Fails(f)
           /\ alive' = FALSE
           /\ UNCHANGED <<asm, out>>
        \/ /\ ~Refused(f) /\ ~Fails(f) /\ ~AssemblerPending(a, f.rem)
           /\ asm' = AssemblerStop(a)
           /\ UNCHANGED <<alive, out>>
        \/ /\ ~Refused(f) /\ ~Fails(f) /\ AssemblerPending(a, f.rem)
           /\ asm' = IF f.rem = 0 THEN AssemblerStop(b) ELSE b
           /\ out' = IF f.rem = 0 THEN Append(out, b.saved) ELSE out
           \* memory beyond the assembler: anything may follow
           /\ alive' \in IF b.offset > b.room THEN BOOLEAN ELSE {TRUE}

HandlePlain(f) == out' = Append(out, <<f>>) /\ UNCHANGED <<asm, alive>>

\* handle_i() of a frame whose N(S) is V(R), handle_ui()
HandleFrame(f) == IF f.kind = "plain" THEN HandlePlain(f) ELSE HandleSegment(f)

---------------------------------------------------------------------------
(***************************************************************************)
(* The peer, which is external: it cuts a message into segments of N1       *)
(* octets and a shorter last one.                                           *)
(***************************************************************************)
Frames(i, n) ==
    IF n = 1 THEN <<[msg |-> i, kind |-> "plain", rem |-> 0, len |-> Rx]>>
    ELSE [j \in 1 .. n |-> [msg  |-> i,
                            kind |-> IF j = 1 THEN "first" ELSE "next",
                            rem  |-> n - j,
                            len  |-> IF j = n THEN 2 ELSE Rx]]

\* Frames out of place: of no message, of the wrong length, with a counter
\* that is not the next one, or longer than the receiver said it takes.
Stray == {[msg |-> 0, kind |-> k, rem |-> r, len |-> l] :
             k \in {"first", "next"}, r \in 0 .. 3, l \in {1, Rx, Rx + 1}}

Put(n) ==
    /\ alive
    /\ Len(sent) < MaxMsgs
    /\ sent' = Append(sent, n)
    /\ chan' = chan \o Frames(Len(sent'), n)
    /\ UNCHANGED <<type, asm, alive, cut, out, faults>>

Receive ==
    /\ alive
    /\ chan # <<>>
    /\ HandleFrame(Head(chan))
    /\ chan' = Tail(chan)
    /\ UNCHANGED <<type, sent, cut, faults>>

ReceiveStray(f) ==
    /\ alive
    /\ Len(faults) < MaxFaults
    /\ HandleFrame(f)
    /\ faults' = Append(faults, IF f.len > Rx THEN "big" ELSE "stray")
    /\ UNCHANGED <<type, chan, sent, cut>>

\* A UI frame that nobody repeats
Lose ==
    /\ alive /\ type = "DGRAM"
    /\ Len(faults) < MaxFaults
    /\ chan # <<>>
    /\ chan' = Tail(chan)
    /\ faults' = Append(faults, "lost")
    /\ UNCHANGED <<type, asm, alive, sent, cut, out>>

\* A SABM or SABME on a link that is up: the frames on their way are gone
\* (handle_sabm and patty_ax25_sock_reset(), which keeps the assembler)
Reset ==
    /\ alive /\ type = "STREAM"
    /\ Len(faults) < MaxFaults
    /\ chan' = <<>>
    /\ cut' = cut \cup {chan[i].msg : i \in DOMAIN chan}
    /\ faults' = Append(faults, "reset")
    /\ UNCHANGED <<type, asm, alive, sent, out>>

Init == /\ type \in {"STREAM", "DGRAM"}
        /\ asm = NoAssembler /\ alive = TRUE
        /\ chan = <<>> /\ sent = <<>> /\ out = <<>> /\ faults = <<>> /\ cut = {}

Next == \/ \E n \in Lengths : Put(n)
        \/ Receive
        \/ \E f \in Stray : ReceiveStray(f)
        \/ Lose
        \/ Reset

Spec == Init /\ [][Next]_vars

---------------------------------------------------------------------------
(***************************************************************************)
(* Properties                                                               *)
(***************************************************************************)
\* What the assembler of a stream socket has saved fits in its memory, and
\* has room left for the segments it waits for (sock.c:463: the memory is
\* measured once, for the total of the message it was made for, and later
\* messages may go on in it).
Fits == type = "STREAM" =>
            asm.offset + asm.remaining * (Rx - 1) <= asm.room

\* What is written to the client in one piece is a plain frame, or segments
\* whose counters run down from a first one to zero without a gap.
CountsDown ==
    \A j \in DOMAIN out :
        \/ \E f \in Range(out[j]) : f.kind = "plain" /\ out[j] = <<f>>
        \/ /\ out[j] # <<>> /\ out[j][1].kind = "first"
           /\ \A k \in DOMAIN out[j] : out[j][k].rem = Len(out[j]) - k

Through(i) == i \notin cut /\ \A j \in DOMAIN chan : chan[j].msg # i

Written(i, j) == out[j] = Frames(i, sent[i])

Damaged == {i \in DOMAIN sent : Through(i) /\ \A j \in DOMAIN out : ~Written(i, j)}

\* A fault on a stream costs at most one of the messages that came complete:
\* the assembler it leaves behind spoils the next message (it is taken for
\* its continuation or refused) and not the one after it.
DamageBounded == type = "STREAM" /\ alive => Cardinality(Damaged) <= Len(faults)

\* Only a segment longer than N1 ends the daemon (assembler_save).
Survives == type = "STREAM" /\ ~alive => "big" \in Range(faults)

TypeOK == /\ type \in {"STREAM", "DGRAM"}
          /\ asm \in Assembler
          /\ alive \in BOOLEAN
          /\ chan \in Seq(Segment) /\ sent \in Seq(Lengths)
          /\ out \in Seq(Seq(Segment)) /\ cut \subseteq Nat
          /\ faults \in Seq({"big", "stray", "lost", "reset"})
=============================================================================
