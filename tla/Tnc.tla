-------------------------------- MODULE Tnc --------------------------------
(***************************************************************************)
(* KISS framing: the encoder of src/src/kiss.c, the decoder of              *)
(* src/src/tnc.c, and the loop over it that handle_iface() and              *)
(* handle_sock_raw() in src/src/server.c share.                             *)
(*                                                                          *)
(* Octets are numbers.  A decoder keeps its state between two reads; what   *)
(* it has collected is in a buffer of its caller, which the caller may      *)
(* share with others.                                                       *)
(***************************************************************************)
EXTENDS Integers, Sequences, SequencesExt

FEND  == 192
FESC  == 219
TFEND == 220
TFESC == 221

\* The nibbles of a command octet.
Command(c) == c % 16
Port(c)    == c \div 16

DATA   == 0
RETURN == 255
Known  == 0 .. 6

---------------------------------------------------------------------------
(***************************************************************************)
(* patty_kiss_frame_send(), on port 0.                                      *)
(***************************************************************************)
Escape(c) == CASE c = FEND -> <<FESC, TFEND>>
               [] c = FESC -> <<FESC, TFESC>>
               [] OTHER    -> <<c>>

Body(f) == FlattenSeq([i \in 1 .. Len(f) |-> Escape(f[i])])

Encode(f) == <<FEND, DATA>> \o Body(f) \o <<FEND>>

---------------------------------------------------------------------------
(***************************************************************************)
(* The decoder: o is offset_o.  In the work record that goes through a read *)
(* of octets, buf is the caller's buffer and size its size, first the first *)
(* octet read, at the place in the read and start the place where the       *)
(* current call of patty_kiss_tnc_drain() began; stop says that the caller  *)
(* has left its loop, fail that it has left it with an error: "EIO", or     *)
(* "any" where errno is whatever was left in it.  got are the frames.       *)
(***************************************************************************)
Decoder == [state : {"NONE", "COMMAND", "BODY", "ESCAPE"},
            command : 0 .. 255, port : 0 .. 15, o : Nat]

NewDecoder == [state |-> "NONE", command |-> RETURN, port |-> 0, o |-> 0]

\* Mutant: a frame of one octet is not pending.
PendingLong(t) == /\ t.state = "COMMAND" /\ t.command = DATA /\ t.port = 0
                  /\ t.o > 1

\* patty_kiss_tnc_pending()
Pending(t) == /\ t.state = "COMMAND" /\ t.command = DATA /\ t.port = 0
              /\ t.o > 0

Taken(t) == [t EXCEPT !.got = Append(@, SubSeq(t.buf, 1, t.o)), !.start = t.at]

\* Mutant: the frame stays in the buffer.
FlushKept(t) == [Taken(t) EXCEPT !.state = "NONE", !.command = RETURN]

\* patty_kiss_tnc_flush(), the use of the frame, and back to drain
Flush(t) == [Taken(t) EXCEPT !.state = "NONE", !.command = RETURN, !.o = 0]

Store(t, c) ==
    [t EXCEPT !.state = "BODY", !.o = @ + 1,
              !.buf = IF t.o < Len(@) THEN [@ EXCEPT ![t.o + 1] = c] ELSE Append(@, c)]

\* Mutant: errno is not set.
ErrorNoErrno(t) == [t EXCEPT !.stop = TRUE, !.fail = "any"]

\* An octet that has no place: EIO
Error(t) == [t EXCEPT !.stop = TRUE, !.fail = "EIO"]

\* tnc_drop(): the buffer counts as read, but for its first octet, which the
\* loop takes next.  What patty_kiss_tnc_drain() then returns is 1 - start.
Drop(t) ==
    [t EXCEPT !.state = IF t.first = FEND THEN "COMMAND" ELSE "NONE",
              !.command = RETURN, !.port = 0, !.o = 0,
              !.stop = TRUE, !.fail = IF t.start > 1 THEN "any" ELSE "no"]

\* An octet in each state of the decoder.
InNone(t, c) == IF c = FEND THEN [t EXCEPT !.state = "COMMAND"] ELSE t

\* The low nibble is compared with FEND, which it never is; RETURN is no
\* nibble either.
InCommand(t, c) ==
    IF Command(c) = FEND THEN t
    ELSE IF Command(c) \notin Known THEN Error(t)
    ELSE [t EXCEPT !.state = "BODY", !.command = Command(c), !.port = Port(c)]

InBody(t, c) ==
    CASE c = FESC -> [t EXCEPT !.state = "ESCAPE"]
      [] c = FEND -> LET u == [t EXCEPT !.state = "COMMAND"]
                     IN  IF Pending(u) THEN Flush(u) ELSE [u EXCEPT !.stop = TRUE]
      [] OTHER    -> IF t.command = DATA THEN Store(t, c) ELSE t

InEscape(t, c) ==
    CASE c = TFEND -> Store(t, FEND)
      [] c = TFESC -> Store(t, FESC)
      [] OTHER     -> Error(t)

\* Mutant: the buffer is full one octet too late.
FullLate(t) == t.o = t.size + 1

Full(t) == t.o = t.size

\* patty_kiss_tnc_drain() and the loop around it, octet by octet
Octet(t, c) ==
    LET u == [t EXCEPT !.at = @ + 1]
    IN  IF t.stop THEN t
        ELSE IF Full(t) THEN Drop(t)
        ELSE CASE t.state = "NONE"    -> InNone(u, c)
               [] t.state = "COMMAND" -> InCommand(u, c)
               [] t.state = "BODY"    -> InBody(u, c)
               [] t.state = "ESCAPE"  -> InEscape(u, c)

\* A read of octets by decoder d, into a buffer of size octets
Begin(d, octets, buf, size) ==
    [state |-> d.state, command |-> d.command, port |-> d.port, o |-> d.o,
     buf |-> buf, size |-> size, first |-> octets[1], at |-> 0, start |-> 0,
     stop |-> FALSE, fail |-> "no", got |-> <<>>]

Drain(d, octets, buf, size) ==
    LET after[n \in 0 .. Len(octets)] ==
            IF n = 0 THEN Begin(d, octets, buf, size) ELSE Octet(after[n - 1], octets[n])
    IN  after[Len(octets)]

\* What the decoder keeps of it.
Rest(t) == [state |-> t.state, command |-> t.command, port |-> t.port, o |-> t.o]
=============================================================================
