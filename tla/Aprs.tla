-------------------------------- MODULE Aprs --------------------------------
(***************************************************************************)
(* The driver of an APRS-IS connection, src/src/aprs_is.c: lines of text    *)
(* become UI frames and UI frames lines.                                    *)
(*                                                                          *)
(* A line is "src>dest,path,path:body" and ends with a newline.  Letters    *)
(* stand for the characters of a call sign or a body.  What                 *)
(* patty_ax25_pton() makes of the letters of one address is the sequence of *)
(* them; it refuses an empty one.                                           *)
(***************************************************************************)
EXTENDS Integers, Sequences, SequencesExt

CONSTANTS
    CallSize,    \* PATTY_AX25_ADDRSTRLEN: 9
    PathSize,    \* PATTY_AX25_MAX_HOPS: 8
    BodySize     \* PATTY_AX25_APRS_IS_PAYLOAD_MAX: 256

ASSUME AprsAssumption == CallSize \in Nat /\ PathSize \in Nat /\ BodySize \in Nat

Letter == {"A", "B"}

\* The address of zeros
Empty == <<>>

---------------------------------------------------------------------------
\* patty_ax25_aprs_is_send() of a UI frame
AprsLine(f) ==
    f.src \o <<">">> \o f.dest \o FlattenSeq([i \in 1 .. Len(f.path) |-> <<",">> \o f.path[i]])
    \o <<":">> \o f.body \o <<"\r", "\n">>

---------------------------------------------------------------------------
NewAprs == [state |-> "HEADER", call |-> Empty, src |-> Empty, dest |-> Empty,
            path |-> <<>>, body |-> <<>>]

\* Mutant: the frame of the line before is kept.
AprsFlushKept(a) ==
    [a EXCEPT !.state = "HEADER", !.call = Empty, !.body = <<>>, !.stop = TRUE]

\* patty_ax25_aprs_is_flush(): the rest of the read counts as used.
AprsFlush(a) ==
    [a EXCEPT !.state = "HEADER", !.call = Empty, !.src = Empty, !.dest = Empty,
              !.path = <<>>, !.body = <<>>, !.stop = TRUE]

AprsDrop(a) == AprsFlush(a)

\* The call so far is an address: of the source at ">", else of the
\* destination if there is none yet, else of a repeater.
Address(a, c) ==
    LET next == IF c = ":" THEN "BODY" ELSE "HEADER"
    IN  IF c # ">" /\ a.dest # Empty /\ Len(a.path) = PathSize THEN AprsDrop(a)
        ELSE IF a.call = Empty THEN AprsDrop(a)
        ELSE CASE c = ">" -> [a EXCEPT !.src = a.call, !.call = Empty]
               [] c # ">" /\ a.dest # Empty ->
                    [a EXCEPT !.path = Append(@, a.call), !.call = Empty, !.state = next]
               [] OTHER -> [a EXCEPT !.dest = a.call, !.call = Empty, !.state = next]

\* Mutant: one letter more than the call has room for
CallFullLate(a) == Len(a.call) = CallSize + 1

CallFull(a) == Len(a.call) = CallSize

InHeader(a, c) ==
    CASE c = "#"             -> [a EXCEPT !.state = "COMMENT"]
      [] c \in {">", ",", ":"} -> Address(a, c)
      [] c \in Letter        -> IF CallFull(a) THEN AprsDrop(a)
                                ELSE [a EXCEPT !.call = Append(@, c)]
      [] OTHER               -> AprsDrop(a)

\* The end of a comment leaves patty_ax25_aprs_is_drain() with no frame
\* pending, and so handle_iface() its loop.
InComment(a, c) ==
    IF c = "\n" THEN [a EXCEPT !.state = "HEADER", !.stop = TRUE] ELSE a

\* The frame is encoded, flushed and handled.
Whole(a) == [src |-> a.src, dest |-> a.dest, path |-> a.path, body |-> a.body]

InText(a, c) ==
    CASE c = "\r" -> a
      [] c = "\n" -> [AprsFlush(a) EXCEPT !.got = Append(@, Whole(a))]
      [] OTHER    -> IF Len(a.body) = BodySize THEN AprsDrop(a)
                     ELSE [a EXCEPT !.body = Append(@, c)]

\* patty_ax25_aprs_is_drain(), character by character.  What is behind the
\* character that stops it is lost.
Character(a, c) ==
    IF a.stop THEN a
    ELSE CASE a.state = "HEADER"  -> InHeader(a, c)
           [] a.state = "COMMENT" -> InComment(a, c)
           [] a.state = "BODY"    -> InText(a, c)

AprsBegin(d) == [state |-> d.state, call |-> d.call, src |-> d.src, dest |-> d.dest,
                 path |-> d.path, body |-> d.body, stop |-> FALSE, got |-> <<>>]

AprsDrain(d, text) ==
    LET after[n \in 0 .. Len(text)] ==
            IF n = 0 THEN AprsBegin(d) ELSE Character(after[n - 1], text[n])
    IN  after[Len(text)]

\* What it keeps for the next read.
AprsRest(a) == [state |-> a.state, call |-> a.call, src |-> a.src, dest |-> a.dest,
                path |-> a.path, body |-> a.body]
=============================================================================
