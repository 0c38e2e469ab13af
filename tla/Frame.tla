------------------------------- MODULE Frame -------------------------------
(***************************************************************************)
(* The address field of a frame: encode_address(), decode_station() and     *)
(* decode_hops() of src/src/frame.c, and patty_ax25_addr_copy() of          *)
(* src/src/ax25.c.                                                          *)
(*                                                                          *)
(* A station is a member of Station or NoStation, the address of zeros; its *)
(* name and number are not told apart.  An encoded address is a station     *)
(* with the two flags of its last octet: c, the C bit, and last, the        *)
(* address extension bit.                                                   *)
(***************************************************************************)
EXTENDS Integers, Sequences

CONSTANTS
    Station,     \* addresses of stations
    NoStation,   \* the address of zeros
    MaxHops      \* PATTY_AX25_MAX_HOPS: 8

ASSUME FrameAssumption == NoStation \notin Station /\ MaxHops \in Nat

Cr == {"COMMAND", "RESPONSE", "OLD"}

Field == [dest : Station, src : Station, cr : Cr, path : Seq(Station)]

Octets == [addr : Station \cup {NoStation}, c : BOOLEAN, last : BOOLEAN]

---------------------------------------------------------------------------
\* patty_ax25_addr_copy()
AddrCopy(addr, c) == [addr |-> addr, c |-> c, last |-> FALSE]

\* Mutant: the path of a reply is the one of the frame.
BackAsIs(path) == path

\* The repeaters of a reply, last one first.
Back(path) == [i \in 1 .. Len(path) |-> path[Len(path) + 1 - i]]

\* The addresses in the order of the frame; the last octet gets its bit.
Marked(head, path) ==
    LET all == head \o [i \in 1 .. Len(path) |-> AddrCopy(path[i], FALSE)]
    IN  [all EXCEPT ![Len(all)].last = TRUE]

\* encode_address(): the C bits of a command are those of a response when the
\* two stations change places.
EncodeAddress(f, reply) ==
    LET remote == f.cr = "COMMAND"
        local  == f.cr = "RESPONSE"
    IN  IF reply
        THEN Marked(<<AddrCopy(f.src, local), AddrCopy(f.dest, remote)>>, Back(f.path))
        ELSE Marked(<<AddrCopy(f.dest, remote), AddrCopy(f.src, local)>>, f.path)

---------------------------------------------------------------------------
\* decode_station() refuses an address of zeros, and what is not there.
Decodes(s, i) == i <= Len(s) /\ s[i].addr # NoStation

\* Where decode_hops() stops: the first address that is marked as the last, at
\* most MaxHops behind the source.
Ends(s) == {i \in 2 .. (2 + MaxHops) : /\ \A j \in 1 .. i : Decodes(s, j)
                                       /\ s[i].last
                                       /\ \A j \in 2 .. (i - 1) : ~s[j].last}

CrOf(s) == IF s[1].c = s[2].c THEN "OLD"
           ELSE IF s[1].c THEN "COMMAND" ELSE "RESPONSE"

\* patty_ax25_frame_decode_address(): the fields, or none if it fails
DecodeAddress(s) ==
    {[dest |-> s[1].addr, src |-> s[2].addr, cr |-> CrOf(s),
      path |-> [j \in 1 .. (i - 2) |-> s[j + 2].addr]] : i \in Ends(s)}
=============================================================================
