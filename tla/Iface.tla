------------------------------- MODULE Iface -------------------------------
(***************************************************************************)
(* An interface: src/src/if.c with its two drivers (Tnc, Aprs), the loop of *)
(* handle_iface() in src/src/server.c, and the raw sockets, whose clients   *)
(* read and write whole frames, KISS-encoded, on a pty.                     *)
(*                                                                          *)
(* read() may stop after any octet, and a read that is not used up is lost  *)
(* when the next one fills the buffer.  A pty keeps its order.  Raw sockets *)
(* and other interfaces (Others) are there with the KISS driver; Others are *)
(* only seen through what they write to the ptys on their promiscuous list. *)
(***************************************************************************)
EXTENDS Tnc, Aprs, Frame, FiniteSets

CONSTANTS
    Frames,      \* frames on a KISS line: sequences of octets
    Lines,       \* frames on an APRS-IS line
    Comments,    \* other lines an APRS-IS server sends
    Answered,    \* frames that handle_frame() answers through reply_to()
    Answer,      \* ... with this one
    Fd,          \* descriptors of sockets
    Others,      \* other interfaces
    Mru, Mtu,    \* octets in iface->rx_buf and iface->tx_buf
    BufSize,     \* PATTY_KISS_TNC_BUFSZ: 4096
    MaxFrames,   \* bound: frames on the line and from clients
    MaxSocks,    \* bound: sockets made
    MaxOdd       \* bound: kinds of irregular events in one behaviour

ASSUME IfaceAssumption ==
    /\ Frames \subseteq Seq(0 .. 255) /\ Answer \in Seq(0 .. 255)
    /\ Answered \subseteq Frames
    /\ Station \subseteq Seq(Letter)
    /\ NoStation = Empty /\ PathSize <= MaxHops
    /\ Lines \subseteq [src : Station, dest : Station, path : Seq(Station), body : Seq(STRING)]
    /\ \A f \in Lines : \A i \in 1 .. Len(f.body) : f.body[i] \notin {"\r", "\n"}
    /\ \A c \in Comments : /\ c \in Seq(STRING) /\ Len(c) > 1 /\ c[1] = "#"
                            /\ \A i \in 1 .. Len(c) : c[i] = "\n" <=> i = Len(c)
    /\ "this" \notin Others /\ "none" \notin Others
    /\ "open" \notin Fd /\ "closed" \notin Fd /\ "none" \notin Fd
    /\ Len(Answer) <= Mtu
    /\ Mru \in Nat \ {0} /\ Mtu \in Nat \ {0} /\ BufSize \in Nat \ {0}
    /\ MaxFrames \in Nat /\ MaxSocks \in Nat /\ MaxOdd \in Nat

VARIABLES
    up,          \* the daemon has not ended
    driver,      \* "kiss" or "aprs"
    device,      \* what the driver's descriptor is: "open", "closed" or a pty
    status,      \* iface->status
    wire,        \* what is on its way to the interface
    decoder,     \* of the driver
    rx,          \* iface->rx_buf, as far as it is used
    tx,          \* iface->tx_buf
    sent,        \* history: frames on the line, in order
    heard,       \* frames given to handle_frame()
    air,         \* frames sent by the interface
    sock,        \* the sockets
    promisc,     \* the promiscuous list of each interface
    made,        \* number of sockets made
    handed,      \* history: frames that clients have written, in order
    odd          \* history: what went on that the code does not provide for

line == <<driver, wire, sent>>
ptys == <<promisc, made, handed>>
vars == <<up, device, status, line, decoder, rx, tx, heard, air, sock, ptys, odd>>

Interface == Others \cup {"this"}

---------------------------------------------------------------------------
(***************************************************************************)
(* Sockets.  promisc says that the state is PROMISC, which need not be so of *)
(* every descriptor on a promiscuous list.  in is what the client has written *)
(* and the server not yet read, raw the decoder of a raw socket, got the     *)
(* interfaces that have written to the pty, for its client to read.          *)
(***************************************************************************)
Socket(type) == [type |-> type, iface |-> "none", promisc |-> FALSE,
                 raw |-> NewDecoder, in |-> <<>>, got |-> {}]

Open == {f \in Fd : sock[f].type # "none"}

\* handle_promisc_frame() for each descriptor on the list of interface i
Copied(ss, i) ==
    [f \in Fd |-> IF f \in promisc[i] THEN [ss[f] EXCEPT !.got = @ \cup {i}] ELSE ss[f]]

\* It fails at a descriptor that is closed.
CopyFails(i) == promisc[i] \ Open # {}

\* What the driver's send writes to: the line, or a pty by mistake.
Written(ss) == IF device \in Fd THEN [ss EXCEPT ![device].got = @ \cup {"this"}] ELSE ss

\* patty_ax25_if_send() of frames fails, or changes ptys and air.
SendFails == device = "closed" \/ CopyFails("this")

IfSend(frames) == air \cup (IF device = "open" THEN ToSet(frames) ELSE {})

\* A raw socket has begun to collect a frame in tx_buf, other than f.
Collecting(f) == {g \in Fd \ {f} : sock[g].raw.o > 0}

\* An error leaves patty_ax25_server_event_handle().
End == up' = FALSE /\ UNCHANGED <<device, status, line, decoder, rx, tx, heard, air, sock, ptys>>

---------------------------------------------------------------------------
Init ==
    /\ up = TRUE /\ driver \in {"kiss", "aprs"} /\ device = "open" /\ status = "UP"
    /\ wire = <<>> /\ rx = <<>> /\ tx = <<>>
    /\ decoder = IF driver = "kiss" THEN NewDecoder ELSE NewAprs
    /\ sent = <<>> /\ heard = <<>> /\ air = {} /\ handed = <<>>
    /\ sock = [f \in Fd |-> Socket("none")] /\ made = 0
    /\ promisc = [i \in Interface |-> {}]
    /\ odd = {}

(***************************************************************************)
(* The line.                                                                *)
(***************************************************************************)
Irregular(what) ==
    /\ Cardinality(odd \cup what) <= MaxOdd \/ what = {}
    /\ odd' = odd \cup what

Put(f, octets, what) ==
    /\ up /\ Irregular(what)
    /\ Len(sent) + Len(handed) < MaxFrames
    /\ wire' = wire \o octets /\ sent' = Append(sent, f)
    /\ UNCHANGED <<up, driver, device, status, decoder, rx, tx, heard, air, sock, ptys>>

\* A patty at the other end of the KISS line; frames fit if they end before the
\* buffer does.
PutFrame(f) == Put(f, Encode(f), IF Len(f) \in 1 .. (Mru - 1) THEN {} ELSE {"long"})

\* Another TNC: frames that share a FEND, idle FENDs between them, and an
\* unknown command.
PutShared(f)  == Put(f, Tail(Encode(f)), {"foreign"})
PutIdle(f)    == Put(f, <<FEND>> \o Encode(f), {"foreign"})
PutGarbage    == Put(<<>>, <<FEND, 15, FEND>>, {"garbage"})

\* An APRS-IS server
Fits(f) == /\ Len(f.body) <= BodySize /\ Len(f.path) <= PathSize
           /\ \A i \in 1 .. Len(f.path) : Len(f.path[i]) <= CallSize
           /\ Len(f.src) <= CallSize /\ Len(f.dest) <= CallSize
PutLine(f)    == Put(f, AprsLine(f), IF Fits(f) THEN {} ELSE {"long"})
PutComment(c) ==
    /\ up /\ Len(wire) < BufSize
    /\ wire' = wire \o c
    /\ UNCHANGED <<up, device, driver, status, sent, decoder, rx, tx, heard, air, sock, ptys, odd>>

---------------------------------------------------------------------------
(***************************************************************************)
(* handle_iface() when the driver's descriptor can be read.                 *)
(***************************************************************************)
Input == IF device \in Fd THEN sock[device].in ELSE wire

Used(ss, n) == IF device \in Fd
               THEN [ss EXCEPT ![device].in = SubSeq(@, n + 1, Len(@))] ELSE ss

\* n octets are read by the KISS driver.  Frames go to the promiscuous list and
\* to handle_frame(), which may answer through tx_buf.
HandleIfaceKiss(n) ==
    LET t       == Drain(decoder, SubSeq(Input, 1, n), rx, Mru)
        answers == SelectSeq(t.got, LAMBDA f : f \in Answered)
        fails   == t.got # <<>> /\ CopyFails("this")
    IN  /\ up /\ driver = "kiss" /\ status = "UP" /\ device # "closed"
        /\ n <= Len(Input)
        /\ odd' = odd \cup (IF answers # <<>> /\ Collecting("none") # {} THEN {"mixed"} ELSE {})
        /\ \/ /\ ~fails
              /\ wire' = IF device = "open" THEN SubSeq(wire, n + 1, Len(wire)) ELSE wire
              /\ decoder' = Rest(t) /\ rx' = SubSeq(t.buf, 1, t.o)
              /\ heard' = heard \o t.got
              /\ air' = IfSend([i \in 1 .. Len(answers) |-> Answer])
              /\ tx' = IF answers = <<>> THEN tx
                       ELSE Answer \o SubSeq(tx, Len(Answer) + 1, Len(tx))
              /\ sock' = LET ss == Used(sock, n)
                         IN  IF t.got = <<>> THEN ss
                             ELSE Copied(IF answers = <<>> THEN ss ELSE Written(ss), "this")
              /\ status' = IF t.fail = "no" THEN "UP" ELSE "DOWN"
              /\ UNCHANGED <<up, driver, device, sent, ptys>>
           \/ (fails \/ t.fail = "any") /\ End

\* The same with the APRS-IS driver.  The frame is encoded into rx_buf, and
\* handle_frame() decodes its addresses.
Handled(f) ==
    {[src |-> d.src, dest |-> d.dest, path |-> d.path, body |-> f.body] :
        d \in DecodeAddress(EncodeAddress([dest |-> f.dest, src |-> f.src,
                                           cr |-> "COMMAND", path |-> f.path], FALSE))}

\* text goes through the decoder; at most one line of it is completed, and its
\* frame handled if the addresses can be decoded.
Read(text) ==
    LET a == AprsDrain(decoder, text)
        F == IF a.got = <<>> THEN {} ELSE Handled(a.got[1])
    IN  /\ decoder' = AprsRest(a)
        /\ \/ F = {} /\ UNCHANGED heard
           \/ \E f \in F : heard' = Append(heard, f)

EndsIn(text) == {i \in 1 .. Len(text) : text[i] = "\n"}

HandleIfaceAprs(n) ==
    /\ up /\ driver = "aprs" /\ status = "UP" /\ device = "open"
    /\ n <= Len(wire)
    /\ wire' = SubSeq(wire, n + 1, Len(wire))
    /\ Read(SubSeq(wire, 1, n))
    /\ odd' = odd \cup (IF EndsIn(SubSeq(wire, 1, n)) \subseteq {n} THEN {} ELSE {"beyond"})
    /\ UNCHANGED <<up, driver, device, status, rx, tx, sent, air, sock, ptys>>

\* read() fails.  patty_kiss_tnc_reset() is not there and its errno is not EIO;
\* the APRS-IS driver connects again, or ends the daemon after three attempts.
\* The new connection begins with readlen = -1, which the comparison with
\* offset_i takes for a large number: the driver goes through what rx_buf still
\* holds, and behind it, with its old state.  Bound: once.
Stale == {<<>>} \cup {AprsLine(f) : f \in ToSet(sent)}

HandleIfaceError ==
    /\ up /\ status = "UP" /\ device = "open" /\ "hangup" \notin odd
    /\ Irregular({"hangup"})
    /\ \/ End
       \/ /\ driver = "aprs"
          /\ wire' = <<>>
          /\ \E text \in Stale : Read(text)
          /\ status' \in {"UP", "DOWN"}
          /\ UNCHANGED <<up, driver, device, rx, tx, sent, air, sock, ptys>>

\* read() returns 0: the descriptor is closed and no longer watched.  The
\* status stays UP and the driver keeps the number.
HandleIfaceEof ==
    /\ up /\ status = "UP" /\ device = "open" /\ wire = <<>>
    /\ device' = "closed"
    /\ Irregular({"hangup"})
    /\ UNCHANGED <<up, driver, status, wire, sent, decoder, rx, tx, heard, air, sock, ptys>>

\* The number is that of a pty whose octets handle_sock_raw() has just read:
\* read() waits, and with it the daemon.
HandleIfaceWaits ==
    /\ up /\ status = "UP" /\ device \in Open
    /\ odd' = odd
    /\ End

---------------------------------------------------------------------------
(***************************************************************************)
(* Raw sockets.                                                             *)
(***************************************************************************)
\* server_socket().  The pty may get the number that the driver still uses.
ServerSocket(f, type) ==
    /\ up /\ driver = "kiss" /\ f \notin Open /\ made < MaxSocks
    /\ sock' = [sock EXCEPT ![f] = Socket(type)]
    /\ made' = made + 1
    /\ device' \in {device} \cup (IF device = "closed" THEN {f} ELSE {})
    /\ UNCHANGED <<up, status, line, decoder, rx, tx, heard, air, promisc, handed, odd>>

\* server_setsockopt() with the IF option: patty_ax25_sock_bind_if().  The state
\* is PROMISC if p says so now, or if it was and nothing has changed it.  An
\* entry on the list of an interface that was set before stays there.
SetSockOptIf(f, i, p) ==
    LET s == [sock[f] EXCEPT !.iface = i, !.promisc = @ \/ p]
    IN  /\ up /\ sock[f].type = "raw"
        /\ sock' = [sock EXCEPT ![f] = s]
        /\ promisc' = IF s.promisc THEN [promisc EXCEPT ![i] = @ \cup {f}] ELSE promisc
        /\ Irregular(IF sock[f].iface \in {"none", i} THEN {} ELSE {"rebound"})
        /\ UNCHANGED <<up, device, status, line, decoder, rx, tx, heard, air, made, handed>>

\* server_listen() does not look at the type: the state of a raw socket with an
\* address becomes LISTENING, and its entry on the list stays.
ServerListen(f) ==
    /\ up /\ sock[f].type = "raw"
    /\ sock' = [sock EXCEPT ![f].promisc = FALSE]
    /\ Irregular(IF sock[f].promisc THEN {"listened"} ELSE {})
    /\ UNCHANGED <<up, device, status, line, decoder, rx, tx, heard, air, ptys>>

\* Mutant: the descriptor stays on the list.
PromiscDeleteNot(f) == promisc

\* patty_ax25_if_promisc_delete(), if the state is still PROMISC, for the
\* interface that the socket has last
PromiscDelete(f) ==
    IF sock[f].promisc THEN [promisc EXCEPT ![sock[f].iface] = @ \ {f}] ELSE promisc

\* sock_close() and patty_ax25_sock_destroy(); that the tables have the socket,
\* without which sock_close() fails, is the matter of Registry.
SockClose(f) ==
    /\ up /\ f \in Open
    /\ sock' = [sock EXCEPT ![f] = Socket("none")]
    /\ promisc' = PromiscDelete(f)
    /\ device' = IF device = f THEN "closed" ELSE device
    /\ UNCHANGED <<up, status, line, decoder, rx, tx, heard, air, made, handed, odd>>

\* A client writes a frame, or an unknown command, to its raw socket.
Write(f, frame, octets, what) ==
    /\ up /\ sock[f].type = "raw" /\ Irregular(what)
    /\ Len(sent) + Len(handed) < MaxFrames
    /\ sock' = [sock EXCEPT ![f].in = @ \o octets]
    /\ handed' = Append(handed, frame)
    /\ UNCHANGED <<up, device, status, line, decoder, rx, tx, heard, air, promisc, made>>

WriteFrame(f, frame) ==
    Write(f, frame, Encode(frame), IF Len(frame) \in 1 .. (Mtu - 1) THEN {} ELSE {"raw"})

WriteGarbage(f) == Write(f, <<>>, <<FEND, 15, FEND>>, {"raw"})

\* handle_sock_raw() when n octets can be read: they are collected in the tx_buf
\* of the interface, which all raw sockets and reply_to() share.
HandleSockRaw(f, n) ==
    LET s     == sock[f]
        t     == Drain(s.raw, SubSeq(s.in, 1, n), tx, Mtu)
        rest  == [sock EXCEPT ![f].raw = Rest(t), ![f].in = SubSeq(@, n + 1, Len(@))]
        fails == t.fail # "no" \/ (t.got # <<>> /\ SendFails)
    IN  /\ up /\ s.type = "raw" /\ s.iface = "this" /\ n <= Len(s.in)
        /\ odd' = odd \cup (IF t.buf # tx /\ Collecting(f) # {} THEN {"mixed"} ELSE {})
        /\ IF fails THEN End
           ELSE /\ tx' = t.buf
                /\ air' = IfSend(t.got)
                /\ sock' = IF t.got = <<>> THEN rest ELSE Copied(Written(rest), "this")
                /\ UNCHANGED <<up, device, status, line, decoder, rx, heard, ptys>>

\* Another interface receives a frame.
HandleOther(i) ==
    /\ up /\ driver = "kiss"
    /\ odd' = odd
    /\ IF CopyFails(i) THEN End
       ELSE /\ sock' = Copied(sock, i)
            /\ UNCHANGED <<up, device, status, line, decoder, rx, tx, heard, air, ptys>>

---------------------------------------------------------------------------
Line ==
    \/ driver = "kiss" /\ (PutGarbage \/ \E f \in Frames : PutFrame(f) \/ PutShared(f) \/ PutIdle(f))
    \/ driver = "aprs" /\ ((\E f \in Lines : PutLine(f)) \/ \E c \in Comments : PutComment(c))

HandleIface ==
    \/ \E n \in 1 .. BufSize : HandleIfaceKiss(n) \/ HandleIfaceAprs(n)
    \/ HandleIfaceError \/ HandleIfaceEof \/ HandleIfaceWaits

Raw ==
    \E f \in Fd :
        \/ \E type \in {"raw", "stream"} : ServerSocket(f, type)
        \/ \E i \in Interface, p \in BOOLEAN : SetSockOptIf(f, i, p)
        \/ ServerListen(f)
        \/ SockClose(f)
        \/ \E frame \in Frames : WriteFrame(f, frame)
        \/ WriteGarbage(f)
        \/ \E n \in 1 .. BufSize : HandleSockRaw(f, n)

Next == Line \/ HandleIface \/ Raw \/ \E i \in Others : HandleOther(i)

Spec == Init /\ [][Next]_vars

---------------------------------------------------------------------------
\* Whatever arrives on the line or from a client, no decoder writes behind the
\* end of its buffer: every way to store an octet, a letter or a repeater passes
\* a comparison with the size first.
NoOverflow ==
    /\ driver = "kiss" => decoder.o <= Mru /\ Len(tx) <= Mtu
    /\ driver = "aprs" => /\ Len(decoder.call) <= CallSize /\ Len(decoder.body) <= BodySize
                          /\ Len(decoder.path) <= PathSize

Regular == odd \cap {"long", "foreign", "garbage", "hangup", "beyond"} = {}

\* What the other end has sent, and only that, is received in order and
\* unaltered, wherever the reads divide it: KISS frames with their escapes, and
\* APRS-IS lines between comments, as long as no read goes on behind the end of
\* a line.
InOrder == Regular => IsPrefix(heard, sent)

\* Nothing of it stays behind: once all is read, all frames are there and the
\* interface is up.
Complete == Regular => status # "DOWN" /\ (up /\ wire = <<>> => heard = sent)

\* The interface sends only whole frames that some client has written, or the
\* answers of the daemon, unless a second writer has used tx_buf while one was
\* still collecting its frame there, a socket has changed its interface, and so
\* its tx_buf, in the middle of a frame, or a client has written a frame that is
\* too long: tnc_drop() may take the rest of it for a frame.
RawIntact ==
    odd \cap {"mixed", "rebound", "raw"} = {} => air \subseteq (ToSet(handed) \cup {Answer})

\* What leaves a closed descriptor on a list, or with the driver
Stray == {"rebound", "listened", "hangup"}

\* An interface writes only to the ptys of raw sockets that were bound to it,
\* never to one that took over the descriptor, unless a socket has changed its
\* interface, a promiscuous one has listened, or the device has hung up.
NoStray ==
    odd \cap Stray = {} => \A f \in Fd : sock[f].got \subseteq {sock[f].iface}

\* An unknown command from another TNC, or two writers that mix their frames,
\* may take the interface down but not the daemon.  A closed descriptor that is
\* still on a promiscuous list ends it with the next frame.
Survives == up \/ odd \cap ({"long", "foreign", "raw"} \cup Stray) # {}

\* What the daemon would answer to a frame goes back to its sender as a
\* response, along the repeaters in the other order.
ReplyReturns ==
    driver = "aprs" => \A f \in ToSet(heard) :
        LET answer == EncodeAddress([dest |-> f.dest, src |-> f.src,
                                     cr |-> "COMMAND", path |-> f.path], TRUE)
        IN  DecodeAddress(answer) =
                {[dest |-> f.src, src |-> f.dest, cr |-> "RESPONSE", path |-> Reverse(f.path)]}
=============================================================================
