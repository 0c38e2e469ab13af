------------------------------- MODULE Link -------------------------------
(***************************************************************************)
(* Two AX.25 stations and the radio channel between them: the frame         *)
(* handlers and the per-socket part of the event loop of src/src/server.c,  *)
(* over the socket operations of Sock.tla.                                  *)
(*                                                                          *)
(* pattyd is one thread: every handler runs to its end before select() is   *)
(* called again, so a handler is one action.  The channel keeps the order   *)
(* of the frames and may lose any of them (a frame that finds it full is    *)
(* lost too).  A station that does not run patty is an environment that     *)
(* sends any frame of Foreign, at any time.                                 *)
(*                                                                          *)
(* sock[n] is the socket that station n has in socks_remote for its peer;   *)
(* state CLOSED means there is none (a fresh one, or one destroyed).        *)
(***************************************************************************)
EXTENDS Sock

CONSTANTS
    Patty,       \* the stations that run patty
    Listeners,   \* stations with a LISTENING stream socket on their address
    Callers,     \* stations whose client calls connect()
    Leavers,     \* stations whose client may close() its socket
    Hangers,     \* stations whose client may hang up its pty
    Redialers,   \* callers that connect() again before the old link is down
    Setters,     \* stations whose client calls setsockopt()
    Windows,     \* the windows it sets
    MaxSend,     \* bound: how many items the client of a station writes
    NetCap,      \* bound: frames on the way to a station
    Foreign,     \* what a station without patty may send
    Connected,   \* TRUE: start from a link just set up by station 1
    Base         \* items station 1 has sent, and had acknowledged, by then

VARIABLES
    sock,        \* the socket of each station
    watch,       \* its pty is in fds_watch
    net,         \* the frames on the way to each station
    sent,        \* how many items were read from the pty of each station
    got,         \* the items written to the pty of each station
    hup,         \* the client has closed its side of the pty
    answer,      \* what the client was told about its connect() call
    up           \* the daemon is running

vars == <<sock, watch, net, sent, got, hup, answer, up>>

Stations == {1, 2}
Peer(n)  == 3 - n

ASSUME LinkAssumption ==
    /\ Patty \subseteq Stations
    /\ Listeners \subseteq Stations
    /\ Callers \subseteq Stations
    /\ Leavers \subseteq Stations
    /\ Hangers \subseteq Stations
    /\ Redialers \subseteq Callers
    /\ Setters \subseteq Stations
    /\ Windows \subseteq Nat \ {0}
    /\ MaxSend \in [Stations -> 0 .. MaxItem]
    /\ NetCap \in Nat \ {0}
    /\ Foreign \subseteq Frame
    /\ Connected \in BOOLEAN
    /\ Base \in Nat /\ Base <= ModExt \div 2 /\ Base <= MaxItem

TypeOK ==
    /\ sock \in [Stations -> Socket]
    /\ watch \in [Stations -> BOOLEAN]
    /\ net \in [Stations -> Seq(Frame)]
    /\ sent \in [Stations -> 0 .. MaxItem]
    /\ got \in [Stations -> SUBSET (1 .. Garbled)]
    /\ hup \in [Stations -> BOOLEAN]
    /\ answer \in [Stations -> {"none", "waiting", "ok", "refused", "timeout", "extra"}]
    /\ up \in [Stations -> BOOLEAN]

---------------------------------------------------------------------------
(***************************************************************************)
(* Initial states: nothing yet, or the link that station 1 has just set up  *)
(* with an XID, SABME and UA exchange and has sent Base items over.         *)
(***************************************************************************)
CallerSock ==
    [NewSock EXCEPT !.state = "ESTABLISHED", !.mode = "SABME",
                    !.vs = Base % ModExt, !.va = Base % ModExt, !.t3 = TRUE,
                    !.slots = [i \in Seqno |-> IF i < Base
                                               THEN [data |-> i + 1, ack |-> TRUE]
                                               ELSE EmptySlots[i]],
                    !.ring = ModExt]

ListenerSock ==
    [NewSock EXCEPT !.state = "ESTABLISHED", !.mode = "SABME",
                    !.k = WinMax, !.krx = WinMax,
                    !.vr = Base % ModExt, !.ring = ModExt, !.t1 = Base = 0, !.t3 = TRUE]

Init ==
    /\ sock = IF Connected THEN [n \in Stations |-> IF n = 1 THEN CallerSock ELSE ListenerSock]
                           ELSE [n \in Stations |-> NewSock]
    /\ watch = [n \in Stations |-> Connected]
    /\ net = [n \in Stations |-> <<>>]
    /\ sent = [n \in Stations |-> IF Connected /\ n = 1 THEN Base ELSE 0]
    /\ got = [n \in Stations |-> IF Connected /\ n = 2 THEN 1 .. Base ELSE {}]
    /\ hup = [n \in Stations |-> FALSE]
    /\ answer = [n \in Stations |-> IF Connected /\ n = 1 THEN "ok" ELSE "none"]
    /\ up = [n \in Stations |-> n \in Patty]

---------------------------------------------------------------------------
(***************************************************************************)
(* Sending.                                                                 *)
(***************************************************************************)
Put(ch, fs) == IF Len(ch) + Len(fs) <= NetCap THEN ch \o fs ELSE ch

\* n sends fs outside the handling of a frame.  Nobody hears a frame that is
\* sent to a station without a running daemon.
Transmit(n, fs) ==
    net' = [net EXCEPT ![Peer(n)] = IF up[Peer(n)] THEN Put(@, fs) ELSE @]

\* n has handled the frame at the head of its channel, and sends fs.
Reply(n, fs) ==
    net' = [net EXCEPT ![n] = Tail(@),
                       ![Peer(n)] = IF up[Peer(n)] THEN Put(@, fs) ELSE @]

Become(n, s) == sock' = [sock EXCEPT ![n] = s]

FdWatch(n) == watch' = [watch EXCEPT ![n] = TRUE]
FdClear(n) == watch' = [watch EXCEPT ![n] = FALSE]

\* respond_connect(): a client that is not waiting finds an answer too many.
RespondConnect(n, a) ==
    answer' = [answer EXCEPT ![n] = IF @ = "waiting" THEN a ELSE "extra"]

\* sock_close(): the tables, fds_watch, patty_ax25_sock_destroy()
SockClose(n) ==
    /\ Become(n, NewSock)
    /\ FdClear(n)
    /\ hup' = [hup EXCEPT ![n] = FALSE]

\* sock_shutdown(): the socket, and what it sends
ShutDown(s) ==
    IF s.state = "ESTABLISHED"
    THEN [s EXCEPT !.state = "PENDING_DISCONNECT", !.retries = NRetry, !.t1 = TRUE]
    ELSE s

ShutDownFrames(s) == IF s.state = "ESTABLISHED" THEN <<UFrame("DISC")>> ELSE <<>>

\* A handler returned -1: patty_daemon_run() leaves its loop and exits.
DaemonStops(n) ==
    /\ SockClose(n)
    /\ up' = [up EXCEPT ![n] = FALSE]
    /\ net' = [net EXCEPT ![n] = <<>>]

Registered(n) == sock[n].state # "CLOSED"

If(c, f) == IF c THEN <<f>> ELSE <<>>

---------------------------------------------------------------------------
(***************************************************************************)
(* handle_i.                                                                *)
(***************************************************************************)
\* No link: DM to a poll.
HandleINoLink(n, f) ==
    /\ sock[n].state # "ESTABLISHED"
    /\ Reply(n, If(f.pf, UFrame("DM")))
    /\ UNCHANGED <<sock, watch, sent, got, hup, answer, up>>

\* One frame is missing: SREJ.  More are missing: REJ.  Plain comparison of
\* the two numbers; N(S) below V(R) is not treated as a gap.
HandleIGap(n, f) ==
    /\ sock[n].state = "ESTABLISHED"
    /\ f.ns > sock[n].vr
    /\ \E s \in FrameAck(sock[n], f) :
          /\ Become(n, s)
          /\ Reply(n, <<SFrame(s, IF f.ns = s.vr + 1 THEN "SREJ" ELSE "REJ", "R", TRUE)>>)
    /\ UNCHANGED <<watch, sent, got, hup, answer, up>>

\* Mutant: T2 is not started.
AcceptedNoT2(s, f) ==
    LET r == IF f.ns = s.vr THEN VrIncr(s) ELSE s
    IN  IF f.pf \/ r.rxp + 1 = r.krx \div 2
        THEN [r EXCEPT !.rxp = 0, !.t2 = FALSE]
        ELSE [r EXCEPT !.rxp = @ + 1, !.t3 = TRUE]

\* V(R) after a frame that is not a gap, and the response it may cause.
Accepted(s, f) ==
    LET r == IF f.ns = s.vr THEN VrIncr(s) ELSE s
    IN  IF f.pf \/ r.rxp + 1 = r.krx \div 2
        THEN [r EXCEPT !.rxp = 0, !.t2 = FALSE]
        ELSE [r EXCEPT !.rxp = @ + 1, !.t2 = TRUE, !.t3 = TRUE]

\* Mutant: a frame is delivered while the one before it is missing.
HandleIDeliverEarly(n, f) ==
    /\ sock[n].state = "ESTABLISHED"
    /\ f.ns <= sock[n].vr + 1
    /\ f.data # NoData
    /\ \E s \in FrameAck(sock[n], f) :
          /\ Become(n, Accepted(s, f))
          /\ Reply(n, If(f.pf, SFrame(Accepted(s, f), "RR", "R", TRUE)))
    /\ got' = [got EXCEPT ![n] = @ \cup {f.data}]
    /\ UNCHANGED <<watch, sent, hup, answer, up>>

HandleIDeliver(n, f) ==
    /\ sock[n].state = "ESTABLISHED"
    /\ f.ns <= sock[n].vr
    /\ f.data # NoData
    /\ \E s \in FrameAck(sock[n], f) :
          /\ Become(n, Accepted(s, f))
          /\ Reply(n, If(f.pf, SFrame(Accepted(s, f), "RR", "R", TRUE)))
    /\ got' = [got EXCEPT ![n] = @ \cup {f.data}]
    /\ UNCHANGED <<watch, sent, hup, answer, up>>

\* An I frame that ends at its control field: the length of the information
\* wraps below zero, write() fails, and the error reaches the main loop.
HandleIShort(n, f) ==
    /\ sock[n].state = "ESTABLISHED"
    /\ f.ns <= sock[n].vr
    /\ f.data = NoData
    /\ DaemonStops(n)
    /\ UNCHANGED <<sent, got, answer>>

HandleI(n, f) ==
    /\ f.type = "I"
    /\ \/ HandleINoLink(n, f)
       \/ HandleIGap(n, f)
       \/ HandleIDeliver(n, f)
       \/ HandleIShort(n, f)

---------------------------------------------------------------------------
(***************************************************************************)
(* handle_rr, handle_rnr, handle_rej, handle_srej: in any state of the      *)
(* socket.                                                                  *)
(***************************************************************************)
\* A command is answered if it polls; a response moves fds_watch.
Supervise(n, f, w) ==
    /\ Registered(n)
    /\ \E s \in FrameAck(sock[n], f) :
          /\ Become(n, s)
          /\ Reply(n, If(f.cr = "C" /\ f.pf, SFrame(s, "RR", "R", TRUE)))
    /\ watch' = [watch EXCEPT ![n] = IF f.cr = "R" THEN w ELSE @]
    /\ UNCHANGED <<sent, got, hup, answer, up>>

\* Mutant: the pty is not put back into fds_watch.
HandleRrNoWatch(n, f) == f.type = "RR" /\ Supervise(n, f, FALSE)

HandleRr(n, f)  == f.type = "RR" /\ Supervise(n, f, TRUE)
HandleRnr(n, f) == f.type = "RNR" /\ Supervise(n, f, FALSE)
HandleRej(n, f) == f.type = "REJ" /\ Supervise(n, f, TRUE)

\* The frame asked for is sent again if its slot holds one.  A slot that only
\* the larger ring has holds anything.
HandleSrej(n, f) ==
    /\ f.type = "SREJ"
    /\ Registered(n)
    /\ \E s \in FrameAck(sock[n], f) :
          /\ Become(n, s)
          /\ \/ Reply(n, Resend(s, f.nr))
             \/ Overrun(s) /\ f.nr >= s.ring /\ Reply(n, <<IFrame(s, f.nr, Garbled)>>)
    /\ UNCHANGED <<watch, sent, got, hup, answer, up>>

\* A handler that goes past the ring may end the daemon:
\* patty_ax25_sock_reset() after a DM; frame_ack() that looks at all slots, or
\* at one that only the larger ring has; an SREJ for such a slot.
ReachesPast(s, f) ==
    \/ AckReported(s, f.nr, {})
    \/ \E i \in AckPlaces(s, f.nr) : i % TxSlots(s.mode) >= s.ring
    \/ f.type = "SREJ" /\ f.nr >= s.ring

HandleOverrun(n, f) ==
    /\ Overrun(sock[n])
    /\ \/ f.type = "DM" /\ sock[n].state = "PENDING_CONNECT"
       \/ f.type \in SType /\ ReachesPast(sock[n], f)
    /\ DaemonStops(n)
    /\ UNCHANGED <<sent, got, answer>>

\* Without a socket none of the four, nor a DM nor an FRMR, does anything.
HandleUnknown(n, f) ==
    /\ f.type \in SType \cup {"DM", "FRMR"}
    /\ ~Registered(n)
    /\ Reply(n, <<>>)
    /\ UNCHANGED <<sock, watch, sent, got, hup, answer, up>>

---------------------------------------------------------------------------
(***************************************************************************)
(* Setting up and releasing the link.                                       *)
(***************************************************************************)
\* The frame is refused with a DM and changes nothing.
ReplyDm(n) ==
    /\ Reply(n, <<UFrame("DM")>>)
    /\ UNCHANGED <<sock, watch, sent, got, hup, answer, up>>

Ignore(n) ==
    /\ Reply(n, <<>>)
    /\ UNCHANGED <<sock, watch, sent, got, hup, answer, up>>

\* Mutant: the mode is SABM whatever the frame is.
HandleSabmAcceptAsSabm(n, f) ==
    /\ n \in Listeners
    /\ sock[n].state \in {"CLOSED", "PENDING_ACCEPT"}
    /\ Become(n, ReallocBufs([sock[n] EXCEPT !.state = "ESTABLISHED",
                                             !.mode = "SABM", !.t3 = TRUE]))
    /\ FdWatch(n)
    /\ Reply(n, <<UFrame("UA")>>)
    /\ UNCHANGED <<sent, got, hup, answer, up>>

\* Mutant: the buffers that the XID has found are not made again.
HandleSabmAcceptNoRealloc(n, f) ==
    /\ n \in Listeners
    /\ sock[n].state \in {"CLOSED", "PENDING_ACCEPT"}
    /\ Become(n, [sock[n] EXCEPT !.state = "ESTABLISHED", !.mode = f.type, !.t3 = TRUE])
    /\ FdWatch(n)
    /\ Reply(n, <<UFrame("UA")>>)
    /\ UNCHANGED <<sent, got, hup, answer, up>>

\* handle_sabm() that opens the link, for a socket that an XID has created
\* before (PENDING_ACCEPT) or for a new one.
HandleSabmAccept(n, f) ==
    LET s == IF f.type = "SABME" /\ ~Registered(n)
             THEN ParamsUpgrade(sock[n]) ELSE sock[n]
    IN  /\ n \in Listeners
        /\ sock[n].state \in {"CLOSED", "PENDING_ACCEPT"}
        /\ Become(n, ReallocBufs([s EXCEPT !.state = "ESTABLISHED",
                                           !.mode = f.type, !.t3 = TRUE]))
        /\ FdWatch(n)
        /\ Reply(n, <<UFrame("UA")>>)
        /\ UNCHANGED <<sent, got, hup, answer, up>>

HandleSabmReset(n, f) ==
    /\ n \in Listeners
    /\ sock[n].state = "ESTABLISHED"
    /\ Become(n, SockReset(sock[n]))
    /\ Reply(n, If(f.pf, UFrame("UA")))
    /\ UNCHANGED <<watch, sent, got, hup, answer, up>>

HandleSabmRefuse(n, f) ==
    /\ \/ n \notin Listeners
       \/ sock[n].state \in {"PENDING_CONNECT", "PENDING_DISCONNECT"}
    /\ ReplyDm(n)

HandleSabm(n, f) ==
    /\ f.type \in {"SABM", "SABME"}
    /\ \/ HandleSabmAccept(n, f)
       \/ HandleSabmReset(n, f)
       \/ HandleSabmRefuse(n, f)

\* handle_ua() that answers our SABM.  The mode is left as it is.
HandleUaConnect(n) ==
    /\ sock[n].state = "PENDING_CONNECT"
    /\ Become(n, ReallocBufs([sock[n] EXCEPT !.state = "ESTABLISHED",
                                             !.t1 = FALSE, !.t3 = TRUE]))
    /\ FdWatch(n)
    /\ RespondConnect(n, "ok")
    /\ Reply(n, <<>>)
    /\ UNCHANGED <<sent, got, hup, up>>

\* A UA (or a DM) that answers our DISC.
HandleReleased(n) ==
    /\ sock[n].state = "PENDING_DISCONNECT"
    /\ SockClose(n)
    /\ Reply(n, <<>>)
    /\ UNCHANGED <<sent, got, answer, up>>

HandleUa(n, f) ==
    /\ f.type = "UA"
    /\ \/ HandleUaConnect(n)
       \/ HandleReleased(n)
       \/ sock[n].state = "ESTABLISHED" /\ Ignore(n)
       \/ sock[n].state \in {"CLOSED", "PENDING_ACCEPT"} /\ ReplyDm(n)

\* handle_dm() that answers our XID or SABM: the socket is reset, and is
\* still PENDING_CONNECT.
HandleDmRefused(n) ==
    /\ sock[n].state = "PENDING_CONNECT"
    /\ Become(n, SockReset(sock[n]))
    /\ RespondConnect(n, "refused")
    /\ Reply(n, <<>>)
    /\ UNCHANGED <<watch, sent, got, hup, up>>

HandleDm(n, f) ==
    /\ f.type = "DM"
    /\ \/ HandleDmRefused(n)
       \/ HandleReleased(n)
       \/ sock[n].state \in {"ESTABLISHED", "PENDING_ACCEPT"} /\ Ignore(n)

HandleDisc(n, f) ==
    /\ f.type = "DISC"
    /\ \/ /\ sock[n].state = "ESTABLISHED"
          /\ SockClose(n)
          /\ Reply(n, <<UFrame("UA")>>)
          /\ UNCHANGED <<sent, got, answer, up>>
       \/ sock[n].state = "PENDING_DISCONNECT" /\ Ignore(n)
       \/ sock[n].state \in {"CLOSED", "PENDING_ACCEPT", "PENDING_CONNECT"} /\ ReplyDm(n)

HandleFrmr(n, f) ==
    /\ f.type = "FRMR"
    /\ \/ /\ sock[n].state = "PENDING_CONNECT"
          /\ Become(n, [sock[n] EXCEPT !.retries = NRetry, !.t1 = TRUE])
          /\ Reply(n, <<SabmFrame(sock[n])>>)
          /\ UNCHANGED <<watch, sent, got, hup, answer, up>>
       \/ /\ sock[n].state = "ESTABLISHED"
          /\ Become(n, SockReset(sock[n]))
          /\ Reply(n, <<>>)
          /\ UNCHANGED <<watch, sent, got, hup, answer, up>>
       \/ sock[n].state \in {"PENDING_ACCEPT", "PENDING_DISCONNECT"} /\ Ignore(n)

\* handle_xid() that answers our own XID: go on with a SABM or SABME.
HandleXidAnswer(n, f) ==
    LET s == [ParamsNegotiate(sock[n])
                EXCEPT !.mode = IF f.ext THEN "SABME" ELSE @,
                       !.t1 = TRUE, !.retries = NRetry]
    IN  /\ sock[n].state = "PENDING_CONNECT"
        /\ Become(n, s)
        /\ Reply(n, <<SabmFrame(s)>>)
        /\ UNCHANGED <<watch, sent, got, hup, answer, up>>

\* handle_xid() that finds a listening socket: a new one waits for the SABM.
HandleXidAccept(n, f) ==
    /\ ~Registered(n)
    /\ n \in Listeners
    /\ Become(n, [ParamsNegotiate(ParamsMax(NewSock))
                    EXCEPT !.state = "PENDING_ACCEPT",
                           !.mode = IF f.ext THEN "SABME" ELSE @,
                           !.t1 = TRUE, !.retries = NRetry])
    /\ Reply(n, <<[UFrame("XID") EXCEPT !.cr = "R"]>>)
    /\ UNCHANGED <<watch, sent, got, hup, answer, up>>

HandleXid(n, f) ==
    /\ f.type = "XID"
    /\ \/ HandleXidAnswer(n, f)
       \/ HandleXidAccept(n, f)
       \/ /\ \/ Registered(n) /\ sock[n].state # "PENDING_CONNECT"
             \/ ~Registered(n) /\ n \notin Listeners
          /\ ReplyDm(n)

---------------------------------------------------------------------------
(***************************************************************************)
(* handle_frame: the frame is read with the format of the socket's mode.    *)
(***************************************************************************)
HandleFrame(n) ==
    /\ up[n]
    /\ net[n] # <<>>
    /\ \E f \in DecodeControl(Head(net[n]), sock[n].mode) :
          \/ HandleI(n, f)
          \/ HandleRr(n, f)
          \/ HandleRnr(n, f)
          \/ HandleRej(n, f)
          \/ HandleSrej(n, f)
          \/ HandleOverrun(n, f)
          \/ HandleUnknown(n, f)
          \/ HandleSabm(n, f)
          \/ HandleUa(n, f)
          \/ HandleDm(n, f)
          \/ HandleDisc(n, f)
          \/ HandleFrmr(n, f)
          \/ HandleXid(n, f)

---------------------------------------------------------------------------
(***************************************************************************)
(* handle_sock: the timers.                                                 *)
(***************************************************************************)
\* What a socket repeats when T1 expires, by state.
RetryFrame(s) ==
    CASE s.state = "PENDING_ACCEPT"     -> [UFrame("XID") EXCEPT !.cr = "R"]
      [] s.state = "PENDING_CONNECT"    -> SabmFrame(s)
      [] s.state = "PENDING_DISCONNECT" -> UFrame("DISC")
      [] s.state = "ESTABLISHED"        ->
            IF Unsent(s)
            THEN IFrame(s, s.vs, s.slots[s.vs % TxSlots(s.mode)].data)
            ELSE SFrame(s, "RR", "C", TRUE)

\* Mutant: the last retry is not the last.
T1RetryOnceMore(n) ==
    LET s == sock[n]
        r == [s EXCEPT !.retries = @ - 1, !.t1 = TRUE]
    IN  /\ up[n]
        /\ s.state # "CLOSED"
        /\ s.t1
        /\ Become(n, IF s.state = "ESTABLISHED" THEN ResendPending(r) ELSE r)
        /\ Transmit(n, <<RetryFrame(s)>>)
        /\ UNCHANGED <<watch, sent, got, hup, answer, up>>

T1Retry(n) ==
    LET s == sock[n]
        r == [s EXCEPT !.retries = @ - 1, !.t1 = TRUE]
    IN  /\ up[n]
        /\ s.state # "CLOSED"
        /\ s.t1
        /\ s.retries > 0
        /\ Become(n, IF s.state = "ESTABLISHED" THEN ResendPending(r) ELSE r)
        /\ Transmit(n, <<RetryFrame(s)>>)
        /\ UNCHANGED <<watch, sent, got, hup, answer, up>>

T1GiveUp(n) ==
    /\ up[n]
    /\ sock[n].state # "CLOSED"
    /\ sock[n].t1
    /\ sock[n].retries = 0
    /\ SockClose(n)
    /\ Transmit(n, ShutDownFrames(sock[n]))
    /\ IF sock[n].state = "PENDING_CONNECT"
       THEN RespondConnect(n, "timeout")
       ELSE UNCHANGED answer
    /\ UNCHANGED <<sent, got, up>>

T2Expire(n) ==
    LET s == sock[n]
    IN  /\ up[n]
        /\ s.state = "ESTABLISHED"
        /\ s.t2
        /\ Become(n, [s EXCEPT !.t2 = FALSE, !.rxp = 0])
        /\ Transmit(n, If(s.rxp > 0, SFrame(s, "RR", "R", TRUE)))
        /\ UNCHANGED <<watch, sent, got, hup, answer, up>>

\* Mutant: nothing waits for the answer to the poll.
T3ExpireNoT1(n) ==
    LET s == sock[n]
    IN  /\ up[n]
        /\ s.state = "ESTABLISHED"
        /\ s.t3
        /\ Become(n, [s EXCEPT !.t3 = FALSE])
        /\ Transmit(n, <<SFrame(s, "RR", "C", TRUE)>>)
        /\ UNCHANGED <<watch, sent, got, hup, answer, up>>

T3Expire(n) ==
    LET s == sock[n]
    IN  /\ up[n]
        /\ s.state = "ESTABLISHED"
        /\ s.t3
        /\ Become(n, [s EXCEPT !.t3 = FALSE, !.t1 = TRUE, !.retries = NRetry])
        /\ Transmit(n, <<SFrame(s, "RR", "C", TRUE)>>)
        /\ UNCHANGED <<watch, sent, got, hup, answer, up>>

---------------------------------------------------------------------------
(***************************************************************************)
(* handle_sock: the pty is readable.  The window is looked at once, before  *)
(* the frame is sent, and only removes the pty from fds_watch.              *)
(***************************************************************************)
PtyReady(n) ==
    /\ up[n]
    /\ watch[n]
    /\ sock[n].state \in {"ESTABLISHED", "PENDING_DISCONNECT"}
    /\ hup[n] \/ sent[n] < MaxSend[n]

FlowStop(n) ==
    watch' = [watch EXCEPT ![n] = FlowLeft(sock[n]) # 1]

\* A frame is waiting to be sent again: that comes first.
PtyResend(n) ==
    LET s == sock[n]
    IN  /\ PtyReady(n)
        /\ Unsent(s)
        /\ Become(n, [ResendPending(s) EXCEPT !.t1 = TRUE])
        /\ Transmit(n, Resend(s, s.vs))
        /\ FlowStop(n)
        /\ UNCHANGED <<sent, got, hup, answer, up>>

\* patty_ax25_sock_write()
PtyWrite(n) ==
    LET s == TxSlotSave(sock[n], sent[n] + 1)
    IN  /\ PtyReady(n)
        /\ sock[n].state = "ESTABLISHED"
        /\ ~Unsent(sock[n])
        /\ sent[n] < MaxSend[n]
        /\ sock[n].mode # "DM"
        /\ Become(n, [VsIncr(s) EXCEPT !.t1 = TRUE, !.t3 = FALSE])
        /\ Transmit(n, <<IFrame(s, s.vs, sent[n] + 1)>>)
        /\ sent' = [sent EXCEPT ![n] = @ + 1]
        /\ FlowStop(n)
        /\ UNCHANGED <<got, hup, answer, up>>

\* The write fails in mode DM, and the socket is closed without a DISC.
PtyWriteBadMode(n) ==
    /\ PtyReady(n)
    /\ sock[n].state = "ESTABLISHED"
    /\ ~Unsent(sock[n])
    /\ sent[n] < MaxSend[n]
    /\ sock[n].mode = "DM"
    /\ SockClose(n)
    /\ sent' = [sent EXCEPT ![n] = @ + 1]
    /\ UNCHANGED <<net, got, answer, up>>

\* The client has closed the pty: read() fails with EIO.
PtyEof(n) ==
    /\ PtyReady(n)
    /\ hup[n]
    /\ ~Unsent(sock[n])
    /\ Become(n, ShutDown(sock[n]))
    /\ Transmit(n, ShutDownFrames(sock[n]))
    /\ FdClear(n)
    /\ UNCHANGED <<sent, got, hup, answer, up>>

---------------------------------------------------------------------------
(***************************************************************************)
(* The clients.                                                             *)
(***************************************************************************)
\* server_connect().  Calls that it refuses at once change nothing and are
\* left out.
ServerConnect(n) ==
    /\ n \in Callers
    /\ up[n]
    /\ answer[n] # "waiting"
    /\ \/ sock[n].state \in {"CLOSED", "PENDING_CONNECT"}
       \/ sock[n].state = "PENDING_DISCONNECT" /\ n \in Redialers
    /\ Become(n, [sock[n] EXCEPT !.state = "PENDING_CONNECT",
                                 !.retries = NRetry, !.t1 = TRUE])
    /\ Transmit(n, <<UFrame("XID")>>)
    /\ answer' = [answer EXCEPT ![n] = "waiting"]
    /\ UNCHANGED <<watch, sent, got, hup, up>>

\* server_setsockopt() with the parameters of a stream socket: the buffers are
\* made again whatever the state of the link.
SetParams(n) ==
    /\ n \in Setters
    /\ up[n]
    /\ Registered(n) \/ n \in Callers
    /\ \E w \in Windows : Become(n, ReallocBufs([sock[n] EXCEPT !.k = w]))
    /\ UNCHANGED <<watch, net, sent, got, hup, answer, up>>

\* server_close(), or client_sock_close() of a client that has gone.
ServerClose(n) ==
    /\ n \in Leavers
    /\ up[n]
    /\ Registered(n)
    /\ SockClose(n)
    /\ Transmit(n, ShutDownFrames(sock[n]))
    /\ answer' = [answer EXCEPT ![n] = "none"]
    /\ UNCHANGED <<sent, got, up>>

\* The client closes the pty and keeps its connection to the daemon.
HangUp(n) ==
    /\ n \in Hangers
    /\ sock[n].state = "ESTABLISHED"
    /\ ~hup[n]
    /\ hup' = [hup EXCEPT ![n] = TRUE]
    /\ UNCHANGED <<sock, watch, net, sent, got, answer, up>>

---------------------------------------------------------------------------
(***************************************************************************)
(* The channel, and stations that do not run patty.                         *)
(***************************************************************************)
Lose(n) ==
    /\ net[n] # <<>>
    /\ net' = [net EXCEPT ![n] = Tail(@)]
    /\ UNCHANGED <<sock, watch, sent, got, hup, answer, up>>

ForeignSend(n) ==
    /\ Peer(n) \notin Patty
    /\ \E f \in Foreign : net' = [net EXCEPT ![n] = Put(@, <<f>>)]
    /\ UNCHANGED <<sock, watch, sent, got, hup, answer, up>>

---------------------------------------------------------------------------
Timers(n)  == T1Retry(n) \/ T1GiveUp(n) \/ T2Expire(n) \/ T3Expire(n)
Pty(n)     == PtyResend(n) \/ PtyWrite(n) \/ PtyWriteBadMode(n) \/ PtyEof(n)
Client(n)  == ServerConnect(n) \/ SetParams(n) \/ ServerClose(n) \/ HangUp(n)
Channel(n) == Lose(n) \/ ForeignSend(n)

Next ==
    \E n \in Stations :
        HandleFrame(n) \/ Timers(n) \/ Pty(n) \/ Client(n) \/ Channel(n)

Spec == Init /\ [][Next]_vars

(***************************************************************************)
(* The same in time, for liveness.  T1 and T2 (3 s) expire only when no     *)
(* frame is on its way, and T3 (30 s) only when no T1 or T2 is running.  A  *)
(* station waits until the channel has taken what it sent before, so that   *)
(* frames get lost by Lose alone.  The event loop of a running daemon goes  *)
(* on, which is all the fairness there is: while some station has a frame   *)
(* to handle, a readable pty to serve or a timer to wait for, one of these  *)
(* happens.  Nothing is assumed of the clients and of the channel.          *)
(***************************************************************************)
ShortTimer(n) ==
    up[n] /\ (sock[n].t1 \/ (sock[n].state = "ESTABLISHED" /\ sock[n].t2))

TimersInTime(n) ==
    /\ net = [m \in Stations |-> <<>>]
    /\ \/ T1Retry(n)
       \/ T1GiveUp(n)
       \/ T2Expire(n)
       \/ T3Expire(n) /\ \A m \in Stations : ~ShortTimer(m)

HandleInTime(n) == Len(net[Peer(n)]) < NetCap /\ HandleFrame(n)
PtyInTime(n)    == net[Peer(n)] = <<>> /\ Pty(n)
ClientInTime(n) == net[Peer(n)] = <<>> /\ Client(n)

EventLoop == \E n \in Stations : HandleInTime(n) \/ TimersInTime(n) \/ PtyInTime(n)

TimelySpec ==
    /\ Init
    /\ [][EventLoop \/ \E n \in Stations : ClientInTime(n) \/ Channel(n)]_vars
    /\ WF_vars(EventLoop)

---------------------------------------------------------------------------
(***************************************************************************)
(* Safety.                                                                  *)
(***************************************************************************)

\* As long as a socket holds a frame its peer has not acknowledged, T1 is
\* running: frame_ack() and handle_ua() stop T1, handle_sock() restarts it,
\* and no order of frames, expiries and client calls leaves data waiting for
\* a retransmission that nothing will start.
RetransmissionArmed == \A n \in Stations : AckPending(sock[n]) => sock[n].t1

\* An established link always has T1 or T3 running, so that a peer that has
\* gone silent is noticed: no handler stops one without starting the other.
LinkSupervised ==
    \A n \in Stations : sock[n].state = "ESTABLISHED" => sock[n].t1 \/ sock[n].t3

\* A socket that reads its pty or has frames to repeat has a ring with a slot
\* for every sequence number of its mode: on every way to ESTABLISHED the
\* buffers are made again after the last change of the mode.
RingSized ==
    \A n \in Stations :
        sock[n].state \in {"ESTABLISHED", "PENDING_DISCONNECT"} => ~Overrun(sock[n])

\* A received frame that is still to be acknowledged (rx_pending) has T2
\* running, which makes handle_sock() send the RR.
AckScheduled == \A n \in Stations : sock[n].rxp > 0 => sock[n].t2

\* A frame marked as acknowledged in the ring of the sender has been written
\* to the pty of the receiver: patty_ax25_sock_ack() never takes an N(R) for
\* more than it says.
AckedDelivered ==
    \A n \in Stations, i \in Seqno :
        sock[n].slots[i].ack => sock[n].slots[i].data \in got[Peer(n)]

\* What handle_i() has written to a pty is a beginning of what the peer's
\* client wrote: nothing is skipped and nothing was cut in the wrong place.  For
\* items that go one way, like AckedDelivered.
NoGap == \A n \in Stations : \E m \in 0 .. MaxItem : got[n] = 1 .. m

\* Two ends of a link that both know the format of their frames use the same
\* one, however XID, SABM, SABME, UA and their repetitions by T1 are lost.
\* This needs the timing of TimelySpec: when T1 is shorter than the round trip,
\* the SABM it sends meets the answer to the XID, and handle_sabm() resets the
\* link for the SABME that follows without changing its mode.  And it needs that
\* only one of the stations calls the other.
ModesAgree ==
    (\A n \in Stations : sock[n].state = "ESTABLISHED" /\ sock[n].mode # "DM")
        => sock[1].mode = sock[2].mode

\* An item read from the pty and not yet acknowledged leaves the ring only
\* by an acknowledgement or with the whole link (reset or closed): no later
\* write takes its slot.
PendingKept ==
    [][\A n \in Stations, i \in Seqno :
          Pending(sock[n], i) =>
             \/ sock'[n].slots[i].data = sock[n].slots[i].data
             \/ sock'[n].slots = EmptySlots]_vars

\* A link that is up is the pipe of Pipe.tla: the end of a station is open as
\* long as its socket is ESTABLISHED, and it knows to be delivered what its
\* ring has marked as acknowledged.
AckedItems(s) == {s.slots[i].data : i \in {j \in Seqno : s.slots[j].ack}}

Open  == [n \in Stations |-> sock[n].state = "ESTABLISHED"]
Known == [n \in Stations |-> AckedItems(sock[n])]

Pipe == INSTANCE Pipe WITH open <- Open, sent <- sent, got <- got, known <- Known

\* The frame handlers, the retransmissions by T1, REJ and SREJ, and a channel
\* that loses frames make up no more than this pipe: handle_i() writes nothing
\* twice, early or after the release of the link, and no acknowledgement is
\* taken back.
ImplementsPipe == Pipe!Spec

---------------------------------------------------------------------------
(***************************************************************************)
(* Liveness.                                                                *)
(***************************************************************************)
LossStops == <>[][\A n \in Stations : ~Lose(n)]_vars

\* A pty that flow control has taken out of fds_watch is watched again, or
\* the link ends, once the channel stops losing frames: the poll bit of the
\* last frame, T1 and T3 see to it that an RR comes back.
FlowResumes ==
    LossStops =>
        \A n \in Stations :
            (sock[n].state = "ESTABLISHED" /\ ~watch[n])
                ~> (sock[n].state # "ESTABLISHED" \/ watch[n])

\* What was read from a pty is acknowledged, or the link ends.
AllAcknowledged ==
    LossStops =>
        \A n \in Stations :
            AckPending(sock[n]) ~> ~AckPending(sock[n])

\* A link whose other end is gone (closed, given up, or its daemon ended) does
\* not stay open: T3 and T1 find out, unless the peer sets it up again.
HalfOpenDetected ==
    LossStops =>
        \A n \in Stations :
            (sock[n].state = "ESTABLISHED" /\ sock[Peer(n)].state = "CLOSED")
                ~> (sock[n].state # "ESTABLISHED" \/ sock[Peer(n)].state # "CLOSED")

\* A client that waits in connect() gets an answer.
ConnectAnswered ==
    LossStops =>
        \A n \in Stations : (up[n] /\ answer[n] = "waiting") ~> (~up[n] \/ answer[n] # "waiting")

=============================================================================
