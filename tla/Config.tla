------------------------------- MODULE Config -------------------------------
(***************************************************************************)
(* The start of pattyd: the handlers of the lines of pattyd.conf            *)
(* (src/bin/pattyd.c), the interfaces and routes they make                  *)
(* (src/src/daemon.c, route.c, server.c), and the choice of a route by      *)
(* server_connect().  A line that fails ends the program.                   *)
(*                                                                          *)
(* Routes are kept in a dictionary (Dict) under the hash of an address.     *)
(* Hash stands for patty_ax25_addr_hash(); NoAddr is the address of zeros   *)
(* that a default route has.                                                *)
(***************************************************************************)
EXTENDS Integers, Sequences

CONSTANTS
    Name,        \* names of interfaces
    Addr,        \* addresses
    NoAddr,      \* the address of zeros
    Hash,        \* the key of each address
    Depth, Digit,
    MaxHops,     \* PATTY_AX25_MAX_HOPS: 8
    MaxLines     \* bound: lines of the configuration

VARIABLES
    phase,       \* "config", "running" or "ended"
    ifaces,      \* server->ifaces: names in order
    routes,      \* server->routes
    lines,       \* history: the route lines that were taken
    link         \* the last connect() that found a route

vars == <<phase, ifaces, routes, lines, link>>

Route == [iface : Name, dest : Addr \cup {NoAddr}, hops : 0 .. MaxHops]

NoRoute == [iface |-> "none", dest |-> NoAddr, hops |-> 0]

Key == {Hash[a] : a \in Addr \cup {NoAddr}}

Table == INSTANCE Dict WITH slot <- routes, Value <- Route, NoValue <- NoRoute

---------------------------------------------------------------------------
(***************************************************************************)
(* The table of routes.                                                     *)
(***************************************************************************)
RouteTableDefault(t) == Table!DictGet(t, Hash[NoAddr])

\* patty_ax25_route_table_find(), with the default route where there is none
RouteTableFind(t, a) ==
    LET r == Table!DictGet(t, Hash[a])
    IN  IF r # NoRoute THEN r ELSE RouteTableDefault(t)

\* patty_ax25_route_table_add() refuses a destination that can be reached
\* already, by the default route too.
RouteTableAdd(t, r) == Table!DictSet(t, Hash[r.dest], r)
Refused(t, r)       == RouteTableFind(t, r.dest) # NoRoute

\* patty_ax25_server_if_get(): an interface of that name
IfGet(name) == \E i \in 1 .. Len(ifaces) : ifaces[i] = name

\* What patty_daemon_route_add() makes of a line: the repeaters are copied, and
\* their number is never set.
RouteNew(dest, name, path) == [iface |-> name, dest |-> dest, hops |-> 0]

---------------------------------------------------------------------------
Init ==
    /\ phase = "config" /\ ifaces = <<>>
    /\ routes = [p \in Table!Places |-> Table!EmptySlot]
    /\ lines = {} /\ link = <<>>

Ended == phase' = "ended" /\ UNCHANGED <<ifaces, routes, lines, link>>

\* handle_if(): the device is opened, or the line fails.  Nothing asks whether
\* the name is taken.
HandleIf(name) ==
    /\ phase = "config" /\ Len(ifaces) < MaxLines
    /\ \/ /\ ifaces' = Append(ifaces, name)
          /\ UNCHANGED <<phase, routes, lines, link>>
       \/ Ended

RouteAdd(dest, name, path) ==
    LET r == RouteNew(dest, name, path)
    IN  IF ~IfGet(name) \/ Refused(routes, r) THEN Ended
        ELSE /\ routes' = RouteTableAdd(routes, r)
             /\ lines' = lines \cup {[dest |-> dest, iface |-> name, hops |-> path]}
             /\ UNCHANGED <<phase, ifaces, link>>

\* handle_route()
HandleRouteDefault(name) == phase = "config" /\ RouteAdd(NoAddr, name, 0)

HandleRouteStation(dest, name, path) == phase = "config" /\ RouteAdd(dest, name, path)

\* handle_standalone(): one interface and the default route to it
HandleStandalone(name) ==
    /\ phase = "config" /\ ifaces = <<>>
    /\ \/ /\ ifaces' = <<name>>
          /\ routes' = RouteTableAdd(routes, RouteNew(NoAddr, name, 0))
          /\ lines' = {[dest |-> NoAddr, iface |-> name, hops |-> 0]}
          /\ phase' = "running"
          /\ UNCHANGED link
       \/ Ended

\* patty_daemon_run(): listen_unix() works, or not.
DaemonRun ==
    /\ phase = "config"
    /\ \/ phase' = "running" /\ UNCHANGED <<ifaces, routes, lines, link>>
       \/ Ended

\* The choice of server_connect() for a socket bound to local, or to nothing.
RouteFor(local) ==
    IF local = NoAddr THEN RouteTableDefault(routes) ELSE RouteTableFind(routes, local)

\* Without a route the call is answered with ENETDOWN.
ServerConnect(local, peer) ==
    LET r == RouteFor(local)
    IN  /\ phase = "running" /\ r # NoRoute
        /\ link' = <<[peer |-> peer, iface |-> r.iface, hops |-> r.hops]>>
        /\ UNCHANGED <<phase, ifaces, routes, lines>>

Next ==
    \/ \E n \in Name : HandleIf(n) \/ HandleRouteDefault(n) \/ HandleStandalone(n)
    \/ \E a \in Addr, n \in Name, h \in 0 .. MaxHops : HandleRouteStation(a, n, h)
    \/ DaemonRun
    \/ \E a \in Addr \cup {NoAddr}, p \in Addr : ServerConnect(a, p)

Spec == Init /\ [][Next]_vars

---------------------------------------------------------------------------
\* The manual page of pattyd.conf: a route station line is a route to reach the
\* station via the interface it names, and the default route is used when no
\* other static route exists to reach a destination.  server_connect() looks up
\* the socket's own address instead of the peer's.
StationRouted ==
    \A l \in lines : (link # <<>> /\ link[1].peer = l.dest) => link[1].iface = l.iface
=============================================================================
