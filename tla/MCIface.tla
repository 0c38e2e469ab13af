------------------------------ MODULE MCIface -------------------------------
(***************************************************************************)
(* KISS frames with and without octets to escape, one that fills a buffer  *)
(* of three octets, and one that is too long for it and whose rest looks   *)
(* like a frame.  APRS-IS lines with none, two and too many repeaters.     *)
(***************************************************************************)
EXTENDS Iface

SomeFrames == {<<65>>, <<FESC, TFEND>>, <<65, 65, 65>>, <<65, 65, 65, 65, 0, 65>>}
Tests      == {<<65>>}
UaAnswer   == <<66>>

Calls == {<<"A">>, <<"B">>, <<"A", "B">>}

SomeLines ==
    {[src |-> <<"A", "B">>, dest |-> <<"B">>, path |-> <<>>, body |-> <<"B">>],
     [src |-> <<"B">>, dest |-> <<"A">>, path |-> <<<<"B">>, <<"A">>>>, body |-> <<"#", ">">>],
     [src |-> <<"B">>, dest |-> <<"A">>, path |-> <<<<"B">>, <<"A">>, <<"A">>>>, body |-> <<"A">>]}

Descriptors == Permutations(Fd)

SomeComments == {<<"#", "A", "\r", "\n">>}
=============================================================================
