------------------------------ MODULE MCRelay --------------------------------
(* The instance of Relay for TLC: streams that are valid, cut short, over a   *)
(* limit by one, followed by more, or out of order, with both line endings.   *)
EXTENDS Relay

E(text) == <<text, "lf", "lf">>
CRLF(text) == <<text, "cr", "lf", "cr", "lf">>
Mixed == E("chunk") \o <<"done", "cr", "lf", "lf">>
MCStreams == {
  E("chunk") \o E("done"), Mixed, Mixed \o <<"junk">>, E("chunk") \o CRLF("done"),
  E("chunk") \o E("chunk") \o E("done"), E("done"), E("chunk"),
  <<"chunk", "lf", "junk", "lf">>, <<"chunk", "cr", "cr", "lf">>}
MCBodies == {<<"json">>, <<"junk">>}
=============================================================================
