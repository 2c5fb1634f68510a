--------------------------- MODULE MCSatelClient ---------------------------
(* Small instances of SatelClient: two registers of one line each.          *)
EXTENDS SatelClient

MCPollCmds == <<"zones", "outputs">>
MCLines == {1}
MCWatched == << <<"zones", 1>>, <<"outputs", 1>> >>
=============================================================================
