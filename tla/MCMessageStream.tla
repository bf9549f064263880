-------------------------- MODULE MCMessageStream --------------------------
(* Small messages for model checking MessageStream. *)
EXTENDS MessageStream

F(kind, value) == [kind |-> kind, value |-> value]
M(type, fields) == [type |-> type, fields |-> fields]

\* One message of each layout; bytes of names and payloads that read as
\* headers once the stream is out of step; a buffer beyond the limit.
MCToViewer ==
    { M(GET_OBSERVED_SYMBOLS, <<>>),
      M(SET_AVAILABLE_SYMBOLS, <<F("strings", << <<12>>, <<>> >>)>>),
      M(PLOT_BUFFER_CHUNK, <<F("string", <<8>>), F("prim", 0), F("prim", 1),
                             F("buffer", <<0, 9>>)>>),
      M(PLOT_BUFFER_CHUNK, <<F("string", <<8>>), F("prim", 0), F("prim", 2),
                             F("buffer", <<12, 0, 1>>)>>) }

MCToBridge ==
    { M(PLOT_BUFFER_REQUEST, <<F("string", <<4>>)>>),
      M(GET_OBSERVED_SYMBOLS_RESPONSE, <<F("strings", << <<9>>, <<1, 0>> >>)>>),
      M(BUFFER_REMOVED, <<F("string", <<4, 0>>)>>) }
=============================================================================
