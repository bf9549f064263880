---------------------------- MODULE MCIpcClient ----------------------------
(* Small declarations for model checking IpcClient. *)
EXTENDS IpcClient

Decl(w, h, c, s, t, l, b) ==
    [width |-> w, height |-> h, channels |-> c, stride |-> s, type |-> t,
     layout |-> l, total |-> b]

\* Padded and tight, one and two channels, bytes and doubles; then
\* one declaration for each reason begin() has to refuse.
MCDecls ==
    { Decl(1, 2, 1, 2, UNSIGNED_BYTE, "", 4),
      Decl(1, 2, 2, 1, UNSIGNED_BYTE, "bad", 4),
      Decl(1, 2, 2, 1, UNSIGNED_BYTE, "bgra", 4),
      Decl(1, 1, 1, 1, FLOAT64, "", 8),
      Decl(1, 2, 1, 2, UNSIGNED_BYTE, "", 3) }

=============================================================================
