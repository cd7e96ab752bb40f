--------------------------- MODULE MCCommsThread ---------------------------
(***************************************************************************)
(* CommsThread for TLC.  Commands that the code treats alike are stood for *)
(* by one of them.                                                         *)
(***************************************************************************)
EXTENDS CommsThread, TLC

\* The clients are interchangeable.
Symmetry == Permutations(Clients)

Msg(code, shape) == [code |-> code, shape |-> shape]

\* One message for every way handleCommand and the threads can treat it.
AllMessages ==
  { Msg("NOP", "ok"), Msg("NOP", "badsize"), Msg("NOP", "ragged"),
    Msg("NOP", "empty"), Msg("RESET_MODULE", "ok"),
    Msg("SET_UDP_PORT", "ok"), Msg("SET_RAW_TPX3_PATH", "ok"),
    Msg("SET_CLUSTER_PARAMETERS", "badsize"),
    Msg("FLUSH_CLUSTERS", "empty"), Msg("UNLISTED", "ok") }

\* The messages that get past the checks of handleCommand.
GoodMessages ==
  { Msg("NOP", "ok"), Msg("RESET_MODULE", "ok"), Msg("SET_UDP_PORT", "ok"),
    Msg("SET_RAW_TPX3_PATH", "ok") }

\* The same, with a command for a thread that is always there and a message
\* that does not get past the checks.
MixedMessages ==
  GoodMessages \cup { Msg("GET_HISTOGRAM_SERVER_PATH", "badsize"),
                      Msg("NOP", "ragged") }

============================================================================
