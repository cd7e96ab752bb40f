---------------------------- MODULE ServerCodes ----------------------------
(***************************************************************************)
(* The command codes a client may put in the first word of a request, and  *)
(* how the server sorts them: handed to the SPIDR readout board, handled   *)
(* by the server itself, or forwarded to one of its secondary threads.     *)
(* The names are those of the ServerCommand enumeration.                   *)
(***************************************************************************)

\* COMMAND_MAP entries whose handler is genericForward or sendPixelConfigData.
TpxForwardCommands ==
  { "NOP", "GET_SOFTWARE_VERSION", "GET_FIRMWARE_VERSION", "GET_CAMERA_ID",
    "GET_DEVICE_IDS", "GET_LOCAL_TEMP", "GET_REMOTE_TEMP", "GET_FPGA_TEMP",
    "GET_FAN_SPEED", "GET_PRESSURE", "GET_HUMIDITY", "GET_SPIDR_ADC",
    "SET_BIAS_VOLTAGE", "SET_BIAS_SUPPLY_ENABLED", "GET_DEVICE_PORT",
    "GET_SERVER_PORT", "SET_SERVER_PORT", "SET_TOA_DECODERS_ENABLED",
    "RESTART_TIMERS", "RESET_TIMERS", "RESET_PIXELS", "GET_SPIDR_REGISTER",
    "SET_SPIDR_REGISTER", "GET_PLL_CONFIG", "SET_PLL_CONFIG",
    "GET_HEADER_FILTER", "SET_HEADER_FILTER", "GET_GEN_CONFIG",
    "SET_GEN_CONFIG", "GET_PERIOD_PHASE", "SET_PERIOD_PHASE",
    "GET_TRIGGER_CONF", "SET_TRIGGER_CONF", "GET_DAC", "SET_DAC",
    "START_READOUT", "STOP_READOUT", "AUTOTRIG_START", "AUTOTRIG_STOP",
    "GET_PIXEL_CONFIG", "SET_PIXEL_CONFIG", "RESET_MODULE",
    "GET_READOUT_SPEED", "SET_SENSEDAC" }

COMMAND_MAP == TpxForwardCommands \cup { "SET_UDP_PORT" }

\* The three sets of commands that are forwarded, by the kind of thread.
ThreadKinds == { "udp", "cluster", "histogram" }

THREAD_FORWARD_COMMANDS ==
  [ udp |-> { "SET_RAW_TPX3_PATH", "GET_RAW_DATA_SERVER_PATH",
              "RESET_TOA_ROLLOVER_COUNTER" },
    cluster |-> { "GET_CLUSTER_SERVER_PATH", "SET_CLUSTER_INPUT_SERVER",
                  "SET_CLUSTER_PARAMETERS", "FLUSH_CLUSTERS",
                  "SET_CLUSTER_PATH" },
    histogram |-> { "GET_HISTOGRAM_SERVER_PATH",
                    "SET_HISTOGRAM_INPUT_SERVER",
                    "SET_HISTOGRAM_OUTPUT_PERIOD" } ]

\* A code of no table: the server answers it with UNKNOWN_COMMAND.
Unlisted == "UNLISTED"

RequestCodes ==
  COMMAND_MAP \cup THREAD_FORWARD_COMMANDS.udp
    \cup THREAD_FORWARD_COMMANDS.cluster
    \cup THREAD_FORWARD_COMMANDS.histogram \cup { Unlisted }

ErrorCodes ==
  { "INVALID_COMMAND_DATA", "CANT_OPEN_FILE", "THREAD_NOT_CONNECTED",
    "THREAD_NOT_STARTED", "ERROR_OCCURED", "UNKNOWN_COMMAND" }

(***************************************************************************)
(* What the request's data look like to the code that checks them: "ok"    *)
(* the size the command wants, "badsize" whole words but not that size,    *)
(* "ragged" a byte count that is no multiple of four, "empty" no bytes at  *)
(* all (the code word read from such a message is whatever memory holds,   *)
(* hence any code).                                                        *)
(***************************************************************************)
Shapes == { "ok", "badsize", "ragged", "empty" }

============================================================================
