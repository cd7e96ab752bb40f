SPECIFICATION FairSpec
CONSTANTS
  Commands = {"CMD_NOP", "CMD_GET_SOFTWVERSION", "CMD_GET_FIRMWVERSION", "CMD_GET_CHIPBOARDID", "CMD_GET_DEVICEIDS", "CMD_GET_REMOTETEMP", "CMD_GET_LOCALTEMP", "CMD_GET_FPGATEMP", "CMD_GET_FANSPEED", "CMD_GET_PRESSURE", "CMD_GET_HUMIDITY", "CMD_GET_SPIDR_ADC", "CMD_SET_BIAS_ADJUST"}
  DataWords = {0, 40}
  Cuts = {1, 4, 5, 6}
  MaxCommands = 3
INVARIANTS TypeOK ReplyIntact NoWrap
PROPERTIES CommandsAnswered
CHECK_DEADLOCK FALSE
