------------------------------- MODULE MCParts -------------------------------
(* The parts for TLC: one HCI command of each kind, and events of others that *)
(* come near to them; the options that gatt_connect gives to a socket, those *)
(* of the helper's cmd_sec_level, and lists of the other types.              *)
EXTENDS Parts

Cmd == INSTANCE HciCommands

MCCommands == {Cmd!hci_le_set_scan_enable,
               Cmd!hci_read_remote_name_with_clock_offset, Cmd!hci_le_conn_update}

\* an event of others that tells of success
MCEvent(evt, sub, opcode, peer) ==
  [evt |-> evt, sub |-> sub, opcode |-> opcode, peer |-> peer, ok |-> TRUE, by |-> 0]

\* an advertising report, the answers to another program's commands (a command
\* that this program gives too, and one that it does not) and the end of
\* its connection attempt (the number that LE Connection Update Complete has)
MCOthers == {MCEvent(Cmd!EVT_LE_META_EVENT, Cmd!EVT_LE_ADVERTISING_REPORT, 0, "none"),
             MCEvent(Cmd!EVT_CMD_COMPLETE, 0, Cmd!hci_read_local_name.opcode, "none"),
             MCEvent(Cmd!EVT_CMD_COMPLETE, 0, Cmd!hci_le_set_scan_enable.opcode, "none"),
             MCEvent(3, 0, 0, "other")}

MCLists == { << <<"SOURCE_TYPE", "LE">>, <<"CID", 4>>, <<"SEC_LEVEL", 1>> >>,
             << <<"SEC_LEVEL", 2>> >>,
             << <<"PSM", 31>>, <<"IMTU", 2>>, <<"MASTER", 1>>, <<"SEC_LEVEL", 3>> >>,
             << <<"SEC_LEVEL", 2>>, <<"CHANNEL", 1>>, <<"MASTER", 1>> >>,
             << <<"OMTU", 3>>, <<"MTU", 2>>, <<"VOICE", 1>> >> }
=============================================================================
