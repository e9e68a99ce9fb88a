---------------------------- MODULE HciCommands ----------------------------
(***************************************************************************)
(* The HCI commands of lib/hci.c.  Each is a function that fills in the     *)
(* parameters, has hci_send_req (HciRequest) send them and wait, and fails  *)
(* if the reply says so.  What distinguishes them is here: the opcode, the  *)
(* event awaited besides Command Status and Command Complete, and whether   *)
(* the function looks at the status in the reply.                           *)
(***************************************************************************)
EXTENDS Naturals, FiniteSets

\* event codes, and codes of LE meta events, as numbers: they are compared
EVT_CMD_COMPLETE == 14
EVT_CMD_STATUS == 15
EVT_REMOTE_NAME_REQ_COMPLETE == 7
EVT_LE_META_EVENT == 62
EVT_LE_ADVERTISING_REPORT == 2

NoEvent == 0   \* rq.event after memset

CmdOpcodePack(ogf, ocf) == ogf * 1024 + ocf

\* the reply is the Command Complete of the command
Completes(ogf, ocf) == [opcode |-> CmdOpcodePack(ogf, ocf), event |-> NoEvent, checks |-> TRUE]
\* an event of its own tells the outcome
Awaits(ogf, ocf, event) == [opcode |-> CmdOpcodePack(ogf, ocf), event |-> event, checks |-> TRUE]
\* nobody looks at the reply
Blind(ogf, ocf) == [opcode |-> CmdOpcodePack(ogf, ocf), event |-> NoEvent, checks |-> FALSE]

-----------------------------------------------------------------------------
hci_create_connection == Awaits(1, 5, 3)  \* EVT_CONN_COMPLETE
hci_disconnect == Awaits(1, 6, 5)  \* EVT_DISCONN_COMPLETE
hci_le_add_white_list == Completes(8, 17)
hci_le_rm_white_list == Completes(8, 18)
hci_le_read_white_list_size == Completes(8, 15)
hci_le_clear_white_list == Completes(8, 16)
hci_le_add_resolving_list == Completes(8, 39)
hci_le_rm_resolving_list == Completes(8, 40)
hci_le_clear_resolving_list == Completes(8, 41)
hci_le_read_resolving_list_size == Completes(8, 42)
hci_le_set_address_resolution_enable == Completes(8, 45)
hci_read_local_name == Completes(3, 20)
hci_write_local_name == Blind(3, 19)
hci_read_remote_name_with_clock_offset == Awaits(1, 25, EVT_REMOTE_NAME_REQ_COMPLETE)
hci_read_remote_name_cancel == Blind(1, 26)
hci_read_remote_version == Awaits(1, 29, 12)  \* EVT_READ_REMOTE_VERSION_COMPLETE
hci_read_remote_features == Awaits(1, 27, 11)  \* EVT_READ_REMOTE_FEATURES_COMPLETE
hci_read_remote_ext_features == Awaits(1, 28, 35)  \* EVT_READ_REMOTE_EXT_FEATURES_COMPLETE
hci_read_clock_offset == Awaits(1, 31, 28)  \* EVT_READ_CLOCK_OFFSET_COMPLETE
hci_read_local_version == Completes(4, 1)
hci_read_local_commands == Completes(4, 2)
hci_read_local_features == Completes(4, 3)
hci_read_local_ext_features == Completes(4, 4)
hci_read_bd_addr == Completes(4, 9)
hci_read_class_of_dev == Completes(3, 35)
hci_write_class_of_dev == Blind(3, 36)
hci_read_voice_setting == Completes(3, 37)
hci_write_voice_setting == Blind(3, 38)
hci_read_current_iac_lap == Completes(3, 57)
hci_write_current_iac_lap == Blind(3, 58)
hci_read_stored_link_key == Blind(3, 13)
hci_write_stored_link_key == Blind(3, 17)
hci_delete_stored_link_key == Blind(3, 18)
hci_authenticate_link == Awaits(1, 17, 6)  \* EVT_AUTH_COMPLETE
hci_encrypt_link == Awaits(1, 19, 8)  \* EVT_ENCRYPT_CHANGE
hci_change_link_key == Awaits(1, 21, 9)  \* EVT_CHANGE_CONN_LINK_KEY_COMPLETE
hci_switch_role == Awaits(2, 11, 18)  \* EVT_ROLE_CHANGE
hci_park_mode == Awaits(2, 5, 20)  \* EVT_MODE_CHANGE
hci_exit_park_mode == Awaits(2, 6, 20)  \* EVT_MODE_CHANGE
hci_read_inquiry_scan_type == Completes(3, 66)
hci_write_inquiry_scan_type == Completes(3, 67)
hci_read_inquiry_mode == Completes(3, 68)
hci_write_inquiry_mode == Completes(3, 69)
hci_read_afh_mode == Completes(3, 72)
hci_write_afh_mode == Completes(3, 73)
hci_read_ext_inquiry_response == Completes(3, 81)
hci_write_ext_inquiry_response == Completes(3, 82)
hci_read_simple_pairing_mode == Completes(3, 85)
hci_write_simple_pairing_mode == Completes(3, 86)
hci_read_local_oob_data == Completes(3, 87)
hci_read_inq_response_tx_power_level == Completes(3, 88)
hci_write_inquiry_transmit_power_level == Completes(3, 89)
hci_read_transmit_power_level == Completes(3, 45)
hci_read_link_policy == Completes(2, 12)
hci_write_link_policy == Completes(2, 13)
hci_read_link_supervision_timeout == Completes(3, 54)
hci_write_link_supervision_timeout == Completes(3, 55)
hci_set_afh_classification == Completes(3, 63)
hci_read_link_quality == Completes(5, 3)
hci_read_rssi == Completes(5, 5)
hci_read_afh_map == Completes(5, 6)
hci_read_clock == Completes(5, 7)
hci_le_set_scan_enable == Completes(8, 12)
hci_le_set_scan_parameters == Completes(8, 11)
hci_le_set_advertise_enable == Completes(8, 10)
hci_le_create_conn == Awaits(8, 13, 1)  \* EVT_LE_CONN_COMPLETE
hci_le_conn_update == Awaits(8, 19, 3)  \* EVT_LE_CONN_UPDATE_COMPLETE
hci_le_read_remote_features == Awaits(8, 22, 4)  \* EVT_LE_READ_REMOTE_USED_FEATURES_COMPLETE

\* other names
hci_read_remote_name == hci_read_remote_name_with_clock_offset
hci_read_inquiry_transmit_power_level == hci_read_inq_response_tx_power_level

HciCommands ==
  {hci_create_connection, hci_disconnect, hci_le_add_white_list,
   hci_le_rm_white_list, hci_le_read_white_list_size,
   hci_le_clear_white_list, hci_le_add_resolving_list,
   hci_le_rm_resolving_list, hci_le_clear_resolving_list,
   hci_le_read_resolving_list_size, hci_le_set_address_resolution_enable,
   hci_read_local_name, hci_write_local_name,
   hci_read_remote_name_with_clock_offset, hci_read_remote_name_cancel,
   hci_read_remote_version, hci_read_remote_features,
   hci_read_remote_ext_features, hci_read_clock_offset,
   hci_read_local_version, hci_read_local_commands, hci_read_local_features,
   hci_read_local_ext_features, hci_read_bd_addr, hci_read_class_of_dev,
   hci_write_class_of_dev, hci_read_voice_setting, hci_write_voice_setting,
   hci_read_current_iac_lap, hci_write_current_iac_lap,
   hci_read_stored_link_key, hci_write_stored_link_key,
   hci_delete_stored_link_key, hci_authenticate_link, hci_encrypt_link,
   hci_change_link_key, hci_switch_role, hci_park_mode, hci_exit_park_mode,
   hci_read_inquiry_scan_type, hci_write_inquiry_scan_type,
   hci_read_inquiry_mode, hci_write_inquiry_mode, hci_read_afh_mode,
   hci_write_afh_mode, hci_read_ext_inquiry_response,
   hci_write_ext_inquiry_response, hci_read_simple_pairing_mode,
   hci_write_simple_pairing_mode, hci_read_local_oob_data,
   hci_read_inq_response_tx_power_level,
   hci_write_inquiry_transmit_power_level, hci_read_transmit_power_level,
   hci_read_link_policy, hci_write_link_policy,
   hci_read_link_supervision_timeout, hci_write_link_supervision_timeout,
   hci_set_afh_classification, hci_read_link_quality, hci_read_rssi,
   hci_read_afh_map, hci_read_clock, hci_le_set_scan_enable,
   hci_le_set_scan_parameters, hci_le_set_advertise_enable,
   hci_le_create_conn, hci_le_conn_update, hci_le_read_remote_features}

\* no two functions send the same command: a late reply is of another call of
\* the same function, or of none
OpcodesDistinct ==
  \A c, d \in HciCommands : c.opcode = d.opcode => c = d
=============================================================================
