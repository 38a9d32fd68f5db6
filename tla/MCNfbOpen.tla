----------------------------- MODULE MCNfbOpen -----------------------------
(* The ladders of the kernel driver, of libnfb and of the tools for TLC.      *)
EXTENDS NfbOpen, MCNfbAttach, TLC

NoDetach == Fn(<<>>, <<>>)
ComponentLadder ==
  Pair(nfb_open_ext, {Fn(<<If({<<"priv">>}, <<Call(nfb_comp_open_ext("comp"), "return"), Call(nfb_comp_close("comp"), "ignore")>>)>>, <<>>)},
       nfb_close, {}, {}, {})
QueueLadder(kind, leaks, wrong) ==
  Pair(nfb_open_ext, {OpenQueue(kind), CloseQueue(kind)}, QueueProgramEnd(kind), leaks, wrong, {})
FirmwareLadder ==
  Pair(OpenFirmware, {nfb_fw_load_fpga_image_load, nfb_fw_load_boot_load}, nfb_fw_close, {}, {}, {})
InjectLadder == Pair(inject_fdt, {}, NoDetach, {"dtb", "unbound", "override"}, {}, {})
PcapLadder == Pair(pcap_src_open, {}, pcap_src_close, {"file", "packet"}, {"garbage"}, {})
DpdkLadder(check, destroy, leaks, wrong) ==
  Pair(check, {}, destroy, {"queue_data", "pool", "port"} \cup leaks, wrong, {})

OpenLadders ==
  [component |-> ComponentLadder,
   queue_v1 |-> QueueLadder("v1", {}, {}), queue_v2 |-> QueueLadder("v2", {"hdr", "off", "sub"}, {}),
   queue_v3_rx |-> QueueLadder("v3_rx", {"hdrs", "sub"}, {"ctrl"}),
   queue_v3_tx |-> QueueLadder("v3_tx", {"hdrs", "update_buff", "sub", "buffer", "ctrl"}, {"ctrl"}),
   firmware |-> FirmwareLadder, inject |-> InjectLadder, pcap |-> PcapLadder,
   dpdk_read |-> DpdkLadder(dpdk_read_check, dpdk_read_destroy, {"dummy"}, {"dummy", "garbage"}),
   dpdk_receive |-> DpdkLadder(dpdk_receive_check, dpdk_receive_destroy, {"dummy"}, {"dummy", "garbage"}),
   dpdk_loopback |-> DpdkLadder(dpdk_loopback_check, dpdk_loopback_destroy, {}, {"dummy", "garbage"}),
   dpdk_transmit |-> DpdkLadder(dpdk_transmit_check, dpdk_transmit_destroy, {}, {}),
   dpdk_generate |-> DpdkLadder(dpdk_generate_check, dpdk_generate_destroy, {"range"}, {})]

AllLadders == AttachLadders @@ OpenLadders
MCLadders == AllLadders
=============================================================================
