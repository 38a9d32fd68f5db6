---------------------------- MODULE MCNfbAttach ----------------------------
(* The ladders of the kernel driver for TLC.                                 *)
EXTENDS NfbAttach

Pair(attach, use, detach, leaks, wrong, unlisted) ==
  [attach |-> attach, use |-> use, detach |-> detach, leaks |-> leaks, wrong |-> wrong, unlisted |-> unlisted]

ModuleLadder ==
  Pair(nfb_init, {dtb_inject_meta_store, dtb_inject_store, nfb_dtb_inject_get_pci}, nfb_exit,
       {"log_drv", "pmci_drv", "sec_drv", "hwmon_drv", "spi_dev_drv", "spi_drv"}, {}, {})
BootLadder ==
  Pair(nfb_boot_attach, {nfb_boot_mtd_destroy}, nfb_boot_detach,
       {"sdm", "sdm_comp", "spi", "spi_master"}, {"map"}, {})
FdtLadder == Pair(nfb_pci_read_fdt, {}, nfb_pci_exit_device, {"lost_out"}, {}, {})
MiLadder ==
  Pair(nfb_mi_attach, {nfb_mi_probe_endpoint(1), nfb_mi_remove_endpoint(1)}, nfb_mi_detach, {"mi_node"}, {}, {})
HwmonLadder == Pair(hwmon_probe, {}, hwmon_remove, {}, {"literal"}, {})
NdpLadder(kind, leaks, wrong) ==
  Pair(nfb_ndp_attach(kind), {ndp_channel_set_ring_size(kind)}, nfb_ndp_detach(kind), leaks, wrong,
       {"ctrl", "ctrl_c", "blocks", "block", "vmap", "ring_mmap", "update", "desc", "desc_v", "off", "off_v",
        "hdr", "hdr_v", "hdr_mmap"})
NetdevLadder ==
  Pair(nfb_ndp_netdev_attach, {ndp_netdev_set_cmd(1), ifup(1), ifdown(1)}, nfb_ndp_netdev_detach, {}, {}, {})
NetLadder ==
  Pair(nfb_net_attach, {}, nfb_net_detach, {"nc_rxmac", "nc_txmac", "nc_trstat", "nc_tri2c", "nc_mdio"}, {}, {})
XdpLadder ==
  Pair(nfb_xdp_attach, {cmd_store}, nfb_xdp_detach,
       {"xdp_ref", "xdp_dev", "xch_dev", "xch_add", "lost_indexes"}, {"xch_dev"}, {})

AttachLadders ==
  [module |-> ModuleLadder, boot |-> BootLadder, fdt |-> FdtLadder, mi |-> MiLadder, hwmon |-> HwmonLadder,
   ndp_medusa |-> NdpLadder("medusa", {"off_mmap"}, {}), ndp_sze |-> NdpLadder("sze", {}, {}),
   ndp_rx_calypte |-> NdpLadder("rx_calypte", {}, {"upd_mmap"}),
   ndp_tx_calypte |-> NdpLadder("tx_calypte", {"upd_mmap"}, {"hdr_mmap", "hdr_v"}),
   netdev |-> NetdevLadder, net |-> NetLadder, xdp |-> XdpLadder]
=============================================================================
