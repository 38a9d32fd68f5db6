----------------------------- MODULE MCNfbComp -----------------------------
(* Worlds: what a process and a client in the kernel call.  Both run the   *)
(* short operations; of the long ones, one runs beside a short one.        *)
EXTENDS NfbComp

\* The operations whose header, or tool, takes the component's lock ...
LockedOps ==
    [rxmac_read_status |-> nc_rxmac_read_status, rxmac_read_counters |-> nc_rxmac_read_counters,
     rxmac_set_mac |-> nc_rxmac_set_mac, rxmac_get_mac_list |-> nc_rxmac_get_mac_list,
     rxmac_set_mac_list |-> nc_rxmac_set_mac_list,
     txmac_read_status |-> nc_txmac_read_status, txmac_read_counters |-> nc_txmac_read_counters,
     tsu_tool |-> nfb_tsu,
     mdio_read |-> nc_mdio_read("ctrl", 1, 8), mdio_write |-> nc_mdio_write("ctrl", 1, 7, 0, 0),
     i2c_read |-> nc_i2c_controller_read_reg("a"), i2c_write |-> nc_i2c_controller_write_reg("b"),
     rss_write_key |-> nc_nic_rss_write_key(0), rss_read_key |-> nc_nic_rss_read_key(1),
     rss_set_input |-> nc_nic_rss_set_input(0), rss_get_input |-> nc_nic_rss_get_input(1),
     rss_set_reta |-> nc_nic_rss_set_reta(0, 1), rss_get_reta |-> nc_nic_rss_get_reta(1, 2),
     etile_read |-> nc_mdio_read("e_tile", 1, 200), etile_ber |-> nc_mdio_read("e_tile", 3, 33),
     etile_bip |-> nc_mdio_read("e_tile", 3, 219), etile_stats |-> nc_mdio_read("e_tile", 1, 202),
     etile_loopback |-> nc_mdio_write("e_tile", 1, 0, 1, "SR4"),
     etile_mission |-> nc_mdio_write("e_tile", 1, 0, 0, "LR4")]

\* ... and those that take no lock.
UnlockedOps ==
    [rxmac_enable |-> nc_rxmac_enable, rxmac_disable |-> nc_rxmac_disable,
     rxmac_reset_counters |-> nc_rxmac_reset_counters,
     txmac_enable |-> nc_txmac_enable, txmac_disable |-> nc_txmac_disable,
     txmac_reset_counters |-> nc_txmac_reset_counters,
     rxqueue_read |-> _nc_rxqueue_read_counters("NDP"),
     rxqueue_reset |-> nc_rxqueue_reset_counters("NDP"),
     rxqueue_sze |-> _nc_rxqueue_read_counters("SZE"),
     txqueue_read |-> _nc_txqueue_read_counters("CALYPTE"),
     txqueue_reset |-> nc_txqueue_reset_counters("SZE"),
     ptp_adjfine |-> nfb_tsu_adjfine, ptp_adjtime |-> nfb_tsu_adjtime,
     ptp_gettime |-> nfb_tsu_gettimex64, ptp_settime |-> nfb_tsu_settime64,
     tsu_get_pps |-> nc_tsu_get_pps,
     adc_volt |-> _nc_get_adc_value_stratix(1), adc_temp |-> _nc_get_adc_value_stratix(2),
     etile_init |-> nc_mdio_init("e_tile"),
     etile_mode |-> nc_mdio_write("e_tile", 1, 7, "LR4", "SR4"),
     ftile_init |-> nc_mdio_init("f_tile"),
     ftile_ber |-> nc_mdio_read("f_tile", 3, 33), ftile_map |-> nc_mdio_read("f_tile", 3, 418),
     ftile_fec |-> nc_mdio_read("f_tile_400G", 3, 605),
     ftile_status |-> nc_mdio_read("f_tile", 1, 201),
     ftile_degraded |-> nc_mdio_read("f_tile_400G", 3, 801),
     ftile_loopback |-> nc_mdio_write("f_tile_400G", 1, 0, 1, 0),
     ftile_mode |-> nc_mdio_write("f_tile_400G", 1, 7, 0, 0)]

MCGuarded == LockedOps
MCUnguarded == UnlockedOps

Both(user, kernel) == [c \in {"user", "kernel"} |-> IF c = "user" THEN user ELSE kernel]
MCCompWorlds ==
    {Both({"rxmac_read_status", "rxmac_disable", "rxmac_enable"}, {"rxmac_set_mac", "rxmac_get_mac_list"}),
     Both({"rxmac_set_mac", "rxmac_set_mac_list"}, {"rxmac_set_mac", "rxmac_get_mac_list"}),
     Both({"rxmac_read_counters", "rxmac_reset_counters"}, {"rxmac_read_counters"}),
     Both({"txmac_read_status", "txmac_read_counters"},
          {"txmac_read_counters", "txmac_enable", "txmac_disable", "txmac_reset_counters"}),
     Both({"rxqueue_read", "rxqueue_sze"}, {"rxqueue_reset"}),
     Both({"txqueue_read"}, {"txqueue_reset"}),
     Both({"tsu_tool", "tsu_get_pps"}, {}), Both({"tsu_tool"}, {"ptp_gettime"}),
     Both({}, {"ptp_adjfine", "ptp_gettime", "ptp_settime", "ptp_adjtime"}),
     Both({"mdio_read", "mdio_write"}, {"mdio_read"}), Both({"i2c_read", "i2c_write"}, {"i2c_read"}),
     Both({"rss_write_key", "rss_set_reta", "rss_set_input"},
          {"rss_read_key", "rss_get_reta", "rss_get_input"}),
     Both({"adc_volt"}, {"adc_temp"}),
     Both({"etile_bip"}, {"etile_read"}), Both({"etile_ber"}, {"etile_init"}),
     Both({"etile_mode"}, {}), Both({"etile_stats"}, {"etile_read"}),
     Both({"etile_loopback"}, {}), Both({"etile_mission"}, {}),
     Both({"ftile_ber"}, {"ftile_init"}), Both({"ftile_fec", "ftile_map"}, {}),
     Both({"ftile_degraded", "ftile_mode"}, {}), Both({"ftile_status"}, {}),
     Both({"ftile_loopback"}, {})}
=============================================================================
