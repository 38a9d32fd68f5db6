----------------------------- MODULE NfbAttach -----------------------------
(* The attach, create and init functions of the kernel driver and their       *)
(* detach, destroy and exit functions, as ladders (NfbLadder).  Each           *)
(* definition has the name of the function it stands for.  A resource is what   *)
(* one call allocates, maps, opens or registers; register values, FDT           *)
(* properties and messages are left out, and so is memory that is freed before  *)
(* the function returns on every path.                                         *)
EXTENDS NfbLadder

(***************************************************************************)
(* The module: core.c, char.c, pci.c, misc.c, boot/                        *)
(***************************************************************************)
nfb_pmci_init == Fn(
  <<Get(<<"log_drv">>, "return"),
    Unless({<<"sec_drv">>}, <<Get(<<"sec_drv">>, "err_sec")>>),
    Unless({<<"hwmon_drv">>}, <<Get(<<"hwmon_drv">>, "err_hwmon")>>),
    Unless({<<"pmci_drv">>}, <<Get(<<"pmci_drv">>, "err_pdr")>>)>>,
  <<Label("err_pdr"), Put(<<"hwmon_drv">>), Label("err_hwmon"), Put(<<"sec_drv">>), Label("err_sec"), Put(<<"log_drv">>)>>)

nfb_spi_init == Fn(
  <<Unless({<<"sec_drv">>}, <<Get(<<"sec_drv">>, "return")>>),
    Unless({<<"hwmon_drv">>}, <<Get(<<"hwmon_drv">>, "err_hwmon")>>),
    Unless({<<"spi_dev_drv">>}, <<Get(<<"spi_dev_drv">>, "err_spi_driver")>>),
    Unless({<<"spi_drv">>}, <<Get(<<"spi_drv">>, "err_pdr")>>)>>,
  <<Label("err_pdr"), Put(<<"spi_dev_drv">>), Label("err_spi_driver"), Put(<<"hwmon_drv">>),
    Label("err_hwmon"), Put(<<"sec_drv">>)>>)

nfb_pmci_exit == Fn(<<Put(<<"pmci_drv">>), Put(<<"hwmon_drv">>), Put(<<"sec_drv">>), Put(<<"log_drv">>)>>, <<>>)

nfb_spi_exit == Fn(
  <<PutIf(<<"spi_drv">>), PutIf(<<"spi_dev_drv">>), PutIf(<<"hwmon_drv">>), PutIf(<<"sec_drv">>)>>, <<>>)

nfb_boot_init == Fn(<<Call(nfb_pmci_init, "return"), Call(nfb_spi_init, "return")>>, <<>>)
nfb_boot_exit == Fn(<<Call(nfb_pmci_exit, "ignore"), Call(nfb_spi_exit, "ignore")>>, <<>>)

nfb_char_init == Fn(
  <<Get(<<"chrdev">>, "return"), Get(<<"class">>, "err_class_create")>>,
  <<Label("err_class_create"), Put(<<"chrdev">>)>>)
nfb_char_exit == Fn(<<Put(<<"class">>), Put(<<"chrdev">>)>>, <<>>)

nfb_dtb_inject_init == Fn(
  <<Get(<<"inject_file">>, "return"), Get(<<"meta_file">>, "err_create_inject_len")>>,
  <<Label("err_create_inject_len"), Put(<<"inject_file">>)>>)
\* The device tree injected through sysfs: temp while it is written, valid once it
\* is complete and checks, consumed by the next probe of the device it names.
dtb_inject_meta_store == Fn(
  <<If({<<"valid">>}, <<Put(<<"valid_fdt">>), Put(<<"valid">>)>>),
    If({<<"temp">>}, <<PutIf(<<"temp_fdt">>)>>),
    Unless({<<"temp">>}, <<Get(<<"temp">>, "return")>>),
    Check("return"), Get(<<"temp_fdt">>, "return")>>, <<>>)
dtb_inject_store == Fn(
  <<Unless({<<"temp">>}, <<Fail("return")>>), Unless({<<"temp_fdt">>}, <<Fail("return")>>),
    Check("return"),
    Opt(<<Check("return"),
          If({<<"valid">>}, <<Put(<<"valid_fdt">>), Put(<<"valid">>)>>),
          Must(<<"valid">>), Must(<<"valid_fdt">>), Put(<<"temp_fdt">>), Put(<<"temp">>)>>)>>, <<>>)
\* Another device's tree goes back unless a new one has come in its place.
nfb_dtb_inject_get_pci == Fn(
  <<Unless({<<"valid">>}, <<Fail("return")>>),
    Must(<<"taken">>), Must(<<"taken_fdt">>), Put(<<"valid_fdt">>), Put(<<"valid">>),
    Opt(<<Opt(<<Must(<<"valid">>), Must(<<"valid_fdt">>)>>),
          Put(<<"taken_fdt">>), Put(<<"taken">>), Fail("return")>>),
    Put(<<"taken_fdt">>), Put(<<"taken">>)>>, <<>>)
\* A device tree that was stored and not consumed is freed with the files.
nfb_dtb_inject_exit == Fn(
  <<Put(<<"meta_file">>), Put(<<"inject_file">>),
    If({<<"valid">>}, <<Put(<<"valid_fdt">>), Put(<<"valid">>)>>),
    If({<<"temp">>}, <<PutIf(<<"temp_fdt">>), Put(<<"temp">>)>>)>>, <<>>)

nfb_pci_init == Fn(
  <<Get(<<"pci_driver">>, "return"), Call(nfb_dtb_inject_init, "err_inject_init")>>,
  <<Label("err_inject_init"), Put(<<"pci_driver">>)>>)
nfb_pci_exit == Fn(<<Call(nfb_dtb_inject_exit, "ignore"), Put(<<"pci_driver">>)>>, <<>>)

nfb_init == Fn(
  <<Call(nfb_boot_init, "return"), Call(nfb_char_init, "return"), Call(nfb_pci_init, "err_register_driver")>>,
  <<Label("err_register_driver"), Call(nfb_char_exit, "ignore")>>)
nfb_exit == Fn(<<Call(nfb_pci_exit, "ignore"), Call(nfb_char_exit, "ignore"), Call(nfb_boot_exit, "ignore")>>, <<>>)

(***************************************************************************)
(* Boot controllers: boot/                                                 *)
(***************************************************************************)
nfb_pmci_attach == Fn(
  <<Get(<<"pmci">>, "return"), Get(<<"pmci_comp">>, "err_nfb_comp"), Get(<<"pmci_pd">>, "err_pd_register"),
    Check("err_regmap_register"), Mark(<<"boot_pmci">>)>>,
  <<Label("err_regmap_register"), Put(<<"pmci_pd">>), Label("err_pd_register"), Put(<<"pmci_comp">>),
    Label("err_nfb_comp"), Put(<<"pmci">>)>>)
nfb_pmci_detach == Fn(
  <<If({<<"boot_pmci">>}, <<Put(<<"pmci_pd">>), Put(<<"pmci_comp">>), Put(<<"pmci">>)>>)>>, <<>>)

\* From devm_spi_register_controller() on, the host goes with the platform device.
nfb_spi_attach == Fn(
  <<Get(<<"m10bmc_spi">>, "return"), Get(<<"spi_comp">>, "err_nfb_comp"), Get(<<"spi_pd">>, "err_pd_register"),
    Get(<<"host">>, "err_alloc_master"), Check("err_regmap_register"), Put(<<"host">>),
    Check("err_m10bmc_init"), Mark(<<"boot_spi">>)>>,
  <<Label("err_regmap_register"), Put(<<"host">>),
    Label("err_m10bmc_init"), Label("err_alloc_master"), Put(<<"spi_pd">>),
    Label("err_pd_register"), Put(<<"spi_comp">>), Label("err_nfb_comp"), Put(<<"m10bmc_spi">>)>>)
nfb_spi_detach == Fn(
  <<If({<<"boot_spi">>}, <<Put(<<"spi_pd">>), Put(<<"spi_comp">>), Put(<<"m10bmc_spi">>)>>)>>, <<>>)

nfb_boot_bw_bmc_attach == Fn(<<Check("return"), Get(<<"bw_bmc">>, "return")>>, <<>>)
nfb_boot_bw_bmc_detach == Fn(<<PutIf(<<"bw_bmc">>)>>, <<>>)

sdm_init == Fn(
  <<Get(<<"sdm">>, "return"), Get(<<"sdm_comp">>, "err_comp_open")>>,
  <<Label("err_comp_open"), Put(<<"sdm">>)>>)
sdm_free == Fn(<<If({<<"sdm">>}, <<Put(<<"sdm_comp">>), Put(<<"sdm">>)>>)>>, <<>>)

\* Flashes behind a QSPI controller use nor, the others map.
NorFlash == {<<"spi">>, <<"sdm_boot_en">>}
nfb_boot_mtd_init == Fn(
  <<If(NorFlash, <<Get(<<"nor">>, "return")>>), Unless(NorFlash, <<Get(<<"map">>, "return")>>),
    Get(<<"mtd">>, "nomem"),
    Unless(NorFlash, ForEach(LAMBDA i : <<Try(<<"flash", i>>)>>))>>,
  <<Label("nomem"), FreeKept(<<"map">>)>>)
nfb_boot_mtd_destroy == Fn(
  <<If({<<"mtd">>}, <<Unless({<<"nor">>}, ForEach(LAMBDA i : <<PutIf(<<"flash", i>>)>>)), Put(<<"mtd">>)>>),
    PutIf(<<"nor">>), PutIf(<<"map">>)>>, <<>>)

BootControllers == {<<"boot_pmci">>, <<"boot_spi">>, <<"bw_bmc">>}
nfb_boot_attach == Fn(
  <<Get(<<"boot">>, "return"),
    Call(nfb_pmci_attach, "ignore"), Call(nfb_spi_attach, "ignore"), Call(nfb_boot_bw_bmc_attach, "ignore"),
    Opt(<<Call(sdm_init, "ignore"), If({<<"sdm">>}, <<Opt(<<Mark(<<"sdm_boot_en">>)>>)>>)>>),
    Opt(<<Must(<<"spi_master">>), Try(<<"spi">>)>>),
    Opt(<<Unless(BootControllers \cup {<<"sdm_boot_en">>}, <<Fail("err_nocomp")>>)>>),
    Try(<<"comp">>), Unless(BootControllers \cup {<<"comp">>}, <<Fail("err_comp_open")>>),
    Call(nfb_boot_mtd_init, "ignore")>>,
  <<Label("err_comp_open"), Label("err_nocomp"),
    Call(nfb_pmci_detach, "ignore"), Call(nfb_spi_detach, "ignore"), Put(<<"boot">>)>>)
nfb_boot_detach == Fn(
  <<Call(nfb_boot_mtd_destroy, "ignore"),
    If({<<"spi">>}, <<Put(<<"spi">>), Put(<<"spi_master">>)>>), PutIf(<<"comp">>),
    Call(sdm_free, "ignore"), Call(nfb_boot_bw_bmc_detach, "ignore"),
    Call(nfb_pmci_detach, "ignore"), Call(nfb_spi_detach, "ignore"), Put(<<"boot">>)>>, <<>>)

\* The device tree of a card, read from its configuration space.  buffer.out is
\* set to NULL before the first krealloc(), and a krealloc() that fails keeps the
\* old block: lost_out is a block no pointer leads to.
nfb_pci_read_fdt == Fn(
  <<Check("return"), Get(<<"in">>, "return"), Get(<<"out">>, "err_alloc_out_buffer"), Check("err_read"),
    Get(<<"decoder">>, "err_read"), Must(<<"lost_out">>), Put(<<"out">>), Get(<<"out">>, "err_dec_run"),
    Opt(<<Must(<<"lost_out">>), Put(<<"out">>), Fail("err_dec_run")>>), Check("err_dec_run"),
    Put(<<"decoder">>), Put(<<"in">>)>>,
  <<Label("err_dec_run"), Put(<<"decoder">>), Label("err_read"), PutIf(<<"out">>),
    Label("err_alloc_out_buffer"), Put(<<"in">>)>>)
\* The list that nfb_pci_exit() frees.
nfb_pci_exit_device == Fn(<<PutIf(<<"out">>)>>, <<>>)

(***************************************************************************)
(* MI bus and hardware monitor: mi/mi.c, hwmon/                            *)
(***************************************************************************)
\* A mutant: the region is not released when ioremap() fails.
nfb_mi_map_region_kept(i) == Fn(
  <<If({<<"region", i>>}, <<Fail("return")>>), Get(<<"region", i>>, "return"),
    Get(<<"mem_virt", i>>, "return"), Get(<<"mi_mmap", i>>, "err_nfb_char_register_mmap")>>,
  <<Label("err_nfb_char_register_mmap"), Put(<<"mem_virt", i>>), Label("err_ioremap"), Put(<<"region", i>>)>>)
\* request_mem_region() refuses a region that is taken.
nfb_mi_map(i) == Fn(
  <<If({<<"region", i>>}, <<Fail("return")>>), Get(<<"region", i>>, "return"),
    Get(<<"mem_virt", i>>, "err_ioremap"), Get(<<"mi_mmap", i>>, "err_nfb_char_register_mmap")>>,
  <<Label("err_nfb_char_register_mmap"), Put(<<"mem_virt", i>>), Label("err_ioremap"), Put(<<"region", i>>)>>)
nfb_mi_unmap(i) == Fn(
  <<If({<<"mem_virt", i>>}, <<Put(<<"mi_mmap", i>>), Put(<<"mem_virt", i>>), Put(<<"region", i>>)>>)>>, <<>>)

\* The endpoint of a bus may be probed later than the card: the map is postponed.
nfb_mi_attach_bus(i) == Fn(
  <<Check("return"), Get(<<"mi_node", i>>, "return"), Check("err_fdt_get_path"), Must(<<"bus_fdt", i>>),
    Must(<<"listed", i>>), Must(<<"bus", i>>), Opt(<<Call(nfb_mi_map(i), "ignore")>>), Fail("return")>>,
  <<Label("err_fdt_get_path"), Put(<<"mi_node", i>>)>>)
nfb_mi_detach_bus(i) == Fn(
  <<PutIf(<<"bus_fdt", i>>),
    If({<<"listed", i>>}, <<Put(<<"bus", i>>), Call(nfb_mi_unmap(i), "ignore"), Put(<<"listed", i>>)>>)>>, <<>>)

nfb_mi_attach_node == Fn(<<Check("return")>> \o ForEach(LAMBDA i : <<Call(nfb_mi_attach_bus(i), "ignore")>>), <<>>)
nfb_mi_detach_node == Fn(ForEach(LAMBDA i : <<Call(nfb_mi_detach_bus(i), "ignore")>>), <<>>)
nfb_mi_probe_endpoint(i) == Fn(<<If({<<"listed", i>>}, <<Call(nfb_mi_map(i), "ignore")>>)>>, <<>>)
nfb_mi_remove_endpoint(i) == Fn(<<If({<<"listed", i>>}, <<Call(nfb_mi_unmap(i), "ignore")>>)>>, <<>>)
nfb_mi_attach == Fn(<<Get(<<"mi">>, "return"), Must(<<"mi_fdt">>), Call(nfb_mi_attach_node, "ignore")>>, <<>>)
nfb_mi_detach == Fn(<<Call(nfb_mi_detach_node, "ignore"), Put(<<"mi_fdt">>), Put(<<"mi">>)>>, <<>>)

\* Allocations of devm_*() live until the device goes: DeviceRelease frees them.
\* A transceiver whose path or label cannot be copied leaves its slot to the next.
nfb_hwmon_transceiver_lookup == Fn(
  <<Opt(<<Lose("return")>>), Get(<<"trc_arr">>, "return")>> \o
  ForEach(LAMBDA i : <<Opt(<<Must(<<"path", i>>), Alt(<<Must(<<"label", i>>)>>, <<Put(<<"path", i>>)>>)>>)>>) \o
  <<Check("return"), Mark(<<"trc_count">>)>>, <<>>)
nfb_hwmon_attach == Fn(
  <<Opt(<<Lose("return")>>), Check("return"),
    Alt(<<Get(<<"name">>, "return")>>, <<Mark(<<"literal">>)>>),
    Get(<<"trc_data">>, "trc_data_err"), Call(nfb_hwmon_transceiver_lookup, "ignore"),
    Get(<<"card_thr">>, "card_thr_err"), Get(<<"hwmon_data">>, "hwmon_data_err"),
    Get(<<"hwmon_dev">>, "hwmon_dev_err")>>,
  <<Label("hwmon_dev_err"), Put(<<"hwmon_data">>), Label("hwmon_data_err"), Put(<<"card_thr">>),
    Label("card_thr_err"), If({<<"trc_count">>}, ForEach(LAMBDA i : <<PutIf(<<"path", i>>)>>)), Put(<<"trc_data">>),
    Label("trc_data_err"), IfElse({<<"name">>}, <<Put(<<"name">>)>>, <<Put(<<"literal">>)>>)>>)
nfb_hwmon_detach == Fn(<<PutIf(<<"hwmon_dev">>)>>, <<>>)
DeviceRelease == Fn(
  <<PutIf(<<"hwmon_data">>), PutIf(<<"card_thr">>), PutIf(<<"trc_data">>), PutIf(<<"trc_arr">>), PutIf(<<"name">>)>> \o
  ForEach(LAMBDA i : <<PutIf(<<"path", i>>), PutIf(<<"label", i>>)>>), <<>>)
hwmon_probe == Fn(<<Call(nfb_hwmon_attach, "removed")>>, <<Label("removed"), Call(DeviceRelease, "ignore")>>)
hwmon_remove == Fn(<<Call(nfb_hwmon_detach, "ignore"), Call(DeviceRelease, "ignore")>>, <<>>)

(***************************************************************************)
(* NDP: ndp/.  One channel, whose controller is of the given kind.         *)
(***************************************************************************)
ndp_ctrl_vmap_shadow(r) == Fn(
  <<Get(<<"pages">>, "return"), Alt(<<Must(r), Put(<<"pages">>)>>, <<Put(<<"pages">>), Fail("return")>>)>>, <<>>)

\* nfb_char_register_mmap() returned zero before the header area is allocated, and
\* that is what a failure to allocate it returns.
ndp_ctrl_medusa_attach_ring == Fn(
  <<Check("return"), Get(<<"update">>, "return"),
    Get(<<"desc">>, "err_alloc_desc"), Call(ndp_ctrl_vmap_shadow(<<"desc_v">>), "err_vmap_desc"),
    Get(<<"off">>, "err_alloc_off"), Call(ndp_ctrl_vmap_shadow(<<"off_v">>), "err_vmap_off_buffer"),
    Get(<<"off_mmap">>, "err_register_mmap_off"),
    GetOrLose(<<"hdr">>, "err_alloc_hdr"), CallOrLose(ndp_ctrl_vmap_shadow(<<"hdr_v">>), "err_vmap_hdr_buffer"),
    Get(<<"hdr_mmap">>, "err_register_mmap_hdr")>>,
  <<Label("err_register_mmap_hdr"), Put(<<"hdr_v">>), Label("err_vmap_hdr_buffer"), Put(<<"hdr">>),
    Label("err_alloc_hdr"), Put(<<"off_mmap">>), Label("err_register_mmap_off"), Put(<<"off_v">>),
    Label("err_vmap_off_buffer"), Put(<<"off">>), Label("err_alloc_off"), Put(<<"desc_v">>),
    Label("err_vmap_desc"), Put(<<"desc">>), Label("err_alloc_desc"), Put(<<"update">>)>>)
ndp_ctrl_medusa_detach_ring == Fn(
  <<If({<<"hdr">>}, <<Put(<<"hdr_mmap">>), Put(<<"hdr_v">>), Put(<<"hdr">>)>>),
    If({<<"off">>}, <<Put(<<"off_v">>), Put(<<"off">>)>>),
    If({<<"desc">>}, <<Put(<<"desc_v">>), Put(<<"desc">>)>>), PutIf(<<"update">>)>>, <<>>)

ndp_ctrl_rx_calypte_attach_ring == Fn(
  <<Check("return"), Get(<<"update">>, "return"), Get(<<"hdr">>, "err_hdr_buff_map"),
    Call(ndp_ctrl_vmap_shadow(<<"hdr_v">>), "err_vmap_hdr_buffer"), Get(<<"hdr_mmap">>, "err_register_mmap_hdr")>>,
  <<Label("err_register_mmap_hdr"), Put(<<"hdr_v">>), Label("err_vmap_hdr_buffer"), Put(<<"hdr">>),
    Label("err_hdr_buff_map"), Put(<<"update">>)>>)

\* hdr_buffer_v keeps its value when the area is unmapped; vunmap(NULL) and freeing
\* a NULL buffer do nothing.
ndp_ctrl_tx_calypte_attach_ring == Fn(
  <<Check("return"), Get(<<"update">>, "return"), Get(<<"upd_mmap">>, "err_register_mmap_upd"),
    GetOrLose(<<"hdr">>, "err_alloc_hdr"), CallOrLose(ndp_ctrl_vmap_shadow(<<"hdr_v">>), "err_vmap_hdr_buffer"),
    Get(<<"hdr_mmap">>, "err_register_mmap_hdr")>>,
  <<Label("err_register_mmap_upd"), Put(<<"hdr_mmap">>), Label("err_register_mmap_hdr"), FreeKept(<<"hdr_v">>),
    Label("err_vmap_hdr_buffer"), PutIf(<<"hdr">>), Label("err_alloc_hdr"), Put(<<"update">>)>>)
ndp_ctrl_calypte_detach_ring == Fn(
  <<If({<<"hdr">>}, <<Put(<<"hdr_mmap">>), FreeKept(<<"hdr_v">>), Put(<<"hdr">>)>>),
    If({<<"update">>}, <<Put(<<"upd_mmap">>), Put(<<"update">>)>>)>>, <<>>)

\* ctrl.c: the update area of a failed attach is freed and its pointer kept.
ndp_ctrl_attach_ring == Fn(
  <<Unless({<<"blocks">>}, <<Lose("return")>>), Get(<<"update">>, "return"), Check("err_desc_count"),
    Get(<<"desc">>, "err_desc_count")>>,
  <<Label("err_desc_count"), FreeKept(<<"update">>)>>)
ndp_ctrl_detach_ring == Fn(<<If({<<"blocks">>}, <<PutIf(<<"desc">>), PutIf(<<"update">>)>>)>>, <<>>)

CtrlKinds == {"medusa", "rx_calypte", "tx_calypte", "sze"}
AttachRing(kind) ==
  CASE kind = "medusa" -> ndp_ctrl_medusa_attach_ring
    [] kind = "rx_calypte" -> ndp_ctrl_rx_calypte_attach_ring
    [] kind = "tx_calypte" -> ndp_ctrl_tx_calypte_attach_ring
    [] kind = "sze" -> ndp_ctrl_attach_ring
DetachRing(kind) ==
  CASE kind = "medusa" -> ndp_ctrl_medusa_detach_ring
    [] kind = "sze" -> ndp_ctrl_detach_ring
    [] OTHER -> ndp_ctrl_calypte_detach_ring

ndp_block_alloc == Fn(
  <<Get(<<"blocks">>, "return")>> \o ForEach(LAMBDA i : <<Get(<<"block", i>>, "err_alloc_blocks")>>),
  <<Label("err_alloc_blocks")>> \o ForEachBack(LAMBDA i : <<PutIf(<<"block", i>>)>>) \o <<Put(<<"blocks">>)>>)
ndp_block_free == Fn(<<If({<<"blocks">>}, ForEach(LAMBDA i : <<Put(<<"block", i>>)>>) \o <<Put(<<"blocks">>)>>)>>, <<>>)
ndp_channel_ring_alloc == Fn(
  <<Call(ndp_block_alloc, "return"), Call(ndp_ctrl_vmap_shadow(<<"vmap">>), "err_vmap")>>,
  <<Label("err_vmap"), Call(ndp_block_free, "ignore")>>)
ndp_channel_ring_free == Fn(<<PutIf(<<"vmap">>), Call(ndp_block_free, "ignore")>>, <<>>)

\* No ring when the requested number of blocks is zero.
ndp_channel_ring_create(kind) == Fn(
  <<Opt(<<Lose("return")>>), Call(ndp_channel_ring_alloc, "return"), Get(<<"ring_mmap">>, "err_register_mmap"),
    Call(AttachRing(kind), "err_attach_ring")>>,
  <<Label("err_attach_ring"), Put(<<"ring_mmap">>), Label("err_register_mmap"), Call(ndp_channel_ring_free, "ignore")>>)
ndp_channel_ring_destroy(kind) == Fn(
  <<If({<<"blocks">>}, <<Put(<<"ring_mmap">>), Call(DetachRing(kind), "ignore"),
                         Call(ndp_channel_ring_free, "ignore")>>)>>, <<>>)
ndp_channel_ring_resize(kind) == Fn(
  <<Check("return"),
    IfElse({<<"blocks">>}, <<Call(ndp_channel_ring_destroy(kind), "ignore"),
                             Call(ndp_channel_ring_create(kind), "err_ring_create")>>,
                           <<Call(ndp_channel_ring_create(kind), "return")>>)>>,
  <<Label("err_ring_create"), Call(ndp_channel_ring_create(kind), "ignore")>>)
\* ring_size and its like in sysfs, of a channel that was added.
ndp_channel_set_ring_size(kind) == Fn(<<If({<<"ch_listed">>}, <<Call(ndp_channel_ring_resize(kind), "ignore")>>)>>, <<>>)

ndp_ctrl_create == Fn(
  <<Get(<<"ctrl">>, "return"), Get(<<"ctrl_c">>, "err_ctrl_open")>>,
  <<Label("err_ctrl_open"), Put(<<"ctrl">>)>>)
ndp_ctrl_destroy == Fn(<<Put(<<"ctrl_c">>), Put(<<"ctrl">>)>>, <<>>)
ndp_channel_add(kind) == Fn(
  <<Must(<<"ch_fdt">>), Call(ndp_channel_ring_create(kind), "ignore"),
    Alt(<<Must(<<"ch_dev">>), Must(<<"ch_listed">>)>>, <<Mark(Unlisted), Fail("return")>>)>>, <<>>)
ndp_channel_del(kind) == Fn(
  <<Put(<<"ch_listed">>), Call(DetachRing(kind), "ignore"), Call(ndp_channel_ring_destroy(kind), "ignore"),
    Put(<<"ch_dev">>), Call(ndp_ctrl_destroy, "ignore")>>, <<>>)
ndp_create_channels_from_ctrl(kind) == Fn(
  <<Check("return"), Call(ndp_ctrl_create, "return"), Call(ndp_channel_add(kind), "ignore")>>, <<>>)
nfb_ndp_attach(kind) == Fn(
  <<Get(<<"ndp">>, "return"), Get(<<"ndp_dev">>, "err_device_add"), Must(<<"ndp_fdt">>),
    Call(ndp_create_channels_from_ctrl(kind), "ignore")>>,
  <<Label("err_device_add"), Put(<<"ndp">>)>>)
\* The nodes of the channels go with /drivers/ndp.
nfb_ndp_detach(kind) == Fn(
  <<If({<<"ch_listed">>}, <<Call(ndp_channel_del(kind), "ignore")>>), PutIf(<<"ch_fdt">>), Put(<<"ndp_fdt">>),
    Put(<<"ndp_dev">>), Put(<<"ndp">>)>>, <<>>)

(***************************************************************************)
(* Network devices: ndp_netdev/core.c, net/, xdp/                          *)
(***************************************************************************)
nfb_ndp_netdev_sub_dma(r) == Fn(<<Get(r, "return"), Check("err_sub_present")>>, <<Label("err_sub_present"), Put(r)>>)
\* A mutant: a failed RX subscription leaves the TX one.
nfb_ndp_netdev_open_tx_kept(i) == Fn(
  <<Call(nfb_ndp_netdev_sub_dma(<<"tx_q", i>>), "return"), Call(nfb_ndp_netdev_sub_dma(<<"rx_q", i>>), "return"),
    Get(<<"rx_task", i>>, "err_no_task")>>,
  <<Label("err_no_task"), Put(<<"rx_q", i>>), Label("err_no_rx"), Put(<<"tx_q", i>>)>>)
nfb_ndp_netdev_open(i) == Fn(
  <<Call(nfb_ndp_netdev_sub_dma(<<"tx_q", i>>), "return"), Call(nfb_ndp_netdev_sub_dma(<<"rx_q", i>>), "err_no_rx"),
    Get(<<"rx_task", i>>, "err_no_task")>>,
  <<Label("err_no_task"), Put(<<"rx_q", i>>), Label("err_no_rx"), Put(<<"tx_q", i>>)>>)
nfb_ndp_netdev_close(i) == Fn(<<Put(<<"rx_task", i>>), Put(<<"rx_q", i>>), Put(<<"tx_q", i>>)>>, <<>>)

\* A failed alloc_etherdev() returns zero.
nfb_ndp_netdev_create(i) == Fn(
  <<If({<<"eth_listed", i>>}, <<Fail("return")>>), GetOrLose(<<"ndev", i>>, "return"),
    Get(<<"eth_device", i>>, "err_device_add"), Get(<<"registered", i>>, "err_register_netdev"),
    Must(<<"eth_listed", i>>)>>,
  <<Label("err_register_netdev"), Put(<<"eth_device", i>>), Label("err_device_add"), Put(<<"ndev", i>>)>>)
\* unregister_netdev() closes an interface that is up.
nfb_ndp_netdev_destroy(i) == Fn(
  <<Put(<<"eth_listed", i>>), If({<<"rx_task", i>>}, <<Call(nfb_ndp_netdev_close(i), "ignore")>>),
    Put(<<"registered", i>>), Put(<<"eth_device", i>>), Put(<<"ndev", i>>)>>, <<>>)
ndp_netdev_set_cmd(i) == Fn(
  <<Get(<<"options">>, "return"), Check("err_parser"), Try(<<"cmd">>), Unless({<<"cmd">>}, <<Fail("err_parser")>>),
    Alt(<<Call(nfb_ndp_netdev_create(i), "ignore")>>,
        <<If({<<"eth_listed", i>>}, <<Call(nfb_ndp_netdev_destroy(i), "ignore")>>)>>), Lose("err_parser")>>,
  <<Label("err_parser"), PutIf(<<"cmd">>), Put(<<"options">>)>>)
nfb_ndp_netdev_attach == Fn(
  <<Get(<<"eth">>, "return"), Get(<<"eth_dev">>, "err_device_add")>> \o
  ForEach(LAMBDA i : <<Opt(<<Call(nfb_ndp_netdev_create(i), "ignore")>>)>>),
  <<Label("err_device_add"), Put(<<"eth">>)>>)
nfb_ndp_netdev_detach == Fn(
  ForEach(LAMBDA i : <<If({<<"eth_listed", i>>}, <<Call(nfb_ndp_netdev_destroy(i), "ignore")>>)>>) \o
  <<Put(<<"eth_dev">>), Put(<<"eth">>)>>, <<>>)
\* The network core opens and closes a registered interface.
ifup(i) == Fn(
  <<If({<<"registered", i>>}, <<Unless({<<"rx_task", i>>}, <<Call(nfb_ndp_netdev_open(i), "ignore")>>)>>)>>, <<>>)
ifdown(i) == Fn(<<If({<<"rx_task", i>>}, <<Call(nfb_ndp_netdev_close(i), "ignore")>>)>>, <<>>)

nfb_net_queues_init(i) == Fn(
  <<Get(<<"rxqs", i>>, "return"), Get(<<"txqs", i>>, "err_alloc_txqs")>>,
  <<Label("err_alloc_txqs"), Put(<<"rxqs", i>>)>>)
nfb_net_queues_deinit(i) == Fn(<<Put(<<"rxqs", i>>), Put(<<"txqs", i>>)>>, <<>>)
NetHandlesOf(i) == <<<<"nc_txmac", i>>, <<"nc_rxmac", i>>, <<"nc_trstat", i>>, <<"nc_tri2c", i>>, <<"nc_mdio", i>>>>
\* The components of a port are opened where the card has them.
port_device_create(i) == Fn(
  <<Get(<<"netdev", i>>, "return"), Call(nfb_net_queues_init(i), "err_queues_init"),
    Get(<<"net_sysfs", i>>, "err_sysfs_init"),
    Opt([k \in 1 .. 5 |-> Must(NetHandlesOf(i)[k])]),
    Get(<<"net_reg", i>>, "err_register_netdev"), Must(<<"net_listed", i>>)>>,
  <<Label("err_register_netdev"), Put(<<"net_sysfs", i>>), Label("err_sysfs_init"),
    Call(nfb_net_queues_deinit(i), "ignore"), Label("err_queues_init"), Put(<<"netdev", i>>)>>)
port_device_destroy(i) == Fn(
  <<Put(<<"net_reg", i>>)>> \o [k \in 1 .. 5 |-> PutIf(NetHandlesOf(i)[k])] \o
  <<Put(<<"net_sysfs", i>>), Call(nfb_net_queues_deinit(i), "ignore"), Put(<<"netdev", i>>)>>, <<>>)
nfb_net_attach == Fn(
  <<Opt(<<Lose("return")>>), Get(<<"net_module">>, "return"), Get(<<"net_dev">>, "err_device_add")>> \o
  ForEach(LAMBDA i : <<Call(port_device_create(i), "ignore")>>) \o
  <<Opt(<<Must(<<"tsu">>), Try(<<"ptp_clock">>)>>)>>,
  <<Label("err_device_add"), Put(<<"net_module">>)>>)
nfb_net_detach == Fn(
  <<If({<<"net_module">>},
       <<PutIf(<<"ptp_clock">>), PutIf(<<"tsu">>)>> \o
       ForEach(LAMBDA i : <<If({<<"net_listed", i>>}, <<Call(port_device_destroy(i), "ignore"),
                                                    Put(<<"net_listed", i>>)>>)>>) \o
       <<Put(<<"net_dev">>), Put(<<"net_module">>)>>)>>, <<>>)

\* The devices of the channels in sysfs: dev is the initialised device, add its
\* registration.  The error loop starts at the channel that failed.
ChannelLabel(i) == IF i = 1 THEN "err1" ELSE "err2"
nfb_xdp_sysfs_init_channels == Fn(
  <<Get(<<"sysfsdevs">>, "return")>> \o
  ForEach(LAMBDA i : <<Get(<<"drvdata", i>>, ChannelLabel(i)), Must(<<"xch_dev", i>>),
                    Alt(<<Must(<<"xch_add", i>>)>>, <<Put(<<"xch_dev", i>>), Fail(ChannelLabel(i))>>)>>),
  ForEachBack(LAMBDA i : <<Label(ChannelLabel(i)), Put(<<"xch_dev", i>>), PutIf(<<"drvdata", i>>)>>) \o
  <<Put(<<"sysfsdevs">>)>>)
nfb_xdp_sysfs_deinit_channels == Fn(
  ForEach(LAMBDA i : <<Put(<<"xch_add", i>>), Put(<<"drvdata", i>>)>>) \o <<Put(<<"sysfsdevs">>)>>, <<>>)

\* One interface; macs_alloc_error and macs_open_error close what is open.
create_ethdev == Fn(
  <<If({<<"x_listed">>}, <<Fail("return")>>), Get(<<"x_netdev">>, "return"), Get(<<"x_channels">>, "err_channels_init"),
    Get(<<"nc_rxmacs">>, "macs_open_error")>> \o
  ForEach(LAMBDA i : <<Opt(<<Get(<<"x_rxmac", i>>, "macs_open_error")>>)>>) \o
  <<Get(<<"x_reg">>, "macs_open_error"), Must(<<"x_listed">>)>>,
  <<Label("macs_open_error")>> \o ForEach(LAMBDA i : <<PutIf(<<"x_rxmac", i>>)>>) \o
  <<PutIf(<<"nc_rxmacs">>), Put(<<"x_channels">>), Label("err_channels_init"), Put(<<"x_netdev">>)>>)
destroy_ethdev == Fn(
  <<If({<<"x_listed">>},
       <<Put(<<"x_listed">>)>> \o ForEach(LAMBDA i : <<PutIf(<<"x_rxmac", i>>)>>) \o
       <<Put(<<"nc_rxmacs">>), Put(<<"x_reg">>), Put(<<"x_channels">>), Put(<<"x_netdev">>)>>)>>, <<>>)
\* A krealloc() of queue_indexes that fails drops the old array.
cmd_store == Fn(
  <<Unless({<<"xdp_dev">>}, <<Fail("return")>>), Get(<<"options">>, "return"), Check("err_parser"), Try(<<"cmd">>), Try(<<"queue_string">>),
    Unless({<<"cmd">>}, <<Fail("err_parser")>>),
    Alt(<<Get(<<"queue_indexes">>, "err_parser"),
          Opt(<<Put(<<"queue_indexes">>), Must(<<"lost_indexes">>), Fail("err_parser")>>),
          Call(create_ethdev, "ignore")>>,
        <<Call(destroy_ethdev, "ignore")>>), Lose("err_parser")>>,
  <<Label("err_parser"), PutIf(<<"queue_indexes">>), PutIf(<<"cmd">>), PutIf(<<"queue_string">>), Put(<<"options">>)>>)
nfb_xdp_attach == Fn(
  <<Opt(<<Lose("return")>>), Check("return"), Get(<<"xdp">>, "return"), Must(<<"xdp_ref">>),
    Get(<<"xdp_dev">>, "err_dev_add"), Call(nfb_xdp_sysfs_init_channels, "err_dev_add")>>,
  <<Label("err_dev_add"), Put(<<"xdp_ref">>), Put(<<"xdp">>)>>)
nfb_xdp_detach == Fn(
  <<If({<<"xdp">>}, <<Call(nfb_xdp_sysfs_deinit_channels, "ignore"), Call(destroy_ethdev, "ignore"),
                      Put(<<"xdp_dev">>), Put(<<"xdp">>)>>)>>, <<>>)
=============================================================================
