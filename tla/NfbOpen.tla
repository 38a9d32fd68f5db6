------------------------------ MODULE NfbOpen ------------------------------
(* What libnfb and the tools open and close, as ladders (NfbLadder): the       *)
(* device, its components and its NDP queues, firmware files, the injection of   *)
(* a device tree, and the set-up of the DPDK and XDP modes of ndp-tool.  Each     *)
(* definition has the name of the function it stands for; the resources of a      *)
(* component start with the component's name.                                   *)
EXTENDS NfbLadder

(***************************************************************************)
(* The device and its components: libnfb/src/nfb.c, libnfb/src/bus/mi.c    *)
(***************************************************************************)
\* A negative or zero answer of the library's get_ops() closes the library; after
\* zero the base operations are used.
load_lib_extension == Fn(
  <<Get(<<"ext_lib">>, "return"), Check("err_no_abi"),
    Opt(<<Put(<<"ext_lib">>), Alt(<<Fail("return")>>, <<Lose("return")>>)>>)>>,
  <<Label("err_no_abi"), Put(<<"ext_lib">>)>>)
load_extension == Fn(
  <<Opt(<<Lose("return")>>), Get(<<"lib_name">>, "return"), Call(load_lib_extension, "loaded"), Put(<<"lib_name">>)>>,
  <<Label("loaded"), Put(<<"lib_name">>)>>)

nfb_base_open == Fn(
  <<Get(<<"priv">>, "return"), Get(<<"fd">>, "err_open"), Check("err_fdt_size"), Get(<<"fdt">>, "err_malloc_fdt"),
    Check("err_read_fdt")>>,
  <<Label("err_read_fdt"), Put(<<"fdt">>), Label("err_malloc_fdt"), Label("err_fdt_size"), Put(<<"fd">>),
    Label("err_open"), Put(<<"priv">>)>>)
\* The kernel releases a file, and with it the subscriptions made through it, when
\* its descriptor is closed and none of its mappings is left.
Mappings == {<<"buffer">>, <<"hdr">>, <<"off">>, <<"hdrs">>, <<"update_buff">>,
             <<"ctrl", "space">>, <<"data", "space">>, <<"header", "space">>, <<"comp", "space">>}
nfb_base_close == Fn(<<Put(<<"fd">>), Unless(Mappings, <<PutIf(<<"sub">>)>>), Put(<<"priv">>)>>, <<>>)

\* The operations of an extension or of libnfb itself.
OpsOpen == IfElse({<<"ext_lib">>}, <<Check("err_ops"), Get(<<"ext_priv">>, "err_open"), Must(<<"fdt">>)>>,
                                  <<Call(nfb_base_open, "err_open")>>)
OpsClose == IfElse({<<"ext_priv">>}, <<Put(<<"ext_priv">>)>>, <<Call(nfb_base_close, "ignore")>>)
nfb_open_ext == Fn(
  <<Check("return"), Get(<<"dev">>, "return"), Call(load_extension, "err_ext_load"), OpsOpen,
    Check("err_fdt_check_header")>>,
  <<Label("err_fdt_check_header"), OpsClose, Put(<<"fdt">>),
    Label("err_ops"), Label("err_open"), Label("err_ext_load"), PutIf(<<"ext_lib">>), Put(<<"dev">>)>>)
nfb_close == Fn(<<OpsClose, PutIf(<<"queues">>), PutIf(<<"ext_lib">>), Put(<<"fdt">>), Put(<<"dev">>)>>, <<>>)

nfb_bus_open_mi(c) == Fn(
  <<Check("return"), Get(<<c, "bus">>, "return"), Check("err_fdt_path"), Get(<<c, "space">>, "err_mmap")>>,
  <<Label("err_mmap"), Label("err_fdt_path"), Put(<<c, "bus">>)>>)
nfb_bus_close_mi(c) == Fn(<<Put(<<c, "space">>), Put(<<c, "bus">>)>>, <<>>)
nfb_comp_open_ext(c) == Fn(
  <<Check("return"), Get(<<c, "comp">>, "return"), Call(nfb_bus_open_mi(c), "err_bus_open")>>,
  <<Label("err_bus_open"), Put(<<c, "comp">>)>>)
nfb_comp_close(c) == Fn(<<Call(nfb_bus_close_mi(c), "ignore"), Put(<<c, "comp">>)>>, <<>>)

(***************************************************************************)
(* NDP queues: netcope/ndp_core.h, ndp_base.h, ndp.h, ndp_calypte.h        *)
(***************************************************************************)
\* A queue of protocol 2 whose second mmap() fails returns the zero left by
\* fdt_getprop64(): the missing burst operations tell ndp_open_queue().
nc_ndp_v2_open_queue == Fn(
  <<Check("return"), GetOrLose(<<"hdr">>, "err_mmap_hdr"), GetOrLose(<<"off">>, "err_mmap_off"), Must(<<"burst_ops">>)>>,
  <<Label("err_mmap_off"), Put(<<"hdr">>), Label("err_mmap_hdr")>>)
nc_ndp_v3_open_queue(kind) ==
  LET Tx(code) == IF kind = "v3_tx" THEN code ELSE <<>> IN
  Fn(<<Check("return"), Get(<<"hdrs">>, "return")>> \o Tx(<<Get(<<"update_buff">>, "err_mmap_upd")>>) \o
     <<If({<<"exclusive">>}, <<Call(nfb_comp_open_ext("ctrl"), "err_comp_open")>>), Must(<<"burst_ops">>)>>,
     <<Label("err_comp_open")>> \o Tx(<<Put(<<"update_buff">>)>>) \o <<Label("err_mmap_upd"), Put(<<"hdrs">>)>>)
nc_ndp_v3_close_queue == Fn(<<If({<<"exclusive">>}, <<Call(nfb_comp_close("ctrl"), "ignore")>>)>>, <<>>)
OpenVx(kind) ==
  CASE kind = "v1" -> Fn(<<Must(<<"burst_ops">>)>>, <<>>)
    [] kind = "v2" -> nc_ndp_v2_open_queue
    [] OTHER -> nc_ndp_v3_open_queue(kind)
IsV3(kind) == kind \in {"v3_rx", "v3_tx"}

\* The zero of the subscribing ioctl() is what a failed mmap() returns.
nc_ndp_queue_open_init_ext(kind) == Fn(
  <<Check("return"), Try(<<"exclusive">>), Get(<<"sub">>, "return"), GetOrLose(<<"buffer">>, "err_mmap"), Call(OpenVx(kind), "err_vx_open_queue"),
    Must(<<"control_ops">>)>>,
  <<Label("err_vx_open_queue"), Put(<<"buffer">>), Label("err_mmap")>>)
nc_ndp_queue_close(kind) == Fn(
  (IF IsV3(kind) THEN <<Call(nc_ndp_v3_close_queue, "ignore")>> ELSE <<>>) \o <<PutIf(<<"buffer">>)>>, <<>>)

\* A mutant: the data buffer stays open when the header buffer cannot be opened.
ndp_queue_calypte_open_buffers_kept(kind) == Fn(
  IF kind # "v3_tx" THEN <<>> ELSE
  <<Check("return"), Call(nfb_comp_open_ext("data"), "return"), Check("return"),
    Call(nfb_comp_open_ext("header"), "return"), Get(<<"tx_pkts">>, "err_alloc_tx_pkts")>>,
  <<Label("err_alloc_tx_pkts"), Call(nfb_comp_close("header"), "ignore"), Call(nfb_comp_close("data"), "ignore")>>)

\* Only a Calypte TX queue writes into the buffers of the card.
ndp_queue_calypte_open_buffers(kind) == Fn(
  IF kind # "v3_tx" THEN <<>> ELSE
  <<Check("return"), Call(nfb_comp_open_ext("data"), "return"), Check("err_hdr_buff_find_tx"),
    Call(nfb_comp_open_ext("header"), "err_hdr_buff_open_tx"), Get(<<"tx_pkts">>, "err_alloc_tx_pkts")>>,
  <<Label("err_alloc_tx_pkts"), Call(nfb_comp_close("header"), "ignore"),
    Label("err_hdr_buff_open_tx"), Label("err_hdr_buff_find_tx"), Call(nfb_comp_close("data"), "ignore")>>)
ndp_queue_calypte_close_buffers(kind) == Fn(
  IF kind # "v3_tx" THEN <<>> ELSE
  <<Call(nfb_comp_close("data"), "ignore"), Call(nfb_comp_close("header"), "ignore"), Put(<<"tx_pkts">>)>>, <<>>)

\* The operations and the flags of a queue are fields of its structures.
ndp_queue_destroy == Fn(<<PutIf(<<"burst_ops">>), PutIf(<<"control_ops">>), PutIf(<<"exclusive">>), Put(<<"q">>)>>, <<>>)
ndp_base_queue_open(kind) == Fn(
  <<Get(<<"q">>, "return"), Get(<<"q_nc">>, "err_nc_ndp_queue_alloc"),
    Call(nc_ndp_queue_open_init_ext(kind), "err_open"),
    Call(ndp_queue_calypte_open_buffers(kind), "err_calypt_open_buffers")>>,
  <<Label("err_calypt_open_buffers"), Label("err_open"), Put(<<"q_nc">>),
    Label("err_nc_ndp_queue_alloc"), Call(ndp_queue_destroy, "ignore")>>)
ndp_base_queue_close(kind) == Fn(
  <<Call(ndp_queue_calypte_close_buffers(kind), "ignore"), Call(nc_ndp_queue_close(kind), "ignore"),
    Put(<<"q_nc">>), Call(ndp_queue_destroy, "ignore")>>, <<>>)
\* nfb_queue_add() grows the list of queues, which lives as long as the device.
nfb_queue_add == Fn(<<IfElse({<<"queues">>}, <<Check("return")>>, <<Get(<<"queues">>, "return")>>)>>, <<>>)

\* An extension brings its own queues or none; the flag asks for an exclusive channel
\* driven from user space.
ndp_open_queue(kind) == Fn(
  <<If({<<"ext_priv">>}, <<Fail("return")>>), Call(ndp_base_queue_open(kind), "return"),
    Unless({<<"control_ops">>}, <<Fail("err_ops_invalid")>>), Unless({<<"burst_ops">>}, <<Fail("err_ops_invalid")>>),
    Call(nfb_queue_add, "err_nfb_queue_add")>>,
  <<Label("err_nfb_queue_add"), Label("err_ops_invalid"), Call(ndp_base_queue_close(kind), "ignore")>>)
ndp_close_queue(kind) == ndp_base_queue_close(kind)

\* A program that opens and closes one queue as often as it likes.
OpenQueue(kind) == Fn(
  <<Unless({<<"q">>}, <<Call(ndp_open_queue(kind), "return")>>)>>, <<>>)
CloseQueue(kind) == Fn(<<If({<<"q">>}, <<Call(ndp_close_queue(kind), "ignore")>>)>>, <<>>)
QueueProgramEnd(kind) == Fn(<<Call(CloseQueue(kind), "ignore"), Call(nfb_close, "ignore")>>, <<>>)

(***************************************************************************)
(* Firmware files: libnfb/src/boot                                         *)
(***************************************************************************)
nfb_fw_open_mcs == Fn(<<Check("return"), Get(<<"data">>, "return")>>, <<>>)
nfb_fw_open_bit_raw == Fn(
  <<Must(<<"data8">>), Opt(<<Put(<<"data8">>), Fail("return")>>), Put(<<"data8">>), Check("return"),
    Must(<<"data">>), Opt(<<Put(<<"data">>), Fail("return")>>)>>, <<>>)
nfb_fw_open_rpd_raw == Fn(<<Must(<<"data">>), Opt(<<Put(<<"data">>), Fail("return")>>)>>, <<>>)
nfb_fw_open_rbf == Fn(<<Get(<<"data">>, "return"), Opt(<<Put(<<"data">>), Fail("return")>>)>>, <<>>)
\* What is not an MCS file is read as a bitstream.
nfb_fw_open == Fn(
  <<Get(<<"file">>, "return"), CallOrLose(nfb_fw_open_mcs, "not_mcs"), Put(<<"file">>)>>,
  <<Label("not_mcs"), Call(nfb_fw_open_bit_raw, "close"), Label("close"), Put(<<"file">>)>>)
\* The board decides the format.
nfb_fw_read_for_dev == Fn(
  <<Alt(<<Call(nfb_fw_open_rpd_raw, "return")>>,
        <<Alt(<<Call(nfb_fw_open_rbf, "return")>>, <<CallOrLose(nfb_fw_open_mcs, "not_mcs")>>)>>)>>,
  <<Label("not_mcs"), Call(nfb_fw_open_bit_raw, "return")>>)
nfb_fw_close == Fn(<<Put(<<"data">>)>>, <<>>)
nfb_fw_load_fpga_image_load == Fn(
  <<Check("return"), Must(<<"efd">>), Check("err_ioctl_write"), Put(<<"efd">>)>>,
  <<Label("err_ioctl_write"), Put(<<"efd">>)>>)
nfb_fw_load_boot_load == Fn(<<Check("return"), Get(<<"fn">>, "return"), Put(<<"fn">>), Check("return")>>, <<>>)
OpenFirmware == Fn(<<Alt(<<Call(nfb_fw_open, "return")>>, <<Call(nfb_fw_read_for_dev, "return")>>)>>, <<>>)

\* nfb-boot -I: the device is closed, opened alone and closed again before it is
\* unbound from its driver, given the tree and probed with an overridden driver.
Reopen == <<Call(nfb_close, "ignore"), Call(nfb_open_ext, "err_dtb_write"), Call(nfb_close, "ignore")>>
inject_fdt == Fn(
  <<Get(<<"file">>, "return"), Alt(<<Must(<<"dtb">>)>>, <<Put(<<"file">>), Fail("return")>>), Put(<<"file">>),
    Check("err_dtb_write"), CallOrLose(nfb_open_ext, "by_slot")>> \o Reopen \o <<Lose("unbind")>>,
  <<Label("by_slot"), CallOrLose(nfb_open_ext, "unbind")>> \o Reopen \o
  <<Label("unbind"), Check("err_dtb_write"), Try(<<"unbound">>), Check("err_dtb_write"),
    Get(<<"inject">>, "err_dtb_write"), Put(<<"inject">>), Check("err_dtb_write"),
    Get(<<"override">>, "err_dtb_write"), Check("err_dtb_write"), PutIf(<<"unbound">>),
    Opt(<<Put(<<"override">>)>>), Lose("return"),
    Label("err_dtb_write"), Put(<<"dtb">>)>>)

(***************************************************************************)
(* The DPDK modes of ndp-tool: ndptool/dpdk                                *)
(***************************************************************************)
\* Two queues are asked for.  The marks: "multipool" for a pool per queue instead of
\* one per socket, <<"worker", 2>> and <<"socket", 2>> for a second core and a second
\* memory node, <<"there", i>> when queue i is served from the second node.
dpdk_get_dev_path == Fn(
  <<Call(nfb_open_ext, "return"), Call(nfb_close, "ignore"), Check("return")>>, <<>>)
dpdk_queue_data_init == Fn(<<Get(<<"queue_data">>, "return"), Check("return")>>, <<>>)
EalInit(parameters) ==
  <<Get(<<"argv">>, "pre_eal_fail"), Call(dpdk_get_dev_path, "pre_eal_fail")>> \o parameters \o
  <<Get(<<"eal">>, "pre_eal_fail"), Check("eal_fail"),
    Opt(<<Mark(<<"multipool">>)>>), Opt(<<Mark(<<"worker", 2>>)>>), Opt(<<Mark(<<"socket", 2>>)>>),
    Call(dpdk_queue_data_init, "eal_fail")>>
\* The pools of the sockets; the array that holds them is cleared first.
SocketPools ==
  <<Unless({<<"multipool">>},
      <<Mark(<<"pool_set">>), Get(<<"pool", 1>>, "setup_fail"),
        If({<<"socket", 2>>}, <<Get(<<"pool", 2>>, "setup_fail")>>), Check("setup_fail")>>)>>
\* A queue gets the pool of its socket or one of its own while there are cores.
QueuePool(i) ==
  <<If({<<"socket", 2>>}, <<Opt(<<Mark(<<"there", i>>)>>)>>),
    If({<<"multipool">>}, IF i = 1 THEN <<Get(<<"qpool", 1>>, "setup_fail")>>
                          ELSE <<If({<<"worker", 2>>}, <<Get(<<"qpool", 2>>, "setup_fail")>>)>>)>>
SetupQueues(rx) ==
  <<Check("setup_fail")>> \o
  ForEach(LAMBDA i : IF rx THEN QueuePool(i) \o <<Mark(<<"queue", i>>), Check("setup_fail")>>
                  ELSE <<Check("setup_fail")>> \o QueuePool(i)) \o
  <<Get(<<"port">>, "setup_fail"), Check("setup_fail"), Put(<<"argv">>), Put(<<"args">>)>>

\* The pool of queue 2 without a core: the dummy pool when receiving, none when sending.
FreeSpare(rx) == IF rx THEN <<If({<<"queue", 2>>}, <<Put(<<"dummy">>)>>)>> ELSE <<>>
FreeQueuePools(rx) ==
  <<If({<<"qpool", 1>>}, <<Put(<<"qpool", 1>>), IfElse({<<"qpool", 2>>}, <<Put(<<"qpool", 2>>)>>,
      <<Unless({<<"worker", 2>>}, FreeSpare(rx))>>)>>)>>
\* An array of pools that was not cleared holds anything.
SetupFail(rx) ==
  <<Label("setup_fail"),
    IfElse({<<"multipool">>}, FreeQueuePools(rx),
           <<IfElse({<<"pool_set">>}, <<PutIf(<<"pool", 1>>), PutIf(<<"pool", 2>>)>>, <<Opt(<<Put(<<"garbage">>)>>)>>)>>)>>
EalFail == <<Label("eal_fail"), Put(<<"eal">>), Label("pre_eal_fail"), PutIf(<<"argv">>), Put(<<"args">>)>>

\* queue_data_arr is freed only when it is NULL.  A socket's pool is freed through the
\* first queue of the socket.
FreeSocketPools(rx) ==
  LET Second(s) == IfElse({<<"worker", 2>>}, <<Put(<<"pool", s>>)>>, FreeSpare(rx)) IN
  <<IfElse({<<"there", 1>>}, <<Unless({<<"there", 2>>}, <<Second(1)>>)>>, <<Put(<<"pool", 1>>)>>),
    If({<<"socket", 2>>}, <<IfElse({<<"there", 1>>}, <<Put(<<"pool", 2>>)>>, <<If({<<"there", 2>>}, <<Second(2)>>)>>)>>)>>
DpdkDestroy(rx, last) ==
  Fn(<<Put(<<"port">>), IfElse({<<"multipool">>}, FreeQueuePools(rx), FreeSocketPools(rx))>> \o last \o <<Put(<<"eal">>)>>, <<>>)

DummyPool == <<Get(<<"dummy">>, "setup_fail")>>
\* wordexp() of the arguments is dpdk_*_init().
Args == <<Must(<<"args">>)>>
dpdk_read_check == Fn(
  Args \o EalInit(<<>>) \o DummyPool \o SocketPools \o SetupQueues(TRUE) \o <<Put(<<"dummy">>)>>, SetupFail(TRUE) \o EalFail)
dpdk_receive_check == Fn(
  Args \o EalInit(<<Check("pre_eal_fail")>>) \o DummyPool \o SocketPools \o SetupQueues(TRUE) \o <<Put(<<"dummy">>)>>,
  SetupFail(TRUE) \o EalFail)
dpdk_loopback_check == Fn(
  Args \o EalInit(<<>>) \o DummyPool \o SocketPools \o SetupQueues(TRUE) \o <<Put(<<"dummy">>)>>,
  SetupFail(TRUE) \o <<If({<<"dummy">>, <<"queue", 2>>}, <<Put(<<"dummy">>)>>)>> \o EalFail)
dpdk_transmit_check == Fn(Args \o EalInit(<<Check("pre_eal_fail")>>) \o SocketPools \o SetupQueues(FALSE), SetupFail(FALSE) \o EalFail)
\* The list of packet sizes outlives a failed check.
dpdk_generate_check == Fn(
  Args \o <<Try(<<"range">>)>> \o EalInit(<<Unless({<<"range">>}, <<Fail("pre_eal_fail")>>)>>) \o SocketPools \o SetupQueues(FALSE), SetupFail(FALSE) \o EalFail)
dpdk_read_destroy == DpdkDestroy(TRUE, <<>>)
dpdk_receive_destroy == DpdkDestroy(TRUE, <<>>)
dpdk_loopback_destroy == DpdkDestroy(TRUE, <<>>)
dpdk_transmit_destroy == DpdkDestroy(FALSE, <<>>)
dpdk_generate_destroy == DpdkDestroy(FALSE, <<Put(<<"range">>)>>)

(***************************************************************************)
(* The packets of a PCAP file: ndptool/transmit.c                          *)
(***************************************************************************)
\* A capacity of one packet.  After a failed realloc() the item that is freed first was
\* never stored, or is looked up in an array that is gone.
pcap_cache_create == Fn(
  <<Try(<<"packets">>), Try(<<"sizes">>),
    Unless({<<"packets">>}, <<Fail("err_init_malloc")>>), Unless({<<"sizes">>}, <<Fail("err_init_malloc")>>),
    Check("err_packet_malloc"),
    Opt(<<Get(<<"packet", 1>>, "err_packet_malloc"), Check("err_packet_read"),
          Opt(<<Put(<<"packets">>), Fail("err_resize_malloc")>>), Opt(<<Put(<<"sizes">>), Fail("err_resize_malloc")>>),
          Check("err_ferror")>>)>>,
  <<Label("err_resize_malloc"), Put(<<"garbage">>),
    Label("err_packet_read"), Label("err_ferror"), PutIf(<<"packet", 1>>),
    Label("err_packet_malloc"), Label("err_init_malloc"), PutIf(<<"sizes">>), PutIf(<<"packets">>)>>)
\* Only the packets sent in the current round are freed.
pcap_cache_destroy == Fn(
  <<Opt(<<PutIf(<<"packet", 1>>)>>), Put(<<"sizes">>), Put(<<"packets">>)>>, <<>>)
pcap_src_open == Fn(
  <<Get(<<"file">>, "return"), Opt(<<Mark(<<"is_cached">>), Call(pcap_cache_create, "return")>>)>>, <<>>)
pcap_src_close == Fn(<<Put(<<"file">>), If({<<"is_cached">>}, <<Call(pcap_cache_destroy, "ignore")>>)>>, <<>>)
=============================================================================
