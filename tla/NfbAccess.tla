----------------------------- MODULE NfbAccess -----------------------------
(***************************************************************************)
(* How the netcope headers use a component: every operation as the         *)
(* sequence of register accesses it makes.  Only what other clients of the *)
(* component can disturb is kept: the component lock, and the registers    *)
(* that one access sets and a later one relies on.  Values are abstracted  *)
(* to who set a register, and for what (the "at" of an access).            *)
(*                                                                         *)
(*   lock, unlock   nfb_comp_lock (at the features) and nfb_comp_unlock    *)
(*   sel, put       an address and a data register are written             *)
(*   use            an access that relies on the named registers           *)
(*   ask            a read is started                                      *)
(*   wait, await    its end is waited for, with a bound and without one    *)
(*   until          waited for until the result is the caller's            *)
(*   strobe, clear  a snapshot of all result registers; a reset            *)
(*   again, skip    the ends of a loop and of a branch: back, or forward,  *)
(*                  by "at" accesses or not; back, jump: always            *)
(*   save .. fill   the enable register and address table of an RX MAC     *)
(***************************************************************************)
EXTENDS Naturals, Sequences
LOCAL INSTANCE SequencesExt

CONSTANTS
    Slots,     \* mac_addr_count
    KeyLen,    \* bytes of an RSS key
    Bytes      \* bytes of an I2C transfer

ASSUME AccessConstants == Slots \in Nat \ {0} /\ KeyLen \in Nat /\ Bytes \in Nat \ {0}

Do(do, at) == <<[do |-> do, at |-> at, on |-> {}]>>
Rely(do, at, on) == <<[do |-> do, at |-> at, on |-> on]>>
Loop(body) == body \o Do("again", Len(body))
Either(a, b) == Do("skip", Len(a) + 1) \o a \o Do("jump", Len(b)) \o b
Each(n, Body(_)) == FlattenSeq([i \in 1..n |-> Body(i)])
Locked(features, body) == Do("lock", features) \o body \o Do("unlock", features)

-----------------------------------------------------------------------------
(* rxmac.h                                                                 *)

nc_rxmac_enable == Do("enable", TRUE)
nc_rxmac_disable == Do("enable", FALSE)

nc_rxmac_read_status == Locked({"mac"}, Do("peek", "enabled"))

\* Mutant: the counters are read without the lock.
nc_rxmac_read_counters_unlocked ==
    Do("strobe", "cnt") \o Each(4, LAMBDA i : Rely("use", "cnt", {"res"}))

\* The blocks of the MAC's counters and of its Ethernet statistics, all of
\* the one snapshot.
nc_rxmac_read_counters ==
    Locked({"mac"}, Do("strobe", "cnt") \o Each(4, LAMBDA i : Rely("use", "cnt", {"res"})))

nc_rxmac_reset_counters == Do("clear", "cnt")

\* The table is changed, and read, with the MAC disabled.
Quiet(body) == Do("save", "enabled") \o Do("off", "enabled") \o body \o Do("on", "enabled")

\* index < 0: the first slot that is not valid, -ENOMEM when there is none.
_nc_rxmac_set_mac == Each(Slots, LAMBDA i : Do("probe", i)) \o Do("store", "addr")

nc_rxmac_set_mac == Locked({"mac"}, Quiet(_nc_rxmac_set_mac))
nc_rxmac_get_mac_list == Locked({"mac"}, Quiet(Each(Slots, LAMBDA i : Do("fetch", i))))
nc_rxmac_set_mac_list == Locked({"mac"}, Quiet(Each(Slots, LAMBDA i : Do("fill", i))))

-----------------------------------------------------------------------------
(* txmac.h, rxqueue.h and txqueue.h: counters behind a strobe, of the      *)
(* queues without a lock.                                                  *)

nc_txmac_enable == Do("enable", TRUE)
nc_txmac_disable == Do("enable", FALSE)
nc_txmac_read_status == Locked({"mac"}, Do("strobe", "stat") \o Do("peek", "enabled"))
nc_txmac_read_counters ==
    Locked({"mac"}, Do("strobe", "cnt") \o Each(2, LAMBDA i : Rely("use", "cnt", {"res"})))
nc_txmac_reset_counters == Do("clear", "cnt")

_nc_rxqueue_read_counters(type) ==
    IF type = "SZE" THEN Each(2, LAMBDA i : Do("read", i))
    ELSE Do("strobe", "cnt") \o Each(4, LAMBDA i : Rely("use", "cnt", {"res"}))
nc_rxqueue_reset_counters(type) == Do(IF type = "SZE" THEN "strobe" ELSE "clear", "cnt")

_nc_txqueue_read_counters(type) ==
    IF type = "SZE" THEN Do("read", 1)
    ELSE Do("strobe", "cnt")
           \o Each(IF type = "NDP" THEN 2 ELSE 4, LAMBDA i : Rely("use", "cnt", {"res"}))
nc_txqueue_reset_counters(type) == Do(IF type = "SZE" THEN "strobe" ELSE "clear", "cnt")

-----------------------------------------------------------------------------
(* tsu.h: the time and the increment go through the same three words; the  *)
(* lock is the caller's to take.  nfb-tsu does, for as long as it runs;    *)
(* the PTP clock of the network driver does not.                           *)

Words(at) == Each(3, LAMBDA i : Rely("use", at, {"res"}))

nc_tsu_get_rtr == Do("strobe", "rtr") \o Words("rtr")
nc_tsu_get_pps == Do("strobe", "pps") \o Words("pps")
nc_tsu_get_inc == Do("strobe", "inc") \o Each(2, LAMBDA i : Rely("use", "inc", {"res"}))
nc_tsu_set_rtr == Each(3, LAMBDA i : Do("put", "rtr")) \o Rely("use", "rtr", {"dat"})
nc_tsu_set_inc == Each(3, LAMBDA i : Do("put", "inc")) \o Rely("use", "inc", {"dat"})

nfb_tsu_adjfine == nc_tsu_get_inc \o nc_tsu_set_inc
nfb_tsu_adjtime == nc_tsu_get_rtr \o nc_tsu_set_rtr
nfb_tsu_gettimex64 == Do("strobe", "rtr") \o Words("rtr")
nfb_tsu_settime64 == nc_tsu_set_rtr

\* nfb-tsu: the increment and the time are set, then corrected; the time is
\* set again when it has diverged.  tsu_deinit runs at every exit.
tsu_init == nc_tsu_set_inc \o nc_tsu_set_rtr \o Do("enable", TRUE)
get_tsu_sys_timespecx_with_mindiff == nc_tsu_get_rtr \o nc_tsu_get_rtr
engine_system ==
    Loop(get_tsu_sys_timespecx_with_mindiff \o Either(nc_tsu_set_rtr, Either(nc_tsu_set_inc, <<>>)))
tsu_deinit == Do("enable", FALSE) \o Do("unlock", {"modify"})
nfb_tsu ==
    LET run == tsu_init \o engine_system
    IN  <<[do |-> "trylock", at |-> {"modify"}, on |-> Len(run)]>> \o run \o tsu_deinit

-----------------------------------------------------------------------------
(* mdio_ctrl.h, mdio_dmap.h, i2c_controller.h, nic_rss.h, adc_sensors.h    *)

nc_mdio_ctrl_read(at) ==
    Locked({"mdio"}, Do("sel", at) \o Rely("ask", at, {"sel"}) \o Do("await", at)
                       \o Rely("use", at, {"res"}))
nc_mdio_ctrl_write(at) ==
    Locked({"mdio"}, Do("sel", at) \o Rely("use", at, {"sel"}))

\* The dynamic reconfiguration port; a write is not waited for.
nc_mdio_dmap_drp_read(page, addr) ==
    LET at == <<page, addr>> IN
      Do("sel", at) \o Rely("ask", at, {"sel"}) \o Do("wait", at) \o Rely("use", at, {"res"})
nc_mdio_dmap_drp_write(page, addr) ==
    LET at == <<page, addr>> IN
      Do("sel", at) \o Do("put", at) \o Rely("use", at, {"sel", "dat"})

\* The controller is switched on (put) and a transfer begun (sel).
nc_i2c_controller_read_reg(chip) ==
    Locked({"i2c"},
      Do("put", chip) \o Do("sel", chip) \o Rely("use", chip, {"sel", "dat"})
        \o Do("sel", chip) \o Each(Bytes, LAMBDA i : Rely("use", chip, {"sel", "dat"}))
        \o Do("put", "off"))
nc_i2c_controller_write_reg(chip) ==
    Locked({"i2c"},
      Do("put", chip) \o Do("sel", chip)
        \o Each(Bytes + 1, LAMBDA i : Rely("use", chip, {"sel", "dat"}))
        \o Do("put", "off"))

Indexed(at) == Do("sel", at) \o Rely("use", at, {"sel"})
nc_nic_rss_write_key(ch) ==
    Locked({"rss"}, Each(KeyLen, LAMBDA i : Indexed(<<ch, i>>)) \o Do("write", "key"))
nc_nic_rss_read_key(ch) == Locked({"rss"}, Each(KeyLen, LAMBDA i : Indexed(<<ch, i>>)))
nc_nic_rss_set_input(ch) == Locked({"rss"}, Indexed(<<ch, 0>>))
nc_nic_rss_get_input(ch) == Locked({"rss"}, Indexed(<<ch, 0>>))
nc_nic_rss_set_reta(ch, hash) == Locked({"rss"}, Indexed(<<ch, hash>>))
nc_nic_rss_get_reta(ch, hash) == Locked({"rss"}, Indexed(<<ch, hash>>))

_nc_get_adc_value_stratix(channel) ==
    Do("sel", channel) \o Rely("ask", channel, {"sel"}) \o Do("until", channel)
      \o Rely("use", channel, {"res"})
=============================================================================
