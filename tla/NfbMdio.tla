------------------------------ MODULE NfbMdio ------------------------------
(***************************************************************************)
(* mdio.h: the registers of an Ethernet PCS/PMA.  Most are behind the one  *)
(* reconfiguration port of mdio_dmap.h.  On Intel's E-Tile the port is     *)
(* guarded by the component features PCS_IFC and ATTR_IFC, on the F-Tile   *)
(* by nothing.  Accesses as in NfbAccess; a bounded poll is a loop that    *)
(* may end after any round.                                                *)
(***************************************************************************)
EXTENDS NfbAccess, Integers
LOCAL INSTANCE SequencesExt

CONSTANT PmaLanes    \* mdio->pma_lanes

Rd(page, addr) == nc_mdio_dmap_drp_read(page, addr)
Wr(page, addr) == nc_mdio_dmap_drp_write(page, addr)
Writes(page, addrs) == Each(Len(addrs), LAMBDA i : Wr(page, addrs[i]))
Mgmt == Do("read", "mgmt")
Lanes(Body(_)) == Each(PmaLanes, Body)
FecPage == 9

-----------------------------------------------------------------------------
(* The register tables; 0 when the register is not in the table.           *)

ftile_fec_map(devad, addr) ==
    LET Lane(n, low) == \h200 * (n \div 2) + low + 2 * (n % 2)
        Codewords(n) == \h184 + 2 * (n % 2) + 8 * (n \div 2)
    IN  IF devad = 1 /\ addr \in 202..205 THEN Codewords(addr - 202)
        ELSE IF devad = 1 /\ addr \in 210..217 THEN Lane(addr - 210, \h194)
        ELSE IF devad = 3 /\ addr \in 802..805 THEN Codewords(addr - 802)
        ELSE IF devad = 3 /\ addr \in 600..631 THEN Lane(addr - 600, \h194)
        ELSE IF devad = 3 /\ addr \in 400..415 THEN \h200 * (addr - 400) + \h16c
        ELSE 0

ftile_pcs_map(devad, addr) ==
    IF devad = 3 /\ addr \in 200..219 THEN \ha4 + 4 * (addr - 200) ELSE 0

etile_pcs_map(devad, addr) ==
    IF devad = 3 /\ addr \in 200..219 THEN \h361 + (addr - 200) ELSE 0

\* One of four registers holds the mapping of six lanes each.
LaneReg(first, step, lane) == first + step * (IF lane =< 17 THEN lane \div 6 ELSE 3)

-----------------------------------------------------------------------------
(* F-Tile                                                                  *)

ftile_rsfec_addr(lane, reg) == <<"fec", lane, reg>>
ftile_pcs_addr(reg) == <<"pcs", reg>>
Ehip(reg) == <<"ehip", reg>>
Fgt(reg) == <<"fgt", reg>>
FecLanes == 2      \* of the at most four that are read

nc_mdio_ftile_config == Rd(0, Ehip(\h40))
nc_mdio_ftile_reset == Wr(0, Ehip(\h42)) \o Loop(Rd(0, Ehip(\h43)))

nc_mdio_ftile_fgt_attribute_write(lane) ==
    LET Request == Wr(lane, Fgt(\h2400f)) \o Loop(Rd(lane, Fgt(\h24010)))
    IN  Rd(lane, Fgt(\h3ffff)) \o Loop(Rd(lane, Fgt(\h24011))) \o Request \o Request

\* Nothing to do for NRZ encodings.
nc_mdio_fixup_ftile_set_mode(nrz) ==
    IF nrz THEN <<>>
    ELSE Lanes(nc_mdio_ftile_fgt_attribute_write) \o nc_mdio_ftile_reset \o nc_mdio_ftile_reset

nc_mdio_fixup_ftile_set_loopback ==
    nc_mdio_ftile_reset \o Lanes(nc_mdio_ftile_fgt_attribute_write) \o nc_mdio_ftile_reset

_ftile_rsfec_snapshot == Wr(0, ftile_rsfec_addr(0, \h1e0)) \o Wr(0, ftile_rsfec_addr(0, \h1e0))
_ftile_pcs_snapshot == Wr(0, ftile_pcs_addr(0)) \o Wr(0, ftile_pcs_addr(0))
_get_ftile_rsfec_reg(reg) == Rd(0, ftile_rsfec_addr(0, 4 * (reg \div 4)))
_get_ftile_pcs_reg(reg) == Rd(0, ftile_pcs_addr(reg))

\* The latched flags are cleared after they have been read.
_get_ftile_r1201 ==
    LET Fec(i, reg) == ftile_rsfec_addr(i, reg) IN
      Rd(0, Fec(0, \h158)) \o Rd(0, Fec(0, \h164))
        \o Each(FecLanes - 1, LAMBDA i : Rd(0, Fec(i, \h158))) \o Rd(0, Ehip(\h46))
        \o Wr(0, Fec(0, \h164)) \o Each(FecLanes, LAMBDA i : Wr(0, Fec(i - 1, \h158)))
_get_ftile_r1206 == Each(FecLanes, LAMBDA i : Rd(0, ftile_rsfec_addr(i - 1, \h16c)))
_get_ftile_r3801 == Rd(0, ftile_rsfec_addr(0, \h158)) \o Wr(0, ftile_rsfec_addr(0, \h158))
_get_ftile_r3044 == Rd(0, ftile_pcs_addr(\h90))
_get_ftile_r3045 == Rd(0, ftile_pcs_addr(\hf4))
_get_ftile_r3033 == Mgmt \o Rd(0, ftile_pcs_addr(\hf4)) \o Rd(0, ftile_pcs_addr(\h90))
_get_ftile_r3400(lane) == Rd(0, ftile_pcs_addr(LaneReg(\h94, 4, lane)))

nc_mdio_fixup_ftile_rsfec_read(devad, addr) ==
    LET fec == ftile_fec_map(devad, addr) IN
      IF fec # 0 THEN _ftile_rsfec_snapshot \o _get_ftile_rsfec_reg(fec)
      ELSE CASE devad = 1 /\ addr = 201 -> _get_ftile_r1201
             [] devad = 1 /\ addr = 206 -> _get_ftile_r1206
             [] devad = 3 /\ addr = 801 -> _get_ftile_r3801
             [] OTHER -> Mgmt

nc_mdio_fixup_ftile_pcs_read(devad, addr) ==
    LET pcs == ftile_pcs_map(devad, addr)
        fec == ftile_fec_map(devad, addr)
    IN  IF pcs # 0 THEN _ftile_pcs_snapshot \o _get_ftile_pcs_reg(pcs)
        ELSE IF addr < 400 /\ fec # 0 THEN _ftile_rsfec_snapshot \o _get_ftile_rsfec_reg(fec)
        ELSE CASE devad = 1 /\ addr = 201 -> _get_ftile_r1201
               [] devad = 1 /\ addr = 206 -> _get_ftile_r1206
               [] devad = 3 /\ addr = 33 -> _get_ftile_r3033
               [] devad = 3 /\ addr = 44 -> _get_ftile_r3044
               [] devad = 3 /\ addr = 45 -> _get_ftile_r3045
               [] devad = 3 /\ addr \in 400..419 -> _get_ftile_r3400(addr - 400)
               [] OTHER -> Mgmt

-----------------------------------------------------------------------------
(* E-Tile.  Page 0 holds the Ethernet registers, page lane + 1 those of a  *)
(* PMA lane, FecPage those of the RS-FEC, four bytes for a word.           *)

nc_mdio_etile_rsfec_read(reg) == Each(4, LAMBDA i : Rd(FecPage, reg + i - 1))
nc_mdio_etile_rsfec_write(reg) == Each(4, LAMBDA i : Wr(FecPage, reg + i - 1))

nc_mdio_etile_config == Mgmt \o Rd(FecPage, \h14)

_etile_pcs_snapshot == Writes(0, <<\h945, \h845, \h945, \h845>>)
_etile_rsfec_snapshot == Writes(FecPage, <<\h108, \h108>>)
_etile_rsfec_clear_stats == Writes(FecPage, <<\h108, \h108>>)

_get_etile_r3033 == Mgmt \o Rd(0, \h37c) \o Rd(0, \h32a)
_get_etile_r3044 == Rd(0, \h32a)
_get_etile_r3045 == Rd(0, \h37c)
_get_etile_r3400(lane) == Rd(0, LaneReg(\h330, 1, lane))
_get_etile_r1200 == Rd(FecPage, \h40) \o Rd(FecPage, \h30)
_get_etile_r1201 ==
    LET regs == <<\h150, \h154, \h158, \h15c, \h180, \h104>>
    IN  Each(6, LAMBDA i : Rd(FecPage, regs[i]))
_get_etile_r1206 == Each(4, LAMBDA i : Rd(FecPage, \h1a0 + 4 * (i - 1)))
_get_etile_stats(reg, lane) ==
    _etile_rsfec_snapshot \o nc_mdio_etile_rsfec_read(reg + lane * 8)
      \o nc_mdio_etile_rsfec_read(reg + lane * 8 + 4)

\* rsfec: mdio->rsfec_supported.
nc_mdio_fixup_etile_pcs_read(rsfec, devad, addr) ==
    LET pcs == etile_pcs_map(devad, addr) IN
      IF pcs # 0 THEN _etile_pcs_snapshot \o Rd(0, pcs)
      ELSE CASE devad = 1 /\ rsfec /\ addr = 200 -> _get_etile_r1200
             [] devad = 1 /\ rsfec /\ addr = 201 -> _get_etile_r1201
             [] devad = 1 /\ rsfec /\ addr \in 202..203 -> _get_etile_stats(\h200, 0)
             [] devad = 1 /\ rsfec /\ addr \in 204..205 -> _get_etile_stats(\h220, 0)
             [] devad = 1 /\ rsfec /\ addr = 206 -> _get_etile_r1206
             [] devad = 1 /\ rsfec /\ addr \in 210..217 -> _get_etile_stats(\h240, (addr - 210) \div 2)
             [] devad = 3 /\ addr = 33 -> _get_etile_r3033
             [] devad = 3 /\ addr = 44 -> _get_etile_r3044
             [] devad = 3 /\ addr = 45 -> _get_etile_r3045
             [] devad = 3 /\ addr \in 400..419 -> _get_etile_r3400(addr - 400)
             [] OTHER -> Mgmt

\* The request is repeated until it is seen as sent, its end polled for.
nc_mdio_etile_pma_attribute_write(lane) ==
    Wr(lane, \h8a)
      \o Loop(Writes(lane, <<\h84, \h85, \h86, \h87, \h90>>) \o Rd(lane, \h8a))
      \o Loop(Rd(lane, \h8b)) \o Wr(lane, \h8a)
nc_mdio_etile_pma_attribute_read(lane) == Rd(lane, \h88) \o Rd(lane, \h89)
Attribute(lane, n) == Each(n, LAMBDA i : nc_mdio_etile_pma_attribute_write(lane))

_drp_wait_until(reg) == Loop(Rd(0, reg))
nc_mdio_etile_reset ==
    Wr(0, \h310) \o _drp_wait_until(\h32c) \o Wr(0, \h310) \o _drp_wait_until(\h32c)

LaneSetup == Lanes(LAMBDA l : Writes(l, <<\h04, \h05, \h06, \h07, \ha4, \ha8, \hb0, \he8>>))
EthSetup == Writes(0, <<\h37a, \h40b>>) \o Rd(0, \h30e) \o Writes(0, <<\h30e, \h313>>)
nc_mdio_etile_rsfec_off ==
    nc_mdio_etile_rsfec_write(\h14) \o nc_mdio_etile_rsfec_write(\h04)
      \o LaneSetup \o EthSetup \o nc_mdio_etile_reset
nc_mdio_etile_rsfec_on ==
    LET regs == <<\h04, \h10, \h14, \h30, \h40, \h44, \h48, \h4c>>
    IN  LaneSetup \o EthSetup \o Each(8, LAMBDA i : nc_mdio_etile_rsfec_write(regs[i]))
          \o _etile_rsfec_clear_stats \o nc_mdio_etile_reset

\* LR4 and ER4 turn the FEC off, SR4 and CR4 on.
nc_mdio_fixup_etile_set_mode(mode) ==
    (CASE mode = "LR4" -> nc_mdio_etile_rsfec_off
       [] mode = "SR4" -> nc_mdio_etile_rsfec_on
       [] OTHER -> <<>>) \o Do("write", "mgmt")

nc_mdio_etile_adapt_start(lane) == Attribute(lane, 3)
nc_mdio_etile_adapt_wait(lane) ==
    Loop(Attribute(lane, 1) \o nc_mdio_etile_pma_attribute_read(lane))
nc_mdio_etile_eq_reset == Lanes(LAMBDA l : Attribute(l, 7))
nc_mdio_etile_loopback_enable ==
    Lanes(LAMBDA l : Attribute(l, 1) \o nc_mdio_etile_adapt_start(l))
      \o Lanes(nc_mdio_etile_adapt_wait)
nc_mdio_etile_mission_mode ==
    Lanes(LAMBDA l : Attribute(l, 1) \o nc_mdio_etile_adapt_start(l))
      \o Lanes(LAMBDA l : nc_mdio_etile_adapt_wait(l) \o nc_mdio_etile_adapt_start(l))
      \o Lanes(nc_mdio_etile_adapt_wait)
nc_mdio_etile_eth_sysrst ==
    Lanes(LAMBDA l : Attribute(l, 3)) \o Wr(0, \h310)
      \o _drp_wait_until(\h32c) \o _drp_wait_until(\h32c)

\* ATTR_IFC is taken and PCS_IFC given back.
nc_mdio_fixup_etile_set_loopback(enable, mode) ==
    LET Init == Wr(0, \h310) \o _drp_wait_until(\h32c) \o nc_mdio_etile_eq_reset
                  \o Writes(0, <<\h310, \h310>>) \o _drp_wait_until(\h32c)
                  \o _drp_wait_until(\h32c) \o Wr(0, \h310) \o _drp_wait_until(\h32c)
                  \o _drp_wait_until(\h322) \o nc_mdio_etile_loopback_enable
        Mission == IF enable THEN <<>> ELSE nc_mdio_etile_mission_mode
        Apply == Wr(0, \h310) \o _drp_wait_until(\h32c) \o Mgmt
                  \o nc_mdio_fixup_etile_set_mode(mode)
        Link == IF enable THEN _drp_wait_until(\h329) ELSE <<>>
        Retry == IF enable
                 THEN Do("skip", Len(nc_mdio_etile_eth_sysrst) + 1) \o nc_mdio_etile_eth_sysrst
                 ELSE <<>>
        body == Init \o Mission \o Apply \o Link \o Retry
    IN  Do("lock", {"ATTR_IFC"}) \o body
          \o (IF enable THEN Do("back", Len(body)) ELSE <<>>)
          \o Do("unlock", {"PCS_IFC"})

-----------------------------------------------------------------------------
(* The two entry points; port: the component, and the tile behind it.      *)

NeedsFixup(addr) == addr >= 200 \/ addr \in {33, 44, 45}

nc_mdio_read(port, devad, addr) ==
    CASE port = "ctrl" -> nc_mdio_ctrl_read(<<devad, addr>>)
      [] port = "f_tile" /\ NeedsFixup(addr) -> nc_mdio_fixup_ftile_pcs_read(devad, addr)
      [] port = "f_tile_400G" /\ NeedsFixup(addr) -> nc_mdio_fixup_ftile_rsfec_read(devad, addr)
      [] port = "e_tile" /\ NeedsFixup(addr) ->
           Locked({"PCS_IFC", "ATTR_IFC"}, nc_mdio_fixup_etile_pcs_read(TRUE, devad, addr))
      [] OTHER -> Mgmt

nc_mdio_init(port) ==
    CASE port = "e_tile" -> nc_mdio_etile_config
      [] port \in {"f_tile", "f_tile_400G"} -> nc_mdio_ftile_config
      [] OTHER -> <<>>

\* Register 1.0 changes the loopback, when that is a change, and 1.7 the mode
\* (mode: what 1.7 holds).  The F-Tile of up to 100G is taken to be NRZ.
nc_mdio_write(port, devad, addr, val, mode) ==
    (CASE port = "ctrl" -> <<>>
       [] port = "e_tile" /\ devad = 1 /\ addr = 0 ->
            Mgmt \o nc_mdio_fixup_etile_set_loopback(val = 1, mode)
       [] port = "e_tile" /\ devad = 1 /\ addr = 7 -> nc_mdio_fixup_etile_set_mode(val)
       [] port \in {"f_tile", "f_tile_400G"} /\ devad = 1 /\ addr = 0 ->
            Mgmt \o nc_mdio_fixup_ftile_set_loopback
       [] port \in {"f_tile", "f_tile_400G"} /\ devad = 1 /\ addr = 7 ->
            nc_mdio_fixup_ftile_set_mode(port = "f_tile")
       [] OTHER -> <<>>)
      \o (IF port = "ctrl" THEN nc_mdio_ctrl_write(<<devad, addr>>) ELSE Do("write", "mgmt"))
=============================================================================
