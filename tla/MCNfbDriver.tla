---------------------------- MODULE MCNfbDriver ----------------------------
(* One instance of each component that is checked on its own.  unit, which *)
(* never changes, says which one a behaviour is about; the others stay in  *)
(* an initial state.                                                       *)
EXTENDS MCNfbPci, MCXdpTx, MCXdpChannel, MCXdpRx, MCNfbMailbox, MCNfbBoot, MCNdpTool,
        MCNfbComp, MCNfbNet, MCNfbOpen

VARIABLE unit

Idle(u, world, worlds) == unit # u => world = CHOOSE w \in worlds : TRUE

DriverInit ==
    /\ unit \in {"pci", "xdp_tx", "xdp_channel", "xdp_rx", "mailbox", "boot",
              "tool", "comp", "net", "ladder"}
    /\ PciInit /\ Idle("pci", pci_world, PciWorlds)
    /\ XdpInit /\ Idle("xdp_tx", xframe, XdpWorlds)
    /\ ChannelInit
    /\ XdpRxInit
    /\ MbInit /\ Idle("mailbox", mb_world, MbWorlds)
    /\ BootInit /\ Idle("boot", bt_world, BootWorlds)
    /\ ToolInit /\ Idle("tool", tool_world, ToolWorlds)
    /\ CompInit /\ Idle("comp", comp_world, CompWorlds)
    /\ NetInit /\ Idle("net", net_world, NetWorlds)
    /\ LadderInit /\ Idle("ladder", ladder, DOMAIN Ladders)

DriverNext ==
    \/ /\ unit = "pci" /\ PciNext
       /\ UNCHANGED <<unit, xdpVars, chVars, xrxVars, mbVars, bootVars, toolVars, compVars, netVars, ladderVars>>
    \/ /\ unit = "xdp_tx" /\ XdpNext
       /\ UNCHANGED <<unit, pciVars, chVars, xrxVars, mbVars, bootVars, toolVars, compVars, netVars, ladderVars>>
    \/ /\ unit = "xdp_channel" /\ ChannelNext
       /\ UNCHANGED <<unit, pciVars, xdpVars, xrxVars, mbVars, bootVars, toolVars, compVars, netVars, ladderVars>>
    \/ /\ unit = "xdp_rx" /\ XdpRxNext
       /\ UNCHANGED <<unit, pciVars, xdpVars, chVars, mbVars, bootVars, toolVars, compVars, netVars, ladderVars>>
    \/ /\ unit = "mailbox" /\ MbNext
       /\ UNCHANGED <<unit, pciVars, xdpVars, chVars, xrxVars, bootVars, toolVars, compVars, netVars, ladderVars>>
    \/ /\ unit = "boot" /\ BootNext
       /\ UNCHANGED <<unit, pciVars, xdpVars, chVars, xrxVars, mbVars, toolVars, compVars, netVars, ladderVars>>
    \/ /\ unit = "tool" /\ ToolNext
       /\ UNCHANGED <<unit, pciVars, xdpVars, chVars, xrxVars, mbVars, bootVars, compVars, netVars, ladderVars>>
    \/ /\ unit = "comp" /\ CompNext
       /\ UNCHANGED <<unit, pciVars, xdpVars, chVars, xrxVars, mbVars, bootVars, toolVars, netVars, ladderVars>>
    \/ /\ unit = "net" /\ NetNext
       /\ UNCHANGED <<unit, pciVars, xdpVars, chVars, xrxVars, mbVars, bootVars, toolVars, compVars, ladderVars>>
    \/ /\ unit = "ladder" /\ LadderNext
       /\ UNCHANGED <<unit, pciVars, xdpVars, chVars, xrxVars, mbVars, bootVars, toolVars, compVars, netVars>>

driverVars == <<unit, pciVars, xdpVars, chVars, xrxVars, mbVars, bootVars, toolVars, compVars, netVars, ladderVars>>

DriverSpec == DriverInit /\ [][DriverNext]_driverVars
=============================================================================
