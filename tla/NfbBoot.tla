------------------------------ MODULE NfbBoot ------------------------------
(***************************************************************************)
(* Writing firmware images and booting them: the tool nfb-boot, libnfb's   *)
(* boot module, and the driver's side of it, for the two ways an image     *)
(* gets to the flash.  On an MTD card libnfb erases and programs the       *)
(* blocks of the slot one ioctl at a time.  On a card with a BittWare BMC  *)
(* one ioctl has the driver unlink, load and move a file, read the BMC's   *)
(* partition table again and rebuild the slots of the device tree from it. *)
(* A tool sees the slots as they were when it opened the device.           *)
(*                                                                         *)
(* The flash is a row of cells; a BMC partition starts at a multiple of    *)
(* Align cells, an MTD block has Align cells.                              *)
(***************************************************************************)
EXTENDS Integers, Sequences, FiniteSets

LOCAL INSTANCE SequencesExt

CONSTANTS
    Tool,         \* processes running nfb-boot
    File,         \* image file -> its length in cells
    BootWorlds,   \* [bmc, solo, fails, slots, table, may, calls]; see BootInit
    Cells,        \* size of the flash
    Align

ASSUME BootConstants == Cells \in Nat /\ Align \in Nat \ {0}

VARIABLES
    bt_world,   \* never changes
    flash,      \* cell -> what is programmed there
    table,      \* BMC: the files, [base, size]
    prio,       \* BMC: bases of the files with a boot priority
    slots,      \* FDT: [id, empty, base, size, ro, cut]
    running,    \* file the card runs, or "none"
    tool        \* tool -> its call

bootVars == <<bt_world, flash, table, prio, slots, running, tool>>

Cell == 0 .. Cells - 1
Erased == <<"erased">>
Garbage == <<"garbage">>
Region(s) == s.base .. s.base + s.size - 1
RoundUp(n) == ((n + Align - 1) \div Align) * Align
Fails(what) == IF what \in bt_world.fails THEN BOOLEAN ELSE {FALSE}
BtAt(t, pc) == tool[t].pc = pc
BtGoto(t, pc) == tool' = [tool EXCEPT ![t].pc = pc]
\* A tool that has the device open.
HasOpen(t) == tool[t].pc \notin {"idle", "boot", "boot_done"}
NoCall == [pc |-> "idle", cmd |-> "none", file |-> "none", id |-> 0, left |-> 0,
           fdt |-> {}, slot |-> 0, i |-> 0, erased |-> FALSE, wrote |-> FALSE]
\* The command ends, with success or not.
BtEnd(t) == tool' = [tool EXCEPT ![t] = [NoCall EXCEPT !.left = tool[t].left]]

-----------------------------------------------------------------------------
(* main: a command; those that write open the device first, a boot opens   *)
(* it exclusively.                                                         *)
tool_start(t) ==
    /\ BtAt(t, "idle") /\ tool[t].left > 0
    /\ bt_world.solo => \A u \in Tool : BtAt(u, "idle")
    /\ running # "none"
    /\ \E cmd \in {"write", "write_boot", "quick_boot", "delete", "priority", "boot"} :
       \E file \in DOMAIN File \cup {"none"}, id \in bt_world.may[t] :
        /\ cmd \in {"delete", "priority"} => bt_world.bmc
        /\ (file = "none") = (cmd \in {"delete", "priority", "boot"})
        /\ tool' = [tool EXCEPT ![t] = [NoCall EXCEPT
                !.cmd = cmd, !.file = file, !.id = id, !.left = tool[t].left - 1,
                !.fdt = slots,
                !.pc = IF cmd \in {"boot", "quick_boot"} THEN "boot"
                       ELSE IF cmd = "priority" THEN "priority" ELSE "load"]]
    /\ UNCHANGED <<bt_world, flash, table, prio, slots, running>>

(* nfb_fw_load_ext_name, nfb_fw_delete: the slot as the tool knows it; a   *)
(* read-only one is refused, but not by delete; one too small for the      *)
(* image is refused here only for an MTD.                                  *)
fw_load(t) ==
    /\ BtAt(t, "load")
    /\ LET del == tool[t].cmd = "delete"
           s == {x \in tool[t].fdt : x.id = tool[t].id} IN
       IF \/ s = {}
          \/ ~del /\ \E x \in s : x.ro \/ (~bt_world.bmc /\ File[tool[t].file] - x.cut > x.size)
       THEN BtEnd(t)
       ELSE \E x \in s : tool' = [tool EXCEPT ![t].slot = x, ![t].i = 0, ![t].erased = FALSE,
                ![t].pc = IF bt_world.bmc THEN "bmc_load" ELSE "erase"]
    /\ UNCHANGED <<bt_world, flash, table, prio, slots, running>>

-----------------------------------------------------------------------------
(* MTD: erase the blocks, then program them, the last one in part.         *)
Length(t) == File[tool[t].file] - tool[t].slot.cut
\* Mutant: the block of a remainder is not counted.
Blocks_down(t) == Length(t) \div Align

Blocks(t) == (Length(t) - 1) \div Align + 1

mtd_erase(t) ==
    /\ BtAt(t, "erase")
    /\ IF tool[t].i = Blocks(t) THEN
            /\ tool' = [tool EXCEPT ![t].pc = "program", ![t].i = 0]
            /\ UNCHANGED flash
       ELSE LET a == tool[t].slot.base + tool[t].i * Align IN
            /\ flash' = [x \in Cell |-> IF x \in a .. a + Align - 1 THEN Erased ELSE flash[x]]
            /\ tool' = [tool EXCEPT ![t].i = @ + 1]
    /\ UNCHANGED <<bt_world, table, prio, slots, running>>

mtd_write(t) ==
    /\ BtAt(t, "program")
    /\ IF tool[t].i = Blocks(t) THEN BtGoto(t, "written") /\ UNCHANGED flash
       ELSE LET off == tool[t].i * Align
                n == IF tool[t].i = Blocks(t) - 1 /\ Length(t) % Align # 0
                     THEN Length(t) % Align ELSE Align
                a == tool[t].slot.base + off IN
            /\ flash' = [x \in Cell |->
                    IF x \notin a .. a + n - 1 THEN flash[x]
                    ELSE IF flash[x] # Erased THEN Garbage
                    ELSE <<tool[t].file, tool[t].slot.cut + off + x - a>>]
            /\ tool' = [tool EXCEPT ![t].i = @ + 1]
    /\ UNCHANGED <<bt_world, table, prio, slots, running>>

(* An ioctl fails: the flash stays as it is.                               *)
mtd_fail(t) ==
    /\ tool[t].pc \in {"erase", "program"}
    /\ tool[t].i < Blocks(t)
    /\ TRUE \in Fails("mtd")
    /\ BtEnd(t)
    /\ UNCHANGED <<bt_world, flash, table, prio, slots, running>>

-----------------------------------------------------------------------------
(* nfb_boot_bw_bmc_load_partition_table: the files by offset, a slot for   *)
(* each, and an empty one for each gap.  The file at 0 has id 1, the first *)
(* of the others id 0.                                                     *)
AddPartition(r, s) ==
    LET id == IF s.empty THEN r.id ELSE IF s.base = 0 THEN 1 ELSE IF ~r.flag THEN 0 ELSE r.id
    IN [id |-> IF id = r.id THEN r.id + 1 ELSE r.id,
        flag |-> r.flag \/ (~s.empty /\ s.base # 0),
        out |-> r.out \cup {[id |-> id, empty |-> s.empty, base |-> s.base, size |-> s.size,
                             ro |-> id = 1, cut |-> 0]},
        end |-> RoundUp(s.base + s.size)]
Gap(r, to) ==
    IF r.end < to THEN AddPartition(r, [empty |-> TRUE, base |-> r.end, size |-> to - r.end]) ELSE r
SlotsOf(tab) ==
    LET files == SetToSortSeq(tab, LAMBDA f, g : f.base < g.base)
        Add(r, f) == AddPartition(Gap(r, f.base), [empty |-> FALSE, base |-> f.base, size |-> f.size])
    IN Gap(FoldLeft(Add, [id |-> 2, flag |-> FALSE, out |-> {}, end |-> 0], files), Cells).out

(* nfb_boot_bw_bmc_update_binary_slots: without a table there are no slots. *)
update_binary_slots == \E fails \in Fails("table") : slots' = IF fails THEN {} ELSE SlotsOf(table)

\* Mutant: the space of the next slot is used although an image is there.
Space_any(s) ==
    LET next == {x \in slots : RoundUp(s.base + s.size) = x.base}
    IN s.size + (IF next = {} THEN 0 ELSE (CHOOSE x \in next : TRUE).size)

\* The space of an empty slot behind this one can be used as well.
Space(s) ==
    LET next == {x \in slots : x.empty /\ RoundUp(s.base + s.size) = x.base}
    IN s.size + (IF next = {} THEN 0 ELSE (CHOOSE x \in next : TRUE).size)

(* nfb_boot_load, nfb_boot_bw_bmc_load under load_mutex: what is refused.  *)
(* The slot is found by the name of its node, which is made of the id.     *)
bmc_load(t) ==
    /\ BtAt(t, "bmc_load")
    /\ LET cmds == IF tool[t].cmd = "delete" THEN {"erase"}
                   ELSE IF tool[t].slot.empty THEN {"write"} ELSE {"erase", "write"}
           size == IF "write" \in cmds THEN File[tool[t].file] ELSE 0
           s == {x \in slots : x.id = tool[t].slot.id /\ x.empty = tool[t].slot.empty} IN
       \/ /\ \E u \in Tool \ {t} : tool[u].pc \in {"unlink", "store", "move", "update", "fallback"}
          /\ BtEnd(t)
       \/ /\ \A x \in s : Space(x) < size \/ (x.empty /\ "erase" \in cmds)
          /\ BtEnd(t)
       \/ /\ \A u \in Tool \ {t} : tool[u].pc \notin {"unlink", "store", "move", "update", "fallback"}
          /\ \E x \in s :
                /\ Space(x) >= size
                /\ ~(x.empty /\ "erase" \in cmds)
                /\ tool' = [tool EXCEPT ![t].slot = x,
                                        ![t].pc = IF "erase" \in cmds THEN "unlink" ELSE "store"]
    /\ UNCHANGED <<bt_world, flash, table, prio, slots, running>>

(* After an error the slots are read again only if something was done.     *)
bmc_error(t) ==
    /\ IF tool[t].erased THEN update_binary_slots ELSE UNCHANGED slots
    /\ BtEnd(t)

(* nc_bw_bmc_file_unlink; it may fail after the BMC has done it.           *)
bmc_unlink(t) ==
    /\ BtAt(t, "unlink")
    /\ \E fails \in Fails("unlink"), did \in BOOLEAN :
        /\ ~fails => did
        /\ LET gone == {f \in table : f.base = tool[t].slot.base} IN
            /\ table' = IF did THEN table \ gone ELSE table
            /\ flash' = IF did THEN [x \in Cell |-> IF \E f \in gone : x \in Region(f)
                                                    THEN Erased ELSE flash[x]] ELSE flash
            /\ prio' = IF did THEN prio \ {f.base : f \in gone} ELSE prio
        /\ IF fails \/ ~did THEN bmc_error(t)
           ELSE /\ tool' = [tool EXCEPT ![t].erased = TRUE,
                        ![t].pc = IF tool[t].cmd = "delete" THEN "update" ELSE "store"]
                /\ UNCHANGED slots
    /\ UNCHANGED <<bt_world, running>>

(* nc_bw_bmc_fpga_load_ext: all chunks, or the first of them.              *)
bmc_store(t) ==
    /\ BtAt(t, "store")
    /\ \E fails \in Fails("load"), n \in 0 .. File[tool[t].file] :
        /\ ~fails => n = File[tool[t].file]
        /\ LET b == tool[t].slot.base IN
            /\ flash' = [x \in Cell |-> IF x \in b .. b + n - 1 THEN <<tool[t].file, x - b>> ELSE flash[x]]
            /\ table' = IF fails THEN table
                        ELSE {f \in table : f.base # b} \cup {[base |-> b, size |-> n]}
        /\ IF fails THEN bmc_error(t) ELSE BtGoto(t, "move") /\ UNCHANGED slots
    /\ UNCHANGED <<bt_world, prio, running>>

(* nc_bw_bmc_file_move: the name; the slots of a write that fails here are *)
(* stale unless it had erased first.                                       *)
bmc_move(t) ==
    /\ BtAt(t, "move")
    /\ \E fails \in Fails("move") \cup (IF tool[t].erased THEN Fails("erased_move") ELSE {}) :
        IF fails THEN bmc_error(t) ELSE BtGoto(t, "update") /\ UNCHANGED slots
    /\ UNCHANGED <<bt_world, flash, table, prio, running>>

bmc_update(t) ==
    /\ BtAt(t, "update")
    /\ update_binary_slots
    /\ BtGoto(t, "fallback")
    /\ UNCHANGED <<bt_world, flash, table, prio, running>>

(* nfb_boot_bw_bmc_set_priority: the list replaces the old one.            *)
SetPriority(ids) ==
    prio' = {s.base : s \in {x \in slots : x.id \in ids /\ ~x.empty}} \cap {f.base : f \in table}

\* Mutant: only a write looks whether an image is left to boot.
set_fallback_priority_of_write(t) ==
    /\ BtAt(t, "fallback")
    /\ IF /\ tool[t].cmd # "delete"
          /\ \A s \in slots : s.base \notin prio
          /\ \E s \in slots : s.id = 1
       THEN SetPriority({1}) /\ update_binary_slots
       ELSE UNCHANGED <<prio, slots>>
    /\ BtGoto(t, "written")
    /\ UNCHANGED <<bt_world, flash, table, running>>

(* set_fallback_priority: the recovery image when no image has a priority. *)
set_fallback_priority(t) ==
    /\ BtAt(t, "fallback")
    /\ IF /\ \A s \in slots : s.empty \/ s.base \notin prio
          /\ \E s \in slots : s.id = 1
       THEN SetPriority({1}) /\ update_binary_slots
       ELSE UNCHANGED <<prio, slots>>
    /\ BtGoto(t, "written")
    /\ UNCHANGED <<bt_world, flash, table, running>>

(* nfb_fw_set_priority, a command of its own: an empty slot has no file    *)
(* name and is refused.                                                    *)
set_priority(t) ==
    /\ BtAt(t, "priority")
    /\ IF \E s \in slots : s.id = tool[t].id /\ s.empty
       THEN BtEnd(t) /\ UNCHANGED <<prio, slots>>
       ELSE /\ SetPriority({tool[t].id})
            /\ update_binary_slots
            /\ BtEnd(t)
    /\ UNCHANGED <<bt_world, flash, table, running>>

-----------------------------------------------------------------------------
(* The device is closed; a boot follows in write_boot and quick_boot.      *)
written(t) ==
    /\ BtAt(t, "written")
    /\ IF tool[t].cmd \in {"write", "delete"} THEN BtEnd(t)
       ELSE tool' = [tool EXCEPT ![t].pc = "boot", ![t].wrote = TRUE, ![t].fdt = {}, ![t].i = 0]
    /\ UNCHANGED <<bt_world, flash, table, prio, slots, running>>

(* What a card makes of a slot: the file that is there from its first cell *)
(* to its last, or nothing that runs.  External.                           *)
Bootable(s) ==
    {f \in DOMAIN File : \A k \in s.cut .. File[f] - 1 :
        s.base + k - s.cut \in Cell /\ flash[s.base + k - s.cut] = <<f, k>>}

(* nfb_fw_boot: exclusive open, the slot, the reload when the device is    *)
(* closed.  On a BMC card an empty slot has no boot id.                    *)
fw_boot(t) ==
    /\ BtAt(t, "boot")
    /\ LET s == {x \in slots : x.id = tool[t].id} IN
       IF s = {} \/ (\E x \in s : x.empty) \/ (\E u \in Tool : HasOpen(u)) \/ running = "none"
       THEN BtEnd(t) /\ UNCHANGED running
       ELSE \E x \in s :
            /\ running' = IF Bootable(x) = {} THEN "none" ELSE CHOOSE f \in Bootable(x) : TRUE
            /\ BtGoto(t, "boot_done")
    /\ UNCHANGED <<bt_world, flash, table, prio, slots>>

(* do_quick_boot compares the firmware after the first boot and writes if  *)
(* it is another one; after the second it does not.  check_boot_success    *)
(* compares too, which decides only what the tool returns.                 *)
boot_done(t) ==
    /\ BtAt(t, "boot_done")
    /\ IF tool[t].cmd = "quick_boot" /\ ~tool[t].wrote /\ running \notin {"none", tool[t].file}
       THEN tool' = [tool EXCEPT ![t].pc = "load", ![t].fdt = slots]
       ELSE BtEnd(t)
    /\ UNCHANGED <<bt_world, flash, table, prio, slots, running>>

-----------------------------------------------------------------------------
Programmed(tab) ==
    [x \in Cell |-> IF \E f \in tab : x \in Region(f)
                    THEN LET f == CHOOSE g \in tab : x \in Region(g) IN <<f.file, x - f.base>>
                    ELSE Erased]

BootInit ==
    /\ bt_world \in BootWorlds
    /\ flash = Programmed(bt_world.table)
    /\ table = {[base |-> f.base, size |-> f.size] : f \in bt_world.table}
    /\ prio = {}
    /\ slots = IF bt_world.bmc THEN SlotsOf(table) ELSE bt_world.slots
    /\ running = "factory"
    /\ tool = [t \in Tool |-> [NoCall EXCEPT !.left = bt_world.calls[t]]]

BootNext == \E t \in Tool :
    \/ tool_start(t) \/ fw_load(t) \/ mtd_erase(t) \/ mtd_write(t) \/ mtd_fail(t)
    \/ bmc_load(t) \/ bmc_unlink(t) \/ bmc_store(t) \/ bmc_move(t) \/ bmc_update(t)
    \/ set_fallback_priority(t) \/ set_priority(t) \/ written(t) \/ fw_boot(t) \/ boot_done(t)

BootSpec == BootInit /\ [][BootNext]_bootVars

-----------------------------------------------------------------------------
(* Writing an image never touches another one: a step that changes cells   *)
(* of the flash leaves alone the files in the BMC's table other than the   *)
(* one in the slot being written, and on an MTD card every cell outside    *)
(* the slot (nfb_boot_bw_bmc_load's use of a following empty slot,         *)
(* nfb_fw_load_ext_name's block count).                                    *)
BootConfined == [][\A x \in Cell : flash'[x] # flash[x] => \E t \in Tool :
    /\ tool[t].pc \in {"erase", "program", "unlink", "store"}
    /\ IF bt_world.bmc
       THEN \A f \in table : f.base # tool[t].slot.base => x \notin Region(f)
       ELSE x \in Region(tool[t].slot)]_bootVars

(* A card booted from the slot a tool has just written runs that tool's    *)
(* file (do_write_with_dev, then nfb_fw_boot): all its cells were erased   *)
(* and programmed, in the slot that is booted.                            *)
BootRunsFile == [][\A t \in Tool :
    BtAt(t, "boot") /\ tool[t].wrote /\ tool'[t].pc = "boot_done" => running' = tool[t].file]_bootVars

(* Whenever an image was written or deleted with success and the recovery  *)
(* image is there, some image has a boot priority, so that the card comes  *)
(* up after a power cycle (set_fallback_priority).                         *)
BootFallback == [][\A t \in Tool :
    /\ BtAt(t, "fallback") /\ tool'[t].pc = "written"
    /\ slots # {} /\ \E f \in table : f.base = 0
    => prio' # {}]_bootVars
=============================================================================
