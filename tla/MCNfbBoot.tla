----------------------------- MODULE MCNfbBoot -----------------------------
EXTENDS NfbBoot
MCFile == [f1 |-> 3, f2 |-> 4, f3 |-> 2]
BootSlot(id, base, size, ro, cut) ==
    [id |-> id, empty |-> FALSE, base |-> base, size |-> size, ro |-> ro, cut |-> cut]
MCBootWorlds ==
    { [bmc |-> TRUE, solo |-> FALSE, fails |-> {}, slots |-> {},
       table |-> {[base |-> 0, size |-> 3, file |-> "f1"], [base |-> 4, size |-> 2, file |-> "f3"]},
       may |-> [t1 |-> {0}, t2 |-> {2}], calls |-> [t1 |-> 1, t2 |-> 1]],
      [bmc |-> TRUE, solo |-> TRUE, fails |-> {"unlink", "load", "erased_move", "table"}, slots |-> {},
       table |-> {[base |-> 0, size |-> 3, file |-> "f1"], [base |-> 4, size |-> 2, file |-> "f3"]},
       may |-> [t1 |-> {0, 1}, t2 |-> {0}], calls |-> [t1 |-> 2, t2 |-> 1]],
      [bmc |-> FALSE, solo |-> FALSE, fails |-> {"mtd"}, table |-> {},
       slots |-> {BootSlot(0, 0, 4, FALSE, 0), BootSlot(1, 4, 2, FALSE, 1), BootSlot(2, 6, 2, TRUE, 0)},
       may |-> [t1 |-> {0}, t2 |-> {1, 2}], calls |-> [t1 |-> 2, t2 |-> 1]] }
=============================================================================
