------------------------------ MODULE NfbComp ------------------------------
(***************************************************************************)
(* Several clients of one component (threads, processes, the kernel) run   *)
(* the operations of the netcope headers, access by access.  The component *)
(* has one set of registers; the driver's lock is the only protection, and *)
(* a process may die anywhere, which releases its locks (nfb_lock_release) *)
(* and leaves the registers as they are.                                   *)
(***************************************************************************)
EXTENDS NfbMdio

CONSTANTS
    CompClient,
    CompKernel,      \* the clients in the kernel: bounded lock, never killed
    Guarded,         \* the accesses of the operations whose header, or tool, takes
                     \* the component's lock, by operation
    Unguarded,       \* those of the operations that take no lock
    CompWorlds       \* which operations each client of a component runs

Accesses(op) == IF op \in DOMAIN Guarded THEN Guarded[op] ELSE Unguarded[op]

ASSUME CompConstants ==
    /\ CompKernel \subseteq CompClient
    /\ CompWorlds \subseteq [CompClient -> SUBSET (DOMAIN Guarded \cup DOMAIN Unguarded)]

VARIABLES
    comp_world,  \* never changes
    cl,          \* client -> [op, pc, left, own, saved, slot, list]
    win,         \* sel, dat, pend, res: who set a register, and for what
    mac_on,      \* the enable register
    mac_table,       \* the address slots of an RX MAC
    want,        \* history: the last explicit enable or disable; torn when
                 \* that, or a kill, came between an operation's save and on
    seen         \* history: client -> what happened to its last operation

compVars == <<comp_world, cl, win, mac_on, mac_table, want, seen>>

Unset == [by |-> "none", at |-> <<>>]
CompIdle == [op |-> "idle", pc |-> 1, left |-> 0, own |-> {}, saved |-> "none", slot |-> 0, list |-> <<>>]

CompInit ==
    /\ comp_world \in CompWorlds
    /\ cl = [c \in CompClient |-> CompIdle]
    /\ win = [sel |-> Unset, dat |-> Unset, pend |-> Unset, res |-> Unset]
    /\ mac_on = TRUE /\ want = [on |-> TRUE, torn |-> FALSE]
    /\ mac_table = [i \in 1..Slots |-> "free"]
    /\ seen = [c \in CompClient |-> {}]

-----------------------------------------------------------------------------
InCall(c) == cl[c].op # "idle"
Tag(c, a) == [by |-> c, at |-> <<a.at>>]

\* No client has any of the features, the caller included (nfb_lock_try_lock).
NotOwned(features) == \A c \in CompClient : cl[c].own \cap features = {}

\* The access of c is noted with c, and as an intruder's with everyone whose
\* operation is under way when not both operations take the lock.
Note(c, what) ==
    seen' = [d \in CompClient |->
               seen[d] \cup (IF d = c THEN what
                             ELSE IF InCall(d) /\ "guarded" \notin seen[c] \cap seen[d] THEN {"intruder"}
                             ELSE {})]
Wrong(cond) == IF cond THEN {"wrong"} ELSE {}

\* By n accesses on, or back to the caller after the last one.
By(c, n) ==
    IF cl[c].left < n THEN [CompIdle EXCEPT !.own = cl[c].own]
    ELSE [cl[c] EXCEPT !.pc = @ + n, !.left = @ - n]
Move(c, n) == cl' = [cl EXCEPT ![c] = By(c, n)]
Advance(c) == Move(c, 1)

-----------------------------------------------------------------------------
(* A client calls an operation.                                            *)
CompCall(c, op) ==
    /\ ~InCall(c)
    /\ cl' = [cl EXCEPT ![c].op = op, ![c].left = Len(Accesses(op)) - 1]
    /\ seen' = [seen EXCEPT ![c] = IF op \in DOMAIN Guarded THEN {"guarded"} ELSE {}]
    /\ UNCHANGED <<comp_world, win, mac_on, mac_table, want>>

comp_lock(c, a) ==
    /\ a.do = "lock" \/ a.do = "trylock"
    /\ NotOwned(a.at)
    /\ cl' = [cl EXCEPT ![c] = [By(c, 1) EXCEPT !.own = @ \cup a.at]]
    /\ UNCHANGED <<comp_world, win, mac_on, mac_table, want, seen>>

\* The lock has a bound in the kernel (the operation returns -EAGAIN), and
\* in nfb-tsu (which goes to its exit); libnfb's nfb_comp_lock has none.
comp_lock_timeout(c, a) ==
    /\ \/ a.do = "lock" /\ c \in CompKernel /\ Move(c, cl[c].left + 1)
       \/ a.do = "trylock" /\ Move(c, 1 + a.on)
    /\ ~NotOwned(a.at)
    /\ UNCHANGED <<comp_world, win, mac_on, mac_table, want, seen>>

comp_unlock(c, a) ==
    /\ a.do = "unlock"
    /\ cl' = [cl EXCEPT ![c] = [By(c, 1) EXCEPT !.own = @ \ a.at]]
    /\ UNCHANGED <<comp_world, win, mac_on, mac_table, want, seen>>

(* The registers that one access sets and another relies on.               *)
SetRegister(c, a) ==
    /\ \/ a.do = "sel" /\ win' = [win EXCEPT !.sel = Tag(c, a)]
       \/ a.do = "put" /\ win' = [win EXCEPT !.dat = Tag(c, a)]
       \/ a.do = "strobe" /\ win' = [win EXCEPT !.res = Tag(c, a)]
       \/ a.do = "clear" /\ win' \in {win, [win EXCEPT !.res = Unset]}
       \/ a.do = "ask" /\ win' = [win EXCEPT !.pend = win.sel]
    /\ Note(c, {}) /\ Advance(c)
    /\ UNCHANGED <<comp_world, mac_on, mac_table, want>>

UseRegister(c, a) ==
    /\ a.do = "use"
    /\ Note(c, Wrong(\E r \in a.on : win[r] # Tag(c, a)))
    /\ Advance(c)
    /\ UNCHANGED <<comp_world, win, mac_on, mac_table, want>>

\* The read that was started last has ended, ...
WaitDone(c, a) ==
    /\ a.do = "wait" \/ a.do = "await" \/ (a.do = "until" /\ win.pend = Tag(c, a))
    /\ win' = [win EXCEPT !.res = win.pend]
    /\ Note(c, {}) /\ Advance(c)
    /\ UNCHANGED <<comp_world, mac_on, mac_table, want>>

\* ... or a thousand polls are over before it has.
WaitGivenUp(c, a) ==
    /\ a.do = "wait"
    /\ Note(c, {"late"}) /\ Advance(c)
    /\ UNCHANGED <<comp_world, win, mac_on, mac_table, want>>

Control(c, a) ==
    /\ \/ a.do = "again" /\ Move(c, -a.at)
       \/ a.do = "again" /\ Advance(c)
       \/ a.do = "back" /\ Move(c, -a.at)
       \/ a.do = "skip" /\ Move(c, 1 + a.at)
       \/ a.do = "skip" /\ Advance(c)
       \/ a.do = "jump" /\ Move(c, 1 + a.at)
       \/ a.do = "read" /\ Advance(c)
       \/ a.do = "write" /\ Advance(c)
    /\ UNCHANGED <<comp_world, win, mac_on, mac_table, want, seen>>

(* The enable register and the address table.                                  *)
Quieted(c) == cl[c].saved # "none"

Enable(c, a) ==
    /\ a.do = "enable"
    /\ mac_on' = a.at
    /\ want' = [on |-> a.at, torn |-> \E d \in CompClient : Quieted(d)]
    /\ Note(c, {}) /\ Advance(c)
    /\ UNCHANGED <<comp_world, win, mac_table>>

PeekEnable(c, a) ==
    /\ a.do = "peek"
    /\ Note(c, Wrong(mac_on # want.on /\ ~want.torn)) /\ Advance(c)
    /\ UNCHANGED <<comp_world, win, mac_on, mac_table, want>>

SaveEnable(c, a) ==
    /\ a.do = "save"
    /\ cl' = [cl EXCEPT ![c] = [By(c, 1) EXCEPT
                                  !.saved = IF mac_on THEN "on" ELSE "off", !.list = mac_table]]
    /\ UNCHANGED <<comp_world, win, mac_on, mac_table, want, seen>>

\* Mutant: a MAC that was enabled is not enabled again.
Requiet_forgotten(c, a) ==
    \/ a.do = "off" /\ mac_on' = (IF cl[c].saved = "on" THEN FALSE ELSE mac_on) /\ Advance(c)
    \/ /\ a.do = "on" /\ UNCHANGED mac_on
       /\ cl' = [cl EXCEPT ![c] = [By(c, 1) EXCEPT !.saved = "none", !.list = <<>>, !.slot = 0]]

\* An enabled MAC is disabled, and enabled again at the end.
Requiet(c, a) ==
    \/ a.do = "off" /\ mac_on' = (IF cl[c].saved = "on" THEN FALSE ELSE mac_on) /\ Advance(c)
    \/ /\ a.do = "on" /\ mac_on' = (IF cl[c].saved = "on" THEN TRUE ELSE mac_on)
       /\ cl' = [cl EXCEPT ![c] = [By(c, 1) EXCEPT !.saved = "none", !.list = <<>>, !.slot = 0]]

QuietMac(c, a) ==
    /\ Requiet(c, a)
    /\ UNCHANGED <<comp_world, win, mac_table, want, seen>>

ProbeSlot(c, a) ==
    /\ a.do = "probe"
    /\ LET i == a.at
           hit == cl[c].slot = 0 /\ mac_table[i] = "free"
       IN  cl' = [cl EXCEPT ![c] = [By(c, 1) EXCEPT !.slot = IF hit THEN i ELSE @]]
    /\ UNCHANGED <<comp_world, win, mac_on, mac_table, want, seen>>

StoreAddress(c, a) ==
    /\ a.do = "store"
    /\ IF cl[c].slot = 0 THEN UNCHANGED <<mac_table, seen>>
       ELSE /\ Note(c, Wrong(mac_table[cl[c].slot] # "free"))
            /\ mac_table' = [mac_table EXCEPT ![cl[c].slot] = c]
    /\ Advance(c)
    /\ UNCHANGED <<comp_world, win, mac_on, want>>

ListSlot(c, a) ==
    /\ \/ a.do = "fetch" /\ UNCHANGED mac_table
       \/ a.do = "fill" /\ \E v \in {c, "free"} : mac_table' = [mac_table EXCEPT ![a.at] = v]
    /\ Note(c, Wrong(mac_table[a.at] # cl[c].list[a.at]))
    /\ Advance(c)
    /\ UNCHANGED <<comp_world, win, mac_on, want>>

(* The process of a client ends.                                           *)
CompKill(c) ==
    /\ c \notin CompKernel
    /\ cl[c] # CompIdle
    /\ cl' = [cl EXCEPT ![c] = CompIdle]
    /\ want' = [want EXCEPT !.torn = @ \/ Quieted(c)]
    /\ seen' = [seen EXCEPT ![c] = {}]
    /\ UNCHANGED <<comp_world, win, mac_on, mac_table>>

Step(c, a) ==
    \/ comp_lock(c, a) \/ comp_lock_timeout(c, a) \/ comp_unlock(c, a)
    \/ SetRegister(c, a) \/ UseRegister(c, a) \/ WaitDone(c, a) \/ WaitGivenUp(c, a)
    \/ Control(c, a)
    \/ Enable(c, a) \/ PeekEnable(c, a) \/ SaveEnable(c, a) \/ QuietMac(c, a)
    \/ ProbeSlot(c, a) \/ StoreAddress(c, a) \/ ListSlot(c, a)

CompNext ==
    \E c \in CompClient :
      \/ \E op \in comp_world[c] : CompCall(c, op)
      \/ InCall(c) /\ \E a \in {Accesses(cl[c].op)[cl[c].pc]} : Step(c, a)
      \/ CompKill(c)

CompSpec == CompInit /\ [][CompNext]_compVars

-----------------------------------------------------------------------------
\* What the lock of a component is for.  Every operation reads the answer to
\* its own request, commits its own address and data, never sees the MAC in
\* the moment another operation has disabled it, takes no slot that another
\* has taken, and sees one state of the address list; unless one of two
\* operations that overlapped takes no lock, or a bounded wait was too
\* short.  And when no operation is changing the address table, the MAC is enabled
\* exactly if that was the last explicit request.
CompOwn ==
    /\ \A c \in CompClient : "wrong" \in seen[c] => seen[c] \cap {"intruder", "late"} # {}
    /\ (\A c \in CompClient : ~Quieted(c)) => mac_on = want.on \/ want.torn
=============================================================================
