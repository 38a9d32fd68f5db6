----------------------------- MODULE NfbMailbox -----------------------------
(***************************************************************************)
(* The command mailboxes of a card: the BittWare BMC behind its SPI        *)
(* controller (bittware_bmc_spi.h) and Intel's Secure Device Manager       *)
(* (sdm.c).  A client writes a command into a FIFO, waits, and takes the   *)
(* answer from another FIFO; neither FIFO says whose words it holds.  The  *)
(* "flash" client runs a session of commands (the BMC file commands of an  *)
(* image load; SDM's open, chip select, operation, close), the others read *)
(* a sensor.  The component lock guards the mailbox, except that the BMC's *)
(* session never takes it.                                                 *)
(***************************************************************************)
EXTENDS Naturals, Sequences

CONSTANTS
    Sensor,       \* readers: SDM temperature, I2C through the BMC
    MbWorlds,     \* [proto, late]: which mailbox, and how late an answer may be
    MbCommands    \* bound: commands of one client

MbClient == Sensor \cup {"flash"}
Late == {"never", "before_next", "any"}

ASSUME MbConstants ==
    /\ "flash" \notin Sensor /\ "none" \notin Sensor /\ MbCommands \in Nat
    /\ MbWorlds \subseteq [proto : {"bmc", "sdm"}, late : Late]

VARIABLES
    mb_world,   \* never changes
    wr_fifo,    \* pieces of frames: [by, n, last]
    wr_status,  \* of the last frame: "none", "ok", "bad"
    executing,  \* commands the card has taken, in order
    rd_fifo,    \* answers
    mb_lock,    \* holder of the component lock, or "none"
    mcl         \* client -> [pc, n, step, got]; n numbers its commands

mbVars == <<mb_world, wr_fifo, wr_status, executing, rd_fifo, mb_lock, mcl>>

Bmc == mb_world.proto = "bmc"
Kind(c) == IF c = "flash" THEN "mctp" ELSE "i2c"
Steps(c) == IF c = "flash" THEN 3 ELSE 1
Command(c) == [by |-> c, n |-> mcl[c].n]
Known == {wr_fifo[i].cmd : i \in DOMAIN wr_fifo} \cup {executing[i] : i \in DOMAIN executing}
MbGoto(c, pc) == mcl' = [mcl EXCEPT ![c].pc = pc]

-----------------------------------------------------------------------------
(* A session begins: SDM's under the component lock, ...                   *)
Begin(c) ==
    /\ mcl[c].pc = "idle"
    /\ mcl[c].n + Steps(c) =< MbCommands
    /\ mcl' = [mcl EXCEPT ![c].pc = "send", ![c].step = 1]
    /\ UNCHANGED <<mb_world, wr_fifo, wr_status, executing, rd_fifo>>

sdm_try_lock(c) == ~Bmc /\ mb_lock = "none" /\ mb_lock' = c /\ Begin(c)

(* ... I2C transfers through the BMC under nc_bw_bmc_lock, ...             *)
i2c_read_reg(c) == Bmc /\ c # "flash" /\ mb_lock = "none" /\ mb_lock' = c /\ Begin(c)

(* ... and the file commands of an image load under no lock.               *)
file_command(c) == Bmc /\ c = "flash" /\ UNCHANGED mb_lock /\ Begin(c)

\* Mutant: the read FIFO is not reset.
reset_stale_kept == UNCHANGED rd_fifo

\* An answer the previous command left is dropped, by the BMC's client only.
reset_stale == IF Bmc THEN rd_fifo' = <<>> ELSE UNCHANGED rd_fifo

\* The answers of commands given up have come, unless they may be later.
Settled ==
    \/ mb_world.late = "any"
    \/ \A k \in Known : k = Command(k.by) /\ mcl[k.by].pc \in {"tail", "status", "recv"}

(* The header of a command.                                                *)
send_header(c) ==
    /\ mcl[c].pc = "send"
    /\ Settled
    /\ reset_stale
    /\ wr_status' = "none"
    /\ wr_fifo' = Append(wr_fifo, [cmd |-> [by |-> c, n |-> mcl[c].n + 1], last |-> FALSE])
    /\ mcl' = [mcl EXCEPT ![c].pc = "tail", ![c].n = @ + 1]
    /\ UNCHANGED <<mb_world, executing, mb_lock>>

\* sdm_send_data found no space (-EBUSY), which sdm_send_header does not look at.
send_header_lost(c) ==
    /\ ~Bmc
    /\ mcl[c].pc = "send"
    /\ Settled
    /\ mcl' = [mcl EXCEPT ![c].pc = "tail", ![c].n = @ + 1]
    /\ UNCHANGED <<mb_world, wr_fifo, wr_status, executing, rd_fifo, mb_lock>>

(* Its arguments, the last word marked.                                    *)
send_data(c) ==
    /\ mcl[c].pc = "tail"
    /\ wr_fifo' = Append(wr_fifo, [cmd |-> Command(c), last |-> TRUE])
    /\ MbGoto(c, IF Bmc THEN "status" ELSE "recv")
    /\ UNCHANGED <<mb_world, wr_status, executing, rd_fifo, mb_lock>>

-----------------------------------------------------------------------------
(* What follows a command of a session: the next one; after a failure the  *)
(* closing one (SDM's close, the BMC's reading of the table); the end,     *)
(* which releases the lock.                                                *)
Ended(c, ok) == mcl[c].step = Steps(c) \/ (~ok /\ mcl[c].step = 1)
After(c, ok) ==
    /\ mcl' = [mcl EXCEPT ![c] = [mcl[c] EXCEPT
                !.pc = IF Ended(c, ok) THEN "idle" ELSE "send",
                !.step = IF Ended(c, ok) THEN 0 ELSE IF ok THEN mcl[c].step + 1 ELSE Steps(c),
                !.got = IF ok THEN Head(rd_fifo).cmd ELSE Command(c)]]
    /\ mb_lock' = IF Ended(c, ok) /\ mb_lock = c THEN "none" ELSE mb_lock

(* The BMC's status of the frame: wrong, or as expected.                   *)
check_status(c) ==
    /\ mcl[c].pc = "status"
    /\ \/ wr_status = "ok" /\ MbGoto(c, "recv") /\ UNCHANGED mb_lock
       \/ wr_status = "bad" /\ After(c, FALSE)
    /\ UNCHANGED <<mb_world, wr_fifo, wr_status, executing, rd_fifo>>

(* Too many polls of an empty register.                                    *)
mb_timeout(c) ==
    /\ \/ mcl[c].pc = "status" /\ wr_status = "none"
       \/ mcl[c].pc = "recv" /\ rd_fifo = <<>>
    /\ mb_world.late = "never" => Command(c) \notin Known
    /\ After(c, FALSE)
    /\ UNCHANGED <<mb_world, wr_fifo, wr_status, executing, rd_fifo>>

\* Mutant: the response byte is not compared.
mb_receive_any(c) ==
    /\ Bmc /\ mcl[c].pc = "recv" /\ rd_fifo # <<>>
    /\ After(c, TRUE)
    /\ rd_fifo' = Tail(rd_fifo)
    /\ UNCHANGED <<mb_world, wr_fifo, wr_status, executing>>

(* The BMC's answer: refused when it is too long (and left) or of the      *)
(* other kind (and dropped), else accepted.                                *)
mb_receive(c) ==
    /\ Bmc /\ mcl[c].pc = "recv" /\ rd_fifo # <<>>
    /\ LET a == Head(rd_fifo) IN
       \/ a.long /\ After(c, FALSE) /\ UNCHANGED rd_fifo
       \/ ~a.long /\ Kind(a.cmd.by) # Kind(c) /\ After(c, FALSE) /\ rd_fifo' = <<>>
       \/ ~a.long /\ Kind(a.cmd.by) = Kind(c) /\ After(c, TRUE) /\ rd_fifo' = Tail(rd_fifo)
    /\ UNCHANGED <<mb_world, wr_fifo, wr_status, executing>>

(* SDM's answer: its header has a command ID nobody compares.              *)
sdm_get_data(c) ==
    /\ ~Bmc /\ mcl[c].pc = "recv" /\ rd_fifo # <<>>
    /\ After(c, TRUE)
    /\ rd_fifo' = Tail(rd_fifo)
    /\ UNCHANGED <<mb_world, wr_fifo, wr_status, executing>>

-----------------------------------------------------------------------------
(* External: the card takes a frame up to its last word; one put together  *)
(* of two commands' words is refused.                                      *)
card_take ==
    /\ \E i \in DOMAIN wr_fifo :
        /\ wr_fifo[i].last
        /\ \A j \in 1 .. i - 1 : ~wr_fifo[j].last
        /\ LET good == i = 2 /\ wr_fifo[1].cmd = wr_fifo[2].cmd IN
            /\ executing' = IF good THEN Append(executing, wr_fifo[1].cmd) ELSE executing
            /\ wr_status' = IF good THEN "ok" ELSE "bad"
        /\ wr_fifo' = SubSeq(wr_fifo, i + 1, Len(wr_fifo))
    /\ UNCHANGED <<mb_world, rd_fifo, mb_lock, mcl>>

card_answer ==
    /\ executing # <<>>
    /\ rd_fifo = <<>>
    /\ \E long \in IF Bmc THEN BOOLEAN ELSE {FALSE} :
        rd_fifo' = <<[cmd |-> Head(executing), long |-> long]>>
    /\ executing' = Tail(executing)
    /\ UNCHANGED <<mb_world, wr_fifo, wr_status, mb_lock, mcl>>

MbInit ==
    /\ mb_world \in MbWorlds
    /\ wr_fifo = <<>> /\ wr_status = "none" /\ executing = <<>> /\ rd_fifo = <<>>
    /\ mb_lock = "none"
    /\ mcl = [c \in MbClient |-> [pc |-> "idle", n |-> 0, step |-> 0, got |-> [by |-> c, n |-> 0]]]

MbNext ==
    \/ \E c \in MbClient :
        \/ sdm_try_lock(c) \/ i2c_read_reg(c) \/ file_command(c) \/ send_header(c) \/ send_header_lost(c)
        \/ send_data(c) \/ check_status(c) \/ mb_timeout(c) \/ mb_receive(c) \/ sdm_get_data(c)
    \/ card_take \/ card_answer

MbSpec == MbInit /\ [][MbNext]_mbVars

-----------------------------------------------------------------------------
(* The mailboxes that keep a client's answers apart: no answer comes after *)
(* the next command, and the SDM's none after its command was given up.    *)
Timely == \A w \in MbWorlds : w.late # "any" /\ (w.proto = "sdm" => w.late = "never")

(* An answer a client accepts is the answer to its own last command, also  *)
(* when a sensor is read between the words of an image load and after      *)
(* commands that timed out (_nc_bw_bmc_send_raw_frame's reset of the read  *)
(* FIFO, _nc_bw_bmc_receive's check of the response byte, the component    *)
(* lock of sdm.c).                                                         *)
MbOwnAnswer ==
    \A c \in MbClient : mcl[c].pc \in {"idle", "send"} => mcl[c].got = Command(c)
=============================================================================
