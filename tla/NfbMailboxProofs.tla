-------------------------- MODULE NfbMailboxProofs --------------------------
(***************************************************************************)
(* A client of a mailbox accepts the answers to its own commands only,     *)
(* whatever sensors there are and however many commands they send.         *)
(*                                                                         *)
(* Clients of one group (of the SDM all; of the BMC those that expect the  *)
(* same kind of answer) never wait at the same time: a lock sees to that.  *)
(* What is on its way while one of them waits is therefore its own         *)
(* (Fifos), provided nothing older is: for the BMC because a command first *)
(* drops what is left, for the SDM because nothing is left (SdmShape).     *)
(***************************************************************************)
EXTENDS NfbMailbox, SequenceTheorems, TLAPS

Waiting == {"tail", "status", "recv"}
Cmd == [by : MbClient, n : Nat]
ClientRec == [pc : {"idle", "send"} \cup Waiting, n : Nat, step : Nat, got : Cmd]

MbTypeOK ==
    /\ mb_world \in MbWorlds
    /\ mb_lock \in MbClient \cup {"none"}
    /\ mcl \in [MbClient -> ClientRec]

(* Clients that could take each other's answers.                           *)
SameGroup(b, c) == Bmc => Kind(b) = Kind(c)

(* What may be on its way: nothing else of the group of one that waits.    *)
Allowed == {k \in Cmd : \A c \in MbClient : (mcl[c].pc \in Waiting /\ SameGroup(k.by, c)) => k = Command(c)}

Fifos ==
    /\ wr_fifo \in Seq([cmd : Allowed, last : BOOLEAN])
    /\ executing \in Seq(Allowed)
    /\ rd_fifo \in Seq([cmd : Allowed, long : BOOLEAN])

(* Only the file commands of the BMC go without the lock.                  *)
Locked == \A c \in MbClient : (mcl[c].pc # "idle" /\ (Bmc => c # "flash")) => mb_lock = c

(* The one command of the SDM is in one place, or nowhere.                 *)
Piece(c, last) == [cmd |-> Command(c), last |-> last]
SdmAt(wr, ex, rd) == wr_fifo = wr /\ executing = ex /\ rd_fifo = rd
SdmOf(c) ==
    /\ mcl[c].pc # "status"
    /\ mcl[c].pc = "tail" => SdmAt(<<>>, <<>>, <<>>) \/ SdmAt(<<Piece(c, FALSE)>>, <<>>, <<>>)
    /\ mcl[c].pc = "recv" => \/ SdmAt(<<>>, <<>>, <<>>)
                             \/ SdmAt(<<Piece(c, TRUE)>>, <<>>, <<>>)
                             \/ SdmAt(<<Piece(c, FALSE), Piece(c, TRUE)>>, <<>>, <<>>)
                             \/ SdmAt(<<>>, <<Command(c)>>, <<>>)
                             \/ SdmAt(<<>>, <<>>, <<[cmd |-> Command(c), long |-> FALSE]>>)

SdmShape ==
    /\ \A c \in MbClient : SdmOf(c)
    /\ (\A c \in MbClient : mcl[c].pc \notin Waiting) => SdmAt(<<>>, <<>>, <<>>)

MbInv == MbTypeOK /\ Fifos /\ Locked /\ (~Bmc => SdmShape) /\ MbOwnAnswer

-----------------------------------------------------------------------------
(* What the steps write                                                    *)

LEMMA MbWorld ==
  ASSUME Timely, MbTypeOK
  PROVE  mb_world.late # "any" /\ (~Bmc => mb_world.late = "never") /\ mb_world.proto \in {"bmc", "sdm"}
BY MbConstants DEF Timely, MbTypeOK, Bmc

\* A client that is written is the only one that changes.
LEMMA OneClient ==
  ASSUME NEW c \in MbClient, MbTypeOK, NEW r \in ClientRec, mcl' = [mcl EXCEPT ![c] = r]
  PROVE  mcl' \in [MbClient -> ClientRec] /\ mcl'[c] = r /\ \A d \in MbClient : d # c => mcl'[d] = mcl[d]
BY DEF MbTypeOK

LEMMA PcRec ==
  ASSUME NEW m \in ClientRec, NEW p \in {"idle", "send"} \cup Waiting
  PROVE  /\ [m EXCEPT !.pc = p] \in ClientRec /\ [m EXCEPT !.pc = p].pc = p
         /\ [m EXCEPT !.pc = p].n = m.n /\ [m EXCEPT !.pc = p].got = m.got
BY DEF ClientRec

LEMMA BeginView ==
  ASSUME MbTypeOK, NEW c \in MbClient, Begin(c)
  PROVE  /\ mcl' \in [MbClient -> ClientRec] /\ \A d \in MbClient : d # c => mcl'[d] = mcl[d]
         /\ mcl[c].pc = "idle" /\ mcl'[c].pc = "send" /\ mcl'[c].n = mcl[c].n /\ mcl'[c].got = mcl[c].got
<1> DEFINE r == [mcl[c] EXCEPT !.pc = "send", !.step = 1]
<1>1. mcl[c] \in ClientRec
  BY DEF MbTypeOK
<1>2. r \in ClientRec /\ r.pc = "send" /\ r.n = mcl[c].n /\ r.got = mcl[c].got
  BY Zenon, <1>1 DEF ClientRec
<1>3. mcl' = [mcl EXCEPT ![c] = r] /\ mcl[c].pc = "idle"
  BY Zenon DEF Begin, MbTypeOK
<1> HIDE DEF r
<1> QED
  BY Zenon, <1>2, <1>3, OneClient

LEMMA HeaderView ==
  ASSUME MbTypeOK, NEW c \in MbClient, mcl' = [mcl EXCEPT ![c].pc = "tail", ![c].n = @ + 1]
  PROVE  /\ mcl' \in [MbClient -> ClientRec] /\ \A d \in MbClient : d # c => mcl'[d] = mcl[d]
         /\ mcl'[c].pc = "tail" /\ mcl'[c].n = mcl[c].n + 1
<1> DEFINE r(k) == [mcl[c] EXCEPT !.pc = "tail", !.n = k]
<1>1. mcl[c] \in ClientRec /\ mcl[c].n + 1 \in Nat
  BY DEF MbTypeOK, ClientRec
<1>2. \A k \in Nat : r(k) \in ClientRec /\ r(k).pc = "tail" /\ r(k).n = k
  BY Zenon, <1>1 DEF ClientRec, Waiting
<1>3. mcl' = [mcl EXCEPT ![c] = r(mcl[c].n + 1)]
  BY Zenon DEF MbTypeOK
<1> HIDE DEF r
<1>4. r(mcl[c].n + 1) \in ClientRec /\ r(mcl[c].n + 1).pc = "tail" /\ r(mcl[c].n + 1).n = mcl[c].n + 1
  BY <1>1, <1>2
<1>5. /\ mcl' \in [MbClient -> ClientRec] /\ mcl'[c] = r(mcl[c].n + 1)
      /\ \A d \in MbClient : d # c => mcl'[d] = mcl[d]
  BY Zenon, <1>3, <1>4, OneClient
<1> QED
  BY <1>4, <1>5

LEMMA GotoView ==
  ASSUME MbTypeOK, NEW c \in MbClient, NEW p \in {"idle", "send"} \cup Waiting, MbGoto(c, p)
  PROVE  /\ mcl' \in [MbClient -> ClientRec] /\ \A d \in MbClient : d # c => mcl'[d] = mcl[d]
         /\ mcl'[c].pc = p /\ mcl'[c].n = mcl[c].n
<1> DEFINE r == [mcl[c] EXCEPT !.pc = p]
<1>1. r \in ClientRec /\ r.pc = p /\ r.n = mcl[c].n
  BY PcRec DEF MbTypeOK
<1>2. mcl' = [mcl EXCEPT ![c] = r]
  BY DEF MbGoto, MbTypeOK
<1> HIDE DEF r
<1> QED
  BY Zenon, <1>1, <1>2, OneClient

LEMMA CommandType == MbTypeOK => \A c \in MbClient : /\ Command(c) \in Cmd /\ Command(c).by = c
                                                  /\ Command(c).n = mcl[c].n
BY DEF MbTypeOK, Command, Cmd, ClientRec

\* A command is over: the client is at rest with the answer, or with its own command again.
LEMMA AfterView ==
  ASSUME MbTypeOK, NEW c \in MbClient, NEW ok \in BOOLEAN, After(c, ok), ok => Head(rd_fifo).cmd = Command(c)
  PROVE  /\ mcl' \in [MbClient -> ClientRec] /\ \A d \in MbClient : d # c => mcl'[d] = mcl[d]
         /\ mcl'[c].pc \in {"idle", "send"} /\ mcl'[c].n = mcl[c].n /\ mcl'[c].got = Command(c)
         /\ mb_lock' = IF mcl'[c].pc = "idle" /\ mb_lock = c THEN "none" ELSE mb_lock
<1> DEFINE p == IF Ended(c, ok) THEN "idle" ELSE "send"
           st == IF Ended(c, ok) THEN 0 ELSE IF ok THEN mcl[c].step + 1 ELSE Steps(c)
           g == IF ok THEN Head(rd_fifo).cmd ELSE Command(c)
           r(x, y, z) == [mcl[c] EXCEPT !.pc = x, !.step = y, !.got = z]
<1>1. mcl[c] \in ClientRec /\ mcl[c].step \in Nat
  BY DEF MbTypeOK, ClientRec
<1>2. g = Command(c) /\ g \in Cmd
  BY CommandType
<1>3. Steps(c) \in Nat
  BY DEF Steps
<1>4. mcl' = [mcl EXCEPT ![c] = r(p, st, g)]
  BY DEF After
<1>5. \A x \in {"idle", "send"}, y \in Nat, z \in Cmd :
         r(x, y, z) \in ClientRec /\ r(x, y, z).pc = x /\ r(x, y, z).n = mcl[c].n /\ r(x, y, z).got = z
  BY Zenon, <1>1 DEF ClientRec
<1>a. mb_lock' = IF Ended(c, ok) /\ mb_lock = c THEN "none" ELSE mb_lock
  BY DEF After
<1>b. p \in {"idle", "send"} /\ (p = "idle" <=> Ended(c, ok))
  OBVIOUS
<1>6. st \in Nat
  <2>1. CASE Ended(c, ok) \/ ~ok
    BY <1>3, <2>1
  <2>2. CASE ~Ended(c, ok) /\ ok
    BY <1>1, <1>3, <2>2
  <2> QED
    BY <2>1, <2>2
<1> HIDE DEF p, st, g, r
<1>7. r(p, st, g) \in ClientRec /\ r(p, st, g).pc = p /\ r(p, st, g).n = mcl[c].n /\ r(p, st, g).got = Command(c)
  BY <1>2, <1>5, <1>6, <1>b
<1>8. /\ mcl' \in [MbClient -> ClientRec] /\ \A d \in MbClient : d # c => mcl'[d] = mcl[d]
      /\ mcl'[c] = r(p, st, g)
  BY Zenon, <1>4, <1>7, OneClient
<1> QED
  BY <1>7, <1>8, <1>a, <1>b

-----------------------------------------------------------------------------
(* Who waits, and for what                                                 *)

LEMMA OnlyOne ==
  ASSUME Locked, NEW c \in MbClient, NEW d \in MbClient, mcl[c].pc # "idle", mcl[d].pc # "idle", SameGroup(c, d)
  PROVE  c = d
BY DEF Locked, SameGroup, Kind

LEMMA AllowedGrows ==
  ASSUME mb_world' = mb_world, MbTypeOK,
         \A d \in MbClient : mcl'[d].pc \in Waiting => mcl[d].pc \in Waiting /\ mcl'[d].n = mcl[d].n
  PROVE  Allowed \subseteq Allowed'
<1> SUFFICES ASSUME NEW k \in Allowed PROVE k \in Allowed'
  OBVIOUS
<1>1. k \in Cmd
  BY DEF Allowed
<1>2. ASSUME NEW d \in MbClient, mcl'[d].pc \in Waiting, SameGroup(k.by, d)' PROVE k = Command(d)'
  <2>1. SameGroup(k.by, d) /\ mcl[d].pc \in Waiting
    BY <1>2 DEF SameGroup, Bmc
  <2>2. k = Command(d)
    BY <2>1 DEF Allowed
  <2> QED
    BY <1>2, <2>2 DEF Command
<1> QED
  BY <1>1, <1>2 DEF Allowed

LEMMA FifosGrow ==
  ASSUME NEW S, NEW T, S \subseteq T
  PROVE  /\ Seq([cmd : S, last : BOOLEAN]) \subseteq Seq([cmd : T, last : BOOLEAN])
         /\ Seq([cmd : S, long : BOOLEAN]) \subseteq Seq([cmd : T, long : BOOLEAN])
         /\ Seq(S) \subseteq Seq(T)
<1>1. /\ [cmd : S, last : BOOLEAN] \subseteq [cmd : T, last : BOOLEAN]
      /\ [cmd : S, long : BOOLEAN] \subseteq [cmd : T, long : BOOLEAN]
  OBVIOUS
<1> QED
  BY Zenon, <1>1, SeqMonotonic

\* A sequence whose elements are in a smaller set.
LEMMA SeqOf ==
  ASSUME NEW S, NEW s \in Seq(S), NEW T, \A i \in DOMAIN s : s[i] \in T
  PROVE  s \in Seq(T)
<1>1. Len(s) \in Nat /\ DOMAIN s = 1 .. Len(s)
  BY LenProperties
<1>2. SubSeq(s, 1, Len(s)) \in Seq(T)
  BY <1>1, SubSeqProperties
<1> QED
  BY <1>2, SubSeqFull

\* What follows from the end of a command, however it ended.
LEMMA EndsCommand ==
  ASSUME MbInv, NEW c \in MbClient, mb_world' = mb_world, mcl[c].pc \in Waiting,
         mcl' \in [MbClient -> ClientRec], \A d \in MbClient : d # c => mcl'[d] = mcl[d],
         mcl'[c].pc \in {"idle", "send"}, mcl'[c].n = mcl[c].n, mcl'[c].got = Command(c),
         mb_lock' = IF mcl'[c].pc = "idle" /\ mb_lock = c THEN "none" ELSE mb_lock,
         wr_fifo' \in Seq([cmd : Allowed, last : BOOLEAN]), executing' \in Seq(Allowed),
         rd_fifo' \in Seq([cmd : Allowed, long : BOOLEAN]),
         ~Bmc => SdmAt(<<>>, <<>>, <<>>)'
  PROVE  MbInv'
<1>0. MbTypeOK /\ Fifos /\ Locked /\ MbOwnAnswer
  BY DEF MbInv
<1>1. MbTypeOK'
  BY <1>0 DEF MbTypeOK
<1>2. \A d \in MbClient : mcl'[d].pc \in Waiting => d # c /\ mcl[d].pc \in Waiting /\ mcl'[d].n = mcl[d].n
  BY DEF Waiting
<1>3. Fifos'
  <2>1. Allowed \subseteq Allowed'
    BY <1>0, <1>2, AllowedGrows
  <2> QED
    BY Zenon, <2>1, FifosGrow DEF Fifos
<1>4. Locked'
  <2> SUFFICES ASSUME NEW d \in MbClient, mcl'[d].pc # "idle", Bmc => d # "flash" PROVE mb_lock' = d
    BY DEF Locked, Bmc
  <2>1. mcl[d].pc # "idle"
    BY DEF Waiting
  <2>2. mb_lock = d
    BY <1>0, <2>1 DEF Locked
  <2> QED
    BY <2>2
<1>5. ~Bmc' => SdmShape'
  <2> SUFFICES ASSUME ~Bmc PROVE SdmShape'
    BY DEF Bmc
  <2>1. \A d \in MbClient : mcl'[d].pc \notin Waiting
    <3> SUFFICES ASSUME NEW d \in MbClient, mcl'[d].pc \in Waiting PROVE FALSE
      OBVIOUS
    <3>1. d # c /\ mcl[d].pc # "idle" /\ mcl[c].pc # "idle"
      BY <1>2 DEF Waiting
    <3> QED
      BY <1>0, <3>1, OnlyOne DEF SameGroup
  <2> QED
    BY Zenon, <2>1 DEF SdmShape, SdmOf, Waiting
<1>6. MbOwnAnswer'
  <2> SUFFICES ASSUME NEW d \in MbClient, mcl'[d].pc \in {"idle", "send"} PROVE mcl'[d].got = Command(d)'
    BY DEF MbOwnAnswer
  <2>1. Command(d)' = Command(d)
    BY DEF Command
  <2> QED
    BY <1>0, <2>1 DEF MbOwnAnswer
<1> QED
  BY <1>1, <1>3, <1>4, <1>5, <1>6 DEF MbInv

-----------------------------------------------------------------------------
(* A session begins                                                        *)

LEMMA Begins ==
  ASSUME MbInv, NEW c \in MbClient, sdm_try_lock(c) \/ i2c_read_reg(c) \/ file_command(c)
  PROVE  MbInv'
<1>0. MbTypeOK /\ Fifos /\ Locked /\ MbOwnAnswer /\ (~Bmc => SdmShape)
  BY DEF MbInv
<1>1. Begin(c) /\ UNCHANGED <<mb_world, wr_fifo, executing, rd_fifo>>
  BY DEF sdm_try_lock, i2c_read_reg, file_command, Begin
<1>2. \/ mb_lock = "none" /\ mb_lock' = c
      \/ Bmc /\ c = "flash" /\ mb_lock' = mb_lock
  BY DEF sdm_try_lock, i2c_read_reg, file_command
<1>3. /\ mcl' \in [MbClient -> ClientRec] /\ \A d \in MbClient : d # c => mcl'[d] = mcl[d]
      /\ mcl[c].pc = "idle" /\ mcl'[c].pc = "send" /\ mcl'[c].n = mcl[c].n /\ mcl'[c].got = mcl[c].got
  BY <1>0, <1>1, BeginView
<1>4. MbTypeOK'
  BY <1>0, <1>1, <1>2, <1>3 DEF MbTypeOK
<1>5. /\ \A d \in MbClient : mcl'[d].pc \in Waiting => mcl[d].pc \in Waiting /\ mcl'[d].n = mcl[d].n
      /\ \A d \in MbClient : mcl'[d].n = mcl[d].n /\ mcl'[d].got = mcl[d].got
      /\ \A d \in MbClient : mcl'[d].pc # mcl[d].pc => mcl[d].pc = "idle" /\ mcl'[d].pc = "send"
  BY <1>3 DEF Waiting
<1>6. Fifos'
  <2>1. Allowed \subseteq Allowed'
    BY <1>0, <1>1, <1>5, AllowedGrows
  <2> QED
    BY Zenon, <1>0, <1>1, <2>1, FifosGrow DEF Fifos
<1>7. Locked'
  <2> SUFFICES ASSUME NEW d \in MbClient, mcl'[d].pc # "idle", Bmc => d # "flash" PROVE mb_lock' = d
    BY <1>1 DEF Locked, Bmc
  <2>1. CASE d = c
    BY <1>2, <2>1
  <2>2. CASE d # c
    <3>1. mb_lock = d
      BY <1>0, <1>3, <2>2 DEF Locked
    <3>2. d # "none"
      BY MbConstants DEF MbClient
    <3> QED
      BY <1>2, <3>1, <3>2
  <2> QED
    BY <2>1, <2>2
<1>8. ~Bmc' => SdmShape'
  <2> SUFFICES ASSUME ~Bmc PROVE SdmShape'
    BY <1>1 DEF Bmc
  <2>1. ASSUME NEW d \in MbClient PROVE SdmOf(d)'
    <3>1. Command(d)' = Command(d) /\ Piece(d, TRUE)' = Piece(d, TRUE) /\ Piece(d, FALSE)' = Piece(d, FALSE)
      BY Zenon, <1>5 DEF Command, Piece
    <3>2. SdmOf(d)
      BY <1>0 DEF SdmShape
    <3> QED
      BY Zenon, <1>1, <1>5, <3>1, <3>2 DEF SdmOf, SdmAt
  <2>2. (\A d \in MbClient : mcl'[d].pc \notin Waiting) => SdmAt(<<>>, <<>>, <<>>)'
    BY <1>0, <1>1, <1>5 DEF SdmShape, SdmAt, Waiting
  <2> QED
    BY <2>1, <2>2 DEF SdmShape
<1>9. MbOwnAnswer'
  BY <1>0, <1>5 DEF MbOwnAnswer, Command
<1> QED
  BY <1>4, <1>6, <1>7, <1>8, <1>9 DEF MbInv

-----------------------------------------------------------------------------
(* A command is sent                                                       *)

\* With what is on its way settled, the header of a command finds nothing of its group.
LEMMA SendsHeader ==
  ASSUME Timely, MbInv, NEW c \in MbClient, mcl[c].pc = "send", Settled,
         mcl' = [mcl EXCEPT ![c].pc = "tail", ![c].n = @ + 1],
         UNCHANGED <<mb_world, executing, mb_lock>>,
         rd_fifo' = (IF Bmc THEN <<>> ELSE rd_fifo),
         \/ wr_fifo' = Append(wr_fifo, [cmd |-> [by |-> c, n |-> mcl[c].n + 1], last |-> FALSE])
         \/ ~Bmc /\ wr_fifo' = wr_fifo
  PROVE  MbInv'
<1> DEFINE k0 == [by |-> c, n |-> mcl[c].n + 1]
<1>0. MbTypeOK /\ Fifos /\ Locked /\ MbOwnAnswer /\ (~Bmc => SdmShape)
  BY DEF MbInv
<1>1. /\ mcl' \in [MbClient -> ClientRec] /\ \A d \in MbClient : d # c => mcl'[d] = mcl[d]
      /\ mcl'[c].pc = "tail" /\ mcl'[c].n = mcl[c].n + 1
  BY Zenon, <1>0, HeaderView
<1>2. k0 \in Cmd /\ Command(c)' = k0
  BY <1>0, <1>1 DEF Cmd, MbTypeOK, ClientRec, Command
<1>3. \A d \in MbClient : d # c /\ mcl[d].pc # "idle" => ~SameGroup(c, d) /\ ~SameGroup(d, c)
  BY <1>0, OnlyOne DEF SameGroup
<1>4. \A d, e \in MbClient : SameGroup(d, e)' = SameGroup(d, e)
  BY DEF SameGroup, Bmc
<1>5. k0 \in Allowed'
  <2> SUFFICES ASSUME NEW d \in MbClient, mcl'[d].pc \in Waiting, SameGroup(c, d) PROVE k0 = Command(d)'
    BY Zenon, <1>2, <1>4 DEF Allowed
  <2>1. d = c
    BY <1>1, <1>3 DEF Waiting
  <2> QED
    BY <1>2, <2>1
<1>6. \A k \in Known \cap Allowed : k \in Allowed'
  <2> SUFFICES ASSUME NEW k \in Known, k \in Allowed PROVE k \in Allowed'
    OBVIOUS
  <2>1. k \in Cmd /\ k.by \in MbClient
    BY DEF Allowed, Cmd
  <2>2. mcl[k.by].pc \in Waiting
    BY <1>0, MbWorld DEF Settled, Waiting
  <2>3. k.by # c /\ mcl[k.by].pc # "idle"
    BY <2>2 DEF Waiting
  <2> SUFFICES ASSUME NEW d \in MbClient, mcl'[d].pc \in Waiting, SameGroup(k.by, d) PROVE k = Command(d)'
    BY Zenon, <2>1, <1>4 DEF Allowed
  <2>4. d # c
    BY <1>3, <2>1, <2>3
  <2>5. k = Command(d)
    BY <1>1, <2>4 DEF Allowed
  <2> QED
    BY <1>1, <2>4, <2>5 DEF Command
<1>7. wr_fifo \in Seq([cmd : Allowed', last : BOOLEAN])
  <2>1. \A i \in DOMAIN wr_fifo : wr_fifo[i] \in [cmd : Allowed, last : BOOLEAN]
    BY Zenon, <1>0, LenProperties DEF Fifos
  <2>2. \A i \in DOMAIN wr_fifo : wr_fifo[i].cmd \in Known
    BY DEF Known
  <2>3. \A i \in DOMAIN wr_fifo : wr_fifo[i] \in [cmd : Allowed', last : BOOLEAN]
    BY <1>6, <2>1, <2>2
  <2> QED
    BY Zenon, <1>0, <2>3, SeqOf DEF Fifos
<1>8. executing \in Seq(Allowed')
  <2>1. \A i \in DOMAIN executing : executing[i] \in Allowed /\ executing[i] \in Known
    BY <1>0 DEF Fifos, Known
  <2> QED
    BY <1>0, <1>6, <2>1, SeqOf DEF Fifos
<1>9. ~Bmc => SdmAt(<<>>, <<>>, <<>>)
  <2> SUFFICES ASSUME ~Bmc PROVE SdmAt(<<>>, <<>>, <<>>)
    OBVIOUS
  <2>1. \A d \in MbClient : mcl[d].pc \notin Waiting
    BY <1>3 DEF SameGroup, Waiting
  <2> QED
    BY <1>0, <2>1 DEF SdmShape
<1>10. Fifos'
  <2> DEFINE W == [cmd : Allowed', last : BOOLEAN]
             w == [cmd |-> k0, last |-> FALSE]
  <2>1. w \in W /\ wr_fifo \in Seq(W) /\ (wr_fifo' = Append(wr_fifo, w) \/ wr_fifo' = wr_fifo)
    BY <1>5, <1>7
  <2>2. wr_fifo' \in Seq(W)
    <3> HIDE DEF W, w
    <3> QED
      BY <2>1
  <2>3. rd_fifo' = <<>>
    BY <1>9 DEF SdmAt
  <2>4. <<>> \in Seq([cmd : Allowed', long : BOOLEAN])
    BY EmptySeq
  <2> QED
    BY Zenon, <1>8, <2>2, <2>3, <2>4 DEF Fifos
<1>11. MbTypeOK'
  BY <1>0, <1>1 DEF MbTypeOK
<1>12. Locked'
  <2> SUFFICES ASSUME NEW d \in MbClient, mcl'[d].pc # "idle", Bmc => d # "flash" PROVE mb_lock' = d
    BY DEF Locked, Bmc
  <2> QED
    BY <1>0, <1>1 DEF Locked
<1>13. ~Bmc' => SdmShape'
  <2> SUFFICES ASSUME ~Bmc PROVE SdmShape'
    BY DEF Bmc
  <2>1. Piece(c, FALSE)' = [cmd |-> k0, last |-> FALSE]
    BY <1>2 DEF Piece
  <2>2. wr_fifo = <<>> /\ executing = <<>> /\ rd_fifo = <<>>
    BY <1>9 DEF SdmAt
  <2>a. \A x : Append(<<>>, x) = <<x>>
    OBVIOUS
  <2>3. wr_fifo' = <<>> \/ wr_fifo' = <<Piece(c, FALSE)'>>
    BY Zenon, <2>1, <2>2, <2>a
  <2>4. SdmOf(c)'
    BY Zenon, <1>1, <2>2, <2>3 DEF SdmOf, SdmAt
  <2>5. ASSUME NEW d \in MbClient, d # c PROVE SdmOf(d)'
    <3>1. mcl'[d].pc = "idle"
      BY <1>1, <1>3, <2>5 DEF SameGroup
    <3> QED
      BY <3>1 DEF SdmOf
  <2> QED
    BY <1>1, <2>4, <2>5 DEF SdmShape, Waiting
<1>14. MbOwnAnswer'
  <2> SUFFICES ASSUME NEW d \in MbClient, mcl'[d].pc \in {"idle", "send"} PROVE mcl'[d].got = Command(d)'
    BY Zenon DEF MbOwnAnswer
  <2> QED
    BY <1>0, <1>1 DEF MbOwnAnswer, Command
<1> QED
  BY <1>10, <1>11, <1>12, <1>13, <1>14 DEF MbInv

LEMMA Sends ==
  ASSUME Timely, MbInv, NEW c \in MbClient, send_header(c) \/ send_header_lost(c)
  PROVE  MbInv'
<1>1. CASE send_header(c)
  BY Zenon, <1>1, SendsHeader DEF send_header, reset_stale
<1>2. CASE send_header_lost(c)
  BY Zenon, <1>2, SendsHeader DEF send_header_lost
<1> QED
  BY <1>1, <1>2

LEMMA AppendSecond ==
  ASSUME NEW x, NEW y
  PROVE  Append(<<x>>, y) = <<x, y>>
<1> DEFINE S == {x, y}
           s == Append(<<x>>, y)
           t == <<x, y>>
<1>1. <<x>> \in Seq(S) /\ Len(<<x>>) = 1 /\ <<x>>[1] = x
  OBVIOUS
<1>2. t \in Seq(S) /\ Len(t) = 2 /\ t[1] = x /\ t[2] = y
  OBVIOUS
<1>3. s \in Seq(S) /\ Len(s) = 2 /\ s[1] = x /\ s[2] = y
  BY <1>1, AppendProperties
<1> HIDE DEF S, s, t
<1>4. \A i \in 1 .. Len(s) : s[i] = t[i]
  BY <1>2, <1>3
<1>5. s = t
  BY <1>2, <1>3, <1>4, SeqEqual
<1> QED
  BY <1>5 DEF s, t

LEMMA SendsData ==
  ASSUME MbInv, NEW c \in MbClient, send_data(c)
  PROVE  MbInv'
<1> DEFINE p == IF Bmc THEN "status" ELSE "recv"
           W == [cmd : Allowed', last : BOOLEAN]
           w == [cmd |-> Command(c), last |-> TRUE]
<1>0. MbTypeOK /\ Fifos /\ Locked /\ MbOwnAnswer /\ (~Bmc => SdmShape)
  BY DEF MbInv
<1>1. /\ mcl[c].pc = "tail" /\ wr_fifo' = Append(wr_fifo, w) /\ MbGoto(c, p)
      /\ UNCHANGED <<mb_world, executing, rd_fifo, mb_lock>>
  BY DEF send_data
<1>2. p \in {"idle", "send"} \cup Waiting /\ p \in Waiting /\ p # "tail"
  BY DEF Waiting
<1>3. /\ mcl' \in [MbClient -> ClientRec] /\ \A d \in MbClient : d # c => mcl'[d] = mcl[d]
      /\ mcl'[c].pc = p /\ mcl'[c].n = mcl[c].n
  BY <1>0, <1>1, <1>2, GotoView
<1>4. Allowed \subseteq Allowed'
  BY <1>0, <1>1, <1>3, AllowedGrows DEF Waiting
<1>5. Command(c) \in Allowed
  <2>1. Command(c) \in Cmd /\ Command(c).by = c
    BY <1>0, CommandType
  <2>2. \A d \in MbClient : mcl[d].pc \in Waiting /\ SameGroup(c, d) => d = c
    BY <1>0, <1>1, OnlyOne DEF Waiting
  <2> QED
    BY <2>1, <2>2 DEF Allowed
<1>6. Fifos'
  <2>1. wr_fifo \in Seq(W) /\ executing \in Seq(Allowed') /\ rd_fifo \in Seq([cmd : Allowed', long : BOOLEAN])
    BY Zenon, <1>0, <1>4, FifosGrow DEF Fifos
  <2>2. w \in W
    BY <1>4, <1>5
  <2>3. wr_fifo' \in Seq(W)
    <3> HIDE DEF W, w
    <3> QED
      BY <1>1, <2>1, <2>2
  <2> QED
    BY <1>1, <2>1, <2>3 DEF Fifos
<1>7. MbTypeOK'
  BY <1>0, <1>1, <1>3 DEF MbTypeOK
<1>8. Locked'
  <2> SUFFICES ASSUME NEW d \in MbClient, mcl'[d].pc # "idle", Bmc => d # "flash" PROVE mb_lock' = d
    BY <1>1 DEF Locked, Bmc
  <2> QED
    BY <1>0, <1>1, <1>3 DEF Locked
<1>9. ~Bmc' => SdmShape'
  <2> SUFFICES ASSUME ~Bmc PROVE SdmShape'
    BY <1>1 DEF Bmc
  <2>1. Piece(c, FALSE)' = Piece(c, FALSE) /\ Piece(c, TRUE)' = w
    BY <1>3 DEF Piece, Command
  <2>2. SdmAt(<<>>, <<>>, <<>>) \/ SdmAt(<<Piece(c, FALSE)>>, <<>>, <<>>)
    BY Zenon, <1>0, <1>1 DEF SdmShape, SdmOf
  <2>a. Append(<<>>, w) = <<w>>
    OBVIOUS
  <2>b. Append(<<Piece(c, FALSE)>>, w) = <<Piece(c, FALSE), w>>
    BY Zenon, AppendSecond
  <2>3. /\ wr_fifo' = <<Piece(c, TRUE)'>> \/ wr_fifo' = <<Piece(c, FALSE)', Piece(c, TRUE)'>>
        /\ executing' = <<>> /\ rd_fifo' = <<>>
    <3> HIDE DEF w
    <3> QED
      BY Zenon, <1>1, <2>1, <2>2, <2>a, <2>b DEF SdmAt
  <2>4. SdmOf(c)'
    BY Zenon, <1>3, <2>3 DEF SdmOf, SdmAt
  <2>5. ASSUME NEW d \in MbClient, d # c PROVE SdmOf(d)'
    <3>1. mcl'[d].pc = "idle"
      BY <1>0, <1>1, <1>3, <2>5, OnlyOne DEF SameGroup
    <3> QED
      BY <3>1 DEF SdmOf
  <2> QED
    BY <1>2, <1>3, <2>4, <2>5 DEF SdmShape
<1>10. MbOwnAnswer'
  <2> SUFFICES ASSUME NEW d \in MbClient, mcl'[d].pc \in {"idle", "send"} PROVE mcl'[d].got = Command(d)'
    BY DEF MbOwnAnswer
  <2> QED
    BY <1>0, <1>2, <1>3 DEF MbOwnAnswer, Command, Waiting
<1> QED
  BY <1>6, <1>7, <1>8, <1>9, <1>10 DEF MbInv

-----------------------------------------------------------------------------
(* A command is over                                                       *)

LEMMA ChecksStatus ==
  ASSUME MbInv, NEW c \in MbClient, check_status(c)
  PROVE  MbInv'
<1>0. MbTypeOK /\ Fifos /\ Locked /\ MbOwnAnswer /\ (~Bmc => SdmShape)
  BY DEF MbInv
<1>1. mcl[c].pc = "status" /\ UNCHANGED <<mb_world, wr_fifo, executing, rd_fifo>>
  BY DEF check_status
<1>2. Bmc /\ mcl[c].pc \in Waiting
  BY Zenon, <1>0, <1>1 DEF SdmShape, SdmOf, Waiting
<1>3. CASE After(c, FALSE)
  BY Zenon, <1>0, <1>1, <1>2, <1>3, AfterView, EndsCommand DEF Fifos
<1>4. CASE MbGoto(c, "recv") /\ mb_lock' = mb_lock
  <2>1. /\ mcl' \in [MbClient -> ClientRec] /\ \A d \in MbClient : d # c => mcl'[d] = mcl[d]
        /\ mcl'[c].pc = "recv" /\ mcl'[c].n = mcl[c].n
    BY <1>0, <1>4, GotoView DEF Waiting
  <2>2. MbTypeOK'
    BY <1>0, <1>1, <1>4, <2>1 DEF MbTypeOK
  <2>3. Fifos'
    <3>1. Allowed \subseteq Allowed'
      BY <1>0, <1>1, <1>2, <2>1, AllowedGrows
    <3> QED
      BY Zenon, <1>0, <1>1, <3>1, FifosGrow DEF Fifos
  <2>4. Locked' /\ Bmc'
    BY <1>0, <1>1, <1>2, <1>4, <2>1 DEF Locked, Bmc
  <2>5. MbOwnAnswer'
    <3> SUFFICES ASSUME NEW d \in MbClient, mcl'[d].pc \in {"idle", "send"} PROVE mcl'[d].got = Command(d)'
      BY DEF MbOwnAnswer
    <3> QED
      BY <1>0, <2>1 DEF MbOwnAnswer, Command
  <2> QED
    BY <2>2, <2>3, <2>4, <2>5 DEF MbInv
<1> QED
  BY Zenon, <1>3, <1>4 DEF check_status

LEMMA TimesOut ==
  ASSUME Timely, MbInv, NEW c \in MbClient, mb_timeout(c)
  PROVE  MbInv'
<1>0. MbTypeOK /\ Fifos /\ (~Bmc => SdmShape)
  BY DEF MbInv
<1>1. /\ mcl[c].pc \in Waiting /\ After(c, FALSE) /\ UNCHANGED <<mb_world, wr_fifo, executing, rd_fifo>>
      /\ mcl[c].pc = "status" \/ (mcl[c].pc = "recv" /\ rd_fifo = <<>>)
      /\ mb_world.late = "never" => Command(c) \notin Known
  BY Zenon DEF mb_timeout, Waiting
<1>2. ~Bmc => SdmAt(<<>>, <<>>, <<>>)'
  <2> SUFFICES ASSUME ~Bmc PROVE SdmAt(<<>>, <<>>, <<>>)
    BY <1>1 DEF SdmAt
  <2>1. Command(c) \notin Known
    BY <1>0, <1>1, MbWorld
  <2>2. SdmOf(c) /\ mcl[c].pc = "recv" /\ rd_fifo = <<>>
    BY Zenon, <1>0, <1>1 DEF SdmShape, SdmOf
  <2>3. executing # <<Command(c)>>
    <3> SUFFICES ASSUME executing = <<Command(c)>> PROVE FALSE
      OBVIOUS
    <3>1. 1 \in DOMAIN executing /\ executing[1] = Command(c)
      OBVIOUS
    <3> QED
      BY <2>1, <3>1 DEF Known
  <2>4. wr_fifo # <<Piece(c, TRUE)>> /\ wr_fifo # <<Piece(c, FALSE), Piece(c, TRUE)>>
    <3> SUFFICES ASSUME wr_fifo = <<Piece(c, TRUE)>> \/ wr_fifo = <<Piece(c, FALSE), Piece(c, TRUE)>> PROVE FALSE
      BY Zenon
    <3>1. 1 \in DOMAIN wr_fifo /\ wr_fifo[1].cmd = Command(c)
      BY DEF Piece
    <3> QED
      BY <2>1, <3>1 DEF Known
  <2>5. rd_fifo # <<[cmd |-> Command(c), long |-> FALSE]>>
    BY <2>2
  <2> QED
    BY Zenon, <2>2, <2>3, <2>4, <2>5 DEF SdmOf, SdmAt
<1> QED
  BY Zenon, <1>0, <1>1, <1>2, AfterView, EndsCommand DEF Fifos

LEMMA Receives ==
  ASSUME MbInv, NEW c \in MbClient, mb_receive(c)
  PROVE  MbInv'
<1> DEFINE R == [cmd : Allowed, long : BOOLEAN]
           a == Head(rd_fifo)
<1>0. MbTypeOK /\ Fifos
  BY DEF MbInv
<1>1. /\ Bmc /\ mcl[c].pc = "recv" /\ rd_fifo # <<>> /\ UNCHANGED <<mb_world, wr_fifo, executing>>
      /\ mcl[c].pc \in Waiting
  BY DEF mb_receive, Waiting
<1>2. rd_fifo \in Seq(R)
  BY <1>0 DEF Fifos
<1>3. a \in R /\ Tail(rd_fifo) \in Seq(R) /\ <<>> \in Seq(R)
  <2> HIDE DEF R
  <2> QED
    BY <1>1, <1>2, HeadTailProperties, EmptySeq
<1>4. Kind(a.cmd.by) = Kind(c) => a.cmd = Command(c)
  <2>1. a.cmd \in Allowed
    BY <1>3
  <2> HIDE DEF a
  <2> QED
    BY <1>1, <2>1 DEF Allowed, SameGroup
<1>5. \/ After(c, FALSE) /\ rd_fifo' \in {rd_fifo, <<>>}
      \/ After(c, TRUE) /\ a.cmd = Command(c) /\ rd_fifo' = Tail(rd_fifo)
  BY Zenon, <1>4 DEF mb_receive
<1>6. rd_fifo' \in Seq(R)
  BY Zenon, <1>2, <1>3, <1>5
<1> QED
  BY Zenon, <1>0, <1>1, <1>5, <1>6, AfterView, EndsCommand DEF Fifos

LEMMA GetsData ==
  ASSUME MbInv, NEW c \in MbClient, sdm_get_data(c)
  PROVE  MbInv'
<1> DEFINE x == [cmd |-> Command(c), long |-> FALSE]
<1>0. MbTypeOK /\ Fifos /\ (~Bmc => SdmShape)
  BY DEF MbInv
<1>1. /\ ~Bmc /\ mcl[c].pc = "recv" /\ rd_fifo # <<>> /\ UNCHANGED <<mb_world, wr_fifo, executing>>
      /\ mcl[c].pc \in Waiting /\ After(c, TRUE) /\ rd_fifo' = Tail(rd_fifo)
  BY Zenon DEF sdm_get_data, Waiting
<1>2. SdmAt(<<>>, <<>>, <<x>>)
  BY Zenon, <1>0, <1>1 DEF SdmShape, SdmOf, SdmAt
<1>3. Head(<<x>>) = x /\ Tail(<<x>>) = <<>> /\ x.cmd = Command(c)
  OBVIOUS
<1>4. Head(rd_fifo).cmd = Command(c) /\ rd_fifo' = <<>> /\ SdmAt(<<>>, <<>>, <<>>)'
  BY <1>1, <1>2, <1>3 DEF SdmAt
<1>5. rd_fifo' \in Seq([cmd : Allowed, long : BOOLEAN])
  BY <1>4, EmptySeq
<1> QED
  BY Zenon, <1>0, <1>1, <1>4, <1>5, AfterView, EndsCommand DEF Fifos

-----------------------------------------------------------------------------
(* The card                                                                *)

\* A step of the card moves what is on its way or drops it.
LEMMA CardMoves ==
  ASSUME MbInv, UNCHANGED <<mb_world, mb_lock, mcl>>,
         wr_fifo' \in Seq([cmd : Allowed, last : BOOLEAN]), executing' \in Seq(Allowed),
         rd_fifo' \in Seq([cmd : Allowed, long : BOOLEAN]),
         ~Bmc => SdmShape'
  PROVE  MbInv'
<1>1. Allowed' = Allowed
  BY DEF Allowed, Command, SameGroup, Bmc
<1> QED
  BY <1>1 DEF MbInv, MbTypeOK, Fifos, Locked, Bmc, MbOwnAnswer, Command

LEMMA Takes ==
  ASSUME MbInv, card_take
  PROVE  MbInv'
<1> DEFINE W == [cmd : Allowed, last : BOOLEAN]
<1>0. wr_fifo \in Seq(W) /\ executing \in Seq(Allowed) /\ rd_fifo \in Seq([cmd : Allowed, long : BOOLEAN])
      /\ (~Bmc => SdmShape) /\ MbTypeOK
  BY DEF MbInv, Fifos
<1>1. PICK i \in DOMAIN wr_fifo :
         /\ wr_fifo[i].last
         /\ \A j \in 1 .. i - 1 : ~wr_fifo[j].last
         /\ executing' = IF i = 2 /\ wr_fifo[1].cmd = wr_fifo[2].cmd THEN Append(executing, wr_fifo[1].cmd)
                         ELSE executing
         /\ wr_fifo' = SubSeq(wr_fifo, i + 1, Len(wr_fifo))
  BY Zenon DEF card_take
<1>2. UNCHANGED <<mb_world, rd_fifo, mb_lock, mcl>>
  BY DEF card_take
<1>3. DOMAIN wr_fifo = 1 .. Len(wr_fifo) /\ Len(wr_fifo) \in Nat /\ \A j \in 1 .. Len(wr_fifo) : wr_fifo[j] \in W
  <2> HIDE DEF W
  <2> QED
    BY <1>0, LenProperties
<1>4. wr_fifo' \in Seq(W)
  <2> HIDE DEF W
  <2>1. i + 1 \in Int /\ Len(wr_fifo) \in Int /\ \A j \in i + 1 .. Len(wr_fifo) : wr_fifo[j] \in W
    BY <1>1, <1>3
  <2>2. SubSeq(wr_fifo, i + 1, Len(wr_fifo)) \in Seq(W)
    BY <2>1, SubSeqProperties
  <2> QED
    BY <1>1, <2>2
<1>5. executing' \in Seq(Allowed)
  <2>1. wr_fifo[1].cmd \in Allowed
    BY <1>1, <1>3
  <2> QED
    BY <1>0, <1>1, <2>1, AppendProperties
<1>6. ~Bmc => SdmShape'
  <2> SUFFICES ASSUME ~Bmc PROVE SdmShape'
    OBVIOUS
  <2>1. wr_fifo # <<>>
    BY <1>1
  <2>2. PICK c \in MbClient : mcl[c].pc \in Waiting
    BY <1>0, <2>1 DEF SdmShape, SdmAt
  <2>3. SdmOf(c) /\ Locked
    BY <1>0 DEF SdmShape, MbInv
  <2>a. Command(c)' = Command(c)
    BY <1>2 DEF Command
  <2>4. ASSUME NEW d \in MbClient, d # c PROVE SdmOf(d)'
    <3>1. mcl[d].pc = "idle"
      BY <2>2, <2>3, <2>4, OnlyOne DEF SameGroup, Waiting
    <3> QED
      BY <1>2, <3>1 DEF SdmOf
  <2>5. SdmOf(c)'
    <3>1. CASE wr_fifo = <<Piece(c, FALSE)>>
      <4>1. Len(wr_fifo) = 1 /\ ~wr_fifo[1].last
        BY <3>1 DEF Piece
      <4> QED
        BY <1>1, <1>3, <4>1
    <3>2. CASE SdmAt(<<Piece(c, TRUE)>>, <<>>, <<>>) /\ mcl[c].pc = "recv"
      <4>1. Len(wr_fifo) = 1
        BY <3>2 DEF SdmAt
      <4>2. i = 1
        BY <1>1, <1>3, <4>1
      <4>3. wr_fifo' = SubSeq(wr_fifo, 2, 1) /\ executing' = executing
        BY <1>1, <4>1, <4>2
      <4>4. wr_fifo' = <<>>
        BY <4>3, SubSeqEmpty
      <4>5. SdmAt(<<>>, <<>>, <<>>)'
        BY <1>2, <3>2, <4>3, <4>4 DEF SdmAt
      <4> QED
        BY <1>2, <3>2, <4>5 DEF SdmOf
    <3>3. CASE SdmAt(<<Piece(c, FALSE), Piece(c, TRUE)>>, <<>>, <<>>) /\ mcl[c].pc = "recv"
      <4>1. /\ Len(wr_fifo) = 2 /\ ~wr_fifo[1].last
            /\ wr_fifo[1].cmd = Command(c) /\ wr_fifo[2].cmd = Command(c)
        BY <3>3 DEF SdmAt, Piece
      <4>2. i = 2
        BY <1>1, <1>3, <4>1
      <4>3. wr_fifo' = SubSeq(wr_fifo, 3, 2) /\ executing' = Append(executing, Command(c))
        BY <1>1, <4>1, <4>2
      <4>4. wr_fifo' = <<>>
        BY <4>3, SubSeqEmpty
      <4>5. Append(<<>>, Command(c)) = <<Command(c)>>
        OBVIOUS
      <4>6. SdmAt(<<>>, <<Command(c)>>, <<>>)'
        BY <1>2, <2>a, <3>3, <4>3, <4>4, <4>5 DEF SdmAt
      <4> QED
        BY <1>2, <3>3, <4>6 DEF SdmOf
    <3> QED
      BY Zenon, <2>1, <2>2, <2>3, <3>1, <3>2, <3>3 DEF SdmOf, SdmAt, Waiting
  <2>6. mcl'[c].pc \in Waiting
    BY <1>2, <2>2
  <2> QED
    BY <2>4, <2>5, <2>6 DEF SdmShape
<1> QED
  BY <1>0, <1>2, <1>4, <1>5, <1>6, CardMoves

LEMMA Answers ==
  ASSUME MbInv, card_answer
  PROVE  MbInv'
<1> DEFINE R == [cmd : Allowed, long : BOOLEAN]
<1>0. wr_fifo \in Seq([cmd : Allowed, last : BOOLEAN]) /\ executing \in Seq(Allowed) /\ rd_fifo \in Seq(R)
      /\ (~Bmc => SdmShape) /\ MbTypeOK
  BY DEF MbInv, Fifos
<1>1. PICK long \in IF Bmc THEN BOOLEAN ELSE {FALSE} : rd_fifo' = <<[cmd |-> Head(executing), long |-> long]>>
  BY Zenon DEF card_answer
<1>2. executing # <<>> /\ executing' = Tail(executing) /\ UNCHANGED <<mb_world, wr_fifo, mb_lock, mcl>>
  BY DEF card_answer
<1>3. Head(executing) \in Allowed /\ Tail(executing) \in Seq(Allowed)
  BY <1>0, <1>2, HeadTailProperties
<1>4. rd_fifo' \in Seq(R)
  <2> DEFINE r == [cmd |-> Head(executing), long |-> long]
  <2>1. r \in R
    BY Zenon, <1>1, <1>3
  <2>2. <<r>> \in Seq(R)
    <3> HIDE DEF r, R
    <3> QED
      BY <2>1
  <2> QED
    BY <1>1, <2>2
<1>5. ~Bmc => SdmShape'
  <2> SUFFICES ASSUME ~Bmc PROVE SdmShape'
    OBVIOUS
  <2>1. PICK c \in MbClient : mcl[c].pc \in Waiting
    BY <1>0, <1>2 DEF SdmShape, SdmAt
  <2>2. SdmOf(c) /\ Locked
    BY <1>0 DEF SdmShape, MbInv
  <2>3. SdmAt(<<>>, <<Command(c)>>, <<>>) /\ mcl[c].pc = "recv"
    BY Zenon, <1>2, <2>1, <2>2 DEF SdmOf, SdmAt, Waiting
  <2>4. Head(<<Command(c)>>) = Command(c) /\ Tail(<<Command(c)>>) = <<>>
    OBVIOUS
  <2>5. Command(c)' = Command(c)
    BY <1>2 DEF Command
  <2>6. SdmAt(<<>>, <<>>, <<[cmd |-> Command(c), long |-> FALSE]>>)'
    BY <1>1, <1>2, <2>3, <2>4, <2>5 DEF SdmAt
  <2>7. SdmOf(c)'
    BY <1>2, <2>3, <2>6 DEF SdmOf
  <2>8. ASSUME NEW d \in MbClient, d # c PROVE SdmOf(d)'
    <3>1. mcl[d].pc = "idle"
      BY <2>1, <2>2, <2>8, OnlyOne DEF SameGroup, Waiting
    <3> QED
      BY <1>2, <3>1 DEF SdmOf
  <2>9. mcl'[c].pc \in Waiting
    BY <1>2, <2>1
  <2> QED
    BY <2>7, <2>8, <2>9 DEF SdmShape
<1> QED
  BY <1>0, <1>2, <1>3, <1>4, <1>5, CardMoves

-----------------------------------------------------------------------------
LEMMA MbInitInv == MbInit => MbInv
<1> SUFFICES ASSUME MbInit PROVE MbInv
  OBVIOUS
<1> DEFINE r(c) == [pc |-> "idle", n |-> 0, step |-> 0, got |-> [by |-> c, n |-> 0]]
<1>1. mcl = [c \in MbClient |-> r(c)]
  BY DEF MbInit
<1>2. \A c \in MbClient : r(c) \in ClientRec /\ r(c).pc = "idle" /\ r(c).n = 0 /\ r(c).got = [by |-> c, n |-> 0]
  BY DEF ClientRec, Cmd
<1> HIDE DEF r
<1>3. mcl \in [MbClient -> ClientRec] /\ \A c \in MbClient : mcl[c] = r(c)
  BY Zenon, <1>1, <1>2
<1>4. MbTypeOK
  BY <1>3 DEF MbInit, MbTypeOK
<1>5. \A c \in MbClient : mcl[c].pc = "idle" /\ mcl[c].got = Command(c)
  BY Zenon, <1>2, <1>3 DEF Command
<1>6. Locked /\ MbOwnAnswer
  BY <1>5 DEF Locked, MbOwnAnswer
<1>7. SdmShape
  BY <1>5 DEF SdmShape, SdmOf, SdmAt, MbInit
<1>8. Fifos
  BY EmptySeq DEF Fifos, MbInit
<1> QED
  BY <1>4, <1>6, <1>7, <1>8 DEF MbInv

LEMMA MbStep ==
  ASSUME Timely
  PROVE  MbInv /\ [MbNext]_mbVars => MbInv'
<1> SUFFICES ASSUME MbInv, [MbNext]_mbVars PROVE MbInv'
  OBVIOUS
<1>1. ASSUME NEW c \in MbClient, sdm_try_lock(c) \/ i2c_read_reg(c) \/ file_command(c) PROVE MbInv'
  BY <1>1, Begins
<1>2. ASSUME NEW c \in MbClient, send_header(c) \/ send_header_lost(c) PROVE MbInv'
  BY <1>2, Sends
<1>3. ASSUME NEW c \in MbClient, send_data(c) PROVE MbInv'
  BY <1>3, SendsData
<1>4. ASSUME NEW c \in MbClient, check_status(c) PROVE MbInv'
  BY <1>4, ChecksStatus
<1>5. ASSUME NEW c \in MbClient, mb_timeout(c) PROVE MbInv'
  BY <1>5, TimesOut
<1>6. ASSUME NEW c \in MbClient, mb_receive(c) PROVE MbInv'
  BY <1>6, Receives
<1>7. ASSUME NEW c \in MbClient, sdm_get_data(c) PROVE MbInv'
  BY <1>7, GetsData
<1>8. CASE card_take
  BY <1>8, Takes
<1>9. CASE card_answer
  BY <1>9, Answers
<1>10. CASE UNCHANGED mbVars
  <2>1. UNCHANGED <<mb_world, wr_fifo, executing, rd_fifo, mb_lock, mcl>>
    BY <1>10 DEF mbVars
  <2>2. Allowed' = Allowed
    BY <2>1 DEF Allowed, Command, SameGroup, Bmc
  <2> QED
    BY <2>1, <2>2 DEF MbInv, MbTypeOK, Fifos, Locked, Bmc, MbOwnAnswer, Command, SdmShape, SdmOf, SdmAt, Piece
<1> QED
  BY <1>1, <1>2, <1>3, <1>4, <1>5, <1>6, <1>7, <1>8, <1>9, <1>10 DEF MbNext

\* An answer a client of the BMC or of the SDM accepts is the answer to its own last command, for any
\* number of sensors and of commands, if the answers are Timely (_nc_bw_bmc_receive, sdm_get_data).
THEOREM MailboxOwnAnswer ==
  ASSUME Timely
  PROVE  MbSpec => []MbOwnAnswer
<1>1. MbInv => MbOwnAnswer
  BY DEF MbInv
<1> QED
  BY <1>1, MbInitInv, MbStep, PTL DEF MbSpec
=============================================================================
