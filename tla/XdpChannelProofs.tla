-------------------------- MODULE XdpChannelProofs --------------------------
(***************************************************************************)
(* A NAPI poll never finds a controller gone, and a channel that does not  *)
(* run keeps nothing, whatever pools there are and in whatever order the   *)
(* interface and its socket are opened and closed.                         *)
(*                                                                         *)
(* Both need to know what there is at every place of a call: Place says it *)
(* for each value of chan.pc.  Between calls and their parts the channel   *)
(* is Up or Down.                                                          *)
(***************************************************************************)
EXTENDS XdpChannel, TLAPS

Rest == {"idle", "stop", "start", "bind", "unpool"}
Todo == {<<>>, <<"start", "bind">>, <<"bind">>, <<"start", "unpool">>, <<"unpool">>}

ChanType == [running : BOOLEAN, xsk : BOOLEAN, pool : Pool \cup {NoPool}, bound : BOOLEAN, queue : BOOLEAN,
             pc : Rest \cup {"alloc_rx", "alloc_tx", "start_rx", "start_tx", "thread_rx", "thread_tx",
                            "stop_rx", "stop_tx", "destroy"},
             todo : Todo, mode : {"pp", "xsk"}, ok : BOOLEAN]

ChanTypeOK ==
    /\ chan \in ChanType
    /\ ctl \in [Sides -> {"none", "open", "run"}]
    /\ napi \in [Sides -> {"none", "added", "on"}]
    /\ polling \in SUBSET Sides
    /\ thread \in SUBSET Sides

Napi(rx, tx) == napi["rx"] = rx /\ napi["tx"] = tx
BothRun == ctl["rx"] = "run" /\ ctl["tx"] = "run"

Up == chan.running /\ BothRun /\ Napi("on", IF chan.xsk THEN "on" ELSE "none")
Down == ~chan.running /\ ~chan.queue /\ Napi("none", "none") /\ thread = {}
Starting == ~chan.running /\ ~chan.queue /\ thread = {} /\ Napi("added", IF chan.mode = "xsk" THEN "added" ELSE "none")

Place ==
    /\ chan.pc \in Rest => Up \/ Down
    /\ chan.pc \in {"alloc_rx", "alloc_tx", "start_rx", "start_tx", "thread_rx"} => Starting
    /\ chan.pc = "start_tx" => ctl["rx"] = "run"
    /\ chan.pc \in {"thread_rx", "thread_tx"} => BothRun /\ chan.xsk = (chan.mode = "xsk")
    /\ chan.pc = "thread_tx" => /\ ~chan.running /\ ~chan.queue
                               /\ Napi("on", IF chan.xsk THEN "added" ELSE "none")
    /\ chan.pc = "stop_rx" => Up
    /\ chan.pc = "stop_tx" => /\ chan.running /\ ~chan.queue /\ BothRun /\ thread \subseteq {"tx"}
                             /\ Napi("none", IF chan.xsk THEN "on" ELSE "none")
    /\ chan.pc = "destroy" => /\ chan.running /\ ~chan.queue /\ thread = {}
                             /\ Napi("none", "none")

(* Only a NAPI that is on is polled.                                       *)
PollsOn == \A s \in polling : napi[s] = "on"

ChanInv == ChanTypeOK /\ Place /\ PollsOn

(* What is held before anything is acquired, and after all is released.    *)
HeldInv ==
    /\ chan.pc \in Rest /\ ~chan.running => held = DestroyBoth
    /\ chan.pc = "alloc_rx" => held = DestroyBoth
    /\ held = [s \in Sides |-> held[s]]

-----------------------------------------------------------------------------
(* What the steps write                                                    *)

\* The call is over or goes on with a part that begins at rest.
LEMMA ReturnView ==
  ASSUME NEW c \in ChanType, NEW ok \in BOOLEAN
  PROVE  /\ ChReturn(c, ok) \in ChanType /\ ChReturn(c, ok).pc \in Rest
         /\ ChReturn(c, ok).running = c.running /\ ChReturn(c, ok).queue = c.queue
         /\ ChReturn(c, ok).xsk = c.xsk
<1>1. CASE c.todo = <<>>
  BY Zenon, <1>1 DEF ChReturn, ChanType, Rest
<1>2. CASE c.todo # <<>>
  <2>1. Head(c.todo) \in Rest /\ Tail(c.todo) \in Todo
    <3>1. c.todo \in Todo
      BY DEF ChanType
    <3>2. /\ Head(<<"start", "bind">>) = "start" /\ Tail(<<"start", "bind">>) = <<"bind">>
          /\ Head(<<"start", "unpool">>) = "start" /\ Tail(<<"start", "unpool">>) = <<"unpool">>
      OBVIOUS
    <3>3. /\ Head(<<"bind">>) = "bind" /\ Tail(<<"bind">>) = <<>>
          /\ Head(<<"unpool">>) = "unpool" /\ Tail(<<"unpool">>) = <<>>
      OBVIOUS
    <3> QED
      BY Zenon, <1>2, <3>1, <3>2, <3>3 DEF Todo, Rest
  <2> DEFINE r(h, t) == [c EXCEPT !.pc = h, !.todo = t, !.ok = ok]
  <2>2. \A h \in Rest, t \in Todo :
           /\ r(h, t) \in ChanType /\ r(h, t).pc = h
           /\ r(h, t).running = c.running /\ r(h, t).queue = c.queue /\ r(h, t).xsk = c.xsk
    BY Zenon DEF ChanType
  <2>3. ChReturn(c, ok) = r(Head(c.todo), Tail(c.todo))
    BY <1>2 DEF ChReturn
  <2> HIDE DEF r
  <2> QED
    BY <2>1, <2>2, <2>3
<1> QED
  BY <1>1, <1>2

\* A step to another place that keeps the rest of the channel.
LEMMA PcView ==
  ASSUME NEW c \in ChanType, NEW l \in {"alloc_rx", "alloc_tx", "start_rx", "start_tx", "thread_rx", "thread_tx",
                                       "stop_rx", "stop_tx", "destroy"}
  PROVE  /\ [c EXCEPT !.pc = l] \in ChanType /\ [c EXCEPT !.pc = l].pc = l
         /\ [c EXCEPT !.pc = l].running = c.running /\ [c EXCEPT !.pc = l].queue = c.queue
         /\ [c EXCEPT !.pc = l].xsk = c.xsk /\ [c EXCEPT !.pc = l].mode = c.mode
BY DEF ChanType

\* Nothing is polled where no NAPI is on.
LEMMA NoPolls ==
  ASSUME ChanInv, napi["rx"] # "on", napi["tx"] # "on"
  PROVE  polling = {}
BY DEF ChanInv, ChanTypeOK, PollsOn, Sides

LEMMA SidesOnly == Sides = {"rx", "tx"} /\ "rx" \in Sides /\ "tx" \in Sides
BY DEF Sides

-----------------------------------------------------------------------------
(* channel_start                                                           *)

LEMMA StartCheck ==
  ASSUME ChanInv, start_check
  PROVE  ChanInv'
<1>0. ChanTypeOK /\ Place /\ PollsOn /\ chan \in ChanType /\ chan.pc = "start"
  BY DEF ChanInv, start_check, ChAt, ChanTypeOK
<1>1. UNCHANGED <<ctl, thread, polling>>
  BY DEF start_check
<1>2. CASE chan.running
  <2>1. chan' = ChReturn(chan, FALSE) /\ napi' = napi
    BY <1>2 DEF start_check
  <2>2. chan' \in ChanType /\ chan'.pc \in Rest /\ chan'.running /\ chan'.xsk = chan.xsk
    BY Zenon, <1>0, <1>2, <2>1, ReturnView
  <2>3. Up
    BY <1>0, <1>2 DEF Place, Rest, Down
  <2>4. Up'
    BY Zenon, <1>1, <2>1, <2>2, <2>3 DEF Up, BothRun, Napi
  <2>5. Place'
    BY <2>2, <2>4 DEF Place, Rest
  <2> QED
    BY Zenon, <1>0, <1>1, <2>1, <2>2, <2>5 DEF ChanInv, ChanTypeOK, PollsOn
<1>3. CASE ~chan.running
  <2>1. /\ chan' = [chan EXCEPT !.pc = "alloc_rx"]
        /\ napi' = [rx |-> "added", tx |-> IF chan.mode = "xsk" THEN "added" ELSE "none"]
    BY <1>3 DEF start_check
  <2>2. /\ chan' \in ChanType /\ chan'.pc = "alloc_rx" /\ ~chan'.running /\ chan'.queue = chan.queue
        /\ chan'.mode = chan.mode
    BY Zenon, <1>0, <1>3, <2>1, PcView
  <2>3. Down
    BY <1>0, <1>3 DEF Place, Rest, Up
  <2>4. polling = {}
    BY <2>3, NoPolls DEF Down, Napi
  <2>5. napi' \in [Sides -> {"none", "added", "on"}]
    BY <2>1 DEF Sides
  <2>6. Starting'
    BY <1>1, <2>1, <2>2, <2>3 DEF Starting, Down, Napi
  <2>7. Place'
    BY <2>2, <2>6 DEF Place, Rest
  <2> QED
    BY <1>0, <1>1, <2>2, <2>4, <2>5, <2>7 DEF ChanInv, ChanTypeOK, PollsOn
<1> QED
  BY <1>2, <1>3

LEMMA Allocates ==
  ASSUME ChanInv, NEW side \in Sides, chan_alloc(side)
  PROVE  ChanInv'
<1> DEFINE l == IF side = "rx" THEN "alloc_tx" ELSE "start_rx"
<1>0. ChanTypeOK /\ Place /\ PollsOn /\ chan \in ChanType /\ chan.pc \in {"alloc_rx", "alloc_tx"}
  BY DEF ChanInv, chan_alloc, ChAt, ChanTypeOK
<1>1. UNCHANGED <<napi, thread, polling>> /\ chan' = [chan EXCEPT !.pc = l]
  BY DEF chan_alloc
<1>2. ctl' \in [Sides -> {"none", "open", "run"}]
  BY <1>0 DEF chan_alloc, ChanTypeOK
<1>3. /\ chan' \in ChanType /\ chan'.pc \in {"alloc_tx", "start_rx"} /\ chan'.running = chan.running
      /\ chan'.queue = chan.queue /\ chan'.mode = chan.mode
  <2>1. CASE side = "rx"
    <3>1. chan' = [chan EXCEPT !.pc = "alloc_tx"]
      BY <1>1, <2>1
    <3> QED
      BY Zenon, <1>0, <3>1, PcView
  <2>2. CASE side # "rx"
    <3>1. chan' = [chan EXCEPT !.pc = "start_rx"]
      BY <1>1, <2>2
    <3> QED
      BY Zenon, <1>0, <3>1, PcView
  <2> QED
    BY <2>1, <2>2
<1>4. Starting'
  BY <1>0, <1>1, <1>3 DEF Place, Starting, Napi
<1>5. Place'
  BY <1>3, <1>4 DEF Place, Rest
<1> QED
  BY <1>0, <1>1, <1>2, <1>3, <1>5 DEF ChanInv, ChanTypeOK, PollsOn

\* The error paths of channel_start, from any of its places: nothing is left on.
LEMMA Fails ==
  ASSUME ChanInv,
         chan.pc \in {"alloc_rx", "alloc_tx", "start_rx", "start_tx", "thread_rx", "thread_tx"},
         ctl' = [s \in Sides |-> "none"], napi' = [s \in Sides |-> "none"], chan' = ChReturn(chan, FALSE),
         thread' = {}, polling' = polling, "rx" \notin polling
  PROVE  ChanInv' /\ ~chan'.running /\ chan'.pc \in Rest
<1>0. ChanTypeOK /\ Place /\ PollsOn /\ chan \in ChanType
  BY DEF ChanInv, ChanTypeOK
<1>1. ~chan.running /\ ~chan.queue /\ napi["tx"] # "on"
  BY <1>0 DEF Place, Starting, Napi
<1>2. chan' \in ChanType /\ chan'.pc \in Rest /\ ~chan'.running /\ ~chan'.queue
  BY Zenon, <1>0, <1>1, ReturnView
<1>3. polling = {}
  BY <1>0, <1>1 DEF ChanTypeOK, PollsOn, Sides
<1>4. Down'
  BY Zenon, <1>2 DEF Down, Napi, Sides
<1>5. Place'
  BY Zenon, <1>2, <1>4 DEF Place, Rest
<1>6. ChanTypeOK'
  BY Zenon, <1>2, <1>3 DEF ChanTypeOK
<1> QED
  BY Zenon, <1>2, <1>3, <1>5, <1>6 DEF ChanInv, PollsOn

LEMMA StartsControllers ==
  ASSUME ChanInv, NEW side \in Sides, chan_ctrl_start(side)
  PROVE  ChanInv'
<1>0. ChanTypeOK /\ Place /\ PollsOn /\ chan \in ChanType
  BY DEF ChanInv, ChanTypeOK
<1>1. UNCHANGED <<napi, thread, polling>> /\ ctl' = [ctl EXCEPT ![side] = "run"]
  BY DEF chan_ctrl_start
<1>2. ctl' \in [Sides -> {"none", "open", "run"}]
  BY <1>0, <1>1 DEF ChanTypeOK
<1>3. CASE side = "rx"
  <2>1. chan.pc = "start_rx" /\ chan' = [chan EXCEPT !.pc = "start_tx"]
    BY <1>3 DEF chan_ctrl_start, ChAt
  <2>2. /\ chan' \in ChanType /\ chan'.pc = "start_tx" /\ chan'.running = chan.running
        /\ chan'.queue = chan.queue /\ chan'.mode = chan.mode
    BY Zenon, <1>0, <2>1, PcView
  <2>3. Starting' /\ ctl'["rx"] = "run"
    BY <1>0, <1>1, <1>3, <2>1, <2>2 DEF Place, Starting, Napi, ChanTypeOK
  <2>4. Place'
    BY <2>2, <2>3 DEF Place, Rest
  <2> QED
    BY <1>0, <1>1, <1>2, <2>2, <2>4 DEF ChanInv, ChanTypeOK, PollsOn
<1>4. CASE side = "tx"
  <2>1. chan.pc = "start_tx" /\ chan' = [chan EXCEPT !.pc = "thread_rx", !.xsk = chan.mode = "xsk"]
    BY <1>4 DEF chan_ctrl_start, ChAt
  <2>2. /\ chan' \in ChanType /\ chan'.pc = "thread_rx" /\ chan'.running = chan.running
        /\ chan'.queue = chan.queue /\ chan'.mode = chan.mode /\ chan'.xsk = (chan.mode = "xsk")
    <3>1. \A b \in BOOLEAN : LET c == [chan EXCEPT !.pc = "thread_rx", !.xsk = b] IN
             /\ c \in ChanType /\ c.pc = "thread_rx" /\ c.running = chan.running
             /\ c.queue = chan.queue /\ c.mode = chan.mode /\ c.xsk = b
      BY Zenon, <1>0 DEF ChanType
    <3>2. (chan.mode = "xsk") \in BOOLEAN
      OBVIOUS
    <3> QED
      BY Zenon, <2>1, <3>1, <3>2
  <2>3. Starting' /\ BothRun'
    BY <1>0, <1>1, <1>4, <2>1, <2>2, SidesOnly DEF Place, Starting, Napi, BothRun, ChanTypeOK
  <2>4. Place'
    BY <2>2, <2>3 DEF Place, Rest
  <2> QED
    BY <1>0, <1>1, <1>2, <2>2, <2>4 DEF ChanInv, ChanTypeOK, PollsOn
<1> QED
  BY <1>3, <1>4, SidesOnly

LEMMA CreatesThreads ==
  ASSUME ChanInv, create_thread_rx \/ create_thread_tx
  PROVE  ChanInv'
<1>0. ChanTypeOK /\ Place /\ PollsOn /\ chan \in ChanType
  BY DEF ChanInv, ChanTypeOK
<1>1. CASE create_thread_rx
  <2>1. /\ chan.pc = "thread_rx" /\ chan' = [chan EXCEPT !.pc = "thread_tx"]
        /\ thread' = thread \cup {"rx"} /\ napi' = [napi EXCEPT !["rx"] = "on"] /\ UNCHANGED <<ctl, polling>>
    BY <1>1 DEF create_thread_rx, ChAt
  <2>2. /\ chan' \in ChanType /\ chan'.pc = "thread_tx" /\ chan'.running = chan.running
        /\ chan'.queue = chan.queue /\ chan'.mode = chan.mode /\ chan'.xsk = chan.xsk
    BY Zenon, <1>0, <2>1, PcView
  <2>3. napi' \in [Sides -> {"none", "added", "on"}] /\ napi'["rx"] = "on" /\ napi'["tx"] = napi["tx"]
    BY <1>0, <2>1, SidesOnly DEF ChanTypeOK
  <2>4. BothRun /\ Starting /\ chan.xsk = (chan.mode = "xsk")
    BY <1>0, <2>1 DEF Place
  <2>5. Place'
    BY Zenon, <2>1, <2>2, <2>3, <2>4 DEF Place, Rest, Starting, Napi, BothRun
  <2>6. PollsOn'
    BY <1>0, <2>1, <2>3, SidesOnly DEF PollsOn, ChanTypeOK
  <2>7. ChanTypeOK'
    BY <1>0, <2>1, <2>2, <2>3, SidesOnly DEF ChanTypeOK
  <2> QED
    BY <2>5, <2>6, <2>7 DEF ChanInv
<1>2. CASE create_thread_tx
  <2> DEFINE c == [chan EXCEPT !.queue = TRUE, !.running = TRUE]
  <2>1. /\ chan.pc = "thread_tx" /\ chan' = ChReturn(c, TRUE)
        /\ thread' = thread \cup {"tx"} /\ napi' = IF chan.xsk THEN [napi EXCEPT !["tx"] = "on"] ELSE napi
        /\ UNCHANGED <<ctl, polling>>
    BY <1>2 DEF create_thread_tx, ChAt
  <2>2. c \in ChanType /\ c.running /\ c.xsk = chan.xsk
    BY Zenon, <1>0 DEF ChanType
  <2>3. chan' \in ChanType /\ chan'.pc \in Rest /\ chan'.running /\ chan'.xsk = chan.xsk
    BY Zenon, <2>1, <2>2, ReturnView
  <2>4. BothRun /\ Napi("on", IF chan.xsk THEN "added" ELSE "none")
    BY <1>0, <2>1 DEF Place
  <2>5. /\ napi' \in [Sides -> {"none", "added", "on"}] /\ napi'["rx"] = "on"
        /\ napi'["tx"] = IF chan.xsk THEN "on" ELSE "none"
    BY <1>0, <2>1, <2>4, SidesOnly DEF ChanTypeOK, Napi
  <2>6. Up'
    BY Zenon, <2>1, <2>3, <2>4, <2>5 DEF Up, Napi, BothRun
  <2>7. Place'
    BY <2>3, <2>6 DEF Place, Rest
  <2>8. PollsOn'
    BY <1>0, <2>1, SidesOnly DEF PollsOn, ChanTypeOK
  <2>9. ChanTypeOK'
    BY Zenon, <1>0, <2>1, <2>3, <2>5, SidesOnly DEF ChanTypeOK
  <2> QED
    BY <2>7, <2>8, <2>9 DEF ChanInv
<1> QED
  BY <1>1, <1>2

-----------------------------------------------------------------------------
(* channel_stop                                                            *)

LEMMA StopCheck ==
  ASSUME ChanInv, stop_check
  PROVE  ChanInv'
<1>0. ChanTypeOK /\ Place /\ PollsOn /\ chan \in ChanType /\ chan.pc = "stop"
  BY DEF ChanInv, ChanTypeOK, stop_check, ChAt
<1>1. UNCHANGED <<ctl, napi, thread, polling>>
  BY DEF stop_check
<1>2. CASE chan.running
  <2>1. chan' = [chan EXCEPT !.pc = "stop_rx"]
    BY <1>2 DEF stop_check
  <2>2. chan' \in ChanType /\ chan'.pc = "stop_rx" /\ chan'.running = chan.running /\ chan'.xsk = chan.xsk
    BY Zenon, <1>0, <2>1, PcView
  <2>3. Up
    BY <1>0, <1>2 DEF Place, Rest, Down
  <2>4. Up'
    BY <1>1, <2>2, <2>3 DEF Up, Napi, BothRun
  <2>5. Place'
    BY <2>2, <2>4 DEF Place, Rest
  <2> QED
    BY <1>0, <1>1, <2>2, <2>5 DEF ChanInv, ChanTypeOK, PollsOn
<1>3. CASE ~chan.running
  <2>1. chan' = ChReturn(chan, FALSE)
    BY <1>3 DEF stop_check
  <2>2. chan' \in ChanType /\ chan'.pc \in Rest /\ chan'.running = chan.running /\ chan'.queue = chan.queue
    BY Zenon, <1>0, <2>1, ReturnView
  <2>3. Down
    BY <1>0, <1>3 DEF Place, Rest, Up
  <2>4. Down'
    BY <1>1, <2>2, <2>3 DEF Down, Napi
  <2>5. Place'
    BY <2>2, <2>4 DEF Place, Rest
  <2> QED
    BY <1>0, <1>1, <2>2, <2>5 DEF ChanInv, ChanTypeOK, PollsOn
<1> QED
  BY <1>2, <1>3

LEMMA StopRx ==
  ASSUME ChanInv, stop_rx
  PROVE  ChanInv'
<1>0. ChanTypeOK /\ Place /\ PollsOn /\ chan \in ChanType /\ chan.pc = "stop_rx" /\ "rx" \notin polling
  BY DEF ChanInv, ChanTypeOK, stop_rx, ChAt
<1>1. /\ UNCHANGED <<ctl, polling>> /\ thread' = thread \ {"rx"} /\ napi' = [napi EXCEPT !["rx"] = "none"]
      /\ chan' = [chan EXCEPT !.pc = "stop_tx", !.queue = FALSE]
  BY DEF stop_rx
<1>2. /\ chan' \in ChanType /\ chan'.pc = "stop_tx" /\ chan'.running = chan.running /\ chan'.xsk = chan.xsk
      /\ ~chan'.queue
  BY Zenon, <1>0, <1>1 DEF ChanType
<1>3. Up
  BY <1>0 DEF Place
<1>4. napi' \in [Sides -> {"none", "added", "on"}] /\ napi'["rx"] = "none" /\ napi'["tx"] = napi["tx"]
  BY <1>0, <1>1, SidesOnly DEF ChanTypeOK
<1>5. thread' \subseteq {"tx"} /\ thread' \subseteq Sides
  BY <1>0, <1>1 DEF ChanTypeOK, Sides
<1>6. Place'
  BY <1>1, <1>2, <1>3, <1>4, <1>5 DEF Place, Rest, Up, Napi, BothRun
<1>7. PollsOn'
  BY <1>0, <1>1, SidesOnly DEF PollsOn, ChanTypeOK
<1>8. ChanTypeOK'
  BY <1>0, <1>1, <1>2, <1>4, <1>5 DEF ChanTypeOK
<1> QED
  BY <1>6, <1>7, <1>8 DEF ChanInv

LEMMA StopTx ==
  ASSUME ChanInv, stop_tx
  PROVE  ChanInv'
<1>0. ChanTypeOK /\ Place /\ PollsOn /\ chan \in ChanType /\ chan.pc = "stop_tx" /\ (chan.xsk => "tx" \notin polling)
  BY DEF ChanInv, ChanTypeOK, stop_tx, ChAt
<1>1. /\ UNCHANGED <<ctl, polling>> /\ thread' = thread \ {"tx"}
      /\ napi' = IF chan.xsk THEN [napi EXCEPT !["tx"] = "none"] ELSE napi
      /\ chan' = [chan EXCEPT !.pc = "destroy"]
  BY DEF stop_tx
<1>2. chan' \in ChanType /\ chan'.pc = "destroy" /\ chan'.running = chan.running /\ chan'.queue = chan.queue
  BY Zenon, <1>0, <1>1, PcView
<1>3. /\ chan.running /\ ~chan.queue /\ thread \subseteq {"tx"}
      /\ napi["rx"] = "none" /\ napi["tx"] = IF chan.xsk THEN "on" ELSE "none"
  BY <1>0 DEF Place, Napi
<1>4. napi' \in [Sides -> {"none", "added", "on"}] /\ napi'["rx"] = "none" /\ napi'["tx"] = "none"
  BY <1>0, <1>1, <1>3, SidesOnly DEF ChanTypeOK
<1>5. thread' = {}
  BY <1>1, <1>3
<1>6. polling = {}
  BY <1>0, <1>3, SidesOnly DEF PollsOn, ChanTypeOK
<1>7. Place'
  BY <1>2, <1>3, <1>4, <1>5 DEF Place, Rest, Napi
<1>8. ChanTypeOK' /\ PollsOn'
  BY <1>0, <1>1, <1>2, <1>4, <1>5, <1>6 DEF ChanTypeOK, PollsOn
<1> QED
  BY <1>7, <1>8 DEF ChanInv

LEMMA StopDestroy ==
  ASSUME ChanInv, stop_destroy
  PROVE  ChanInv' /\ ~chan'.running /\ chan'.pc \in Rest
<1>0. ChanTypeOK /\ Place /\ PollsOn /\ chan \in ChanType /\ chan.pc = "destroy"
  BY DEF ChanInv, ChanTypeOK, stop_destroy, ChAt
<1> DEFINE c == [chan EXCEPT !.running = FALSE]
<1>1. /\ UNCHANGED <<napi, thread, polling>> /\ ctl' = [s \in Sides |-> "none"]
      /\ chan' = ChReturn(c, TRUE)
  BY DEF stop_destroy
<1>2. c \in ChanType /\ ~c.running /\ c.queue = chan.queue
  BY Zenon, <1>0 DEF ChanType
<1>3. chan' \in ChanType /\ chan'.pc \in Rest /\ ~chan'.running /\ chan'.queue = chan.queue
  BY Zenon, <1>1, <1>2, ReturnView
<1>4. Down'
  BY Zenon, <1>0, <1>1, <1>3 DEF Place, Down, Napi
<1>5. Place'
  BY <1>3, <1>4 DEF Place, Rest
<1> QED
  BY Zenon, <1>0, <1>1, <1>3, <1>5 DEF ChanInv, ChanTypeOK, PollsOn

-----------------------------------------------------------------------------
(* The calls and the polls                                                 *)

\* A step from rest to rest that neither starts nor stops the channel.
LEMMA AtRest ==
  ASSUME ChanInv, chan.pc \in Rest, UNCHANGED <<ctl, napi, thread, polling>>,
         chan' \in ChanType, chan'.pc \in Rest, chan'.running = chan.running, chan'.xsk = chan.xsk,
         chan'.queue => chan.queue
  PROVE  ChanInv'
<1>0. ChanTypeOK /\ Place /\ PollsOn
  BY DEF ChanInv
<1>1. (Up \/ Down)'
  BY <1>0 DEF Place, Up, Down, Napi, BothRun
<1>2. Place'
  BY <1>1 DEF Place, Rest
<1> QED
  BY <1>0, <1>2 DEF ChanInv, ChanTypeOK, PollsOn

LEMMA Calls ==
  ASSUME ChanInv, \/ xdp_open \/ xdp_stop \/ teardown_xsk_pool \/ teardown_unpool \/ setup_bind
                  \/ \E p \in Pool : setup_xsk_pool(p)
  PROVE  ChanInv' /\ UNCHANGED held /\ chan.pc \in Rest /\ chan'.running = chan.running
<1>0. chan \in ChanType
  BY DEF ChanInv, ChanTypeOK
<1>1. UNCHANGED <<ctl, held, napi, thread, polling>> /\ chan.pc \in Rest
  BY Zenon DEF xdp_open, xdp_stop, teardown_xsk_pool, teardown_unpool, setup_bind, setup_xsk_pool, ChAt, Rest
<1>2. /\ chan' \in ChanType /\ chan'.pc \in Rest /\ chan'.running = chan.running /\ chan'.xsk = chan.xsk
      /\ chan'.queue => chan.queue
  <2>1. CASE xdp_open
    BY Zenon, <1>0, <2>1 DEF xdp_open, ChanType, Rest
  <2>2. CASE xdp_stop
    BY Zenon, <1>0, <2>2 DEF xdp_stop, ChanType, Rest
  <2>3. CASE teardown_xsk_pool
    BY Zenon, <1>0, <2>3 DEF teardown_xsk_pool, ChanType, Rest, Todo
  <2>4. CASE \E p \in Pool : setup_xsk_pool(p)
    BY Zenon, <1>0, <2>4 DEF setup_xsk_pool, ChanType, Rest, Todo
  <2>5. CASE setup_bind
    <3> DEFINE c == [chan EXCEPT !.bound = chan.ok]
    <3>1. c \in ChanType /\ c.running = chan.running /\ c.xsk = chan.xsk /\ c.queue = chan.queue /\ chan.ok \in BOOLEAN
      BY <1>0 DEF ChanType
    <3>2. chan' = ChReturn(c, chan.ok)
      BY <2>5 DEF setup_bind
    <3> HIDE DEF c
    <3> QED
      BY <3>1, <3>2, ReturnView
  <2>6. CASE teardown_unpool
    <3> DEFINE c == [chan EXCEPT !.pool = NoPool, !.bound = FALSE]
    <3>1. c \in ChanType /\ c.running = chan.running /\ c.xsk = chan.xsk /\ c.queue = chan.queue /\ chan.ok \in BOOLEAN
      BY Zenon, <1>0 DEF ChanType
    <3>2. chan' = ChReturn(c, chan.ok)
      BY <2>6 DEF teardown_unpool
    <3> HIDE DEF c
    <3> QED
      BY <3>1, <3>2, ReturnView
  <2> QED
    BY <2>1, <2>2, <2>3, <2>4, <2>5, <2>6
<1> QED
  BY <1>1, <1>2, AtRest

LEMMA Polls ==
  ASSUME ChanInv, NEW side \in Sides, poll_begin(side) \/ poll_end(side)
  PROVE  ChanInv' /\ UNCHANGED <<chan, held>>
<1>1. UNCHANGED <<chan, ctl, held, napi, thread>>
  BY DEF poll_begin, poll_end
<1>2. Place'
  BY <1>1 DEF ChanInv, Place, Up, Down, Starting, Napi, BothRun
<1>3. PollsOn'
  BY <1>1 DEF ChanInv, PollsOn, poll_begin, poll_end
<1>4. ChanTypeOK'
  BY <1>1 DEF ChanInv, ChanTypeOK, poll_begin, poll_end
<1> QED
  BY <1>1, <1>2, <1>3, <1>4 DEF ChanInv

-----------------------------------------------------------------------------
(* The failures                                                            *)

LEMMA Failures ==
  ASSUME ChanInv, \/ start_fail \/ create_thread_tx_fail
                  \/ \E side \in Sides, x \in Resource : chan_alloc_fail(side, x)
  PROVE  ChanInv' /\ ~chan'.running /\ chan'.pc \in Rest
<1>1. /\ chan.pc \in {"alloc_rx", "alloc_tx", "start_rx", "start_tx", "thread_rx", "thread_tx"}
      /\ ctl' = [s \in Sides |-> "none"] /\ napi' = [s \in Sides |-> "none"]
      /\ chan' = ChReturn(chan, FALSE) /\ polling' = polling
  BY Zenon DEF start_fail, create_thread_tx_fail, chan_alloc_fail, ChAt
<1>2. thread' = {} /\ "rx" \notin polling
  <2>1. CASE create_thread_tx_fail
    BY <2>1 DEF create_thread_tx_fail
  <2>2. CASE ~create_thread_tx_fail
    <3>1. /\ chan.pc \in {"alloc_rx", "alloc_tx", "start_rx", "start_tx", "thread_rx"}
          /\ thread' = thread
      BY Zenon, <2>2 DEF start_fail, chan_alloc_fail, ChAt
    <3>2. Starting
      BY <3>1 DEF ChanInv, Place
    <3>3. napi["rx"] # "on" /\ napi["tx"] # "on" /\ thread = {}
      BY <3>2 DEF Starting, Napi
    <3> QED
      BY <3>1, <3>3, NoPolls
  <2> QED
    BY <2>1, <2>2
<1> QED
  BY Zenon, <1>1, <1>2, Fails

\* The labels of a clean failure release what had been acquired.
LEMMA CleanLeft ==
  ASSUME NEW mode, NEW side, NEW x, <<mode, side, x>> \in CleanFails
  PROVE  Left(mode, side, x) = Nothing
<1> DEFINE got == Before(mode, side, x)
<1>1. /\ mode \in {"pp", "xsk"} /\ side \in Sides /\ x \in Acquired(mode, side) /\ x \in Resource
      /\ mode = "pp" => x \in IF side = "rx" THEN Resource \ {"comp"} ELSE {"ctrl", "ring"}
  BY DEF CleanFails
<1>2. Resource = {"ctrl", "ring", "buffs", "desc", "update", "hdr", "pool", "rxq_info", "mem_model", "comp"}
  BY DEF Resource, Turn
<1>3. /\ Turn["ctrl"] = 1 /\ Turn["ring"] = 2 /\ Turn["buffs"] = 3 /\ Turn["desc"] = 4 /\ Turn["update"] = 5
      /\ Turn["hdr"] = 6 /\ Turn["pool"] = 7 /\ Turn["rxq_info"] = 8 /\ Turn["mem_model"] = 9 /\ Turn["comp"] = 10
  BY DEF Turn
<1>4. ~("pool" \in got /\ "mem_model" \in got)
  <2>1. CASE mode = "xsk" \/ side = "tx"
    BY <2>1 DEF Before, Acquired
  <2>2. CASE mode = "pp" /\ side = "rx"
    BY <1>1, <1>2, <1>3, <2>2 DEF Before
  <2> QED
    BY <1>1, <2>1, <2>2 DEF Sides
<1>5. ~(mode = "pp" /\ side = "tx" /\ "ring" \in got)
  BY <1>1, <1>3 DEF Before
<1> HIDE DEF got
<1>6. \A y \in Resource : Holding(got)[y] = IF y \in got THEN 1 ELSE 0
  BY DEF Holding
<1>7. \A y \in Resource : Released(mode, side, x)[y] = IF y \in got THEN 1 ELSE 0
  <2> SUFFICES ASSUME NEW y \in Resource PROVE Released(mode, side, x)[y] = IF y \in got THEN 1 ELSE 0
    OBVIOUS
  <2>1. Released(mode, side, x)[y] =
           CASE y = "pool" /\ y \in got -> IF "mem_model" \in got THEN 2 ELSE 1
             [] y = "buffs" /\ mode = "pp" /\ side = "tx" /\ "ring" \in got -> 1
             [] OTHER -> IF y \in got THEN 1 ELSE 0
    BY DEF Released, got
  <2> QED
    BY <1>4, <1>5, <2>1
<1>8. \A y \in Resource : Left(mode, side, x)[y] = Holding(got)[y] - Released(mode, side, x)[y]
  BY DEF Left, got
<1>9. \A y \in Resource : Left(mode, side, x)[y] = 0
  BY <1>6, <1>7, <1>8
<1> QED
  BY <1>9 DEF Left, Nothing

-----------------------------------------------------------------------------
(* The invariants                                                          *)

LEMMA ChanInitInv == ChannelInit => ChanInv /\ HeldInv
<1> SUFFICES ASSUME ChannelInit PROVE ChanInv /\ HeldInv
  OBVIOUS
<1>1. /\ chan \in ChanType /\ chan.pc = "idle" /\ ~chan.running /\ ~chan.queue
  BY DEF ChannelInit, ChanType, Rest, Todo
<1>2. Down
  BY <1>1 DEF ChannelInit, Down, Napi, Sides
<1>3. Place
  BY <1>1, <1>2 DEF Place, Rest
<1>4. ChanTypeOK /\ PollsOn
  BY <1>1 DEF ChannelInit, ChanTypeOK, PollsOn
<1>5. HeldInv
  BY <1>1 DEF HeldInv, ChannelInit, DestroyBoth
<1> QED
  BY <1>3, <1>4, <1>5 DEF ChanInv

LEMMA ChanStep == ChanInv /\ [ChannelNext]_chVars => ChanInv'
<1> SUFFICES ASSUME ChanInv, [ChannelNext]_chVars PROVE ChanInv'
  OBVIOUS
<1>1. CASE start_check
  BY <1>1, StartCheck
<1>2. CASE \/ start_fail \/ create_thread_tx_fail
           \/ \E side \in Sides, x \in Resource : chan_alloc_fail(side, x)
  BY <1>2, Failures
<1>3. CASE create_thread_rx \/ create_thread_tx
  BY <1>3, CreatesThreads
<1>4. CASE stop_check
  BY <1>4, StopCheck
<1>5. CASE stop_rx
  BY <1>5, StopRx
<1>6. CASE stop_tx
  BY <1>6, StopTx
<1>7. CASE stop_destroy
  BY <1>7, StopDestroy
<1>8. CASE \/ xdp_open \/ xdp_stop \/ teardown_xsk_pool \/ teardown_unpool \/ setup_bind
           \/ \E p \in Pool : setup_xsk_pool(p)
  BY <1>8, Calls
<1>9. CASE \E side \in Sides : chan_alloc(side)
  BY <1>9, Allocates
<1>10. CASE \E side \in Sides : chan_ctrl_start(side)
  BY <1>10, StartsControllers
<1>11. CASE \E side \in Sides : poll_begin(side) \/ poll_end(side)
  BY <1>11, Polls
<1>12. CASE UNCHANGED chVars
  BY <1>12 DEF chVars, ChanInv, ChanTypeOK, Place, PollsOn, Up, Down, Starting, Napi, BothRun
<1> QED
  BY <1>1, <1>2, <1>3, <1>4, <1>5, <1>6, <1>7, <1>8, <1>9, <1>10, <1>11, <1>12 DEF ChannelNext

\* What is held stays a function of the sides, empty where nothing was acquired.
LEMMA HeldStep ==
  ASSUME AllocFails \subseteq CleanFails, ChanInv, HeldInv, [ChannelNext]_chVars
  PROVE  HeldInv'
<1>0. /\ chan \in ChanType /\ held = [s \in Sides |-> held[s]] /\ Place
      /\ chan.pc \in Rest /\ ~chan.running => held = DestroyBoth
      /\ chan.pc = "alloc_rx" => held = DestroyBoth
  BY DEF HeldInv, ChanInv, ChanTypeOK
<1>a. DestroyBoth = [s \in Sides |-> DestroyBoth[s]]
  BY DEF DestroyBoth
<1>b. "alloc_rx" \notin Rest
  BY DEF Rest
<1>1. CASE start_check
  <2>1. held' = held /\ chan.pc \in Rest
    BY <1>1 DEF start_check, ChAt, Rest
  <2>2. CASE chan.running
    <3>1. chan' = ChReturn(chan, FALSE)
      BY <1>1, <2>2 DEF start_check
    <3>2. chan'.running /\ chan'.pc \in Rest
      BY Zenon, <1>0, <2>2, <3>1, ReturnView
    <3> QED
      BY <1>0, <1>b, <2>1, <3>2 DEF HeldInv
  <2>3. CASE ~chan.running
    BY <1>0, <1>a, <2>1, <2>3 DEF HeldInv
  <2> QED
    BY <2>2, <2>3
<1>2. CASE start_fail \/ create_thread_tx_fail
  <2>1. held' = DestroyBoth
    BY Zenon, <1>2 DEF start_fail, create_thread_tx_fail
  <2> QED
    BY <1>a, <2>1 DEF HeldInv
<1>3. CASE \E side \in Sides, x \in Resource : chan_alloc_fail(side, x)
  <2>1. PICK side \in Sides, x \in Resource : chan_alloc_fail(side, x)
    BY <1>3
  <2>2. <<chan.mode, side, x>> \in CleanFails
    BY <2>1 DEF chan_alloc_fail
  <2>3. Left(chan.mode, side, x) = Nothing
    BY <2>2, CleanLeft
  <2>4. held' = [DestroyBoth EXCEPT ![side] = Left(chan.mode, side, x)]
    BY <2>1 DEF chan_alloc_fail
  <2>5. held' = DestroyBoth
    BY <2>3, <2>4 DEF DestroyBoth
  <2> QED
    BY <1>a, <2>5 DEF HeldInv
<1>4. CASE create_thread_rx \/ \E side \in Sides : chan_ctrl_start(side)
  <2>1. held' = held /\ chan'.pc \in {"thread_tx", "start_tx", "thread_rx"}
    BY Zenon, <1>0, <1>4 DEF create_thread_rx, chan_ctrl_start, ChanType
  <2> QED
    BY <1>0, <2>1 DEF HeldInv, Rest
<1>5. CASE create_thread_tx
  <2> DEFINE c == [chan EXCEPT !.queue = TRUE, !.running = TRUE]
  <2>1. held' = held /\ chan' = ChReturn(c, TRUE)
    BY <1>5 DEF create_thread_tx
  <2>2. c \in ChanType /\ c.running
    BY Zenon, <1>0 DEF ChanType
  <2>3. chan'.running /\ chan'.pc \in Rest
    BY Zenon, <2>1, <2>2, ReturnView
  <2> QED
    BY Zenon, <1>0, <1>b, <2>1, <2>3 DEF HeldInv
<1>6. CASE stop_check
  <2>1. held' = held /\ chan.pc \in Rest
    BY <1>6 DEF stop_check, ChAt, Rest
  <2>2. CASE chan.running
    <3>1. chan' = [chan EXCEPT !.pc = "stop_rx"]
      BY <1>6, <2>2 DEF stop_check
    <3>2. chan'.pc = "stop_rx"
      BY <1>0, <3>1, PcView
    <3> QED
      BY <1>0, <2>1, <3>2 DEF HeldInv, Rest
  <2>3. CASE ~chan.running
    BY <1>0, <1>a, <2>1, <2>3 DEF HeldInv
  <2> QED
    BY <2>2, <2>3
<1>7. CASE stop_rx \/ stop_tx
  <2>1. held' = held /\ chan'.pc \in {"stop_tx", "destroy"}
    BY Zenon, <1>0, <1>7 DEF stop_rx, stop_tx, ChanType
  <2> QED
    BY <1>0, <2>1 DEF HeldInv, Rest
<1>8. CASE stop_destroy
  <2>1. held' = Destroyed(Destroyed(held, "rx"), "tx")
    BY <1>8 DEF stop_destroy
  <2>2. held' = DestroyBoth
    BY Zenon, <1>0, <2>1, SidesOnly DEF Destroyed, DestroyBoth
  <2> QED
    BY <1>a, <2>2 DEF HeldInv
<1>9. CASE \/ xdp_open \/ xdp_stop \/ teardown_xsk_pool \/ teardown_unpool \/ setup_bind
           \/ \E p \in Pool : setup_xsk_pool(p)
  <2>1. held' = held /\ chan.pc \in Rest /\ chan'.running = chan.running
    BY <1>9, Calls
  <2>2. CASE chan.running
    <3>1. chan'.pc # "alloc_rx"
      BY <1>9, <2>1, <2>2, ChanStep DEF ChannelNext, ChanInv, Place, Starting
    <3> QED
      BY <1>0, <2>1, <2>2, <3>1 DEF HeldInv
  <2>3. CASE ~chan.running
    BY <1>0, <1>a, <2>1, <2>3 DEF HeldInv
  <2> QED
    BY <2>2, <2>3
<1>10. CASE \E side \in Sides : chan_alloc(side)
  <2>1. PICK side \in Sides : chan_alloc(side)
    BY <1>10
  <2>2. chan'.pc \in {"alloc_tx", "start_rx"}
    BY <1>0, <2>1 DEF chan_alloc, ChanType
  <2>3. held' = [held EXCEPT ![side] = Holding(Acquired(chan.mode, side))]
    BY <2>1 DEF chan_alloc
  <2>4. held' = [s \in Sides |-> held'[s]]
    BY <1>0, <2>3
  <2> QED
    BY <2>2, <2>4 DEF HeldInv, Rest
<1>11. CASE \E side \in Sides : poll_begin(side) \/ poll_end(side)
  BY <1>0, <1>11 DEF poll_begin, poll_end, HeldInv
<1>12. CASE UNCHANGED chVars
  BY <1>0, <1>12 DEF chVars, HeldInv
<1> QED
  BY <1>1, <1>2, <1>3, <1>4, <1>5, <1>6, <1>7, <1>8, <1>9, <1>10, <1>11, <1>12 DEF ChannelNext

-----------------------------------------------------------------------------
(* The theorems                                                            *)

(* nfb_xctrl_napi_poll_*: a poll in progress finds both controllers there  *)
(* and started, whatever fails in channel_start and whenever channel_stop  *)
(* comes, for any number of pools.                                         *)
THEOREM XdpPollsAlive == ChannelSpec => []XdpPollAlive
<1>1. ChanInv => XdpPollAlive
  <2> SUFFICES ASSUME ChanInv, polling # {} PROVE BothRun
    BY DEF XdpPollAlive, BothRun, Sides
  <2>1. napi["rx"] = "on" \/ napi["tx"] = "on"
    BY NoPolls
  <2>2. chan.pc \in Rest \cup {"alloc_rx", "alloc_tx", "start_rx", "start_tx", "thread_rx", "thread_tx",
                             "stop_rx", "stop_tx", "destroy"}
    BY DEF ChanInv, ChanTypeOK, ChanType
  <2>3. ~Down /\ ~Starting
    BY <2>1 DEF Down, Starting, Napi
  <2> QED
    BY <2>1, <2>2, <2>3 DEF ChanInv, Place, Up, Napi
<1> QED
  BY <1>1, ChanInitInv, ChanStep, PTL DEF ChannelSpec

(* channel_start_pp, channel_start_xsk and channel_stop: a channel that    *)
(* does not run keeps nothing, if the allocations that fail are those      *)
(* whose labels release what was acquired.                                 *)
THEOREM XdpKeepsNothing ==
  ASSUME AllocFails \subseteq CleanFails
  PROVE  ChannelSpec => []XdpUnwound
<1>1. ChanInv /\ HeldInv /\ [ChannelNext]_chVars => ChanInv' /\ HeldInv'
  BY ChanStep, HeldStep
<1>2. ChanInv /\ HeldInv => XdpUnwound
  <2> SUFFICES ASSUME ChanInv, HeldInv, chan.pc = "idle", ~chan.running
      PROVE  held = DestroyBoth /\ thread = {} /\ ~chan.queue /\ \A s \in Sides : napi[s] = "none"
    BY DEF XdpUnwound, ChAt
  <2>1. Down /\ held = DestroyBoth
    BY DEF ChanInv, HeldInv, Place, Rest, Up
  <2> QED
    BY <2>1 DEF Down, Napi, Sides
<1> QED
  BY <1>1, <1>2, ChanInitInv, PTL DEF ChannelSpec
=============================================================================
