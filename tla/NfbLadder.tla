----------------------------- MODULE NfbLadder -----------------------------
(* How a C function takes its resources and gives them back: a body that     *)
(* acquires one resource after another, and an error ladder, the labels at    *)
(* its end into which a failing call jumps and from which control falls       *)
(* through to the return.  A function is data here: the modules that use this  *)
(* one write each attach, create, init and detach function of the source as a  *)
(* Fn of instructions, and the actions below execute one instruction at a      *)
(* time with every call free to fail where the code tests for failure.         *)
(*                                                                           *)
(* A resource is a tuple: its name, then the index of the channel, flash or    *)
(* device it belongs to.  A run of a ladder calls its attach function; when    *)
(* that succeeds, the functions of `use` may be called any number of times and *)
(* then its detach function is called, as the driver core and the module       *)
(* loader do.                                                                 *)
EXTENDS Naturals, Sequences
LOCAL INSTANCE SequencesExt

CONSTANT Ladders  \* the attach/detach pairs under check, by name

VARIABLES
  ladder,    \* the pair this behaviour runs; never changes
  frames,    \* the call stack, innermost first
  stage,     \* "attach", "attached", "use", "detach", "failed" or "detached"
  owned,     \* resources acquired and not yet released
  marks,     \* non-NULL pointers and flags that own nothing
  misfreed   \* resources released while they were not owned

ladderVars == <<ladder, frames, stage, owned, marks, misfreed>>

(***************************************************************************)
(* Instructions                                                            *)
(***************************************************************************)
Instr(op, res, label, code, undo) == [op |-> op, res |-> res, label |-> label, code |-> code, undo |-> undo]
\* A function of the source: its body and the labels with the code after them.
Fn(code, undo) == [code |-> code, undo |-> undo]
Label(l) == Instr("label", {}, l, <<>>, <<>>)
\* An acquisition that cannot fail, a release, a pointer or flag set.
Must(r) == Instr("must", {r}, "", <<>>, <<>>)
Put(r) == Instr("put", {r}, "", <<>>, <<>>)
Mark(r) == Instr("mark", {r}, "", <<>>, <<>>)
\* goto l with an error code; with the return value still zero.
Fail(l) == Instr("fail", {}, l, <<>>, <<>>)
Lose(l) == Instr("lose", {}, l, <<>>, <<>>)
\* Either piece of code, by what the hardware or an allocator does.
Alt(code, other) == Instr("alt", {}, "", code, other)
Opt(code) == Alt(code, <<>>)
\* code only when one of rs is non-NULL; only when none is.
IfElse(rs, code, other) == Instr("if", rs, "", code, other)
If(rs, code) == IfElse(rs, code, <<>>)
Unless(rs, code) == IfElse(rs, <<>>, code)
\* A call of f; on its error goto l ("return": give the error up; "ignore": go on).
Call(f, l) == Instr("call", {}, l, f.code, f.undo)
\* A call whose failure sends the caller to l with its return value still zero.
CallOrLose(f, l) == Instr("quiet", {}, l, f.code, f.undo)

Get(r, l) == Alt(<<Must(r)>>, <<Fail(l)>>)
GetOrLose(r, l) == Alt(<<Must(r)>>, <<Lose(l)>>)
Try(r) == Opt(<<Must(r)>>)
Check(l) == Opt(<<Fail(l)>>)
PutIf(r) == If({r}, <<Put(r)>>)
\* kfree() of a pointer that keeps its value.
FreeKept(r) == If({r}, <<Put(r), Mark(r)>>)
\* The object under construction is left without an owner.
Unlisted == <<"unlisted">>
\* A loop over the instances that a ladder has.
Instances == 1 .. 2
ForEach(body(_)) == FlattenSeq([i \in Instances |-> body(i)])
ForEachBack(body(_)) == FlattenSeq(Reverse([i \in Instances |-> body(i)]))

(***************************************************************************)
(* Execution                                                               *)
(***************************************************************************)
CallFrame(f, l, quiet) == [todo |-> f.code, undo |-> f.undo, label |-> l, quiet |-> quiet, failed |-> FALSE]

LadderInit ==
  /\ ladder \in DOMAIN Ladders
  /\ frames = <<CallFrame(Ladders[ladder].attach, "return", FALSE)>>
  /\ stage = "attach"
  /\ owned = {} /\ marks = {} /\ misfreed = {}

\* goto l: control continues at the label and runs to the end of the function.
Goto(fr, l, failed) ==
  LET i == SelectInSeq(fr.undo, LAMBDA c : c.op = "label" /\ c.label = l)
  IN [fr EXCEPT !.todo = IF l = "return" THEN <<>> ELSE SubSeq(fr.undo, i + 1, Len(fr.undo)), !.failed = failed]

Running == frames # <<>> /\ Head(frames).todo # <<>>
Now == Head(Head(frames).todo)
Rest == Tail(Head(frames).todo)
Top(fr) == frames' = <<fr>> \o Tail(frames)
Continue(code) == Top([Head(frames) EXCEPT !.todo = code \o Rest])

Acquire ==
  /\ Running /\ Now.op = "must"
  /\ owned' = owned \cup Now.res
  /\ marks' = marks \ Now.res
  /\ Continue(<<>>)
  /\ UNCHANGED <<ladder, stage, misfreed>>

Release ==
  /\ Running /\ Now.op = "put"
  /\ owned' = owned \ Now.res
  /\ marks' = marks \ Now.res
  /\ misfreed' = misfreed \cup (Now.res \ owned)
  /\ Continue(<<>>)
  /\ UNCHANGED <<ladder, stage>>

SetMark ==
  /\ Running /\ Now.op = "mark"
  /\ marks' = marks \cup Now.res
  /\ Continue(<<>>)
  /\ UNCHANGED <<ladder, stage, owned, misfreed>>

Jump ==
  /\ Running /\ Now.op \in {"fail", "lose"}
  /\ Top(Goto(Head(frames), Now.label, Now.op = "fail"))
  /\ UNCHANGED <<ladder, stage, owned, marks, misfreed>>

Test ==
  /\ Running /\ Now.op = "if"
  /\ Continue(IF Now.res \cap (owned \cup marks) # {} THEN Now.code ELSE Now.undo)
  /\ UNCHANGED <<ladder, stage, owned, marks, misfreed>>

Choose ==
  /\ Running /\ Now.op = "alt"
  /\ Continue(Now.code) \/ Continue(Now.undo)
  /\ UNCHANGED <<ladder, stage, owned, marks, misfreed>>

PassLabel ==
  /\ Running /\ Now.op = "label"
  /\ Continue(<<>>)
  /\ UNCHANGED <<ladder, stage, owned, marks, misfreed>>

Enter ==
  /\ Running /\ Now.op \in {"call", "quiet"}
  /\ frames' = <<CallFrame(Now, Now.label, Now.op = "quiet"), [Head(frames) EXCEPT !.todo = Rest]>> \o Tail(frames)
  /\ UNCHANGED <<ladder, stage, owned, marks, misfreed>>

\* A call returns to its caller, which goes on or jumps into its own ladder.
Leave ==
  /\ Len(frames) > 1 /\ Head(frames).todo = <<>>
  /\ LET fr == Head(frames)
         caller == frames[2]
         after == IF fr.failed /\ fr.label # "ignore" THEN Goto(caller, fr.label, ~fr.quiet) ELSE caller
     IN frames' = <<after>> \o Tail(Tail(frames))
  /\ UNCHANGED <<ladder, stage, owned, marks, misfreed>>

\* The outermost function returns.
Done ==
  /\ Len(frames) = 1 /\ Head(frames).todo = <<>>
  /\ frames' = <<>>
  /\ stage' = CASE stage = "detach" -> "detached"
                [] stage = "attach" /\ Head(frames).failed -> "failed"
                [] OTHER -> "attached"
  /\ UNCHANGED <<ladder, owned, marks, misfreed>>

BeginCall(f, s) ==
  /\ stage = "attached" /\ frames = <<>>
  /\ frames' = <<CallFrame(f, "return", FALSE)>>
  /\ stage' = s
  /\ UNCHANGED <<ladder, owned, marks, misfreed>>

Use == \E f \in Ladders[ladder].use : BeginCall(f, "use")
Detach == BeginCall(Ladders[ladder].detach, "detach")

LadderNext ==
  \/ Acquire \/ Release \/ SetMark \/ Jump \/ Test \/ Choose \/ PassLabel
  \/ Enter \/ Leave \/ Done \/ Use \/ Detach

LadderSpec == LadderInit /\ [][LadderNext]_ladderVars

(***************************************************************************)
(* Property                                                                *)
(***************************************************************************)
\* Whatever call fails, and in whatever order the functions of a pair are called,
\* a failed attach and an attach followed by its detach leave nothing allocated,
\* mapped or registered, and no function releases what is not held at that
\* moment.  `leaks` and `wrong` name the resources for which the source does not
\* do this, and `unlisted` what stays behind an object that was built and put on
\* no list; every other resource of every ladder is unwound.
LadderUnwound ==
  /\ stage \in {"failed", "detached"} =>
       \A r \in owned : r[1] \in Ladders[ladder].leaks \/ (Unlisted \in marks /\ r[1] \in Ladders[ladder].unlisted)
  /\ \A r \in misfreed : r[1] \in Ladders[ladder].wrong
=============================================================================
