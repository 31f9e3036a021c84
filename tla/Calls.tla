------------------------------- MODULE Calls --------------------------------
(***************************************************************************)
(* The generated code of one function (astronomy-x86/src/codegen.rs) at    *)
(* work on its stack, byte by byte: constants, construct, extract, insert, *)
(* memory through pointers to allocas, and a call of another generated     *)
(* function.  Composes Layout, which says where bytes belong, and two      *)
(* StackFrames, of the caller and of the callee.                           *)
(*                                                                         *)
(* Addresses count from the caller's rbp, so its frame is at negative      *)
(* ones.  Scalars have names, and <<x, i>> is the i-th byte of scalar x:   *)
(* a pointer to the n-th alloca is -n.                                     *)
(***************************************************************************)
EXTENDS StackFrame, Layout

CONSTANT Programs   \* [types, insts, allocas, scratch: of the caller;
                    \*  params, locals: types of the callee's values,
                    \*  nested: stack bytes of the calls the callee makes]

VARIABLES prog,
          calleeFn, calleeDisp, calleeUsed, calleePlanned, calleeOutgoing,
          calleeSize, calleePhase,
          mem,      \* address -> byte, for every address ever written
          gp, xmm,  \* register -> its eight low bytes
          env,      \* value -> the scalars it should hold, in order
          heap,     \* alloca -> the scalars its storage should hold
          pc,       \* index of the instruction
          k,        \* step within the instruction
          mode      \* build, run, callee, return

calleeVars == <<calleeFn, calleeDisp, calleeUsed, calleePlanned, calleeOutgoing,
                calleeSize, calleePhase>>
machineVars == <<mem, gp, xmm, env, heap, pc, k, mode>>
vars == <<prog, frameVars, calleeVars, machineVars>>

Callee == INSTANCE StackFrame
            WITH fn <- calleeFn, disp <- calleeDisp, used <- calleeUsed,
                 planned <- calleePlanned, outgoing <- calleeOutgoing,
                 frameSize <- calleeSize, phase <- calleePhase

-----------------------------------------------------------------------------
(* What build finds in the two functions.                                   *)

RequestOf(t) == [size |-> SizeOf[t], align |-> AlignOf[t]]
Requests(types) == [i \in DOMAIN types |-> RequestOf(types[i])]

ArgTypes(p, inst) == [i \in DOMAIN inst.args |-> p.types[inst.args[i]]]
CallsOf(p) == SelectSeq(p.insts, LAMBDA inst : inst.op = "call")

CallerFn(p) ==
    [slots |-> Requests(p.types \o p.allocas \o p.scratch),
     calls |-> [i \in DOMAIN CallsOf(p) |-> StackBytes(ArgTypes(p, CallsOf(p)[i]))]]
CalleeFn(p) == [slots |-> Requests(p.params \o p.locals), calls |-> p.nested]

\* check_supported of every value and alloca; a call passes scalars only.
Lowerable(p) ==
    /\ \A t \in ToSet(p.types \o p.allocas \o p.params \o p.locals) : Supported[t]
    /\ \A i \in DOMAIN CallsOf(p) : Passable(ArgTypes(p, CallsOf(p)[i]))

Init ==
    /\ prog \in {p \in Programs : Lowerable(p)}
    /\ fn = CallerFn(prog) /\ FrameInit
    /\ calleeFn = CalleeFn(prog) /\ Callee!FrameInit
    /\ mem = <<>> /\ gp = <<>> /\ xmm = <<>> /\ env = <<>> /\ heap = <<>>
    /\ pc = 1 /\ k = 1
    /\ mode = "build"

BuildCaller == mode = "build" /\ FrameNext /\ UNCHANGED <<prog, calleeVars, machineVars>>

BuildCallee ==
    /\ mode = "build" /\ phase = "done"
    /\ Callee!FrameNext
    /\ UNCHANGED <<prog, frameVars, machineVars>>

Start ==
    /\ mode = "build" /\ phase = "done" /\ calleePhase = "done"
    /\ mode' = "run"
    /\ UNCHANGED <<prog, frameVars, calleeVars, mem, gp, xmm, env, heap, pc, k>>

-----------------------------------------------------------------------------
(* Bytes.                                                                   *)

Junk == <<0, 0>>
Byte(a) == IF a \in DOMAIN mem THEN mem[a] ELSE Junk
Bytes(a, n) == [i \in 1..n |-> Byte(a + i - 1)]

\* mem after a store of the bytes to address a.
Stored(a, bytes) ==
    [x \in DOMAIN mem \cup a..(a + Len(bytes) - 1) |->
       IF x \in a..(a + Len(bytes) - 1) THEN bytes[x - a + 1] ELSE mem[x]]

\* A register after a load of n bytes: extended to all eight.
Extended(bytes) == [i \in 1..8 |-> IF i <= Len(bytes) THEN bytes[i] ELSE Junk]

\* The scalars of a type with their offsets, in order (a constant aggregate is
\* written scalar by scalar).
Scalars[t \in TypeIds] ==
    IF ~IsAggregate(t) THEN <<[offset |-> 0, size |-> SizeOf[t], align |-> AlignOf[t]]>>
    ELSE FlattenSeq([i \in 1..FieldCount(t) |->
           LET field == Scalars[FieldType(t, i - 1)]
           IN  [n \in DOMAIN field |->
                  [field[n] EXCEPT !.offset = @ + FieldOffset(t, i - 1)]]])

ScalarBytes(x, n) == [i \in 1..n |-> <<x, i>>]
Fresh(v, n) == 100 * v + n                       \* the n-th scalar of a new value v

\* Address a holds the scalars xs of type t; padding does not matter.
Holds(a, t, xs) ==
    \A n \in DOMAIN xs :
      Bytes(a + Scalars[t][n].offset, Scalars[t][n].size)
        = ScalarBytes(xs[n], Scalars[t][n].size)

Slot(v) == disp[v]
Storage(n) == disp[Len(prog.types) + n]          \* of the n-th alloca
Pointee(v) == CHOOSE n \in DOMAIN prog.allocas : Bytes(Slot(v), 8) = ScalarBytes(-n, 8)
CalleeBase == -frameSize - 16                    \* its rbp: return address, pushed rbp

Inst == prog.insts[pc]
ResultType == prog.types[Inst.result]
AtInst(op) == mode = "run" /\ pc <= Len(prog.insts) /\ Inst.op = op

-----------------------------------------------------------------------------
(* Instructions that move bytes: each is a list of copies made in order.    *)

CopiedBug(a, t) == Bytes(a, AlignUp(SizeOf[t], 8))      \* copies whole words
Copied(a, t) == Bytes(a, SizeOf[t])                     \* copy_slot

To(a, bytes) == [to |-> a, bytes |-> bytes]

\* materialize_const, gen_construct, gen_extract, gen_insert, Alloca, gen_store, gen_load
Copies ==
    LET at == Slot(Inst.result)
    IN  CASE Inst.op = "const" ->
               [n \in DOMAIN Scalars[ResultType] |->
                  LET s == Scalars[ResultType][n]
                  IN  To(at + s.offset, ScalarBytes(Fresh(Inst.result, n), s.size))]
          [] Inst.op = "construct" ->
               [i \in DOMAIN Inst.args |->
                  To(at + FieldOffset(ResultType, i - 1),
                     Copied(Slot(Inst.args[i]), FieldType(ResultType, i - 1)))]
          [] Inst.op = "extract" ->
               LET agg == prog.types[Inst.args[1]]
               IN  <<To(at, Copied(Slot(Inst.args[1]) + FieldOffset(agg, Inst.index),
                                   FieldType(agg, Inst.index)))>>
          [] Inst.op = "insert" ->
               <<To(at, Copied(Slot(Inst.args[1]), ResultType)),
                 To(at + FieldOffset(ResultType, Inst.index),
                    Copied(Slot(Inst.args[2]), FieldType(ResultType, Inst.index)))>>
          [] Inst.op = "alloca" -> <<To(at, ScalarBytes(-Inst.index, 8))>>
          [] Inst.op = "load" ->
               <<To(at, Copied(Storage(Pointee(Inst.args[1])), ResultType))>>
          [] Inst.op = "store" ->
               <<To(Storage(Pointee(Inst.args[1])),
                    Copied(Slot(Inst.args[2]), prog.types[Inst.args[2]]))>>

\* The number of scalars before field i of an aggregate, and in the field.
Before(t, i) == Len(FlattenSeq([j \in 1..i |-> Scalars[FieldType(t, j - 1)]]))
Width(t, i) == Len(Scalars[FieldType(t, i)])

\* What the instruction means: the scalars of its result.
Meaning ==
    LET arg(n) == env[Inst.args[n]]
    IN  CASE Inst.op = "const" -> [n \in DOMAIN Scalars[ResultType] |-> Fresh(Inst.result, n)]
          [] Inst.op = "construct" -> FlattenSeq([n \in DOMAIN Inst.args |-> arg(n)])
          [] Inst.op = "extract" ->
               LET agg == prog.types[Inst.args[1]]
               IN  SubSeq(arg(1), Before(agg, Inst.index) + 1,
                          Before(agg, Inst.index) + Width(agg, Inst.index))
          [] Inst.op = "insert" ->
               LET before == Before(ResultType, Inst.index)
               IN  SubSeq(arg(1), 1, before) \o arg(2)
                     \o SubSeq(arg(1), before + Len(arg(2)) + 1, Len(arg(1)))
          [] Inst.op = "alloca" -> <<-Inst.index>>
          [] Inst.op = "load" -> heap[-arg(1)[1]]

MovesBytes ==
    mode = "run" /\ pc <= Len(prog.insts) /\ Inst.op # "call"

Copy ==
    /\ MovesBytes /\ k <= Len(Copies)
    /\ mem' = Stored(Copies[k].to, Copies[k].bytes)
    /\ k' = k + 1
    /\ UNCHANGED <<prog, frameVars, calleeVars, gp, xmm, env, heap, pc, mode>>

Finish ==
    /\ MovesBytes /\ k > Len(Copies)
    /\ IF Inst.op = "store"
       THEN /\ heap' = (-env[Inst.args[1]][1] :> env[Inst.args[2]]) @@ heap
            /\ UNCHANGED env
       ELSE /\ env' = (Inst.result :> Meaning) @@ env
            /\ UNCHANGED heap
    /\ pc' = pc + 1 /\ k' = 1
    /\ UNCHANGED <<prog, frameVars, calleeVars, mem, gp, xmm, mode>>

-----------------------------------------------------------------------------
(* gen_call, emit_prologue and the return.                                  *)

ArgLoc(n) == PlanTypes(ArgTypes(prog, Inst))[n]
ParamLoc(n) == PlanTypes(prog.params)[n]

\* One turn of the loop over the arguments.
MoveArg ==
    /\ AtInst("call") /\ k <= Len(Inst.args)
    /\ LET loc == ArgLoc(k)
           v == Inst.args[k]
           bytes == Extended(Bytes(Slot(v), SizeOf[prog.types[v]]))
       IN  CASE loc.in = "reg" -> gp' = (loc.reg :> bytes) @@ gp /\ UNCHANGED <<xmm, mem>>
             [] loc.in = "xmm" -> xmm' = (loc.reg :> bytes) @@ xmm /\ UNCHANGED <<gp, mem>>
             [] loc.in = "stack" ->
                  /\ gp' = ("rax" :> bytes) @@ gp
                  /\ mem' = Stored(-frameSize + loc.offset, bytes)
                  /\ UNCHANGED xmm
    /\ k' = k + 1
    /\ UNCHANGED <<prog, frameVars, calleeVars, env, heap, pc, mode>>

ArgsMoved == AtInst("call") /\ k > Len(Inst.args)

\* call pushes the return address, the callee pushes rbp.
EnterCallee ==
    /\ ArgsMoved /\ ~Inst.external
    /\ mem' = Stored(CalleeBase, [i \in 1..16 |-> Junk])
    /\ mode' = "callee" /\ k' = 1
    /\ UNCHANGED <<prog, frameVars, calleeVars, gp, xmm, env, heap, pc>>

\* Offset of the stack arguments from the callee's rbp.
Incoming == 16

\* One turn of the loop of emit_prologue over the parameters.
SaveParam ==
    /\ mode = "callee" /\ k <= Len(prog.params)
    /\ LET loc == ParamLoc(k)
           from == CASE loc.in = "reg" -> gp[loc.reg]
                     [] loc.in = "xmm" -> xmm[loc.reg]
                     [] loc.in = "stack" -> Bytes(CalleeBase + Incoming + loc.offset, 8)
       IN  /\ mem' = Stored(CalleeBase + calleeDisp[k],
                            SubSeq(from, 1, SizeOf[prog.params[k]]))
           /\ gp' = IF loc.in = "stack" THEN ("rax" :> from) @@ gp ELSE gp
    /\ k' = k + 1
    /\ UNCHANGED <<prog, frameVars, calleeVars, xmm, env, heap, pc, mode>>

\* Whatever a called function does, it may overwrite all below its caller's rsp,
\* its own stack arguments and the registers; it returns something new.
Return ==
    /\ \/ mode = "callee" /\ k > Len(prog.params)
       \/ ArgsMoved /\ Inst.external
    /\ LET own == -frameSize + StackBytes(ArgTypes(prog, Inst))
           result == Extended(ScalarBytes(Fresh(Inst.result, 1), SizeOf[ResultType]))
       IN  /\ mem' = [a \in {a \in DOMAIN mem : a >= own} |-> mem[a]]
           /\ IF IsFloat(ResultType) THEN xmm' = (0 :> result) /\ gp' = <<>>
                                     ELSE gp' = ("rax" :> result) /\ xmm' = <<>>
    /\ mode' = "return"
    /\ UNCHANGED <<prog, frameVars, calleeVars, env, heap, pc, k>>

StoreResult ==
    /\ mode = "return"
    /\ mem' = Stored(Slot(Inst.result),
                     SubSeq(IF IsFloat(ResultType) THEN xmm[0] ELSE gp["rax"],
                            1, SizeOf[ResultType]))
    /\ env' = (Inst.result :> <<Fresh(Inst.result, 1)>>) @@ env
    /\ pc' = pc + 1 /\ k' = 1
    /\ mode' = "run"
    /\ UNCHANGED <<prog, frameVars, calleeVars, gp, xmm, heap>>

Next ==
    \/ BuildCaller \/ BuildCallee \/ Start
    \/ Copy \/ Finish
    \/ MoveArg \/ EnterCallee \/ SaveParam \/ Return \/ StoreResult

Spec == Init /\ [][Next]_vars

-----------------------------------------------------------------------------
\* The bytes of the scalars of a value lie aligned within its slot and apart, for
\* every type a program uses: what struct_layout reserves is what field_offset
\* addresses (layout.rs:157-169, 191-222).
FieldsInPlace ==
    \A v \in DOMAIN disp :
      v <= Len(prog.types) =>
        LET t == prog.types[v]
            s == Scalars[t]
        IN  \A n \in DOMAIN s :
              /\ (disp[v] + s[n].offset) % s[n].align = 0
              /\ s[n].offset + s[n].size <= SizeOf[t]
              /\ n > 1 => s[n - 1].offset + s[n - 1].size <= s[n].offset

\* Every slot and every alloca holds exactly the value the IR says, whatever was
\* copied around it and whatever a callee did, and every parameter the callee has
\* saved is the caller's argument (codegen.rs:316-347, 513-554, 741-802, 1404-1519).
ValuesInSlots ==
    /\ \A v \in DOMAIN env : Holds(Slot(v), prog.types[v], env[v])
    /\ \A n \in DOMAIN heap : Holds(Storage(n), prog.allocas[n], heap[n])
    /\ mode = "callee" =>
         \A n \in 1..(k - 1) :
           Holds(CalleeBase + calleeDisp[n], prog.params[n], env[Inst.args[n]])
=============================================================================
