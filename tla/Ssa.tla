-------------------------------- MODULE Ssa ---------------------------------
(***************************************************************************)
(* What a verified function promises to whoever runs it, the abstract      *)
(* specification the generated code (module Frame) implements.  Values are *)
(* written once each time their definition runs; an instruction or         *)
(* terminator runs only if everything it reads is defined; an edge gives   *)
(* all parameters of its target their new values at once (SPECIFICATION.md *)
(* sections 12 and 14).                                                    *)
(***************************************************************************)
EXTENDS Verify

CONSTANTS Data,       \* what a value may hold
          Zero,       \* the false condition, one of Data
          Undef       \* the content of a value never written, not one of Data

VARIABLES fn,         \* the function, never changes
          block,      \* block that runs, Nowhere before the call and after the return
          pos,        \* next instruction; one past the last is the terminator
          env         \* value -> data or Undef

vars == <<fn, block, pos, env>>

Nowhere == 0

Blank(f) == [v \in Arena(f) |-> Undef]

Init ==
    /\ Verified(fn) /\ fn.terms # <<>>
    /\ block = Nowhere
    /\ pos = 0
    /\ env = Blank(fn)

\* The call: every parameter gets some data.
Enter ==
    /\ block = Nowhere /\ pos = 0
    /\ \E a \in [DOMAIN fn.params -> Data] :
         env' = [v \in DOMAIN env |-> IF v \in DOMAIN a THEN a[v] ELSE Undef]
    /\ block' = Entry
    /\ pos' = 1
    /\ UNCHANGED fn

Defined(vs) == \A v \in vs : env[v] # Undef

Instr ==
    /\ block # Nowhere /\ pos <= Len(fn.insts[block])
    /\ LET inst == fn.insts[block][pos]
       IN  /\ Defined(Range(inst.args))
           /\ IF inst.result = NoValue THEN UNCHANGED env
              ELSE \E d \in Data : env' = [env EXCEPT ![inst.result] = d]
    /\ pos' = pos + 1
    /\ UNCHANGED <<fn, block>>

Term == fn.terms[block]
AtTerm == block # Nowhere /\ pos = Len(fn.insts[block]) + 1

\* The parameters of e.to take the values the arguments have now.
Follow(e) ==
    /\ Defined(Range(e.args))
    /\ LET ps == fn.bparams[e.to]
           feeds(n, v) == ps[n].value = v
       IN  env' = [v \in DOMAIN env |->
                     IF \E n \in DOMAIN e.args : feeds(n, v)
                     THEN env[e.args[CHOOSE n \in DOMAIN e.args : feeds(n, v)]]
                     ELSE env[v]]
    /\ block' = e.to
    /\ pos' = 1
    /\ UNCHANGED fn

Jump == AtTerm /\ Term.tag = "Jump" /\ Follow(Term.edges[1])

Branch ==
    /\ AtTerm /\ Term.tag = "Branch"
    /\ Defined({Term.uses[1]})
    /\ Follow(Term.edges[IF env[Term.uses[1]] # Zero THEN 1 ELSE 2])

\* Return, or the trap of an unreachable terminator.
Leave ==
    /\ AtTerm /\ Term.tag \in {"Return", "Unreachable"}
    /\ Defined(Range(Term.uses))
    /\ block' = Nowhere
    /\ UNCHANGED <<fn, pos, env>>

Next == Enter \/ Instr \/ Jump \/ Branch \/ Leave

Spec == Init /\ [][Next]_vars
=============================================================================
