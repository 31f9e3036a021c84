-------------------------------- MODULE Text --------------------------------
(***************************************************************************)
(* Printing a function as text and reading it back: src/src/text/printer.rs*)
(* and the assembly of src/src/text/parser.rs.  The printer gives every    *)
(* value a handle and every block a label; the parser creates blocks and   *)
(* values in the order of the text and then resolves handles and labels.   *)
(*                                                                         *)
(* A text is what parse_function makes of it, the shape of RawFunction:    *)
(* params, result, external, variadic and blocks, each with label, params, *)
(* insts and term.  Types and instruction kinds read back as themselves.   *)
(*                                                                         *)
(* A function is that of module Verify with debug names: vnames for its    *)
(* values and bnames for its blocks.  A string is <<"id", s>>, <<"digits", *)
(* n>> or <<"bb", n>>, the three kinds the code tells apart.               *)
(***************************************************************************)
EXTENDS Verify, SequencesExt, FiniteSetsExt

CONSTANT Modules        \* the functions that are printed

NoName == <<"none", 0>>
IsAnonymous(handle) == handle[1] = "digits"         \* is_anonymous_handle
IsReserved(label) == label[1] = "bb"                \* is_reserved_block_name

-----------------------------------------------------------------------------
(* printer.rs                                                               *)

\* Targets of the terminator in order, then before else (CfgInfo::compute visits
\* them from the last).
Targets(m, b) == [e \in DOMAIN m.terms[b].edges |-> m.terms[b].edges[e].to]

RECURSIVE Visit(_, _, _)
Visit(m, walk, b) ==
    IF b \in walk.seen THEN walk
    ELSE LET below == FoldRight(LAMBDA s, w : Visit(m, w, s), Targets(m, b),
                                [walk EXCEPT !.seen = @ \cup {b}])
         IN  [below EXCEPT !.post = Append(@, b)]

\* Blocks in reverse post-order, then the unreachable ones.
BlockOrder(m) ==
    IF m.terms = <<>> THEN <<>>
    ELSE LET post == Visit(m, [seen |-> {}, post |-> <<>>], Entry).post
         IN  Reverse(post)
               \o SetToSortSeq(BlockIds(m) \ ToSet(post), LAMBDA a, b : a < b)

Results(m, b) ==
    SelectSeq([i \in DOMAIN m.insts[b] |-> m.insts[b][i].result], LAMBDA v : v # NoValue)
BlockValues(m, b) ==
    [i \in DOMAIN m.bparams[b] |-> m.bparams[b][i].value] \o Results(m, b)
ParamValues(m) == [i \in DOMAIN m.params |-> m.params[i].value]

\* The values in the order the text defines them.
Emitted(m) ==
    LET order == BlockOrder(m)
    IN  ParamValues(m) \o FlattenSeq([i \in DOMAIN order |-> BlockValues(m, order[i])])

\* A definition named ...Bug makes one plausible mistake in the definition that
\* follows it.  No specification uses it; it shows that a property would notice.

\* A name is printed only if no other value (or block) has it too.
KeptBug(names, n) == n # NoName
Kept(names, n) == n # NoName /\ Cardinality({i \in DOMAIN names : names[i] = n}) = 1

\* How many of the first i ones get a number.
NumberBug(ids, i, anonymous) == ids[i]
Number(ids, i, anonymous) == Cardinality({j \in 1..(i - 1) : ids[j] \in anonymous})

\* compute_names
Handles(m) ==
    LET ids == Emitted(m)
        anonymous == {v \in Arena(m) : ~Kept(m.vnames, m.vnames[v])}
    IN  [v \in ToSet(ids) |->
           IF v \in anonymous
           THEN <<"digits", Number(ids, CHOOSE i \in DOMAIN ids : ids[i] = v, anonymous)>>
           ELSE m.vnames[v]]

BlockLabels(m) ==
    LET order == BlockOrder(m)
        anonymous == {b \in BlockIds(m) :
                        ~Kept(m.bnames, m.bnames[b]) \/ IsReserved(m.bnames[b])}
    IN  [b \in ToSet(order) |->
           IF b \in anonymous
           THEN <<"bb", Number(order, CHOOSE i \in DOMAIN order : order[i] = b, anonymous)>>
           ELSE m.bnames[b]]

\* The header prints the debug name of a parameter, and the handle of one without
\* only in a definition.
HeaderHandle(m, v) ==
    CASE m.vnames[v] # NoName -> m.vnames[v]
      [] m.terms # <<>> -> Handles(m)[v]
      [] OTHER -> NoName

\* Operands carry their type.
Printed(m, handles, vs) ==
    [i \in DOMAIN vs |-> [ty |-> m.values[vs[i]].ty, handle |-> handles[vs[i]]]]

PrintBlock(m, handles, blabels, b) ==
    [label |-> blabels[b],
     params |-> [i \in DOMAIN m.bparams[b] |->
                   [ty |-> m.bparams[b][i].ty, handle |-> handles[m.bparams[b][i].value]]],
     insts |-> [i \in DOMAIN m.insts[b] |->
                  LET inst == m.insts[b][i]
                  IN  [op |-> inst.op,
                       handle |-> IF inst.result = NoValue THEN NoName ELSE handles[inst.result],
                       args |-> Printed(m, handles, inst.args)]],
     term |-> [tag |-> m.terms[b].tag,
               uses |-> Printed(m, handles, m.terms[b].uses),
               edges |-> [e \in DOMAIN m.terms[b].edges |->
                            LET edge == m.terms[b].edges[e]
                            IN  [to |-> blabels[edge.to],
                                 args |-> Printed(m, handles, edge.args)]]]]

\* print_function
Rendered(m) ==
    LET order == BlockOrder(m)
        handles == Handles(m)
        blabels == BlockLabels(m)
    IN  [params |-> [i \in DOMAIN m.params |->
                       [ty |-> m.params[i].ty, handle |-> HeaderHandle(m, m.params[i].value)]],
         result |-> m.result, external |-> m.external, variadic |-> m.variadic,
         blocks |-> [i \in DOMAIN order |-> PrintBlock(m, handles, blabels, order[i])]]

-----------------------------------------------------------------------------
(* parser.rs                                                                *)

VARIABLES source,   \* the function that is printed, never changes
          text,
          phase,    \* start, define, resolve, done, rejected
          at,       \* block of the text
          values,   \* handle -> value
          labels,   \* label -> block
          made      \* the function made so far

vars == <<source, text, phase, at, values, labels, made>>

Nothing == [params |-> <<>>, result |-> Void, external |-> FALSE, variadic |-> FALSE,
            values |-> <<>>, vnames |-> <<>>, bparams |-> <<>>, bnames |-> <<>>,
            insts |-> <<>>, terms |-> <<>>]

Init ==
    /\ source \in Modules
    /\ text = Rendered(source)
    /\ phase = "start" /\ at = 1
    /\ values = <<>> /\ labels = <<>>
    /\ made = Nothing

Injective(s) == \A i, j \in DOMAIN s : s[i] = s[j] => i = j

Reject ==
    /\ phase' = "rejected"
    /\ UNCHANGED <<source, text, at, values, labels, made>>

\* A handle names its value unless the printer made it up.
NameOf(handle) == IF handle = NoName \/ IsAnonymous(handle) THEN NoName ELSE handle

\* assemble: the skeleton of the function; then the handles of its parameters.
ParamHandles == SelectSeq([i \in DOMAIN text.params |-> text.params[i].handle],
                          LAMBDA h : h # NoName)

Skeleton ==
    /\ phase = "start"
    /\ IF ~Injective(ParamHandles) THEN Reject
       ELSE /\ made' = [Nothing EXCEPT
                  !.params = [i \in DOMAIN text.params |->
                                [value |-> i, ty |-> text.params[i].ty]],
                  !.result = text.result,
                  !.external = text.external, !.variadic = text.variadic,
                  !.values = [i \in DOMAIN text.params |->
                                [ty |-> text.params[i].ty, kind |-> ParamKind(i)]],
                  !.vnames = [i \in DOMAIN text.params |-> NameOf(text.params[i].handle)]]
            /\ values' = [h \in ToSet(ParamHandles) |->
                            CHOOSE i \in DOMAIN text.params : text.params[i].handle = h]
            /\ phase' = "define"
            /\ UNCHANGED <<source, text, at, labels>>

Raw == text.blocks[at]

\* What a block defines, in order, parameters first.
Defs ==
    [i \in DOMAIN Raw.params |->
       [handle |-> Raw.params[i].handle, ty |-> Raw.params[i].ty, kind |-> BlockParamKind(at, i)]]
    \o SelectSeq([i \in DOMAIN Raw.insts |->
                    [handle |-> Raw.insts[i].handle, ty |-> Raw.insts[i].op.result,
                     kind |-> InstKind(at, i)]],
                 LAMBDA d : d.handle # NoName)
DefHandles == [i \in DOMAIN Defs |-> Defs[i].handle]

\* Names of blocks and values share one map: a label that is reserved becomes a name
\* after all if a value is called so.
BlockName(label) ==
    IF \/ ~IsReserved(label)
       \/ \E b \in DOMAIN text.blocks :
            \/ \E i \in DOMAIN text.blocks[b].params : text.blocks[b].params[i].handle = label
            \/ \E i \in DOMAIN text.blocks[b].insts : text.blocks[b].insts[i].handle = label
    THEN label ELSE NoName

DefineBlock ==
    /\ phase = "define" /\ at <= Len(text.blocks)
    /\ IF \/ Raw.label \in DOMAIN labels
          \/ ~Injective(DefHandles)
          \/ ToSet(DefHandles) \cap DOMAIN values # {}
       THEN Reject
       ELSE LET first == Len(made.values)
            IN  /\ labels' = (Raw.label :> at) @@ labels
                /\ values' = [h \in ToSet(DefHandles) |->
                                first + CHOOSE i \in DOMAIN Defs : DefHandles[i] = h] @@ values
                /\ made' = [made EXCEPT
                      !.values = @ \o [i \in DOMAIN Defs |->
                                         [ty |-> Defs[i].ty, kind |-> Defs[i].kind]],
                      !.vnames = @ \o [i \in DOMAIN Defs |-> NameOf(Defs[i].handle)],
                      !.bparams = Append(@, [i \in DOMAIN Raw.params |->
                                               [value |-> first + i, ty |-> Raw.params[i].ty]]),
                      !.bnames = Append(@, BlockName(Raw.label)),
                      !.insts = Append(@, <<>>),
                      !.terms = Append(@, [tag |-> "None", uses |-> <<>>, edges |-> <<>>])]
                /\ at' = at + 1
                /\ UNCHANGED <<source, text, phase>>

AllDefined ==
    /\ phase = "define" /\ at > Len(text.blocks)
    /\ phase' = "resolve" /\ at' = 1
    /\ UNCHANGED <<source, text, values, labels, made>>

\* An operand names a value of the type it is annotated with.
Resolves(operand) ==
    /\ operand.handle \in DOMAIN values
    /\ made.values[values[operand.handle]].ty = operand.ty

RawOperands ==
    FlattenSeq([i \in DOMAIN Raw.insts |-> Raw.insts[i].args])
      \o Raw.term.uses
      \o FlattenSeq([e \in DOMAIN Raw.term.edges |-> Raw.term.edges[e].args])

Resolved(operands) == [i \in DOMAIN operands |-> values[operands[i].handle]]

ResolveBlock ==
    /\ phase = "resolve" /\ at <= Len(text.blocks)
    /\ IF \/ Raw.term.tag = "None"
          \/ \E i \in DOMAIN RawOperands : ~Resolves(RawOperands[i])
          \/ \E e \in DOMAIN Raw.term.edges : Raw.term.edges[e].to \notin DOMAIN labels
       THEN Reject
       ELSE /\ made' = [made EXCEPT
                  !.insts[at] = [i \in DOMAIN Raw.insts |->
                     [op |-> Raw.insts[i].op, args |-> Resolved(Raw.insts[i].args),
                      result |-> IF Raw.insts[i].handle = NoName THEN NoValue
                                 ELSE values[Raw.insts[i].handle]]],
                  !.terms[at] = [tag |-> Raw.term.tag, uses |-> Resolved(Raw.term.uses),
                                 edges |-> [e \in DOMAIN Raw.term.edges |->
                                    [to |-> labels[Raw.term.edges[e].to],
                                     args |-> Resolved(Raw.term.edges[e].args)]]]]
            /\ at' = at + 1
            /\ UNCHANGED <<source, text, phase, values, labels>>

Assembled ==
    /\ phase = "resolve" /\ at > Len(text.blocks)
    /\ phase' = "done"
    /\ UNCHANGED <<source, text, at, values, labels, made>>

Next == Skeleton \/ DefineBlock \/ AllDefined \/ ResolveBlock \/ Assembled

Spec == Init /\ [][Next]_vars

-----------------------------------------------------------------------------
\* The name of a parameter is an identifier nobody else in the function has.
ParamNamesPrintable(m) ==
    \A i \in DOMAIN m.params :
      LET n == m.vnames[m.params[i].value]
      IN  n = NoName \/ (~IsAnonymous(n) /\ Kept(m.vnames, n))

\* What reading back is allowed to change: blocks and values are numbered in the
\* order of the text, and names that are not unique, or reserved, are lost.
Position(ids, x) == CHOOSE i \in DOMAIN ids : ids[i] = x
Numbers(ids, S) == Injective(ids) /\ ToSet(ids) = S

Renumbered(m) ==
    LET order == BlockOrder(m)
        ids == Emitted(m)
        block(b) == Position(order, b)
        renamed(vs) == [i \in DOMAIN vs |-> Position(ids, vs[i])]
        site(kind) == IF kind.tag = "Param" THEN kind ELSE [kind EXCEPT !.block = block(@)]
        name(names, n) == IF Kept(names, n) THEN n ELSE NoName
    IN  [m EXCEPT
          !.values = [i \in DOMAIN ids |->
                        [ty |-> m.values[ids[i]].ty, kind |-> site(m.values[ids[i]].kind)]],
          !.vnames = [i \in DOMAIN ids |-> name(m.vnames, m.vnames[ids[i]])],
          !.bparams = [i \in DOMAIN order |->
                         [n \in DOMAIN m.bparams[order[i]] |->
                            [value |-> Position(ids, m.bparams[order[i]][n].value),
                             ty |-> m.bparams[order[i]][n].ty]]],
          !.bnames = [i \in DOMAIN order |-> name(m.bnames, m.bnames[order[i]])],
          !.insts = [i \in DOMAIN order |->
                       [n \in DOMAIN m.insts[order[i]] |->
                          LET inst == m.insts[order[i]][n]
                          IN  [inst EXCEPT !.args = renamed(@),
                                 !.result = IF @ = NoValue THEN @ ELSE Position(ids, @)]]],
          !.terms = [i \in DOMAIN order |->
                       LET term == m.terms[order[i]]
                       IN  [term EXCEPT !.uses = renamed(@),
                              !.edges = [e \in DOMAIN @ |->
                                 [to |-> block(@[e].to), args |-> renamed(@[e].args)]]]]]

\* The names of blocks that the printer would not print do not count.
Unreserved(m) ==
    [m EXCEPT !.bnames = [b \in DOMAIN @ |-> IF IsReserved(@[b]) THEN NoName ELSE @[b]]]

\* "Roundtrip: IR -> print -> parse -> verify succeeds" (USAGE.md:305-307), and what
\* comes back is the function that was printed (printer.rs:117-270, parser.rs:1198-1540):
\* all its blocks, the entry first, and all its values, each under a new number.
ReadsBackAlways ==
    /\ phase # "rejected"
    /\ phase = "done" =>
         /\ Verified(made)
         /\ Numbers(BlockOrder(source), BlockIds(source)) /\ Numbers(Emitted(source), Arena(source))
         /\ BlockIds(source) # {} => BlockOrder(source)[1] = Entry
         /\ Unreserved(made) = Renumbered(source)

\* The same, for functions whose parameters have names of their own.
ReadsBack == ParamNamesPrintable(source) => ReadsBackAlways

\* What was read back prints as the same text (USAGE.md:302-304), even if values or
\* blocks were named like each other (printer.rs:127-186).
PrintsTheSame ==
    phase = "done" /\ ParamNamesPrintable(source) => Rendered(made) = text
=============================================================================
