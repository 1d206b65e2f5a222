----------------------------- MODULE MCPlatform -----------------------------
(***************************************************************************)
(* Model-checking instance of the code that the protocols stand on: the    *)
(* heap, formatted output, the SIMD intrinsics, the interrupt controller,  *)
(* the data cache, memory protection, I/O regions and the life cycle of a  *)
(* remote processor.  They share no state, so a behaviour is one of one of *)
(* them: unit says whose, and the others stay in their initial states.     *)
(* Interrupt priorities are independent of the other registers of the      *)
(* controller and have a unit of their own.                                *)
(***************************************************************************)
EXTENDS NutHeap, Printf, Simd, Clic, DCache, Pmp, MetalIo, MCRemoteproc

VARIABLE unit

utilVars == <<vars, printfVars, simdVars>>
coreVars == <<clicVars, dcacheVars, pmpVars, ioVars>>
platformVars == <<utilVars, coreVars, lifeVars, unit>>

\* Two regions, the second one neither aligned nor a multiple of the word size.
TwoRegions == {[addr |-> 4, size |-> 18], [addr |-> 25, size |-> 16]}

\* Formats: one directive built from every choice of its fields.
FlagSets == {<<>>, <<"0">>, <<"-">>, <<"+">>, <<" ">>, <<"#">>, <<"0", "+">>, <<"-", "+">>, <<"0", "-">>, <<"#", "0">>}
Widths   == {<<>>, <<"1">>, <<"4">>, <<"9">>, <<"*">>}
Precs    == {<<>>, <<".">>, <<".", "3">>, <<".", "9">>}
One(flags, w, p, l, c) == <<"%">> \o flags \o w \o p \o l \o <<c>>
Star(w)  == IF w = <<"*">> THEN <<2^INTBITS - 3>> ELSE <<>>
IntCalls == {[fmt |-> One(f, w, p, <<>>, c), args |-> Star(w) \o <<v>>, count |-> 40] :
               f \in FlagSets, w \in Widths, p \in Precs, c \in {"d", "u", "x", "b"}, v \in {0, 1, 9, 15, 16, 31}}
LenCalls == {[fmt |-> One(<<>>, <<>>, <<>>, l, c), args |-> <<v>>, count |-> n] :
               l \in {<<>>, <<"l">>, <<"l", "l">>, <<"h">>, <<"h", "h">>, <<"j">>, <<"z">>, <<"t">>},
               c \in {"i", "X", "o"}, v \in {0, 7, 8, 31, 32, 63}, n \in {0, 1, 2, 40}}
FloatCalls == {[fmt |-> One(f, w, p, <<>>, "f"), args |-> <<v>>, count |-> 40] :
               f \in {<<>>, <<"0">>, <<"-">>, <<"0", "+">>}, w \in {<<>>, <<"7">>}, p \in {<<>>, <<".">>, <<".", "1">>, <<".", "3">>}, v \in -42 .. 42}
TextCalls == {[fmt |-> <<"a">> \o One(f, w, p, <<>>, "s") \o <<"%", "%">> \o One(f, w, p, <<>>, "c") \o <<"%", "p", "b">>,
               args |-> <<s, <<"z">>, 10>>, count |-> n] :
               f \in {<<>>, <<"-">>}, w \in {<<>>, <<"4">>}, p \in Precs, s \in {<<>>, <<"x">>, <<"x", "y", "x", "y">>}, n \in {0, 1, 3, 5, 8, 40}}
           \cup {[fmt |-> One(f, w, p, <<>>, "s"), args |-> <<s>>, count |-> 40] :
               f \in {<<>>, <<"-">>}, w \in {<<>>, <<"4">>}, p \in Precs, s \in {<<>>, <<"x">>, <<"x", "y", "x", "y">>}}
SomeCalls == IntCalls \cup LenCalls \cup FloatCalls \cup TextCalls

\* Every first operand; second operands with the halfwords around zero and
\* around the change of sign.
AllWords  == 0 .. 255
EdgeWords == {16 * high + low : high, low \in {0, 1, 7, 8, 15}}

\* One page at two alignments, and three pages out of order.
SomeRegions ==
  {[virt |-> v, physmap |-> <<3>>, size |-> 7, page_size |-> ULONG] : v \in 8 .. 9}
    \cup {[virt |-> 10, physmap |-> <<8, 0, 24>>, size |-> 10, page_size |-> 4]}

FewSizes == {-1, 0, 1}

PlatformInit ==
  /\ unit \in {"heap", "printf", "simd", "clic", "prio", "dcache", "pmp", "io", "life"}
  /\ Init /\ PrintfInit /\ SimdInit
  /\ ClicInit /\ DCacheInit /\ PmpInit /\ IoInit /\ LifeInit

Priorities == ClicPrio \/ \E i \in Irqs : EnableIrq(i) \/ DisableIrq(i)

Utilities ==
  \/ unit = "heap" /\ Next /\ UNCHANGED <<printfVars, simdVars>>
  \/ unit = "printf" /\ PrintfNext /\ UNCHANGED <<vars, simdVars>>
  \/ unit = "simd" /\ SimdNext /\ UNCHANGED <<vars, printfVars>>

Core ==
  \/ unit = "clic" /\ ClicIrq /\ UNCHANGED <<dcacheVars, pmpVars, ioVars>>
  \/ unit = "prio" /\ Priorities /\ UNCHANGED <<dcacheVars, pmpVars, ioVars>>
  \/ unit = "dcache" /\ DCacheNext /\ UNCHANGED <<clicVars, pmpVars, ioVars>>
  \/ unit = "pmp" /\ PmpNext /\ UNCHANGED <<clicVars, dcacheVars, ioVars>>
  \/ unit = "io" /\ IoNext /\ UNCHANGED <<clicVars, dcacheVars, pmpVars>>

PlatformNext ==
  \/ Utilities /\ UNCHANGED <<coreVars, lifeVars, unit>>
  \/ Core /\ UNCHANGED <<utilVars, lifeVars, unit>>
  \/ unit = "life" /\ LifeNext /\ UNCHANGED <<utilVars, coreVars, unit>>

PlatformSpec == PlatformInit /\ [][PlatformNext]_platformVars
=============================================================================
