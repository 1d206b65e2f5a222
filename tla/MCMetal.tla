------------------------------ MODULE MCMetal ------------------------------
(***************************************************************************)
(* Model-checking instance of libmetal's mutex and interrupts, of the      *)
(* remote system calls and of the loading of firmware.  They share no      *)
(* state; unit says whose behaviour is followed.  Which ranges controllers *)
(* get and what software interrupts do are followed apart.                 *)
(***************************************************************************)
EXTENDS MetalMutex, MetalIrq, Rpc, ElfLoader

VARIABLE unit

metalVars == <<vars, irqVars, rpcVars, elfVars, unit>>

\* A controller with its own numbers, and two that take what is free.
SomeBases == [c \in Controllers |-> IF c = "hw" THEN 2 ELSE METAL_IRQ_ANY]
SomeNums  == [c \in Controllers |-> IF c = "hx" THEN 3 ELSE 2]

\* Segments with and without padding and bytes of the file, one that is not
\* loaded and one that crosses the end of its memory.
Seg(load, off, fsz, da, msz) == [load |-> load, off |-> off, fsz |-> fsz, da |-> da, msz |-> msz]
Text  == Seg(TRUE, 8, 2, 20, 2)
Data  == Seg(TRUE, 10, 1, 22, 3)
Bss   == Seg(TRUE, 0, 0, 41, 2)
Note  == Seg(FALSE, 8, 1, 0, 1)
Stray == Seg(TRUE, 8, 1, 23, 4)

\* The section headers come right behind the program headers, behind the
\* segments (with their names before them), or there are none.
Image(ph, seek, sh, table, first) ==
  [phoff |-> 2, phdrs |-> ph, seek |-> seek, first |-> first, size |-> 20,
   shoff |-> IF sh = "behind" THEN 14 ELSE 2 + Len(ph),
   shnum |-> IF sh = "none" THEN 0 ELSE 2, strOk |-> sh # "bad",
   stroff |-> IF sh = "behind" THEN 12 ELSE 4 + Len(ph), strlen |-> 1,
   rsc |-> [off |-> 10, da |-> 22, len |-> table]]

SomeImages ==
  {Image(ph, seek, sh, 1, first) : ph \in {<<Text, Data>>, <<Data, Note>>, <<Note, Bss, Text, Data>>},
                                   seek \in BOOLEAN, sh \in {"behind", "next", "none"}, first \in {1, 4}}
    \cup {Image(ph, TRUE, sh, 0, 9) : ph \in {<<Stray>>, <<Text>>}, sh \in {"next", "bad"}}
    \cup {Image(<<Text>>, FALSE, "bad", 0, 3)}

SomeMems == <<[da |-> 40, pa |-> 0, size |-> 3], [da |-> 20, pa |-> 3, size |-> 5]>>

Mutex(A) == unit = "mutex" /\ A /\ UNCHANGED <<irqVars, rpcVars, elfVars, unit>>
Ranges   == unit = "ranges" /\ IrqConfigure /\ UNCHANGED <<vars, rpcVars, elfVars, unit>>
Softirqs(A) == unit = "softirq" /\ A /\ UNCHANGED <<vars, rpcVars, elfVars, unit>>
Remote(A) == unit = "rpc" /\ A /\ UNCHANGED <<vars, irqVars, elfVars, unit>>
Loader(A) == unit = "loader" /\ A /\ UNCHANGED <<vars, irqVars, rpcVars, unit>>

MetalInit ==
  /\ unit \in {"mutex", "ranges", "softirq", "rpc", "loader"}
  /\ Init /\ IrqInit /\ RpcInit /\ ElfInit
  /\ unit # "loader" => ldImg = Image(<<Text>>, TRUE, "next", 0, 9)

MetalNext ==
  Mutex(Next) \/ Ranges \/ Softirqs(IrqUse) \/ Remote(RpcNext) \/ Loader(ElfNext)

\* A handler inside a lock call has the core to itself; the main loop calls
\* metal_softirq_dispatch again and again, and handlers return; callers, the
\* receive path, the host and a load that was called go on.
MetalFairness ==
  /\ \A h \in Handlers : WF_metalVars(Mutex(~Preempted(h) /\ ContextStep(h)))
  /\ WF_metalVars(Softirqs(DispatchCall)) /\ WF_metalVars(Softirqs(Dispatch))
  /\ WF_metalVars(Remote(CallerStep)) /\ WF_metalVars(Remote(FromHost))
  /\ WF_metalVars(Remote(HostAnswers)) /\ WF_metalVars(Loader(LoaderStep))

MetalSpec == MetalInit /\ [][MetalNext]_metalVars /\ MetalFairness
=============================================================================
