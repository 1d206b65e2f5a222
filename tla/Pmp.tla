--------------------------------- MODULE Pmp --------------------------------
(***************************************************************************)
(* Physical memory protection: the pmpcfg and pmpaddr accessors of         *)
(* csi_rv32_gcc.h and csi_mpu_config_region / csi_mpu_disable_region of    *)
(* core_rv32.h.  A configuration register holds four bytes, one per        *)
(* region; what a byte means, and that a locked entry ignores writes, is   *)
(* the hardware's (external).                                              *)
(***************************************************************************)
EXTENDS Integers

CONSTANTS ADDR_BITS,    \* width of an address (32)
          PmpIdx,       \* indices that callers use
          Sizes_e,      \* region_size_e values that callers use, -1 for 4 bytes
          MaxPmpCalls

ASSUME PmpAssumption ==
  ADDR_BITS \in Nat /\ PmpIdx \subseteq Nat /\ Sizes_e \subseteq -1 .. ADDR_BITS - 3 /\ MaxPmpCalls \in Nat

Regions16 == 0 .. 15
OFF == 0
TOR == 1    \* ADDRESS_MATCHING_TOR
NA4 == 2
NAPOT == 3  \* ADDRESS_MATCHING_NAPOT

VARIABLES pmpcfg,   \* pmpcfg0 .. pmpcfg3, each four bytes
          pmpaddr,  \* pmpaddr0 .. pmpaddr15
          config,   \* the last call of csi_mpu_config_region for each region; half
                    \* if the region above had its address register locked
          pmpCalls

pmpVars == <<pmpcfg, pmpaddr, config, pmpCalls>>

NoConfig == [base |-> 0, size |-> 0, a |-> OFF, enable |-> FALSE, half |-> FALSE]

PmpInit ==
  /\ pmpcfg = [k \in 0 .. 3 |-> [j \in 0 .. 3 |-> 0]]
  /\ pmpaddr = [i \in Regions16 |-> 0]
  /\ config = [i \in Regions16 |-> NoConfig] /\ pmpCalls = 0

\* The fields of a configuration byte.
ABits(cfg) == (cfg \div 8) % 4
Locked(cfg) == cfg \div 128 = 1
-----------------------------------------------------------------------------
\* __get_PMPxCFG: byte idx % 4 of the register with regions 4k .. 4k + 3.
GetPMPxCFG(cfgs, idx) == IF idx \in Regions16 THEN cfgs[idx \div 4][idx % 4] ELSE 0

\* The hardware drops a write to a locked byte.
Written(cfgs, k, j, cfg) == IF Locked(cfgs[k][j]) THEN cfgs ELSE [cfgs EXCEPT ![k][j] = cfg]

\* Mutant: the first four regions are served whatever the index.
SetPMPxCFGFirst(cfgs, idx, cfg) == IF idx \in Regions16 THEN Written(cfgs, 0, idx % 4, cfg) ELSE cfgs

\* __set_PMPxCFG: read, replace the byte, write back.
SetPMPxCFG(cfgs, idx, cfg) == IF idx \in Regions16 THEN Written(cfgs, idx \div 4, idx % 4, cfg) ELSE cfgs

\* An address register is locked with its entry, and with a locked
\* top-of-range entry above it.
AddrLocked(cfgs, idx) ==
  \/ Locked(GetPMPxCFG(cfgs, idx))
  \/ Locked(GetPMPxCFG(cfgs, idx + 1)) /\ ABits(GetPMPxCFG(cfgs, idx + 1)) = TOR

\* __set_PMPADDRx: a switch over the sixteen registers.
SetPMPADDRx(addrs, idx, addr) ==
  IF idx \in Regions16 /\ ~AddrLocked(pmpcfg, idx) THEN [addrs EXCEPT ![idx] = addr] ELSE addrs

\* __get_PMPADDRx.
GetPMPADDRx(addrs, idx) == IF idx \in Regions16 THEN addrs[idx] ELSE 0
-----------------------------------------------------------------------------
\* Mutant: the ones are one too many.
NapotAddrWide(base, size) ==
  LET word == base \div 4 IN word - (word % 2^(size + 1)) + 2^(size + 1) - 1

\* (base >> 2) with its low size + 1 bits replaced by a zero and size ones.
NapotAddr(base, size) ==
  LET word == base \div 4 IN word - (word % 2^(size + 1)) + 2^size - 1

\* The matching mode that is written: 4 bytes are NA4, also when the region is
\* to be disabled.
Mode(a, size, enable) ==
  LET wanted4 == IF enable THEN a ELSE OFF
  IN  IF wanted4 # TOR /\ size = -1 THEN NA4 ELSE wanted4

\* csi_mpu_config_region; w and x are like r.
ConfigRegion(idx, base, size, r, a, l, enable) ==
  /\ pmpCalls < MaxPmpCalls /\ pmpCalls' = pmpCalls + 1
  /\ idx \in Regions16
  /\ LET mode == Mode(a, size, enable)
         addr == IF mode = TOR \/ size = -1 THEN base \div 4 ELSE NapotAddr(base, size)
     IN  /\ pmpaddr' = SetPMPADDRx(pmpaddr, idx, addr)
         /\ pmpcfg' = SetPMPxCFG(pmpcfg, idx, 7 * r + 8 * mode + 128 * l)
         /\ config' = [config EXCEPT ![idx] =
              IF Locked(GetPMPxCFG(pmpcfg, idx)) THEN @
              ELSE [base |-> base, size |-> size, a |-> a, enable |-> enable,
                    half |-> AddrLocked(pmpcfg, idx)]]

\* csi_mpu_disable_region: the A bits are cleared.
DisableRegion(idx) ==
  /\ pmpCalls < MaxPmpCalls /\ pmpCalls' = pmpCalls + 1
  /\ LET cfg == GetPMPxCFG(pmpcfg, idx)
     IN  pmpcfg' = SetPMPxCFG(pmpcfg, idx, cfg - 8 * ABits(cfg))
  /\ config' = IF idx \in Regions16 /\ ~Locked(GetPMPxCFG(pmpcfg, idx))
               THEN [config EXCEPT ![idx] = NoConfig] ELSE config
  /\ UNCHANGED pmpaddr

\* csi_system_reset and csi_core_reset: the entries, locked ones too, are off.
PmpReset ==
  /\ pmpCalls = MaxPmpCalls
  /\ pmpcfg' = [k \in 0 .. 3 |-> [j \in 0 .. 3 |-> 0]] /\ pmpaddr' = [i \in Regions16 |-> 0]
  /\ config' = [i \in Regions16 |-> NoConfig] /\ pmpCalls' = 0

\* An index above 15 is ignored by every call.
PmpCall ==
  \E idx \in PmpIdx :
    \/ \E size \in Sizes_e, a \in {TOR, NAPOT}, rl \in {<<1, 0>>, <<0, 1>>}, enable \in BOOLEAN :
         \E base \in {b \in 0 .. 2^ADDR_BITS - 1 : b % 2^(size + 3) = 0} :
           ConfigRegion(idx, base, size, rl[1], a, rl[2], enable)
    \/ DisableRegion(idx)

PmpNext == PmpCall \/ PmpReset

PmpSpec == PmpInit /\ [][PmpNext]_pmpVars
-----------------------------------------------------------------------------
\* The number of ones at the end of n.
TrailingOnes(n) == CHOOSE k \in 0 .. ADDR_BITS : n % 2^(k + 1) = 2^k - 1

\* The bytes the hardware matches with entry i.
Protected(cfgs, addrs, i) ==
  LET mode == ABits(GetPMPxCFG(cfgs, i))
      addr == GetPMPADDRx(addrs, i)
      k    == TrailingOnes(addr)
      low  == IF i = 0 THEN 0 ELSE addrs[i - 1]
  IN  CASE mode = OFF -> {}
        [] mode = TOR -> 4 * low .. 4 * addr - 1
        [] mode = NA4 -> 4 * addr .. 4 * addr + 3
        [] mode = NAPOT -> 4 * (addr - (2^k - 1)) .. 4 * (addr - (2^k - 1)) + 2^(k + 3) - 1

\* A naturally aligned region protects exactly the bytes it was configured
\* for, whatever was configured or locked in other regions since, unless its
\* address was locked by then, and a disabled one none.  (Disabling through
\* csi_mpu_config_region with 4 bytes leaves the entry enabled as NA4.)
RegionExact ==
  \A i \in Regions16 :
    LET c == config[i]
    IN  /\ c.enable /\ c.a = NAPOT /\ ~c.half
             => Protected(pmpcfg, pmpaddr, i) = c.base .. c.base + 2^(c.size + 3) - 1
        /\ ~c.enable /\ c.size # -1 => Protected(pmpcfg, pmpaddr, i) = {}

\* A call for one region changes no other, but for the lower end of a
\* top-of-range region above it; and a locked region is never changed.
OthersKept ==
  \A i \in Regions16 :
    \/ config'[i] # config[i]
    \/ ABits(GetPMPxCFG(pmpcfg, i)) = TOR /\ ~Locked(GetPMPxCFG(pmpcfg, i))
    \/ Protected(pmpcfg, pmpaddr, i)' = Protected(pmpcfg, pmpaddr, i)

\* Each region protects what it was configured for, whatever calls for the
\* regions that share its register come before or after.
RegionsExact == [][pmpCalls' > pmpCalls => RegionExact' /\ OthersKept]_pmpVars
=============================================================================
