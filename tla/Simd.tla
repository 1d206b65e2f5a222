-------------------------------- MODULE Simd --------------------------------
(***************************************************************************)
(* The SIMD, saturation and bit-order intrinsics of csi_rv32_gcc.h, __REV  *)
(* to __RRX and __PKHBT to __UXTB16.  The core has no such instructions:   *)
(* each of them is C code that cuts the lanes out of a word with shifts,   *)
(* computes on them and packs the results again.  Words are numbers of     *)
(* 4 * BYTE bits; the code is BYTE = 8.                                    *)
(***************************************************************************)
EXTENDS Integers, FiniteSetsExt

CONSTANTS BYTE, XWords, YWords

HALF   == 2 * BYTE
WORD32 == 4 * BYTE
All    == 0 .. 3

ASSUME SimdAssumption ==
  /\ BYTE \in Nat \ {0}
  /\ XWords \subseteq 0 .. 2^(4 * BYTE) - 1
  /\ YWords \subseteq 0 .. 2^(4 * BYTE) - 1

\* Conversion of an integer to uint32_t, and of n bits to a signed value.
U32(v) == v % 2^WORD32
Signed(v, n) == IF v >= 2^(n - 1) THEN v - 2^n ELSE v
S32(v) == Signed(U32(v), WORD32)

\* (x << l) >> r on uint32_t, and on int32_t where the right shift keeps the
\* sign.
UShift(x, l, r) == U32(x * 2^l) \div 2^r
SShift(x, l, r) == S32(x * 2^l) \div 2^r

\* The operand of lane i of four bytes or of two halfwords.
UByte(x, i) == UShift(x, (3 - i) * BYTE, 3 * BYTE)
SByte(x, i) == SShift(x, (3 - i) * BYTE, 3 * BYTE)
UHalf(x, i) == UShift(x, (1 - i) * HALF, HALF)
SHalf(x, i) == SShift(x, (1 - i) * HALF, HALF)

\* (u << 24) | (t << 16) | (s << 8) | r and (s << 16) | r, each part masked.
Four(u, t, s, r) == (u % 2^BYTE) * 2^(3 * BYTE) + (t % 2^BYTE) * 2^(2 * BYTE)
                    + (s % 2^BYTE) * 2^BYTE + (r % 2^BYTE)
Two(s, r)    == (s % 2^HALF) * 2^HALF + (r % 2^HALF)
Pack8(F(_))  == Four(F(3), F(2), F(1), F(0))
Pack16(F(_)) == Two(F(1), F(0))
Sum4(F(_))   == F(3) + F(2) + F(1) + F(0)

\* Mutant: the largest value is one too large.
SSATOneTooFar(x, y) ==
  LET posMax == 2^(y - 1)
  IN  IF x > 0 THEN Min({x, posMax}) ELSE Max({x, -posMax})

SSAT(x, y) ==
  LET posMax == 2^(y - 1)
  IN  IF x > 0 THEN Min({x, posMax - 1}) ELSE Max({x, -posMax})
USAT(value, sat) == IF value >= 2^sat THEN 2^sat - 1 ELSE value
\* Only a borrow sets the top bit of the argument.
IUSAT(value, sat) == IF value >= 2^(WORD32 - 1) THEN 0 ELSE USAT(value, sat)

(***************************************************************************)
(* Four bytes.                                                             *)
(***************************************************************************)
QADD8(x, y)  == LET F(i) == SSAT(SByte(x, i) + SByte(y, i), BYTE) IN Pack8(F)
UQADD8(x, y) == LET F(i) == IUSAT(U32(UByte(x, i) + UByte(y, i)), BYTE) IN Pack8(F)
SADD8(x, y)  == LET F(i) == SByte(x, i) + SByte(y, i) IN Pack8(F)
UADD8(x, y)  == LET F(i) == UByte(x, i) + UByte(y, i) IN Pack8(F)
QSUB8(x, y)  == LET F(i) == SSAT(SByte(x, i) - SByte(y, i), BYTE) IN Pack8(F)
UQSUB8(x, y) == LET F(i) == IUSAT(U32(UByte(x, i) - UByte(y, i)), BYTE) IN Pack8(F)
SSUB8(x, y)  == LET F(i) == SByte(x, i) - SByte(y, i) IN Pack8(F)
USUB8(x, y)  == LET F(i) == UByte(x, i) - UByte(y, i) IN Pack8(F)
SHADD8(x, y) == LET F(i) == (SByte(x, i) + SByte(y, i)) \div 2 IN Pack8(F)
\* Mutant: the sum is cut to the lane before it is halved.
UHADD8Masked(x, y) == LET F(i) == ((UByte(x, i) + UByte(y, i)) % 2^BYTE) \div 2 IN Pack8(F)

UHADD8(x, y) == LET F(i) == U32(UByte(x, i) + UByte(y, i)) \div 2 IN Pack8(F)
SHSUB8(x, y) == LET F(i) == (SByte(x, i) - SByte(y, i)) \div 2 IN Pack8(F)
UHSUB8(x, y) == LET F(i) == U32(UByte(x, i) - UByte(y, i)) \div 2 IN Pack8(F)

\* USAD8 masks the differences, USADA8 takes their absolute values.
USAD8(x, y) ==
  U32(Sum4(LAMBDA i : (UByte(x, i) - UByte(y, i)) % 2^BYTE))
Abs(v) == IF v < 0 THEN -v ELSE v
USADA8(x, y, sum) ==
  U32(sum + Sum4(LAMBDA i : Abs(UByte(x, i) - UByte(y, i)) % 2^BYTE))

(***************************************************************************)
(* Two halfwords.                                                          *)
(***************************************************************************)
QADD16(x, y)  == LET F(i) == SSAT(SHalf(x, i) + SHalf(y, i), HALF) IN Pack16(F)
UQADD16(x, y) == LET F(i) == IUSAT(U32(UHalf(x, i) + UHalf(y, i)), HALF) IN Pack16(F)
SADD16(x, y)  == LET F(i) == SHalf(x, i) + SHalf(y, i) IN Pack16(F)
UADD16(x, y)  == LET F(i) == UHalf(x, i) + UHalf(y, i) IN Pack16(F)
SHADD16(x, y) == LET F(i) == (SHalf(x, i) + SHalf(y, i)) \div 2 IN Pack16(F)
UHADD16(x, y) == LET F(i) == U32(UHalf(x, i) + UHalf(y, i)) \div 2 IN Pack16(F)
QSUB16(x, y)  == LET F(i) == SSAT(SHalf(x, i) - SHalf(y, i), HALF) IN Pack16(F)
UQSUB16(x, y) == LET F(i) == IUSAT(U32(UHalf(x, i) - UHalf(y, i)), HALF) IN Pack16(F)
SSUB16(x, y)  == LET F(i) == SHalf(x, i) - SHalf(y, i) IN Pack16(F)
USUB16(x, y)  == LET F(i) == UHalf(x, i) - UHalf(y, i) IN Pack16(F)
SHSUB16(x, y) == LET F(i) == (SHalf(x, i) - SHalf(y, i)) \div 2 IN Pack16(F)
UHSUB16(x, y) == LET F(i) == U32(UHalf(x, i) - UHalf(y, i)) \div 2 IN Pack16(F)

\* The halfwords of y change places: ASX adds in the high lane and subtracts
\* in the low one, SAX the other way round.
SCross(x, y, i, high) == IF i = high THEN SHalf(x, i) + SHalf(y, 1 - i)
                                     ELSE SHalf(x, i) - SHalf(y, 1 - i)
UCross(x, y, i, high) == IF i = high THEN UHalf(x, i) + UHalf(y, 1 - i)
                                     ELSE UHalf(x, i) - UHalf(y, 1 - i)

QASX(x, y)  == LET F(i) == SSAT(SCross(x, y, i, 1), HALF) IN Pack16(F)
UQASX(x, y) == LET F(i) == IUSAT(U32(UCross(x, y, i, 1)), HALF) IN Pack16(F)
SASX(x, y)  == LET F(i) == SCross(x, y, i, 1) IN Pack16(F)
UASX(x, y)  == LET F(i) == UCross(x, y, i, 1) IN Pack16(F)
SHASX(x, y) == LET F(i) == SCross(x, y, i, 1) \div 2 IN Pack16(F)
UHASX(x, y) == LET F(i) == U32(UCross(x, y, i, 1)) \div 2 IN Pack16(F)
QSAX(x, y)  == LET F(i) == SSAT(SCross(x, y, i, 0), HALF) IN Pack16(F)
UQSAX(x, y) == LET F(i) == IUSAT(U32(UCross(x, y, i, 0)), HALF) IN Pack16(F)
USAX(x, y)  == LET F(i) == UCross(x, y, i, 0) IN Pack16(F)
SSAX(x, y)  == LET F(i) == SCross(x, y, i, 0) IN Pack16(F)
SHSAX(x, y) == LET F(i) == SCross(x, y, i, 0) \div 2 IN Pack16(F)
UHSAX(x, y) == LET F(i) == U32(UCross(x, y, i, 0)) \div 2 IN Pack16(F)

SSAT16(x, y) == LET F(i) == SSAT(SHalf(x, i), y) IN Pack16(F)
\* The halfwords reach IUSAT without their sign.
USAT16(x, y) == LET F(i) == IUSAT(UHalf(x, i), y) IN Pack16(F)

(***************************************************************************)
(* Products of halfwords.  The two products are added as int32_t before    *)
(* the sum is widened: with 64-bit accumulators too, the addition wraps    *)
(* there (int overflow is undefined in C, the compiler's add wraps).       *)
(***************************************************************************)
Straight(x, y, i) == SHalf(x, i) * SHalf(y, i)
Crossed(x, y, i)  == SHalf(x, i) * SHalf(y, 1 - i)
U64(v) == v % 2^(2 * WORD32)

SMUAD(x, y)       == U32(Straight(x, y, 0) + Straight(x, y, 1))
SMUSD(x, y)       == U32(Straight(x, y, 0) - Straight(x, y, 1))
SMUADX(x, y)      == U32(Crossed(x, y, 0) + Crossed(x, y, 1))
SMUSDX(x, y)      == U32(Crossed(x, y, 0) - Crossed(x, y, 1))
SMLAD(x, y, sum)  == U32(S32(Straight(x, y, 0) + Straight(x, y, 1)) + S32(sum))
SMLSD(x, y, sum)  == U32(S32(Straight(x, y, 0) - Straight(x, y, 1)) + S32(sum))
SMLADX(x, y, sum) == U32(S32(Crossed(x, y, 0) + Crossed(x, y, 1)) + S32(sum))
\* Mutant: the halfwords of y stay where they are.
SMLSDXUncrossed(x, y, sum) == U32(S32(Straight(x, y, 0) - Straight(x, y, 1)) + S32(sum))

SMLSDX(x, y, sum) == U32(S32(Crossed(x, y, 0) - Crossed(x, y, 1)) + S32(sum))
SMLALD(x, y, sum)  == U64(S32(Straight(x, y, 0) + Straight(x, y, 1)) + sum)
SMLSLD(x, y, sum)  == U64(S32(Straight(x, y, 0) - Straight(x, y, 1)) + sum)
SMLALDX(x, y, sum) == U64(S32(Crossed(x, y, 0) + Crossed(x, y, 1)) + sum)
SMLSLDX(x, y, sum) == U64(S32(Crossed(x, y, 0) - Crossed(x, y, 1)) + sum)
SMMLA(x, y, sum) == U32((S32(x) * S32(y)) \div 2^WORD32 + S32(sum))

(***************************************************************************)
(* Saturating words, and the moves of halfwords, bytes and bits.           *)
(***************************************************************************)
\* The wrapped sum is compared with x to see an overflow.
QADD(x, y) ==
  IF y >= 0 THEN IF S32(x + y) >= x THEN x + y ELSE 2^(WORD32 - 1) - 1
            ELSE IF S32(x + y) < x THEN x + y ELSE -2^(WORD32 - 1)
QSUB(x, y) == Max({-2^(WORD32 - 1), Min({x - y, 2^(WORD32 - 1) - 1})})

HighPart(v) == v - (v % 2^HALF)
PKHBT(x, y, n) == (x % 2^HALF) + HighPart(U32(y * 2^n))
\* Mutant: the second operand is shifted without its sign.
PKHTBUnsigned(x, y, n) == HighPart(x) + ((y \div 2^n) % 2^HALF)

PKHTB(x, y, n) == HighPart(x) + ((S32(y) \div 2^n) % 2^HALF)
SXTB16(x) == (SShift(x, 3 * BYTE, 3 * BYTE) % 2^HALF) + U32(HighPart(SShift(x, BYTE, BYTE)))
UXTB16(x) == (UShift(x, 3 * BYTE, 3 * BYTE) % 2^HALF) + HighPart(UShift(x, BYTE, BYTE))
SXTAB16(x, y) == ((SByte(y, 0) + SHalf(x, 0)) % 2^HALF)
                 + U32(HighPart(SShift(y, BYTE, BYTE) + HighPart(x)))
UXTAB16(x, y) == ((UByte(y, 0) + UHalf(x, 0)) % 2^HALF)
                 + U32(HighPart(UShift(y, BYTE, BYTE) + HighPart(x)))

REV(v)   == LET F(i) == UByte(v, 3 - i) IN Pack8(F)
REV16(v) == LET F(i) == UByte(v, IF i % 2 = 0 THEN i + 1 ELSE i - 1) IN Pack8(F)
REVSH(v) == Signed(UByte(v, 0) * 2^BYTE + UByte(v, 1), HALF)
ROR(v, n) == v \div 2^n + U32(v * 2^(WORD32 - n))
\* The body of __RRX, which the comment above it calls a rotation, is return 0.
RRX(op1) == 0

\* The loop of __RBIT: result after k rounds, and the rounds until no bit of
\* value is left.
Reversed(v) == LET R[k \in 0 .. WORD32] == IF k = 0 THEN v
                                           ELSE U32(2 * R[k - 1]) + ((v \div 2^k) % 2)
               IN  R
Rounds(v) == Min({k \in 0 .. WORD32 - 1 : v \div 2^(k + 1) = 0})

\* Mutant: no shift makes up for the leading zeros.
RBITUnshifted(v) == Reversed(v)[Rounds(v)]

\* What remains of the shift s makes up for the leading zeros.
RBIT(v) == U32(Reversed(v)[Rounds(v)] * 2^(WORD32 - 1 - Rounds(v)))
-----------------------------------------------------------------------------
(***************************************************************************)
(* The operands of one evaluation.                                         *)
(***************************************************************************)
VARIABLES opX, opY, ready

simdVars == <<opX, opY, ready>>
SimdInit == opX = 0 /\ opY = 0 /\ ready = FALSE
Operands == /\ ~ready /\ ready' = TRUE
            /\ opX' \in XWords /\ opY' \in YWords
Again    == ready /\ ready' = FALSE /\ opX' = 0 /\ opY' = 0
SimdNext == Operands \/ Again
SimdSpec == SimdInit /\ [][SimdNext]_simdVars

(***************************************************************************)
(* References: the lane of a word as its digits, and the saturated value   *)
(* as the representable one that is nearest.                               *)
(***************************************************************************)
Digit(x, n, i) == (x \div 2^(n * i)) % 2^n
SDigit(x, n, i) == Signed(Digit(x, n, i), n)
Nearest(v, lo, hi) == Max({lo, Min({v, hi})})
NearestS(v, n) == Nearest(v, -2^(n - 1), 2^(n - 1) - 1)
NearestU(v, n) == Nearest(v, 0, 2^n - 1)

\* Lane i of r, read with or without sign, is E(i) in every lane of n bits.
SLanesAre(r, n, E(_)) == \A i \in 0 .. WORD32 \div n - 1 : SDigit(r, n, i) = E(i)
ULanesAre(r, n, E(_)) == \A i \in 0 .. WORD32 \div n - 1 : Digit(r, n, i) = E(i)

SAdd(n, i) == SDigit(opX, n, i) + SDigit(opY, n, i)
SSub(n, i) == SDigit(opX, n, i) - SDigit(opY, n, i)
UAdd(n, i) == Digit(opX, n, i) + Digit(opY, n, i)
USub(n, i) == Digit(opX, n, i) - Digit(opY, n, i)
\* The exchanged operations: the high lane adds (asx) or the low one does.
SX(i, adds) == SDigit(opX, HALF, i) + (IF i = adds THEN 1 ELSE -1) * SDigit(opY, HALF, 1 - i)
UX(i, adds) == Digit(opX, HALF, i) + (IF i = adds THEN 1 ELSE -1) * Digit(opY, HALF, 1 - i)
\* A saturating operation yields, in every lane, the value nearest to the exact
\* result that the lane can hold; no lane carries into its neighbour.  USAT16
\* saturates the halfwords as unsigned numbers, so that a negative one ends at
\* the top of the range and not at zero.
SaturatesToNearest ==
  ready =>
  /\ SLanesAre(QADD8(opX, opY), BYTE, LAMBDA i : NearestS(SAdd(BYTE, i), BYTE))
  /\ SLanesAre(QSUB8(opX, opY), BYTE, LAMBDA i : NearestS(SSub(BYTE, i), BYTE))
  /\ ULanesAre(UQADD8(opX, opY), BYTE, LAMBDA i : NearestU(UAdd(BYTE, i), BYTE))
  /\ ULanesAre(UQSUB8(opX, opY), BYTE, LAMBDA i : NearestU(USub(BYTE, i), BYTE))
  /\ SLanesAre(QADD16(opX, opY), HALF, LAMBDA i : NearestS(SAdd(HALF, i), HALF))
  /\ SLanesAre(QSUB16(opX, opY), HALF, LAMBDA i : NearestS(SSub(HALF, i), HALF))
  /\ ULanesAre(UQADD16(opX, opY), HALF, LAMBDA i : NearestU(UAdd(HALF, i), HALF))
  /\ ULanesAre(UQSUB16(opX, opY), HALF, LAMBDA i : NearestU(USub(HALF, i), HALF))
  /\ SLanesAre(QASX(opX, opY), HALF, LAMBDA i : NearestS(SX(i, 1), HALF))
  /\ SLanesAre(QSAX(opX, opY), HALF, LAMBDA i : NearestS(SX(i, 0), HALF))
  /\ ULanesAre(UQASX(opX, opY), HALF, LAMBDA i : NearestU(UX(i, 1), HALF))
  /\ ULanesAre(UQSAX(opX, opY), HALF, LAMBDA i : NearestU(UX(i, 0), HALF))
  /\ QADD(S32(opX), S32(opY)) = NearestS(S32(opX) + S32(opY), WORD32)
  /\ QSUB(S32(opX), S32(opY)) = NearestS(S32(opX) - S32(opY), WORD32)
  /\ \A n \in 1 .. HALF :
       /\ SLanesAre(SSAT16(opX, n), HALF, LAMBDA i : NearestS(SDigit(opX, HALF, i), n))
       /\ ULanesAre(USAT16(opX, n), HALF, LAMBDA i : NearestU(Digit(opX, HALF, i), n))
  /\ \A n \in 1 .. WORD32 - 1 : /\ SSAT(S32(opX), n) = NearestS(S32(opX), n)
                                 /\ USAT(opX, n) = NearestU(opX, n)

\* The modular operations agree with the exact result modulo the lane in every
\* lane, signed and unsigned alike, and the halving ones lose nothing but the
\* last bit: the carry or borrow of the addition is still there when it is
\* halved.  USADA8 adds up absolute differences; USAD8 adds up differences
\* modulo the byte, so that a byte smaller than its counterpart contributes 2^BYTE
\* minus their distance.
LanesExact ==
  ready =>
  /\ SADD8(opX, opY) = UADD8(opX, opY) /\ SSUB8(opX, opY) = USUB8(opX, opY)
  /\ SADD16(opX, opY) = UADD16(opX, opY) /\ SSUB16(opX, opY) = USUB16(opX, opY)
  /\ SASX(opX, opY) = UASX(opX, opY) /\ SSAX(opX, opY) = USAX(opX, opY)
  /\ ULanesAre(UADD8(opX, opY), BYTE, LAMBDA i : UAdd(BYTE, i) % 2^BYTE)
  /\ ULanesAre(USUB8(opX, opY), BYTE, LAMBDA i : USub(BYTE, i) % 2^BYTE)
  /\ ULanesAre(UADD16(opX, opY), HALF, LAMBDA i : UAdd(HALF, i) % 2^HALF)
  /\ ULanesAre(USUB16(opX, opY), HALF, LAMBDA i : USub(HALF, i) % 2^HALF)
  /\ ULanesAre(UASX(opX, opY), HALF, LAMBDA i : UX(i, 1) % 2^HALF)
  /\ ULanesAre(USAX(opX, opY), HALF, LAMBDA i : UX(i, 0) % 2^HALF)
  /\ SLanesAre(SHADD8(opX, opY), BYTE, LAMBDA i : SAdd(BYTE, i) \div 2)
  /\ SLanesAre(SHSUB8(opX, opY), BYTE, LAMBDA i : SSub(BYTE, i) \div 2)
  /\ ULanesAre(UHADD8(opX, opY), BYTE, LAMBDA i : UAdd(BYTE, i) \div 2)
  /\ ULanesAre(UHSUB8(opX, opY), BYTE, LAMBDA i : (USub(BYTE, i) \div 2) % 2^BYTE)
  /\ SLanesAre(SHADD16(opX, opY), HALF, LAMBDA i : SAdd(HALF, i) \div 2)
  /\ SLanesAre(SHSUB16(opX, opY), HALF, LAMBDA i : SSub(HALF, i) \div 2)
  /\ ULanesAre(UHADD16(opX, opY), HALF, LAMBDA i : UAdd(HALF, i) \div 2)
  /\ ULanesAre(UHSUB16(opX, opY), HALF, LAMBDA i : (USub(HALF, i) \div 2) % 2^HALF)
  /\ SLanesAre(SHASX(opX, opY), HALF, LAMBDA i : SX(i, 1) \div 2)
  /\ SLanesAre(SHSAX(opX, opY), HALF, LAMBDA i : SX(i, 0) \div 2)
  /\ ULanesAre(UHASX(opX, opY), HALF, LAMBDA i : (UX(i, 1) \div 2) % 2^HALF)
  /\ ULanesAre(UHSAX(opX, opY), HALF, LAMBDA i : (UX(i, 0) \div 2) % 2^HALF)
  /\ USADA8(opX, opY, opX) = U32(opX + Sum4(LAMBDA i : Abs(USub(BYTE, i))))
  /\ USAD8(opX, opY) = U32(Sum4(LAMBDA i : USub(BYTE, i) + (IF USub(BYTE, i) < 0 THEN 2^BYTE ELSE 0)))

\* The products of halfwords are exact modulo the accumulator, but for one value:
\* the sum of two products of the least halfword wraps in int32_t before a 64-bit
\* accumulator widens it, and 2^WORD32 is lost.
ProductsExact ==
  ready =>
  LET P(i) == SDigit(opX, HALF, i) * SDigit(opY, HALF, i)
      C(i) == SDigit(opX, HALF, i) * SDigit(opY, HALF, 1 - i)
      Wide(acc, exact) ==
        acc = U64(exact + opX - (IF exact = 2^(WORD32 - 1) THEN 2^WORD32 ELSE 0))
  IN  /\ SMUAD(opX, opY) = U32(P(0) + P(1)) /\ SMUSD(opX, opY) = U32(P(0) - P(1))
      /\ SMUADX(opX, opY) = U32(C(0) + C(1)) /\ SMUSDX(opX, opY) = U32(C(0) - C(1))
      /\ SMLAD(opX, opY, opY) = U32(P(0) + P(1) + opY)
      /\ SMLSD(opX, opY, opY) = U32(P(0) - P(1) + opY)
      /\ SMLADX(opX, opY, opY) = U32(C(0) + C(1) + opY)
      /\ SMLSDX(opX, opY, opY) = U32(C(0) - C(1) + opY)
      /\ Wide(SMLALD(opX, opY, opX), P(0) + P(1)) /\ Wide(SMLSLD(opX, opY, opX), P(0) - P(1))
      /\ Wide(SMLALDX(opX, opY, opX), C(0) + C(1)) /\ Wide(SMLSLDX(opX, opY, opX), C(0) - C(1))
      /\ S32(SMMLA(opX, opY, 0)) * 2^WORD32 \in
           (S32(opX) * S32(opY) - 2^WORD32 + 1) .. (S32(opX) * S32(opY))

\* The moves lose and mix nothing: reversals undo themselves and send every bit
\* or byte to its mirror place, rotations add up to a full turn, and packing and
\* extension take exactly the named halves and bytes: bit by bit, PKHBT shifts
\* zeros in from below and PKHTB copies of the sign from above.  RRX alone loses
\* its operand.
MovesExact ==
  ready =>
  /\ \A i \in 0 .. WORD32 - 1 : Digit(RBIT(opX), 1, i) = Digit(opX, 1, WORD32 - 1 - i)
  /\ ULanesAre(REV(opX), BYTE, LAMBDA i : Digit(opX, BYTE, 3 - i))
  /\ REV16(REV16(opX)) = opX /\ REV16(REV(opX)) = ROR(opX, HALF)
  /\ REVSH(opX) = SDigit(REV16(opX), HALF, 0)
  /\ \A n \in 1 .. WORD32 - 1 : ROR(ROR(opX, n), WORD32 - n) = opX
  /\ RRX(opX) = 0
  /\ \A n \in 0 .. WORD32 - 1 :
       /\ Digit(PKHBT(opX, opY, n), HALF, 0) = Digit(opX, HALF, 0)
       /\ Digit(PKHTB(opX, opY, n), HALF, 1) = Digit(opX, HALF, 1)
       /\ \A i \in HALF .. WORD32 - 1 :
            Digit(PKHBT(opX, opY, n), 1, i) = IF i < n THEN 0 ELSE Digit(opY, 1, i - n)
       /\ \A i \in 0 .. HALF - 1 :
            Digit(PKHTB(opX, opY, n), 1, i) = Digit(opY, 1, Min({i + n, WORD32 - 1}))
  /\ SLanesAre(SXTB16(opX), HALF, LAMBDA i : SDigit(opX, BYTE, 2 * i))
  /\ ULanesAre(UXTB16(opX), HALF, LAMBDA i : Digit(opX, BYTE, 2 * i))
  /\ SXTAB16(opY, opX) = SADD16(opY, SXTB16(opX))
  /\ UXTAB16(opY, opX) = UADD16(opY, UXTB16(opX))

\* The intrinsics of csi_rv32_gcc.h, from the bit reversals to the extensions,
\* compute what these parts say, for every operand and every width that is
\* defined in C.
IntrinsicsExact == SaturatesToNearest /\ LanesExact /\ ProductsExact /\ MovesExact
=============================================================================
